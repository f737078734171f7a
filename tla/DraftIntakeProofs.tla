--------------------------- MODULE DraftIntakeProofs ---------------------------
(***************************************************************************)
(* Proofs about DraftIntake, for every set of forms, messages and           *)
(* situations that IntakeAssumption allows, and every receive limit.       *)
(*                                                                         *)
(* One lemma for each action says what it does to the session, the queue   *)
(* and the records (FormEffect, WorkerEffect, WorkflowEffect).  From these *)
(* effects the base invariant is proved, which has the types, the versions *)
(* of the copies, and what each stage has established; and on it, each in  *)
(* a part of its own, the outcomes of the uploads, the automatic start,    *)
(* what the host has loaded, and the Workshop marker.                      *)
(***************************************************************************)
EXTENDS DraftIntake, TLAPS

-----------------------------------------------------------------------------
(* The types *)

LockedLives == {"VALIDATING", "RESTARTING", "STOPPING", "WAKING", "DELETING"}
Lives == {"DRAFT", "NEW", "RUNNING", "SLEEPING", "FAILED"} \cup LockedLives
Statuses == {"", "PENDING", "ACCEPTED", "REJECTED"}
Keys == Messages \cup {None}

SessionType ==
    [life : Lives, version : Nat, revision : Nat, locked : BOOLEAN, hosted : BOOLEAN,
     vanilla : BOOLEAN, dlc : BOOLEAN, start : BOOLEAN,
     mission : Statuses, preset : Statuses, server : Statuses,
     hasPreset : BOOLEAN, hasServer : BOOLEAN,
     files : SUBSET Contents, removed : SUBSET Contents,
     configured : Contents \cup {Default}, current : Contents \cup {Default, None},
     marker : [target : {"none", "mission", "mods"}, key : Keys]]

FormStages == {"load", "save", "again", "start", "mark", "mark-again", "enqueue",
               "enqueue-again", "unmark", "failed"}
WorkerStages == {"idle", "load", "save", "copy", "start", "clear", "clearing"}

FormType == [at : Nat \ {0}, stage : FormStages, copy : SessionType]

WorkerType ==
    [stage : WorkerStages, message : Keys, copy : SessionType,
     outcome : {"none", "accepted", "rejected"}]

HostType == [missions : SUBSET (Contents \cup {Default}),
             loaded : Contents \cup {Default, None}, woken : BOOLEAN]

CommandType == [id : Nat, revision : Nat, taken : BOOLEAN]

TypeInv ==
    /\ situation \in Situations
    /\ session \in SessionType
    /\ forms \in [Forms -> FormType]
    /\ queue \in Seq(Messages) /\ seen \subseteq Messages /\ dead \subseteq Messages
    /\ receives \in [Messages -> Nat]
    /\ worker \in WorkerType
    /\ commands \subseteq CommandType /\ begun \in Seq(Nat)
    /\ host \in HostType
    /\ restarts \in Nat

-----------------------------------------------------------------------------
(* The inductive invariant *)

(* A copy that is as old as the session is the session: only a save moves   *)
(* the version, and every save does.                                       *)
Fresh(c, s) == c.version <= s.version /\ (c.version = s.version => c = s)

CopyInv ==
    /\ Fresh(NewSession, session) /\ Fresh(worker.copy, session)
    /\ \A f \in Forms : Fresh(forms[f].copy, session)

(* What the session says of itself. *)
Ready(s) == s.revision > 0 /\ s.server # "PENDING"

Sound(s) ==
    /\ s.configured \in s.files \cup {Default}
    /\ s.removed \subseteq s.files
    /\ s.life = "NEW" => Ready(s)
    /\ s.locked <=> s.life \in LockedLives

(* The marker has the target of its message. *)
MarkerFits ==
    LET m == session.marker.key
    IN  m # None => IsWorkshop(m) /\ session.marker.target = Target(m)

(* A form is at a stage of its call, and saves what it has looked at. *)
Fits(c, stage, copy) ==
    /\ stage \in {"save", "again", "start"} => c.op \in Saving
    /\ stage = "save" => Accepts(copy, c)
    /\ stage \in {"mark", "mark-again", "enqueue", "enqueue-again", "unmark"} =>
          c.op = "resolve"

FormInv ==
    \A f \in Forms : forms[f].at <= Len(situation.forms[f].calls) =>
        Fits(Call(f), forms[f].stage, forms[f].copy)

(* The worker has the first message of the queue, and is at a stage of it. *)
Handles(stage, m, outcome, keys) ==
    /\ stage = "save" /\ ~IsWorkshop(m) =>
          outcome \in {"accepted", "rejected"} /\ (outcome = "accepted" => IsValid(m))
    /\ stage = "copy" => ~IsWorkshop(m)
    /\ stage = "start" /\ IsWorkshop(m) => OutcomeKey(m, "accepted") \in keys
    /\ stage \in {"clear", "clearing"} => IsWorkshop(m)

WorkerInv ==
    /\ \A n \in DOMAIN queue : queue[n] \in seen
    /\ \A m \in seen : Kind(m) \in UploadKinds \cup WorkshopKinds
    /\ ~Busy("idle") => queue # <<>> /\ Message = Head(queue)
    /\ Handles(worker.stage, Message, worker.outcome, records)

BaseInv == TypeInv /\ CopyInv /\ Sound(session) /\ MarkerFits /\ FormInv /\ WorkerInv

(* What was recorded of the uploads, and the files of the session. *)
OutcomeInv ==
    /\ \A m \in Messages : OutcomeKey(m, "accepted") \in records =>
          /\ m \in seen
          /\ Kind(m) = "mission" => Content(m) \in session.files
          /\ Kind(m) = "preset" => session.hasPreset
          /\ Kind(m) = "server" => session.hasServer
    /\ \A c \in session.files : \E n \in Messages :
          /\ Kind(n) = "mission" /\ Content(n) = c /\ IsValid(n)
          /\ OutcomeKey(n, "accepted") \in records

(* A command is named for its revision, and is sent and taken once. *)
StartInv ==
    /\ \A c \in commands : c.id = c.revision
    /\ \A c, d \in commands : c.id = d.id => c = d
    /\ \A i \in DOMAIN begun : \E c \in commands : c.taken /\ c.id = begun[i]
    /\ AutomaticStartIsOnce

(* What is loaded is the current mission, as long as no wake has selected    *)
(* another; nothing is loaded before a host is recorded, which is not before *)
(* a start succeeds or fails.                                              *)
HostInv ==
    /\ session.life \in {"DRAFT", "NEW", "VALIDATING"} => ~session.hosted
    /\ ~session.hosted => host.loaded = None
    /\ ~host.woken => host.loaded \in {None, session.current}

(* A call for the message is to be made, or is under way, or failed. *)
AtCall(f, m) == forms[f].at <= Len(situation.forms[f].calls) /\ Call(f).message = m

(* A call for it was made, or failed after its send. *)
Called(f, m) ==
    \E n \in DOMAIN situation.forms[f].calls :
        /\ situation.forms[f].calls[n].message = m
        /\ n < forms[f].at \/ (n = forms[f].at /\ forms[f].stage \in {"unmark", "failed"})

InQueue(m) == \E n \in DOMAIN queue : queue[n] = m

MarkerInv ==
    /\ \A m \in seen : \E f \in Forms : Called(f, m)
    /\ \A m \in Messages : (\A f \in Forms : ~AtCall(f, m)) /\ ~DeliveredTwice(m) =>
          /\ session.marker.key = m => InQueue(m) \/ m \in dead
          /\ IsWorkshop(m) /\ OutcomeKey(m, "accepted") \in records => session.marker.key # m

-----------------------------------------------------------------------------
(* What the operations do to a session *)

(* The fields that the properties are about, beside the state. *)
Like(s, t) ==
    /\ t.revision = s.revision /\ t.server = s.server /\ t.configured = s.configured
    /\ t.files = s.files /\ t.removed = s.removed
    /\ t.current = s.current /\ t.hosted = s.hosted
    /\ t.hasPreset = s.hasPreset /\ t.hasServer = s.hasServer
    /\ t.marker = s.marker /\ t.locked = s.locked

(* What every save keeps. *)
Saved(s, t) ==
    /\ t \in SessionType /\ Sound(t) /\ t.version = s.version + 1
    /\ s.files \subseteq t.files
    /\ s.hasPreset => t.hasPreset
    /\ s.hasServer => t.hasServer

(* What every save of a form or of the worker keeps. *)
Edits(s, t) ==
    /\ Saved(s, t)
    /\ t.current = s.current /\ t.hosted = s.hosted
    /\ t.life = s.life \/ {s.life, t.life} \subseteq {"DRAFT", "NEW"}
    /\ \A x \in t.removed \ s.removed : x \in s.files /\ x # s.current /\ ~s.locked

LEMMA NewSessionTyped ==
    /\ NewSession \in SessionType /\ Sound(NewSession)
    /\ NewSession.version = 1 /\ NewSession.life = "DRAFT" /\ NewSession.marker.key = None
    /\ NewSession.files = {} /\ NewSession.removed = {} /\ ~NewSession.hosted
BY DEF NewSession, NoMarker, SessionType, Sound, Lives, LockedLives, Statuses, Keys

LEMMA MutationFields ==
    ASSUME NEW s \in SessionType
    PROVE  /\ Mutation(s) \in SessionType /\ Like(s, Mutation(s))
           /\ Mutation(s).life = s.life /\ Mutation(s).version = s.version + 1
<1> DEFINE t == [s EXCEPT !.version = @ + 1]
<1>1. t \in SessionType
  BY DEF SessionType
<1>2. Like(s, t) /\ t.life = s.life /\ t.version = s.version + 1
  BY DEF SessionType, Like
<1>3. QED
  BY <1>1, <1>2 DEF Mutation

LEMMA ReadyFields ==
    ASSUME NEW s \in SessionType
    PROVE  LET t == markReadyWhenComplete(s)
           IN  /\ t \in SessionType /\ Like(s, t) /\ t.version = s.version
               /\ t.life = s.life \/ (s.life = "DRAFT" /\ t.life = "NEW" /\ Ready(s))
<1> DEFINE t == [s EXCEPT !.life = "NEW"]
<1>1. t \in SessionType
  BY DEF SessionType, Lives
<1>2. Like(s, t) /\ t.life = "NEW" /\ t.version = s.version
  BY DEF SessionType, Like
<1>3. Like(s, s)
  BY DEF Like
<1>4. \/ markReadyWhenComplete(s) = s
      \/ markReadyWhenComplete(s) = t /\ s.life = "DRAFT" /\ Ready(s)
  BY DEF markReadyWhenComplete, Ready
<1> HIDE DEF t
<1>5. QED
  BY <1>1, <1>2, <1>3, <1>4

LEMMA LikeSound ==
    ASSUME NEW s \in SessionType, NEW t \in SessionType, Sound(s), Like(s, t),
           t.life = s.life \/ (s.life = "DRAFT" /\ t.life = "NEW" /\ Ready(s))
    PROVE  Sound(t)
BY DEF Sound, Like, Ready, LockedLives

(* A mutation of what may become ready. *)
LEMMA MutationReady ==
    ASSUME NEW s \in SessionType, Sound(s)
    PROVE  LET t == markReadyWhenComplete(Mutation(s))
           IN  /\ t \in SessionType /\ Sound(t) /\ Like(s, t) /\ t.version = s.version + 1
               /\ t.life = s.life \/ {s.life, t.life} \subseteq {"DRAFT", "NEW"}
<1> DEFINE m == Mutation(s)
           t == markReadyWhenComplete(m)
<1>1. m \in SessionType /\ Like(s, m) /\ m.life = s.life /\ m.version = s.version + 1
  BY MutationFields
<1>2. Sound(m)
  BY <1>1, LikeSound
<1> HIDE DEF m
<1>3. /\ t \in SessionType /\ Like(m, t) /\ t.version = m.version
      /\ t.life = m.life \/ (m.life = "DRAFT" /\ t.life = "NEW" /\ Ready(m))
  BY <1>1, ReadyFields
<1> HIDE DEF t
<1>4. Sound(t)
  BY <1>1, <1>2, <1>3, LikeSound
<1>5. Like(s, t)
  BY <1>1, <1>3 DEF Like
<1>6. QED
  BY <1>1, <1>3, <1>4, <1>5 DEF t, m

LEMMA LikeEdits ==
    ASSUME NEW s \in SessionType, Sound(s), NEW r \in SessionType, NEW t \in SessionType,
           Sound(t), Like(r, t), t.version = s.version + 1,
           s.files \subseteq r.files, s.hasPreset => r.hasPreset, s.hasServer => r.hasServer,
           r.current = s.current, r.hosted = s.hosted, r.removed = s.removed,
           t.life = s.life \/ {s.life, t.life} \subseteq {"DRAFT", "NEW"}
    PROVE  Edits(s, t)
BY DEF Edits, Saved, Like

LEMMA AttachEdits ==
    ASSUME NEW s \in SessionType, Sound(s), NEW kind \in UploadKinds, NEW content \in Contents
    PROVE  LET t == AttachArtifact(s, kind, content)
           IN  /\ Edits(s, t) /\ t.marker = s.marker
               /\ t.files = IF kind = "mission" THEN s.files \cup {content} ELSE s.files
               /\ kind = "preset" => t.hasPreset
               /\ kind = "server" => t.hasServer
<1> DEFINE t == AttachArtifact(s, kind, content)
<1>1. CASE kind = "mission"
  <2> DEFINE more == s.files \cup {content}
             r == [s EXCEPT !.files = more, !.configured = content, !.mission = "ACCEPTED"]
  <2>1. t = markReadyWhenComplete(Mutation(r))
    BY <1>1 DEF AttachArtifact
  <2>2. more \in SUBSET Contents /\ s.files \subseteq more /\ content \in more
    BY DEF SessionType
  <2> HIDE DEF more
  <2>3. r \in SessionType
    BY <2>2 DEF SessionType, Statuses
  <2>4. /\ r.files = more /\ r.configured = content /\ r.revision = s.revision
        /\ r.server = s.server /\ r.removed = s.removed
        /\ r.current = s.current /\ r.hosted = s.hosted
        /\ r.hasPreset = s.hasPreset /\ r.hasServer = s.hasServer /\ r.marker = s.marker
        /\ r.locked = s.locked /\ r.life = s.life /\ r.version = s.version
    BY DEF SessionType
  <2> HIDE DEF r, t
  <2>5. Sound(r)
    BY <2>2, <2>4 DEF Sound, Ready
  <2>6. /\ t \in SessionType /\ Sound(t) /\ Like(r, t) /\ t.version = r.version + 1
        /\ t.life = r.life \/ {r.life, t.life} \subseteq {"DRAFT", "NEW"}
    BY <2>1, <2>3, <2>5, MutationReady
  <2>7. Edits(s, t)
    BY <2>2, <2>3, <2>4, <2>6, LikeEdits
  <2>8. t.files = s.files \cup {content} /\ t.marker = s.marker
    BY <2>4, <2>6 DEF Like, more
  <2>9. QED
    BY <1>1, <2>7, <2>8 DEF t
<1>2. CASE kind = "preset"
  <2> DEFINE r == [s EXCEPT !.preset = "ACCEPTED", !.hasPreset = TRUE]
  <2>1. t = markReadyWhenComplete(Mutation(r))
    BY <1>2 DEF AttachArtifact
  <2>2. r \in SessionType
    BY DEF SessionType, Statuses
  <2>3. /\ r.files = s.files /\ r.configured = s.configured /\ r.revision = s.revision
        /\ r.server = s.server /\ r.removed = s.removed
        /\ r.current = s.current /\ r.hosted = s.hosted
        /\ r.hasPreset /\ r.hasServer = s.hasServer /\ r.marker = s.marker
        /\ r.locked = s.locked /\ r.life = s.life /\ r.version = s.version
    BY DEF SessionType
  <2> HIDE DEF r, t
  <2>4. Sound(r)
    BY <2>3 DEF Sound, Ready
  <2>5. /\ t \in SessionType /\ Sound(t) /\ Like(r, t) /\ t.version = r.version + 1
        /\ t.life = r.life \/ {r.life, t.life} \subseteq {"DRAFT", "NEW"}
    BY <2>1, <2>2, <2>4, MutationReady
  <2>6. Edits(s, t)
    BY <2>2, <2>3, <2>5, LikeEdits
  <2>7. t.files = s.files /\ t.marker = s.marker /\ t.hasPreset
    BY <2>3, <2>5 DEF Like
  <2>8. QED
    BY <1>2, <2>6, <2>7 DEF t
<1>3. CASE kind = "server"
  <2> DEFINE r == [s EXCEPT !.server = "ACCEPTED", !.hasServer = TRUE]
  <2>1. t = markReadyWhenComplete(Mutation(r))
    BY <1>3 DEF AttachArtifact
  <2>2. r \in SessionType
    BY DEF SessionType, Statuses
  <2>3. /\ r.files = s.files /\ r.configured = s.configured /\ r.revision = s.revision
        /\ r.server = "ACCEPTED" /\ r.removed = s.removed
        /\ r.current = s.current /\ r.hosted = s.hosted
        /\ r.hasPreset = s.hasPreset /\ r.hasServer /\ r.marker = s.marker
        /\ r.locked = s.locked /\ r.life = s.life /\ r.version = s.version
    BY DEF SessionType
  <2> HIDE DEF r, t
  <2>4. Sound(r)
    BY <2>3 DEF Sound, Ready
  <2>5. /\ t \in SessionType /\ Sound(t) /\ Like(r, t) /\ t.version = r.version + 1
        /\ t.life = r.life \/ {r.life, t.life} \subseteq {"DRAFT", "NEW"}
    BY <2>1, <2>2, <2>4, MutationReady
  <2>6. Edits(s, t)
    BY <2>2, <2>3, <2>5, LikeEdits
  <2>7. t.files = s.files /\ t.marker = s.marker /\ t.hasServer
    BY <2>3, <2>5 DEF Like
  <2>8. QED
    BY <1>3, <2>6, <2>7 DEF t
<1>4. QED
  BY <1>1, <1>2, <1>3 DEF UploadKinds

LEMMA RejectEdits ==
    ASSUME NEW s \in SessionType, Sound(s), NEW kind \in UploadKinds
    PROVE  LET t == RejectArtifact(s, kind)
           IN  Edits(s, t) /\ t.marker = s.marker /\ t.files = s.files
<1> DEFINE t == RejectArtifact(s, kind)
<1>1. CASE kind = "mission"
  <2> DEFINE v == IF s.mission = "PENDING" THEN "REJECTED" ELSE s.mission
             r == [s EXCEPT !.mission = v]
  <2>1. t = Mutation(r)
    BY <1>1 DEF RejectArtifact
  <2>2. v \in Statuses
    BY DEF SessionType, Statuses
  <2> HIDE DEF v
  <2>3. r \in SessionType /\ Like(s, r) /\ r.life = s.life /\ r.version = s.version
    BY <2>2 DEF SessionType, Like
  <2> HIDE DEF r, t
  <2>4. t \in SessionType /\ Like(r, t) /\ t.life = r.life /\ t.version = r.version + 1
    BY <2>1, <2>3, MutationFields
  <2>5. Sound(r) /\ Sound(t)
    BY <2>3, <2>4, LikeSound
  <2>6. QED
    BY <2>3, <2>4, <2>5, LikeEdits DEF Like, t
<1>2. CASE kind # "mission"
  <2> DEFINE r == IF kind = "preset" THEN [s EXCEPT !.preset = "REJECTED"]
                                      ELSE [s EXCEPT !.server = "REJECTED"]
  <2>1. t = markReadyWhenComplete(Mutation(r))
    BY <1>2 DEF RejectArtifact
  <2>2. r \in SessionType
    BY DEF SessionType, Statuses
  <2>3. /\ r.files = s.files /\ r.configured = s.configured /\ r.revision = s.revision
        /\ r.server \in {s.server, "REJECTED"} /\ r.removed = s.removed
        /\ r.current = s.current /\ r.hosted = s.hosted
        /\ r.hasPreset = s.hasPreset /\ r.hasServer = s.hasServer
        /\ r.marker = s.marker /\ r.locked = s.locked /\ r.life = s.life
        /\ r.version = s.version
    BY DEF SessionType
  <2> HIDE DEF r, t
  <2>4. Sound(r)
    BY <2>3 DEF Sound, Ready
  <2>5. /\ t \in SessionType /\ Sound(t) /\ Like(r, t) /\ t.version = r.version + 1
        /\ t.life = r.life \/ {r.life, t.life} \subseteq {"DRAFT", "NEW"}
    BY <2>1, <2>2, <2>4, MutationReady
  <2>6. Edits(s, t)
    BY <2>2, <2>3, <2>5, LikeEdits
  <2>7. t.files = s.files /\ t.marker = s.marker
    BY <2>3, <2>5 DEF Like
  <2>8. QED
    BY <2>6, <2>7 DEF t
<1>3. QED
  BY <1>1, <1>2

LEMMA PendingTyped ==
    ASSUME NEW status \in Statuses, NEW asked \in BOOLEAN
    PROVE  Pending(status, asked) \in Statuses /\ (~asked => Pending(status, asked) = status)
BY DEF Pending, Statuses

LEMMA CallFields ==
    ASSUME NEW c \in Calls
    PROVE  /\ c.op \in Saving \cup {"ingest", "resolve"} /\ c.vanilla \in BOOLEAN
           /\ c.start \in BOOLEAN /\ c.mission \in BOOLEAN /\ c.wait \in BOOLEAN
           /\ c.dlc \in BOOLEAN /\ c.preset \in BOOLEAN /\ c.server \in BOOLEAN
           /\ c.content \in Contents \cup {None} /\ c.message \in Keys
BY DEF Calls, Keys

LEMMA ConfigureEdits ==
    ASSUME NEW s \in SessionType, Sound(s), NEW c \in Calls, c.op = "configure"
    PROVE  LET t == Apply(s, c)
           IN  Edits(s, t) /\ t.marker = s.marker /\ t.files = s.files
<1> DEFINE t == Apply(s, c)
           a == c.vanilla
           b == c.start
           n == s.revision + 1
           r == [s EXCEPT !.vanilla = a, !.dlc = FALSE, !.start = b, !.revision = n]
<1>1. t = markReadyWhenComplete(Mutation(r))
  BY DEF Apply
<1>0. a \in BOOLEAN /\ b \in BOOLEAN /\ n \in Nat /\ n = s.revision + 1
  BY CallFields DEF SessionType
<1> HIDE DEF a, b, n
<1>2. r \in SessionType
  BY <1>0 DEF SessionType
<1>3. /\ r.files = s.files /\ r.configured = s.configured /\ r.revision = s.revision + 1
      /\ r.server = s.server /\ r.removed = s.removed
      /\ r.current = s.current /\ r.hosted = s.hosted
      /\ r.hasPreset = s.hasPreset /\ r.hasServer = s.hasServer
      /\ r.marker = s.marker /\ r.locked = s.locked /\ r.life = s.life
      /\ r.version = s.version /\ s.revision \in Nat
  BY <1>0 DEF SessionType
<1> HIDE DEF r, t
<1>4. Sound(r)
  BY <1>3 DEF Sound, Ready
<1>5. /\ t \in SessionType /\ Sound(t) /\ Like(r, t) /\ t.version = r.version + 1
      /\ t.life = r.life \/ {r.life, t.life} \subseteq {"DRAFT", "NEW"}
  BY <1>1, <1>2, <1>4, MutationReady
<1>6. Edits(s, t)
  BY <1>2, <1>3, <1>5, LikeEdits
<1>7. t.files = s.files /\ t.marker = s.marker
  BY <1>3, <1>5 DEF Like
<1>8. QED
  BY <1>6, <1>7 DEF t

LEMMA PrepareEdits ==
    ASSUME NEW s \in SessionType, Sound(s), NEW c \in Calls, c.op = "prepare", Accepts(s, c)
    PROVE  LET t == Apply(s, c)
           IN  Edits(s, t) /\ t.marker = s.marker /\ t.files = s.files
<1> DEFINE t == Apply(s, c)
           v == IF c.mission THEN "DRAFT" ELSE s.life
           w == IF c.mission THEN "PENDING" ELSE ""
           r == [s EXCEPT !.life = v, !.mission = w, !.preset = ""]
<1>1. t = Mutation(r)
  BY DEF Apply
<1>2. s.life \in {"DRAFT", "NEW"}
  BY DEF Accepts
<1>3. v \in {"DRAFT", "NEW"} /\ (v = "NEW" => s.life = "NEW") /\ w \in Statuses
  BY <1>2 DEF Statuses
<1> HIDE DEF v, w
<1>4. r \in SessionType
  BY <1>3 DEF SessionType, Statuses, Lives
<1>5. Like(s, r) /\ r.life = v /\ r.version = s.version
  BY DEF SessionType, Like
<1> HIDE DEF r, t
<1>6. Sound(r)
  BY <1>2, <1>3, <1>5 DEF Sound, Like, Ready, LockedLives
<1>7. t \in SessionType /\ Like(r, t) /\ t.life = r.life /\ t.version = r.version + 1
  BY <1>1, <1>4, MutationFields
<1>8. Sound(t)
  BY <1>4, <1>6, <1>7, LikeSound
<1>9. Edits(s, t)
  BY <1>2, <1>3, <1>4, <1>5, <1>7, <1>8, LikeEdits DEF Like
<1>10. QED
  BY <1>5, <1>7, <1>9 DEF Like, t

LEMMA OptionsEdits ==
    ASSUME NEW s \in SessionType, Sound(s), NEW c \in Calls, c.op = "options", Accepts(s, c)
    PROVE  LET t == Apply(s, c)
           IN  Edits(s, t) /\ t.marker = s.marker /\ t.files = s.files
<1> DEFINE t == Apply(s, c)
           v == Pending(s.preset, c.preset)
           w == Pending(s.server, c.server)
           a == c.dlc
           n == s.revision + 1
           r == [s EXCEPT !.dlc = a, !.preset = v, !.server = w, !.revision = n]
           q == markReadyWhenComplete(r)
<1>1. t = Mutation(q)
  BY DEF Apply
<1>2. c.server => s.life = "DRAFT"
  BY DEF Accepts
<1>3. v \in Statuses /\ w \in Statuses /\ (~c.server => w = s.server)
  BY CallFields, PendingTyped DEF SessionType
<1>0. a \in BOOLEAN /\ n \in Nat /\ n = s.revision + 1
  BY CallFields DEF SessionType
<1> HIDE DEF a, n, v, w
<1>4. r \in SessionType
  BY <1>0, <1>3 DEF SessionType
<1>5. /\ r.files = s.files /\ r.configured = s.configured /\ r.revision = s.revision + 1
      /\ r.server = w /\ r.removed = s.removed
      /\ r.current = s.current /\ r.hosted = s.hosted
      /\ r.hasPreset = s.hasPreset /\ r.hasServer = s.hasServer
      /\ r.marker = s.marker /\ r.locked = s.locked /\ r.life = s.life
      /\ r.version = s.version /\ s.revision \in Nat /\ c.server \in BOOLEAN
  BY <1>0, CallFields DEF SessionType
<1> HIDE DEF r
<1>6. Sound(r)
  BY <1>2, <1>3, <1>5 DEF Sound, Ready
<1>7. /\ q \in SessionType /\ Like(r, q) /\ q.version = r.version
      /\ q.life = r.life \/ (r.life = "DRAFT" /\ q.life = "NEW" /\ Ready(r))
  BY <1>4, ReadyFields
<1> HIDE DEF q, t
<1>8. Sound(q)
  BY <1>4, <1>6, <1>7, LikeSound
<1>9. t \in SessionType /\ Like(q, t) /\ t.life = q.life /\ t.version = q.version + 1
  BY <1>1, <1>7, MutationFields
<1>10. Sound(t) /\ Like(r, t)
  BY <1>7, <1>8, <1>9, LikeSound DEF Like
<1>11. Edits(s, t)
  BY <1>4, <1>5, <1>7, <1>9, <1>10, LikeEdits
<1>12. QED
  BY <1>5, <1>10, <1>11 DEF Like, t

LEMMA SetupEdits ==
    ASSUME NEW s \in SessionType, Sound(s), NEW c \in Calls, c.op = "setup", Accepts(s, c)
    PROVE  LET t == Apply(s, c)
           IN  Edits(s, t) /\ t.marker = s.marker /\ t.files = s.files
<1> DEFINE t == Apply(s, c)
           d == s.dlc /\ ~c.vanilla
           v == Pending(s.mission, c.mission)
           w == Pending(s.preset, c.preset)
           a == c.vanilla
           n == s.revision + 1
           r == [s EXCEPT !.vanilla = a, !.dlc = d, !.mission = v, !.preset = w,
                          !.revision = n]
<1>1. t = markReadyWhenComplete(Mutation(r))
  BY DEF Apply
<1>2. d \in BOOLEAN /\ v \in Statuses /\ w \in Statuses
  BY CallFields, PendingTyped DEF SessionType
<1>0. a \in BOOLEAN /\ n \in Nat /\ n = s.revision + 1
  BY CallFields DEF SessionType
<1> HIDE DEF a, d, n, v, w
<1>3. r \in SessionType
  BY <1>0, <1>2 DEF SessionType
<1>4. /\ r.files = s.files /\ r.configured = s.configured /\ r.revision = s.revision + 1
      /\ r.server = s.server /\ r.removed = s.removed
      /\ r.current = s.current /\ r.hosted = s.hosted
      /\ r.hasPreset = s.hasPreset /\ r.hasServer = s.hasServer
      /\ r.marker = s.marker /\ r.locked = s.locked /\ r.life = s.life
      /\ r.version = s.version /\ s.revision \in Nat
  BY <1>0 DEF SessionType
<1> HIDE DEF r, t
<1>5. Sound(r)
  BY <1>4 DEF Sound, Ready
<1>6. /\ t \in SessionType /\ Sound(t) /\ Like(r, t) /\ t.version = r.version + 1
      /\ t.life = r.life \/ {r.life, t.life} \subseteq {"DRAFT", "NEW"}
  BY <1>1, <1>3, <1>5, MutationReady
<1>7. Edits(s, t)
  BY <1>3, <1>4, <1>6, LikeEdits
<1>8. t.files = s.files /\ t.marker = s.marker
  BY <1>4, <1>6 DEF Like
<1>9. QED
  BY <1>7, <1>8 DEF t

(* A mission is removed only while it is not the one that is loaded. *)
LEMMA MissionEdits ==
    ASSUME NEW s \in SessionType, Sound(s), NEW c \in Calls, c.op = "mission", Accepts(s, c)
    PROVE  LET t == Apply(s, c)
           IN  Edits(s, t) /\ t.marker = s.marker /\ t.files = s.files
<1> DEFINE t == Apply(s, c)
<1>1. ~s.locked /\ (c.action = "default" => c.content \in s.files)
  BY DEF Accepts, Active
<1>2. CASE c.action = "remove"
  <2> DEFINE v == s.removed \cup {c.content}
             w == IF s.configured = c.content THEN Default ELSE s.configured
             r == [s EXCEPT !.removed = v, !.configured = w]
  <2>1. t = Mutation(r)
    BY <1>2 DEF Apply, RemoveMission
  <2>2. s.current # c.content /\ c.content \in s.files /\ s.files \subseteq Contents
    BY <1>2 DEF Accepts, CanRemoveMission, Active, SessionType
  <2>3. v \in SUBSET Contents /\ v \subseteq s.files /\ v \ s.removed \subseteq {c.content}
    BY <2>2 DEF SessionType, Sound
  <2>4. w \in {Default, s.configured}
    OBVIOUS
  <2> HIDE DEF v, w
  <2>5. r \in SessionType
    BY <2>3, <2>4 DEF SessionType
  <2>6. /\ r.files = s.files /\ r.configured = w /\ r.revision = s.revision
        /\ r.server = s.server /\ r.removed = v
        /\ r.current = s.current /\ r.hosted = s.hosted
        /\ r.hasPreset = s.hasPreset /\ r.hasServer = s.hasServer
        /\ r.marker = s.marker /\ r.locked = s.locked /\ r.life = s.life
        /\ r.version = s.version
    BY DEF SessionType
  <2> HIDE DEF r, t
  <2>7. Sound(r)
    BY <2>3, <2>4, <2>6 DEF Sound, Ready
  <2>8. t \in SessionType /\ Like(r, t) /\ t.life = r.life /\ t.version = r.version + 1
    BY <2>1, <2>5, MutationFields
  <2>9. Sound(t)
    BY <2>5, <2>7, <2>8, LikeSound
  <2>10. Edits(s, t)
    BY <1>1, <2>2, <2>3, <2>6, <2>8, <2>9 DEF Edits, Saved, Like
  <2>11. QED
    BY <2>6, <2>8, <2>10 DEF Like, t
<1>3. CASE c.action # "remove"
  <2> DEFINE w == IF c.action = "default" THEN c.content ELSE Default
             r == [s EXCEPT !.configured = w]
  <2>1. t = Mutation(r)
    BY <1>3 DEF Apply, ConfigureMission
  <2>2. w \in s.files \cup {Default} /\ s.files \subseteq Contents
    BY <1>1 DEF SessionType
  <2> HIDE DEF w
  <2>3. r \in SessionType
    BY <2>2 DEF SessionType
  <2>4. /\ r.files = s.files /\ r.configured = w /\ r.revision = s.revision
        /\ r.server = s.server /\ r.removed = s.removed
        /\ r.current = s.current /\ r.hosted = s.hosted
        /\ r.hasPreset = s.hasPreset /\ r.hasServer = s.hasServer
        /\ r.marker = s.marker /\ r.locked = s.locked /\ r.life = s.life
        /\ r.version = s.version
    BY DEF SessionType
  <2> HIDE DEF r, t
  <2>5. Sound(r)
    BY <2>2, <2>4 DEF Sound, Ready
  <2>6. t \in SessionType /\ Like(r, t) /\ t.life = r.life /\ t.version = r.version + 1
    BY <2>1, <2>3, MutationFields
  <2>7. Sound(t)
    BY <2>3, <2>5, <2>6, LikeSound
  <2>8. Edits(s, t)
    BY <2>3, <2>4, <2>6, <2>7, LikeEdits
  <2>9. QED
    BY <2>4, <2>6, <2>8 DEF Like, t
<1>4. QED
  BY <1>2, <1>3

LEMMA ApplyEdits ==
    ASSUME NEW s \in SessionType, Sound(s), NEW c \in Calls, c.op \in Saving, Accepts(s, c)
    PROVE  LET t == Apply(s, c)
           IN  Edits(s, t) /\ t.marker = s.marker /\ t.files = s.files
BY ConfigureEdits, PrepareEdits, OptionsEdits, SetupEdits, MissionEdits DEF Saving

-----------------------------------------------------------------------------
(* The marker *)

LEMMA MarkedEdits ==
    ASSUME NEW s \in SessionType, Sound(s),
           NEW v \in [target : {"none", "mission", "mods"}, key : Keys]
    PROVE  LET t == Mutation([s EXCEPT !.marker = v])
           IN  Edits(s, t) /\ t.marker = v /\ t.files = s.files
<1> DEFINE r == [s EXCEPT !.marker = v]
           t == Mutation(r)
<1>1. r \in SessionType
  BY DEF SessionType
<1>2. /\ r.files = s.files /\ r.configured = s.configured /\ r.revision = s.revision
      /\ r.server = s.server /\ r.removed = s.removed
      /\ r.current = s.current /\ r.hosted = s.hosted
      /\ r.hasPreset = s.hasPreset /\ r.hasServer = s.hasServer
      /\ r.marker = v /\ r.locked = s.locked /\ r.life = s.life
      /\ r.version = s.version
  BY DEF SessionType
<1> HIDE DEF r
<1>3. Sound(r)
  BY <1>2 DEF Sound, Ready
<1>4. t \in SessionType /\ Like(r, t) /\ t.life = r.life /\ t.version = r.version + 1
  BY <1>1, MutationFields
<1> HIDE DEF t
<1>5. Sound(t)
  BY <1>1, <1>3, <1>4, LikeSound
<1>6. Edits(s, t)
  BY <1>1, <1>2, <1>4, <1>5, LikeEdits
<1>7. QED
  BY <1>2, <1>4, <1>6 DEF Like, t, r

LEMMA NoMarkerTyped ==
    NoMarker \in [target : {"none", "mission", "mods"}, key : Keys] /\ NoMarker.key = None
BY DEF NoMarker, Keys

LEMMA BeginEdits ==
    ASSUME NEW s \in SessionType, Sound(s), NEW m \in Messages
    PROVE  LET t == BeginWorkshopResolution(s, m)
           IN  /\ Edits(s, t) /\ t.files = s.files
               /\ t.marker = [target |-> Target(m), key |-> m]
<1> DEFINE v == [target |-> Target(m), key |-> m]
<1>1. v \in [target : {"none", "mission", "mods"}, key : Keys]
  BY DEF Target, Keys
<1>2. BeginWorkshopResolution(s, m) = Mutation([s EXCEPT !.marker = v])
  BY DEF BeginWorkshopResolution
<1> HIDE DEF v
<1>3. QED
  BY <1>1, <1>2, MarkedEdits DEF v

LEMMA UnmarkedEdits ==
    ASSUME NEW s \in SessionType, Sound(s)
    PROVE  LET t == Mutation([s EXCEPT !.marker = NoMarker])
           IN  Edits(s, t) /\ t.files = s.files /\ t.marker = NoMarker
BY MarkedEdits, NoMarkerTyped

(* A recorded source leaves no marker of its target. *)
LEMMA RecordEdits ==
    ASSUME NEW s \in SessionType, Sound(s), NEW m, IsWorkshop(m), Content(m) \in Contents
    PROVE  LET t == RecordWorkshopSource(s, m)
           IN  /\ Edits(s, t) /\ t.files = s.files
               /\ t.marker = NoMarker \/ (t.marker = s.marker /\ s.marker.target # Target(m))
<1> DEFINE r == IF Target(m) = "mods" /\ s.life \in {"DRAFT", "NEW"}
                THEN AttachArtifact(s, "preset", Content(m)) ELSE Mutation(s)
           t == IF r.marker.target = Target(m) THEN [r EXCEPT !.marker = NoMarker] ELSE r
<1>1. RecordWorkshopSource(s, m) = t
  BY DEF RecordWorkshopSource, clearWorkshopResolutionMarker
<1>2. Edits(s, r) /\ r.files = s.files /\ r.marker = s.marker
  <2>1. Like(s, Mutation(s)) /\ Edits(s, Mutation(s))
    <3> DEFINE q == Mutation(s)
    <3>1. q \in SessionType /\ Like(s, q) /\ q.life = s.life /\ q.version = s.version + 1
      BY MutationFields
    <3> HIDE DEF q
    <3>2. Sound(q)
      BY <3>1, LikeSound
    <3>3. Edits(s, q)
      BY <3>1, <3>2, LikeEdits
    <3>4. QED
      BY <3>1, <3>3 DEF q
  <2>2. "preset" \in UploadKinds /\ "preset" # "mission"
    BY DEF UploadKinds
  <2>3. CASE Target(m) = "mods" /\ s.life \in {"DRAFT", "NEW"}
    BY <2>2, <2>3, AttachEdits
  <2>4. CASE ~(Target(m) = "mods" /\ s.life \in {"DRAFT", "NEW"})
    BY <2>1, <2>4 DEF Like
  <2>5. QED
    BY <2>3, <2>4
<1>3. r \in SessionType /\ Sound(r)
  BY <1>2 DEF Edits, Saved
<1> HIDE DEF r
<1>4. CASE r.marker.target = Target(m)
  <2> DEFINE q == [r EXCEPT !.marker = NoMarker]
  <2>1. t = q
    BY <1>4
  <2>2. q \in SessionType
    BY <1>3, NoMarkerTyped DEF SessionType
  <2>3. /\ q.files = r.files /\ q.configured = r.configured /\ q.revision = r.revision
        /\ q.server = r.server /\ q.removed = r.removed
        /\ q.current = r.current /\ q.hosted = r.hosted
        /\ q.hasPreset = r.hasPreset /\ q.hasServer = r.hasServer
        /\ q.marker = NoMarker /\ q.locked = r.locked /\ q.life = r.life
        /\ q.version = r.version
    BY <1>3 DEF SessionType
  <2> HIDE DEF q
  <2>4. Sound(q)
    BY <1>3, <2>3 DEF Sound, Ready
  <2>5. Edits(s, q)
    BY <1>2, <2>2, <2>3, <2>4 DEF Edits, Saved
  <2>6. QED
    BY <1>1, <1>2, <2>1, <2>3, <2>5
<1>5. CASE r.marker.target # Target(m)
  BY <1>1, <1>2, <1>5
<1>6. QED
  BY <1>4, <1>5

-----------------------------------------------------------------------------
(* Situations, forms and the queue *)

LEMMA BaseTyped ==
    ASSUME BaseInv
    PROVE  /\ TypeInv /\ session \in SessionType /\ Sound(session)
           /\ \A f \in Forms : forms[f] \in FormType /\ forms[f].copy \in SessionType
           /\ worker \in WorkerType /\ worker.copy \in SessionType /\ Message \in Keys
           /\ worker.stage \in WorkerStages
           /\ worker.outcome \in {"none", "accepted", "rejected"}
BY DEF BaseInv, TypeInv, FormType, WorkerType, Message

LEMMA SituationFacts ==
    ASSUME TypeInv
    PROVE  /\ IsSituation(situation)
           /\ \A m \in Messages : /\ Content(m) \in Contents /\ IsValid(m) \in BOOLEAN
                                  /\ Kind(m) = "mission" => Content(m) # None
           /\ \A f \in Forms : /\ situation.forms[f].calls \in Seq(Calls)
                               /\ situation.forms[f].key \notin OtherKeys
<1>1. IsSituation(situation)
  BY IntakeAssumption DEF TypeInv
<1>2. \A m \in Messages : Content(m) \in Contents
  BY DEF TypeInv, Contents, Content
<1>3. QED
  BY <1>1, <1>2 DEF IsSituation, Content, IsValid, Kind

LEMMA CallFacts ==
    ASSUME TypeInv, NEW f \in Forms, forms[f].at <= Len(situation.forms[f].calls)
    PROVE  /\ forms[f].at \in DOMAIN situation.forms[f].calls /\ Call(f) \in Calls
           /\ Call(f).op \in Saving <=> Call(f).message = None
           /\ Call(f).op = "ingest" => /\ Call(f).message \in Messages
                                       /\ Kind(Call(f).message) \in UploadKinds
           /\ Call(f).op = "resolve" => /\ Call(f).message \in Messages
                                        /\ IsWorkshop(Call(f).message)
<1>1. situation.forms[f].calls \in Seq(Calls) /\ IsSituation(situation)
  BY SituationFacts
<1>2. forms[f].at \in Nat \ {0}
  BY DEF TypeInv, FormType
<1>3. forms[f].at \in DOMAIN situation.forms[f].calls /\ Call(f) \in Calls
  BY <1>1, <1>2 DEF Call
<1>4. /\ Call(f).op \in Saving <=> Call(f).message = None
      /\ Call(f).op = "ingest" => situation.messages[Call(f).message].kind \in UploadKinds
      /\ Call(f).op = "resolve" => situation.messages[Call(f).message].kind \in WorkshopKinds
  <2> DEFINE n == forms[f].at
  <2>1. n \in DOMAIN situation.forms[f].calls /\ Call(f) = situation.forms[f].calls[n]
    BY <1>3 DEF Call
  <2> HIDE DEF n
  <2>2. \A g \in Forms : \A k \in DOMAIN situation.forms[g].calls :
          LET c == situation.forms[g].calls[k]
          IN  /\ c.op \in Saving <=> c.message = None
              /\ c.op = "ingest" => situation.messages[c.message].kind \in UploadKinds
              /\ c.op = "resolve" => situation.messages[c.message].kind \in WorkshopKinds
    BY <1>1 DEF IsSituation
  <2>3. LET c == situation.forms[f].calls[n]
        IN  /\ c.op \in Saving <=> c.message = None
            /\ c.op = "ingest" => situation.messages[c.message].kind \in UploadKinds
            /\ c.op = "resolve" => situation.messages[c.message].kind \in WorkshopKinds
    BY <2>1, <2>2
  <2>4. QED
    BY <2>1, <2>3
<1>5. Call(f).message \in Messages \cup {None} /\ "ingest" \notin Saving /\ "resolve" \notin Saving
  BY <1>3 DEF Calls, Saving
<1>6. QED
  BY <1>3, <1>4, <1>5 DEF Kind, IsWorkshop

LEMMA KindsDiffer == UploadKinds \cap WorkshopKinds = {}
BY DEF UploadKinds, WorkshopKinds

LEMMA GoFields ==
    ASSUME TypeInv, NEW f \in Forms, NEW st \in FormStages, NEW c \in SessionType,
           Go(f, st, c)
    PROVE  /\ forms' \in [Forms -> FormType]
           /\ \A g \in Forms : g # f => forms'[g] = forms[g]
           /\ forms'[f].at = forms[f].at /\ forms'[f].stage = st /\ forms'[f].copy = c
BY DEF TypeInv, Go, FormType

LEMMA NextFields ==
    ASSUME TypeInv, NEW f \in Forms, NextCall(f)
    PROVE  /\ forms' \in [Forms -> FormType]
           /\ \A g \in Forms : g # f => forms'[g] = forms[g]
           /\ forms'[f].at = forms[f].at + 1 /\ forms'[f].stage = "load"
           /\ forms'[f].copy = NewSession
<1> DEFINE n == [at |-> forms[f].at + 1, stage |-> "load", copy |-> NewSession]
<1>1. forms' = [forms EXCEPT ![f] = n]
  BY DEF NextCall
<1>0. forms[f] \in FormType /\ forms[f].at + 1 \in Nat \ {0}
  BY DEF TypeInv, FormType
<1>2. n \in FormType /\ n.at = forms[f].at + 1 /\ n.stage = "load" /\ n.copy = NewSession
  BY <1>0, NewSessionTyped DEF FormType, FormStages
<1> HIDE DEF n
<1>3. QED
  BY <1>1, <1>2 DEF TypeInv

LEMMA QueueAppend ==
    ASSUME NEW q \in Seq(Messages), NEW m \in Messages
    PROVE  LET r == Append(q, m)
           IN  /\ r \in Seq(Messages) /\ r # <<>>
               /\ q # <<>> => Head(r) = Head(q)
               /\ \A x : (\E n \in DOMAIN r : r[n] = x) <=> x = m \/ \E n \in DOMAIN q : q[n] = x
<1> DEFINE r == Append(q, m)
<1>1. r \in Seq(Messages) /\ Len(r) = Len(q) + 1 /\ Len(q) \in Nat
  OBVIOUS
<1>2. /\ \A n \in 1 .. Len(q) : r[n] = q[n]
      /\ r[Len(q) + 1] = m /\ DOMAIN r = 1 .. Len(q) + 1 /\ DOMAIN q = 1 .. Len(q)
  OBVIOUS
<1>3. q # <<>> => Head(r) = Head(q)
  BY <1>1, <1>2
<1>4. r # <<>>
  BY <1>1
<1> HIDE DEF r
<1>5. \A x : (\E n \in DOMAIN r : r[n] = x) <=> x = m \/ \E n \in DOMAIN q : q[n] = x
  BY <1>1, <1>2
<1>6. QED
  BY <1>1, <1>3, <1>4, <1>5 DEF r

LEMMA QueueTail ==
    ASSUME NEW q \in Seq(Messages), q # <<>>
    PROVE  /\ Tail(q) \in Seq(Messages) /\ Head(q) \in Messages
           /\ \A x : (\E n \in DOMAIN q : q[n] = x)
                        <=> x = Head(q) \/ \E n \in DOMAIN Tail(q) : Tail(q)[n] = x
<1> DEFINE r == Tail(q)
<1>1. /\ r \in Seq(Messages) /\ Len(r) = Len(q) - 1 /\ Len(q) \in Nat \ {0}
      /\ Head(q) = q[1] /\ Head(q) \in Messages
  OBVIOUS
<1>2. /\ \A n \in 1 .. Len(q) - 1 : r[n] = q[n + 1]
      /\ DOMAIN r = 1 .. Len(q) - 1 /\ DOMAIN q = 1 .. Len(q)
  OBVIOUS
<1> HIDE DEF r
<1>3. ASSUME NEW x, NEW n \in DOMAIN q, q[n] = x
      PROVE  x = Head(q) \/ \E k \in DOMAIN r : r[k] = x
  <2>1. CASE n = 1
    BY <1>1, <1>3, <2>1
  <2>2. CASE n # 1
    <3>1. n - 1 \in DOMAIN r /\ r[n - 1] = q[n]
      BY <1>1, <1>2, <1>3, <2>2
    <3>2. QED
      BY <1>3, <3>1
  <2>3. QED
    BY <2>1, <2>2
<1>4. ASSUME NEW x, NEW n \in DOMAIN r, r[n] = x
      PROVE  \E k \in DOMAIN q : q[k] = x
  <2>1. n + 1 \in DOMAIN q /\ q[n + 1] = x
    BY <1>1, <1>2, <1>4
  <2>2. QED
    BY <2>1
<1>5. 1 \in DOMAIN q /\ q[1] = Head(q)
  BY <1>1, <1>2
<1>6. QED
  BY <1>1, <1>3, <1>4, <1>5 DEF r

(* A copy as old as the session stays so. *)
LEMMA FreshStays ==
    ASSUME NEW s \in SessionType, NEW t \in SessionType, t = s \/ Saved(s, t)
    PROVE  /\ Fresh(t, t)
           /\ \A c \in SessionType : Fresh(c, s) => Fresh(c, t)
<1>1. s.version \in Nat /\ t.version \in Nat /\ \A c \in SessionType : c.version \in Nat
  BY DEF SessionType
<1>2. QED
  BY <1>1 DEF Fresh, Saved

-----------------------------------------------------------------------------
(* What a step of a form does *)

FormMoved(f) ==
    /\ forms' \in [Forms -> FormType]
    /\ \A g \in Forms : g # f => forms'[g] = forms[g]
    /\ Fresh(forms'[f].copy, session')
    /\ \/ /\ forms'[f].at = forms[f].at
          /\ Fits(Call(f), forms'[f].stage, forms'[f].copy)
          /\ forms[f].stage \in {"unmark", "failed"} => forms'[f].stage \in {"unmark", "failed"}
       \/ /\ forms'[f].at = forms[f].at + 1 /\ forms'[f].stage = "load"
          /\ forms[f].stage \notin {"unmark", "failed"}

(* Who leaves a call about a message has sent the message. *)
FormSends(f) ==
    \/ UNCHANGED <<queue, seen>> /\ (forms'[f].at # forms[f].at => Call(f).op \in Saving)
    \/ /\ Call(f).op \in {"ingest", "resolve"} /\ Enqueued(Call(f).message)
       /\ forms'[f].at = forms[f].at => forms'[f].stage = "unmark"

FormMarks(f) ==
    \/ session'.marker \in {session.marker, NoMarker}
    \/ /\ Call(f).op = "resolve" /\ forms'[f].at = forms[f].at
       /\ session'.marker = [target |-> Target(Call(f).message), key |-> Call(f).message]

SameOutcomes ==
    /\ records \subseteq records'
    /\ \A m \in Messages : OutcomeKey(m, "accepted") \in records' =>
                                OutcomeKey(m, "accepted") \in records

SameCommands == commands' = commands \/ \E s \in SessionType : commands' = Sent(s)

FormEffect(f) ==
    /\ UNCHANGED <<situation, receives, dead, worker, begun, host, restarts>>
    /\ forms[f].at <= Len(situation.forms[f].calls)
    /\ session' = session \/ (Edits(session, session') /\ session'.files = session.files)
    /\ FormMarks(f) /\ SameOutcomes /\ SameCommands /\ FormMoved(f) /\ FormSends(f)

LEMMA BaseFresh ==
    ASSUME BaseInv
    PROVE  /\ Fresh(session, session) /\ Fresh(NewSession, session)
           /\ Fresh(worker.copy, session)
           /\ \A f \in Forms : Fresh(forms[f].copy, session)
<1>1. session.version \in Nat
  BY DEF BaseInv, TypeInv, SessionType
<1>2. Fresh(session, session)
  BY <1>1 DEF Fresh
<1>3. QED
  BY <1>2 DEF BaseInv, CopyInv

LEMMA BaseFits ==
    ASSUME BaseInv, NEW f \in Forms, forms[f].at <= Len(situation.forms[f].calls)
    PROVE  Fits(Call(f), forms[f].stage, forms[f].copy)
BY DEF BaseInv, FormInv

LEMMA SavesSession ==
    ASSUME NEW c \in SessionType, Fresh(c, session), NEW key, CanSave(c, key)
    PROVE  c = session
BY DEF Fresh, CanSave

LEMMA GoMoves ==
    ASSUME BaseInv, NEW f \in Forms, NEW st \in FormStages, NEW c \in SessionType,
           Go(f, st, c), Fresh(c, session'), Fits(Call(f), st, c),
           forms[f].stage \in {"unmark", "failed"} => st \in {"unmark", "failed"}
    PROVE  FormMoved(f) /\ forms'[f].at = forms[f].at /\ forms'[f].stage = st
<1>1. TypeInv
  BY DEF BaseInv
<1>2. QED
  BY <1>1, GoFields DEF FormMoved

LEMMA NextMoves ==
    ASSUME BaseInv, NEW f \in Forms, NextCall(f), Fresh(NewSession, session'),
           forms[f].stage \notin {"unmark", "failed"}
    PROVE  FormMoved(f) /\ forms'[f].at # forms[f].at
<1>1. TypeInv /\ forms[f].at \in Nat
  BY DEF BaseInv, TypeInv, FormType
<1>2. QED
  BY <1>1, NextFields DEF FormMoved

LEMMA SavingFits ==
    ASSUME NEW c, c.op \in Saving, NEW s
    PROVE  Fits(c, "start", s) /\ Fits(c, "again", s) /\ (Accepts(s, c) => Fits(c, "save", s))
BY DEF Fits

LEMMA ContinueMoves ==
    ASSUME BaseInv, NEW f \in Forms, NEW s \in SessionType, Continue(f, s),
           Call(f).op \in Saving, forms[f].stage \notin {"unmark", "failed"},
           Fresh(s, session'), Fresh(NewSession, session')
    PROVE  FormMoved(f)
<1>1. "start" \in FormStages /\ Fits(Call(f), "start", s)
  BY SavingFits DEF FormStages
<1>2. QED
  BY <1>1, GoMoves, NextMoves DEF Continue

LEMMA LoadEffect ==
    ASSUME BaseInv, NEW f \in Forms, Load(f)
    PROVE  FormEffect(f)
<1>1. /\ session \in SessionType /\ Fresh(session, session) /\ Fresh(NewSession, session)
      /\ session' = session /\ records' = records /\ UNCHANGED <<queue, seen, commands>>
      /\ Call(f).op \in Saving /\ forms[f].stage = "load"
  BY BaseTyped, BaseFresh DEF Load, Calling
<1>2. FormMoved(f)
  <2>1. CASE Continue(f, session)
    BY <1>1, <2>1, ContinueMoves
  <2>2. CASE Accepts(session, Call(f)) /\ Go(f, "save", session)
    BY <1>1, <2>2, SavingFits, GoMoves DEF FormStages
  <2>3. QED
    BY <2>1, <2>2 DEF Load
<1>3. QED
  BY <1>1, <1>2 DEF Load, Calling, FormEffect, FormMarks, SameOutcomes, SameCommands, FormSends

LEMMA CallKeyOther ==
    ASSUME BaseInv, NEW f \in Forms, NEW m
    PROVE  CallKey(f) # OutcomeKey(m, "accepted")
<1>1. situation.forms[f].key \notin OtherKeys
  BY SituationFacts DEF BaseInv
<1>2. CallKey(f)[1] = situation.forms[f].key /\ OutcomeKey(m, "accepted")[1] = "accepted"
  BY DEF CallKey, OutcomeKey
<1>3. QED
  BY <1>1, <1>2 DEF OtherKeys

LEMMA SaveCallEffect ==
    ASSUME BaseInv, NEW f \in Forms, SaveCall(f)
    PROVE  FormEffect(f)
<1>1. /\ session \in SessionType /\ Sound(session) /\ NewSession \in SessionType
      /\ forms[f].copy \in SessionType
      /\ UNCHANGED <<situation, receives, dead, worker, begun, host, restarts>>
      /\ UNCHANGED <<queue, seen, commands>>
      /\ Call(f).op \in Saving /\ forms[f].stage = "save" /\ Call(f) \in Calls
      /\ forms[f].at <= Len(situation.forms[f].calls)
  BY BaseTyped, NewSessionTyped, CallFacts DEF SaveCall, Calling
<1>2. Fresh(NewSession, session) /\ Fresh(forms[f].copy, session)
  BY DEF BaseInv, CopyInv
<1>3. Accepts(forms[f].copy, Call(f))
  BY <1>1 DEF BaseInv, FormInv, Fits
<1> DEFINE s == Apply(forms[f].copy, Call(f))
<1>4. CASE /\ CanSave(forms[f].copy, CallKey(f))
           /\ session' = s /\ records' = records \cup {CallKey(f)}
           /\ Continue(f, s) \/ (situation.faults /\ Go(f, "again", NewSession))
  <2>1. forms[f].copy = session
    BY <1>1, <1>2, <1>4, SavesSession
  <2>2. Edits(session, s) /\ s.marker = session.marker /\ s.files = session.files
    BY <1>1, <1>3, <2>1, ApplyEdits
  <2> HIDE DEF s
  <2>3. s \in SessionType /\ Fresh(s, s) /\ Fresh(NewSession, s)
    BY <1>1, <1>2, <2>2, FreshStays DEF Edits, Saved
  <2>4. FormMoved(f)
    <3>1. CASE Continue(f, s)
      BY <1>1, <1>4, <2>3, <3>1, ContinueMoves
    <3>2. CASE Go(f, "again", NewSession)
      BY <1>1, <1>4, <2>3, <3>2, SavingFits, GoMoves DEF FormStages
    <3>3. QED
      BY <1>4, <3>1, <3>2
  <2>5. SameOutcomes
    BY <1>4, CallKeyOther DEF SameOutcomes
  <2>6. QED
    BY <1>1, <1>4, <2>2, <2>4, <2>5 DEF FormEffect, FormMarks, SameCommands, FormSends
<1>5. CASE ~CanSave(forms[f].copy, CallKey(f)) /\ Go(f, "again", NewSession)
           /\ UNCHANGED <<session, records>>
  <2>1. FormMoved(f)
    BY <1>1, <1>2, <1>5, SavingFits, GoMoves DEF FormStages
  <2>2. QED
    BY <1>1, <1>5, <2>1 DEF FormEffect, FormMarks, SameCommands, FormSends, SameOutcomes
<1>6. QED
  BY <1>4, <1>5 DEF SaveCall

LEMMA AgainEffect ==
    ASSUME BaseInv, NEW f \in Forms, Again(f)
    PROVE  FormEffect(f)
<1>1. /\ session \in SessionType /\ Fresh(session, session) /\ Fresh(NewSession, session)
      /\ session' = session /\ records' = records /\ UNCHANGED <<queue, seen, commands>>
      /\ Call(f).op \in Saving /\ forms[f].stage = "again"
  BY BaseTyped, BaseFresh, BaseFits DEF Again, Calling, Fits
<1>2. FormMoved(f)
  BY <1>1, ContinueMoves DEF Again
<1>3. QED
  BY <1>1, <1>2 DEF Again, Calling, FormEffect, FormMarks, SameOutcomes, SameCommands, FormSends

LEMMA StartFormEffect ==
    ASSUME BaseInv, NEW f \in Forms, StartForm(f)
    PROVE  FormEffect(f)
<1>1. /\ forms[f].copy \in SessionType /\ Fresh(NewSession, session)
      /\ session' = session /\ records' = records /\ UNCHANGED <<queue, seen>>
      /\ Call(f).op \in Saving /\ forms[f].stage = "start"
  BY BaseTyped, BaseFresh, BaseFits DEF StartForm, Calling, Fits
<1>2. FormMoved(f)
  BY <1>1, NextMoves DEF StartForm
<1>3. SameCommands
  BY <1>1 DEF StartForm, RequestAutomaticStart, SameCommands
<1>4. QED
  BY <1>1, <1>2, <1>3 DEF StartForm, Calling, FormEffect, FormMarks, SameOutcomes, FormSends

LEMMA IngestEffect ==
    ASSUME BaseInv, NEW f \in Forms, RequestArtifactIngest(f)
    PROVE  FormEffect(f)
<1>1. /\ session' = session /\ Fresh(NewSession, session)
      /\ UNCHANGED <<records, commands>>
      /\ Call(f).op = "ingest" /\ Enqueued(Call(f).message) /\ forms[f].stage = "load"
  BY BaseFresh DEF RequestArtifactIngest, Calling
<1>2. FormMoved(f) /\ forms'[f].at # forms[f].at
  BY <1>1, NextMoves DEF RequestArtifactIngest
<1>3. FormSends(f)
  BY <1>1, <1>2 DEF FormSends
<1>4. QED
  BY <1>1, <1>2, <1>3
     DEF RequestArtifactIngest, Calling, FormEffect, FormMarks, SameOutcomes, SameCommands

LEMMA ResolvingFits ==
    ASSUME NEW c, c.op = "resolve", NEW s
    PROVE  /\ Fits(c, "mark", s) /\ Fits(c, "mark-again", s) /\ Fits(c, "enqueue", s)
           /\ Fits(c, "enqueue-again", s) /\ Fits(c, "unmark", s)
BY DEF Fits

LEMMA ResolveEffect ==
    ASSUME BaseInv, NEW f \in Forms, RequestWorkshopResolve(f)
    PROVE  FormEffect(f)
<1>1. /\ session' = session /\ Fresh(NewSession, session) /\ Fresh(session, session)
      /\ session \in SessionType /\ NewSession \in SessionType
      /\ UNCHANGED <<records, commands, queue, seen>>
      /\ Call(f).op = "resolve" /\ forms[f].stage = "load"
      /\ {"mark", "mark-again", "enqueue-again"} \subseteq FormStages
  BY BaseFresh, BaseTyped, NewSessionTyped DEF RequestWorkshopResolve, Calling, FormStages
<1>2. \/ Go(f, "enqueue-again", NewSession)
      \/ Go(f, "mark", session) \/ Go(f, "mark-again", session)
  BY DEF RequestWorkshopResolve
<1>3. FormMoved(f) /\ forms'[f].at = forms[f].at
  BY <1>1, <1>2, ResolvingFits, GoMoves
<1>4. FormSends(f)
  BY <1>1, <1>3 DEF FormSends
<1>5. QED
  BY <1>1, <1>3, <1>4
     DEF RequestWorkshopResolve, Calling, FormEffect, FormMarks, SameOutcomes, SameCommands

LEMMA MarkEffect ==
    ASSUME BaseInv, NEW f \in Forms, MarkWorkshopResolution(f)
    PROVE  FormEffect(f)
<1>1. /\ Fresh(NewSession, session) /\ Fresh(forms[f].copy, session)
      /\ session \in SessionType /\ Sound(session) /\ NewSession \in SessionType
      /\ forms[f].copy \in SessionType
      /\ UNCHANGED <<situation, queue, seen, receives, dead, worker, commands, begun, host,
                     restarts>>
      /\ forms[f].stage \in {"mark", "mark-again"}
      /\ forms[f].at <= Len(situation.forms[f].calls)
      /\ {"enqueue", "enqueue-again", "failed"} \subseteq FormStages
  BY BaseFresh, BaseTyped, NewSessionTyped DEF MarkWorkshopResolution, Calling, FormStages
<1>2. Call(f).op = "resolve"
  BY <1>1, BaseFits DEF Fits
<1>3. Call(f).message \in Messages
  BY <1>1, <1>2, CallFacts, BaseTyped
<1> DEFINE m == Call(f).message
           again == forms[f].stage = "mark-again"
           key == IF again THEN <<"workshop-requeued", m>> ELSE QueuedKey(m)
<1>4. CASE CanSave(forms[f].copy, key)
  <2>1. forms[f].copy = session
    BY <1>1, <1>4, SavesSession
  <2>2. /\ session' = BeginWorkshopResolution(session, m)
        /\ records' = records \cup {QueuedKey(m)}
        /\ Go(f, "enqueue", NewSession) \/ Go(f, "enqueue-again", NewSession)
    BY <1>4, <2>1 DEF MarkWorkshopResolution
  <2>3. /\ Edits(session, session') /\ session'.files = session.files
        /\ session'.marker = [target |-> Target(m), key |-> m]
    BY <1>1, <1>3, <2>2, BeginEdits
  <2>4. session' \in SessionType /\ Saved(session, session')
    BY <2>3 DEF Edits, Saved
  <2>5. Fresh(NewSession, session')
    BY <1>1, <2>4, FreshStays
  <2>6. FormMoved(f) /\ forms'[f].at = forms[f].at
    BY <1>1, <1>2, <2>2, <2>5, ResolvingFits, GoMoves
  <2>7. SameOutcomes
    BY <2>2 DEF SameOutcomes, QueuedKey, OutcomeKey
  <2>8. FormMarks(f) /\ FormSends(f) /\ SameCommands
    BY <1>1, <1>2, <2>3, <2>6 DEF FormMarks, FormSends, SameCommands
  <2>9. QED
    BY <1>1, <2>3, <2>6, <2>7, <2>8 DEF FormEffect
<1>5. CASE ~CanSave(forms[f].copy, key)
  <2>1. Fail(f) /\ UNCHANGED <<session, records>>
    BY <1>5 DEF MarkWorkshopResolution
  <2>2. FormMoved(f) /\ forms'[f].at = forms[f].at
    BY <1>1, <2>1, GoMoves DEF Fail, Fits
  <2>3. FormMarks(f) /\ FormSends(f) /\ SameCommands /\ SameOutcomes
    BY <1>1, <2>1, <2>2 DEF FormMarks, FormSends, SameCommands, SameOutcomes
  <2>4. QED
    BY <1>1, <2>1, <2>2, <2>3 DEF FormEffect
<1>6. QED
  BY <1>4, <1>5

LEMMA EnqueueEffect ==
    ASSUME BaseInv, NEW f \in Forms, EnqueueWorkshop(f)
    PROVE  FormEffect(f)
<1>1. /\ session' = session /\ Fresh(NewSession, session) /\ NewSession \in SessionType
      /\ UNCHANGED <<situation, session, records, receives, dead, worker, commands, begun,
                     host, restarts>>
      /\ forms[f].stage \in {"enqueue", "enqueue-again"}
      /\ forms[f].at <= Len(situation.forms[f].calls)
      /\ "unmark" \in FormStages
  BY BaseFresh, NewSessionTyped DEF EnqueueWorkshop, Calling, FormStages
<1>2. Call(f).op = "resolve"
  BY <1>1, BaseFits DEF Fits
<1>3. FormMoved(f) /\ FormSends(f)
  <2>1. CASE Enqueued(Call(f).message) /\ NextCall(f)
    BY <1>1, <1>2, <2>1, NextMoves DEF FormSends
  <2>2. CASE /\ UNCHANGED <<queue, seen>> \/ Enqueued(Call(f).message)
             /\ Go(f, "unmark", NewSession)
    <3>1. FormMoved(f) /\ forms'[f].at = forms[f].at /\ forms'[f].stage = "unmark"
      BY <1>1, <1>2, <2>2, ResolvingFits, GoMoves
    <3>2. QED
      BY <1>2, <2>2, <3>1 DEF FormSends
  <2>3. QED
    BY <2>1, <2>2 DEF EnqueueWorkshop
<1>4. QED
  BY <1>1, <1>3 DEF FormEffect, FormMarks, SameOutcomes, SameCommands

LEMMA UnmarkEffect ==
    ASSUME BaseInv, NEW f \in Forms, Unmark(f)
    PROVE  FormEffect(f)
<1>1. /\ session \in SessionType /\ Sound(session) /\ Fresh(NewSession, session)
      /\ UNCHANGED <<situation, records, queue, seen, receives, dead, worker, commands,
                     begun, host, restarts>>
      /\ forms[f].at <= Len(situation.forms[f].calls)
      /\ NewSession \in SessionType /\ "failed" \in FormStages
      /\ session' = Mutation([session EXCEPT !.marker = NoMarker]) /\ Fail(f)
  BY BaseFresh, BaseTyped, NewSessionTyped DEF Unmark, Calling, FormStages
<1>2. /\ Edits(session, session') /\ session'.files = session.files
      /\ session'.marker = NoMarker
  BY <1>1, UnmarkedEdits
<1>3. session' \in SessionType /\ Saved(session, session')
  BY <1>2 DEF Edits, Saved
<1>4. Fresh(NewSession, session')
  BY <1>1, <1>3, FreshStays
<1>5. FormMoved(f) /\ forms'[f].at = forms[f].at
  BY <1>1, <1>4, GoMoves DEF Fail, Fits
<1>6. QED
  BY <1>1, <1>2, <1>5 DEF FormEffect, FormMarks, FormSends, SameOutcomes, SameCommands

LEMMA FormStepEffect ==
    ASSUME BaseInv, NEW f \in Forms, FormStep(f)
    PROVE  FormEffect(f)
BY LoadEffect, SaveCallEffect, AgainEffect, StartFormEffect, IngestEffect, ResolveEffect,
   MarkEffect, EnqueueEffect, UnmarkEffect DEF FormStep

-----------------------------------------------------------------------------
(* What a step of the worker does *)

(* Who drops a link has recorded it, or leaves no marker. *)
Droppable(m) ==
    IsWorkshop(m) => session'.marker.key = None \/ OutcomeKey(m, "accepted") \in records

WorkerMoved ==
    /\ worker' \in WorkerType /\ Fresh(worker'.copy, session')
    /\ Handles(worker'.stage, worker'.message, worker'.outcome, records')
    /\ \/ /\ UNCHANGED <<queue, dead>>
          /\ worker'.stage = "idle" \/ (queue # <<>> /\ worker'.message = Head(queue))
       \/ /\ worker'.stage = "idle" /\ queue # <<>> /\ queue' = Tail(queue)
          /\ \/ dead' = dead \cup {Head(queue)}
             \/ dead' = dead /\ Droppable(Head(queue))

(* An upload that is accepted is attached; a link that is, leaves no marker. *)
Accepted(m) ==
    /\ records' = records \cup {OutcomeKey(m, "accepted")}
    /\ IF IsWorkshop(m) THEN session'.files = session.files /\ session'.marker.key # m
       ELSE /\ IsValid(m)
            /\ session'.files = IF Kind(m) = "mission" THEN session.files \cup {Content(m)}
                                                       ELSE session.files
            /\ Kind(m) = "preset" => session'.hasPreset
            /\ Kind(m) = "server" => session'.hasServer

WorkerRecords ==
    \/ SameOutcomes /\ session'.files = session.files
    \/ \E m \in seen : Accepted(m)

SameLoad == host'.loaded = host.loaded /\ host'.woken = host.woken

WorkerEffect ==
    /\ UNCHANGED <<situation, forms, seen, begun, restarts>>
    /\ receives' \in [Messages -> Nat]
    /\ host' \in HostType /\ SameLoad
    /\ session' = session \/ Edits(session, session')
    /\ session'.marker \in {session.marker, NoMarker}
    /\ SameCommands /\ WorkerMoved /\ WorkerRecords

LEMMA RestingTyped ==
    /\ Resting \in WorkerType /\ Resting.copy = NewSession /\ Resting.stage = "idle"
    /\ \A keys : Handles(Resting.stage, Resting.message, Resting.outcome, keys)
BY NewSessionTyped DEF Resting, WorkerType, WorkerStages, Keys, Handles

LEMMA HeldMessage ==
    ASSUME BaseInv, ~Busy("idle")
    PROVE  /\ queue # <<>> /\ Message = Head(queue) /\ Message \in seen /\ Message \in Messages
           /\ Kind(Message) \in UploadKinds \cup WorkshopKinds
           /\ ~IsWorkshop(Message) => Kind(Message) \in UploadKinds
           /\ Content(Message) \in Contents
           /\ Handles(worker.stage, Message, worker.outcome, records)
<1>1. queue \in Seq(Messages) /\ WorkerInv /\ seen \subseteq Messages
  BY DEF BaseInv, TypeInv
<1>2. queue # <<>> /\ Message = Head(queue)
  BY <1>1 DEF WorkerInv
<1>3. 1 \in DOMAIN queue /\ Head(queue) = queue[1]
  BY <1>1, <1>2
<1>4. Message \in seen
  BY <1>1, <1>2, <1>3 DEF WorkerInv
<1>5. Kind(Message) \in UploadKinds \cup WorkshopKinds
  BY <1>1, <1>4 DEF WorkerInv
<1>6. Content(Message) \in Contents
  BY <1>1, <1>4, SituationFacts DEF BaseInv
<1>7. QED
  BY <1>1, <1>2, <1>4, <1>5, <1>6 DEF WorkerInv, IsWorkshop

LEMMA RetryMoves ==
    ASSUME BaseInv, ~Busy("idle"), Retry, Fresh(NewSession, session')
    PROVE  WorkerMoved
<1>1. queue # <<>> /\ Message = Head(queue) /\ worker' = Resting
  BY HeldMessage DEF Retry
<1>2. \/ UNCHANGED <<queue, dead>>
      \/ queue' = Tail(queue) /\ dead' = dead \cup {Message}
  BY DEF Retry
<1>3. QED
  BY <1>1, <1>2, RestingTyped DEF WorkerMoved

LEMMA DeleteMoves ==
    ASSUME BaseInv, ~Busy("idle"), Delete, Fresh(NewSession, session'), Droppable(Message)
    PROVE  WorkerMoved
<1>1. /\ queue # <<>> /\ Message = Head(queue) /\ worker' = Resting
      /\ queue' = Tail(queue) /\ dead' = dead
  BY HeldMessage DEF Delete
<1>2. QED
  BY <1>1, RestingTyped DEF WorkerMoved

LEMMA WorkMoves ==
    ASSUME BaseInv, ~Busy("idle"), NEW st \in WorkerStages, NEW c \in SessionType,
           NEW o \in {"none", "accepted", "rejected"}, Work(st, c, o), UNCHANGED <<queue, dead>>,
           Fresh(c, session'), Handles(st, Message, o, records')
    PROVE  WorkerMoved
<1>1. queue # <<>> /\ Message = Head(queue)
  BY HeldMessage
<1>2. worker \in WorkerType
  BY BaseTyped
<1>3. /\ worker' \in WorkerType /\ worker'.stage = st /\ worker'.copy = c
      /\ worker'.outcome = o /\ worker'.message = Message
  BY <1>2 DEF Work, WorkerType, Message
<1>4. QED
  BY <1>1, <1>3 DEF WorkerMoved

(* A step that neither saves nor sends. *)
Looks ==
    /\ UNCHANGED <<situation, session, records, forms, seen, commands, begun, restarts>>
    /\ receives' \in [Messages -> Nat]
    /\ host' \in HostType /\ SameLoad

LEMMA LooksEffect ==
    ASSUME BaseInv, Looks, WorkerMoved
    PROVE  WorkerEffect
BY DEF Looks, WorkerEffect, SameCommands, WorkerRecords, SameOutcomes

LEMMA Unmoved ==
    ASSUME BaseInv, UNCHANGED <<receives, host>>
    PROVE  receives' \in [Messages -> Nat] /\ host' \in HostType /\ SameLoad
BY DEF BaseInv, TypeInv, SameLoad

LEMMA ReceiveEffect ==
    ASSUME BaseInv, Receive
    PROVE  WorkerEffect
<1>1. /\ queue \in Seq(Messages) /\ queue # <<>> /\ receives \in [Messages -> Nat]
      /\ host \in HostType /\ Head(queue) \in Messages
  BY QueueTail DEF BaseInv, TypeInv, Receive, HostType
<1>2. receives' \in [Messages -> Nat]
  <2> DEFINE h == Head(queue)
             n == receives[h] + 1
  <2>1. receives' = [receives EXCEPT ![h] = n]
    BY DEF Receive
  <2>2. n \in Nat
    BY <1>1
  <2> HIDE DEF n, h
  <2>3. QED
    BY <1>1, <2>1, <2>2
<1>3. Looks
  BY <1>1, <1>2 DEF Looks, Receive, SameLoad
<1>4. /\ worker' \in WorkerType /\ worker'.stage = "load" /\ worker'.message = Head(queue)
      /\ worker'.copy = NewSession
  BY <1>1, NewSessionTyped DEF Receive, Resting, WorkerType, WorkerStages, Keys
<1>5. WorkerMoved
  BY <1>1, <1>4, BaseFresh DEF WorkerMoved, Receive, Handles
<1>6. QED
  BY <1>3, <1>5, LooksEffect

LEMMA ProcessEffect ==
    ASSUME BaseInv, Process
    PROVE  WorkerEffect
<1>1. /\ session' = session /\ session \in SessionType /\ ~Busy("idle")
      /\ Fresh(session, session') /\ Fresh(NewSession, session') /\ ~IsWorkshop(Message)
      /\ Looks
  BY BaseTyped, BaseFresh, Unmoved DEF Process, Busy, Looks
<1> DEFINE accept == IsValid(Message) /\ ~(Kind(Message) = "server" /\ session.vanilla)
           outcome == IF accept THEN "accepted" ELSE "rejected"
<1>2. outcome \in {"accepted", "rejected"} /\ (outcome = "accepted" => IsValid(Message))
  OBVIOUS
<1>3. \/ Work("copy", session, outcome) /\ UNCHANGED <<queue, dead>>
      \/ Delete
      \/ Work("save", session, outcome) /\ UNCHANGED <<queue, dead>>
      \/ Retry
  BY DEF Process
<1> HIDE DEF outcome
<1>4. \A keys : Handles("copy", Message, outcome, keys) /\ Handles("save", Message, outcome, keys)
  BY <1>1, <1>2 DEF Handles
<1>5. "copy" \in WorkerStages /\ "save" \in WorkerStages /\ Droppable(Message)
  BY <1>1 DEF WorkerStages, Droppable
<1>6. WorkerMoved
  BY <1>1, <1>2, <1>3, <1>4, <1>5, WorkMoves, DeleteMoves, RetryMoves
<1>7. QED
  BY <1>1, <1>6, LooksEffect

LEMMA SavedFresh ==
    ASSUME BaseInv, Edits(session, session')
    PROVE  session' \in SessionType /\ Fresh(NewSession, session') /\ Fresh(session', session')
<1>1. session' \in SessionType /\ Saved(session, session')
  BY DEF Edits, Saved
<1>2. QED
  BY <1>1, BaseTyped, BaseFresh, NewSessionTyped, FreshStays

LEMMA SaveOutcomeEffect ==
    ASSUME BaseInv, SaveOutcome
    PROVE  WorkerEffect
<1>1. /\ session \in SessionType /\ Sound(session) /\ ~Busy("idle")
      /\ worker.copy \in SessionType /\ Fresh(worker.copy, session)
      /\ Fresh(NewSession, session) /\ ~IsWorkshop(Message) /\ worker.stage = "save"
      /\ Kind(Message) \in UploadKinds /\ Content(Message) \in Contents
      /\ Message \in seen /\ Droppable(Message) /\ "copy" \in WorkerStages
  BY BaseTyped, BaseFresh, HeldMessage DEF SaveOutcome, Busy, Droppable, WorkerStages
<1>2. /\ worker.outcome \in {"accepted", "rejected"}
      /\ worker.outcome = "accepted" => IsValid(Message)
  BY <1>1, HeldMessage DEF Handles
<1>3. /\ UNCHANGED <<situation, forms, seen, receives, commands, begun, host, restarts>>
      /\ receives' \in [Messages -> Nat] /\ host' \in HostType /\ SameLoad
      /\ SameCommands
  BY Unmoved DEF SaveOutcome, SameCommands
<1> DEFINE key == OutcomeKey(Message, worker.outcome)
<1>4. CASE CanSave(worker.copy, key)
  <2>1. worker.copy = session
    BY <1>1, <1>4, SavesSession
  <2>2. CASE worker.outcome = "accepted"
    <3> DEFINE s == AttachArtifact(session, Kind(Message), Content(Message))
    <3>1. /\ session' = s /\ records' = records \cup {OutcomeKey(Message, "accepted")}
          /\ Work("copy", s, "accepted") /\ UNCHANGED <<queue, dead>>
      BY <1>4, <2>1, <2>2 DEF SaveOutcome
    <3>2. /\ Edits(session, s) /\ s.marker = session.marker
          /\ s.files = IF Kind(Message) = "mission" THEN session.files \cup {Content(Message)}
                                                    ELSE session.files
          /\ Kind(Message) = "preset" => s.hasPreset
          /\ Kind(Message) = "server" => s.hasServer
      BY <1>1, AttachEdits
    <3> HIDE DEF s
    <3>3. Accepted(Message)
      BY <1>1, <1>2, <2>2, <3>1, <3>2 DEF Accepted
    <3>4. Handles("copy", Message, "accepted", records')
      BY <1>1 DEF Handles
    <3>5. WorkerMoved
      BY <1>1, <3>1, <3>2, <3>4, SavedFresh, WorkMoves
    <3>6. QED
      BY <1>1, <1>3, <3>1, <3>2, <3>3, <3>5 DEF WorkerEffect, WorkerRecords
  <2>3. CASE worker.outcome = "rejected"
    <3>1. /\ session' = RejectArtifact(session, Kind(Message)) /\ Delete
          /\ records' = records \cup {OutcomeKey(Message, "rejected")}
      BY <1>4, <2>1, <2>3 DEF SaveOutcome
    <3>2. /\ Edits(session, session') /\ session'.marker = session.marker
          /\ session'.files = session.files
      BY <1>1, <3>1, RejectEdits
    <3>3. WorkerMoved
      BY <1>1, <3>1, <3>2, SavedFresh, DeleteMoves
    <3>4. SameOutcomes
      BY <3>1 DEF SameOutcomes, OutcomeKey
    <3>5. QED
      BY <1>3, <3>2, <3>3, <3>4 DEF WorkerEffect, WorkerRecords
  <2>4. QED
    BY <1>2, <2>2, <2>3
<1>5. CASE ~CanSave(worker.copy, key)
  <2>1. Retry /\ UNCHANGED <<session, records>>
    BY <1>5 DEF SaveOutcome
  <2>2. WorkerMoved
    BY <1>1, <2>1, RetryMoves
  <2>3. QED
    BY <1>3, <2>1, <2>2, LooksEffect DEF Looks
<1>6. QED
  BY <1>4, <1>5

LEMMA CopyEffect ==
    ASSUME BaseInv, copyMissionLive
    PROVE  WorkerEffect
<1>1. /\ session' = session /\ ~Busy("idle") /\ worker.copy \in SessionType
      /\ Fresh(worker.copy, session') /\ Content(Message) \in Contents
      /\ worker.outcome \in {"none", "accepted", "rejected"}
      /\ Work("start", worker.copy, worker.outcome) /\ UNCHANGED <<queue, dead>>
      /\ worker.stage = "copy" /\ "start" \in WorkerStages /\ host \in HostType
      /\ host' = host \/ host' = [host EXCEPT !.missions = @ \cup {Content(Message)}]
  BY BaseTyped, BaseFresh, HeldMessage
     DEF copyMissionLive, Busy, WorkerStages, BaseInv, TypeInv, HostType
<1>2. host' \in HostType /\ SameLoad
  <2> DEFINE more == host.missions \cup {Content(Message)}
             h == [host EXCEPT !.missions = more]
  <2>1. more \in SUBSET (Contents \cup {Default})
    BY <1>1 DEF HostType
  <2> HIDE DEF more
  <2>2. h \in HostType /\ h.loaded = host.loaded /\ h.woken = host.woken
    BY <1>1, <2>1 DEF HostType
  <2>3. QED
    BY <1>1, <2>2 DEF more, SameLoad
<1>3. Looks
  BY <1>2, Unmoved DEF Looks, copyMissionLive, BaseInv, TypeInv
<1>4. ~IsWorkshop(Message)
  BY <1>1, HeldMessage DEF Handles
<1>5. Handles("start", Message, worker.outcome, records')
  BY <1>4 DEF Handles
<1>6. WorkerMoved
  BY <1>1, <1>5, WorkMoves
<1>7. QED
  BY <1>3, <1>6, LooksEffect

LEMMA AutoStartEffect ==
    ASSUME BaseInv, AutoStart
    PROVE  WorkerEffect
<1>1. /\ session' = session /\ records' = records /\ ~Busy("idle") /\ worker.stage = "start"
      /\ worker.copy \in SessionType /\ Fresh(NewSession, session')
      /\ UNCHANGED <<situation, forms, seen, begun, restarts>>
      /\ receives' \in [Messages -> Nat] /\ host' \in HostType /\ SameLoad
  BY BaseTyped, BaseFresh, Unmoved DEF AutoStart, Busy
<1>2. Droppable(Message)
  BY <1>1, HeldMessage DEF Handles, Droppable
<1>3. WorkerMoved
  BY <1>1, <1>2, RetryMoves, DeleteMoves DEF AutoStart
<1>4. SameCommands
  BY <1>1 DEF AutoStart, RequestAutomaticStart, SameCommands
<1>5. QED
  BY <1>1, <1>3, <1>4 DEF WorkerEffect, WorkerRecords, SameOutcomes

LEMMA ResolvingHandles ==
    ASSUME BaseInv, IsWorkshop(Message), NEW o, NEW keys
    PROVE  /\ Handles("clear", Message, o, keys) /\ Handles("clearing", Message, o, keys)
           /\ Handles("save", Message, o, keys)
           /\ OutcomeKey(Message, "accepted") \in keys => Handles("start", Message, o, keys)
BY DEF Handles

LEMMA ResolveWorkshopEffect ==
    ASSUME BaseInv, ResolveWorkshop
    PROVE  WorkerEffect
<1>1. /\ session' = session /\ records' = records /\ ~Busy("idle") /\ IsWorkshop(Message)
      /\ session \in SessionType /\ NewSession \in SessionType /\ Looks
      /\ Fresh(NewSession, session') /\ Fresh(session, session') /\ UNCHANGED <<queue, dead>>
      /\ {"clear", "start", "save"} \subseteq WorkerStages
  BY BaseTyped, BaseFresh, NewSessionTyped, Unmoved
     DEF ResolveWorkshop, Busy, Looks, WorkerStages
<1>2. \/ Work("clear", NewSession, "rejected") \/ Work("save", session, "accepted")
      \/ Work("start", session, "accepted") /\ OutcomeKey(Message, "accepted") \in records
  BY DEF ResolveWorkshop
<1>3. WorkerMoved
  BY <1>1, <1>2, ResolvingHandles, WorkMoves
<1>4. QED
  BY <1>1, <1>3, LooksEffect

LEMMA SaveWorkshopEffect ==
    ASSUME BaseInv, SaveWorkshop
    PROVE  WorkerEffect
<1>1. /\ session \in SessionType /\ Sound(session) /\ ~Busy("idle") /\ IsWorkshop(Message)
      /\ worker.copy \in SessionType /\ Fresh(worker.copy, session)
      /\ NewSession \in SessionType /\ Fresh(NewSession, session)
      /\ Content(Message) \in Contents /\ Message \in seen /\ Message \in Messages
      /\ "clear" \in WorkerStages /\ "start" \in WorkerStages
  BY BaseTyped, BaseFresh, NewSessionTyped, HeldMessage DEF SaveWorkshop, Busy, WorkerStages
<1>2. /\ UNCHANGED <<situation, forms, seen, receives, commands, begun, host, restarts>>
      /\ receives' \in [Messages -> Nat] /\ host' \in HostType /\ SameLoad
      /\ SameCommands
  BY Unmoved DEF SaveWorkshop, SameCommands
<1> DEFINE s == RecordWorkshopSource(worker.copy, Message)
<1>3. CASE /\ CanSave(worker.copy, OutcomeKey(Message, "accepted"))
           /\ session' = s /\ records' = records \cup {OutcomeKey(Message, "accepted")}
           /\ Work("start", s, "accepted") /\ UNCHANGED <<queue, dead>>
  <2>1. worker.copy = session
    BY <1>1, <1>3, SavesSession
  <2>2. /\ Edits(session, s) /\ s.files = session.files
        /\ \/ s.marker = NoMarker
           \/ s.marker = session.marker /\ session.marker.target # Target(Message)
    BY <1>1, <2>1, RecordEdits
  <2>3. s.marker \in {session.marker, NoMarker} /\ s.marker.key # Message
    <3>1. session.marker.key = Message => session.marker.target = Target(Message)
      BY <1>1, IntakeAssumption DEF BaseInv, MarkerFits
    <3>2. NoMarker.key # Message
      BY <1>1, NoMarkerTyped, IntakeAssumption
    <3>3. QED
      BY <2>2, <3>1, <3>2
  <2> HIDE DEF s
  <2>4. Accepted(Message)
    BY <1>1, <1>3, <2>2, <2>3 DEF Accepted
  <2>5. OutcomeKey(Message, "accepted") \in records'
    BY <1>3
  <2>6. s \in SessionType /\ Fresh(s, session')
    BY <1>3, <2>2, SavedFresh
  <2>7. WorkerMoved
    BY <1>1, <1>3, <2>5, <2>6, ResolvingHandles, WorkMoves
  <2>8. QED
    BY <1>1, <1>2, <1>3, <2>2, <2>3, <2>4, <2>7 DEF WorkerEffect, WorkerRecords
<1>4. CASE /\ \/ Work("clear", NewSession, "rejected") /\ UNCHANGED <<queue, dead>>
              \/ Retry
           /\ UNCHANGED <<session, records>>
  <2>1. WorkerMoved
    BY <1>1, <1>4, ResolvingHandles, WorkMoves, RetryMoves
  <2>2. QED
    BY <1>2, <1>4, <2>1, LooksEffect DEF Looks
<1>5. QED
  BY <1>3, <1>4 DEF SaveWorkshop

LEMMA LoadClearEffect ==
    ASSUME BaseInv, LoadClear
    PROVE  WorkerEffect
<1>1. /\ session' = session /\ records' = records /\ ~Busy("idle") /\ worker.stage = "clear"
      /\ session \in SessionType /\ Looks
      /\ Fresh(NewSession, session') /\ Fresh(session, session')
      /\ "clearing" \in WorkerStages
  BY BaseTyped, BaseFresh, Unmoved DEF LoadClear, Busy, Looks, WorkerStages
<1>2. IsWorkshop(Message)
  BY <1>1, HeldMessage DEF Handles
<1>3. \/ Work("clearing", session, "rejected") /\ UNCHANGED <<queue, dead>>
      \/ Retry
  BY DEF LoadClear
<1>4. WorkerMoved
  BY <1>1, <1>2, <1>3, ResolvingHandles, WorkMoves, RetryMoves
<1>5. QED
  BY <1>1, <1>4, LooksEffect

LEMMA ClearEffect ==
    ASSUME BaseInv, ClearResolution
    PROVE  WorkerEffect
<1>1. /\ session \in SessionType /\ Sound(session) /\ ~Busy("idle")
      /\ worker.copy \in SessionType /\ Fresh(worker.copy, session)
      /\ Fresh(NewSession, session)
  BY BaseTyped, BaseFresh DEF ClearResolution, Busy
<1>2. /\ UNCHANGED <<situation, forms, seen, receives, commands, begun, host, restarts>>
      /\ receives' \in [Messages -> Nat] /\ host' \in HostType /\ SameLoad
      /\ SameCommands
  BY Unmoved DEF ClearResolution, SameCommands
<1> DEFINE key == <<"workshop-clear", Message>>
<1>3. CASE CanSave(worker.copy, key)
  <2>1. worker.copy = session
    BY <1>1, <1>3, SavesSession
  <2>2. /\ session' = Mutation([session EXCEPT !.marker = NoMarker])
        /\ records' = records \cup {key} /\ Delete
    BY <1>3, <2>1 DEF ClearResolution, RecordWorkshopResolutionFailure
  <2>3. /\ Edits(session, session') /\ session'.files = session.files
        /\ session'.marker = NoMarker
    BY <1>1, <2>2, UnmarkedEdits
  <2>4. Droppable(Message)
    BY <2>3, NoMarkerTyped DEF Droppable
  <2>5. WorkerMoved
    BY <1>1, <2>2, <2>3, <2>4, SavedFresh, DeleteMoves
  <2>6. SameOutcomes
    BY <2>2 DEF SameOutcomes, OutcomeKey
  <2>7. QED
    BY <1>2, <2>3, <2>5, <2>6 DEF WorkerEffect, WorkerRecords
<1>4. CASE ~CanSave(worker.copy, key)
  <2>1. Retry /\ UNCHANGED <<session, records>>
    BY <1>4 DEF ClearResolution
  <2>2. WorkerMoved
    BY <1>1, <2>1, RetryMoves
  <2>3. QED
    BY <1>2, <2>1, <2>2, LooksEffect DEF Looks
<1>5. QED
  BY <1>3, <1>4

LEMMA CrashEffect ==
    ASSUME BaseInv, Crash
    PROVE  WorkerEffect
<1>1. ~Busy("idle") /\ Retry /\ Fresh(NewSession, session') /\ Looks
  BY BaseFresh, Unmoved DEF Crash, Looks
<1>2. QED
  BY <1>1, RetryMoves, LooksEffect

LEMMA WorkerStepEffect ==
    ASSUME BaseInv, Worker
    PROVE  WorkerEffect
BY ReceiveEffect, ProcessEffect, SaveOutcomeEffect, CopyEffect, AutoStartEffect,
   ResolveWorkshopEffect, SaveWorkshopEffect, LoadClearEffect, ClearEffect, CrashEffect
   DEF Worker

-----------------------------------------------------------------------------
(* What a step of a workflow does *)

Untouched(s, t) ==
    t.files = s.files /\ t.removed = s.removed /\ t.marker = s.marker

(* A command is taken, and its revision started or not. *)
CommandsTaken ==
    \/ UNCHANGED <<commands, begun>>
    \/ \E c \in commands :
          /\ ~c.taken /\ commands' = (commands \ {c}) \cup {[c EXCEPT !.taken = TRUE]}
          /\ begun' = begun \/ begun' = Append(begun, c.revision)

Started == {"RUNNING", "SLEEPING", "FAILED", "RESTARTING", "STOPPING", "DELETING"}

HostMoved ==
    \/ host' = host /\ session' = session
    \/ /\ session.life = "NEW" \/ (session.life = "FAILED" /\ ~session.hosted)
       /\ session'.life = "VALIDATING" /\ session'.hosted = session.hosted /\ host' = host
    \/ /\ session'.life \in Started /\ session'.current = session.current /\ host' = host
       /\ session.hosted => session'.hosted
    \/ /\ session'.life = "WAKING" /\ session'.hosted = session.hosted
       /\ host'.woken /\ host'.loaded = host.loaded
    \/ /\ session'.life \in Started /\ session'.hosted /\ host'.loaded = session'.current

WorkflowEffect ==
    /\ UNCHANGED <<situation, records, forms, queue, seen, receives, dead, worker>>
    /\ host' \in HostType /\ restarts' \in Nat
    /\ session' = session \/ (Saved(session, session') /\ Untouched(session, session'))
    /\ CommandsTaken /\ HostMoved

LEMMA MovesSession ==
    ASSUME NEW s \in SessionType, Sound(s), NEW r \in SessionType, NEW l \in Lives,
           r.files = s.files, r.removed = s.removed, r.marker = s.marker,
           r.configured = s.configured, r.hasPreset = s.hasPreset, r.hasServer = s.hasServer,
           r.version = s.version, r.life = l, r.locked <=> l \in LockedLives, l # "NEW"
    PROVE  LET t == Mutation(r)
           IN  /\ Saved(s, t) /\ Untouched(s, t) /\ t.life = l
               /\ t.current = r.current /\ t.hosted = r.hosted
<1> DEFINE t == Mutation(r)
<1>1. t \in SessionType /\ Like(r, t) /\ t.life = r.life /\ t.version = r.version + 1
  BY MutationFields
<1> HIDE DEF t
<1>2. Sound(r)
  BY DEF Sound
<1>3. Sound(t)
  BY <1>1, <1>2, LikeSound
<1>4. QED
  BY <1>1, <1>3 DEF Like, Saved, Untouched, t

Locks(s, l) == [s EXCEPT !.life = l, !.locked = TRUE]
Selects(s, l, x) == [s EXCEPT !.life = l, !.locked = TRUE, !.current = x]
Leaves(s, l, h) == [s EXCEPT !.life = l, !.locked = FALSE, !.hosted = h]

LEMMA LocksSession ==
    ASSUME NEW s \in SessionType, Sound(s), NEW l \in LockedLives
    PROVE  LET t == Mutation(Locks(s, l))
           IN  /\ Saved(s, t) /\ Untouched(s, t) /\ t.life = l
               /\ t.current = s.current /\ t.hosted = s.hosted
<1>1. l \in Lives /\ l # "NEW"
  BY DEF LockedLives, Lives
<1> DEFINE r == Locks(s, l)
<1>2. /\ r \in SessionType
      /\ r.files = s.files /\ r.removed = s.removed /\ r.marker = s.marker
      /\ r.configured = s.configured /\ r.hasPreset = s.hasPreset
      /\ r.hasServer = s.hasServer /\ r.version = s.version /\ r.life = l /\ r.locked
      /\ r.current = s.current /\ r.hosted = s.hosted
  BY <1>1 DEF SessionType, Locks
<1> HIDE DEF r
<1>3. /\ Saved(s, Mutation(r)) /\ Untouched(s, Mutation(r)) /\ Mutation(r).life = l
      /\ Mutation(r).current = r.current /\ Mutation(r).hosted = r.hosted
  BY <1>1, <1>2, MovesSession
<1>4. QED
  BY <1>2, <1>3 DEF r

LEMMA SelectsSession ==
    ASSUME NEW s \in SessionType, Sound(s), NEW l \in LockedLives,
           NEW x \in Contents \cup {Default, None}
    PROVE  LET t == Mutation(Selects(s, l, x))
           IN  /\ Saved(s, t) /\ Untouched(s, t) /\ t.life = l
               /\ t.current = x /\ t.hosted = s.hosted
<1>1. l \in Lives /\ l # "NEW"
  BY DEF LockedLives, Lives
<1> DEFINE r == Selects(s, l, x)
<1>2. /\ r \in SessionType
      /\ r.files = s.files /\ r.removed = s.removed /\ r.marker = s.marker
      /\ r.configured = s.configured /\ r.hasPreset = s.hasPreset
      /\ r.hasServer = s.hasServer /\ r.version = s.version /\ r.life = l /\ r.locked
      /\ r.current = x /\ r.hosted = s.hosted
  BY <1>1 DEF SessionType, Selects
<1> HIDE DEF r
<1>3. /\ Saved(s, Mutation(r)) /\ Untouched(s, Mutation(r)) /\ Mutation(r).life = l
      /\ Mutation(r).current = r.current /\ Mutation(r).hosted = r.hosted
  BY <1>1, <1>2, MovesSession
<1>4. QED
  BY <1>2, <1>3 DEF r

LEMMA LeavesSession ==
    ASSUME NEW s \in SessionType, Sound(s), NEW l \in {"RUNNING", "SLEEPING", "FAILED"},
           NEW h \in BOOLEAN
    PROVE  LET t == Mutation(Leaves(s, l, h))
           IN  /\ Saved(s, t) /\ Untouched(s, t) /\ t.life = l
               /\ t.current = s.current /\ t.hosted = h
<1>1. l \in Lives \ LockedLives /\ l # "NEW"
  BY DEF LockedLives, Lives
<1> DEFINE r == Leaves(s, l, h)
<1>2. /\ r \in SessionType
      /\ r.files = s.files /\ r.removed = s.removed /\ r.marker = s.marker
      /\ r.configured = s.configured /\ r.hasPreset = s.hasPreset
      /\ r.hasServer = s.hasServer /\ r.version = s.version /\ r.life = l /\ ~r.locked
      /\ r.current = s.current /\ r.hosted = h
  BY <1>1 DEF SessionType, Leaves
<1> HIDE DEF r
<1>3. /\ Saved(s, Mutation(r)) /\ Untouched(s, Mutation(r)) /\ Mutation(r).life = l
      /\ Mutation(r).current = r.current /\ Mutation(r).hosted = r.hosted
  BY <1>1, <1>2, MovesSession
<1>4. QED
  BY <1>2, <1>3 DEF r

LEMMA WorkflowFacts ==
    ASSUME BaseInv
    PROVE  /\ session \in SessionType /\ Sound(session) /\ session.hosted \in BOOLEAN
           /\ session.current \in Contents \cup {Default, None}
           /\ session.configured \in Contents \cup {Default, None}
           /\ host \in HostType /\ restarts \in Nat
BY BaseTyped DEF BaseInv, TypeInv, SessionType

LEMMA TakeCommandEffect ==
    ASSUME BaseInv, NEW c \in commands, TakeCommand(c)
    PROVE  WorkflowEffect
<1>1. CASE CanStartInfrastructureProvisioning(session)
  <2>1. session' = Mutation(Selects(session, "VALIDATING", session.configured))
    BY <1>1 DEF TakeCommand, Selects
  <2>2. /\ Saved(session, session') /\ Untouched(session, session')
        /\ session'.life = "VALIDATING" /\ session'.hosted = session.hosted
    BY <2>1, WorkflowFacts, SelectsSession DEF LockedLives
  <2>3. HostMoved
    BY <1>1, <2>2 DEF HostMoved, TakeCommand, CanStartInfrastructureProvisioning
  <2>4. CommandsTaken
    BY <1>1 DEF TakeCommand, CommandsTaken
  <2>5. QED
    BY <2>2, <2>3, <2>4, WorkflowFacts DEF WorkflowEffect, TakeCommand
<1>2. CASE ~CanStartInfrastructureProvisioning(session)
  <2>1. session' = session /\ begun' = begun
    BY <1>2 DEF TakeCommand
  <2>2. HostMoved /\ CommandsTaken
    BY <2>1 DEF HostMoved, TakeCommand, CommandsTaken
  <2>3. QED
    BY <2>1, <2>2, WorkflowFacts DEF WorkflowEffect, TakeCommand
<1>3. QED
  BY <1>1, <1>2

(* A restart and a sleep begin without another selection. *)
LEMMA BeginsEffect ==
    ASSUME BaseInv, Restart \/ Sleep
    PROVE  WorkflowEffect
<1>1. /\ Saved(session, session') /\ Untouched(session, session')
      /\ session'.life \in Started /\ session'.current = session.current
      /\ session'.hosted = session.hosted
  <2>1. PICK l \in {"RESTARTING", "STOPPING"} :
            session' = Mutation(Selects(session, l, session.current))
    BY DEF Restart, Sleep, Begins, Selects
  <2>2. l \in LockedLives /\ l \in Started
    BY DEF LockedLives, Started
  <2>3. QED
    BY <2>1, <2>2, WorkflowFacts, SelectsSession
<1>2. restarts' \in Nat /\ host' = host
  BY WorkflowFacts DEF Restart, Sleep
<1>3. HostMoved /\ CommandsTaken
  BY <1>1, <1>2 DEF HostMoved, CommandsTaken, Restart, Sleep
<1>4. QED
  BY <1>1, <1>2, <1>3, WorkflowFacts DEF WorkflowEffect, Restart, Sleep

LEMMA WakeEffect ==
    ASSUME BaseInv, Wake
    PROVE  WorkflowEffect
<1>1. /\ Saved(session, session') /\ Untouched(session, session')
      /\ session'.life = "WAKING" /\ session'.hosted = session.hosted
  <2>1. session' = Mutation(Selects(session, "WAKING", session.configured))
    BY DEF Wake, Begins, Selects
  <2>2. QED
    BY <2>1, WorkflowFacts, SelectsSession DEF LockedLives
<1>2. host' \in HostType /\ host'.woken /\ host'.loaded = host.loaded
  BY WorkflowFacts DEF Wake, HostType
<1>3. HostMoved /\ CommandsTaken
  BY <1>1, <1>2 DEF HostMoved, CommandsTaken, Wake
<1>4. QED
  BY <1>1, <1>2, <1>3, WorkflowFacts DEF WorkflowEffect, Wake

LEMMA DeployedTyped ==
    ASSUME BaseInv
    PROVE  Deployed \in HostType /\ Deployed.loaded = session.current
<1>1. AcceptedMissionFiles(session) \in SUBSET (Contents \cup {Default})
  <2>1. MissionForApplication(session) \in Contents \cup {Default}
    BY WorkflowFacts DEF MissionForApplication, SessionType
  <2>2. Active(session) \subseteq Contents
    BY WorkflowFacts DEF Active, SessionType
  <2>3. QED
    BY <2>1, <2>2 DEF AcceptedMissionFiles
<1>2. host.missions \cup AcceptedMissionFiles(session) \in SUBSET (Contents \cup {Default})
  BY <1>1, WorkflowFacts DEF HostType
<1>3. QED
  BY <1>2, WorkflowFacts DEF Deployed, HostType

LEMMA SucceedsEffect ==
    ASSUME BaseInv, WorkflowSucceeds
    PROVE  WorkflowEffect
<1> DEFINE l == IF session.life = "STOPPING" THEN "SLEEPING" ELSE "RUNNING"
<1>1. session' = Mutation(Leaves(session, l, TRUE))
  BY WorkflowFacts DEF WorkflowSucceeds, Leaves, SessionType
<1>2. l \in {"RUNNING", "SLEEPING", "FAILED"} /\ l \in Started
  BY DEF Started
<1> HIDE DEF l
<1>3. /\ Saved(session, session') /\ Untouched(session, session')
      /\ session'.life = l /\ session'.current = session.current /\ session'.hosted
  BY <1>1, <1>2, WorkflowFacts, LeavesSession
<1>4. host' = host \/ host' = Deployed
  BY DEF WorkflowSucceeds
<1>5. host' \in HostType /\ HostMoved
  BY <1>2, <1>3, <1>4, WorkflowFacts, DeployedTyped DEF HostMoved
<1>6. QED
  BY <1>3, <1>5, WorkflowFacts DEF WorkflowEffect, WorkflowSucceeds, CommandsTaken

LEMMA FailsEffect ==
    ASSUME BaseInv, WorkflowFails
    PROVE  WorkflowEffect
<1>1. PICK h \in {session.hosted, TRUE} :
          /\ session' = Mutation(Leaves(session, "FAILED", h))
          /\ host' = host \/ (h /\ host' = Deployed)
  BY DEF WorkflowFails, Leaves
<1>2. /\ Saved(session, session') /\ Untouched(session, session')
      /\ session'.life = "FAILED" /\ session'.current = session.current
      /\ session'.hosted = h
  BY <1>1, WorkflowFacts, LeavesSession
<1>3. host' \in HostType /\ HostMoved
  BY <1>1, <1>2, WorkflowFacts, DeployedTyped DEF HostMoved, Started
<1>4. QED
  BY <1>2, <1>3, WorkflowFacts DEF WorkflowEffect, WorkflowFails, CommandsTaken

LEMMA TerminateEffect ==
    ASSUME BaseInv, Terminate
    PROVE  WorkflowEffect
<1>1. /\ Saved(session, session') /\ Untouched(session, session')
      /\ session'.life = "DELETING" /\ session'.current = session.current
      /\ session'.hosted = session.hosted
  <2>1. session' = Mutation(Locks(session, "DELETING"))
    BY DEF Terminate, Locks
  <2>2. QED
    BY <2>1, WorkflowFacts, LocksSession DEF LockedLives
<1>2. HostMoved /\ CommandsTaken
  BY <1>1 DEF Terminate, HostMoved, Started, CommandsTaken
<1>3. QED
  BY <1>1, <1>2, WorkflowFacts DEF WorkflowEffect, Terminate

LEMMA WorkflowStepEffect ==
    ASSUME BaseInv, Workflow
    PROVE  WorkflowEffect
BY TakeCommandEffect, BeginsEffect, WakeEffect, SucceedsEffect, FailsEffect, TerminateEffect
   DEF Workflow

-----------------------------------------------------------------------------
(* The base invariant is inductive *)

LEMMA InitFacts ==
    ASSUME Init
    PROVE  /\ TypeInv /\ session = NewSession /\ records = {} /\ seen = {} /\ queue = <<>>
           /\ commands = {} /\ begun = <<>> /\ worker = Resting /\ host.loaded = None
           /\ \A f \in Forms : /\ forms[f].at = 1 /\ forms[f].stage = "load"
                               /\ forms[f].copy = NewSession
<1>1. NoForm \in FormType /\ NoForm.at = 1 /\ NoForm.stage = "load" /\ NoForm.copy = NewSession
  BY NewSessionTyped DEF NoForm, FormType, FormStages
<1>2. forms \in [Forms -> FormType]
  BY <1>1 DEF Init
<1>3. /\ queue \in Seq(Messages) /\ begun \in Seq(Nat) /\ receives \in [Messages -> Nat]
      /\ host \in HostType /\ restarts \in Nat /\ host.loaded = None
  BY DEF Init, HostType
<1>4. /\ session \in SessionType /\ worker \in WorkerType /\ seen \subseteq Messages
      /\ dead \subseteq Messages /\ commands \subseteq CommandType
      /\ situation \in Situations
  BY NewSessionTyped, RestingTyped DEF Init
<1>5. TypeInv
  BY <1>2, <1>3, <1>4 DEF TypeInv
<1>6. QED
  BY <1>1, <1>3, <1>5 DEF Init

LEMMA BaseInit ==
    ASSUME Init
    PROVE  BaseInv
<1>1. Fresh(NewSession, NewSession)
  BY NewSessionTyped DEF Fresh
<1>2. CopyInv
  BY <1>1, InitFacts, RestingTyped DEF CopyInv
<1>3. Sound(session) /\ MarkerFits
  BY InitFacts, NewSessionTyped DEF MarkerFits
<1>4. FormInv
  BY InitFacts DEF FormInv, Fits
<1>5. WorkerInv
  BY InitFacts, RestingTyped DEF WorkerInv, Busy, Message
<1>6. QED
  BY <1>2, <1>3, <1>4, <1>5, InitFacts DEF BaseInv

LEMMA SentTyped ==
    ASSUME TypeInv, NEW s \in SessionType
    PROVE  Sent(s) \subseteq CommandType
<1>1. [id |-> CommandID(s), revision |-> s.revision, taken |-> FALSE] \in CommandType
  BY DEF CommandID, SessionType, CommandType
<1>2. QED
  BY <1>1 DEF Sent, TypeInv

LEMMA CommandsTyped ==
    ASSUME TypeInv, SameCommands
    PROVE  commands' \subseteq CommandType
BY SentTyped DEF SameCommands, TypeInv

LEMMA EnqueuedFacts ==
    ASSUME BaseInv, NEW m \in Messages, Enqueued(m)
    PROVE  /\ queue' \in Seq(Messages) /\ seen' \subseteq Messages
           /\ seen' = seen \cup {m}
           /\ queue # <<>> => queue' # <<>> /\ Head(queue') = Head(queue)
           /\ \A x : InQueue(x)' <=> InQueue(x) \/ (x = m /\ m \notin seen)
<1>1. queue \in Seq(Messages) /\ seen \subseteq Messages
  BY DEF BaseInv, TypeInv
<1>2. CASE m \in seen
  BY <1>1, <1>2 DEF Enqueued, InQueue
<1>3. CASE m \notin seen
  <2>1. queue' = Append(queue, m) /\ seen' = seen \cup {m}
    BY <1>3 DEF Enqueued
  <2>2. QED
    BY <1>1, <1>3, <2>1, QueueAppend DEF InQueue
<1>4. QED
  BY <1>2, <1>3

LEMMA QueueSeen ==
    ASSUME BaseInv
    PROVE  \A x : InQueue(x) => x \in seen
BY DEF BaseInv, WorkerInv, InQueue

LEMMA SendsFacts ==
    ASSUME BaseInv, NEW f \in Forms, FormEffect(f)
    PROVE  /\ queue' \in Seq(Messages) /\ seen' \subseteq Messages /\ seen \subseteq seen'
           /\ queue # <<>> => queue' # <<>> /\ Head(queue') = Head(queue)
           /\ \A x : InQueue(x)' => x \in seen'
           /\ \A x : InQueue(x) => InQueue(x)'
           /\ \A x \in seen' : Kind(x) \in UploadKinds \cup WorkshopKinds
<1>1. /\ queue \in Seq(Messages) /\ seen \subseteq Messages
      /\ \A x \in seen : Kind(x) \in UploadKinds \cup WorkshopKinds
      /\ TypeInv
  BY DEF BaseInv, TypeInv, WorkerInv
<1>2. CASE UNCHANGED <<queue, seen>>
  BY <1>1, <1>2, QueueSeen DEF InQueue
<1>3. CASE Call(f).op \in {"ingest", "resolve"} /\ Enqueued(Call(f).message)
  <2>1. forms[f].at <= Len(situation.forms[f].calls)
    BY DEF FormEffect
  <2>2. /\ Call(f).message \in Messages
        /\ Kind(Call(f).message) \in UploadKinds \cup WorkshopKinds
    BY <1>1, <1>3, <2>1, CallFacts DEF IsWorkshop
  <2>3. /\ queue' \in Seq(Messages) /\ seen' \subseteq Messages
        /\ seen' = seen \cup {Call(f).message}
        /\ queue # <<>> => queue' # <<>> /\ Head(queue') = Head(queue)
        /\ \A x : InQueue(x)' <=>
              InQueue(x) \/ (x = Call(f).message /\ Call(f).message \notin seen)
    BY <1>3, <2>2, EnqueuedFacts
  <2>4. QED
    BY <1>1, <2>2, <2>3, QueueSeen
<1>4. QED
  BY <1>2, <1>3 DEF FormEffect, FormSends

LEMMA EditedFacts ==
    ASSUME BaseInv, session' = session \/ Saved(session, session')
    PROVE  /\ session' \in SessionType /\ Sound(session')
           /\ \A c \in SessionType : Fresh(c, session) => Fresh(c, session')
<1>1. session' \in SessionType /\ Sound(session')
  BY BaseTyped DEF Saved
<1>2. QED
  BY <1>1, BaseTyped, FreshStays

LEMMA FormBase ==
    ASSUME BaseInv, NEW f \in Forms, FormEffect(f)
    PROVE  BaseInv'
<1>1. session' = session \/ Saved(session, session')
  BY DEF FormEffect, Edits
<1>2. /\ session' \in SessionType /\ Sound(session')
      /\ \A c \in SessionType : Fresh(c, session) => Fresh(c, session')
  BY <1>1, EditedFacts
<1>3. /\ forms' \in [Forms -> FormType] /\ forms'[f].at \in Nat
      /\ \A g \in Forms : g # f => forms'[g] = forms[g]
      /\ FormMoved(f)
  BY DEF FormEffect, FormMoved, FormType
<1>4. TypeInv'
  <2>1. commands' \subseteq CommandType
    BY CommandsTyped DEF FormEffect, BaseInv
  <2>2. queue' \in Seq(Messages) /\ seen' \subseteq Messages
    BY SendsFacts
  <2>3. QED
    BY <1>2, <1>3, <2>1, <2>2 DEF FormEffect, BaseInv, TypeInv
<1>5. CopyInv'
  <2>1. Fresh(forms'[f].copy, session')
    BY <1>3 DEF FormMoved
  <2>2. \A g \in Forms : g # f => Fresh(forms'[g].copy, session')
    BY <1>2, <1>3, BaseFresh, BaseTyped
  <2>3. Fresh(NewSession, session') /\ Fresh(worker'.copy, session')
    BY <1>2, BaseFresh, BaseTyped, NewSessionTyped DEF FormEffect
  <2>4. QED
    BY <2>1, <2>2, <2>3 DEF CopyInv
<1>6. MarkerFits'
  <2>1. situation' = situation /\ forms[f].at <= Len(situation.forms[f].calls)
    BY DEF FormEffect
  <2>2. CASE session'.marker \in {session.marker, NoMarker}
    BY <2>1, <2>2, NoMarkerTyped DEF BaseInv, MarkerFits, IsWorkshop, Kind, Target
  <2>3. CASE /\ Call(f).op = "resolve"
             /\ session'.marker = [target |-> Target(Call(f).message),
                                   key |-> Call(f).message]
    <3>1. IsWorkshop(Call(f).message)
      BY <2>1, <2>3, CallFacts DEF BaseInv
    <3>2. QED
      BY <2>1, <2>3, <3>1 DEF MarkerFits, IsWorkshop, Kind, Target
  <2>4. QED
    BY <2>2, <2>3 DEF FormEffect, FormMarks
<1>7. FormInv'
  <2>1. situation' = situation
    BY DEF FormEffect
  <2>2. ASSUME NEW g \in Forms, forms'[g].at <= Len(situation.forms[g].calls)
        PROVE  Fits(situation.forms[g].calls[forms'[g].at], forms'[g].stage, forms'[g].copy)
    <3>1. CASE g # f
      BY <1>3, <2>2, <3>1, BaseFits DEF Call
    <3>2. CASE g = f /\ forms'[f].at = forms[f].at
      <4>1. Fits(Call(f), forms'[f].stage, forms'[f].copy)
        BY <1>3, <3>2 DEF FormMoved, BaseInv, TypeInv, FormType
      <4>2. QED
        BY <3>2, <4>1 DEF Call
    <3>3. CASE g = f /\ forms'[f].at # forms[f].at
      <4>1. forms'[f].stage = "load"
        BY <1>3, <3>3 DEF FormMoved
      <4>2. QED
        BY <3>3, <4>1 DEF Fits
    <3>4. QED
      BY <3>1, <3>2, <3>3
  <2>3. QED
    BY <2>1, <2>2 DEF FormInv, Call
<1>8. WorkerInv'
  <2>1. situation' = situation /\ worker' = worker /\ records \subseteq records'
    BY DEF FormEffect, SameOutcomes
  <2>2. /\ WorkerInv /\ \A n \in DOMAIN queue' : queue'[n] \in seen'
    BY SendsFacts DEF BaseInv, InQueue
  <2>3. \A m \in seen' : Kind(m)' \in UploadKinds \cup WorkshopKinds
    BY <2>1, SendsFacts DEF Kind
  <2>4. Handles(worker.stage, Message, worker.outcome, records)
    BY <2>2 DEF WorkerInv
  <2>5. Handles(worker.stage, Message, worker.outcome, records)'
    BY <2>1, <2>4 DEF Handles, IsWorkshop, IsValid, Kind, OutcomeKey, Message
  <2>6. (~Busy("idle") => queue # <<>> /\ Message = Head(queue))'
    BY <2>1, <2>2, SendsFacts DEF WorkerInv, Busy, Message
  <2>7. QED
    BY <2>2, <2>3, <2>5, <2>6 DEF WorkerInv
<1>9. QED
  BY <1>2, <1>4, <1>5, <1>6, <1>7, <1>8 DEF BaseInv

LEMMA ShortQueue ==
    ASSUME BaseInv, WorkerMoved
    PROVE  /\ queue' \in Seq(Messages)
           /\ \A x : InQueue(x)' => InQueue(x)
           /\ \A x : InQueue(x) => InQueue(x)' \/ (queue # <<>> /\ queue' = Tail(queue)
                                                              /\ x = Head(queue))
           /\ dead' \subseteq Messages /\ dead \subseteq dead'
<1>1. queue \in Seq(Messages) /\ dead \subseteq Messages
  BY DEF BaseInv, TypeInv
<1>2. CASE UNCHANGED <<queue, dead>>
  BY <1>1, <1>2 DEF InQueue
<1>3. CASE /\ queue # <<>> /\ queue' = Tail(queue)
           /\ dead' = dead \cup {Head(queue)} \/ dead' = dead
  <2>1. /\ queue' \in Seq(Messages) /\ Head(queue) \in Messages
        /\ \A x : InQueue(x) <=> x = Head(queue) \/ InQueue(x)'
    BY <1>1, <1>3, QueueTail DEF InQueue
  <2>2. QED
    BY <1>1, <1>3, <2>1
<1>4. QED
  BY <1>2, <1>3 DEF WorkerMoved

LEMMA WorkerBase ==
    ASSUME BaseInv, WorkerEffect
    PROVE  BaseInv'
<1>1. session' = session \/ Saved(session, session')
  BY DEF WorkerEffect, Edits
<1>2. /\ session' \in SessionType /\ Sound(session')
      /\ \A c \in SessionType : Fresh(c, session) => Fresh(c, session')
  BY <1>1, EditedFacts
<1>3. TypeInv'
  <2>1. commands' \subseteq CommandType
    BY CommandsTyped DEF WorkerEffect, BaseInv
  <2>2. queue' \in Seq(Messages) /\ dead' \subseteq Messages /\ worker' \in WorkerType
    BY ShortQueue DEF WorkerEffect, WorkerMoved
  <2>3. QED
    BY <1>2, <2>1, <2>2 DEF WorkerEffect, BaseInv, TypeInv, HostType
<1>4. CopyInv'
  <2>1. \A f \in Forms : Fresh(forms[f].copy, session')
    BY <1>2, BaseFresh, BaseTyped
  <2>2. Fresh(NewSession, session') /\ Fresh(worker'.copy, session')
    BY <1>2, BaseFresh, NewSessionTyped DEF WorkerEffect, WorkerMoved
  <2>3. QED
    BY <2>1, <2>2 DEF CopyInv, WorkerEffect
<1>5. MarkerFits'
  BY NoMarkerTyped DEF WorkerEffect, BaseInv, MarkerFits, IsWorkshop, Kind, Target
<1>6. FormInv'
  BY DEF WorkerEffect, BaseInv, FormInv, Fits, Call
<1>7. WorkerInv'
  <2>1. situation' = situation /\ seen' = seen /\ WorkerInv
    BY DEF WorkerEffect, BaseInv
  <2>2. \A n \in DOMAIN queue' : queue'[n] \in seen'
    BY <2>1, ShortQueue, QueueSeen DEF WorkerEffect, InQueue
  <2>3. \A m \in seen' : Kind(m)' \in UploadKinds \cup WorkshopKinds
    BY <2>1 DEF WorkerInv, Kind
  <2>4. Handles(worker'.stage, worker'.message, worker'.outcome, records')
    BY DEF WorkerEffect, WorkerMoved
  <2>5. Handles(worker.stage, Message, worker.outcome, records)'
    BY <2>1, <2>4 DEF Handles, IsWorkshop, IsValid, Kind, OutcomeKey, Message
  <2>6. (~Busy("idle") => queue # <<>> /\ Message = Head(queue))'
    BY DEF WorkerEffect, WorkerMoved, Busy, Message
  <2>7. QED
    BY <2>2, <2>3, <2>5, <2>6 DEF WorkerInv
<1>8. QED
  BY <1>2, <1>3, <1>4, <1>5, <1>6, <1>7 DEF BaseInv

LEMMA TakenTyped ==
    ASSUME NEW c \in CommandType
    PROVE  /\ [c EXCEPT !.taken = TRUE] \in CommandType /\ c.revision \in Nat
           /\ [c EXCEPT !.taken = TRUE].id = c.id /\ [c EXCEPT !.taken = TRUE].taken
           /\ [c EXCEPT !.taken = TRUE].revision = c.revision
BY DEF CommandType

LEMMA AppendTyped ==
    ASSUME NEW q \in Seq(Nat), NEW n \in Nat
    PROVE  Append(q, n) \in Seq(Nat)
OBVIOUS

LEMMA WorkflowBase ==
    ASSUME BaseInv, WorkflowEffect
    PROVE  BaseInv'
<1>1. session' = session \/ Saved(session, session')
  BY DEF WorkflowEffect
<1>2. /\ session' \in SessionType /\ Sound(session')
      /\ \A c \in SessionType : Fresh(c, session) => Fresh(c, session')
  BY <1>1, EditedFacts
<1>3. TypeInv'
  <2>1. commands \subseteq CommandType /\ begun \in Seq(Nat)
    BY DEF BaseInv, TypeInv
  <2>2. commands' \subseteq CommandType /\ begun' \in Seq(Nat)
    <3>1. CASE UNCHANGED <<commands, begun>>
      BY <2>1, <3>1
    <3>2. ASSUME NEW c \in commands,
                 commands' = (commands \ {c}) \cup {[c EXCEPT !.taken = TRUE]},
                 begun' = begun \/ begun' = Append(begun, c.revision)
          PROVE  commands' \subseteq CommandType /\ begun' \in Seq(Nat)
      <4>1. [c EXCEPT !.taken = TRUE] \in CommandType /\ c.revision \in Nat
        BY <2>1, TakenTyped
      <4> DEFINE n == c.revision
      <4>2. n \in Nat /\ (begun' = begun \/ begun' = Append(begun, n))
        BY <3>2, <4>1
      <4> HIDE DEF n
      <4>3. begun' \in Seq(Nat)
        BY <2>1, <4>2, AppendTyped
      <4>4. QED
        BY <2>1, <3>2, <4>1, <4>3
    <3>3. QED
      BY <3>1, <3>2 DEF WorkflowEffect, CommandsTaken
  <2>3. QED
    BY <1>2, <2>2 DEF WorkflowEffect, BaseInv, TypeInv, HostType
<1>4. CopyInv'
  BY <1>2, BaseFresh, BaseTyped, NewSessionTyped DEF CopyInv, WorkflowEffect
<1>5. MarkerFits'
  BY DEF WorkflowEffect, Untouched, BaseInv, MarkerFits, IsWorkshop, Kind, Target
<1>6. FormInv'
  BY DEF WorkflowEffect, BaseInv, FormInv, Fits, Call
<1>7. WorkerInv'
  BY DEF WorkflowEffect, BaseInv, WorkerInv, Handles, Busy, Message, OutcomeKey, IsWorkshop,
         IsValid, Kind
<1>8. QED
  BY <1>2, <1>3, <1>4, <1>5, <1>6, <1>7 DEF BaseInv

LEMMA BaseStutter ==
    ASSUME BaseInv, UNCHANGED vars
    PROVE  BaseInv'
BY DEF BaseInv, TypeInv, CopyInv, MarkerFits, FormInv, Fits, WorkerInv, Handles, vars, Call,
       Busy, Message, OutcomeKey, IsWorkshop, IsValid, Kind, Target

LEMMA StepEffect ==
    ASSUME BaseInv, [Next]_vars
    PROVE  \/ \E f \in Forms : FormEffect(f)
           \/ WorkerEffect \/ WorkflowEffect \/ UNCHANGED vars
BY FormStepEffect, WorkerStepEffect, WorkflowStepEffect DEF Next

LEMMA BaseStep ==
    ASSUME BaseInv, [Next]_vars
    PROVE  BaseInv'
BY StepEffect, FormBase, WorkerBase, WorkflowBase, BaseStutter

LEMMA BaseInductive == Spec => []BaseInv
<1>1. Init => BaseInv
  BY BaseInit
<1>2. BaseInv /\ [Next]_vars => BaseInv'
  BY BaseStep
<1>3. QED
  BY <1>1, <1>2, PTL DEF Spec

-----------------------------------------------------------------------------
(* Types and readiness *)

(* Sessions, forms, queue, worker and commands stay within their types: no   *)
(* call leaves a session half changed, and the worker takes only messages.  *)
THEOREM TypeCorrect == Spec => []TypeInv
<1>1. BaseInv => TypeInv
  BY DEF BaseInv
<1>2. QED
  BY <1>1, BaseInductive, PTL

(* Readiness (markReadyWhenComplete): whatever the order in which forms,     *)
(* uploads and links end, a session is NEW only with a configuration that   *)
(* was saved, no server-only preset in validation, and a mission that was   *)
(* accepted or is the built-in one.                                        *)
THEOREM NoStartBeforeServerMods == Spec => []ReadyWaitsForServerMods
<1>1. BaseInv => ReadyWaitsForServerMods
  BY DEF BaseInv, Sound, Ready, ReadyWaitsForServerMods
<1>2. QED
  BY <1>1, BaseInductive, PTL

-----------------------------------------------------------------------------
(* The outcomes of the uploads *)

LEMMA OutcomeInit ==
    ASSUME Init
    PROVE  OutcomeInv
BY InitFacts, NewSessionTyped DEF OutcomeInv

(* What a step without an accepted message keeps. *)
LEMMA SameOutcomesKept ==
    ASSUME OutcomeInv, SameOutcomes, situation' = situation, seen \subseteq seen',
           session'.files = session.files, session.hasPreset => session'.hasPreset,
           session.hasServer => session'.hasServer
    PROVE  OutcomeInv'
BY DEF OutcomeInv, SameOutcomes, OutcomeKey, Kind, Content, IsValid

LEMMA AcceptedKept ==
    ASSUME BaseInv, OutcomeInv, NEW m \in seen, Accepted(m), situation' = situation,
           seen' = seen, session.files \subseteq session'.files,
           session.hasPreset => session'.hasPreset, session.hasServer => session'.hasServer
    PROVE  OutcomeInv'
<1>1. /\ m \in Messages /\ \A x \in Messages : Kind(x)' = Kind(x) /\ Content(x)' = Content(x)
                                                 /\ IsValid(x)' = IsValid(x)
      /\ records' = records \cup {OutcomeKey(m, "accepted")}
  BY DEF BaseInv, TypeInv, Accepted, Kind, Content, IsValid
<1>2. \A x \in Messages : OutcomeKey(x, "accepted") = OutcomeKey(m, "accepted") <=> x = m
  BY DEF OutcomeKey
<1>3. IsWorkshop(m) => Kind(m) \notin {"mission", "preset", "server"}
  BY KindsDiffer DEF IsWorkshop, UploadKinds
<1>4. ASSUME NEW x \in Messages, OutcomeKey(x, "accepted") \in records'
      PROVE  /\ x \in seen
             /\ Kind(x) = "mission" => Content(x) \in session'.files
             /\ Kind(x) = "preset" => session'.hasPreset
             /\ Kind(x) = "server" => session'.hasServer
  <2>1. CASE OutcomeKey(x, "accepted") \in records
    BY <2>1 DEF OutcomeInv
  <2>2. CASE x = m
    BY <1>3, <2>2 DEF Accepted
  <2>3. QED
    BY <1>1, <1>2, <1>4, <2>1, <2>2
<1>5. ASSUME NEW c \in session'.files
      PROVE  \E n \in Messages : /\ Kind(n) = "mission" /\ Content(n) = c /\ IsValid(n)
                                 /\ OutcomeKey(n, "accepted") \in records'
  <2>1. CASE c \in session.files
    BY <1>1, <2>1 DEF OutcomeInv
  <2>2. CASE c \notin session.files
    <3>1. ~IsWorkshop(m) /\ Kind(m) = "mission" /\ c = Content(m) /\ IsValid(m)
      BY <1>5, <2>2 DEF Accepted
    <3>2. QED
      BY <1>1, <3>1
  <2>3. QED
    BY <2>1, <2>2
<1>6. QED
  BY <1>1, <1>4, <1>5 DEF OutcomeInv, OutcomeKey

LEMMA OutcomeStep ==
    ASSUME BaseInv, OutcomeInv, [Next]_vars
    PROVE  OutcomeInv'
<1>1. ASSUME NEW f \in Forms, FormEffect(f)
      PROVE  OutcomeInv'
  <2>1. seen \subseteq seen'
    BY <1>1, SendsFacts
  <2>2. QED
    BY <1>1, <2>1, SameOutcomesKept DEF FormEffect, Edits, Saved
<1>2. CASE WorkerEffect
  <2>1. /\ session.files \subseteq session'.files
        /\ session.hasPreset => session'.hasPreset
        /\ session.hasServer => session'.hasServer
        /\ situation' = situation /\ seen' = seen
    BY <1>2 DEF WorkerEffect, Edits, Saved
  <2>2. CASE SameOutcomes /\ session'.files = session.files
    BY <2>1, <2>2, SameOutcomesKept
  <2>3. CASE \E m \in seen : Accepted(m)
    BY <2>1, <2>3, AcceptedKept
  <2>4. QED
    BY <1>2, <2>2, <2>3 DEF WorkerEffect, WorkerRecords
<1>3. CASE WorkflowEffect
  BY <1>3, SameOutcomesKept DEF WorkflowEffect, Saved, Untouched, SameOutcomes
<1>4. CASE UNCHANGED vars
  BY <1>4 DEF OutcomeInv, vars, OutcomeKey, Kind, Content, IsValid
<1>5. QED
  BY <1>1, <1>2, <1>3, <1>4, StepEffect

LEMMA OutcomeInductive == Spec => []OutcomeInv
<1>1. Init => OutcomeInv
  BY OutcomeInit
<1>2. BaseInv /\ OutcomeInv /\ [Next]_vars => OutcomeInv'
  BY OutcomeStep
<1>3. QED
  BY <1>1, <1>2, BaseInductive, PTL DEF Spec

(* What the artifact worker recorded of an upload stays in the session,      *)
(* whatever is saved by forms and workflows that read it before: each of    *)
(* them saves under the version it read.                                   *)
THEOREM UploadsAreKept == Spec => []UploadOutcomeIsKept
<1>1. BaseInv /\ OutcomeInv => UploadOutcomeIsKept
  <2> SUFFICES ASSUME BaseInv, OutcomeInv, NEW m \in Messages, ~IsWorkshop(m)
               PROVE  /\ OutcomeKey(m, "accepted") \in records =>
                           CASE Kind(m) = "mission" -> Content(m) \in session.files
                             [] Kind(m) = "preset"  -> session.hasPreset
                             [] Kind(m) = "server"  -> session.hasServer
                      /\ Kind(m) = "mission" /\ Content(m) \in session.files =>
                           \E n \in Messages : /\ Content(n) = Content(m) /\ IsValid(n)
                                               /\ OutcomeKey(n, "accepted") \in records
    BY DEF UploadOutcomeIsKept
  <2>1. ASSUME OutcomeKey(m, "accepted") \in records
        PROVE  CASE Kind(m) = "mission" -> Content(m) \in session.files
                 [] Kind(m) = "preset"  -> session.hasPreset
                 [] Kind(m) = "server"  -> session.hasServer
    <3>1. Kind(m) \in {"mission", "preset", "server"}
      BY <2>1 DEF OutcomeInv, BaseInv, WorkerInv, IsWorkshop, UploadKinds
    <3>2. /\ Kind(m) = "mission" => Content(m) \in session.files
          /\ Kind(m) = "preset" => session.hasPreset
          /\ Kind(m) = "server" => session.hasServer
      BY <2>1 DEF OutcomeInv
    <3>3. CASE Kind(m) = "mission"
      BY <3>2, <3>3
    <3>4. CASE Kind(m) = "preset"
      BY <3>2, <3>4
    <3>5. CASE Kind(m) = "server"
      BY <3>2, <3>5
    <3>6. QED
      BY <3>1, <3>3, <3>4, <3>5
  <2>2. QED
    BY <2>1 DEF OutcomeInv
<1>2. QED
  BY <1>1, BaseInductive, OutcomeInductive, PTL

-----------------------------------------------------------------------------
(* The automatic start *)

LEMMA StartInit ==
    ASSUME Init
    PROVE  StartInv
BY InitFacts DEF StartInv, AutomaticStartIsOnce

LEMMA StartSent ==
    ASSUME TypeInv, StartInv, NEW s \in SessionType, commands' = Sent(s), begun' = begun
    PROVE  StartInv'
<1>1. CASE commands' = commands
  BY <1>1 DEF StartInv, AutomaticStartIsOnce
<1>2. CASE commands' # commands
  <2> DEFINE n == [id |-> CommandID(s), revision |-> s.revision, taken |-> FALSE]
  <2>1. /\ commands' = commands \cup {n} /\ n.id = n.revision
        /\ \A c \in commands : c.id # n.id
    BY <1>2 DEF Sent, CommandID
  <2> HIDE DEF n
  <2>2. QED
    BY <2>1 DEF StartInv, AutomaticStartIsOnce
<1>3. QED
  BY <1>1, <1>2

(* A command that is taken was not yet: nothing has been started for it. *)
LEMMA StartTaken ==
    ASSUME TypeInv, StartInv, NEW c \in commands, ~c.taken,
           commands' = (commands \ {c}) \cup {[c EXCEPT !.taken = TRUE]},
           begun' = begun \/ begun' = Append(begun, c.revision)
    PROVE  StartInv'
<1> DEFINE t == [c EXCEPT !.taken = TRUE]
           n == c.revision
<1>1. /\ t.id = c.id /\ t.revision = c.revision /\ t.taken /\ c.revision \in Nat
      /\ begun \in Seq(Nat)
  BY TakenTyped DEF TypeInv
<1>2. /\ commands' = (commands \ {c}) \cup {t} /\ n = c.id /\ n \in Nat
      /\ begun' = begun \/ begun' = Append(begun, n)
  BY <1>1 DEF StartInv
<1> HIDE DEF t, n
<1>3. \A d \in commands' : d.id = d.revision
  BY <1>1, <1>2 DEF StartInv
<1>4. \A d, e \in commands' : d.id = e.id => d = e
  BY <1>1, <1>2 DEF StartInv
<1>5. \A i \in DOMAIN begun : /\ begun[i] # n
                              /\ \E d \in commands' : d.taken /\ d.id = begun[i]
  <2> SUFFICES ASSUME NEW i \in DOMAIN begun
               PROVE  /\ begun[i] # n
                      /\ \E d \in commands' : d.taken /\ d.id = begun[i]
    OBVIOUS
  <2>1. PICK d \in commands : d.taken /\ d.id = begun[i]
    BY DEF StartInv
  <2>2. d # c
    BY <2>1
  <2>3. begun[i] # n
    BY <1>2, <2>1, <2>2 DEF StartInv
  <2>4. d \in commands'
    BY <1>2, <2>2
  <2>5. QED
    BY <2>1, <2>3, <2>4
<1>6. \A i \in DOMAIN begun' : \E d \in commands' : d.taken /\ d.id = begun'[i]
  <2>1. CASE begun' = begun
    BY <1>5, <2>1
  <2>2. CASE begun' = Append(begun, n)
    <3>1. /\ DOMAIN begun' = 1 .. Len(begun) + 1 /\ begun'[Len(begun) + 1] = n
          /\ \A i \in 1 .. Len(begun) : begun'[i] = begun[i]
          /\ DOMAIN begun = 1 .. Len(begun) /\ Len(begun) \in Nat
      BY <1>1, <1>2, <2>2
    <3>2. t \in commands' /\ t.taken /\ t.id = n
      BY <1>1, <1>2
    <3>3. ASSUME NEW i \in DOMAIN begun'
          PROVE  \E d \in commands' : d.taken /\ d.id = begun'[i]
      <4>1. i \in DOMAIN begun \/ i = Len(begun) + 1
        BY <3>1, <3>3
      <4>2. QED
        BY <1>5, <3>1, <3>2, <4>1
    <3>4. QED
      BY <3>3
  <2>3. QED
    BY <1>2, <2>1, <2>2
<1>7. AutomaticStartIsOnce'
  <2>1. CASE begun' = begun
    BY <2>1 DEF StartInv, AutomaticStartIsOnce
  <2>2. CASE begun' = Append(begun, n)
    <3>1. /\ DOMAIN begun' = 1 .. Len(begun) + 1 /\ begun'[Len(begun) + 1] = n
          /\ \A i \in 1 .. Len(begun) : begun'[i] = begun[i]
          /\ DOMAIN begun = 1 .. Len(begun) /\ Len(begun) \in Nat
      BY <1>1, <1>2, <2>2
    <3>2. ASSUME NEW i \in DOMAIN begun', NEW j \in DOMAIN begun', begun'[i] = begun'[j]
          PROVE  i = j
      <4>1. /\ i \in DOMAIN begun \/ i = Len(begun) + 1
            /\ j \in DOMAIN begun \/ j = Len(begun) + 1
        BY <3>1, <3>2
      <4>2. QED
        BY <1>5, <3>1, <3>2, <4>1 DEF StartInv, AutomaticStartIsOnce
    <3>3. QED
      BY <3>2 DEF AutomaticStartIsOnce
  <2>3. QED
    BY <1>2, <2>1, <2>2
<1>8. QED
  BY <1>3, <1>4, <1>6, <1>7 DEF StartInv

LEMMA StartSame ==
    ASSUME StartInv, UNCHANGED <<commands, begun>>
    PROVE  StartInv'
BY DEF StartInv, AutomaticStartIsOnce

LEMMA StartStep ==
    ASSUME BaseInv, StartInv, [Next]_vars
    PROVE  StartInv'
<1>1. TypeInv
  BY DEF BaseInv
<1>2. ASSUME SameCommands, begun' = begun
      PROVE  StartInv'
  BY <1>1, <1>2, StartSent, StartSame DEF SameCommands
<1>3. ASSUME NEW f \in Forms, FormEffect(f)
      PROVE  StartInv'
  BY <1>2, <1>3 DEF FormEffect
<1>4. CASE WorkerEffect
  BY <1>2, <1>4 DEF WorkerEffect
<1>5. CASE WorkflowEffect
  BY <1>1, <1>5, StartTaken, StartSame DEF WorkflowEffect, CommandsTaken
<1>6. CASE UNCHANGED vars
  BY <1>6, StartSame DEF vars
<1>7. QED
  BY <1>3, <1>4, <1>5, <1>6, StepEffect

(* A revision of the configuration is started automatically once, however    *)
(* many forms and uploads find the draft complete: the command is named     *)
(* for the revision (RequestAutomaticStart).                               *)
THEOREM StartsAreOnce == Spec => []AutomaticStartIsOnce
<1>1. Init => StartInv
  BY StartInit
<1>2. BaseInv /\ StartInv /\ [Next]_vars => StartInv'
  BY StartStep
<1>3. StartInv => AutomaticStartIsOnce
  BY DEF StartInv
<1>4. QED
  BY <1>1, <1>2, <1>3, BaseInductive, PTL DEF Spec

-----------------------------------------------------------------------------
(* What is loaded *)

LEMMA HostInit ==
    ASSUME Init
    PROVE  HostInv
BY InitFacts, NewSessionTyped DEF HostInv

LEMMA HostEdited ==
    ASSUME HostInv, SameLoad,
           session' = session \/ Edits(session, session')
    PROVE  HostInv'
BY DEF HostInv, Edits, SameLoad

LEMMA HostStep ==
    ASSUME BaseInv, HostInv, [Next]_vars
    PROVE  HostInv'
<1>1. ASSUME NEW f \in Forms, FormEffect(f)
      PROVE  HostInv'
  BY <1>1, HostEdited DEF FormEffect, SameLoad
<1>2. CASE WorkerEffect
  BY <1>2, HostEdited DEF WorkerEffect
<1>3. CASE WorkflowEffect
  BY <1>3 DEF WorkflowEffect, HostMoved, HostInv, Started
<1>4. CASE UNCHANGED vars
  BY <1>4 DEF HostInv, vars
<1>5. QED
  BY <1>1, <1>2, <1>3, <1>4, StepEffect

LEMMA HostInductive == Spec => []HostInv
<1>1. Init => HostInv
  BY HostInit
<1>2. BaseInv /\ HostInv /\ [Next]_vars => HostInv'
  BY HostStep
<1>3. QED
  BY <1>1, <1>2, BaseInductive, PTL DEF Spec

(* An edit removes only what is not selected. *)
LEMMA EditedRemoves ==
    ASSUME BaseInv, OutcomeInv, HostInv, ~host.woken,
           session' = session \/ Edits(session, session')
    PROVE  host.loaded \notin session'.removed \ session.removed
<1> SUFFICES ASSUME Edits(session, session'), NEW x \in session'.removed \ session.removed
             PROVE  x # host.loaded
  OBVIOUS
<1>1. x \in session.files /\ x # session.current
  BY DEF Edits
<1>2. x # None
  <2>1. PICK n \in Messages : Kind(n) = "mission" /\ Content(n) = x
    BY <1>1 DEF OutcomeInv
  <2>2. QED
    BY <2>1, SituationFacts DEF BaseInv
<1>3. host.loaded = None \/ host.loaded = session.current
  BY DEF HostInv
<1>4. QED
  BY <1>1, <1>2, <1>3

LEMMA LoadedStep ==
    ASSUME BaseInv, OutcomeInv, HostInv, [Next]_vars
    PROVE  ~host.woken => ~RemovesLoaded
<1> SUFFICES ASSUME ~host.woken
             PROVE  host.loaded \notin session'.removed \ session.removed
  BY DEF RemovesLoaded
<1>1. ASSUME NEW f \in Forms, FormEffect(f)
      PROVE  host.loaded \notin session'.removed \ session.removed
  BY <1>1, EditedRemoves DEF FormEffect
<1>2. CASE WorkerEffect
  BY <1>2, EditedRemoves DEF WorkerEffect
<1>3. CASE WorkflowEffect
  BY <1>3 DEF WorkflowEffect, Untouched
<1>4. CASE UNCHANGED vars
  BY <1>4 DEF vars
<1>5. QED
  BY <1>1, <1>2, <1>3, <1>4, StepEffect

(* No save removes the mission that the server has loaded, until a wake:     *)
(* CanRemoveMission asks for the current selection, which is the loaded one *)
(* through starts, restarts, sleeps and their failures (HostInv).           *)
THEOREM LoadedIsKept == Spec => LoadedIsKeptUntilWoken
<1>1. BaseInv /\ OutcomeInv /\ HostInv /\ [Next]_vars => [~host.woken => ~RemovesLoaded]_vars
  BY LoadedStep
<1>2. QED
  BY <1>1, BaseInductive, OutcomeInductive, HostInductive, PTL DEF Spec, LoadedIsKeptUntilWoken

-----------------------------------------------------------------------------
(* What the marker waits for *)

LEMMA MarkerInit ==
    ASSUME Init
    PROVE  MarkerInv
BY InitFacts, NewSessionTyped, IntakeAssumption DEF MarkerInv

LEMMA NoMessageIsNone ==
    ASSUME NEW m \in Messages
    PROVE  m # None /\ NoMarker.key # m
BY NoMarkerTyped, IntakeAssumption

(* Who is past a call for a message stays past it. *)
LEMMA CalledStays ==
    ASSUME BaseInv, NEW f \in Forms, FormEffect(f), NEW g \in Forms, NEW m, Called(g, m)
    PROVE  Called(g, m)'
<1>1. situation' = situation /\ FormMoved(f) /\ forms[f].at \in Nat
  BY DEF FormEffect, BaseInv, TypeInv, FormType
<1>2. PICK n \in DOMAIN situation.forms[g].calls :
         /\ situation.forms[g].calls[n].message = m
         /\ n < forms[g].at \/ (n = forms[g].at /\ forms[g].stage \in {"unmark", "failed"})
  BY DEF Called
<1>3. n \in Nat
  BY <1>2, SituationFacts DEF BaseInv
<1>4. n < forms'[g].at \/ (n = forms'[g].at /\ forms'[g].stage \in {"unmark", "failed"})
  BY <1>1, <1>2, <1>3 DEF FormMoved
<1>5. QED
  BY <1>1, <1>2, <1>4 DEF Called

LEMMA SentIsCalled ==
    ASSUME BaseInv, NEW f \in Forms, FormEffect(f), NEW m \in seen' \ seen
    PROVE  Called(f, m)'
<1>1. /\ situation' = situation /\ FormMoved(f) /\ forms[f].at \in Nat /\ TypeInv
      /\ forms[f].at <= Len(situation.forms[f].calls)
  BY DEF FormEffect, BaseInv, TypeInv, FormType
<1>2. /\ m = Call(f).message
      /\ forms'[f].at = forms[f].at => forms'[f].stage = "unmark"
  BY DEF FormEffect, FormSends, Enqueued
<1>3. forms[f].at \in DOMAIN situation.forms[f].calls
  BY <1>1, CallFacts
<1>4. \/ forms[f].at < forms'[f].at
      \/ forms[f].at = forms'[f].at /\ forms'[f].stage \in {"unmark", "failed"}
  BY <1>1, <1>2 DEF FormMoved
<1>5. QED
  BY <1>1, <1>2, <1>3, <1>4 DEF Called, Call

(* A message that is delivered once is sent once. *)
LEMMA NotYetSent ==
    ASSUME BaseInv, MarkerInv, NEW f \in Forms, NEW m \in Messages, AtCall(f, m),
           ~DeliveredTwice(m), forms[f].stage \notin {"unmark", "failed"}
    PROVE  m \notin seen
<1> SUFFICES ASSUME m \in seen
             PROVE  FALSE
  OBVIOUS
<1>1. PICK g \in Forms : Called(g, m)
  BY DEF MarkerInv
<1>2. PICK n \in DOMAIN situation.forms[g].calls :
         /\ situation.forms[g].calls[n].message = m
         /\ n < forms[g].at \/ (n = forms[g].at /\ forms[g].stage \in {"unmark", "failed"})
  BY <1>1 DEF Called
<1>3. forms[f].at \in DOMAIN situation.forms[f].calls /\ forms[f].at \in Nat
  BY CallFacts DEF AtCall, BaseInv, TypeInv, FormType
<1>4. forms[f].at = n /\ situation.forms[f].key = situation.forms[g].key
  <2>1. SendsItsOwn(situation) /\ m # None
    BY SituationFacts, NoMessageIsNone DEF BaseInv, IsSituation
  <2>2. situation.forms[f].calls[forms[f].at].message = m
    BY DEF AtCall, Call
  <2>3. QED
    BY <1>2, <1>3, <2>1, <2>2 DEF SendsItsOwn
<1>5. f = g
  BY <1>2, <1>3, <1>4 DEF DeliveredTwice
<1>6. QED
  BY <1>2, <1>3, <1>4, <1>5

(* What waits for its marker, of a message that no form is about to send. *)
Waits(m) ==
    /\ session.marker.key = m => InQueue(m) \/ m \in dead
    /\ IsWorkshop(m) /\ OutcomeKey(m, "accepted") \in records => session.marker.key # m

LEMMA WaitsForm ==
    ASSUME BaseInv, BaseInv', OutcomeInv, MarkerInv, NEW f \in Forms, FormEffect(f),
           NEW m \in Messages, \A g \in Forms : ~AtCall(g, m)', ~DeliveredTwice(m)
    PROVE  Waits(m)'
<1>1. /\ situation' = situation /\ dead' = dead /\ FormMoved(f) /\ TypeInv
      /\ forms[f].at <= Len(situation.forms[f].calls)
      /\ IsWorkshop(m)' = IsWorkshop(m)
      /\ OutcomeKey(m, "accepted")' \in records' => OutcomeKey(m, "accepted") \in records
  BY DEF FormEffect, BaseInv, IsWorkshop, Kind, SameOutcomes, OutcomeKey
<1>2. CASE \A g \in Forms : ~AtCall(g, m)
  <2>1. Waits(m)
    BY <1>2 DEF MarkerInv, Waits
  <2>2. Call(f).message # m
    BY <1>1, <1>2 DEF AtCall
  <2>3. session'.marker.key = m => session.marker.key = m
    BY <2>2, NoMessageIsNone DEF FormEffect, FormMarks
  <2>4. InQueue(m) => InQueue(m)'
    BY SendsFacts
  <2>5. QED
    BY <1>1, <2>1, <2>3, <2>4 DEF Waits
<1>3. CASE \E g \in Forms : AtCall(g, m)
  <2>1. PICK g \in Forms : AtCall(g, m)
    BY <1>3
  <2>2. g = f
    BY <1>1, <2>1 DEF FormMoved, AtCall, Call
  <2>3. forms'[f].at # forms[f].at /\ forms[f].stage \notin {"unmark", "failed"}
    <3>1. forms'[f].at # forms[f].at
      BY <1>1, <2>1, <2>2 DEF AtCall, Call
    <3>2. QED
      BY <1>1, <3>1 DEF FormMoved
  <2>4. m \notin seen
    BY <2>1, <2>2, <2>3, NotYetSent
  <2>5. Call(f).message = m /\ Call(f).op \notin Saving
    BY <1>1, <2>1, <2>2, CallFacts, NoMessageIsNone DEF AtCall
  <2>6. Enqueued(m)
    BY <2>3, <2>5 DEF FormEffect, FormSends
  <2>7. InQueue(m)'
    BY <2>4, <2>6, EnqueuedFacts
  <2>8. OutcomeKey(m, "accepted") \notin records
    BY <2>4 DEF OutcomeInv
  <2>9. QED
    BY <1>1, <2>7, <2>8 DEF Waits
<1>4. QED
  BY <1>2, <1>3

LEMMA WaitsWorker ==
    ASSUME BaseInv, MarkerInv, WorkerEffect, NEW m \in Messages, Waits(m)
    PROVE  Waits(m)'
<1>1. /\ situation' = situation /\ IsWorkshop(m)' = IsWorkshop(m) /\ WorkerMoved
      /\ OutcomeKey(m, "accepted")' = OutcomeKey(m, "accepted")
      /\ session'.marker.key = m => session.marker.key = m
  BY NoMessageIsNone DEF WorkerEffect, IsWorkshop, Kind, OutcomeKey
<1>2. ASSUME session'.marker.key = m
      PROVE  InQueue(m)' \/ m \in dead'
  <2>1. session.marker.key = m /\ IsWorkshop(m)
    BY <1>1, <1>2, NoMessageIsNone DEF BaseInv, MarkerFits
  <2>2. CASE m \in dead
    BY <1>1, <2>2, ShortQueue
  <2>3. CASE InQueue(m)
    <3>1. SUFFICES ASSUME queue # <<>>, queue' = Tail(queue), m = Head(queue), m \notin dead'
                   PROVE  InQueue(m)'
      BY <1>1, <2>3, ShortQueue
    <3>2. CASE Droppable(m)
      <4>1. session'.marker.key = None \/ OutcomeKey(m, "accepted") \in records
        BY <2>1, <3>2 DEF Droppable
      <4>2. QED
        BY <1>2, <2>1, <4>1, NoMessageIsNone DEF Waits
    <3>3. CASE UNCHANGED <<queue, dead>>
      BY <2>3, <3>3 DEF InQueue
    <3>4. QED
      BY <1>1, <3>1, <3>2, <3>3 DEF WorkerMoved
  <2>4. QED
    BY <2>1, <2>2, <2>3 DEF Waits
<1>3. ASSUME IsWorkshop(m), OutcomeKey(m, "accepted") \in records'
      PROVE  session'.marker.key # m
  <2>1. CASE OutcomeKey(m, "accepted") \in records
    BY <1>1, <1>3, <2>1 DEF Waits
  <2>2. CASE OutcomeKey(m, "accepted") \notin records
    <3>1. PICK x \in seen : Accepted(x)
      BY <1>3, <2>2 DEF WorkerEffect, WorkerRecords, SameOutcomes
    <3>2. x = m
      BY <1>3, <2>2, <3>1 DEF Accepted, OutcomeKey
    <3>3. QED
      BY <1>3, <3>1, <3>2 DEF Accepted
  <2>3. QED
    BY <2>1, <2>2
<1>4. QED
  BY <1>1, <1>2, <1>3 DEF Waits

LEMMA MarkerStep ==
    ASSUME BaseInv, BaseInv', OutcomeInv, MarkerInv, [Next]_vars
    PROVE  MarkerInv'
<1>1. ASSUME NEW f \in Forms, FormEffect(f)
      PROVE  MarkerInv'
  <2>1. situation' = situation
    BY <1>1 DEF FormEffect
  <2>2. \A m \in seen' : \E g \in Forms : Called(g, m)'
    <3>1. ASSUME NEW m \in seen'
          PROVE  \E g \in Forms : Called(g, m)'
      <4>1. CASE m \in seen
        BY <1>1, <4>1, CalledStays DEF MarkerInv
      <4>2. CASE m \notin seen
        BY <1>1, <4>2, SentIsCalled
      <4>3. QED
        BY <4>1, <4>2
    <3>2. QED
      BY <3>1
  <2>3. \A m \in Messages : DeliveredTwice(m)' = DeliveredTwice(m)
    BY <2>1 DEF DeliveredTwice
  <2>4. ASSUME NEW m \in Messages, \A g \in Forms : ~AtCall(g, m)', ~DeliveredTwice(m)'
        PROVE  Waits(m)'
    BY <1>1, <2>3, <2>4, WaitsForm
  <2>5. QED
    BY <2>2, <2>4 DEF MarkerInv, Waits
<1>2. CASE WorkerEffect
  <2>1. situation' = situation /\ forms' = forms /\ seen' = seen
    BY <1>2 DEF WorkerEffect
  <2>2. \A m \in seen' : \E g \in Forms : Called(g, m)'
    BY <2>1 DEF MarkerInv, Called
  <2>3. ASSUME NEW m \in Messages, \A g \in Forms : ~AtCall(g, m)', ~DeliveredTwice(m)'
        PROVE  Waits(m)'
    <3>1. (\A g \in Forms : ~AtCall(g, m)) /\ ~DeliveredTwice(m)
      BY <2>1, <2>3 DEF AtCall, Call, DeliveredTwice
    <3>2. Waits(m)
      BY <3>1 DEF MarkerInv, Waits
    <3>3. QED
      BY <1>2, <3>2, WaitsWorker
  <2>4. QED
    BY <2>2, <2>3 DEF MarkerInv, Waits
<1>3. CASE WorkflowEffect
  BY <1>3 DEF WorkflowEffect, Untouched, MarkerInv, Called, AtCall, Call, DeliveredTwice,
              InQueue, OutcomeKey, IsWorkshop, Kind
<1>4. CASE UNCHANGED vars
  BY <1>4 DEF vars, MarkerInv, Called, AtCall, Call, DeliveredTwice, InQueue, OutcomeKey,
              IsWorkshop, Kind
<1>5. QED
  BY <1>1, <1>2, <1>3, <1>4, StepEffect

(* The Workshop marker, which holds back the automatic start, is of a        *)
(* message that is queued, was given up, or that a form has yet to send or  *)
(* failed to; the one other case is a request that was delivered twice.     *)
THEOREM MarkersArePending == Spec => []MarkerIsPending
<1>1. Init => MarkerInv
  BY MarkerInit
<1>2. BaseInv /\ BaseInv' /\ OutcomeInv /\ MarkerInv /\ [Next]_vars => MarkerInv'
  BY MarkerStep
<1>3. BaseInv /\ MarkerInv => MarkerIsPending
  <2> SUFFICES ASSUME BaseInv, MarkerInv, NEW m, m = session.marker.key, m # None
               PROVE  \/ m \in {queue[n] : n \in DOMAIN queue} \cup dead
                      \/ \E f \in Forms : /\ forms[f].at <= Len(situation.forms[f].calls)
                                          /\ Call(f).message = m
                      \/ DeliveredTwice(m)
    BY DEF MarkerIsPending
  <2>1. m \in Messages
    BY BaseTyped DEF SessionType, Keys
  <2>2. InQueue(m) => m \in {queue[n] : n \in DOMAIN queue}
    BY DEF InQueue
  <2>3. QED
    BY <2>1, <2>2 DEF MarkerInv, AtCall
<1>4. QED
  BY <1>1, <1>2, <1>3, BaseInductive, OutcomeInductive, PTL DEF Spec
==============================================================================
