------------------------------ MODULE DraftIntake ------------------------------
(***************************************************************************)
(* From a draft to a server: forms, uploads, Workshop links, readiness and *)
(* the automatic start.                                                    *)
(*                                                                         *)
(* A form of Discord is a list of service calls that its invocation makes  *)
(* one after the other.  It may stop between any two steps, which is also  *)
(* what becomes of one that is refused or fails, and it may be delivered   *)
(* twice.  Uploads and Workshop links are sent to a FIFO queue whose group *)
(* is the session, and the artifact worker takes them one at a time, each  *)
(* up to MaxReceives times.  Forms and worker read the session,            *)
(* change a copy, and save it under the version that they read together    *)
(* with a record of the key of what was asked.                             *)
(*                                                                         *)
(* One session is modelled, from the moment it was created.  A file is its *)
(* content: object keys are content addressed.  The revisions that follow  *)
(* the first one, and the copies of Workshop content to a live host, are   *)
(* ContentSync's; the other workflows are reduced to beginning and end.    *)
(***************************************************************************)
EXTENDS Naturals, Sequences, FiniteSets

CONSTANTS
    Forms,          \* the invocations of the interaction handler
    Messages,       \* idempotency keys of uploads and of Workshop links
    Default,        \* the built-in mission
    None,
    Situations,     \* what may happen: forms, messages, and the bounds below
    MaxReceives     \* maxReceiveCount of the artifact queue

UploadKinds == {"mission", "preset", "server"}
WorkshopKinds == {"workshop-mission", "workshop-mods"}

\* The calls that save, and all of them.
Saving == {"configure", "prepare", "options", "setup", "mission"}

Contents == {x.messages[m].content : x \in Situations, m \in Messages}

Calls == [op : Saving \cup {"ingest", "resolve"}, vanilla : BOOLEAN, start : BOOLEAN,
          mission : BOOLEAN, wait : BOOLEAN, dlc : BOOLEAN, preset : BOOLEAN,
          server : BOOLEAN, action : {"none", "default", "built-in", "remove"},
          content : Contents \cup {None}, message : Messages \cup {None}]

\* The first part of the keys that are not an interaction's.
OtherKeys == {"accepted", "rejected", "workshop-queued", "workshop-requeued", "workshop-clear"}

\* A message is what one field of one interaction sends: two calls that name it
\* are the same call, delivered twice.
SendsItsOwn(x) ==
    \A f, g \in Forms :
        \A i \in DOMAIN x.forms[f].calls, j \in DOMAIN x.forms[g].calls :
            LET m == x.forms[f].calls[i].message
            IN  m # None /\ m = x.forms[g].calls[j].message
                   => i = j /\ x.forms[f].key = x.forms[g].key

IsSituation(x) ==
    /\ \A m \in Messages :
          /\ x.messages[m].valid \in BOOLEAN
          /\ x.messages[m].kind = "mission" => x.messages[m].content # None
    /\ \A f \in Forms :
          /\ x.forms[f].key \notin OtherKeys /\ x.forms[f].calls \in Seq(Calls)
          /\ \A n \in DOMAIN x.forms[f].calls :
                LET c == x.forms[f].calls[n]
                IN  /\ c.op \in Saving <=> c.message = None
                    /\ c.op = "ingest" => x.messages[c.message].kind \in UploadKinds
                    /\ c.op = "resolve" => x.messages[c.message].kind \in WorkshopKinds
    /\ SendsItsOwn(x)

ASSUME IntakeAssumption ==
    /\ MaxReceives \in Nat \ {0} /\ None \notin Messages
    /\ \A x \in Situations : IsSituation(x)

VARIABLES
    situation,      \* the forms, the messages, and which workflows and faults there are
    session,        \* the stored session
    records,        \* the keys of calls and messages whose outcome is stored
    forms,          \* the invocations: which call, and how far
    queue,          \* the artifact queue
    seen,           \* the deduplication IDs that it remembers
    receives,       \* how often each message was received
    dead,           \* the messages that were given up
    worker,         \* the artifact worker
    commands,       \* the automatic starts that were sent
    begun,          \* history: the configuration revisions that were started
    host,           \* what the game host holds and runs
    restarts        \* how often the running server was restarted or put to sleep

vars == <<situation, session, records, forms, queue, seen, receives, dead, worker,
          commands, begun, host, restarts>>

-----------------------------------------------------------------------------
(* What the forms ask for: the calls that each of them makes, in order *)

NoCall == [op |-> "none", vanilla |-> FALSE, start |-> FALSE, mission |-> FALSE,
           wait |-> FALSE, dlc |-> FALSE, preset |-> FALSE, server |-> FALSE,
           action |-> "none", content |-> None, message |-> None]

\* An upload or a link that was left empty asks for nothing.
Ingest(m) == IF m = None THEN <<>> ELSE <<[NoCall EXCEPT !.op = "ingest", !.message = m]>>
Resolve(m) == IF m = None THEN <<>> ELSE <<[NoCall EXCEPT !.op = "resolve", !.message = m]>>

\* A mission comes as a file or as a link, not as both.
parseCreateModalSubmission(vanilla, source) ==
    <<[NoCall EXCEPT !.op = "configure", !.vanilla = vanilla, !.start = TRUE],
      [NoCall EXCEPT !.op = "prepare", !.mission = source = "file", !.wait = source = "link"]>>

submitCreateModal(vanilla, source, m) ==
    parseCreateModalSubmission(vanilla, source)
        \o (IF source = "file" THEN Ingest(m) ELSE IF source = "link" THEN Resolve(m) ELSE <<>>)

parseSetupModalSubmission(vanilla, mission, preset) ==
    <<[NoCall EXCEPT !.op = "setup", !.vanilla = vanilla, !.mission = mission # None,
                     !.preset = preset # None]>>

submitSetupModal(vanilla, mission, preset) ==
    parseSetupModalSubmission(vanilla, mission, preset) \o Ingest(mission) \o Ingest(preset)

submitModsModal(dlc, preset, link, server) ==
    <<[NoCall EXCEPT !.op = "options", !.dlc = dlc, !.preset = preset # None,
                     !.server = server # None]>>
        \o (IF preset # None THEN Ingest(preset) ELSE Resolve(link)) \o Ingest(server)

\* A button of the mission manager.
handleMissionManagerComponent(action, content) ==
    <<[NoCall EXCEPT !.op = "mission", !.action = action, !.content = content]>>

\* The command without a form: it neither keeps the DLC nor starts by itself.
configureSession(vanilla) == <<[NoCall EXCEPT !.op = "configure", !.vanilla = vanilla]>>

submitMissionUpload(file, link) == IF link # None THEN Resolve(link) ELSE Ingest(file)

-----------------------------------------------------------------------------
Call(f) == situation.forms[f].calls[forms[f].at]
CallKey(f) == <<situation.forms[f].key, forms[f].at>>
Kind(m) == situation.messages[m].kind
Content(m) == situation.messages[m].content
IsValid(m) == situation.messages[m].valid
Resolves(m) == IsValid(m)               \* the items that a link names are of its target's class
IsWorkshop(m) == Kind(m) \in WorkshopKinds
Target(m) == IF Kind(m) = "workshop-mission" THEN "mission" ELSE "mods"

-----------------------------------------------------------------------------
(* The session: session.go, mission.go, workshop.go *)

NoMarker == [target |-> "none", key |-> None]

NewSession ==
    [life |-> "DRAFT", version |-> 1, revision |-> 0, locked |-> FALSE, hosted |-> FALSE,
     vanilla |-> FALSE, dlc |-> FALSE, start |-> FALSE,
     mission |-> "", preset |-> "", server |-> "",      \* the artifact statuses
     hasPreset |-> FALSE, hasServer |-> FALSE,          \* the object keys
     files |-> {}, removed |-> {},                      \* the mission records
     configured |-> Default, current |-> None, marker |-> NoMarker]

Mutation(s) == [s EXCEPT !.version = @ + 1]
Removing(s) == s.life = "DELETING"
Active(s) == s.files \ s.removed

artifactAccepted(status, hasObject) == status = "ACCEPTED" \/ (status = "" /\ hasObject)

ModsAreComplete(s) ==
    \/ s.vanilla /\ s.preset # "PENDING"
    \/ artifactAccepted(s.preset, s.hasPreset)
    \/ ~s.vanilla /\ s.dlc /\ s.preset = ""
    \/ ~s.vanilla /\ artifactAccepted(s.server, s.hasServer)

\* Mutant: a server-only preset that is being validated does not count.
ReadyWithoutServerMods(s) ==
    IF /\ s.life = "DRAFT" /\ s.revision > 0
       /\ (s.configured = Default \/ artifactAccepted(s.mission, s.configured # Default))
       /\ ModsAreComplete(s)
    THEN [s EXCEPT !.life = "NEW"] ELSE s

markReadyWhenComplete(s) ==
    IF /\ s.life = "DRAFT" /\ s.revision > 0
       /\ (s.configured = Default \/ artifactAccepted(s.mission, s.configured # Default))
       /\ ModsAreComplete(s)
       /\ s.server # "PENDING"
    THEN [s EXCEPT !.life = "NEW"] ELSE s

\* A mission is an addition: it is accepted whenever nothing is being removed.
CanEditArtifact(s, kind) ==
    s.life \in {"DRAFT", "NEW"} \/ (kind = "mission" /\ ~Removing(s))

CanAttachArtifact(s, kind) ==
    CanEditArtifact(s, kind) /\ ~(kind = "server" /\ s.vanilla)

AttachArtifact(s, kind, content) ==
    markReadyWhenComplete(Mutation(
        CASE kind = "mission" ->
               [s EXCEPT !.files = @ \cup {content}, !.configured = content,
                         !.mission = "ACCEPTED"]
          [] kind = "preset" -> [s EXCEPT !.preset = "ACCEPTED", !.hasPreset = TRUE]
          [] kind = "server" -> [s EXCEPT !.server = "ACCEPTED", !.hasServer = TRUE]))

CanRejectArtifact(s, kind) == kind = "mission" \/ s.life \in {"DRAFT", "NEW"}

\* RejectMissionUpload for a mission: what was accepted before stays, and it is
\* the only one of them that does not look at readiness.
RejectArtifact(s, kind) ==
    IF kind = "mission"
    THEN Mutation([s EXCEPT !.mission = IF @ = "PENDING" THEN "REJECTED" ELSE @])
    ELSE markReadyWhenComplete(Mutation(
             IF kind = "preset" THEN [s EXCEPT !.preset = "REJECTED"]
                                ELSE [s EXCEPT !.server = "REJECTED"]))

ConfigureMission(s, content) == Mutation([s EXCEPT !.configured = content])

CanRemoveMission(s, content) == s.current # content /\ content \in Active(s)
RemoveMission(s, content) ==
    Mutation([s EXCEPT !.removed = @ \cup {content},
                       !.configured = IF @ = content THEN Default ELSE @])

MissionForApplication(s) == IF s.current # None THEN s.current ELSE s.configured

\* The mission to be loaded is among them whatever its record says.
AcceptedMissionFiles(s) == Active(s) \cup ({MissionForApplication(s)} \ {Default})

CanBeginWorkshopResolution(s, m) == s.marker.key \in {None, m}
BeginWorkshopResolution(s, m) ==
    Mutation([s EXCEPT !.marker = [target |-> Target(m), key |-> m]])

\* Mutant: a recorded source leaves the marker to whoever set it.
KeepWorkshopResolutionMarker(s, target) == s

\* By its target, whichever request has set it.
clearWorkshopResolutionMarker(s, target) ==
    IF s.marker.target = target THEN [s EXCEPT !.marker = NoMarker] ELSE s

RecordWorkshopResolutionFailure(s) == Mutation([s EXCEPT !.marker = NoMarker])

CanChangeWorkshopSources(s) ==
    ~s.locked /\ s.life \in {"DRAFT", "NEW", "RUNNING", "SLEEPING", "FAILED"}

CanRecordWorkshopSource(s, m) ==
    /\ CanChangeWorkshopSources(s)
    /\ Target(m) = "mods" => ~s.vanilla /\ ~s.hasPreset

\* The mods of a draft are attached as its first preset.
RecordWorkshopSource(s, m) ==
    clearWorkshopResolutionMarker(
        IF Target(m) = "mods" /\ s.life \in {"DRAFT", "NEW"}
        THEN AttachArtifact(s, "preset", Content(m)) ELSE Mutation(s),
        Target(m))

\* A failed session may be started again as long as it has no host.
CanStartInfrastructureProvisioning(s) ==
    s.life = "NEW" \/ (s.life = "FAILED" /\ ~s.locked /\ ~s.hosted)

-----------------------------------------------------------------------------
NoForm == [at |-> 1, stage |-> "load", copy |-> NewSession]
Resting == [stage |-> "idle", message |-> None, copy |-> NewSession, outcome |-> "none"]

Init ==
    /\ situation \in Situations
    /\ session = NewSession
    /\ records = {}
    /\ forms = [f \in Forms |-> NoForm]
    /\ queue = <<>> /\ seen = {} /\ dead = {}
    /\ receives = [m \in Messages |-> 0]
    /\ worker = Resting
    /\ commands = {}
    /\ begun = <<>>
    /\ host = [missions |-> {}, loaded |-> None, woken |-> FALSE]
    /\ restarts = 0

Calling(f, stage) == forms[f].at <= Len(situation.forms[f].calls) /\ forms[f].stage = stage

\* A copy is kept only as long as it is used.
Go(f, stage, copy) == forms' = [forms EXCEPT ![f].stage = stage, ![f].copy = copy]
Fail(f) == Go(f, "failed", NewSession)
NextCall(f) ==
    forms' = [forms EXCEPT ![f] = [at |-> @.at + 1, stage |-> "load", copy |-> NewSession]]

-----------------------------------------------------------------------------
(* A call that saves: Configure, PrepareCreationArtifacts, UpdateModOptions,  *)
(* UpdateDraftSetup and UpdateMission                                         *)

\* A session without a record may become a draft again, until it is started.
Accepts(s, c) ==
    CASE c.op = "configure" -> s.life = "DRAFT"
      [] c.op = "prepare"   -> s.life \in {"DRAFT", "NEW"}
      [] c.op = "options"   -> /\ ~s.vanilla /\ ~s.locked
                               /\ (c.preset \/ c.server) => s.life = "DRAFT"
                               /\ c.preset => ~s.hasPreset
                               /\ c.server => ~s.hasServer
      [] c.op = "setup"     -> /\ s.life = "DRAFT"
                               /\ c.mission => /\ s.configured = Default
                                               /\ s.mission \in {"", "REJECTED"}
                               /\ c.preset => ~s.hasPreset /\ s.preset \in {"", "REJECTED"}
      [] c.op = "mission"   -> /\ ~s.locked
                               /\ CASE c.action = "default" -> c.content \in Active(s)
                                    [] c.action = "built-in" -> TRUE
                                    [] c.action = "remove" -> CanRemoveMission(s, c.content)

Pending(status, asked) == IF asked THEN "PENDING" ELSE status

Apply(s, c) ==
    CASE c.op = "configure" ->
           markReadyWhenComplete(Mutation([s EXCEPT
               !.vanilla = c.vanilla, !.dlc = FALSE, !.start = c.start,
               !.revision = @ + 1]))
      [] c.op = "prepare" ->
           Mutation([s EXCEPT !.life = IF c.mission THEN "DRAFT" ELSE @,
                              !.mission = IF c.mission THEN "PENDING" ELSE "",
                              !.preset = ""])
      [] c.op = "options" ->
           Mutation(markReadyWhenComplete([s EXCEPT
               !.dlc = c.dlc, !.preset = Pending(@, c.preset),
               !.server = Pending(@, c.server), !.revision = @ + 1]))
      [] c.op = "setup" ->
           markReadyWhenComplete(Mutation([s EXCEPT
               !.vanilla = c.vanilla, !.dlc = @ /\ ~c.vanilla,
               !.mission = Pending(@, c.mission), !.preset = Pending(@, c.preset),
               !.revision = @ + 1]))
      [] c.op = "mission" ->
           IF c.action = "remove" THEN RemoveMission(s, c.content)
           ELSE ConfigureMission(s, IF c.action = "default" THEN c.content ELSE Default)

\* Who has created a session or changed its mods then asks for a start; a
\* creation that waits for a Workshop mission does not.
Continue(f, s) ==
    IF Call(f).op = "options" \/ (Call(f).op = "prepare" /\ ~Call(f).wait)
    THEN Go(f, "start", s) ELSE NextCall(f)

\* The options and the mission manager also name the version that they were
\* opened at: one that was open for too long is refused.
Load(f) ==
    /\ Calling(f, "load") /\ Call(f).op \in Saving
    /\ IF CallKey(f) \in records THEN Continue(f, session)
       ELSE Accepts(session, Call(f)) /\ Go(f, "save", session)
    /\ UNCHANGED <<situation, session, records, queue, seen, receives, dead, worker,
                   commands, begun, host, restarts>>

\* Mutant: the key is checked, the version is not.
CanSaveAnyVersion(copy, key) == key \notin records

\* The conditions of SaveWithEvent's transaction.
CanSave(copy, key) == key \notin records /\ session.version = copy.version

SaveCall(f) ==
    /\ Calling(f, "save") /\ Call(f).op \in Saving
    /\ LET s == Apply(forms[f].copy, Call(f)) IN
       \/ /\ CanSave(forms[f].copy, CallKey(f))
          /\ session' = s /\ records' = records \cup {CallKey(f)}
          /\ Continue(f, s) \/ (situation.faults /\ Go(f, "again", NewSession))
       \/ /\ ~CanSave(forms[f].copy, CallKey(f)) /\ Go(f, "again", NewSession)
          /\ UNCHANGED <<session, records>>
    /\ UNCHANGED <<situation, queue, seen, receives, dead, worker, commands, begun, host,
                   restarts>>

\* After an error: it may have been saved, by this delivery or by the other.
Again(f) ==
    /\ Calling(f, "again")
    /\ CallKey(f) \in records /\ Continue(f, session)
    /\ UNCHANGED <<situation, session, records, queue, seen, receives, dead, worker,
                   commands, begun, host, restarts>>

-----------------------------------------------------------------------------
(* The automatic start: RequestAutomaticStart and RequestStart *)

StartsAutomatically(s) ==
    s.start /\ s.marker = NoMarker /\ CanStartInfrastructureProvisioning(s)

\* Mutant: the command is named after the version of the session.
CommandOfVersion(s) == s.version

CommandID(s) == s.revision

\* The command queue drops an ID that it has seen, and so does the dispatcher.
Sent(s) ==
    IF \E c \in commands : c.id = CommandID(s) THEN commands
    ELSE commands \cup {[id |-> CommandID(s), revision |-> s.revision, taken |-> FALSE]}

\* Whether to ask goes by the caller's copy, whether it may by the session.
RequestAutomaticStart(s) ==
    IF StartsAutomatically(s)
    THEN CanStartInfrastructureProvisioning(session) /\ commands' = Sent(s)
    ELSE UNCHANGED commands

StartForm(f) ==
    /\ Calling(f, "start")
    /\ RequestAutomaticStart(forms[f].copy) /\ NextCall(f)
    /\ UNCHANGED <<situation, session, records, queue, seen, receives, dead, worker, begun,
                   host, restarts>>

-----------------------------------------------------------------------------
(* The artifact queue: RequestArtifactIngest and RequestWorkshopResolve *)

Enqueued(m) ==
    IF m \in seen THEN UNCHANGED <<queue, seen>>
    ELSE queue' = Append(queue, m) /\ seen' = seen \cup {m}

CanIngest(s, m) ==
    s.life = "DRAFT" \/ (Kind(m) = "mission" /\ ~s.locked /\ ~Removing(s))

RequestArtifactIngest(f) ==
    /\ Calling(f, "load") /\ Call(f).op = "ingest"
    /\ CanIngest(session, Call(f).message) /\ Enqueued(Call(f).message) /\ NextCall(f)
    /\ UNCHANGED <<situation, session, records, receives, dead, worker, commands, begun,
                   host, restarts>>

QueuedKey(m) == <<"workshop-queued", m>>

\* A link that was asked for before only gets its marker back, if it lost it.
RequestWorkshopResolve(f) ==
    /\ Calling(f, "load") /\ Call(f).op = "resolve"
    /\ LET m == Call(f).message IN
       /\ CanChangeWorkshopSources(session) /\ CanBeginWorkshopResolution(session, m)
       /\ IF QueuedKey(m) \in records /\ session.marker.key = m
          THEN Go(f, "enqueue-again", NewSession)
          ELSE Go(f, IF QueuedKey(m) \in records THEN "mark-again" ELSE "mark", session)
    /\ UNCHANGED <<situation, session, records, queue, seen, receives, dead, worker,
                   commands, begun, host, restarts>>

\* There is no second look after an error: what was saved without an answer
\* keeps its marker.
MarkWorkshopResolution(f) ==
    /\ Calling(f, "mark") \/ Calling(f, "mark-again")
    /\ LET m == Call(f).message
           again == forms[f].stage = "mark-again"
           key == IF again THEN <<"workshop-requeued", m>> ELSE QueuedKey(m)
       IN  IF CanSave(forms[f].copy, key)
           THEN /\ session' = BeginWorkshopResolution(forms[f].copy, m)
                /\ records' = records \cup {QueuedKey(m)}
                /\ Go(f, IF again THEN "enqueue-again" ELSE "enqueue", NewSession)
           ELSE Fail(f) /\ UNCHANGED <<session, records>>
    /\ UNCHANGED <<situation, queue, seen, receives, dead, worker, commands, begun, host,
                   restarts>>

\* The send may fail, before or after the message was accepted.
EnqueueWorkshop(f) ==
    /\ Calling(f, "enqueue") \/ Calling(f, "enqueue-again")
    /\ \/ Enqueued(Call(f).message) /\ NextCall(f)
       \/ /\ situation.faults /\ forms[f].stage = "enqueue"
          /\ UNCHANGED <<queue, seen>> \/ Enqueued(Call(f).message)
          /\ Go(f, "unmark", NewSession)
    /\ UNCHANGED <<situation, session, records, receives, dead, worker, commands, begun,
                   host, restarts>>

\* clearWorkshopResolution, which may itself fail or be overtaken.
Unmark(f) ==
    /\ Calling(f, "unmark") /\ session.marker.key = Call(f).message
    /\ session' = Mutation([session EXCEPT !.marker = NoMarker])
    /\ Fail(f)
    /\ UNCHANGED <<situation, records, queue, seen, receives, dead, worker, commands,
                   begun, host, restarts>>

-----------------------------------------------------------------------------
(* The artifact worker: cmd/artifact-worker *)

Work(stage, copy, outcome) ==
    worker' = [worker EXCEPT !.stage = stage, !.copy = copy, !.outcome = outcome]

Busy(stage) == worker.stage = stage
Message == worker.message
FinalAttempt == receives[Message] = MaxReceives

\* A batch failure: the message is delivered again, or given up.
Retry ==
    /\ worker' = Resting
    /\ IF FinalAttempt THEN queue' = Tail(queue) /\ dead' = dead \cup {Message}
                       ELSE UNCHANGED <<queue, dead>>

Delete == worker' = Resting /\ queue' = Tail(queue) /\ UNCHANGED dead

Receive ==
    /\ Busy("idle") /\ queue # <<>>
    /\ receives' = [receives EXCEPT ![Head(queue)] = @ + 1]
    /\ worker' = [Resting EXCEPT !.stage = "load", !.message = Head(queue)]
    /\ UNCHANGED <<situation, session, records, forms, queue, seen, dead, commands, begun,
                   host, restarts>>

OutcomeKey(m, outcome) == <<outcome, m>>
Settled(m) == \E outcome \in {"accepted", "rejected"} : OutcomeKey(m, outcome) \in records

\* The content is downloaded and validated.  A server-only preset is refused by
\* a vanilla session, and a replay must come to the recorded outcome.
Process ==
    /\ Busy("load") /\ ~IsWorkshop(Message)
    /\ LET m == Message
           accept == IsValid(m) /\ ~(Kind(m) = "server" /\ session.vanilla)
           outcome == IF accept THEN "accepted" ELSE "rejected"
       IN  \/ /\ OutcomeKey(m, outcome) \in records
              /\ IF accept THEN Work("copy", session, outcome) /\ UNCHANGED <<queue, dead>>
                           ELSE Delete
           \/ /\ ~Settled(m)
              /\ IF accept THEN CanAttachArtifact(session, Kind(m))
                           ELSE CanRejectArtifact(session, Kind(m))
              /\ Work("save", session, outcome)
              /\ UNCHANGED <<queue, dead>>
           \/ /\ OutcomeKey(m, outcome) \notin records
              /\ \/ Settled(m)
                 \/ accept /\ ~CanAttachArtifact(session, Kind(m))
                 \/ ~accept /\ ~CanRejectArtifact(session, Kind(m))
              /\ Retry
    /\ UNCHANGED <<situation, session, records, forms, seen, receives, commands, begun, host,
                   restarts>>

\* After an error, what is recorded was accepted or rejected all the same.
SaveOutcome ==
    /\ Busy("save") /\ ~IsWorkshop(Message)
    /\ LET m == Message
           key == OutcomeKey(m, worker.outcome)
           accept == worker.outcome = "accepted"
           s == IF accept THEN AttachArtifact(worker.copy, Kind(m), Content(m))
                          ELSE RejectArtifact(worker.copy, Kind(m))
       IN  IF CanSave(worker.copy, key)
           THEN /\ session' = s /\ records' = records \cup {key}
                /\ IF accept THEN Work("copy", s, worker.outcome) /\ UNCHANGED <<queue, dead>>
                             ELSE Delete
           ELSE Retry /\ UNCHANGED <<session, records>>
    /\ UNCHANGED <<situation, forms, seen, receives, commands, begun, host, restarts>>

LiveServer(s) == s.life = "RUNNING" /\ ~s.locked
LiveMissionCopyTarget(s, content) == LiveServer(s) /\ content \in AcceptedMissionFiles(s)

\* The copy is fenced on the host by nothing but the session it was asked for.
copyMissionLive ==
    /\ Busy("copy")
    /\ IF Kind(Message) = "mission" /\ LiveMissionCopyTarget(worker.copy, Content(Message))
       THEN host' = [host EXCEPT !.missions = @ \cup {Content(Message)}]
       ELSE UNCHANGED host
    /\ Work("start", worker.copy, worker.outcome)
    /\ UNCHANGED <<situation, session, records, forms, queue, seen, receives, dead, commands,
                   begun, restarts>>

AutoStart ==
    /\ Busy("start")
    /\ \/ RequestAutomaticStart(worker.copy) /\ Delete
       \/ /\ StartsAutomatically(worker.copy)
          /\ ~CanStartInfrastructureProvisioning(session)
          /\ Retry /\ UNCHANGED commands
    /\ UNCHANGED <<situation, session, records, forms, seen, receives, begun, host, restarts>>

\* A link that was recorded before is not recorded again, and its marker stays.
ResolveWorkshop ==
    /\ Busy("load") /\ IsWorkshop(Message)
    /\ IF ~Resolves(Message) THEN Work("clear", NewSession, "rejected")
       ELSE IF OutcomeKey(Message, "accepted") \in records
       THEN Work("start", session, "accepted")
       ELSE IF CanRecordWorkshopSource(session, Message) THEN Work("save", session, "accepted")
       ELSE Work("clear", NewSession, "rejected")
    /\ UNCHANGED <<situation, session, records, forms, queue, seen, receives, dead, commands,
                   begun, host, restarts>>

\* A conflict is permanent here; another error is until the last attempt.
SaveWorkshop ==
    /\ Busy("save") /\ IsWorkshop(Message)
    /\ LET key == OutcomeKey(Message, "accepted")
           s == RecordWorkshopSource(worker.copy, Message)
       IN  \/ /\ CanSave(worker.copy, key)
              /\ session' = s /\ records' = records \cup {key}
              /\ Work("start", s, "accepted")
              /\ UNCHANGED <<queue, dead>>
           \/ /\ ~CanSave(worker.copy, key) /\ Work("clear", NewSession, "rejected")
              /\ UNCHANGED <<session, records, queue, dead>>
           \/ /\ situation.faults
              /\ IF FinalAttempt
                 THEN Work("clear", NewSession, "rejected") /\ UNCHANGED <<queue, dead>>
                 ELSE Retry
              /\ UNCHANGED <<session, records>>
    /\ UNCHANGED <<situation, forms, seen, receives, commands, begun, host, restarts>>

\* The marker has to be this request's.
LoadClear ==
    /\ Busy("clear")
    /\ IF session.marker = [target |-> Target(Message), key |-> Message]
       THEN Work("clearing", session, "rejected") /\ UNCHANGED <<queue, dead>>
       ELSE Retry
    /\ UNCHANGED <<situation, session, records, forms, seen, receives, commands, begun, host,
                   restarts>>

ClearResolution ==
    /\ Busy("clearing")
    /\ IF CanSave(worker.copy, <<"workshop-clear", Message>>)
       THEN /\ session' = RecordWorkshopResolutionFailure(worker.copy)
            /\ records' = records \cup {<<"workshop-clear", Message>>}
            /\ Delete
       ELSE Retry /\ UNCHANGED <<session, records>>
    /\ UNCHANGED <<situation, forms, seen, receives, commands, begun, host, restarts>>

\* A call of the worker fails, or the worker is gone: before what it wrote was
\* stored, or after.
Crash ==
    /\ situation.faults /\ ~Busy("idle")
    /\ Retry
    /\ UNCHANGED <<situation, session, records, forms, seen, receives, commands, begun, host,
                   restarts>>

-----------------------------------------------------------------------------
(* The workflows, as far as the session shows them *)

\* AcquireProvisioningWorkflowLock, once for each command ID.
TakeCommand(c) ==
    /\ c \in commands /\ ~c.taken
    /\ commands' = (commands \ {c}) \cup {[c EXCEPT !.taken = TRUE]}
    /\ IF CanStartInfrastructureProvisioning(session)
       THEN /\ session' = Mutation([session EXCEPT !.life = "VALIDATING", !.locked = TRUE,
                                                   !.current = session.configured])
            /\ begun' = Append(begun, c.revision)
       ELSE UNCHANGED <<session, begun>>
    /\ UNCHANGED <<situation, records, forms, queue, seen, receives, dead, worker, host,
                   restarts>>

\* Mutant: a restart selects what is configured, before it is known to load.
BeginsSelecting(from, to, selection) ==
    /\ session.life = from /\ ~session.locked
    /\ session' = Mutation([session EXCEPT !.life = to, !.locked = TRUE,
                                           !.current = session.configured])

\* A workflow of a server that has a host.
Begins(from, to, selection) ==
    /\ session.life = from /\ ~session.locked
    /\ session' = Mutation([session EXCEPT !.life = to, !.locked = TRUE, !.current = selection])

\* BeginRestart and BeginSleep leave the selection as it is.
Restart ==
    /\ restarts < situation.restarts /\ restarts' = restarts + 1
    /\ Begins("RUNNING", "RESTARTING", session.current)
    /\ UNCHANGED <<situation, records, forms, queue, seen, receives, dead, worker, commands,
                   begun, host>>

Sleep ==
    /\ restarts < situation.restarts /\ restarts' = restarts + 1
    /\ Begins("RUNNING", "STOPPING", session.current)
    /\ UNCHANGED <<situation, records, forms, queue, seen, receives, dead, worker, commands,
                   begun, host>>

\* BeginWake selects what is configured; the server starts with its host, from
\* the files that are on the volume.
Wake ==
    /\ Begins("SLEEPING", "WAKING", session.configured)
    /\ host' = [host EXCEPT !.woken = TRUE]
    /\ UNCHANGED <<situation, records, forms, queue, seen, receives, dead, worker, commands,
                   begun, restarts>>

\* deploy_content of a bootstrap or a restart: files are added, and the one that
\* is selected is written into the configuration that the server loads.
Deployed ==
    [missions |-> host.missions \cup AcceptedMissionFiles(session),
     loaded |-> session.current, woken |-> FALSE]

Deploys == session.life \in {"VALIDATING", "RESTARTING"}

\* A wake's content command synchronises Workshop items and deploys nothing.
WorkflowSucceeds ==
    /\ session.life \in {"VALIDATING", "RESTARTING", "STOPPING", "WAKING"}
    /\ session' = Mutation([session EXCEPT
           !.life = IF @ = "STOPPING" THEN "SLEEPING" ELSE "RUNNING",
           !.locked = FALSE, !.hosted = TRUE])
    /\ host' = IF Deploys THEN Deployed ELSE host
    /\ UNCHANGED <<situation, records, forms, queue, seen, receives, dead, worker, commands,
                   begun, restarts>>

\* A start fails before or after its host was launched, and before or after the
\* host was set up.  The rollback of a wake is a bootstrap.
WorkflowFails ==
    /\ session.life \in {"VALIDATING", "RESTARTING", "STOPPING", "WAKING"}
    /\ \E hosted \in {session.hosted, TRUE} :
          /\ session' = Mutation([session EXCEPT !.life = "FAILED", !.locked = FALSE,
                                                 !.hosted = hosted])
          /\ \/ UNCHANGED host
             \/ hosted /\ session.life # "STOPPING" /\ host' = Deployed
    /\ UNCHANGED <<situation, records, forms, queue, seen, receives, dead, worker, commands,
                   begun, restarts>>

\* BeginTermination, from any state; what follows is Fleet's.
Terminate ==
    /\ situation.ends /\ ~session.locked
    /\ session' = Mutation([session EXCEPT !.life = "DELETING", !.locked = TRUE])
    /\ UNCHANGED <<situation, records, forms, queue, seen, receives, dead, worker, commands,
                   begun, host, restarts>>

-----------------------------------------------------------------------------
FormStep(f) ==
    \/ Load(f) \/ SaveCall(f) \/ Again(f) \/ StartForm(f) \/ RequestArtifactIngest(f)
    \/ RequestWorkshopResolve(f) \/ MarkWorkshopResolution(f) \/ EnqueueWorkshop(f)
    \/ Unmark(f)

Worker ==
    \/ Receive \/ Process \/ SaveOutcome \/ copyMissionLive \/ AutoStart
    \/ ResolveWorkshop \/ SaveWorkshop \/ LoadClear \/ ClearResolution \/ Crash

Workflow ==
    \/ \E c \in commands : TakeCommand(c)
    \/ Restart \/ Sleep \/ Wake \/ WorkflowSucceeds \/ WorkflowFails \/ Terminate

Next == (\E f \in Forms : FormStep(f)) \/ Worker \/ Workflow

Spec == Init /\ [][Next]_vars

-----------------------------------------------------------------------------
\* What the worker recorded of an upload is what the session shows, whatever is
\* saved over it by forms and workflows: an accepted mission has its record, an
\* accepted preset its object, and a file that was refused is in none of them.
UploadOutcomeIsKept ==
    \A m \in Messages : ~IsWorkshop(m) =>
        /\ OutcomeKey(m, "accepted") \in records =>
             CASE Kind(m) = "mission" -> Content(m) \in session.files
               [] Kind(m) = "preset"  -> session.hasPreset
               [] Kind(m) = "server"  -> session.hasServer
        /\ Kind(m) = "mission" /\ Content(m) \in session.files =>
             \E n \in Messages : /\ Content(n) = Content(m) /\ IsValid(n)
                                 /\ OutcomeKey(n, "accepted") \in records

\* A server that may be started has a configuration, waits for no server-only
\* mods, and its mission, unless it is the built-in one, was accepted.
ReadyWaitsForServerMods ==
    session.life = "NEW" =>
        /\ session.revision > 0 /\ session.server # "PENDING"
        /\ session.configured \in session.files \cup {Default}

\* A configuration is started automatically once, whichever form or upload
\* completes it and however often: a start that failed is the owner's to repeat.
AutomaticStartIsOnce ==
    \A i, j \in DOMAIN begun : begun[i] = begun[j] => i = j

\* A request is delivered twice when two invocations carry its key.
DeliveredTwice(m) ==
    \E f, g \in Forms : /\ f # g /\ situation.forms[f].key = situation.forms[g].key
                        /\ \E n \in DOMAIN situation.forms[f].calls :
                             situation.forms[f].calls[n].message = m

\* While a session waits for a Workshop link nothing starts it and no other
\* link is taken.  It waits for a message that the worker still has to handle,
\* except where a delivery was given up, failed, or came twice.
MarkerIsPending ==
    LET m == session.marker.key IN
    m # None => \/ m \in {queue[n] : n \in DOMAIN queue} \cup dead
                \/ \E f \in Forms : /\ forms[f].at <= Len(situation.forms[f].calls)
                                    /\ Call(f).message = m
                \/ DeliveredTwice(m)

RemovesLoaded == host.loaded' = host.loaded /\ host.loaded \in session'.removed \ session.removed

\* The mission that the server has loaded is not removed: RemoveMission looks at
\* the current selection, which a start sets in a save of its own and a restart
\* leaves alone.  It holds as long as the server was not woken: a wake selects
\* another mission, and the server goes on with the one it had.
LoadedIsKeptUntilWoken == [][~host.woken => ~RemovesLoaded]_vars

\* "Newly accepted uploads and Workshop scenarios are copied to `arma3/mpmissions`
\* on a stable running managed host": the worker is done with the copying.
AcceptedIsCopied ==
    Busy("start") /\ Kind(Message) = "mission" /\ LiveServer(worker.copy) =>
        Content(Message) \in host.missions
=============================================================================
