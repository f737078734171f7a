------------------------- MODULE SessionCommandsProofs -------------------------
(***************************************************************************)
(* Slugs stay unique, an interaction takes effect once and for good, and   *)
(* nothing is destroyed without a confirmation, for any number of sessions *)
(* and invocations in any situation that SituationsAssumption allows.      *)
(***************************************************************************)
EXTENDS SessionCommands, FiniteSetTheorems, TLAPS

-----------------------------------------------------------------------------
(* Types.  What an invocation copies of a session's lifecycle is not looked  *)
(* into here: the set that it is in is the singleton of what it is.          *)

Slugs == (STRING \X Nat) \cup {<<"none", 0>>}

Items == [owner : Owners \cup {"none"}, slug : Slugs, version : Nat, edits : Seq(Keys)]

KindNames == STRING \cup Kinds \cup {"none"}

Confirmations(life) ==
    [id : Keys \cup {NoWorkflow}, session : Stored \cup {NoSession}, kind : KindNames,
     life : {life}, version : Nat, status : {"none", "PENDING", "CONSUMED", "CANCELLED"},
     expired : BOOLEAN]

Commands ==
    [kind : KindNames, session : Stored \cup {NoSession},
     confirmation : Keys \cup {NoWorkflow}, handled : BOOLEAN]

Stages == {"idle", "scan", "create", "again", "load", "save", "enqueue", "put",
           "answered", "refused"}

Invocations(copy, life) ==
    [stage : Stages, session : Stored \cup {NoSession}, item : Items, copy : {copy},
     kind : KindNames, candidate : Nat, conflict : BOOLEAN,
     confirmation : Confirmations(life), answer : Stored \cup {NoSession}]

InvocationOK(i) == i \in Invocations(i.copy, i.confirmation.life)

TypeInv ==
    /\ situation \in Situations
    /\ items \in [Stored -> Items]
    /\ records \in [Keys -> [request : Requests \cup {[op |-> "none"]},
                             session : Stored \cup {NoSession}]]
    /\ slot = [o \in Owners |-> slot[o]]
    /\ \A o \in Owners : slot[o] \in Confirmations(slot[o].life)
    /\ queue \in [Keys -> Commands]
    /\ invocations = [a \in Attempts |-> invocations[a]]
    /\ \A a \in Attempts : InvocationOK(invocations[a])

\* What is asked is one of the requests, and names what it needs.
LEMMA RequestFacts ==
    ASSUME TypeInv, NEW a \in Attempts
    PROVE  /\ Request(a) \in Requests
           /\ Request(a).op # "none" => Request(a).key \in Keys
           /\ Request(a).op \in {"edit", "lifecycle", "ask"} => Request(a).target \in Stored
BY SituationsAssumption DEF TypeInv, Request

LEMMA TypeInit == Init => TypeInv
<1> SUFFICES ASSUME Init PROVE TypeInv
  OBVIOUS
<1>1. NoItem \in Items
  BY DEF NoItem, Items, Slugs
<1>2. NoConfirmation \in Confirmations("none")
  BY DEF NoConfirmation, Confirmations, KindNames
<1>3. InvocationOK(Idle)
  <2>1. Idle \in Invocations(NoSession, "none")
    BY <1>1, <1>2 DEF Idle, Invocations, Stages, KindNames
  <2>2. Idle.copy = NoSession /\ Idle.confirmation.life = "none"
    BY DEF Idle, NoConfirmation
  <2>3. QED
    BY <2>1, <2>2 DEF InvocationOK
<1>4. items \in [Stored -> Items]
  <2>1. ASSUME NEW s \in DOMAIN situation.stored
        PROVE  [owner |-> situation.stored[s].owner, slug |-> situation.stored[s].slug,
                version |-> 1, edits |-> <<>>] \in Items
    <3>1. situation.stored[s].owner \in Owners /\ situation.stored[s].slug \in STRING \X Nat
      BY SituationsAssumption DEF Init
    <3>2. QED
      BY <3>1 DEF Items, Slugs
  <2>2. QED
    BY <1>1, <2>1 DEF Init
<1>5. NoRecord \in [request : Requests \cup {[op |-> "none"]}, session : Stored \cup {NoSession}]
  BY DEF NoRecord
<1>6. NoCommand \in Commands
  BY DEF NoCommand, Commands, KindNames
<1>7. NoConfirmation.life = "none"
  BY DEF NoConfirmation
<1>8. QED
  BY <1>2, <1>3, <1>4, <1>5, <1>6, <1>7 DEF Init, TypeInv

-----------------------------------------------------------------------------
(* How an invocation moves *)

Others(a) == \A b \in Attempts \ {a} : invocations'[b] = invocations[b]

\* The fields of an invocation that stay when it goes to another stage.
Stays(a) ==
    /\ invocations'[a].session = invocations[a].session
    /\ invocations'[a].item = invocations[a].item
    /\ invocations'[a].kind = invocations[a].kind
    /\ invocations'[a].candidate = invocations[a].candidate
    /\ invocations'[a].confirmation = invocations[a].confirmation

InvocationsOK ==
    /\ invocations = [a \in Attempts |-> invocations[a]]
    /\ \A a \in Attempts : InvocationOK(invocations[a])

LEMMA Going ==
    ASSUME TypeInv, NEW a \in Attempts, NEW stage \in Stages, Go(a, stage)
    PROVE  /\ invocations'[a].stage = stage /\ Stays(a)
           /\ invocations'[a].answer = invocations[a].answer
           /\ Others(a) /\ InvocationsOK'
BY DEF TypeInv, Go, Stays, Others, InvocationsOK, InvocationOK, Invocations

LEMMA Answering ==
    ASSUME TypeInv, NEW a \in Attempts, NEW s \in Stored \cup {NoSession}, Answered(a, s)
    PROVE  /\ invocations'[a].stage = "answered" /\ Stays(a)
           /\ invocations'[a].answer = s
           /\ Others(a) /\ InvocationsOK'
<1> DEFINE i == invocations[a]
<1>1. i \in Invocations(i.copy, i.confirmation.life)
  BY DEF TypeInv, InvocationOK
<1>2. invocations' = [invocations EXCEPT ![a] = [i EXCEPT !.stage = "answered", !.answer = s]]
  BY DEF TypeInv, Answered
<1> DEFINE j == [i EXCEPT !.stage = "answered", !.answer = s]
<1>3. /\ j.stage = "answered" /\ j.session = i.session /\ j.item = i.item /\ j.kind = i.kind
      /\ j.candidate = i.candidate /\ j.confirmation = i.confirmation /\ j.answer = s
      /\ j.copy = i.copy /\ j \in Invocations(i.copy, i.confirmation.life)
  BY <1>1 DEF Invocations, Stages
<1>4. invocations'[a] = j /\ Others(a) /\ invocations' = [b \in Attempts |-> invocations'[b]]
  BY <1>2 DEF TypeInv, Others
<1>5. QED
  BY <1>3, <1>4 DEF TypeInv, Stays, Others, InvocationsOK, InvocationOK

\* What an invocation tells its user is what the record of its key says.
AnswerKept(a) ==
    \/ invocations'[a].answer = invocations[a].answer
    \/ /\ records'[Request(a).key] # NoRecord
       /\ invocations'[a].answer = records'[Request(a).key].session

tables == <<situation, sessions, items, claims, records, slot, queue, cancelled>>

LEMMA TypeKept ==
    ASSUME TypeInv, UNCHANGED <<situation, items, records, slot, queue>>, InvocationsOK'
    PROVE  TypeInv'
BY DEF TypeInv, InvocationsOK

LEMMA Refusing ==
    ASSUME TypeInv, NEW a \in Attempts, Refuse(a)
    PROVE  /\ UNCHANGED tables /\ invocations'[a].stage = "refused" /\ Stays(a)
           /\ invocations'[a].answer = invocations[a].answer
           /\ Others(a) /\ InvocationsOK'
<1>1. Go(a, "refused") /\ "refused" \in Stages /\ UNCHANGED tables
  BY DEF Refuse, tables, table, Stages
<1>2. QED
  BY <1>1, Going

LEMMA Replaying ==
    ASSUME TypeInv, NEW a \in Attempts, Request(a).op # "none", Recorded(a), Replay(a, FALSE)
    PROVE  /\ UNCHANGED tables /\ invocations'[a].stage \in {"answered", "refused"}
           /\ Stays(a) /\ AnswerKept(a) /\ Others(a) /\ InvocationsOK'
<1>1. UNCHANGED tables /\ Request(a).key \in Keys
  BY RequestFacts DEF Replay, tables, table
<1>2. CASE records[Request(a).key].request = Request(a)
  <2>1. Answered(a, records[Request(a).key].session)
    BY <1>2 DEF Replay
  <2>2. records[Request(a).key].session \in Stored \cup {NoSession}
    BY <1>1 DEF TypeInv
  <2>3. QED
    BY <1>1, <2>1, <2>2, Answering DEF AnswerKept, tables, Recorded, Request
<1>3. CASE records[Request(a).key].request # Request(a)
  <2>1. Go(a, "refused") /\ "refused" \in Stages
    BY <1>3 DEF Replay, Stages
  <2>2. QED
    BY <1>1, <2>1, Going DEF AnswerKept
<1>4. QED
  BY <1>2, <1>3

-----------------------------------------------------------------------------
(* What each invocation does to the table, operation by operation *)

\* A creation commits, or goes on without a trace.
Creates(a) ==
    /\ invocations[a].stage = "create" /\ CanCreate(a)
    /\ items' = [items EXCEPT ![a] = [owner |-> Request(a).owner, slug |-> Candidate(a),
                                      version |-> 1, edits |-> <<Request(a).key>>]]
    /\ claims' = claims \cup {Candidate(a)} /\ Commit(a, a)
    /\ invocations'[a].stage \in {"answered", "again"}

Scanned(a) ==
    /\ UNCHANGED <<items, claims, records>>
    /\ invocations'[a].stage = "create" =>
         /\ invocations'[a].candidate = invocations[a].candidate
         /\ \A s \in Stored : Exists(s) => items[s].slug # Candidate(a)

LEMMA CandidateType ==
    ASSUME TypeInv, NEW a \in Attempts
    PROVE  Candidate(a) \in STRING \X Nat
<1>1. Request(a).slug \in STRING \X Nat /\ invocations[a].candidate \in Nat
  BY RequestFacts DEF Requests, TypeInv, InvocationOK, Invocations
<1>2. QED
  BY <1>1 DEF Candidate, slugCollisionCandidate

LEMMA CreationEffect ==
    ASSUME TypeInv, NEW a \in Attempts, Creation(a)
    PROVE  /\ Request(a).op = "create" /\ UNCHANGED <<situation, slot, queue, cancelled>>
           /\ invocations'[a].confirmation = invocations[a].confirmation
           /\ Others(a) /\ AnswerKept(a)
           /\ Creates(a) \/ Scanned(a)
           /\ TypeInv'
<1>1. Request(a).op = "create" /\ Request(a).key \in Keys /\ a \in Stored /\ a # NoSession
      /\ UNCHANGED <<situation, slot, queue, cancelled>>
  BY RequestFacts, CommandsAssumption
     DEF Creation, CreateReplay, legacyGuildSlugExists, CreateSession, CreateAgain, At, Replay,
         Refuse, Stored, table
<1>2. CASE Recorded(a) /\ Replay(a, FALSE)
  BY <1>1, <1>2, Replaying, TypeKept DEF Stays, Scanned, tables
<1>4. CASE CreateReplay(a)
  <2>1. CASE Recorded(a)
    BY <1>2, <1>4, <2>1 DEF CreateReplay, Replay
  <2>2. CASE ~Recorded(a)
    <3> DEFINE i == invocations[a]
               j == [i EXCEPT !.stage = "scan", !.candidate = 1]
    <3>1. UNCHANGED tables /\ invocations' = [invocations EXCEPT ![a] = j]
      BY <1>4, <2>2 DEF CreateReplay, Replay, tables, table
    <3>2. i \in Invocations(i.copy, i.confirmation.life)
      BY DEF TypeInv, InvocationOK
    <3>3. /\ j \in Invocations(i.copy, i.confirmation.life) /\ j.stage = "scan"
          /\ j.copy = i.copy /\ j.confirmation = i.confirmation /\ j.answer = i.answer
      BY <3>2 DEF Invocations, Stages
    <3>4. invocations'[a] = j /\ Others(a) /\ InvocationsOK'
      BY <3>1, <3>3 DEF TypeInv, Others, InvocationsOK, InvocationOK
    <3>5. QED
      BY <1>1, <3>1, <3>3, <3>4, TypeKept DEF Scanned, AnswerKept, tables
  <2>3. QED
    BY <2>1, <2>2
<1>5. CASE legacyGuildSlugExists(a)
  <2> DEFINE found == \E s \in Stored : Exists(s) /\ items[s].slug = Candidate(a)
             i == invocations[a]
             j == [i EXCEPT !.stage = IF found THEN "again" ELSE "create", !.conflict = found]
  <2>1. UNCHANGED tables /\ invocations' = [invocations EXCEPT ![a] = j]
    BY <1>5 DEF legacyGuildSlugExists, tables, table
  <2>2. i \in Invocations(i.copy, i.confirmation.life)
    BY DEF TypeInv, InvocationOK
  <2>3. found \in BOOLEAN
    OBVIOUS
  <2> HIDE DEF found
  <2>4. /\ j \in Invocations(i.copy, i.confirmation.life)
        /\ found => j.stage = "again"
        /\ ~found => j.stage = "create"
        /\ j.candidate = i.candidate
        /\ j.copy = i.copy /\ j.confirmation = i.confirmation /\ j.answer = i.answer
    BY <2>2, <2>3 DEF Invocations, Stages
  <2>5. invocations'[a] = j /\ Others(a) /\ InvocationsOK'
    BY <2>1, <2>4 DEF TypeInv, Others, InvocationsOK, InvocationOK
  <2>6. Scanned(a)
    <3>1. CASE found
      BY <2>1, <2>4, <2>5, <3>1 DEF Scanned, tables
    <3>2. CASE ~found
      BY <2>1, <2>4, <2>5, <3>2 DEF Scanned, tables, found
    <3>3. QED
      BY <3>1, <3>2
  <2>7. QED
    BY <1>1, <2>1, <2>4, <2>5, <2>6, TypeKept DEF AnswerKept, tables
<1>6. CASE CreateSession(a)
  <2> DEFINE i == invocations[a]
  <2>1. i \in Invocations(i.copy, i.confirmation.life)
    BY DEF TypeInv, InvocationOK
  <2>2. CASE CanCreate(a) /\ ~UNCHANGED items
    <3>1. Commit(a, a) /\ i.stage = "create"
          /\ items' = [items EXCEPT ![a] = [owner |-> Request(a).owner, slug |-> Candidate(a),
                                            version |-> 1, edits |-> <<Request(a).key>>]]
          /\ claims' = claims \cup {Candidate(a)}
      BY <1>6, <2>2 DEF CreateSession, At
    <3>2. invocations'[a].stage \in {"answered", "again"} /\ Others(a) /\ InvocationsOK'
          /\ invocations'[a].answer \in {a, i.answer}
          /\ invocations'[a].confirmation = i.confirmation
      <4>1. CASE Answered(a, a)
        BY <1>1, <4>1, Answering DEF Stays
      <4>2. CASE invocations' = [invocations EXCEPT ![a].stage = "again", ![a].conflict = FALSE]
        <5> DEFINE j == [i EXCEPT !.stage = "again", !.conflict = FALSE]
        <5>1. invocations' = [invocations EXCEPT ![a] = j]
          BY <4>2
        <5>2. /\ j \in Invocations(i.copy, i.confirmation.life) /\ j.stage = "again"
              /\ j.copy = i.copy /\ j.confirmation = i.confirmation /\ j.answer = i.answer
          BY <2>1 DEF Invocations, Stages
        <5>3. invocations'[a] = j
          BY <5>1 DEF TypeInv
        <5>4. QED
          BY <5>1, <5>2, <5>3 DEF TypeInv, Others, InvocationsOK, InvocationOK
      <4>3. QED
        BY <1>6, <2>2, <4>1, <4>2 DEF CreateSession
    <3>3. records'[Request(a).key] # NoRecord /\ records'[Request(a).key].session = a
      BY <1>1, <3>1 DEF Commit, TypeInv, NoRecord
    <3>4. AnswerKept(a)
      BY <1>1, <3>2, <3>3 DEF AnswerKept, Request
    <3>5. items' \in [Stored -> Items]
      <4>1. Request(a).owner \in Owners
        BY RequestFacts DEF Requests
      <4>2. [owner |-> Request(a).owner, slug |-> Candidate(a), version |-> 1,
             edits |-> <<Request(a).key>>] \in Items
        BY <1>1, <4>1, CandidateType DEF Items, Slugs
      <4>3. QED
        BY <3>1, <4>2 DEF TypeInv
    <3>6. records' \in [Keys -> [request : Requests \cup {[op |-> "none"]},
                                 session : Stored \cup {NoSession}]]
      BY <1>1, <3>1, RequestFacts DEF Commit, TypeInv
    <3>7. TypeInv'
      BY <1>1, <3>2, <3>5, <3>6 DEF TypeInv, InvocationsOK
    <3>8. QED
      BY <1>1, <2>2, <3>1, <3>2, <3>4, <3>7 DEF Creates
  <2>3. CASE ~CanCreate(a)
    <3> DEFINE found == Candidate(a) \in claims
               j == [i EXCEPT !.stage = "again", !.conflict = found]
    <3>1. UNCHANGED <<items, claims, records>> /\ invocations' = [invocations EXCEPT ![a] = j]
      BY <1>6, <2>3 DEF CreateSession
    <3>2. found \in BOOLEAN
      OBVIOUS
    <3> HIDE DEF found
    <3>3. /\ j \in Invocations(i.copy, i.confirmation.life) /\ j.stage = "again"
          /\ j.copy = i.copy /\ j.confirmation = i.confirmation /\ j.answer = i.answer
      BY <2>1, <3>2 DEF Invocations, Stages
    <3>4. invocations'[a] = j /\ Others(a) /\ InvocationsOK'
      BY <3>1, <3>3 DEF TypeInv, Others, InvocationsOK, InvocationOK
    <3>5. QED
      BY <1>1, <3>1, <3>3, <3>4, TypeKept DEF Scanned, AnswerKept
  <2>4. CanCreate(a) => ~UNCHANGED items
    <3>1. SUFFICES ASSUME CanCreate(a), UNCHANGED items PROVE FALSE
      OBVIOUS
    <3>2. items'[a].version = 1
      BY <1>1, <1>6, <3>1 DEF CreateSession, TypeInv
    <3>3. QED
      BY <3>1, <3>2 DEF CanCreate, Exists
  <2>5. QED
    BY <2>2, <2>3, <2>4
<1>7. CASE CreateAgain(a)
  <2>1. CASE Recorded(a)
    BY <1>2, <1>7, <2>1 DEF CreateAgain, Replay
  <2>2. CASE ~Recorded(a) /\ Refuse(a)
    BY <1>1, <2>2, Refusing, TypeKept DEF Stays, Scanned, AnswerKept, tables
  <2>3. CASE ~Recorded(a) /\ ~Refuse(a)
    <3> DEFINE i == invocations[a]
               n == i.candidate + 1
               j == [i EXCEPT !.stage = "scan", !.candidate = n]
    <3>1. UNCHANGED tables /\ invocations' = [invocations EXCEPT ![a] = j]
      BY <1>7, <2>3 DEF CreateAgain, Replay, tables, table
    <3>2. i \in Invocations(i.copy, i.confirmation.life)
      BY DEF TypeInv, InvocationOK
    <3>6. n \in Nat
      BY <3>2 DEF Invocations
    <3> HIDE DEF n
    <3>3. /\ j \in Invocations(i.copy, i.confirmation.life) /\ j.stage = "scan"
          /\ j.copy = i.copy /\ j.confirmation = i.confirmation /\ j.answer = i.answer
      BY <3>2, <3>6 DEF Invocations, Stages
    <3>4. invocations'[a] = j /\ Others(a) /\ InvocationsOK'
      BY <3>1, <3>3 DEF TypeInv, Others, InvocationsOK, InvocationOK
    <3>5. QED
      BY <1>1, <3>1, <3>3, <3>4, TypeKept DEF Scanned, AnswerKept, tables
  <2>4. QED
    BY <2>1, <2>2, <2>3
<1>8. QED
  BY <1>4, <1>5, <1>6, <1>7 DEF Creation

LEMMA Updating ==
    ASSUME TypeInv, NEW a \in Attempts, NEW j, InvocationOK(j),
           invocations' = [invocations EXCEPT ![a] = j]
    PROVE  invocations'[a] = j /\ Others(a) /\ InvocationsOK'
BY DEF TypeInv, Others, InvocationsOK

\* An edit puts back the whole item that it read, with its key added to the edits.
Saves(a) ==
    /\ invocations[a].stage = "save" /\ CanSave(a)
    /\ items' = [items EXCEPT ![invocations[a].session] =
                    [invocations[a].item EXCEPT
                       !.version = invocations[a].item.version + 1,
                       !.edits = Append(invocations[a].item.edits, Request(a).key)]]
    /\ Commit(a, invocations[a].session)
    /\ invocations'[a].stage \in {"answered", "again"}

Loads(a) ==
    /\ UNCHANGED <<items, records>>
    /\ invocations'[a].stage = "save" =>
         /\ invocations'[a].session \in Stored /\ Exists(invocations'[a].session)
         /\ invocations'[a].item = items[invocations'[a].session]

\* An edit about to save has the session that it loaded.
SaveTarget == \A a \in Attempts : At(a, "edit", "save") => invocations[a].session \in Stored

LEMMA EditEffect ==
    ASSUME TypeInv, SaveTarget, NEW a \in Attempts, Edit(a)
    PROVE  /\ Request(a).op = "edit" /\ UNCHANGED <<situation, claims, slot, queue, cancelled>>
           /\ invocations'[a].confirmation = invocations[a].confirmation
           /\ Others(a) /\ AnswerKept(a)
           /\ Saves(a) \/ Loads(a)
           /\ TypeInv'
<1> DEFINE i == invocations[a]
<1>1. Request(a).op = "edit" /\ Request(a).key \in Keys /\ Request(a).target \in Stored
      /\ UNCHANGED <<situation, claims, slot, queue, cancelled>>
  BY RequestFacts
     DEF Edit, EditReplay, EditLoad, SaveWithEvent, EditAgain, At, Replay, Refuse, table
<1>2. i \in Invocations(i.copy, i.confirmation.life)
  BY DEF TypeInv, InvocationOK
<1>3. CASE Recorded(a) /\ Replay(a, FALSE)
  BY <1>1, <1>3, Replaying, TypeKept DEF Stays, Loads, tables
<1>4. ASSUME NEW stage \in {"load", "again"}, UNCHANGED <<items, records>>, Go(a, stage)
      PROVE  /\ Others(a) /\ AnswerKept(a) /\ Loads(a) /\ TypeInv'
             /\ invocations'[a].confirmation = i.confirmation
  <2>1. stage \in Stages /\ stage # "save"
    BY DEF Stages
  <2>2. QED
    BY <1>1, <1>4, <2>1, Going, TypeKept DEF Stays, Loads, AnswerKept
<1>5. CASE Refuse(a)
  BY <1>1, <1>5, Refusing, TypeKept DEF Stays, Loads, AnswerKept, tables
<1>6. CASE EditReplay(a)
  <2>1. CASE Recorded(a)
    BY <1>3, <1>6, <2>1 DEF EditReplay, Replay
  <2>2. CASE ~Recorded(a)
    <3>1. Go(a, "load") /\ UNCHANGED <<items, records>>
      BY <1>6, <2>2 DEF EditReplay, Replay, table
    <3>2. QED
      BY <1>1, <1>4, <3>1
  <2>3. QED
    BY <2>1, <2>2
<1>7. CASE EditLoad(a)
  <2> DEFINE s == Request(a).target
             j == [i EXCEPT !.stage = "save", !.session = s, !.item = items[s],
                            !.copy = sessions[s]]
  <2>1. CASE Allows(a, s)
    <3>1. UNCHANGED tables /\ invocations' = [invocations EXCEPT ![a] = j] /\ Exists(s)
      BY <1>7, <2>1 DEF EditLoad, tables, table, Allows
    <3>2. s \in Stored /\ items[s] \in Items
      BY <1>1 DEF TypeInv
    <3>3. /\ j \in Invocations(sessions[s], i.confirmation.life) /\ j.stage = "save"
          /\ j.copy = sessions[s] /\ j.confirmation = i.confirmation /\ j.answer = i.answer
          /\ j.session = s /\ j.item = items[s]
      BY <1>2, <3>2 DEF Invocations, Stages
    <3>4. InvocationOK(j)
      BY <3>3 DEF InvocationOK
    <3>5. invocations'[a] = j /\ Others(a) /\ InvocationsOK'
      BY <3>1, <3>4, Updating
    <3>6. QED
      BY <1>1, <3>1, <3>2, <3>3, <3>5, TypeKept DEF Loads, AnswerKept, tables
  <2>2. CASE ~Allows(a, s)
    BY <1>5, <1>7, <2>2 DEF EditLoad
  <2>3. QED
    BY <2>1, <2>2
<1>8. CASE SaveWithEvent(a)
  <2>1. CASE CanSave(a) /\ Commit(a, i.session)
    <3>1. /\ i.stage = "save" /\ (Answered(a, i.session) \/ Go(a, "again"))
          /\ items' = [items EXCEPT ![i.session] =
                         [i.item EXCEPT !.version = i.item.version + 1,
                                        !.edits = Append(i.item.edits, Request(a).key)]]
      <4>1. records'[Request(a).key] # records[Request(a).key]
        BY <1>1, <2>1 DEF CanSave, Recorded, Commit, TypeInv, NoRecord
      <4>2. QED
        BY <1>8, <4>1 DEF SaveWithEvent, At
    <3>2. i.session \in Stored /\ i.item \in Items
      BY <1>1, <1>2, <3>1 DEF SaveTarget, At, Invocations
    <3>3. /\ invocations'[a].stage \in {"answered", "again"} /\ Others(a) /\ InvocationsOK'
          /\ invocations'[a].answer \in {i.session, i.answer}
          /\ invocations'[a].confirmation = i.confirmation
      <4>1. CASE Answered(a, i.session)
        BY <3>2, <4>1, Answering DEF Stays
      <4>2. CASE Go(a, "again")
        BY <4>2, Going DEF Stays, Stages
      <4>3. QED
        BY <3>1, <4>1, <4>2
    <3>4. i.session # NoSession
      BY <3>2, CommandsAssumption
    <3>5. records'[Request(a).key] # NoRecord /\ records'[Request(a).key].session = i.session
      BY <1>1, <2>1, <3>4 DEF Commit, TypeInv, NoRecord
    <3>6. AnswerKept(a)
      BY <1>1, <3>3, <3>5 DEF AnswerKept, Request
    <3>7. items' \in [Stored -> Items]
      <4>1. i.item.version + 1 \in Nat /\ Append(i.item.edits, Request(a).key) \in Seq(Keys)
        BY <1>1, <3>2 DEF Items
      <4>2. [i.item EXCEPT !.version = i.item.version + 1,
                           !.edits = Append(i.item.edits, Request(a).key)] \in Items
        BY <3>2, <4>1 DEF Items
      <4>3. QED
        BY <3>1, <4>2 DEF TypeInv
    <3>8. records' \in [Keys -> [request : Requests \cup {[op |-> "none"]},
                                 session : Stored \cup {NoSession}]]
      BY <1>1, <2>1, <3>2, RequestFacts DEF Commit, TypeInv
    <3>9. TypeInv'
      BY <1>1, <3>3, <3>7, <3>8 DEF TypeInv, InvocationsOK
    <3>10. QED
      BY <1>1, <2>1, <3>1, <3>3, <3>6, <3>9 DEF Saves
  <2>2. CASE Go(a, "again") /\ UNCHANGED <<items, records>>
    BY <1>1, <1>4, <2>2
  <2>3. QED
    BY <1>8, <2>1, <2>2 DEF SaveWithEvent
<1>9. CASE EditAgain(a)
  <2>1. CASE Recorded(a)
    BY <1>3, <1>9, <2>1 DEF EditAgain, Replay
  <2>2. CASE ~Recorded(a)
    BY <1>5, <1>9, <2>2 DEF EditAgain, Replay
  <2>3. QED
    BY <2>1, <2>2
<1>10. QED
  BY <1>6, <1>7, <1>8, <1>9 DEF Edit

\* What is sent was prepared by an earlier step, and is sent once per key.
Sends(a, command) ==
    /\ invocations[a].stage = "enqueue"
    /\ queue' \in {queue, Enqueued(a, command)}
    /\ invocations'[a].stage \in {"answered", "refused"}
    /\ invocations'[a].confirmation = invocations[a].confirmation

Admits(a) ==
    /\ UNCHANGED queue
    /\ invocations'[a].stage = "enqueue" =>
         /\ invocations'[a].session \in Stored /\ Exists(invocations'[a].session)
         /\ invocations'[a].kind \notin Destructive

LEMMA Sending ==
    ASSUME TypeInv, NEW a \in Attempts, Request(a).op # "none",
           NEW command \in Commands, invocations[a].stage = "enqueue", Enqueue(a, command)
    PROVE  /\ UNCHANGED <<situation, sessions, items, claims, records, slot, cancelled>>
           /\ Sends(a, command) /\ Others(a) /\ TypeInv'
           /\ invocations'[a].answer = invocations[a].answer
<1>1. UNCHANGED <<situation, sessions, items, claims, records, slot, cancelled>>
      /\ queue' \in {queue, Enqueued(a, command)} /\ Request(a).key \in Keys
  BY RequestFacts DEF Enqueue, table
<1>2. queue' \in [Keys -> Commands]
  BY <1>1 DEF TypeInv, Enqueued
<1>3. \E stage \in {"answered", "refused"} : Go(a, stage)
  BY DEF Enqueue
<1>4. /\ invocations'[a].stage \in {"answered", "refused"} /\ Stays(a)
      /\ invocations'[a].answer = invocations[a].answer /\ Others(a) /\ InvocationsOK'
  BY <1>3, Going DEF Stages
<1>5. QED
  BY <1>1, <1>2, <1>4 DEF Sends, Stays, TypeInv, InvocationsOK

LEMMA LifecycleEffect ==
    ASSUME TypeInv, NEW a \in Attempts, Lifecycle(a)
    PROVE  /\ Request(a).op = "lifecycle"
           /\ UNCHANGED <<situation, items, claims, records, slot, cancelled>>
           /\ invocations'[a].answer = invocations[a].answer
           /\ invocations'[a].confirmation = invocations[a].confirmation
           /\ Others(a)
           /\ \/ Sends(a, Envelope(invocations[a].kind, invocations[a].session, NoWorkflow))
              \/ Admits(a)
           /\ TypeInv'
<1> DEFINE i == invocations[a]
<1>1. Request(a).op = "lifecycle" /\ Request(a).target \in Stored /\ Request(a).kind \in STRING
  BY RequestFacts DEF Lifecycle, RequestLifecycle, CapacityIsTaken, EnqueueLifecycle, At, Requests
<1>2. i \in Invocations(i.copy, i.confirmation.life)
  BY DEF TypeInv, InvocationOK
<1>3. CASE Refuse(a)
  BY <1>1, <1>3, Refusing, TypeKept DEF Stays, Admits, tables
<1>4. CASE RequestLifecycle(a) /\ ~Refuse(a)
  <2> DEFINE s == Request(a).target
             kind == KindAsked(a, s)
             j == [i EXCEPT !.stage = "enqueue", !.session = s, !.kind = kind]
  <2>1. /\ UNCHANGED tables /\ invocations' = [invocations EXCEPT ![a] = j]
        /\ Exists(s) /\ kind \notin Destructive
    BY <1>4 DEF RequestLifecycle, tables, table
  <2>2. kind \in KindNames
    BY <1>1 DEF KindAsked, StartKind, KindNames, Kinds
  <2> HIDE DEF kind
  <2>3. /\ j \in Invocations(i.copy, i.confirmation.life)
        /\ j.copy = i.copy /\ j.confirmation = i.confirmation /\ j.answer = i.answer
        /\ j.session = s /\ j.kind = kind
    BY <1>1, <1>2, <2>2 DEF Invocations, Stages
  <2>4. InvocationOK(j)
    BY <2>3 DEF InvocationOK
  <2>5. invocations'[a] = j /\ Others(a) /\ InvocationsOK'
    BY <2>1, <2>4, Updating
  <2>6. QED
    BY <1>1, <2>1, <2>3, <2>5, TypeKept DEF Admits, tables
<1>5. CASE EnqueueLifecycle(a)
  <2>1. Envelope(i.kind, i.session, NoWorkflow) \in Commands
    BY <1>2 DEF Envelope, Commands, Invocations
  <2>2. i.stage = "enqueue" /\ Enqueue(a, Envelope(i.kind, i.session, NoWorkflow))
    BY <1>5 DEF EnqueueLifecycle, At
  <2>3. QED
    BY <1>1, <2>1, <2>2, Sending DEF Sends
<1>6. QED
  BY <1>3, <1>4, <1>5 DEF Lifecycle, CapacityIsTaken

-----------------------------------------------------------------------------
(* Confirmations, asked for, put, read, consumed and cancelled *)

Asks(a) ==
    /\ Request(a).op = "ask" /\ invocations[a].stage = "idle"
    /\ CanAsk(a, Request(a).target) /\ UNCHANGED <<slot, queue>>
    /\ invocations'[a].stage = "put"
    /\ invocations'[a].confirmation = NewConfirmation(a, Request(a).target)

Puts(a) ==
    /\ Request(a).op = "ask" /\ invocations[a].stage = "put" /\ UNCHANGED queue
    /\ SlotIsFree(slot[Request(a).owner], invocations[a].confirmation)
    /\ confirmationSessionCheck(invocations[a].confirmation)
    /\ slot' = [slot EXCEPT ![Request(a).owner] = invocations[a].confirmation]
    /\ invocations'[a].stage = "answered" /\ Stays(a)

Reads(a) ==
    /\ Request(a).op \in {"confirm", "cancel"} /\ invocations[a].stage = "idle"
    /\ CheckPending(slot[Request(a).owner]) /\ UNCHANGED <<slot, queue>>
    /\ invocations'[a].stage = "put"
    /\ invocations'[a].confirmation = slot[Request(a).owner]

\* The confirmation that was read goes back to the slot, with another status.
PutsBack(a, status) ==
    /\ invocations[a].stage = "put" /\ slot[Request(a).owner].status = "PENDING"
    /\ UNCHANGED queue
    /\ slot' = [slot EXCEPT ![Request(a).owner] =
                   [invocations[a].confirmation EXCEPT !.status = status]]
    /\ invocations'[a].confirmation = invocations[a].confirmation

Consumes(a) ==
    /\ Request(a).op = "confirm" /\ PutsBack(a, "CONSUMED")
    /\ confirmationSessionCheck(invocations[a].confirmation)
    /\ invocations'[a].stage \in {"enqueue", "refused"}
    /\ invocations'[a].stage = "enqueue" =>
         invocations'[a].item = items[invocations[a].confirmation.session]

Cancels(a) ==
    /\ Request(a).op = "cancel" /\ PutsBack(a, "CANCELLED")
    /\ invocations'[a].stage \in {"answered", "refused"}

Rests(a) ==
    /\ UNCHANGED <<slot, queue>> /\ invocations'[a].stage \in {"answered", "refused"}
    /\ Stays(a)

LEMMA ConfirmationEffect ==
    ASSUME TypeInv, NEW a \in Attempts, Confirmation(a)
    PROVE  /\ Request(a).op \in {"ask", "confirm", "cancel"}
           /\ UNCHANGED <<situation, items, claims, records>>
           /\ invocations'[a].answer = invocations[a].answer
           /\ Others(a)
           /\ \/ Asks(a) \/ Puts(a) \/ Reads(a) \/ Consumes(a) \/ Cancels(a) \/ Rests(a)
              \/ /\ Request(a).op = "confirm"
                 /\ Sends(a, Envelope(invocations[a].confirmation.kind,
                                      invocations[a].confirmation.session,
                                      invocations[a].confirmation.id))
           /\ TypeInv'
<1> DEFINE i == invocations[a]
           c == i.confirmation
           o == Request(a).owner
<1>1. /\ Request(a).op \in {"ask", "confirm", "cancel"} /\ Request(a).key \in Keys
      /\ o \in Owners /\ (Request(a).op = "ask" => Request(a).target \in Stored)
      /\ UNCHANGED <<situation, items, claims, records>>
  <2>1. /\ Request(a).op \in {"ask", "confirm", "cancel"}
        /\ UNCHANGED <<situation, items, claims, records>>
    BY DEF Confirmation, RequestConfirmation, CreateConfirmation, ReadConfirmation,
           ConsumeConfirmation, Confirm, CancelConfirmation, At, Refuse, Enqueue, table
  <2>2. QED
    BY <2>1, RequestFacts DEF Requests
<1>2. i \in Invocations(i.copy, c.life) /\ c \in Confirmations(c.life)
  BY DEF TypeInv, InvocationOK, Invocations
<1>3. CASE Refuse(a)
  BY <1>1, <1>3, Refusing, TypeKept DEF Rests, tables
<1>4. CASE RequestConfirmation(a) /\ ~Refuse(a)
  <2> DEFINE s == Request(a).target
             new == NewConfirmation(a, s)
             j == [i EXCEPT !.stage = "put", !.confirmation = new]
  <2>1. /\ UNCHANGED tables /\ invocations' = [invocations EXCEPT ![a] = j]
        /\ CanAsk(a, s) /\ Request(a).op = "ask" /\ i.stage = "idle"
    BY <1>4 DEF RequestConfirmation, tables, table, At
  <2>2. new \in Confirmations(sessions[s].life) /\ new.life = sessions[s].life
    <3>1. Request(a).kind \in STRING /\ items[s].version \in Nat /\ s \in Stored
      BY <1>1, <2>1, RequestFacts DEF Requests, TypeInv, Items
    <3>2. QED
      BY <1>1, <3>1 DEF NewConfirmation, Confirmations, KindNames
  <2> HIDE DEF new
  <2>3. /\ j \in Invocations(i.copy, sessions[s].life)
        /\ j.stage = "put" /\ j.copy = i.copy /\ j.confirmation = new /\ j.answer = i.answer
    BY <1>2, <2>2 DEF Invocations, Stages
  <2>4. InvocationOK(j)
    BY <2>2, <2>3 DEF InvocationOK
  <2>5. invocations'[a] = j /\ Others(a) /\ InvocationsOK'
    BY <2>1, <2>4, Updating
  <2>6. QED
    BY <1>1, <2>1, <2>3, <2>5, TypeKept DEF Asks, new, tables
<1>5. CASE CreateConfirmation(a) /\ ~Refuse(a)
  <2>1. Request(a).op = "ask" /\ i.stage = "put" /\ Go(a, "answered") /\ UNCHANGED queue
    BY <1>5 DEF CreateConfirmation, At, table
  <2>2. invocations'[a].stage = "answered" /\ Stays(a) /\ i.answer = invocations'[a].answer
        /\ Others(a) /\ InvocationsOK'
    BY <2>1, Going DEF Stages
  <2>3. CASE SlotIsFree(slot[o], c) /\ confirmationSessionCheck(c)
    <3>1. slot' = [slot EXCEPT ![o] = c]
      BY <1>5, <2>3 DEF CreateConfirmation
    <3>2. slot' = [p \in Owners |-> slot'[p]] /\ \A p \in Owners : slot'[p] \in Confirmations(slot'[p].life)
      BY <1>1, <1>2, <3>1 DEF TypeInv
    <3>3. QED
      BY <1>1, <2>1, <2>2, <2>3, <3>1, <3>2 DEF Puts, TypeInv, InvocationsOK
  <2>4. CASE ~(SlotIsFree(slot[o], c) /\ confirmationSessionCheck(c))
    <3>1. UNCHANGED tables
      BY <1>5, <2>4 DEF CreateConfirmation, tables, table
    <3>2. QED
      BY <1>1, <2>2, <3>1, TypeKept DEF Rests, tables
  <2>5. QED
    BY <2>3, <2>4
<1>6. CASE ReadConfirmation(a) /\ ~Refuse(a)
  <2> DEFINE d == slot[o]
             j == [i EXCEPT !.stage = "put", !.confirmation = d]
  <2>1. /\ UNCHANGED tables /\ invocations' = [invocations EXCEPT ![a] = j]
        /\ CheckPending(d) /\ Request(a).op \in {"confirm", "cancel"} /\ i.stage = "idle"
    BY <1>6 DEF ReadConfirmation, tables, table
  <2>2. d \in Confirmations(d.life)
    BY <1>1 DEF TypeInv
  <2>3. /\ j \in Invocations(i.copy, d.life)
        /\ j.stage = "put" /\ j.copy = i.copy /\ j.confirmation = d /\ j.answer = i.answer
    BY <1>2, <2>2 DEF Invocations, Stages
  <2>4. InvocationOK(j)
    BY <2>3 DEF InvocationOK
  <2>5. invocations'[a] = j /\ Others(a) /\ InvocationsOK'
    BY <2>1, <2>4, Updating
  <2>6. QED
    BY <1>1, <2>1, <2>3, <2>5, TypeKept DEF Reads, tables
<1>7. ASSUME NEW status \in {"CONSUMED", "CANCELLED"},
             slot' = [slot EXCEPT ![o] = [c EXCEPT !.status = status]]
      PROVE  /\ slot' = [p \in Owners |-> slot'[p]]
             /\ \A p \in Owners : slot'[p] \in Confirmations(slot'[p].life)
  <2>1. [c EXCEPT !.status = status] \in Confirmations(c.life)
        /\ [c EXCEPT !.status = status].life = c.life
    BY <1>2 DEF Confirmations
  <2>2. QED
    BY <1>1, <1>7, <2>1 DEF TypeInv
<1>8. CASE ConsumeConfirmation(a) /\ ~Refuse(a)
  <2>1. /\ Request(a).op = "confirm" /\ i.stage = "put" /\ CanConsume(a)
        /\ slot' = [slot EXCEPT ![o] = [c EXCEPT !.status = "CONSUMED"]] /\ UNCHANGED queue
    BY <1>8 DEF ConsumeConfirmation, At
  <2>2. /\ invocations'[a].stage \in {"enqueue", "refused"}
        /\ invocations'[a].stage = "enqueue" => invocations'[a].item = items[c.session]
        /\ invocations'[a].confirmation = c /\ invocations'[a].answer = i.answer
        /\ Others(a) /\ InvocationsOK'
    <3>1. CASE Go(a, "refused")
      BY <3>1, Going DEF Stages, Stays
    <3>2. CASE ~Go(a, "refused")
      <4> DEFINE stage == IF CanBegin(sessions[c.session], c.kind) THEN "enqueue" ELSE "refused"
                 j == [i EXCEPT !.stage = stage, !.item = items[c.session]]
      <4>1. invocations' = [invocations EXCEPT ![a] = j]
        BY <1>8, <3>2, <2>1 DEF ConsumeConfirmation
      <4>2. stage \in {"enqueue", "refused"}
        OBVIOUS
      <4> HIDE DEF stage
      <4>3. items[c.session] \in Items
        BY <1>2, <2>1 DEF CanConsume, confirmationSessionCheck, Confirmations, TypeInv
      <4>4. /\ j \in Invocations(i.copy, c.life) /\ j.stage = stage
            /\ j.copy = i.copy /\ j.confirmation = c /\ j.answer = i.answer
            /\ j.item = items[c.session]
        BY <1>2, <4>2, <4>3 DEF Invocations, Stages
      <4>5. InvocationOK(j)
        BY <4>4 DEF InvocationOK
      <4>6. invocations'[a] = j /\ Others(a) /\ InvocationsOK'
        BY <4>1, <4>5, Updating
      <4>7. QED
        BY <4>2, <4>4, <4>6
    <3>3. QED
      BY <3>1, <3>2
  <2>3. QED
    BY <1>1, <1>7, <2>1, <2>2 DEF Consumes, PutsBack, CanConsume, TypeInv, InvocationsOK
<1>9. CASE Confirm(a)
  <2>1. Envelope(c.kind, c.session, c.id) \in Commands
    BY <1>2 DEF Envelope, Commands, Confirmations
  <2>2. /\ i.stage = "enqueue" /\ Request(a).op = "confirm"
        /\ Enqueue(a, Envelope(c.kind, c.session, c.id))
    BY <1>9 DEF Confirm, At
  <2>3. QED
    BY <1>1, <2>1, <2>2, Sending
<1>10. CASE CancelConfirmation(a) /\ ~Refuse(a)
  <2>1. /\ Request(a).op = "cancel" /\ i.stage = "put" /\ slot[o].status = "PENDING"
        /\ slot' = [slot EXCEPT ![o] = [c EXCEPT !.status = "CANCELLED"]] /\ UNCHANGED queue
        /\ \E stage \in {"answered", "refused"} : Go(a, stage)
    BY <1>10 DEF CancelConfirmation, At
  <2>2. /\ invocations'[a].stage \in {"answered", "refused"} /\ Stays(a)
        /\ invocations'[a].answer = i.answer /\ Others(a) /\ InvocationsOK'
    BY <2>1, Going DEF Stages
  <2>3. QED
    BY <1>1, <1>7, <2>1, <2>2 DEF Cancels, PutsBack, Stays, TypeInv, InvocationsOK
<1>11. QED
  BY <1>3, <1>4, <1>5, <1>6, <1>8, <1>9, <1>10 DEF Confirmation

-----------------------------------------------------------------------------
(* What workflows and time do *)

\* A command is for a session that is there.
CommandsKnown ==
    \A k \in Keys : queue[k] # NoCommand => queue[k].session \in Stored /\ Exists(queue[k].session)

Background ==
    \/ \E o \in Owners : Expire(o)
    \/ \E k \in Keys : TakeCommand(k)
    \/ \E s \in Stored : EndWorkflow(s)

Bumps(s) == Exists(s) /\ items' = [items EXCEPT ![s].version = items[s].version + 1]

Expires(o) ==
    /\ slot[o] # NoConfirmation /\ slot' = [slot EXCEPT ![o].expired = TRUE]
    /\ \A a \in Attempts : invocations[a].stage # "put"

CommandKept(k) ==
    /\ queue'[k].kind = queue[k].kind /\ queue'[k].session = queue[k].session
    /\ queue'[k].confirmation = queue[k].confirmation
    /\ queue'[k] # NoCommand => queue[k] # NoCommand

LEMMA BackgroundEffect ==
    ASSUME TypeInv, CommandsKnown, Background
    PROVE  /\ UNCHANGED <<situation, claims, records, invocations, cancelled>>
           /\ UNCHANGED items \/ \E s \in Stored : Bumps(s)
           /\ UNCHANGED slot \/ \E o \in Owners : Expires(o)
           /\ \A k \in Keys : CommandKept(k)
           /\ TypeInv'
<1>1. ASSUME NEW s \in Stored, Bumps(s) PROVE items' \in [Stored -> Items]
  <2>1. items[s] \in Items /\ items[s].version + 1 \in Nat
    BY DEF TypeInv, Items
  <2>2. [items[s] EXCEPT !.version = items[s].version + 1] \in Items
    BY <2>1 DEF Items
  <2>3. QED
    BY <1>1, <2>2 DEF Bumps, TypeInv
<1>2. CASE \E o \in Owners : Expire(o)
  <2>1. PICK o \in Owners : Expire(o)
    BY <1>2
  <2>2. Expires(o) /\ UNCHANGED <<situation, items, claims, records, invocations, queue, cancelled>>
    BY <2>1 DEF Expire, Expires
  <2>3. [slot[o] EXCEPT !.expired = TRUE] \in Confirmations(slot[o].life)
        /\ [slot[o] EXCEPT !.expired = TRUE].life = slot[o].life
    BY DEF TypeInv, Confirmations
  <2>4. slot' = [p \in Owners |-> slot'[p]] /\ \A p \in Owners : slot'[p] \in Confirmations(slot'[p].life)
    BY <2>2, <2>3 DEF TypeInv, Expires
  <2>5. QED
    BY <2>2, <2>4 DEF TypeInv, CommandKept
<1>3. CASE \E k \in Keys : TakeCommand(k)
  <2>1. PICK k \in Keys : TakeCommand(k)
    BY <1>3
  <2>2. /\ UNCHANGED <<situation, claims, records, slot, invocations, cancelled>>
        /\ queue[k] # NoCommand /\ queue' = [queue EXCEPT ![k].handled = TRUE]
    BY <2>1 DEF TakeCommand
  <2>3. queue' \in [Keys -> Commands]
    <3>1. [queue[k] EXCEPT !.handled = TRUE] \in Commands
      BY DEF TypeInv, Commands
    <3>2. QED
      BY <2>2, <3>1 DEF TypeInv
  <2>4. \A l \in Keys : CommandKept(l)
    BY <2>2 DEF TypeInv, Commands, CommandKept
  <2>5. UNCHANGED items \/ Bumps(queue[k].session)
    BY <2>1, <2>2 DEF TakeCommand, Store, CommandsKnown, Bumps
  <2>6. queue[k].session \in Stored
    BY <2>2 DEF CommandsKnown
  <2>7. items' \in [Stored -> Items]
    BY <1>1, <2>5, <2>6 DEF TypeInv
  <2>8. QED
    BY <2>2, <2>3, <2>4, <2>5, <2>6, <2>7 DEF TypeInv
<1>4. CASE \E s \in Stored : EndWorkflow(s)
  <2>1. PICK s \in Stored : EndWorkflow(s)
    BY <1>4
  <2>2. Bumps(s) /\ UNCHANGED <<situation, claims, records, slot, invocations, queue, cancelled>>
    BY <2>1 DEF EndWorkflow, Store, Bumps
  <2>3. items' \in [Stored -> Items]
    BY <1>1, <2>2
  <2>4. QED
    BY <2>2, <2>3 DEF TypeInv, CommandKept
<1>5. QED
  BY <1>2, <1>3, <1>4 DEF Background

-----------------------------------------------------------------------------
(* Items: owner and slug stay, and the version tells one content from another *)

Remembered(a, s) ==
    /\ s \in Stored /\ Exists(s)
    /\ invocations[a].item.owner = items[s].owner /\ invocations[a].item.slug = items[s].slug
    /\ invocations[a].item.version <= items[s].version
    /\ invocations[a].item.version = items[s].version => invocations[a].item = items[s]

Remembers ==
    \A a \in Attempts : At(a, "edit", "save") => Remembered(a, invocations[a].session)

ItemsStep ==
    \A s \in Stored : Exists(s) =>
        /\ items'[s].owner = items[s].owner /\ items'[s].slug = items[s].slug
        /\ items[s].version <= items'[s].version
        /\ items'[s].version = items[s].version => items'[s] = items[s]

LEMMA RemembersTarget == Remembers => SaveTarget
BY DEF Remembers, Remembered, SaveTarget

\* Every step is that of an invocation or of the background.
LEMMA StepCases ==
    ASSUME Next
    PROVE  \/ \E a \in Attempts : Creation(a)
           \/ \E a \in Attempts : Edit(a)
           \/ \E a \in Attempts : Lifecycle(a)
           \/ \E a \in Attempts : Confirmation(a)
           \/ Background
BY DEF Next, Background

LEMMA ItemsKeep ==
    ASSUME TypeInv, Remembers, CommandsKnown, Next
    PROVE  ItemsStep
<1>1. \A s \in Stored : items[s].version \in Nat
  BY DEF TypeInv, Items
<1>2. CASE UNCHANGED items
  BY <1>1, <1>2 DEF ItemsStep
<1>3. ASSUME NEW a \in Attempts, Creates(a) PROVE ItemsStep
  <2>1. ~Exists(a) /\ \A s \in Stored \ {a} : items'[s] = items[s]
    BY <1>3 DEF Creates, CanCreate, TypeInv
  <2>2. QED
    BY <1>1, <2>1 DEF ItemsStep
<1>4. ASSUME NEW a \in Attempts, Request(a).op = "edit", Saves(a) PROVE ItemsStep
  <2> DEFINE i == invocations[a]
  <2>1. Remembered(a, i.session) /\ i.item.version = items[i.session].version
    BY <1>4 DEF Saves, CanSave, Remembers, At
  <2>2. i.item = items[i.session] /\ i.session \in Stored
    BY <2>1 DEF Remembered
  <2>3. /\ \A s \in Stored \ {i.session} : items'[s] = items[s]
        /\ items'[i.session] = [items[i.session] EXCEPT
                                  !.version = items[i.session].version + 1,
                                  !.edits = Append(items[i.session].edits, Request(a).key)]
    BY <1>4, <2>2 DEF Saves, TypeInv
  <2>4. /\ items'[i.session].version = items[i.session].version + 1
        /\ items'[i.session].owner = items[i.session].owner
        /\ items'[i.session].slug = items[i.session].slug
    BY <2>2, <2>3 DEF TypeInv, Items
  <2>5. PICK t \in Stored : t = i.session
    BY <2>2
  <2>6. /\ \A s \in Stored \ {t} : items'[s] = items[s]
        /\ items'[t].version = items[t].version + 1
        /\ items'[t].owner = items[t].owner /\ items'[t].slug = items[t].slug
    BY <2>3, <2>4, <2>5
  <2>7. QED
    BY <1>1, <2>6 DEF ItemsStep
<1>5. ASSUME NEW s \in Stored, Bumps(s) PROVE ItemsStep
  <2>1. /\ \A t \in Stored \ {s} : items'[t] = items[t]
        /\ items'[s].version = items[s].version + 1
        /\ items'[s].owner = items[s].owner /\ items'[s].slug = items[s].slug
    BY <1>5 DEF Bumps, TypeInv, Items
  <2>2. QED
    BY <1>1, <2>1 DEF ItemsStep
<1>6. QED
  BY <1>2, <1>3, <1>4, <1>5, StepCases, CreationEffect, EditEffect, LifecycleEffect,
     ConfirmationEffect, BackgroundEffect, RemembersTarget DEF Scanned, Loads

LEMMA RemembersStep ==
    ASSUME TypeInv, Remembers, CommandsKnown, Next
    PROVE  Remembers'
<1> SUFFICES ASSUME NEW b \in Attempts, At(b, "edit", "save")'
             PROVE  Remembered(b, invocations[b].session)'
  BY DEF Remembers
<1>1. ItemsStep /\ SaveTarget
  BY ItemsKeep, RemembersTarget
<1>2. UNCHANGED situation
  BY StepCases, CreationEffect, EditEffect, LifecycleEffect, ConfirmationEffect,
     BackgroundEffect, <1>1
<1>3. Request(b).op = "edit" /\ invocations'[b].stage = "save"
  BY <1>2 DEF At, Request
<1>4. CASE invocations'[b] = invocations[b]
  <2> DEFINE s == invocations[b].session
  <2>1. Remembered(b, s)
    BY <1>3, <1>4 DEF Remembers, At
  <2>2. invocations[b].item.version \in Nat /\ items[s].version \in Nat
    BY <2>1 DEF Remembered, TypeInv, InvocationOK, Invocations, Items
  <2>3. items'[s].version \in Nat
    BY <2>1, StepCases, CreationEffect, EditEffect, LifecycleEffect, ConfirmationEffect,
       BackgroundEffect, <1>1 DEF Remembered, TypeInv, Items
  <2>4. /\ items'[s].owner = items[s].owner /\ items'[s].slug = items[s].slug
        /\ items[s].version <= items'[s].version /\ Exists(s)
        /\ items'[s].version = items[s].version => items'[s] = items[s]
    BY <1>1, <2>1 DEF ItemsStep, Remembered
  <2>5. items'[s].version # 0
    BY <2>2, <2>3, <2>4 DEF Exists
  <2>6. QED
    BY <1>4, <2>1, <2>2, <2>3, <2>4, <2>5 DEF Remembered, Exists
<1>5. CASE invocations'[b] # invocations[b]
  <2>1. Edit(b)
    BY <1>3, <1>5, StepCases, CreationEffect, EditEffect, LifecycleEffect, ConfirmationEffect,
       BackgroundEffect, <1>1 DEF Others
  <2>2. Loads(b)
    BY <1>1, <1>3, <2>1, EditEffect DEF Saves
  <2>3. invocations'[b].item.version \in Nat
    BY <1>1, <2>1, EditEffect DEF TypeInv, InvocationOK, Invocations, Items
  <2>4. QED
    BY <1>3, <2>2, <2>3 DEF Loads, Remembered, Exists
<1>6. QED
  BY <1>4, <1>5

-----------------------------------------------------------------------------
(* Confirmations: where they come from *)

\* The delivery that put this confirmation has nothing left to do.
PutBy(a, o, c) ==
    /\ Request(a).op = "ask" /\ Request(a).owner = o /\ Request(a).key = c.id
    /\ Request(a).target = c.session /\ Request(a).kind = c.kind
    /\ invocations[a].stage \notin {"idle", "put"}
    /\ invocations[a].confirmation.version = c.version

Concerns(o, c) ==
    /\ c.session \in Stored /\ Exists(c.session) /\ items[c.session].owner = o
    /\ c.version <= items[c.session].version

WasPut(o, c) == Concerns(o, c) /\ \E a \in Attempts : PutBy(a, o, c)

\* The interaction behind a destructive command.
StemsFrom(a, k) ==
    /\ Request(a).op = "ask" /\ Request(a).key = queue[k].confirmation
    /\ Request(a).target = queue[k].session /\ Request(a).kind = queue[k].kind
    /\ Request(a).owner = items[queue[k].session].owner
    /\ invocations[a].stage \notin {"idle", "put"}

Asked(a) ==
    /\ Concerns(Request(a).owner, invocations[a].confirmation)
    /\ invocations[a].confirmation.id = Request(a).key
    /\ invocations[a].confirmation.session = Request(a).target
    /\ invocations[a].confirmation.kind = Request(a).kind

AskedInv == \A a \in Attempts : At(a, "ask", "put") => Asked(a)

SlotInv == \A o \in Owners : slot[o] = NoConfirmation \/ WasPut(o, slot[o])

HeldInv ==
    \A a \in Attempts :
        Request(a).op \in {"confirm", "cancel"} /\ invocations[a].stage \in {"put", "enqueue"} =>
            WasPut(Request(a).owner, invocations[a].confirmation)

AdmittedInv ==
    \A a \in Attempts : At(a, "lifecycle", "enqueue") =>
        /\ invocations[a].session \in Stored /\ Exists(invocations[a].session)
        /\ invocations[a].kind \notin Destructive

QueueInv ==
    \A k \in Keys :
        /\ queue[k].kind \in Destructive => queue[k].confirmation # NoWorkflow
        /\ queue[k].confirmation # NoWorkflow => \E a \in Attempts : StemsFrom(a, k)

ConsumedInv ==
    \A a \in Attempts : At(a, "confirm", "enqueue") =>
        invocations[a].item.version = invocations[a].confirmation.version

CommandInv ==
    /\ TypeInv /\ Remembers /\ CommandsKnown
    /\ AskedInv /\ SlotInv /\ HeldInv /\ AdmittedInv /\ QueueInv /\ ConsumedInv

\* All the ways in which a step may be taken, with what it does.
LEMMA StepEffect ==
    ASSUME CommandInv, Next
    PROVE  /\ UNCHANGED situation /\ TypeInv' /\ ItemsStep /\ Remembers'
           /\ \/ \E a \in Attempts : Request(a).op = "create" /\ Others(a) /\ Creation(a)
              \/ \E a \in Attempts : Request(a).op = "edit" /\ Others(a) /\ Edit(a)
              \/ \E a \in Attempts : Request(a).op = "lifecycle" /\ Others(a) /\ Lifecycle(a)
              \/ \E a \in Attempts : /\ Request(a).op \in {"ask", "confirm", "cancel"}
                                     /\ Others(a) /\ Confirmation(a)
              \/ Background /\ UNCHANGED invocations
<1>1. TypeInv /\ Remembers /\ SaveTarget /\ CommandsKnown
  BY RemembersTarget DEF CommandInv
<1>2. QED
  BY <1>1, StepCases, ItemsKeep, RemembersStep, CreationEffect, EditEffect, LifecycleEffect,
     ConfirmationEffect, BackgroundEffect

LEMMA ConcernStays ==
    ASSUME CommandInv, Next, NEW o, NEW c, c.version \in Nat, Concerns(o, c)
    PROVE  Concerns(o, c)'
<1>1. ItemsStep /\ TypeInv'
  BY StepEffect
<1>2. c.session \in Stored /\ items[c.session].version \in Nat /\ items'[c.session].version \in Nat
  BY <1>1 DEF Concerns, CommandInv, TypeInv, Items
<1>3. /\ items'[c.session].owner = items[c.session].owner
      /\ items[c.session].version <= items'[c.session].version
  BY <1>1 DEF Concerns, ItemsStep
<1>4. QED
  BY <1>2, <1>3 DEF Concerns, Exists

LEMMA AskerRests ==
    ASSUME CommandInv, Next, NEW a \in Attempts, Request(a).op = "ask",
           invocations[a].stage \notin {"idle", "put"}
    PROVE  /\ invocations'[a].stage \notin {"idle", "put"}
           /\ invocations'[a].confirmation = invocations[a].confirmation
<1>1. CASE invocations'[a] = invocations[a]
  BY <1>1
<1>2. CASE invocations'[a] # invocations[a]
  <2>1. Confirmation(a)
    BY <1>2, StepEffect DEF Others
  <2>2. QED
    BY <2>1, ConfirmationEffect
       DEF CommandInv, Asks, Puts, Reads, Consumes, Cancels, Rests, Stays
<1>3. QED
  BY <1>1, <1>2

LEMMA PutStays ==
    ASSUME CommandInv, Next, NEW o, NEW c, NEW a \in Attempts, PutBy(a, o, c)
    PROVE  PutBy(a, o, c)'
BY StepEffect, AskerRests DEF PutBy, Request

LEMMA WasPutStays ==
    ASSUME CommandInv, Next, NEW o, NEW c, c.version \in Nat, WasPut(o, c)
    PROVE  WasPut(o, c)'
BY ConcernStays, PutStays DEF WasPut

LEMMA Versions ==
    ASSUME TypeInv
    PROVE  /\ \A a \in Attempts : invocations[a].confirmation.version \in Nat
           /\ \A o \in Owners : slot[o].version \in Nat
           /\ \A s \in Stored : items[s].version \in Nat
BY DEF TypeInv, InvocationOK, Invocations, Confirmations, Items

LEMMA AskedStep == CommandInv /\ Next => AskedInv'
<1> SUFFICES ASSUME CommandInv, Next, NEW b \in Attempts, At(b, "ask", "put")'
             PROVE  Asked(b)'
  BY DEF AskedInv
<1>1. /\ UNCHANGED situation /\ TypeInv /\ Request(b).op = "ask"
      /\ invocations'[b].stage = "put"
  BY StepEffect DEF At, Request, CommandInv
<1>2. PICK o : o = Request(b).owner
  OBVIOUS
<1>3. PICK d : d = invocations'[b].confirmation
  OBVIOUS
<1>4. SUFFICES /\ Concerns(o, d)' /\ d.id = Request(b).key /\ d.session = Request(b).target
               /\ d.kind = Request(b).kind
  BY <1>1, <1>2, <1>3 DEF Asked, Request, Concerns
<1>5. CASE invocations'[b] = invocations[b]
  <2>1. /\ Concerns(o, d) /\ d.version \in Nat /\ d.id = Request(b).key
        /\ d.session = Request(b).target /\ d.kind = Request(b).kind
    BY <1>1, <1>2, <1>3, <1>5, Versions DEF CommandInv, AskedInv, Asked, At
  <2>2. QED
    BY <2>1, ConcernStays
<1>6. CASE invocations'[b] # invocations[b]
  <2>1. Confirmation(b)
    BY <1>1, <1>6, StepEffect DEF Others
  <2>2. Asks(b) /\ UNCHANGED items
    BY <1>1, <2>1, ConfirmationEffect DEF CommandInv, Puts, Reads, Consumes, Cancels, Rests
  <2>3. items[Request(b).target].version \in Nat /\ Request(b).target \in Stored
    BY <1>1, Versions, RequestFacts
  <2>4. d = NewConfirmation(b, Request(b).target) /\ CanAsk(b, Request(b).target)
    BY <1>3, <2>2 DEF Asks
  <2>5. QED
    BY <1>2, <2>2, <2>3, <2>4 DEF CanAsk, NewConfirmation, Concerns, Exists
<1>7. QED
  BY <1>5, <1>6

\* Neither the status nor the age of a confirmation says where it comes from.
LEMMA WasPutFields ==
    ASSUME NEW o, NEW c, NEW d, d.id = c.id, d.session = c.session, d.kind = c.kind,
           d.version = c.version, WasPut(o, c)'
    PROVE  WasPut(o, d)'
BY DEF WasPut, PutBy, Concerns

LEMMA PutsBackWasPut ==
    ASSUME CommandInv, Next, NEW a \in Attempts, Request(a).op \in {"confirm", "cancel"},
           NEW status \in {"CONSUMED", "CANCELLED"}, PutsBack(a, status),
           NEW d, d = [invocations[a].confirmation EXCEPT !.status = status]
    PROVE  /\ WasPut(Request(a).owner, d)' /\ d.id = invocations[a].confirmation.id
           /\ d.version = invocations[a].confirmation.version
           /\ d.session = invocations[a].confirmation.session
           /\ d.status = status
<1>1. PICK c : c = invocations[a].confirmation
  OBVIOUS
<1>2. PICK o : o = Request(a).owner
  OBVIOUS
<1>3. c \in Confirmations(c.life) /\ TypeInv
  BY <1>1 DEF CommandInv, TypeInv, InvocationOK, Invocations
<1>4. /\ d.id = c.id /\ d.session = c.session /\ d.kind = c.kind
      /\ d.version = c.version /\ d.status = status
  BY <1>1, <1>3 DEF Confirmations
<1>5. WasPut(o, c) /\ c.version \in Nat
  BY <1>1, <1>2, <1>3, Versions DEF CommandInv, HeldInv, PutsBack
<1>6. WasPut(o, d)'
  BY <1>4, <1>5, WasPutStays, WasPutFields
<1>7. QED
  BY <1>1, <1>2, <1>4, <1>6, StepEffect DEF Request, WasPut, PutBy, Concerns

LEMMA SlotStep == CommandInv /\ Next => SlotInv'
<1> SUFFICES ASSUME CommandInv, Next, NEW p \in Owners, slot'[p] # NoConfirmation
             PROVE  WasPut(p, slot[p])'
  BY DEF SlotInv
<1>1. TypeInv /\ CommandsKnown
  BY DEF CommandInv
<1>2. PICK c : c = slot[p]
  OBVIOUS
<1>3. PICK d : d = slot'[p]
  OBVIOUS
<1>4. SUFFICES WasPut(p, d)'
  BY <1>3 DEF WasPut, PutBy, Concerns
<1>5. CASE UNCHANGED slot
  <2>1. d = c /\ WasPut(p, c) /\ c.version \in Nat
    BY <1>1, <1>2, <1>3, <1>5, Versions DEF CommandInv, SlotInv
  <2>2. QED
    BY <2>1, WasPutStays
<1>6. ASSUME NEW a \in Attempts, Request(a).owner \in Owners, Request(a).owner # p,
             NEW x, slot' = [slot EXCEPT ![Request(a).owner] = x]
      PROVE  WasPut(p, d)'
  <2>1. d = c /\ WasPut(p, c) /\ c.version \in Nat
    BY <1>1, <1>2, <1>3, <1>6, Versions DEF CommandInv, SlotInv, TypeInv
  <2>2. QED
    BY <2>1, WasPutStays
<1>7. ASSUME NEW a \in Attempts, Puts(a) PROVE WasPut(p, d)'
  <2>1. Request(a).owner \in Owners
    BY <1>1, RequestFacts DEF Requests
  <2>2. PICK e : e = invocations[a].confirmation
    OBVIOUS
  <2>3. slot' = [slot EXCEPT ![Request(a).owner] = e]
    BY <1>7, <2>2 DEF Puts
  <2>4. CASE Request(a).owner = p
    <3>1. d = e
      BY <1>1, <1>3, <2>1, <2>3, <2>4 DEF TypeInv
    <3>2. /\ Concerns(p, e) /\ e.id = Request(a).key /\ e.session = Request(a).target
          /\ e.kind = Request(a).kind /\ e.version \in Nat /\ Request(a).op = "ask"
      BY <1>1, <1>7, <2>2, <2>4, Versions DEF Puts, CommandInv, AskedInv, Asked, At
    <3>3. Concerns(p, e)'
      BY <3>2, ConcernStays
    <3>4. invocations'[a].stage = "answered" /\ invocations'[a].confirmation = e
      BY <1>7, <2>2 DEF Puts, Stays
    <3>5. PutBy(a, p, e)'
      BY <2>4, <3>2, <3>4, StepEffect DEF PutBy, Request
    <3>6. QED
      BY <3>1, <3>3, <3>5 DEF WasPut
  <2>5. CASE Request(a).owner # p
    BY <1>6, <2>1, <2>3, <2>5
  <2>6. QED
    BY <2>4, <2>5
<1>8. ASSUME NEW a \in Attempts, Request(a).op \in {"confirm", "cancel"},
             NEW status \in {"CONSUMED", "CANCELLED"}, PutsBack(a, status)
      PROVE  WasPut(p, d)'
  <2>1. Request(a).owner \in Owners
    BY <1>1, RequestFacts DEF Requests
  <2>2. PICK e : e = [invocations[a].confirmation EXCEPT !.status = status]
    OBVIOUS
  <2>3. slot' = [slot EXCEPT ![Request(a).owner] = e]
    BY <1>8, <2>2 DEF PutsBack
  <2>4. CASE Request(a).owner = p
    <3>1. d = e
      BY <1>1, <1>3, <2>1, <2>3, <2>4 DEF TypeInv
    <3>2. WasPut(Request(a).owner, e)'
      BY <1>8, <2>2, PutsBackWasPut
    <3>3. QED
      BY <2>4, <3>1, <3>2, StepEffect DEF Request, WasPut, PutBy, Concerns
  <2>5. CASE Request(a).owner # p
    BY <1>6, <2>1, <2>3, <2>5
  <2>6. QED
    BY <2>4, <2>5
<1>9. ASSUME NEW o \in Owners, Expires(o) PROVE WasPut(p, d)'
  <2>1. c \in Confirmations(c.life) /\ c.version \in Nat
    BY <1>1, <1>2, Versions DEF TypeInv
  <2>2. /\ d.id = c.id /\ d.session = c.session /\ d.kind = c.kind /\ d.version = c.version
        /\ c # NoConfirmation
    BY <1>1, <1>2, <1>3, <1>9, <2>1 DEF Expires, TypeInv, Confirmations
  <2>3. WasPut(p, c)
    BY <1>2, <2>2 DEF CommandInv, SlotInv
  <2>4. QED
    BY <2>1, <2>2, <2>3, WasPutStays, WasPutFields
<1>10. QED
  <2>1. ASSUME NEW a \in Attempts, Confirmation(a) PROVE WasPut(p, d)'
    <3>1. CASE Consumes(a) \/ Cancels(a)
      BY <1>8, <3>1 DEF Consumes, Cancels
    <3>2. CASE Asks(a) \/ Reads(a) \/ Rests(a)
      BY <1>5, <3>2 DEF Asks, Reads, Rests
    <3>3. ASSUME NEW command, Sends(a, command), Confirmation(a) PROVE UNCHANGED slot
      BY <3>3 DEF Confirmation, Sends, RequestConfirmation, CreateConfirmation,
                  ReadConfirmation, ConsumeConfirmation, Confirm, CancelConfirmation, At,
                  Refuse, Enqueue, table
    <3>4. QED
      BY <1>1, <1>5, <1>7, <2>1, <3>1, <3>2, <3>3, ConfirmationEffect
  <2>2. CASE Background
    BY <1>1, <1>5, <1>9, <2>2, BackgroundEffect
  <2>3. CASE \E a \in Attempts : Creation(a) \/ Edit(a) \/ Lifecycle(a)
    BY <1>1, <1>5, <2>3, CreationEffect, EditEffect, LifecycleEffect, RemembersTarget
       DEF CommandInv
  <2>4. QED
    BY <2>1, <2>2, <2>3, StepCases

LEMMA HeldStep == CommandInv /\ Next => HeldInv'
<1> SUFFICES ASSUME CommandInv, Next, NEW b \in Attempts,
                    (Request(b).op \in {"confirm", "cancel"})',
                    (invocations[b].stage \in {"put", "enqueue"})'
             PROVE  WasPut(Request(b).owner, invocations[b].confirmation)'
  BY DEF HeldInv
<1>1. /\ UNCHANGED situation /\ TypeInv /\ Request(b).op \in {"confirm", "cancel"}
      /\ invocations'[b].stage \in {"put", "enqueue"}
  BY StepEffect DEF Request, CommandInv
<1>2. PICK o : o = Request(b).owner
  OBVIOUS
<1>3. PICK d : d = invocations'[b].confirmation
  OBVIOUS
<1>4. SUFFICES WasPut(o, d)'
  BY <1>1, <1>2, <1>3 DEF WasPut, PutBy, Concerns, Request
<1>5. ASSUME d = invocations[b].confirmation, invocations[b].stage \in {"put", "enqueue"}
      PROVE  WasPut(o, d)'
  <2>1. WasPut(o, d) /\ d.version \in Nat
    BY <1>1, <1>2, <1>5, Versions DEF CommandInv, HeldInv
  <2>2. QED
    BY <2>1, WasPutStays
<1>6. CASE invocations'[b] = invocations[b]
  BY <1>1, <1>3, <1>5, <1>6
<1>7. CASE invocations'[b] # invocations[b]
  <2>1. Confirmation(b)
    BY <1>1, <1>7, StepEffect DEF Others
  <2>2. CASE Reads(b)
    <3>1. o \in Owners /\ d = slot[o] /\ slot[o].status = "PENDING"
      BY <1>1, <1>2, <1>3, <2>2, RequestFacts DEF Reads, CheckPending, Requests
    <3>2. WasPut(o, d) /\ d.version \in Nat
      BY <1>1, <3>1, Versions DEF CommandInv, SlotInv, NoConfirmation
    <3>3. QED
      BY <3>2, WasPutStays
  <2>3. CASE Consumes(b)
    BY <1>3, <1>5, <2>3 DEF Consumes, PutsBack
  <2>4. QED
    BY <1>1, <2>1, <2>2, <2>3, ConfirmationEffect DEF Asks, Puts, Cancels, Rests, Sends
<1>8. QED
  BY <1>6, <1>7

LEMMA ConsumedStep == CommandInv /\ Next => ConsumedInv'
<1> SUFFICES ASSUME CommandInv, Next, NEW b \in Attempts, At(b, "confirm", "enqueue")'
             PROVE  invocations'[b].item.version = invocations'[b].confirmation.version
  BY DEF ConsumedInv
<1>1. TypeInv /\ Request(b).op = "confirm" /\ invocations'[b].stage = "enqueue"
  BY StepEffect DEF At, Request, CommandInv
<1>2. CASE invocations'[b] = invocations[b]
  BY <1>1, <1>2 DEF CommandInv, ConsumedInv, At
<1>3. CASE invocations'[b] # invocations[b]
  <2>1. Confirmation(b)
    BY <1>1, <1>3, StepEffect DEF Others
  <2>2. Consumes(b)
    BY <1>1, <2>1, ConfirmationEffect DEF Asks, Puts, Reads, Cancels, Rests, Sends
  <2>3. QED
    BY <1>1, <2>2 DEF Consumes, PutsBack, confirmationSessionCheck
<1>4. QED
  BY <1>2, <1>3

LEMMA AdmittedStep == CommandInv /\ Next => AdmittedInv'
<1> SUFFICES ASSUME CommandInv, Next, NEW b \in Attempts, At(b, "lifecycle", "enqueue")'
             PROVE  /\ invocations'[b].session \in Stored
                    /\ items'[invocations'[b].session].version # 0
                    /\ invocations'[b].kind \notin Destructive
  BY DEF AdmittedInv, Exists
<1>1. /\ TypeInv /\ Request(b).op = "lifecycle" /\ invocations'[b].stage = "enqueue"
      /\ TypeInv' /\ ItemsStep
  BY StepEffect DEF At, Request, CommandInv
<1>2. \A s \in Stored : Exists(s) => items'[s].version # 0
  BY <1>1, Versions DEF ItemsStep, Exists, TypeInv, Items
<1>3. CASE invocations'[b] = invocations[b]
  BY <1>1, <1>2, <1>3 DEF CommandInv, AdmittedInv, At
<1>4. CASE invocations'[b] # invocations[b]
  <2>1. Lifecycle(b)
    BY <1>1, <1>4, StepEffect DEF Others
  <2>2. Admits(b)
    BY <1>1, <2>1, LifecycleEffect DEF Sends
  <2>3. QED
    BY <1>1, <1>2, <2>2 DEF Admits
<1>5. QED
  BY <1>3, <1>4

\* Each command: it was queued before, or it is sent now.
QueueStep(k) ==
    \/ CommandKept(k)
    \/ \E a \in Attempts :
         /\ Request(a).op = "lifecycle" /\ invocations[a].stage = "enqueue"
         /\ queue'[k] = Envelope(invocations[a].kind, invocations[a].session, NoWorkflow)
    \/ \E a \in Attempts :
         /\ Request(a).op = "confirm" /\ invocations[a].stage = "enqueue"
         /\ invocations'[a].stage # "enqueue"
         /\ Request(a).key = k /\ queue[k] = NoCommand
         /\ queue'[k] = Envelope(invocations[a].confirmation.kind,
                                 invocations[a].confirmation.session,
                                 invocations[a].confirmation.id)

LEMMA QueueSteps ==
    ASSUME CommandInv, Next, NEW k \in Keys
    PROVE  QueueStep(k)
<1>1. TypeInv /\ SaveTarget /\ CommandsKnown
  BY RemembersTarget DEF CommandInv
<1>2. CASE UNCHANGED queue
  BY <1>2 DEF QueueStep, CommandKept
<1>3. ASSUME NEW a \in Attempts, Request(a).op # "none", NEW command, Sends(a, command)
      PROVE  \/ queue'[k] = queue[k]
             \/ Request(a).key = k /\ queue[k] = NoCommand /\ queue'[k] = command
  <2>1. Request(a).key \in Keys
    BY <1>1, <1>3, RequestFacts
  <2>2. QED
    BY <1>1, <1>3, <2>1 DEF Sends, Enqueued, TypeInv
<1>4. ASSUME NEW a \in Attempts, Lifecycle(a) PROVE QueueStep(k)
  <2>1. CASE Admits(a)
    BY <1>2, <2>1 DEF Admits
  <2>2. CASE Sends(a, Envelope(invocations[a].kind, invocations[a].session, NoWorkflow))
    <3>1. Request(a).op = "lifecycle"
      BY <1>1, <1>4, LifecycleEffect
    <3>2. QED
      BY <1>3, <2>2, <3>1 DEF QueueStep, CommandKept, Sends
  <2>3. QED
    BY <1>1, <1>4, <2>1, <2>2, LifecycleEffect
<1>5. ASSUME NEW a \in Attempts, Confirmation(a) PROVE QueueStep(k)
  <2> DEFINE command == Envelope(invocations[a].confirmation.kind,
                                 invocations[a].confirmation.session,
                                 invocations[a].confirmation.id)
  <2>1. CASE Asks(a) \/ Puts(a) \/ Reads(a) \/ Rests(a)
    BY <1>2, <2>1 DEF Asks, Puts, Reads, Rests
  <2>2. CASE Consumes(a) \/ Cancels(a)
    BY <1>2, <2>2 DEF Consumes, Cancels, PutsBack
  <2>3. CASE Request(a).op = "confirm" /\ Sends(a, command)
    BY <1>3, <2>3 DEF QueueStep, CommandKept, Sends
  <2>4. QED
    BY <1>1, <1>5, <2>1, <2>2, <2>3, ConfirmationEffect
<1>6. CASE Background
  BY <1>1, <1>6, BackgroundEffect DEF QueueStep
<1>7. CASE \E a \in Attempts : Creation(a) \/ Edit(a)
  BY <1>1, <1>2, <1>7, CreationEffect, EditEffect
<1>8. QED
  BY <1>4, <1>5, <1>6, <1>7, StepCases

LEMMA QueueInvStep == CommandInv /\ Next => CommandsKnown' /\ QueueInv'
<1> SUFFICES ASSUME CommandInv, Next, NEW k \in Keys
             PROVE  (/\ queue[k] # NoCommand => /\ queue[k].session \in Stored
                                                /\ items[queue[k].session].version # 0
                     /\ queue[k].kind \in Destructive => queue[k].confirmation # NoWorkflow
                     /\ queue[k].confirmation # NoWorkflow =>
                          \E a \in Attempts : StemsFrom(a, k))'
  BY DEF CommandsKnown, QueueInv, Exists
<1>1. /\ TypeInv /\ CommandsKnown /\ QueueInv /\ TypeInv' /\ ItemsStep
      /\ UNCHANGED situation
  BY StepEffect DEF CommandInv
<1>2. \A s \in Stored : Exists(s) => items'[s].version # 0 /\ items'[s].owner = items[s].owner
  BY <1>1, Versions DEF ItemsStep, Exists, TypeInv, Items
<1>3. CASE CommandKept(k)
  <2>1. queue[k].confirmation # NoWorkflow => queue[k] # NoCommand
    BY DEF NoCommand
  <2>2. ASSUME queue[k].confirmation # NoWorkflow PROVE \E a \in Attempts : StemsFrom(a, k)'
    <3>1. PICK a \in Attempts : StemsFrom(a, k)
      BY <1>1, <2>2 DEF QueueInv
    <3>2. queue[k].session \in Stored /\ Exists(queue[k].session)
      BY <1>1, <2>1, <2>2 DEF CommandsKnown
    <3>3. invocations'[a].stage \notin {"idle", "put"}
      BY <3>1, AskerRests DEF StemsFrom
    <3>4. QED
      BY <1>1, <1>2, <1>3, <3>1, <3>2, <3>3 DEF StemsFrom, Request, CommandKept
  <2>3. QED
    BY <1>1, <1>2, <1>3, <2>2 DEF CommandsKnown, QueueInv, CommandKept
<1>4. ASSUME NEW a \in Attempts, Request(a).op = "lifecycle", invocations[a].stage = "enqueue",
             queue'[k] = Envelope(invocations[a].kind, invocations[a].session, NoWorkflow)
      PROVE  /\ queue'[k].session \in Stored /\ items'[queue'[k].session].version # 0
             /\ queue'[k].kind \notin Destructive /\ queue'[k].confirmation = NoWorkflow
  BY <1>2, <1>4 DEF CommandInv, AdmittedInv, At, Envelope
<1>5. ASSUME NEW a \in Attempts, Request(a).op = "confirm", invocations[a].stage = "enqueue",
             queue'[k] = Envelope(invocations[a].confirmation.kind,
                                  invocations[a].confirmation.session,
                                  invocations[a].confirmation.id)
      PROVE  /\ queue'[k].session \in Stored /\ items'[queue'[k].session].version # 0
             /\ queue'[k].confirmation # NoWorkflow
             /\ \E b \in Attempts : StemsFrom(b, k)'
  <2>1. PICK c : c = invocations[a].confirmation
    OBVIOUS
  <2>2. WasPut(Request(a).owner, c)
    BY <1>5, <2>1 DEF CommandInv, HeldInv
  <2>3. PICK b \in Attempts : PutBy(b, Request(a).owner, c)
    BY <2>2 DEF WasPut
  <2>4. /\ queue'[k].session = c.session /\ queue'[k].kind = c.kind
        /\ queue'[k].confirmation = c.id
    BY <1>5, <2>1 DEF Envelope
  <2>5. c.session \in Stored /\ Exists(c.session) /\ items[c.session].owner = Request(a).owner
    BY <2>2 DEF WasPut, Concerns
  <2>6. Request(b).key \in Keys /\ c.id = Request(b).key /\ Request(b).op = "ask"
    BY <1>1, <2>3, RequestFacts DEF PutBy
  <2>7. invocations'[b].stage \notin {"idle", "put"}
    BY <2>3, AskerRests DEF PutBy
  <2>8. StemsFrom(b, k)'
    BY <1>1, <1>2, <2>3, <2>4, <2>5, <2>7 DEF StemsFrom, PutBy, Request
  <2>9. QED
    BY <1>2, <2>4, <2>5, <2>6, <2>8, NoWorkflowAssumption DEF Keys
<1>6. QED
  BY <1>3, <1>4, <1>5, QueueSteps DEF QueueStep

LEMMA CommandInit == Init => CommandInv
<1> SUFFICES ASSUME Init PROVE CommandInv
  OBVIOUS
<1>1. TypeInv
  BY TypeInit
<1>2. \A a \in Attempts : invocations[a].stage = "idle"
  BY DEF Init, Idle
<1>3. \A o \in Owners : slot[o] = NoConfirmation
  BY DEF Init
<1>4. \A k \in Keys : /\ queue[k] = NoCommand /\ queue[k].kind = "none"
                      /\ queue[k].confirmation = NoWorkflow
  BY DEF Init, NoCommand
<1>5. QED
  BY <1>1, <1>2, <1>3, <1>4
     DEF CommandInv, Remembers, CommandsKnown, AskedInv, SlotInv, HeldInv, AdmittedInv,
         QueueInv, ConsumedInv, At, Destructive

LEMMA CommandStep == CommandInv /\ [Next]_vars => CommandInv'
<1>1. CommandInv /\ Next => CommandInv'
  BY StepEffect, AskedStep, SlotStep, HeldStep, AdmittedStep, QueueInvStep, ConsumedStep
     DEF CommandInv
<1>2. CommandInv /\ UNCHANGED vars => CommandInv'
  <2> SUFFICES ASSUME CommandInv, UNCHANGED vars PROVE CommandInv'
    OBVIOUS
  <2>1. UNCHANGED <<situation, items, records, slot, queue, invocations>>
    BY DEF vars
  <2>2. TypeInv'
    BY <2>1, TypeKept DEF CommandInv, TypeInv, InvocationsOK
  <2>3. QED
    BY <2>1, <2>2
       DEF CommandInv, Remembers, Remembered, CommandsKnown, AskedInv, Asked, SlotInv, HeldInv,
           AdmittedInv, QueueInv, StemsFrom, ConsumedInv, At, Request, Exists, WasPut, PutBy,
           Concerns
<1>3. QED
  BY <1>1, <1>2

LEMMA CommandHolds == Spec => []CommandInv
BY CommandInit, CommandStep, PTL DEF Spec

-----------------------------------------------------------------------------
(* Slugs *)

\* The scan that precedes a creation finds every session whose slug is not
\* claimed, and none appears after it: a new session claims its slug.
SlugInv ==
    /\ SlugsAreUnique
    /\ \A a \in Attempts : At(a, "create", "create") =>
         \A s \in Stored : Exists(s) /\ items[s].slug = Candidate(a) => Candidate(a) \in claims

\* A session comes into being by a creation, and by nothing else.
LEMMA Newcomers ==
    ASSUME CommandInv, Next
    PROVE  \/ \E a \in Attempts : Creation(a) /\ Creates(a)
           \/ /\ UNCHANGED claims
              /\ \A s \in Stored : Exists(s)' => Exists(s) /\ items'[s].slug = items[s].slug
<1>1. TypeInv /\ SaveTarget /\ CommandsKnown /\ ItemsStep
  BY RemembersTarget, StepEffect DEF CommandInv
<1>2. CASE UNCHANGED <<items, claims>>
  BY <1>2 DEF Exists
<1>3. ASSUME NEW t \in Stored, Exists(t), \A s \in Stored \ {t} : items'[s] = items[s],
             UNCHANGED claims
      PROVE  \A s \in Stored : Exists(s)' => Exists(s) /\ items'[s].slug = items[s].slug
  BY <1>1, <1>3 DEF Exists, ItemsStep
<1>4. ASSUME NEW a \in Attempts, Edit(a), Saves(a)
      PROVE  /\ UNCHANGED claims
             /\ \A s \in Stored : Exists(s)' => Exists(s) /\ items'[s].slug = items[s].slug
  <2>1. At(a, "edit", "save") /\ UNCHANGED claims
    BY <1>1, <1>4, EditEffect DEF Saves, At
  <2>2. invocations[a].session \in Stored /\ Exists(invocations[a].session)
    BY <2>1 DEF CommandInv, Remembers, Remembered
  <2>3. \A s \in Stored \ {invocations[a].session} : items'[s] = items[s]
    BY <1>1, <1>4, <2>2 DEF Saves, TypeInv
  <2>4. QED
    BY <1>3, <2>1, <2>2, <2>3
<1>5. ASSUME NEW t \in Stored, Bumps(t), UNCHANGED claims
      PROVE  \A s \in Stored : Exists(s)' => Exists(s) /\ items'[s].slug = items[s].slug
  <2>1. Exists(t) /\ \A s \in Stored \ {t} : items'[s] = items[s]
    BY <1>1, <1>5 DEF Bumps, TypeInv
  <2>2. QED
    BY <1>3, <1>5, <2>1
<1>6. CASE \E a \in Attempts : Creation(a)
  BY <1>1, <1>2, <1>6, CreationEffect DEF Scanned
<1>7. CASE \E a \in Attempts : Edit(a)
  BY <1>1, <1>2, <1>4, <1>7, EditEffect DEF Loads
<1>8. CASE \E a \in Attempts : Lifecycle(a) \/ Confirmation(a)
  BY <1>1, <1>2, <1>8, LifecycleEffect, ConfirmationEffect
<1>9. CASE Background
  <2>1. UNCHANGED claims /\ (UNCHANGED items \/ \E s \in Stored : Bumps(s))
    BY <1>1, <1>9, BackgroundEffect
  <2>2. QED
    BY <1>2, <1>5, <2>1
<1>10. QED
  BY <1>6, <1>7, <1>8, <1>9, StepCases

LEMMA SlugStep == CommandInv /\ SlugInv /\ Next => SlugInv'
<1> SUFFICES ASSUME CommandInv, SlugInv, Next PROVE SlugInv'
  OBVIOUS
<1>1. TypeInv /\ UNCHANGED situation /\ ItemsStep /\ TypeInv'
  BY StepEffect DEF CommandInv
<1>2. \A b \in Attempts : invocations'[b] = invocations[b] => Candidate(b)' = Candidate(b)
  BY <1>1 DEF Candidate, Request
<1>3. ASSUME NEW a \in Attempts, Creation(a), Creates(a) PROVE SlugInv'
  <2>1. /\ At(a, "create", "create") /\ Others(a) /\ a \in Stored
        /\ Candidate(a) \notin claims /\ claims' = claims \cup {Candidate(a)}
    BY <1>1, <1>3, CreationEffect DEF Creates, CanCreate, At, Stored
  <2>2. /\ \A s \in Stored \ {a} : items'[s] = items[s]
        /\ items'[a].slug = Candidate(a)
    BY <1>1, <1>3, <2>1 DEF Creates, TypeInv
  <2>3. \A s \in Stored : Exists(s) => items[s].slug # Candidate(a)
    BY <2>1 DEF SlugInv
  <2>4. SlugsAreUnique'
    BY <2>1, <2>2, <2>3 DEF SlugInv, SlugsAreUnique, Exists
  <2>5. ASSUME NEW b \in Attempts, At(b, "create", "create")', NEW s \in Stored, Exists(s)',
               items'[s].slug = Candidate(b)'
        PROVE  Candidate(b)' \in claims'
    <3>1. b # a /\ invocations'[b] = invocations[b]
      BY <1>3, <2>1, <2>5 DEF At, Creates, Others
    <3>2. At(b, "create", "create") /\ Candidate(b)' = Candidate(b)
      BY <1>1, <1>2, <2>5, <3>1 DEF At, Request
    <3>3. CASE s = a
      BY <2>1, <2>2, <2>5, <3>3
    <3>4. CASE s # a
      BY <2>1, <2>2, <2>5, <3>2, <3>4 DEF SlugInv, Exists
    <3>5. QED
      BY <3>3, <3>4
  <2>6. QED
    BY <2>4, <2>5 DEF SlugInv
<1>4. ASSUME UNCHANGED claims,
             \A s \in Stored : Exists(s)' => Exists(s) /\ items'[s].slug = items[s].slug
      PROVE  SlugInv'
  <2>1. SlugsAreUnique'
    BY <1>4 DEF SlugInv, SlugsAreUnique
  <2>2. ASSUME NEW b \in Attempts, At(b, "create", "create")', NEW s \in Stored, Exists(s)',
               items'[s].slug = Candidate(b)'
        PROVE  Candidate(b)' \in claims'
    <3>1. Request(b).op = "create" /\ invocations'[b].stage = "create"
      BY <1>1, <2>2 DEF At, Request
    <3>2. CASE invocations'[b] = invocations[b]
      BY <1>2, <1>4, <2>2, <3>1, <3>2 DEF SlugInv, At
    <3>3. CASE invocations'[b] # invocations[b]
      <4>1. Creation(b)
        BY <3>1, <3>3, StepEffect DEF Others
      <4>2. Scanned(b)
        BY <1>1, <3>1, <4>1, CreationEffect DEF Creates
      <4>3. Candidate(b)' = Candidate(b)
        BY <1>1, <3>1, <4>2 DEF Scanned, Candidate, Request
      <4>4. QED
        BY <1>4, <2>2, <3>1, <4>2, <4>3 DEF Scanned
    <3>4. QED
      BY <3>2, <3>3
  <2>3. QED
    BY <2>1, <2>2 DEF SlugInv
<1>5. QED
  BY <1>3, <1>4, Newcomers

\* Whatever words two players choose, whatever was stored before claims were
\* introduced, and however creations interleave, a slug names one session.
THEOREM SlugsUnique == Spec => []SlugsAreUnique
<1>1. Init => SlugInv
  <2> SUFFICES ASSUME Init PROVE SlugInv
    OBVIOUS
  <2>1. \A a \in Attempts : invocations[a].stage # "create"
    BY DEF Init, Idle
  <2>2. ASSUME NEW s \in Stored, Exists(s)
        PROVE  s \in DOMAIN situation.stored /\ items[s].slug = situation.stored[s].slug
    BY <2>2 DEF Init, Exists, NoItem
  <2>3. SlugsAreUnique
    BY <2>2, SituationsAssumption DEF SlugsAreUnique, Init
  <2>4. QED
    BY <2>1, <2>3 DEF SlugInv, At
<1>2. CommandInv /\ SlugInv /\ [Next]_vars => SlugInv'
  <2>1. CASE UNCHANGED vars
    BY <2>1 DEF vars, SlugInv, SlugsAreUnique, At, Candidate, Request, Exists
  <2>2. QED
    BY <2>1, SlugStep
<1>3. SlugInv => SlugsAreUnique
  BY DEF SlugInv
<1>4. QED
  BY <1>1, <1>2, <1>3, CommandHolds, PTL DEF Spec

-----------------------------------------------------------------------------
(* Interactions take effect once *)

Positions(e, k) == {n \in DOMAIN e : e[n] = k}

LEMMA PositionsOfAppend ==
    ASSUME NEW e \in Seq(Keys), NEW j \in Keys, NEW k
    PROVE  Positions(Append(e, j), k) =
             IF j = k THEN Positions(e, k) \cup {Len(e) + 1} ELSE Positions(e, k)
<1>1. DOMAIN Append(e, j) = DOMAIN e \cup {Len(e) + 1} /\ Len(e) + 1 \notin DOMAIN e
  OBVIOUS
<1>2. Append(e, j)[Len(e) + 1] = j /\ \A n \in DOMAIN e : Append(e, j)[n] = e[n]
  OBVIOUS
<1>3. QED
  BY <1>1, <1>2 DEF Positions

\* The effects of an interaction are on the session that its record names.
OnceIn(k) ==
    IF records[k] = NoRecord
    THEN \A s \in Stored : Positions(items[s].edits, k) = {}
    ELSE /\ records[k].session \in Stored
         /\ \E n : Positions(items[records[k].session].edits, k) = {n}
         /\ \A s \in Stored \ {records[k].session} : Positions(items[s].edits, k) = {}

AnswersInv ==
    \A a \in Attempts : invocations[a].answer # NoSession =>
        /\ Request(a).key \in Keys /\ records[Request(a).key] # NoRecord
        /\ records[Request(a).key].session = invocations[a].answer

EffectInv ==
    /\ \A k \in Keys : OnceIn(k)
    /\ AnswersInv
    /\ \A s \in Stored : ~Exists(s) => items[s].edits = <<>>

\* One key is recorded and added to the edits of one session, or none is.
Commits(k, s) ==
    /\ records[k] = NoRecord /\ records'[k] # NoRecord /\ records'[k].session = s
    /\ \A l \in Keys \ {k} : records'[l] = records[l]
    /\ items'[s].edits = Append(items[s].edits, k) /\ Exists(s)'
    /\ \A t \in Stored \ {s} : items'[t] = items[t]

LEMMA EffectSteps ==
    ASSUME CommandInv, EffectInv, Next
    PROVE  \/ \E k \in Keys, s \in Stored : Commits(k, s)
           \/ /\ UNCHANGED records
              /\ \A s \in Stored : /\ items'[s].edits = items[s].edits
                                   /\ Exists(s) => Exists(s)'
<1>1. TypeInv /\ SaveTarget /\ CommandsKnown
  BY RemembersTarget DEF CommandInv
<1>2. CASE UNCHANGED <<records, items>>
  BY <1>2 DEF Exists
<1>3. ASSUME NEW a \in Attempts, NEW s \in Stored, Request(a).key \in Keys, Commit(a, s),
             ~Recorded(a)
      PROVE  /\ records[Request(a).key] = NoRecord /\ records'[Request(a).key] # NoRecord
             /\ records'[Request(a).key].session = s
             /\ \A l \in Keys \ {Request(a).key} : records'[l] = records[l]
  BY <1>1, <1>3, CommandsAssumption DEF Commit, Recorded, NoRecord, TypeInv
<1>4. ASSUME NEW a \in Attempts, Creation(a), Creates(a)
      PROVE  \E k \in Keys, s \in Stored : Commits(k, s)
  <2>1. Request(a).key \in Keys /\ a \in Stored /\ ~Exists(a) /\ Commit(a, a) /\ ~Recorded(a)
    BY <1>1, <1>4, CreationEffect, RequestFacts DEF Creates, CanCreate, Stored
  <2>2. items[a].edits = <<>> /\ Append(<<>>, Request(a).key) = <<Request(a).key>>
    BY <2>1 DEF EffectInv
  <2>3. /\ \A t \in Stored \ {a} : items'[t] = items[t]
        /\ items'[a].edits = <<Request(a).key>> /\ items'[a].version = 1
    BY <1>1, <1>4, <2>1 DEF Creates, TypeInv
  <2>4. Commits(Request(a).key, a)
    BY <1>3, <2>1, <2>2, <2>3 DEF Commits, Exists
  <2>5. QED
    BY <2>1, <2>4
<1>5. ASSUME NEW a \in Attempts, Edit(a), Saves(a)
      PROVE  \E k \in Keys, s \in Stored : Commits(k, s)
  <2>1. At(a, "edit", "save") /\ Request(a).key \in Keys
    BY <1>1, <1>5, EditEffect, RequestFacts DEF Saves, At
  <2>2. PICK s \in Stored : s = invocations[a].session
    BY <2>1 DEF CommandInv, Remembers, Remembered
  <2>3. Remembered(a, s) /\ Commit(a, s) /\ ~Recorded(a) /\ invocations[a].item = items[s]
    BY <1>5, <2>1, <2>2 DEF CommandInv, Remembers, Remembered, Saves, CanSave
  <2>4. /\ \A t \in Stored \ {s} : items'[t] = items[t]
        /\ items'[s] = [items[s] EXCEPT !.version = items[s].version + 1,
                                        !.edits = Append(items[s].edits, Request(a).key)]
    BY <1>1, <1>5, <2>2, <2>3 DEF Saves, TypeInv
  <2>5. /\ items'[s].version = items[s].version + 1 /\ items[s].version \in Nat
        /\ items'[s].edits = Append(items[s].edits, Request(a).key)
    BY <1>1, <2>4 DEF TypeInv, Items
  <2>6. Commits(Request(a).key, s)
    BY <1>3, <2>1, <2>3, <2>4, <2>5 DEF Commits, Exists
  <2>7. QED
    BY <2>1, <2>6
<1>6. ASSUME NEW t \in Stored, Bumps(t)
      PROVE  \A s \in Stored : items'[s].edits = items[s].edits /\ (Exists(s) => Exists(s)')
  <2>1. /\ \A s \in Stored \ {t} : items'[s] = items[s]
        /\ items'[t].edits = items[t].edits
        /\ items'[t].version = items[t].version + 1 /\ items[t].version \in Nat
    BY <1>1, <1>6 DEF Bumps, TypeInv, Items
  <2>2. QED
    BY <2>1 DEF Exists
<1>7. CASE \E a \in Attempts : Creation(a)
  BY <1>1, <1>2, <1>4, <1>7, CreationEffect DEF Scanned
<1>8. CASE \E a \in Attempts : Edit(a)
  BY <1>1, <1>2, <1>5, <1>8, EditEffect DEF Loads
<1>9. CASE \E a \in Attempts : Lifecycle(a) \/ Confirmation(a)
  BY <1>1, <1>2, <1>9, LifecycleEffect, ConfirmationEffect
<1>10. CASE Background
  <2>1. UNCHANGED records /\ (UNCHANGED items \/ \E s \in Stored : Bumps(s))
    BY <1>1, <1>10, BackgroundEffect
  <2>2. QED
    BY <1>2, <1>6, <2>1
<1>11. QED
  BY <1>7, <1>8, <1>9, <1>10, StepCases

LEMMA AnswersStep ==
    ASSUME CommandInv, EffectInv, Next
    PROVE  AnswersInv'
<1> SUFFICES ASSUME NEW b \in Attempts, invocations'[b].answer # NoSession
             PROVE  /\ Request(b).key \in Keys /\ records'[Request(b).key] # NoRecord
                    /\ records'[Request(b).key].session = invocations'[b].answer
  BY StepEffect DEF AnswersInv, Request
<1>1. TypeInv /\ SaveTarget /\ CommandsKnown
  BY RemembersTarget DEF CommandInv
<1>2. \A k \in Keys : records[k] # NoRecord => records'[k] = records[k]
  BY EffectSteps DEF Commits
<1>3. CASE invocations'[b].answer = invocations[b].answer
  BY <1>2, <1>3 DEF EffectInv, AnswersInv
<1>4. CASE invocations'[b].answer # invocations[b].answer
  <2>1. /\ records'[Request(b).key] # NoRecord /\ Request(b).op # "none"
        /\ records'[Request(b).key].session = invocations'[b].answer
    BY <1>1, <1>4, StepEffect, CreationEffect, EditEffect, LifecycleEffect, ConfirmationEffect
       DEF Others, AnswerKept
  <2>2. QED
    BY <1>1, <2>1, RequestFacts
<1>5. QED
  BY <1>3, <1>4

LEMMA EffectStep == CommandInv /\ EffectInv /\ Next => EffectInv'
<1> SUFFICES ASSUME CommandInv, EffectInv, Next PROVE EffectInv'
  OBVIOUS
<1>1. AnswersInv'
  BY AnswersStep
<1>2. \A s \in Stored : items[s].edits \in Seq(Keys)
  BY DEF CommandInv, TypeInv, Items
<1>3. ASSUME NEW k \in Keys, NEW s \in Stored, Commits(k, s)
      PROVE  /\ \A l \in Keys : OnceIn(l)'
             /\ \A t \in Stored : ~Exists(t)' => items'[t].edits = <<>>
  <2>1. ASSUME NEW l \in Keys
        PROVE  Positions(items'[s].edits, l) =
                 IF k = l THEN Positions(items[s].edits, l) \cup {Len(items[s].edits) + 1}
                 ELSE Positions(items[s].edits, l)
    <3>1. PICK e \in Seq(Keys) : e = items[s].edits
      BY <1>2
    <3>2. PICK f : f = items'[s].edits
      OBVIOUS
    <3>3. f = Append(e, k)
      BY <1>3, <3>1, <3>2 DEF Commits
    <3>4. Positions(f, l) = IF k = l THEN Positions(e, l) \cup {Len(e) + 1} ELSE Positions(e, l)
      BY <3>3, PositionsOfAppend
    <3>5. QED
      BY <3>1, <3>2, <3>4
  <2>2. OnceIn(k)'
    <3>1. \A t \in Stored : Positions(items[t].edits, k) = {}
      BY <1>3 DEF EffectInv, OnceIn, Commits
    <3>2. Positions(items'[s].edits, k) = {Len(items[s].edits) + 1}
      BY <2>1, <3>1
    <3>3. \A t \in Stored \ {s} : Positions(items'[t].edits, k) = {}
      BY <1>3, <3>1 DEF Commits
    <3>4. QED
      BY <1>3, <3>2, <3>3 DEF OnceIn, Commits
  <2>3. ASSUME NEW l \in Keys \ {k} PROVE OnceIn(l)'
    <3>1. records'[l] = records[l] /\ OnceIn(l)
      BY <1>3 DEF Commits, EffectInv
    <3>2. \A t \in Stored : Positions(items'[t].edits, l) = Positions(items[t].edits, l)
      BY <1>3, <2>1 DEF Commits
    <3>3. QED
      BY <3>1, <3>2 DEF OnceIn
  <2>4. QED
    BY <1>3, <2>2, <2>3 DEF EffectInv, Commits, Exists
<1>4. ASSUME UNCHANGED records,
             \A s \in Stored : items'[s].edits = items[s].edits /\ (Exists(s) => Exists(s)')
      PROVE  /\ \A l \in Keys : OnceIn(l)'
             /\ \A t \in Stored : ~Exists(t)' => items'[t].edits = <<>>
  BY <1>4 DEF EffectInv, OnceIn, Exists
<1>5. QED
  <2>1. (\A l \in Keys : OnceIn(l)') /\ (\A t \in Stored : ~Exists(t)' => items'[t].edits = <<>>)
    <3>1. CASE \E k \in Keys, s \in Stored : Commits(k, s)
      BY <1>3, <3>1
    <3>2. CASE ~\E k \in Keys, s \in Stored : Commits(k, s)
      <4>1. /\ UNCHANGED records
            /\ \A s \in Stored : items'[s].edits = items[s].edits /\ (Exists(s) => Exists(s)')
        BY <3>2, EffectSteps
      <4>2. QED
        BY <1>4, <4>1
    <3>3. QED
      BY <3>1, <3>2
  <2>2. QED
    BY <1>1, <2>1 DEF EffectInv, Exists

LEMMA EffectHolds == Spec => []EffectInv
<1>1. Init => EffectInv
  <2> SUFFICES ASSUME Init PROVE EffectInv
    OBVIOUS
  <2>1. \A s \in Stored : items[s].edits = <<>>
    BY DEF Init, NoItem
  <2>2. \A k : Positions(<<>>, k) = {}
    BY DEF Positions
  <2>3. \A a \in Attempts : invocations[a].answer = NoSession
    BY DEF Init, Idle
  <2>4. QED
    BY <2>1, <2>2, <2>3 DEF EffectInv, OnceIn, AnswersInv, Init
<1>2. CommandInv /\ EffectInv /\ [Next]_vars => EffectInv'
  <2>1. CASE UNCHANGED vars
    BY <2>1 DEF vars, EffectInv, OnceIn, AnswersInv, Exists, Request
  <2>2. QED
    BY <2>1, EffectStep
<1>3. QED
  BY <1>1, <1>2, CommandHolds, PTL DEF Spec

\* An interaction takes effect once, on one session, and what was answered or
\* recorded is there for good: no save overwrites it, no second delivery adds to
\* it, and no lost answer makes it happen again.
THEOREM EffectsAreKept == Spec => []AcceptedIsKept
<1>1. EffectInv => AcceptedIsKept
  <2> SUFFICES ASSUME EffectInv, NEW k \in Keys
               PROVE  /\ \A s \in Stored : Effects(k, s) <= 1
                      /\ \A s, t \in Stored : Effects(k, s) + Effects(k, t) = 2 => s = t
                      /\ records[k] # NoRecord => Effects(k, records[k].session) = 1
                      /\ \A a \in Attempts :
                           Request(a).key = k /\ invocations[a].answer # NoSession =>
                               Effects(k, invocations[a].answer) = 1
    BY DEF AcceptedIsKept
  <2>1. \A s : Effects(k, s) = Cardinality(Positions(items[s].edits, k))
    BY DEF Effects, Positions
  <2>2. Cardinality({}) = 0 /\ \A n : Cardinality({n}) = 1
    BY FS_EmptySet, FS_Singleton
  <2>3. OnceIn(k) /\ AnswersInv
    BY DEF EffectInv
  <2>4. CASE records[k] = NoRecord
    <3>1. \A s \in Stored : Effects(k, s) = 0
      BY <2>1, <2>2, <2>3, <2>4 DEF OnceIn
    <3>2. QED
      BY <2>3, <2>4, <3>1 DEF AnswersInv
  <2>5. CASE records[k] # NoRecord
    <3>1. /\ records[k].session \in Stored /\ Effects(k, records[k].session) = 1
          /\ \A s \in Stored \ {records[k].session} : Effects(k, s) = 0
      BY <2>1, <2>2, <2>3, <2>5 DEF OnceIn
    <3>2. QED
      BY <2>3, <2>5, <3>1 DEF AnswersInv
  <2>6. QED
    BY <2>4, <2>5
<1>2. QED
  BY <1>1, EffectHolds, PTL

-----------------------------------------------------------------------------
(* Confirmations are spent once.  In the following `a' is the delivery that  *)
(* asked for the confirmation, and no other asked for it or for another      *)
(* session of its owner (AsksAlone).                                         *)

Sole(a) == Request(a).op = "ask" /\ AsksAlone(a)

\* The invocation has consumed the confirmation, and will send its command.
Holds(b, a) ==
    At(b, "confirm", "enqueue") /\ invocations[b].confirmation.id = Request(a).key

Sent(k, a) == queue[k].confirmation = Request(a).key

Spent(a) == (\E b \in Attempts : Holds(b, a)) \/ (\E k \in Keys : Sent(k, a))

\* Three reasons why a confirmation that is spent is not consumed again: the
\* session has been stored since; the slot holds a consumed one of its version,
\* which another of this session cannot replace; nobody has it any more.
Outdated(a) == invocations[a].confirmation.version < items[Request(a).target].version

Blocked(a) ==
    /\ slot[Request(a).owner].status = "CONSUMED"
    /\ slot[Request(a).owner].version = invocations[a].confirmation.version

Gone(a) ==
    /\ \A b \in Attempts :
         Request(b).op \in {"confirm", "cancel"} /\ invocations[b].stage = "put" =>
             invocations[b].confirmation.id # Request(a).key
    /\ slot[Request(a).owner].id = Request(a).key => ~CheckPending(slot[Request(a).owner])

SpentOnce(a) ==
    /\ \A b, c \in Attempts : Holds(b, a) /\ Holds(c, a) => b = c
    /\ \A b \in Attempts, k \in Keys : ~(Holds(b, a) /\ Sent(k, a))
    /\ \A k, l \in Keys : Sent(k, a) /\ Sent(l, a) => k = l
    /\ Spent(a) => Outdated(a) \/ Blocked(a) \/ Gone(a)

\* No invocation lasts as long as a confirmation.
FreshInv ==
    /\ \A b \in Attempts :
         Request(b).op \in {"ask", "confirm", "cancel"} /\ invocations[b].stage = "put" =>
             invocations[b].confirmation.expired = FALSE
    /\ \A o \in Owners : slot[o].expired = TRUE =>
         \A b \in Attempts :
             Request(b).op \in {"confirm", "cancel"} /\ Request(b).owner = o =>
                 invocations[b].stage # "put"

SpendInv == FreshInv /\ \A a \in Attempts : Sole(a) => SpentOnce(a)

LEMMA FreshStep == CommandInv /\ FreshInv /\ Next => FreshInv'
<1> SUFFICES ASSUME CommandInv, FreshInv, Next PROVE FreshInv'
  OBVIOUS
<1>1. TypeInv /\ UNCHANGED situation /\ SaveTarget /\ CommandsKnown
  BY StepEffect, RemembersTarget DEF CommandInv
<1>2. \A a \in Attempts : Request(a)' = Request(a)
  BY <1>1 DEF Request
<1>3. \A a \in Attempts : Request(a).owner \in Owners
  BY <1>1, RequestFacts DEF Requests
<1>4. ASSUME UNCHANGED slot,
             \A b \in Attempts : Request(b).op \in {"ask", "confirm", "cancel"} =>
                                  invocations'[b] = invocations[b]
      PROVE  FreshInv'
  BY <1>2, <1>4 DEF FreshInv
<1>5. ASSUME NEW a \in Attempts, Confirmation(a) PROVE FreshInv'
  <2>1. Others(a) /\ Request(a).op \in {"ask", "confirm", "cancel"}
    BY <1>1, <1>5, ConfirmationEffect
  <2>2. CASE Asks(a)
    BY <1>2, <2>1, <2>2 DEF FreshInv, Asks, NewConfirmation, Others
  <2>3. CASE Reads(a)
    <3>1. slot[Request(a).owner].expired = FALSE
      BY <1>1, <1>3, <2>3 DEF Reads, CheckPending, TypeInv, Confirmations
    <3>2. QED
      BY <1>2, <1>3, <2>1, <2>3, <3>1 DEF FreshInv, Reads, Others
  <2>4. ASSUME NEW x, x.expired = FALSE, slot' = [slot EXCEPT ![Request(a).owner] = x],
               invocations'[a].stage # "put"
        PROVE  FreshInv'
    <3>1. slot'[Request(a).owner].expired = FALSE
          /\ \A o \in Owners \ {Request(a).owner} : slot'[o] = slot[o]
      BY <1>1, <1>3, <2>4 DEF TypeInv
    <3>2. QED
      BY <1>2, <2>1, <2>4, <3>1 DEF FreshInv, Others
  <2>5. CASE Puts(a)
    BY <2>4, <2>5 DEF FreshInv, Puts
  <2>6. ASSUME NEW status \in {"CONSUMED", "CANCELLED"}, PutsBack(a, status),
               invocations'[a].stage # "put"
        PROVE  FreshInv'
    <3>1. invocations[a].confirmation \in Confirmations(invocations[a].confirmation.life)
      BY <1>1 DEF TypeInv, InvocationOK, Invocations
    <3>2. invocations[a].confirmation.expired = FALSE
      BY <2>1, <2>6 DEF FreshInv, PutsBack
    <3>3. [invocations[a].confirmation EXCEPT !.status = status].expired = FALSE
      BY <3>1, <3>2 DEF Confirmations
    <3>4. QED
      BY <2>4, <2>6, <3>3 DEF PutsBack
  <2>7. CASE Consumes(a) \/ Cancels(a)
    BY <2>6, <2>7 DEF Consumes, Cancels
  <2>8. CASE Rests(a)
    BY <1>2, <2>1, <2>8 DEF FreshInv, Rests, Others
  <2>9. CASE \E command : Sends(a, command)
    <3>1. UNCHANGED slot
      BY <1>5, <2>9 DEF Confirmation, Sends, RequestConfirmation, CreateConfirmation,
                  ReadConfirmation, ConsumeConfirmation, Confirm, CancelConfirmation, At,
                  Refuse, Enqueue, table
    <3>2. QED
      BY <1>2, <2>1, <2>9, <3>1 DEF FreshInv, Sends, Others
  <2>10. QED
    BY <1>1, <1>5, <2>2, <2>3, <2>5, <2>7, <2>8, <2>9, ConfirmationEffect
<1>6. CASE Background
  <2>1. CASE UNCHANGED slot
    BY <1>1, <1>4, <1>6, <2>1, BackgroundEffect
  <2>2. ASSUME NEW o \in Owners, Expires(o) PROVE FreshInv'
    BY <1>1, <1>2, <1>6, <2>2, BackgroundEffect DEF FreshInv, Expires
  <2>3. QED
    BY <1>1, <1>6, <2>1, <2>2, BackgroundEffect
<1>7. CASE \E a \in Attempts : Creation(a) \/ Edit(a) \/ Lifecycle(a)
  BY <1>1, <1>4, <1>7, CreationEffect, EditEffect, LifecycleEffect DEF Others
<1>8. QED
  BY <1>5, <1>6, <1>7, StepCases

\* A confirmation with this key was asked for by this delivery.
LEMMA SoleAsker ==
    ASSUME NEW a \in Attempts, Sole(a), NEW o, NEW c, WasPut(o, c), c.id = Request(a).key
    PROVE  PutBy(a, o, c)
BY DEF WasPut, PutBy, Sole, AsksAlone

\* Whatever confirmation the owner has is for the same session.
LEMMA SoleTarget ==
    ASSUME NEW a \in Attempts, Sole(a), NEW c, WasPut(Request(a).owner, c)
    PROVE  c.session = Request(a).target
BY DEF WasPut, PutBy, Sole, AsksAlone

LEMMA SoleStays ==
    ASSUME CommandInv, Next, NEW a \in Attempts
    PROVE  /\ Sole(a)' <=> Sole(a)
           /\ \A b \in Attempts : Request(b)' = Request(b)
BY StepEffect DEF Sole, AsksAlone, Request

LEMMA HeldIsPut ==
    ASSUME CommandInv, NEW a \in Attempts, Sole(a), NEW b \in Attempts,
           Request(b).op \in {"confirm", "cancel"}, invocations[b].stage \in {"put", "enqueue"},
           invocations[b].confirmation.id = Request(a).key
    PROVE  /\ PutBy(a, Request(b).owner, invocations[b].confirmation)
           /\ Concerns(Request(b).owner, invocations[b].confirmation)
<1>1. PICK o : o = Request(b).owner
  OBVIOUS
<1>2. PICK c : c = invocations[b].confirmation
  OBVIOUS
<1>3. WasPut(o, c)
  BY <1>1, <1>2 DEF CommandInv, HeldInv
<1>4. PutBy(a, o, c) /\ Concerns(o, c)
  BY <1>2, <1>3, SoleAsker DEF WasPut
<1>5. QED
  BY <1>1, <1>2, <1>4

\* What was spent had been put: its asker has nothing left to do.
LEMMA SpentFacts ==
    ASSUME CommandInv, NEW a \in Attempts, Sole(a), Spent(a)
    PROVE  invocations[a].stage \notin {"idle", "put"} /\ Request(a).target \in Stored
           /\ Exists(Request(a).target)
<1>1. Request(a).key \in Keys /\ Request(a).key # NoWorkflow /\ Request(a).target \in Stored
  BY RequestFacts, NoWorkflowAssumption DEF Sole, CommandInv, Keys
<1>2. ASSUME NEW b \in Attempts, Holds(b, a)
      PROVE  invocations[a].stage \notin {"idle", "put"} /\ Exists(Request(a).target)
  BY <1>2, HeldIsPut DEF Holds, At, PutBy, Concerns
<1>3. ASSUME NEW k \in Keys, Sent(k, a)
      PROVE  invocations[a].stage \notin {"idle", "put"} /\ Exists(Request(a).target)
  <2>1. PICK b \in Attempts : StemsFrom(b, k)
    BY <1>1, <1>3 DEF CommandInv, QueueInv, Sent
  <2>2. b = a
    BY <1>3, <2>1 DEF StemsFrom, Sent, Sole, AsksAlone
  <2>3. queue[k] # NoCommand
    BY <1>1, <1>3 DEF Sent, NoCommand
  <2>4. QED
    BY <2>1, <2>2, <2>3 DEF StemsFrom, CommandInv, CommandsKnown
<1>4. QED
  BY <1>1, <1>2, <1>3 DEF Spent

\* The invocation consumes this confirmation.
Takes(b, a) == Consumes(b) /\ invocations[b].confirmation.id = Request(a).key

LEMMA Taking ==
    ASSUME CommandInv, NEW a \in Attempts, Sole(a), NEW b \in Attempts, Takes(b, a)
    PROVE  /\ Request(b).owner = Request(a).owner
           /\ invocations[b].confirmation.version = invocations[a].confirmation.version
           /\ items[Request(a).target].version = invocations[a].confirmation.version
<1>1. /\ PutBy(a, Request(b).owner, invocations[b].confirmation)
      /\ confirmationSessionCheck(invocations[b].confirmation)
  BY HeldIsPut DEF Takes, Consumes, PutsBack
<1>2. QED
  BY <1>1 DEF PutBy, confirmationSessionCheck

\* What is spent is not consumed.
LEMMA SpentIsNotTaken ==
    ASSUME CommandInv, NEW a \in Attempts, Sole(a), SpentOnce(a),
           NEW b \in Attempts, Takes(b, a)
    PROVE  ~Spent(a)
<1>1. CASE Outdated(a)
  <2>1. invocations[a].confirmation.version \in Nat
    BY Versions DEF CommandInv
  <2>2. QED
    BY <1>1, <2>1, Taking DEF Outdated
<1>2. CASE Blocked(a)
  BY <1>2, Taking DEF Blocked, Takes, Consumes, PutsBack
<1>3. CASE Gone(a)
  BY <1>3 DEF Gone, Takes, Consumes, PutsBack
<1>4. QED
  BY <1>1, <1>2, <1>3 DEF SpentOnce

LEMMA HoldsStep ==
    ASSUME CommandInv, Next, NEW a \in Attempts, NEW b \in Attempts, Holds(b, a)'
    PROVE  Holds(b, a) \/ Takes(b, a)
<1>1. /\ TypeInv /\ Request(b).op = "confirm" /\ invocations'[b].stage = "enqueue"
      /\ invocations'[b].confirmation.id = Request(a).key
  BY SoleStays DEF Holds, At, CommandInv
<1>2. CASE invocations'[b] = invocations[b]
  BY <1>1, <1>2 DEF Holds, At
<1>3. CASE invocations'[b] # invocations[b]
  <2>1. Confirmation(b)
    BY <1>1, <1>3, StepEffect DEF Others
  <2>2. Consumes(b)
    BY <1>1, <2>1, ConfirmationEffect DEF Asks, Puts, Reads, Cancels, Rests, Sends
  <2>3. QED
    BY <1>1, <2>2 DEF Takes, Consumes, PutsBack
<1>4. QED
  BY <1>2, <1>3

\* Who sends the command held the confirmation, and does so no more.
LEMMA SentStep ==
    ASSUME CommandInv, Next, NEW a \in Attempts, Sole(a), NEW k \in Keys, Sent(k, a)'
    PROVE  \/ Sent(k, a)
           \/ \E b \in Attempts : Holds(b, a) /\ ~Holds(b, a)' /\ Request(b).key = k
<1>1. queue'[k].confirmation = Request(a).key /\ Request(a).key # NoWorkflow
  BY SoleStays, RequestFacts, NoWorkflowAssumption DEF Sent, Sole, CommandInv, Keys
<1>2. CASE CommandKept(k)
  BY <1>1, <1>2 DEF CommandKept, Sent
<1>3. ASSUME NEW b \in Attempts, NEW kind, NEW s, queue'[k] = Envelope(kind, s, NoWorkflow)
      PROVE  FALSE
  BY <1>1, <1>3 DEF Envelope
<1>4. ASSUME NEW b \in Attempts, Request(b).op = "confirm", invocations[b].stage = "enqueue",
             invocations'[b].stage # "enqueue", Request(b).key = k,
             queue'[k] = Envelope(invocations[b].confirmation.kind,
                                  invocations[b].confirmation.session,
                                  invocations[b].confirmation.id)
      PROVE  Holds(b, a) /\ ~Holds(b, a)' /\ Request(b).key = k
  BY <1>1, <1>4 DEF Envelope, Holds, At
<1>5. QED
  BY <1>2, <1>3, <1>4, QueueSteps DEF QueueStep

LEMMA SpentStep ==
    ASSUME CommandInv, Next, NEW a \in Attempts, Sole(a), Spent(a)'
    PROVE  Spent(a) \/ \E b \in Attempts : Takes(b, a)
<1>1. CASE \E b \in Attempts : Holds(b, a)'
  BY <1>1, HoldsStep DEF Spent
<1>2. CASE \E k \in Keys : Sent(k, a)'
  BY <1>2, SentStep DEF Spent
<1>3. QED
  BY <1>1, <1>2 DEF Spent

-----------------------------------------------------------------------------
(* Why it stays spent *)

LEMMA OutdatedStays ==
    ASSUME CommandInv, Next, NEW a \in Attempts, Sole(a), Spent(a), Outdated(a)
    PROVE  Outdated(a)'
<1>1. PICK t \in Stored : t = Request(a).target
  BY SpentFacts
<1>2. Exists(t) /\ invocations'[a].confirmation = invocations[a].confirmation
  BY <1>1, SpentFacts, AskerRests DEF Sole
<1>3. items[t].version <= items'[t].version
  BY <1>2, StepEffect DEF ItemsStep
<1>4. items[t].version \in Nat /\ invocations[a].confirmation.version \in Nat
      /\ items'[t].version \in Nat
  BY Versions, StepEffect DEF CommandInv, TypeInv, Items
<1>5. Request(a)' = Request(a)
  BY SoleStays
<1>6. QED
  BY <1>1, <1>2, <1>3, <1>4, <1>5 DEF Outdated

\* All that a step may do to the slots and to what invocations have read of them.
LEMMA SlotSteps ==
    ASSUME CommandInv, Next
    PROVE  \/ UNCHANGED slot /\ \A b \in Attempts :
                Request(b).op \in {"confirm", "cancel"} /\ invocations'[b].stage = "put" =>
                    invocations'[b] = invocations[b]
           \/ \E b \in Attempts : Others(b) /\ Puts(b)
           \/ \E b \in Attempts : Others(b) /\ Reads(b)
           \/ \E b \in Attempts : Others(b) /\ (Consumes(b) \/ Cancels(b))
           \/ UNCHANGED invocations /\ \E o \in Owners : Expires(o)
<1>1. TypeInv /\ SaveTarget /\ CommandsKnown
  BY RemembersTarget DEF CommandInv
<1>2. ASSUME NEW a \in Attempts, Confirmation(a)
      PROVE  \/ UNCHANGED slot /\ \A b \in Attempts :
                   Request(b).op \in {"confirm", "cancel"} /\ invocations'[b].stage = "put" =>
                       invocations'[b] = invocations[b]
             \/ Puts(a) \/ Reads(a) \/ Consumes(a) \/ Cancels(a)
  <2>1. Others(a)
    BY <1>1, <1>2, ConfirmationEffect
  <2>2. CASE Asks(a)
    BY <2>1, <2>2 DEF Asks, Others
  <2>3. CASE Rests(a)
    BY <2>1, <2>3 DEF Rests, Others
  <2>4. ASSUME NEW command, Sends(a, command)
        PROVE  UNCHANGED slot /\ invocations'[a].stage # "put"
    BY <1>2, <2>4 DEF Confirmation, Sends, RequestConfirmation, CreateConfirmation,
                ReadConfirmation, ConsumeConfirmation, Confirm, CancelConfirmation, At,
                Refuse, Enqueue, table
  <2>5. QED
    BY <1>1, <1>2, <2>1, <2>2, <2>3, <2>4, ConfirmationEffect DEF Others
<1>3. CASE \E a \in Attempts : Confirmation(a)
  BY <1>1, <1>2, <1>3, ConfirmationEffect
<1>4. CASE Background
  BY <1>1, <1>4, BackgroundEffect
<1>5. CASE \E a \in Attempts : Creation(a) \/ Edit(a) \/ Lifecycle(a)
  BY <1>1, <1>5, CreationEffect, EditEffect, LifecycleEffect DEF Others
<1>6. QED
  BY <1>3, <1>4, <1>5, StepCases

LEMMA BlockedStays ==
    ASSUME CommandInv, FreshInv, Next, NEW a \in Attempts, Sole(a), Spent(a), Blocked(a)
    PROVE  Outdated(a)' \/ Blocked(a)' \/ Gone(a)'
<1>1. PICK o \in Owners : o = Request(a).owner
  BY RequestFacts DEF CommandInv, Requests
<1>2. PICK v \in Nat : v = invocations[a].confirmation.version
  BY Versions DEF CommandInv
<1>3. PICK held : held = slot[o]
  OBVIOUS
<1>4. /\ TypeInv /\ held.status = "CONSUMED" /\ held.version = v
      /\ invocations'[a].confirmation.version = v
      /\ invocations[a].stage \notin {"idle", "put"}
      /\ \A b \in Attempts : Request(b)' = Request(b)
  BY <1>1, <1>2, <1>3, SpentFacts, AskerRests, SoleStays DEF Blocked, CommandInv, Sole
<1>5. ASSUME slot'[o].status = "CONSUMED", slot'[o].version = v PROVE Blocked(a)'
  BY <1>1, <1>4, <1>5 DEF Blocked
<1>6. ASSUME NEW b \in Attempts, Others(b), Puts(b)
      PROVE  Outdated(a)' \/ Blocked(a)' \/ Gone(a)'
  <2>1. Request(b).owner \in Owners
    BY <1>4, RequestFacts DEF Requests
  <2>2. CASE Request(b).owner # o
    BY <1>1, <1>3, <1>4, <1>5, <1>6, <2>1, <2>2 DEF Puts, TypeInv
  <2>3. CASE Request(b).owner = o
    <3>1. PICK new : new = invocations[b].confirmation
      OBVIOUS
    <3>2. b # a /\ Request(b).key # Request(a).key /\ Request(b).target = Request(a).target
      BY <1>1, <1>4, <1>6, <2>3 DEF Puts, Sole, AsksAlone
    <3>3. /\ new.id = Request(b).key /\ new.session = Request(a).target
          /\ slot' = [slot EXCEPT ![o] = new] /\ SlotIsFree(held, new)
          /\ items[new.session].version = new.version /\ new.version \in Nat
      BY <1>3, <1>4, <1>6, <2>3, <3>1, <3>2, Versions
         DEF Puts, CommandInv, AskedInv, Asked, At, confirmationSessionCheck
    <3>4. slot'[o] = new
      BY <1>1, <1>4, <3>3 DEF TypeInv
    <3>5. held # NoConfirmation
      BY <1>4 DEF NoConfirmation
    <3>6. WasPut(o, held)
      BY <1>1, <1>3, <3>5 DEF CommandInv, SlotInv
    <3>7. held.session = new.session /\ v <= items[held.session].version
      BY <1>1, <1>4, <3>3, <3>6, SoleTarget DEF WasPut, Concerns
    <3>8. held.expired \/ held.version # new.version
      BY <1>4, <3>3, <3>5, <3>7 DEF SlotIsFree
    <3>9. CASE held.expired
      <4>1. held.expired = TRUE
        BY <1>1, <1>3, <1>4, <3>9 DEF TypeInv, Confirmations
      <4>2. ASSUME NEW c \in Attempts, Request(c).op \in {"confirm", "cancel"},
                   invocations[c].stage = "put"
            PROVE  invocations[c].confirmation.id # Request(a).key
        BY <1>1, <1>3, <4>1, <4>2, HeldIsPut DEF FreshInv, PutBy
      <4>3. Gone(a)'
        BY <1>1, <1>4, <1>6, <3>2, <3>3, <3>4, <4>2 DEF Gone, Puts, Others
      <4>4. QED
        BY <4>3
    <3>10. CASE held.version # new.version
      <4>1. Outdated(a)
        BY <1>1, <1>2, <1>4, <3>3, <3>7, <3>10 DEF Outdated
      <4>2. QED
        BY <4>1, OutdatedStays
    <3>11. QED
      BY <3>8, <3>9, <3>10
  <2>4. QED
    BY <2>2, <2>3
<1>7. ASSUME NEW b \in Attempts, Others(b), Consumes(b) \/ Cancels(b)
      PROVE  Blocked(a)'
  <2>1. Request(b).owner \in Owners /\ Request(b).owner # o
    BY <1>3, <1>4, <1>7, RequestFacts DEF Requests, Consumes, Cancels, PutsBack
  <2>2. slot'[o] = held
    BY <1>1, <1>3, <1>4, <1>7, <2>1 DEF Consumes, Cancels, PutsBack, TypeInv
  <2>3. QED
    BY <1>4, <1>5, <2>2
<1>8. ASSUME NEW p \in Owners, Expires(p) PROVE Blocked(a)'
  <2>1. slot'[o].status = "CONSUMED" /\ slot'[o].version = v
    BY <1>1, <1>3, <1>4, <1>8 DEF Expires, TypeInv, Confirmations
  <2>2. QED
    BY <1>5, <2>1
<1>9. ASSUME UNCHANGED slot PROVE Blocked(a)'
  BY <1>1, <1>3, <1>4, <1>5, <1>9
<1>10. QED
  BY <1>6, <1>7, <1>8, <1>9, SlotSteps DEF Reads

LEMMA GoneStays ==
    ASSUME CommandInv, Next, NEW a \in Attempts, Sole(a), Spent(a), Gone(a)
    PROVE  Gone(a)'
<1>1. PICK o \in Owners : o = Request(a).owner
  BY RequestFacts DEF CommandInv, Requests
<1>2. /\ TypeInv /\ invocations[a].stage \notin {"idle", "put"}
      /\ \A b \in Attempts : Request(b)' = Request(b)
      /\ Request(a).key \in Keys
  BY SpentFacts, SoleStays, RequestFacts DEF CommandInv, Sole
<1>3. ASSUME \A b \in Attempts :
                 Request(b).op \in {"confirm", "cancel"} /\ invocations'[b].stage = "put" =>
                     invocations'[b].confirmation.id # Request(a).key,
             slot'[o].id = Request(a).key => ~CheckPending(slot'[o])
      PROVE  Gone(a)'
  BY <1>1, <1>2, <1>3 DEF Gone, CheckPending
<1>4. ASSUME UNCHANGED slot,
             \A b \in Attempts :
                 Request(b).op \in {"confirm", "cancel"} /\ invocations'[b].stage = "put" =>
                     invocations'[b] = invocations[b]
      PROVE  Gone(a)'
  BY <1>1, <1>3, <1>4 DEF Gone
<1>5. ASSUME NEW b \in Attempts, Others(b), Puts(b) PROVE Gone(a)'
  <2>1. PICK new : new = invocations[b].confirmation
    OBVIOUS
  <2>2. b # a /\ Request(b).key # Request(a).key /\ new.id = Request(b).key
    BY <1>2, <1>5, <2>1 DEF Puts, Sole, AsksAlone, CommandInv, AskedInv, Asked, At
  <2>3. slot'[o] = slot[o] \/ slot'[o] = new
    BY <1>1, <1>2, <1>5, <2>1 DEF Puts, TypeInv
  <2>4. QED
    BY <1>1, <1>3, <1>5, <2>2, <2>3 DEF Gone, Puts, Others
<1>6. ASSUME NEW b \in Attempts, Others(b), Reads(b) PROVE Gone(a)'
  <2>1. PICK p \in Owners : p = Request(b).owner
    BY <1>2, RequestFacts DEF Requests
  <2>2. PICK c : c = slot[p]
    OBVIOUS
  <2>3. CheckPending(c) /\ invocations'[b].confirmation = c /\ UNCHANGED slot
    BY <1>6, <2>1, <2>2 DEF Reads
  <2>4. c.id # Request(a).key
    <3>1. SUFFICES ASSUME c.id = Request(a).key PROVE FALSE
      OBVIOUS
    <3>2. WasPut(p, c)
      BY <2>1, <2>2, <2>3 DEF CommandInv, SlotInv, CheckPending, NoConfirmation
    <3>3. p = o
      BY <1>1, <3>1, <3>2, SoleAsker DEF PutBy
    <3>4. QED
      BY <1>1, <2>2, <2>3, <3>1, <3>3 DEF Gone
  <2>5. QED
    BY <1>1, <1>3, <1>6, <2>3, <2>4 DEF Gone, Others
<1>7. ASSUME NEW b \in Attempts, Others(b), NEW status \in {"CONSUMED", "CANCELLED"},
             Request(b).op \in {"confirm", "cancel"}, PutsBack(b, status),
             invocations'[b].stage # "put"
      PROVE  Gone(a)'
  <2>1. PICK d : d = [invocations[b].confirmation EXCEPT !.status = status]
    OBVIOUS
  <2>2. d.status = status
    BY <1>7, <2>1, PutsBackWasPut
  <2>3. slot'[o] = slot[o] \/ slot'[o] = d
    BY <1>1, <1>2, <1>7, <2>1 DEF PutsBack, TypeInv
  <2>4. QED
    BY <1>1, <1>3, <1>7, <2>2, <2>3 DEF Gone, Others, CheckPending
<1>8. ASSUME NEW p \in Owners, Expires(p), UNCHANGED invocations PROVE Gone(a)'
  <2>1. slot'[o].id = slot[o].id /\ (~slot'[o].expired => slot'[o] = slot[o])
    BY <1>1, <1>2, <1>8 DEF Expires, TypeInv, Confirmations
  <2>2. QED
    BY <1>1, <1>3, <1>8, <2>1 DEF Gone, CheckPending
<1>9. QED
  BY <1>4, <1>5, <1>6, <1>7, <1>8, SlotSteps DEF Consumes, Cancels

-----------------------------------------------------------------------------
LEMMA SpendStep == CommandInv /\ SpendInv /\ Next => SpendInv'
<1> SUFFICES ASSUME CommandInv, SpendInv, Next, NEW a \in Attempts, Sole(a)'
             PROVE  SpentOnce(a)'
  BY FreshStep DEF SpendInv
<1>1. /\ FreshInv /\ Sole(a) /\ SpentOnce(a)
      /\ \A b \in Attempts : Request(b)' = Request(b)
  BY SoleStays DEF SpendInv
<1>2. \A b \in Attempts : Takes(b, a) => ~Spent(a) /\ Others(b)
  <2>1. ASSUME NEW b \in Attempts, Takes(b, a) PROVE Others(b)
    <3>1. invocations'[b] # invocations[b]
      BY <2>1 DEF Takes, Consumes, PutsBack
    <3>2. QED
      BY <3>1, StepEffect DEF Others
  <2>2. QED
    BY <1>1, <2>1, SpentIsNotTaken
<1>3. \A b \in Attempts : Holds(b, a)' => Holds(b, a) \/ Takes(b, a)
  BY HoldsStep
<1>4. \A b \in Attempts : Holds(b, a) => Spent(a)
  BY DEF Spent
<1>5. \A k \in Keys : Sent(k, a) => Spent(a)
  BY DEF Spent
<1>6. \A k \in Keys : Sent(k, a)' =>
         \/ Sent(k, a)
         \/ \E b \in Attempts : Holds(b, a) /\ ~Holds(b, a)' /\ Request(b).key = k
  BY <1>1, SentStep
<1>7. ASSUME NEW b \in Attempts, NEW c \in Attempts, Takes(b, a), Takes(c, a) PROVE b = c
  <2>1. Others(b) /\ invocations'[c] # invocations[c]
    BY <1>2, <1>7 DEF Takes, Consumes, PutsBack
  <2>2. QED
    BY <2>1 DEF Others
<1>8. ASSUME NEW b \in Attempts, NEW c \in Attempts, Holds(b, a)', Holds(c, a)' PROVE b = c
  BY <1>1, <1>2, <1>3, <1>4, <1>7, <1>8 DEF SpentOnce
<1>9. ASSUME NEW b \in Attempts, NEW k \in Keys, Holds(b, a)', Sent(k, a)' PROVE FALSE
  BY <1>1, <1>2, <1>3, <1>4, <1>5, <1>6, <1>9 DEF SpentOnce
<1>10. ASSUME NEW k \in Keys, NEW l \in Keys, Sent(k, a)', Sent(l, a)' PROVE k = l
  BY <1>1, <1>6, <1>10 DEF SpentOnce
<1>11. ASSUME Spent(a)' PROVE Outdated(a)' \/ Blocked(a)' \/ Gone(a)'
  <2>1. CASE Spent(a)
    BY <1>1, <2>1, OutdatedStays, BlockedStays, GoneStays DEF SpentOnce
  <2>2. CASE \E b \in Attempts : Takes(b, a)
    <3>1. PICK b \in Attempts : Takes(b, a)
      BY <2>2
    <3>2. PICK o \in Owners : o = Request(a).owner
      BY RequestFacts DEF CommandInv, Requests
    <3>3. PICK d : d = [invocations[b].confirmation EXCEPT !.status = "CONSUMED"]
      OBVIOUS
    <3>4. /\ d.status = "CONSUMED" /\ d.version = invocations[a].confirmation.version
          /\ slot' = [slot EXCEPT ![o] = d]
      <4>1. Request(b).op = "confirm" /\ PutsBack(b, "CONSUMED")
        BY <3>1 DEF Takes, Consumes
      <4>2. d.status = "CONSUMED" /\ d.version = invocations[b].confirmation.version
        BY <3>3, <4>1, PutsBackWasPut
      <4>3. slot' = [slot EXCEPT ![Request(b).owner] = d]
        BY <3>3, <4>1 DEF PutsBack
      <4>4. QED
        BY <1>1, <3>1, <3>2, <4>2, <4>3, Taking
    <3>5. slot'[o] = d
      BY <3>2, <3>4 DEF CommandInv, TypeInv
    <3>6. invocations'[a].confirmation = invocations[a].confirmation
      <4>1. b # a
        BY <1>1, <3>1 DEF Takes, Consumes, Sole
      <4>2. QED
        BY <1>2, <3>1, <4>1 DEF Others
    <3>7. Blocked(a)'
      BY <1>1, <3>2, <3>4, <3>5, <3>6 DEF Blocked
    <3>8. QED
      BY <3>7
  <2>3. QED
    BY <1>1, <1>11, <2>1, <2>2, SpentStep
<1>12. QED
  BY <1>8, <1>9, <1>10, <1>11 DEF SpentOnce

LEMMA SpendHolds == Spec => []SpendInv
<1>1. Init => SpendInv
  <2> SUFFICES ASSUME Init PROVE SpendInv
    OBVIOUS
  <2>1. FreshInv
    BY DEF Init, Idle, NoConfirmation, FreshInv
  <2>2. ASSUME NEW a \in Attempts, Sole(a)
        PROVE  (\A b \in Attempts : ~Holds(b, a)) /\ (\A k \in Keys : ~Sent(k, a))
    <3>1. Request(a).key # NoWorkflow
      BY <2>2, TypeInit, RequestFacts, NoWorkflowAssumption DEF Sole, Keys
    <3>2. QED
      BY <3>1 DEF Init, Idle, NoCommand, Holds, At, Sent
  <2>3. QED
    BY <2>1, <2>2 DEF SpendInv, SpentOnce, Spent
<1>2. CommandInv /\ SpendInv /\ [Next]_vars => SpendInv'
  <2>1. CASE UNCHANGED vars
    BY <2>1 DEF vars, SpendInv, FreshInv, Sole, AsksAlone, SpentOnce, Spent, Holds, Sent, At,
                Outdated, Blocked, Gone, CheckPending, Request
  <2>2. QED
    BY <2>1, SpendStep
<1>3. QED
  BY <1>1, <1>2, CommandHolds, PTL DEF Spec

\* Nothing is destroyed without a confirmation: a destructive command stems from
\* what the session's owner asked for, the session was not stored between the
\* asking and the confirming, and a confirmation whose owner's others are for the
\* same session makes one command at the most, whatever interactions race.
THEOREM DestructionConfirmed == Spec => []DestructiveIsConfirmed
<1>1. CommandInv /\ SpendInv => DestructiveIsConfirmed
  <2> SUFFICES ASSUME CommandInv, SpendInv PROVE DestructiveIsConfirmed
    OBVIOUS
  <2>1. ASSUME NEW k \in Keys, queue[k].kind \in Destructive
        PROVE  \E a \in Attempts : StemsFrom(a, k)
    BY <2>1 DEF CommandInv, QueueInv
  <2>2. ASSUME NEW a \in Attempts, Request(a).op = "ask", AsksAlone(a),
               NEW k \in Keys, NEW l \in Keys, queue[k].confirmation = Request(a).key,
               queue[l].confirmation = Request(a).key
        PROVE  k = l
    BY <2>2 DEF SpendInv, Sole, SpentOnce, Sent
  <2>3. QED
    BY <2>1, <2>2 DEF CommandInv, ConsumedInv, DestructiveIsConfirmed, StemsFrom
<1>2. QED
  BY <1>1, CommandHolds, SpendHolds, PTL
=============================================================================
