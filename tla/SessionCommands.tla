---------------------------- MODULE SessionCommands ----------------------------
(***************************************************************************)
(* What a Discord interaction may ask of a session: create one, edit one,  *)
(* request a lifecycle operation, or ask for, confirm and cancel one that  *)
(* destroys.                                                               *)
(*                                                                         *)
(* Every invocation runs on its own, reads and writes the table in         *)
(* separate steps, and may stop after any of them; an answer may be lost   *)
(* after its write was committed; and an interaction may be delivered to   *)
(* two invocations.  What holds the table together are the conditions of   *)
(* its transactions: the version of the session, the claim of its slug,    *)
(* the record of the interaction's key, and the status of the owner's one  *)
(* confirmation slot.                                                      *)
(*                                                                         *)
(* Sessions are those of one guild, and their lifecycle is that of         *)
(* SessionLifecycle.  A workflow is reduced to its beginning and its end.  *)
(***************************************************************************)
EXTENDS SessionLifecycle, Naturals, Sequences, FiniteSets

CONSTANTS
    Attempts,       \* invocations; the session that one creates has its name
    Existing,       \* the sessions stored at the start
    Owners,
    NoSession,
    Situations,     \* what is stored and asked: sets of [stored, legacy, requests]
    MaxCandidate    \* bound on maximumSlugCollisionAttempts

Stored == Attempts \cup Existing
Keys == Workflows       \* an interaction's ID names its request and its command

ASSUME CommandsAssumption ==
    /\ Attempts \cap Existing = {} /\ NoSession \notin Stored
    /\ MaxCandidate \in Nat \ {0}

Requests ==
    [op : {"none", "create", "edit", "lifecycle", "ask", "confirm", "cancel"},
     key : Keys \cup {NoWorkflow}, owner : Owners, target : Stored \cup {NoSession},
     slug : STRING \X Nat, generated : BOOLEAN, kind : STRING, manager : BOOLEAN]

\* What was stored before has distinct slugs, and every interaction has an ID.
ASSUME SituationsAssumption ==
    \A now \in Situations :
        /\ DOMAIN now.stored \subseteq Existing
        /\ \A s \in DOMAIN now.stored :
             now.stored[s].owner \in Owners /\ now.stored[s].slug \in STRING \X Nat
        /\ \A s, t \in DOMAIN now.stored :
             now.stored[s].slug = now.stored[t].slug => s = t
        /\ now.requests \in [Attempts -> Requests]
        /\ \A a \in Attempts : now.requests[a].op # "none" =>
             /\ now.requests[a].key \in Keys
             /\ now.requests[a].op \in {"edit", "lifecycle", "ask"}
                   => now.requests[a].target \in Stored

VARIABLES
    situation,
    sessions,       \* the session items
    items,          \* what they hold besides the lifecycle: owner, slug, version, edits
    claims,         \* the slug claims of the guild
    records,        \* the idempotency records
    slot,           \* each owner's confirmation item
    invocations,
    queue,          \* the commands sent, by command ID
    cancelled       \* history: the confirmations whose cancellation was stored

vars == <<situation, sessions, items, claims, records, slot, invocations, queue, cancelled>>
table == <<sessions, items, claims, records, slot>>

NoItem == [owner |-> "none", slug |-> <<"none", 0>>, version |-> 0, edits |-> <<>>]
NoRecord == [request |-> [op |-> "none"], session |-> NoSession]
NoConfirmation == [id |-> NoWorkflow, session |-> NoSession, kind |-> "none", life |-> "none",
                   version |-> 0, status |-> "none", expired |-> FALSE]
NoCommand == [kind |-> "none", session |-> NoSession, confirmation |-> NoWorkflow,
              handled |-> FALSE]
Idle == [stage |-> "idle", session |-> NoSession, item |-> NoItem, copy |-> NoSession,
         kind |-> "none", candidate |-> 0, conflict |-> FALSE, confirmation |-> NoConfirmation,
         answer |-> NoSession]

Request(a) == situation.requests[a]
Exists(s) == items[s].version # 0

\* An invocation that has no request of this kind, or has taken the step before.
At(a, op, stage) == Request(a).op = op /\ invocations[a].stage = stage

Go(a, stage) == invocations' = [invocations EXCEPT ![a].stage = stage]
Refuse(a) == Go(a, "refused") /\ UNCHANGED <<situation, table, queue, cancelled>>
Answered(a, s) ==
    invocations' = [invocations EXCEPT ![a].stage = "answered", ![a].answer = s]

-----------------------------------------------------------------------------
Fresh(life) ==
    [life |-> life,
     health |-> CASE life = "RUNNING" -> "HEALTHY" [] life = "SLEEPING" -> "STOPPED"
                  [] OTHER -> "UNKNOWN",
     lock |-> NoWorkflow, kind |-> "none", lease |-> "none", source |-> "none",
     infra |-> IF life \in {"RUNNING", "SLEEPING"} THEN "complete" ELSE "none",
     archive |-> NoWorkflow, asleep |-> life = "SLEEPING", lastKind |-> "none",
     progress |-> "none", probe |-> FALSE]

\* A session stored before the claims were introduced has a slug without one.
Init ==
    /\ situation \in Situations
    /\ sessions = [s \in Stored |-> IF s \in DOMAIN situation.stored
                                    THEN Fresh(situation.stored[s].life) ELSE Fresh("DRAFT")]
    /\ items = [s \in Stored |->
                  IF s \in DOMAIN situation.stored
                  THEN [owner |-> situation.stored[s].owner, slug |-> situation.stored[s].slug,
                        version |-> 1, edits |-> <<>>]
                  ELSE NoItem]
    /\ claims = {situation.stored[s].slug : s \in DOMAIN situation.stored \ situation.legacy}
    /\ records = [k \in Keys |-> NoRecord]
    /\ slot = [o \in Owners |-> NoConfirmation]
    /\ invocations = [a \in Attempts |-> Idle]
    /\ queue = [k \in Keys |-> NoCommand]
    /\ cancelled = {}

-----------------------------------------------------------------------------
(* The idempotency record: replaySession *)

Recorded(a) == records[Request(a).key] # NoRecord

\* An interaction that was answered is answered again, whatever it did then;
\* one whose key names another request is refused.
Replay(a, otherwise) ==
    IF Recorded(a)
    THEN /\ IF records[Request(a).key].request = Request(a)
            THEN Answered(a, records[Request(a).key].session)
            ELSE Go(a, "refused")
         /\ UNCHANGED <<situation, table, queue, cancelled>>
    ELSE otherwise

Commit(a, s) ==
    records' = [records EXCEPT ![Request(a).key] = [request |-> Request(a), session |-> s]]

-----------------------------------------------------------------------------
(* Creation: Service.Create and Repository.Create *)

slugCollisionCandidate(base, n) == IF n <= 1 THEN base ELSE <<base[1], n>>
Candidate(a) == slugCollisionCandidate(Request(a).slug, invocations[a].candidate)

CreateReplay(a) ==
    /\ At(a, "create", "idle")
    /\ Replay(a, /\ invocations' = [invocations EXCEPT ![a].stage = "scan", ![a].candidate = 1]
                 /\ UNCHANGED <<situation, table, queue, cancelled>>)

\* The scan of the table for a session that has the slug without a claim.
legacyGuildSlugExists(a) ==
    /\ At(a, "create", "scan")
    /\ LET found == \E s \in Stored : Exists(s) /\ items[s].slug = Candidate(a)
       IN  invocations' = [invocations EXCEPT ![a].stage = IF found THEN "again" ELSE "create",
                                              ![a].conflict = found]
    /\ UNCHANGED <<situation, table, queue, cancelled>>

\* Mutant: the claim of the slug is put without a condition.
CreatesUnclaimed(a) == ~Exists(a) /\ ~Recorded(a)

CanCreate(a) == ~Exists(a) /\ ~Recorded(a) /\ Candidate(a) \notin claims

\* One transaction; its answer may be lost.
CreateSession(a) ==
    /\ At(a, "create", "create")
    /\ \/ /\ CanCreate(a)
          /\ sessions' = [sessions EXCEPT ![a] = Fresh("DRAFT")]
          /\ items' = [items EXCEPT ![a] = [owner |-> Request(a).owner, slug |-> Candidate(a),
                                            version |-> 1, edits |-> <<Request(a).key>>]]
          /\ claims' = claims \cup {Candidate(a)}
          /\ Commit(a, a)
          /\ \/ Answered(a, a)
             \/ invocations' = [invocations EXCEPT ![a].stage = "again", ![a].conflict = FALSE]
       \/ /\ ~CanCreate(a)
          /\ invocations' = [invocations EXCEPT ![a].stage = "again",
                                                ![a].conflict = Candidate(a) \in claims]
          /\ UNCHANGED <<sessions, items, claims, records>>
    /\ UNCHANGED <<situation, slot, queue, cancelled>>

\* Only a slug that was generated is replaced, and only for a conflict.
CreateAgain(a) ==
    /\ At(a, "create", "again")
    /\ Replay(a, IF /\ Request(a).generated /\ invocations[a].conflict
                    /\ invocations[a].candidate < MaxCandidate
                 THEN /\ invocations' = [invocations EXCEPT ![a].stage = "scan",
                                                            ![a].candidate = @ + 1]
                      /\ UNCHANGED <<situation, table, queue, cancelled>>
                 ELSE Refuse(a))

-----------------------------------------------------------------------------
(* An edit: UpdateDescription, and ExtendLifecycleTimeouts that has its shape *)

EditReplay(a) ==
    /\ At(a, "edit", "idle")
    /\ Replay(a, Go(a, "load") /\ UNCHANGED <<situation, table, queue, cancelled>>)

Allows(a, s) ==
    /\ Exists(s) /\ Request(a).owner = items[s].owner
    /\ sessions[s].life # "DELETED"

EditLoad(a) ==
    /\ At(a, "edit", "load")
    /\ LET s == Request(a).target
       IN  IF Allows(a, s)
           THEN /\ invocations' = [invocations EXCEPT ![a].stage = "save",
                                     ![a].session = s, ![a].item = items[s],
                                     ![a].copy = sessions[s]]
                /\ UNCHANGED <<situation, table, queue, cancelled>>
           ELSE Refuse(a)

\* Mutant: the version alone is checked, a record is overwritten.
CanSaveUnrecorded(a) == items[invocations[a].session].version = invocations[a].item.version

CanSave(a) ==
    ~Recorded(a) /\ items[invocations[a].session].version = invocations[a].item.version

\* SaveWithEvent puts the whole item that was read, with the edit.
SaveWithEvent(a) ==
    /\ At(a, "edit", "save")
    /\ LET i == invocations[a] IN
       \/ /\ CanSave(a)
          /\ sessions' = [sessions EXCEPT ![i.session] = i.copy]
          /\ items' = [items EXCEPT ![i.session] =
                         [i.item EXCEPT !.version = @ + 1,
                                        !.edits = Append(@, Request(a).key)]]
          /\ Commit(a, i.session)
          /\ Answered(a, i.session) \/ Go(a, "again")
       \/ /\ ~CanSave(a) /\ Go(a, "again")
          /\ UNCHANGED <<sessions, items, records>>
    /\ UNCHANGED <<situation, claims, slot, queue, cancelled>>

EditAgain(a) == At(a, "edit", "again") /\ Replay(a, Refuse(a))

-----------------------------------------------------------------------------
(* The command queue: FIFO, and it drops a command ID that it has seen *)

Envelope(kind, s, id) ==
    [kind |-> kind, session |-> s, confirmation |-> id, handled |-> FALSE]

Enqueued(a, command) ==
    IF queue[Request(a).key] = NoCommand
    THEN [queue EXCEPT ![Request(a).key] = command] ELSE queue

\* The send is acknowledged, fails, or fails after it was accepted.
Enqueue(a, command) ==
    /\ \/ queue' = Enqueued(a, command) /\ Go(a, "answered")
       \/ queue' \in {queue, Enqueued(a, command)} /\ Go(a, "refused")
    /\ UNCHANGED <<situation, table, cancelled>>

-----------------------------------------------------------------------------
(* A lifecycle operation: RequestLifecycle and RequestStart *)

Destructive == {"Archive", "Terminate"}

activeOperation(s) == sessions[s].lock # NoWorkflow /\ sessions[s].lease = "live"

\* What a start asks for goes by the state the session is in.
StartKind(s) ==
    CASE CanRestore(s) -> "Restore"
      [] s.life = "SLEEPING" -> "Wake"
      [] CanStartInfrastructureProvisioning(s) -> "Provision"
      [] OTHER -> "Bootstrap"

KindAsked(a, s) == IF Request(a).kind = "start" THEN StartKind(sessions[s]) ELSE Request(a).kind

\* The owner; who manages the guild may sleep, wake and restart any session.
authorizeLifecycleActor(a, s) ==
    \/ Request(a).owner = items[s].owner
    \/ Request(a).manager /\ KindAsked(a, s) \in {"Sleep", "Wake", "Restart"}

RequestLifecycle(a) ==
    /\ At(a, "lifecycle", "idle")
    /\ LET s == Request(a).target IN
       IF /\ Exists(s) /\ authorizeLifecycleActor(a, s)
          /\ ~activeOperation(s)
          /\ KindAsked(a, s) \notin Destructive     \* ErrConfirmationRequired
          /\ CanBegin(sessions[s], KindAsked(a, s))
       THEN /\ invocations' = [invocations EXCEPT ![a].stage = "enqueue", ![a].session = s,
                                                  ![a].kind = KindAsked(a, s)]
            /\ UNCHANGED <<situation, table, queue, cancelled>>
       ELSE Refuse(a)

\* The table's capacity may be taken.
CapacityIsTaken(a) ==
    /\ At(a, "lifecycle", "enqueue") /\ invocations[a].kind \in {"Wake", "Provision", "Bootstrap"}
    /\ Refuse(a)

EnqueueLifecycle(a) ==
    /\ At(a, "lifecycle", "enqueue")
    /\ Enqueue(a, Envelope(invocations[a].kind, invocations[a].session, NoWorkflow))

-----------------------------------------------------------------------------
(* Asking for a destructive operation: RequestConfirmation *)

CanAsk(a, s) ==
    /\ Exists(s) /\ Request(a).owner = items[s].owner
    /\ ~activeOperation(s)
    /\ CanBegin(sessions[s], Request(a).kind)

NewConfirmation(a, s) ==
    [id |-> Request(a).key, session |-> s, kind |-> Request(a).kind,
     life |-> sessions[s].life, version |-> items[s].version,
     status |-> "PENDING", expired |-> FALSE]

RequestConfirmation(a) ==
    /\ At(a, "ask", "idle")
    /\ LET s == Request(a).target IN
       IF CanAsk(a, s)
       THEN /\ invocations' = [invocations EXCEPT ![a].stage = "put",
                                                  ![a].confirmation = NewConfirmation(a, s)]
            /\ UNCHANGED <<situation, table, queue, cancelled>>
       ELSE Refuse(a)

\* The session is still the one the confirmation was made for.
confirmationSessionCheck(c) ==
    /\ c.session # NoSession
    /\ items[c.session].version = c.version /\ sessions[c.session].life = c.life

SlotIsFree(held, new) ==
    \/ held = NoConfirmation
    \/ /\ held.id # new.id
       /\ \/ held.status = "CANCELLED" \/ held.expired
          \/ held.status = "CONSUMED" /\ (held.session # new.session \/ held.version # new.version)

CreateConfirmation(a) ==
    /\ At(a, "ask", "put")
    /\ LET new == invocations[a].confirmation
           owner == Request(a).owner
           held == slot[owner]
       IN  IF SlotIsFree(held, new) /\ confirmationSessionCheck(new)
           THEN /\ slot' = [slot EXCEPT ![owner] = new]
                /\ Go(a, "answered")
                /\ UNCHANGED <<situation, sessions, items, claims, records, queue, cancelled>>
           ELSE \* the delivery that came first has put it
                IF held = new THEN Go(a, "answered")
                                  /\ UNCHANGED <<situation, table, queue, cancelled>>
                ELSE Refuse(a)

-----------------------------------------------------------------------------
(* Confirming and cancelling: ConsumeConfirmation, CancelConfirmation *)

CheckPending(c) == c.status = "PENDING" /\ ~c.expired

\* The item is read, and all of it is put back with another status.
ReadConfirmation(a) ==
    /\ Request(a).op \in {"confirm", "cancel"} /\ invocations[a].stage = "idle"
    /\ LET c == slot[Request(a).owner] IN
       IF CheckPending(c)
       THEN /\ invocations' = [invocations EXCEPT ![a].stage = "put", ![a].confirmation = c]
            /\ UNCHANGED <<situation, table, queue, cancelled>>
       ELSE Refuse(a)

\* Mutant: a confirmation is put back whatever its status has become.
CanConsumeAnyStatus(a) == confirmationSessionCheck(invocations[a].confirmation)

CanConsume(a) ==
    /\ slot[Request(a).owner].status = "PENDING"
    /\ confirmationSessionCheck(invocations[a].confirmation)

\* The transaction is committed, refused, or committed without an answer.
ConsumeConfirmation(a) ==
    /\ At(a, "confirm", "put")
    /\ LET c == invocations[a].confirmation IN
       IF CanConsume(a)
       THEN /\ slot' = [slot EXCEPT ![Request(a).owner] = [c EXCEPT !.status = "CONSUMED"]]
            /\ invocations' = [invocations EXCEPT
                                 ![a].stage = IF CanBegin(sessions[c.session], c.kind)
                                              THEN "enqueue" ELSE "refused",
                                 ![a].item = items[c.session]]
               \/ Go(a, "refused")
            /\ UNCHANGED <<situation, sessions, items, claims, records, queue, cancelled>>
       ELSE Refuse(a)

Confirm(a) ==
    /\ At(a, "confirm", "enqueue")
    /\ LET c == invocations[a].confirmation
       IN  Enqueue(a, Envelope(c.kind, c.session, c.id))

CancelConfirmation(a) ==
    /\ At(a, "cancel", "put")
    /\ LET c == invocations[a].confirmation IN
       IF slot[Request(a).owner].status = "PENDING"
       THEN /\ slot' = [slot EXCEPT ![Request(a).owner] = [c EXCEPT !.status = "CANCELLED"]]
            /\ cancelled' = cancelled \cup {c.id}
            /\ Go(a, "answered") \/ Go(a, "refused")
            /\ UNCHANGED <<situation, sessions, items, claims, records, queue>>
       ELSE Refuse(a)

\* Ten minutes pass; no invocation lasts as long.
Expire(o) ==
    /\ slot[o] # NoConfirmation /\ ~slot[o].expired
    /\ \A a \in Attempts : invocations[a].stage # "put"
    /\ slot' = [slot EXCEPT ![o].expired = TRUE]
    /\ UNCHANGED <<situation, sessions, items, claims, records, invocations, queue, cancelled>>

-----------------------------------------------------------------------------
(* Workflows, as far as a command sees them: SessionWorkflows has the rest *)

Store(s, session) ==
    /\ sessions' = [sessions EXCEPT ![s] = session]
    /\ items' = [items EXCEPT ![s].version = @ + 1]

\* The command worker checks again what the request has checked.
TakeCommand(k) ==
    /\ queue[k] # NoCommand /\ ~queue[k].handled
    /\ queue' = [queue EXCEPT ![k].handled = TRUE]
    /\ LET c == queue[k] IN
       IF CanBegin(sessions[c.session], c.kind)
       THEN Store(c.session, Begin(sessions[c.session], k, c.kind))
       ELSE UNCHANGED <<sessions, items>>
    /\ UNCHANGED <<situation, claims, records, slot, invocations, cancelled>>

\* A sleep, a wake and a termination may complete; any workflow may fail.
EndWorkflow(s) ==
    /\ Exists(s) /\ ~Unlocked(sessions[s])
    /\ \/ /\ sessions[s].kind \in {"Sleep", "Wake", "Restart", "Terminate"}
          /\ Store(s, Complete(sessions[s], sessions[s].kind))
       \/ Store(s, Fail(sessions[s], sessions[s].kind))
    /\ UNCHANGED <<situation, claims, records, slot, invocations, queue, cancelled>>

-----------------------------------------------------------------------------
Creation(a) ==
    CreateReplay(a) \/ legacyGuildSlugExists(a) \/ CreateSession(a) \/ CreateAgain(a)
Edit(a) == EditReplay(a) \/ EditLoad(a) \/ SaveWithEvent(a) \/ EditAgain(a)
Lifecycle(a) == RequestLifecycle(a) \/ CapacityIsTaken(a) \/ EnqueueLifecycle(a)
Confirmation(a) ==
    \/ RequestConfirmation(a) \/ CreateConfirmation(a) \/ ReadConfirmation(a)
    \/ ConsumeConfirmation(a) \/ Confirm(a) \/ CancelConfirmation(a)

Next ==
    \/ \E a \in Attempts : Creation(a) \/ Edit(a) \/ Lifecycle(a) \/ Confirmation(a)
    \/ \E o \in Owners : Expire(o)
    \/ \E k \in Keys : TakeCommand(k)
    \/ \E s \in Stored : EndWorkflow(s)

Spec == Init /\ [][Next]_vars

-----------------------------------------------------------------------------
\* No two sessions of a guild have the same slug: a slug is how a player names
\* a session, and GetByGuildSlug follows its claim to one.  A session without a
\* claim is found by a scan that runs before the transaction.
SlugsAreUnique ==
    \A s, t \in Stored : Exists(s) /\ Exists(t) /\ items[s].slug = items[t].slug => s = t

Effects(k, s) == Cardinality({n \in DOMAIN items[s].edits : items[s].edits[n] = k})

\* An interaction takes effect once, on one session, whatever is delivered
\* twice, overtaken or answered with an error; and what was answered or recorded
\* is there for good, although every save puts back a whole item.
AcceptedIsKept ==
    \A k \in Keys :
        /\ \A s \in Stored : Effects(k, s) <= 1
        /\ \A s, t \in Stored : Effects(k, s) + Effects(k, t) = 2 => s = t
        /\ records[k] # NoRecord => Effects(k, records[k].session) = 1
        /\ \A a \in Attempts :
             Request(a).key = k /\ invocations[a].answer # NoSession =>
                 Effects(k, invocations[a].answer) = 1

\* The owner's other confirmations are for the same session, and this one was
\* asked for by one delivery.
AsksAlone(a) ==
    \A b \in Attempts \ {a} : Request(b).op = "ask" =>
        /\ Request(b).key # Request(a).key
        /\ Request(b).owner = Request(a).owner => Request(b).target = Request(a).target

\* A command that destroys stems from a confirmation that its owner asked for,
\* for that session and that operation; no stored change of the session came
\* between the asking and the confirming; and a confirmation is spent once.  The
\* last does not hold of a slot that serves two sessions: a confirmation that two
\* interactions have read is put back, and so consumed, again as soon as the slot
\* holds the pending confirmation of the other session.
DestructiveIsConfirmed ==
    /\ \A k \in Keys : queue[k].kind \in Destructive =>
         \E a \in Attempts :
            /\ Request(a).op = "ask" /\ Request(a).key = queue[k].confirmation
            /\ Request(a).target = queue[k].session /\ Request(a).kind = queue[k].kind
            /\ Request(a).owner = items[queue[k].session].owner
    /\ \A a \in Attempts : At(a, "confirm", "enqueue") =>
         invocations[a].item.version = invocations[a].confirmation.version
    /\ \A a \in Attempts : Request(a).op = "ask" /\ AsksAlone(a) =>
         \A k, l \in Keys :
            queue[k].confirmation = Request(a).key /\ queue[l].confirmation = Request(a).key
                => k = l

\* "`/rb cancel-confirmation` cancels it": what was cancelled is not dispatched.
CancelledIsNotDispatched ==
    \A k \in Keys : queue[k].kind \in Destructive => queue[k].confirmation \notin cancelled
=============================================================================
