--------------------------- MODULE EnvironmentReset ---------------------------
(***************************************************************************)
(* The administrator's reset of a whole environment: a typed confirmation, *)
(* one environment-wide lock, a FIFO message, and a worker that takes the   *)
(* inventory of the metadata table, stops the executions, terminates the   *)
(* hosts, deletes volumes, objects and metadata, and looks again before it  *)
(* reports success.                                                        *)
(*                                                                         *)
(* Nothing else stops meanwhile.  Discord requests test the lock before    *)
(* they are handled and not when they write; a Lambda handler that was     *)
(* running when its execution was stopped goes on, and so does one that    *)
(* publishes a card; the worker itself may die anywhere.  The metadata      *)
(* table is kept to a session's own items, its card with the claim, and its *)
(* capacity slot, and a session's host to whether it runs or has left its   *)
(* data volume.                                                            *)
(***************************************************************************)
EXTENDS Naturals, FiniteSets

CONSTANTS
    Sessions,   \* session identifiers
    Resets,     \* reset operations; each has a confirmation of the same name
    NoReset     \* the lock of an environment that is not being reset

ASSUME NoResetAssumption == NoReset \notin Resets

VARIABLES
    row,            \* row[s]: the session's own items in the metadata table
    card,           \* sessions with a card item
    claim,          \* sessions whose published card has a control claim item
    slot,           \* sessions that own a capacity slot item
    host,           \* host[s]: the session's instance and its data volume
    objects,        \* sessions with objects under sessions/
    handler,        \* handler[s]: the Lambda handler of a workflow, if one runs
    publisher,      \* sessions that a handler has read to publish their card
    request,        \* requests that passed the check of the reset lock
    confirmation, operation,
    lock,           \* the environment's reset lock
    message,        \* reset operations whose message is on reset.fifo
    worker,         \* the reset worker: its operation, its stage, its inventory
    inFlight        \* history: sessions somebody was at work on at the second look

items == <<row, card, claim, slot>>
actors == <<handler, publisher, request>>
platformVars == <<items, host, objects, actors, inFlight>>
resetVars == <<confirmation, operation, lock, message, worker>>
vars == <<platformVars, resetVars>>

Stages == {"none", "inventory", "stop", "terminate", "volumes", "objects", "metadata",
           "verify metadata", "verify hosts", "verify objects", "verify executions",
           "succeed", "fail"}

Active(r) == operation[r] \in {"PENDING", "RUNNING"}
Nothing == [rows |-> {}, cards |-> {}, slots |-> {}]
AtRest == [op |-> NoReset, stage |-> "none", found |-> Nothing]
Inventories == [rows : SUBSET Sessions, cards : SUBSET Sessions, slots : SUBSET Sessions]

TypeOK ==
    /\ row \in [Sessions -> {"new", "present", "deleted"}]
    /\ card \subseteq Sessions /\ claim \subseteq Sessions /\ slot \subseteq Sessions
    /\ objects \subseteq Sessions
    /\ host \in [Sessions -> {"none", "up", "volume"}]
    /\ handler \in [Sessions -> {"none", "running", "stopped"}]
    /\ publisher \subseteq Sessions /\ request \subseteq Sessions
    /\ inFlight \subseteq Sessions
    /\ confirmation \in [Resets -> {"absent", "issued", "expired", "consumed", "deleted"}]
    /\ operation \in [Resets -> {"none", "PENDING", "RUNNING", "SUCCEEDED", "FAILED"}]
    /\ lock \in Resets \cup {NoReset} /\ message \subseteq Resets
    /\ worker \in [op : Resets \cup {NoReset}, stage : Stages, found : Inventories]

Init ==
    /\ row = [s \in Sessions |-> "new"]
    /\ card = {} /\ claim = {} /\ slot = {} /\ objects = {}
    /\ publisher = {} /\ request = {} /\ inFlight = {}
    /\ host = [s \in Sessions |-> "none"]
    /\ handler = [s \in Sessions |-> "none"]
    /\ confirmation = [r \in Resets |-> "absent"]
    /\ operation = [r \in Resets |-> "none"]
    /\ lock = NoReset /\ message = {} /\ worker = AtRest

-----------------------------------------------------------------------------
(* The platform that is being reset                                        *)

(* The interaction handler refuses a request while a reset is active ...    *)
AdmitRequest(s) ==
    /\ lock = NoReset
    /\ row[s] = "new" /\ s \notin request
    /\ request' = request \cup {s}
    /\ UNCHANGED <<items, host, objects, handler, publisher, inFlight, resetVars>>

(* ... which it does not look at again when the session is written.         *)
CreateSession(s) ==
    /\ s \in request
    /\ request' = request \ {s}
    /\ row' = [row EXCEPT ![s] = "present"]
    /\ UNCHANGED <<card, claim, slot, host, objects, handler, publisher, inFlight, resetVars>>

(* deliverCard reads the session, sends the card to Discord ...             *)
DeliverCard(s) ==
    /\ row[s] = "present"
    /\ publisher' = publisher \cup {s}
    /\ UNCHANGED <<items, host, objects, handler, request, inFlight, resetVars>>

(* ... and puts the card, and the claim that its buttons resolve through,   *)
(* whether the session is still there or not.                              *)
SaveCardReference(s) ==
    /\ s \in publisher
    /\ publisher' = publisher \ {s}
    /\ card' = card \cup {s} /\ claim' = claim \cup {s}
    /\ UNCHANGED <<row, slot, host, objects, handler, request, inFlight, resetVars>>

DeliveryFails(s) ==
    /\ s \in publisher
    /\ publisher' = publisher \ {s}
    /\ UNCHANGED <<items, host, objects, handler, request, inFlight, resetVars>>

StartWorkflow(s) ==
    /\ row[s] = "present" /\ handler[s] = "none"
    /\ handler' = [handler EXCEPT ![s] = "running"]
    /\ UNCHANGED <<items, host, objects, publisher, request, inFlight, resetVars>>

(* What a workflow's handler does to the world without a look at the        *)
(* session: reserve a capacity slot, launch a host, or write an archive or  *)
(* an input object.                                                        *)
AcquireCapacitySlot(s) ==
    /\ handler[s] # "none"
    /\ slot' = slot \cup {s}
    /\ UNCHANGED <<row, card, claim, host, objects, actors, inFlight, resetVars>>

LaunchHost(s) ==
    /\ handler[s] # "none" /\ host[s] = "none"
    /\ host' = [host EXCEPT ![s] = "up"]
    /\ UNCHANGED <<items, objects, actors, inFlight, resetVars>>

PutObject(s) ==
    /\ handler[s] # "none"
    /\ objects' = objects \cup {s}
    /\ UNCHANGED <<items, host, actors, inFlight, resetVars>>

HandlerEnds(s) ==
    /\ handler[s] # "none"
    /\ handler' = [handler EXCEPT ![s] = "none"]
    /\ UNCHANGED <<items, host, objects, publisher, request, inFlight, resetVars>>

-----------------------------------------------------------------------------
(* Confirmation and start                                                  *)

(* Prepare: a phrase that is good for ten minutes.                         *)
CreateResetConfirmation(r) ==
    /\ lock = NoReset
    /\ confirmation[r] = "absent"
    /\ confirmation' = [confirmation EXCEPT ![r] = "issued"]
    /\ UNCHANGED <<platformVars, operation, lock, message, worker>>

Expire(r) ==
    /\ confirmation[r] = "issued"
    /\ confirmation' = [confirmation EXCEPT ![r] = "expired"]
    /\ UNCHANGED <<platformVars, operation, lock, message, worker>>

(* ConsumeResetConfirmation: the phrase, the operation and the lock in one  *)
(* transaction.                                                            *)
ConsumeResetConfirmation(r) ==
    /\ confirmation[r] = "issued" /\ operation[r] = "none" /\ lock = NoReset
    /\ confirmation' = [confirmation EXCEPT ![r] = "consumed"]
    /\ operation' = [operation EXCEPT ![r] = "PENDING"]
    /\ lock' = r

(* Start: the message goes out afterwards, or does not.  A repeated start   *)
(* is answered with the operation and enqueues nothing.                    *)
Start(r) ==
    /\ ConsumeResetConfirmation(r)
    /\ message' \in {message \cup {r}, message}
    /\ UNCHANGED <<platformVars, worker>>

-----------------------------------------------------------------------------
(* The worker.  reset.fifo delivers a message once: a second delivery goes  *)
(* to the dead-letter queue, where it stays.                               *)

Receive(r) ==
    /\ worker = AtRest /\ r \in message
    /\ message' = message \ {r}
    /\ operation' = [operation EXCEPT ![r] = "RUNNING"]
    /\ worker' = [op |-> r, stage |-> "inventory", found |-> Nothing]
    /\ UNCHANGED <<platformVars, confirmation, lock>>

At(stage) == worker.stage = stage
Goto(stage) == worker' = [worker EXCEPT !.stage = stage]
OnlyWorker == UNCHANGED <<confirmation, operation, lock, message>>

Present == {s \in Sessions : row[s] = "present"}
Up == {s \in Sessions : host[s] = "up"}

(* preserveMetadataItem and runtimeMetadataEntity: the inventory is refused *)
(* when it meets an item of neither sort, and a card's control claim is one. *)
KnownEntities == claim = {}

InventoryMetadata ==
    /\ At("inventory")
    /\ worker' = IF KnownEntities
                 THEN [worker EXCEPT !.stage = "stop",
                          !.found = [rows |-> Present, cards |-> card, slots |-> slot]]
                 ELSE [worker EXCEPT !.stage = "fail"]
    /\ UNCHANGED platformVars /\ OnlyWorker

(* StopExecution ends the state machine, not a handler that is running.     *)
StopExecutions ==
    /\ At("stop") /\ Goto("terminate")
    /\ handler' = [s \in Sessions |-> IF handler[s] = "running" THEN "stopped" ELSE handler[s]]
    /\ UNCHANGED <<items, host, objects, publisher, request, inFlight>> /\ OnlyWorker

TerminateInstances ==
    /\ At("terminate") /\ Goto("volumes")
    /\ host' = [s \in Sessions |-> IF s \in Up THEN "volume" ELSE host[s]]
    /\ UNCHANGED <<items, objects, actors, inFlight>> /\ OnlyWorker

(* A volume in use is refused: some host was launched meanwhile.            *)
DeleteVolumes ==
    /\ At("volumes") /\ Goto(IF Up = {} THEN "objects" ELSE "fail")
    /\ host' = [s \in Sessions |-> IF host[s] = "volume" THEN "none" ELSE host[s]]
    /\ UNCHANGED <<items, objects, actors, inFlight>> /\ OnlyWorker

DeleteSessionObjects ==
    /\ At("objects") /\ Goto("metadata")
    /\ objects' = {}
    /\ UNCHANGED <<items, host, actors, inFlight>> /\ OnlyWorker

(* deleteMetadata deletes the keys of the inventory, one by one: among them *)
(* other operations and the confirmations.                                 *)
DeleteMetadata ==
    /\ At("metadata") /\ Goto("verify metadata")
    /\ row' = [s \in Sessions |-> IF s \in worker.found.rows THEN "deleted" ELSE row[s]]
    /\ card' = card \ worker.found.cards /\ slot' = slot \ worker.found.slots
    /\ confirmation' = [r \in Resets |->
          IF confirmation[r] = "absent" THEN "absent" ELSE "deleted"]
    /\ operation' = [r \in Resets |-> IF r = worker.op THEN operation[r] ELSE "none"]
    /\ UNCHANGED <<claim, host, objects, actors, inFlight, lock, message>>

(* verifyNoRuntimeDrift, one listing after the other.                       *)
VerifyMetadata ==
    /\ At("verify metadata")
    /\ Goto(IF Present = {} /\ card = {} /\ slot = {} /\ KnownEntities
            THEN "verify hosts" ELSE "fail")
    /\ inFlight' = {s \in Sessions : handler[s] # "none"} \cup publisher \cup request
    /\ UNCHANGED <<items, host, objects, actors>> /\ OnlyWorker

(* Mutant: the second look does not list the instances. *)
VerifyHostsBlindly ==
    /\ At("verify hosts") /\ Goto("verify objects")
    /\ UNCHANGED platformVars /\ OnlyWorker

VerifyHosts ==
    /\ At("verify hosts")
    /\ Goto(IF \A s \in Sessions : host[s] = "none" THEN "verify objects" ELSE "fail")
    /\ UNCHANGED platformVars /\ OnlyWorker

VerifyObjects ==
    /\ At("verify objects") /\ Goto(IF objects = {} THEN "verify executions" ELSE "fail")
    /\ UNCHANGED platformVars /\ OnlyWorker

VerifyExecutions ==
    /\ At("verify executions")
    /\ Goto(IF \E s \in Sessions : handler[s] = "running" THEN "fail" ELSE "succeed")
    /\ UNCHANGED platformVars /\ OnlyWorker

(* Any call of any stage may fail. *)
StageFails ==
    /\ worker.stage \notin {"none", "succeed", "fail"}
    /\ Goto("fail")
    /\ UNCHANGED platformVars /\ OnlyWorker

(* Mutant: the result is saved without the lock. *)
SaveResultOnly ==
    /\ worker.stage \in {"succeed", "fail"}
    /\ operation' = [operation EXCEPT ![worker.op] =
          IF At("succeed") THEN "SUCCEEDED" ELSE "FAILED"]
    /\ worker' = AtRest
    /\ UNCHANGED <<platformVars, confirmation, lock, message>>

(* SaveResetOperation: the result and the lock in one transaction.          *)
SaveResult ==
    /\ worker.stage \in {"succeed", "fail"}
    /\ operation' = [operation EXCEPT ![worker.op] =
          IF At("succeed") THEN "SUCCEEDED" ELSE "FAILED"]
    /\ lock' = NoReset
    /\ worker' = AtRest
    /\ UNCHANGED <<platformVars, confirmation, message>>

(* The worker times out: its message goes to the dead-letter queue.         *)
WorkerDies ==
    /\ worker # AtRest
    /\ worker' = AtRest
    /\ UNCHANGED platformVars /\ OnlyWorker

-----------------------------------------------------------------------------
Platform(s) ==
    \/ AdmitRequest(s) \/ CreateSession(s)
    \/ DeliverCard(s) \/ SaveCardReference(s) \/ DeliveryFails(s)
    \/ StartWorkflow(s) \/ AcquireCapacitySlot(s) \/ LaunchHost(s) \/ PutObject(s)
    \/ HandlerEnds(s)

Cleanup ==
    \/ InventoryMetadata \/ StopExecutions \/ TerminateInstances \/ DeleteVolumes
    \/ DeleteSessionObjects \/ DeleteMetadata
    \/ VerifyMetadata \/ VerifyHosts \/ VerifyObjects \/ VerifyExecutions
    \/ StageFails

Next ==
    \/ \E s \in Sessions : Platform(s)
    \/ \E r \in Resets :
          CreateResetConfirmation(r) \/ Expire(r) \/ Start(r) \/ Receive(r)
    \/ Cleanup \/ SaveResult \/ WorkerDies

Spec == Init /\ [][Next]_vars

-----------------------------------------------------------------------------
(* Properties                                                              *)

(* The lock item and the operation items are different items: the lock      *)
(* names exactly the operation that has no result yet, so that two resets   *)
(* never clean at once and none is locked out by one that has ended.       *)
LockNamesActiveReset == \A r \in Resets : Active(r) <=> lock = r

(* What is left of a session: an item, a host or its volume, an object.     *)
Remains(s) ==
    \/ s \in Present \cup card \cup claim \cup slot \cup objects
    \/ host[s] # "none"

(* A reset that reports success has deleted every session that it found, and *)
(* nothing at all is left but of sessions that somebody was at work on when  *)
(* the worker looked again: the lock keeps out all who come later, and those *)
(* who are at work need a session's items to set others to work.            *)
SuccessLeavesNothing ==
    [][\A r \in Resets :
          operation[r] = "RUNNING" /\ operation'[r] = "SUCCEEDED" =>
             /\ worker.found.rows \cap Present = {}
             /\ \A s \in Sessions : Remains(s) => s \in inFlight]_vars
=============================================================================
