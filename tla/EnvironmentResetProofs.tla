------------------------ MODULE EnvironmentResetProofs ------------------------
(***************************************************************************)
(* Proofs about the reset of an environment, for any number of sessions    *)
(* and reset operations: the lock names exactly the operation without a    *)
(* result, and success leaves nothing but what was in flight.              *)
(***************************************************************************)
EXTENDS EnvironmentReset, TLAPS

-----------------------------------------------------------------------------
(* Types                                                                   *)

(* One lemma for each part of Next, so that no leaf sees them all.          *)
LEMMA PlatformTyped ==
    ASSUME TypeOK, NEW s \in Sessions, Platform(s) PROVE TypeOK'
<1> USE DEF TypeOK, items, actors, resetVars
<1>1. CASE AdmitRequest(s)
  BY <1>1 DEF AdmitRequest
<1>2. CASE CreateSession(s)
  BY <1>2 DEF CreateSession
<1>3. CASE DeliverCard(s)
  BY <1>3 DEF DeliverCard
<1>4. CASE SaveCardReference(s)
  BY <1>4 DEF SaveCardReference
<1>5. CASE DeliveryFails(s)
  BY <1>5 DEF DeliveryFails
<1>6. CASE StartWorkflow(s)
  BY <1>6 DEF StartWorkflow
<1>7. CASE AcquireCapacitySlot(s)
  BY <1>7 DEF AcquireCapacitySlot
<1>8. CASE LaunchHost(s)
  BY <1>8 DEF LaunchHost
<1>9. CASE PutObject(s)
  BY <1>9 DEF PutObject
<1>10. CASE HandlerEnds(s)
  BY <1>10 DEF HandlerEnds
<1>11. QED
  BY <1>1, <1>2, <1>3, <1>4, <1>5, <1>6, <1>7, <1>8, <1>9, <1>10 DEF Platform

LEMMA ResetTyped ==
    ASSUME TypeOK, NEW r \in Resets,
           CreateResetConfirmation(r) \/ Expire(r) \/ Start(r) \/ Receive(r)
    PROVE  TypeOK'
<1> USE DEF TypeOK, items, actors
<1>1. CASE CreateResetConfirmation(r)
  BY <1>1 DEF CreateResetConfirmation, platformVars
<1>2. CASE Expire(r)
  BY <1>2 DEF Expire, platformVars
<1>3. CASE Start(r)
  BY <1>3 DEF Start, ConsumeResetConfirmation, platformVars
<1>4. CASE Receive(r)
  BY <1>4 DEF Receive, platformVars, Stages, Nothing, Inventories
<1>5. QED
  BY <1>1, <1>2, <1>3, <1>4

(* A step of the cleanup goes to another stage and keeps the operation.     *)
LEMMA WorkerTyped ==
    ASSUME TypeOK, Cleanup
    PROVE  /\ worker' \in [op : {worker.op}, stage : Stages, found : Inventories]
           /\ worker.stage \notin {"none", "succeed", "fail"}
           /\ worker'.stage # "none"
           /\ lock' = lock /\ message' = message
<1> USE DEF TypeOK, Stages, At, Goto, OnlyWorker
<1>1. CASE InventoryMetadata
  BY <1>1 DEF InventoryMetadata, Present, Inventories
<1>2. CASE StopExecutions
  BY <1>2 DEF StopExecutions
<1>3. CASE TerminateInstances
  BY <1>3 DEF TerminateInstances
<1>4. CASE DeleteVolumes
  BY <1>4 DEF DeleteVolumes
<1>5. CASE DeleteSessionObjects
  BY <1>5 DEF DeleteSessionObjects
<1>6. CASE DeleteMetadata
  BY <1>6 DEF DeleteMetadata
<1>7. CASE VerifyMetadata
  BY <1>7 DEF VerifyMetadata
<1>8. CASE VerifyHosts
  BY <1>8 DEF VerifyHosts
<1>9. CASE VerifyObjects
  BY <1>9 DEF VerifyObjects
<1>10. CASE VerifyExecutions
  BY <1>10 DEF VerifyExecutions
<1>11. CASE StageFails
  BY <1>11 DEF StageFails
<1>12. QED
  BY <1>1, <1>2, <1>3, <1>4, <1>5, <1>6, <1>7, <1>8, <1>9, <1>10, <1>11 DEF Cleanup

LEMMA CleanupTyped ==
    ASSUME TypeOK, Cleanup PROVE TypeOK'
<1>1. /\ worker' \in [op : Resets \cup {NoReset}, stage : Stages, found : Inventories]
      /\ lock' \in Resets \cup {NoReset} /\ message' \subseteq Resets
  BY WorkerTyped DEF TypeOK
<1> USE DEF TypeOK, platformVars, items, actors, OnlyWorker, Up
<1>2. CASE InventoryMetadata
  BY <1>1, <1>2 DEF InventoryMetadata
<1>3. CASE StopExecutions
  BY <1>1, <1>3 DEF StopExecutions
<1>4. CASE TerminateInstances
  BY <1>1, <1>4 DEF TerminateInstances
<1>5. CASE DeleteVolumes
  BY <1>1, <1>5 DEF DeleteVolumes
<1>6. CASE DeleteSessionObjects
  BY <1>1, <1>6 DEF DeleteSessionObjects
<1>7. CASE DeleteMetadata
  BY <1>1, <1>7 DEF DeleteMetadata
<1>8. CASE VerifyMetadata
  BY <1>1, <1>8 DEF VerifyMetadata
<1>9. CASE VerifyHosts
  BY <1>1, <1>9 DEF VerifyHosts
<1>10. CASE VerifyObjects
  BY <1>1, <1>10 DEF VerifyObjects
<1>11. CASE VerifyExecutions
  BY <1>1, <1>11 DEF VerifyExecutions
<1>12. CASE StageFails
  BY <1>1, <1>12 DEF StageFails
<1>13. QED
  BY <1>2, <1>3, <1>4, <1>5, <1>6, <1>7, <1>8, <1>9, <1>10, <1>11, <1>12 DEF Cleanup

LEMMA NextTyped == TypeOK /\ [Next]_vars => TypeOK'
<1> SUFFICES ASSUME TypeOK, [Next]_vars PROVE TypeOK'
  OBVIOUS
<1>1. ASSUME NEW s \in Sessions, Platform(s) PROVE TypeOK'
  BY <1>1, PlatformTyped
<1>2. ASSUME NEW r \in Resets,
             CreateResetConfirmation(r) \/ Expire(r) \/ Start(r) \/ Receive(r)
      PROVE  TypeOK'
  BY <1>2, ResetTyped
<1>3. CASE Cleanup
  BY <1>3, CleanupTyped
<1>4. CASE SaveResult
  BY <1>4 DEF SaveResult, TypeOK, AtRest, Nothing, Inventories, Stages, platformVars, items,
              actors
<1>5. CASE WorkerDies
  BY <1>5 DEF WorkerDies, TypeOK, AtRest, Nothing, Inventories, Stages, platformVars, items,
              actors, OnlyWorker
<1>6. CASE UNCHANGED vars
  BY <1>6 DEF vars, platformVars, resetVars, items, actors, TypeOK
<1>7. QED
  BY <1>1, <1>2, <1>3, <1>4, <1>5, <1>6 DEF Next

(* Every variable keeps its type, whatever the worker's stages do.          *)
THEOREM TypeCorrect == Spec => []TypeOK
<1>1. Init => TypeOK
  BY DEF Init, TypeOK, AtRest, Nothing, Inventories, Stages
<1>2. QED
  BY <1>1, NextTyped, PTL DEF Spec

-----------------------------------------------------------------------------
(* The lock                                                                *)

(* Only the operation that holds the lock is waited for, run or saved: the  *)
(* message and the worker say in which of the two active states it is.      *)
ResetInv ==
    /\ TypeOK
    /\ LockNamesActiveReset
    /\ \A r \in message : operation[r] = "PENDING"
    /\ worker.stage # "none" => worker.op \in Resets /\ operation[worker.op] = "RUNNING"
    /\ worker.stage = "none" => worker = AtRest

LEMMA ResetInvInit == Init => ResetInv
<1>1. Init => TypeOK
  BY DEF Init, TypeOK, AtRest, Nothing, Inventories, Stages
<1>2. QED
  BY <1>1, NoResetAssumption DEF Init, ResetInv, LockNamesActiveReset, Active, AtRest

(* The platform's actors never touch what belongs to the resets.            *)
LEMMA PlatformLeavesReset ==
    ASSUME NEW s \in Sessions, Platform(s) PROVE UNCHANGED resetVars
BY DEF Platform, AdmitRequest, CreateSession, DeliverCard, SaveCardReference, DeliveryFails,
       StartWorkflow, AcquireCapacitySlot, LaunchHost, PutObject, HandlerEnds

(* DeleteMetadata drops the operations that are not the worker's: none of   *)
(* them is active, because the lock is the worker's.                       *)
LEMMA CleanupKeepsLock ==
    ASSUME ResetInv, Cleanup PROVE ResetInv'
<1>1. TypeOK'
  BY CleanupTyped DEF ResetInv
<1>2. /\ worker'.op = worker.op /\ worker'.stage # "none" /\ worker.stage # "none"
      /\ lock' = lock /\ message' = message
  BY WorkerTyped DEF ResetInv
<1>3. worker.op \in Resets /\ operation[worker.op] = "RUNNING" /\ lock = worker.op
  BY <1>2 DEF ResetInv, LockNamesActiveReset, Active
<1>4. operation' = [r \in Resets |-> IF r = worker.op THEN operation[r] ELSE "none"]
      \/ operation' = operation
  BY DEF Cleanup, OnlyWorker, InventoryMetadata, StopExecutions, TerminateInstances,
         DeleteVolumes, DeleteSessionObjects, DeleteMetadata, VerifyMetadata, VerifyHosts,
         VerifyObjects, VerifyExecutions, StageFails
<1>5. \A r \in Resets : Active(r)' <=> Active(r)
  BY <1>3, <1>4 DEF ResetInv, LockNamesActiveReset, Active, TypeOK
<1>6. LockNamesActiveReset'
  BY <1>2, <1>5 DEF ResetInv, LockNamesActiveReset
<1>7. message = {}
  BY <1>3 DEF ResetInv, LockNamesActiveReset, Active, TypeOK
<1>8. operation'[worker.op] = "RUNNING"
  BY <1>3, <1>4
<1>9. QED
  BY <1>1, <1>2, <1>3, <1>6, <1>7, <1>8 DEF ResetInv

LEMMA ResetInvNext == ResetInv /\ [Next]_vars => ResetInv'
<1> SUFFICES ASSUME ResetInv, [Next]_vars PROVE ResetInv'
  OBVIOUS
<1>0. TypeOK'
  BY NextTyped DEF ResetInv
<1> USE <1>0 DEF ResetInv, LockNamesActiveReset, Active, TypeOK
<1>1. ASSUME NEW s \in Sessions, Platform(s) PROVE ResetInv'
  BY <1>1, PlatformLeavesReset DEF resetVars
<1>2. ASSUME NEW r \in Resets, CreateResetConfirmation(r) \/ Expire(r) PROVE ResetInv'
  BY <1>2 DEF CreateResetConfirmation, Expire
<1>3. ASSUME NEW r \in Resets, Start(r) PROVE ResetInv'
  BY <1>3, NoResetAssumption DEF Start, ConsumeResetConfirmation
<1>4. ASSUME NEW r \in Resets, Receive(r) PROVE ResetInv'
  BY <1>4 DEF Receive, AtRest
<1>5. CASE Cleanup
  BY <1>5, CleanupKeepsLock
<1>6. CASE SaveResult
  <2>1. worker.op \in Resets /\ lock = worker.op
    BY <1>6 DEF SaveResult
  <2>2. QED
    BY <1>6, <2>1, NoResetAssumption DEF SaveResult, AtRest, At
<1>7. CASE WorkerDies
  BY <1>7 DEF WorkerDies, AtRest, OnlyWorker
<1>8. CASE UNCHANGED vars
  BY <1>8 DEF vars, resetVars
<1>9. QED
  BY <1>1, <1>2, <1>3, <1>4, <1>5, <1>6, <1>7, <1>8 DEF Next

LEMMA LockInv == Spec => []ResetInv
BY ResetInvInit, ResetInvNext, PTL DEF Spec

(* However confirmations, deliveries, failures and deaths of the worker     *)
(* interleave, the lock item names the one operation that has no result:    *)
(* two resets never run at once, and none is locked out by one that ended.  *)
THEOREM LockIsExclusive == Spec => []LockNamesActiveReset
<1>1. ResetInv => LockNamesActiveReset
  BY DEF ResetInv
<1>2. QED
  BY <1>1, LockInv, PTL

-----------------------------------------------------------------------------
(* What a success says of the environment                                  *)

MetadataGone == {"verify metadata", "verify hosts", "verify objects", "verify executions",
                 "succeed"}
Looked == {"verify hosts", "verify objects", "verify executions", "succeed"}
HostsSeen == {"verify objects", "verify executions", "succeed"}
ObjectsSeen == {"verify executions", "succeed"}

AtWork(s) == s \in request \cup publisher \/ handler[s] # "none"
Stored(s) == s \in card \cup claim \cup slot \/ row[s] = "present"

(* A session that was inventoried does not come back: its request is over.  *)
(* From the second look on, whoever works on a session, and whatever is     *)
(* stored of one, belongs to the sessions that were worked on then.         *)
CleanInv ==
    /\ \A s \in request : row[s] = "new"
    /\ \A s \in worker.found.rows : row[s] # "new"
    /\ worker.stage \in MetadataGone => worker.found.rows \cap Present = {}
    /\ worker.stage \in Looked => \A s \in Sessions : AtWork(s) \/ Stored(s) => s \in inFlight
    /\ worker.stage \in HostsSeen => \A s \in Sessions : host[s] # "none" => s \in inFlight
    /\ worker.stage \in ObjectsSeen => objects \subseteq inFlight

(* The two values the worker starts and ends with.                          *)
LEMMA StartFields ==
    ASSUME NEW r PROVE LET w == [op |-> r, stage |-> "inventory", found |-> Nothing]
                       IN  w.stage = "inventory" /\ w.found.rows = {}
BY DEF Nothing

LEMMA RestFields == AtRest.stage = "none" /\ AtRest.found.rows = {}
BY DEF AtRest, Nothing

(* While a worker runs, the lock is its operation's: no request is admitted. *)
LEMMA LockedWhileAtWork ==
    ASSUME ResetInv, worker.stage # "none" PROVE lock # NoReset
BY NoResetAssumption DEF ResetInv, LockNamesActiveReset, Active

(* A step of the platform starts no work and stores nothing on a session    *)
(* that nobody works on and of which nothing is stored.                     *)
LEMMA CleanInvPlatform ==
    ASSUME ResetInv, CleanInv, NEW s \in Sessions, Platform(s) PROVE CleanInv'
<1>0. /\ row \in [Sessions -> {"new", "present", "deleted"}]
      /\ host \in [Sessions -> {"none", "up", "volume"}]
      /\ handler \in [Sessions -> {"none", "running", "stopped"}]
      /\ request \subseteq Sessions
      /\ worker \in [op : Resets \cup {NoReset}, stage : Stages, found : Inventories]
      /\ worker.found.rows \subseteq Sessions
      /\ worker' = worker
  BY PlatformLeavesReset DEF ResetInv, TypeOK, resetVars, Inventories
<1> USE <1>0 DEF CleanInv, Present, AtWork, Stored, items, actors
<1>1. CASE AdmitRequest(s)
  <2>1. worker.stage = "none"
    BY <1>1, LockedWhileAtWork DEF AdmitRequest
  <2>2. QED
    BY <1>1, <2>1 DEF AdmitRequest, MetadataGone, Looked, HostsSeen, ObjectsSeen
<1>2. CASE CreateSession(s)
  BY <1>2 DEF CreateSession
<1>3. CASE DeliverCard(s)
  BY <1>3 DEF DeliverCard
<1>4. CASE SaveCardReference(s) \/ DeliveryFails(s)
  BY <1>4 DEF SaveCardReference, DeliveryFails
<1>5. CASE StartWorkflow(s)
  BY <1>5 DEF StartWorkflow
<1>6. CASE AcquireCapacitySlot(s)
  BY <1>6 DEF AcquireCapacitySlot
<1>7. CASE LaunchHost(s)
  BY <1>7 DEF LaunchHost, HostsSeen, Looked
<1>8. CASE PutObject(s)
  BY <1>8 DEF PutObject, ObjectsSeen, Looked
<1>9. CASE HandlerEnds(s)
  BY <1>9 DEF HandlerEnds
<1>10. QED
  BY <1>1, <1>2, <1>3, <1>4, <1>5, <1>6, <1>7, <1>8, <1>9 DEF Platform

LEMMA CleanInvCleanup ==
    ASSUME TypeOK, CleanInv, Cleanup PROVE CleanInv'
<1>0. /\ row \in [Sessions -> {"new", "present", "deleted"}]
      /\ host \in [Sessions -> {"none", "up", "volume"}]
      /\ handler \in [Sessions -> {"none", "running", "stopped"}]
      /\ request \subseteq Sessions /\ publisher \subseteq Sessions
      /\ worker \in [op : Resets \cup {NoReset}, stage : Stages, found : Inventories]
      /\ worker.found.rows \subseteq Sessions
  BY DEF TypeOK, Inventories
<1> USE <1>0 DEF CleanInv, Present, AtWork, Stored, At, Goto, OnlyWorker, platformVars, items,
                 actors, MetadataGone, Looked, HostsSeen, ObjectsSeen
<1>1. CASE InventoryMetadata
  BY <1>1 DEF InventoryMetadata
<1>2. CASE StopExecutions
  BY <1>2 DEF StopExecutions
<1>3. CASE TerminateInstances
  BY <1>3 DEF TerminateInstances
<1>4. CASE DeleteVolumes
  BY <1>4 DEF DeleteVolumes
<1>5. CASE DeleteSessionObjects
  BY <1>5 DEF DeleteSessionObjects
<1>6. CASE DeleteMetadata
  BY <1>6 DEF DeleteMetadata
<1>7. CASE VerifyMetadata
  BY <1>7 DEF VerifyMetadata, KnownEntities
<1>8. CASE VerifyHosts
  BY <1>8 DEF VerifyHosts
<1>9. CASE VerifyObjects
  BY <1>9 DEF VerifyObjects
<1>10. CASE VerifyExecutions
  BY <1>10 DEF VerifyExecutions
<1>11. CASE StageFails
  BY <1>11 DEF StageFails
<1>12. QED
  BY <1>1, <1>2, <1>3, <1>4, <1>5, <1>6, <1>7, <1>8, <1>9, <1>10, <1>11 DEF Cleanup

LEMMA CleanInvNext == ResetInv /\ CleanInv /\ [Next]_vars => CleanInv'
<1> SUFFICES ASSUME ResetInv, CleanInv, [Next]_vars PROVE CleanInv'
  OBVIOUS
<1> USE DEF CleanInv, Present, AtWork, Stored, MetadataGone, Looked, HostsSeen, ObjectsSeen
<1>1. ASSUME NEW s \in Sessions, Platform(s) PROVE CleanInv'
  BY <1>1, CleanInvPlatform
<1>2. ASSUME NEW r \in Resets,
             CreateResetConfirmation(r) \/ Expire(r) \/ Start(r) \/ Receive(r)
      PROVE  CleanInv'
  <2>1. UNCHANGED platformVars
    BY <1>2 DEF CreateResetConfirmation, Expire, Start, Receive
  <2>2. worker' = worker \/ worker' = [op |-> r, stage |-> "inventory", found |-> Nothing]
    BY <1>2 DEF CreateResetConfirmation, Expire, Start, Receive
  <2>3. \/ worker' = worker
        \/ worker'.stage = "inventory" /\ worker'.found.rows = {}
    BY <2>2, StartFields, Zenon
  <2>4. UNCHANGED <<row, card, claim, slot, host, objects, handler, publisher, request,
                    inFlight>>
    BY <2>1 DEF platformVars, items, actors
  <2>5. QED
    BY <2>3, <2>4
<1>3. CASE Cleanup
  BY <1>3, CleanInvCleanup DEF ResetInv
<1>4. CASE SaveResult \/ WorkerDies
  <2>0. worker' = AtRest
    BY <1>4 DEF SaveResult, WorkerDies
  <2>1. worker'.stage = "none" /\ worker'.found.rows = {}
    BY <2>0, RestFields, Zenon
  <2>2. row' = row /\ request' = request
    BY <1>4 DEF SaveResult, WorkerDies, platformVars, items, actors
  <2>3. QED
    BY <2>1, <2>2
<1>5. CASE UNCHANGED vars
  BY <1>5 DEF vars, platformVars, resetVars, items, actors
<1>6. QED
  BY <1>1, <1>2, <1>3, <1>4, <1>5 DEF Next

(* A reported success has deleted every session it found, and whatever is   *)
(* left in the environment is of a session on which a request, a handler or *)
(* a publisher was at work at the second look.                              *)
THEOREM SuccessIsClean == Spec => SuccessLeavesNothing
<1>1. Init => CleanInv
  BY RestFields DEF Init, CleanInv, MetadataGone, Looked, HostsSeen, ObjectsSeen
<1>2. ResetInv /\ CleanInv /\ [Next]_vars =>
        [\A r \in Resets :
            operation[r] = "RUNNING" /\ operation'[r] = "SUCCEEDED" =>
               /\ worker.found.rows \cap Present = {}
               /\ \A s \in Sessions : Remains(s) => s \in inFlight]_vars
  <2> SUFFICES ASSUME ResetInv, CleanInv, [Next]_vars, NEW r \in Resets,
                      operation[r] = "RUNNING", operation'[r] = "SUCCEEDED"
               PROVE  /\ worker.found.rows \cap Present = {}
                      /\ \A s \in Sessions : Remains(s) => s \in inFlight
    OBVIOUS
  <2>0. operation \in [Resets -> {"none", "PENDING", "RUNNING", "SUCCEEDED", "FAILED"}]
    BY DEF ResetInv, TypeOK
  <2>1. SaveResult
    <3>1. ASSUME NEW s \in Sessions, Platform(s) PROVE FALSE
      BY <3>1, PlatformLeavesReset DEF resetVars
    <3>2. ASSUME NEW q \in Resets,
                 CreateResetConfirmation(q) \/ Expire(q) \/ Start(q) \/ Receive(q)
          PROVE  FALSE
      BY <2>0, <3>2 DEF CreateResetConfirmation, Expire, Start, ConsumeResetConfirmation,
                        Receive
    <3>3. ~Cleanup
      BY <2>0 DEF Cleanup, OnlyWorker, InventoryMetadata, StopExecutions, TerminateInstances,
                  DeleteVolumes, DeleteSessionObjects, DeleteMetadata, VerifyMetadata,
                  VerifyHosts, VerifyObjects, VerifyExecutions, StageFails
    <3>4. ~WorkerDies /\ ~UNCHANGED vars
      BY DEF WorkerDies, OnlyWorker, vars, resetVars
    <3>5. QED
      BY <3>1, <3>2, <3>3, <3>4 DEF Next
  <2>2. worker.stage = "succeed"
    BY <2>0, <2>1 DEF SaveResult, At
  <2>3. QED
    BY <2>2 DEF CleanInv, MetadataGone, Looked, HostsSeen, ObjectsSeen, AtWork, Stored, Remains,
                Present
<1>3. QED
  BY <1>1, <1>2, LockInv, CleanInvNext, PTL DEF Spec, SuccessLeavesNothing
=============================================================================
