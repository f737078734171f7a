--------------------------- MODULE ContentSyncProofs ---------------------------
(***************************************************************************)
(* Proofs about the revisions and the missions of a session, for any       *)
(* number of synchronisations, lifecycle operations, revisions and         *)
(* snapshots: the session can always be stored again; a server that runs,  *)
(* runs the active revision; a mission is listed once the host has it.     *)
(*                                                                         *)
(* The second needs to know who may still change the links of the host:    *)
(* only the command of the operation that has the lock, unless the session *)
(* has failed (QuietInv), because an operation's success makes the earlier *)
(* ones' commands give up (OrderInv).  So what that command has installed  *)
(* is what the operation makes active (InstallInv).                        *)
(***************************************************************************)
EXTENDS ContentSync, TLAPS

Lives == {"RUNNING", "SLEEPING", "FAILED", "STOPPING", "RESTARTING", "WAKING", "BOOTSTRAPPING"}

PendingType == [number : Revisions, status : {"none", "PENDING", "APPLYING", "FAILED"},
                owner : Workflows \cup {NoWorkflow}]

SessionType ==
    [life : Lives, lock : Workflows \cup {NoWorkflow}, age : {Live, Overdue, Expired},
     active : Revisions, pending : PendingType, sequence : Revisions, snapshot : Snapshots,
     attached : SUBSET Snapshots]

Storable(s) == s \in SessionType /\ RevisionsValidate(s)

-----------------------------------------------------------------------------
(* What each operation of the domain makes of a session that can be stored  *)

LEMMA LifeStorable ==
    ASSUME NEW s, Storable(s), NEW life \in Lives PROVE Storable([s EXCEPT !.life = life])
BY DEF Storable, SessionType, RevisionsValidate

LEMMA AcquireStorable ==
    ASSUME NEW s, Storable(s), NEW w \in Workflows PROVE Storable(AcquireWorkflowLock(s, w))
BY DEF Storable, SessionType, RevisionsValidate, AcquireWorkflowLock

LEMMA ReleaseStorable ==
    ASSUME NEW s, Storable(s) PROVE Storable(ReleaseWorkflowLock(s))
BY DEF Storable, SessionType, RevisionsValidate, ReleaseWorkflowLock

LEMMA AgeStorable ==
    ASSUME NEW s, Storable(s), NEW age \in {Live, Overdue, Expired}
    PROVE  Storable([s EXCEPT !.age = age])
BY DEF Storable, SessionType, RevisionsValidate

LEMMA PendingMissions ==
    ASSUME NEW s, Storable(s) PROVE PendingWorkshopMissions(s) \subseteq Snapshots
BY DEF Storable, SessionType, PendingWorkshopMissions

LEMMA MissionsStorable ==
    ASSUME NEW s, Storable(s), NEW missions \in SUBSET Snapshots
    PROVE  Storable(WithWorkshopMissions(s, missions))
BY DEF Storable, SessionType, RevisionsValidate, WithWorkshopMissions

(* A new revision is above the active one, because nothing is pending or    *)
(* what is pending has failed.                                             *)
LEMMA StageStorable ==
    ASSUME NEW s, Storable(s), s.sequence < MaxRevision
    PROVE  Storable(StagePresetRevision(s))
<1>1. s.sequence + 1 \in Revisions \ {0} /\ s.active < s.sequence + 1
  BY ContentAssumption DEF Storable, SessionType, RevisionsValidate, Revisions
<1> DEFINE pending == [number |-> s.sequence + 1, status |-> "PENDING", owner |-> NoWorkflow]
           staged == [s EXCEPT !.pending = pending, !.sequence = s.sequence + 1]
<1>2. StagePresetRevision(s) = staged
  BY DEF StagePresetRevision
<1>3. pending \in PendingType
  BY <1>1 DEF PendingType
<1>4. staged \in SessionType
  BY <1>1, <1>3 DEF Storable, SessionType
<1>5. RevisionsValidate(staged)
  BY <1>1 DEF Storable, SessionType, RevisionsValidate, Revisions
<1>6. QED
  BY <1>2, <1>4, <1>5 DEF Storable

LEMMA BeginStorable ==
    ASSUME NEW s, Storable(s), NEW w \in Workflows
    PROVE  Storable(BeginPresetRevisionApplication(s, w))
<1>1. w # NoWorkflow
  BY ContentAssumption DEF Workflows
<1>2. QED
  BY <1>1 DEF Storable, SessionType, PendingType, RevisionsValidate,
              BeginPresetRevisionApplication

LEMMA PromoteStorable ==
    ASSUME NEW s, Storable(s), NEW w PROVE Storable(PromotePresetRevision(s, w))
<1>1. CASE ~HasApplyingPresetRevision(s, w)
  BY <1>1 DEF PromotePresetRevision
<1>2. CASE HasApplyingPresetRevision(s, w)
  <2>1. s.pending.number # 0 /\ s.pending.number \in Revisions
    BY <1>2 DEF HasApplyingPresetRevision, Storable, SessionType, PendingType,
                RevisionsValidate
  <2>2. NoRevision \in PendingType
    BY ContentAssumption DEF NoRevision, PendingType, Revisions
  <2>3. QED
    BY <1>2, <2>1, <2>2 DEF Storable, SessionType, RevisionsValidate, PromotePresetRevision,
                            NoRevision
<1>3. QED
  BY <1>1, <1>2

LEMMA RevertStorable ==
    ASSUME NEW s, Storable(s), NEW w PROVE Storable(FailPresetRevisionApplication(s, w))
<1>1. CASE ~HasApplyingPresetRevision(s, w)
  BY <1>1 DEF FailPresetRevisionApplication
<1>2. CASE HasApplyingPresetRevision(s, w)
  BY <1>2 DEF HasApplyingPresetRevision, Storable, SessionType, PendingType,
              RevisionsValidate, FailPresetRevisionApplication
<1>3. QED
  BY <1>1, <1>2

LEMMA FinishStorable ==
    ASSUME NEW s, Storable(s), NEW k, NEW success
    PROVE  Storable(Finish(s, k, success).session)
<1> DEFINE mission == works[k].type = "mission"
           done == success /\ (mission => ManifestIsComplete(s))
           attached == IF done /\ mission THEN PendingWorkshopMissions(s) ELSE {}
<1>1. attached \in SUBSET Snapshots
  BY PendingMissions
<1>2. Finish(s, k, success).session = ReleaseWorkflowLock(WithWorkshopMissions(s, attached))
  BY DEF Finish
<1> HIDE DEF attached
<1>3. QED
  BY <1>1, <1>2, MissionsStorable, ReleaseStorable

-----------------------------------------------------------------------------
(* Steps                                                                   *)

LEMMA SourceTyped ==
    \A kind \in Kinds : Source[kind] \in Lives /\ Transition[kind] \in Lives
BY DEF Kinds, Source, Transition, Lives

LEMMA AcceptStorable == ASSUME Storable(session), Accept PROVE Storable(session')
<1>1. CASE StageRevision
  BY <1>1, StageStorable DEF StageRevision, Save
<1>2. CASE RecordWorkshopMissionSource
  <2>1. session' = [session EXCEPT !.snapshot = session.snapshot + 1]
    BY <1>2 DEF RecordWorkshopMissionSource, Save
  <2>2. session.snapshot + 1 \in Snapshots
    BY <1>2, ContentAssumption DEF RecordWorkshopMissionSource, Storable, SessionType,
                                   Snapshots
  <2>3. QED
    BY <2>1, <2>2 DEF Storable, SessionType, RevisionsValidate
<1>3. CASE Touch
  BY <1>3 DEF Touch, Save
<1>4. QED
  BY <1>1, <1>2, <1>3 DEF Accept

LEMMA SynchroniseStorable == ASSUME Storable(session), Synchronise PROVE Storable(session')
<1>1. ASSUME NEW k \in Syncs, NEW target \in Targets, Start(k, target)
      PROVE  Storable(session')
  BY <1>1, AcquireStorable DEF Start, Workflows
<1>2. ASSUME NEW k, FinishOwn(k) PROVE Storable(session')
  <2> DEFINE stored == Finish(session, k, FALSE).session
  <2>1. Storable(stored)
    BY FinishStorable, Zenon
  <2>2. session' = stored \/ session' = session
    BY <1>2 DEF FinishOwn
  <2> HIDE DEF stored
  <2>3. QED
    BY <2>1, <2>2
<1>3. ASSUME NEW k \in Syncs, Send(k) PROVE Storable(session')
  <2>1. session' = session \/ FinishOwn(k)
    BY <1>3 DEF Send
  <2>2. QED
    BY <2>1, <1>2
<1>4. ASSUME NEW k \in Syncs, Track(k) PROVE Storable(session')
  <2>1. session' = session \/ FinishOwn(k)
    BY <1>4 DEF Track
  <2>2. QED
    BY <2>1, <1>2
<1>5. CASE Crash
  BY <1>5 DEF Crash
<1>6. ASSUME NEW k, NEW success, Close(k, success) PROVE Storable(session')
  BY <1>6, FinishStorable DEF Close, Save
<1>7. ASSUME NEW k \in Syncs, ReconcileActive(k) PROVE Storable(session')
  <2>1. CASE HandleTerminal(k)
    BY <2>1, <1>6 DEF HandleTerminal
  <2>2. CASE CancelOverdue(k)
    BY <2>2, <1>6 DEF CancelOverdue
  <2>3. CASE ReconcileAbandoned(k)
    BY <2>3, ReleaseStorable DEF ReconcileAbandoned, Save
  <2>4. CASE TrackFound(k)
    BY <2>4 DEF TrackFound
  <2>5. QED
    BY <1>7, <2>1, <2>2, <2>3, <2>4 DEF ReconcileActive
<1>8. QED
  BY <1>1, <1>3, <1>4, <1>5, <1>7 DEF Synchronise, Invocation

LEMMA OperateStorable ==
    ASSUME Storable(session),
           \A v \in Operations : works[v].status = "RUNNING" => works[v].type \in Kinds,
           NEW w \in Operations,
           \/ \E kind \in Kinds : Begin(w, kind)
           \/ CancelWorkflowAtSafeBoundary(w) \/ Dispatch(w) \/ CompleteRunning(w)
           \/ CompleteSleep(w) \/ Rollback(w) \/ FailSleepWake(w) \/ ReconcileOperation(w)
    PROVE  Storable(session')
<1>0. w \in Workflows
  BY DEF Workflows
<1>1. ASSUME NEW kind \in Kinds, Begin(w, kind) PROVE Storable(session')
  <2> DEFINE locked == AcquireWorkflowLock([session EXCEPT !.life = Transition[kind]], w)
  <2>1. Storable(locked)
    BY <1>0, LifeStorable, AcquireStorable, SourceTyped
  <2>2. session' = IF kind = "Sleep" THEN locked ELSE BeginPresetRevisionApplication(locked, w)
    BY <1>1 DEF Begin, Save
  <2> HIDE DEF locked
  <2>3. QED
    BY <1>0, <2>1, <2>2, BeginStorable
<1>2. CASE CancelWorkflowAtSafeBoundary(w)
  <2>1. Source[works[w].type] \in Lives
    BY <1>2, SourceTyped DEF CancelWorkflowAtSafeBoundary, Holds
  <2>2. QED
    BY <1>2, <2>1, LifeStorable, ReleaseStorable DEF CancelWorkflowAtSafeBoundary, Save
<1>3. CASE Dispatch(w) \/ Rollback(w)
  BY <1>3 DEF Dispatch, Rollback
<1>4. CASE CompleteRunning(w)
  <2> DEFINE s == WithWorkshopMissions(session, PendingWorkshopMissions(session))
  <2>1. Storable(s)
    BY PendingMissions, MissionsStorable
  <2>2. session' = ReleaseWorkflowLock([PromotePresetRevision(s, w) EXCEPT !.life = "RUNNING"])
    BY <1>4 DEF CompleteRunning, Save
  <2> HIDE DEF s
  <2>3. Storable(PromotePresetRevision(s, w)) /\ "RUNNING" \in Lives
    BY <2>1, PromoteStorable DEF Lives
  <2>4. QED
    BY <2>2, <2>3, LifeStorable, ReleaseStorable
<1>5. CASE CompleteSleep(w)
  <2>1. "SLEEPING" \in Lives
    BY DEF Lives
  <2>2. QED
    BY <1>5, <2>1, LifeStorable, ReleaseStorable DEF CompleteSleep, Save
<1>6. CASE FailSleepWake(w) \/ ReconcileOperation(w)
  <2>1. PICK s \in {session, FailPresetRevisionApplication(session, w)} :
          session' = ReleaseWorkflowLock([s EXCEPT !.life = "FAILED"])
    BY <1>6 DEF FailSleepWake, ReconcileOperation, Save
  <2>2. Storable(s) /\ "FAILED" \in Lives
    BY RevertStorable DEF Lives
  <2>3. QED
    BY <2>1, <2>2, LifeStorable, ReleaseStorable
<1>7. QED
  BY <1>1, <1>2, <1>3, <1>4, <1>5, <1>6

(* A stored workflow that runs is a synchronisation of a target or an       *)
(* operation of a kind.                                                    *)
WorksTyped ==
    /\ DOMAIN works = Workflows
    /\ \A w \in Operations : works[w].status = "RUNNING" => works[w].type \in Kinds

StorableInv == Storable(session) /\ WorksTyped

LEMMA StorableInit == Init => StorableInv
<1> SUFFICES ASSUME Init PROVE StorableInv
  OBVIOUS
<1>1. PICK life \in InitialLives :
        session = [life |-> life, lock |-> NoWorkflow, age |-> Live,
                   active |-> 1, pending |-> NoRevision, sequence |-> 1,
                   snapshot |-> 0, attached |-> {}]
  BY DEF Init
<1>2. life \in Lives
  BY ContentAssumption DEF Lives
<1>3. 0 \in Revisions /\ 1 \in Revisions /\ 0 \in Snapshots
  BY ContentAssumption DEF Revisions, Snapshots
<1>4. NoRevision \in PendingType
  BY <1>3 DEF NoRevision, PendingType
<1>5. session \in SessionType
  BY <1>1, <1>2, <1>3, <1>4 DEF SessionType
<1>6. RevisionsValidate(session)
  BY <1>1 DEF RevisionsValidate, NoRevision
<1>7. WorksTyped
  BY DEF Init, WorksTyped, Workflows
<1>8. QED
  BY <1>5, <1>6, <1>7 DEF StorableInv, Storable

(* Only Begin and Start give a workflow a type, and no step of one workflow *)
(* writes another's record.                                                *)
LEMMA WorksKept == ASSUME WorksTyped, [Next]_vars PROVE WorksTyped'
<1>1. ASSUME NEW w, NEW status,
             works' = [works EXCEPT ![w].status = status], status \in {"SUCCEEDED", "FAILED", "CANCELLED"}
      PROVE  WorksTyped'
  BY <1>1 DEF WorksTyped, Workflows
<1>2. ASSUME NEW w, NEW stage, works' = [works EXCEPT ![w].stage = stage]
      PROVE  WorksTyped'
  BY <1>2 DEF WorksTyped, Workflows
<1>3. ASSUME works' = works PROVE WorksTyped'
  BY <1>3 DEF WorksTyped
<1>4. ASSUME NEW s, NEW k, NEW success
      PROVE  Finish(s, k, success).status \in {"SUCCEEDED", "FAILED"}
  BY DEF Finish
<1>5. ASSUME NEW k, FinishOwn(k) PROVE WorksTyped'
  BY <1>5, <1>1, <1>3, <1>4 DEF FinishOwn
<1>6. CASE Accept
  BY <1>6, <1>3 DEF Accept, StageRevision, RecordWorkshopMissionSource, Touch
<1>7. ASSUME NEW k \in Syncs, NEW target \in Targets, Start(k, target) PROVE WorksTyped'
  BY <1>7, ContentAssumption DEF Start, WorksTyped, Workflows
<1>8. ASSUME NEW k \in Syncs, Send(k) \/ Track(k) PROVE WorksTyped'
  <2>1. works' = works \/ FinishOwn(k)
    BY <1>8 DEF Send, Track
  <2>2. QED
    BY <2>1, <1>3, <1>5
<1>9. CASE Crash
  BY <1>9, <1>3 DEF Crash
<1>10. ASSUME NEW k, NEW success, Close(k, success) PROVE WorksTyped'
  BY <1>10, <1>1, <1>4 DEF Close
<1>11. ASSUME NEW k \in Syncs, ReconcileActive(k) PROVE WorksTyped'
  BY <1>11, <1>1, <1>3, <1>10 DEF ReconcileActive, TrackFound, HandleTerminal, CancelOverdue, ReconcileAbandoned
<1>12. ASSUME NEW w \in Operations, NEW kind \in Kinds, Begin(w, kind) PROVE WorksTyped'
  BY <1>12 DEF Begin, WorksTyped, Workflows
<1>13. ASSUME NEW w \in Operations, Dispatch(w) \/ Rollback(w) PROVE WorksTyped'
  BY <1>13, <1>2 DEF Dispatch, Rollback
<1>14. ASSUME NEW w \in Operations,
              \/ CancelWorkflowAtSafeBoundary(w) \/ CompleteRunning(w) \/ CompleteSleep(w)
              \/ FailSleepWake(w) \/ ReconcileOperation(w)
       PROVE  WorksTyped'
  BY <1>14, <1>1 DEF CancelWorkflowAtSafeBoundary, CompleteRunning, CompleteSleep,
                     FailSleepWake, ReconcileOperation
<1>15. CASE Environment
  BY <1>15, <1>3 DEF Environment, Age, EndCommand
<1>16. CASE UNCHANGED vars
  BY <1>16, <1>3 DEF vars
<1>17. QED
  BY <1>6, <1>7, <1>8, <1>9, <1>11, <1>12, <1>13, <1>14, <1>15, <1>16
     DEF Next, Synchronise, Invocation, Operate

LEMMA StorableNext == StorableInv /\ [Next]_vars => StorableInv'
<1> SUFFICES ASSUME StorableInv, [Next]_vars PROVE Storable(session')
  BY WorksKept DEF StorableInv
<1>1. Storable(session)
  BY DEF StorableInv
<1>2. CASE Accept
  BY <1>1, <1>2, AcceptStorable
<1>3. CASE Synchronise
  BY <1>1, <1>3, SynchroniseStorable
<1>4. CASE Operate
  BY <1>1, <1>4, OperateStorable DEF Operate, StorableInv, WorksTyped
<1>5. ASSUME Age PROVE Storable(session')
  <2>1. PICK age \in {Live, Overdue, Expired} : session' = [session EXCEPT !.age = age]
    BY <1>1, <1>5 DEF Age, Storable, SessionType, Live, Overdue, Expired
  <2>2. QED
    BY <1>1, <2>1, AgeStorable
<1>6. ASSUME NEW w, EndCommand(w) PROVE Storable(session')
  BY <1>1, <1>6 DEF EndCommand
<1>7. CASE UNCHANGED vars
  BY <1>1, <1>7 DEF vars
<1>8. QED
  BY <1>2, <1>3, <1>4, <1>5, <1>6, <1>7 DEF Next, Environment

(* The session's revisions keep the order and the owner that Session.Validate *)
(* asks for: no save is refused for them, and no lock is stranded by them.  *)
THEOREM RevisionsStayValid == Spec => []RevisionsAreValid
<1>1. StorableInv => RevisionsAreValid
  BY DEF StorableInv, Storable, RevisionsAreValid
<1>2. QED
  BY <1>1, StorableInit, StorableNext, PTL DEF Spec

-----------------------------------------------------------------------------
(* Types of the rest                                                       *)

WorkType == [status : {"none", "RUNNING", "SUCCEEDED", "FAILED", "CANCELLED"},
             type : {"none"} \cup Targets \cup Kinds, content : Nat,
             stage : {"none", "begun", "dispatched", "rolled back"}]
CommandType == [state : {"unsent", "pending", "success", "failed"},
                mods : Revisions, snapshot : Snapshots]
HostType == [linked : Revisions, running : Revisions, manifests : SUBSET Snapshots]
StarterType == [sync : Syncs \cup {NoWorkflow}, stage : {"none", "acquired", "sent"},
                fresh : BOOLEAN]

TypeInv ==
    /\ StorableInv
    /\ works \in [Workflows -> WorkType] /\ tracked \in SUBSET Syncs
    /\ commands \in [Workflows -> CommandType] /\ host \in HostType
    /\ starter \in StarterType

LEMMA TypeIs == TypeInv => TypeOK
BY DEF TypeInv, StorableInv, Storable, SessionType, PendingType, Lives, WorkType, CommandType,
       HostType, StarterType, TypeOK

LEMMA RevisionForApplication ==
    ASSUME Storable(session)
    PROVE  ContentCommand(session) \in CommandType
BY DEF Storable, SessionType, PendingType, ContentCommand, PresetRevisionForApplication,
       CommandType

(* Only a step of a synchronisation or an operation writes its workflow.    *)
LEMMA WorksType == ASSUME TypeInv, [Next]_vars PROVE works' \in [Workflows -> WorkType]
<1> DEFINE Good == works' \in [Workflows -> WorkType]
<1>1. ASSUME NEW w \in Workflows, NEW status \in {"SUCCEEDED", "FAILED", "CANCELLED"},
             works' = [works EXCEPT ![w].status = status]
      PROVE  Good
  <2>1. [works[w] EXCEPT !.status = status] \in WorkType
    BY DEF TypeInv, WorkType
  <2>2. QED
    BY <1>1, <2>1 DEF TypeInv
<1>2. ASSUME NEW w \in Workflows, NEW stage \in {"dispatched", "rolled back"},
             works' = [works EXCEPT ![w].stage = stage]
      PROVE  Good
  <2>1. [works[w] EXCEPT !.stage = stage] \in WorkType
    BY DEF TypeInv, WorkType
  <2>2. QED
    BY <1>2, <2>1 DEF TypeInv
<1>3. ASSUME works' = works PROVE Good
  BY <1>3 DEF TypeInv
<1>4. ASSUME NEW s, NEW k, NEW success
      PROVE  Finish(s, k, success).status \in {"SUCCEEDED", "FAILED"}
  BY DEF Finish
<1>5. ASSUME NEW k \in Syncs, FinishOwn(k) PROVE Good
  BY <1>5, <1>1, <1>3, <1>4 DEF FinishOwn, Workflows
<1>6. ASSUME NEW k \in Syncs, NEW target \in Targets, Start(k, target) PROVE Good
  <2>1. PICK content : works' = [works EXCEPT ![k] = [status |-> "RUNNING", type |-> target,
                                                      content |-> content, stage |-> "none"]]
                       /\ content \in {session.snapshot, session.pending.number, session.active}
    BY <1>6 DEF Start
  <2>2. content \in Nat
    BY <2>1, ContentAssumption
       DEF TypeInv, StorableInv, Storable, SessionType, PendingType, Revisions, Snapshots
  <2>3. QED
    BY <2>1, <2>2 DEF TypeInv, WorkType, Workflows
<1>7. ASSUME NEW k \in Syncs, Send(k) \/ Track(k) PROVE Good
  <2>1. works' = works \/ FinishOwn(k)
    BY <1>7 DEF Send, Track
  <2>2. QED
    BY <2>1, <1>3, <1>5
<1>8. ASSUME NEW k \in Syncs, NEW success, Close(k, success) PROVE Good
  BY <1>8, <1>1, <1>4 DEF Close, Workflows
<1>9. ASSUME NEW k \in Syncs, ReconcileActive(k) PROVE Good
  BY <1>9, <1>1, <1>3, <1>8
     DEF ReconcileActive, TrackFound, HandleTerminal, CancelOverdue, ReconcileAbandoned, Workflows
<1>10. ASSUME NEW w \in Operations, NEW kind \in Kinds, Begin(w, kind) PROVE Good
  BY <1>10 DEF Begin, TypeInv, WorkType, Workflows
<1>11. ASSUME NEW w \in Operations, Dispatch(w) \/ Rollback(w) PROVE Good
  BY <1>11, <1>2 DEF Dispatch, Rollback, Workflows
<1>12. ASSUME NEW w \in Operations,
              \/ CancelWorkflowAtSafeBoundary(w) \/ CompleteRunning(w) \/ CompleteSleep(w)
              \/ FailSleepWake(w) \/ ReconcileOperation(w)
       PROVE  Good
  BY <1>12, <1>1 DEF CancelWorkflowAtSafeBoundary, CompleteRunning, CompleteSleep,
                     FailSleepWake, ReconcileOperation, Workflows
<1>13. CASE Accept \/ Environment \/ Crash \/ UNCHANGED vars
  BY <1>13, <1>3 DEF Accept, StageRevision, RecordWorkshopMissionSource, Touch, Environment,
                     Age, EndCommand, Crash, vars
<1>14. QED
  BY <1>6, <1>7, <1>9, <1>10, <1>11, <1>12, <1>13 DEF Next, Synchronise, Invocation, Operate

LEMMA CommandsType == ASSUME TypeInv, [Next]_vars PROVE commands' \in [Workflows -> CommandType]
<1> DEFINE Good == commands' \in [Workflows -> CommandType]
<1>1. ASSUME NEW w \in Workflows, NEW state \in {"success", "failed"}
      PROVE  [commands[w] EXCEPT !.state = state] \in CommandType
  BY DEF TypeInv, CommandType
<1>2. ASSUME commands' = commands PROVE Good
  BY <1>2 DEF TypeInv
<1>3. ASSUME NEW w \in Workflows, commands' = [commands EXCEPT ![w] = ContentCommand(session)]
      PROVE  Good
  BY <1>3, RevisionForApplication DEF TypeInv, StorableInv
<1>4. ASSUME NEW w \in Workflows, commands' = [commands EXCEPT ![w].state = "failed"]
      PROVE  Good
  BY <1>1, <1>4 DEF TypeInv
<1>5. ASSUME NEW w \in Workflows, EndCommand(w) PROVE Good
  <2>1. PICK outcome \in {"success", "failed"} : commands' = Ended(w, outcome)
    BY <1>5 DEF EndCommand
  <2>2. QED
    BY <1>1, <2>1 DEF Ended, TypeInv
<1>6. ASSUME NEW k \in Syncs, Send(k) \/ Track(k) \/ ReconcileActive(k) PROVE Good
  BY <1>2, <1>3, <1>4, <1>6
     DEF Send, Track, ReconcileActive, TrackFound, HandleTerminal, CancelOverdue, ReconcileAbandoned,
         Workflows
<1>7. ASSUME NEW w \in Operations, CompleteSleep(w) PROVE Good
  BY <1>1, <1>7 DEF CompleteSleep, TypeInv
<1>8. ASSUME NEW w \in Operations, Dispatch(w) PROVE Good
  BY <1>2, <1>3, <1>8 DEF Dispatch, Workflows
<1>9. ASSUME \/ Accept \/ Age \/ Crash \/ UNCHANGED vars
             \/ \E k \in Syncs, target \in Targets : Start(k, target)
             \/ \E w \in Operations :
                   \/ \E kind \in Kinds : Begin(w, kind)
                   \/ CancelWorkflowAtSafeBoundary(w) \/ CompleteRunning(w) \/ Rollback(w)
                   \/ FailSleepWake(w) \/ ReconcileOperation(w)
      PROVE  Good
  BY <1>2, <1>9 DEF Accept, StageRevision, RecordWorkshopMissionSource, Touch, Age, Crash,
                    vars, Start, Begin, CancelWorkflowAtSafeBoundary, CompleteRunning,
                    Rollback, FailSleepWake, ReconcileOperation
<1>10. QED
  BY <1>5, <1>6, <1>7, <1>8, <1>9 DEF Next, Synchronise, Invocation, Operate, Environment

(* What a command does to the host, by whose it is.                         *)
LEMMA EndEffect ==
    ASSUME TypeInv, NEW w \in Workflows, EndCommand(w)
    PROVE  /\ host' \in HostType /\ host.manifests \subseteq host'.manifests
           /\ w \in Syncs => host'.linked = host.linked /\ host'.running = host.running
           /\ UNCHANGED <<session, works, tracked, starter>>
           /\ commands[w].state = "pending"
           /\ \E outcome \in {"success", "failed"} :
                 /\ commands' = Ended(w, outcome)
                 /\ w \in Operations /\ outcome = "success" =>
                      host'.linked = commands[w].mods /\ host'.running = commands[w].mods
<1> DEFINE c == commands[w]
<1>1. PICK success \in BOOLEAN :
        /\ commands' = Ended(w, IF success THEN "success" ELSE "failed")
        /\ host' \in Effects(w, success)
  BY DEF EndCommand
<1>2. c \in CommandType /\ host \in HostType /\ 0 \in Revisions
  BY ContentAssumption DEF TypeInv, Revisions
<1>3. c.mods \in Revisions /\ host.linked \in Revisions /\ host.running \in Revisions
      /\ host.manifests \in SUBSET Snapshots /\ c.snapshot \in Snapshots
  BY <1>2 DEF CommandType, HostType
<1>4. \A ms \in Published(w) : ms \in SUBSET Snapshots /\ host.manifests \subseteq ms
  BY <1>3 DEF Published
<1>5. w \in Syncs <=> w \notin Operations
  BY ContentAssumption DEF Workflows
<1>6. /\ host' \in HostType /\ host.manifests \subseteq host'.manifests
      /\ w \in Syncs => host'.linked = host.linked /\ host'.running = host.running
      /\ w \in Operations /\ success => host'.linked = c.mods /\ host'.running = c.mods
  <2>1. CASE w \in Syncs /\ (~success \/ works[w].type # "mission")
    BY <1>1, <1>2, <1>5, <2>1 DEF Effects
  <2>2. CASE w \in Syncs /\ ~(~success \/ works[w].type # "mission")
    <3>0. Effects(w, success) = {[host EXCEPT !.manifests = ms] : ms \in Published(w)}
      BY <1>5, <2>2 DEF Effects
    <3>1. PICK ms \in Published(w) : host' = [host EXCEPT !.manifests = ms]
      BY <1>1, <3>0
    <3>2. host' \in HostType /\ host'.manifests = ms /\ host'.linked = host.linked
          /\ host'.running = host.running
      BY <1>2, <1>4, <3>1 DEF HostType
    <3>3. QED
      BY <1>4, <1>5, <2>2, <3>2
  <2>3. CASE w \in Operations /\ success
    <3>1. PICK ms \in Published(w) :
            host' = [linked |-> c.mods, running |-> c.mods, manifests |-> ms]
      BY <1>1, <1>5, <2>3 DEF Effects
    <3>2. QED
      BY <1>3, <1>4, <1>5, <2>3, <3>1 DEF HostType
  <2>4. CASE w \in Operations /\ ~success
    <3>1. PICK linked \in {host.linked, c.mods}, running \in {0, host.running, c.mods} :
            host' = [host EXCEPT !.linked = linked, !.running = running]
      BY <1>1, <1>5, <2>4 DEF Effects
    <3>2. linked \in Revisions /\ running \in Revisions
      BY <1>2, <1>3
    <3>3. host' \in HostType /\ host'.manifests = host.manifests
      BY <1>2, <3>1, <3>2 DEF HostType
    <3>4. QED
      BY <1>5, <2>4, <3>3
  <2>5. QED
    BY <1>5, <2>1, <2>2, <2>3, <2>4
<1>7. QED
  BY <1>1, <1>6 DEF EndCommand

LEMMA HostsType == ASSUME TypeInv, [Next]_vars PROVE host' \in HostType
<1>0. host \in HostType /\ session.active \in Revisions /\ 0 \in Revisions
      /\ host.linked \in Revisions
  BY ContentAssumption
     DEF TypeInv, StorableInv, Storable, SessionType, Revisions, HostType
<1>1. ASSUME host' = host PROVE host' \in HostType
  BY <1>0, <1>1
<1>2. ASSUME NEW w \in Operations, Dispatch(w) PROVE host' \in HostType
  BY <1>0, <1>2 DEF Dispatch, HostType
<1>3. ASSUME NEW w \in Operations, CompleteSleep(w) PROVE host' \in HostType
  BY <1>0, <1>3 DEF CompleteSleep, HostType
<1>4. ASSUME NEW w \in Operations, Rollback(w) PROVE host' \in HostType
  <2>1. PICK linked \in {host.linked, session.active} :
          \E running \in {0, linked} :
            host' = [host EXCEPT !.linked = linked, !.running = running]
    BY <1>4 DEF Rollback
  <2>2. QED
    BY <1>0, <2>1 DEF HostType
<1>5. ASSUME NEW k \in Syncs, Send(k) \/ Track(k) \/ ReconcileActive(k) PROVE host' = host
  BY <1>5 DEF Send, Track, ReconcileActive, TrackFound, HandleTerminal, CancelOverdue, ReconcileAbandoned
<1>6. ASSUME \/ Accept \/ Age \/ Crash \/ UNCHANGED vars
             \/ \E k \in Syncs, target \in Targets : Start(k, target)
             \/ \E w \in Operations :
                   \/ \E kind \in Kinds : Begin(w, kind)
                   \/ CancelWorkflowAtSafeBoundary(w) \/ CompleteRunning(w)
                   \/ FailSleepWake(w) \/ ReconcileOperation(w)
      PROVE  host' = host
  BY <1>6 DEF Accept, StageRevision, RecordWorkshopMissionSource, Touch, Age, Crash,
              vars, Start, Begin, CancelWorkflowAtSafeBoundary, CompleteRunning,
              FailSleepWake, ReconcileOperation
<1>7. QED
  BY <1>1, <1>2, <1>3, <1>4, <1>5, <1>6, EndEffect
     DEF Next, Synchronise, Invocation, Operate, Environment

(* The copy of a start that is still fresh names the lock.                  *)
StarterInv == starter.fresh => session.lock = starter.sync /\ starter.sync \in Syncs

LEMMA StarterSaved ==
    ASSUME starter \in StarterType, starter' = [starter EXCEPT !.fresh = FALSE]
    PROVE  starter' \in StarterType /\ starter'.fresh = FALSE
BY DEF StarterType

LEMMA StarterStep ==
    ASSUME TypeInv, StarterInv, [Next]_vars
    PROVE  starter' \in StarterType /\ StarterInv' /\ tracked' \in SUBSET Syncs
<1>0. starter \in StarterType /\ tracked \in SUBSET Syncs
  BY DEF TypeInv
<1>1. Resting \in StarterType /\ Resting.fresh = FALSE
  BY DEF Resting, StarterType
<1>2. ASSUME starter' = [starter EXCEPT !.fresh = FALSE]
      PROVE  starter' \in StarterType /\ StarterInv'
  BY <1>0, <1>2, StarterSaved DEF StarterInv
<1>3. ASSUME NEW k \in Syncs, NEW target \in Targets, Start(k, target)
      PROVE  starter' \in StarterType /\ StarterInv'
  <2>1. starter' = [sync |-> k, stage |-> "acquired", fresh |-> TRUE]
        /\ session' = AcquireWorkflowLock(session, k)
    BY <1>3 DEF Start
  <2>2. session'.lock = k
    BY <2>1 DEF AcquireWorkflowLock, TypeInv, StorableInv, Storable, SessionType
  <2>3. QED
    BY <2>1, <2>2 DEF StarterType, StarterInv
<1>4. ASSUME NEW k \in Syncs, Send(k) PROVE starter' \in StarterType /\ StarterInv'
  <2>1. CASE starter' = Resting
    BY <1>1, <2>1 DEF StarterInv
  <2>2. CASE starter' = [starter EXCEPT !.stage = "sent"] /\ UNCHANGED session
    <3>1. starter' \in StarterType /\ starter'.fresh = starter.fresh
          /\ starter'.sync = starter.sync
      BY <1>0, <2>2 DEF StarterType
    <3>2. QED
      BY <2>2, <3>1 DEF StarterInv
  <2>3. QED
    BY <1>4, <2>1, <2>2 DEF Send
<1>5. ASSUME starter' = Resting PROVE starter' \in StarterType /\ StarterInv'
  BY <1>1, <1>5 DEF StarterInv
<1>6. ASSUME starter' = starter, session' = session PROVE starter' \in StarterType /\ StarterInv'
  BY <1>0, <1>6 DEF StarterInv
<1>7. ASSUME Age PROVE starter' \in StarterType /\ StarterInv'
  <2>1. session'.lock = session.lock /\ starter' = starter
    BY <1>7 DEF Age, TypeInv, StorableInv, Storable, SessionType
  <2>2. QED
    BY <1>0, <2>1 DEF StarterInv
<1>8. ASSUME Accept PROVE starter' \in StarterType /\ StarterInv'
  BY <1>2, <1>8 DEF Accept, StageRevision, RecordWorkshopMissionSource, Touch, Save
<1>9. ASSUME NEW k \in Syncs, ReconcileActive(k) PROVE starter' \in StarterType /\ StarterInv'
  BY <1>2, <1>6, <1>9 DEF ReconcileActive, TrackFound, HandleTerminal, CancelOverdue, ReconcileAbandoned, Close,
                    Save
<1>10. ASSUME NEW w \in Operations,
              \/ \E kind \in Kinds : Begin(w, kind)
              \/ CancelWorkflowAtSafeBoundary(w) \/ CompleteRunning(w) \/ CompleteSleep(w)
              \/ FailSleepWake(w) \/ ReconcileOperation(w)
       PROVE  starter' \in StarterType /\ StarterInv'
  BY <1>2, <1>10 DEF Begin, CancelWorkflowAtSafeBoundary, CompleteRunning, CompleteSleep,
                     FailSleepWake, ReconcileOperation, Save
<1>11. ASSUME NEW w \in Operations, Dispatch(w) \/ Rollback(w)
       PROVE  starter' = starter /\ session' = session
  BY <1>11 DEF Dispatch, Rollback
<1>12. ASSUME UNCHANGED vars PROVE starter' \in StarterType /\ StarterInv'
  BY <1>6, <1>12 DEF vars
<1>13. ASSUME Crash PROVE starter' \in StarterType /\ StarterInv'
  BY <1>5, <1>13 DEF Crash
<1>14. ASSUME NEW k \in Syncs, Track(k) PROVE starter' = Resting
  BY <1>14 DEF Track
<1>15. starter' \in StarterType /\ StarterInv'
  BY <1>3, <1>4, <1>5, <1>6, <1>7, <1>8, <1>9, <1>10, <1>11, <1>12, <1>13, <1>14
     DEF Next, Synchronise, Invocation, Operate, Environment, EndCommand
<1>16. ASSUME NEW k \in Syncs, Track(k) \/ ReconcileActive(k) \/ Send(k)
       PROVE  tracked' \in SUBSET Syncs
  BY <1>0, <1>16 DEF Track, ReconcileActive, TrackFound, HandleTerminal, CancelOverdue,
                     ReconcileAbandoned, Close, Send
<1>17. ASSUME \/ Accept \/ Environment \/ Crash \/ UNCHANGED vars \/ Operate
              \/ \E k \in Syncs, target \in Targets : Start(k, target)
       PROVE  tracked' = tracked
  BY <1>17 DEF Accept, StageRevision, RecordWorkshopMissionSource, Touch, Age, Crash,
               vars, Start, Operate, Begin, CancelWorkflowAtSafeBoundary, CompleteRunning,
               CompleteSleep, FailSleepWake, ReconcileOperation, Dispatch, Rollback,
               Environment, EndCommand
<1>18. QED
  BY <1>0, <1>15, <1>16, <1>17 DEF Next, Synchronise, Invocation

LEMMA TypeInit == Init => TypeInv /\ StarterInv
<1> SUFFICES ASSUME Init PROVE TypeInv /\ StarterInv
  OBVIOUS
<1>1. 0 \in Revisions /\ 1 \in Revisions /\ 0 \in Snapshots
  BY ContentAssumption DEF Revisions, Snapshots
<1>2. works \in [Workflows -> WorkType] /\ commands \in [Workflows -> CommandType]
      /\ host \in HostType
  BY <1>1 DEF Init, WorkType, CommandType, NoCommand, HostType
<1>3. starter \in StarterType /\ starter.fresh = FALSE
  BY DEF Init, Resting, StarterType
<1>4. QED
  BY <1>2, <1>3, StorableInit DEF Init, TypeInv, StarterInv

LEMMA TypeStep == TypeInv /\ StarterInv /\ [Next]_vars => TypeInv' /\ StarterInv'
BY StorableNext, WorksType, CommandsType, HostsType, StarterStep DEF TypeInv

(* Every variable keeps its type.                                          *)
THEOREM TypeCorrect == Spec => []TypeOK
BY TypeIs, TypeInit, TypeStep, PTL DEF Spec
-----------------------------------------------------------------------------
(* Which revision the host has, at each point of an operation              *)

(* An operation that has the lock runs, and the life says of which kind.    *)
HolderInv ==
    /\ session.lock \notin Operations => session.life \in {"RUNNING", "SLEEPING", "FAILED"}
    /\ \A w \in Operations : session.lock = w =>
         /\ works[w].status = "RUNNING" /\ works[w].type \in Kinds
         /\ works[w].stage \in {"begun", "dispatched", "rolled back"}
         /\ session.life = Transition[works[w].type]
         /\ \A v \in Operations : w < v => works[v].status = "none"

(* Operations are taken in order; a later one's success has made the        *)
(* earlier ones' commands give up; one that has not begun has sent nothing. *)
OrderInv ==
    \A w \in Operations :
      /\ works[w].status = "none" \/ works[w].stage = "begun" => commands[w].state = "unsent"
      /\ \A v \in Operations : v < w =>
           /\ works[w].status # "none" => works[v].status # "none"
           /\ commands[w].state = "success" => commands[v].state # "pending"

(* A command that may still change the links is that of the operation that  *)
(* has the lock, or the session has failed and is to be bootstrapped.      *)
QuietInv ==
    \A v \in Operations : commands[v].state = "pending" =>
      /\ session.life \notin {"RUNNING", "SLEEPING", "STOPPING"}
      /\ session.life \in {"WAKING", "RESTARTING"} => session.lock = v

(* Between operations the links are the active revision's, and a server     *)
(* that runs was started from them; within one, its own command has put in  *)
(* place what it will make active.                                         *)
RestInv ==
    /\ session.life \in {"RUNNING", "STOPPING"} => host.running = session.active
    /\ session.life \in {"RUNNING", "SLEEPING", "STOPPING"} => host.linked = session.active

InstallInv ==
    \A w \in Operations : session.lock = w =>
      /\ session.life = "WAKING" /\ works[w].stage = "begun" => host.linked = session.active
      /\ session.life = "WAKING" /\ works[w].stage = "dispatched" /\ commands[w].state = "unsent"
           => host.linked = session.active /\ host.running = session.active
      /\ works[w].stage = "dispatched" /\ commands[w].state \in {"pending", "success"}
           => commands[w].mods = PresetRevisionForApplication(session)
      /\ works[w].stage = "dispatched" /\ commands[w].state = "success"
           => host.linked = commands[w].mods /\ host.running = commands[w].mods

OperationInv == HolderInv /\ OrderInv /\ QuietInv /\ RestInv /\ InstallInv

LEMMA KindsAre ==
    /\ Kinds = {"Sleep", "Wake", "Restart", "Bootstrap"}
    /\ Source["Sleep"] = "RUNNING" /\ Transition["Sleep"] = "STOPPING"
    /\ Source["Restart"] = "RUNNING" /\ Transition["Restart"] = "RESTARTING"
    /\ Source["Wake"] = "SLEEPING" /\ Transition["Wake"] = "WAKING"
    /\ Source["Bootstrap"] = "FAILED" /\ Transition["Bootstrap"] = "BOOTSTRAPPING"
BY DEF Kinds, Source, Transition

LEMMA OperationInit == Init => OperationInv
<1> SUFFICES ASSUME Init PROVE OperationInv
  OBVIOUS
<1>1. PICK life \in {"RUNNING", "SLEEPING"} :
        /\ session.life = life /\ session.lock = NoWorkflow /\ session.active = 1
        /\ host.linked = 1 /\ host.running = IF life = "RUNNING" THEN 1 ELSE 0
  BY ContentAssumption DEF Init
<1>2. NoWorkflow \notin Operations /\ Operations \subseteq Workflows
  BY ContentAssumption DEF Workflows
<1>3. \A w \in Operations : works[w].status = "none" /\ commands[w].state = "unsent"
  BY <1>2 DEF Init, NoCommand
<1>4. HolderInv /\ InstallInv
  BY <1>1, <1>2 DEF HolderInv, InstallInv
<1>5. OrderInv /\ QuietInv /\ RestInv
  BY <1>1, <1>3 DEF OrderInv, QuietInv, RestInv
<1>6. QED
  BY <1>4, <1>5 DEF OperationInv

(* What no operation does: the life, the active revision, the host's links  *)
(* and every operation's workflow and command are left as they are, and so  *)
(* is the session an operation has locked.                                 *)
Aside ==
    /\ session'.life = session.life /\ session'.active = session.active
    /\ session.lock \in Operations =>
         session'.lock = session.lock /\ session'.pending = session.pending
    /\ session.lock \notin Operations => session'.lock \notin Operations
    /\ \A v \in Operations : works'[v] = works[v] /\ commands'[v] = commands[v]
    /\ host'.linked = host.linked /\ host'.running = host.running

LEMMA AsideKeeps == ASSUME OperationInv, Aside PROVE OperationInv'
<1>1. HolderInv'
  <2>1. session'.lock \notin Operations => session'.life \in {"RUNNING", "SLEEPING", "FAILED"}
    BY DEF OperationInv, HolderInv, Aside
  <2>2. ASSUME NEW w \in Operations, session'.lock = w
        PROVE  session.lock = w /\ session'.life = session.life
               /\ \A v \in Operations : works'[v] = works[v]
    BY <2>2 DEF Aside
  <2>3. QED
    BY <2>1, <2>2 DEF OperationInv, HolderInv
<1>2. OrderInv'
  BY DEF OperationInv, OrderInv, Aside
<1>3. QuietInv'
  <2> SUFFICES ASSUME NEW v \in Operations, commands'[v].state = "pending"
               PROVE  /\ session'.life \notin {"RUNNING", "SLEEPING", "STOPPING"}
                      /\ session'.life \in {"WAKING", "RESTARTING"} => session'.lock = v
    BY DEF QuietInv
  <2>1. QED
    BY DEF OperationInv, QuietInv, Aside
<1>4. RestInv'
  BY DEF OperationInv, RestInv, Aside
<1>5. InstallInv'
  <2> SUFFICES ASSUME NEW w \in Operations, session'.lock = w PROVE InstallInv!(w)'
    BY DEF InstallInv
  <2>1. session.lock = w /\ session'.pending = session.pending
    BY DEF Aside
  <2>2. PresetRevisionForApplication(session') = PresetRevisionForApplication(session)
    BY <2>1 DEF Aside, PresetRevisionForApplication, HasApplyingPresetRevision
  <2>3. QED
    BY <2>1, <2>2 DEF OperationInv, InstallInv, Aside
<1>6. QED
  BY <1>1, <1>2, <1>3, <1>4, <1>5 DEF OperationInv

LEMMA SessionTyped == ASSUME TypeInv PROVE session \in SessionType
BY DEF TypeInv, StorableInv, Storable

(* A close attaches what the host has published, and gives the lock back.   *)
LEMMA FinishEffect ==
    ASSUME TypeInv, NEW k, NEW success
    PROVE  /\ Finish(session, k, success).session.life = session.life
           /\ Finish(session, k, success).session.active = session.active
           /\ Finish(session, k, success).session.lock = NoWorkflow
           /\ Finish(session, k, success).session.attached
                \subseteq session.attached \cup host.manifests
<1> DEFINE mission == works[k].type = "mission"
           done == success /\ (mission => ManifestIsComplete(session))
           attached == IF done /\ mission THEN PendingWorkshopMissions(session) ELSE {}
<1>0. session \in SessionType
  BY SessionTyped
<1>1. attached \subseteq host.manifests
  BY DEF ManifestIsComplete
<1>2. Finish(session, k, success).session
        = ReleaseWorkflowLock(WithWorkshopMissions(session, attached))
  BY DEF Finish
<1> HIDE DEF attached
<1>3. QED
  BY <1>0, <1>1, <1>2 DEF ReleaseWorkflowLock, WithWorkshopMissions, SessionType

LEMMA Apart == /\ \A k \in Syncs : k \notin Operations
               /\ NoWorkflow \notin Operations
               /\ Operations \subseteq Workflows /\ Syncs \subseteq Workflows
BY ContentAssumption DEF Workflows

LEMMA AcceptAside == ASSUME TypeInv, Accept PROVE Aside
<1>1. CASE Touch
  BY <1>1 DEF Touch, Save, Aside
<1>2. CASE StageRevision
  <2>1. /\ session.lock = NoWorkflow /\ session'.lock = session.lock
        /\ session'.life = session.life /\ session'.active = session.active
    BY <1>2, SessionTyped
       DEF StageRevision, Save, ValidatePresetRevisionStaging, Unlocked, StagePresetRevision,
           SessionType
  <2>2. UNCHANGED <<works, commands, host>>
    BY <1>2 DEF StageRevision
  <2>3. QED
    BY <2>1, <2>2, Apart DEF Aside
<1>3. CASE RecordWorkshopMissionSource
  <2>1. /\ session.lock = NoWorkflow /\ session'.lock = session.lock
        /\ session'.life = session.life /\ session'.active = session.active
    BY <1>3, SessionTyped
       DEF RecordWorkshopMissionSource, Save, CanChangeWorkshopSources, Unlocked, SessionType
  <2>2. UNCHANGED <<works, commands, host>>
    BY <1>3 DEF RecordWorkshopMissionSource
  <2>3. QED
    BY <2>1, <2>2, Apart DEF Aside
<1>4. QED
  BY <1>1, <1>2, <1>3 DEF Accept

(* A start's own finish is that of the lock it still has.                   *)
LEMMA FinishOwnAside ==
    ASSUME TypeInv, StarterInv, NEW k \in Syncs, starter.sync = k, FinishOwn(k)
    PROVE  /\ session'.life = session.life /\ session'.active = session.active
           /\ session' = session \/ (session.lock \notin Operations /\ session'.lock = NoWorkflow)
           /\ \A v \in Operations : works'[v] = works[v]
           /\ session'.attached \subseteq session.attached \cup host.manifests
<1>1. CASE ~starter.fresh
  BY <1>1 DEF FinishOwn
<1>2. CASE starter.fresh
  <2> DEFINE f == Finish(session, k, FALSE)
  <2>1. session' = f.session /\ works' = [works EXCEPT ![k].status = f.status]
    BY <1>2 DEF FinishOwn
  <2>2. session.lock = k
    BY <1>2 DEF StarterInv
  <2>3. /\ f.session.life = session.life /\ f.session.active = session.active
        /\ f.session.lock = NoWorkflow
        /\ f.session.attached \subseteq session.attached \cup host.manifests
    BY FinishEffect, Zenon
  <2> HIDE DEF f
  <2>4. \A v \in Operations : works'[v] = works[v]
    BY <2>1, Apart DEF TypeInv
  <2>5. QED
    BY <2>1, <2>2, <2>3, <2>4, Apart
<1>3. QED
  BY <1>1, <1>2

LEMMA SynchroniseAside ==
    ASSUME TypeInv, StarterInv, OperationInv, Synchronise
    PROVE  Aside /\ host' = host /\ session'.attached \subseteq session.attached \cup host.manifests
<1> DEFINE Good ==
      Aside /\ host' = host /\ session'.attached \subseteq session.attached \cup host.manifests
<1>1. ASSUME NEW k \in Syncs, NEW target \in Targets, Start(k, target) PROVE Good
  <2>1. session.life = "RUNNING" /\ session' = AcquireWorkflowLock(session, k)
        /\ commands' = commands /\ host' = host
    BY <1>1 DEF Start
  <2>2. session.lock \notin Operations
    BY <2>1, KindsAre DEF OperationInv, HolderInv
  <2>3. /\ session'.life = session.life /\ session'.active = session.active
        /\ session'.lock = k /\ session'.attached = session.attached
    BY <2>1, SessionTyped DEF AcquireWorkflowLock, SessionType
  <2>4. \A v \in Operations : works'[v] = works[v]
    BY <1>1, Apart DEF Start, TypeInv
  <2>5. QED
    BY <2>1, <2>2, <2>3, <2>4, Apart DEF Aside
<1>2. ASSUME NEW k \in Syncs, Send(k) \/ Track(k) PROVE Good
  <2>1. \A v \in Operations : commands'[v] = commands[v]
    BY <1>2, Apart DEF Send, Track, TypeInv
  <2>2. host' = host /\ starter.sync = k
    BY <1>2 DEF Send, Track
  <2>3. CASE session' = session /\ works' = works
    BY <2>1, <2>2, <2>3 DEF Aside
  <2>4. CASE FinishOwn(k)
    BY <2>1, <2>2, <2>4, FinishOwnAside, Apart DEF Aside
  <2>5. QED
    BY <1>2, <2>3, <2>4 DEF Send, Track
<1>3. ASSUME Crash PROVE Good
  BY <1>3 DEF Crash, Aside
<1>4. ASSUME NEW k \in Syncs, NEW success, CanClose(k), Close(k, success), host' = host,
             \A v \in Operations : commands'[v] = commands[v]
      PROVE  Good
  <2> DEFINE f == Finish(session, k, success)
  <2>1. session' = f.session /\ works' = [works EXCEPT ![k].status = f.status]
    BY <1>4 DEF Close, Save
  <2>2. session.lock = k
    BY <1>4 DEF CanClose
  <2>3. /\ f.session.life = session.life /\ f.session.active = session.active
        /\ f.session.lock = NoWorkflow
        /\ f.session.attached \subseteq session.attached \cup host.manifests
    BY FinishEffect, Zenon
  <2> HIDE DEF f
  <2>4. \A v \in Operations : works'[v] = works[v]
    BY <2>1, Apart DEF TypeInv
  <2>5. QED
    BY <1>4, <2>1, <2>2, <2>3, <2>4, Apart DEF Aside
<1>5. ASSUME NEW k \in Syncs, HandleTerminal(k) PROVE Good
  BY <1>4, <1>5 DEF HandleTerminal
<1>6. ASSUME NEW k \in Syncs, CancelOverdue(k) PROVE Good
  <2>1. \A v \in Operations : commands'[v] = commands[v]
    BY <1>6, Apart DEF CancelOverdue, TypeInv
  <2>2. QED
    BY <1>4, <1>6, <2>1 DEF CancelOverdue
<1>7. ASSUME NEW k \in Syncs, ReconcileAbandoned(k) PROVE Good
  <2>1. /\ session'.life = session.life /\ session'.active = session.active
        /\ session'.lock = NoWorkflow /\ session'.attached = session.attached
        /\ session.lock = k
    BY <1>7, SessionTyped DEF ReconcileAbandoned, Abandon, Save, ReleaseWorkflowLock, SessionType
  <2>2. \A v \in Operations : works'[v] = works[v]
    BY <1>7, Apart DEF ReconcileAbandoned, TypeInv
  <2>3. QED
    BY <1>7, <2>1, <2>2, Apart DEF ReconcileAbandoned, Aside
<1>8. ASSUME NEW k \in Syncs, TrackFound(k) PROVE Good
  BY <1>8 DEF TrackFound, Aside
<1>9. QED
  BY <1>1, <1>2, <1>3, <1>5, <1>6, <1>7, <1>8 DEF Synchronise, Invocation, ReconcileActive

(* An operation that ends gives the lock back: to a session that failed, or *)
(* to one at rest whose links are its active revision's and whose commands  *)
(* have all ended.                                                         *)
LEMMA ReleaseKeeps ==
    ASSUME OperationInv, NEW w \in Operations, session.lock = w, session'.lock = NoWorkflow,
           session'.life \in {"RUNNING", "SLEEPING", "FAILED"},
           works'[w].status # "none", works'[w].stage = works[w].stage,
           \A v \in Operations : v # w => works'[v] = works[v],
           \A v \in Operations :
              \/ commands'[v] = commands[v]
              \/ commands[v].state = "pending" /\ commands'[v].state = "failed",
           session'.life # "FAILED" =>
              /\ host'.linked = session'.active
              /\ \A v \in Operations : commands'[v].state # "pending",
           session'.life = "RUNNING" => host'.running = session'.active
    PROVE  OperationInv'
<1>1. works[w].status = "RUNNING"
  BY DEF OperationInv, HolderInv
<1>2. HolderInv' /\ InstallInv'
  BY Apart DEF HolderInv, InstallInv
<1>3. OrderInv'
  <2>1. ASSUME NEW u \in Operations, works'[u].status = "none" \/ works'[u].stage = "begun"
        PROVE  commands'[u].state = "unsent"
    <3>1. works[u].status = "none" \/ works[u].stage = "begun"
      BY <2>1
    <3>2. QED
      BY <3>1 DEF OperationInv, OrderInv
  <2>2. ASSUME NEW u \in Operations, NEW v \in Operations, v < u, works'[u].status # "none"
        PROVE  works'[v].status # "none"
    BY <1>1, <2>2 DEF OperationInv, OrderInv
  <2>3. ASSUME NEW u \in Operations, NEW v \in Operations, v < u, commands'[u].state = "success"
        PROVE  commands'[v].state # "pending"
    BY <2>3 DEF OperationInv, OrderInv
  <2>4. QED
    BY <2>1, <2>2, <2>3 DEF OrderInv
<1>4. QuietInv'
  BY DEF QuietInv
<1>5. RestInv'
  BY DEF RestInv
<1>6. QED
  BY <1>2, <1>3, <1>4, <1>5 DEF OperationInv

LEMMA BeginKeeps ==
    ASSUME TypeInv, OperationInv, NEW w \in Operations, NEW kind \in Kinds, Begin(w, kind)
    PROVE  OperationInv' /\ session'.attached = session.attached /\ host' = host
<1> DEFINE locked == AcquireWorkflowLock([session EXCEPT !.life = Transition[kind]], w)
<1>1. /\ locked.life = Transition[kind] /\ locked.lock = w /\ locked.active = session.active
      /\ locked.attached = session.attached
      /\ DOMAIN locked = DOMAIN session
  BY SessionTyped DEF AcquireWorkflowLock, SessionType
<1>2. session' \in {locked, BeginPresetRevisionApplication(locked, w)}
  BY DEF Begin, Save
<1>3. /\ session'.life = Transition[kind] /\ session'.lock = w
      /\ session'.active = session.active /\ session'.attached = session.attached
  <2> HIDE DEF locked
  <2>1. QED
    BY <1>1, <1>2, SessionTyped DEF BeginPresetRevisionApplication, SessionType
<1>4. /\ works[w].status = "none" /\ session.lock = NoWorkflow /\ session.life = Source[kind]
      /\ \A v \in Operations : v < w => works[v].status # "none"
      /\ commands' = commands /\ host' = host
  BY DEF Begin, IsNext, Unlocked
<1>5. /\ works'[w].status = "RUNNING" /\ works'[w].type = kind /\ works'[w].stage = "begun"
      /\ \A v \in Operations : v # w => works'[v] = works[v]
  BY Apart DEF Begin, TypeInv
<1>6. \A v \in Operations : w < v => works[v].status = "none"
  BY <1>4 DEF OperationInv, OrderInv
<1>7. \A v \in Operations : w < v => v # w
  BY ContentAssumption
<1>8. HolderInv'
  BY <1>3, <1>5, <1>6, <1>7 DEF HolderInv
<1>9. OrderInv'
  <2>1. ASSUME NEW u \in Operations, works'[u].status = "none" \/ works'[u].stage = "begun"
        PROVE  commands'[u].state = "unsent"
    BY <1>4, <1>5, <2>1 DEF OperationInv, OrderInv
  <2>2. ASSUME NEW u \in Operations, NEW v \in Operations, v < u, works'[u].status # "none"
        PROVE  works'[v].status # "none"
    BY <1>4, <1>5, <2>2 DEF OperationInv, OrderInv
  <2>3. QED
    BY <1>4, <2>1, <2>2 DEF OperationInv, OrderInv
<1>10. QuietInv'
  BY <1>3, <1>4, KindsAre DEF OperationInv, QuietInv
<1>11. RestInv'
  BY <1>3, <1>4, KindsAre DEF OperationInv, RestInv
<1>12. InstallInv'
  BY <1>3, <1>4, <1>5, KindsAre DEF OperationInv, RestInv, InstallInv
<1>13. QED
  BY <1>3, <1>4, <1>8, <1>9, <1>10, <1>11, <1>12 DEF OperationInv

(* A cancelled operation has changed nothing, and nothing can change it.    *)
LEMMA CancelKeeps ==
    ASSUME TypeInv, OperationInv, NEW w \in Operations, CancelWorkflowAtSafeBoundary(w)
    PROVE  OperationInv' /\ session'.attached = session.attached /\ host' = host
<1>1. /\ session.lock = w /\ works[w].stage = "begun" /\ works[w].type # "Restart"
      /\ commands' = commands /\ host' = host
  BY DEF CancelWorkflowAtSafeBoundary, Holds
<1>2. /\ session'.life = Source[works[w].type] /\ session'.lock = NoWorkflow
      /\ session'.active = session.active /\ session'.attached = session.attached
  BY SessionTyped
     DEF CancelWorkflowAtSafeBoundary, Save, ReleaseWorkflowLock, SessionType
<1>3. /\ works'[w].status = "CANCELLED" /\ works'[w].stage = works[w].stage
      /\ \A v \in Operations : v # w => works'[v] = works[v]
  BY Apart DEF CancelWorkflowAtSafeBoundary, TypeInv, WorkType
<1>4. /\ works[w].type \in Kinds /\ session.life = Transition[works[w].type]
      /\ commands[w].state = "unsent"
  BY <1>1 DEF OperationInv, HolderInv, OrderInv
<1>5. session'.life # "FAILED" => \A v \in Operations : commands[v].state # "pending"
  BY <1>1, <1>2, <1>4, KindsAre DEF OperationInv, QuietInv
<1>6. /\ session'.life # "FAILED" => host.linked = session.active
      /\ session'.life = "RUNNING" => host.running = session.active
  BY <1>1, <1>2, <1>4, KindsAre DEF OperationInv, RestInv, InstallInv
<1>7. session'.life \in {"RUNNING", "SLEEPING", "FAILED"}
  BY <1>1, <1>2, <1>4, KindsAre
<1>8. QED
  BY <1>1, <1>2, <1>3, <1>5, <1>6, <1>7, ReleaseKeeps

LEMMA DispatchKeeps ==
    ASSUME TypeInv, OperationInv, NEW w \in Operations, Dispatch(w)
    PROVE  OperationInv' /\ session' = session /\ host'.manifests = host.manifests
<1>1. session.lock = w /\ works[w].stage = "begun" /\ session' = session
  BY DEF Dispatch, Holds
<1>2. /\ works[w].status = "RUNNING" /\ works[w].type \in Kinds
      /\ session.life = Transition[works[w].type]
      /\ \A v \in Operations : w < v => works[v].status = "none"
      /\ commands[w].state = "unsent"
  BY <1>1 DEF OperationInv, HolderInv, OrderInv
<1>3. /\ works'[w].status = "RUNNING" /\ works'[w].type = works[w].type
      /\ works'[w].stage = "dispatched"
      /\ \A v \in Operations : v # w => works'[v] = works[v]
  BY <1>2, Apart DEF Dispatch, TypeInv, WorkType
<1>4. /\ \A v \in Operations : v # w => commands'[v] = commands[v]
      /\ \/ commands'[w] = commands[w]
         \/ /\ NeedsContent(session, w) /\ commands'[w].state = "pending"
            /\ commands'[w].mods = PresetRevisionForApplication(session)
  BY Apart DEF Dispatch, TypeInv, ContentCommand
<1>5. /\ host'.linked = host.linked /\ host'.manifests = host.manifests
      /\ host'.running = IF works[w].type = "Wake" THEN host.linked ELSE host.running
  BY DEF Dispatch, TypeInv, HostType
<1>6. HolderInv'
  <2>1. \A v \in Operations : w < v => works'[v].status = "none"
    BY <1>2, <1>3
  <2>2. QED
    BY <1>1, <1>2, <1>3, <2>1 DEF HolderInv
<1>7. OrderInv'
  <2>1. ASSUME NEW u \in Operations, works'[u].status = "none" \/ works'[u].stage = "begun"
        PROVE  commands'[u].state = "unsent"
    BY <1>3, <1>4, <2>1 DEF OperationInv, OrderInv
  <2>2. ASSUME NEW u \in Operations, NEW v \in Operations, v < u, works'[u].status # "none"
        PROVE  works'[v].status # "none"
    BY <1>2, <1>3, <2>2 DEF OperationInv, OrderInv
  <2>3. ASSUME NEW u \in Operations, NEW v \in Operations, v < u, commands'[u].state = "success"
        PROVE  commands'[v].state # "pending"
    <3>1. commands[u].state = "success"
      BY <1>2, <1>4, <2>3
    <3>2. CASE v = w
      BY <1>2, <2>3, <3>1, <3>2 DEF OperationInv, OrderInv
    <3>3. CASE v # w
      BY <1>4, <2>3, <3>1, <3>3 DEF OperationInv, OrderInv
    <3>4. QED
      BY <3>2, <3>3
  <2>4. QED
    BY <2>1, <2>2, <2>3 DEF OrderInv
<1>8. NeedsContent(session, w) => works[w].type # "Sleep"
  BY DEF NeedsContent
<1>9. QuietInv'
  <2>1. ASSUME NEW v \in Operations, commands'[v].state = "pending"
        PROVE  /\ session.life \notin {"RUNNING", "SLEEPING", "STOPPING"}
               /\ session.life \in {"WAKING", "RESTARTING"} => session.lock = v
    <3>1. CASE v = w
      BY <1>1, <1>2, <1>4, <1>8, <2>1, <3>1, KindsAre
    <3>2. CASE v # w
      BY <1>4, <2>1, <3>2 DEF OperationInv, QuietInv
    <3>3. QED
      BY <3>1, <3>2
  <2>2. QED
    BY <1>1, <2>1 DEF QuietInv
<1>10. RestInv'
  BY <1>1, <1>2, <1>5, KindsAre DEF OperationInv, RestInv
<1>11. InstallInv'
  <2>1. session.life = "WAKING" => works[w].type = "Wake" /\ host.linked = session.active
    BY <1>1, <1>2, KindsAre DEF OperationInv, InstallInv
  <2>2. commands'[w].state \in {"unsent", "pending"}
    BY <1>2, <1>4
  <2>3. commands'[w].state = "pending" => commands'[w].mods = PresetRevisionForApplication(session)
    BY <1>2, <1>4
  <2>4. QED
    BY <1>1, <1>3, <1>5, <2>1, <2>2, <2>3 DEF InstallInv
<1>12. QED
  BY <1>1, <1>5, <1>6, <1>7, <1>9, <1>10, <1>11 DEF OperationInv

(* A server that is declared running runs what its command installed, or    *)
(* what the links were when the instance woke: the revision made active.    *)
LEMMA CompleteRunningKeeps ==
    ASSUME TypeInv, OperationInv, NEW w \in Operations, CompleteRunning(w)
    PROVE  /\ OperationInv' /\ host' = host
           /\ session'.attached \subseteq session.attached \cup host.manifests
<1> DEFINE missions == PendingWorkshopMissions(session)
           s == WithWorkshopMissions(session, missions)
           promoted == PromotePresetRevision(s, w)
<1>0. session \in SessionType
  BY SessionTyped
<1>1. /\ session.lock = w /\ works[w].stage = "dispatched" /\ works[w].type # "Sleep"
      /\ commands' = commands /\ host' = host /\ missions \subseteq host.manifests
      /\ \/ commands[w].state = "success"
         \/ commands[w].state = "unsent" /\ ~NeedsContent(session, w)
  BY DEF CompleteRunning, Holds, ManifestIsComplete
<1>2. session' = ReleaseWorkflowLock([promoted EXCEPT !.life = "RUNNING"])
  BY DEF CompleteRunning, Save
<1> HIDE DEF missions
<1>3. /\ s.pending = session.pending /\ s.active = session.active
      /\ s.attached = session.attached \cup missions /\ DOMAIN s = DOMAIN session
  BY <1>0 DEF WithWorkshopMissions, SessionType
<1> HIDE DEF s
<1>4. /\ promoted.active = PresetRevisionForApplication(session)
      /\ promoted.attached = s.attached /\ DOMAIN promoted = DOMAIN session
  BY <1>0, <1>1, <1>3
     DEF PromotePresetRevision, PresetRevisionForApplication, HasApplyingPresetRevision,
         SessionType
<1> HIDE DEF promoted
<1>5. /\ session'.life = "RUNNING" /\ session'.lock = NoWorkflow
      /\ session'.active = PresetRevisionForApplication(session)
      /\ session'.attached = session.attached \cup missions
  BY <1>0, <1>2, <1>3, <1>4 DEF ReleaseWorkflowLock, SessionType
<1>6. /\ works'[w].status = "SUCCEEDED" /\ works'[w].stage = works[w].stage
      /\ \A v \in Operations : v # w => works'[v] = works[v]
  BY Apart DEF CompleteRunning, TypeInv, WorkType
<1>7. /\ works[w].type \in Kinds /\ session.life = Transition[works[w].type]
      /\ \A v \in Operations : w < v => works[v].status = "none"
  BY <1>1 DEF OperationInv, HolderInv
<1>8. CASE commands[w].state = "success"
  <2>1. host.linked = session'.active /\ host.running = session'.active
    BY <1>1, <1>5, <1>8 DEF OperationInv, InstallInv
  <2>2. ASSUME NEW v \in Operations PROVE commands[v].state # "pending"
    <3>1. CASE v < w
      BY <1>8, <3>1 DEF OperationInv, OrderInv
    <3>2. CASE w < v
      BY <1>7, <3>2 DEF OperationInv, OrderInv
    <3>3. CASE v = w
      BY <1>8, <3>3
    <3>4. QED
      BY <3>1, <3>2, <3>3, ContentAssumption
  <2>3. QED
    BY <1>1, <1>5, <1>6, <2>1, <2>2, ReleaseKeeps
<1>9. CASE commands[w].state = "unsent" /\ ~NeedsContent(session, w)
  <2>1. works[w].type = "Wake" /\ ~HasApplyingPresetRevision(session, w)
    BY <1>1, <1>7, <1>9, KindsAre DEF NeedsContent
  <2>2. session.life = "WAKING" /\ session'.active = session.active
    BY <1>1, <1>5, <1>7, <2>1, KindsAre DEF PresetRevisionForApplication
  <2>3. host.linked = session'.active /\ host.running = session'.active
    BY <1>1, <1>9, <2>2 DEF OperationInv, InstallInv
  <2>4. \A v \in Operations : commands[v].state # "pending"
    BY <1>1, <1>9, <2>2 DEF OperationInv, QuietInv
  <2>5. QED
    BY <1>1, <1>5, <1>6, <2>3, <2>4, ReleaseKeeps
<1>10. session'.attached \subseteq session.attached \cup host.manifests
  BY <1>1, <1>5
<1>11. OperationInv'
  BY <1>1, <1>8, <1>9
<1>12. QED
  BY <1>1, <1>10, <1>11

(* The stop takes the commands with it and leaves the links.                *)
LEMMA CompleteSleepKeeps ==
    ASSUME TypeInv, OperationInv, NEW w \in Operations, CompleteSleep(w)
    PROVE  /\ OperationInv' /\ session'.attached = session.attached
           /\ host'.manifests = host.manifests
<1>1. session.lock = w /\ works[w].type = "Sleep"
  BY DEF CompleteSleep, Holds
<1>2. /\ session'.life = "SLEEPING" /\ session'.lock = NoWorkflow
      /\ session'.active = session.active /\ session'.attached = session.attached
  BY SessionTyped DEF CompleteSleep, Save, ReleaseWorkflowLock, SessionType
<1>3. /\ works'[w].status = "SUCCEEDED" /\ works'[w].stage = works[w].stage
      /\ \A v \in Operations : v # w => works'[v] = works[v]
  BY Apart DEF CompleteSleep, TypeInv, WorkType
<1>4. host'.linked = host.linked /\ host'.manifests = host.manifests
  BY DEF CompleteSleep, TypeInv, HostType
<1>5. host.linked = session.active
  BY <1>1, KindsAre DEF OperationInv, HolderInv, RestInv
<1>6. \A v \in Operations :
        \/ commands'[v] = commands[v] /\ commands[v].state # "pending"
        \/ commands[v].state = "pending" /\ commands'[v].state = "failed"
  BY Apart DEF CompleteSleep, TypeInv, CommandType
<1>7. /\ \A v \in Operations :
            \/ commands'[v] = commands[v]
            \/ commands[v].state = "pending" /\ commands'[v].state = "failed"
      /\ \A v \in Operations : commands'[v].state # "pending"
  BY <1>6
<1>8. QED
  BY <1>1, <1>2, <1>3, <1>4, <1>5, <1>7, ReleaseKeeps

(* A failure, and the reconciliation of an abandoned operation, leave the   *)
(* host as it is: the session is FAILED and only a bootstrap goes on.       *)
LEMMA FailKeeps ==
    ASSUME TypeInv, OperationInv, NEW w \in Operations, FailSleepWake(w) \/ ReconcileOperation(w)
    PROVE  OperationInv' /\ session'.attached = session.attached /\ host' = host
<1>0. session \in SessionType
  BY SessionTyped
<1>1. session.lock = w /\ commands' = commands /\ host' = host
  BY DEF FailSleepWake, ReconcileOperation, Holds
<1>2. PICK s \in {session, FailPresetRevisionApplication(session, w)} :
        session' = ReleaseWorkflowLock([s EXCEPT !.life = "FAILED"])
  BY DEF FailSleepWake, ReconcileOperation, Save
<1>3. s.attached = session.attached /\ DOMAIN s = DOMAIN session
  BY <1>0, <1>2 DEF FailPresetRevisionApplication, SessionType
<1>4. /\ session'.life = "FAILED" /\ session'.lock = NoWorkflow
      /\ session'.attached = session.attached
  BY <1>0, <1>2, <1>3 DEF ReleaseWorkflowLock, SessionType
<1>5. /\ works'[w].status = "FAILED" /\ works'[w].stage = works[w].stage
      /\ \A v \in Operations : v # w => works'[v] = works[v]
  <2>1. works' = [works EXCEPT ![w].status = "FAILED"]
    BY DEF FailSleepWake, ReconcileOperation
  <2>2. QED
    BY <2>1, Apart DEF TypeInv, WorkType
<1>6. QED
  BY <1>1, <1>4, <1>5, ReleaseKeeps

(* A rollback is of an operation that can only fail from there.             *)
LEMMA RollbackKeeps ==
    ASSUME TypeInv, OperationInv, NEW w \in Operations, Rollback(w)
    PROVE  OperationInv' /\ session' = session /\ host'.manifests = host.manifests
<1>1. /\ session.lock = w /\ session' = session /\ commands' = commands
      /\ works[w].type \in {"Wake", "Bootstrap"}
  BY DEF Rollback, Holds
<1>2. /\ works[w].status = "RUNNING" /\ works[w].type \in Kinds
      /\ session.life = Transition[works[w].type]
      /\ \A v \in Operations : w < v => works[v].status = "none"
  BY <1>1 DEF OperationInv, HolderInv
<1>3. /\ works'[w].status = works[w].status /\ works'[w].type = works[w].type
      /\ works'[w].stage = "rolled back"
      /\ \A v \in Operations : v # w => works'[v] = works[v]
  BY Apart DEF Rollback, TypeInv, WorkType
<1>4. host'.manifests = host.manifests
  BY DEF Rollback, TypeInv, HostType
<1>5. HolderInv'
  <2>1. \A v \in Operations : w < v => works'[v].status = "none"
    BY <1>2, <1>3
  <2>2. QED
    BY <1>1, <1>2, <1>3, <2>1 DEF HolderInv
<1>6. OrderInv'
  <2>1. ASSUME NEW u \in Operations, works'[u].status = "none" \/ works'[u].stage = "begun"
        PROVE  commands'[u].state = "unsent"
    <3>1. u # w
      BY <1>2, <1>3, <2>1
    <3>2. QED
      BY <1>1, <1>3, <2>1, <3>1 DEF OperationInv, OrderInv
  <2>2. ASSUME NEW u \in Operations, NEW v \in Operations, v < u, works'[u].status # "none"
        PROVE  works'[v].status # "none"
    BY <1>2, <1>3, <2>2 DEF OperationInv, OrderInv
  <2>3. QED
    BY <1>1, <2>1, <2>2 DEF OperationInv, OrderInv
<1>7. QuietInv' /\ RestInv'
  BY <1>1, <1>2, KindsAre DEF OperationInv, QuietInv, RestInv
<1>8. InstallInv'
  BY <1>1, <1>3 DEF InstallInv
<1>9. QED
  BY <1>1, <1>4, <1>5, <1>6, <1>7, <1>8 DEF OperationInv

(* An operation's command that ends is the holder's, or finds the session   *)
(* failed or being bootstrapped; a later one's success has not been seen.   *)
LEMMA EndOperationKeeps ==
    ASSUME TypeInv, OperationInv, NEW w \in Operations, EndCommand(w) PROVE OperationInv'
<1>1. /\ session' = session /\ works' = works /\ commands[w].state = "pending"
  BY EndEffect, Apart
<1>2. PICK outcome \in {"success", "failed"} :
        /\ commands' = Ended(w, outcome)
        /\ outcome = "success" => host'.linked = commands[w].mods /\ host'.running = commands[w].mods
  BY EndEffect, Apart
<1>3. commands'[w].state = outcome /\ commands'[w].mods = commands[w].mods
  BY <1>2, Apart DEF Ended, TypeInv, CommandType
<1>4. \A v \in Operations : v # w =>
        \/ commands'[v] = commands[v] /\ ~(v < w /\ commands[v].state = "pending")
        \/ v < w /\ commands[v].state = "pending" /\ commands'[v].state = "failed"
  BY <1>2, Apart DEF Ended, TypeInv, CommandType
<1>5. \A v \in Operations : w < v => commands[v].state # "success"
  BY <1>1 DEF OperationInv, OrderInv
<1>6. HolderInv'
  BY <1>1 DEF OperationInv, HolderInv
<1>7. OrderInv'
  <2>1. ASSUME NEW u \in Operations, works'[u].status = "none" \/ works'[u].stage = "begun"
        PROVE  commands'[u].state = "unsent"
    <3>1. commands[u].state = "unsent"
      BY <1>1, <2>1 DEF OperationInv, OrderInv
    <3>2. QED
      BY <1>1, <1>4, <3>1
  <2>2. ASSUME NEW u \in Operations, NEW v \in Operations, v < u, commands'[u].state = "success"
        PROVE  commands'[v].state # "pending"
    <3>1. CASE u = w
      <4>1. v # w
        BY <2>2, <3>1, ContentAssumption
      <4>2. QED
        BY <1>4, <2>2, <3>1, <4>1
    <3>2. CASE u # w
      <4>1. commands[u].state = "success"
        BY <1>4, <2>2, <3>2
      <4>2. commands[v].state # "pending"
        BY <2>2, <4>1 DEF OperationInv, OrderInv
      <4>3. QED
        BY <1>1, <1>4, <4>2
    <3>3. QED
      BY <3>1, <3>2
  <2>3. QED
    BY <1>1, <2>1, <2>2 DEF OperationInv, OrderInv
<1>8. QuietInv'
  <2>1. ASSUME NEW v \in Operations, commands'[v].state = "pending"
        PROVE  commands[v].state = "pending"
    BY <1>1, <1>4, <2>1
  <2>2. QED
    BY <1>1, <2>1 DEF OperationInv, QuietInv
<1>9. session.life \notin {"RUNNING", "SLEEPING", "STOPPING"}
      /\ (session.life = "WAKING" => session.lock = w)
  BY <1>1 DEF OperationInv, QuietInv
<1>10. RestInv'
  BY <1>1, <1>9 DEF RestInv
<1>11. InstallInv'
  <2> SUFFICES ASSUME NEW u \in Operations, session.lock = u
               PROVE  /\ ~(session.life = "WAKING" /\ works[u].stage = "begun")
                      /\ ~(session.life = "WAKING" /\ commands'[u].state = "unsent")
                      /\ works[u].stage = "dispatched" /\ commands'[u].state \in {"pending", "success"}
                           => commands'[u].mods = PresetRevisionForApplication(session)
                      /\ works[u].stage = "dispatched" /\ commands'[u].state = "success"
                           => host'.linked = commands'[u].mods /\ host'.running = commands'[u].mods
    BY <1>1 DEF InstallInv
  <2>1. ~(session.life = "WAKING" /\ works[u].stage = "begun")
    BY <1>1, <1>9 DEF OperationInv, OrderInv
  <2>2. ~(session.life = "WAKING" /\ commands'[u].state = "unsent")
    BY <1>3, <1>9
  <2>3. CASE u = w
    BY <1>1, <1>2, <1>3, <2>1, <2>2, <2>3 DEF OperationInv, InstallInv
  <2>4. CASE u # w
    <3>1. commands'[u].state \in {"pending", "success"} => commands'[u] = commands[u]
      BY <1>4, <2>4
    <3>2. commands'[u].state # "success"
      <4>1. CASE w < u
        BY <1>5, <3>1, <4>1
      <4>2. CASE u < w
        BY <1>1, <4>2 DEF OperationInv, HolderInv, OrderInv
      <4>3. QED
        BY <2>4, <4>1, <4>2, ContentAssumption
    <3>3. QED
      BY <2>1, <2>2, <3>1, <3>2 DEF OperationInv, InstallInv
  <2>5. QED
    BY <2>3, <2>4
<1>12. QED
  BY <1>6, <1>7, <1>8, <1>10, <1>11 DEF OperationInv

LEMMA EnvironmentAside ==
    ASSUME TypeInv, Age \/ (\E k \in Syncs : EndCommand(k)) \/ UNCHANGED vars
    PROVE  Aside
<1>1. CASE Age
  <2>1. /\ session'.life = session.life /\ session'.active = session.active
        /\ session'.lock = session.lock /\ session'.pending = session.pending
    BY <1>1, SessionTyped DEF Age, SessionType
  <2>2. QED
    BY <1>1, <2>1 DEF Age, Aside
<1>2. ASSUME NEW k \in Syncs, EndCommand(k) PROVE Aside
  <2>1. /\ UNCHANGED <<session, works>>
        /\ host'.linked = host.linked /\ host'.running = host.running
        /\ \E outcome \in {"success", "failed"} : commands' = Ended(k, outcome)
    BY <1>2, EndEffect, Apart
  <2>2. \A v \in Operations : commands'[v] = commands[v]
    BY <2>1, Apart DEF Ended
  <2>3. QED
    BY <2>1, <2>2 DEF Aside
<1>3. CASE UNCHANGED vars
  BY <1>3 DEF vars, Aside
<1>4. QED
  BY <1>1, <1>2, <1>3

LEMMA OperateKeeps ==
    ASSUME TypeInv, OperationInv, Operate
    PROVE  /\ OperationInv' /\ host'.manifests = host.manifests
           /\ session'.attached \subseteq session.attached \cup host.manifests
<1>1. PICK w \in Operations :
        \/ \E kind \in Kinds : Begin(w, kind)
        \/ CancelWorkflowAtSafeBoundary(w) \/ Dispatch(w) \/ CompleteRunning(w)
        \/ CompleteSleep(w) \/ Rollback(w) \/ FailSleepWake(w) \/ ReconcileOperation(w)
  BY DEF Operate
<1>2. CASE \E kind \in Kinds : Begin(w, kind)
  BY <1>2, BeginKeeps
<1>3. CASE CancelWorkflowAtSafeBoundary(w)
  BY <1>3, CancelKeeps
<1>4. CASE Dispatch(w)
  BY <1>4, DispatchKeeps
<1>5. CASE CompleteRunning(w)
  BY <1>5, CompleteRunningKeeps
<1>6. CASE CompleteSleep(w)
  BY <1>6, CompleteSleepKeeps
<1>7. CASE Rollback(w)
  BY <1>7, RollbackKeeps
<1>8. CASE FailSleepWake(w) \/ ReconcileOperation(w)
  BY <1>8, FailKeeps
<1>9. QED
  BY <1>1, <1>2, <1>3, <1>4, <1>5, <1>6, <1>7, <1>8

ContentInv == TypeInv /\ StarterInv /\ OperationInv /\ AttachedMissionsAreOnHost

LEMMA ContentInit == Init => ContentInv
<1>1. Init => AttachedMissionsAreOnHost
  BY DEF Init, AttachedMissionsAreOnHost
<1>2. QED
  BY <1>1, TypeInit, OperationInit DEF ContentInv

LEMMA ContentStep == ContentInv /\ [Next]_vars => ContentInv'
<1> SUFFICES ASSUME ContentInv, [Next]_vars
             PROVE  OperationInv' /\ AttachedMissionsAreOnHost'
  BY TypeStep DEF ContentInv
<1> DEFINE Good == OperationInv' /\ AttachedMissionsAreOnHost'
<1>0. TypeInv /\ StarterInv /\ OperationInv /\ session.attached \subseteq host.manifests
  BY DEF ContentInv, AttachedMissionsAreOnHost
<1>1. ASSUME Accept PROVE Good
  <2>1. host' = host /\ session'.attached = session.attached
    BY <1>0, <1>1, SessionTyped
       DEF Accept, StageRevision, RecordWorkshopMissionSource, Touch, Save,
           StagePresetRevision, SessionType
  <2>2. QED
    BY <1>0, <1>1, <2>1, AcceptAside, AsideKeeps DEF AttachedMissionsAreOnHost
<1>2. ASSUME Synchronise PROVE Good
  BY <1>0, <1>2, SynchroniseAside, AsideKeeps DEF AttachedMissionsAreOnHost
<1>3. ASSUME Operate PROVE Good
  BY <1>0, <1>3, OperateKeeps DEF AttachedMissionsAreOnHost
<1>4. ASSUME Age \/ UNCHANGED vars PROVE Good
  <2>1. host' = host /\ session'.attached = session.attached
    BY <1>0, <1>4, SessionTyped DEF Age, vars, SessionType
  <2>2. QED
    BY <1>0, <1>4, <2>1, EnvironmentAside, AsideKeeps DEF AttachedMissionsAreOnHost
<1>5. ASSUME NEW w \in Workflows, EndCommand(w) PROVE Good
  <2>1. session' = session /\ host.manifests \subseteq host'.manifests
    BY <1>0, <1>5, EndEffect
  <2>2. OperationInv'
    BY <1>0, <1>5, EnvironmentAside, AsideKeeps, EndOperationKeeps DEF Workflows
  <2>3. QED
    BY <1>0, <2>1, <2>2 DEF AttachedMissionsAreOnHost
<1>6. QED
  BY <1>1, <1>2, <1>3, <1>4, <1>5 DEF Next, Environment

(* A session that runs runs its active revision, whichever operations were  *)
(* cancelled, failed, reconciled or rolled back before, and however late    *)
(* their commands ended.                                                   *)
THEOREM ActiveRevisionRuns == Spec => []ActiveIsInstalled
<1>1. ContentInv => ActiveIsInstalled
  BY DEF ContentInv, OperationInv, RestInv, ActiveIsInstalled
<1>2. QED
  BY <1>1, ContentInit, ContentStep, PTL DEF Spec

(* Every mission the session lists as accepted has its manifest on the host: *)
(* whoever closes a synchronisation reads what the host has published.     *)
THEOREM AttachedArePublished == Spec => []AttachedMissionsAreOnHost
<1>1. ContentInv => AttachedMissionsAreOnHost
  BY DEF ContentInv
<1>2. QED
  BY <1>1, ContentInit, ContentStep, PTL DEF Spec

=============================================================================
