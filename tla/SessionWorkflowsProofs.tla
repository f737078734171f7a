------------------------ MODULE SessionWorkflowsProofs ------------------------
(***************************************************************************)
(* Proofs about SessionWorkflows, for every set of workflows, every         *)
(* assignment of kinds, every resting state and every receive limit.       *)
(*                                                                         *)
(* First the lease: who holds it, and that each step takes it, keeps it or *)
(* gives it back.  Then that the lifecycle, the lease and the sleep marker *)
(* of the row fit together after every step, so that Session.Validate      *)
(* accepts it, and that the load guards fence off every execution but the  *)
(* holder's.  Then what follows of the executions (ExecInv), of the host   *)
(* and of what the session records of it (DataInv), and of the players'    *)
(* data (SurvivalInv).                                                     *)
(***************************************************************************)
EXTENDS SessionWorkflows, TLAPS

-----------------------------------------------------------------------------
(* The inductive invariant                                                 *)

(* The copy that PersistDispatch puts back was taken while the workflow was *)
(* open: without this the put could bring a workflow back to "absent".     *)
DispatchIsHeld ==
    \A c \in Workflows :
        TypeOf[c] = "Bootstrap" /\ exec[c] = "Persist" => held[c].status \in OpenStatus

(* Admission lets a NEW session's expired lease be taken over.  There is    *)
(* never one to take: nobody holds the lease of a session not yet started.  *)
UnstartedIsUnlocked == session.life \in {"DRAFT", "NEW"} => Unlocked(session)

IInv == TypeOK /\ LeaseAgreement /\ DispatchIsHeld /\ UnstartedIsUnlocked

(* The three things that a step can do to the lease. *)
KeepsLease ==
    /\ session'.lock = session.lock /\ session'.kind = session.kind
    /\ \A d \in Workflows :
          \/ wf'[d].status = wf[d].status
          \/ wf[d].status \in OpenStatus /\ wf'[d].status \in OpenStatus

TakesLease(b) ==
    /\ Unlocked(session) /\ wf[b].status = "absent"
    /\ session'.lock = b /\ session'.kind = TypeOf[b]
    /\ wf'[b].status = "PENDING"
    /\ \A d \in Workflows \ {b} : wf'[d] = wf[d]

GivesLeaseBack(b) ==
    /\ Holds(b)
    /\ session'.lock = NoWorkflow
    /\ wf'[b].status \in Terminal
    /\ \A d \in Workflows \ {b} : wf'[d] = wf[d]

LeaseStep ==
    \/ KeepsLease
    \/ \E b \in Workflows : TakesLease(b)
    \/ \E b \in Workflows : GivesLeaseBack(b)

-----------------------------------------------------------------------------
(* Lemmas about the session's transitions                                  *)

LEMMA States ==
    /\ \A x \in {"NEW", "DRAFT", "VALIDATING", "PROVISIONING", "BOOTSTRAPPING",
                 "INSTALLING", "DESTROYING", "FAILED", "ARCHIVED", "RUNNING", "SLEEPING"} :
          x \in LifecycleStates
    /\ \A x \in {"STOPPING", "WAKING", "RESTARTING", "ARCHIVING", "RESTORING", "DELETING",
                 "DELETED"} : x \in LifecycleStates
    /\ \A x \in {"UNKNOWN", "STARTING", "HEALTHY", "UNHEALTHY", "STOPPED"} :
          x \in HealthStates
BY DEF LifecycleStates, HealthStates

LEMMA ClearLockTyped ==
    ASSUME NEW s \in Session,
           NEW outcome \in {"completed", "action_required", "cancelled"}
    PROVE  /\ ClearLock(s, outcome) \in Session
           /\ ClearLock(s, outcome).lock = NoWorkflow
<1>1. ClearLock(s, outcome) \in Session
  BY DEF ClearLock, Session
<1>2. ClearLock(s, outcome).lock = NoWorkflow
  BY DEF ClearLock, Session
<1>3. QED
  BY <1>1, <1>2

(* What a write by the holder of the lease, or by nobody, leaves alone. *)
KeepsLock(s, t) ==
    /\ t \in Session
    /\ t.lock = s.lock /\ t.kind = s.kind
    /\ t.life \in {"DRAFT", "NEW"} => s.life \in {"DRAFT", "NEW"}

LEMMA AcquireTyped ==
    ASSUME NEW s \in Session, NEW w \in Workflows, NEW k \in Kinds
    PROVE  /\ AcquireWorkflowLock(s, w, k) \in Session
           /\ AcquireWorkflowLock(s, w, k).lock = w
           /\ AcquireWorkflowLock(s, w, k).kind = k
<1>1. AcquireWorkflowLock(s, w, k) \in Session
  BY DEF AcquireWorkflowLock, Session
<1>2. AcquireWorkflowLock(s, w, k).lock = w
  BY DEF AcquireWorkflowLock, Session
<1>3. AcquireWorkflowLock(s, w, k).kind = k
  BY DEF AcquireWorkflowLock, Session
<1>4. QED
  BY <1>1, <1>2, <1>3

(* What all the Begin transitions do beside taking the lock. *)
Enter(s, l, h) == [s EXCEPT !.life = l, !.health = h]

LEMMA EnterTyped ==
    ASSUME NEW s \in Session, NEW l \in LifecycleStates, NEW h \in HealthStates
    PROVE  /\ Enter(s, l, h) \in Session /\ Enter(s, l, h).life = l
           /\ Enter(s, l, h).lock = s.lock /\ Enter(s, l, h).kind = s.kind
<1>1. Enter(s, l, h) \in Session
  BY DEF Enter, Session
<1>2. /\ Enter(s, l, h).life = l
      /\ Enter(s, l, h).lock = s.lock /\ Enter(s, l, h).kind = s.kind
  BY DEF Enter, Session
<1>3. QED
  BY <1>1, <1>2

LEMMA WakesTyped ==
    ASSUME NEW s \in Session
    PROVE  LET t == [s EXCEPT !.source = "none", !.asleep = FALSE]
           IN  t \in Session /\ t.life = s.life /\ t.lock = s.lock /\ t.kind = s.kind
<1>1. [s EXCEPT !.source = "none", !.asleep = FALSE] \in Session
  BY DEF Session
<1>2. /\ [s EXCEPT !.source = "none", !.asleep = FALSE].life = s.life
      /\ [s EXCEPT !.source = "none", !.asleep = FALSE].lock = s.lock
      /\ [s EXCEPT !.source = "none", !.asleep = FALSE].kind = s.kind
  BY DEF Session
<1>3. QED
  BY <1>1, <1>2

(* Begin takes the lease, and the session leaves the unstarted states. *)
LEMMA BeginTakes ==
    ASSUME NEW s \in Session, NEW w \in Workflows, NEW k \in Kinds, CanBegin(s, k)
    PROVE  /\ Begin(s, w, k) \in Session
           /\ Begin(s, w, k).lock = w /\ Begin(s, w, k).kind = k
           /\ Begin(s, w, k).life \notin {"DRAFT", "NEW"}
<1> DEFINE
      Taken(t) == /\ t \in Session
                  /\ t.lock = w /\ t.kind = k
                  /\ t.life \notin {"DRAFT", "NEW"}
      Locked(l, h) == Enter(AcquireWorkflowLock(s, w, k), l, h)
<1>1. ASSUME NEW l \in LifecycleStates \ {"DRAFT", "NEW"}, NEW h \in HealthStates
      PROVE  Taken(Locked(l, h)) /\ Locked(l, h).life = l
  BY AcquireTyped, EnterTyped
<1>2. /\ {"VALIDATING", "BOOTSTRAPPING", "STOPPING", "WAKING", "RESTARTING", "RESTORING",
          "ARCHIVING", "DELETING"} \subseteq LifecycleStates \ {"DRAFT", "NEW"}
      /\ {"STARTING", "UNKNOWN"} \subseteq HealthStates
  BY DEF LifecycleStates, HealthStates
<1>3. SUFFICES Taken(Begin(s, w, k))
  OBVIOUS
<1> HIDE DEF Taken
<1>4. CASE k = "Provision"
  <2>1. Begin(s, w, k) = Locked("VALIDATING", "STARTING")
    BY <1>4 DEF Begin, AcquireProvisioningWorkflowLock, Enter
  <2> HIDE DEF Locked
  <2>2. QED
    BY <1>1, <1>2, <2>1
<1>5. CASE k = "Bootstrap"
  <2>1. Begin(s, w, k) = Locked("BOOTSTRAPPING", "STARTING")
    BY <1>5 DEF Begin, AcquireBootstrapWorkflowLock, Enter
  <2> HIDE DEF Locked
  <2>2. QED
    BY <1>1, <1>2, <2>1
<1>6. CASE k = "Sleep"
  <2>1. Begin(s, w, k) = Locked("STOPPING", "STARTING")
    BY <1>6 DEF Begin, BeginSleep, Enter
  <2> HIDE DEF Locked
  <2>2. QED
    BY <1>1, <1>2, <2>1
<1>7. CASE k = "Wake"
  <2>1. Begin(s, w, k) = Locked("WAKING", "STARTING")
    BY <1>7 DEF Begin, BeginWake, Enter
  <2> HIDE DEF Locked
  <2>2. QED
    BY <1>1, <1>2, <2>1
<1>8. CASE k = "Restart"
  <2>1. Begin(s, w, k) = Locked("RESTARTING", "STARTING")
    BY <1>8 DEF Begin, BeginRestart, Enter
  <2> HIDE DEF Locked
  <2>2. QED
    BY <1>1, <1>2, <2>1
<1>9. CASE k = "Restore"
  <2>1. Begin(s, w, k) = Locked("RESTORING", "STARTING")
    BY <1>9 DEF Begin, BeginRestore, Enter
  <2> HIDE DEF Locked
  <2>2. QED
    BY <1>1, <1>2, <2>1
<1>10. CASE k = "Archive"
  <2> DEFINE u == Locked("ARCHIVING", "STARTING")
  <2>1. s.life \in {"RUNNING", "SLEEPING"}
    BY <1>10 DEF CanBegin, CanArchive
  <2>2. Begin(s, w, k) = [u EXCEPT !.source = s.life]
    BY <1>10 DEF Begin, BeginArchive, Enter, AcquireWorkflowLock, Session
  <2> HIDE DEF Locked
  <2>3. Taken(u)
    BY <1>1, <1>2
  <2> HIDE DEF u
  <2>4. Taken([u EXCEPT !.source = s.life])
    BY <2>1, <2>3 DEF Taken, Session
  <2>5. QED
    BY <2>2, <2>4
<1>11. CASE k = "Terminate"
  <2> DEFINE u == Locked("DELETING", "UNKNOWN")
  <2>1. Begin(s, w, k) = [u EXCEPT !.source = "none", !.asleep = FALSE]
    BY <1>11 DEF Begin, BeginTermination, Enter
  <2> HIDE DEF Locked
  <2>2. Taken(u)
    BY <1>1, <1>2
  <2> HIDE DEF u
  <2>3. Taken([u EXCEPT !.source = "none", !.asleep = FALSE])
    BY <2>2, WakesTyped DEF Taken
  <2>4. QED
    BY <2>1, <2>3
<1>12. QED
  BY <1>4, <1>5, <1>6, <1>7, <1>8, <1>9, <1>10, <1>11 DEF Kinds

(* The stages, the draft and the probe leave the lock where it is. *)
LEMMA StagesKeepLock ==
    ASSUME NEW s \in Session
    PROVE  /\ KeepsLock(s, ReserveCapacity(s))
           /\ KeepsLock(s, RestoreCapacity(s))
           /\ \A level \in {"instance", "complete"} : KeepsLock(s, RecordLaunch(s, level))
           /\ KeepsLock(s, BeginInstallation(s))
           /\ \A w \in Workflows : KeepsLock(s, RecordVerifiedArchive(s, w))
           /\ \A ready \in BOOLEAN :
                 CanConfigure(s) => KeepsLock(s, Configure(s, ready))
           /\ KeepsLock(s, BeginMonitoring(s))
           /\ \A verdict \in {"HEALTHY", "UNHEALTHY"} :
                 KeepsLock(s, CompleteMonitoring(s, verdict))
<1>1. KeepsLock(s, ReserveCapacity(s))
  BY States DEF KeepsLock, ReserveCapacity, Session
<1>2. KeepsLock(s, RestoreCapacity(s))
  BY DEF KeepsLock, RestoreCapacity, Session
<1>3. \A level \in {"instance", "complete"} : KeepsLock(s, RecordLaunch(s, level))
  BY DEF KeepsLock, RecordLaunch, Session
<1>4. KeepsLock(s, BeginInstallation(s))
  BY States DEF KeepsLock, BeginInstallation, Session
<1>5. \A w \in Workflows : KeepsLock(s, RecordVerifiedArchive(s, w))
  BY States DEF KeepsLock, RecordVerifiedArchive, Session
<1>6. \A ready \in BOOLEAN : CanConfigure(s) => KeepsLock(s, Configure(s, ready))
  BY States DEF KeepsLock, CanConfigure, Configure, Session
<1>7. KeepsLock(s, BeginMonitoring(s))
  BY DEF KeepsLock, BeginMonitoring, Session
<1>8. \A verdict \in {"HEALTHY", "UNHEALTHY"} : KeepsLock(s, CompleteMonitoring(s, verdict))
  BY States DEF KeepsLock, CompleteMonitoring, Session
<1>9. QED
  BY <1>1, <1>2, <1>3, <1>4, <1>5, <1>6, <1>7, <1>8

(* Every way of giving the lease back clears the lock. *)
Released(s) == s \in Session /\ s.lock = NoWorkflow

LEMMA CompleteReleases ==
    ASSUME NEW s \in Session, NEW k \in Kinds
    PROVE  Complete(s, k) \in Session /\ Complete(s, k).lock = NoWorkflow
<1>1. Released(CompleteInfrastructureProvisioning(s))
  <2>1. [s EXCEPT !.life = "BOOTSTRAPPING"] \in Session
    BY States DEF Session
  <2>2. QED
    BY <2>1, ClearLockTyped DEF CompleteInfrastructureProvisioning, Released
<1>2. Released(CompleteBootstrap(s)) /\ Released(CompleteRestore(s))
  <2>1. [s EXCEPT !.life = "RUNNING", !.health = "HEALTHY"] \in Session
    BY States DEF Session
  <2>2. QED
    BY <2>1, ClearLockTyped DEF CompleteBootstrap, CompleteRestore, Released
<1>3. Released(CompleteSleep(s))
  <2>1. [s EXCEPT !.life = "SLEEPING", !.health = "STOPPED", !.asleep = TRUE] \in Session
    BY States DEF Session
  <2>2. QED
    BY <2>1, ClearLockTyped DEF CompleteSleep, Released
<1>4. Released(CompleteRunning(s))
  <2>1. [s EXCEPT !.life = "RUNNING", !.health = "HEALTHY", !.asleep = FALSE] \in Session
    BY States DEF Session
  <2>2. QED
    BY <2>1, ClearLockTyped DEF CompleteRunning, Released
<1>5. Released(CompleteArchive(s))
  <2>1. [s EXCEPT !.life = "ARCHIVED", !.health = "STOPPED", !.asleep = FALSE,
                  !.infra = "none"] \in Session
    BY States DEF Session
  <2>2. QED
    BY <2>1, ClearLockTyped DEF CompleteArchive, Released
<1>6. Released(CompleteTermination(s))
  <2>1. [s EXCEPT !.life = "DELETED", !.health = "STOPPED", !.infra = "none",
                  !.archive = NoWorkflow, !.probe = FALSE] \in Session
    BY States DEF Session
  <2>2. QED
    BY <2>1, ClearLockTyped DEF CompleteTermination, Released
<1>7. QED
  BY <1>1, <1>2, <1>3, <1>4, <1>5, <1>6 DEF Complete, Released, Kinds

LEMMA FailReleases ==
    ASSUME NEW s \in Session, NEW k \in Kinds
    PROVE  /\ Fail(s, k) \in Session /\ Fail(s, k).lock = NoWorkflow
           /\ Released(FailSleepWake(s)) /\ Released(FailUnhealthy(s))
<1>1. Released(FailInfrastructureProvisioning(s))
  <2>1. [s EXCEPT !.life = "FAILED", !.health = "UNKNOWN"] \in Session
    BY States DEF Session
  <2>2. QED
    BY <2>1, ClearLockTyped DEF FailInfrastructureProvisioning, Released
<1>2. Released(FailUnhealthy(s))
  <2>1. [s EXCEPT !.life = "FAILED", !.health = "UNHEALTHY"] \in Session
    BY States DEF Session
  <2>2. QED
    BY <2>1, ClearLockTyped DEF FailUnhealthy, Released
<1>3. Released(FailSleepWake(s))
  <2>1. [s EXCEPT !.life = "FAILED", !.health = "UNHEALTHY", !.asleep = FALSE] \in Session
    BY States DEF Session
  <2>2. QED
    BY <2>1, ClearLockTyped DEF FailSleepWake, Released
<1>4. Released(FailArchive(s))
  <2>1. [s EXCEPT !.life = "FAILED", !.health = "UNHEALTHY", !.asleep = FALSE,
                  !.source = "none"] \in Session
    BY States DEF Session
  <2>2. QED
    BY <2>1, ClearLockTyped DEF FailArchive, Released
<1>5. QED
  BY <1>1, <1>2, <1>3, <1>4 DEF Fail, Released, Kinds

LEMMA AbortStartReleases ==
    ASSUME NEW s \in Session, NEW k \in Kinds, CanAbortStart(s, k)
    PROVE  AbortStart(s, k) \in Session /\ AbortStart(s, k).lock = NoWorkflow
<1>1. Released(AbortProvisioningWorkflowStart(s))
  <2>1. [s EXCEPT !.life = "NEW", !.health = "UNKNOWN"] \in Session
    BY States DEF Session
  <2>2. QED
    BY <2>1, ClearLockTyped DEF AbortProvisioningWorkflowStart, Released
<1>2. k = "Archive" => Released(AbortArchiveWorkflowStart(s))
  <2> DEFINE h == IF s.source = "SLEEPING" THEN "STOPPED" ELSE "HEALTHY"
  <2> SUFFICES ASSUME k = "Archive" PROVE Released(AbortArchiveWorkflowStart(s))
    OBVIOUS
  <2>1. s.source \in {"RUNNING", "SLEEPING"} /\ h \in HealthStates
    BY States DEF CanAbortStart, Session
  <2>2. [s EXCEPT !.life = s.source, !.source = "none", !.health = h] \in Session
    <3> HIDE DEF h
    <3> QED
      BY <2>1, States DEF Session
  <2>3. QED
    BY <2>2, ClearLockTyped DEF AbortArchiveWorkflowStart, Released
<1>3. Released(AbortRestoreWorkflowStart(s))
  <2>1. [s EXCEPT !.life = "ARCHIVED", !.health = "STOPPED"] \in Session
    BY States DEF Session
  <2>2. QED
    BY <2>1, ClearLockTyped DEF AbortRestoreWorkflowStart, Released
<1>4. Released(ReleaseWorkflowLock(s))
  BY ClearLockTyped DEF ReleaseWorkflowLock, Released
<1>5. QED
  BY <1>1, <1>2, <1>3, <1>4, FailReleases DEF AbortStart, Released, Kinds

LEMMA CancelReleases ==
    ASSUME NEW s \in Session, NEW k \in Kinds, CanCancel(s, k)
    PROVE  Cancel(s, k) \in Session /\ Cancel(s, k).lock = NoWorkflow
<1> DEFINE
      l == CASE k = "Provision" -> "NEW"
             [] k = "Bootstrap" -> "FAILED"
             [] k = "Sleep"     -> "RUNNING"
             [] k = "Wake"      -> "SLEEPING"
             [] k = "Archive"   -> s.source
             [] k = "Restore"   -> "ARCHIVED"
      h == CASE k \in {"Provision", "Bootstrap"} -> "UNKNOWN"
             [] k = "Sleep" -> "HEALTHY"
             [] k \in {"Wake", "Restore"} -> "STOPPED"
             [] k = "Archive" -> IF s.source = "SLEEPING" THEN "STOPPED" ELSE "HEALTHY"
      t == [s EXCEPT !.life = l, !.health = h, !.source = "none"]
<1>1. k \in {"Provision", "Bootstrap", "Sleep", "Wake", "Archive", "Restore"}
  BY DEF CanCancel, Kinds
<1>2. l \in LifecycleStates
  BY <1>1, States DEF CanCancel, Session
<1>3. h \in HealthStates
  BY <1>1, States
<1>4. t \in Session
  <2> HIDE DEF l, h
  <2> QED
    BY <1>2, <1>3 DEF Session
<1>5. QED
  BY <1>4, ClearLockTyped DEF Cancel

-----------------------------------------------------------------------------
(* Lemmas about the state machines                                         *)

(* What a machine does with a stage of its own: the stage after it and the  *)
(* one that catches it are its own too.  A bootstrap's Persist is only      *)
(* entered from its Dispatch.                                              *)
Targets(m) == (DOMAIN m.next \cup {"succeeded", "failed"}) \cap ExecStates

WellFormed(k, m) ==
    /\ m.start \in (DOMAIN m.next \cap Stages) \ {"Persist"}
    /\ "Fail" \in DOMAIN m.next
    /\ m.rollback # {} => "Rollback" \in DOMAIN m.next
    /\ "Enqueue" \in DOMAIN m.next => "QueueFailed" \in DOMAIN m.next
    /\ \A stage \in DOMAIN m.next :
          /\ m.next[stage] \in Targets(m)
          /\ m.next[stage] = "Persist" => k = "Bootstrap" /\ stage = "Dispatch"

LEMMA MachinesAreWellFormed ==
    ASSUME NEW k \in Kinds
    PROVE  WellFormed(k, Machine(k))
<1>1. WellFormed("Provision", ProvisionSession)
  BY DEF ProvisionSession, WellFormed, Targets, ExecStates, Stages
<1>2. WellFormed("Bootstrap", BootstrapGameServer)
  BY DEF BootstrapGameServer, WellFormed, Targets, ExecStates, Stages
<1>3. \A j \in Kinds : WellFormed(j, SleepSession)
  BY DEF SleepSession, WellFormed, Targets, ExecStates, Stages
<1>4. \A j \in Kinds : WellFormed(j, WakeSession)
  BY DEF WakeSession, WellFormed, Targets, ExecStates, Stages
<1>5. \A j \in Kinds : WellFormed(j, ArchiveSession)
  BY DEF ArchiveSession, WellFormed, Targets, ExecStates, Stages
<1>6. \A j \in Kinds : WellFormed(j, RestoreSession)
  BY DEF RestoreSession, WellFormed, Targets, ExecStates, Stages
<1>7. \A j \in Kinds : WellFormed(j, DestroySession)
  BY DEF DestroySession, WellFormed, Targets, ExecStates, Stages
<1>8. QED
  BY <1>1, <1>2, <1>3, <1>4, <1>5, <1>6, <1>7 DEF Machine, Kinds

LEMMA FirstStageTyped ==
    \A k \in Kinds : FirstStage(k) \in (StatesOf(k) \cap Stages) \ {"Persist"}
BY MachinesAreWellFormed DEF FirstStage, WellFormed, StatesOf

LEMMA NextStageTyped ==
    ASSUME NEW k \in Kinds, NEW stage \in StatesOf(k) \cap Stages
    PROVE  /\ NextStage(k, stage) \in StatesOf(k) \cap ExecStates
           /\ NextStage(k, stage) = "Persist" => k = "Bootstrap" /\ stage = "Dispatch"
<1>1. stage \in DOMAIN Machine(k).next
  BY DEF StatesOf, Stages
<1>2. QED
  BY <1>1, MachinesAreWellFormed DEF NextStage, WellFormed, StatesOf, Targets

LEMMA CatchStageTyped ==
    ASSUME NEW k \in Kinds, NEW stage \in StatesOf(k) \cap Stages
    PROVE  CatchStage(k, stage) \in (StatesOf(k) \cap ExecStates) \ {"Persist"}
<1>1. stage \in DOMAIN Machine(k).next
  BY DEF StatesOf, Stages
<1>2. CatchStage(k, stage) \in {"failed", "QueueFailed", "Rollback", "Fail"}
  BY DEF CatchStage
<1>3. CatchStage(k, stage) \in StatesOf(k)
  BY <1>1, MachinesAreWellFormed DEF CatchStage, WellFormed, StatesOf
<1>4. QED
  BY <1>2, <1>3 DEF ExecStates, Stages

(* A task that ends keeps the executions typed, and nobody enters Persist.  *)
ExecTyped ==
    /\ exec \in [Workflows -> ExecStates]
    /\ \A d \in Workflows : exec[d] \in StatesOf(TypeOf[d])

ExecMoves ==
    /\ ExecTyped'
    /\ \A d \in Workflows : exec'[d] = "Persist" => exec[d] = "Persist"

LEMMA TaskEndMoves ==
    ASSUME ExecTyped, NEW c \in Workflows, Running(c),
           TypeOf[c] # "Bootstrap" \/ exec[c] # "Dispatch",
           Advance(c) \/ Catch(c) \/ UNCHANGED exec
    PROVE  ExecMoves
<1>1. TypeOf[c] \in Kinds /\ exec[c] \in StatesOf(TypeOf[c]) \cap Stages
  BY TypeOfAssumption DEF ExecTyped, Running
<1>2. CASE Advance(c)
  BY <1>1, <1>2, NextStageTyped DEF Advance, Goto, ExecMoves, ExecTyped
<1>3. CASE Catch(c)
  BY <1>1, <1>3, CatchStageTyped DEF Catch, Goto, ExecMoves, ExecTyped
<1>4. CASE UNCHANGED exec
  BY <1>4 DEF ExecMoves, ExecTyped
<1>5. QED
  BY <1>2, <1>3, <1>4

-----------------------------------------------------------------------------
(* What each kind of step does to the lease and to the rest of IInv        *)

StepIsGood == TypeOK' /\ DispatchIsHeld' /\ UnstartedIsUnlocked' /\ LeaseStep

Planes == {"none", "running", "stopped", "volume"}

(* A stage that leaves the lease alone. *)
LEMMA StageKeeps ==
    ASSUME IInv, ExecMoves, KeepsLock(session, session'),
           fresh' \in {{}, fresh}, plane' \in Planes,
           UNCHANGED <<wf, held, dispatchVars, canceller>>
    PROVE  StepIsGood
<1>1. TypeOK'
  BY DEF IInv, TypeOK, ExecMoves, ExecTyped, KeepsLock, Planes, dispatchVars
<1>2. DispatchIsHeld'
  BY DEF IInv, DispatchIsHeld, ExecMoves
<1>3. UnstartedIsUnlocked'
  BY DEF IInv, UnstartedIsUnlocked, KeepsLock, Unlocked
<1>4. LeaseStep
  BY DEF LeaseStep, KeepsLease, KeepsLock
<1>5. QED
  BY <1>1, <1>2, <1>3, <1>4 DEF StepIsGood

LEMMA ItemTyped ==
    /\ Absent \in WorkflowItem /\ Pending \in WorkflowItem
    /\ Absent.status = "absent" /\ Pending.status = "PENDING"
    /\ \A item \in WorkflowItem :
          /\ \A status \in OpenStatus \cup Terminal :
                [item EXCEPT !.status = status] \in WorkflowItem
          /\ [item EXCEPT !.status = "RUNNING", !.arn = TRUE] \in WorkflowItem
          /\ [item EXCEPT !.cancel = TRUE] \in WorkflowItem
          /\ [item EXCEPT !.cmd = TRUE] \in WorkflowItem
<1>1. /\ Absent \in WorkflowItem /\ Pending \in WorkflowItem
      /\ Absent.status = "absent" /\ Pending.status = "PENDING"
  BY DEF Absent, Pending, WorkflowItem, OpenStatus, Terminal
<1>2. ASSUME NEW item \in WorkflowItem, NEW status \in OpenStatus \cup Terminal
      PROVE  [item EXCEPT !.status = status] \in WorkflowItem
  BY DEF WorkflowItem
<1>3. ASSUME NEW item \in WorkflowItem
      PROVE  /\ [item EXCEPT !.status = "RUNNING", !.arn = TRUE] \in WorkflowItem
             /\ [item EXCEPT !.cancel = TRUE] \in WorkflowItem
             /\ [item EXCEPT !.cmd = TRUE] \in WorkflowItem
  BY DEF WorkflowItem, OpenStatus
<1>4. QED
  BY <1>1, <1>2, <1>3

(* A stage that gives the lease of b back and closes its workflow item. *)
LEMMA StageReleases ==
    ASSUME IInv, ExecMoves, NEW b \in Workflows, Holds(b),
           session' \in Session, session'.lock = NoWorkflow,
           NEW status \in Terminal, CloseAs(b, status), fresh' = {},
           UNCHANGED <<plane, held, dispatchVars, canceller>>
    PROVE  StepIsGood
<1>1. wf' \in [Workflows -> WorkflowItem]
  <2>1. wf[b] \in WorkflowItem
    BY DEF IInv, TypeOK
  <2>2. QED
    BY <2>1, ItemTyped DEF IInv, TypeOK, CloseAs, PutWorkflow
<1>2. TypeOK'
  BY <1>1 DEF IInv, TypeOK, ExecMoves, ExecTyped, dispatchVars
<1>3. DispatchIsHeld'
  BY DEF IInv, DispatchIsHeld, ExecMoves
<1>4. UnstartedIsUnlocked'
  BY DEF UnstartedIsUnlocked, Unlocked
<1>5. GivesLeaseBack(b)
  BY DEF IInv, TypeOK, GivesLeaseBack, CloseAs, PutWorkflow, WorkflowItem
<1>6. QED
  BY <1>2, <1>3, <1>4, <1>5 DEF StepIsGood, LeaseStep

(* Whoever holds the lease has an open workflow item, and nobody else has.  *)
LEMMA LeaseStepAgrees ==
    ASSUME IInv, TypeOK', LeaseStep
    PROVE  LeaseAgreement'
<1>1. CASE KeepsLease
  BY <1>1 DEF IInv, LeaseAgreement, KeepsLease, Open, Holds
<1>2. ASSUME NEW b \in Workflows, TakesLease(b)
      PROVE  LeaseAgreement'
  BY <1>2, NoWorkflowAssumption
     DEF IInv, LeaseAgreement, TakesLease, Open, Holds, Unlocked, OpenStatus
<1>3. ASSUME NEW b \in Workflows, GivesLeaseBack(b)
      PROVE  LeaseAgreement'
  BY <1>3, NoWorkflowAssumption
     DEF IInv, LeaseAgreement, GivesLeaseBack, Open, Holds, OpenStatus, Terminal
<1>4. QED
  BY <1>1, <1>2, <1>3 DEF LeaseStep

-----------------------------------------------------------------------------
(* The command worker                                                      *)

HandlerStates ==
    [pc: {"idle", "lookup", "load", "admit", "start", "record", "abort"},
     snap: WorkflowItem]

(* A step of the worker, of a user or of the operator that moves only the   *)
(* message, the handler and the readers' freshness.                        *)
LEMMA MessageStep ==
    ASSUME IInv, UNCHANGED <<session, wf, workerVars, canceller>>,
           fresh' \subseteq {"worker", "reconciler"},
           queue' \in Seq(Workflows), receives' \in 0..MaxReceive,
           unsent' \subseteq Workflows, dead' \subseteq Workflows,
           handler' \in HandlerStates
    PROVE  StepIsGood
<1>1. TypeOK'
  BY DEF IInv, TypeOK, workerVars, HandlerStates
<1>2. DispatchIsHeld' /\ UnstartedIsUnlocked'
  BY DEF IInv, DispatchIsHeld, UnstartedIsUnlocked, Unlocked, workerVars
<1>3. LeaseStep
  BY DEF LeaseStep, KeepsLease
<1>4. QED
  BY <1>1, <1>2, <1>3 DEF StepIsGood

(* What acknowledging the message or leaving it does to the message group.  *)
LEMMA MessageEnds ==
    ASSUME IInv, queue # <<>>, Acknowledge \/ GiveUp
    PROVE  /\ queue' \in Seq(Workflows) /\ receives' \in 0..MaxReceive
           /\ handler' \in HandlerStates
<1>1. Idle \in HandlerStates
  BY ItemTyped DEF Idle, HandlerStates
<1>2. QED
  BY <1>1, MaxReceiveAssumption, SMTT(30) DEF IInv, TypeOK, Acknowledge, GiveUp

LEMMA StepTyped ==
    ASSUME NEW pc \in {"lookup", "load", "admit", "start", "record", "abort"},
           NEW snap \in WorkflowItem, Step(pc, snap)
    PROVE  handler' \in HandlerStates
BY DEF Step, HandlerStates

LEMMA MessagesAreGood ==
    ASSUME IInv, NEW c \in Workflows,
           \/ Submit(c) \/ Redrive(c) \/ Receive(c) \/ DeadLetter(c) \/ Lookup(c)
           \/ LoadSession(c) \/ HandlerFails(c)
    PROVE  StepIsGood
<1>0. /\ queue \in Seq(Workflows) /\ receives \in 0..MaxReceive
      /\ handler \in HandlerStates /\ handler.snap \in WorkflowItem
      /\ unsent \subseteq Workflows /\ dead \subseteq Workflows
      /\ fresh \subseteq {"worker", "reconciler"} /\ wf[c] \in WorkflowItem
  BY DEF IInv, TypeOK, HandlerStates
<1>1. CASE Submit(c)
  BY <1>0, <1>1, MessageStep DEF Submit
<1>2. CASE Redrive(c)
  BY <1>0, <1>2, MessageStep DEF Redrive
<1>3. CASE Receive(c)
  <2>1. handler' \in HandlerStates
    BY <1>3, ItemTyped, StepTyped DEF Receive
  <2>2. receives' \in 0..MaxReceive
    BY <1>0, <1>3, MaxReceiveAssumption DEF Receive
  <2>3. QED
    BY <1>0, <1>3, <2>1, <2>2, MessageStep DEF Receive
<1>4. CASE DeadLetter(c)
  BY <1>0, <1>4, MessageEnds, MessageStep DEF DeadLetter, InHand
<1>5. CASE Lookup(c)
  <2>1. CASE Step("load", wf[c]) /\ UNCHANGED <<queue, receives>>
    BY <1>0, <1>5, <2>1, StepTyped, MessageStep DEF Lookup
  <2>2. CASE Acknowledge
    BY <1>0, <1>5, <2>2, MessageEnds, MessageStep DEF Lookup, InHand
  <2>3. QED
    BY <1>5, <2>1, <2>2 DEF Lookup
<1>6. CASE LoadSession(c)
  <2>1. handler' \in HandlerStates
    BY <1>0, <1>6, StepTyped DEF LoadSession
  <2>2. QED
    BY <1>0, <1>6, <2>1, MessageStep DEF LoadSession
<1>7. CASE HandlerFails(c)
  BY <1>0, <1>7, MessageEnds, MessageStep DEF HandlerFails
<1>8. QED
  BY <1>1, <1>2, <1>3, <1>4, <1>5, <1>6, <1>7

(* Admission finds the session unlocked: its one exception, the expired     *)
(* lease of a NEW session, is ruled out by UnstartedIsUnlocked.            *)
LEMMA AdmitIsGood ==
    ASSUME IInv, NEW c \in Workflows, Admit(c)
    PROVE  StepIsGood
<1>1. TypeOf[c] \in Kinds /\ session \in Session
  BY TypeOfAssumption DEF IInv, TypeOK
<1>2. Unlocked(session)
  BY <1>1 DEF Admit, CanBegin, CanAcquireProvisioning,
     CanStartInfrastructureProvisioning, CanStartBootstrap, CanSleep, CanWake, CanRestart,
     CanArchive, CanRestore, CanTerminate, IInv, UnstartedIsUnlocked, Kinds
<1>3. /\ session' \in Session
      /\ session'.lock = c /\ session'.kind = TypeOf[c]
      /\ session'.life \notin {"DRAFT", "NEW"}
  BY <1>1, BeginTakes DEF Admit
<1>4. /\ wf' \in [Workflows -> WorkflowItem]
      /\ wf'[c].status = "PENDING"
      /\ \A d \in Workflows \ {c} : wf'[d] = wf[d]
  BY ItemTyped DEF Admit, PutWorkflow, IInv, TypeOK
<1>5. handler' \in HandlerStates
  BY ItemTyped, StepTyped DEF Admit
<1>6. TypeOK'
  BY <1>3, <1>4, <1>5 DEF Admit, IInv, TypeOK, HandlerStates, workerVars
<1>7. DispatchIsHeld' /\ UnstartedIsUnlocked'
  BY <1>3 DEF Admit, IInv, DispatchIsHeld, UnstartedIsUnlocked, workerVars
<1>8. TakesLease(c)
  BY <1>2, <1>3, <1>4, ItemTyped DEF Admit, TakesLease
<1>9. QED
  BY <1>6, <1>7, <1>8 DEF StepIsGood, LeaseStep

LEMMA StartExecutionIsGood ==
    ASSUME IInv, NEW c \in Workflows, StartExecution(c)
    PROVE  StepIsGood
<1>1. ExecMoves
  BY FirstStageTyped, TypeOfAssumption
     DEF StartExecution, Goto, ExecMoves, ExecTyped, ExecStates, IInv, TypeOK
<1>2. handler.snap \in WorkflowItem
  BY DEF IInv, TypeOK
<1>3. handler' \in HandlerStates
  BY <1>2, StepTyped DEF StartExecution
<1>4. TypeOK'
  BY <1>1, <1>3 DEF StartExecution, IInv, TypeOK, ExecMoves, ExecTyped, HandlerStates
<1>5. DispatchIsHeld' /\ UnstartedIsUnlocked'
  BY <1>1 DEF StartExecution, IInv, DispatchIsHeld, UnstartedIsUnlocked, Unlocked, ExecMoves, ExecTyped
<1>6. LeaseStep
  BY DEF StartExecution, LeaseStep, KeepsLease
<1>7. QED
  BY <1>4, <1>5, <1>6 DEF StepIsGood

LEMMA RecordExecutionIsGood ==
    ASSUME IInv, NEW c \in Workflows, RecordExecution(c)
    PROVE  StepIsGood
<1> DEFINE item == [handler.snap EXCEPT !.status = "RUNNING", !.arn = TRUE]
<1>1. handler.snap \in WorkflowItem
  BY DEF IInv, TypeOK
<1>2. item \in WorkflowItem /\ item.status = "RUNNING"
  BY <1>1, ItemTyped DEF WorkflowItem
<1>3. /\ wf' \in [Workflows -> WorkflowItem]
      /\ wf'[c].status = "RUNNING" /\ wf[c].status = "PENDING"
      /\ \A d \in Workflows \ {c} : wf'[d] = wf[d]
  BY <1>2 DEF RecordExecution, PutWorkflow, IInv, TypeOK
<1>4. /\ queue' \in Seq(Workflows) /\ receives' \in 0..MaxReceive
      /\ handler' \in HandlerStates
  BY MessageEnds DEF RecordExecution, InHand
<1>5. TypeOK'
  BY <1>3, <1>4 DEF RecordExecution, IInv, TypeOK, HandlerStates, workerVars
<1>6. DispatchIsHeld' /\ UnstartedIsUnlocked'
  BY DEF RecordExecution, IInv, DispatchIsHeld, UnstartedIsUnlocked, Unlocked, workerVars
<1>7. KeepsLease
  BY <1>3 DEF RecordExecution, KeepsLease, OpenStatus
<1>8. QED
  BY <1>5, <1>6, <1>7 DEF StepIsGood, LeaseStep

LEMMA AbortExecutionIsGood ==
    ASSUME IInv, NEW c \in Workflows, AbortExecution(c)
    PROVE  StepIsGood
<1> DEFINE item == [handler.snap EXCEPT !.status = "FAILED"]
<1>0. handler.snap \in WorkflowItem
  BY DEF IInv, TypeOK
<1>1. item \in WorkflowItem /\ item.status = "FAILED"
  BY <1>0, ItemTyped DEF WorkflowItem, Terminal
<1>2. /\ wf' \in [Workflows -> WorkflowItem]
      /\ wf'[c].status = "FAILED"
      /\ \A d \in Workflows \ {c} : wf'[d] = wf[d]
  BY <1>1 DEF AbortExecution, PutWorkflow, IInv, TypeOK
<1>3. session' \in Session /\ session'.lock = NoWorkflow
  BY AbortStartReleases, TypeOfAssumption DEF AbortExecution, Write, IInv, TypeOK
<1>4. /\ queue' \in Seq(Workflows) /\ receives' \in 0..MaxReceive
      /\ handler' \in HandlerStates
  BY MessageEnds DEF AbortExecution, InHand
<1>5. TypeOK'
  BY <1>2, <1>3, <1>4 DEF AbortExecution, Write, IInv, TypeOK, HandlerStates, workerVars
<1>6. DispatchIsHeld' /\ UnstartedIsUnlocked'
  BY <1>3 DEF AbortExecution, IInv, DispatchIsHeld, UnstartedIsUnlocked, Unlocked, workerVars
<1>7. GivesLeaseBack(c)
  BY <1>2, <1>3 DEF AbortExecution, GivesLeaseBack, Terminal
<1>8. QED
  BY <1>5, <1>6, <1>7 DEF StepIsGood, LeaseStep

-----------------------------------------------------------------------------
(* The stages that keep the lease                                          *)

LEMMA SameSession == ASSUME IInv, KeepSession PROVE KeepsLock(session, session')
BY DEF IInv, TypeOK, KeepSession, KeepsLock

LEMMA HostStagesAreGood ==
    ASSUME IInv, NEW c \in Workflows,
           \/ PrepareProvision(c) \/ PrepareRestore(c) \/ EnsureHost(c)
           \/ LaunchUnrecorded(c) \/ ObserveHost(c) \/ StopHost(c) \/ StartHost(c)
    PROVE  StepIsGood
<1>1. session \in Session /\ ExecTyped /\ plane \in Planes
  BY DEF IInv, TypeOK, ExecTyped, Planes
<1>2. ExecMoves
  <2>1. TypeOf[c] # "Bootstrap"
    BY DEF PrepareProvision, PrepareRestore, EnsureHost, LaunchUnrecorded, ObserveHost,
           StopHost, StartHost, At
  <2>2. Advance(c) \/ Catch(c) \/ UNCHANGED exec
    BY DEF PrepareProvision, PrepareRestore, EnsureHost, LaunchUnrecorded, ObserveHost,
           StopHost, StartHost, Reply
  <2>3. Running(c)
    BY DEF PrepareProvision, PrepareRestore, EnsureHost, LaunchUnrecorded, ObserveHost,
           StopHost, StartHost, At, Running, Stages
  <2>4. QED
    BY <1>1, <2>1, <2>2, <2>3, TaskEndMoves
<1>3. CASE PrepareProvision(c)
  BY <1>1, <1>2, <1>3, SameSession, StagesKeepLock, StageKeeps
     DEF PrepareProvision, Write, KeepSession
<1>4. CASE PrepareRestore(c)
  BY <1>1, <1>2, <1>4, SameSession, StagesKeepLock, StageKeeps
     DEF PrepareRestore, Write, KeepSession
<1>5. CASE EnsureHost(c)
  <2>1. plane' \in Planes
    BY <1>1, <1>5 DEF EnsureHost, Planes
  <2>2. KeepsLock(session, session') /\ fresh' \in {{}, fresh}
    BY <1>1, <1>5, SameSession, StagesKeepLock DEF EnsureHost, Write, KeepSession
  <2>3. QED
    BY <1>2, <1>5, <2>1, <2>2, StageKeeps DEF EnsureHost
<1>6. CASE LaunchUnrecorded(c)
  BY <1>2, <1>6, SameSession, StageKeeps DEF LaunchUnrecorded, Planes, KeepSession
<1>7. CASE ObserveHost(c)
  BY <1>1, <1>2, <1>7, SameSession, StagesKeepLock, StageKeeps
     DEF ObserveHost, Write, KeepSession
<1>8. CASE StopHost(c)
  BY <1>2, <1>8, SameSession, StageKeeps DEF StopHost, Planes, KeepSession
<1>9. CASE StartHost(c)
  BY <1>2, <1>9, SameSession, StageKeeps DEF StartHost, Planes, KeepSession
<1>10. QED
  BY <1>3, <1>4, <1>5, <1>6, <1>7, <1>8, <1>9

LEMMA CommandStagesAreGood ==
    ASSUME IInv, NEW c \in Workflows,
           \/ PrepareBootstrap(c) \/ RunStage(c) \/ RecordVerified(c)
           \/ TerminateInstance(c) \/ DeleteVolume(c)
           \/ AlreadyComplete(c) \/ AlreadyFailed(c)
    PROVE  StepIsGood
<1>1. session \in Session /\ ExecTyped /\ plane \in Planes
  BY DEF IInv, TypeOK, ExecTyped, Planes
<1>2. ExecMoves
  <2>1. TypeOf[c] # "Bootstrap" \/ exec[c] # "Dispatch"
    BY DEF PrepareBootstrap, RunStage, ProgressStage, RecordVerified, TerminateInstance,
           DeleteVolume, AlreadyComplete, AlreadyFailed, At
  <2>2. Advance(c) \/ Catch(c) \/ UNCHANGED exec
    BY DEF PrepareBootstrap, RunStage, RecordVerified, TerminateInstance, DeleteVolume,
           AlreadyComplete, AlreadyFailed, Reply
  <2>3. Running(c)
    BY DEF PrepareBootstrap, RunStage, ProgressStage, RecordVerified, TerminateInstance,
           DeleteVolume, AlreadyComplete, AlreadyFailed, At, Running, Stages
  <2>4. QED
    BY <1>1, <2>1, <2>2, <2>3, TaskEndMoves
<1>3. CASE PrepareBootstrap(c)
  BY <1>1, <1>2, <1>3, SameSession, StagesKeepLock, StageKeeps
     DEF PrepareBootstrap, Write, KeepSession
<1>4. CASE RunStage(c)
  <2>1. KeepsLock(session, session') /\ fresh' \in {{}, fresh}
    BY <1>1, <1>4, SameSession DEF RunStage, Touch, KeepSession, KeepsLock
  <2>2. QED
    BY <1>1, <1>2, <1>4, <2>1, StageKeeps DEF RunStage
<1>5. CASE RecordVerified(c)
  BY <1>1, <1>2, <1>5, SameSession, StagesKeepLock, StageKeeps
     DEF RecordVerified, Write, KeepSession
<1>6. CASE TerminateInstance(c)
  <2>1. plane' \in Planes
    BY <1>1, <1>6 DEF TerminateInstance, Planes
  <2>2. QED
    BY <1>2, <1>6, <2>1, SameSession, StageKeeps DEF TerminateInstance, KeepSession
<1>7. CASE DeleteVolume(c)
  <2>1. plane' \in Planes
    BY <1>1, <1>7 DEF DeleteVolume, Planes
  <2>2. QED
    BY <1>2, <1>7, <2>1, SameSession, StageKeeps DEF DeleteVolume, KeepSession
<1>8. CASE AlreadyComplete(c)
  BY <1>1, <1>2, <1>8, SameSession, StageKeeps DEF AlreadyComplete, KeepSession
<1>9. CASE AlreadyFailed(c)
  BY <1>1, <1>2, <1>9, SameSession, StageKeeps DEF AlreadyFailed, KeepSession
<1>10. QED
  BY <1>3, <1>4, <1>5, <1>6, <1>7, <1>8, <1>9

(* The bootstrap command: the copy is taken under the lease, when the item  *)
(* is open, so what Persist puts back is open too.                         *)
LEMMA DispatchBootstrapIsGood ==
    ASSUME IInv, NEW c \in Workflows, DispatchBootstrap(c)
    PROVE  StepIsGood
<1>1. wf[c].status \in OpenStatus /\ wf[c] \in WorkflowItem
  BY DEF DispatchBootstrap, At, Loads, IInv, TypeOK, LeaseAgreement, Open
<1>2. ExecTyped' /\ \A d \in Workflows \ {c} : exec'[d] = exec[d]
  <2>1. TypeOf[c] = "Bootstrap" /\ exec[c] = "Dispatch"
    BY DEF DispatchBootstrap, At
  <2>2. NextStage(TypeOf[c], exec[c]) = "Persist"
    BY <2>1 DEF NextStage, Machine, BootstrapGameServer
  <2>3. {"Persist", "Observe"} \subseteq StatesOf("Bootstrap") \cap ExecStates
    BY DEF StatesOf, Machine, BootstrapGameServer, ExecStates, Stages
  <2>4. QED
    BY <2>1, <2>2, <2>3
       DEF DispatchBootstrap, Advance, Goto, IInv, TypeOK, ExecTyped
<1>3. held' \in [Workflows -> WorkflowItem]
  BY <1>1 DEF DispatchBootstrap, IInv, TypeOK
<1>4. TypeOK'
  BY <1>2, <1>3 DEF DispatchBootstrap, KeepSession, IInv, TypeOK, ExecTyped, dispatchVars
<1>5. DispatchIsHeld'
  <2>1. ASSUME NEW d \in Workflows, TypeOf[d] = "Bootstrap", exec'[d] = "Persist"
        PROVE  held'[d].status \in OpenStatus
    <3>1. CASE d # c
      BY <1>2, <2>1, <3>1 DEF DispatchBootstrap, IInv, DispatchIsHeld, TypeOK
    <3>2. CASE d = c
      BY <1>1, <2>1, <3>2 DEF DispatchBootstrap, Goto, IInv, TypeOK
    <3>3. QED
      BY <3>1, <3>2
  <2>2. QED
    BY <2>1 DEF DispatchIsHeld
<1>6. UnstartedIsUnlocked' /\ LeaseStep
  BY DEF DispatchBootstrap, KeepSession, IInv, UnstartedIsUnlocked, Unlocked, LeaseStep,
         KeepsLease
<1>7. QED
  BY <1>4, <1>5, <1>6 DEF StepIsGood

LEMMA PersistDispatchIsGood ==
    ASSUME IInv, NEW c \in Workflows, PersistDispatch(c)
    PROVE  StepIsGood
<1> DEFINE item == [held[c] EXCEPT !.cmd = TRUE]
<1>1. held[c] \in WorkflowItem /\ held[c].status \in OpenStatus
  BY DEF PersistDispatch, At, IInv, TypeOK, DispatchIsHeld
<1>2. item \in WorkflowItem /\ item.status \in OpenStatus
  BY <1>1, ItemTyped DEF WorkflowItem
<1>3. /\ wf' \in [Workflows -> WorkflowItem]
      /\ wf'[c].status \in OpenStatus /\ wf[c].status \in OpenStatus
      /\ \A d \in Workflows \ {c} : wf'[d] = wf[d]
  BY <1>2 DEF PersistDispatch, PutWorkflow, IInv, TypeOK, OpenStatus
<1>4. ExecMoves /\ exec'[c] # "Persist"
  <2>1. /\ exec[c] = "Persist" /\ TypeOf[c] \in Kinds /\ ExecTyped
        /\ exec[c] \in StatesOf(TypeOf[c]) \cap Stages
    BY TypeOfAssumption DEF PersistDispatch, At, IInv, TypeOK, ExecTyped, Stages
  <2>2. ExecMoves
    BY <2>1, TaskEndMoves DEF PersistDispatch, Running
  <2>3. exec'[c] # "Persist"
    BY <2>1, NextStageTyped, CatchStageTyped
       DEF PersistDispatch, Advance, Catch, Goto, ExecTyped
  <2>4. QED
    BY <2>2, <2>3
<1>5. held' \in [Workflows -> WorkflowItem]
  BY ItemTyped DEF PersistDispatch, IInv, TypeOK
<1>6. TypeOK'
  BY <1>3, <1>4, <1>5 DEF PersistDispatch, KeepSession, IInv, TypeOK, ExecMoves, ExecTyped, dispatchVars
<1>7. DispatchIsHeld'
  BY <1>4 DEF PersistDispatch, IInv, TypeOK, DispatchIsHeld, ExecMoves, ExecTyped
<1>8. UnstartedIsUnlocked' /\ KeepsLease
  BY <1>3 DEF PersistDispatch, KeepSession, IInv, UnstartedIsUnlocked, Unlocked, KeepsLease
<1>9. QED
  BY <1>6, <1>7, <1>8 DEF StepIsGood, LeaseStep

(* A task that fails, or an execution that is ended, drops its copy.        *)
LEMMA TaskFailuresAreGood ==
    ASSUME IInv, NEW c \in Workflows, StageFails(c) \/ ExecutionAborted(c)
    PROVE  StepIsGood
<1>1. /\ ExecTyped' /\ exec'[c] # "Persist"
      /\ \A d \in Workflows \ {c} : exec'[d] = exec[d]
  <2>1. TypeOf[c] \in Kinds /\ exec[c] \in StatesOf(TypeOf[c]) \cap Stages
    BY TypeOfAssumption DEF StageFails, ExecutionAborted, Running, IInv, TypeOK
  <2>2. /\ CatchStage(TypeOf[c], exec[c]) \in (StatesOf(TypeOf[c]) \cap ExecStates) \ {"Persist"}
        /\ "failed" \in StatesOf(TypeOf[c]) \cap ExecStates
    BY <2>1, CatchStageTyped DEF StatesOf, ExecStates
  <2>3. QED
    BY <2>2 DEF StageFails, ExecutionAborted, Catch, Goto, IInv, TypeOK, ExecTyped
<1>2. held' \in [Workflows -> WorkflowItem]
  BY ItemTyped DEF StageFails, ExecutionAborted, IInv, TypeOK
<1>3. TypeOK'
  BY <1>1, <1>2
     DEF StageFails, ExecutionAborted, KeepSession, IInv, TypeOK, ExecTyped, dispatchVars
<1>4. DispatchIsHeld'
  BY <1>1 DEF StageFails, ExecutionAborted, IInv, TypeOK, DispatchIsHeld
<1>5. UnstartedIsUnlocked' /\ LeaseStep
  BY DEF StageFails, ExecutionAborted, KeepSession, IInv, UnstartedIsUnlocked, Unlocked,
         LeaseStep, KeepsLease
<1>6. QED
  BY <1>3, <1>4, <1>5 DEF StepIsGood

-----------------------------------------------------------------------------
(* The stages that release or take the lease                               *)

LEMMA ReleasesAreGood ==
    ASSUME IInv, NEW c \in Workflows,
           HonorCancellation(c) \/ CompleteStage(c) \/ FailStage(c) \/ QueueFailed(c)
    PROVE  StepIsGood
<1>1. session \in Session /\ ExecTyped /\ TypeOf[c] \in Kinds
  BY TypeOfAssumption DEF IInv, TypeOK, ExecTyped
<1>2. ExecMoves
  <2>1. TypeOf[c] # "Bootstrap" \/ exec[c] # "Dispatch"
    BY DEF HonorCancellation, AtBoundary, CompleteStage, FailStage, QueueFailed, At
  <2>2. Advance(c) \/ Catch(c) \/ UNCHANGED exec
    BY DEF HonorCancellation, CompleteStage, FailStage, QueueFailed, Reply
  <2>3. Running(c)
    BY DEF HonorCancellation, AtBoundary, CompleteStage, FailStage, QueueFailed, At, Running,
           Stages
  <2>4. QED
    BY <1>1, <2>1, <2>2, <2>3, TaskEndMoves
<1>3. CASE HonorCancellation(c)
  <2>1. session' \in Session /\ session'.lock = NoWorkflow /\ fresh' = {}
    BY <1>1, <1>3, CancelReleases DEF HonorCancellation, Write
  <2>2. QED
    BY <1>2, <1>3, <2>1, StageReleases DEF HonorCancellation, Terminal
<1>4. CASE CompleteStage(c)
  <2>1. session' \in Session /\ session'.lock = NoWorkflow /\ fresh' = {}
    BY <1>1, <1>4, CompleteReleases DEF CompleteStage, Write
  <2>2. QED
    BY <1>2, <1>4, <2>1, StageReleases DEF CompleteStage, Terminal
<1>5. CASE FailStage(c)
  <2>1. PICK level \in InfraAfterFailure(TypeOf[c]) :
           Write(Fail([session EXCEPT !.infra = level], TypeOf[c]))
    BY <1>5 DEF FailStage
  <2>2. level \in {"none", "slot", "instance", "complete"}
    BY <1>1, <2>1 DEF InfraAfterFailure, Session
  <2>3. [session EXCEPT !.infra = level] \in Session
    BY <1>1, <2>2 DEF Session
  <2>4. session' \in Session /\ session'.lock = NoWorkflow /\ fresh' = {}
    BY <2>1, <2>3, FailReleases, TypeOfAssumption DEF Write
  <2>5. QED
    BY <1>2, <1>5, <2>4, StageReleases DEF FailStage, Terminal
<1>6. CASE QueueFailed(c)
  <2>1. PICK b \in Continues(c) :
           \/ wf[b].status = "FAILED" /\ KeepSession /\ UNCHANGED wf
           \/ /\ wf[b].status # "FAILED" /\ Holds(b)
              /\ Write(Fail(session, "Bootstrap"))
              /\ CloseAs(b, "FAILED")
    BY <1>6 DEF QueueFailed
  <2>2. b \in Workflows
    BY DEF Continues
  <2>3. CASE KeepSession /\ UNCHANGED wf
    <3>1. plane' \in Planes
      BY <1>6 DEF QueueFailed, IInv, TypeOK, Planes
    <3>2. QED
      BY <1>2, <1>6, <2>3, <3>1, SameSession, StageKeeps DEF QueueFailed, KeepSession
  <2>4. CASE /\ Holds(b) /\ Write(Fail(session, "Bootstrap"))
             /\ CloseAs(b, "FAILED")
    <3>1. session' \in Session /\ session'.lock = NoWorkflow /\ fresh' = {}
      BY <1>1, <2>4, FailReleases DEF Write, Kinds
    <3>2. QED
      BY <1>2, <1>6, <2>2, <2>4, <3>1, StageReleases DEF QueueFailed, Terminal
  <2>5. QED
    BY <2>1, <2>3, <2>4
<1>7. QED
  BY <1>3, <1>4, <1>5, <1>6

(* The continuation takes the lease for the bootstrap of its provisioning.  *)
LEMMA ContinueProvisionIsGood ==
    ASSUME IInv, NEW c \in Workflows, ContinueProvision(c)
    PROVE  StepIsGood
<1>1. ExecMoves
  BY TaskEndMoves DEF ContinueProvision, At, Reply, IInv, TypeOK, ExecTyped, Running, Stages
<1>2. PICK b \in Continues(c) :
         \/ /\ wf[b] = Absent
            /\ Unlocked(session) /\ CanBegin(session, "Bootstrap")
            /\ Write(Begin(session, b, "Bootstrap"))
            /\ PutWorkflow(b, Pending)
         \/ /\ Open(b) /\ Holds(b)
            /\ KeepSession /\ UNCHANGED wf
  BY DEF ContinueProvision
<1>3. b \in Workflows /\ TypeOf[b] = "Bootstrap" /\ "Bootstrap" \in Kinds
  BY ContinuationAssumption, NoWorkflowAssumption DEF Continues, Kinds
<1>4. CASE KeepSession /\ UNCHANGED wf
  <2>1. plane' \in Planes
    BY DEF ContinueProvision, IInv, TypeOK, Planes
  <2>2. QED
    BY <1>1, <1>4, <2>1, SameSession, StageKeeps DEF ContinueProvision, KeepSession
<1>5. CASE /\ wf[b] = Absent
           /\ Unlocked(session) /\ CanBegin(session, "Bootstrap")
           /\ Write(Begin(session, b, "Bootstrap"))
           /\ PutWorkflow(b, Pending)
  <2>1. /\ session' \in Session /\ fresh' = {}
        /\ session'.lock = b /\ session'.kind = "Bootstrap"
        /\ session'.life \notin {"DRAFT", "NEW"}
    BY <1>3, <1>5, BeginTakes DEF Write, IInv, TypeOK
  <2>2. /\ wf' \in [Workflows -> WorkflowItem]
        /\ wf'[b].status = "PENDING"
        /\ \A d \in Workflows \ {b} : wf'[d] = wf[d]
    BY <1>3, <1>5, ItemTyped DEF PutWorkflow, IInv, TypeOK
  <2>3. TypeOK'
    BY <1>1, <2>1, <2>2 DEF ContinueProvision, IInv, TypeOK, ExecMoves, ExecTyped, dispatchVars
  <2>4. DispatchIsHeld' /\ UnstartedIsUnlocked'
    BY <1>1, <2>1 DEF ContinueProvision, IInv, DispatchIsHeld, UnstartedIsUnlocked, ExecMoves, ExecTyped
  <2>5. TakesLease(b)
    BY <1>3, <1>5, <2>1, <2>2, ItemTyped DEF TakesLease
  <2>6. QED
    BY <1>3, <2>3, <2>4, <2>5 DEF StepIsGood, LeaseStep
<1>6. QED
  BY <1>2, <1>4, <1>5

LEMMA EnqueueContinuationIsGood ==
    ASSUME IInv, NEW c \in Workflows, EnqueueContinuation(c)
    PROVE  StepIsGood
<1>1. ExecMoves
  BY TaskEndMoves DEF EnqueueContinuation, At, Reply, IInv, TypeOK, ExecTyped, Running, Stages
<1>2. queue' \in Seq(Workflows) /\ unsent' \subseteq Workflows
  BY DEF EnqueueContinuation, Continues, IInv, TypeOK
<1>3. TypeOK'
  BY <1>1, <1>2 DEF EnqueueContinuation, KeepSession, IInv, TypeOK, ExecMoves, ExecTyped
<1>4. DispatchIsHeld' /\ UnstartedIsUnlocked'
  BY <1>1 DEF EnqueueContinuation, KeepSession, IInv, DispatchIsHeld, UnstartedIsUnlocked,
              Unlocked, ExecMoves, ExecTyped
<1>5. LeaseStep
  BY DEF EnqueueContinuation, KeepSession, LeaseStep, KeepsLease
<1>6. QED
  BY <1>3, <1>4, <1>5 DEF StepIsGood

-----------------------------------------------------------------------------
(* Cancellation, the reconciler and the other writers                      *)

LEMMA CancellationsAreGood ==
    ASSUME IInv, NEW c \in Workflows,
           RequestCancellation(c) \/ SaveCancellation(c) \/ CancellationLost(c)
    PROVE  StepIsGood
<1>1. wf[c] \in WorkflowItem /\ canceller.snap \in WorkflowItem
  BY DEF IInv, TypeOK
<1>2. canceller' \in [w: Workflows \cup {NoWorkflow}, snap: WorkflowItem]
  <2>1. NoRequest \in [w: Workflows \cup {NoWorkflow}, snap: WorkflowItem]
    BY ItemTyped DEF NoRequest
  <2>2. CASE RequestCancellation(c)
    <3>1. [wf[c] EXCEPT !.cancel = TRUE] \in WorkflowItem
      BY <1>1, ItemTyped
    <3>2. QED
      BY <2>2, <3>1 DEF RequestCancellation
  <2>3. CASE SaveCancellation(c) \/ CancellationLost(c)
    BY <2>1, <2>3 DEF SaveCancellation, CancellationLost
  <2>4. QED
    BY <2>2, <2>3
<1>3. /\ wf' \in [Workflows -> WorkflowItem]
      /\ \A d \in Workflows : wf'[d].status = wf[d].status
  BY <1>1 DEF RequestCancellation, SaveCancellation, CancellationLost, PutWorkflow, IInv, TypeOK
<1>4. UNCHANGED <<session, fresh, workerVars, dispatchVars>>
  BY DEF RequestCancellation, SaveCancellation, CancellationLost
<1>5. TypeOK'
  BY <1>2, <1>3, <1>4 DEF IInv, TypeOK, workerVars, dispatchVars
<1>6. DispatchIsHeld' /\ UnstartedIsUnlocked' /\ LeaseStep
  BY <1>3, <1>4 DEF IInv, DispatchIsHeld, UnstartedIsUnlocked, Unlocked, LeaseStep,
                    KeepsLease, workerVars
<1>7. QED
  BY <1>5, <1>6 DEF StepIsGood

LEMMA ReconcilerIsGood ==
    ASSUME IInv,
           \/ \E c \in Workflows : Inspect(c) \/ Repair(c)
           \/ ReconcilerFails
    PROVE  StepIsGood
<1>1. ASSUME NEW c \in Workflows, Repair(c)
      PROVE  StepIsGood
  <2>1. session' \in Session /\ session'.lock = NoWorkflow /\ fresh' = {}
    BY <1>1, FailReleases, TypeOfAssumption
    DEF Repair, Write, IInv, TypeOK, LeaseAgreement
  <2>2. ExecMoves
    BY <1>1 DEF Repair, ExecMoves, ExecTyped, IInv, TypeOK, workerVars
  <2>3. QED
    BY <1>1, <2>1, <2>2, StageReleases DEF Repair, Terminal, workerVars
<1>2. ASSUME \/ \E c \in Workflows : Inspect(c)
             \/ ReconcilerFails
      PROVE  StepIsGood
  <2>1. /\ UNCHANGED <<session, wf, workerVars, dispatchVars, canceller>>
        /\ fresh' \subseteq {"worker", "reconciler"}
    BY <1>2 DEF Inspect, ReconcilerFails, IInv, TypeOK
  <2>2. TypeOK'
    BY <2>1 DEF IInv, TypeOK, workerVars, dispatchVars
  <2>3. DispatchIsHeld' /\ UnstartedIsUnlocked' /\ LeaseStep
    BY <2>1 DEF IInv, DispatchIsHeld, UnstartedIsUnlocked, Unlocked, LeaseStep, KeepsLease,
                workerVars
  <2>4. QED
    BY <2>2, <2>3 DEF StepIsGood
<1>3. QED
  BY <1>1, <1>2

LEMMA OtherWritersAreGood ==
    ASSUME IInv,
           ExpireLease \/ MetadataWrite \/ ConfigureDraft \/ StartProbe \/ FinishProbe
    PROVE  StepIsGood
<1>1. session \in Session /\ plane \in Planes
  BY DEF IInv, TypeOK, Planes
<1>2. UNCHANGED <<wf, workerVars, dispatchVars, canceller>>
  BY DEF ExpireLease, MetadataWrite, ConfigureDraft, StartProbe, FinishProbe
<1>3. KeepsLock(session, session') /\ fresh' \in {{}, fresh}
  <2>1. CASE ExpireLease
    BY <1>1, <2>1 DEF ExpireLease, KeepsLock, Session
  <2>2. CASE MetadataWrite
    BY <1>1, <2>2 DEF MetadataWrite, Touch, KeepsLock
  <2>3. CASE ConfigureDraft
    BY <1>1, <2>3, StagesKeepLock DEF ConfigureDraft, Write
  <2>4. CASE StartProbe
    BY <1>1, <2>4, StagesKeepLock DEF StartProbe, Write
  <2>5. CASE FinishProbe
    BY <1>1, <2>5, StagesKeepLock DEF FinishProbe, Write
  <2>6. QED
    BY <2>1, <2>2, <2>3, <2>4, <2>5
<1>4. ExecMoves
  BY <1>2 DEF ExecMoves, ExecTyped, IInv, TypeOK, workerVars
<1>5. QED
  BY <1>1, <1>2, <1>3, <1>4, StageKeeps DEF workerVars

-----------------------------------------------------------------------------
(* The invariant                                                           *)

LEMMA InitIInv == Init => IInv
<1> SUFFICES ASSUME Init PROVE IInv
  OBVIOUS
<1>1. PICK scenario \in Scenarios :
         /\ unsent = scenario.commands
         /\ \E archive \in EarlierArchives(scenario.life) :
               session = InitialSession(scenario.life, archive)
  BY DEF Init
<1> DEFINE life == scenario.life
<1>2. PICK archive \in EarlierArchives(life) : session = InitialSession(life, archive)
  BY <1>1
<1>a. life \in RestingStates /\ unsent \subseteq Workflows
  BY <1>1, ScenariosAssumption
<1>b. archive \in {NoWorkflow, EarlierArchive}
  BY DEF EarlierArchives
<1> HIDE DEF life
<1>3. life \in LifecycleStates
  BY <1>a, States DEF RestingStates
<1>4. session \in Session
  <2> DEFINE
        h == CASE life = "RUNNING" -> "HEALTHY"
               [] life \in {"SLEEPING", "ARCHIVED"} -> "STOPPED"
               [] OTHER -> "UNKNOWN"
        infra == IF life \in {"RUNNING", "SLEEPING"} THEN "complete" ELSE "none"
        asleep == life = "SLEEPING"
  <2>1. h \in HealthStates
    BY States
  <2>2. infra \in {"none", "slot", "instance", "complete"}
    OBVIOUS
  <2>3. asleep \in BOOLEAN
    OBVIOUS
  <2>4. session = [life |-> life, health |-> h, lock |-> NoWorkflow,
                   kind |-> "none", lease |-> "none", source |-> "none",
                   infra |-> infra, archive |-> archive, asleep |-> asleep,
                   lastKind |-> "none", progress |-> "none", probe |-> FALSE]
    BY <1>2 DEF InitialSession
  <2>5. QED
    <3> HIDE DEF h, infra, asleep
    <3> QED
      BY <1>b, <1>3, <2>1, <2>2, <2>3, <2>4 DEF Session
<1>5. Unlocked(session)
  BY <1>2 DEF InitialSession, Unlocked
<1>6. TypeOK
  <2>1. /\ wf \in [Workflows -> WorkflowItem] /\ held \in [Workflows -> WorkflowItem]
        /\ ExecTyped
    BY ItemTyped DEF Init, ExecTyped, ExecStates, StatesOf
  <2>2. plane \in Planes
    BY DEF Init, Planes
  <2>3. queue \in Seq(Workflows) /\ receives \in 0..MaxReceive
    BY MaxReceiveAssumption DEF Init
  <2>4. handler \in HandlerStates
    BY ItemTyped DEF Init, Idle, HandlerStates
  <2>5. canceller \in [w: Workflows \cup {NoWorkflow}, snap: WorkflowItem]
    BY ItemTyped DEF Init, NoRequest
  <2>6. fresh = {} /\ unsent \subseteq Workflows /\ dead = {}
    BY <1>a DEF Init
  <2>7. QED
    BY <1>4, <2>1, <2>2, <2>3, <2>4, <2>5, <2>6 DEF TypeOK, ExecTyped, Planes, HandlerStates
<1>7. LeaseAgreement
  BY <1>5, NoWorkflowAssumption, ItemTyped
     DEF Init, LeaseAgreement, Open, Holds, Unlocked, OpenStatus
<1>8. DispatchIsHeld /\ UnstartedIsUnlocked
  BY <1>5 DEF Init, DispatchIsHeld, UnstartedIsUnlocked
<1>9. QED
  BY <1>6, <1>7, <1>8 DEF IInv

LEMMA NextIsGood == IInv /\ [Next]_vars => StepIsGood
<1> SUFFICES ASSUME IInv, [Next]_vars PROVE StepIsGood
  OBVIOUS
<1>1. ASSUME NEW c \in Workflows,
             Submit(c) \/ Redrive(c) \/ Dispatcher(c)
      PROVE  StepIsGood
  BY <1>1, MessagesAreGood, AdmitIsGood, StartExecutionIsGood, RecordExecutionIsGood,
     AbortExecutionIsGood DEF Dispatcher
<1>2. ASSUME NEW c \in Workflows, Stage(c) \/ ExecutionAborted(c)
      PROVE  StepIsGood
  BY <1>2, HostStagesAreGood, CommandStagesAreGood, DispatchBootstrapIsGood,
     PersistDispatchIsGood, TaskFailuresAreGood, ReleasesAreGood,
     ContinueProvisionIsGood, EnqueueContinuationIsGood DEF Stage
<1>3. ASSUME NEW c \in Workflows,
             RequestCancellation(c) \/ SaveCancellation(c) \/ CancellationLost(c)
      PROVE  StepIsGood
  BY <1>3, CancellationsAreGood
<1>4. CASE \/ \E c \in Workflows : Inspect(c) \/ Repair(c)
           \/ ReconcilerFails
  BY <1>4, ReconcilerIsGood
<1>5. CASE ExpireLease \/ MetadataWrite \/ ConfigureDraft \/ StartProbe \/ FinishProbe
  BY <1>5, OtherWritersAreGood
<1>6. CASE UNCHANGED vars
  BY <1>6 DEF vars, workerVars, dispatchVars, StepIsGood, IInv, TypeOK, DispatchIsHeld,
              UnstartedIsUnlocked, Unlocked, LeaseStep, KeepsLease
<1>7. QED
  BY <1>1, <1>2, <1>3, <1>4, <1>5, <1>6 DEF Next

LEMMA NextIInv == IInv /\ [Next]_vars => IInv'
<1> SUFFICES ASSUME IInv, [Next]_vars PROVE IInv'
  OBVIOUS
<1>1. StepIsGood
  BY NextIsGood
<1>2. LeaseAgreement'
  BY <1>1, LeaseStepAgrees DEF StepIsGood
<1>3. QED
  BY <1>1, <1>2 DEF StepIsGood, IInv

(* The inductive invariant holds in every behaviour. *)
THEOREM Invariance == Spec => []IInv
<1>1. Init => IInv
  BY InitIInv
<1>2. IInv /\ [Next]_vars => IInv'
  BY NextIInv
<1>3. QED
  BY <1>1, <1>2, PTL DEF Spec

(* Every variable keeps its type.  For the workflow items this says that no *)
(* whole-item put writes a copy that was never read, and for the session   *)
(* that no transition leaves the lifecycle undefined.                      *)
THEOREM TypeCorrect == Spec => []TypeOK
<1>1. IInv => TypeOK
  BY DEF IInv
<1>2. QED
  BY <1>1, Invariance, PTL

(* The session's lock and the workflow items, which different statements    *)
(* write, always agree on who holds the lease.                             *)
THEOREM LeaseAgrees == Spec => []LeaseAgreement
<1>1. IInv => LeaseAgreement
  BY DEF IInv
<1>2. QED
  BY <1>1, Invariance, PTL

(* None of the whole-item puts, and no retry, late reply or repair, reopens *)
(* a workflow that has ended or changes how it ended.                      *)
THEOREM EndsOnce == Spec => TerminalIsFinal
<1>1. ASSUME IInv, [Next]_vars, NEW c \in Workflows, wf[c].status \in Terminal
      PROVE  wf'[c].status = wf[c].status
  <2>1. LeaseStep
    BY <1>1, NextIsGood DEF StepIsGood
  <2>2. ~Holds(c) /\ wf[c].status # "absent" /\ wf[c].status \notin OpenStatus
    BY <1>1 DEF IInv, LeaseAgreement, Open, OpenStatus, Terminal
  <2>3. CASE KeepsLease
    BY <2>2, <2>3 DEF KeepsLease
  <2>4. ASSUME NEW b \in Workflows, TakesLease(b) \/ GivesLeaseBack(b)
        PROVE  wf'[c].status = wf[c].status
    BY <2>2, <2>4 DEF TakesLease, GivesLeaseBack
  <2>5. QED
    BY <2>1, <2>3, <2>4 DEF LeaseStep
<1>2. IInv /\ [Next]_vars =>
         [\A c \in Workflows :
             wf[c].status \in Terminal => wf'[c].status = wf[c].status]_vars
  BY <1>1
<1>3. QED
  BY <1>2, Invariance, PTL DEF Spec, TerminalIsFinal

-----------------------------------------------------------------------------
(* The implementation of the abstract lease                                *)

leaseStatus ==
    [c \in Workflows |->
        IF wf[c].status = "absent" THEN "absent" ELSE IF Open(c) THEN "open" ELSE "closed"]

(* Every step takes the abstract lease, gives it back, or leaves it alone.  *)
LEMMA LeaseSimulation ==
    ASSUME IInv, TypeOK', LeaseStep
    PROVE  [Lease!Next]_(Lease!leaseVars)
<1>0. /\ session.lock \in Workflows \cup {NoWorkflow}
      /\ \A d \in Workflows : Open(d) <=> Holds(d)
  BY DEF IInv, TypeOK, Session, LeaseAgreement
<1>1. CASE KeepsLease
  <2>1. leaseStatus' = leaseStatus
    BY <1>1 DEF KeepsLease, leaseStatus, Open, OpenStatus
  <2>2. QED
    BY <1>1, <2>1 DEF KeepsLease, leaseStatus, Lease!leaseVars
<1>2. ASSUME NEW b \in Workflows, TakesLease(b)
      PROVE  Lease!Acquire(b)
  <2>1. leaseStatus' = [leaseStatus EXCEPT ![b] = "open"]
    BY <1>2 DEF TakesLease, leaseStatus, Open, OpenStatus
  <2>2. leaseStatus[b] = "absent"
    BY <1>2 DEF TakesLease, leaseStatus
  <2>3. QED
    BY <1>2, <2>1, <2>2 DEF TakesLease, Unlocked, Lease!Acquire, leaseStatus
<1>3. ASSUME NEW b \in Workflows, GivesLeaseBack(b)
      PROVE  Lease!Release(b)
  <2>1. leaseStatus' = [leaseStatus EXCEPT ![b] = "closed"]
    BY <1>3 DEF GivesLeaseBack, leaseStatus, Open, OpenStatus, Terminal
  <2>2. QED
    BY <1>3, <2>1 DEF GivesLeaseBack, Holds, Lease!Release, leaseStatus
<1>4. QED
  BY <1>1, <1>2, <1>3 DEF LeaseStep, Lease!Next

(* However executions, handlers, messages and the reconciler interleave,    *)
(* the system is an exclusive lease that each workflow takes at most once.  *)
THEOREM ImplementsLease == Spec => LeaseSpec
<1>1. ASSUME Init PROVE Lease!Init
  <2>1. session.lock = NoWorkflow
    BY <1>1 DEF Init, InitialSession
  <2>2. \A c \in Workflows : wf[c].status = "absent"
    BY <1>1, ItemTyped DEF Init
  <2>3. QED
    BY <2>1, <2>2 DEF Lease!Init
<1>2. IInv /\ [Next]_vars => [Lease!Next]_(Lease!leaseVars)
  BY NextIsGood, LeaseSimulation DEF StepIsGood
<1>3. QED
  BY <1>1, <1>2, Invariance, PTL DEF Spec, LeaseSpec, Lease!Spec

-----------------------------------------------------------------------------
(* The invariant of the lifecycle                                          *)

UndrivenStates == RestingStates \cup {"DELETED", "FAILED", "BOOTSTRAPPING",
                                      "INSTALLING", "STOPPING"}

(* SleepingSince is set wherever the session may go back to sleep: this is  *)
(* what makes the refused start of a wake impossible to record.            *)
Driven(s) ==
    /\ Valid(s)
    /\ IF Unlocked(s) THEN s.life \in UndrivenStates ELSE s.life \in PhasesOf[s.kind]
    /\ s.life \in {"SLEEPING", "WAKING"} \/ s.source = "SLEEPING" => s.asleep

-----------------------------------------------------------------------------
(* What Driven says of a session that is held, and of one that is not.      *)

LEMMA Phases ==
    /\ PhasesOf["Provision"] = {"VALIDATING", "PROVISIONING"}
    /\ PhasesOf["Bootstrap"] = {"BOOTSTRAPPING", "INSTALLING"}
    /\ PhasesOf["Sleep"] = {"STOPPING"}
    /\ PhasesOf["Wake"] = {"WAKING"}
    /\ PhasesOf["Restart"] = {"RESTARTING"}
    /\ PhasesOf["Archive"] = {"ARCHIVING", "DESTROYING"}
    /\ PhasesOf["Restore"] = {"RESTORING"}
    /\ PhasesOf["Terminate"] = {"DELETING"}
BY DEF PhasesOf, Kinds

(* No phase is a state in which a workflow may be admitted. *)
LEMMA PhasesAreDriven ==
    ASSUME NEW k \in Kinds
    PROVE  /\ PhasesOf[k] \cap (RestingStates \cup {"FAILED", "DELETED"}) = {}
           /\ "WAKING" \in PhasesOf[k] => k = "Wake"
           /\ "ARCHIVING" \in PhasesOf[k] => k = "Archive"
BY Phases DEF Kinds, RestingStates

LEMMA UnlockedFacts ==
    ASSUME NEW s \in Session, Driven(s), Unlocked(s)
    PROVE  /\ s.source = "none"
           /\ s.asleep <=> s.life = "SLEEPING"
<1>1. s.kind = "none" /\ s.life \in UndrivenStates
  BY DEF Driven, Valid
<1>2. s.source = "none"
  BY <1>1 DEF Driven, Valid, Session
<1>3. QED
  BY <1>1, <1>2 DEF Driven, Valid, UndrivenStates, RestingStates

LEMMA HeldFacts ==
    ASSUME NEW s \in Session, Driven(s), ~Unlocked(s), NEW k \in Kinds, s.kind = k
    PROVE  /\ s.life \in PhasesOf[k] /\ s.lease # "none" /\ s.lastKind = k
           /\ k # "Archive" => s.source = "none"
           /\ k = "Archive" => (s.asleep <=> s.source = "SLEEPING")
           /\ k = "Wake" => s.life = "WAKING" /\ s.asleep
           /\ k \notin {"Archive", "Wake"} => ~s.asleep
           /\ s.life = "DESTROYING" => s.source = "none" /\ ~s.asleep
<1>1. s.life \in PhasesOf[k] /\ s.lease # "none" /\ s.lastKind = k
  BY DEF Driven, Valid
<1>2. s.source # "none" => k = "Archive" /\ s.life = "ARCHIVING"
  BY DEF Driven, Valid
<1>3. s.asleep => \/ s.life = "ARCHIVING" /\ s.source = "SLEEPING" /\ k = "Archive"
                  \/ s.life = "WAKING" /\ k = "Wake"
  BY <1>1, <1>2, PhasesAreDriven DEF Driven, Valid, RestingStates
<1>4. k = "Wake" => s.life = "WAKING"
  BY <1>1, Phases
<1>5. QED
  BY <1>1, <1>2, <1>3, <1>4 DEF Driven, Session

-----------------------------------------------------------------------------
(* Writes that leave the lease, the lifecycle and the sleep marker alone.   *)

SameDrive(s, t) ==
    /\ t.lock = s.lock /\ t.kind = s.kind /\ t.lastKind = s.lastKind
    /\ t.lease = "none" <=> s.lease = "none"
    /\ t.life = s.life /\ t.source = s.source /\ t.asleep = s.asleep

LEMMA SameDriveIsDriven ==
    ASSUME NEW s, NEW t, Driven(s), SameDrive(s, t)
    PROVE  Driven(t)
BY DEF Driven, SameDrive, Valid, Unlocked

(* Giving the lease back. *)
LEMMA ClearLockIsDriven ==
    ASSUME NEW t \in Session, NEW outcome \in {"completed", "action_required", "cancelled"},
           t.life \in UndrivenStates, t.source = "none", t.asleep <=> t.life = "SLEEPING"
    PROVE  Driven(ClearLock(t, outcome))
<1> DEFINE u == ClearLock(t, outcome)
<1>1. /\ u.lock = NoWorkflow /\ u.kind = "none" /\ u.lease = "none"
      /\ u.life = t.life /\ u.source = "none"
      /\ u.asleep <=> u.life = "SLEEPING"
  BY DEF ClearLock, Session
<1>2. u.life # "WAKING" /\ u.life \in UndrivenStates
  BY <1>1 DEF UndrivenStates, RestingStates
<1> HIDE DEF u
<1>3. Unlocked(u) /\ Valid(u)
  BY <1>1 DEF Valid, Unlocked
<1>4. u.life \in {"SLEEPING", "WAKING"} \/ u.source = "SLEEPING" => u.asleep
  BY <1>1, <1>2
<1>5. Driven(u)
  BY <1>2, <1>3, <1>4, Zenon DEF Driven
<1>6. QED
  BY <1>5 DEF u

-----------------------------------------------------------------------------
(* The ways of giving the lease back                                       *)

LEMMA UndrivenAre ==
    \A x \in {"DRAFT", "NEW", "RUNNING", "SLEEPING", "ARCHIVED", "DELETED", "FAILED",
              "BOOTSTRAPPING", "INSTALLING", "STOPPING"} : x \in UndrivenStates
BY DEF UndrivenStates, RestingStates

(* A transition that names the state it releases the session in. *)
LEMMA ReleaseInto ==
    ASSUME NEW l \in UndrivenStates \ {"SLEEPING"},
           NEW t \in Session, t.life = l, t.source = "none", ~t.asleep,
           NEW outcome \in {"completed", "action_required", "cancelled"}
    PROVE  Driven(ClearLock(t, outcome))
BY ClearLockIsDriven

LEMMA CompleteIsDriven ==
    ASSUME NEW s \in Session, NEW k \in Kinds, Driven(s), ~Unlocked(s), s.kind = k,
           CanComplete(s, k)
    PROVE  Driven(Complete(s, k))
<1>1. k # "Archive" => s.source = "none"
  BY HeldFacts
<1>2. k \notin {"Archive", "Wake"} => ~s.asleep
  BY HeldFacts
<1>3. CASE k = "Provision"
  <2> DEFINE t == [s EXCEPT !.life = "BOOTSTRAPPING"]
  <2>1. t \in Session /\ t.life = "BOOTSTRAPPING" /\ t.source = "none" /\ ~t.asleep
    BY <1>1, <1>2, <1>3, States DEF Session
  <2> HIDE DEF t
  <2>2. Driven(ClearLock(t, "completed"))
    BY <2>1, UndrivenAre, ReleaseInto
  <2>3. QED
    BY <1>3, <2>2 DEF Complete, CompleteInfrastructureProvisioning, t
<1>4. CASE k \in {"Bootstrap", "Restore"}
  <2> DEFINE t == [s EXCEPT !.life = "RUNNING", !.health = "HEALTHY"]
  <2>1. t \in Session /\ t.life = "RUNNING" /\ t.source = "none" /\ ~t.asleep
    BY <1>1, <1>2, <1>4, States DEF Session
  <2> HIDE DEF t
  <2>2. Driven(ClearLock(t, "completed"))
    BY <2>1, UndrivenAre, ReleaseInto
  <2>3. QED
    BY <1>4, <2>2 DEF Complete, CompleteBootstrap, CompleteRestore, t
<1>5. CASE k = "Sleep"
  <2> DEFINE t == [s EXCEPT !.life = "SLEEPING", !.health = "STOPPED", !.asleep = TRUE]
  <2>1. t \in Session /\ t.life = "SLEEPING" /\ t.source = "none" /\ t.asleep
    BY <1>1, <1>5, States DEF Session
  <2> HIDE DEF t
  <2>2. Driven(ClearLock(t, "completed"))
    BY <2>1, UndrivenAre, ClearLockIsDriven
  <2>3. QED
    BY <1>5, <2>2 DEF Complete, CompleteSleep, t
<1>6. CASE k \in {"Wake", "Restart"}
  <2> DEFINE t == [s EXCEPT !.life = "RUNNING", !.health = "HEALTHY", !.asleep = FALSE]
  <2>1. t \in Session /\ t.life = "RUNNING" /\ t.source = "none" /\ ~t.asleep
    BY <1>1, <1>6, States DEF Session
  <2> HIDE DEF t
  <2>2. Driven(ClearLock(t, "completed"))
    BY <2>1, UndrivenAre, ReleaseInto
  <2>3. QED
    BY <1>6, <2>2 DEF Complete, CompleteRunning, t
<1>7. CASE k = "Archive"
  <2> DEFINE t == [s EXCEPT !.life = "ARCHIVED", !.health = "STOPPED", !.asleep = FALSE,
                            !.infra = "none"]
  <2>1. s.source = "none"
    BY <1>7, HeldFacts DEF CanComplete
  <2>2. t \in Session /\ t.life = "ARCHIVED" /\ t.source = "none" /\ ~t.asleep
    BY <2>1, States DEF Session
  <2> HIDE DEF t
  <2>3. Driven(ClearLock(t, "completed"))
    BY <2>2, UndrivenAre, ReleaseInto
  <2>4. QED
    BY <1>7, <2>3 DEF Complete, CompleteArchive, t
<1>8. CASE k = "Terminate"
  <2> DEFINE t == [s EXCEPT !.life = "DELETED", !.health = "STOPPED", !.infra = "none",
                            !.archive = NoWorkflow, !.probe = FALSE]
  <2>1. t \in Session /\ t.life = "DELETED" /\ t.source = "none" /\ ~t.asleep
    BY <1>1, <1>2, <1>8, States DEF Session
  <2> HIDE DEF t
  <2>2. Driven(ClearLock(t, "completed"))
    BY <2>1, UndrivenAre, ReleaseInto
  <2>3. QED
    BY <1>8, <2>2 DEF Complete, CompleteTermination, t
<1>9. QED
  BY <1>3, <1>4, <1>5, <1>6, <1>7, <1>8 DEF Kinds

(* FailSleepWake and FailUnhealthy are also what a refused start calls. *)
LEMMA FailIsDriven ==
    ASSUME NEW s \in Session, NEW k \in Kinds, Driven(s), ~Unlocked(s), s.kind = k
    PROVE  /\ Driven(Fail(s, k))
           /\ k = "Restart" => Driven(FailSleepWake(s))
           /\ k = "Terminate" => Driven(FailUnhealthy(s))
<1>1. k # "Archive" => s.source = "none"
  BY HeldFacts
<1>2. k \notin {"Archive", "Wake"} => ~s.asleep
  BY HeldFacts
<1>3. ASSUME k = "Provision"
      PROVE  Driven(FailInfrastructureProvisioning(s))
  <2> DEFINE t == [s EXCEPT !.life = "FAILED", !.health = "UNKNOWN"]
  <2>1. t \in Session /\ t.life = "FAILED" /\ t.source = "none" /\ ~t.asleep
    BY <1>1, <1>2, <1>3, States DEF Session
  <2> HIDE DEF t
  <2>2. Driven(ClearLock(t, "action_required"))
    BY <2>1, UndrivenAre, ReleaseInto
  <2>3. QED
    BY <2>2 DEF FailInfrastructureProvisioning, t
<1>4. ASSUME k \in {"Bootstrap", "Restore", "Terminate"}
      PROVE  Driven(FailUnhealthy(s))
  <2> DEFINE t == [s EXCEPT !.life = "FAILED", !.health = "UNHEALTHY"]
  <2>1. t \in Session /\ t.life = "FAILED" /\ t.source = "none" /\ ~t.asleep
    BY <1>1, <1>2, <1>4, States DEF Session
  <2> HIDE DEF t
  <2>2. Driven(ClearLock(t, "action_required"))
    BY <2>1, UndrivenAre, ReleaseInto
  <2>3. QED
    BY <2>2 DEF FailUnhealthy, t
<1>5. ASSUME k \in {"Sleep", "Wake", "Restart"}
      PROVE  Driven(FailSleepWake(s))
  <2> DEFINE t == [s EXCEPT !.life = "FAILED", !.health = "UNHEALTHY", !.asleep = FALSE]
  <2>1. t \in Session /\ t.life = "FAILED" /\ t.source = "none" /\ ~t.asleep
    BY <1>1, <1>5, States DEF Session
  <2> HIDE DEF t
  <2>2. Driven(ClearLock(t, "action_required"))
    BY <2>1, UndrivenAre, ReleaseInto
  <2>3. QED
    BY <2>2 DEF FailSleepWake, t
<1>6. ASSUME k = "Archive"
      PROVE  Driven(FailArchive(s))
  <2> DEFINE t == [s EXCEPT !.life = "FAILED", !.health = "UNHEALTHY", !.asleep = FALSE,
                            !.source = "none"]
  <2>1. t \in Session /\ t.life = "FAILED" /\ t.source = "none" /\ ~t.asleep
    BY States DEF Session
  <2> HIDE DEF t
  <2>2. Driven(ClearLock(t, "action_required"))
    BY <2>1, UndrivenAre, ReleaseInto
  <2>3. QED
    BY <2>2 DEF FailArchive, t
<1>7. Driven(Fail(s, k))
  BY <1>3, <1>4, <1>5, <1>6 DEF Fail, Kinds
<1>8. QED
  BY <1>4, <1>5, <1>7

(* A waking session has SleepingSince set, so that its refused start is     *)
(* never recorded: the case of ReleaseWorkflowLock is that of a sleep or a  *)
(* bootstrap.                                                              *)
LEMMA AbortStartIsDriven ==
    ASSUME NEW s \in Session, NEW k \in Kinds, Driven(s), ~Unlocked(s), s.kind = k,
           CanAbortStart(s, k)
    PROVE  Driven(AbortStart(s, k))
<1>1. s.life \in PhasesOf[k] /\ (k # "Archive" => s.source = "none")
  BY HeldFacts
<1>2. k \notin {"Archive", "Wake"} => ~s.asleep
  BY HeldFacts
<1>3. CASE k = "Provision"
  <2> DEFINE t == [s EXCEPT !.life = "NEW", !.health = "UNKNOWN"]
  <2>1. t \in Session /\ t.life = "NEW" /\ t.source = "none" /\ ~t.asleep
    BY <1>1, <1>2, <1>3, States DEF Session
  <2> HIDE DEF t
  <2>2. Driven(ClearLock(t, "action_required"))
    BY <2>1, UndrivenAre, ReleaseInto
  <2>3. QED
    BY <1>3, <2>2 DEF AbortStart, AbortProvisioningWorkflowStart, t
<1>4. CASE k = "Archive"
  <2> DEFINE h == IF s.source = "SLEEPING" THEN "STOPPED" ELSE "HEALTHY"
             t == [s EXCEPT !.life = s.source, !.source = "none", !.health = h]
  <2>1. s.source \in {"RUNNING", "SLEEPING"} /\ h \in HealthStates
    BY <1>4, States DEF CanAbortStart, Session
  <2>2. s.asleep <=> s.source = "SLEEPING"
    BY <1>4, HeldFacts
  <2>3. t \in Session /\ t.life = s.source /\ t.source = "none" /\ (t.asleep <=> s.asleep)
    <3> HIDE DEF h
    <3>1. s.source \in LifecycleStates
      BY <2>1, States
    <3>2. t \in Session
      BY <2>1, <3>1, States DEF Session
    <3>3. t.life = s.source /\ t.source = "none" /\ t.asleep = s.asleep
      BY DEF Session
    <3> QED
      BY <3>2, <3>3
  <2>4. AbortStart(s, k) = ClearLock(t, "action_required")
    BY <1>4 DEF AbortStart, AbortArchiveWorkflowStart
  <2> HIDE DEF t
  <2>5. Driven(ClearLock(t, "action_required"))
    BY <2>1, <2>2, <2>3, UndrivenAre, ClearLockIsDriven
  <2>6. QED
    BY <2>4, <2>5
<1>5. CASE k = "Restore"
  <2> DEFINE t == [s EXCEPT !.life = "ARCHIVED", !.health = "STOPPED"]
  <2>1. t \in Session /\ t.life = "ARCHIVED" /\ t.source = "none" /\ ~t.asleep
    BY <1>1, <1>2, <1>5, States DEF Session
  <2> HIDE DEF t
  <2>2. Driven(ClearLock(t, "action_required"))
    BY <2>1, UndrivenAre, ReleaseInto
  <2>3. QED
    BY <1>5, <2>2 DEF AbortStart, AbortRestoreWorkflowStart, t
<1>6. CASE k \in {"Bootstrap", "Sleep"}
  <2>1. s.life \in UndrivenStates \ {"SLEEPING"} /\ s.source = "none" /\ ~s.asleep
    BY <1>1, <1>2, <1>6, Phases, UndrivenAre
  <2>2. Driven(ClearLock(s, "action_required"))
    BY <2>1, ReleaseInto
  <2>3. QED
    BY <1>6, <2>2 DEF AbortStart, ReleaseWorkflowLock
<1>7. k # "Wake"
  BY HeldFacts DEF CanAbortStart
<1>8. CASE k \in {"Restart", "Terminate"}
  BY <1>8, FailIsDriven DEF AbortStart
<1>9. QED
  BY <1>3, <1>4, <1>5, <1>6, <1>7, <1>8 DEF Kinds

LEMMA CancelIsDriven ==
    ASSUME NEW s \in Session, NEW k \in Kinds, Driven(s), ~Unlocked(s), s.kind = k,
           CanCancel(s, k)
    PROVE  Driven(Cancel(s, k))
<1> DEFINE
      l == CASE k = "Provision" -> "NEW"
             [] k = "Bootstrap" -> "FAILED"
             [] k = "Sleep"     -> "RUNNING"
             [] k = "Wake"      -> "SLEEPING"
             [] k = "Archive"   -> s.source
             [] k = "Restore"   -> "ARCHIVED"
      h == CASE k \in {"Provision", "Bootstrap"} -> "UNKNOWN"
             [] k = "Sleep" -> "HEALTHY"
             [] k \in {"Wake", "Restore"} -> "STOPPED"
             [] k = "Archive" -> IF s.source = "SLEEPING" THEN "STOPPED" ELSE "HEALTHY"
      t == [s EXCEPT !.life = l, !.health = h, !.source = "none"]
<1>1. k \in {"Provision", "Bootstrap", "Sleep", "Wake", "Archive", "Restore"}
  BY DEF CanCancel, Kinds
<1>2. l \in LifecycleStates /\ l \in UndrivenStates
  BY <1>1, States, UndrivenAre DEF CanCancel, Session
<1>3. h \in HealthStates
  BY <1>1, States
<1>4. s.asleep <=> l = "SLEEPING"
  <2>1. CASE k = "Archive"
    BY <2>1, HeldFacts
  <2>2. CASE k = "Wake"
    BY <2>2, HeldFacts
  <2>3. CASE k \in {"Provision", "Bootstrap", "Sleep", "Restore"}
    <3>1. ~s.asleep
      BY <2>3, HeldFacts
    <3>2. QED
      BY <2>3, <3>1
  <2>4. QED
    BY <1>1, <2>1, <2>2, <2>3
<1>5. t \in Session /\ t.life = l /\ t.source = "none" /\ (t.asleep <=> s.asleep)
  <2> HIDE DEF l, h
  <2> QED
    BY <1>2, <1>3 DEF Session
<1>6. Cancel(s, k) = ClearLock(t, "cancelled")
  BY DEF Cancel
<1> HIDE DEF l, h, t
<1>7. QED
  BY <1>2, <1>4, <1>5, <1>6, ClearLockIsDriven

-----------------------------------------------------------------------------
(* Taking the lease, and the stages that change the lifecycle under it      *)

LEMMA HeldIsDriven ==
    ASSUME NEW t, NEW k \in Kinds,
           t.lock # NoWorkflow, t.kind = k, t.lease # "none", t.lastKind = k,
           t.life \in PhasesOf[k],
           t.source # "none" => k = "Archive" /\ t.life = "ARCHIVING",
           t.asleep \in BOOLEAN,
           t.asleep <=> t.life = "WAKING" \/ t.source = "SLEEPING"
    PROVE  Driven(t)
<1>1. t.life # "SLEEPING" /\ (t.life = "WAKING" => k = "Wake") /\ k # "none"
  BY PhasesAreDriven DEF RestingStates, Kinds
<1>2. ~Unlocked(t) /\ Valid(t)
  BY <1>1 DEF Unlocked, Valid
<1>3. t.life \in {"SLEEPING", "WAKING"} \/ t.source = "SLEEPING" => t.asleep
  BY <1>1
<1>4. QED
  BY <1>2, <1>3 DEF Driven

(* The expired lease that a provisioning command may take over is never     *)
(* that of a NEW session: no workflow drives a session that is NEW.         *)
LEMMA BeginsUnlocked ==
    ASSUME NEW s \in Session, NEW k \in Kinds, Driven(s), CanBegin(s, k)
    PROVE  Unlocked(s)
<1>1. CASE k = "Provision"
  <2>1. s.life = "NEW" \/ Unlocked(s)
    BY <1>1 DEF CanBegin, CanAcquireProvisioning, CanStartInfrastructureProvisioning
  <2>2. ~Unlocked(s) => s.kind \in Kinds /\ s.life \in PhasesOf[s.kind]
    BY DEF Driven, Valid, Session
  <2>3. QED
    BY <2>1, <2>2, PhasesAreDriven DEF RestingStates
<1>2. CASE k # "Provision"
  BY <1>2 DEF CanBegin, CanStartBootstrap, CanSleep, CanWake, CanRestart, CanArchive,
              CanRestore, CanTerminate, Kinds
<1>3. QED
  BY <1>1, <1>2

LEMMA BeginIsDriven ==
    ASSUME NEW s \in Session, NEW w \in Workflows, NEW k \in Kinds,
           Driven(s), CanBegin(s, k)
    PROVE  Driven(Begin(s, w, k))
<1> DEFINE
      Taken(t) == /\ t.lock = w /\ t.kind = k /\ t.lease = "live" /\ t.lastKind = k
                  /\ t.life \in PhasesOf[k] /\ t.asleep \in BOOLEAN
                  /\ t.source # "none" => k = "Archive" /\ t.life = "ARCHIVING"
                  /\ t.asleep <=> t.life = "WAKING" \/ t.source = "SLEEPING"
<1>1. s.source = "none" /\ (s.asleep <=> s.life = "SLEEPING")
  BY BeginsUnlocked, UnlockedFacts
<1>2. CASE k \in {"Provision", "Bootstrap", "Sleep", "Restart", "Restore"}
  <2>1. ~s.asleep
    BY <1>1, <1>2 DEF CanBegin, CanAcquireProvisioning, CanStartInfrastructureProvisioning,
                      CanStartBootstrap, CanSleep, CanRestart, CanRestore
  <2>2. CASE k = "Provision"
    <3>1. Taken(AcquireProvisioningWorkflowLock(s, w))
      BY <1>1, <2>1, <2>2, Phases
         DEF AcquireProvisioningWorkflowLock, AcquireWorkflowLock, Session
    <3>2. QED
      BY <2>2, <3>1, HeldIsDriven, NoWorkflowAssumption DEF Begin
  <2>3. CASE k = "Bootstrap"
    <3>1. Taken(AcquireBootstrapWorkflowLock(s, w))
      BY <1>1, <2>1, <2>3, Phases
         DEF AcquireBootstrapWorkflowLock, AcquireWorkflowLock, Session
    <3>2. QED
      BY <2>3, <3>1, HeldIsDriven, NoWorkflowAssumption DEF Begin
  <2>4. CASE k = "Sleep"
    <3>1. Taken(BeginSleep(s, w))
      BY <1>1, <2>1, <2>4, Phases DEF BeginSleep, AcquireWorkflowLock, Session
    <3>2. QED
      BY <2>4, <3>1, HeldIsDriven, NoWorkflowAssumption DEF Begin
  <2>5. CASE k = "Restart"
    <3>1. Taken(BeginRestart(s, w))
      BY <1>1, <2>1, <2>5, Phases DEF BeginRestart, AcquireWorkflowLock, Session
    <3>2. QED
      BY <2>5, <3>1, HeldIsDriven, NoWorkflowAssumption DEF Begin
  <2>6. CASE k = "Restore"
    <3>1. Taken(BeginRestore(s, w))
      BY <1>1, <2>1, <2>6, Phases DEF BeginRestore, AcquireWorkflowLock, Session
    <3>2. QED
      BY <2>6, <3>1, HeldIsDriven, NoWorkflowAssumption DEF Begin
  <2>7. QED
    BY <1>2, <2>2, <2>3, <2>4, <2>5, <2>6
<1>3. CASE k = "Wake"
  <2>1. s.asleep
    BY <1>1, <1>3 DEF CanBegin, CanWake
  <2>2. Taken(BeginWake(s, w))
    BY <1>1, <1>3, <2>1, Phases DEF BeginWake, AcquireWorkflowLock, Session
  <2>3. QED
    BY <1>3, <2>2, HeldIsDriven, NoWorkflowAssumption DEF Begin
<1>4. CASE k = "Archive"
  <2>1. s.life \in {"RUNNING", "SLEEPING"}
    BY <1>4 DEF CanBegin, CanArchive
  <2> DEFINE t == BeginArchive(s, w)
  <2>2. /\ t.lock = w /\ t.kind = k /\ t.lease = "live" /\ t.lastKind = k
        /\ t.life = "ARCHIVING" /\ t.source = s.life /\ t.asleep = s.asleep
    BY <1>4 DEF BeginArchive, AcquireWorkflowLock, Session
  <2>3. s.asleep \in BOOLEAN
    BY DEF Session
  <2> HIDE DEF t
  <2>4. Taken(t)
    BY <1>1, <1>4, <2>1, <2>2, <2>3, Phases
  <2>5. Driven(t)
    BY <2>4, HeldIsDriven, NoWorkflowAssumption
  <2>6. QED
    BY <1>4, <2>5 DEF Begin, t
<1>5. CASE k = "Terminate"
  <2>1. Taken(BeginTermination(s, w))
    BY <1>5, Phases DEF BeginTermination, AcquireWorkflowLock, Session
  <2>2. QED
    BY <1>5, <2>1, HeldIsDriven, NoWorkflowAssumption DEF Begin
<1>6. QED
  BY <1>2, <1>3, <1>4, <1>5 DEF Kinds

LEMMA StagesAreDriven ==
    ASSUME NEW s \in Session, NEW k \in Kinds, Driven(s), ~Unlocked(s), s.kind = k
    PROVE  /\ k = "Provision" => Driven(ReserveCapacity(s))
           /\ k = "Bootstrap" => Driven(BeginInstallation(s))
           /\ k = "Archive" => \A w \in Workflows : Driven(RecordVerifiedArchive(s, w))
           /\ Driven(RestoreCapacity(s))
           /\ \A level \in {"instance", "complete"} : Driven(RecordLaunch(s, level))
<1>1. /\ s.lock # NoWorkflow /\ s.lease # "none" /\ s.lastKind = k
      /\ k # "Archive" => s.source = "none"
      /\ k \notin {"Archive", "Wake"} => ~s.asleep
  BY HeldFacts DEF Unlocked
<1>2. ASSUME k = "Provision" PROVE Driven(ReserveCapacity(s))
  <2> DEFINE t == ReserveCapacity(s)
  <2>1. /\ t.lock = s.lock /\ t.kind = k /\ t.lease = s.lease /\ t.lastKind = k
        /\ t.life = "PROVISIONING" /\ t.source = "none" /\ t.asleep = FALSE
    BY <1>1, <1>2 DEF ReserveCapacity, Session
  <2> HIDE DEF t
  <2>2. t.life \in PhasesOf[k]
    BY <1>2, <2>1, Phases
  <2>3. Driven(t)
    BY <1>1, <2>1, <2>2, HeldIsDriven
  <2>4. QED
    BY <2>3 DEF t
<1>3. ASSUME k = "Bootstrap" PROVE Driven(BeginInstallation(s))
  <2> DEFINE t == BeginInstallation(s)
  <2>1. /\ t.lock = s.lock /\ t.kind = k /\ t.lease = s.lease /\ t.lastKind = k
        /\ t.life = "INSTALLING" /\ t.source = "none" /\ t.asleep = FALSE
    BY <1>1, <1>3 DEF BeginInstallation, Session
  <2> HIDE DEF t
  <2>2. t.life \in PhasesOf[k]
    BY <1>3, <2>1, Phases
  <2>3. Driven(t)
    BY <1>1, <2>1, <2>2, HeldIsDriven
  <2>4. QED
    BY <2>3 DEF t
<1>4. ASSUME k = "Archive", NEW w \in Workflows PROVE Driven(RecordVerifiedArchive(s, w))
  <2> DEFINE t == RecordVerifiedArchive(s, w)
  <2>1. /\ t.lock = s.lock /\ t.kind = k /\ t.lease = s.lease /\ t.lastKind = k
        /\ t.life = "DESTROYING" /\ t.source = "none" /\ t.asleep = FALSE
    BY <1>1, <1>4 DEF RecordVerifiedArchive, Session
  <2> HIDE DEF t
  <2>2. t.life \in PhasesOf[k]
    BY <1>4, <2>1, Phases
  <2>3. Driven(t)
    BY <1>1, <2>1, <2>2, HeldIsDriven
  <2>4. QED
    BY <2>3 DEF t
<1>5. SameDrive(s, RestoreCapacity(s))
  BY DEF SameDrive, RestoreCapacity, Session
<1>6. \A level \in {"instance", "complete"} : SameDrive(s, RecordLaunch(s, level))
  BY DEF SameDrive, RecordLaunch, Session
<1>7. QED
  BY <1>2, <1>3, <1>4, <1>5, <1>6, SameDriveIsDriven

-----------------------------------------------------------------------------
(* The steps                                                               *)

LEMMA HolderFacts ==
    ASSUME IInv, NEW c \in Workflows, Holds(c)
    PROVE  /\ session \in Session /\ TypeOf[c] \in Kinds
           /\ ~Unlocked(session) /\ session.kind = TypeOf[c]
BY TypeOfAssumption, NoWorkflowAssumption
   DEF IInv, TypeOK, LeaseAgreement, Holds, Unlocked

(* The releases: a refused start, a cancellation, a completion, a failure. *)
LEMMA ReleasesAreDriven ==
    ASSUME IInv, Driven(session), NEW c \in Workflows,
           \/ AbortExecution(c) \/ HonorCancellation(c) \/ CompleteStage(c)
           \/ FailStage(c) \/ QueueFailed(c) \/ Repair(c)
    PROVE  Driven(session')
<1>1. CASE AbortExecution(c)
  BY <1>1, HolderFacts, AbortStartIsDriven DEF AbortExecution, Write
<1>2. CASE HonorCancellation(c)
  BY <1>2, HolderFacts, CancelIsDriven DEF HonorCancellation, Write
<1>3. CASE CompleteStage(c)
  BY <1>3, HolderFacts, CompleteIsDriven DEF CompleteStage, Write
<1>4. CASE FailStage(c)
  <2>1. PICK level \in InfraAfterFailure(TypeOf[c]) :
           session' = Fail([session EXCEPT !.infra = level], TypeOf[c])
    BY <1>4 DEF FailStage, Write
  <2> DEFINE t == [session EXCEPT !.infra = level]
  <2>2. session \in Session /\ TypeOf[c] \in Kinds /\ ~Unlocked(session)
        /\ session.kind = TypeOf[c]
    BY <1>4, HolderFacts DEF FailStage
  <2>3. level \in {"none", "slot", "instance", "complete"}
    BY <2>2 DEF InfraAfterFailure, Session
  <2>4. t \in Session /\ SameDrive(session, t)
    BY <2>2, <2>3 DEF Session, SameDrive
  <2>5. session' = Fail(t, TypeOf[c])
    BY <2>1
  <2> HIDE DEF t
  <2>6. Driven(t) /\ ~Unlocked(t) /\ t.kind = TypeOf[c]
    BY <2>2, <2>4, SameDriveIsDriven DEF SameDrive, Unlocked
  <2>7. Driven(Fail(t, TypeOf[c]))
    BY <2>2, <2>4, <2>6, FailIsDriven
  <2>8. QED
    BY <2>5, <2>7
<1>5. CASE QueueFailed(c)
  <2>1. PICK b \in Continues(c) :
           \/ session' = session
           \/ Holds(b) /\ session' = Fail(session, "Bootstrap")
    BY <1>5 DEF QueueFailed, KeepSession, Write
  <2>2. b \in Workflows /\ TypeOf[b] = "Bootstrap"
    BY <1>5, ContinuationAssumption, NoWorkflowAssumption DEF Continues
  <2>3. CASE Holds(b) /\ session' = Fail(session, "Bootstrap")
    BY <2>2, <2>3, HolderFacts, FailIsDriven
  <2>4. QED
    BY <2>1, <2>3
<1>6. CASE Repair(c)
  <2>1. /\ session \in Session /\ TypeOf[c] \in Kinds
        /\ ~Unlocked(session) /\ session.kind = TypeOf[c]
    BY <1>6, HolderFacts DEF Repair
  <2>2. session' = Fail(session, TypeOf[c])
    BY <1>6, <2>1 DEF Repair, Write
  <2>3. QED
    BY <2>1, <2>2, FailIsDriven
<1>7. QED
  BY <1>1, <1>2, <1>3, <1>4, <1>5, <1>6

(* Taking the lease: a command's admission and the bootstrap continuation. *)
LEMMA AdmissionsAreDriven ==
    ASSUME IInv, Driven(session), NEW c \in Workflows, Admit(c) \/ ContinueProvision(c)
    PROVE  Driven(session')
<1>1. session \in Session
  BY DEF IInv, TypeOK
<1>2. CASE Admit(c)
  BY <1>1, <1>2, BeginIsDriven, TypeOfAssumption DEF Admit
<1>3. CASE ContinueProvision(c)
  <2>1. PICK b \in Continues(c) :
           \/ CanBegin(session, "Bootstrap") /\ session' = Begin(session, b, "Bootstrap")
           \/ session' = session
    BY <1>3 DEF ContinueProvision, KeepSession, Write
  <2>2. b \in Workflows /\ "Bootstrap" \in Kinds
    BY DEF Continues, Kinds
  <2>3. CASE CanBegin(session, "Bootstrap") /\ session' = Begin(session, b, "Bootstrap")
    BY <1>1, <2>2, <2>3, BeginIsDriven
  <2>4. QED
    BY <2>1, <2>3
<1>4. QED
  BY <1>2, <1>3

(* The stages that write the session and keep the lease. *)
LEMMA StageWritesAreDriven ==
    ASSUME IInv, Driven(session), NEW c \in Workflows,
           \/ PrepareProvision(c) \/ PrepareRestore(c) \/ EnsureHost(c) \/ ObserveHost(c)
           \/ PrepareBootstrap(c) \/ RecordVerified(c) \/ RunStage(c)
    PROVE  Driven(session')
<1>1. CASE session' = session
  BY <1>1
<1>2. CASE PrepareProvision(c) /\ session' # session
  <2>1. TypeOf[c] = "Provision" /\ Holds(c) /\ session' = ReserveCapacity(session)
    BY <1>2 DEF PrepareProvision, At, Proceeds, Loads, KeepSession, Write
  <2>2. QED
    BY <2>1, HolderFacts, StagesAreDriven
<1>3. CASE PrepareRestore(c) /\ session' # session
  <2>1. Holds(c) /\ session' = RestoreCapacity(session)
    BY <1>3 DEF PrepareRestore, KeepSession, Write
  <2>2. QED
    BY <2>1, HolderFacts, StagesAreDriven
<1>4. CASE (EnsureHost(c) \/ ObserveHost(c)) /\ session' # session
  <2>1. Holds(c) /\ \E level \in {"instance", "complete"} :
                       session' = RecordLaunch(session, level)
    BY <1>4 DEF EnsureHost, ObserveHost, KeepSession, Write
  <2>2. QED
    BY <2>1, HolderFacts, StagesAreDriven
<1>5. CASE PrepareBootstrap(c) /\ session' # session
  <2>1. TypeOf[c] = "Bootstrap" /\ Holds(c) /\ session' = BeginInstallation(session)
    BY <1>5 DEF PrepareBootstrap, At, Proceeds, Loads, KeepSession, Write
  <2>2. QED
    BY <2>1, HolderFacts, StagesAreDriven
<1>6. CASE RecordVerified(c) /\ session' # session
  <2>1. /\ TypeOf[c] = "Archive" /\ Holds(c)
        /\ session' = RecordVerifiedArchive(session, c)
    BY <1>6 DEF RecordVerified, At, KeepSession, Write
  <2>2. QED
    BY <2>1, HolderFacts, StagesAreDriven
<1>7. CASE RunStage(c)
  BY <1>7 DEF RunStage, KeepSession, Touch
<1>8. QED
  BY <1>1, <1>2, <1>3, <1>4, <1>5, <1>6, <1>7

(* Time, the owner's metadata and drafts, and the health monitor. *)
LEMMA OtherWritesAreDriven ==
    ASSUME IInv, Driven(session),
           ExpireLease \/ MetadataWrite \/ ConfigureDraft \/ StartProbe \/ FinishProbe
    PROVE  Driven(session')
<1>1. session \in Session
  BY DEF IInv, TypeOK
<1>2. CASE ExpireLease \/ MetadataWrite \/ StartProbe \/ FinishProbe
  <2>1. SameDrive(session, session')
    BY <1>1, <1>2 DEF ExpireLease, MetadataWrite, Touch, StartProbe, FinishProbe, Write,
                      BeginMonitoring, CompleteMonitoring, SameDrive, Session
  <2>2. QED
    BY <2>1, SameDriveIsDriven
<1>3. CASE ConfigureDraft
  <2>1. PICK ready \in BOOLEAN : session' = Configure(session, ready)
    BY <1>3 DEF ConfigureDraft, Write
  <2>2. session.life = "DRAFT"
    BY <1>3 DEF ConfigureDraft, CanConfigure
  <2>3. Unlocked(session)
    BY <2>2 DEF IInv, UnstartedIsUnlocked
  <2>4. session.source = "none" /\ ~session.asleep
    BY <1>1, <2>2, <2>3, UnlockedFacts
  <2>5. /\ session'.lock = session.lock /\ session'.kind = session.kind
        /\ session'.lease = session.lease /\ session'.source = "none"
        /\ ~session'.asleep /\ session'.life \in {"DRAFT", "NEW"}
    BY <1>1, <2>1, <2>4 DEF Configure, Session
  <2>6. Unlocked(session') /\ Valid(session')
    BY <2>3, <2>5 DEF Driven, Valid, Unlocked
  <2>7. QED
    BY <2>5, <2>6, UndrivenAre DEF Driven
<1>4. QED
  BY <1>2, <1>3

LEMMA NextIsDriven ==
    ASSUME IInv, Driven(session), [Next]_vars
    PROVE  Driven(session')
<1>1. ASSUME NEW c \in Workflows, Submit(c) \/ Redrive(c) \/ Dispatcher(c)
      PROVE  Driven(session')
  <2>1. CASE Admit(c) \/ AbortExecution(c)
    BY <2>1, AdmissionsAreDriven, ReleasesAreDriven
  <2>2. CASE ~(Admit(c) \/ AbortExecution(c))
    BY <1>1, <2>2 DEF Submit, Redrive, Dispatcher, Receive, DeadLetter, Lookup, LoadSession,
                      StartExecution, RecordExecution, HandlerFails
  <2>3. QED
    BY <2>1, <2>2
<1>2. ASSUME NEW c \in Workflows, Stage(c) \/ ExecutionAborted(c)
      PROVE  Driven(session')
  <2>1. CASE \/ HonorCancellation(c) \/ CompleteStage(c) \/ FailStage(c) \/ QueueFailed(c)
             \/ ContinueProvision(c)
    BY <2>1, ReleasesAreDriven, AdmissionsAreDriven
  <2>2. CASE \/ PrepareProvision(c) \/ PrepareRestore(c) \/ EnsureHost(c) \/ ObserveHost(c)
             \/ PrepareBootstrap(c) \/ RecordVerified(c) \/ RunStage(c)
    BY <2>2, StageWritesAreDriven
  <2>3. CASE \/ LaunchUnrecorded(c) \/ StopHost(c) \/ StartHost(c) \/ DispatchBootstrap(c)
             \/ PersistDispatch(c) \/ TerminateInstance(c) \/ DeleteVolume(c)
             \/ AlreadyComplete(c) \/ EnqueueContinuation(c) \/ AlreadyFailed(c)
             \/ StageFails(c) \/ ExecutionAborted(c)
    <3>1. session' = session
      BY <2>3 DEF LaunchUnrecorded, StopHost, StartHost, DispatchBootstrap, PersistDispatch,
                  TerminateInstance, DeleteVolume, AlreadyComplete, EnqueueContinuation,
                  AlreadyFailed, StageFails, ExecutionAborted, KeepSession
    <3>2. QED
      BY <3>1
  <2>4. QED
    BY <1>2, <2>1, <2>2, <2>3 DEF Stage
<1>3. ASSUME NEW c \in Workflows,
             \/ RequestCancellation(c) \/ SaveCancellation(c) \/ CancellationLost(c)
             \/ Inspect(c) \/ ReconcilerFails
      PROVE  Driven(session')
  BY <1>3 DEF RequestCancellation, SaveCancellation, CancellationLost, Inspect,
              ReconcilerFails
<1>4. ASSUME NEW c \in Workflows, Repair(c)
      PROVE  Driven(session')
  BY <1>4, ReleasesAreDriven
<1>5. CASE ReconcilerFails \/ UNCHANGED vars
  BY <1>5 DEF ReconcilerFails, vars
<1>6. CASE ExpireLease \/ MetadataWrite \/ ConfigureDraft \/ StartProbe \/ FinishProbe
  BY <1>6, OtherWritesAreDriven
<1>7. QED
  BY <1>1, <1>2, <1>3, <1>4, <1>5, <1>6 DEF Next

LEMMA InitIsDriven == Init => Driven(session)
<1> SUFFICES ASSUME Init PROVE Driven(session)
  OBVIOUS
<1>1. PICK scenario \in Scenarios :
         \E archive \in EarlierArchives(scenario.life) :
            session = InitialSession(scenario.life, archive)
  BY DEF Init
<1> DEFINE life == scenario.life
<1>2. PICK archive \in EarlierArchives(life) : session = InitialSession(life, archive)
  BY <1>1
<1>3. life \in UndrivenStates /\ life # "WAKING"
  BY ScenariosAssumption DEF UndrivenStates, RestingStates
<1> HIDE DEF life
<1>4. /\ session.life = life /\ session.lock = NoWorkflow /\ session.kind = "none"
      /\ session.lease = "none" /\ session.source = "none"
      /\ session.asleep <=> life = "SLEEPING"
  BY <1>2 DEF InitialSession
<1>5. Unlocked(session) /\ Valid(session)
  BY <1>4 DEF Unlocked, Valid
<1>6. QED
  BY <1>3, <1>4, <1>5 DEF Driven

-----------------------------------------------------------------------------
(* The theorems                                                            *)

(* The row stays in the shape that the other invariants are read from.      *)
THEOREM AlwaysDriven == Spec => []Driven(session)
<1>1. Init => Driven(session)
  BY InitIsDriven
<1>2. IInv /\ Driven(session) /\ [Next]_vars => Driven(session)'
  BY NextIsDriven
<1>3. QED
  BY <1>1, <1>2, Invariance, PTL DEF Spec

(* A locked session is in a lifecycle of the workflow that holds its lock,  *)
(* and an unlocked one is at rest or where a refused start left it.         *)
THEOREM LifecycleDriven == Spec => []LifecycleIsDriven
<1>1. Driven(session) => LifecycleIsDriven
  BY DEF Driven, LifecycleIsDriven, UndrivenStates
<1>2. QED
  BY <1>1, AlwaysDriven, PTL

(* Session.Validate accepts every row that a handler, a repair or a monitor *)
(* leaves, so none of them is refused by its own save.                      *)
THEOREM SessionValid == Spec => []SessionIsValid
<1>1. Driven(session) => SessionIsValid
  BY DEF Driven, SessionIsValid
<1>2. QED
  BY <1>1, AlwaysDriven, PTL

(* No lease is beyond repair.                                               *)
THEOREM LeaseRepairable == Spec => []LeaseIsRepairable
<1>1. IInv /\ Driven(session) => LeaseIsRepairable
  <2> SUFFICES ASSUME IInv, Driven(session), ~Unlocked(session)
               PROVE  /\ CanFail(session, session.kind)
                      /\ Valid(Fail(session, session.kind))
    BY DEF LeaseIsRepairable
  <2>1. session \in Session /\ session.kind \in Kinds
    BY DEF IInv, TypeOK, Session, Driven, Valid, Unlocked
  <2>2. session.life \in PhasesOf[session.kind]
    BY <2>1, HeldFacts
  <2>3. CanFail(session, session.kind)
    BY <2>2, Phases DEF CanFail
  <2>4. Driven(Fail(session, session.kind))
    BY <2>1, FailIsDriven
  <2>5. QED
    BY <2>3, <2>4 DEF Driven
<1>2. QED
  BY <1>1, AlwaysDriven, Invariance, PTL

(* While a workflow holds the lease no execution of another one passes its  *)
(* load guard: the guard's exception for a failed session never applies,    *)
(* because a failed session is never locked.                               *)
THEOREM WorkersFenced == Spec => []LeaseFencesWorkers
<1>1. IInv /\ Driven(session) => LeaseFencesWorkers
  <2> SUFFICES ASSUME IInv, Driven(session), ~Unlocked(session),
                      NEW c \in Workflows, Loads(c)
               PROVE  Holds(c)
    BY DEF LeaseFencesWorkers
  <2>1. session.kind \in Kinds /\ session.life \in PhasesOf[session.kind]
    BY DEF Driven, Valid, IInv, TypeOK, Session
  <2>2. session.life # "FAILED"
    BY <2>1, PhasesAreDriven
  <2>3. QED
    BY <2>2 DEF Loads
<1>2. QED
  BY <1>1, Invariance, AlwaysDriven, PTL

-----------------------------------------------------------------------------
(* A session that is deleted: nobody holds it and nothing can begin on it.  *)

LEMMA DeletedIsLeft ==
    ASSUME IInv, Driven(session), session.life = "DELETED"
    PROVE  /\ Unlocked(session) /\ session.lease = "none"
           /\ \A c \in Workflows : ~Holds(c) /\ ~Loads(c)
           /\ \A k \in Kinds : ~CanBegin(session, k)
<1>1. session \in Session
  BY DEF IInv, TypeOK
<1>2. Unlocked(session)
  BY <1>1, PhasesAreDriven DEF Driven, Valid, Session
<1>3. session.lease = "none"
  BY <1>2 DEF Driven, Valid
<1>4. \A c \in Workflows : ~Holds(c) /\ ~Loads(c)
  BY <1>2, NoWorkflowAssumption DEF Holds, Loads, Unlocked
<1>5. \A k \in Kinds : ~CanBegin(session, k)
  BY DEF CanBegin, CanAcquireProvisioning, CanStartInfrastructureProvisioning,
         CanStartBootstrap, CanSleep, CanWake, CanRestart, CanArchive, CanRestore,
         CanTerminate, Kinds
<1>6. QED
  BY <1>2, <1>3, <1>4, <1>5

LEMMA DeletedStays ==
    ASSUME IInv, Driven(session), [Next]_vars, session.life = "DELETED"
    PROVE  session' = session
<1> USE DeletedIsLeft
<1>1. ASSUME NEW c \in Workflows, Submit(c) \/ Redrive(c) \/ Dispatcher(c)
      PROVE  session' = session
  <2>1. ~Admit(c) /\ ~AbortExecution(c)
    BY TypeOfAssumption DEF Admit, AbortExecution
  <2>2. QED
    BY <1>1, <2>1 DEF Submit, Redrive, Dispatcher, Receive, DeadLetter, Lookup, LoadSession,
                      StartExecution, RecordExecution, HandlerFails
<1>2. ASSUME NEW c \in Workflows, Stage(c) \/ ExecutionAborted(c)
      PROVE  session' = session
  <2>1. /\ ~HonorCancellation(c) /\ ~CompleteStage(c) /\ ~FailStage(c)
        /\ ~PrepareProvision(c) /\ ~PrepareRestore(c) /\ ~EnsureHost(c) /\ ~ObserveHost(c)
        /\ ~PrepareBootstrap(c) /\ ~RecordVerified(c) /\ ~RunStage(c)
    BY DEF HonorCancellation, CompleteStage, FailStage, PrepareProvision, PrepareRestore,
           EnsureHost, ObserveHost, PrepareBootstrap, RecordVerified, RunStage, Proceeds
  <2>2. CASE ContinueProvision(c) \/ QueueFailed(c)
    <3>1. Continues(c) \subseteq Workflows /\ "Bootstrap" \in Kinds
      BY DEF Continues, Kinds
    <3>2. QED
      BY <2>2, <3>1 DEF ContinueProvision, QueueFailed, KeepSession
  <2>3. CASE \/ LaunchUnrecorded(c) \/ StopHost(c) \/ StartHost(c) \/ DispatchBootstrap(c)
             \/ PersistDispatch(c) \/ TerminateInstance(c) \/ DeleteVolume(c)
             \/ AlreadyComplete(c) \/ EnqueueContinuation(c) \/ AlreadyFailed(c)
             \/ StageFails(c) \/ ExecutionAborted(c)
    BY <2>3 DEF LaunchUnrecorded, StopHost, StartHost, DispatchBootstrap, PersistDispatch,
                TerminateInstance, DeleteVolume, AlreadyComplete, EnqueueContinuation,
                AlreadyFailed, StageFails, ExecutionAborted, KeepSession
  <2>4. QED
    BY <1>2, <2>1, <2>2, <2>3 DEF Stage
<1>3. ASSUME NEW c \in Workflows,
             \/ RequestCancellation(c) \/ SaveCancellation(c) \/ CancellationLost(c)
             \/ Inspect(c) \/ Repair(c)
      PROVE  session' = session
  BY <1>3 DEF RequestCancellation, SaveCancellation, CancellationLost, Inspect, Repair
<1>4. CASE \/ ReconcilerFails \/ UNCHANGED vars \/ ExpireLease \/ MetadataWrite
           \/ ConfigureDraft \/ StartProbe \/ FinishProbe
  BY <1>4 DEF ReconcilerFails, vars, ExpireLease, MetadataWrite, ConfigureDraft,
              CanConfigure, StartProbe, CanBeginMonitoring, FinishProbe
<1>5. QED
  BY <1>1, <1>2, <1>3, <1>4 DEF Next

(* A deleted session is a tombstone. *)
THEOREM DeletedForGood == Spec => DeletedIsFinal
<1>1. IInv /\ Driven(session) /\ [Next]_vars
         => [session.life = "DELETED" => session' = session]_vars
  BY DeletedStays
<1>2. QED
  BY <1>1, Invariance, AlwaysDriven, PTL DEF Spec, DeletedIsFinal

-----------------------------------------------------------------------------
(* Executions and the records they stand for                               *)

(* The stages that a machine reaches only by a recorded end of its workflow. *)
DoneStates == {"succeeded", "Continue", "Enqueue", "QueueFailed"}

(* The command worker is past the point where the workflow item is written. *)
Dispatched ==
    /\ handler.pc # "idle" => queue # <<>>
    /\ handler.pc \in {"start", "record", "abort"} => wf[Head(queue)].status # "absent"
    /\ handler.pc = "load" /\ handler.snap # Absent => wf[Head(queue)].status # "absent"

Started == \A c \in Workflows : exec[c] # "none" => wf[c].status # "absent"
Ended == \A c \in Workflows : exec[c] \in DoneStates => wf[c].status \in Terminal

ExecInv == Dispatched /\ Started /\ Ended

LEMMA StatusesStay ==
    ASSUME IInv, [Next]_vars, NEW c \in Workflows
    PROVE  /\ wf[c].status # "absent" => wf'[c].status # "absent"
           /\ wf[c].status \in Terminal => wf'[c].status = wf[c].status
           /\ Holds(c) => Holds(c)' \/ wf'[c].status \in Terminal
           /\ Holds(c)' => Holds(c) \/ wf[c].status = "absent"
<1>1. LeaseStep
  BY NextIsGood DEF StepIsGood
<1>2. wf[c].status \in OpenStatus <=> Holds(c)
  BY DEF IInv, LeaseAgreement, Open
<1>3. CASE KeepsLease
  BY <1>2, <1>3 DEF KeepsLease, OpenStatus, Terminal, Holds
<1>4. ASSUME NEW b \in Workflows, TakesLease(b)
      PROVE  /\ wf[c].status # "absent" => wf'[c].status # "absent"
             /\ wf[c].status \in Terminal => wf'[c].status = wf[c].status
             /\ ~Holds(c)
             /\ Holds(c)' => wf[c].status = "absent"
  BY <1>4, NoWorkflowAssumption DEF TakesLease, Terminal, Holds, Unlocked
<1>5. ASSUME NEW b \in Workflows, GivesLeaseBack(b)
      PROVE  /\ wf[c].status # "absent" => wf'[c].status # "absent"
             /\ wf[c].status \in Terminal => wf'[c].status = wf[c].status
             /\ Holds(c) => wf'[c].status \in Terminal
             /\ ~Holds(c)'
  <2>1. Holds(c) => c = b
    BY <1>5 DEF GivesLeaseBack, Holds
  <2>2. c = b => wf[c].status \in OpenStatus
    BY <1>2, <1>5 DEF GivesLeaseBack
  <2>3. ~Holds(c)'
    BY <1>5, NoWorkflowAssumption DEF GivesLeaseBack, Holds
  <2>4. QED
    BY <1>5, <2>1, <2>2, <2>3 DEF GivesLeaseBack, OpenStatus, Terminal
<1>6. QED
  BY <1>1, <1>3, <1>4, <1>5 DEF LeaseStep

(* Where a machine's stages come from. *)
Ordered(k, m) ==
    \A stage \in DOMAIN m.next :
        /\ m.next[stage] \in DoneStates =>
              stage \in {"Complete", "Fail", "Continue", "Enqueue", "QueueFailed"}
        /\ m.next[stage] = "Ensure" =>
              stage = "Prepare" /\ k \in {"Provision", "Restore"}
        /\ m.next[stage] = "DeleteVolume" => stage = "TerminateInstance"
        /\ m.next[stage] = "Complete" /\ k \in {"Bootstrap", "Sleep"} => stage = "Observe"
        /\ m.next[stage] = "Complete" /\ k = "Restore" => stage = "Dispatch"
        /\ m.next[stage] = "Complete" /\ k = "Archive" => stage = "DeleteVolume"
        /\ m.start \notin {"Ensure", "DeleteVolume", "Complete"} \cup DoneStates

LEMMA MachinesAreOrdered ==
    ASSUME NEW k \in Kinds
    PROVE  Ordered(k, Machine(k))
<1>1. Ordered("Provision", ProvisionSession)
  BY DEF ProvisionSession, Ordered, DoneStates
<1>2. Ordered("Bootstrap", BootstrapGameServer)
  BY DEF BootstrapGameServer, Ordered, DoneStates
<1>3. Ordered("Sleep", SleepSession)
  BY DEF SleepSession, Ordered, DoneStates
<1>4. Ordered("Wake", WakeSession) /\ Ordered("Restart", WakeSession)
  BY DEF WakeSession, Ordered, DoneStates
<1>5. Ordered("Archive", ArchiveSession)
  BY DEF ArchiveSession, Ordered, DoneStates
<1>6. Ordered("Restore", RestoreSession)
  BY DEF RestoreSession, Ordered, DoneStates
<1>7. Ordered("Terminate", DestroySession)
  BY DEF DestroySession, Ordered, DoneStates
<1>8. QED
  BY <1>1, <1>2, <1>3, <1>4, <1>5, <1>6, <1>7 DEF Machine, Kinds

LEMMA FirstStages ==
    ASSUME NEW k \in Kinds
    PROVE  FirstStage(k) \notin {"none", "Ensure", "DeleteVolume", "Complete"}
                                \cup DoneStates
<1>1. "Fail" \in DOMAIN Machine(k).next /\ FirstStage(k) \in Stages
  BY FirstStageTyped, MachinesAreWellFormed DEF WellFormed
<1>2. QED
  BY <1>1, MachinesAreOrdered DEF Ordered, FirstStage, Stages

LEMMA NextStages ==
    ASSUME NEW k \in Kinds, NEW stage \in StatesOf(k) \cap Stages
    PROVE  LET next == NextStage(k, stage)
           IN  /\ next \in DoneStates =>
                     stage \in {"Complete", "Fail", "Continue", "Enqueue", "QueueFailed"}
               /\ next = "Ensure" => stage = "Prepare" /\ k \in {"Provision", "Restore"}
               /\ next = "DeleteVolume" => stage = "TerminateInstance"
               /\ next = "Complete" /\ k \in {"Bootstrap", "Sleep"} => stage = "Observe"
               /\ next = "Complete" /\ k = "Restore" => stage = "Dispatch"
               /\ next = "Complete" /\ k = "Archive" => stage = "DeleteVolume"
<1>1. stage \in DOMAIN Machine(k).next
  BY DEF StatesOf, Stages
<1>2. QED
  BY <1>1, MachinesAreOrdered DEF Ordered, NextStage

LEMMA CatchStages ==
    ASSUME NEW k \in Kinds, NEW stage
    PROVE  /\ CatchStage(k, stage) \in {"failed", "QueueFailed", "Rollback", "Fail"}
           /\ CatchStage(k, stage) = "QueueFailed" => stage = "Enqueue"
BY DEF CatchStage

(* What a stage does to the executions. *)
StageMoves(c) ==
    /\ Running(c)
    /\ \A d \in Workflows \ {c} : exec'[d] = exec[d]
    /\ \/ exec'[c] = exec[c]
       \/ exec'[c] = "failed"
       \/ exec'[c] = CatchStage(TypeOf[c], exec[c])
       \/ exec'[c] = NextStage(TypeOf[c], exec[c])
       \/ TypeOf[c] = "Bootstrap" /\ exec[c] = "Dispatch" /\ exec'[c] = "Observe"

LEMMA RepliesMove ==
    ASSUME IInv, NEW c \in Workflows, Running(c),
           Advance(c) \/ Catch(c) \/ UNCHANGED exec \/ Goto(c, "failed")
    PROVE  StageMoves(c)
BY DEF IInv, TypeOK, StageMoves, Advance, Catch, Goto

LEMMA StagesMove ==
    ASSUME IInv, NEW c \in Workflows, Stage(c) \/ ExecutionAborted(c)
    PROVE  StageMoves(c)
<1>1. CASE DispatchBootstrap(c)
  <2>1. Running(c) /\ TypeOf[c] = "Bootstrap" /\ exec[c] = "Dispatch"
    BY <1>1 DEF DispatchBootstrap, At, Running, Stages
  <2>2. CASE Goto(c, "Observe")
    BY <2>1, <2>2 DEF IInv, TypeOK, StageMoves, Goto
  <2>3. QED
    BY <1>1, <2>1, <2>2, RepliesMove DEF DispatchBootstrap
<1>2. CASE ~DispatchBootstrap(c)
  <2>1. Running(c)
    BY <1>2 DEF Stage, ExecutionAborted, HonorCancellation, AtBoundary, PrepareProvision,
       PrepareRestore, EnsureHost, LaunchUnrecorded, ObserveHost, StopHost, StartHost,
       PrepareBootstrap, PersistDispatch, RunStage, ProgressStage, RecordVerified,
       TerminateInstance, DeleteVolume, CompleteStage, AlreadyComplete, ContinueProvision,
       EnqueueContinuation, QueueFailed, FailStage, AlreadyFailed, StageFails, At, Running,
       Stages
  <2>2. Advance(c) \/ Catch(c) \/ UNCHANGED exec \/ Goto(c, "failed")
    BY <1>2 DEF Stage, ExecutionAborted, HonorCancellation, PrepareProvision,
       PrepareRestore, EnsureHost, LaunchUnrecorded, ObserveHost, StopHost, StartHost,
       PrepareBootstrap, PersistDispatch, RunStage, RecordVerified,
       TerminateInstance, DeleteVolume, CompleteStage, AlreadyComplete, ContinueProvision,
       EnqueueContinuation, QueueFailed, FailStage, AlreadyFailed, StageFails, Reply
  <2>3. QED
    BY <2>1, <2>2, RepliesMove
<1>3. QED
  BY <1>1, <1>2

(* An execution goes past its last stage only with the end of its workflow  *)
(* on record.                                                              *)
LEMMA EndsAreRecorded ==
    ASSUME IInv, NEW c \in Workflows, Stage(c), exec[c] \in {"Complete", "Fail"},
           exec'[c] \in DoneStates
    PROVE  wf'[c].status \in Terminal
<1>1. TypeOf[c] \in Kinds /\ wf \in [Workflows -> WorkflowItem]
  BY TypeOfAssumption DEF IInv, TypeOK
<1>2. CASE CompleteStage(c) \/ FailStage(c)
  BY <1>1, <1>2 DEF CompleteStage, FailStage, CloseAs, PutWorkflow, WorkflowItem, Terminal
<1>3. CASE AlreadyComplete(c) \/ AlreadyFailed(c)
  BY <1>3 DEF AlreadyComplete, AlreadyFailed, Terminal
<1>4. CASE StageFails(c)
  BY <1>1, <1>4, CatchStages DEF IInv, TypeOK, StageFails, Catch, Goto, DoneStates
<1>5. QED
  BY <1>2, <1>3, <1>4 DEF Stage, HonorCancellation, AtBoundary, PrepareProvision,
     PrepareRestore, EnsureHost, LaunchUnrecorded, ObserveHost, StopHost, StartHost,
     PrepareBootstrap, DispatchBootstrap, PersistDispatch, RunStage, ProgressStage,
     RecordVerified, TerminateInstance, DeleteVolume, ContinueProvision,
     EnqueueContinuation, QueueFailed, At

LEMMA StagesKeepExecInv ==
    ASSUME IInv, ExecInv, [Next]_vars, NEW c \in Workflows, Stage(c) \/ ExecutionAborted(c)
    PROVE  Started' /\ Ended'
<1>1. /\ StageMoves(c) /\ TypeOf[c] \in Kinds
      /\ exec[c] \in StatesOf(TypeOf[c]) \cap Stages
  BY StagesMove, TypeOfAssumption DEF IInv, TypeOK, StageMoves, Running
<1>2. Started'
  BY <1>1, StatusesStay DEF ExecInv, Started, StageMoves, Stages
<1>3. ASSUME NEW d \in Workflows, exec'[d] \in DoneStates
      PROVE  wf'[d].status \in Terminal
  <2>1. CASE exec[d] \in DoneStates
    BY <2>1, StatusesStay DEF ExecInv, Ended
  <2>2. CASE exec[d] \notin DoneStates
    <3>1. d = c
      BY <1>1, <1>3, <2>2 DEF StageMoves
    <3>2. exec'[c] # exec[c] /\ exec'[c] # "failed" /\ exec'[c] # "Observe"
      BY <1>3, <2>2, <3>1 DEF DoneStates
    <3>3. exec'[c] # CatchStage(TypeOf[c], exec[c])
      BY <1>1, <1>3, <2>2, <3>1, CatchStages DEF DoneStates
    <3>4. exec'[c] = NextStage(TypeOf[c], exec[c])
      BY <1>1, <3>2, <3>3 DEF StageMoves
    <3>5. exec[c] \in {"Complete", "Fail"}
      BY <1>1, <1>3, <2>2, <3>1, <3>4, NextStages DEF DoneStates
    <3>6. Stage(c)
      BY <3>1, <3>2, <1>1 DEF ExecutionAborted, Goto, IInv, TypeOK
    <3>7. QED
      BY <1>3, <3>1, <3>5, <3>6, EndsAreRecorded
  <2>3. QED
    BY <2>1, <2>2
<1>4. QED
  BY <1>2, <1>3 DEF Ended

LEMMA ExecSame ==
    ASSUME IInv, ExecInv, [Next]_vars, exec' = exec
    PROVE  Started' /\ Ended'
BY StatusesStay DEF ExecInv, Started, Ended

(* The queue grows at its tail only, and nothing else moves under the       *)
(* command worker's message.                                               *)
LEMMA HandlerSame ==
    ASSUME IInv, ExecInv, [Next]_vars, handler' = handler,
           queue' = queue \/ \E c \in Workflows : queue' = Append(queue, c)
    PROVE  Dispatched'
<1> SUFFICES ASSUME handler.pc # "idle" PROVE Dispatched'
  BY DEF Dispatched
<1>1. queue \in Seq(Workflows) /\ queue # <<>>
  BY DEF ExecInv, Dispatched, IInv, TypeOK
<1>2. queue' # <<>> /\ Head(queue') = Head(queue) /\ Head(queue) \in Workflows
  BY <1>1
<1>3. wf[Head(queue)].status # "absent" => wf'[Head(queue)].status # "absent"
  BY <1>2, StatusesStay
<1>4. QED
  BY <1>2, <1>3 DEF Dispatched, ExecInv

LEMMA HandlerKeepsExecInv ==
    ASSUME IInv, ExecInv, [Next]_vars, NEW c \in Workflows, Dispatcher(c)
    PROVE  ExecInv'
<1>1. handler \in HandlerStates
  BY DEF IInv, TypeOK, HandlerStates
<1>2. wf[c].status # "absent" => wf'[c].status # "absent"
  BY StatusesStay
<1>3. CASE Receive(c) \/ DeadLetter(c) \/ HandlerFails(c) \/ RecordExecution(c)
           \/ AbortExecution(c)
  <2>1. Dispatched'
    BY <1>3 DEF Receive, DeadLetter, HandlerFails, RecordExecution, AbortExecution, GiveUp,
                Acknowledge, InHand, Step, Idle, Dispatched
  <2>2. exec' = exec
    BY <1>3 DEF Receive, DeadLetter, HandlerFails, RecordExecution, AbortExecution,
                workerVars
  <2>3. QED
    BY <2>1, <2>2, ExecSame DEF ExecInv
<1>4. CASE Lookup(c)
  <2>1. wf[c] # Absent /\ handler'.pc # "idle" => wf[c].status = "PENDING"
    BY <1>4 DEF Lookup, Acknowledge, Idle
  <2>2. Dispatched'
    BY <1>2, <1>4, <2>1 DEF Lookup, Acknowledge, InHand, Step, Idle, Dispatched
  <2>3. exec' = exec
    BY <1>4 DEF Lookup, workerVars
  <2>4. QED
    BY <2>2, <2>3, ExecSame DEF ExecInv
<1>5. CASE LoadSession(c)
  <2>1. Dispatched'
    BY <1>2, <1>5 DEF LoadSession, InHand, Step, Dispatched, ExecInv
  <2>2. exec' = exec
    BY <1>5 DEF LoadSession, workerVars
  <2>3. QED
    BY <2>1, <2>2, ExecSame DEF ExecInv
<1>6. CASE Admit(c)
  <2>1. wf'[c].status = "PENDING"
    BY <1>6, ItemTyped DEF Admit, PutWorkflow, IInv, TypeOK
  <2>2. Dispatched'
    BY <1>6, <2>1 DEF Admit, InHand, Step, Dispatched
  <2>3. exec' = exec
    BY <1>6 DEF Admit, workerVars
  <2>4. QED
    BY <2>2, <2>3, ExecSame DEF ExecInv
<1>7. CASE StartExecution(c)
  <2>1. wf[c].status # "absent"
    BY <1>7 DEF StartExecution, InHand, ExecInv, Dispatched
  <2>2. Dispatched'
    BY <1>2, <1>7, <2>1 DEF StartExecution, InHand, Step, Dispatched
  <2>3. ASSUME exec' = [exec EXCEPT ![c] = FirstStage(TypeOf[c])]
        PROVE  Started' /\ Ended'
    BY <1>2, <2>1, <2>3, FirstStages, StatusesStay, TypeOfAssumption
       DEF Started, Ended, ExecInv, IInv, TypeOK
  <2>4. QED
    BY <1>7, <2>2, <2>3, ExecSame DEF StartExecution, Goto, ExecInv
<1>8. QED
  BY <1>3, <1>4, <1>5, <1>6, <1>7 DEF Dispatcher

LEMMA NextExecInv == IInv /\ ExecInv /\ [Next]_vars => ExecInv'
<1> SUFFICES ASSUME IInv, ExecInv, [Next]_vars PROVE ExecInv'
  OBVIOUS
<1>1. ASSUME NEW c \in Workflows, Submit(c) \/ Redrive(c)
      PROVE  ExecInv'
  <2>1. handler' = handler /\ queue' = Append(queue, c) /\ exec' = exec
    BY <1>1 DEF Submit, Redrive, workerVars
  <2>2. QED
    BY <2>1, HandlerSame, ExecSame DEF ExecInv
<1>2. ASSUME NEW c \in Workflows, Stage(c) \/ ExecutionAborted(c)
      PROVE  ExecInv'
  <2>1. CASE EnqueueContinuation(c)
    <3>1. /\ handler' = handler
          /\ queue' = queue \/ \E d \in Workflows : queue' = Append(queue, d)
      BY <2>1 DEF EnqueueContinuation, Continues
    <3>2. QED
      BY <1>2, <3>1, HandlerSame, StagesKeepExecInv DEF ExecInv
  <2>2. CASE ~EnqueueContinuation(c)
    <3>1. handler' = handler /\ queue' = queue
      BY <1>2, <2>2 DEF Stage, ExecutionAborted, HonorCancellation, PrepareProvision,
         PrepareRestore, EnsureHost, LaunchUnrecorded, ObserveHost, StopHost, StartHost,
         PrepareBootstrap, DispatchBootstrap, PersistDispatch, RunStage, RecordVerified,
         TerminateInstance, DeleteVolume, CompleteStage, AlreadyComplete, ContinueProvision,
         QueueFailed, FailStage, AlreadyFailed, StageFails, dispatchVars
    <3>2. QED
      BY <1>2, <3>1, HandlerSame, StagesKeepExecInv DEF ExecInv
  <2>3. QED
    BY <2>1, <2>2
<1>3. ASSUME NEW c \in Workflows,
             \/ RequestCancellation(c) \/ SaveCancellation(c) \/ CancellationLost(c)
             \/ Inspect(c) \/ Repair(c)
      PROVE  handler' = handler /\ queue' = queue /\ exec' = exec
  BY <1>3 DEF RequestCancellation, SaveCancellation, CancellationLost, Inspect, Repair,
              workerVars, dispatchVars
<1>4. ASSUME \/ ReconcilerFails \/ UNCHANGED vars \/ ExpireLease \/ MetadataWrite
             \/ ConfigureDraft \/ StartProbe \/ FinishProbe
      PROVE  handler' = handler /\ queue' = queue /\ exec' = exec
  BY <1>4 DEF ReconcilerFails, vars, ExpireLease, MetadataWrite, ConfigureDraft,
              StartProbe, FinishProbe, workerVars, dispatchVars
<1>5. handler' = handler /\ queue' = queue /\ exec' = exec => ExecInv'
  BY HandlerSame, ExecSame DEF ExecInv
<1>6. QED
  BY <1>1, <1>2, <1>3, <1>4, <1>5, HandlerKeepsExecInv DEF Next

(* Every execution has a workflow item, and every finished one a closed one. *)
THEOREM ExecutionsAreRecorded == Spec => []ExecInv
<1>1. Init => ExecInv
  BY DEF Init, ExecInv, Dispatched, Started, Ended, Idle, DoneStates
<1>2. QED
  BY <1>1, NextExecInv, Invariance, PTL DEF Spec

(* An execution that Step Functions reports as succeeded has closed its     *)
(* workflow, which the reconciler counts on when it leaves such a workflow  *)
(* alone.                                                                  *)
THEOREM SuccessIsRecorded == Spec => []SucceededIsRecorded
<1>1. ExecInv => SucceededIsRecorded
  BY DEF ExecInv, Ended, DoneStates, SucceededIsRecorded, Open, OpenStatus, Terminal
<1>2. QED
  BY <1>1, ExecutionsAreRecorded, PTL

-----------------------------------------------------------------------------
(* What each transition does to the lifecycle and to what the session      *)
(* records of its host and its archive                                     *)

SameRecord(s, t) == t.infra = s.infra /\ t.archive = s.archive

LEMMA ClearLockFields ==
    ASSUME NEW s \in Session, NEW outcome
    PROVE  LET t == ClearLock(s, outcome)
           IN  t.lock = NoWorkflow /\ t.life = s.life /\ SameRecord(s, t)
BY DEF ClearLock, Session, SameRecord

LEMMA CompleteFields ==
    ASSUME NEW s \in Session, NEW k \in Kinds
    PROVE  LET t == Complete(s, k)
           IN  /\ t.lock = NoWorkflow
               /\ k = "Provision" => t.life = "BOOTSTRAPPING"
               /\ k \in {"Bootstrap", "Wake", "Restart", "Restore"} => t.life = "RUNNING"
               /\ k = "Sleep" => t.life = "SLEEPING"
               /\ k = "Archive" => /\ t.life = "ARCHIVED" /\ t.infra = "none"
                                   /\ t.archive = s.archive
               /\ k = "Terminate" => /\ t.life = "DELETED" /\ t.infra = "none"
                                     /\ t.archive = NoWorkflow
               /\ k \notin {"Archive", "Terminate"} => SameRecord(s, t)
<1> USE DEF Complete, ClearLock, Session, SameRecord
<1>1. CASE k = "Provision"
  BY <1>1 DEF CompleteInfrastructureProvisioning
<1>2. CASE k = "Bootstrap"
  BY <1>2 DEF CompleteBootstrap
<1>3. CASE k = "Sleep"
  BY <1>3 DEF CompleteSleep
<1>4. CASE k \in {"Wake", "Restart"}
  BY <1>4 DEF CompleteRunning
<1>5. CASE k = "Archive"
  BY <1>5 DEF CompleteArchive
<1>6. CASE k = "Restore"
  BY <1>6 DEF CompleteRestore
<1>7. CASE k = "Terminate"
  BY <1>7 DEF CompleteTermination
<1> QED
  BY <1>1, <1>2, <1>3, <1>4, <1>5, <1>6, <1>7 DEF Kinds

LEMMA FailFields ==
    ASSUME NEW s \in Session, NEW k \in Kinds
    PROVE  LET t == Fail(s, k)
           IN  t.lock = NoWorkflow /\ t.life = "FAILED" /\ SameRecord(s, t)
<1> USE DEF Fail, ClearLock, Session, SameRecord
<1>1. CASE k = "Provision"
  BY <1>1 DEF FailInfrastructureProvisioning
<1>2. CASE k \in {"Sleep", "Wake", "Restart"}
  BY <1>2 DEF FailSleepWake
<1>3. CASE k = "Archive"
  BY <1>3 DEF FailArchive
<1>4. CASE k \in {"Bootstrap", "Restore", "Terminate"}
  BY <1>4 DEF FailUnhealthy
<1> QED
  BY <1>1, <1>2, <1>3, <1>4 DEF Kinds

LEMMA AbortStartFields ==
    ASSUME NEW s \in Session, NEW k \in Kinds
    PROVE  LET t == AbortStart(s, k)
           IN  /\ t.lock = NoWorkflow /\ SameRecord(s, t)
               /\ k = "Provision" => t.life = "NEW"
               /\ k = "Archive" => t.life = s.source
               /\ k = "Restore" => t.life = "ARCHIVED"
               /\ k \in {"Restart", "Terminate"} => t.life = "FAILED"
               /\ k \in {"Bootstrap", "Sleep", "Wake"} => t.life = s.life
<1> USE DEF AbortStart, ClearLock, Session, SameRecord
<1>1. CASE k = "Provision"
  BY <1>1 DEF AbortProvisioningWorkflowStart
<1>2. CASE k = "Archive"
  BY <1>2 DEF AbortArchiveWorkflowStart
<1>3. CASE k = "Restore"
  BY <1>3 DEF AbortRestoreWorkflowStart
<1>4. CASE k = "Restart"
  BY <1>4 DEF FailSleepWake
<1>5. CASE k = "Terminate"
  BY <1>5 DEF FailUnhealthy
<1>6. CASE k \in {"Bootstrap", "Sleep", "Wake"}
  BY <1>6 DEF ReleaseWorkflowLock
<1> QED
  BY <1>1, <1>2, <1>3, <1>4, <1>5, <1>6 DEF Kinds

LEMMA CancelFields ==
    ASSUME NEW s \in Session, NEW k \in {"Provision", "Bootstrap", "Archive", "Restore"}
    PROVE  LET t == Cancel(s, k)
           IN  /\ t.lock = NoWorkflow /\ SameRecord(s, t)
               /\ k = "Provision" => t.life = "NEW"
               /\ k = "Bootstrap" => t.life = "FAILED"
               /\ k = "Archive" => t.life = s.source
               /\ k = "Restore" => t.life = "ARCHIVED"
<1> USE DEF Cancel, ClearLock, Session, SameRecord
<1>1. CASE k = "Provision"
  BY <1>1
<1>2. CASE k = "Bootstrap"
  BY <1>2
<1>3. CASE k = "Archive"
  BY <1>3
<1>4. CASE k = "Restore"
  BY <1>4
<1> QED
  BY <1>1, <1>2, <1>3, <1>4

LEMMA BeginFields ==
    ASSUME NEW s \in Session, NEW w \in Workflows, NEW k \in Kinds
    PROVE  LET t == Begin(s, w, k)
           IN  /\ t.lock = w /\ SameRecord(s, t)
               /\ t.life \in PhasesOf[k] \ {"PROVISIONING", "INSTALLING", "DESTROYING"}
               /\ t.source \in {s.source, "none"} \/ (k = "Archive" /\ t.source = s.life)
<1> USE Phases DEF Begin, AcquireWorkflowLock, Session, SameRecord
<1>1. CASE k = "Provision"
  BY <1>1 DEF AcquireProvisioningWorkflowLock
<1>2. CASE k = "Bootstrap"
  BY <1>2 DEF AcquireBootstrapWorkflowLock
<1>3. CASE k = "Sleep"
  BY <1>3 DEF BeginSleep
<1>4. CASE k = "Wake"
  BY <1>4 DEF BeginWake
<1>5. CASE k = "Restart"
  BY <1>5 DEF BeginRestart
<1>6. CASE k = "Archive"
  BY <1>6 DEF BeginArchive
<1>7. CASE k = "Restore"
  BY <1>7 DEF BeginRestore
<1>8. CASE k = "Terminate"
  BY <1>8 DEF BeginTermination
<1> QED
  BY <1>1, <1>2, <1>3, <1>4, <1>5, <1>6, <1>7, <1>8 DEF Kinds

LEMMA HolderWriteFields ==
    ASSUME NEW s \in Session, NEW w \in Workflows,
           NEW level \in {"instance", "complete"}
    PROVE  /\ LET t == ReserveCapacity(s)
              IN  /\ t.lock = s.lock /\ t.archive = s.archive /\ t.source = s.source
                  /\ t.life = "PROVISIONING" /\ t.infra = "slot"
           /\ LET t == RestoreCapacity(s)
              IN  /\ t.lock = s.lock /\ t.archive = s.archive /\ t.source = s.source
                  /\ t.life = s.life /\ t.infra = "slot"
           /\ LET t == RecordLaunch(s, level)
              IN  /\ t.lock = s.lock /\ t.archive = s.archive /\ t.source = s.source
                  /\ t.life = s.life /\ t.infra = level
           /\ LET t == BeginInstallation(s)
              IN  /\ t.lock = s.lock /\ SameRecord(s, t) /\ t.source = s.source
                  /\ t.life = "INSTALLING"
           /\ LET t == RecordVerifiedArchive(s, w)
              IN  /\ t.lock = s.lock /\ t.infra = s.infra /\ t.archive = w
                  /\ t.life = "DESTROYING" /\ t.source = "none"
BY DEF ReserveCapacity, RestoreCapacity, RecordLaunch, BeginInstallation,
       RecordVerifiedArchive, Session, SameRecord

-----------------------------------------------------------------------------
(* Everything that a step can do to the session's record and to the host    *)

(* Nothing that the invariants below look at, except perhaps the host. *)
Rests ==
    /\ session'.life = session.life /\ session'.source = session.source
    /\ session'.lock = session.lock /\ SameRecord(session, session')

Drafts ==
    /\ session.life = "DRAFT" /\ session'.life \in {"DRAFT", "NEW"}
    /\ session'.source = session.source /\ session'.lock = session.lock
    /\ SameRecord(session, session') /\ plane' = plane

Begins(b) ==
    /\ Unlocked(session) /\ CanBegin(session, TypeOf[b])
    /\ session' = Begin(session, b, TypeOf[b])
    /\ wf'[b].status = "PENDING"
    /\ plane' = plane

Completes(c) ==
    /\ exec[c] = "Complete" /\ CanComplete(session, TypeOf[c])
    /\ TypeOf[c] \in {"Wake", "Restart"} => HostUp
    /\ session' = Complete(session, TypeOf[c])
    /\ plane' = plane

FailsWith(c, level) ==
    /\ session' = Fail([session EXCEPT !.infra = level], TypeOf[c])
    /\ plane' = plane

Refuses(c) ==
    /\ CanAbortStart(session, TypeOf[c])
    /\ session' = AbortStart(session, TypeOf[c])
    /\ plane' = plane

Cancels(c) ==
    /\ TypeOf[c] \in {"Provision", "Bootstrap", "Archive", "Restore"}
    /\ CanCancel(session, TypeOf[c])
    /\ session' = Cancel(session, TypeOf[c])
    /\ plane' = plane

Reserves(c) ==
    /\ TypeOf[c] \in {"Provision", "Restore"}
    /\ \/ /\ TypeOf[c] = "Provision" /\ CanReserveCapacity(session)
          /\ ~(session.life = "PROVISIONING" /\ session.infra # "none")
          /\ session' = ReserveCapacity(session)
       \/ /\ TypeOf[c] = "Restore" /\ session.infra = "none"
          /\ session' = RestoreCapacity(session)
    /\ plane' = plane

Launches(c) ==
    /\ TypeOf[c] \in {"Provision", "Restore"}
    /\ exec[c] = "Ensure" \/ HasInstance(session)
    /\ \E level \in {"instance", "complete"} : session' = RecordLaunch(session, level)

Installs(c) ==
    /\ TypeOf[c] = "Bootstrap" /\ CanInstall(session)
    /\ session' = BeginInstallation(session)
    /\ plane' = plane

Archives(c) ==
    /\ TypeOf[c] = "Archive"
    /\ session' = RecordVerifiedArchive(session, c)
    /\ plane' = plane

SessionStep ==
    \/ Rests \/ Drafts
    \/ \E b \in Workflows : Begins(b)
    \/ \E c \in Workflows :
          /\ Holds(c)
          /\ \/ Completes(c) \/ Refuses(c) \/ Cancels(c)
             \/ \E level \in InfraAfterFailure(TypeOf[c]) : FailsWith(c, level)
             \/ Reserves(c) \/ Launches(c) \/ Installs(c) \/ Archives(c)

LEMMA KeptRests == session' = session => Rests
BY DEF Rests, SameRecord

LEMMA SameInfra ==
    ASSUME NEW s \in Session
    PROVE  [s EXCEPT !.infra = s.infra] = s
BY DEF Session

LEMMA ReleaseSteps ==
    ASSUME IInv, NEW c \in Workflows,
           \/ AbortExecution(c) \/ HonorCancellation(c) \/ CompleteStage(c)
           \/ FailStage(c) \/ QueueFailed(c) \/ Repair(c)
    PROVE  SessionStep
<1>1. CASE AbortExecution(c)
  BY <1>1 DEF AbortExecution, workerVars, Write, Refuses, SessionStep
<1>2. CASE HonorCancellation(c)
  BY <1>2 DEF HonorCancellation, AtBoundary, At, Write, Cancels, SessionStep
<1>3. CASE CompleteStage(c)
  BY <1>3 DEF CompleteStage, Write, Completes, SessionStep
<1>4. CASE FailStage(c)
  BY <1>4 DEF FailStage, Write, FailsWith, SessionStep
<1>5. ASSUME NEW d \in Workflows, Holds(d), session' = Fail(session, TypeOf[d]),
             plane' = plane
      PROVE  SessionStep
  <2>1. session = [session EXCEPT !.infra = session.infra]
    BY SameInfra DEF IInv, TypeOK
  <2>2. session.infra \in InfraAfterFailure(TypeOf[d])
    BY DEF InfraAfterFailure
  <2>3. FailsWith(d, session.infra)
    BY <1>5, <2>1 DEF FailsWith
  <2>4. QED
    BY <1>5, <2>2, <2>3 DEF SessionStep
<1>6. CASE QueueFailed(c)
  <2>1. PICK b \in Continues(c) :
           \/ session' = session
           \/ Holds(b) /\ session' = Fail(session, "Bootstrap")
    BY <1>6 DEF QueueFailed, KeepSession, Write
  <2>2. b \in Workflows /\ TypeOf[b] = "Bootstrap" /\ plane' = plane
    BY <1>6, ContinuationAssumption, NoWorkflowAssumption DEF Continues, QueueFailed
  <2>3. QED
    BY <1>5, <2>1, <2>2, KeptRests DEF SessionStep
<1>7. CASE Repair(c)
  <2>1. Holds(c) /\ session.kind = TypeOf[c]
    BY <1>7, HolderFacts DEF Repair
  <2>2. session' = Fail(session, TypeOf[c]) /\ plane' = plane
    BY <1>7, <2>1 DEF Repair, Write, workerVars
  <2>3. QED
    BY <1>5, <2>1, <2>2
<1>8. QED
  BY <1>1, <1>2, <1>3, <1>4, <1>6, <1>7

LEMMA AdmissionSteps ==
    ASSUME IInv, Driven(session), NEW c \in Workflows, Admit(c) \/ ContinueProvision(c)
    PROVE  SessionStep
<1>1. session \in Session /\ wf \in [Workflows -> WorkflowItem]
  BY DEF IInv, TypeOK
<1>2. CASE Admit(c)
  <2>1. Unlocked(session)
    BY <1>1, <1>2, BeginsUnlocked, TypeOfAssumption DEF Admit
  <2>2. wf'[c].status = "PENDING"
    BY <1>1, <1>2, ItemTyped DEF Admit, PutWorkflow
  <2>3. QED
    BY <1>2, <2>1, <2>2 DEF Admit, workerVars, Begins, SessionStep
<1>3. CASE ContinueProvision(c)
  <2>1. PICK b \in Continues(c) :
           \/ /\ Unlocked(session) /\ CanBegin(session, "Bootstrap")
              /\ session' = Begin(session, b, "Bootstrap")
              /\ PutWorkflow(b, Pending)
           \/ session' = session
    BY <1>3 DEF ContinueProvision, KeepSession, Write
  <2>2. b \in Workflows /\ TypeOf[b] = "Bootstrap" /\ plane' = plane
    BY <1>3, ContinuationAssumption, NoWorkflowAssumption DEF Continues, ContinueProvision
  <2>3. PutWorkflow(b, Pending) => wf'[b].status = "PENDING"
    BY <1>1, <2>2, ItemTyped DEF PutWorkflow
  <2>4. QED
    BY <2>1, <2>2, <2>3, KeptRests DEF Begins, SessionStep
<1>4. QED
  BY <1>2, <1>3

LEMMA StageSteps ==
    ASSUME IInv, NEW c \in Workflows,
           \/ PrepareProvision(c) \/ PrepareRestore(c) \/ EnsureHost(c) \/ ObserveHost(c)
           \/ PrepareBootstrap(c) \/ RecordVerified(c) \/ RunStage(c)
    PROVE  SessionStep
<1>1. CASE session' = session
  BY <1>1, KeptRests DEF SessionStep
<1>2. CASE PrepareProvision(c) /\ session' # session
  <2>1. Holds(c) /\ Reserves(c)
    BY <1>2 DEF PrepareProvision, At, Proceeds, Loads, KeepSession, Write, Reserves
  <2>2. QED
    BY <2>1 DEF SessionStep
<1>3. CASE PrepareRestore(c) /\ session' # session
  <2>1. Holds(c) /\ Reserves(c)
    BY <1>3 DEF PrepareRestore, At, KeepSession, Write, Reserves
  <2>2. QED
    BY <2>1 DEF SessionStep
<1>4. CASE (EnsureHost(c) \/ ObserveHost(c)) /\ session' # session
  <2>1. Holds(c) /\ Launches(c)
    BY <1>4 DEF EnsureHost, ObserveHost, At, KeepSession, Write, Launches
  <2>2. QED
    BY <2>1 DEF SessionStep
<1>5. CASE PrepareBootstrap(c) /\ session' # session
  <2>1. Holds(c) /\ Installs(c)
    BY <1>5 DEF PrepareBootstrap, At, Proceeds, Loads, KeepSession, Write, Installs
  <2>2. QED
    BY <2>1 DEF SessionStep
<1>6. CASE RecordVerified(c) /\ session' # session
  <2>1. Holds(c) /\ Archives(c)
    BY <1>6 DEF RecordVerified, At, KeepSession, Write, Archives
  <2>2. QED
    BY <2>1 DEF SessionStep
<1>7. CASE RunStage(c)
  BY <1>1, <1>7 DEF RunStage, KeepSession, Touch
<1>8. QED
  BY <1>1, <1>2, <1>3, <1>4, <1>5, <1>6, <1>7

LEMMA OtherSteps ==
    ASSUME IInv, ExpireLease \/ MetadataWrite \/ ConfigureDraft \/ StartProbe \/ FinishProbe
    PROVE  SessionStep
<1>1. session \in Session
  BY DEF IInv, TypeOK
<1>2. CASE ExpireLease \/ MetadataWrite \/ StartProbe \/ FinishProbe
  <2>1. Rests
    BY <1>1, <1>2 DEF ExpireLease, MetadataWrite, Touch, StartProbe, FinishProbe, Write,
                      BeginMonitoring, CompleteMonitoring, Rests, SameRecord, Session
  <2>2. QED
    BY <2>1 DEF SessionStep
<1>3. CASE ConfigureDraft
  <2>1. PICK ready \in BOOLEAN : session' = Configure(session, ready)
    BY <1>3 DEF ConfigureDraft, Write
  <2>2. Drafts
    BY <1>1, <1>3, <2>1 DEF ConfigureDraft, CanConfigure, Configure, workerVars, Drafts,
                            SameRecord, Session
  <2>3. QED
    BY <2>2 DEF SessionStep
<1>4. QED
  BY <1>2, <1>3

LEMMA NextSessionStep ==
    ASSUME IInv, Driven(session), [Next]_vars
    PROVE  SessionStep
<1>1. ASSUME NEW c \in Workflows, Submit(c) \/ Redrive(c) \/ Dispatcher(c)
      PROVE  SessionStep
  <2>1. CASE Admit(c) \/ AbortExecution(c)
    BY <2>1, AdmissionSteps, ReleaseSteps
  <2>2. CASE ~(Admit(c) \/ AbortExecution(c))
    <3>1. session' = session
      BY <1>1, <2>2 DEF Submit, Redrive, Dispatcher, Receive, DeadLetter, Lookup,
                        LoadSession, StartExecution, RecordExecution, HandlerFails
    <3>2. QED
      BY <3>1, KeptRests DEF SessionStep
  <2>3. QED
    BY <2>1, <2>2
<1>2. ASSUME NEW c \in Workflows, Stage(c) \/ ExecutionAborted(c)
      PROVE  SessionStep
  <2>1. CASE \/ HonorCancellation(c) \/ CompleteStage(c) \/ FailStage(c) \/ QueueFailed(c)
             \/ ContinueProvision(c)
    BY <2>1, ReleaseSteps, AdmissionSteps
  <2>2. CASE \/ PrepareProvision(c) \/ PrepareRestore(c) \/ EnsureHost(c) \/ ObserveHost(c)
             \/ PrepareBootstrap(c) \/ RecordVerified(c) \/ RunStage(c)
    BY <2>2, StageSteps
  <2>3. CASE \/ LaunchUnrecorded(c) \/ StopHost(c) \/ StartHost(c) \/ DispatchBootstrap(c)
             \/ PersistDispatch(c) \/ TerminateInstance(c) \/ DeleteVolume(c)
             \/ AlreadyComplete(c) \/ EnqueueContinuation(c) \/ AlreadyFailed(c)
             \/ StageFails(c) \/ ExecutionAborted(c)
    <3>1. session' = session
      BY <2>3 DEF LaunchUnrecorded, StopHost, StartHost, DispatchBootstrap, PersistDispatch,
                  TerminateInstance, DeleteVolume, AlreadyComplete, EnqueueContinuation,
                  AlreadyFailed, StageFails, ExecutionAborted, KeepSession
    <3>2. QED
      BY <3>1, KeptRests DEF SessionStep
  <2>4. QED
    BY <1>2, <2>1, <2>2, <2>3 DEF Stage
<1>3. ASSUME \/ \E c \in Workflows :
                   \/ RequestCancellation(c) \/ SaveCancellation(c) \/ CancellationLost(c)
                   \/ Inspect(c)
             \/ ReconcilerFails \/ UNCHANGED vars
      PROVE  SessionStep
  <2>1. session' = session
    BY <1>3 DEF RequestCancellation, SaveCancellation, CancellationLost, Inspect,
                ReconcilerFails, vars
  <2>2. QED
    BY <2>1, KeptRests DEF SessionStep
<1>4. QED
  BY <1>1, <1>2, <1>3, ReleaseSteps, OtherSteps DEF Next

(* What a step can do to the host: the stages that get past their load.     *)
HostStep(c) ==
    /\ Loads(c)
    /\ \/ /\ TypeOf[c] \in {"Provision", "Restore"} /\ exec[c] = "Ensure"
          /\ ~HostExists /\ plane' = "running"
       \/ /\ TypeOf[c] = "Sleep" /\ exec[c] = "Dispatch"
          /\ HostExists /\ plane' = "stopped"
       \/ /\ \/ TypeOf[c] = "Wake" /\ exec[c] = "Dispatch"
             \/ /\ TypeOf[c] = "Archive" /\ exec[c] = "PrepareHost"
                /\ session.source = "SLEEPING"
          /\ HostExists /\ plane' = "running"
       \/ /\ TypeOf[c] \in {"Archive", "Terminate"} /\ exec[c] = "TerminateInstance"
          /\ TypeOf[c] = "Archive" => session.life = "DESTROYING"
          /\ HasInstance(session) /\ HostExists /\ plane' = "volume"
       \/ /\ TypeOf[c] \in {"Archive", "Terminate"} /\ exec[c] = "DeleteVolume"
          /\ session.infra = "complete" /\ plane = "volume" /\ plane' = "none"

LEMMA NextHostStep ==
    ASSUME IInv, [Next]_vars
    PROVE  plane' = plane \/ \E c \in Workflows : HostStep(c)
<1>1. ASSUME NEW c \in Workflows,
             Submit(c) \/ Redrive(c) \/ Dispatcher(c) \/ ExecutionAborted(c)
      PROVE  plane' = plane
  BY <1>1 DEF Submit, Redrive, Dispatcher, Receive, DeadLetter, Lookup, LoadSession, Admit,
              StartExecution, RecordExecution, AbortExecution, HandlerFails, workerVars,
              ExecutionAborted
<1>2. ASSUME NEW c \in Workflows, Stage(c)
      PROVE  plane' = plane \/ HostStep(c)
  <2>1. CASE EnsureHost(c) \/ LaunchUnrecorded(c) \/ StopHost(c) \/ StartHost(c)
    BY <2>1 DEF EnsureHost, LaunchUnrecorded, StopHost, StartHost, At, HostStep
  <2>2. CASE TerminateInstance(c) \/ DeleteVolume(c)
    BY <2>2 DEF TerminateInstance, DeleteVolume, At, HostStep
  <2>3. CASE ~(\/ EnsureHost(c) \/ LaunchUnrecorded(c) \/ StopHost(c) \/ StartHost(c)
               \/ TerminateInstance(c) \/ DeleteVolume(c))
    BY <1>2, <2>3 DEF Stage, HonorCancellation, PrepareProvision, PrepareRestore,
       ObserveHost, PrepareBootstrap, DispatchBootstrap, PersistDispatch, RunStage,
       RecordVerified, CompleteStage, AlreadyComplete, ContinueProvision,
       EnqueueContinuation, QueueFailed, FailStage, AlreadyFailed, StageFails
  <2>4. QED
    BY <2>1, <2>2, <2>3
<1>3. ASSUME NEW c \in Workflows,
             \/ RequestCancellation(c) \/ SaveCancellation(c) \/ CancellationLost(c)
             \/ Inspect(c) \/ Repair(c)
      PROVE  plane' = plane
  BY <1>3 DEF RequestCancellation, SaveCancellation, CancellationLost, Inspect, Repair,
              workerVars
<1>4. ASSUME \/ ReconcilerFails \/ UNCHANGED vars \/ ExpireLease \/ MetadataWrite
             \/ ConfigureDraft \/ StartProbe \/ FinishProbe
      PROVE  plane' = plane
  BY <1>4 DEF ReconcilerFails, vars, ExpireLease, MetadataWrite, ConfigureDraft,
              StartProbe, FinishProbe, workerVars
<1>5. QED
  BY <1>1, <1>2, <1>3, <1>4 DEF Next

(* Who gets past a load guard: the holder, or a failed workflow of a failed *)
(* session that nobody holds.                                              *)
LEMMA LoadsFacts ==
    ASSUME IInv, Driven(session), NEW c \in Workflows, Loads(c)
    PROVE  \/ Holds(c)
           \/ /\ Unlocked(session) /\ session.life = "FAILED"
              /\ TypeOf[c] \in {"Archive", "Restore", "Terminate"}
              /\ wf[c].status = "FAILED"
<1>1. ~Unlocked(session) => session.kind \in Kinds /\ session.life \in PhasesOf[session.kind]
  BY DEF Driven, Valid, IInv, TypeOK, Session
<1>2. ~Unlocked(session) => session.life # "FAILED"
  BY <1>1, PhasesAreDriven
<1>3. QED
  BY <1>2 DEF Loads

-----------------------------------------------------------------------------
(* How an execution enters the stages that matter to the host              *)

LEMMA ExecStep ==
    ASSUME IInv, [Next]_vars, NEW c \in Workflows, exec'[c] # exec[c]
    PROVE  \/ exec[c] = "none" /\ exec'[c] = FirstStage(TypeOf[c])
           \/ Stage(c) \/ exec'[c] = "failed"
<1>1. ASSUME NEW d \in Workflows, Submit(d) \/ Redrive(d) \/ Dispatcher(d)
      PROVE  \/ exec' = exec
             \/ exec[d] = "none" /\ exec' = [exec EXCEPT ![d] = FirstStage(TypeOf[d])]
  BY <1>1 DEF Submit, Redrive, Dispatcher, Receive, DeadLetter, Lookup, LoadSession, Admit,
              StartExecution, RecordExecution, AbortExecution, HandlerFails, workerVars, Goto
<1>2. ASSUME NEW d \in Workflows, Stage(d)
      PROVE  d = c
  BY <1>2, StagesMove DEF StageMoves
<1>3. ASSUME NEW d \in Workflows, ExecutionAborted(d)
      PROVE  exec' = [exec EXCEPT ![d] = "failed"]
  BY <1>3 DEF ExecutionAborted, Goto
<1>4. ASSUME NEW d \in Workflows,
             \/ RequestCancellation(d) \/ SaveCancellation(d) \/ CancellationLost(d)
             \/ Inspect(d) \/ Repair(d)
      PROVE  exec' = exec
  BY <1>4 DEF RequestCancellation, SaveCancellation, CancellationLost, Inspect, Repair,
              workerVars
<1>5. ASSUME \/ ReconcilerFails \/ UNCHANGED vars \/ ExpireLease \/ MetadataWrite
             \/ ConfigureDraft \/ StartProbe \/ FinishProbe
      PROVE  exec' = exec
  BY <1>5 DEF ReconcilerFails, vars, ExpireLease, MetadataWrite, ConfigureDraft,
              StartProbe, FinishProbe, workerVars
<1>6. exec \in [Workflows -> ExecStates]
  BY DEF IInv, TypeOK
<1>7. CASE \E d \in Workflows : Submit(d) \/ Redrive(d) \/ Dispatcher(d)
  BY <1>1, <1>6, <1>7
<1>8. CASE \E d \in Workflows : ExecutionAborted(d)
  BY <1>3, <1>6, <1>8
<1>9. QED
  BY <1>2, <1>4, <1>5, <1>7, <1>8 DEF Next

(* An execution that moves on: the stage it succeeded in. *)
LEMMA Arrivals ==
    ASSUME IInv, [Next]_vars, NEW c \in Workflows, exec'[c] # exec[c],
           exec'[c] \in {"Ensure", "DeleteVolume", "Complete"}
    PROVE  /\ Stage(c) /\ exec'[c] = NextStage(TypeOf[c], exec[c])
           /\ exec'[c] # CatchStage(TypeOf[c], exec[c])
           /\ exec'[c] = "Ensure" => exec[c] = "Prepare"
                                     /\ TypeOf[c] \in {"Provision", "Restore"}
           /\ exec'[c] = "DeleteVolume" => exec[c] = "TerminateInstance"
           /\ exec'[c] = "Complete" =>
                 /\ TypeOf[c] \in {"Bootstrap", "Sleep"} => exec[c] = "Observe"
                 /\ TypeOf[c] = "Restore" => exec[c] = "Dispatch"
                 /\ TypeOf[c] = "Archive" => exec[c] = "DeleteVolume"
<1>1. TypeOf[c] \in Kinds
  BY TypeOfAssumption
<1>2. Stage(c)
  BY <1>1, ExecStep, FirstStages
<1>3. StageMoves(c) /\ exec[c] \in StatesOf(TypeOf[c]) \cap Stages
  BY <1>2, StagesMove DEF StageMoves, Running, IInv, TypeOK
<1>4. exec'[c] # CatchStage(TypeOf[c], exec[c])
  BY <1>1, CatchStages
<1>5. exec'[c] = NextStage(TypeOf[c], exec[c])
  BY <1>3, <1>4 DEF StageMoves
<1>6. QED
  BY <1>1, <1>2, <1>3, <1>4, <1>5, NextStages

LEMMA ArrivesAtEnsure ==
    ASSUME IInv, [Next]_vars, NEW c \in Workflows, exec'[c] # exec[c], exec'[c] = "Ensure"
    PROVE  session'.infra # "none"
<1>1. /\ Stage(c) /\ exec[c] = "Prepare" /\ TypeOf[c] \in {"Provision", "Restore"}
      /\ exec'[c] # CatchStage(TypeOf[c], exec[c])
  BY Arrivals
<1>2. ~Catch(c)
  BY <1>1 DEF Catch, Goto, IInv, TypeOK
<1>3. PrepareProvision(c) \/ PrepareRestore(c)
  BY <1>1, <1>2 DEF Stage, HonorCancellation, EnsureHost, LaunchUnrecorded, ObserveHost,
     StopHost, StartHost, PrepareBootstrap, DispatchBootstrap, PersistDispatch, RunStage,
     ProgressStage, RecordVerified, TerminateInstance, DeleteVolume, CompleteStage,
     AlreadyComplete, ContinueProvision, EnqueueContinuation, QueueFailed, FailStage,
     AlreadyFailed, StageFails, At
<1>4. ReserveCapacity(session).infra = "slot" /\ RestoreCapacity(session).infra = "slot"
  BY DEF ReserveCapacity, RestoreCapacity, IInv, TypeOK, Session
<1>5. QED
  BY <1>3, <1>4 DEF PrepareProvision, PrepareRestore, KeepSession, Write

LEMMA ArrivesAtDeleteVolume ==
    ASSUME IInv, [Next]_vars, NEW c \in Workflows, exec'[c] # exec[c],
           exec'[c] = "DeleteVolume"
    PROVE  TerminateInstance(c)
<1>1. /\ Stage(c) /\ exec[c] = "TerminateInstance"
      /\ exec'[c] # CatchStage(TypeOf[c], exec[c])
  BY Arrivals
<1>2. ~Catch(c)
  BY <1>1 DEF Catch, Goto, IInv, TypeOK
<1>3. QED
  BY <1>1, <1>2 DEF Stage, HonorCancellation, PrepareProvision, PrepareRestore,
     EnsureHost, LaunchUnrecorded, ObserveHost,
     StopHost, StartHost, PrepareBootstrap, DispatchBootstrap, PersistDispatch, RunStage,
     ProgressStage, RecordVerified, DeleteVolume, CompleteStage,
     AlreadyComplete, ContinueProvision, EnqueueContinuation, QueueFailed, FailStage,
     AlreadyFailed, StageFails, At

LEMMA ArrivesAtComplete ==
    ASSUME IInv, [Next]_vars, NEW c \in Workflows, exec'[c] # exec[c],
           exec'[c] = "Complete"
    PROVE  /\ TypeOf[c] \in {"Bootstrap", "Restore"} => HostUp /\ plane' = plane
           /\ TypeOf[c] = "Sleep" => plane = "stopped" /\ plane' = plane
           /\ TypeOf[c] = "Archive" => DeleteVolume(c)
<1>1. /\ Stage(c) /\ exec'[c] # CatchStage(TypeOf[c], exec[c])
      /\ TypeOf[c] \in {"Bootstrap", "Sleep"} => exec[c] = "Observe"
      /\ TypeOf[c] = "Restore" => exec[c] = "Dispatch"
      /\ TypeOf[c] = "Archive" => exec[c] = "DeleteVolume"
  BY Arrivals
<1>2. ~Catch(c)
  BY <1>1 DEF Catch, Goto, IInv, TypeOK
<1>3. ASSUME TypeOf[c] \in {"Bootstrap", "Restore", "Sleep", "Archive"}
      PROVE  RunStage(c) \/ DeleteVolume(c)
  BY <1>1, <1>2, <1>3 DEF Stage, HonorCancellation, PrepareProvision, PrepareRestore,
     EnsureHost, LaunchUnrecorded, ObserveHost,
     StopHost, StartHost, PrepareBootstrap, DispatchBootstrap, PersistDispatch,
     RecordVerified, TerminateInstance, CompleteStage,
     AlreadyComplete, ContinueProvision, EnqueueContinuation, QueueFailed, FailStage,
     AlreadyFailed, StageFails, At
<1>4. QED
  BY <1>1, <1>3 DEF RunStage, ProgressStage, DeleteVolume, At

-----------------------------------------------------------------------------
(* The inductive invariant of the host and the data                        *)

(* The lifecycles in which the host's record is complete, and in which      *)
(* there is none.                                                          *)
EquippedStates == {"BOOTSTRAPPING", "INSTALLING", "RUNNING", "STOPPING", "SLEEPING",
                   "WAKING", "RESTARTING", "ARCHIVING", "DESTROYING"}
BareStates == {"DRAFT", "NEW", "VALIDATING", "ARCHIVED", "DELETED"}

Equipped(s) ==
    /\ s.life \in EquippedStates => s.infra = "complete"
    /\ s.life \in BareStates => s.infra = "none"
    /\ s.life \in {"ARCHIVED", "DESTROYING", "RESTORING"} => Archived(s)
    /\ s.life = "DESTROYING" => s.archive = s.lock

(* What the stage of the lease's holder says of the host: its own stages    *)
(* brought the host there and every other execution is fenced off.         *)
HolderAt(c) ==
    /\ exec[c] = "Ensure" => session.infra # "none"
    /\ TypeOf[c] \in {"Bootstrap", "Restore"} /\ exec[c] = "Complete" => HostUp
    /\ TypeOf[c] = "Sleep" /\ exec[c] = "Complete" => HostExists
    /\ TypeOf[c] = "Archive" /\ exec[c] = "DeleteVolume" => plane \in {"volume", "none"}
    /\ TypeOf[c] = "Archive" /\ exec[c] = "Complete" => plane = "none"

HolderInv == \A c \in Workflows : Holds(c) => HolderAt(c)

(* A host is up or kept where the session is at rest, or would return to,   *)
(* and there is none that the record does not lead to, unless a failed      *)
(* restore may still launch it: not before there is an archive.            *)
UpWhereItRests ==
    /\ "RUNNING" \in {session.life, session.source} => HostUp
    /\ "SLEEPING" \in {session.life, session.source} => HostExists

Bare == /\ session.infra = "none" /\ session.life # "DELETED"
        /\ session.life \in {"ARCHIVED", "RESTORING"} \/ ~Archived(session)

NoStrayHost ==
    /\ Bare => plane = "none"
    /\ session.infra = "slot" /\ ~Archived(session) => plane \in {"none", "running"}

NothingToRestore ==
    ~Archived(session) /\ session.life # "DELETED" =>
        \A c \in Workflows : TypeOf[c] = "Restore" => wf[c].status = "absent"

DataInv ==
    Equipped(session) /\ HolderInv /\ UpWhereItRests /\ NoStrayHost /\ NothingToRestore

-----------------------------------------------------------------------------
(* The record                                                              *)

(* The lifecycles of a session that c holds, by the kind of c. *)
LEMMA HolderLife ==
    ASSUME IInv, Driven(session), NEW c \in Workflows, Holds(c)
    PROVE  /\ session \in Session /\ TypeOf[c] \in Kinds /\ session.lock = c
           /\ c # NoWorkflow /\ ~Unlocked(session)
           /\ session.life \in PhasesOf[TypeOf[c]]
           /\ session.life \notin {"DRAFT", "NEW", "DELETED", "FAILED", "ARCHIVED"}
           /\ session.source # "none" => TypeOf[c] = "Archive" /\ session.life = "ARCHIVING"
<1>1. /\ session \in Session /\ TypeOf[c] \in Kinds
      /\ ~Unlocked(session) /\ session.kind = TypeOf[c]
  BY HolderFacts
<1>2. session.life \in PhasesOf[TypeOf[c]]
  BY <1>1, HeldFacts
<1>3. QED
  BY <1>1, <1>2, PhasesAreDriven, NoWorkflowAssumption
     DEF Holds, Driven, Valid, RestingStates

LEMMA EquippedRests ==
    ASSUME Equipped(session), Rests
    PROVE  Equipped(session')
BY DEF Equipped, Rests, SameRecord, Archived

LEMMA EquippedBegins ==
    ASSUME IInv, Equipped(session), NEW b \in Workflows, Begins(b)
    PROVE  Equipped(session')
<1> DEFINE k == TypeOf[b]
<1>1. session \in Session /\ k \in Kinds
  BY TypeOfAssumption DEF IInv, TypeOK
<1>2. /\ SameRecord(session, session')
      /\ session'.life \in PhasesOf[k] \ {"PROVISIONING", "INSTALLING", "DESTROYING"}
      /\ CanBegin(session, k)
  BY <1>1, BeginFields DEF Begins
<1> HIDE DEF k
<1>3. CASE k = "Provision"
  BY <1>2, <1>3, Phases DEF CanBegin, CanAcquireProvisioning,
     CanStartInfrastructureProvisioning, Equipped, EquippedStates, BareStates, SameRecord
<1>4. CASE k \in {"Bootstrap", "Sleep", "Wake", "Restart", "Archive"}
  BY <1>2, <1>4, Phases DEF CanBegin, CanStartBootstrap, CanSleep, CanWake, CanRestart,
     CanArchive, Equipped, EquippedStates, BareStates, SameRecord
<1>5. CASE k \in {"Restore", "Terminate"}
  BY <1>2, <1>5, Phases DEF CanBegin, CanRestore, Equipped, EquippedStates,
     BareStates, SameRecord, Archived
<1>6. QED
  BY <1>1, <1>3, <1>4, <1>5 DEF Kinds

LEMMA EquippedReleases ==
    ASSUME IInv, Driven(session), Equipped(session), NEW c \in Workflows, Holds(c),
           Completes(c) \/ Refuses(c) \/ Cancels(c)
    PROVE  Equipped(session')
<1> DEFINE k == TypeOf[c]
<1>1. /\ session \in Session /\ k \in Kinds /\ session.life \in PhasesOf[k]
      /\ session.source # "none" => k = "Archive" /\ session.life = "ARCHIVING"
      /\ session.source \in {"none", "RUNNING", "SLEEPING"}
  BY HolderLife DEF Session
<1> USE <1>1, Phases DEF Equipped, EquippedStates, BareStates, SameRecord, Archived
<1>2. CASE Completes(c)
  <2>1. session' = Complete(session, k) /\ CanComplete(session, k)
    BY <1>2 DEF Completes
  <2> HIDE DEF k
  <2>2. CASE k \in {"Provision", "Bootstrap", "Restore"}
    BY <2>1, <2>2, CompleteFields DEF CanComplete
  <2>3. CASE k \in {"Sleep", "Wake", "Restart"}
    BY <2>1, <2>3, CompleteFields
  <2>4. CASE k \in {"Archive", "Terminate"}
    BY <2>1, <2>4, CompleteFields DEF CanComplete
  <2>5. QED
    BY <2>2, <2>3, <2>4 DEF Kinds
<1>3. CASE Refuses(c)
  <2>1. session' = AbortStart(session, k) /\ CanAbortStart(session, k)
    BY <1>3 DEF Refuses
  <2> HIDE DEF k
  <2>2. CASE k \in {"Provision", "Restore"}
    BY <2>1, <2>2, AbortStartFields DEF CanAbortStart
  <2>3. CASE k = "Archive"
    BY <2>1, <2>3, AbortStartFields DEF CanAbortStart
  <2>4. CASE k \in {"Restart", "Terminate"}
    BY <2>1, <2>4, AbortStartFields
  <2>5. CASE k \in {"Bootstrap", "Sleep", "Wake"}
    BY <2>1, <2>5, AbortStartFields
  <2>6. QED
    BY <2>2, <2>3, <2>4, <2>5 DEF Kinds
<1>4. CASE Cancels(c)
  <2>1. /\ session' = Cancel(session, k) /\ CanCancel(session, k)
        /\ k \in {"Provision", "Bootstrap", "Archive", "Restore"}
    BY <1>4 DEF Cancels
  <2> HIDE DEF k
  <2>2. QED
    BY <2>1, CancelFields DEF CanCancel
<1>5. QED
  BY <1>2, <1>3, <1>4

LEMMA EquippedFails ==
    ASSUME IInv, Driven(session), NEW c \in Workflows, Holds(c),
           NEW level \in InfraAfterFailure(TypeOf[c]), FailsWith(c, level)
    PROVE  /\ Equipped(session')
           /\ session'.life = "FAILED" /\ session'.lock = NoWorkflow
           /\ session'.infra = level /\ session'.archive = session.archive
           /\ plane' = plane
<1> DEFINE t == [session EXCEPT !.infra = level]
<1>1. session \in Session /\ TypeOf[c] \in Kinds
  BY HolderLife
<1>2. level \in {"none", "slot", "instance", "complete"}
  BY <1>1 DEF InfraAfterFailure, Session
<1>3. t \in Session /\ t.infra = level /\ t.archive = session.archive
  BY <1>1, <1>2 DEF Session
<1>4. session' = Fail(t, TypeOf[c])
  BY DEF FailsWith
<1> HIDE DEF t
<1>5. /\ session'.life = "FAILED" /\ session'.lock = NoWorkflow
      /\ session'.infra = level /\ session'.archive = session.archive
  BY <1>1, <1>3, <1>4, FailFields DEF SameRecord
<1>6. QED
  BY <1>5 DEF Equipped, EquippedStates, BareStates, FailsWith

(* Only a VALIDATING session could lose by a launch, and its workflow is    *)
(* not where hosts are launched.                                           *)
LEMMA EquippedWrites ==
    ASSUME IInv, Driven(session), Equipped(session), NEW c \in Workflows, Holds(c),
           HolderAt(c), Reserves(c) \/ Launches(c) \/ Installs(c) \/ Archives(c)
    PROVE  Equipped(session')
<1>1. /\ session \in Session /\ TypeOf[c] \in Kinds /\ session.lock = c /\ c # NoWorkflow
      /\ session.life \in PhasesOf[TypeOf[c]]
  BY HolderLife
<1> USE <1>1, Phases DEF Equipped, EquippedStates, BareStates, Archived
<1>2. CASE Reserves(c)
  <2>1. CASE TypeOf[c] = "Provision"
    <3>1. session' = ReserveCapacity(session)
      BY <1>2, <2>1 DEF Reserves
    <3>2. QED
      BY <3>1, HolderWriteFields
  <2>2. CASE TypeOf[c] = "Restore"
    <3>1. session' = RestoreCapacity(session)
      BY <1>2, <2>2 DEF Reserves
    <3>2. QED
      BY <2>2, <3>1, HolderWriteFields
  <2>3. QED
    BY <1>2, <2>1, <2>2 DEF Reserves
<1>3. CASE Launches(c)
  <2>1. PICK level \in {"instance", "complete"} : session' = RecordLaunch(session, level)
    BY <1>3 DEF Launches
  <2>2. session.infra # "none" /\ TypeOf[c] \in {"Provision", "Restore"}
    BY <1>3 DEF Launches, HolderAt, HasInstance
  <2>3. session.life \in {"PROVISIONING", "RESTORING"}
    BY <2>2
  <2>4. QED
    BY <2>1, <2>3, HolderWriteFields
<1>4. CASE Installs(c)
  BY <1>4, HolderWriteFields DEF Installs, SameRecord
<1>5. CASE Archives(c)
  BY <1>5, HolderWriteFields DEF Archives
<1>6. QED
  BY <1>2, <1>3, <1>4, <1>5

LEMMA EquippedNext ==
    ASSUME IInv, Driven(session), DataInv, SessionStep
    PROVE  Equipped(session')
<1> USE DEF DataInv
<1>1. CASE Rests
  BY <1>1, EquippedRests
<1>2. CASE Drafts
  BY <1>2 DEF Drafts, Equipped, EquippedStates, BareStates, SameRecord
<1>3. ASSUME NEW b \in Workflows, Begins(b)
      PROVE  Equipped(session')
  BY <1>3, EquippedBegins
<1>4. ASSUME NEW c \in Workflows, Holds(c),
             \/ Completes(c) \/ Refuses(c) \/ Cancels(c)
             \/ \E level \in InfraAfterFailure(TypeOf[c]) : FailsWith(c, level)
             \/ Reserves(c) \/ Launches(c) \/ Installs(c) \/ Archives(c)
      PROVE  Equipped(session')
  BY <1>4, EquippedReleases, EquippedFails, EquippedWrites DEF HolderInv
<1>5. QED
  BY <1>1, <1>2, <1>3, <1>4 DEF SessionStep

-----------------------------------------------------------------------------
(* The holder and the host                                                 *)

(* What the step of a session that c holds before and after does to it. *)
LEMMA HeldStep ==
    ASSUME IInv, Driven(session), SessionStep, NEW c \in Workflows, Holds(c), Holds(c)'
    PROVE  Rests \/ Reserves(c) \/ Launches(c) \/ Installs(c) \/ Archives(c)
<1>1. session \in Session /\ session.lock = c /\ c # NoWorkflow /\ session'.lock = c
      /\ ~Unlocked(session) /\ session.life # "DRAFT"
  BY HolderLife DEF Holds
<1>2. ASSUME NEW d \in Workflows, Holds(d)
      PROVE  /\ d = c
             /\ ~Completes(d) /\ ~Refuses(d) /\ ~Cancels(d)
             /\ \A level \in InfraAfterFailure(TypeOf[d]) : ~FailsWith(d, level)
  <2>1. d = c /\ TypeOf[d] \in Kinds
    BY <1>1, <1>2, TypeOfAssumption DEF Holds
  <2>2. ~Completes(d) /\ ~Refuses(d) /\ ~Cancels(d)
    BY <1>1, <2>1, CompleteFields, AbortStartFields, CancelFields
       DEF Completes, Refuses, Cancels
  <2>3. \A level \in InfraAfterFailure(TypeOf[d]) : ~FailsWith(d, level)
    BY <1>1, <1>2, EquippedFails
  <2>4. QED
    BY <2>1, <2>2, <2>3
<1>3. QED
  BY <1>1, <1>2 DEF SessionStep, Drafts, Begins

LEMMA InfraStays ==
    ASSUME IInv, Driven(session), SessionStep, NEW c \in Workflows, Holds(c), Holds(c)',
           session.infra # "none"
    PROVE  session'.infra # "none"
<1>1. session \in Session
  BY DEF IInv, TypeOK
<1>2. QED
  BY <1>1, HeldStep, HolderWriteFields
     DEF Rests, Reserves, Launches, Installs, Archives, SameRecord

(* Between two steps of a session that c holds, only c touches the host. *)
LEMMA HolderHostStep ==
    ASSUME IInv, Driven(session), [Next]_vars, NEW c \in Workflows, Holds(c)
    PROVE  plane' = plane \/ HostStep(c)
<1>1. ASSUME NEW d \in Workflows, HostStep(d)
      PROVE  d = c
  BY <1>1, LoadsFacts, NoWorkflowAssumption DEF HostStep, Holds, Unlocked
<1>2. QED
  BY <1>1, NextHostStep

LEMMA HolderNext ==
    ASSUME IInv, Driven(session), ExecInv, DataInv, [Next]_vars, SessionStep,
           NEW c \in Workflows, Holds(c)'
    PROVE  HolderAt(c)'
<1>1. CASE ~Holds(c)
  <2>1. exec[c] = "none"
    BY <1>1, StatusesStay DEF ExecInv, Started
  <2>2. exec'[c] \notin {"Ensure", "DeleteVolume", "Complete"}
    <3>1. ~Stage(c)
      BY <2>1, StagesMove DEF StageMoves, Running, Stages
    <3>2. QED
      BY <2>1, <3>1, ExecStep, FirstStages, TypeOfAssumption
  <2>3. QED
    BY <2>2 DEF HolderAt
<1>2. CASE Holds(c)
  <2>1. HolderAt(c) /\ Equipped(session)
    BY <1>2 DEF DataInv, HolderInv
  <2>2. plane' = plane \/ HostStep(c)
    BY <1>2, HolderHostStep
  <2>3. exec'[c] = "Ensure" => session'.infra # "none"
    BY <1>2, <2>1, ArrivesAtEnsure, InfraStays DEF HolderAt
  <2>4. /\ TypeOf[c] \in {"Bootstrap", "Restore"} /\ exec'[c] = "Complete" => HostUp'
        /\ TypeOf[c] = "Sleep" /\ exec'[c] = "Complete" => HostExists'
    BY <2>1, <2>2, ArrivesAtComplete DEF HolderAt, HostStep, HostUp, HostExists
  <2>5. ASSUME TypeOf[c] = "Archive"
        PROVE  session.infra = "complete"
    BY <1>2, <2>1, <2>5, HolderLife, Phases DEF Equipped, EquippedStates
  <2>6. ASSUME TypeOf[c] = "Archive", exec'[c] = "DeleteVolume"
        PROVE  plane' \in {"volume", "none"}
    <3>1. CASE exec[c] = "DeleteVolume"
      BY <2>1, <2>2, <2>6, <3>1 DEF HolderAt, HostStep
    <3>2. CASE exec[c] # "DeleteVolume"
      BY <2>5, <2>6, <3>2, ArrivesAtDeleteVolume
         DEF TerminateInstance, HasInstance, HostExists, IInv, TypeOK
    <3>3. QED
      BY <3>1, <3>2
  <2>7. ASSUME TypeOf[c] = "Archive", exec'[c] = "Complete"
        PROVE  plane' = "none"
    <3>1. CASE exec[c] = "Complete"
      BY <2>1, <2>2, <2>7, <3>1 DEF HolderAt, HostStep
    <3>2. CASE exec[c] # "Complete"
      <4>1. DeleteVolume(c) /\ exec[c] = "DeleteVolume"
        BY <2>7, <3>2, ArrivesAtComplete, Arrivals
      <4>2. QED
        BY <2>1, <2>5, <2>7, <4>1 DEF HolderAt, DeleteVolume
    <3>3. QED
      BY <3>1, <3>2
  <2>8. QED
    BY <2>3, <2>4, <2>6, <2>7 DEF HolderAt
<1>3. QED
  BY <1>1, <1>2

-----------------------------------------------------------------------------
(* The host where the session rests                                        *)

(* Nobody touches the host of a running or a sleeping session; its archive  *)
(* may start it, and cannot terminate it before the archive is recorded.   *)
LEMMA RestingHostStays ==
    ASSUME IInv, Driven(session), DataInv, [Next]_vars
    PROVE  /\ "RUNNING" \in {session.life, session.source} => HostUp'
           /\ "SLEEPING" \in {session.life, session.source} => HostExists'
<1>1. CASE plane' = plane
  BY <1>1 DEF DataInv, UpWhereItRests, HostUp, HostExists
<1>2. ASSUME NEW c \in Workflows, HostStep(c),
             {"RUNNING", "SLEEPING"} \cap {session.life, session.source} # {}
      PROVE  HostUp'
  <2>1. session \in Session
    BY DEF IInv, TypeOK
  <2>2. Unlocked(session) => session.source = "none"
    BY <2>1, UnlockedFacts
  <2>3. Holds(c)
    BY <1>2, <2>2, LoadsFacts DEF HostStep
  <2>4. TypeOf[c] = "Archive" /\ session.life = "ARCHIVING"
        /\ session.source \in {"RUNNING", "SLEEPING"}
    BY <1>2, <2>3, HolderLife, PhasesAreDriven DEF RestingStates
  <2>5. exec[c] # "DeleteVolume"
    BY <2>3, <2>4 DEF DataInv, HolderInv, HolderAt, UpWhereItRests, HostUp, HostExists
  <2>6. QED
    BY <1>2, <2>4, <2>5 DEF HostStep, HostUp
<1>3. QED
  BY <1>1, <1>2, NextHostStep DEF HostUp, HostExists

(* The lease is given back to a running or sleeping session only with its   *)
(* host up or kept.                                                        *)
LEMMA UpAfterRelease ==
    ASSUME IInv, Driven(session), Driven(session'), session' \in Session, DataInv,
           NEW c \in Workflows, Holds(c), Completes(c) \/ Refuses(c) \/ Cancels(c)
    PROVE  UpWhereItRests'
<1> DEFINE k == TypeOf[c]
<1>1. /\ session \in Session /\ k \in Kinds /\ session.life \in PhasesOf[k]
      /\ HolderAt(c) /\ UpWhereItRests
  BY HolderLife DEF DataInv, HolderInv
<1> HIDE DEF k
<1>2. session'.lock = NoWorkflow /\ plane' = plane
  BY <1>1, CompleteFields, AbortStartFields, CancelFields
     DEF Completes, Refuses, Cancels, k
<1>3. session'.source = "none"
  BY <1>2, UnlockedFacts DEF Unlocked
<1>4. CASE Completes(c)
  <2>1. /\ session' = Complete(session, k) /\ exec[c] = "Complete"
        /\ k \in {"Wake", "Restart"} => HostUp
    BY <1>4 DEF Completes, k
  <2>2. /\ k \in {"Bootstrap", "Restore"} => HostUp
        /\ k = "Sleep" => HostExists
    BY <1>1, <2>1 DEF HolderAt, k
  <2>3. /\ session'.life = "RUNNING" => HostUp
        /\ session'.life = "SLEEPING" => HostExists
    BY <1>1, <2>1, <2>2, CompleteFields DEF Kinds
  <2>4. QED
    BY <1>2, <1>3, <2>3 DEF UpWhereItRests, HostUp, HostExists
<1>5. CASE Refuses(c) \/ Cancels(c)
  <2>1. session'.life \in {"RUNNING", "SLEEPING"} =>
           k = "Archive" /\ session'.life = session.source
    BY <1>1, <1>5, Phases, AbortStartFields, CancelFields DEF Refuses, Cancels, Kinds, k
  <2>2. QED
    BY <1>1, <1>2, <1>3, <2>1 DEF UpWhereItRests, HostUp, HostExists
<1>6. QED
  BY <1>4, <1>5

LEMMA UpNext ==
    ASSUME IInv, Driven(session), Driven(session'), session' \in Session, DataInv,
           [Next]_vars, SessionStep
    PROVE  UpWhereItRests'
<1>1. session \in Session /\ UpWhereItRests
  BY DEF IInv, TypeOK, DataInv
<1>2. CASE Rests
  BY <1>2, RestingHostStays DEF Rests, UpWhereItRests
<1>3. CASE Drafts
  BY <1>1, <1>3 DEF Drafts, UpWhereItRests, HostUp, HostExists
<1>4. ASSUME NEW b \in Workflows, Begins(b)
      PROVE  UpWhereItRests'
  <2>1. session.source = "none" /\ TypeOf[b] \in Kinds
    BY <1>1, <1>4, UnlockedFacts, TypeOfAssumption DEF Begins
  <2>2. session'.life \in PhasesOf[TypeOf[b]] /\ session'.source \in {"none", session.life}
    BY <1>1, <1>4, <2>1, BeginFields DEF Begins
  <2>3. session'.life \notin {"RUNNING", "SLEEPING"}
    BY <2>1, <2>2, PhasesAreDriven DEF RestingStates
  <2>4. QED
    BY <1>1, <1>4, <2>2, <2>3 DEF Begins, UpWhereItRests, HostUp, HostExists
<1>5. ASSUME NEW c \in Workflows, Holds(c),
             \E level \in InfraAfterFailure(TypeOf[c]) : FailsWith(c, level)
      PROVE  UpWhereItRests'
  <2>1. session'.life = "FAILED" /\ session'.lock = NoWorkflow
    BY <1>5, EquippedFails
  <2>2. session'.source = "none"
    BY <2>1, UnlockedFacts DEF Unlocked
  <2>3. QED
    BY <2>1, <2>2 DEF UpWhereItRests
<1>6. ASSUME NEW c \in Workflows, Holds(c),
             Reserves(c) \/ Launches(c) \/ Installs(c) \/ Archives(c)
      PROVE  UpWhereItRests'
  <2>1. /\ TypeOf[c] # "Archive" => session.source = "none"
        /\ session.life \in PhasesOf[TypeOf[c]]
    BY <1>6, HolderLife
  <2>2. session'.source = "none" /\ session'.life \notin {"RUNNING", "SLEEPING"}
    BY <1>1, <1>6, <2>1, Phases, HolderWriteFields
       DEF Reserves, Launches, Installs, Archives
  <2>3. QED
    BY <2>2 DEF UpWhereItRests
<1>7. QED
  BY <1>2, <1>3, <1>4, <1>5, <1>6, UpAfterRelease DEF SessionStep

-----------------------------------------------------------------------------
(* No host outside the record                                              *)

(* While the record leads to no host, or to a slot only, and no restore has *)
(* ever begun, a host can at most be launched by the holder.               *)
LEMMA StrayHostStep ==
    ASSUME IInv, Driven(session), DataInv, [Next]_vars
    PROVE  /\ Bare => plane' = "none"
           /\ session.infra = "slot" /\ ~Archived(session) => plane' \in {"none", "running"}
<1>1. CASE plane' = plane
  BY <1>1 DEF DataInv, NoStrayHost
<1>2. ASSUME NEW c \in Workflows, HostStep(c)
      PROVE  /\ ~Bare
             /\ session.infra = "slot" /\ ~Archived(session) => plane' \in {"none", "running"}
  <2>1. Holds(c) \/ (session.life = "FAILED" /\ wf[c].status = "FAILED")
    BY <1>2, LoadsFacts DEF HostStep
  <2>2. ASSUME Bare
        PROVE  FALSE
    <3>1. plane = "none" /\ session.infra = "none"
      BY <2>2 DEF DataInv, NoStrayHost, Bare
    <3>2. TypeOf[c] \in {"Provision", "Restore"} /\ exec[c] = "Ensure"
      BY <1>2, <3>1 DEF HostStep, HostExists
    <3>3. ~Holds(c)
      BY <3>1, <3>2 DEF DataInv, HolderInv, HolderAt
    <3>4. session.life = "FAILED" /\ wf[c].status = "FAILED" /\ TypeOf[c] = "Restore"
      BY <1>2, <3>2, <3>3, LoadsFacts DEF HostStep
    <3>5. QED
      BY <2>2, <3>4 DEF Bare, DataInv, NothingToRestore
  <2>3. ASSUME session.infra = "slot", ~Archived(session)
        PROVE  plane' \in {"none", "running"}
    <3>1. TypeOf[c] # "Sleep"
      BY <1>2, <2>1, <2>3, LoadsFacts, HolderLife, Phases
         DEF HostStep, DataInv, Equipped, EquippedStates
    <3>2. QED
      BY <1>2, <2>3, <3>1 DEF HostStep, HasInstance
  <2>4. QED
    BY <2>2, <2>3
<1>3. QED
  BY <1>1, <1>2, NextHostStep

LEMMA StrayAfterRelease ==
    ASSUME IInv, Driven(session), DataInv, NEW c \in Workflows, Holds(c),
           Completes(c) \/ Refuses(c) \/ Cancels(c)
    PROVE  NoStrayHost'
<1> DEFINE k == TypeOf[c]
<1>1. /\ session \in Session /\ k \in Kinds /\ session.life \in PhasesOf[k]
      /\ session.life # "DELETED"
      /\ session.source # "none" => k = "Archive"
      /\ session.source \in {"none", "RUNNING", "SLEEPING"}
      /\ HolderAt(c) /\ NoStrayHost /\ Equipped(session)
  BY HolderLife DEF DataInv, HolderInv, Session
<1> HIDE DEF k
<1>2. plane' = plane
  BY DEF Completes, Refuses, Cancels
<1>3. CASE Completes(c)
  <2>1. session' = Complete(session, k) /\ exec[c] = "Complete" /\ CanComplete(session, k)
    BY <1>3 DEF Completes, k
  <2>2. CASE k = "Archive"
    BY <1>1, <1>2, <2>1, <2>2, CompleteFields DEF HolderAt, NoStrayHost, k
  <2>3. CASE k = "Terminate"
    BY <1>1, <2>1, <2>3, CompleteFields DEF NoStrayHost, Bare
  <2>4. CASE k \in {"Provision", "Bootstrap", "Sleep", "Wake", "Restart", "Restore"}
    <3>1. session.infra = "complete"
      BY <1>1, <2>1, <2>4, Phases DEF CanComplete, Equipped, EquippedStates
    <3>2. session'.infra = "complete"
      BY <1>1, <2>1, <2>4, <3>1, CompleteFields DEF SameRecord
    <3>3. QED
      BY <3>2 DEF NoStrayHost, Bare
  <2>5. QED
    BY <1>1, <2>2, <2>3, <2>4 DEF Kinds
<1>4. CASE Refuses(c) \/ Cancels(c)
  <2>1. /\ SameRecord(session, session')
        /\ session'.life \in {"ARCHIVED", "RESTORING"} => session.life = "RESTORING"
    BY <1>1, <1>4, Phases, AbortStartFields, CancelFields DEF Refuses, Cancels, Kinds, k
  <2>2. Bare' => Bare
    BY <1>1, <2>1 DEF Bare, SameRecord, Archived
  <2>3. QED
    BY <1>1, <1>2, <2>1, <2>2 DEF NoStrayHost, SameRecord, Archived
<1>5. QED
  BY <1>3, <1>4

LEMMA StrayAfterFailure ==
    ASSUME IInv, Driven(session), DataInv, NEW c \in Workflows, Holds(c),
           NEW level \in InfraAfterFailure(TypeOf[c]), FailsWith(c, level)
    PROVE  NoStrayHost'
<1>1. /\ session'.life = "FAILED" /\ session'.infra = level
      /\ session'.archive = session.archive /\ plane' = plane
  BY EquippedFails
<1>2. session \in Session /\ session.life # "DELETED" /\ NoStrayHost
      /\ plane \in {"none", "running", "stopped", "volume"}
  BY HolderLife DEF DataInv, IInv, TypeOK
<1>3. \/ level = session.infra
      \/ level = "none" /\ ~HostExists /\ ~HasInstance(session)
      \/ level \in {"instance", "complete"}
  BY DEF InfraAfterFailure
<1>4. ASSUME ~Archived(session), level = "none"
      PROVE  plane = "none"
  <2>1. CASE session.infra = "none"
    BY <1>2, <1>4, <2>1 DEF NoStrayHost, Bare
  <2>2. CASE session.infra = "slot"
    BY <1>2, <1>3, <1>4, <2>2 DEF NoStrayHost, HostExists
  <2>3. QED
    BY <1>2, <1>3, <1>4, <2>1, <2>2 DEF HasInstance, Session
<1>5. QED
  BY <1>1, <1>2, <1>3, <1>4 DEF NoStrayHost, Bare, Archived

LEMMA StrayNext ==
    ASSUME IInv, Driven(session), DataInv, [Next]_vars, SessionStep
    PROVE  NoStrayHost'
<1>1. session \in Session /\ NoStrayHost /\ Equipped(session)
  BY DEF IInv, TypeOK, DataInv
<1>2. CASE Rests
  BY <1>2, StrayHostStep DEF Rests, SameRecord, NoStrayHost, Bare, Archived
<1>3. CASE Drafts
  BY <1>1, <1>3 DEF Drafts, SameRecord, NoStrayHost, Bare, Archived
<1>4. ASSUME NEW b \in Workflows, Begins(b)
      PROVE  NoStrayHost'
  <2> DEFINE k == TypeOf[b]
  <2>1. k \in Kinds /\ CanBegin(session, k) /\ plane' = plane
    BY <1>4, TypeOfAssumption DEF Begins
  <2>2. SameRecord(session, session') /\ session'.life \in PhasesOf[k]
    BY <1>1, <1>4, <2>1, BeginFields DEF Begins
  <2> HIDE DEF k
  <2>3. session.life # "DELETED"
    BY <2>1 DEF CanBegin, CanAcquireProvisioning, CanStartInfrastructureProvisioning,
       CanStartBootstrap, CanSleep, CanWake, CanRestart, CanArchive, CanRestore,
       CanTerminate, Kinds
  <2>4. session'.life \in {"ARCHIVED", "RESTORING"} =>
           session.life = "ARCHIVED" \/ session.infra = "complete"
    <3>1. session'.life \in {"ARCHIVED", "RESTORING"} => k = "Restore"
      BY <2>1, <2>2, Phases DEF Kinds
    <3>2. QED
      BY <2>1, <3>1 DEF CanBegin, CanRestore
  <2>5. Bare' => Bare
    BY <2>2, <2>3, <2>4 DEF Bare, SameRecord, Archived
  <2>6. QED
    BY <1>1, <2>1, <2>2, <2>5 DEF NoStrayHost, SameRecord, Archived
<1>5. ASSUME NEW c \in Workflows, Holds(c), Reserves(c)
      PROVE  NoStrayHost'
  <2>1. session'.infra = "slot" /\ session'.archive = session.archive /\ plane' = plane
    BY <1>1, <1>5, HolderWriteFields DEF Reserves
  <2>2. /\ TypeOf[c] = "Restore" => session.life = "RESTORING"
        /\ session.life # "DELETED"
    BY <1>5, HolderLife, Phases
  <2>3. ~Archived(session) => session.infra = "none"
    BY <1>1, <1>5, <2>2 DEF Reserves, CanReserveCapacity, Equipped, BareStates
  <2>4. ~Archived(session) => plane = "none"
    BY <1>1, <2>2, <2>3 DEF NoStrayHost, Bare
  <2>5. QED
    BY <2>1, <2>4 DEF NoStrayHost, Bare, Archived
<1>6. ASSUME NEW c \in Workflows, Holds(c), Launches(c) \/ Installs(c) \/ Archives(c)
      PROVE  NoStrayHost'
  <2>1. /\ TypeOf[c] = "Bootstrap" => session.life \in {"BOOTSTRAPPING", "INSTALLING"}
        /\ TypeOf[c] = "Archive" => session.life \in {"ARCHIVING", "DESTROYING"}
    BY <1>6, HolderLife, Phases
  <2>2. session'.infra \in {"instance", "complete"}
    BY <1>1, <1>6, <2>1, HolderWriteFields
       DEF Launches, Installs, Archives, SameRecord, Equipped, EquippedStates
  <2>3. QED
    BY <2>2 DEF NoStrayHost, Bare
<1>7. QED
  BY <1>2, <1>3, <1>4, <1>5, <1>6, StrayAfterRelease, StrayAfterFailure DEF SessionStep

-----------------------------------------------------------------------------
(* The archive                                                             *)

(* A session's archive is forgotten by its termination only. *)
LEMMA ArchiveStays ==
    ASSUME IInv, Driven(session), SessionStep, Archived(session)
    PROVE  \/ Archived(session')
           \/ /\ session'.life = "DELETED"
              /\ \E c \in Workflows : TypeOf[c] = "Terminate" /\ Holds(c)
<1>1. session \in Session
  BY DEF IInv, TypeOK
<1>2. CASE Rests \/ Drafts
  BY <1>2 DEF Rests, Drafts, SameRecord, Archived
<1>3. ASSUME NEW b \in Workflows, Begins(b)
      PROVE  Archived(session')
  BY <1>1, <1>3, BeginFields, TypeOfAssumption DEF Begins, SameRecord, Archived
<1>4. ASSUME NEW c \in Workflows, Holds(c), Completes(c), TypeOf[c] # "Terminate"
      PROVE  Archived(session')
  BY <1>1, <1>4, CompleteFields, TypeOfAssumption DEF Completes, SameRecord, Archived
<1>5. ASSUME NEW c \in Workflows, Holds(c), Completes(c), TypeOf[c] = "Terminate"
      PROVE  session'.life = "DELETED"
  BY <1>1, <1>5, CompleteFields, TypeOfAssumption DEF Completes
<1>6. ASSUME NEW c \in Workflows, Holds(c), Refuses(c) \/ Cancels(c)
      PROVE  Archived(session')
  BY <1>1, <1>6, AbortStartFields, CancelFields, TypeOfAssumption
     DEF Refuses, Cancels, SameRecord, Archived
<1>7. ASSUME NEW c \in Workflows, Holds(c),
             NEW level \in InfraAfterFailure(TypeOf[c]), FailsWith(c, level)
      PROVE  Archived(session')
  BY <1>7, EquippedFails DEF Archived
<1>8. ASSUME NEW c \in Workflows, Holds(c),
             Reserves(c) \/ Launches(c) \/ Installs(c) \/ Archives(c)
      PROVE  Archived(session')
  BY <1>1, <1>8, HolderWriteFields, NoWorkflowAssumption
     DEF Reserves, Launches, Installs, Archives, SameRecord, Archived
<1>9. QED
  BY <1>2, <1>3, <1>4, <1>5, <1>6, <1>7, <1>8 DEF SessionStep

LEMMA RestoreNext ==
    ASSUME IInv, Driven(session), DataInv, [Next]_vars, SessionStep
    PROVE  NothingToRestore'
<1> SUFFICES ASSUME ~Archived(session'), session'.life # "DELETED",
                    NEW c \in Workflows, TypeOf[c] = "Restore", wf'[c].status # "absent"
             PROVE  FALSE
  BY DEF NothingToRestore, Archived
<1>1. session.life # "DELETED"
  BY DeletedStays
<1>2. ~Archived(session)
  BY ArchiveStays
<1>3. wf[c].status = "absent"
  BY <1>1, <1>2 DEF DataInv, NothingToRestore
<1>4. Unlocked(session) /\ session'.lock = c
  <2>1. LeaseStep
    BY NextIsGood DEF StepIsGood
  <2>2. wf[c].status \notin OpenStatus
    BY <1>3 DEF OpenStatus
  <2>3. ~KeepsLease
    BY <1>3, <2>2 DEF KeepsLease
  <2>4. \A b \in Workflows : ~GivesLeaseBack(b)
    BY <1>3, <2>2 DEF GivesLeaseBack, IInv, LeaseAgreement, Open
  <2>5. PICK b \in Workflows : TakesLease(b)
    BY <2>1, <2>3, <2>4 DEF LeaseStep
  <2>6. b = c
    BY <1>3, <2>5 DEF TakesLease
  <2>7. QED
    BY <2>5, <2>6 DEF TakesLease
<1>5. session \in Session /\ c # NoWorkflow
  BY NoWorkflowAssumption DEF IInv, TypeOK
<1>6. PICK b \in Workflows : Begins(b)
  <2>1. \A d \in Workflows : ~Holds(d)
    BY <1>4, NoWorkflowAssumption DEF Holds, Unlocked
  <2>2. ~Rests /\ ~Drafts
    BY <1>4, <1>5 DEF Rests, Drafts, Unlocked
  <2>3. QED
    BY <2>1, <2>2 DEF SessionStep
<1>7. b = c
  BY <1>4, <1>5, <1>6, BeginFields, TypeOfAssumption DEF Begins
<1>8. QED
  BY <1>2, <1>6, <1>7 DEF Begins, CanBegin, CanRestore

-----------------------------------------------------------------------------
(* The invariant                                                           *)

LEMMA NextDataInv ==
    IInv /\ Driven(session) /\ ExecInv /\ DataInv /\ [Next]_vars => DataInv'
<1> SUFFICES ASSUME IInv, Driven(session), ExecInv, DataInv, [Next]_vars PROVE DataInv'
  OBVIOUS
<1>1. SessionStep
  BY NextSessionStep
<1>2. Driven(session') /\ session' \in Session
  BY NextIsDriven, NextIInv DEF IInv, TypeOK
<1>3. Equipped(session')
  BY <1>1, EquippedNext
<1>4. HolderInv'
  BY <1>1, HolderNext DEF HolderInv
<1>5. UpWhereItRests' /\ NoStrayHost' /\ NothingToRestore'
  BY <1>1, <1>2, UpNext, StrayNext, RestoreNext
<1>6. QED
  BY <1>3, <1>4, <1>5 DEF DataInv

LEMMA InitFacts ==
    ASSUME Init
    PROVE  /\ session.life \in RestingStates
           /\ session.lock = NoWorkflow /\ session.source = "none"
           /\ session.infra = IF session.life \in {"RUNNING", "SLEEPING"}
                              THEN "complete" ELSE "none"
           /\ session.life = "ARCHIVED" => Archived(session)
           /\ plane = CASE session.life = "RUNNING"  -> "running"
                        [] session.life = "SLEEPING" -> "stopped"
                        [] OTHER -> "none"
<1>1. PICK scenario \in Scenarios :
         \E archive \in EarlierArchives(scenario.life) :
            session = InitialSession(scenario.life, archive)
  BY DEF Init
<1> DEFINE life == scenario.life
<1>2. PICK archive \in EarlierArchives(life) : session = InitialSession(life, archive)
  BY <1>1
<1>3. life \in RestingStates
  BY ScenariosAssumption
<1>4. life = "ARCHIVED" => archive # NoWorkflow
  BY <1>2, EarlierArchiveAssumption DEF EarlierArchives
<1> HIDE DEF life
<1>5. QED
  BY <1>2, <1>3, <1>4 DEF Init, InitialSession, Archived

LEMMA InitDataInv == Init => DataInv
<1> SUFFICES ASSUME Init PROVE DataInv
  OBVIOUS
<1>1. Equipped(session)
  BY InitFacts DEF Equipped, EquippedStates, BareStates, RestingStates
<1>2. HolderInv
  BY InitFacts, NoWorkflowAssumption DEF HolderInv, Holds
<1>3. UpWhereItRests /\ NoStrayHost
  BY InitFacts DEF UpWhereItRests, NoStrayHost, Bare, HostUp, HostExists, RestingStates
<1>4. NothingToRestore
  BY ItemTyped DEF Init, NothingToRestore
<1>5. QED
  BY <1>1, <1>2, <1>3, <1>4 DEF DataInv

(* The record and the host, after every step. *)
THEOREM AlwaysEquipped == Spec => []DataInv
<1>1. QED
  BY InitDataInv, NextDataInv, Invariance, AlwaysDriven, ExecutionsAreRecorded, PTL DEF Spec

(* What the session records of its host agrees with the lifecycle that it   *)
(* is used in, for every workflow, refusal, failure and repair.             *)
THEOREM InfrastructureRecorded == Spec => []InfrastructureIsRecorded
<1>1. DataInv => InfrastructureIsRecorded
  BY DEF DataInv, Equipped, EquippedStates, BareStates, InfrastructureIsRecorded
<1>2. QED
  BY <1>1, AlwaysEquipped, PTL

(* Between workflows the host is where the lifecycle says.                  *)
THEOREM HostMatches == Spec => []HostMatchesLifecycle
<1>1. DataInv => HostMatchesLifecycle
  <2> SUFFICES ASSUME DataInv PROVE HostMatchesLifecycle
    OBVIOUS
  <2>1. session.life \in {"DRAFT", "NEW", "ARCHIVED"} => session.infra = "none"
    BY DEF DataInv, Equipped, BareStates
  <2>2. /\ session.life = "ARCHIVED" => plane = "none"
        /\ session.life \in {"DRAFT", "NEW"} /\ ~Archived(session) => plane = "none"
    BY <2>1 DEF DataInv, NoStrayHost, Bare
  <2>3. QED
    BY <2>2 DEF DataInv, UpWhereItRests, HostMatchesLifecycle
<1>2. QED
  BY <1>1, AlwaysEquipped, PTL

(* A step that takes the instance away is the termination stage of a        *)
(* termination, or of the archive that the session records.                *)
THEOREM DestroyedVerified == Spec => DestroyedOnlyVerified
<1>1. ASSUME IInv, Driven(session), DataInv, [Next]_vars, HostExists,
             plane' \in {"volume", "none"}
      PROVE  \E c \in Workflows :
                /\ exec[c] = "TerminateInstance"
                /\ \/ TypeOf[c] = "Terminate"
                   \/ TypeOf[c] = "Archive" /\ session.archive = c
  <2>1. PICK c \in Workflows : HostStep(c)
    BY <1>1, NextHostStep DEF HostExists
  <2>2. /\ exec[c] = "TerminateInstance" /\ TypeOf[c] \in {"Archive", "Terminate"}
        /\ TypeOf[c] = "Archive" => session.life = "DESTROYING"
    BY <1>1, <2>1 DEF HostStep, HostExists
  <2>3. TypeOf[c] = "Archive" => session.archive = c
    BY <1>1, <2>1, <2>2, LoadsFacts DEF HostStep, DataInv, Equipped, Holds
  <2>4. QED
    BY <2>2, <2>3
<1>2. IInv /\ Driven(session) /\ DataInv /\ [Next]_vars =>
         [(HostExists /\ plane' \in {"volume", "none"}) =>
             \E c \in Workflows :
                /\ exec[c] = "TerminateInstance"
                /\ \/ TypeOf[c] = "Terminate"
                   \/ TypeOf[c] = "Archive" /\ session.archive = c]_vars
  BY <1>1
<1>3. QED
  BY <1>2, Invariance, AlwaysDriven, AlwaysEquipped, PTL DEF Spec, DestroyedOnlyVerified

-----------------------------------------------------------------------------
(* The players' data                                                       *)

(* A workflow that may destroy the data, or that starts without any.        *)
Begun(kinds) == \E c \in Workflows : TypeOf[c] \in kinds /\ wf[c].status # "absent"

(* The data, and the archive that must be there when an archive's last      *)
(* stages delete the volume: also when they run on after a failure.        *)
SurvivalInv ==
    /\ \/ session.life \in {"DRAFT", "NEW"} \/ Begun({"Provision", "Terminate"})
       \/ plane # "none" \/ Archived(session)
    /\ \/ Begun({"Terminate"})
       \/ \A c \in Workflows :
             TypeOf[c] = "Archive" /\ exec[c] = "DeleteVolume" => Archived(session)

LEMMA BegunStays ==
    ASSUME IInv, [Next]_vars, NEW kinds, Begun(kinds)
    PROVE  Begun(kinds)'
BY StatusesStay DEF Begun

LEMMA NextSurvivalInv ==
    IInv /\ Driven(session) /\ ExecInv /\ SurvivalInv /\ [Next]_vars => SurvivalInv'
<1> SUFFICES ASSUME IInv, Driven(session), ExecInv, SurvivalInv, [Next]_vars
             PROVE  SurvivalInv'
  OBVIOUS
<1>1. SessionStep
  BY NextSessionStep
<1>2. Archived(session) => Archived(session') \/ Begun({"Terminate"})
  <2>1. \A c \in Workflows : Holds(c) => wf[c].status # "absent"
    BY DEF IInv, LeaseAgreement, Open, OpenStatus
  <2>2. QED
    BY <1>1, <2>1, ArchiveStays DEF Begun
<1>3. ASSUME ~Begun({"Terminate"})'
      PROVE  \A c \in Workflows :
                TypeOf[c] = "Archive" /\ exec'[c] = "DeleteVolume" => Archived(session')
  <2>1. ~Begun({"Terminate"})
    BY <1>3, BegunStays
  <2>2. ASSUME NEW c \in Workflows, TypeOf[c] = "Archive", exec'[c] = "DeleteVolume"
        PROVE  Archived(session)
    <3>1. CASE exec[c] = "DeleteVolume"
      BY <2>1, <2>2, <3>1 DEF SurvivalInv
    <3>2. CASE exec[c] # "DeleteVolume"
      BY <2>2, <3>2, ArrivesAtDeleteVolume DEF TerminateInstance
    <3>3. QED
      BY <3>1, <3>2
  <2>3. QED
    BY <1>2, <2>1, <2>2
<1>4. ASSUME ~Begun({"Provision", "Terminate"})'
      PROVE  \/ session'.life \in {"DRAFT", "NEW"}
             \/ plane' # "none" \/ Archived(session')
  <2>1. ~Begun({"Provision", "Terminate"}) /\ ~Begun({"Terminate"})
    <3>1. Begun({"Terminate"}) => Begun({"Provision", "Terminate"})
      BY DEF Begun
    <3>2. QED
      BY <1>4, <3>1, BegunStays
  <2>2. CASE Archived(session)
    BY <1>2, <2>1, <2>2
  <2>3. CASE plane # "none" /\ ~Archived(session)
    <3>1. ASSUME NEW c \in Workflows, HostStep(c), plane' = "none"
          PROVE  FALSE
      <4>1. TypeOf[c] \in {"Archive", "Terminate"} /\ exec[c] = "DeleteVolume"
        BY <3>1 DEF HostStep
      <4>2. wf[c].status # "absent"
        BY <4>1 DEF ExecInv, Started
      <4>3. TypeOf[c] = "Archive"
        BY <2>1, <4>1, <4>2 DEF Begun
      <4>4. QED
        BY <2>1, <2>3, <4>1, <4>3 DEF SurvivalInv
    <3>2. QED
      BY <2>3, <3>1, NextHostStep
  <2>4. CASE session.life \in {"DRAFT", "NEW"}
    <3>1. \A c \in Workflows : ~Holds(c)
      BY <2>4, HolderLife
    <3>2. ASSUME NEW b \in Workflows, Begins(b)
          PROVE  FALSE
      <4>1. TypeOf[b] \in {"Provision", "Terminate"}
        BY <2>4, <3>2, TypeOfAssumption DEF Begins, CanBegin, CanStartBootstrap, CanSleep,
           CanWake, CanRestart, CanArchive, CanRestore, Kinds
      <4>2. wf'[b].status # "absent"
        BY <3>2 DEF Begins
      <4>3. QED
        BY <1>4, <4>1, <4>2 DEF Begun
    <3>3. Rests \/ Drafts
      BY <1>1, <3>1, <3>2 DEF SessionStep
    <3>4. QED
      BY <2>4, <3>3 DEF Rests, Drafts
  <2>5. QED
    BY <2>1, <2>2, <2>3, <2>4 DEF SurvivalInv
<1>5. QED
  BY <1>3, <1>4 DEF SurvivalInv, Archived

LEMMA InitSurvivalInv == Init => SurvivalInv
<1> SUFFICES ASSUME Init PROVE SurvivalInv
  OBVIOUS
<1>1. \A c \in Workflows : exec[c] # "DeleteVolume"
  BY DEF Init
<1>2. \/ session.life \in {"DRAFT", "NEW"}
      \/ plane # "none" \/ Archived(session)
  BY InitFacts DEF RestingStates
<1>3. QED
  BY <1>1, <1>2 DEF SurvivalInv

(* The players' data is on the volume or in a recorded archive for as long  *)
(* as nobody asks for a termination, whatever fails, crashes or is repaired *)
(* on the way.                                                             *)
THEOREM DataIsKept == Spec => []DataSurvives
<1>1. SurvivalInv => DataSurvives
  BY ItemTyped DEF SurvivalInv, Begun, DataSurvives
<1>2. QED
  BY <1>1, InitSurvivalInv, NextSurvivalInv, Invariance, AlwaysDriven,
     ExecutionsAreRecorded, PTL DEF Spec

=============================================================================
