--------------------------- MODULE SessionLifecycle ---------------------------
(***************************************************************************)
(* The session aggregate of internal/domain: the record every workflow,    *)
(* monitor and reconciler reads and conditionally writes, and the pure     *)
(* transitions the Go methods apply to a copy of it before saving it.      *)
(*                                                                         *)
(* A transition is an operator from a record to a record.  Each one that   *)
(* the code can refuse comes with the condition under which it is          *)
(* accepted (CanBegin, CanComplete, ...).  The version that each of them   *)
(* increments is not a field here: it is only ever compared with the       *)
(* version a writer read, and the modules that have writers keep who still *)
(* holds a current snapshot.                                               *)
(*                                                                         *)
(* Data is kept to what the guards tell apart.  Infrastructure is a level: *)
(* "none", only a capacity "slot", an "instance" without its volume, or a  *)
(* "complete" compute plane.  A lease is "live" or "expired"; time itself  *)
(* is not modelled.                                                        *)
(***************************************************************************)
CONSTANTS
    Workflows,      \* workflow identifiers: the command ID that created each one
    NoWorkflow,     \* the empty ActiveWorkflowID, and the empty Archive.ID
    EarlierArchive  \* the archive workflow of a session that starts archived

ASSUME NoWorkflowAssumption == NoWorkflow \notin Workflows
ASSUME EarlierArchiveAssumption == EarlierArchive \notin Workflows \cup {NoWorkflow}

-----------------------------------------------------------------------------
(* Vocabulary *)

Kinds == {"Provision", "Bootstrap", "Sleep", "Wake", "Restart",
          "Archive", "Restore", "Terminate"}

LifecycleStates ==
    {"DRAFT", "NEW", "VALIDATING", "PROVISIONING", "BOOTSTRAPPING", "INSTALLING",
     "RUNNING", "STOPPING", "SLEEPING", "WAKING", "RESTARTING", "ARCHIVING",
     "DESTROYING", "ARCHIVED", "RESTORING", "DELETING", "DELETED", "FAILED"}

HealthStates == {"UNKNOWN", "STARTING", "HEALTHY", "UNHEALTHY", "STOPPED"}

Session ==
    [life: LifecycleStates, health: HealthStates,
     lock: Workflows \cup {NoWorkflow}, kind: Kinds \cup {"none"},
     lease: {"none", "live", "expired"},
     source: {"none", "RUNNING", "SLEEPING"},
     infra: {"none", "slot", "instance", "complete"},
     archive: Workflows \cup {NoWorkflow, EarlierArchive},   \* Archive.ID
     asleep: BOOLEAN,       \* SleepingSince is set
     lastKind: Kinds \cup {"none"},                     \* Progress.WorkflowType
     progress: {"none", "active", "completed", "action_required", "cancelled"},
     probe: BOOLEAN]        \* MonitoringCommandID is set

HasInstance(s) == s.infra \in {"instance", "complete"}
Unlocked(s) == s.lock = NoWorkflow
Archived(s) == s.archive # NoWorkflow

(* Session.Validate, for the clauses that relate the modelled fields. *)
Valid(s) ==
    /\ Unlocked(s) <=> s.kind = "none"
    /\ Unlocked(s) <=> s.lease = "none"
    /\ ~Unlocked(s) => s.lastKind = s.kind
    /\ s.source # "none" => s.kind = "Archive" /\ s.life = "ARCHIVING"
    /\ s.asleep => \/ s.life = "SLEEPING"
                   \/ s.life = "ARCHIVING" /\ s.source = "SLEEPING"
                   \/ s.life = "WAKING" /\ s.kind = "Wake"

ClearLock(s, outcome) ==
    [s EXCEPT !.lock = NoWorkflow, !.kind = "none", !.lease = "none",
              !.progress = outcome]

-----------------------------------------------------------------------------
(* Taking the lease: the Can..., Begin... and Acquire... methods.          *)

AcquireWorkflowLock(s, w, k) ==
    [s EXCEPT !.lock = w, !.kind = k, !.lease = "live",
              !.lastKind = k, !.progress = "active"]

CanStartInfrastructureProvisioning(s) ==
    \/ s.life = "NEW"
    \/ s.life = "FAILED" /\ Unlocked(s) /\ s.infra = "none"

CanAcquireProvisioning(s) ==
    CanStartInfrastructureProvisioning(s) /\ (Unlocked(s) \/ s.lease = "expired")

AcquireProvisioningWorkflowLock(s, w) ==
    [AcquireWorkflowLock(s, w, "Provision") EXCEPT
        !.life = "VALIDATING", !.health = "STARTING"]

CanStartBootstrap(s) ==
    Unlocked(s) /\ s.infra = "complete" /\ s.life \in {"BOOTSTRAPPING", "FAILED"}

AcquireBootstrapWorkflowLock(s, w) ==
    [AcquireWorkflowLock(s, w, "Bootstrap") EXCEPT
        !.life = "BOOTSTRAPPING", !.health = "STARTING"]

CanSleep(s) == Unlocked(s) /\ HasInstance(s) /\ s.life = "RUNNING"
CanWake(s) == Unlocked(s) /\ HasInstance(s) /\ s.life = "SLEEPING"
CanRestart(s) == CanSleep(s)

BeginSleep(s, w) ==
    [AcquireWorkflowLock(s, w, "Sleep") EXCEPT !.life = "STOPPING", !.health = "STARTING"]
BeginWake(s, w) ==
    [AcquireWorkflowLock(s, w, "Wake") EXCEPT !.life = "WAKING", !.health = "STARTING"]
BeginRestart(s, w) ==
    [AcquireWorkflowLock(s, w, "Restart") EXCEPT !.life = "RESTARTING", !.health = "STARTING"]

CanArchive(s) ==
    /\ Unlocked(s)
    /\ s.infra = "complete"
    /\ \/ s.life = "RUNNING" /\ s.health = "HEALTHY"
       \/ s.life = "SLEEPING" /\ s.health = "STOPPED"

BeginArchive(s, w) ==
    [AcquireWorkflowLock(s, w, "Archive") EXCEPT
        !.life = "ARCHIVING", !.health = "STARTING", !.source = s.life]

(* A failed restore that kept all of its resources is resumed.             *)
CanRestore(s) ==
    /\ Unlocked(s)
    /\ Archived(s)
    /\ \/ s.life = "ARCHIVED" /\ s.infra = "none"
       \/ /\ s.life = "FAILED" /\ s.infra = "complete"
          /\ s.lastKind = "Restore" /\ s.progress = "action_required"

BeginRestore(s, w) ==
    [AcquireWorkflowLock(s, w, "Restore") EXCEPT !.life = "RESTORING", !.health = "STARTING"]

CanTerminate(s) == Unlocked(s) /\ s.life \notin {"DELETING", "DELETED"}

BeginTermination(s, w) ==
    [AcquireWorkflowLock(s, w, "Terminate") EXCEPT
        !.life = "DELETING", !.health = "UNKNOWN", !.source = "none", !.asleep = FALSE]

(* Mutant: the admission only looks at the lock. *)
CanBeginUnlocked(s, k) == Unlocked(s)

(* What acquireWorkflowLock calls for each workflow type.                   *)
CanBegin(s, k) ==
    CASE k = "Provision" -> CanAcquireProvisioning(s)
      [] k = "Bootstrap" -> CanStartBootstrap(s)
      [] k = "Sleep"     -> CanSleep(s)
      [] k = "Wake"      -> CanWake(s)
      [] k = "Restart"   -> CanRestart(s)
      [] k = "Archive"   -> CanArchive(s)
      [] k = "Restore"   -> CanRestore(s)
      [] k = "Terminate" -> CanTerminate(s)

Begin(s, w, k) ==
    CASE k = "Provision" -> AcquireProvisioningWorkflowLock(s, w)
      [] k = "Bootstrap" -> AcquireBootstrapWorkflowLock(s, w)
      [] k = "Sleep"     -> BeginSleep(s, w)
      [] k = "Wake"      -> BeginWake(s, w)
      [] k = "Restart"   -> BeginRestart(s, w)
      [] k = "Archive"   -> BeginArchive(s, w)
      [] k = "Restore"   -> BeginRestore(s, w)
      [] k = "Terminate" -> BeginTermination(s, w)

-----------------------------------------------------------------------------
(* Stages that a worker records while it holds the lease.                  *)

CanReserveCapacity(s) == s.life \in {"VALIDATING", "PROVISIONING"}
ReserveCapacity(s) == [s EXCEPT !.infra = "slot", !.life = "PROVISIONING"]
RestoreCapacity(s) == [s EXCEPT !.infra = "slot"]
RecordLaunch(s, level) == [s EXCEPT !.infra = level]

CanInstall(s) == s.life \in {"BOOTSTRAPPING", "INSTALLING"}
BeginInstallation(s) == [s EXCEPT !.life = "INSTALLING", !.health = "STARTING"]

CanRecordArchive(s) == s.source # "none"
(* Mutant: the metadata of an earlier archive is kept. *)
RecordFirstArchive(s, w) ==
    [s EXCEPT !.archive = IF @ = NoWorkflow THEN w ELSE @, !.source = "none",
              !.life = "DESTROYING", !.health = "STOPPED", !.asleep = FALSE]

RecordVerifiedArchive(s, w) ==
    [s EXCEPT !.archive = w, !.source = "none", !.life = "DESTROYING",
              !.health = "STOPPED", !.asleep = FALSE]

-----------------------------------------------------------------------------
(* Completion.  The methods refuse a workflow that does not hold the lease  *)
(* under its own type; CanComplete is what else they refuse.                *)

CompleteInfrastructureProvisioning(s) ==
    ClearLock([s EXCEPT !.life = "BOOTSTRAPPING"], "completed")

CompleteBootstrap(s) ==
    ClearLock([s EXCEPT !.life = "RUNNING", !.health = "HEALTHY"], "completed")

CompleteSleep(s) ==
    ClearLock([s EXCEPT !.life = "SLEEPING", !.health = "STOPPED", !.asleep = TRUE],
              "completed")

(* CompleteWake and CompleteRestart. *)
CompleteRunning(s) ==
    ClearLock([s EXCEPT !.life = "RUNNING", !.health = "HEALTHY", !.asleep = FALSE],
              "completed")

CompleteArchive(s) ==
    ClearLock([s EXCEPT !.life = "ARCHIVED", !.health = "STOPPED", !.asleep = FALSE,
                        !.infra = "none"], "completed")

CompleteRestore(s) ==
    ClearLock([s EXCEPT !.life = "RUNNING", !.health = "HEALTHY"], "completed")

CompleteTermination(s) ==
    ClearLock([s EXCEPT !.life = "DELETED", !.health = "STOPPED", !.infra = "none",
                        !.archive = NoWorkflow, !.probe = FALSE], "completed")

CanComplete(s, k) ==
    CASE k = "Provision" -> s.life = "PROVISIONING" /\ s.infra = "complete"
      [] k = "Bootstrap" -> s.life = "INSTALLING"
      [] k = "Archive"   -> s.life = "DESTROYING" /\ Archived(s)
      [] k = "Restore"   -> s.life = "RESTORING" /\ s.infra = "complete"
      [] k = "Terminate" -> s.life = "DELETING"
      [] OTHER           -> TRUE

(* Mutant: completion leaves the infrastructure record behind. *)
CompleteKeepingInfrastructure(s, k) ==
    CASE k = "Archive"   -> ClearLock([s EXCEPT !.life = "ARCHIVED", !.asleep = FALSE],
                                      "completed")
      [] k = "Terminate" -> ClearLock([s EXCEPT !.life = "DELETED"], "completed")
      [] k = "Sleep"     -> CompleteSleep(s)
      [] k = "Provision" -> CompleteInfrastructureProvisioning(s)
      [] OTHER           -> CompleteRunning(s)

Complete(s, k) ==
    CASE k = "Provision"           -> CompleteInfrastructureProvisioning(s)
      [] k = "Bootstrap"           -> CompleteBootstrap(s)
      [] k = "Sleep"               -> CompleteSleep(s)
      [] k \in {"Wake", "Restart"} -> CompleteRunning(s)
      [] k = "Archive"             -> CompleteArchive(s)
      [] k = "Restore"             -> CompleteRestore(s)
      [] k = "Terminate"           -> CompleteTermination(s)

-----------------------------------------------------------------------------
(* Failure: the worker's own and the reconciler's.                         *)

FailInfrastructureProvisioning(s) ==
    ClearLock([s EXCEPT !.life = "FAILED", !.health = "UNKNOWN"], "action_required")

(* FailBootstrap, FailRestore and FailTermination. *)
FailUnhealthy(s) ==
    ClearLock([s EXCEPT !.life = "FAILED", !.health = "UNHEALTHY"], "action_required")

(* Mutant: a failed wake keeps SleepingSince. *)
FailSleepWakeKeepingSince(s) ==
    ClearLock([s EXCEPT !.life = "FAILED", !.health = "UNHEALTHY"], "action_required")

FailSleepWake(s) ==
    ClearLock([s EXCEPT !.life = "FAILED", !.health = "UNHEALTHY", !.asleep = FALSE],
              "action_required")

FailArchive(s) ==
    ClearLock([s EXCEPT !.life = "FAILED", !.health = "UNHEALTHY", !.asleep = FALSE,
                        !.source = "none"], "action_required")

CanFail(s, k) == k = "Restore" => s.life = "RESTORING"

(* Mutant: a failed archive keeps its source state. *)
FailKeepingSource(s, k) == ClearLock([s EXCEPT !.life = "FAILED"], "action_required")

(* Mutant: a failed restore drops the archive it restores from. *)
FailForgettingArchive(s, k) ==
    ClearLock([s EXCEPT !.life = "FAILED", !.asleep = FALSE, !.source = "none",
                        !.archive = IF k = "Restore" THEN NoWorkflow ELSE @],
              "action_required")

Fail(s, k) ==
    CASE k = "Provision"                           -> FailInfrastructureProvisioning(s)
      [] k \in {"Sleep", "Wake", "Restart"}        -> FailSleepWake(s)
      [] k = "Archive"                             -> FailArchive(s)
      [] k \in {"Bootstrap", "Restore", "Terminate"} -> FailUnhealthy(s)

-----------------------------------------------------------------------------
(* A start that Step Functions refused.  Kinds without an abort of their    *)
(* own only give the lock back, which Validate refuses for a waking session *)
(* whose SleepingSince is still set.                                       *)

AbortProvisioningWorkflowStart(s) ==
    ClearLock([s EXCEPT !.life = "NEW", !.health = "UNKNOWN"], "action_required")

AbortArchiveWorkflowStart(s) ==
    ClearLock([s EXCEPT
        !.life = s.source, !.source = "none",
        !.health = IF s.source = "SLEEPING" THEN "STOPPED" ELSE "HEALTHY"],
        "action_required")

AbortRestoreWorkflowStart(s) ==
    ClearLock([s EXCEPT !.life = "ARCHIVED", !.health = "STOPPED"], "action_required")

ReleaseWorkflowLock(s) == ClearLock(s, "action_required")

(* Mutant: a refused start is aborted whatever the session holds. *)
CanAlwaysAbortStart(s, k) == TRUE

CanAbortStart(s, k) ==
    CASE k = "Provision" -> s.infra = "none"
      [] k = "Archive"   -> s.source # "none"
      [] k = "Restore"   -> s.life = "RESTORING" /\ s.infra = "none"
      [] k = "Terminate" -> s.life = "DELETING"
      [] k = "Wake"      -> ~s.asleep
      [] OTHER           -> TRUE

(* Mutant: a refused start only gives the lock back, for every kind. *)
AbortStartReleasing(s, k) == ReleaseWorkflowLock(s)

(* The choice in failStart.  A refused termination fails like a failed one. *)
AbortStart(s, k) ==
    CASE k = "Provision" -> AbortProvisioningWorkflowStart(s)
      [] k = "Restart"   -> FailSleepWake(s)
      [] k = "Archive"   -> AbortArchiveWorkflowStart(s)
      [] k = "Restore"   -> AbortRestoreWorkflowStart(s)
      [] k = "Terminate" -> FailUnhealthy(s)
      [] k \in {"Bootstrap", "Sleep", "Wake"} -> ReleaseWorkflowLock(s)

(* CancelWorkflowAtSafeBoundary.  Only kinds with a case of their own can   *)
(* be cancelled; the archive case also requires that no archive metadata    *)
(* is recorded.                                                             *)
CanCancel(s, k) ==
    CASE k = "Provision" -> s.life = "VALIDATING" /\ s.infra = "none"
      [] k = "Bootstrap" -> s.life = "BOOTSTRAPPING"
      [] k = "Sleep"     -> s.life = "STOPPING"
      [] k = "Wake"      -> s.life = "WAKING"
      [] k = "Archive"   -> s.life = "ARCHIVING" /\ s.source # "none" /\ ~Archived(s)
      [] k = "Restore"   -> s.life = "RESTORING" /\ s.infra = "none"
      [] OTHER           -> FALSE

Cancel(s, k) ==
    ClearLock([s EXCEPT
        !.life = CASE k = "Provision" -> "NEW"
                   [] k = "Bootstrap" -> "FAILED"
                   [] k = "Sleep"     -> "RUNNING"
                   [] k = "Wake"      -> "SLEEPING"
                   [] k = "Archive"   -> s.source
                   [] k = "Restore"   -> "ARCHIVED",
        !.health = CASE k \in {"Provision", "Bootstrap"} -> "UNKNOWN"
                     [] k = "Sleep" -> "HEALTHY"
                     [] k \in {"Wake", "Restore"} -> "STOPPED"
                     [] k = "Archive" -> IF s.source = "SLEEPING" THEN "STOPPED"
                                                                  ELSE "HEALTHY",
        !.source = "none"], "cancelled")

-----------------------------------------------------------------------------
(* Mutations by actors that do not hold the lease.                         *)

(* Configure and the artifact attachments end in markReadyWhenComplete.    *)
CanConfigure(s) == s.life = "DRAFT"
Configure(s, ready) == [s EXCEPT !.life = IF ready THEN "NEW" ELSE "DRAFT"]

CanBeginMonitoring(s) == s.life = "RUNNING" /\ HasInstance(s) /\ ~s.probe
BeginMonitoring(s) == [s EXCEPT !.probe = TRUE]

CompleteMonitoring(s, verdict) == [s EXCEPT !.probe = FALSE, !.health = verdict]
=============================================================================
