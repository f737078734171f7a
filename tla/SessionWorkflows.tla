--------------------------- MODULE SessionWorkflows ---------------------------
(***************************************************************************)
(* One session and everything that races on its row: the FIFO command      *)
(* queue and the command worker that turns a command into a workflow, the  *)
(* Step Functions executions whose stages run as Lambda handlers, the EC2  *)
(* host and volume they drive, the cancellation API, the scheduled         *)
(* reconciler and the health monitor.                                      *)
(*                                                                         *)
(* DynamoDB is the only shared state.  Every session write increments the  *)
(* version and is conditional on the version its writer read, so a reader  *)
(* either still holds the current row or its write is refused: `fresh' is  *)
(* the set of readers that do, and each session write empties it.  Workflow *)
(* writes are whole-item puts conditional on the status only, so their     *)
(* snapshots are kept in full (handler.snap, held, canceller): a put can   *)
(* erase what others wrote after the snapshot was taken.                   *)
(*                                                                         *)
(* A stage's handler reads and writes the session in one step here.  What  *)
(* can come between its read and its conditional write, a crash, a failed  *)
(* call to AWS or a version conflict, is the same thing to the state       *)
(* machine, a failed task: StageFails.  A handler that committed but whose *)
(* reply was lost is the choice in Reply, and a host launched but not      *)
(* recorded is LaunchUnrecorded.                                           *)
(*                                                                         *)
(* A definition whose comment begins with "Mutant" is a plausible mistake   *)
(* in the code modelled by the definition after it.  Nothing uses it:      *)
(* PROJECT.json names the property that refutes it when it is swapped in.  *)
(***************************************************************************)
EXTENDS SessionLifecycle, Naturals, Sequences, FiniteSets

CONSTANTS
    TypeOf,         \* the kind of each workflow
    Continuation,   \* the bootstrap workflow derived from a provisioning one
    Cancellable,    \* the workflows whose owner may ask for their cancellation
    Scenarios,      \* where a history may start: a resting state of the session
                    \* and the commands its users are going to give
    MaxReceive      \* maxReceiveCount of commands.fifo

RestingStates == {"DRAFT", "NEW", "RUNNING", "SLEEPING", "ARCHIVED"}

ASSUME TypeOfAssumption == TypeOf \in [Workflows -> Kinds]
ASSUME ContinuationAssumption ==
    /\ Continuation \in [Workflows -> Workflows \cup {NoWorkflow}]
    /\ \A c \in Workflows : Continuation[c] # NoWorkflow =>
          TypeOf[c] = "Provision" /\ TypeOf[Continuation[c]] = "Bootstrap"
ASSUME CancellableAssumption == Cancellable \subseteq Workflows
ASSUME ScenariosAssumption ==
    /\ Scenarios \subseteq [life : RestingStates, commands : SUBSET Workflows]
    /\ \A scenario \in Scenarios, c \in Workflows :
          c \in scenario.commands /\ Continuation[c] # NoWorkflow
             => Continuation[c] \in scenario.commands
ASSUME MaxReceiveAssumption == MaxReceive \in Nat \ {0}

VARIABLES
    session,    \* the session item
    fresh,      \* readers of the session row that nobody has written since
    wf,         \* the workflow items
    exec,       \* the Step Functions execution named after each workflow
    plane,      \* the session's EC2 host and data volume
    held,       \* workflow snapshot of a bootstrap dispatch in flight
    queue,      \* commands.fifo, one message group
    receives,   \* receive count of the message at the head
    unsent,     \* commands that users have yet to give
    dead,       \* commands on the dead-letter queue
    handler,    \* the one command-worker invocation of the message group
    canceller   \* a cancellation request between its read and its write

workerVars == <<exec, plane, held>>
dispatchVars == <<queue, receives, unsent, dead, handler>>
vars == <<session, fresh, wf, workerVars, dispatchVars, canceller>>

-----------------------------------------------------------------------------
(* Workflow items *)

OpenStatus == {"PENDING", "RUNNING"}
Terminal == {"SUCCEEDED", "FAILED", "CANCELLED"}

WorkflowItem ==
    [status: OpenStatus \cup Terminal \cup {"absent"},
     arn: BOOLEAN,      \* ExecutionARN is set
     cancel: BOOLEAN,   \* CancelRequestedAt is set
     cmd: BOOLEAN]      \* CommandID is set

Absent  == [status |-> "absent", arn |-> FALSE, cancel |-> FALSE, cmd |-> FALSE]
Pending == [Absent EXCEPT !.status = "PENDING"]

Open(c) == wf[c].status \in OpenStatus
Holds(c) == session.lock = c
ContinuationOf(b) == {p \in Workflows : Continuation[p] = b}
Continues(c) == {Continuation[c]} \cap Workflows
UserCommands == {c \in Workflows : ContinuationOf(c) = {}}

(* The session writes.  Each increments the version (`fresh' empties); a    *)
(* Touch changes nothing else that is modelled.                            *)
Write(s) == session' = s /\ fresh' = {}
Touch == session' = session /\ fresh' = {}
KeepSession == UNCHANGED <<session, fresh>>
PutWorkflow(c, item) == wf' = [wf EXCEPT ![c] = item]
CloseAs(c, status) == PutWorkflow(c, [wf[c] EXCEPT !.status = status])

-----------------------------------------------------------------------------
(* State machines: the stages that read or write the modelled state, in    *)
(* the order of the Terraform definitions.  Polling loops are one stage.   *)

Stages == {"VerifyArchive", "Prepare", "PrepareHost", "Ensure", "Dispatch", "Persist",
           "Observe", "RecordVerified", "TerminateInstance", "DeleteVolume",
           "DeleteObjects", "Complete", "Continue", "Enqueue", "QueueFailed",
           "Rollback", "Fail"}
ExecStates == Stages \cup {"none", "succeeded", "failed"}
Running(c) == exec[c] \in Stages

(* A machine: where it starts, where a stage's success leads, the stages    *)
(* whose Catch leads to the rollback, the ones without a Catch (every other *)
(* Catch leads to Fail), and the ones with the transient-error Retry.  A    *)
(* recorded failure ends a machine without a Fail state of its own as a     *)
(* success.                                                                *)
ProvisionSession ==
    [start |-> "Prepare",
     next |-> [Prepare |-> "Ensure", Ensure |-> "Observe", Observe |-> "Complete",
               Complete |-> "Continue", Continue |-> "Enqueue", Enqueue |-> "succeeded",
               QueueFailed |-> "succeeded", Fail |-> "failed"],
     rollback |-> {}, uncaught |-> {"Fail", "QueueFailed"},
     retried |-> {"Prepare", "Ensure", "Observe", "Complete", "Continue", "Enqueue",
                  "QueueFailed"}]

BootstrapGameServer ==
    [start |-> "Prepare",
     next |-> [Prepare |-> "Dispatch", Dispatch |-> "Persist", Persist |-> "Observe",
               Observe |-> "Complete", Complete |-> "succeeded",
               Rollback |-> "Fail", Fail |-> "failed"],
     rollback |-> {"Prepare", "Dispatch", "Persist", "Observe", "Complete"},
     uncaught |-> {"Fail"}, retried |-> {"Prepare", "Observe", "Complete", "Fail"}]

SleepSession ==
    [start |-> "Dispatch",
     next |-> [Dispatch |-> "Observe", Observe |-> "Complete", Complete |-> "succeeded",
               Fail |-> "succeeded"],
     rollback |-> {}, uncaught |-> {"Complete", "Fail"}, retried |-> {"Dispatch"}]

(* Also the machine of a restart. *)
WakeSession ==
    [start |-> "Dispatch",
     next |-> [Dispatch |-> "Observe", Observe |-> "Complete", Complete |-> "succeeded",
               Rollback |-> "Fail", Fail |-> "succeeded"],
     rollback |-> {"Dispatch", "Observe"}, uncaught |-> {"Fail"},
     retried |-> {"Dispatch", "Rollback"}]

ArchiveSession ==
    [start |-> "PrepareHost",
     next |-> [PrepareHost |-> "Dispatch", Dispatch |-> "Observe",
               Observe |-> "RecordVerified", RecordVerified |-> "TerminateInstance",
               TerminateInstance |-> "DeleteVolume", DeleteVolume |-> "Complete",
               Complete |-> "succeeded", Fail |-> "succeeded"],
     rollback |-> {}, uncaught |-> {"Complete", "Fail"},
     retried |-> {"PrepareHost", "TerminateInstance", "DeleteVolume"}]

(* The restore command and the bootstrap command after it are one Dispatch, *)
(* with the Catch of the second.                                           *)
RestoreSession ==
    [start |-> "VerifyArchive",
     next |-> [VerifyArchive |-> "Prepare", Prepare |-> "Ensure", Ensure |-> "Observe",
               Observe |-> "Dispatch", Dispatch |-> "Complete", Complete |-> "succeeded",
               Rollback |-> "Fail", Fail |-> "failed"],
     rollback |-> {"Dispatch", "Complete"}, uncaught |-> {"Fail"},
     retried |-> {"VerifyArchive", "Prepare", "Ensure", "Complete", "Fail"}]

DestroySession ==
    [start |-> "TerminateInstance",
     next |-> [TerminateInstance |-> "DeleteVolume", DeleteVolume |-> "DeleteObjects",
               DeleteObjects |-> "Complete", Complete |-> "succeeded",
               Fail |-> "succeeded"],
     rollback |-> {}, uncaught |-> {"Fail"},
     retried |-> {"TerminateInstance", "DeleteVolume", "DeleteObjects"}]

Machine(k) ==
    CASE k = "Provision" -> ProvisionSession
      [] k = "Bootstrap" -> BootstrapGameServer
      [] k = "Sleep"     -> SleepSession
      [] k \in {"Wake", "Restart"} -> WakeSession
      [] k = "Archive"   -> ArchiveSession
      [] k = "Restore"   -> RestoreSession
      [] k = "Terminate" -> DestroySession

StatesOf(k) == DOMAIN Machine(k).next \cup {"none", "succeeded", "failed"}

FirstStage(k) == Machine(k).start
NextStage(k, stage) == Machine(k).next[stage]
Retried(k, stage) == stage \in Machine(k).retried

CatchStage(k, stage) ==
    CASE stage = "Enqueue" -> "QueueFailed"
      [] stage \in Machine(k).uncaught -> "failed"
      [] stage \in Machine(k).rollback -> "Rollback"
      [] OTHER -> "Fail"

Goto(c, stage) == exec' = [exec EXCEPT ![c] = stage]
Advance(c) == Goto(c, NextStage(TypeOf[c], exec[c]))
Catch(c) == Goto(c, CatchStage(TypeOf[c], exec[c]))

(* A handler has committed: its reply arrives, or is lost, and the task is  *)
(* retried or caught.                                                      *)
Reply(c) == \/ Advance(c)
            \/ Catch(c)
            \/ Retried(TypeOf[c], exec[c]) /\ UNCHANGED exec

At(c, kinds, stage) == TypeOf[c] \in kinds /\ exec[c] = stage

(* Mutant: a failed workflow is admitted whatever became of the session. *)
LoadsUnfenced(c) ==
    \/ Holds(c)
    \/ /\ TypeOf[c] \in {"Archive", "Restore", "Terminate"}
       /\ wf[c].status = "FAILED"

(* The load guards.  Archive, restore and termination also admit a failed   *)
(* workflow of a failed session, which no longer holds the lease.          *)
Loads(c) ==
    \/ Holds(c)
    \/ /\ TypeOf[c] \in {"Archive", "Restore", "Terminate"}
       /\ wf[c].status = "FAILED"
       /\ session.life = "FAILED"

-----------------------------------------------------------------------------
(* The command queue and the command worker                                *)

Idle == [pc |-> "idle", snap |-> Absent]
Step(pc, snap) == handler' = [pc |-> pc, snap |-> snap]
InHand(c, pc) == queue # <<>> /\ Head(queue) = c /\ handler.pc = pc

Acknowledge ==
    /\ queue' = Tail(queue)
    /\ receives' = 0
    /\ handler' = Idle

(* Release of the message without an acknowledgement: SQS redelivers it.    *)
GiveUp == handler' = Idle /\ UNCHANGED <<queue, receives>>

Submit(c) ==
    /\ c \in UserCommands \cap unsent
    /\ queue' = Append(queue, c)
    /\ unsent' = unsent \ {c}
    /\ UNCHANGED <<session, fresh, wf, workerVars, receives, dead, handler, canceller>>

(* Mutant: a message is received without limit. *)
ReceiveUnbounded(c) ==
    /\ InHand(c, "idle")
    /\ receives' = receives + 1
    /\ Step("lookup", Absent)
    /\ UNCHANGED <<session, fresh, wf, workerVars, queue, unsent, dead, canceller>>

Receive(c) ==
    /\ InHand(c, "idle")
    /\ receives < MaxReceive
    /\ receives' = receives + 1
    /\ Step("lookup", Absent)
    /\ UNCHANGED <<session, fresh, wf, workerVars, queue, unsent, dead, canceller>>

(* Mutant: off by one, so that no message ever leaves for the DLQ. *)
DeadLetterLate(c) ==
    /\ InHand(c, "idle")
    /\ receives > MaxReceive
    /\ Acknowledge
    /\ dead' = dead \cup {c}
    /\ UNCHANGED <<session, fresh, wf, workerVars, unsent, canceller>>

DeadLetter(c) ==
    /\ InHand(c, "idle")
    /\ receives = MaxReceive
    /\ Acknowledge
    /\ dead' = dead \cup {c}
    /\ UNCHANGED <<session, fresh, wf, workerVars, unsent, canceller>>

(* The operator's redrive moves messages back to the queue that owns the DLQ. *)
Redrive(c) ==
    /\ c \in dead
    /\ dead' = dead \ {c}
    /\ queue' = Append(queue, c)
    /\ UNCHANGED <<session, fresh, wf, workerVars, receives, unsent, handler, canceller>>

(* The head of Service.Start.  A bootstrap continuation must still own the  *)
(* lease its provisioning workflow took for it; a command whose workflow is *)
(* past PENDING is answered with the existing record.                       *)
Lookup(c) ==
    /\ InHand(c, "lookup")
    /\ \A p \in ContinuationOf(c) : wf[p].status = "SUCCEEDED" /\ Holds(c)
    /\ IF wf[c] = Absent \/ (wf[c].status = "PENDING" /\ ~wf[c].arn)
       THEN Step("load", wf[c]) /\ UNCHANGED <<queue, receives>>
       ELSE Acknowledge
    /\ UNCHANGED <<session, fresh, wf, workerVars, unsent, dead, canceller>>

LoadSession(c) ==
    /\ InHand(c, "load")
    /\ Step(IF handler.snap = Absent THEN "admit" ELSE "start", handler.snap)
    /\ fresh' = fresh \cup {"worker"}
    /\ UNCHANGED <<session, wf, workerVars, queue, receives, unsent, dead, canceller>>

(* acquireWorkflowLock and the AcquireWorkflow transaction. *)
Admit(c) ==
    /\ InHand(c, "admit")
    /\ "worker" \in fresh
    /\ CanBegin(session, TypeOf[c])
    /\ wf[c] = Absent
    /\ session' = Begin(session, c, TypeOf[c])
    /\ fresh' = {"worker"}
    /\ PutWorkflow(c, Pending)
    /\ Step("start", Pending)
    /\ UNCHANGED <<workerVars, queue, receives, unsent, dead, canceller>>

(* StartExecution is idempotent by name while the execution runs and is     *)
(* refused once it has closed; it can also fail before or after Step        *)
(* Functions accepted the execution.                                        *)
StartExecution(c) ==
    /\ InHand(c, "start")
    /\ \/ /\ exec[c] = "none"
          /\ Goto(c, FirstStage(TypeOf[c]))
          /\ \E pc \in {"record", "abort"} : Step(pc, handler.snap)
       \/ Running(c) /\ Step("record", handler.snap) /\ UNCHANGED exec
       \/ Step("abort", handler.snap) /\ UNCHANGED exec
    /\ UNCHANGED <<session, fresh, wf, plane, held, queue, receives, unsent, dead, canceller>>

(* Mutant: the put is not conditional on PENDING. *)
RecordExecutionAnyStatus(c) ==
    /\ InHand(c, "record")
    /\ PutWorkflow(c, [handler.snap EXCEPT !.status = "RUNNING", !.arn = TRUE])
    /\ Acknowledge
    /\ fresh' = fresh \ {"worker"}
    /\ UNCHANGED <<session, workerVars, unsent, dead, canceller>>

(* SetWorkflowExecution: a whole-item put of the worker's copy, conditional *)
(* on PENDING only.  The acknowledgement can be lost.                       *)
RecordExecution(c) ==
    /\ InHand(c, "record")
    /\ wf[c].status = "PENDING"
    /\ PutWorkflow(c, [handler.snap EXCEPT !.status = "RUNNING", !.arn = TRUE])
    /\ Acknowledge \/ GiveUp
    /\ fresh' = fresh \ {"worker"}
    /\ UNCHANGED <<session, workerVars, unsent, dead, canceller>>

(* failStart: the error is returned, so the message stays on the queue.     *)
AbortExecution(c) ==
    /\ InHand(c, "abort")
    /\ "worker" \in fresh
    /\ Holds(c)
    /\ CanAbortStart(session, TypeOf[c])
    /\ Write(AbortStart(session, TypeOf[c]))
    /\ PutWorkflow(c, [handler.snap EXCEPT !.status = "FAILED"])
    /\ GiveUp
    /\ UNCHANGED <<workerVars, unsent, dead, canceller>>

(* A refusal, a conflict, a failed call or a crash anywhere in the handler. *)
HandlerFails(c) ==
    /\ queue # <<>> /\ Head(queue) = c /\ handler.pc # "idle"
    /\ GiveUp
    /\ fresh' = fresh \ {"worker"}
    /\ UNCHANGED <<session, wf, workerVars, unsent, dead, canceller>>

Dispatcher(c) ==
    \/ Receive(c) \/ DeadLetter(c) \/ Lookup(c) \/ LoadSession(c) \/ Admit(c)
    \/ StartExecution(c) \/ RecordExecution(c) \/ AbortExecution(c) \/ HandlerFails(c)

-----------------------------------------------------------------------------
(* Stages: cancellation, preparation and the host                          *)

(* The stage at which each worker calls HonorLoadedAtInitialBoundary.  The  *)
(* sleep/wake worker does so in an action no state machine ever schedules.  *)
AtBoundary(c) ==
    \/ At(c, {"Provision", "Bootstrap"}, "Prepare")
    \/ At(c, {"Archive"}, "Dispatch")
    \/ At(c, {"Restore"}, "VerifyArchive")

Proceeds(c) == Loads(c) /\ ~(AtBoundary(c) /\ wf[c].cancel)

HonorCancellation(c) ==
    /\ AtBoundary(c) /\ wf[c].cancel
    /\ Holds(c)
    /\ CanCancel(session, TypeOf[c])
    /\ Write(Cancel(session, TypeOf[c]))
    /\ CloseAs(c, "CANCELLED")
    /\ Catch(c)
    /\ UNCHANGED <<plane, held, dispatchVars, canceller>>

PrepareProvision(c) ==
    /\ At(c, {"Provision"}, "Prepare")
    /\ Proceeds(c)
    /\ IF session.life = "PROVISIONING" /\ session.infra # "none"
       THEN KeepSession
       ELSE CanReserveCapacity(session) /\ Write(ReserveCapacity(session))
    /\ Reply(c)
    /\ UNCHANGED <<wf, plane, held, dispatchVars, canceller>>

PrepareRestore(c) ==
    /\ At(c, {"Restore"}, "Prepare")
    /\ Proceeds(c)
    /\ IF session.infra # "none"
       THEN KeepSession
       ELSE Holds(c) /\ Write(RestoreCapacity(session))
    /\ Reply(c)
    /\ UNCHANGED <<wf, plane, held, dispatchVars, canceller>>

HostUp == plane = "running"
HostExists == plane \in {"running", "stopped"}

(* EnsureInstance discovers the session's instance by its tags before it    *)
(* launches one; the handler records what it finds.                         *)
EnsureHost(c) ==
    /\ At(c, {"Provision", "Restore"}, "Ensure")
    /\ Loads(c)
    /\ IF HasInstance(session)
       THEN HostExists /\ KeepSession /\ UNCHANGED plane
       ELSE /\ Holds(c)
            /\ plane' = IF HostExists THEN plane ELSE "running"
            /\ \E level \in {"instance", "complete"} :
                  Write(RecordLaunch(session, level))
    /\ Reply(c)
    /\ UNCHANGED <<wf, held, dispatchVars, canceller>>

(* The instance is launched, and the handler dies or its save is refused.   *)
LaunchUnrecorded(c) ==
    /\ At(c, {"Provision", "Restore"}, "Ensure")
    /\ Loads(c)
    /\ ~HasInstance(session) /\ ~HostExists
    /\ plane' = "running"
    /\ Catch(c) \/ UNCHANGED exec
    /\ KeepSession
    /\ UNCHANGED <<wf, held, dispatchVars, canceller>>

ObserveHost(c) ==
    /\ At(c, {"Provision", "Restore"}, "Observe")
    /\ Loads(c)
    /\ HasInstance(session) /\ HostUp
    /\ \/ session.infra = "complete" /\ KeepSession
       \/ Holds(c) /\ Write(RecordLaunch(session, "complete"))
    /\ Reply(c)
    /\ UNCHANGED <<wf, plane, held, dispatchVars, canceller>>

(* StopInstance and StartInstance: sleep, wake, and the archive of a        *)
(* sleeping session, which starts its host before the archive command.      *)
StopHost(c) ==
    /\ At(c, {"Sleep"}, "Dispatch")
    /\ Loads(c) /\ HostExists
    /\ plane' = "stopped"
    /\ Reply(c)
    /\ KeepSession
    /\ UNCHANGED <<wf, held, dispatchVars, canceller>>

StartHost(c) ==
    /\ \/ At(c, {"Wake"}, "Dispatch")
       \/ At(c, {"Archive"}, "PrepareHost") /\ session.source = "SLEEPING"
    /\ Loads(c) /\ HostExists
    /\ plane' = "running"
    /\ Reply(c)
    /\ KeepSession
    /\ UNCHANGED <<wf, held, dispatchVars, canceller>>

-----------------------------------------------------------------------------
(* Stages: commands on the host                                            *)

PrepareBootstrap(c) ==
    /\ At(c, {"Bootstrap"}, "Prepare")
    /\ Proceeds(c)
    /\ IF session.life = "INSTALLING"
       THEN KeepSession
       ELSE CanInstall(session) /\ Write(BeginInstallation(session))
    /\ Reply(c)
    /\ UNCHANGED <<wf, plane, held, dispatchVars, canceller>>

(* The bootstrap command is sent once the workflow item has been read, and  *)
(* its ID is put back with that copy: `held' until PersistDispatch.         *)
DispatchBootstrap(c) ==
    /\ At(c, {"Bootstrap"}, "Dispatch")
    /\ Loads(c)
    /\ session.life = "INSTALLING" /\ HasInstance(session)
    /\ IF wf[c].cmd
       THEN Goto(c, "Observe") /\ UNCHANGED held
       ELSE HostUp /\ Advance(c) /\ held' = [held EXCEPT ![c] = wf[c]]
    /\ KeepSession
    /\ UNCHANGED <<wf, plane, dispatchVars, canceller>>

(* Mutant: the put is not conditional on RUNNING. *)
PersistDispatchAnyStatus(c) ==
    /\ At(c, {"Bootstrap"}, "Persist")
    /\ PutWorkflow(c, [held[c] EXCEPT !.cmd = TRUE])
    /\ held' = [held EXCEPT ![c] = Absent]
    /\ Advance(c)
    /\ KeepSession
    /\ UNCHANGED <<plane, dispatchVars, canceller>>

PersistDispatch(c) ==
    /\ At(c, {"Bootstrap"}, "Persist")
    /\ wf[c].status = "RUNNING"
    /\ PutWorkflow(c, [held[c] EXCEPT !.cmd = TRUE])
    /\ held' = [held EXCEPT ![c] = Absent]
    /\ Advance(c) \/ Catch(c)
    /\ KeepSession
    /\ UNCHANGED <<plane, dispatchVars, canceller>>

(* The remaining reads, commands and polls: they record at most progress.   *)
ProgressStage(c) ==
    \/ At(c, {"Bootstrap", "Archive"}, "Observe") /\ HostUp
    \/ At(c, {"Sleep"}, "Observe") /\ plane = "stopped"
    \/ At(c, {"Wake", "Restart"}, "Observe") /\ HostUp
    \/ At(c, {"Restart"}, "Dispatch")
    \/ At(c, {"Archive"}, "PrepareHost") /\ session.source # "SLEEPING"
    \/ At(c, {"Archive", "Restore"}, "Dispatch") /\ HostUp
    \/ At(c, {"Restore"}, "VerifyArchive") /\ Archived(session)
    \/ At(c, {"Terminate"}, "DeleteObjects")
    \/ At(c, {"Bootstrap", "Wake", "Restore"}, "Rollback")

RunStage(c) ==
    /\ ProgressStage(c)
    /\ Proceeds(c)
    /\ \/ Advance(c) /\ KeepSession
       \/ Holds(c) /\ Touch /\ (Advance(c) \/ Catch(c))
    /\ UNCHANGED <<wf, plane, held, dispatchVars, canceller>>

RecordVerified(c) ==
    /\ At(c, {"Archive"}, "RecordVerified")
    /\ Loads(c)
    /\ IF session.life = "DESTROYING" /\ session.archive = c
       THEN KeepSession
       ELSE /\ Holds(c)
            /\ CanRecordArchive(session)
            /\ Write(RecordVerifiedArchive(session, c))
    /\ Reply(c)
    /\ UNCHANGED <<wf, plane, held, dispatchVars, canceller>>

(* Archive verifies what it recorded before it terminates the instance;     *)
(* termination skips an instance or a volume the session does not list.     *)
TerminateInstance(c) ==
    /\ At(c, {"Archive", "Terminate"}, "TerminateInstance")
    /\ Loads(c)
    /\ TypeOf[c] = "Archive" => session.life = "DESTROYING" /\ Archived(session)
    /\ plane' = IF HasInstance(session) /\ HostExists THEN "volume" ELSE plane
    /\ Reply(c)
    /\ KeepSession
    /\ UNCHANGED <<wf, held, dispatchVars, canceller>>

(* Mutant: the deletion is not waited for. *)
DeleteVolumeUnobserved(c) ==
    /\ At(c, {"Archive", "Terminate"}, "DeleteVolume")
    /\ Loads(c)
    /\ Reply(c)
    /\ KeepSession
    /\ UNCHANGED <<wf, plane, held, dispatchVars, canceller>>

DeleteVolume(c) ==
    /\ At(c, {"Archive", "Terminate"}, "DeleteVolume")
    /\ Loads(c)
    /\ plane' = IF session.infra = "complete" /\ plane = "volume" THEN "none" ELSE plane
    /\ Reply(c)
    /\ KeepSession
    /\ UNCHANGED <<wf, held, dispatchVars, canceller>>

-----------------------------------------------------------------------------
(* Stages: completion, the bootstrap continuation, failure                 *)

(* Wake and restart look at the host once more before they complete.       *)
CompleteStage(c) ==
    /\ exec[c] = "Complete"
    /\ Holds(c)
    /\ wf[c].status # "SUCCEEDED"
    /\ CanComplete(session, TypeOf[c])
    /\ TypeOf[c] \in {"Wake", "Restart"} => HostUp
    /\ Write(Complete(session, TypeOf[c]))
    /\ CloseAs(c, "SUCCEEDED")
    /\ Reply(c)
    /\ UNCHANGED <<plane, held, dispatchVars, canceller>>

(* Mutant: a completion is answered without a look at the record. *)
AnswersComplete(c) ==
    /\ exec[c] = "Complete"
    /\ Advance(c)
    /\ KeepSession
    /\ UNCHANGED <<wf, plane, held, dispatchVars, canceller>>

(* A retried completion finds its own record and answers from it.          *)
AlreadyComplete(c) ==
    /\ exec[c] = "Complete"
    /\ wf[c].status = "SUCCEEDED"
    /\ TypeOf[c] = "Archive" => session.archive = c
    /\ TypeOf[c] = "Restore" => session.life = "RUNNING"
    /\ TypeOf[c] = "Terminate" => session.life = "DELETED"
    /\ Advance(c)
    /\ KeepSession
    /\ UNCHANGED <<wf, plane, held, dispatchVars, canceller>>

(* ensureBootstrapContinuation: the provisioning workflow takes the lease   *)
(* again, for its bootstrap, in a transaction of its own.                   *)
ContinueProvision(c) ==
    /\ At(c, {"Provision"}, "Continue")
    /\ wf[c].status = "SUCCEEDED"
    /\ \E b \in Continues(c) :
          \/ /\ wf[b] = Absent
             /\ Unlocked(session) /\ CanBegin(session, "Bootstrap")
             /\ Write(Begin(session, b, "Bootstrap"))
             /\ PutWorkflow(b, Pending)
          \/ /\ Open(b) /\ Holds(b)
             /\ KeepSession /\ UNCHANGED wf
    /\ Reply(c)
    /\ UNCHANGED <<plane, held, dispatchVars, canceller>>

(* The state machine sends the continuation command itself; the message is  *)
(* deduplicated by the workflow ID.                                         *)
EnqueueContinuation(c) ==
    /\ At(c, {"Provision"}, "Enqueue")
    /\ \E b \in Continues(c) :
          /\ queue' = IF b \in unsent THEN Append(queue, b) ELSE queue
          /\ unsent' = unsent \ {b}
    /\ Reply(c)
    /\ KeepSession
    /\ UNCHANGED <<wf, plane, held, receives, dead, handler, canceller>>

(* MarkBootstrapQueueFailed: the bootstrap worker's fail action.           *)
QueueFailed(c) ==
    /\ At(c, {"Provision"}, "QueueFailed")
    /\ \E b \in Continues(c) :
          \/ /\ wf[b].status = "FAILED"
             /\ KeepSession /\ UNCHANGED wf
          \/ /\ wf[b].status # "FAILED" /\ Holds(b)
             /\ Write(Fail(session, "Bootstrap"))
             /\ CloseAs(b, "FAILED")
    /\ Reply(c)
    /\ UNCHANGED <<plane, held, dispatchVars, canceller>>

(* Provision and restore ask EC2 for an instance they have not recorded, to *)
(* decide what happens to the capacity slot: adopt it, keep the slot when   *)
(* EC2 gives no answer, or release it.                                      *)
InfraAfterFailure(k) ==
    IF k \notin {"Provision", "Restore"} \/ HasInstance(session)
    THEN {session.infra}
    ELSE {session.infra}
         \cup IF ~HostExists THEN {"none"}
              ELSE IF session.infra = "slot" THEN {"instance", "complete"} ELSE {}

FailStage(c) ==
    /\ exec[c] = "Fail"
    /\ Holds(c)
    /\ wf[c].status # "FAILED"
    /\ CanFail(session, TypeOf[c])
    /\ \E level \in InfraAfterFailure(TypeOf[c]) :
          Write(Fail([session EXCEPT !.infra = level], TypeOf[c]))
    /\ CloseAs(c, "FAILED")
    /\ Reply(c)
    /\ UNCHANGED <<plane, held, dispatchVars, canceller>>

AlreadyFailed(c) ==
    /\ exec[c] = "Fail"
    /\ \/ /\ wf[c].status = "FAILED"
          /\ TypeOf[c] \in {"Archive", "Restore", "Terminate"} => Loads(c)
       \/ /\ TypeOf[c] = "Terminate"
          /\ wf[c].status = "SUCCEEDED" /\ session.life = "DELETED"
    /\ Advance(c)
    /\ KeepSession
    /\ UNCHANGED <<wf, plane, held, dispatchVars, canceller>>

(* Any other end of a task: a guard that refused, a failed call, a version  *)
(* conflict, a poll that gave up.                                           *)
StageFails(c) ==
    /\ Running(c)
    /\ Catch(c)
    /\ held' = [held EXCEPT ![c] = Absent]
    /\ KeepSession
    /\ UNCHANGED <<wf, plane, dispatchVars, canceller>>

(* The state machine's own timeout, or an operator's abort.                *)
ExecutionAborted(c) ==
    /\ Running(c)
    /\ Goto(c, "failed")
    /\ held' = [held EXCEPT ![c] = Absent]
    /\ KeepSession
    /\ UNCHANGED <<wf, plane, dispatchVars, canceller>>

Stage(c) ==
    \/ HonorCancellation(c)
    \/ PrepareProvision(c) \/ PrepareRestore(c) \/ EnsureHost(c) \/ LaunchUnrecorded(c)
    \/ ObserveHost(c) \/ StopHost(c) \/ StartHost(c)
    \/ PrepareBootstrap(c) \/ DispatchBootstrap(c) \/ PersistDispatch(c) \/ RunStage(c)
    \/ RecordVerified(c) \/ TerminateInstance(c) \/ DeleteVolume(c)
    \/ CompleteStage(c) \/ AlreadyComplete(c)
    \/ ContinueProvision(c) \/ EnqueueContinuation(c) \/ QueueFailed(c)
    \/ FailStage(c) \/ AlreadyFailed(c) \/ StageFails(c)

-----------------------------------------------------------------------------
(* Cancellation requests                                                   *)

NoRequest == [w |-> NoWorkflow, snap |-> Absent]

RequestCancellation(c) ==
    /\ canceller = NoRequest
    /\ c \in Cancellable
    /\ Holds(c)
    /\ Open(c) /\ ~wf[c].cancel
    /\ canceller' = [w |-> c, snap |-> [wf[c] EXCEPT !.cancel = TRUE]]
    /\ UNCHANGED <<session, fresh, wf, workerVars, dispatchVars>>

(* Mutant: the put is not conditional on the status that was read. *)
SaveCancellationAnyStatus(c) ==
    /\ canceller.w = c
    /\ ~wf[c].cancel
    /\ PutWorkflow(c, canceller.snap)
    /\ canceller' = NoRequest
    /\ UNCHANGED <<session, fresh, workerVars, dispatchVars>>

(* SaveWorkflowCancellation: a whole-item put, conditional on the status    *)
(* that was read and on no earlier request.                                 *)
SaveCancellation(c) ==
    /\ canceller.w = c
    /\ wf[c].status = canceller.snap.status /\ ~wf[c].cancel
    /\ PutWorkflow(c, canceller.snap)
    /\ canceller' = NoRequest
    /\ UNCHANGED <<session, fresh, workerVars, dispatchVars>>

CancellationLost(c) ==
    /\ canceller.w = c
    /\ canceller' = NoRequest
    /\ UNCHANGED <<session, fresh, wf, workerVars, dispatchVars>>

-----------------------------------------------------------------------------
(* The lease and the reconciler                                            *)

(* Time passes the lease's expiry; nobody writes the item.                 *)
ExpireLease ==
    /\ session.lease = "live"
    /\ session' = [session EXCEPT !.lease = "expired"]
    /\ UNCHANGED <<fresh, wf, workerVars, dispatchVars, canceller>>

(* inspectWorkflow, for the findings that are repaired: a terminal workflow *)
(* that kept an expired lease, a missing execution ARN, an execution that   *)
(* failed or no longer exists.  A live execution, and one that succeeded,   *)
(* are left alone.                                                          *)
Repairable(c) ==
    \/ wf[c].status \in Terminal
    \/ ~wf[c].arn
    \/ exec[c] \in {"none", "failed"}

Inspect(c) ==
    /\ "reconciler" \notin fresh
    /\ Holds(c) /\ session.lease = "expired"
    /\ wf[c] # Absent /\ Repairable(c)
    /\ fresh' = fresh \cup {"reconciler"}
    /\ UNCHANGED <<session, wf, workerVars, dispatchVars, canceller>>

Repair(c) ==
    /\ "reconciler" \in fresh
    /\ Holds(c)
    /\ CanFail(session, session.kind)
    /\ Write(Fail(session, session.kind))
    /\ CloseAs(c, "FAILED")
    /\ UNCHANGED <<workerVars, dispatchVars, canceller>>

ReconcilerFails ==
    /\ "reconciler" \in fresh
    /\ fresh' = fresh \ {"reconciler"}
    /\ UNCHANGED <<session, wf, workerVars, dispatchVars, canceller>>

-----------------------------------------------------------------------------
(* Writers that never hold the lease                                       *)

(* A description, a mission, a rejected upload, allowed under a lease too:  *)
(* to the workflows only the version they consume matters, and only to      *)
(* somebody who has read the row.                                          *)
MetadataWrite ==
    /\ fresh # {}
    /\ session.life # "DELETED"
    /\ Touch
    /\ UNCHANGED <<wf, workerVars, dispatchVars, canceller>>

ConfigureDraft ==
    /\ CanConfigure(session)
    /\ \E ready \in BOOLEAN : Write(Configure(session, ready))
    /\ UNCHANGED <<wf, workerVars, dispatchVars, canceller>>

StartProbe ==
    /\ CanBeginMonitoring(session)
    /\ Write(BeginMonitoring(session))
    /\ UNCHANGED <<wf, workerVars, dispatchVars, canceller>>

FinishProbe ==
    /\ session.life = "RUNNING" /\ session.probe
    /\ \E verdict \in {"HEALTHY", "UNHEALTHY"} :
          Write(CompleteMonitoring(session, verdict))
    /\ UNCHANGED <<wf, workerVars, dispatchVars, canceller>>

-----------------------------------------------------------------------------
(* A running or sleeping session may have been restored from an archive,    *)
(* whose metadata it keeps.                                                *)
EarlierArchives(life) ==
    CASE life \in {"DRAFT", "NEW"} -> {NoWorkflow}
      [] life = "ARCHIVED"         -> {EarlierArchive}
      [] OTHER                     -> {NoWorkflow, EarlierArchive}

InitialSession(life, archive) ==
    [life |-> life,
     health |-> CASE life = "RUNNING" -> "HEALTHY"
                  [] life \in {"SLEEPING", "ARCHIVED"} -> "STOPPED"
                  [] OTHER -> "UNKNOWN",
     lock |-> NoWorkflow, kind |-> "none", lease |-> "none", source |-> "none",
     infra |-> IF life \in {"RUNNING", "SLEEPING"} THEN "complete" ELSE "none",
     archive |-> archive,
     asleep |-> life = "SLEEPING",
     lastKind |-> "none", progress |-> "none", probe |-> FALSE]

Init ==
    /\ \E scenario \in Scenarios :
          /\ unsent = scenario.commands
          /\ \E archive \in EarlierArchives(scenario.life) :
                session = InitialSession(scenario.life, archive)
    /\ fresh = {}
    /\ wf = [c \in Workflows |-> Absent]
    /\ exec = [c \in Workflows |-> "none"]
    /\ plane = CASE session.life = "RUNNING"  -> "running"
                 [] session.life = "SLEEPING" -> "stopped"
                 [] OTHER -> "none"
    /\ held = [c \in Workflows |-> Absent]
    /\ queue = <<>> /\ receives = 0
    /\ dead = {}
    /\ handler = Idle
    /\ canceller = NoRequest

Next ==
    \/ \E c \in Workflows :
          \/ Submit(c) \/ Redrive(c)
          \/ Dispatcher(c)
          \/ Stage(c) \/ ExecutionAborted(c)
          \/ RequestCancellation(c) \/ SaveCancellation(c) \/ CancellationLost(c)
          \/ Inspect(c) \/ Repair(c)
    \/ ExpireLease \/ ReconcilerFails
    \/ MetadataWrite \/ ConfigureDraft \/ StartProbe \/ FinishProbe

Spec == Init /\ [][Next]_vars

(* SQS delivers: the command worker's event source receives from the one     *)
(* message group, and each invocation ends.  Nothing is assumed of the       *)
(* machines, whose polls are not all bounded, nor of the reconciler, which   *)
(* sees one page of sessions and stops at the first that it cannot repair.   *)
Fairness == WF_vars(\E c \in Workflows : Dispatcher(c))

FairSpec == Spec /\ Fairness

-----------------------------------------------------------------------------
(* Properties                                                              *)

TypeOK ==
    /\ session \in Session
    /\ fresh \subseteq {"worker", "reconciler"}
    /\ wf \in [Workflows -> WorkflowItem]
    /\ exec \in [Workflows -> ExecStates]
    /\ \A c \in Workflows : exec[c] \in StatesOf(TypeOf[c])
    /\ plane \in {"none", "running", "stopped", "volume"}
    /\ held \in [Workflows -> WorkflowItem]
    /\ queue \in Seq(Workflows)
    /\ receives \in 0..MaxReceive
    /\ unsent \subseteq Workflows
    /\ dead \subseteq Workflows
    /\ handler \in [pc: {"idle", "lookup", "load", "admit", "start", "record", "abort"},
                    snap: WorkflowItem]
    /\ canceller \in [w: Workflows \cup {NoWorkflow}, snap: WorkflowItem]

(* The session row and the workflow rows are written by different           *)
(* statements: a workflow item is open exactly while the session names it   *)
(* as the holder of the lease, under the type it was started with.          *)
LeaseAgreement ==
    \A c \in Workflows :
        /\ Open(c) <=> Holds(c)
        /\ Holds(c) => session.kind = TypeOf[c]

PhasesOf ==
    [k \in Kinds |->
        CASE k = "Provision" -> {"VALIDATING", "PROVISIONING"}
          [] k = "Bootstrap" -> {"BOOTSTRAPPING", "INSTALLING"}
          [] k = "Sleep"     -> {"STOPPING"}
          [] k = "Wake"      -> {"WAKING"}
          [] k = "Restart"   -> {"RESTARTING"}
          [] k = "Archive"   -> {"ARCHIVING", "DESTROYING"}
          [] k = "Restore"   -> {"RESTORING"}
          [] k = "Terminate" -> {"DELETING"}]

(* A lifecycle that a workflow is driving is never left without that        *)
(* workflow, except for those that a refused start leaves behind.           *)
LifecycleIsDriven ==
    IF Unlocked(session)
    THEN session.life \in RestingStates \cup {"DELETED", "FAILED",
                                                "BOOTSTRAPPING", "INSTALLING", "STOPPING"}
    ELSE session.life \in PhasesOf[session.kind]

(* Every row that the handlers leave passes Session.Validate, which the     *)
(* repository runs before each write: no handler can wedge on it.           *)
SessionIsValid == Valid(session)

(* Whoever holds the lease, at whatever stage, it can be taken from him:     *)
(* neither the failure that the reconciler would record, nor Validate on    *)
(* the row that it leaves, refuses.  A row that could not be failed would    *)
(* keep its lease for ever, however often it is inspected.                   *)
LeaseIsRepairable ==
    ~Unlocked(session) => /\ CanFail(session, session.kind)
                          /\ Valid(Fail(session, session.kind))

(* The recorded infrastructure agrees with the lifecycle it is used in.     *)
InfrastructureIsRecorded ==
    /\ session.life \in {"RUNNING", "SLEEPING", "ARCHIVING", "DESTROYING", "INSTALLING"}
          => session.infra = "complete"
    /\ session.life \in {"DRAFT", "NEW", "ARCHIVED", "DELETED"} => session.infra = "none"
    /\ session.life \in {"ARCHIVED", "DESTROYING"} => Archived(session)

(* Between workflows the host is where the lifecycle says: up under a       *)
(* running session, kept under a sleeping one, gone under an archived one   *)
(* and not yet there under a new one.  A session that is NEW once more and  *)
(* still has an archive is left out: a restore that was given up as failed  *)
(* passes its load guard whenever the session has failed again, so that it  *)
(* can launch a host after later workflows have removed theirs.             *)
HostMatchesLifecycle ==
    /\ session.life = "RUNNING" => HostUp
    /\ session.life = "SLEEPING" => HostExists
    /\ session.life = "ARCHIVED" => plane = "none"
    /\ session.life \in {"DRAFT", "NEW"} /\ ~Archived(session) => plane = "none"

(* The load guards fence off the executions that outlive their lease: while *)
(* a workflow holds it, no other execution gets past its load, so only the  *)
(* holder touches the host.                                                *)
LeaseFencesWorkers ==
    ~Unlocked(session) => \A c \in Workflows : Running(c) /\ Loads(c) => Holds(c)

(* An execution that ends as a success has closed its workflow: the         *)
(* reconciler only reports the ones that did not, and never repairs them.   *)
SucceededIsRecorded ==
    \A c \in Workflows : exec[c] = "succeeded" => ~Open(c)

(* Once there is any, the players' data outlives everything but a           *)
(* termination: on the data volume, or in a recorded archive.              *)
DataSurvives ==
    \/ session.life \in {"DRAFT", "NEW"}
    \/ \E c \in Workflows : TypeOf[c] \in {"Provision", "Terminate"} /\ wf[c] # Absent
    \/ plane # "none" \/ Archived(session)

(* A workflow ends once.  Stale copies of its item are put back by the      *)
(* dispatcher, the bootstrap worker and the cancellation API, and none of   *)
(* them may reopen it or change how it ended.                              *)
TerminalIsFinal ==
    [][\A c \in Workflows :
          wf[c].status \in Terminal => wf'[c].status = wf[c].status]_vars

(* An archive destroys the host only when the archive that the session      *)
(* records is its own, also when an earlier one is still recorded.          *)
DestroyedOnlyVerified ==
    [][(HostExists /\ plane' \in {"volume", "none"}) =>
          \E c \in Workflows :
             /\ exec[c] = "TerminateInstance"
             /\ \/ TypeOf[c] = "Terminate"
                \/ TypeOf[c] = "Archive" /\ session.archive = c]_vars

(* A deleted session is a tombstone: no late worker, probe or command       *)
(* changes anything of it.                                                 *)
DeletedIsFinal == [][session.life = "DELETED" => session' = session]_vars

(* No command blocks the message group for ever: messages keep leaving the  *)
(* head of the queue until there are none.                                 *)
CommandSettles == []<>(queue = <<>>) \/ []<><<queue # <<>> /\ queue' = Tail(queue)>>_vars

-----------------------------------------------------------------------------
(* The abstract lease that all of this implements                          *)

Lease == INSTANCE WorkflowLease WITH
            holder <- session.lock,
            status <- [c \in Workflows |->
                          IF wf[c].status = "absent" THEN "absent"
                          ELSE IF Open(c) THEN "open" ELSE "closed"]

LeaseSpec == Lease!Spec
=============================================================================
