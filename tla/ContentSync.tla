----------------------------- MODULE ContentSync ------------------------------
(***************************************************************************)
(* Mod revisions, Workshop missions and the synchronisation that carries   *)
(* them to a live host.                                                    *)
(*                                                                         *)
(* A resolution or an upload stages a pending mod revision under the       *)
(* active one.  A restart, a wake or a bootstrap marks it APPLYING under   *)
(* its own lock, has the host install it, and promotes it when the server  *)
(* is healthy.  In between, a live synchronisation takes the same lock,    *)
(* sends one command to the host, and is closed by whoever comes first:    *)
(* the callback of the command, the scheduled scan, or its own start.      *)
(*                                                                         *)
(* A revision is its number and a mission snapshot is its number too: two  *)
(* resolutions never give the same digest here.  The server-only revision  *)
(* follows the same code and is left out.                                  *)
(***************************************************************************)
EXTENDS Naturals, FiniteSets

CONSTANTS
    Syncs,          \* live synchronisations, by idempotency key
    Operations,     \* lifecycle operations, by workflow ID
    NoWorkflow,
    InitialLives,   \* where the session may stand: RUNNING, SLEEPING
    MaxRevision,    \* bound on the revisions staged
    MaxSnapshot     \* bound on the mission snapshots resolved

ASSUME ContentAssumption ==
    /\ Syncs \subseteq Nat /\ Operations \subseteq Nat /\ Syncs \cap Operations = {}
    /\ InitialLives \subseteq {"RUNNING", "SLEEPING"}
    /\ NoWorkflow \notin Syncs \cup Operations
    /\ MaxRevision \in Nat \ {0}
    /\ MaxSnapshot \in Nat

Workflows == Syncs \cup Operations
Revisions == 0 .. MaxRevision       \* 0: none
Snapshots == 0 .. MaxSnapshot

Targets == {"mods", "mission"}
Kinds == {"Sleep", "Wake", "Restart", "Bootstrap"}

\* the age of the lock: its command is overdue at 1, its lease is over at 2
Live == 0
Overdue == 1
Expired == 2

VARIABLES
    session,    \* the stored session
    works,      \* the stored workflows
    tracked,    \* the synchronisations whose command ID is stored
    commands,   \* the managed host's commands, one per workflow
    host,       \* what the host holds
    starter     \* the artifact worker, inside a start

vars == <<session, works, tracked, commands, host, starter>>

NoRevision == [number |-> 0, status |-> "none", owner |-> NoWorkflow]
NoCommand == [state |-> "unsent", mods |-> 0, snapshot |-> 0]
Resting == [sync |-> NoWorkflow, stage |-> "none", fresh |-> FALSE]

-----------------------------------------------------------------------------
(* The session: preset_revision.go, workshop.go, session.go *)

Unlocked(s) == s.lock = NoWorkflow

ValidatePresetRevisionStaging(s) ==
    /\ Unlocked(s)
    /\ s.life \notin {"WAKING", "STOPPING"}
    /\ s.pending.status \in {"none", "FAILED"}

StagePresetRevision(s) ==
    [s EXCEPT !.pending = [number |-> s.sequence + 1, status |-> "PENDING",
                           owner |-> NoWorkflow],
              !.sequence = @ + 1]

BeginPresetRevisionApplication(s, w) ==
    IF s.pending.status # "PENDING" THEN s
    ELSE [s EXCEPT !.pending.status = "APPLYING", !.pending.owner = w]

HasApplyingPresetRevision(s, w) ==
    s.pending.status = "APPLYING" /\ s.pending.owner = w

\* Mutant: whoever holds the lock installs what is applying.
RevisionForAnyApplication(s) ==
    IF s.pending.status = "APPLYING" THEN s.pending.number ELSE s.active

PresetRevisionForApplication(s) ==
    IF HasApplyingPresetRevision(s, s.lock) THEN s.pending.number ELSE s.active

\* Mutant: the promoted revision stays pending.
PromoteKeepingPending(s, w) ==
    IF HasApplyingPresetRevision(s, w) THEN [s EXCEPT !.active = s.pending.number] ELSE s

PromotePresetRevision(s, w) ==
    IF ~HasApplyingPresetRevision(s, w) THEN s
    ELSE [s EXCEPT !.active = s.pending.number, !.pending = NoRevision]

FailPresetRevisionApplication(s, w) ==
    IF ~HasApplyingPresetRevision(s, w) THEN s
    ELSE [s EXCEPT !.pending.status = "FAILED", !.pending.owner = NoWorkflow]

\* PresetRevision.Validate, and what Session.Validate asks of the two together.
RevisionsValidate(s) ==
    LET p == s.pending IN
    /\ s.active <= s.sequence
    /\ p.number # 0 => s.active < p.number /\ p.number <= s.sequence
    /\ p.status = "none" <=> p.number = 0
    /\ p.status = "APPLYING" <=> p.owner # NoWorkflow

CanChangeWorkshopSources(s) == Unlocked(s) /\ s.life \in {"RUNNING", "SLEEPING", "FAILED"}

PendingWorkshopMissions(s) ==
    IF s.snapshot = 0 \/ s.snapshot \in s.attached THEN {} ELSE {s.snapshot}

AcquireWorkflowLock(s, w) == [s EXCEPT !.lock = w, !.age = Live]
ReleaseWorkflowLock(s) == [s EXCEPT !.lock = NoWorkflow, !.age = Live]
WithWorkshopMissions(s, missions) == [s EXCEPT !.attached = @ \cup missions]

ContentDigestMatches(s, target, content) ==
    IF target = "mission" THEN content = s.snapshot
    ELSE content # 0 /\ content \in {s.pending.number, s.active}

\* The strict manifest parser accepts what the host has published only.
ManifestIsComplete(s) == PendingWorkshopMissions(s) \subseteq host.manifests

-----------------------------------------------------------------------------
Init ==
    /\ \E life \in InitialLives :
         /\ session = [life |-> life, lock |-> NoWorkflow, age |-> Live,
                       active |-> 1, pending |-> NoRevision, sequence |-> 1,
                       snapshot |-> 0, attached |-> {}]
         /\ host = [linked |-> 1, running |-> IF life = "RUNNING" THEN 1 ELSE 0,
                    manifests |-> {}]
    /\ works = [w \in Workflows |-> [status |-> "none", type |-> "none", content |-> 0,
                                     stage |-> "none"]]
    /\ tracked = {}
    /\ commands = [w \in Workflows |-> NoCommand]
    /\ starter = Resting

\* Identifiers are unique and opaque: they are taken in order.
IsNext(w, all) == works[w].status = "none" /\ \A v \in all : v < w => works[v].status # "none"

\* Every stored mutation of the session gives it another version.
Save(s) == session' = s /\ starter' = [starter EXCEPT !.fresh = FALSE]

-----------------------------------------------------------------------------
(* Content that is accepted *)

\* An upload that is processed, or a Workshop mod source that is recorded.
StageRevision ==
    /\ ValidatePresetRevisionStaging(session) /\ session.sequence < MaxRevision
    /\ Save(StagePresetRevision(session))
    /\ UNCHANGED <<works, tracked, commands, host>>

RecordWorkshopMissionSource ==
    /\ CanChangeWorkshopSources(session) /\ session.snapshot < MaxSnapshot
    /\ Save([session EXCEPT !.snapshot = @ + 1])
    /\ UNCHANGED <<works, tracked, commands, host>>

\* A mission upload, an edit: the lock does not keep every writer away.
Touch ==
    /\ starter.fresh
    /\ Save(session)
    /\ UNCHANGED <<works, tracked, commands, host>>

-----------------------------------------------------------------------------
(* The live synchronisation: workshopcontent/service.go *)

Start(k, target) ==
    LET content == IF target = "mission" THEN session.snapshot
                   ELSE IF session.pending.number # 0 THEN session.pending.number
                   ELSE session.active
    IN  /\ starter.stage = "none"
        /\ IsNext(k, Syncs) /\ content # 0
        /\ ContentDigestMatches(session, target, content)
        /\ session.life = "RUNNING"
        /\ Unlocked(session) \/ session.age = Expired
        /\ session' = AcquireWorkflowLock(session, k)
        /\ works' = [works EXCEPT ![k] = [status |-> "RUNNING", type |-> target,
                                          content |-> content, stage |-> "none"]]
        /\ starter' = [sync |-> k, stage |-> "acquired", fresh |-> TRUE]
        /\ UNCHANGED <<tracked, commands, host>>

\* Mutant: what a successful command was to publish is not read again.
FinishBlindly(s, k, success) ==
    IF success /\ works[k].type = "mission"
    THEN [session |-> ReleaseWorkflowLock(WithWorkshopMissions(s, PendingWorkshopMissions(s))),
          status |-> "SUCCEEDED"]
    ELSE [session |-> ReleaseWorkflowLock(s),
          status |-> IF success THEN "SUCCEEDED" ELSE "FAILED"]

\* What finish stores: the missions are attached with the release.
Finish(s, k, success) ==
    LET mission == works[k].type = "mission"
        done == success /\ (mission => ManifestIsComplete(s))
        attached == IF done /\ mission THEN PendingWorkshopMissions(s) ELSE {}
    IN  [session |-> ReleaseWorkflowLock(WithWorkshopMissions(s, attached)),
         status |-> IF done THEN "SUCCEEDED" ELSE "FAILED"]

\* The start's own finish goes by the copy it holds.
FinishOwn(k) ==
    IF starter.fresh
    THEN LET f == Finish(session, k, FALSE)
         IN session' = f.session /\ works' = [works EXCEPT ![k].status = f.status]
    ELSE UNCHANGED <<session, works>>

ContentCommand(s) ==
    [state |-> "pending", mods |-> PresetRevisionForApplication(s), snapshot |-> s.snapshot]

\* SendCommand may report an error for a command that was accepted.
Send(k) ==
    /\ starter.stage = "acquired" /\ starter.sync = k
    /\ \E accepted, reported \in BOOLEAN :
        /\ reported => accepted
        /\ commands' = IF accepted THEN [commands EXCEPT ![k] = ContentCommand(session)]
                       ELSE commands
        /\ IF reported
           THEN starter' = [starter EXCEPT !.stage = "sent"] /\ UNCHANGED <<session, works>>
           ELSE starter' = Resting /\ FinishOwn(k)
    /\ UNCHANGED <<tracked, host>>

\* SetWorkflowExecution, or the cancellation of a command it cannot record.
Track(k) ==
    /\ starter.stage = "sent" /\ starter.sync = k
    /\ starter' = Resting
    /\ \/ /\ works[k].status = "RUNNING"
          /\ tracked' = tracked \cup {k}
          /\ UNCHANGED <<session, works, commands, host>>
       \/ /\ commands' = IF commands[k].state = "pending"
                         THEN [commands EXCEPT ![k].state = "failed"] ELSE commands
          /\ FinishOwn(k)
          /\ UNCHANGED <<tracked, host>>
       \/ UNCHANGED <<session, works, tracked, commands, host>>    \* CancelCommand failed

\* The invocation dies; its message is delivered again and finds the workflow.
Crash ==
    /\ starter.stage # "none"
    /\ starter' = Resting
    /\ UNCHANGED <<session, works, tracked, commands, host>>

CommandEnded(w) == commands[w].state \in {"success", "failed"}

Close(k, success) ==
    LET f == Finish(session, k, success)
    IN  /\ Save(f.session)
        /\ works' = [works EXCEPT ![k].status = f.status]
        /\ tracked' = tracked \cup {k}

CanClose(k) ==
    /\ works[k].status = "RUNNING" /\ session.lock = k
    /\ ContentDigestMatches(session, works[k].type, works[k].content)

\* The callback of a command that has ended, and the scan's look at it.
HandleTerminal(k) ==
    /\ CanClose(k) /\ CommandEnded(k)
    /\ Close(k, commands[k].state = "success")
    /\ UNCHANGED <<commands, host>>

\* A command that is found for a workflow without its ID is recorded before it
\* is looked at, and stays recorded when it has not ended or cannot be closed.
TrackFound(k) ==
    /\ CanClose(k) /\ k \notin tracked /\ commands[k].state # "unsent"
    /\ tracked' = tracked \cup {k}
    /\ UNCHANGED <<session, works, commands, host, starter>>

\* The scan cancels an overdue command whose ID is stored.
CancelOverdue(k) ==
    /\ CanClose(k) /\ k \in tracked /\ ~CommandEnded(k) /\ session.age # Live
    /\ commands' = [commands EXCEPT ![k].state = "failed"]
    /\ Close(k, FALSE)
    /\ UNCHANGED host

\* The workflow was read without a command ID, and the lease is over.
Abandon(k) ==
    /\ session.lock = k /\ works[k].status = "RUNNING"
    /\ k \notin tracked /\ ~CommandEnded(k) /\ session.age = Expired

\* FailActiveWorkflowForReconciliation of a type that is no lifecycle kind; a
\* command that is still found is recorded in the same pass.
ReconcileAbandoned(k) ==
    /\ Abandon(k)
    /\ Save(ReleaseWorkflowLock(session))
    /\ works' = [works EXCEPT ![k].status = "FAILED"]
    /\ \/ UNCHANGED tracked
       \/ commands[k].state # "unsent" /\ tracked' = tracked \cup {k}
    /\ UNCHANGED <<commands, host>>

ReconcileActive(k) ==
    TrackFound(k) \/ HandleTerminal(k) \/ CancelOverdue(k) \/ ReconcileAbandoned(k)

-----------------------------------------------------------------------------
(* Lifecycle operations: domain/sleepwake.go, bootstrap.go, sleepwake/service.go *)

Source == [Sleep |-> "RUNNING", Restart |-> "RUNNING", Wake |-> "SLEEPING",
           Bootstrap |-> "FAILED"]
Transition == [Sleep |-> "STOPPING", Restart |-> "RESTARTING", Wake |-> "WAKING",
               Bootstrap |-> "BOOTSTRAPPING"]

Begin(w, kind) ==
    LET locked == AcquireWorkflowLock([session EXCEPT !.life = Transition[kind]], w)
    IN  /\ IsNext(w, Operations) /\ Unlocked(session) /\ session.life = Source[kind]
        /\ Save(IF kind = "Sleep" THEN locked ELSE BeginPresetRevisionApplication(locked, w))
        /\ works' = [works EXCEPT ![w] = [status |-> "RUNNING", type |-> kind, content |-> 0,
                                          stage |-> "begun"]]
        /\ UNCHANGED <<tracked, commands, host>>

Holds(w) == session.lock = w /\ works[w].status = "RUNNING"

\* A cancellation is honoured before the first external step; a restart's never.
CancelWorkflowAtSafeBoundary(w) ==
    /\ Holds(w) /\ works[w].stage = "begun" /\ works[w].type # "Restart"
    /\ Save(ReleaseWorkflowLock([session EXCEPT !.life = Source[works[w].type]]))
    /\ works' = [works EXCEPT ![w].status = "CANCELLED"]
    /\ UNCHANGED <<tracked, commands, host>>

NeedsContent(s, w) ==
    \/ works[w].type \in {"Restart", "Bootstrap"}
    \/ /\ works[w].type = "Wake"
       /\ PendingWorkshopMissions(s) # {} \/ HasApplyingPresetRevision(s, w)

\* The instance starts with the links it has; then the content command is sent.
Dispatch(w) ==
    /\ Holds(w) /\ works[w].stage = "begun"
    /\ works' = [works EXCEPT ![w].stage = "dispatched"]
    /\ host' = IF works[w].type = "Wake" THEN [host EXCEPT !.running = host.linked] ELSE host
    /\ commands' = IF NeedsContent(session, w)
                   THEN [commands EXCEPT ![w] = ContentCommand(session)]
                   ELSE commands
    /\ UNCHANGED <<session, tracked, starter>>

CompleteRunning(w) ==
    /\ Holds(w) /\ works[w].type # "Sleep" /\ works[w].stage = "dispatched"
    /\ commands[w].state = "success" \/ (commands[w].state = "unsent" /\ ~NeedsContent(session, w))
    /\ host.running # 0                     \* the health check
    /\ ManifestIsComplete(session)
    /\ Save(LET s == WithWorkshopMissions(session, PendingWorkshopMissions(session))
            IN  ReleaseWorkflowLock([PromotePresetRevision(s, w) EXCEPT !.life = "RUNNING"]))
    /\ works' = [works EXCEPT ![w].status = "SUCCEEDED"]
    /\ UNCHANGED <<tracked, commands, host>>

\* The instance has stopped, and with it what its commands were doing.
CompleteSleep(w) ==
    /\ Holds(w) /\ works[w].type = "Sleep" /\ works[w].stage = "dispatched"
    /\ Save(ReleaseWorkflowLock([session EXCEPT !.life = "SLEEPING"]))
    /\ works' = [works EXCEPT ![w].status = "SUCCEEDED"]
    /\ host' = [host EXCEPT !.running = 0]
    /\ commands' = [v \in Workflows |->
                      IF commands[v].state = "pending"
                      THEN [commands[v] EXCEPT !.state = "failed"] ELSE commands[v]]
    /\ UNCHANGED tracked

\* The host goes back to the active revision, or does not.
Rollback(w) ==
    /\ Holds(w) /\ works[w].type \in {"Wake", "Bootstrap"}
    /\ works[w].stage = "dispatched" /\ CommandEnded(w)
    /\ HasApplyingPresetRevision(session, w)
    /\ works' = [works EXCEPT ![w].stage = "rolled back"]
    /\ \E linked \in {host.linked, session.active} :
         \E running \in {0, linked} :
           host' = [host EXCEPT !.linked = linked, !.running = running]
    /\ UNCHANGED <<session, tracked, commands, starter>>

FailSleepWake(w) ==
    /\ Holds(w)
    /\ Save(ReleaseWorkflowLock(
              [FailPresetRevisionApplication(session, w) EXCEPT !.life = "FAILED"]))
    /\ works' = [works EXCEPT ![w].status = "FAILED"]
    /\ UNCHANGED <<tracked, commands, host>>

\* The scan fails an operation whose lease is over: FailSleepWake reverts the
\* revision of a restart, FailBootstrap and a wake's FailSleepWake do not.
ReconcileOperation(w) ==
    /\ Holds(w) /\ session.age = Expired
    /\ Save(ReleaseWorkflowLock(
              [(IF works[w].type = "Restart" THEN FailPresetRevisionApplication(session, w)
                ELSE session) EXCEPT !.life = "FAILED"]))
    /\ works' = [works EXCEPT ![w].status = "FAILED"]
    /\ UNCHANGED <<tracked, commands, host>>

-----------------------------------------------------------------------------
(* The host and the clock: external *)

\* The manifests after a success: the one it published may not be valid.
Published(w) ==
    {host.manifests, IF commands[w].snapshot = 0 THEN host.manifests
                     ELSE host.manifests \cup {commands[w].snapshot}}

\* The host lock serialises the commands: one takes effect as a whole, and an
\* operation's command that a later one's has overtaken gives up.
Ended(w, outcome) ==
    [v \in Workflows |->
        IF v = w THEN [commands[v] EXCEPT !.state = outcome]
        ELSE IF w \in Operations /\ v \in Operations /\ v < w /\ commands[v].state = "pending"
        THEN [commands[v] EXCEPT !.state = "failed"]
        ELSE commands[v]]

\* A stage-only command leaves the links alone; an installing one switches
\* them, and when it fails may have done part of it.
Effects(w, success) ==
    CASE w \in Syncs ->
           IF ~success \/ works[w].type # "mission" THEN {host}
           ELSE {[host EXCEPT !.manifests = ms] : ms \in Published(w)}
      [] w \in Operations /\ success ->
           {[linked |-> commands[w].mods, running |-> commands[w].mods, manifests |-> ms] :
              ms \in Published(w)}
      [] OTHER ->
           {[host EXCEPT !.linked = linked, !.running = running] :
              linked \in {host.linked, commands[w].mods},
              running \in {0, host.running, commands[w].mods}}

EndCommand(w) ==
    /\ commands[w].state = "pending"
    /\ \E success \in BOOLEAN :
        /\ commands' = Ended(w, IF success THEN "success" ELSE "failed")
        /\ host' \in Effects(w, success)
    /\ UNCHANGED <<session, works, tracked, starter>>

\* An invocation lasts minutes, a lock's command and its lease hours.
Age ==
    /\ ~Unlocked(session) /\ session.age # Expired /\ starter.stage = "none"
    /\ session' = [session EXCEPT !.age = IF session.lock \in Syncs THEN @ + 1 ELSE Expired]
    /\ UNCHANGED <<works, tracked, commands, host, starter>>

-----------------------------------------------------------------------------
Accept == StageRevision \/ RecordWorkshopMissionSource \/ Touch

\* A start goes on, or its invocation dies.
Invocation == Crash \/ \E k \in Syncs : Send(k) \/ Track(k)

Synchronise ==
    \/ Invocation
    \/ \E k \in Syncs :
        \/ \E target \in Targets : Start(k, target)
        \/ ReconcileActive(k)

Operate ==
    \E w \in Operations :
        \/ \E kind \in Kinds : Begin(w, kind)
        \/ CancelWorkflowAtSafeBoundary(w)
        \/ Dispatch(w)
        \/ CompleteRunning(w)
        \/ CompleteSleep(w)
        \/ Rollback(w)
        \/ FailSleepWake(w)
        \/ ReconcileOperation(w)

Environment == Age \/ \E w \in Workflows : EndCommand(w)

Next == Accept \/ Synchronise \/ Operate \/ Environment

Spec == Init /\ [][Next]_vars

-----------------------------------------------------------------------------
\* Every variable has its type.
TypeOK ==
    /\ session \in [life : {"RUNNING", "SLEEPING", "FAILED", "STOPPING", "RESTARTING",
                            "WAKING", "BOOTSTRAPPING"},
                    lock : Workflows \cup {NoWorkflow}, age : {Live, Overdue, Expired},
                    active : Revisions,
                    pending : [number : Revisions,
                               status : {"none", "PENDING", "APPLYING", "FAILED"},
                               owner : Workflows \cup {NoWorkflow}],
                    sequence : Revisions, snapshot : Snapshots,
                    attached : SUBSET Snapshots]
    /\ works \in [Workflows -> [status : {"none", "RUNNING", "SUCCEEDED", "FAILED", "CANCELLED"},
                                type : {"none"} \cup Targets \cup Kinds,
                                content : Nat,
                                stage : {"none", "begun", "dispatched", "rolled back"}]]
    /\ tracked \in SUBSET Syncs
    /\ commands \in [Workflows -> [state : {"unsent", "pending", "success", "failed"},
                                   mods : Revisions, snapshot : Snapshots]]
    /\ host \in [linked : Revisions, running : Revisions,
                 manifests : SUBSET Snapshots]
    /\ starter \in [sync : Syncs \cup {NoWorkflow}, stage : {"none", "acquired", "sent"},
                    fresh : BOOLEAN]

\* Session.Validate runs before every save: a session whose revisions broke one
\* of its clauses could never be stored again, not even to release its lock.
RevisionsAreValid == RevisionsValidate(session)

\* A server that runs, runs the revision the session calls active: whatever was
\* cancelled, reconciled, rolled back or left applying on the way.
ActiveIsInstalled == session.life = "RUNNING" => host.running = session.active

\* A mission is listed as accepted once the host has published it, although the
\* snapshot may have moved on while the command ran.
AttachedMissionsAreOnHost == session.attached \subseteq host.manifests
=============================================================================
