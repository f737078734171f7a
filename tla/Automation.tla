------------------------------ MODULE Automation ------------------------------
(***************************************************************************)
(* The five-minute monitor and the commands it sends on its own: automatic *)
(* sleep of an empty server, automatic archive of a sleeping one, and      *)
(* automatic destruction of a creation that failed.                        *)
(*                                                                         *)
(* The monitor saves under the version its scan read, but it enqueues      *)
(* under none, so that what it asks for may be stale long before the       *)
(* command worker sees it: players come back, an administrator adds time,  *)
(* the owner wakes or restarts the host.  The worker therefore evaluates   *)
(* the request again.                                                      *)
(*                                                                         *)
(* The session and its transitions are those of SessionLifecycle; this     *)
(* module adds the clock and the timestamps they leave out.  A workflow is *)
(* one step of Work per stage, and its worker is assumed to hold the lease *)
(* throughout (SessionWorkflows is about when it does not).                *)
(***************************************************************************)
EXTENDS SessionLifecycle, Naturals, FiniteSets

CONSTANTS
    Owned,              \* identifiers of the owner's commands, a subset of Workflows
    AutomaticID(_, _),  \* the command ID of an action and a deadline
    MaxTime,            \* bound of the clock, in scan periods
    MaximumActivityEvidenceAge,
    SleepAfter, ArchiveAfter, Lifetime,    \* SleepAfterSeconds, ..., MaximumDuration
    Extension, MaxSleepAfter,              \* what an administrator adds, and the cap
    EarlyWarning, LateWarning,             \* remaining time of warning levels 1 and 2
    Scenarios           \* TRUE: the server is up; FALSE: its creation has failed

Deadlines == 0 .. MaxTime + MaxSleepAfter + ArchiveAfter + Lifetime + Extension
Actions == {"Sleep", "Archive", "Terminate"}

ASSUME TimesAssumption ==
    /\ {MaxTime, MaximumActivityEvidenceAge, SleepAfter, ArchiveAfter, Lifetime, Extension,
        MaxSleepAfter, EarlyWarning, LateWarning} \subseteq Nat
    /\ SleepAfter <= MaxSleepAfter
    /\ Scenarios \subseteq BOOLEAN

ASSUME AutomaticIDAssumption ==
    /\ Owned \subseteq Workflows
    /\ \A k \in Actions, d \in Deadlines : AutomaticID(k, d) \in Workflows \ Owned

Unset == MaxTime + 1    \* the zero time.Time of a timestamp
\* The deadline computed from an unset timestamp is later than any other.
Never == MaxTime + MaxSleepAfter + ArchiveAfter + Lifetime + Extension + 1

VARIABLES
    now,        \* the clock
    session,    \* the stored session
    timing,     \* the timestamps and policies stored with it
    begun,      \* the workflows that exist: a command ID is used once
    commands,   \* automatic commands sent and not admitted: queued, retried, redriven
    notices,    \* the owner warnings sent for the deadline last announced
    monitor,    \* an invocation that is giving a warning
    fresh,      \* the copy it works on has the stored version
    contrary    \* history: when the server last gave evidence that it is in use

vars == <<now, session, timing, begun, commands, notices, monitor, fresh, contrary>>

Idle == [step |-> "none"]

-----------------------------------------------------------------------------
(* Deadlines: inactivity.go *)

AutomaticSleepDeadline(t) == IF t.idle = Unset THEN Never ELSE t.idle + t.sleepAfter
AutomaticArchiveDeadline(t) ==
    IF t.sleeping = Unset THEN Never ELSE t.sleeping + t.archiveAfter

AutomaticSleepDue(s, t) ==
    /\ s.life = "RUNNING" /\ Unlocked(s)
    /\ t.known /\ ~t.players /\ t.idle # Unset
    /\ t.observed <= now /\ now - t.observed <= MaximumActivityEvidenceAge
    /\ AutomaticSleepDeadline(t) <= now

AutomaticArchiveDue(s, t) ==
    /\ s.life = "SLEEPING" /\ Unlocked(s) /\ s.infra = "complete"
    /\ AutomaticArchiveDeadline(t) <= now

(* Progress.WorkflowType is that of the last workflow only. *)
FailedInitialCreation(s, t) ==
    /\ s.life = "FAILED" /\ t.failure /\ ~Archived(s)
    /\ s.lastKind \in {"Provision", "Bootstrap"}

MaximumDeadlineDue(s, t) ==
    FailedInitialCreation(s, t) /\ Unlocked(s) /\ t.limit <= now

(* An unknown or positive count breaks the window; a known zero begins or   *)
(* continues it.                                                            *)
RecordPlayerActivity(t, answer) ==
    [t EXCEPT !.known = answer # "unknown", !.players = answer = "players",
              !.observed = now,
              !.idle = IF answer # "empty" THEN Unset
                       ELSE IF t.known /\ ~t.players /\ t.idle # Unset THEN t.idle
                       ELSE now]

-----------------------------------------------------------------------------
(* Init *)

InitialSession(up) ==
    [life |-> IF up THEN "RUNNING" ELSE "FAILED",
     health |-> IF up THEN "HEALTHY" ELSE "UNHEALTHY",
     lock |-> NoWorkflow, kind |-> "none", lease |-> "none", source |-> "none",
     infra |-> "complete", archive |-> NoWorkflow, asleep |-> FALSE,
     lastKind |-> "Bootstrap",
     progress |-> IF up THEN "completed" ELSE "action_required",
     probe |-> FALSE]

InitialTiming(up) ==
    [known |-> FALSE, players |-> FALSE,      \* PlayerCountKnown, PlayerCount > 0
     observed |-> Unset, idle |-> Unset, sleeping |-> Unset,
     sleepAfter |-> SleepAfter, archiveAfter |-> ArchiveAfter, limit |-> Lifetime,
     warned |-> Never, level |-> 0, queued |-> 0,    \* MaximumDurationWarning...
     failure |-> ~up,       \* Failure is recorded
     probed |-> FALSE]      \* the pending probe was sent to the present host

Init ==
    /\ now = 0 /\ contrary = 0
    /\ \E up \in Scenarios : session = InitialSession(up) /\ timing = InitialTiming(up)
    /\ begun = {} /\ commands = {} /\ notices = {}
    /\ monitor = Idle /\ fresh = FALSE

Tick ==
    /\ now < MaxTime
    /\ now' = now + 1
    /\ UNCHANGED <<session, timing, begun, commands, notices, monitor, fresh, contrary>>

(* Every write but the monitor's own makes the version it read stale.       *)
Write(s, t) == session' = s /\ timing' = t /\ fresh' = FALSE

-----------------------------------------------------------------------------
(* The monitor: monitoring/service.go.  It is a scheduled Lambda: an        *)
(* invocation may die, or fail and be retried, between any two of its       *)
(* calls, and overlap the next.  What it saves is saved under the version   *)
(* its scan read, so a scan and the first save are one step, and a run that *)
(* loses the version is one that did nothing.  What it sends may reach the  *)
(* worker at any later time, so a scan and a send are one step too.         *)

(* What the session is warned about, and how urgently. *)
WarnedDeadline(s, t) ==
    CASE FailedInitialCreation(s, t) -> t.limit
      [] s.life = "RUNNING" /\ t.known /\ ~t.players -> AutomaticSleepDeadline(t)
      [] s.life = "SLEEPING" -> AutomaticArchiveDeadline(t)
      [] OTHER -> Never

WarningLevel(deadline) ==
    IF deadline = Never \/ deadline <= now \/ deadline - now > EarlyWarning THEN 0
    ELSE IF deadline - now > LateWarning THEN 1 ELSE 2

WarningDue(s, t) ==
    LET level == WarningLevel(WarnedDeadline(s, t))
    IN level > 0 /\ ~(t.warned = WarnedDeadline(s, t) /\ t.queued >= level)

(* Mutant: the queued level of an earlier deadline is kept. *)
LeveledKeepingQueued(t, deadline, level) ==
    IF t.warned = deadline /\ t.level >= level THEN t
    ELSE [t EXCEPT !.warned = deadline, !.level = level]

Leveled(t, deadline, level) ==
    IF t.warned = deadline /\ t.level >= level THEN t
    ELSE [t EXCEPT !.warned = deadline, !.level = level, !.queued = 0]

(* warnIfDue in three calls: the level is saved unless an earlier run saved *)
(* it, the notice is sent, and that it was sent is saved.                   *)
WarnIfDue ==
    LET deadline == WarnedDeadline(session, timing)
        level == WarningLevel(deadline)
    IN /\ monitor = Idle
       /\ WarningDue(session, timing)
       /\ timing' = Leveled(timing, deadline, level)
       /\ monitor' = [step |-> "announce", deadline |-> deadline, level |-> level]
       /\ fresh' = TRUE
       /\ UNCHANGED <<now, session, begun, commands, notices, contrary>>

Announce ==
    /\ monitor.step = "announce"
    /\ notices' = {n \in notices : n.deadline = monitor.deadline}
                    \cup {[deadline |-> monitor.deadline, level |-> monitor.level]}
    /\ monitor' = [monitor EXCEPT !.step = "announced"]
    /\ UNCHANGED <<now, session, timing, begun, commands, fresh, contrary>>

SaveAnnounced ==
    /\ monitor.step = "announced"
    /\ fresh
    /\ timing' = [timing EXCEPT !.queued = monitor.level]
    /\ monitor' = Idle /\ fresh' = FALSE
    /\ UNCHANGED <<now, session, begun, commands, notices, contrary>>

(* The run dies, cannot send the notice, or loses the version. *)
Crash ==
    /\ monitor # Idle
    /\ monitor' = Idle /\ fresh' = FALSE
    /\ UNCHANGED <<now, session, timing, begun, commands, notices, contrary>>

Command(k, anchor, deadline) ==
    [id |-> AutomaticID(k, deadline), kind |-> k, anchor |-> anchor, deadline |-> deadline]

Send(c) == commands' = commands \cup {c}

ArchiveIfDue ==
    /\ AutomaticArchiveDue(session, timing)
    /\ Send(Command("Archive", timing.sleeping, AutomaticArchiveDeadline(timing)))
    /\ UNCHANGED <<now, session, timing, begun, notices, monitor, fresh, contrary>>

EnforceDeadline ==
    /\ MaximumDeadlineDue(session, timing)
    /\ Send(Command("Terminate", Unset, timing.limit))
    /\ UNCHANGED <<now, session, timing, begun, notices, monitor, fresh, contrary>>

(* alertFailedDeadline: the alert is sent before its level is saved, under  *)
(* an identifier of its own; a run that dies in between repeats it.         *)
AlertFailedDeadline ==
    /\ session.life = "FAILED" /\ ~MaximumDeadlineDue(session, timing)
    /\ timing.limit <= now /\ HasInstance(session)
    /\ ~(timing.warned = timing.limit /\ timing.level = 3)
    /\ Write(session, [timing EXCEPT !.warned = timing.limit, !.level = 3])
    /\ UNCHANGED <<now, begun, commands, notices, monitor, contrary>>

(* monitor: a run that had no warning to give sends a probe or looks at the *)
(* one that is pending.                                                     *)
StartProbe ==
    /\ session.life = "RUNNING" /\ ~WarningDue(session, timing)
    /\ CanBeginMonitoring(session)
    /\ Write(BeginMonitoring(session), [timing EXCEPT !.probed = TRUE])
    /\ UNCHANGED <<now, begun, commands, notices, monitor, contrary>>

(* The count is asked for when the probe has finished and is saved with its *)
(* verdict; only then is the sleep sent, unless the run dies.  A probe sent *)
(* to an earlier host reads as pending for ever (InvocationDoesNotExist).   *)
ObserveProbe(verdict, answer, sent) ==
    LET s == CompleteMonitoring(session, verdict)
        t == RecordPlayerActivity(timing, answer)
    IN /\ session.life = "RUNNING" /\ ~WarningDue(session, timing)
       /\ session.probe /\ timing.probed
       /\ Write(s, t)
       /\ contrary' = IF answer = "empty" THEN contrary ELSE now
       /\ IF sent /\ AutomaticSleepDue(s, t)
          THEN Send(Command("Sleep", t.idle, AutomaticSleepDeadline(t)))
          ELSE UNCHANGED commands
       /\ UNCHANGED <<now, begun, notices, monitor>>

-----------------------------------------------------------------------------
(* The command worker and the workflows.                                    *)

(* Mutant: the worker checks the deadline and the anchor, not the present. *)
ValidateAnchorsOnly(c, s, t) ==
    CASE c.kind = "Sleep"   -> c.anchor = t.idle /\ c.deadline <= now
      [] c.kind = "Archive" -> c.anchor = t.sleeping /\ c.deadline <= now
      [] OTHER              -> c.deadline = t.limit

(* Validate...Command: the anchors and the deadline are those of the stored *)
(* session, and the action is still due.                                    *)
ValidateAutomaticCommand(c, s, t) ==
    CASE c.kind = "Sleep" ->
            /\ c.anchor = t.idle /\ c.deadline = AutomaticSleepDeadline(t)
            /\ AutomaticSleepDue(s, t)
      [] c.kind = "Archive" ->
            /\ c.anchor = t.sleeping /\ c.deadline = AutomaticArchiveDeadline(t)
            /\ AutomaticArchiveDue(s, t)
      [] c.kind = "Terminate" ->
            c.deadline = t.limit /\ MaximumDeadlineDue(s, t)

(* Start: the workflow row of the ID is created with the lease. *)
AdmitAutomatic(c) ==
    /\ c.id \notin begun
    /\ ValidateAutomaticCommand(c, session, timing)
    /\ CanBegin(session, c.kind)
    /\ begun' = begun \cup {c.id}
    /\ commands' = commands \ {c}
    /\ Write(Begin(session, c.id, c.kind),
             IF c.kind = "Terminate" THEN [timing EXCEPT !.sleeping = Unset] ELSE timing)
    /\ UNCHANGED <<now, notices, monitor, contrary>>

(* The owner's commands; the Start command of a failed session that kept    *)
(* its host is a bootstrap.                                                 *)
AdmitOwned(w, k) ==
    /\ w \notin begun
    /\ CanBegin(session, k)
    /\ begun' = begun \cup {w}
    /\ Write(Begin(session, w, k), timing)
    /\ UNCHANGED <<now, commands, notices, monitor, contrary>>

(* The stages that change what a completion or this module looks at. *)
Work ==
    /\ ~Unlocked(session)
    /\ \/ /\ session.kind = "Bootstrap" /\ session.life = "BOOTSTRAPPING"
          /\ Write(BeginInstallation(session), timing)
       \/ /\ session.kind = "Archive" /\ CanRecordArchive(session)
          /\ Write(RecordVerifiedArchive(session, session.lock),
                   [timing EXCEPT !.sleeping = Unset])
       \/ /\ session.kind = "Restore" /\ session.infra = "none"
          /\ Write(RecordLaunch(session, "complete"), timing)
    /\ UNCHANGED <<now, begun, commands, notices, monitor, contrary>>

(* What a completion does to the timestamps, after ClearFailure.  The host  *)
(* an archive removes takes the pending probe's answer with it.             *)
Completed(t, k) ==
    CASE k = "Sleep"   -> [t EXCEPT !.sleeping = now, !.idle = Unset, !.failure = FALSE]
      [] k = "Restart" -> [t EXCEPT !.sleeping = Unset, !.idle = Unset, !.failure = FALSE]
      [] k = "Wake"    -> [t EXCEPT !.sleeping = Unset, !.failure = FALSE]
      [] k \in {"Archive", "Terminate"} ->
            [t EXCEPT !.sleeping = Unset, !.failure = FALSE, !.probed = FALSE]
      [] OTHER         -> [t EXCEPT !.failure = FALSE]

CompleteWork ==
    /\ ~Unlocked(session)
    /\ CanComplete(session, session.kind)
    /\ Write(Complete(session, session.kind), Completed(timing, session.kind))
    /\ contrary' = IF session.kind \in {"Wake", "Restart"} THEN now ELSE contrary
    /\ UNCHANGED <<now, begun, commands, notices, monitor>>

FailWork ==
    /\ ~Unlocked(session)
    /\ CanFail(session, session.kind)
    /\ Write(Fail(session, session.kind),
             [timing EXCEPT !.failure = TRUE,
                            !.sleeping = IF session.kind \in {"Bootstrap", "Restore"}
                                         THEN @ ELSE Unset])
    /\ UNCHANGED <<now, begun, commands, notices, monitor, contrary>>

(* failStart, before anything was done. *)
RefuseWork ==
    /\ ~Unlocked(session)
    /\ session.progress = "active"
    /\ session.life \in {"STOPPING", "ARCHIVING", "RESTORING"}
    /\ CanAbortStart(session, session.kind)
    /\ Write(AbortStart(session, session.kind), [timing EXCEPT !.failure = TRUE])
    /\ UNCHANGED <<now, begun, commands, notices, monitor, contrary>>

-----------------------------------------------------------------------------
(* Administrators *)

(* ExtendLifecycleTimeouts. *)
ExtendTimeouts ==
    /\ session.life = "RUNNING"
    /\ timing.sleepAfter + Extension <= MaxSleepAfter
    /\ Write(session, [timing EXCEPT !.sleepAfter = @ + Extension,
                                     !.archiveAfter = @ + Extension])
    /\ UNCHANGED <<now, begun, commands, notices, monitor, contrary>>

(* changeMaximumDuration as an extension: the new deadline is in the future *)
(* and within the seven days.                                               *)
ExtendDuration ==
    /\ Unlocked(session)
    /\ session.life \notin {"DELETED", "DELETING", "ARCHIVING", "DESTROYING"}
    /\ timing.limit + Extension > now
    /\ timing.limit + Extension <= Lifetime + Extension
    /\ Write(session, [timing EXCEPT !.limit = @ + Extension])
    /\ UNCHANGED <<now, begun, commands, notices, monitor, contrary>>

-----------------------------------------------------------------------------
Next ==
    \/ Tick
    \/ WarnIfDue \/ Announce \/ SaveAnnounced \/ Crash
    \/ ArchiveIfDue \/ EnforceDeadline \/ AlertFailedDeadline \/ StartProbe
    \/ \E verdict \in {"HEALTHY", "UNHEALTHY"}, answer \in {"empty", "players", "unknown"},
          sent \in BOOLEAN : ObserveProbe(verdict, answer, sent)
    \/ \E c \in commands : AdmitAutomatic(c)
    \/ \E w \in Owned, k \in {"Bootstrap", "Wake", "Restart", "Sleep", "Archive", "Restore"} :
          AdmitOwned(w, k)
    \/ Work \/ CompleteWork \/ FailWork \/ RefuseWork
    \/ ExtendTimeouts \/ ExtendDuration

Spec == Init /\ [][Next]_vars

-----------------------------------------------------------------------------
(* Properties *)

Begins(k) == session'.kind = k /\ session'.lock # session.lock /\ session'.lock \notin Owned

(* No automatic action is early, whatever happened after it was asked for.  *)
(* When the worker starts one, the server gave no sign of use for the whole *)
(* present sleep timeout and was looked at recently; or the host slept for  *)
(* the whole present archive timeout; or the present deadline of a creation *)
(* without an archive has passed.  (Signs of use: a player, a count that    *)
(* could not be had, a wake, a restart.  A bootstrap or a restore is not    *)
(* one: neither ends the idle window of the host that was there before.)    *)
AutomationIsEarned ==
    [][/\ Begins("Sleep") =>
            /\ contrary + timing.sleepAfter <= now
            /\ now - timing.observed <= MaximumActivityEvidenceAge
       /\ Begins("Archive") =>
            session.asleep /\ timing.sleeping + timing.archiveAfter <= now
       /\ Begins("Terminate") =>
            session.life = "FAILED" /\ ~Archived(session) /\ timing.limit <= now]_vars

(* A warning that the session records as queued was sent: a crash between   *)
(* the save of the level and the notice leaves the level to be announced    *)
(* by a later scan, for the deadline of that scan.  Level 3 is the alert of *)
(* a deadline that has passed, which leaves the queued level alone.         *)
QueuedWarningsWereSent ==
    timing.queued > 0 /\ timing.level < 3 =>
        [deadline |-> timing.warned, level |-> timing.queued] \in notices
=============================================================================
