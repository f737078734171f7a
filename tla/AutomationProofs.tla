--------------------------- MODULE AutomationProofs ---------------------------
(***************************************************************************)
(* Proofs about the automation: that no automatic action is early, and that *)
(* a warning recorded as queued was sent, for any timeouts and any bound of *)
(* the clock.                                                              *)
(*                                                                         *)
(* What makes an automatic sleep safe is that the idle window a session     *)
(* records began after the last sign of use (IdleInv).  A wake is such a    *)
(* sign and does not end the window, so the proof needs that a session      *)
(* which slept has none: the window is closed when the host goes to sleep,  *)
(* and only a session that is RUNNING opens one.                           *)
(***************************************************************************)
EXTENDS Automation, TLAPS

-----------------------------------------------------------------------------
(* The inductive invariant                                                 *)

Moments == 0 .. Unset
Levels == 0 .. 3

TimingType ==
    [known: BOOLEAN, players: BOOLEAN,
     observed: Moments, idle: Moments, sleeping: Moments,
     sleepAfter: 0 .. MaxSleepAfter, archiveAfter: 0 .. ArchiveAfter + MaxSleepAfter,
     limit: 0 .. Lifetime + Extension,
     warned: Deadlines \cup {Never}, level: Levels, queued: Levels,
     failure: BOOLEAN, probed: BOOLEAN]

(* An administrator adds to both timeouts at once. *)
Timed(t) ==
    /\ t \in TimingType
    /\ t.archiveAfter + SleepAfter = ArchiveAfter + t.sleepAfter

CommandType == [id: Workflows, kind: Actions, anchor: Moments, deadline: Deadlines]
MonitorType == [step: {"announce", "announced"}, deadline: Deadlines, level: {1, 2}]

TypeInv ==
    /\ now \in 0 .. MaxTime
    /\ Timed(timing)
    /\ commands \subseteq CommandType
    /\ monitor = Idle \/ monitor \in MonitorType

(* The lease, the lifecycle and the sleep marker fit together, as far as    *)
(* automation depends on it.                                               *)
Sound(s) ==
    /\ s \in Session
    /\ Unlocked(s) <=> s.kind = "none"
    /\ s.kind = "Wake" => s.life = "WAKING"
    /\ s.source # "none" => s.kind = "Archive" /\ s.life = "ARCHIVING"
    /\ s.life = "SLEEPING" \/ s.source = "SLEEPING" => s.asleep

(* The host was last seen asleep: a wake may complete without anything      *)
(* having ended the idle window.                                           *)
Slept(s) == s.life = "SLEEPING" \/ s.source = "SLEEPING" \/ s.kind = "Wake"

IdleInv ==
    /\ contrary \in 0 .. now
    /\ timing.idle # Unset => contrary <= timing.idle /\ ~Slept(session)

Notice(deadline, level) == [deadline |-> deadline, level |-> level]

(* While a warning is being given, the deadline it is for stays the one the *)
(* session records, or an alert has taken its place.                       *)
WarningInv ==
    /\ QueuedWarningsWereSent
    /\ monitor # Idle => timing.level = 3 \/ timing.warned = monitor.deadline
    /\ monitor.step = "announced" =>
          timing.level = 3 \/ Notice(monitor.deadline, monitor.level) \in notices

SafeInv == TypeInv /\ Sound(session) /\ IdleInv
IInv == SafeInv /\ WarningInv

-----------------------------------------------------------------------------
(* The session's transitions                                               *)

LEMMA States ==
    /\ \A x \in {"NEW", "FAILED", "ARCHIVED", "RUNNING", "SLEEPING", "BOOTSTRAPPING",
                 "INSTALLING", "DESTROYING", "STOPPING", "WAKING", "RESTARTING",
                 "ARCHIVING", "RESTORING", "DELETING", "DELETED"} : x \in LifecycleStates
    /\ \A x \in {"UNKNOWN", "STARTING", "HEALTHY", "UNHEALTHY", "STOPPED"} :
          x \in HealthStates
BY DEF LifecycleStates, HealthStates

(* Giving the lease back. *)
LEMMA ReleaseIsSound ==
    ASSUME NEW t \in Session, NEW outcome \in {"completed", "action_required"},
           t.source = "none", t.life = "SLEEPING" => t.asleep
    PROVE  /\ Sound(ClearLock(t, outcome))
           /\ ClearLock(t, outcome).kind = "none"
           /\ ClearLock(t, outcome).lock = NoWorkflow
           /\ ClearLock(t, outcome).life = t.life
           /\ ClearLock(t, outcome).source = "none"
<1> DEFINE u == ClearLock(t, outcome)
<1>1. u \in Session
  BY DEF ClearLock, Session
<1>2. /\ u.lock = NoWorkflow /\ u.kind = "none" /\ u.life = t.life
      /\ u.source = "none" /\ u.asleep = t.asleep
  BY DEF ClearLock, Session
<1> HIDE DEF u
<1>3. Sound(u)
  BY <1>1, <1>2 DEF Sound, Unlocked
<1>4. QED
  BY <1>2, <1>3 DEF u

(* What a workflow that gives its lease back leaves behind. *)
Released(s, r) ==
    /\ Sound(r) /\ r.kind = "none"
    /\ Slept(r) => Slept(s)

LEMMA ReleaseInto ==
    ASSUME NEW s, NEW t \in Session, NEW outcome \in {"completed", "action_required"},
           t.source = "none", t.life = "SLEEPING" => t.asleep /\ Slept(s)
    PROVE  Released(s, ClearLock(t, outcome))
<1> DEFINE u == ClearLock(t, outcome)
<1>1. Sound(u) /\ u.kind = "none" /\ u.life = t.life /\ u.source = "none"
  BY ReleaseIsSound
<1> HIDE DEF u
<1>2. Slept(u) => Slept(s)
  BY <1>1 DEF Slept
<1>3. Released(s, u)
  BY <1>1, <1>2 DEF Released
<1>4. QED
  BY <1>3 DEF u

LEMMA HeldFacts ==
    ASSUME NEW s, Sound(s), ~Unlocked(s)
    PROVE  s.kind \in Kinds /\ (s.kind # "Archive" => s.source = "none")
BY DEF Sound, Session

LEMMA CompleteReleases ==
    ASSUME NEW s, NEW k, s.kind = k, Sound(s), ~Unlocked(s), CanComplete(s, k), k # "Sleep"
    PROVE  Released(s, Complete(s, k))
<1>1. s \in Session /\ k \in Kinds /\ (k # "Archive" => s.source = "none")
  BY HeldFacts DEF Sound
<1>2. CASE k = "Provision"
  <2> DEFINE t == [s EXCEPT !.life = "BOOTSTRAPPING"]
  <2>1. t \in Session /\ t.life = "BOOTSTRAPPING" /\ t.source = "none"
    BY <1>1, <1>2, States DEF Session
  <2> HIDE DEF t
  <2>2. Released(s, ClearLock(t, "completed"))
    BY <2>1, ReleaseInto
  <2>3. QED
    BY <1>2, <2>2 DEF Complete, CompleteInfrastructureProvisioning, t
<1>3. CASE k \in {"Bootstrap", "Restore"}
  <2> DEFINE t == [s EXCEPT !.life = "RUNNING", !.health = "HEALTHY"]
  <2>1. t \in Session /\ t.life = "RUNNING" /\ t.source = "none"
    BY <1>1, <1>3, States DEF Session
  <2> HIDE DEF t
  <2>2. Released(s, ClearLock(t, "completed"))
    BY <2>1, ReleaseInto
  <2>3. QED
    BY <1>3, <2>2 DEF Complete, CompleteBootstrap, CompleteRestore, t
<1>4. CASE k \in {"Wake", "Restart"}
  <2> DEFINE t == [s EXCEPT !.life = "RUNNING", !.health = "HEALTHY", !.asleep = FALSE]
  <2>1. t \in Session /\ t.life = "RUNNING" /\ t.source = "none"
    BY <1>1, <1>4, States DEF Session
  <2> HIDE DEF t
  <2>2. Released(s, ClearLock(t, "completed"))
    BY <2>1, ReleaseInto
  <2>3. QED
    BY <1>4, <2>2 DEF Complete, CompleteRunning, t
<1>5. CASE k = "Archive"
  <2> DEFINE t == [s EXCEPT !.life = "ARCHIVED", !.health = "STOPPED", !.asleep = FALSE,
                            !.infra = "none"]
  <2>1. s.source = "none"
    BY <1>1, <1>5 DEF CanComplete, Sound
  <2>2. t \in Session /\ t.life = "ARCHIVED" /\ t.source = "none"
    BY <1>1, <2>1, States DEF Session
  <2> HIDE DEF t
  <2>3. Released(s, ClearLock(t, "completed"))
    BY <2>2, ReleaseInto
  <2>4. QED
    BY <1>5, <2>3 DEF Complete, CompleteArchive, t
<1>6. CASE k = "Terminate"
  <2> DEFINE t == [s EXCEPT !.life = "DELETED", !.health = "STOPPED", !.infra = "none",
                            !.archive = NoWorkflow, !.probe = FALSE]
  <2>1. t \in Session /\ t.life = "DELETED" /\ t.source = "none"
    BY <1>1, <1>6, States DEF Session
  <2> HIDE DEF t
  <2>2. Released(s, ClearLock(t, "completed"))
    BY <2>1, ReleaseInto
  <2>3. QED
    BY <1>6, <2>2 DEF Complete, CompleteTermination, t
<1>7. QED
  BY <1>1, <1>2, <1>3, <1>4, <1>5, <1>6 DEF Kinds

(* The one transition that puts a session to sleep. *)
LEMMA CompleteSleepReleases ==
    ASSUME NEW s, Sound(s), ~Unlocked(s), s.kind = "Sleep"
    PROVE  Sound(CompleteSleep(s)) /\ CompleteSleep(s).kind = "none"
<1> DEFINE t == [s EXCEPT !.life = "SLEEPING", !.health = "STOPPED", !.asleep = TRUE]
<1>1. s \in Session /\ s.source = "none"
  BY HeldFacts DEF Sound
<1>2. t \in Session /\ t.source = "none" /\ t.asleep
  BY <1>1, States DEF Session
<1> HIDE DEF t
<1>3. Sound(ClearLock(t, "completed")) /\ ClearLock(t, "completed").kind = "none"
  BY <1>2, ReleaseIsSound
<1>4. QED
  BY <1>3 DEF CompleteSleep, t

LEMMA FailReleases ==
    ASSUME NEW s, NEW k, s.kind = k, Sound(s), ~Unlocked(s)
    PROVE  /\ Released(s, Fail(s, k))
           /\ k = "Restart" => Released(s, FailSleepWake(s))
           /\ k = "Terminate" => Released(s, FailUnhealthy(s))
<1>1. s \in Session /\ k \in Kinds /\ (k # "Archive" => s.source = "none")
  BY HeldFacts DEF Sound
<1>2. ASSUME k = "Provision"
      PROVE  Released(s, FailInfrastructureProvisioning(s))
  <2> DEFINE t == [s EXCEPT !.life = "FAILED", !.health = "UNKNOWN"]
  <2>1. t \in Session /\ t.life = "FAILED" /\ t.source = "none"
    BY <1>1, <1>2, States DEF Session
  <2> HIDE DEF t
  <2>2. Released(s, ClearLock(t, "action_required"))
    BY <2>1, ReleaseInto
  <2>3. QED
    BY <2>2 DEF FailInfrastructureProvisioning, t
<1>3. ASSUME k \in {"Bootstrap", "Restore", "Terminate"}
      PROVE  Released(s, FailUnhealthy(s))
  <2> DEFINE t == [s EXCEPT !.life = "FAILED", !.health = "UNHEALTHY"]
  <2>1. t \in Session /\ t.life = "FAILED" /\ t.source = "none"
    BY <1>1, <1>3, States DEF Session
  <2> HIDE DEF t
  <2>2. Released(s, ClearLock(t, "action_required"))
    BY <2>1, ReleaseInto
  <2>3. QED
    BY <2>2 DEF FailUnhealthy, t
<1>4. ASSUME k \in {"Sleep", "Wake", "Restart"}
      PROVE  Released(s, FailSleepWake(s))
  <2> DEFINE t == [s EXCEPT !.life = "FAILED", !.health = "UNHEALTHY", !.asleep = FALSE]
  <2>1. t \in Session /\ t.life = "FAILED" /\ t.source = "none"
    BY <1>1, <1>4, States DEF Session
  <2> HIDE DEF t
  <2>2. Released(s, ClearLock(t, "action_required"))
    BY <2>1, ReleaseInto
  <2>3. QED
    BY <2>2 DEF FailSleepWake, t
<1>5. ASSUME k = "Archive"
      PROVE  Released(s, FailArchive(s))
  <2> DEFINE t == [s EXCEPT !.life = "FAILED", !.health = "UNHEALTHY", !.asleep = FALSE,
                            !.source = "none"]
  <2>1. t \in Session /\ t.life = "FAILED" /\ t.source = "none"
    BY <1>1, States DEF Session
  <2> HIDE DEF t
  <2>2. Released(s, ClearLock(t, "action_required"))
    BY <2>1, ReleaseInto
  <2>3. QED
    BY <2>2 DEF FailArchive, t
<1>6. Released(s, Fail(s, k))
  BY <1>1, <1>2, <1>3, <1>4, <1>5 DEF Fail, Kinds
<1>7. QED
  BY <1>3, <1>4, <1>6

LEMMA AbortStartReleases ==
    ASSUME NEW s, NEW k, s.kind = k, Sound(s), ~Unlocked(s), CanAbortStart(s, k)
    PROVE  Released(s, AbortStart(s, k))
<1>1. s \in Session /\ k \in Kinds /\ (k # "Archive" => s.source = "none")
  BY HeldFacts DEF Sound
<1>2. CASE k = "Provision"
  <2> DEFINE t == [s EXCEPT !.life = "NEW", !.health = "UNKNOWN"]
  <2>1. t \in Session /\ t.life = "NEW" /\ t.source = "none"
    BY <1>1, <1>2, States DEF Session
  <2> HIDE DEF t
  <2>2. Released(s, ClearLock(t, "action_required"))
    BY <2>1, ReleaseInto
  <2>3. QED
    BY <1>2, <2>2 DEF AbortStart, AbortProvisioningWorkflowStart, t
<1>3. CASE k = "Archive"
  <2> DEFINE h == IF s.source = "SLEEPING" THEN "STOPPED" ELSE "HEALTHY"
             t == [s EXCEPT !.life = s.source, !.source = "none", !.health = h]
  <2>1. s.source \in {"RUNNING", "SLEEPING"} /\ h \in HealthStates
    BY <1>1, <1>3, States DEF CanAbortStart, Session
  <2>2. s.source = "SLEEPING" => s.asleep /\ Slept(s)
    BY DEF Sound, Slept
  <2>3. AbortStart(s, k) = ClearLock(t, "action_required")
    BY <1>3 DEF AbortStart, AbortArchiveWorkflowStart
  <2>4. t \in Session /\ t.life = s.source /\ t.source = "none" /\ t.asleep = s.asleep
    <3> HIDE DEF h
    <3>1. s.source \in LifecycleStates
      BY <2>1, States
    <3>2. t \in Session
      BY <1>1, <2>1, <3>1, States DEF Session
    <3>3. t.life = s.source /\ t.source = "none" /\ t.asleep = s.asleep
      BY <1>1 DEF Session
    <3> QED
      BY <3>2, <3>3
  <2> HIDE DEF t
  <2>5. Released(s, ClearLock(t, "action_required"))
    BY <2>2, <2>4, ReleaseInto
  <2>6. QED
    BY <2>3, <2>5
<1>4. CASE k = "Restore"
  <2> DEFINE t == [s EXCEPT !.life = "ARCHIVED", !.health = "STOPPED"]
  <2>1. t \in Session /\ t.life = "ARCHIVED" /\ t.source = "none"
    BY <1>1, <1>4, States DEF Session
  <2> HIDE DEF t
  <2>2. Released(s, ClearLock(t, "action_required"))
    BY <2>1, ReleaseInto
  <2>3. QED
    BY <1>4, <2>2 DEF AbortStart, AbortRestoreWorkflowStart, t
<1>5. CASE k \in {"Bootstrap", "Sleep", "Wake"}
  <2>1. s.source = "none" /\ (s.life = "SLEEPING" => s.asleep /\ Slept(s))
    BY <1>1, <1>5 DEF Sound, Slept
  <2>2. Released(s, ClearLock(s, "action_required"))
    BY <1>1, <2>1, ReleaseInto
  <2>3. QED
    BY <1>5, <2>2 DEF AbortStart, ReleaseWorkflowLock
<1>6. CASE k \in {"Restart", "Terminate"}
  BY <1>6, FailReleases DEF AbortStart
<1>7. QED
  BY <1>1, <1>2, <1>3, <1>4, <1>5, <1>6 DEF Kinds

LEMMA AcquireFields ==
    ASSUME NEW s \in Session, NEW w \in Workflows, NEW k \in Kinds
    PROVE  /\ AcquireWorkflowLock(s, w, k) \in Session
           /\ AcquireWorkflowLock(s, w, k).lock = w
           /\ AcquireWorkflowLock(s, w, k).kind = k
           /\ AcquireWorkflowLock(s, w, k).life = s.life
           /\ AcquireWorkflowLock(s, w, k).source = s.source
           /\ AcquireWorkflowLock(s, w, k).asleep = s.asleep
<1> DEFINE t == AcquireWorkflowLock(s, w, k)
<1>1. t \in Session
  BY DEF AcquireWorkflowLock, Session
<1>2. /\ t.lock = w /\ t.kind = k /\ t.life = s.life
      /\ t.source = s.source /\ t.asleep = s.asleep
  BY DEF AcquireWorkflowLock, Session
<1>3. QED
  BY <1>1, <1>2

(* What a workflow that takes the lease makes of the session. *)
Taken(s, r, w, k) ==
    /\ Sound(r) /\ r.kind = k /\ r.lock = w
    /\ Slept(r) => Slept(s)

Entered(s, w, k, l, h) == [AcquireWorkflowLock(s, w, k) EXCEPT !.life = l, !.health = h]

LEMMA EnterTakes ==
    ASSUME NEW s \in Session, s.source = "none", NEW w \in Workflows, NEW k \in Kinds,
           NEW l \in LifecycleStates \ {"SLEEPING"}, NEW h \in HealthStates,
           k = "Wake" => l = "WAKING" /\ Slept(s)
    PROVE  Taken(s, Entered(s, w, k, l, h), w, k)
<1> DEFINE a == AcquireWorkflowLock(s, w, k)
           r == [a EXCEPT !.life = l, !.health = h]
<1>1. a \in Session /\ a.lock = w /\ a.kind = k /\ a.source = "none"
  BY AcquireFields
<1> HIDE DEF a
<1>2. r \in Session
  BY <1>1 DEF Session
<1>3. r.lock = w /\ r.kind = k /\ r.source = "none" /\ r.life = l
  BY <1>1 DEF Session
<1> HIDE DEF r
<1>4. w # NoWorkflow /\ k # "none"
  BY NoWorkflowAssumption DEF Kinds
<1>5. Sound(r)
  BY <1>2, <1>3, <1>4 DEF Sound, Unlocked
<1>6. Slept(r) => Slept(s)
  BY <1>3 DEF Slept
<1>7. Taken(s, r, w, k)
  BY <1>3, <1>5, <1>6 DEF Taken
<1>8. QED
  BY <1>7 DEF Entered, r, a

LEMMA BeginTakes ==
    ASSUME NEW s, Sound(s), NEW w \in Workflows, NEW k \in Kinds \ {"Provision"},
           CanBegin(s, k)
    PROVE  Taken(s, Begin(s, w, k), w, k)
<1>1. s \in Session /\ Unlocked(s)
  BY DEF Sound, CanBegin, CanStartBootstrap, CanSleep, CanWake, CanRestart, CanArchive,
         CanRestore, CanTerminate, Kinds
<1>2. s.source = "none"
  BY <1>1 DEF Sound
<1>3. CASE k = "Bootstrap"
  <2>1. Begin(s, w, k) = Entered(s, w, k, "BOOTSTRAPPING", "STARTING")
    BY <1>3 DEF Begin, AcquireBootstrapWorkflowLock, Entered
  <2>2. "BOOTSTRAPPING" \in LifecycleStates \ {"SLEEPING"} /\ "STARTING" \in HealthStates
    BY States
  <2>3. QED
    BY <1>1, <1>2, <1>3, <2>1, <2>2, EnterTakes
<1>4. CASE k = "Sleep"
  <2>1. Begin(s, w, k) = Entered(s, w, k, "STOPPING", "STARTING")
    BY <1>4 DEF Begin, BeginSleep, Entered
  <2>2. "STOPPING" \in LifecycleStates \ {"SLEEPING"} /\ "STARTING" \in HealthStates
    BY States
  <2>3. QED
    BY <1>1, <1>2, <1>4, <2>1, <2>2, EnterTakes
<1>5. CASE k = "Wake"
  <2>1. Begin(s, w, k) = Entered(s, w, k, "WAKING", "STARTING")
    BY <1>5 DEF Begin, BeginWake, Entered
  <2>2. Slept(s)
    BY <1>5 DEF CanBegin, CanWake, Slept
  <2>3. "WAKING" \in LifecycleStates \ {"SLEEPING"} /\ "STARTING" \in HealthStates
    BY States
  <2>4. QED
    BY <1>1, <1>2, <1>5, <2>1, <2>2, <2>3, EnterTakes
<1>6. CASE k = "Restart"
  <2>1. Begin(s, w, k) = Entered(s, w, k, "RESTARTING", "STARTING")
    BY <1>6 DEF Begin, BeginRestart, Entered
  <2>2. "RESTARTING" \in LifecycleStates \ {"SLEEPING"} /\ "STARTING" \in HealthStates
    BY States
  <2>3. QED
    BY <1>1, <1>2, <1>6, <2>1, <2>2, EnterTakes
<1>7. CASE k = "Restore"
  <2>1. Begin(s, w, k) = Entered(s, w, k, "RESTORING", "STARTING")
    BY <1>7 DEF Begin, BeginRestore, Entered
  <2>2. "RESTORING" \in LifecycleStates \ {"SLEEPING"} /\ "STARTING" \in HealthStates
    BY States
  <2>3. QED
    BY <1>1, <1>2, <1>7, <2>1, <2>2, EnterTakes
<1>8. CASE k = "Archive"
  <2> DEFINE a == AcquireWorkflowLock(s, w, k)
             r == [a EXCEPT !.life = "ARCHIVING", !.health = "STARTING",
                            !.source = s.life]
  <2>1. Begin(s, w, k) = r
    BY <1>8 DEF Begin, BeginArchive
  <2>2. s.life \in {"RUNNING", "SLEEPING"}
    BY <1>8 DEF CanBegin, CanArchive
  <2>3. a \in Session /\ a.lock = w /\ a.kind = k /\ a.asleep = s.asleep
    BY <1>1, AcquireFields
  <2> HIDE DEF a
  <2>4. r \in Session
    BY <2>2, <2>3, States DEF Session
  <2>5. /\ r.lock = w /\ r.kind = k /\ r.source = s.life /\ r.life = "ARCHIVING"
        /\ r.asleep = s.asleep
    BY <2>3 DEF Session
  <2> HIDE DEF r
  <2>6. w # NoWorkflow
    BY NoWorkflowAssumption
  <2>7. Sound(r)
    BY <1>8, <2>4, <2>5, <2>6 DEF Sound, Unlocked
  <2>8. Slept(r) => Slept(s)
    BY <1>8, <2>5 DEF Slept
  <2>9. QED
    BY <2>1, <2>5, <2>7, <2>8 DEF Taken
<1>9. CASE k = "Terminate"
  <2> DEFINE a == AcquireWorkflowLock(s, w, k)
             r == [a EXCEPT !.life = "DELETING", !.health = "UNKNOWN",
                            !.source = "none", !.asleep = FALSE]
  <2>1. Begin(s, w, k) = r
    BY <1>9 DEF Begin, BeginTermination
  <2>2. a \in Session /\ a.lock = w /\ a.kind = k
    BY <1>1, AcquireFields
  <2> HIDE DEF a
  <2>3. r \in Session
    BY <2>2, States DEF Session
  <2>4. r.lock = w /\ r.kind = k /\ r.source = "none" /\ r.life = "DELETING"
    BY <2>2 DEF Session
  <2> HIDE DEF r
  <2>5. w # NoWorkflow
    BY NoWorkflowAssumption
  <2>6. Sound(r)
    BY <1>9, <2>3, <2>4, <2>5 DEF Sound, Unlocked
  <2>7. Slept(r) => Slept(s)
    BY <1>9, <2>4 DEF Slept
  <2>8. QED
    BY <2>1, <2>4, <2>6, <2>7 DEF Taken
<1>10. QED
  BY <1>3, <1>4, <1>5, <1>6, <1>7, <1>8, <1>9 DEF Kinds

(* What a stage of a workflow or the monitor makes of the session. *)
Kept(s, r) ==
    /\ Sound(r) /\ r.lock = s.lock
    /\ r.source \in {s.source, "none"}
    /\ Slept(r) => Slept(s)

LEMMA InstallationKeeps ==
    ASSUME NEW s, Sound(s), s.kind = "Bootstrap"
    PROVE  Kept(s, BeginInstallation(s))
<1> DEFINE r == BeginInstallation(s)
<1>1. s \in Session /\ s.source = "none"
  BY DEF Sound
<1>2. r \in Session
  BY <1>1, States DEF BeginInstallation, Session
<1>3. r.lock = s.lock /\ r.kind = s.kind /\ r.source = "none" /\ r.life = "INSTALLING"
  BY <1>1 DEF BeginInstallation, Session
<1> HIDE DEF r
<1>4. Sound(r)
  BY <1>2, <1>3 DEF Sound, Unlocked
<1>5. Kept(s, r)
  BY <1>3, <1>4 DEF Kept, Slept
<1>6. QED
  BY <1>5 DEF r

LEMMA ArchiveRecordKeeps ==
    ASSUME NEW s, Sound(s), ~Unlocked(s), s.kind = "Archive"
    PROVE  Kept(s, RecordVerifiedArchive(s, s.lock))
<1> DEFINE r == RecordVerifiedArchive(s, s.lock)
<1>1. s \in Session /\ s.lock \in Workflows
  BY DEF Sound, Unlocked, Session
<1>2. r \in Session
  BY <1>1, States DEF RecordVerifiedArchive, Session
<1>3. r.lock = s.lock /\ r.kind = s.kind /\ r.source = "none" /\ r.life = "DESTROYING"
  BY <1>1 DEF RecordVerifiedArchive, Session
<1> HIDE DEF r
<1>4. Sound(r)
  BY <1>2, <1>3 DEF Sound, Unlocked
<1>5. Kept(s, r)
  BY <1>3, <1>4 DEF Kept, Slept
<1>6. QED
  BY <1>5 DEF r

(* Writes that leave the lease and the lifecycle alone. *)
LEMMA SameKeeps ==
    ASSUME NEW s, Sound(s), NEW r \in Session,
           r.lock = s.lock, r.kind = s.kind, r.source = s.source, r.life = s.life,
           r.asleep = s.asleep
    PROVE  Kept(s, r)
<1>1. Sound(r)
  BY DEF Sound, Unlocked
<1>2. QED
  BY <1>1 DEF Kept, Slept

LEMMA OtherWritesKeep ==
    ASSUME NEW s, Sound(s), NEW verdict \in {"HEALTHY", "UNHEALTHY"}
    PROVE  /\ Kept(s, s)
           /\ Kept(s, RecordLaunch(s, "complete"))
           /\ Kept(s, BeginMonitoring(s))
           /\ Kept(s, CompleteMonitoring(s, verdict))
           /\ CompleteMonitoring(s, verdict).life = s.life
           /\ CompleteMonitoring(s, verdict).source = s.source
           /\ CompleteMonitoring(s, verdict).kind = s.kind
<1>1. s \in Session
  BY DEF Sound
<1>2. Kept(s, s)
  BY <1>1, SameKeeps
<1>3. Kept(s, RecordLaunch(s, "complete"))
  <2> DEFINE r == RecordLaunch(s, "complete")
  <2>1. r \in Session
    BY <1>1 DEF RecordLaunch, Session
  <2>2. /\ r.lock = s.lock /\ r.kind = s.kind /\ r.source = s.source /\ r.life = s.life
        /\ r.asleep = s.asleep
    BY <1>1 DEF RecordLaunch, Session
  <2> HIDE DEF r
  <2>3. Kept(s, r)
    BY <2>1, <2>2, SameKeeps
  <2>4. QED
    BY <2>3 DEF r
<1>4. Kept(s, BeginMonitoring(s))
  <2> DEFINE r == BeginMonitoring(s)
  <2>1. r \in Session
    BY <1>1 DEF BeginMonitoring, Session
  <2>2. /\ r.lock = s.lock /\ r.kind = s.kind /\ r.source = s.source /\ r.life = s.life
        /\ r.asleep = s.asleep
    BY <1>1 DEF BeginMonitoring, Session
  <2> HIDE DEF r
  <2>3. Kept(s, r)
    BY <2>1, <2>2, SameKeeps
  <2>4. QED
    BY <2>3 DEF r
<1>5. /\ Kept(s, CompleteMonitoring(s, verdict))
      /\ CompleteMonitoring(s, verdict).life = s.life
      /\ CompleteMonitoring(s, verdict).source = s.source
      /\ CompleteMonitoring(s, verdict).kind = s.kind
  <2> DEFINE r == CompleteMonitoring(s, verdict)
  <2>1. r \in Session
    BY <1>1, States DEF CompleteMonitoring, Session
  <2>2. /\ r.lock = s.lock /\ r.kind = s.kind /\ r.source = s.source /\ r.life = s.life
        /\ r.asleep = s.asleep
    BY <1>1 DEF CompleteMonitoring, Session
  <2> HIDE DEF r
  <2>3. Kept(s, r)
    BY <2>1, <2>2, SameKeeps
  <2>4. QED
    BY <2>2, <2>3 DEF r
<1>6. QED
  BY <1>2, <1>3, <1>4, <1>5

-----------------------------------------------------------------------------
(* The timestamps                                                          *)

LEMMA NeverIsLate ==
    /\ Unset \in Moments /\ Never \in Nat /\ Never \notin Deadlines
    /\ Never > MaxTime /\ \A d \in Deadlines : d \in Nat
    /\ \A x \in Moments \ {Unset} : x \in 0 .. MaxTime
BY TimesAssumption DEF Unset, Moments, Never, Deadlines

LEMMA DeadlinesTyped ==
    ASSUME NEW s, NEW t, Timed(t)
    PROVE  /\ AutomaticSleepDeadline(t) \in Deadlines \cup {Never}
           /\ t.idle # Unset => AutomaticSleepDeadline(t) = t.idle + t.sleepAfter
           /\ AutomaticArchiveDeadline(t) \in Deadlines \cup {Never}
           /\ t.sleeping # Unset =>
                AutomaticArchiveDeadline(t) = t.sleeping + t.archiveAfter
           /\ t.limit \in Deadlines
           /\ WarnedDeadline(s, t) \in Deadlines \cup {Never}
<1>1. /\ t.idle \in Moments /\ t.sleeping \in Moments /\ t.sleepAfter \in 0 .. MaxSleepAfter
      /\ t.archiveAfter \in 0 .. ArchiveAfter + MaxSleepAfter
      /\ t.limit \in 0 .. Lifetime + Extension
  BY DEF Timed, TimingType
<1>2. t.idle # Unset => t.idle + t.sleepAfter \in Deadlines
  BY <1>1, NeverIsLate, TimesAssumption DEF Deadlines
<1>3. t.sleeping # Unset => t.sleeping + t.archiveAfter \in Deadlines
  BY <1>1, NeverIsLate, TimesAssumption DEF Deadlines
<1>4. t.limit \in Deadlines
  BY <1>1, TimesAssumption DEF Deadlines
<1>5. /\ AutomaticSleepDeadline(t) \in Deadlines \cup {Never}
      /\ t.idle # Unset => AutomaticSleepDeadline(t) = t.idle + t.sleepAfter
  BY <1>2 DEF AutomaticSleepDeadline
<1>6. /\ AutomaticArchiveDeadline(t) \in Deadlines \cup {Never}
      /\ t.sleeping # Unset =>
           AutomaticArchiveDeadline(t) = t.sleeping + t.archiveAfter
  BY <1>3 DEF AutomaticArchiveDeadline
<1>7. WarnedDeadline(s, t) \in Deadlines \cup {Never}
  BY <1>4, <1>5, <1>6 DEF WarnedDeadline
<1>8. QED
  BY <1>4, <1>5, <1>6, <1>7

SameWarning(t, u) == u.warned = t.warned /\ u.level = t.level /\ u.queued = t.queued

(* A write of the timestamps that opens no idle window. *)
Retimed(t, u) ==
    /\ Timed(u)
    /\ u.idle \in {t.idle, Unset}
    /\ SameWarning(t, u)

LEMMA RetimedWrites ==
    ASSUME NEW t, Timed(t), NEW m \in Moments
    PROVE  /\ Retimed(t, t)
           /\ Retimed(t, [t EXCEPT !.probed = TRUE])
           /\ Retimed(t, [t EXCEPT !.failure = TRUE])
           /\ Retimed(t, [t EXCEPT !.sleeping = Unset])
           /\ Retimed(t, [t EXCEPT !.failure = TRUE, !.sleeping = m])
<1>1. t \in TimingType /\ Unset \in Moments
  BY NeverIsLate DEF Timed
<1>2. Retimed(t, t)
  BY DEF Retimed, SameWarning
<1>3. Retimed(t, [t EXCEPT !.probed = TRUE])
  BY <1>1 DEF Retimed, SameWarning, Timed, TimingType
<1>4. Retimed(t, [t EXCEPT !.failure = TRUE])
  BY <1>1 DEF Retimed, SameWarning, Timed, TimingType
<1>5. Retimed(t, [t EXCEPT !.sleeping = Unset])
  BY <1>1 DEF Retimed, SameWarning, Timed, TimingType
<1>6. Retimed(t, [t EXCEPT !.failure = TRUE, !.sleeping = m])
  BY <1>1 DEF Retimed, SameWarning, Timed, TimingType
<1>7. QED
  BY <1>2, <1>3, <1>4, <1>5, <1>6

LEMMA CompletedRetimes ==
    ASSUME NEW t, Timed(t), NEW k \in Kinds, now \in 0 .. MaxTime
    PROVE  /\ Retimed(t, Completed(t, k))
           /\ k \in {"Sleep", "Restart"} => Completed(t, k).idle = Unset
<1>1. t \in TimingType /\ Unset \in Moments /\ now \in Moments
  BY NeverIsLate, TimesAssumption DEF Timed, Moments, Unset
<1>2. CASE k = "Sleep"
  <2> DEFINE u == [t EXCEPT !.sleeping = now, !.idle = Unset, !.failure = FALSE]
  <2>1. Retimed(t, u) /\ u.idle = Unset
    BY <1>1 DEF Retimed, SameWarning, Timed, TimingType
  <2> HIDE DEF u
  <2>2. Completed(t, k) = u
    BY <1>2 DEF Completed, u
  <2>3. QED
    BY <2>1, <2>2
<1>3. CASE k = "Restart"
  <2> DEFINE u == [t EXCEPT !.sleeping = Unset, !.idle = Unset, !.failure = FALSE]
  <2>1. Retimed(t, u) /\ u.idle = Unset
    BY <1>1 DEF Retimed, SameWarning, Timed, TimingType
  <2> HIDE DEF u
  <2>2. Completed(t, k) = u
    BY <1>3 DEF Completed, u
  <2>3. QED
    BY <2>1, <2>2
<1>4. CASE k = "Wake"
  <2>1. Retimed(t, [t EXCEPT !.sleeping = Unset, !.failure = FALSE])
    BY <1>1 DEF Retimed, SameWarning, Timed, TimingType
  <2>2. QED
    BY <1>4, <2>1 DEF Completed
<1>5. CASE k \in {"Archive", "Terminate"}
  <2>1. Retimed(t, [t EXCEPT !.sleeping = Unset, !.failure = FALSE, !.probed = FALSE])
    BY <1>1 DEF Retimed, SameWarning, Timed, TimingType
  <2>2. QED
    BY <1>5, <2>1 DEF Completed
<1>6. CASE k \in {"Provision", "Bootstrap", "Restore"}
  <2>1. Retimed(t, [t EXCEPT !.failure = FALSE])
    BY <1>1 DEF Retimed, SameWarning, Timed, TimingType
  <2>2. QED
    BY <1>6, <2>1 DEF Completed
<1>7. QED
  BY <1>2, <1>3, <1>4, <1>5, <1>6 DEF Kinds

(* A probe's answer: the window it leaves open is the one that was open, or *)
(* begins now; an answer that is a sign of use leaves none.                *)
LEMMA ActivityTimed ==
    ASSUME NEW t, Timed(t), now \in 0 .. MaxTime,
           NEW answer \in {"empty", "players", "unknown"},
           NEW u, u = RecordPlayerActivity(t, answer)
    PROVE  /\ Timed(u) /\ SameWarning(t, u)
           /\ u.idle \in {t.idle, now, Unset}
           /\ answer # "empty" => u.idle = Unset
<1> DEFINE kn == answer # "unknown"
           pl == answer = "players"
           i == IF answer # "empty" THEN Unset
                ELSE IF t.known /\ ~t.players /\ t.idle # Unset THEN t.idle ELSE now
<1>1. t \in TimingType /\ Unset \in Moments /\ now \in Moments /\ t.idle \in Moments
  BY NeverIsLate, TimesAssumption DEF Timed, TimingType, Moments, Unset
<1>2. i \in {t.idle, now, Unset} /\ (answer # "empty" => i = Unset)
  OBVIOUS
<1>3. u = [t EXCEPT !.known = kn, !.players = pl, !.observed = now, !.idle = i]
  BY DEF RecordPlayerActivity
<1>4. kn \in BOOLEAN /\ pl \in BOOLEAN
  OBVIOUS
<1> HIDE DEF i, kn, pl
<1>5. i \in Moments
  BY <1>1, <1>2
<1>6. u \in TimingType
  BY <1>1, <1>3, <1>4, <1>5 DEF TimingType
<1>7. /\ u.idle = i /\ SameWarning(t, u)
      /\ u.archiveAfter = t.archiveAfter /\ u.sleepAfter = t.sleepAfter
  BY <1>1, <1>3 DEF TimingType, SameWarning
<1>8. QED
  BY <1>2, <1>6, <1>7 DEF Timed

-----------------------------------------------------------------------------
(* No automatic action is early                                            *)

(* The body of AutomationIsEarned. *)
Earned ==
    /\ Begins("Sleep") =>
         /\ contrary + timing.sleepAfter <= now
         /\ now - timing.observed <= MaximumActivityEvidenceAge
    /\ Begins("Archive") =>
         session.asleep /\ timing.sleeping + timing.archiveAfter <= now
    /\ Begins("Terminate") =>
         session.life = "FAILED" /\ ~Archived(session) /\ timing.limit <= now

(* A step that starts no workflow of the automation. *)
LEMMA StartsNothing ==
    ASSUME session'.lock = session.lock \/ session'.kind = "none" \/ session'.lock \in Owned
    PROVE  Earned
BY DEF Earned, Begins

LEMMA SafeFacts ==
    ASSUME SafeInv
    PROVE  /\ now \in 0 .. MaxTime /\ now \in Nat /\ contrary \in 0 .. now
           /\ Timed(timing) /\ timing \in TimingType /\ Sound(session) /\ session \in Session
           /\ commands \subseteq CommandType
           /\ monitor = Idle \/ monitor \in MonitorType
BY TimesAssumption DEF SafeInv, TypeInv, IdleInv, Sound, Timed

(* Writes of the session that are no sign of use. *)
LEMMA SessionWrite ==
    ASSUME SafeInv, UNCHANGED <<now, contrary, monitor>>, commands' \subseteq CommandType,
           Sound(session'), Slept(session') => Slept(session),
           Timed(timing'), timing'.idle \in {timing.idle, Unset}
    PROVE  SafeInv'
<1>1. TypeInv'
  BY DEF SafeInv, TypeInv
<1>2. IdleInv'
  BY DEF SafeInv, IdleInv
<1>3. QED
  BY <1>1, <1>2 DEF SafeInv

LEMMA TickIsSafe ==
    ASSUME SafeInv, Tick
    PROVE  SafeInv' /\ Earned
<1>1. /\ now' = now + 1 /\ now < MaxTime
      /\ UNCHANGED <<session, timing, commands, monitor, contrary>>
  BY DEF Tick
<1>2. now' \in 0 .. MaxTime /\ contrary' \in 0 .. now'
  BY <1>1, SafeFacts, TimesAssumption
<1>3. TypeInv' /\ Sound(session)'
  BY <1>1, <1>2 DEF SafeInv, TypeInv
<1>4. IdleInv'
  BY <1>1, <1>2 DEF SafeInv, IdleInv
<1>5. Earned
  BY <1>1, StartsNothing
<1>6. QED
  BY <1>3, <1>4, <1>5 DEF SafeInv

(* What the monitor does while it gives a warning changes no deadline. *)
LEMMA LevelTyped ==
    ASSUME NEW deadline, deadline \in Deadlines \cup {Never}, now \in Nat
    PROVE  /\ WarningLevel(deadline) \in {0, 1, 2}
           /\ WarningLevel(deadline) > 0 => deadline \in Deadlines
BY DEF WarningLevel

LEMMA LeveledTimed ==
    ASSUME NEW t, Timed(t), NEW deadline \in Deadlines \cup {Never}, NEW level \in {1, 2}
    PROVE  /\ Timed(Leveled(t, deadline, level))
           /\ Leveled(t, deadline, level).idle = t.idle
<1> DEFINE u == [t EXCEPT !.warned = deadline, !.level = level, !.queued = 0]
<1>1. t \in TimingType /\ level \in Levels /\ 0 \in Levels
  BY DEF Timed, Levels
<1>2. u \in TimingType
  BY <1>1 DEF TimingType
<1>3. u.idle = t.idle /\ u.archiveAfter = t.archiveAfter /\ u.sleepAfter = t.sleepAfter
  BY <1>1 DEF TimingType
<1> HIDE DEF u
<1>4. Leveled(t, deadline, level) \in {t, u}
  BY DEF Leveled, u
<1>5. QED
  BY <1>2, <1>3, <1>4 DEF Timed

LEMMA MonitorTyped ==
    ASSUME NEW d \in Deadlines, NEW l \in {1, 2}
    PROVE  [step |-> "announce", deadline |-> d, level |-> l] \in MonitorType
BY DEF MonitorType

LEMMA WarnIfDueIsSafe ==
    ASSUME SafeInv, WarnIfDue
    PROVE  SafeInv' /\ Earned
<1> DEFINE d == WarnedDeadline(session, timing)
           l == WarningLevel(d)
<1>1. d \in Deadlines \cup {Never}
  BY SafeFacts, DeadlinesTyped
<1>2. /\ l > 0
      /\ timing' = Leveled(timing, d, l)
      /\ monitor' = [step |-> "announce", deadline |-> d, level |-> l]
      /\ UNCHANGED <<now, session, commands, contrary>>
  BY DEF WarnIfDue, WarningDue
<1> HIDE DEF d
<1>3. l \in {1, 2} /\ d \in Deadlines
  BY <1>1, <1>2, SafeFacts, LevelTyped
<1> HIDE DEF l
<1>4. Timed(timing') /\ timing'.idle = timing.idle
  BY <1>1, <1>2, <1>3, SafeFacts, LeveledTimed
<1>5. monitor' \in MonitorType
  BY <1>2, <1>3, MonitorTyped
<1>6. TypeInv' /\ Sound(session)'
  BY <1>2, <1>4, <1>5 DEF SafeInv, TypeInv
<1>7. IdleInv'
  BY <1>2, <1>4 DEF SafeInv, IdleInv
<1>8. Earned
  BY <1>2, StartsNothing
<1>9. QED
  BY <1>6, <1>7, <1>8 DEF SafeInv

LEMMA AnnounceMoves ==
    ASSUME SafeInv, monitor.step = "announce"
    PROVE  /\ [monitor EXCEPT !.step = "announced"] \in MonitorType
           /\ [monitor EXCEPT !.step = "announced"].step = "announced"
           /\ [monitor EXCEPT !.step = "announced"].deadline = monitor.deadline
           /\ [monitor EXCEPT !.step = "announced"].level = monitor.level
           /\ monitor \in MonitorType
<1>1. monitor \in MonitorType
  BY SafeFacts DEF Idle
<1>2. QED
  BY <1>1 DEF MonitorType

LEMMA SaveAnnouncedTimed ==
    ASSUME SafeInv, monitor.step = "announced"
    PROVE  /\ Timed([timing EXCEPT !.queued = monitor.level])
           /\ [timing EXCEPT !.queued = monitor.level].idle = timing.idle
           /\ [timing EXCEPT !.queued = monitor.level].warned = timing.warned
           /\ [timing EXCEPT !.queued = monitor.level].level = timing.level
           /\ [timing EXCEPT !.queued = monitor.level].queued = monitor.level
           /\ monitor \in MonitorType
<1>1. monitor \in MonitorType
  BY SafeFacts DEF Idle
<1>2. monitor.level \in Levels
  BY <1>1 DEF MonitorType, Levels
<1> DEFINE u == [timing EXCEPT !.queued = monitor.level]
<1>3. u \in TimingType
  BY <1>2, SafeFacts DEF TimingType
<1>4. /\ u.archiveAfter = timing.archiveAfter /\ u.sleepAfter = timing.sleepAfter
      /\ u.idle = timing.idle /\ u.warned = timing.warned /\ u.level = timing.level
      /\ u.queued = monitor.level
  BY SafeFacts DEF TimingType
<1>5. QED
  BY <1>1, <1>3, <1>4, SafeFacts DEF Timed

LEMMA MonitorIsSafe ==
    ASSUME SafeInv, Announce \/ SaveAnnounced \/ Crash
    PROVE  SafeInv' /\ Earned
<1>1. UNCHANGED <<now, session, commands, contrary>>
  BY DEF Announce, SaveAnnounced, Crash
<1>2. Timed(timing') /\ timing'.idle = timing.idle
  <2>1. CASE Announce \/ Crash
    BY <2>1, SafeFacts DEF Announce, Crash
  <2>2. CASE SaveAnnounced
    BY <2>2, SaveAnnouncedTimed DEF SaveAnnounced
  <2>3. QED
    BY <2>1, <2>2
<1>3. monitor' = Idle \/ monitor' \in MonitorType
  BY AnnounceMoves DEF Announce, SaveAnnounced, Crash
<1>4. TypeInv' /\ Sound(session)'
  BY <1>1, <1>2, <1>3 DEF SafeInv, TypeInv
<1>5. IdleInv'
  BY <1>1, <1>2 DEF SafeInv, IdleInv
<1>6. Earned
  BY <1>1, StartsNothing
<1>7. QED
  BY <1>4, <1>5, <1>6 DEF SafeInv

LEMMA CommandTyped ==
    ASSUME NEW k \in Actions, NEW a \in Moments, NEW d \in Deadlines
    PROVE  Command(k, a, d) \in CommandType
<1>1. AutomaticID(k, d) \in Workflows
  BY AutomaticIDAssumption
<1>2. QED
  BY <1>1 DEF Command, CommandType

(* What the monitor asks for on finding a deadline that has passed. *)
LEMMA SendsAreSafe ==
    ASSUME SafeInv, ArchiveIfDue \/ EnforceDeadline
    PROVE  SafeInv' /\ Earned
<1>1. /\ UNCHANGED <<now, session, timing, monitor, contrary>>
      /\ timing.sleeping \in Moments /\ timing.limit \in Deadlines /\ Unset \in Moments
  BY SafeFacts, DeadlinesTyped, NeverIsLate DEF ArchiveIfDue, EnforceDeadline, TimingType
<1>2. commands' \subseteq CommandType
  <2>1. CASE ArchiveIfDue
    <3>1. AutomaticArchiveDeadline(timing) <= now
      BY <2>1 DEF ArchiveIfDue, AutomaticArchiveDue
    <3>2. AutomaticArchiveDeadline(timing) \in Deadlines
      BY <3>1, SafeFacts, DeadlinesTyped, NeverIsLate, TimesAssumption
    <3>3. Command("Archive", timing.sleeping, AutomaticArchiveDeadline(timing))
             \in CommandType
      BY <1>1, <3>2, CommandTyped DEF Actions
    <3>4. QED
      BY <2>1, <3>3, SafeFacts DEF ArchiveIfDue, Send
  <2>2. CASE EnforceDeadline
    <3>1. Command("Terminate", Unset, timing.limit) \in CommandType
      BY <1>1, CommandTyped DEF Actions
    <3>2. QED
      BY <2>2, <3>1, SafeFacts DEF EnforceDeadline, Send
  <2>3. QED
    BY <2>1, <2>2
<1>3. Timed(timing') /\ timing'.idle = timing.idle
  BY <1>1, SafeFacts
<1>4. Sound(session') /\ (Slept(session') => Slept(session))
  BY <1>1, SafeFacts
<1>5. SafeInv'
  BY <1>1, <1>2, <1>3, <1>4, SessionWrite
<1>6. QED
  BY <1>1, <1>5, StartsNothing

LEMMA AlertIsSafe ==
    ASSUME SafeInv, AlertFailedDeadline
    PROVE  SafeInv' /\ Earned /\ timing'.level = 3
<1>1. /\ timing' = [timing EXCEPT !.warned = timing.limit, !.level = 3]
      /\ session' = session
      /\ UNCHANGED <<now, commands, monitor, contrary>>
  BY DEF AlertFailedDeadline, Write
<1>2. timing \in TimingType /\ timing.limit \in Deadlines /\ 3 \in Levels
  BY SafeFacts, DeadlinesTyped DEF Levels
<1>3. timing' \in TimingType
  BY <1>1, <1>2 DEF TimingType
<1>4. /\ timing'.archiveAfter = timing.archiveAfter
      /\ timing'.sleepAfter = timing.sleepAfter
      /\ timing'.idle = timing.idle /\ timing'.level = 3
  BY <1>1, <1>2 DEF TimingType
<1>5. Timed(timing')
  BY <1>3, <1>4, SafeFacts DEF Timed
<1>6. Sound(session') /\ (Slept(session') => Slept(session))
  BY <1>1, SafeFacts
<1>7. SafeInv'
  BY <1>1, <1>4, <1>5, <1>6, SafeFacts, SessionWrite
<1>8. QED
  BY <1>1, <1>4, <1>7, StartsNothing

LEMMA StartProbeIsSafe ==
    ASSUME SafeInv, StartProbe
    PROVE  SafeInv' /\ Earned /\ SameWarning(timing, timing')
<1>1. /\ session' = BeginMonitoring(session)
      /\ timing' = [timing EXCEPT !.probed = TRUE]
      /\ UNCHANGED <<now, commands, monitor, contrary>>
  BY DEF StartProbe, Write
<1>2. Kept(session, session')
  BY <1>1, SafeFacts, OtherWritesKeep
<1>3. Retimed(timing, timing')
  BY <1>1, SafeFacts, RetimedWrites, NeverIsLate
<1>4. SafeInv'
  BY <1>1, <1>2, <1>3, SafeFacts, SessionWrite DEF Kept, Retimed
<1>5. QED
  BY <1>2, <1>3, <1>4, StartsNothing DEF Kept, Retimed

(* The one write that opens an idle window: the session is RUNNING, so it   *)
(* did not sleep, and the last sign of use is not later than now.          *)
LEMMA ObserveProbeIsSafe ==
    ASSUME SafeInv, NEW verdict \in {"HEALTHY", "UNHEALTHY"},
           NEW answer \in {"empty", "players", "unknown"}, NEW sent \in BOOLEAN,
           ObserveProbe(verdict, answer, sent)
    PROVE  SafeInv' /\ Earned /\ SameWarning(timing, timing')
<1>1. /\ session.life = "RUNNING"
      /\ session' = CompleteMonitoring(session, verdict)
      /\ timing' = RecordPlayerActivity(timing, answer)
      /\ contrary' = IF answer = "empty" THEN contrary ELSE now
      /\ UNCHANGED <<now, monitor>>
  BY DEF ObserveProbe, Write
<1>2. Kept(session, session')
  BY <1>1, SafeFacts, OtherWritesKeep
<1>3. ~Slept(session')
  BY <1>1, <1>2, SafeFacts DEF Kept, Slept, Sound
<1>4. /\ Timed(timing') /\ SameWarning(timing, timing')
      /\ timing'.idle \in {timing.idle, now, Unset}
      /\ answer # "empty" => timing'.idle = Unset
  BY <1>1, SafeFacts, ActivityTimed
<1>5. commands' \subseteq CommandType
  <2> DEFINE c == Command("Sleep", timing'.idle, AutomaticSleepDeadline(timing'))
  <2>1. \/ commands' = commands
        \/ AutomaticSleepDue(session', timing') /\ commands' = commands \cup {c}
    BY <1>1 DEF ObserveProbe, Send
  <2>2. AutomaticSleepDue(session', timing') => c \in CommandType
    <3>1. timing'.idle \in Moments
      BY <1>4 DEF Timed, TimingType
    <3>2. /\ AutomaticSleepDeadline(timing') \in Deadlines \cup {Never}
          /\ timing'.idle # Unset =>
               AutomaticSleepDeadline(timing') = timing'.idle + timing'.sleepAfter
      BY <1>4, DeadlinesTyped
    <3>3. AutomaticSleepDue(session', timing') => AutomaticSleepDeadline(timing') <= now
      BY DEF AutomaticSleepDue
    <3>4. AutomaticSleepDue(session', timing') =>
            AutomaticSleepDeadline(timing') \in Deadlines
      BY <3>2, <3>3, SafeFacts, NeverIsLate, TimesAssumption
    <3>5. QED
      BY <3>1, <3>4, CommandTyped DEF Actions
  <2> HIDE DEF c
  <2>3. QED
    BY <2>1, <2>2, SafeFacts
<1>6. TypeInv'
  BY <1>1, <1>4, <1>5 DEF SafeInv, TypeInv
<1>7. IdleInv'
  <2>1. contrary' \in 0 .. now
    BY <1>1, SafeFacts
  <2>2. ASSUME timing'.idle # Unset
        PROVE  contrary' <= timing'.idle
    <3>1. contrary' = contrary /\ timing'.idle \in {timing.idle, now}
      BY <1>1, <1>4, <2>2
    <3>2. QED
      BY <2>2, <3>1, SafeFacts DEF SafeInv, IdleInv
  <2>3. QED
    BY <1>1, <1>3, <2>1, <2>2 DEF IdleInv
<1>8. Earned
  BY <1>2, StartsNothing DEF Kept
<1>9. QED
  BY <1>2, <1>4, <1>6, <1>7, <1>8 DEF SafeInv, Kept

LEMMA AdmitOwnedIsSafe ==
    ASSUME SafeInv, NEW w \in Owned,
           NEW k \in {"Bootstrap", "Wake", "Restart", "Sleep", "Archive", "Restore"},
           AdmitOwned(w, k)
    PROVE  SafeInv' /\ Earned /\ SameWarning(timing, timing')
<1>1. /\ CanBegin(session, k) /\ session' = Begin(session, w, k)
      /\ UNCHANGED <<now, timing, commands, monitor, contrary>>
  BY DEF AdmitOwned, Write
<1>2. w \in Workflows /\ k \in Kinds \ {"Provision"}
  BY AutomaticIDAssumption DEF Kinds
<1>3. Taken(session, session', w, k)
  BY <1>1, <1>2, SafeFacts, BeginTakes
<1>4. SafeInv'
  BY <1>1, <1>3, SafeFacts, SessionWrite DEF Taken
<1>5. QED
  BY <1>1, <1>3, <1>4, StartsNothing DEF Taken, SameWarning

(* The only step that starts a workflow of the automation: the worker's     *)
(* check holds of the session it changes, and IdleInv of its idle window.  *)
LEMMA AdmitAutomaticIsSafe ==
    ASSUME SafeInv, NEW c \in commands, AdmitAutomatic(c)
    PROVE  SafeInv' /\ Earned /\ SameWarning(timing, timing')
<1>1. /\ ValidateAutomaticCommand(c, session, timing)
      /\ CanBegin(session, c.kind) /\ session' = Begin(session, c.id, c.kind)
      /\ timing' \in {timing, [timing EXCEPT !.sleeping = Unset]}
      /\ commands' \subseteq commands
      /\ UNCHANGED <<now, monitor, contrary>>
  BY DEF AdmitAutomatic, Write
<1>2. c.id \in Workflows /\ c.kind \in Actions /\ c.kind \in Kinds \ {"Provision"}
  BY SafeFacts DEF CommandType, Actions, Kinds
<1>3. Taken(session, session', c.id, c.kind)
  BY <1>1, <1>2, SafeFacts, BeginTakes
<1>4. Retimed(timing, timing')
  BY <1>1, SafeFacts, RetimedWrites, NeverIsLate
<1>5. SafeInv'
  BY <1>1, <1>3, <1>4, SafeFacts, SessionWrite DEF Taken, Retimed
<1>6. session'.kind = c.kind
  BY <1>3 DEF Taken
<1>7. CASE c.kind = "Sleep"
  <2>1. /\ timing.idle # Unset /\ AutomaticSleepDeadline(timing) <= now
        /\ now - timing.observed <= MaximumActivityEvidenceAge
    BY <1>1, <1>7 DEF ValidateAutomaticCommand, AutomaticSleepDue
  <2>2. timing.idle + timing.sleepAfter <= now
    BY <2>1, SafeFacts, DeadlinesTyped
  <2>3. contrary <= timing.idle
    BY <2>1 DEF SafeInv, IdleInv
  <2>4. timing.idle \in Nat /\ timing.sleepAfter \in Nat
    BY SafeFacts, TimesAssumption DEF TimingType, Moments, Unset
  <2>5. contrary + timing.sleepAfter <= now
    BY <2>2, <2>3, <2>4, SafeFacts
  <2>6. QED
    BY <1>4, <1>5, <1>6, <1>7, <2>1, <2>5 DEF Earned, Begins, Retimed
<1>8. CASE c.kind = "Archive"
  <2>1. session.life = "SLEEPING" /\ AutomaticArchiveDeadline(timing) <= now
    BY <1>1, <1>8 DEF ValidateAutomaticCommand, AutomaticArchiveDue
  <2>2. timing.sleeping # Unset
    <3>1. Never > now
      BY SafeFacts, NeverIsLate, TimesAssumption
    <3>2. QED
      BY <2>1, <3>1, NeverIsLate, SafeFacts DEF AutomaticArchiveDeadline
  <2>3. timing.sleeping + timing.archiveAfter <= now
    BY <2>1, <2>2, SafeFacts, DeadlinesTyped
  <2>4. session.asleep
    BY <2>1, SafeFacts DEF Sound
  <2>5. QED
    BY <1>4, <1>5, <1>6, <1>8, <2>3, <2>4 DEF Earned, Begins, Retimed
<1>9. CASE c.kind = "Terminate"
  <2>1. session.life = "FAILED" /\ ~Archived(session) /\ timing.limit <= now
    BY <1>1, <1>9 DEF ValidateAutomaticCommand, MaximumDeadlineDue, FailedInitialCreation
  <2>2. QED
    BY <1>4, <1>5, <1>6, <1>9, <2>1 DEF Earned, Begins, Retimed
<1>10. QED
  BY <1>2, <1>7, <1>8, <1>9 DEF Actions

LEMMA WorkIsSafe ==
    ASSUME SafeInv, Work
    PROVE  SafeInv' /\ Earned /\ SameWarning(timing, timing')
<1>1. ~Unlocked(session) /\ UNCHANGED <<now, commands, monitor, contrary>>
  BY DEF Work
<1>2. Kept(session, session') /\ Retimed(timing, timing')
  <2>1. CASE /\ session.kind = "Bootstrap" /\ session' = BeginInstallation(session)
             /\ timing' = timing
    BY <2>1, SafeFacts, InstallationKeeps, RetimedWrites, NeverIsLate
  <2>2. CASE /\ session.kind = "Archive"
             /\ session' = RecordVerifiedArchive(session, session.lock)
             /\ timing' = [timing EXCEPT !.sleeping = Unset]
    BY <1>1, <2>2, SafeFacts, ArchiveRecordKeeps, RetimedWrites, NeverIsLate
  <2>3. CASE session' = RecordLaunch(session, "complete") /\ timing' = timing
    BY <2>3, SafeFacts, OtherWritesKeep, RetimedWrites, NeverIsLate
  <2>4. QED
    BY <2>1, <2>2, <2>3 DEF Work, Write
<1>3. SafeInv'
  BY <1>1, <1>2, SafeFacts, SessionWrite DEF Kept, Retimed
<1>4. QED
  BY <1>2, <1>3, StartsNothing DEF Kept, Retimed

(* A wake is a sign of use and leaves the idle window alone: there is none. *)
LEMMA CompleteWorkIsSafe ==
    ASSUME SafeInv, CompleteWork
    PROVE  SafeInv' /\ Earned /\ SameWarning(timing, timing')
<1>1. /\ ~Unlocked(session) /\ CanComplete(session, session.kind)
      /\ session' = Complete(session, session.kind)
      /\ timing' = Completed(timing, session.kind)
      /\ contrary' = IF session.kind \in {"Wake", "Restart"} THEN now ELSE contrary
      /\ UNCHANGED <<now, commands, monitor>>
  BY DEF CompleteWork, Write
<1>2. session.kind \in Kinds
  BY <1>1, SafeFacts, HeldFacts
<1>3. /\ Retimed(timing, timing')
      /\ session.kind \in {"Sleep", "Restart"} => timing'.idle = Unset
  BY <1>1, <1>2, SafeFacts, CompletedRetimes
<1>4. Sound(session') /\ session'.kind = "none"
  <2>1. CASE session.kind = "Sleep"
    <3>1. session' = CompleteSleep(session)
      BY <1>1, <2>1 DEF Complete
    <3>2. QED
      BY <1>1, <2>1, <3>1, SafeFacts, CompleteSleepReleases
  <2>2. CASE session.kind # "Sleep"
    BY <1>1, <2>2, SafeFacts, CompleteReleases DEF Released
  <2>3. QED
    BY <2>1, <2>2
<1>5. TypeInv'
  BY <1>1, <1>3 DEF SafeInv, TypeInv, Retimed
<1>6. IdleInv'
  <2>1. contrary' \in 0 .. now
    BY <1>1, SafeFacts
  <2>2. session.kind = "Wake" => timing.idle = Unset
    BY DEF SafeInv, IdleInv, Slept
  <2>3. ASSUME timing'.idle # Unset
        PROVE  contrary' <= timing'.idle /\ ~Slept(session')
    <3>1. /\ session.kind \notin {"Sleep", "Wake", "Restart"}
          /\ contrary' = contrary /\ timing'.idle = timing.idle
      BY <1>1, <1>3, <2>2, <2>3 DEF Retimed
    <3>2. Slept(session') => Slept(session)
      BY <1>1, <3>1, SafeFacts, CompleteReleases DEF Released
    <3>3. QED
      BY <2>3, <3>1, <3>2 DEF SafeInv, IdleInv
  <2>4. QED
    BY <1>1, <2>1, <2>3 DEF IdleInv
<1>7. QED
  BY <1>3, <1>4, <1>5, <1>6, StartsNothing DEF SafeInv, Retimed

LEMMA FailuresAreSafe ==
    ASSUME SafeInv, FailWork \/ RefuseWork
    PROVE  SafeInv' /\ Earned /\ SameWarning(timing, timing')
<1>1. UNCHANGED <<now, commands, monitor, contrary>>
  BY DEF FailWork, RefuseWork
<1>2. Released(session, session') /\ Retimed(timing, timing')
  <2>1. CASE FailWork
    <3> DEFINE m == IF session.kind \in {"Bootstrap", "Restore"} THEN timing.sleeping
                    ELSE Unset
    <3>1. m \in Moments
      BY SafeFacts, NeverIsLate DEF TimingType
    <3>2. /\ ~Unlocked(session) /\ session' = Fail(session, session.kind)
          /\ timing' = [timing EXCEPT !.failure = TRUE, !.sleeping = m]
      BY <2>1, SafeFacts DEF FailWork, Write, TimingType
    <3> HIDE DEF m
    <3>3. Released(session, session')
      BY <3>2, SafeFacts, FailReleases
    <3>4. QED
      BY <3>1, <3>2, <3>3, SafeFacts, RetimedWrites
  <2>2. CASE RefuseWork
    <3>1. /\ ~Unlocked(session) /\ CanAbortStart(session, session.kind)
          /\ session' = AbortStart(session, session.kind)
          /\ timing' = [timing EXCEPT !.failure = TRUE]
      BY <2>2 DEF RefuseWork, Write
    <3>2. Released(session, session')
      BY <3>1, SafeFacts, AbortStartReleases
    <3>3. QED
      BY <3>1, <3>2, SafeFacts, RetimedWrites, NeverIsLate
  <2>3. QED
    BY <2>1, <2>2
<1>3. SafeInv'
  BY <1>1, <1>2, SafeFacts, SessionWrite DEF Released, Retimed
<1>4. QED
  BY <1>2, <1>3, StartsNothing DEF Released, Retimed

LEMMA ExtensionsAreSafe ==
    ASSUME SafeInv, ExtendTimeouts \/ ExtendDuration
    PROVE  SafeInv' /\ Earned /\ SameWarning(timing, timing')
<1>1. session' = session /\ UNCHANGED <<now, commands, monitor, contrary>>
  BY DEF ExtendTimeouts, ExtendDuration, Write
<1>2. /\ timing \in TimingType /\ timing.sleepAfter \in 0 .. MaxSleepAfter
      /\ timing.archiveAfter \in 0 .. ArchiveAfter + MaxSleepAfter
      /\ timing.limit \in 0 .. Lifetime + Extension
      /\ timing.archiveAfter + SleepAfter = ArchiveAfter + timing.sleepAfter
  BY SafeFacts DEF Timed, TimingType
<1>3. Retimed(timing, timing')
  <2>1. CASE ExtendTimeouts
    <3> DEFINE x == timing.sleepAfter + Extension
               y == timing.archiveAfter + Extension
    <3>1. /\ x \in 0 .. MaxSleepAfter /\ y \in 0 .. ArchiveAfter + MaxSleepAfter
          /\ y + SleepAfter = ArchiveAfter + x
      BY <1>2, <2>1, TimesAssumption DEF ExtendTimeouts
    <3>2. timing' = [timing EXCEPT !.sleepAfter = x, !.archiveAfter = y]
      BY <1>2, <2>1 DEF ExtendTimeouts, Write, TimingType
    <3> HIDE DEF x, y
    <3>3. timing' \in TimingType
      BY <1>2, <3>1, <3>2 DEF TimingType
    <3>4. /\ timing'.sleepAfter = x /\ timing'.archiveAfter = y
          /\ timing'.idle = timing.idle /\ SameWarning(timing, timing')
      BY <1>2, <3>2 DEF TimingType, SameWarning
    <3>5. QED
      BY <3>1, <3>3, <3>4 DEF Retimed, Timed
  <2>2. CASE ExtendDuration
    <3> DEFINE x == timing.limit + Extension
    <3>1. x \in 0 .. Lifetime + Extension
      BY <1>2, <2>2, TimesAssumption DEF ExtendDuration
    <3>2. timing' = [timing EXCEPT !.limit = x]
      BY <1>2, <2>2 DEF ExtendDuration, Write, TimingType
    <3> HIDE DEF x
    <3>3. timing' \in TimingType
      BY <1>2, <3>1, <3>2 DEF TimingType
    <3>4. /\ timing'.sleepAfter = timing.sleepAfter
          /\ timing'.archiveAfter = timing.archiveAfter
          /\ timing'.idle = timing.idle /\ SameWarning(timing, timing')
      BY <1>2, <3>2 DEF TimingType, SameWarning
    <3>5. QED
      BY <1>2, <3>3, <3>4 DEF Retimed, Timed
  <2>3. QED
    BY <2>1, <2>2
<1>4. Sound(session') /\ (Slept(session') => Slept(session))
  BY <1>1, SafeFacts
<1>5. SafeInv'
  BY <1>1, <1>3, <1>4, SafeFacts, SessionWrite DEF Retimed
<1>6. QED
  BY <1>1, <1>3, <1>5, StartsNothing DEF Retimed

(* The automation's safety: one case per action. *)
LEMMA SafeStep ==
    ASSUME SafeInv, [Next]_vars
    PROVE  SafeInv' /\ [Earned]_vars
<1>1. CASE Tick
  BY <1>1, TickIsSafe
<1>2. CASE WarnIfDue
  BY <1>2, WarnIfDueIsSafe
<1>3. CASE Announce \/ SaveAnnounced \/ Crash
  BY <1>3, MonitorIsSafe
<1>4. CASE ArchiveIfDue \/ EnforceDeadline
  BY <1>4, SendsAreSafe
<1>5. CASE AlertFailedDeadline
  BY <1>5, AlertIsSafe
<1>6. CASE StartProbe
  BY <1>6, StartProbeIsSafe
<1>7. CASE \E verdict \in {"HEALTHY", "UNHEALTHY"}, answer \in {"empty", "players", "unknown"},
              sent \in BOOLEAN : ObserveProbe(verdict, answer, sent)
  BY <1>7, ObserveProbeIsSafe
<1>8. CASE \E c \in commands : AdmitAutomatic(c)
  BY <1>8, AdmitAutomaticIsSafe
<1>9. CASE \E w \in Owned,
              k \in {"Bootstrap", "Wake", "Restart", "Sleep", "Archive", "Restore"} :
                AdmitOwned(w, k)
  BY <1>9, AdmitOwnedIsSafe
<1>10. CASE Work
  BY <1>10, WorkIsSafe
<1>11. CASE CompleteWork
  BY <1>11, CompleteWorkIsSafe
<1>12. CASE FailWork \/ RefuseWork
  BY <1>12, FailuresAreSafe
<1>13. CASE ExtendTimeouts \/ ExtendDuration
  BY <1>13, ExtensionsAreSafe
<1>14. CASE UNCHANGED vars
  BY <1>14 DEF vars, SafeInv, TypeInv, IdleInv, Slept
<1>15. QED
  BY <1>1, <1>2, <1>3, <1>4, <1>5, <1>6, <1>7, <1>8, <1>9, <1>10, <1>11, <1>12, <1>13,
     <1>14 DEF Next

LEMMA SafeStart == Init => SafeInv
<1> SUFFICES ASSUME Init PROVE SafeInv
  OBVIOUS
<1>1. PICK up \in BOOLEAN : session = InitialSession(up) /\ timing = InitialTiming(up)
  BY TimesAssumption DEF Init
<1>2. /\ {Unset} \subseteq Moments /\ SleepAfter \in 0 .. MaxSleepAfter
      /\ ArchiveAfter \in 0 .. ArchiveAfter + MaxSleepAfter
      /\ Lifetime \in 0 .. Lifetime + Extension /\ 0 \in Levels
  BY TimesAssumption, NeverIsLate DEF Levels
<1>3. Timed(timing) /\ timing.idle = Unset
  BY <1>1, <1>2, TimesAssumption DEF InitialTiming, Timed, TimingType
<1>4. TypeInv
  BY <1>3, TimesAssumption DEF Init, TypeInv
<1>5. Sound(session)
  <2>1. session \in Session
    BY <1>1, States DEF InitialSession, Session, Kinds
  <2>2. QED
    BY <1>1, <2>1 DEF InitialSession, Sound, Unlocked
<1>6. IdleInv
  BY <1>3 DEF Init, IdleInv
<1>7. QED
  BY <1>4, <1>5, <1>6 DEF SafeInv

(* The clock, the timestamps and the commands stay within their types, and  *)
(* the idle window that a session records began after the last sign of use. *)
THEOREM AutomationSafety == Spec => []SafeInv
BY SafeStart, SafeStep, PTL DEF Spec

(* No automatic action is early, whatever happened after it was asked for.  *)
THEOREM AutomaticActionsAreEarned == Spec => AutomationIsEarned
<1>1. SafeInv /\ [Next]_vars
        => [/\ Begins("Sleep") =>
                  /\ contrary + timing.sleepAfter <= now
                  /\ now - timing.observed <= MaximumActivityEvidenceAge
            /\ Begins("Archive") =>
                  session.asleep /\ timing.sleeping + timing.archiveAfter <= now
            /\ Begins("Terminate") =>
                  session.life = "FAILED" /\ ~Archived(session) /\ timing.limit <= now]_vars
  BY SafeStep DEF Earned
<1>2. QED
  BY <1>1, AutomationSafety, PTL DEF Spec, AutomationIsEarned

-----------------------------------------------------------------------------
(* Warnings that are recorded were sent                                    *)

LEMMA WarningWrite ==
    ASSUME WarningInv, SameWarning(timing, timing'), UNCHANGED <<monitor, notices>>
    PROVE  WarningInv'
<1>1. QueuedWarningsWereSent'
  BY DEF WarningInv, QueuedWarningsWereSent, SameWarning
<1>2. QED
  BY <1>1 DEF WarningInv, SameWarning

LEMMA WarnIfDueIsSent ==
    ASSUME SafeInv, WarningInv, WarnIfDue
    PROVE  WarningInv'
<1> DEFINE d == WarnedDeadline(session, timing)
           l == WarningLevel(d)
           u == [timing EXCEPT !.warned = d, !.level = l, !.queued = 0]
<1>1. /\ timing' = Leveled(timing, d, l)
      /\ monitor' = [step |-> "announce", deadline |-> d, level |-> l]
      /\ notices' = notices
  BY DEF WarnIfDue
<1>2. monitor' # Idle /\ monitor'.step # "announced" /\ monitor'.deadline = d
  BY <1>1 DEF Idle
<1>3. u.warned = d /\ u.queued = 0
  BY SafeFacts DEF TimingType
<1> HIDE DEF l
<1>4. \/ timing' = timing /\ timing.warned = d
      \/ timing' = u
  BY <1>1 DEF Leveled
<1> HIDE DEF u, d
<1>5. timing'.warned = d
  BY <1>3, <1>4
<1>6. QueuedWarningsWereSent'
  BY <1>1, <1>3, <1>4 DEF WarningInv, QueuedWarningsWereSent
<1>7. QED
  BY <1>2, <1>5, <1>6 DEF WarningInv

(* A notice takes the place of those for other deadlines only. *)
LEMMA AnnounceIsSent ==
    ASSUME SafeInv, WarningInv, Announce
    PROVE  WarningInv'
<1>1. /\ monitor.step = "announce" /\ timing' = timing
      /\ notices' = {n \in notices : n.deadline = monitor.deadline}
                       \cup {Notice(monitor.deadline, monitor.level)}
      /\ monitor' = [monitor EXCEPT !.step = "announced"]
  BY DEF Announce, Notice
<1>2. /\ monitor'.step = "announced" /\ monitor'.deadline = monitor.deadline
      /\ monitor'.level = monitor.level /\ monitor # Idle
  BY <1>1, AnnounceMoves DEF Idle
<1>3. timing.level = 3 \/ timing.warned = monitor.deadline
  BY <1>2 DEF WarningInv
<1>4. QueuedWarningsWereSent'
  <2>1. SUFFICES ASSUME timing.queued > 0, timing.level < 3
                 PROVE  Notice(timing.warned, timing.queued) \in notices'
    BY <1>1 DEF QueuedWarningsWereSent, Notice
  <2>2. timing.warned = monitor.deadline
    BY <1>3, <2>1
  <2>3. Notice(timing.warned, timing.queued) \in notices
    BY <2>1 DEF WarningInv, QueuedWarningsWereSent, Notice
  <2>4. Notice(timing.warned, timing.queued).deadline = monitor.deadline
    BY <2>2 DEF Notice
  <2>5. QED
    BY <1>1, <2>3, <2>4
<1>5. QED
  BY <1>1, <1>2, <1>3, <1>4 DEF WarningInv

LEMMA SaveAnnouncedIsSent ==
    ASSUME SafeInv, WarningInv, SaveAnnounced
    PROVE  WarningInv'
<1>1. /\ monitor.step = "announced" /\ monitor' = Idle /\ notices' = notices
      /\ timing' = [timing EXCEPT !.queued = monitor.level]
  BY DEF SaveAnnounced
<1>2. /\ timing'.warned = timing.warned /\ timing'.level = timing.level
      /\ timing'.queued = monitor.level /\ monitor # Idle
  BY <1>1, SaveAnnouncedTimed DEF Idle
<1>3. QueuedWarningsWereSent'
  BY <1>1, <1>2 DEF WarningInv, QueuedWarningsWereSent, Notice
<1>4. QED
  BY <1>1, <1>3 DEF WarningInv, Idle

LEMMA WarningStep ==
    ASSUME SafeInv, WarningInv, [Next]_vars
    PROVE  WarningInv'
<1>1. CASE WarnIfDue
  BY <1>1, WarnIfDueIsSent
<1>2. CASE Announce
  BY <1>2, AnnounceIsSent
<1>3. CASE SaveAnnounced
  BY <1>3, SaveAnnouncedIsSent
<1>4. CASE Crash
  <2>1. monitor' = Idle /\ UNCHANGED <<timing, notices>>
    BY <1>4 DEF Crash
  <2>2. QED
    BY <2>1 DEF WarningInv, QueuedWarningsWereSent, Idle
<1>5. CASE AlertFailedDeadline
  <2>1. timing'.level = 3 /\ UNCHANGED <<monitor, notices>>
    BY <1>5, AlertIsSafe DEF AlertFailedDeadline
  <2>2. QED
    BY <2>1 DEF WarningInv, QueuedWarningsWereSent
<1>6. CASE Tick \/ ArchiveIfDue \/ EnforceDeadline \/ UNCHANGED vars
  <2>1. UNCHANGED <<timing, monitor, notices>>
    BY <1>6 DEF Tick, ArchiveIfDue, EnforceDeadline, vars
  <2>2. QED
    BY <2>1, WarningWrite DEF SameWarning
<1>7. CASE StartProbe
  BY <1>7, StartProbeIsSafe, WarningWrite DEF StartProbe
<1>8. CASE \E verdict \in {"HEALTHY", "UNHEALTHY"}, answer \in {"empty", "players", "unknown"},
              sent \in BOOLEAN : ObserveProbe(verdict, answer, sent)
  BY <1>8, ObserveProbeIsSafe, WarningWrite DEF ObserveProbe
<1>9. CASE \E c \in commands : AdmitAutomatic(c)
  BY <1>9, AdmitAutomaticIsSafe, WarningWrite DEF AdmitAutomatic
<1>10. CASE \E w \in Owned,
               k \in {"Bootstrap", "Wake", "Restart", "Sleep", "Archive", "Restore"} :
                 AdmitOwned(w, k)
  BY <1>10, AdmitOwnedIsSafe, WarningWrite DEF AdmitOwned
<1>11. CASE Work
  BY <1>11, WorkIsSafe, WarningWrite DEF Work
<1>12. CASE CompleteWork
  BY <1>12, CompleteWorkIsSafe, WarningWrite DEF CompleteWork
<1>13. CASE FailWork \/ RefuseWork
  BY <1>13, FailuresAreSafe, WarningWrite DEF FailWork, RefuseWork
<1>14. CASE ExtendTimeouts \/ ExtendDuration
  BY <1>14, ExtensionsAreSafe, WarningWrite DEF ExtendTimeouts, ExtendDuration
<1>15. QED
  BY <1>1, <1>2, <1>3, <1>4, <1>5, <1>6, <1>7, <1>8, <1>9, <1>10, <1>11, <1>12, <1>13,
     <1>14 DEF Next

(* A warning that a session records as queued was sent, whatever run of the *)
(* monitor died between its calls.                                         *)
THEOREM QueuedNoticesWereSent == Spec => []QueuedWarningsWereSent
<1>1. Init => WarningInv
  <2> SUFFICES ASSUME Init PROVE WarningInv
    OBVIOUS
  <2>1. monitor = Idle /\ timing.queued = 0
    BY DEF Init, InitialTiming
  <2>2. QED
    BY <2>1 DEF WarningInv, QueuedWarningsWereSent, Idle
<1>2. SafeInv /\ WarningInv /\ [Next]_vars => WarningInv'
  BY WarningStep
<1>3. WarningInv => QueuedWarningsWereSent
  BY DEF WarningInv
<1>4. QED
  BY <1>1, <1>2, <1>3, AutomationSafety, PTL DEF Spec
=============================================================================
