-------------------------------- MODULE Fleet --------------------------------
(***************************************************************************)
(* Several sessions compete for a fixed number of capacity slots and for   *)
(* EC2 hosts, while a scheduled scan looks for hosts nobody refers to and  *)
(* an operator removes them.                                               *)
(*                                                                         *)
(* A session is seen from outside: where it is in its life, and the slot   *)
(* and the host its record refers to.  The lease guarantees that at most   *)
(* one workflow works on a session (SessionWorkflows); what it does not    *)
(* cover, and this module is about, is the order in which one invocation   *)
(* touches the capacity table, EC2 and the record, and that it may die     *)
(* between any two of them.                                                *)
(***************************************************************************)
EXTENDS Naturals, FiniteSets

CONSTANTS
    Sessions,           \* session identifiers
    Hosts,              \* EC2 instance identifiers
    NoSession, NoSlot, NoHost,
    MaxProvisioned,     \* the capacity limit
    MaxLoose            \* bound: sessions with a loose end at a time

ASSUME FleetAssumption ==
    /\ NoSession \notin Sessions
    /\ NoHost \notin Hosts
    /\ MaxProvisioned \in Nat \ {0} /\ MaxLoose \in Nat
    /\ NoSlot \notin 0 .. MaxProvisioned - 1

VARIABLES
    record,     \* record[s]: the session item of the metadata table
    task,       \* task[s]: the invocation that works on the session, if any
    stray,      \* stray[s]: the execution that runs on after its workflow was failed
    late,       \* late[s]: the slots that failed provisionings have yet to release
    robbed,     \* history: the sessions whose slot such a release took away
    capacity,   \* capacity[k]: the owner of a capacity slot
    cloud,      \* cloud[h]: the instance as EC2 has it
    finding,    \* finding[h]: the orphan finding of the instance
    operator    \* an operator's cleanup, between its two reads

fleetVars == <<record, task, stray, late, robbed, capacity, cloud, finding, operator>>

Capacity == INSTANCE CapacitySlots
Slots == Capacity!Slots

Lives == {"ABSENT", "NEW", "PROVISIONING", "RUNNING", "ARCHIVING", "ARCHIVED",
          "RESTORING", "DELETING", "DELETED", "FAILED"}
Starting == {"PROVISIONING", "RESTORING"}
Removing == {"ARCHIVING", "DELETING"}

Steps == {"idle", "ready", "fail", "probe", "taken", "reserved", "launched",
          "failing", "released"}

Idle == [step |-> "idle", slot |-> NoSlot, host |-> NoHost, release |-> FALSE]
Ready == [Idle EXCEPT !.step = "ready"]
InFail == [Idle EXCEPT !.step = "fail"]     \* the machine has reached its Fail state
AtRest == [host |-> NoHost, spared |-> NoHost, listed |-> FALSE]
NeverLaunched == [owner |-> NoSession, up |-> FALSE, astray |-> FALSE]

TypeOK ==
    /\ record \in [Sessions -> [life : Lives, slot : Slots \cup {NoSlot},
                                host : Hosts \cup {NoHost}, retry : BOOLEAN]]
    /\ task \in [Sessions -> [step : Steps, slot : Slots \cup {NoSlot},
                              host : Hosts \cup {NoHost}, release : BOOLEAN]]
    /\ stray \in [Sessions -> {"none", "prepare", "ensure", "remove"}]
    /\ late \in [Sessions -> SUBSET Slots]
    /\ robbed \in SUBSET Sessions
    /\ capacity \in [Slots -> Sessions \cup {NoSession}]
    /\ cloud \in [Hosts -> [owner : Sessions \cup {NoSession}, up : BOOLEAN,
                         astray : BOOLEAN]]
    /\ finding \in [Hosts -> [disposition : {"none", "DETECTED", "QUARANTINED", "CLEANED"},
                              waited : BOOLEAN]]
    /\ operator \in [host : Hosts \cup {NoHost}, spared : Hosts \cup {NoHost},
                     listed : BOOLEAN]

Init ==
    /\ record = [s \in Sessions |-> [life |-> "ABSENT", slot |-> NoSlot,
                                     host |-> NoHost, retry |-> FALSE]]
    /\ task = [s \in Sessions |-> Idle]
    /\ stray = [s \in Sessions |-> "none"]
    /\ late = [s \in Sessions |-> {}]
    /\ robbed = {}
    /\ capacity = [k \in Slots |-> NoSession]
    /\ cloud = [h \in Hosts |-> NeverLaunched]
    /\ finding = [h \in Hosts |-> [disposition |-> "none", waited |-> FALSE]]
    /\ operator = AtRest

orphanVars == <<finding, operator>>
lateVars == <<stray, late, robbed>>

-----------------------------------------------------------------------------
(* Starting workflows.  A session has one workflow at a time: its lease.   *)

Begin(s, life) ==
    /\ task[s].step = "idle"
    /\ record' = [record EXCEPT ![s].life = life]
    /\ task' = [task EXCEPT ![s] = Ready]
    /\ UNCHANGED <<lateVars, capacity, cloud, orphanVars>>

CreateSession(s) ==
    /\ record[s].life = "ABSENT"
    /\ record' = [record EXCEPT ![s].life = "NEW"]
    /\ UNCHANGED <<task, lateVars, capacity, cloud, orphanVars>>

(* CanStartInfrastructureProvisioning, after the capacity check that the    *)
(* command makes for the user's benefit: it reserves nothing.              *)
StartProvision(s) ==
    /\ \/ record[s].life = "NEW"
       \/ /\ record[s].life = "FAILED"
          /\ record[s].slot = NoSlot /\ record[s].host = NoHost
    /\ Capacity!HasCapacity(s)
    /\ Begin(s, "PROVISIONING")

StartArchive(s) ==
    /\ record[s].life = "RUNNING"
    /\ Begin(s, "ARCHIVING")

(* CanRestore: an archived session, or a failed restore that kept a host.   *)
StartRestore(s) ==
    /\ \/ record[s].life = "ARCHIVED" /\ Capacity!HasCapacity(s)
       \/ record[s].life = "FAILED" /\ record[s].retry /\ record[s].host # NoHost
    /\ Begin(s, "RESTORING")

StartTermination(s) ==
    /\ record[s].life \notin {"ABSENT", "DELETED"}
    /\ Begin(s, "DELETING")

-----------------------------------------------------------------------------
(* Reserving capacity.  The DynamoDB adapter probes slot after slot with a *)
(* conditional put, and reads a slot it could not take to see whose it is. *)

Step(s, to) == task' = [task EXCEPT ![s] = to]

Prepare(s) ==
    /\ task[s].step = "ready" /\ record[s].life \in Starting
    /\ record[s].slot = NoSlot
    /\ Step(s, [Idle EXCEPT !.step = "probe", !.slot = 0])
    /\ robbed' = robbed \ {s}       \* what it had before is of no more interest
    /\ UNCHANGED <<record, stray, late, capacity, cloud, orphanVars>>

(* Mutant: the put is not conditional on the slot being free. *)
PutSlotAnyway(s) ==
    /\ task[s].step = "probe"
    /\ capacity' = [capacity EXCEPT ![task[s].slot] = s]
    /\ Step(s, [task[s] EXCEPT !.step = "reserved"])
    /\ UNCHANGED <<record, lateVars, cloud, orphanVars>>

PutSlot(s) ==
    LET k == task[s].slot
    IN /\ task[s].step = "probe"
       /\ IF capacity[k] = NoSession
          THEN /\ capacity' = [capacity EXCEPT ![k] = s]
               /\ Step(s, [task[s] EXCEPT !.step = "reserved"])
          ELSE /\ Step(s, [task[s] EXCEPT !.step = "taken"])
               /\ UNCHANGED capacity
       /\ UNCHANGED <<record, lateVars, cloud, orphanVars>>

(* Mutant: off by one, the slot after the last one is probed too. *)
ReadSlotPastLast(s) ==
    LET k == task[s].slot
    IN /\ task[s].step = "taken"
       /\ Step(s, IF capacity[k] = s THEN [task[s] EXCEPT !.step = "reserved"]
                  ELSE IF k < MaxProvisioned
                  THEN [Idle EXCEPT !.step = "probe", !.slot = k + 1]
                  ELSE Ready)
       /\ UNCHANGED <<record, lateVars, capacity, cloud, orphanVars>>

ReadSlot(s) ==
    LET k == task[s].slot
    IN /\ task[s].step = "taken"
       /\ Step(s, IF capacity[k] = s THEN [task[s] EXCEPT !.step = "reserved"]
                  ELSE IF k + 1 \in Slots THEN [Idle EXCEPT !.step = "probe", !.slot = k + 1]
                  ELSE Ready)       \* ErrQuotaExceeded
       /\ UNCHANGED <<record, lateVars, capacity, cloud, orphanVars>>

SaveSlot(s) ==
    /\ task[s].step = "reserved"
    /\ record' = [record EXCEPT ![s].slot = task[s].slot]
    /\ Step(s, Ready)
    /\ UNCHANGED <<lateVars, capacity, cloud, orphanVars>>

(* Mutant: the delete is not conditional on the owner. *)
ReleasedWhoeversItIs(s, k) ==
    IF k # NoSlot THEN [capacity EXCEPT ![k] = NoSession] ELSE capacity

(* ReleaseCapacitySlot: a conditional delete; losing it is not an error.    *)
Released(s, k) ==
    IF k # NoSlot /\ capacity[k] = s THEN [capacity EXCEPT ![k] = NoSession] ELSE capacity

-----------------------------------------------------------------------------
(* Launching a host.                                                       *)

(* FindInstance: the running instances that carry the session's tags.      *)
InstancesOf(s) == {h \in Hosts : cloud[h].owner = s /\ cloud[h].up}

(* EnsureInstance adopts the instance it finds and launches one otherwise.  *)
EnsureInstance(s) ==
    /\ task[s].step = "ready" /\ record[s].life \in Starting
    /\ record[s].slot # NoSlot /\ record[s].host = NoHost
    /\ \E h \in Hosts :
        /\ Step(s, [Idle EXCEPT !.step = "launched", !.host = h])
        /\ \/ /\ InstancesOf(s) = {h}
              /\ UNCHANGED cloud
           \/ /\ InstancesOf(s) = {} /\ cloud[h].owner = NoSession
              /\ cloud' = [cloud EXCEPT ![h] = [owner |-> s, up |-> TRUE, astray |-> FALSE]]
    /\ UNCHANGED <<record, lateVars, capacity, orphanVars>>

SaveLaunch(s) ==
    /\ task[s].step = "launched"
    /\ record' = [record EXCEPT ![s].host = task[s].host]
    /\ Step(s, Ready)
    /\ UNCHANGED <<lateVars, capacity, cloud, orphanVars>>

CompleteStart(s) ==
    /\ task[s].step = "ready" /\ record[s].life \in Starting
    /\ record[s].host # NoHost /\ cloud[record[s].host].up
    /\ record' = [record EXCEPT ![s].life = "RUNNING", ![s].retry = FALSE]
    /\ Step(s, Idle)
    /\ UNCHANGED <<lateVars, capacity, cloud, orphanVars>>

-----------------------------------------------------------------------------
(* Failing to start.  The handler looks for a host that a lost response    *)
(* may have left behind before it gives the slot back.                     *)

(* Mutant: a failed discovery counts as having found nothing. *)
HastyDecision(s, discovered) ==
    [step |-> "failing", slot |-> record[s].slot, host |-> record[s].host,
     release |-> record[s].host = NoHost /\ (~discovered \/ InstancesOf(s) = {})]

(* The slot goes back only when discovery succeeds and finds nothing: a     *)
(* failed discovery must never permit an over-quota launch.                *)
FailDecision(s, discovered) ==
    IF record[s].host # NoHost \/ ~discovered \/ Cardinality(InstancesOf(s)) > 1
    THEN [step |-> "failing", slot |-> record[s].slot, host |-> record[s].host,
          release |-> FALSE]
    ELSE IF InstancesOf(s) = {}
    THEN [step |-> "failing", slot |-> record[s].slot, host |-> NoHost, release |-> TRUE]
    ELSE [step |-> "failing", slot |-> record[s].slot, release |-> FALSE,
          host |-> IF record[s].slot = NoSlot THEN NoHost
                   ELSE CHOOSE h \in InstancesOf(s) : TRUE]

FailStart(s) ==
    /\ task[s].step \in {"ready", "fail"} /\ record[s].life \in Starting
    /\ \E discovered \in BOOLEAN : Step(s, FailDecision(s, discovered))
    /\ UNCHANGED <<record, lateVars, capacity, cloud, orphanVars>>

Failed(s, t) ==
    [record EXCEPT ![s].life = "FAILED",
                   ![s].slot = IF t.release THEN NoSlot ELSE @,
                   ![s].host = t.host,
                   ![s].retry = (record[s].life = "RESTORING")]

(* Loose ends: what goes on after the workflow that it belongs to.           *)
CanLoosen(s) ==
    Cardinality({t \in Sessions \ {s} : stray[t] # "none" \/ late[t] # {}}) < MaxLoose

(* Provisioning saves the failure first and then releases the slot ...      *)
FailProvision(s) ==
    LET t == task[s]
    IN /\ t.step = "failing" /\ record[s].life = "PROVISIONING"
       /\ record' = Failed(s, t)
       /\ late' = [late EXCEPT ![s] =
             IF t.release /\ t.slot # NoSlot /\ CanLoosen(s) THEN @ \cup {t.slot} ELSE @]
       /\ Step(s, Idle)
       /\ UNCHANGED <<stray, robbed, capacity, cloud, orphanVars>>

(* The session's record, or the invocation that is about to record it, has  *)
(* taken the slot for its own.                                              *)
Counts(s, k) ==
    \/ record[s].slot = k
    \/ task[s].step = "reserved" /\ task[s].slot = k

(* The invocation releases the slot, or dies before it does.  By then the    *)
(* session may have been started again and have found the slot its own.     *)
ReleaseAfterFailure(s, k) ==
    /\ k \in late[s]
    /\ capacity' \in {Released(s, k), capacity}
    /\ late' = [late EXCEPT ![s] = @ \ {k}]
    /\ robbed' = IF capacity' # capacity /\ Counts(s, k) THEN robbed \cup {s} ELSE robbed
    /\ UNCHANGED <<record, task, stray, cloud, orphanVars>>

(* ... and restoring releases it before the failure is saved.               *)
ReleaseBeforeFailure(s) ==
    /\ task[s].step = "failing" /\ record[s].life = "RESTORING" /\ task[s].release
    /\ capacity' = Released(s, task[s].slot)
    /\ Step(s, [task[s] EXCEPT !.step = "released"])
    /\ UNCHANGED <<record, lateVars, cloud, orphanVars>>

FailRestore(s) ==
    /\ record[s].life = "RESTORING"
    /\ \/ task[s].step = "failing" /\ ~task[s].release
       \/ task[s].step = "released"
    /\ record' = Failed(s, task[s])
    /\ Step(s, Idle)
    /\ UNCHANGED <<lateVars, capacity, cloud, orphanVars>>

-----------------------------------------------------------------------------
(* Removing a host: archiving and termination.                             *)

(* TerminateInstance acts on the recorded instance, and only on that one.   *)
TerminateInstance(s) ==
    LET h == record[s].host
    IN /\ task[s].step = "ready" /\ record[s].life \in Removing
       /\ h # NoHost /\ cloud[h].up
       /\ cloud' = [cloud EXCEPT ![h].up = FALSE]
       /\ UNCHANGED <<record, task, lateVars, capacity, orphanVars>>

(* Completing releases the slot before the record is saved.                 *)
ReleaseBeforeCompletion(s) ==
    /\ task[s].step = "ready" /\ record[s].life \in Removing
    /\ record[s].host # NoHost => ~cloud[record[s].host].up
    /\ capacity' = Released(s, record[s].slot)
    /\ Step(s, [Idle EXCEPT !.step = "released"])
    /\ UNCHANGED <<record, lateVars, cloud, orphanVars>>

CompleteRemoval(s) ==
    /\ task[s].step = "released" /\ record[s].life \in Removing
    /\ record' = [record EXCEPT ![s] =
          [life |-> IF record[s].life = "ARCHIVING" THEN "ARCHIVED" ELSE "DELETED",
           slot |-> NoSlot, host |-> NoHost, retry |-> FALSE]]
    /\ Step(s, Idle)
    /\ UNCHANGED <<lateVars, capacity, cloud, orphanVars>>

FailRemoval(s) ==
    /\ task[s].step = "ready" /\ record[s].life \in Removing
    /\ record' = [record EXCEPT ![s].life = "FAILED", ![s].retry = FALSE]
    /\ Step(s, Idle)
    /\ UNCHANGED <<lateVars, capacity, cloud, orphanVars>>

-----------------------------------------------------------------------------
(* Faults                                                                  *)

(* An invocation dies or loses its conditional write: what it knew is gone. *)
Crash(s) ==
    /\ task[s].step \notin {"idle", "ready", "fail"}
    /\ Step(s, IF task[s].step \in {"failing", "released"} /\ record[s].life \in Starting
               THEN InFail ELSE Ready)
    /\ UNCHANGED <<record, lateVars, capacity, cloud, orphanVars>>

(* The execution that a repair leaves running, for it only knows of those   *)
(* whose ARN was recorded.  What it does next is up to where it had got.     *)
Left(s) ==
    IF ~CanLoosen(s) THEN {"none"}
    ELSE IF task[s].step = "fail" \/ record[s].life = "PROVISIONING" THEN {"none"}
    ELSE IF record[s].life \in Removing THEN {"none", "remove"}
    ELSE IF record[s].slot = NoSlot THEN {"none", "prepare"} ELSE {"none", "ensure"}

(* The reconciler fails a workflow whose execution ended without settling   *)
(* it.  It keeps the infrastructure that is recorded and releases nothing.  *)
Repair(s) ==
    /\ task[s].step \in {"ready", "fail"}
    /\ record' = [record EXCEPT ![s].life = "FAILED",
                                ![s].retry = (record[s].life = "RESTORING")]
    /\ Step(s, Idle)
    /\ \E left \in Left(s) : stray' = [stray EXCEPT ![s] = IF left = "none" THEN @ ELSE left]
    /\ UNCHANGED <<late, robbed, capacity, cloud, orphanVars>>

-----------------------------------------------------------------------------
(* Executions that outlive their workflow.  The load of a restore, an        *)
(* archive or a termination admits a failed workflow of a failed session, so  *)
(* that the Fail stage can be repeated; the other stages pass it as well.     *)
(* Their records are refused, for the session is not theirs any more, but    *)
(* what they did to the capacity table and to EC2 before stays done.         *)

Strays(s, stages) == stray[s] \in stages /\ record[s].life = "FAILED"

(* The restore reserves a slot, if the session has none ...                 *)
StrayPrepare(s) ==
    /\ Strays(s, {"prepare"})
    /\ IF record[s].slot # NoSlot
       THEN /\ stray' = [stray EXCEPT ![s] = "ensure"]
            /\ UNCHANGED capacity
       ELSE /\ Capacity!AcquireCapacitySlot(s)
            /\ UNCHANGED stray
    /\ UNCHANGED <<record, task, late, robbed, cloud, orphanVars>>

(* ... and launches or finds a host, if none is recorded.  It never asks    *)
(* whether the slot is still the session's.                                *)
StrayEnsure(s) ==
    /\ Strays(s, {"ensure"})
    /\ record[s].host = NoHost /\ InstancesOf(s) = {}
    /\ \E h \in Hosts :
        /\ cloud[h].owner = NoSession
        /\ cloud' = [cloud EXCEPT ![h] = [owner |-> s, up |-> TRUE, astray |-> TRUE]]
    /\ UNCHANGED <<record, task, lateVars, capacity, orphanVars>>

(* An archive or a termination ends the recorded host, and gives back the   *)
(* slot when the host is gone.                                             *)
StrayTerminate(s) ==
    /\ Strays(s, {"remove"})
    /\ record[s].host # NoHost /\ cloud[record[s].host].up
    /\ cloud' = [cloud EXCEPT ![record[s].host].up = FALSE]
    /\ UNCHANGED <<record, task, lateVars, capacity, orphanVars>>

StrayRelease(s) ==
    /\ Strays(s, {"remove"})
    /\ record[s].host # NoHost => ~cloud[record[s].host].up
    /\ capacity' = Released(s, record[s].slot)
    /\ UNCHANGED <<record, task, lateVars, cloud, orphanVars>>

StrayEnds(s) ==
    /\ stray[s] # "none"
    /\ stray' = [stray EXCEPT ![s] = "none"]
    /\ UNCHANGED <<record, task, late, robbed, capacity, cloud, orphanVars>>

-----------------------------------------------------------------------------
(* Orphans: the scheduled scan                                             *)

Now == <<record, task, lateVars, capacity, cloud>>

(* classify: a fully tagged instance that nobody refers to is actionable    *)
(* when its session is absent, deleted or archived.  The sessions are those *)
(* of one page of a scan of the whole table; one that is not on the page    *)
(* counts as absent, whatever it is.                                       *)
Actionable(h, listed) ==
    listed => /\ h # record[cloud[h].owner].host
              /\ record[cloud[h].owner].life \in {"ABSENT", "DELETED", "ARCHIVED"}

(* A finding that exists already keeps its disposition and its age gates.   *)
(* The scan reads the sessions before the instances; as the page may lack   *)
(* the session, what an older read of it would add is in here.             *)
Scan(s) ==
    /\ \E listed \in BOOLEAN :
        finding' = [h \in Hosts |->
            IF h \in InstancesOf(s) /\ Actionable(h, listed) /\ finding[h].disposition = "none"
            THEN [disposition |-> "DETECTED", waited |-> FALSE] ELSE finding[h]]
    /\ UNCHANGED <<Now, operator>>

(* The age gate of a finding opens.  A gate is a day, which outlasts every  *)
(* workflow: some moment of it finds the session without one.              *)
Wait(h) ==
    /\ finding[h].disposition \in {"DETECTED", "QUARANTINED"} /\ ~finding[h].waited
    /\ task[cloud[h].owner].step = "idle"
    /\ finding' = [finding EXCEPT ![h].waited = TRUE]
    /\ UNCHANGED <<Now, operator>>

-----------------------------------------------------------------------------
(* Orphans: the operator                                                   *)

CanQuarantine(h) == finding[h].disposition = "DETECTED" /\ finding[h].waited
CanClean(h) == finding[h].disposition = "QUARANTINED" /\ finding[h].waited

(* revalidate: the session is read first, from one page as in the scan, and  *)
(* the instances next.  A host that its session refers to is refused.        *)
Spared(h, listed) == IF listed THEN record[cloud[h].owner].host ELSE NoHost

(* The quarantine only marks the finding; as the page may lack the session,  *)
(* nothing is lost by taking its two reads in one step.                     *)
QuarantineOrphan(h) ==
    /\ CanQuarantine(h) /\ cloud[h].up
    /\ \E listed \in BOOLEAN : h # Spared(h, listed)
    /\ finding' = [finding EXCEPT ![h] = [disposition |-> "QUARANTINED", waited |-> FALSE]]
    /\ UNCHANGED <<Now, operator>>

Revalidate(h) ==
    /\ operator = AtRest /\ CanClean(h)
    /\ \E listed \in BOOLEAN :
        operator' = [host |-> h, listed |-> listed, spared |-> Spared(h, listed)]
    /\ UNCHANGED <<Now, finding>>

(* Mutant: the operator's request is carried out as it was approved. *)
AsApproved == TRUE

StillUnreferenced == operator.host # operator.spared

CleanupOrphan ==
    /\ operator # AtRest
    /\ operator' = AtRest
    /\ IF StillUnreferenced
       THEN /\ cloud' = [cloud EXCEPT ![operator.host].up = FALSE]
            /\ finding' = [finding EXCEPT ![operator.host].disposition = "CLEANED"]
       ELSE UNCHANGED <<cloud, finding>>
    /\ UNCHANGED <<record, task, lateVars, capacity>>

-----------------------------------------------------------------------------
SessionStep(s) ==
    \/ StartProvision(s) \/ StartArchive(s) \/ StartRestore(s)
    \/ StartTermination(s)
    \/ Prepare(s) \/ PutSlot(s) \/ ReadSlot(s) \/ SaveSlot(s)
    \/ EnsureInstance(s) \/ SaveLaunch(s) \/ CompleteStart(s)
    \/ FailStart(s) \/ FailProvision(s)
    \/ \E k \in Slots : ReleaseAfterFailure(s, k)
    \/ ReleaseBeforeFailure(s) \/ FailRestore(s)
    \/ TerminateInstance(s) \/ ReleaseBeforeCompletion(s) \/ CompleteRemoval(s)
    \/ FailRemoval(s) \/ Crash(s) \/ Repair(s)
    \/ StrayPrepare(s) \/ StrayEnsure(s) \/ StrayTerminate(s) \/ StrayRelease(s)
    \/ StrayEnds(s)

OrphanStep ==
    \/ \E s \in Sessions : Scan(s)
    \/ \E h \in Hosts : Wait(h) \/ QuarantineOrphan(h) \/ Revalidate(h)
    \/ CleanupOrphan

FleetNext ==
    \/ \E s \in Sessions : CreateSession(s) \/ SessionStep(s)
    \/ OrphanStep

FleetSpec == Init /\ [][FleetNext]_fleetVars

-----------------------------------------------------------------------------
(* Properties                                                              *)

(* A host that a session refers to, or that its own start may have launched, *)
(* has a slot of that session behind it, whatever invocation dies at        *)
(* whatever point: nobody else is given the capacity the host is using.  A   *)
(* late release that follows the failure's save is the only way to lose it.  *)
LiveHostsAreCovered ==
    \A h \in Hosts, s \in Sessions :
        /\ cloud[h].owner = s /\ cloud[h].up
        /\ record[s].host = h \/ (record[s].life \in Starting /\ ~cloud[h].astray)
        /\ s \notin robbed
        => \E k \in Slots : capacity[k] = s

(* A running session owns the slot that its record names, which is the one  *)
(* that archiving or deleting it will release, unless a late release of an  *)
(* earlier failure took it.                                                *)
RunningOwnsSlot ==
    \A s \in Sessions :
        record[s].life = "RUNNING" /\ s \notin robbed
        => record[s].slot # NoSlot /\ capacity[record[s].slot] = s

(* What the provisioning document promises: a host is launched only for a   *)
(* session that has reserved a slot.  The code breaks it.                   *)
SlotBeforeLaunch ==
    [][\A h \in Hosts : ~cloud[h].up /\ cloud'[h].up
          => \E k \in Slots : capacity[k] = cloud'[h].owner]_fleetVars

(* No removal of an orphan ends a host that a session refers to.             *)
Spares == \A s \in Sessions :
    record[s].host # NoHost => cloud'[record[s].host].up = cloud[record[s].host].up

(* A host that a workflow launched is not removed as an orphan while a       *)
(* session refers to it, provided that the operator's last look had the     *)
(* session on its page: although the scans before it may have missed the    *)
(* session, the session is read before the instances, and restores and      *)
(* provisionings launch, adopt and record hosts meanwhile.                  *)
CleanupSparesListed ==
    [][CleanupOrphan /\ operator.listed /\ ~cloud[operator.host].astray => Spares]_fleetVars

(* The probes, the puts and the deletes of the capacity table implement the *)
(* atomic slots of CapacitySlots: a slot never changes hands while it is     *)
(* owned, and only its owner gives it back.                                 *)
CapacityIsExclusive == Capacity!Spec

=============================================================================
