------------------------------ MODULE FleetProofs ------------------------------
(***************************************************************************)
(* Proofs about the fleet, for any number of sessions, hosts and slots and *)
(* for every point at which an invocation may die or outlive its workflow: *)
(* the probed capacity table implements CapacitySlots, live hosts have a   *)
(* slot behind them, and an operator's cleanup never ends a host that a    *)
(* listed session refers to.                                               *)
(*                                                                         *)
(* The argument is in layers.  TypeInv is the type invariant with what the *)
(* steps of an invocation have chosen.  RecordInv relates a session's      *)
(* record and invocation to EC2, and CapacityInv to the slots, until a     *)
(* late release robs the session of its slot.  OrphanInv says what the age *)
(* gates and the operator's two reads have made sure of.                   *)
(***************************************************************************)
EXTENDS Fleet, TLAPS

USE DEF lateVars

\* What an invocation has chosen, and whom the findings and the operator are about.
ChoiceInv ==
    /\ \A s \in Sessions :
          /\ task[s].step \in {"probe", "taken", "reserved"} => task[s].slot \in Slots
          /\ task[s].step = "launched" => task[s].host \in Hosts
    /\ \A h \in Hosts : finding[h].disposition # "none" => cloud[h].owner \in Sessions
    /\ operator # AtRest =>
          operator.host \in Hosts /\ cloud[operator.host].owner \in Sessions

TypeInv == TypeOK /\ ChoiceInv

-----------------------------------------------------------------------------
Up(s, h) == cloud[h].owner = s /\ cloud[h].up
NoInstance(s) == \A h \in Hosts : ~Up(s, h)
OnlyInstance(s, x) == \A h \in Hosts : Up(s, h) => h = x
Down(h) == ~cloud[h].up

\* A session has one instance at most; a recorded host is its own and leaves no
\* room for another one; without a slot there is only one that a stray execution
\* launched, except for a deleted session's; and the lives that no workflow
\* drives have settled records.
SettledRecord(s) ==
    LET r == record[s] IN
    /\ \A g, h \in Hosts : Up(s, g) /\ Up(s, h) => g = h
    /\ r.host # NoHost =>
          r.slot # NoSlot /\ cloud[r.host].owner = s /\ OnlyInstance(s, r.host)
    /\ r.slot = NoSlot /\ r.life # "DELETED" =>
          \A h \in Hosts : Up(s, h) => cloud[h].astray
    /\ r.life \in {"ABSENT", "NEW", "ARCHIVED", "DELETED"} =>
          r.slot = NoSlot /\ r.host = NoHost
    /\ r.life \in {"RUNNING", "ARCHIVING"} => r.host # NoHost

\* What an invocation knows is still so.
TaskInv(s) ==
    LET r == record[s]
        t == task[s] IN
    /\ t.step = "idle" <=> r.life \notin Starting \cup Removing
    /\ r.life \in Removing => t.step \in {"ready", "released"}
    /\ r.life \in Removing /\ t.step = "released" /\ r.host # NoHost => Down(r.host)
    /\ t.step \in {"probe", "taken", "reserved"} => r.slot = NoSlot
    /\ t.step = "launched" =>
          /\ r.slot # NoSlot /\ r.host = NoHost
          /\ cloud[t.host].owner = s /\ OnlyInstance(s, t.host)
    /\ r.life \in Starting /\ t.step = "released" => r.life = "RESTORING" /\ t.release
    /\ r.life \in Starting /\ t.step \in {"failing", "released"} =>
          /\ t.release => r.host = NoHost /\ t.host = NoHost /\ NoInstance(s)
          /\ r.host # NoHost => t.host = r.host
          /\ t.host # NoHost =>
                r.slot # NoSlot /\ cloud[t.host].owner = s /\ OnlyInstance(s, t.host)

RecordInv(s) == SettledRecord(s) /\ TaskInv(s)

-----------------------------------------------------------------------------
Owns(s) == record[s].slot \in Slots /\ capacity[record[s].slot] = s

\* A slot that a record names is the session's own, unless a late release has
\* robbed it, or its host is down, or its failing start has given the slot back,
\* having found no instance.
CapacityInv(s) ==
    LET r == record[s]
        t == task[s] IN
    s \notin robbed =>
       /\ r.life = "RUNNING" => Owns(s)
       /\ r.host # NoHost => Owns(s) \/ Down(r.host)
       /\ r.life \in Starting /\ r.slot # NoSlot =>
             \/ Owns(s)
             \/ r.host # NoHost /\ Down(r.host)
             \/ t.step \in {"fail", "failing", "released"} /\ r.host = NoHost /\ NoInstance(s)
       /\ r.life \in Starting /\ t.step = "failing" /\ t.host # NoHost =>
             Owns(s) \/ Down(t.host)
       /\ t.step = "reserved" => capacity[t.slot] = s

-----------------------------------------------------------------------------
\* No record refers to the host, and none ever will: only its removal is left
\* to the session that launched it.
Lost(h) ==
    \/ Down(h)
    \/ LET r == record[cloud[h].owner]
       IN  r.host = NoHost /\ r.life \in {"DELETED", "DELETING", "FAILED"}

OrphanInv ==
    /\ \A h \in Hosts : finding[h].waited =>
          /\ cloud[h].owner \in Sessions
          /\ ~cloud[h].astray => Lost(h) \/ record[cloud[h].owner].host = h
    /\ operator # AtRest /\ operator.listed /\ ~cloud[operator.host].astray
          /\ StillUnreferenced => Lost(operator.host)

FleetInv == TypeInv /\ (\A s \in Sessions : RecordInv(s)) /\ OrphanInv
SlotInv == FleetInv /\ \A s \in Sessions : CapacityInv(s)

-----------------------------------------------------------------------------
(* What each step does                                                     *)

Record == [life : Lives, slot : Slots \cup {NoSlot}, host : Hosts \cup {NoHost}, retry : BOOLEAN]
Task == [step : Steps, slot : Slots \cup {NoSlot}, host : Hosts \cup {NoHost}, release : BOOLEAN]
Instance == [owner : Sessions \cup {NoSession}, up : BOOLEAN, astray : BOOLEAN]
Owner == Sessions \cup {NoSession}
Stages == {"none", "prepare", "ensure", "remove"}

\* The variables of the sessions' workflows, typed.
Typed ==
    /\ record \in [Sessions -> Record]
    /\ task \in [Sessions -> Task]
    /\ stray \in [Sessions -> Stages]
    /\ late \in [Sessions -> SUBSET Slots]
    /\ robbed \in SUBSET Sessions
    /\ capacity \in [Slots -> Owner]
    /\ cloud \in [Hosts -> Instance]

\* A step of one session touches no other session's record or invocation.
Writes(s, l, k, h, r) ==
    /\ record'[s].life = l /\ record'[s].slot = k
    /\ record'[s].host = h /\ record'[s].retry = r
Does(s, p, k, h, r) ==
    /\ task'[s].step = p /\ task'[s].slot = k
    /\ task'[s].host = h /\ task'[s].release = r
Alone(s) ==
    \A u \in Sessions : u # s =>
        record'[u] = record[u] /\ task'[u] = task[u] /\ (u \in robbed' <=> u \in robbed)
Same(s) == record'[s] = record[s]
Finished(s) == Does(s, "idle", NoSlot, NoHost, FALSE)
Rests(s) == Does(s, "ready", NoSlot, NoHost, FALSE)

OrphanTyped ==
    /\ finding \in [Hosts -> [disposition : {"none", "DETECTED", "QUARANTINED", "CLEANED"},
                              waited : BOOLEAN]]
    /\ operator \in [host : Hosts \cup {NoHost}, spared : Hosts \cup {NoHost},
                     listed : BOOLEAN]

LEMMA TypeParts == TypeOK <=> Typed /\ OrphanTyped
BY Zenon DEF TypeOK, Typed, OrphanTyped, Record, Task, Instance, Owner, Stages

LEMMA NextTypeParts == TypeOK' <=> Typed' /\ OrphanTyped'
BY TypeParts, PTL

LEMMA SlotNumbers == Slots = 0 .. MaxProvisioned - 1 /\ 0 \in Slots /\ NoSlot \notin Slots
BY FleetAssumption DEF Slots, Capacity!Slots

LEMMA RecordWritten ==
    ASSUME record \in [Sessions -> Record], NEW s \in Sessions, NEW r \in Record,
           record' = [record EXCEPT ![s] = r]
    PROVE  /\ record' \in [Sessions -> Record] /\ record'[s] = r
           /\ \A u \in Sessions : u # s => record'[u] = record[u]
OBVIOUS

LEMMA TaskWritten ==
    ASSUME task \in [Sessions -> Task], NEW s \in Sessions, NEW t \in Task, Step(s, t)
    PROVE  /\ task' \in [Sessions -> Task] /\ task'[s] = t
           /\ \A u \in Sessions : u # s => task'[u] = task[u]
BY DEF Step

\* A copy of an invocation's record, field by field.
Is(t, p, k, h, r) == t \in Task /\ t.step = p /\ t.slot = k /\ t.host = h /\ t.release = r

LEMMA Copied ==
    ASSUME NEW t \in Task, NEW p \in Steps
    PROVE  Is([t EXCEPT !.step = p], p, t.slot, t.host, t.release)
BY DEF Task, Is

LEMMA CopiedWithSlot ==
    ASSUME NEW t \in Task, NEW p \in Steps, NEW k \in Slots
    PROVE  Is([t EXCEPT !.step = p, !.slot = k], p, k, t.host, t.release)
BY DEF Task, Is

LEMMA CopiedWithHost ==
    ASSUME NEW t \in Task, NEW p \in Steps, NEW h \in Hosts
    PROVE  Is([t EXCEPT !.step = p, !.host = h], p, t.slot, h, t.release)
BY DEF Task, Is

LEMMA IdleIs == Is(Idle, "idle", NoSlot, NoHost, FALSE)
BY DEF Idle, Is, Task, Steps

LEMMA IdleWithSlot ==
    ASSUME NEW p \in Steps, NEW k \in Slots
    PROVE  Is([Idle EXCEPT !.step = p, !.slot = k], p, k, NoHost, FALSE)
<1>1. Idle \in Task
  BY IdleIs DEF Is
<1>2. Is([Idle EXCEPT !.step = p, !.slot = k], p, k, Idle.host, Idle.release)
  BY <1>1, CopiedWithSlot
<1>3. QED
  BY <1>2, IdleIs DEF Is

LEMMA IdleWithHost ==
    ASSUME NEW p \in Steps, NEW h \in Hosts
    PROVE  Is([Idle EXCEPT !.step = p, !.host = h], p, NoSlot, h, FALSE)
<1>1. Idle \in Task
  BY IdleIs DEF Is
<1>2. Is([Idle EXCEPT !.step = p, !.host = h], p, Idle.slot, h, Idle.release)
  BY <1>1, CopiedWithHost
<1>3. QED
  BY <1>2, IdleIs DEF Is

LEMMA ReadyIs == Is(Ready, "ready", NoSlot, NoHost, FALSE)
BY IdleIs, Copied DEF Ready, Is, Steps

LEMMA InFailIs == Is(InFail, "fail", NoSlot, NoHost, FALSE)
BY IdleIs, Copied DEF InFail, Is, Steps

\* The loose ends of a session are its own as well.
Loosens(s) ==
    /\ stray' \in [Sessions -> Stages] /\ late' \in [Sessions -> SUBSET Slots]
    /\ robbed' \in SUBSET Sessions
    /\ \A u \in Sessions : u # s => (u \in robbed' <=> u \in robbed)

LEMMA LoosensNothing ==
    ASSUME Typed, NEW s \in Sessions, UNCHANGED lateVars PROVE Loosens(s)
BY DEF Typed, Loosens

\* A step that changes the session's invocation, and one that also changes its
\* record.
LEMMA TaskStep ==
    ASSUME Typed, NEW s \in Sessions, NEW t \in Task, Step(s, t), record' = record,
           Loosens(s), capacity' \in [Slots -> Owner], cloud' \in [Hosts -> Instance]
    PROVE  Typed' /\ Alone(s) /\ task'[s] = t
BY DEF Step, Typed, Alone, Loosens

LEMMA RecordStep ==
    ASSUME Typed, NEW s \in Sessions, NEW r \in Record, NEW t \in Task,
           record' = [record EXCEPT ![s] = r], Step(s, t),
           Loosens(s), capacity' = capacity, cloud' = cloud
    PROVE  Typed' /\ Alone(s) /\ record'[s] = r /\ task'[s] = t
BY DEF Step, Typed, Alone, Loosens

\* The same two, field by field.
LEMMA TaskIs ==
    ASSUME Typed, NEW s \in Sessions, NEW t, NEW p, NEW k, NEW h, NEW r,
           Is(t, p, k, h, r), Step(s, t), record' = record,
           Loosens(s), capacity' \in [Slots -> Owner], cloud' \in [Hosts -> Instance]
    PROVE  Typed' /\ Alone(s) /\ Does(s, p, k, h, r)
BY TaskStep DEF Is, Does

LEMMA CreateSessionEffect ==
    ASSUME Typed, NEW s \in Sessions, CreateSession(s)
    PROVE  /\ Typed' /\ Alone(s) /\ UNCHANGED <<task, lateVars, capacity, cloud, orphanVars>>
           /\ record[s].life = "ABSENT"
           /\ Writes(s, "NEW", record[s].slot, record[s].host, record[s].retry)
<1>1. [record[s] EXCEPT !.life = "NEW"] \in Record
  BY DEF Typed, Record, Lives
<1>2. record' = [record EXCEPT ![s] = [record[s] EXCEPT !.life = "NEW"]]
  BY DEF CreateSession
<1>3. record'[s] = [record[s] EXCEPT !.life = "NEW"]
  BY <1>1, <1>2 DEF Typed
<1>4. QED
  BY <1>1, <1>2, <1>3 DEF CreateSession, Typed, Alone, Writes, Record, orphanVars

LEMMA BeginEffect ==
    ASSUME Typed, NEW s \in Sessions, NEW l \in Lives, Begin(s, l)
    PROVE  /\ Typed' /\ Alone(s) /\ UNCHANGED <<lateVars, capacity, cloud, orphanVars>>
           /\ task[s].step = "idle"
           /\ Writes(s, l, record[s].slot, record[s].host, record[s].retry)
           /\ Rests(s)
<1>1. [record[s] EXCEPT !.life = l] \in Record
  BY DEF Typed, Record
<1>2. Typed' /\ Alone(s) /\ record'[s] = [record[s] EXCEPT !.life = l] /\ task'[s] = Ready
  BY <1>1, LoosensNothing, RecordStep, ReadyIs DEF Begin, Step, Is
<1>3. QED
  BY <1>2, ReadyIs DEF Is, Begin, Rests, Does, Writes, Typed, Record, orphanVars

LEMMA StartEffect ==
    ASSUME Typed, NEW s \in Sessions,
           StartProvision(s) \/ StartArchive(s) \/ StartRestore(s) \/ StartTermination(s)
    PROVE  /\ Typed' /\ Alone(s) /\ UNCHANGED <<lateVars, capacity, cloud, orphanVars>>
           /\ task[s].step = "idle"
           /\ \E l \in {"PROVISIONING", "ARCHIVING", "RESTORING", "DELETING"} :
                 /\ Writes(s, l, record[s].slot, record[s].host, record[s].retry)
                 /\ l = "PROVISIONING" =>
                       \/ record[s].life = "NEW"
                       \/ /\ record[s].life = "FAILED"
                          /\ record[s].slot = NoSlot /\ record[s].host = NoHost
                 /\ l = "ARCHIVING" => record[s].life = "RUNNING"
                 /\ l = "RESTORING" =>
                       \/ record[s].life = "ARCHIVED"
                       \/ record[s].life = "FAILED" /\ record[s].retry /\ record[s].host # NoHost
                 /\ l = "DELETING" => record[s].life \notin {"ABSENT", "DELETED"}
           /\ Rests(s)
<1>1. CASE StartProvision(s)
  BY <1>1, BeginEffect DEF StartProvision, Lives
<1>2. CASE StartArchive(s)
  BY <1>2, BeginEffect DEF StartArchive, Lives
<1>3. CASE StartRestore(s)
  BY <1>3, BeginEffect DEF StartRestore, Lives
<1>4. CASE StartTermination(s)
  BY <1>4, BeginEffect DEF StartTermination, Lives
<1>5. QED
  BY <1>1, <1>2, <1>3, <1>4

LEMMA PrepareEffect ==
    ASSUME Typed, NEW s \in Sessions, Prepare(s)
    PROVE  /\ Typed' /\ Alone(s) /\ UNCHANGED <<record, capacity, cloud, orphanVars>>
           /\ task[s].step = "ready" /\ record[s].life \in Starting /\ record[s].slot = NoSlot
           /\ Does(s, "probe", 0, NoHost, FALSE)
<1>1. Is([Idle EXCEPT !.step = "probe", !.slot = 0], "probe", 0, NoHost, FALSE)
  BY IdleWithSlot, SlotNumbers DEF Steps
<1>2. Loosens(s)
  BY DEF Prepare, Typed, Loosens
<1>3. QED
  BY <1>1, <1>2, TaskIs DEF Prepare, Typed

LEMMA PutSlotEffect ==
    ASSUME Typed, NEW s \in Sessions, PutSlot(s), task[s].slot \in Slots
    PROVE  /\ Typed' /\ Alone(s) /\ UNCHANGED <<record, lateVars, cloud, orphanVars>>
           /\ task[s].step = "probe"
           /\ \/ /\ capacity[task[s].slot] = NoSession
                 /\ capacity' = [capacity EXCEPT ![task[s].slot] = s]
                 /\ Does(s, "reserved", task[s].slot, task[s].host, task[s].release)
              \/ /\ capacity' = capacity
                 /\ Does(s, "taken", task[s].slot, task[s].host, task[s].release)
<1>t. task[s] \in Task
  BY DEF Typed
<1>1. CASE capacity[task[s].slot] = NoSession
  <2>1. capacity' \in [Slots -> Owner]
    BY <1>1 DEF PutSlot, Typed, Owner
  <2>2. QED
    BY <1>t, <1>1, <2>1, Copied, LoosensNothing, TaskIs DEF PutSlot, Steps, Typed
<1>2. CASE capacity[task[s].slot] # NoSession
  BY <1>t, <1>2, Copied, LoosensNothing, TaskIs DEF PutSlot, Steps, Typed
<1>3. QED
  BY <1>1, <1>2

LEMMA ReadSlotEffect ==
    ASSUME Typed, NEW s \in Sessions, ReadSlot(s), task[s].slot \in Slots
    PROVE  /\ Typed' /\ Alone(s) /\ UNCHANGED <<record, lateVars, capacity, cloud, orphanVars>>
           /\ task[s].step = "taken"
           /\ \/ /\ capacity[task[s].slot] = s
                 /\ Does(s, "reserved", task[s].slot, task[s].host, task[s].release)
              \/ /\ task[s].slot + 1 \in Slots
                 /\ Does(s, "probe", task[s].slot + 1, NoHost, FALSE)
              \/ Rests(s)
<1>t. task[s] \in Task
  BY DEF Typed
<1>1. CASE capacity[task[s].slot] = s
  BY <1>t, <1>1, Copied, LoosensNothing, TaskIs DEF ReadSlot, Steps, Typed
<1>2. CASE capacity[task[s].slot] # s /\ task[s].slot + 1 \in Slots
  <2>1. Is([Idle EXCEPT !.step = "probe", !.slot = task[s].slot + 1],
           "probe", task[s].slot + 1, NoHost, FALSE)
    BY <1>2, IdleWithSlot DEF Steps
  <2>2. QED
    BY <1>2, <2>1, LoosensNothing, TaskIs DEF ReadSlot, Typed
<1>3. CASE capacity[task[s].slot] # s /\ task[s].slot + 1 \notin Slots
  BY <1>3, ReadyIs, LoosensNothing, TaskIs DEF ReadSlot, Typed, Rests
<1>4. QED
  BY <1>1, <1>2, <1>3

LEMMA SaveSlotEffect ==
    ASSUME Typed, NEW s \in Sessions, SaveSlot(s)
    PROVE  /\ Typed' /\ Alone(s) /\ UNCHANGED <<lateVars, capacity, cloud, orphanVars>>
           /\ task[s].step = "reserved"
           /\ Writes(s, record[s].life, task[s].slot, record[s].host, record[s].retry)
           /\ Rests(s)
<1>0. record[s] \in Record /\ task[s].slot \in Slots \cup {NoSlot}
  BY DEF Typed, Task
<1>1. [record[s] EXCEPT !.slot = task[s].slot] \in Record
  BY <1>0 DEF Record
<1>2. /\ Typed' /\ Alone(s) /\ task'[s] = Ready
      /\ record'[s] = [record[s] EXCEPT !.slot = task[s].slot]
  BY <1>1, LoosensNothing, RecordStep, ReadyIs DEF SaveSlot, orphanVars, Is
<1>3. QED
  BY <1>2, ReadyIs DEF Is, SaveSlot, Rests, Does, Writes, Typed, Record, orphanVars

\* A copy of the session table with one record rewritten, field by field.
Rewritten(q, p, s, l, k, h, r) ==
    /\ q \in [Sessions -> Record]
    /\ q[s].life = l /\ q[s].slot = k /\ q[s].host = h /\ q[s].retry = r
    /\ \A u \in Sessions : u # s => q[u] = p[u]

LEMMA LifeWritten ==
    ASSUME NEW p \in [Sessions -> Record], NEW s \in Sessions, NEW l \in Lives
    PROVE  Rewritten([p EXCEPT ![s].life = l], p, s, l, p[s].slot, p[s].host, p[s].retry)
<1>1. [p[s] EXCEPT !.life = l] \in Record
  BY DEF Record
<1>2. [p EXCEPT ![s].life = l][s] = [p[s] EXCEPT !.life = l]
  OBVIOUS
<1>3. QED
  BY <1>1, <1>2 DEF Rewritten, Record

LEMMA SlotWritten ==
    ASSUME NEW p \in [Sessions -> Record], NEW s \in Sessions, NEW k \in Slots \cup {NoSlot}
    PROVE  Rewritten([p EXCEPT ![s].slot = k], p, s, p[s].life, k, p[s].host, p[s].retry)
<1>1. [p[s] EXCEPT !.slot = k] \in Record
  BY DEF Record
<1>2. [p EXCEPT ![s].slot = k][s] = [p[s] EXCEPT !.slot = k]
  OBVIOUS
<1>3. QED
  BY <1>1, <1>2 DEF Rewritten, Record

LEMMA HostWritten ==
    ASSUME NEW p \in [Sessions -> Record], NEW s \in Sessions, NEW h \in Hosts \cup {NoHost}
    PROVE  Rewritten([p EXCEPT ![s].host = h], p, s, p[s].life, p[s].slot, h, p[s].retry)
<1>1. [p[s] EXCEPT !.host = h] \in Record
  BY DEF Record
<1>2. [p EXCEPT ![s].host = h][s] = [p[s] EXCEPT !.host = h]
  OBVIOUS
<1>3. QED
  BY <1>1, <1>2 DEF Rewritten, Record

LEMMA RetryWritten ==
    ASSUME NEW p \in [Sessions -> Record], NEW s \in Sessions, NEW r \in BOOLEAN
    PROVE  Rewritten([p EXCEPT ![s].retry = r], p, s, p[s].life, p[s].slot, p[s].host, r)
<1>1. [p[s] EXCEPT !.retry = r] \in Record
  BY DEF Record
<1>2. [p EXCEPT ![s].retry = r][s] = [p[s] EXCEPT !.retry = r]
  OBVIOUS
<1>3. QED
  BY <1>1, <1>2 DEF Rewritten, Record

LEMMA LifeAndRetryWritten ==
    ASSUME NEW p \in [Sessions -> Record], NEW s \in Sessions, NEW l \in Lives, NEW r \in BOOLEAN
    PROVE  Rewritten([p EXCEPT ![s].life = l, ![s].retry = r],
                     p, s, l, p[s].slot, p[s].host, r)
<1> DEFINE q == [p EXCEPT ![s].life = l]
<1>1. Rewritten(q, p, s, l, p[s].slot, p[s].host, p[s].retry)
  BY LifeWritten
<1>2. q \in [Sessions -> Record]
  BY <1>1 DEF Rewritten
<1>3. Rewritten([q EXCEPT ![s].retry = r], q, s, q[s].life, q[s].slot, q[s].host, r)
  <2> HIDE DEF q
  <2> QED BY <1>2, RetryWritten
<1>4. [p EXCEPT ![s].life = l, ![s].retry = r] = [q EXCEPT ![s].retry = r]
  OBVIOUS
<1>5. QED
  <2> HIDE DEF q
  <2> QED BY <1>1, <1>3, <1>4 DEF Rewritten

LEMMA FailedWritten ==
    ASSUME record \in [Sessions -> Record], NEW s \in Sessions, NEW t \in Task
    PROVE  Rewritten(Failed(s, t), record, s, "FAILED",
                     IF t.release THEN NoSlot ELSE record[s].slot, t.host,
                     (record[s].life = "RESTORING"))
<1> DEFINE p == [record EXCEPT ![s].life = "FAILED"]
           k == IF t.release THEN NoSlot ELSE record[s].slot
           q == [p EXCEPT ![s].slot = k]
           w == [q EXCEPT ![s].host = t.host]
           b == (record[s].life = "RESTORING")
<1>1. Rewritten(p, record, s, "FAILED", record[s].slot, record[s].host, record[s].retry)
  BY LifeWritten DEF Lives
<1>2. k \in Slots \cup {NoSlot} /\ t.host \in Hosts \cup {NoHost} /\ b \in BOOLEAN
  BY DEF Record, Task
<1>3. Failed(s, t) = [w EXCEPT ![s].retry = b]
  <2>1. k = IF t.release THEN NoSlot ELSE p[s].slot
    BY <1>1 DEF Rewritten
  <2> QED BY <2>1 DEF Failed
<1> HIDE DEF p, k, b
<1>4. Rewritten(q, p, s, p[s].life, k, p[s].host, p[s].retry)
  BY <1>1, <1>2, SlotWritten DEF Rewritten
<1> HIDE DEF q
<1>5. Rewritten(w, q, s, q[s].life, q[s].slot, t.host, q[s].retry)
  BY <1>2, <1>4, HostWritten DEF Rewritten
<1> HIDE DEF w
<1>6. Rewritten([w EXCEPT ![s].retry = b], w, s, w[s].life, w[s].slot, w[s].host, b)
  BY <1>2, <1>5, RetryWritten DEF Rewritten
<1>7. Rewritten(Failed(s, t), record, s, "FAILED", k, t.host, b)
  BY <1>1, <1>3, <1>4, <1>5, <1>6 DEF Rewritten
<1>8. QED
  BY <1>7 DEF k, b

\* A step that rewrites the record and settles the invocation.
LEMMA RecordIs ==
    ASSUME Typed, NEW s \in Sessions, NEW l, NEW k, NEW h, NEW r,
           Rewritten(record', record, s, l, k, h, r),
           NEW t, NEW p, NEW j, NEW g, NEW b, Is(t, p, j, g, b), Step(s, t),
           Loosens(s), capacity' = capacity, cloud' = cloud
    PROVE  Typed' /\ Alone(s) /\ Writes(s, l, k, h, r) /\ Does(s, p, j, g, b)
BY DEF Rewritten, Typed, Alone, Loosens, Step, Is, Writes, Does

LEMMA ReleasedTyped ==
    ASSUME Typed, NEW s \in Sessions, NEW k \in Slots \cup {NoSlot}
    PROVE  /\ Released(s, k) \in [Slots -> Owner]
           /\ \A j \in Slots :
                 \/ Released(s, k)[j] = capacity[j]
                 \/ capacity[j] = s /\ Released(s, k)[j] = NoSession
<1>1. CASE k # NoSlot /\ capacity[k] = s
  <2>1. Released(s, k) = [capacity EXCEPT ![k] = NoSession]
    BY <1>1 DEF Released
  <2>2. capacity \in [Slots -> Owner] /\ k \in Slots /\ NoSession \in Owner
    BY <1>1 DEF Typed, Owner
  <2>3. [capacity EXCEPT ![k] = NoSession] \in [Slots -> Owner]
    BY <2>2
  <2>4. \A j \in Slots : j # k => [capacity EXCEPT ![k] = NoSession][j] = capacity[j]
    BY <2>2
  <2>5. [capacity EXCEPT ![k] = NoSession][k] = NoSession
    BY <2>2
  <2>6. QED
    BY <1>1, <2>1, <2>3, <2>4, <2>5
<1>2. CASE ~(k # NoSlot /\ capacity[k] = s)
  <2>1. Released(s, k) = capacity
    BY <1>2 DEF Released
  <2>2. QED
    BY <2>1 DEF Typed
<1>3. QED
  BY <1>1, <1>2

LEMMA SaveLaunchEffect ==
    ASSUME Typed, NEW s \in Sessions, SaveLaunch(s)
    PROVE  /\ Typed' /\ Alone(s) /\ UNCHANGED <<lateVars, capacity, cloud, orphanVars>>
           /\ task[s].step = "launched"
           /\ Writes(s, record[s].life, record[s].slot, task[s].host, record[s].retry)
           /\ Rests(s)
<1>1. task[s].host \in Hosts \cup {NoHost} /\ record \in [Sessions -> Record]
  BY DEF Typed, Task
<1>2. Rewritten(record', record, s, record[s].life, record[s].slot, task[s].host, record[s].retry)
  BY <1>1, HostWritten DEF SaveLaunch
<1>3. QED
  BY <1>2, ReadyIs, LoosensNothing, RecordIs DEF SaveLaunch, Typed, Rests

LEMMA CompleteStartEffect ==
    ASSUME Typed, NEW s \in Sessions, CompleteStart(s)
    PROVE  /\ Typed' /\ Alone(s) /\ UNCHANGED <<lateVars, capacity, cloud, orphanVars>>
           /\ task[s].step = "ready" /\ record[s].life \in Starting
           /\ record[s].host # NoHost /\ cloud[record[s].host].up
           /\ Writes(s, "RUNNING", record[s].slot, record[s].host, FALSE)
           /\ Finished(s)
<1>1. record \in [Sessions -> Record] /\ "RUNNING" \in Lives
  BY DEF Typed, Lives
<1>2. Rewritten(record', record, s, "RUNNING", record[s].slot, record[s].host, FALSE)
  BY <1>1, LifeAndRetryWritten DEF CompleteStart
<1>3. QED
  BY <1>2, IdleIs, LoosensNothing, RecordIs DEF CompleteStart, Typed, Finished

LEMMA FailProvisionEffect ==
    ASSUME Typed, NEW s \in Sessions, FailProvision(s)
    PROVE  /\ Typed' /\ Alone(s) /\ UNCHANGED <<capacity, cloud, orphanVars>>
           /\ task[s].step = "failing" /\ record[s].life = "PROVISIONING"
           /\ robbed' = robbed
           /\ Writes(s, "FAILED", IF task[s].release THEN NoSlot ELSE record[s].slot,
                     task[s].host, FALSE)
           /\ Finished(s)
<1>1. task[s] \in Task /\ record \in [Sessions -> Record]
  BY DEF Typed
<1>2. Rewritten(record', record, s, "FAILED",
                IF task[s].release THEN NoSlot ELSE record[s].slot, task[s].host, FALSE)
  <2>1. record' = Failed(s, task[s]) /\ (record[s].life = "RESTORING") = FALSE
    BY DEF FailProvision
  <2>2. QED
    BY <1>1, <2>1, FailedWritten
<1>3. late' \in [Sessions -> SUBSET Slots]
  <2> DEFINE c == task[s].release /\ task[s].slot # NoSlot /\ CanLoosen(s)
             n == IF c THEN late[s] \cup {task[s].slot} ELSE late[s]
  <2>1. late \in [Sessions -> SUBSET Slots] /\ task[s].slot \in Slots \cup {NoSlot}
    BY <1>1 DEF Typed, Task
  <2>2. n \in SUBSET Slots
    BY <2>1
  <2>3. late' = [late EXCEPT ![s] = n]
    BY DEF FailProvision
  <2>4. QED
    <3> HIDE DEF n
    <3> QED BY <2>1, <2>2, <2>3
<1>4. Loosens(s)
  BY <1>3 DEF FailProvision, Typed, Loosens
<1>5. QED
  BY <1>2, <1>4, IdleIs, RecordIs DEF FailProvision, Finished

LEMMA FailRestoreEffect ==
    ASSUME Typed, NEW s \in Sessions, FailRestore(s)
    PROVE  /\ Typed' /\ Alone(s) /\ UNCHANGED <<lateVars, capacity, cloud, orphanVars>>
           /\ \/ task[s].step = "failing" /\ ~task[s].release
              \/ task[s].step = "released"
           /\ record[s].life = "RESTORING"
           /\ Writes(s, "FAILED", IF task[s].release THEN NoSlot ELSE record[s].slot,
                     task[s].host, TRUE)
           /\ Finished(s)
<1>1. task[s] \in Task /\ record \in [Sessions -> Record]
  BY DEF Typed
<1>2. Rewritten(record', record, s, "FAILED",
                IF task[s].release THEN NoSlot ELSE record[s].slot, task[s].host, TRUE)
  <2>1. record' = Failed(s, task[s]) /\ (record[s].life = "RESTORING") = TRUE
    BY DEF FailRestore
  <2>2. QED
    BY <1>1, <2>1, FailedWritten
<1>3. QED
  BY <1>2, IdleIs, LoosensNothing, RecordIs DEF FailRestore, Finished, Typed

LEMMA SettleEffect ==
    ASSUME Typed, NEW s \in Sessions, FailRemoval(s) \/ Repair(s)
    PROVE  /\ Typed' /\ Alone(s) /\ UNCHANGED <<late, robbed, capacity, cloud, orphanVars>>
           /\ task[s].step \in {"ready", "fail"}
           /\ Writes(s, "FAILED", record[s].slot, record[s].host, (record[s].life = "RESTORING"))
           /\ Finished(s)
<1>1. record \in [Sessions -> Record] /\ "FAILED" \in Lives
  BY DEF Typed, Lives
<1>2. CASE FailRemoval(s)
  <2>1. Rewritten(record', record, s, "FAILED", record[s].slot, record[s].host, FALSE)
    BY <1>1, <1>2, LifeAndRetryWritten DEF FailRemoval
  <2>2. (record[s].life = "RESTORING") = FALSE
    BY <1>2 DEF FailRemoval, Removing
  <2>3. QED
    BY <1>2, <2>1, <2>2, IdleIs, LoosensNothing, RecordIs DEF FailRemoval, Typed, Finished
<1>3. CASE Repair(s)
  <2>1. Rewritten(record', record, s, "FAILED", record[s].slot, record[s].host,
                  (record[s].life = "RESTORING"))
    BY <1>1, <1>3, LifeAndRetryWritten DEF Repair
  <2>2. Loosens(s)
    <3>1. PICK left \in Left(s) : stray' = [stray EXCEPT ![s] = IF left = "none" THEN @ ELSE left]
      BY <1>3 DEF Repair
    <3>2. left \in Stages
      BY DEF Left, Stages
    <3>3. QED
      BY <1>3, <3>1, <3>2 DEF Repair, Typed, Loosens
  <2>3. QED
    BY <1>3, <2>1, <2>2, IdleIs, RecordIs DEF Repair, Typed, Finished
<1>4. QED
  BY <1>2, <1>3

LEMMA CompleteRemovalEffect ==
    ASSUME Typed, NEW s \in Sessions, CompleteRemoval(s)
    PROVE  /\ Typed' /\ Alone(s) /\ UNCHANGED <<lateVars, capacity, cloud, orphanVars>>
           /\ task[s].step = "released" /\ record[s].life \in Removing
           /\ Writes(s, IF record[s].life = "ARCHIVING" THEN "ARCHIVED" ELSE "DELETED",
                     NoSlot, NoHost, FALSE)
           /\ Finished(s)
<1> DEFINE l == IF record[s].life = "ARCHIVING" THEN "ARCHIVED" ELSE "DELETED"
           r == [life |-> l, slot |-> NoSlot, host |-> NoHost, retry |-> FALSE]
<1>1. r \in Record /\ record \in [Sessions -> Record]
  BY DEF Record, Lives, Typed
<1>2. Rewritten(record', record, s, l, NoSlot, NoHost, FALSE)
  BY <1>1 DEF CompleteRemoval, Rewritten
<1>3. QED
  BY <1>2, IdleIs, LoosensNothing, RecordIs DEF CompleteRemoval, Typed, Finished

LEMMA FailStartEffect ==
    ASSUME Typed, NEW s \in Sessions, FailStart(s)
    PROVE  /\ Typed' /\ Alone(s) /\ UNCHANGED <<record, lateVars, capacity, cloud, orphanVars>>
           /\ task[s].step \in {"ready", "fail"} /\ record[s].life \in Starting
           /\ task'[s].step = "failing"
           /\ \/ /\ task'[s].release
                 /\ record[s].host = NoHost /\ task'[s].host = NoHost /\ NoInstance(s)
              \/ ~task'[s].release /\ task'[s].host = record[s].host
              \/ /\ ~task'[s].release /\ record[s].host = NoHost
                 /\ task'[s].host # NoHost =>
                       record[s].slot # NoSlot /\ task'[s].host \in Hosts /\ Up(s, task'[s].host)
<1>1. PICK discovered \in BOOLEAN : Step(s, FailDecision(s, discovered))
  BY DEF FailStart
<1> DEFINE t == FailDecision(s, discovered)
           one == CHOOSE h \in InstancesOf(s) : TRUE
<1>2. InstancesOf(s) # {} => one \in Hosts /\ Up(s, one)
  BY DEF InstancesOf, Up
<1>3. InstancesOf(s) = {} => NoInstance(s)
  BY DEF InstancesOf, NoInstance, Up
<1>4. record[s] \in Record
  BY DEF Typed
<1>5. /\ t \in Task /\ t.step = "failing"
      /\ \/ t.release /\ record[s].host = NoHost /\ t.host = NoHost /\ NoInstance(s)
         \/ ~t.release /\ t.host = record[s].host
         \/ /\ ~t.release /\ record[s].host = NoHost
            /\ t.host # NoHost => record[s].slot # NoSlot /\ t.host \in Hosts /\ Up(s, t.host)
  <2>1. CASE record[s].host # NoHost \/ ~discovered \/ Cardinality(InstancesOf(s)) > 1
    <3>1. t = [step |-> "failing", slot |-> record[s].slot, host |-> record[s].host,
               release |-> FALSE]
      BY <2>1 DEF FailDecision
    <3>2. QED
      BY <1>4, <3>1 DEF Task, Steps, Record
  <2>2. CASE ~(record[s].host # NoHost \/ ~discovered \/ Cardinality(InstancesOf(s)) > 1)
             /\ InstancesOf(s) = {}
    <3>1. t = [step |-> "failing", slot |-> record[s].slot, host |-> NoHost, release |-> TRUE]
      BY <2>2 DEF FailDecision
    <3>2. QED
      BY <1>3, <1>4, <2>2, <3>1 DEF Task, Steps, Record
  <2>3. CASE ~(record[s].host # NoHost \/ ~discovered \/ Cardinality(InstancesOf(s)) > 1)
             /\ InstancesOf(s) # {}
    <3>1. t = [step |-> "failing", slot |-> record[s].slot, release |-> FALSE,
               host |-> IF record[s].slot = NoSlot THEN NoHost ELSE one]
      BY <2>3 DEF FailDecision
    <3>2. QED
      BY <1>2, <1>4, <2>3, <3>1 DEF Task, Steps, Record
  <2>4. QED
    BY <2>1, <2>2, <2>3
<1>6. Typed' /\ Alone(s) /\ task'[s] = t
  BY <1>1, <1>5, LoosensNothing, TaskStep DEF FailStart, Typed
<1>7. QED
  BY <1>5, <1>6 DEF FailStart

LEMMA CrashEffect ==
    ASSUME Typed, NEW s \in Sessions, Crash(s)
    PROVE  /\ Typed' /\ Alone(s) /\ UNCHANGED <<record, lateVars, capacity, cloud, orphanVars>>
           /\ task[s].step \notin {"idle", "ready", "fail"}
           /\ \/ /\ task[s].step \in {"failing", "released"} /\ record[s].life \in Starting
                 /\ Does(s, "fail", NoSlot, NoHost, FALSE)
              \/ /\ ~(task[s].step \in {"failing", "released"} /\ record[s].life \in Starting)
                 /\ Rests(s)
<1>1. CASE task[s].step \in {"failing", "released"} /\ record[s].life \in Starting
  BY <1>1, InFailIs, LoosensNothing, TaskIs DEF Crash, Typed
<1>2. CASE ~(task[s].step \in {"failing", "released"} /\ record[s].life \in Starting)
  BY <1>2, ReadyIs, LoosensNothing, TaskIs DEF Crash, Typed, Rests
<1>3. QED
  BY <1>1, <1>2

LEMMA EnsureInstanceEffect ==
    ASSUME Typed, NEW s \in Sessions, EnsureInstance(s)
    PROVE  /\ Typed' /\ Alone(s) /\ UNCHANGED <<record, lateVars, capacity, orphanVars>>
           /\ task[s].step = "ready" /\ record[s].life \in Starting
           /\ record[s].slot # NoSlot /\ record[s].host = NoHost
           /\ \E h \in Hosts :
                 /\ Does(s, "launched", NoSlot, h, FALSE)
                 /\ cloud'[h].owner = s /\ cloud'[h].up
                 /\ \/ UNCHANGED cloud /\ OnlyInstance(s, h)
                    \/ /\ NoInstance(s) /\ cloud[h].owner = NoSession
                       /\ \A g \in Hosts : g # h => cloud'[g] = cloud[g]
<1>1. PICK h \in Hosts :
        /\ Step(s, [Idle EXCEPT !.step = "launched", !.host = h])
        /\ \/ /\ InstancesOf(s) = {h}
              /\ UNCHANGED cloud
           \/ /\ InstancesOf(s) = {} /\ cloud[h].owner = NoSession
              /\ cloud' = [cloud EXCEPT ![h] = [owner |-> s, up |-> TRUE, astray |-> FALSE]]
  BY DEF EnsureInstance
<1>2. /\ cloud' \in [Hosts -> Instance] /\ cloud'[h].owner = s /\ cloud'[h].up
      /\ \/ UNCHANGED cloud /\ OnlyInstance(s, h)
         \/ /\ NoInstance(s) /\ cloud[h].owner = NoSession
            /\ \A g \in Hosts : g # h => cloud'[g] = cloud[g]
  <2>1. CASE InstancesOf(s) = {h} /\ UNCHANGED cloud
    BY <2>1 DEF InstancesOf, OnlyInstance, Up, Typed
  <2>2. CASE /\ InstancesOf(s) = {} /\ cloud[h].owner = NoSession
             /\ cloud' = [cloud EXCEPT ![h] = [owner |-> s, up |-> TRUE, astray |-> FALSE]]
    BY <2>2 DEF InstancesOf, NoInstance, Up, Typed, Instance
  <2>3. QED
    BY <1>1, <2>1, <2>2
<1>3. Is([Idle EXCEPT !.step = "launched", !.host = h], "launched", NoSlot, h, FALSE)
  BY IdleWithHost DEF Steps
<1>4. Typed' /\ Alone(s) /\ Does(s, "launched", NoSlot, h, FALSE)
  BY <1>1, <1>2, <1>3, LoosensNothing, TaskIs DEF EnsureInstance, Typed
<1>5. QED
  BY <1>2, <1>4 DEF EnsureInstance

LEMMA TerminateInstanceEffect ==
    ASSUME Typed, NEW s \in Sessions, TerminateInstance(s)
    PROVE  /\ Typed' /\ Alone(s) /\ UNCHANGED <<record, task, lateVars, capacity, orphanVars>>
           /\ task[s].step = "ready" /\ record[s].life \in Removing
           /\ record[s].host \in Hosts /\ cloud[record[s].host].up
           /\ ~cloud'[record[s].host].up
           /\ \A h \in Hosts : cloud'[h].owner = cloud[h].owner /\ cloud'[h].astray = cloud[h].astray
           /\ \A h \in Hosts : h # record[s].host => cloud'[h] = cloud[h]
<1>1. record[s].host \in Hosts
  BY DEF Typed, Record, TerminateInstance
<1>2. /\ cloud' \in [Hosts -> Instance] /\ ~cloud'[record[s].host].up
      /\ \A h \in Hosts : cloud'[h].owner = cloud[h].owner /\ cloud'[h].astray = cloud[h].astray
      /\ \A h \in Hosts : h # record[s].host => cloud'[h] = cloud[h]
  BY <1>1 DEF Typed, Instance, TerminateInstance
<1>3. QED
  BY <1>1, <1>2 DEF TerminateInstance, Typed, Alone

LEMMA ReleaseAfterFailureEffect ==
    ASSUME Typed, NEW s \in Sessions, NEW j \in Slots, ReleaseAfterFailure(s, j)
    PROVE  /\ Typed' /\ Alone(s) /\ UNCHANGED <<record, task, cloud, orphanVars>>
           /\ capacity' = Released(s, j) \/ capacity' = capacity
           /\ s \in robbed => s \in robbed'
           /\ capacity' # capacity /\ Counts(s, j) => s \in robbed'
<1>1. capacity' \in [Slots -> Owner]
  BY ReleasedTyped DEF ReleaseAfterFailure, Typed
<1>2. late' \in [Sessions -> SUBSET Slots] /\ robbed' \in SUBSET Sessions
  BY DEF ReleaseAfterFailure, Typed
<1>3. /\ s \in robbed => s \in robbed'
      /\ capacity' # capacity /\ Counts(s, j) => s \in robbed'
      /\ \A u \in Sessions : u # s => (u \in robbed' <=> u \in robbed)
  <2> DEFINE c == capacity' # capacity /\ Counts(s, j)
  <2>1. robbed' = IF c THEN robbed \cup {s} ELSE robbed
    BY DEF ReleaseAfterFailure
  <2> HIDE DEF c
  <2>2. /\ s \in robbed => s \in robbed'
        /\ c => s \in robbed'
        /\ \A u \in Sessions : u # s => (u \in robbed' <=> u \in robbed)
    BY <2>1
  <2>3. QED
    BY <2>2 DEF c
<1>4. QED
  BY <1>1, <1>2, <1>3 DEF ReleaseAfterFailure, Typed, Alone

LEMMA ReleaseBeforeFailureEffect ==
    ASSUME Typed, NEW s \in Sessions, ReleaseBeforeFailure(s)
    PROVE  /\ Typed' /\ Alone(s) /\ UNCHANGED <<record, lateVars, cloud, orphanVars>>
           /\ task[s].step = "failing" /\ record[s].life = "RESTORING" /\ task[s].release
           /\ capacity' = Released(s, task[s].slot)
           /\ Does(s, "released", task[s].slot, task[s].host, task[s].release)
<1>1. task[s] \in Task
  BY DEF Typed
<1>2. Is([task[s] EXCEPT !.step = "released"], "released", task[s].slot, task[s].host,
         task[s].release)
  BY <1>1, Copied DEF Steps
<1>3. task[s].slot \in Slots \cup {NoSlot}
  BY <1>1 DEF Task
<1>4. QED
  BY <1>2, <1>3, ReleasedTyped, LoosensNothing, TaskIs DEF ReleaseBeforeFailure, Typed

LEMMA ReleaseBeforeCompletionEffect ==
    ASSUME Typed, NEW s \in Sessions, ReleaseBeforeCompletion(s)
    PROVE  /\ Typed' /\ Alone(s) /\ UNCHANGED <<record, lateVars, cloud, orphanVars>>
           /\ task[s].step = "ready" /\ record[s].life \in Removing
           /\ record[s].host # NoHost => ~cloud[record[s].host].up
           /\ capacity' = Released(s, record[s].slot)
           /\ Does(s, "released", NoSlot, NoHost, FALSE)
<1>1. Is([Idle EXCEPT !.step = "released"], "released", NoSlot, NoHost, FALSE)
  BY IdleIs, Copied DEF Is, Steps
<1>2. record[s].slot \in Slots \cup {NoSlot}
  BY DEF Typed, Record
<1>3. QED
  BY <1>1, <1>2, ReleasedTyped, LoosensNothing, TaskIs DEF ReleaseBeforeCompletion, Typed

LEMMA StrayPrepareEffect ==
    ASSUME Typed, NEW s \in Sessions, StrayPrepare(s)
    PROVE  /\ Typed' /\ Alone(s) /\ UNCHANGED <<record, task, late, robbed, cloud, orphanVars>>
           /\ record[s].life = "FAILED"
           /\ \/ UNCHANGED capacity
              \/ \E k \in Slots : /\ capacity[k] \in {NoSession, s}
                                  /\ capacity' = [capacity EXCEPT ![k] = s]
<1>1. /\ UNCHANGED <<record, task, late, robbed, cloud, orphanVars>>
      /\ record[s].life = "FAILED"
  BY DEF StrayPrepare, Strays
<1>2. stray' \in [Sessions -> Stages]
  BY DEF StrayPrepare, Typed, Stages
<1>3. \/ UNCHANGED capacity
      \/ \E k \in Slots : /\ capacity[k] \in {NoSession, s}
                          /\ capacity' = [capacity EXCEPT ![k] = s]
  BY DEF StrayPrepare, Capacity!AcquireCapacitySlot, Slots
<1>4. capacity' \in [Slots -> Owner]
  BY <1>3 DEF Typed, Owner
<1>5. QED
  BY <1>1, <1>2, <1>3, <1>4 DEF Typed, Alone

LEMMA StrayEnsureEffect ==
    ASSUME Typed, NEW s \in Sessions, StrayEnsure(s)
    PROVE  /\ Typed' /\ Alone(s) /\ UNCHANGED <<record, task, lateVars, capacity, orphanVars>>
           /\ record[s].life = "FAILED" /\ record[s].host = NoHost /\ NoInstance(s)
           /\ \E h \in Hosts :
                 /\ cloud[h].owner = NoSession
                 /\ cloud'[h].owner = s /\ cloud'[h].astray
                 /\ \A g \in Hosts : g # h => cloud'[g] = cloud[g]
<1>1. PICK h \in Hosts :
        /\ cloud[h].owner = NoSession
        /\ cloud' = [cloud EXCEPT ![h] = [owner |-> s, up |-> TRUE, astray |-> TRUE]]
  BY DEF StrayEnsure
<1>2. /\ cloud' \in [Hosts -> Instance]
      /\ cloud'[h].owner = s /\ cloud'[h].astray
      /\ \A g \in Hosts : g # h => cloud'[g] = cloud[g]
  BY <1>1 DEF Typed, Instance
<1>3. NoInstance(s)
  BY DEF StrayEnsure, InstancesOf, NoInstance, Up
<1>4. QED
  BY <1>1, <1>2, <1>3 DEF StrayEnsure, Strays, Typed, Alone

LEMMA StrayTerminateEffect ==
    ASSUME Typed, NEW s \in Sessions, StrayTerminate(s)
    PROVE  /\ Typed' /\ Alone(s) /\ UNCHANGED <<record, task, lateVars, capacity, orphanVars>>
           /\ record[s].life = "FAILED" /\ record[s].host \in Hosts
           /\ ~cloud'[record[s].host].up
           /\ \A h \in Hosts : cloud'[h].owner = cloud[h].owner /\ cloud'[h].astray = cloud[h].astray
           /\ \A h \in Hosts : h # record[s].host => cloud'[h] = cloud[h]
<1>1. record[s].host \in Hosts
  BY DEF Typed, Record, StrayTerminate
<1>2. /\ cloud' \in [Hosts -> Instance] /\ ~cloud'[record[s].host].up
      /\ \A h \in Hosts : cloud'[h].owner = cloud[h].owner /\ cloud'[h].astray = cloud[h].astray
      /\ \A h \in Hosts : h # record[s].host => cloud'[h] = cloud[h]
  BY <1>1 DEF Typed, Instance, StrayTerminate
<1>3. QED
  BY <1>1, <1>2 DEF StrayTerminate, Strays, Typed, Alone

LEMMA StrayReleaseEffect ==
    ASSUME Typed, NEW s \in Sessions, StrayRelease(s)
    PROVE  /\ Typed' /\ Alone(s) /\ UNCHANGED <<record, task, lateVars, cloud, orphanVars>>
           /\ record[s].life = "FAILED"
           /\ record[s].host # NoHost => ~cloud[record[s].host].up
           /\ capacity' = Released(s, record[s].slot)
<1>1. record[s].slot \in Slots \cup {NoSlot}
  BY DEF Typed, Record
<1>2. capacity' \in [Slots -> Owner]
  BY <1>1, ReleasedTyped DEF StrayRelease
<1>3. QED
  BY <1>2 DEF StrayRelease, Strays, Typed, Alone

LEMMA StrayEndsEffect ==
    ASSUME Typed, NEW s \in Sessions, StrayEnds(s)
    PROVE  /\ Typed' /\ Alone(s)
           /\ UNCHANGED <<record, task, late, robbed, capacity, cloud, orphanVars>>
BY DEF StrayEnds, Typed, Alone, Stages

-----------------------------------------------------------------------------
(* The type invariant                                                      *)

\* A session launches hosts nobody has launched and ends its own.
CloudMoves(s) ==
    \A h \in Hosts :
        \/ cloud'[h] = cloud[h]
        \/ cloud[h].owner = NoSession /\ cloud'[h].owner = s
        \/ /\ cloud'[h].owner = cloud[h].owner /\ cloud'[h].astray = cloud[h].astray
           /\ ~cloud'[h].up

\* A session takes free slots and gives back its own.
CapacityMoves(s) ==
    \A k \in Slots :
        \/ capacity'[k] = capacity[k]
        \/ capacity[k] = NoSession /\ capacity'[k] = s
        \/ capacity[k] = s /\ capacity'[k] = NoSession

LEMMA SessionFrame ==
    ASSUME TypeInv, NEW s \in Sessions, CreateSession(s) \/ SessionStep(s)
    PROVE  /\ Typed' /\ Alone(s) /\ UNCHANGED orphanVars
           /\ CloudMoves(s) /\ CapacityMoves(s)
           /\ task'[s].step \in {"probe", "taken", "reserved"} => task'[s].slot \in Slots
           /\ task'[s].step = "launched" => task'[s].host \in Hosts
<1>t. Typed /\ task[s].step \in {"probe", "taken", "reserved"} => task[s].slot \in Slots
  BY TypeParts DEF TypeInv, ChoiceInv
<1>u. Typed /\ task[s].step = "launched" => task[s].host \in Hosts
  BY TypeParts DEF TypeInv, ChoiceInv
<1>v. Typed
  BY TypeParts DEF TypeInv
<1>c. UNCHANGED cloud => CloudMoves(s)
  BY DEF CloudMoves
<1>k. UNCHANGED capacity => CapacityMoves(s)
  BY DEF CapacityMoves
<1>r. ASSUME NEW k \in Slots \cup {NoSlot}, capacity' = Released(s, k) PROVE CapacityMoves(s)
  BY <1>r, <1>v, ReleasedTyped DEF CapacityMoves
<1>w. record[s].slot \in Slots \cup {NoSlot} /\ task[s].slot \in Slots \cup {NoSlot}
  BY <1>v DEF Typed, Record, Task
<1>1. CASE CreateSession(s)
  BY <1>1, <1>t, <1>u, <1>v, <1>c, <1>k, CreateSessionEffect
<1>2. CASE StartProvision(s) \/ StartArchive(s) \/ StartRestore(s) \/ StartTermination(s)
  BY <1>2, <1>v, <1>c, <1>k, StartEffect DEF Rests, Does
<1>3. CASE Prepare(s)
  BY <1>3, <1>v, <1>c, <1>k, PrepareEffect, SlotNumbers DEF Does
<1>4. CASE PutSlot(s)
  <2>1. task[s].slot \in Slots
    BY <1>4, <1>t, <1>v DEF PutSlot
  <2>2. capacity[task[s].slot] = NoSession /\ capacity' = [capacity EXCEPT ![task[s].slot] = s]
          => CapacityMoves(s)
    BY <1>v, <2>1 DEF CapacityMoves, Typed
  <2>3. QED
    BY <1>4, <1>v, <1>c, <1>k, <2>1, <2>2, PutSlotEffect DEF Does
<1>5. CASE ReadSlot(s)
  <2>1. task[s].slot \in Slots
    BY <1>5, <1>t, <1>v DEF ReadSlot
  <2>2. QED
    BY <1>5, <1>v, <1>c, <1>k, <2>1, ReadSlotEffect DEF Does, Rests
<1>6. CASE SaveSlot(s)
  BY <1>6, <1>v, <1>c, <1>k, SaveSlotEffect DEF Does, Rests
<1>7. CASE EnsureInstance(s)
  <2>1. CloudMoves(s)
    BY <1>7, <1>v, EnsureInstanceEffect DEF CloudMoves
  <2>2. QED
    BY <1>7, <1>v, <1>k, <2>1, EnsureInstanceEffect DEF Does
<1>8. CASE SaveLaunch(s)
  BY <1>8, <1>v, <1>c, <1>k, SaveLaunchEffect DEF Does, Rests
<1>9. CASE CompleteStart(s)
  BY <1>9, <1>v, <1>c, <1>k, CompleteStartEffect DEF Does, Finished
<1>10. CASE FailStart(s)
  BY <1>10, <1>v, <1>c, <1>k, FailStartEffect
<1>11. CASE FailProvision(s)
  BY <1>11, <1>v, <1>c, <1>k, FailProvisionEffect DEF Does, Finished
<1>12. ASSUME NEW j \in Slots, ReleaseAfterFailure(s, j)
       PROVE  /\ Typed' /\ Alone(s) /\ UNCHANGED <<task, orphanVars>>
              /\ CloudMoves(s) /\ CapacityMoves(s)
  BY <1>12, <1>v, <1>c, <1>k, <1>r, ReleaseAfterFailureEffect
<1>13. CASE ReleaseBeforeFailure(s)
  BY <1>13, <1>v, <1>c, <1>r, <1>w, ReleaseBeforeFailureEffect DEF Does
<1>14. CASE FailRestore(s)
  BY <1>14, <1>v, <1>c, <1>k, FailRestoreEffect DEF Does, Finished
<1>15. CASE TerminateInstance(s)
  <2>1. CloudMoves(s)
    BY <1>15, <1>v, TerminateInstanceEffect DEF CloudMoves
  <2>2. QED
    BY <1>15, <1>t, <1>u, <1>v, <1>k, <2>1, TerminateInstanceEffect
<1>16. CASE ReleaseBeforeCompletion(s)
  BY <1>16, <1>v, <1>c, <1>r, <1>w, ReleaseBeforeCompletionEffect DEF Does
<1>17. CASE CompleteRemoval(s)
  BY <1>17, <1>v, <1>c, <1>k, CompleteRemovalEffect DEF Does, Finished
<1>18. CASE FailRemoval(s) \/ Repair(s)
  BY <1>18, <1>v, <1>c, <1>k, SettleEffect DEF Does, Finished
<1>19. CASE Crash(s)
  BY <1>19, <1>v, <1>c, <1>k, CrashEffect DEF Does, Rests
<1>20. CASE StrayPrepare(s)
  <2>1. CapacityMoves(s)
    BY <1>20, <1>v, StrayPrepareEffect DEF CapacityMoves, Typed
  <2>2. QED
    BY <1>20, <1>t, <1>u, <1>v, <1>c, <2>1, StrayPrepareEffect
<1>21. CASE StrayEnsure(s)
  <2>1. CloudMoves(s)
    BY <1>21, <1>v, StrayEnsureEffect DEF CloudMoves
  <2>2. QED
    BY <1>21, <1>t, <1>u, <1>v, <1>k, <2>1, StrayEnsureEffect
<1>22. CASE StrayTerminate(s)
  <2>1. CloudMoves(s)
    BY <1>22, <1>v, StrayTerminateEffect DEF CloudMoves
  <2>2. QED
    BY <1>22, <1>t, <1>u, <1>v, <1>k, <2>1, StrayTerminateEffect
<1>23. CASE StrayRelease(s)
  BY <1>23, <1>t, <1>u, <1>v, <1>c, <1>r, <1>w, StrayReleaseEffect
<1>24. CASE StrayEnds(s)
  BY <1>24, <1>t, <1>u, <1>v, <1>c, <1>k, StrayEndsEffect
<1>25. QED
  BY <1>1, <1>2, <1>3, <1>4, <1>5, <1>6, <1>7, <1>8, <1>9, <1>10, <1>11, <1>12, <1>13,
     <1>14, <1>15, <1>16, <1>17, <1>18, <1>19, <1>20, <1>21, <1>22, <1>23, <1>24, <1>t, <1>u, <1>v
     DEF SessionStep

LEMMA SessionKeepsType ==
    ASSUME TypeInv, NEW s \in Sessions, CreateSession(s) \/ SessionStep(s)
    PROVE  TypeInv'
<1>1. /\ Typed' /\ Alone(s) /\ UNCHANGED orphanVars /\ CloudMoves(s)
      /\ task'[s].step \in {"probe", "taken", "reserved"} => task'[s].slot \in Slots
      /\ task'[s].step = "launched" => task'[s].host \in Hosts
  BY SessionFrame
<1>2. TypeOK'
  BY <1>1, TypeParts, NextTypeParts DEF TypeInv, OrphanTyped, orphanVars
<1>3. \A u \in Sessions :
          /\ task'[u].step \in {"probe", "taken", "reserved"} => task'[u].slot \in Slots
          /\ task'[u].step = "launched" => task'[u].host \in Hosts
  BY <1>1 DEF TypeInv, ChoiceInv, Alone
<1>4. \A h \in Hosts : cloud[h].owner \in Sessions => cloud'[h].owner \in Sessions
  BY <1>1 DEF CloudMoves
<1>5. ChoiceInv'
  BY <1>1, <1>3, <1>4 DEF TypeInv, ChoiceInv, orphanVars
<1>6. QED
  BY <1>2, <1>5 DEF TypeInv

-----------------------------------------------------------------------------
\* The scan and the operator touch nothing of the sessions, except that a
\* cleanup ends a host.
CloudFades ==
    \A h \in Hosts :
        \/ cloud'[h] = cloud[h]
        \/ /\ cloud'[h].owner = cloud[h].owner /\ cloud'[h].astray = cloud[h].astray
           /\ ~cloud'[h].up

LEMMA WaitEffect ==
    ASSUME TypeInv, NEW h \in Hosts, Wait(h)
    PROVE  /\ OrphanTyped' /\ UNCHANGED <<record, task, lateVars, capacity, cloud, operator>>
           /\ cloud[h].owner \in Sessions /\ task[cloud[h].owner].step = "idle"
           /\ \A g \in Hosts :
                 /\ finding'[g].disposition = finding[g].disposition
                 /\ g # h => finding'[g] = finding[g]
<1> DEFINE F == [disposition : {"none", "DETECTED", "QUARANTINED", "CLEANED"}, waited : BOOLEAN]
<1>1. finding \in [Hosts -> F] /\ OrphanTyped
  BY TypeParts DEF TypeInv, OrphanTyped
<1>2. [finding[h] EXCEPT !.waited = TRUE] \in F
      /\ [finding[h] EXCEPT !.waited = TRUE].disposition = finding[h].disposition
  BY <1>1
<1>3. finding' = [finding EXCEPT ![h] = [finding[h] EXCEPT !.waited = TRUE]]
  BY DEF Wait
<1>4. finding' \in [Hosts -> F]
      /\ \A g \in Hosts : /\ finding'[g].disposition = finding[g].disposition
                          /\ g # h => finding'[g] = finding[g]
  <2> HIDE DEF F
  <2> QED BY <1>1, <1>2, <1>3
<1>5. QED
  BY <1>1, <1>4 DEF Wait, OrphanTyped, Now, TypeInv, ChoiceInv

LEMMA RevalidateEffect ==
    ASSUME TypeInv, NEW h \in Hosts, Revalidate(h)
    PROVE  /\ OrphanTyped' /\ UNCHANGED <<record, task, lateVars, capacity, cloud, finding>>
           /\ finding[h].waited /\ cloud[h].owner \in Sessions
           /\ operator'.host = h
           /\ operator'.listed => operator'.spared = record[cloud[h].owner].host
<1>1. finding[h].waited /\ cloud[h].owner \in Sessions
  BY DEF Revalidate, CanClean, TypeInv, ChoiceInv
<1>2. PICK listed \in BOOLEAN :
        operator' = [host |-> h, listed |-> listed, spared |-> Spared(h, listed)]
  BY DEF Revalidate
<1>3. /\ Spared(h, listed) \in Hosts \cup {NoHost}
      /\ listed => Spared(h, listed) = record[cloud[h].owner].host
  BY <1>1, TypeParts DEF TypeInv, Typed, Record, Spared
<1>4. QED
  BY <1>1, <1>2, <1>3, TypeParts DEF TypeInv, OrphanTyped, Revalidate, Now

LEMMA QuarantineEffect ==
    ASSUME TypeInv, NEW x \in Hosts, QuarantineOrphan(x)
    PROVE  /\ OrphanTyped' /\ UNCHANGED <<record, task, lateVars, capacity, cloud, operator>>
           /\ \A h \in Hosts :
                 /\ finding'[h].waited => finding[h].waited
                 /\ finding'[h].disposition # "none" =>
                       finding[h].disposition # "none" \/ cloud[h].owner \in Sessions
<1> DEFINE F == [disposition : {"none", "DETECTED", "QUARANTINED", "CLEANED"}, waited : BOOLEAN]
           f == [disposition |-> "QUARANTINED", waited |-> FALSE]
<1>1. finding \in [Hosts -> F] /\ OrphanTyped
  BY TypeParts DEF TypeInv, OrphanTyped
<1>2. cloud[x].owner \in Sessions
  BY DEF TypeInv, ChoiceInv, QuarantineOrphan, CanQuarantine
<1>3. f \in F /\ ~f.waited
  OBVIOUS
<1>4. finding' = [finding EXCEPT ![x] = f]
  BY DEF QuarantineOrphan
<1>5. /\ finding' \in [Hosts -> F] /\ finding'[x] = f
      /\ \A h \in Hosts : h # x => finding'[h] = finding[h]
  <2> HIDE DEF F, f
  <2> QED BY <1>1, <1>3, <1>4
<1>6. OrphanTyped' /\ UNCHANGED <<record, task, lateVars, capacity, cloud, operator>>
  BY <1>1, <1>5 DEF QuarantineOrphan, OrphanTyped, Now
<1>7. \A h \in Hosts :
         /\ finding'[h].waited => finding[h].waited
         /\ finding'[h].disposition # "none" =>
               finding[h].disposition # "none" \/ cloud[h].owner \in Sessions
  BY <1>2, <1>3, <1>5
<1>8. QED
  BY <1>6, <1>7

LEMMA CleanupEffect ==
    ASSUME TypeInv, CleanupOrphan
    PROVE  /\ OrphanTyped' /\ Typed' /\ UNCHANGED <<record, task, lateVars, capacity>>
           /\ operator' = AtRest
           /\ \A h \in Hosts : /\ finding'[h].waited => finding[h].waited
                               /\ finding'[h].disposition # "none" =>
                                     finding[h].disposition # "none" \/ h = operator.host
           /\ operator.host \in Hosts /\ cloud[operator.host].owner \in Sessions
           /\ operator # AtRest
           /\ ~StillUnreferenced => UNCHANGED cloud
           /\ CloudFades
           /\ \A h \in Hosts : h # operator.host => cloud'[h] = cloud[h]
<1> DEFINE F == [disposition : {"none", "DETECTED", "QUARANTINED", "CLEANED"}, waited : BOOLEAN]
           x == operator.host
<1>1. finding \in [Hosts -> F] /\ OrphanTyped /\ Typed /\ cloud \in [Hosts -> Instance]
  BY TypeParts DEF TypeInv, OrphanTyped, Typed
<1>2. x \in Hosts /\ cloud[x].owner \in Sessions /\ operator # AtRest
  BY DEF TypeInv, ChoiceInv, CleanupOrphan
<1>3. /\ operator' \in [host : Hosts \cup {NoHost}, spared : Hosts \cup {NoHost},
                        listed : BOOLEAN]
      /\ operator' = AtRest
  BY DEF CleanupOrphan, AtRest
<1>4. CASE StillUnreferenced
  <2> DEFINE f == [finding[x] EXCEPT !.disposition = "CLEANED"]
             i == [cloud[x] EXCEPT !.up = FALSE]
  <2>1. f \in F /\ f.waited = finding[x].waited
    BY <1>1, <1>2
  <2>2. i \in Instance /\ i.owner = cloud[x].owner /\ i.astray = cloud[x].astray /\ ~i.up
    BY <1>1, <1>2 DEF Instance
  <2>3. finding' = [finding EXCEPT ![x] = f] /\ cloud' = [cloud EXCEPT ![x] = i]
    BY <1>4 DEF CleanupOrphan
  <2> HIDE DEF f, i, F
  <2>4. /\ finding' \in [Hosts -> F] /\ cloud' \in [Hosts -> Instance]
        /\ finding'[x] = f /\ cloud'[x] = i
        /\ \A h \in Hosts : h # x => finding'[h] = finding[h] /\ cloud'[h] = cloud[h]
    BY <1>1, <1>2, <2>1, <2>2, <2>3
  <2>5. OrphanTyped' /\ Typed'
    BY <1>1, <1>3, <2>4 DEF CleanupOrphan, OrphanTyped, Typed, F
  <2>6. CloudFades
    BY <2>2, <2>4 DEF CloudFades
  <2>7. QED
    BY <1>2, <1>3, <1>4, <2>1, <2>4, <2>5, <2>6 DEF CleanupOrphan
<1>5. CASE ~StillUnreferenced
  BY <1>1, <1>2, <1>3, <1>5 DEF CleanupOrphan, OrphanTyped, Typed, CloudFades
<1>6. QED
  BY <1>4, <1>5

LEMMA ScanEffect ==
    ASSUME TypeInv, NEW s \in Sessions, Scan(s)
    PROVE  /\ OrphanTyped' /\ UNCHANGED <<record, task, lateVars, capacity, cloud, operator>>
           /\ \A h \in Hosts :
                 /\ finding'[h].waited => finding[h].waited
                 /\ finding'[h].disposition # "none" =>
                       finding[h].disposition # "none" \/ cloud[h].owner \in Sessions
<1> DEFINE F == [disposition : {"none", "DETECTED", "QUARANTINED", "CLEANED"}, waited : BOOLEAN]
           f == [disposition |-> "DETECTED", waited |-> FALSE]
           new(h, listed) == /\ h \in InstancesOf(s) /\ Actionable(h, listed)
                             /\ finding[h].disposition = "none"
<1>1. finding \in [Hosts -> F] /\ OrphanTyped
  BY TypeParts DEF TypeInv, OrphanTyped
<1>2. f \in F /\ ~f.waited
  OBVIOUS
<1>3. PICK listed \in BOOLEAN :
        finding' = [h \in Hosts |-> IF new(h, listed) THEN f ELSE finding[h]]
  BY DEF Scan
<1>4. \A h \in Hosts : new(h, listed) => cloud[h].owner \in Sessions
  BY DEF InstancesOf
<1>5. /\ finding' \in [Hosts -> F]
      /\ \A h \in Hosts : \/ finding'[h] = finding[h]
                          \/ finding'[h] = f /\ cloud[h].owner \in Sessions
  <2> HIDE DEF F, f, new
  <2> QED BY <1>1, <1>2, <1>3, <1>4
<1>6. OrphanTyped' /\ UNCHANGED <<record, task, lateVars, capacity, cloud, operator>>
  BY <1>1, <1>5 DEF Scan, OrphanTyped, Now
<1>7. QED
  BY <1>2, <1>5, <1>6

LEMMA OrphanFrame ==
    ASSUME TypeInv, OrphanStep
    PROVE  /\ UNCHANGED <<record, task, lateVars, capacity>> /\ CloudFades
           /\ TypeInv'
<1>t. Typed
  BY TypeParts DEF TypeInv
<1>c. UNCHANGED cloud => CloudFades
  BY DEF CloudFades
<1>y. UNCHANGED <<record, task, lateVars, capacity, cloud>> => Typed'
  BY <1>t DEF Typed
<1>k. UNCHANGED task => \A s \in Sessions :
          /\ task'[s].step \in {"probe", "taken", "reserved"} => task'[s].slot \in Slots
          /\ task'[s].step = "launched" => task'[s].host \in Hosts
  BY DEF TypeInv, ChoiceInv
<1>o. CloudFades => \A h \in Hosts : cloud'[h].owner = cloud[h].owner
  BY DEF CloudFades
<1>1. ASSUME NEW s \in Sessions, Scan(s)
      PROVE  UNCHANGED <<record, task, lateVars, capacity>> /\ CloudFades /\ TypeInv'
  <2>1. ChoiceInv'
    BY <1>1, <1>k, ScanEffect DEF TypeInv, ChoiceInv
  <2>2. QED
    BY <1>1, <1>c, <1>y, <2>1, ScanEffect, NextTypeParts DEF TypeInv
<1>2. ASSUME NEW h \in Hosts, QuarantineOrphan(h)
      PROVE  UNCHANGED <<record, task, lateVars, capacity>> /\ CloudFades /\ TypeInv'
  <2>1. ChoiceInv'
    BY <1>2, <1>k, QuarantineEffect DEF TypeInv, ChoiceInv
  <2>2. QED
    BY <1>2, <1>c, <1>y, <2>1, QuarantineEffect, NextTypeParts DEF TypeInv
<1>3. ASSUME NEW h \in Hosts, Wait(h)
      PROVE  UNCHANGED <<record, task, lateVars, capacity>> /\ CloudFades /\ TypeInv'
  <2>1. ChoiceInv'
    BY <1>3, <1>k, WaitEffect DEF TypeInv, ChoiceInv
  <2>2. QED
    BY <1>3, <1>c, <1>y, <2>1, WaitEffect, NextTypeParts DEF TypeInv
<1>4. ASSUME NEW h \in Hosts, Revalidate(h)
      PROVE  UNCHANGED <<record, task, lateVars, capacity>> /\ CloudFades /\ TypeInv'
  <2>1. ChoiceInv'
    BY <1>4, <1>k, RevalidateEffect DEF TypeInv, ChoiceInv
  <2>2. QED
    BY <1>4, <1>c, <1>y, <2>1, RevalidateEffect, NextTypeParts DEF TypeInv
<1>5. CASE CleanupOrphan
  <2>1. ChoiceInv'
    BY <1>5, <1>k, <1>o, CleanupEffect DEF TypeInv, ChoiceInv
  <2>2. QED
    BY <1>5, <2>1, CleanupEffect, NextTypeParts DEF TypeInv
<1>6. QED
  BY <1>1, <1>2, <1>3, <1>4, <1>5 DEF OrphanStep

LEMMA TypeInit == Init => TypeInv
<1>1. ASSUME Init PROVE Typed
  BY <1>1 DEF Init, Typed, Record, Task, Instance, Owner, Lives, Steps, Idle, Stages, NeverLaunched
<1>2. ASSUME Init PROVE OrphanTyped
  BY <1>2 DEF Init, OrphanTyped, AtRest
<1>3. ASSUME Init PROVE ChoiceInv
  BY <1>3 DEF Init, ChoiceInv, Idle, AtRest
<1>4. QED
  BY <1>1, <1>2, <1>3, TypeParts DEF TypeInv

LEMMA TypeStep ==
    ASSUME TypeInv, [FleetNext]_fleetVars
    PROVE  TypeInv'
<1>1. CASE UNCHANGED fleetVars
  BY <1>1 DEF fleetVars, TypeInv, TypeOK, ChoiceInv
<1>2. QED
  BY <1>1, SessionKeepsType, OrphanFrame DEF FleetNext

LEMMA TypeHolds == FleetSpec => []TypeInv
BY TypeInit, TypeStep, PTL DEF FleetSpec

\* Every variable of the fleet keeps its type, whatever dies where.
THEOREM TypeCorrect == FleetSpec => []TypeOK
<1>1. TypeInv => TypeOK
  BY DEF TypeInv
<1>2. QED
  BY <1>1, TypeHolds, PTL

-----------------------------------------------------------------------------
(* The capacity table implements the atomic slots                          *)

LEMMA CapacitySteps ==
    ASSUME TypeInv, [FleetNext]_fleetVars
    PROVE  [Capacity!Next]_capacity
<1>1. CASE UNCHANGED fleetVars \/ OrphanStep
  BY <1>1, OrphanFrame DEF fleetVars
<1>2. ASSUME NEW s \in Sessions, CreateSession(s) \/ SessionStep(s)
      PROVE  UNCHANGED capacity \/ Capacity!Next
  <2>t. Typed
    BY TypeParts DEF TypeInv
  <2>1. ASSUME NEW k \in Slots \cup {NoSlot}, capacity' = Released(s, k)
        PROVE  UNCHANGED capacity \/ Capacity!Next
    <3>1. CASE k # NoSlot /\ capacity[k] = s
      BY <2>1, <3>1 DEF Released, Capacity!Next, Capacity!ReleaseCapacitySlot, Slots
    <3>2. CASE ~(k # NoSlot /\ capacity[k] = s)
      BY <2>1, <3>2 DEF Released
    <3>3. QED
      BY <3>1, <3>2
  <2>2. CASE PutSlot(s)
    <3>1. task[s].slot \in Slots
      BY <2>2 DEF PutSlot, TypeInv, ChoiceInv
    <3>2. CASE capacity[task[s].slot] = NoSession
      BY <2>2, <3>1, <3>2 DEF PutSlot, Capacity!Next, Capacity!AcquireCapacitySlot, Slots
    <3>3. CASE capacity[task[s].slot] # NoSession
      BY <2>2, <3>3 DEF PutSlot
    <3>4. QED
      BY <3>2, <3>3
  <2>3. CASE ReleaseBeforeFailure(s) \/ ReleaseBeforeCompletion(s) \/ StrayRelease(s)
             \/ \E j \in Slots : ReleaseAfterFailure(s, j)
    <3>1. task[s].slot \in Slots \cup {NoSlot} /\ record[s].slot \in Slots \cup {NoSlot}
      BY <2>t DEF Typed, Task, Record
    <3>2. QED
      BY <2>1, <2>3, <3>1
         DEF ReleaseAfterFailure, ReleaseBeforeFailure, ReleaseBeforeCompletion, StrayRelease
  <2>4. CASE CreateSession(s) \/ StartProvision(s) \/ StartArchive(s) \/ StartRestore(s)
             \/ StartTermination(s)
    BY <2>4 DEF CreateSession, StartProvision, StartArchive, StartRestore,
       StartTermination, Begin
  <2>5. CASE Prepare(s) \/ ReadSlot(s) \/ SaveSlot(s) \/ EnsureInstance(s) \/ SaveLaunch(s)
             \/ CompleteStart(s) \/ FailStart(s)
    BY <2>5 DEF Prepare, ReadSlot, SaveSlot, EnsureInstance, SaveLaunch, CompleteStart,
       FailStart
  <2>6. CASE FailProvision(s) \/ FailRestore(s) \/ TerminateInstance(s) \/ CompleteRemoval(s)
             \/ FailRemoval(s) \/ Crash(s) \/ Repair(s)
    BY <2>6 DEF FailProvision, FailRestore, TerminateInstance, CompleteRemoval, FailRemoval,
       Crash, Repair
  <2>7. CASE StrayPrepare(s) \/ StrayEnsure(s) \/ StrayTerminate(s) \/ StrayEnds(s)
    BY <2>7 DEF StrayPrepare, StrayEnsure, StrayTerminate, StrayEnds, Capacity!Next
  <2>8. QED
    BY <1>2, <2>2, <2>3, <2>4, <2>5, <2>6, <2>7 DEF SessionStep
<1>3. QED
  BY <1>1, <1>2 DEF FleetNext

\* The probes, the conditional puts and the conditional deletes of the capacity
\* table implement the atomic slots of CapacitySlots, for any number of sessions
\* and slots: a slot never changes hands while it is owned.
THEOREM ImplementsCapacity == FleetSpec => CapacityIsExclusive
<1>1. Init => Capacity!Init
  BY DEF Init, Capacity!Init, Slots
<1>2. TypeInv /\ [FleetNext]_fleetVars => [Capacity!Next]_capacity
  BY CapacitySteps
<1>3. QED
  BY <1>1, <1>2, TypeHolds, PTL DEF FleetSpec, CapacityIsExclusive, Capacity!Spec

-----------------------------------------------------------------------------
(* Records, invocations and instances                                      *)

\* Nobody launches or revives a host of session u.
FadesFor(u) ==
    \A h \in Hosts :
        /\ cloud[h].owner = u <=> cloud'[h].owner = u
        /\ cloud[h].owner = u /\ cloud'[h].up => cloud[h].up
        /\ cloud[h].owner = u => cloud'[h].astray = cloud[h].astray

LEMMA RecordFrame ==
    ASSUME TypeInv, NEW u \in Sessions, RecordInv(u),
           record'[u] = record[u], task'[u] = task[u], FadesFor(u)
    PROVE  RecordInv(u)'
<1>1. /\ record[u].host \in Hosts \cup {NoHost} /\ task[u].host \in Hosts \cup {NoHost}
      /\ task[u].step = "launched" => task[u].host # NoHost
  BY TypeParts, FleetAssumption DEF TypeInv, ChoiceInv, Typed, Record, Task
<1>2. SettledRecord(u)'
  BY <1>1 DEF RecordInv, SettledRecord, NoInstance, OnlyInstance, Up, Down, FadesFor
<1>3. TaskInv(u)'
  BY <1>1 DEF RecordInv, SettledRecord, TaskInv, NoInstance, OnlyInstance, Up, Down, FadesFor
<1>4. QED
  BY <1>2, <1>3 DEF RecordInv

LEMMA SessionKeepsRecord ==
    ASSUME TypeInv, NEW s \in Sessions, RecordInv(s), CreateSession(s) \/ SessionStep(s)
    PROVE  RecordInv(s)'
<1>t. Typed /\ ChoiceInv
  BY TypeParts DEF TypeInv
<1>h. /\ record[s].host \in Hosts \cup {NoHost} /\ task[s].host \in Hosts \cup {NoHost}
      /\ record[s].slot \in Slots \cup {NoSlot} /\ NoHost \notin Hosts
  BY <1>t, FleetAssumption DEF Typed, Record, Task
<1>k. /\ task[s].step \in {"probe", "taken", "reserved"} => task[s].slot \in Slots
      /\ task[s].step = "launched" => task[s].host \in Hosts
  BY <1>t DEF ChoiceInv
<1>1. CASE CreateSession(s)
  <2>1. SettledRecord(s)'
    BY <1>1, <1>t, <1>h, <1>k, SlotNumbers, CreateSessionEffect
       DEF RecordInv, SettledRecord, TaskInv, NoInstance, OnlyInstance, Up, Down, Writes,
          Does, Rests, Finished, Starting, Removing
  <2>2. TaskInv(s)'
    BY <1>1, <1>t, <1>h, <1>k, SlotNumbers, CreateSessionEffect
       DEF RecordInv, SettledRecord, TaskInv, NoInstance, OnlyInstance, Up, Down, Writes,
          Does, Rests, Finished, Starting, Removing
  <2>3. QED
    BY <2>1, <2>2 DEF RecordInv
<1>2. CASE StartProvision(s) \/ StartArchive(s) \/ StartRestore(s) \/ StartTermination(s)
  <2>1. PICK l \in {"PROVISIONING", "ARCHIVING", "RESTORING", "DELETING"} :
          /\ Writes(s, l, record[s].slot, record[s].host, record[s].retry)
          /\ l = "ARCHIVING" => record[s].life = "RUNNING"
          /\ record[s].life \notin {"ABSENT", "DELETED"}
    BY <1>2, <1>t, StartEffect
  <2>2. UNCHANGED cloud
    BY <1>2, <1>t, StartEffect
  <2>3. SettledRecord(s)'
    BY <2>1, <2>2 DEF RecordInv, SettledRecord, NoInstance, OnlyInstance, Up, Writes
  <2>4. TaskInv(s)'
    BY <1>2, <1>t, <1>h, StartEffect
       DEF RecordInv, SettledRecord, TaskInv, NoInstance, OnlyInstance, Up, Down, Writes,
          Does, Rests, Finished, Starting, Removing
  <2>5. QED
    BY <2>3, <2>4 DEF RecordInv
<1>3. CASE Prepare(s)
  <2>1. SettledRecord(s)'
    BY <1>3, <1>t, <1>h, <1>k, SlotNumbers, PrepareEffect
       DEF RecordInv, SettledRecord, TaskInv, NoInstance, OnlyInstance, Up, Down, Writes,
          Does, Rests, Finished, Starting, Removing
  <2>2. TaskInv(s)'
    BY <1>3, <1>t, <1>h, <1>k, SlotNumbers, PrepareEffect
       DEF RecordInv, SettledRecord, TaskInv, NoInstance, OnlyInstance, Up, Down, Writes,
          Does, Rests, Finished, Starting, Removing
  <2>3. QED
    BY <2>1, <2>2 DEF RecordInv
<1>4. CASE PutSlot(s)
  <2>0. task[s].slot \in Slots
    BY <1>4, <1>k DEF PutSlot
  <2>1. SettledRecord(s)'
    BY <1>4, <1>t, <1>h, <1>k, SlotNumbers, PutSlotEffect, <2>0
       DEF RecordInv, SettledRecord, TaskInv, NoInstance, OnlyInstance, Up, Down, Writes,
          Does, Rests, Finished, Starting, Removing
  <2>2. TaskInv(s)'
    BY <1>4, <1>t, <1>h, <1>k, SlotNumbers, PutSlotEffect, <2>0
       DEF RecordInv, SettledRecord, TaskInv, NoInstance, OnlyInstance, Up, Down, Writes,
          Does, Rests, Finished, Starting, Removing
  <2>3. QED
    BY <2>1, <2>2 DEF RecordInv
<1>5. CASE ReadSlot(s)
  <2>0. task[s].slot \in Slots
    BY <1>5, <1>k DEF ReadSlot
  <2>1. SettledRecord(s)'
    BY <1>5, <1>t, <1>h, <1>k, SlotNumbers, ReadSlotEffect, <2>0
       DEF RecordInv, SettledRecord, TaskInv, NoInstance, OnlyInstance, Up, Down, Writes,
          Does, Rests, Finished, Starting, Removing
  <2>2. TaskInv(s)'
    BY <1>5, <1>t, <1>h, <1>k, SlotNumbers, ReadSlotEffect, <2>0
       DEF RecordInv, SettledRecord, TaskInv, NoInstance, OnlyInstance, Up, Down, Writes,
          Does, Rests, Finished, Starting, Removing
  <2>3. QED
    BY <2>1, <2>2 DEF RecordInv
<1>6. CASE SaveSlot(s)
  <2>1. SettledRecord(s)'
    <3>1. /\ UNCHANGED cloud /\ task[s].step = "reserved"
          /\ Writes(s, record[s].life, task[s].slot, record[s].host, record[s].retry)
      BY <1>6, <1>t, SaveSlotEffect
    <3>2. record[s].slot = NoSlot /\ record[s].host = NoHost /\ task[s].slot # NoSlot
      BY <1>k, <3>1, SlotNumbers DEF RecordInv, SettledRecord, TaskInv
    <3>3. record[s].life \in Starting
      BY <3>1 DEF RecordInv, TaskInv, Starting, Removing
    <3>4. QED
      BY <3>1, <3>2, <3>3 DEF RecordInv, SettledRecord, Writes, Up, Starting
  <2>2. TaskInv(s)'
    BY <1>6, <1>t, <1>h, <1>k, SlotNumbers, SaveSlotEffect
       DEF RecordInv, SettledRecord, TaskInv, NoInstance, OnlyInstance, Up, Down, Writes,
          Does, Rests, Finished, Starting, Removing
  <2>3. QED
    BY <2>1, <2>2 DEF RecordInv
<1>7. CASE EnsureInstance(s)
  <2>1. PICK h \in Hosts :
          /\ Does(s, "launched", NoSlot, h, FALSE)
          /\ cloud'[h].owner = s /\ cloud'[h].up
          /\ \/ UNCHANGED cloud /\ OnlyInstance(s, h)
             \/ /\ NoInstance(s) /\ cloud[h].owner = NoSession
                /\ \A g \in Hosts : g # h => cloud'[g] = cloud[g]
    BY <1>7, <1>t, EnsureInstanceEffect
  <2>2. UNCHANGED record /\ record[s].life \in Starting /\ record[s].slot # NoSlot
        /\ record[s].host = NoHost
    BY <1>7, <1>t, EnsureInstanceEffect
  <2>3. OnlyInstance(s, h)'
    BY <2>1 DEF OnlyInstance, NoInstance, Up
  <2>4. SettledRecord(s)'
    BY <2>2, <2>3 DEF SettledRecord, OnlyInstance, Starting
  <2>5. TaskInv(s)'
    BY <1>h, <2>1, <2>2, <2>3 DEF TaskInv, Does, Starting, Removing
  <2>6. QED
    BY <2>4, <2>5 DEF RecordInv
<1>8. CASE SaveLaunch(s)
  <2>1. SettledRecord(s)'
    BY <1>8, <1>t, <1>h, <1>k, SlotNumbers, SaveLaunchEffect
       DEF RecordInv, SettledRecord, TaskInv, NoInstance, OnlyInstance, Up, Down, Writes,
          Does, Rests, Finished, Starting, Removing
  <2>2. TaskInv(s)'
    BY <1>8, <1>t, <1>h, <1>k, SlotNumbers, SaveLaunchEffect
       DEF RecordInv, SettledRecord, TaskInv, NoInstance, OnlyInstance, Up, Down, Writes,
          Does, Rests, Finished, Starting, Removing
  <2>3. QED
    BY <2>1, <2>2 DEF RecordInv
<1>9. CASE CompleteStart(s)
  <2>1. SettledRecord(s)'
    BY <1>9, <1>t, <1>h, <1>k, SlotNumbers, CompleteStartEffect
       DEF RecordInv, SettledRecord, TaskInv, NoInstance, OnlyInstance, Up, Down, Writes,
          Does, Rests, Finished, Starting, Removing
  <2>2. TaskInv(s)'
    BY <1>9, <1>t, <1>h, <1>k, SlotNumbers, CompleteStartEffect
       DEF RecordInv, SettledRecord, TaskInv, NoInstance, OnlyInstance, Up, Down, Writes,
          Does, Rests, Finished, Starting, Removing
  <2>3. QED
    BY <2>1, <2>2 DEF RecordInv
<1>10. CASE FailStart(s)
  <2>1. SettledRecord(s)'
    BY <1>10, <1>t, <1>h, <1>k, SlotNumbers, FailStartEffect
       DEF RecordInv, SettledRecord, TaskInv, NoInstance, OnlyInstance, Up, Down, Writes,
          Does, Rests, Finished, Starting, Removing
  <2>2. TaskInv(s)'
    BY <1>10, <1>t, <1>h, <1>k, SlotNumbers, FailStartEffect
       DEF RecordInv, SettledRecord, TaskInv, NoInstance, OnlyInstance, Up, Down, Writes,
          Does, Rests, Finished, Starting, Removing
  <2>3. QED
    BY <2>1, <2>2 DEF RecordInv
<1>11. CASE FailProvision(s)
  <2>1. SettledRecord(s)'
    BY <1>11, <1>t, <1>h, <1>k, SlotNumbers, FailProvisionEffect
       DEF RecordInv, SettledRecord, TaskInv, NoInstance, OnlyInstance, Up, Down, Writes,
          Does, Rests, Finished, Starting, Removing
  <2>2. TaskInv(s)'
    BY <1>11, <1>t, <1>h, <1>k, SlotNumbers, FailProvisionEffect
       DEF RecordInv, SettledRecord, TaskInv, NoInstance, OnlyInstance, Up, Down, Writes,
          Does, Rests, Finished, Starting, Removing
  <2>3. QED
    BY <2>1, <2>2 DEF RecordInv
<1>12. ASSUME NEW j \in Slots, ReleaseAfterFailure(s, j) PROVE RecordInv(s)'
  <2>1. UNCHANGED <<record, task>> /\ FadesFor(s)
    BY <1>12, <1>t, ReleaseAfterFailureEffect DEF FadesFor
  <2>2. QED
    BY <2>1, RecordFrame
<1>13. CASE ReleaseBeforeFailure(s)
  <2>1. SettledRecord(s)'
    BY <1>13, <1>t, <1>h, <1>k, SlotNumbers, ReleaseBeforeFailureEffect
       DEF RecordInv, SettledRecord, TaskInv, NoInstance, OnlyInstance, Up, Down, Writes,
          Does, Rests, Finished, Starting, Removing
  <2>2. TaskInv(s)'
    BY <1>13, <1>t, <1>h, <1>k, SlotNumbers, ReleaseBeforeFailureEffect
       DEF RecordInv, SettledRecord, TaskInv, NoInstance, OnlyInstance, Up, Down, Writes,
          Does, Rests, Finished, Starting, Removing
  <2>3. QED
    BY <2>1, <2>2 DEF RecordInv
<1>14. CASE FailRestore(s)
  <2>1. /\ UNCHANGED cloud /\ Finished(s)
        /\ Writes(s, "FAILED", IF task[s].release THEN NoSlot ELSE record[s].slot,
                  task[s].host, TRUE)
        /\ record[s].life = "RESTORING" /\ task[s].step \in {"failing", "released"}
    BY <1>14, <1>t, FailRestoreEffect
  <2>2. /\ task[s].release => record[s].host = NoHost /\ task[s].host = NoHost /\ NoInstance(s)
        /\ record[s].host # NoHost => task[s].host = record[s].host
        /\ task[s].host # NoHost =>
              /\ record[s].slot # NoSlot /\ cloud[task[s].host].owner = s
              /\ OnlyInstance(s, task[s].host)
    BY <2>1 DEF RecordInv, TaskInv, Starting
  <2>3. SettledRecord(s)'
    BY <2>1, <2>2 DEF RecordInv, SettledRecord, NoInstance, OnlyInstance, Up, Writes
  <2>4. TaskInv(s)'
    BY <2>1, <1>h DEF TaskInv, Writes, Finished, Does, Starting, Removing
  <2>5. QED
    BY <2>3, <2>4 DEF RecordInv
<1>15. CASE TerminateInstance(s)
  <2>1. UNCHANGED <<record, task>> /\ FadesFor(s)
    BY <1>15, <1>t, TerminateInstanceEffect DEF FadesFor
  <2>2. QED
    BY <2>1, RecordFrame
<1>16. CASE ReleaseBeforeCompletion(s)
  <2>1. SettledRecord(s)'
    BY <1>16, <1>t, <1>h, <1>k, SlotNumbers, ReleaseBeforeCompletionEffect
       DEF RecordInv, SettledRecord, TaskInv, NoInstance, OnlyInstance, Up, Down, Writes,
          Does, Rests, Finished, Starting, Removing
  <2>2. TaskInv(s)'
    BY <1>16, <1>t, <1>h, <1>k, SlotNumbers, ReleaseBeforeCompletionEffect
       DEF RecordInv, SettledRecord, TaskInv, NoInstance, OnlyInstance, Up, Down, Writes,
          Does, Rests, Finished, Starting, Removing
  <2>3. QED
    BY <2>1, <2>2 DEF RecordInv
<1>17. CASE CompleteRemoval(s)
  <2>1. SettledRecord(s)'
    BY <1>17, <1>t, <1>h, <1>k, SlotNumbers, CompleteRemovalEffect
       DEF RecordInv, SettledRecord, TaskInv, NoInstance, OnlyInstance, Up, Down, Writes,
          Does, Rests, Finished, Starting, Removing
  <2>2. TaskInv(s)'
    BY <1>17, <1>t, <1>h, <1>k, SlotNumbers, CompleteRemovalEffect
       DEF RecordInv, SettledRecord, TaskInv, NoInstance, OnlyInstance, Up, Down, Writes,
          Does, Rests, Finished, Starting, Removing
  <2>3. QED
    BY <2>1, <2>2 DEF RecordInv
<1>18. CASE FailRemoval(s) \/ Repair(s)
  <2>1. SettledRecord(s)'
    BY <1>18, <1>t, <1>h, <1>k, SlotNumbers, SettleEffect
       DEF RecordInv, SettledRecord, TaskInv, NoInstance, OnlyInstance, Up, Down, Writes,
          Does, Rests, Finished, Starting, Removing
  <2>2. TaskInv(s)'
    BY <1>18, <1>t, <1>h, <1>k, SlotNumbers, SettleEffect
       DEF RecordInv, SettledRecord, TaskInv, NoInstance, OnlyInstance, Up, Down, Writes,
          Does, Rests, Finished, Starting, Removing
  <2>3. QED
    BY <2>1, <2>2 DEF RecordInv
<1>19. CASE Crash(s)
  <2>1. SettledRecord(s)'
    BY <1>19, <1>t, <1>h, <1>k, SlotNumbers, CrashEffect
       DEF RecordInv, SettledRecord, TaskInv, NoInstance, OnlyInstance, Up, Down, Writes,
          Does, Rests, Finished, Starting, Removing
  <2>2. TaskInv(s)'
    BY <1>19, <1>t, <1>h, <1>k, SlotNumbers, CrashEffect
       DEF RecordInv, SettledRecord, TaskInv, NoInstance, OnlyInstance, Up, Down, Writes,
          Does, Rests, Finished, Starting, Removing
  <2>3. QED
    BY <2>1, <2>2 DEF RecordInv
<1>20. CASE StrayEnsure(s)
  <2>1. /\ UNCHANGED <<record, task>> /\ record[s].life = "FAILED" /\ record[s].host = NoHost
        /\ NoInstance(s)
    BY <1>20, <1>t, StrayEnsureEffect
  <2>2. PICK h \in Hosts : /\ cloud'[h].owner = s /\ cloud'[h].astray
                          /\ \A g \in Hosts : g # h => cloud'[g] = cloud[g]
    BY <1>20, <1>t, StrayEnsureEffect
  <2>3. \A g \in Hosts : Up(s, g)' => g = h
    BY <2>1, <2>2 DEF NoInstance, Up
  <2>4. SettledRecord(s)'
    BY <2>1, <2>2, <2>3 DEF SettledRecord
  <2>5. TaskInv(s)'
    BY <2>1 DEF RecordInv, TaskInv, Starting, Removing
  <2>6. QED
    BY <2>4, <2>5 DEF RecordInv
<1>21. CASE StrayPrepare(s) \/ StrayTerminate(s) \/ StrayRelease(s) \/ StrayEnds(s)
  <2>1. UNCHANGED <<record, task>> /\ FadesFor(s)
    BY <1>21, <1>t, StrayPrepareEffect, StrayTerminateEffect, StrayReleaseEffect,
       StrayEndsEffect DEF FadesFor
  <2>2. QED
    BY <2>1, RecordFrame
<1>22. QED
  BY <1>1, <1>2, <1>3, <1>4, <1>5, <1>6, <1>7, <1>8, <1>9, <1>10, <1>11, <1>12, <1>13,
     <1>14, <1>15, <1>16, <1>17, <1>18, <1>19, <1>20, <1>21 DEF SessionStep

LEMMA SessionFades ==
    ASSUME NEW s \in Sessions, NEW u \in Sessions, u # s, CloudMoves(s)
    PROVE  FadesFor(u)
BY FleetAssumption DEF CloudMoves, FadesFor

LEMMA OrphanFades ==
    ASSUME NEW u \in Sessions, CloudFades
    PROVE  FadesFor(u)
BY DEF CloudFades, FadesFor

LEMMA RecordsHold ==
    ASSUME TypeInv, \A u \in Sessions : RecordInv(u), [FleetNext]_fleetVars
    PROVE  \A u \in Sessions : RecordInv(u)'
<1>1. CASE UNCHANGED fleetVars \/ OrphanStep
  <2>1. ASSUME NEW u \in Sessions PROVE FadesFor(u) /\ UNCHANGED <<record, task>>
    BY <1>1, OrphanFrame, OrphanFades DEF fleetVars, FadesFor
  <2>2. QED
    BY <2>1, RecordFrame
<1>2. ASSUME NEW s \in Sessions, CreateSession(s) \/ SessionStep(s), NEW u \in Sessions
      PROVE  RecordInv(u)'
  <2>1. CASE u = s
    BY <1>2, <2>1, SessionKeepsRecord
  <2>2. CASE u # s
    <3>1. record'[u] = record[u] /\ task'[u] = task[u] /\ CloudMoves(s)
      BY <1>2, <2>2, SessionFrame DEF Alone
    <3>2. QED
      BY <2>2, <3>1, SessionFades, RecordFrame
  <2>3. QED
    BY <2>1, <2>2
<1>3. QED
  BY <1>1, <1>2 DEF FleetNext

-----------------------------------------------------------------------------
(* Capacity                                                                *)

LEMMA CapacityFrame ==
    ASSUME TypeInv, NEW u \in Sessions, RecordInv(u), CapacityInv(u), FadesFor(u),
           record'[u] = record[u], task'[u] = task[u], u \in robbed => u \in robbed',
           \A k \in Slots : capacity[k] = u => capacity'[k] = u
    PROVE  CapacityInv(u)'
<1>1. /\ record[u].host \in Hosts \cup {NoHost}
      /\ task[u].step = "reserved" => task[u].slot \in Slots
  BY TypeParts DEF TypeInv, ChoiceInv, Typed, Record
<1>2. Owns(u) => Owns(u)'
  BY DEF Owns
<1>3. NoInstance(u) => NoInstance(u)'
  BY DEF NoInstance, Up, FadesFor
<1>4. record[u].host # NoHost => (Down(record[u].host) => Down(record[u].host)')
  BY <1>1 DEF RecordInv, SettledRecord, FadesFor, Down
<1>5. record[u].life \in Starting /\ task[u].step = "failing" /\ task[u].host # NoHost
        => (Down(task[u].host) => Down(task[u].host)')
  <2>1. task[u].host \in Hosts \cup {NoHost}
    BY TypeParts DEF TypeInv, Typed, Task
  <2>2. QED
    BY <2>1 DEF RecordInv, TaskInv, FadesFor, Down
<1>6. QED
  BY <1>1, <1>2, <1>3, <1>4, <1>5 DEF CapacityInv, Down

LEMMA SessionKeepsCapacity ==
    ASSUME TypeInv, NEW s \in Sessions, RecordInv(s), CapacityInv(s),
           CreateSession(s) \/ SessionStep(s)
    PROVE  CapacityInv(s)'
<1>t. Typed /\ ChoiceInv
  BY TypeParts DEF TypeInv
<1>h. /\ record[s].host \in Hosts \cup {NoHost} /\ task[s].host \in Hosts \cup {NoHost}
      /\ record[s].slot \in Slots \cup {NoSlot} /\ NoHost \notin Hosts
  BY <1>t, FleetAssumption DEF Typed, Record, Task
<1>k. /\ task[s].step \in {"probe", "taken", "reserved"} => task[s].slot \in Slots
      /\ task[s].step = "launched" => task[s].host \in Hosts
  BY <1>t DEF ChoiceInv
<1>1. CASE CreateSession(s)
  BY <1>1, <1>t, <1>h, <1>k, SlotNumbers, CreateSessionEffect
     DEF CapacityInv, Owns, RecordInv, SettledRecord, TaskInv, NoInstance,
        OnlyInstance, Up, Down, Writes, Does, Rests, Finished, Starting, Removing
<1>2. CASE StartProvision(s) \/ StartArchive(s) \/ StartRestore(s) \/ StartTermination(s)
  BY <1>2, <1>t, <1>h, <1>k, SlotNumbers, StartEffect
     DEF CapacityInv, Owns, RecordInv, SettledRecord, TaskInv, NoInstance,
        OnlyInstance, Up, Down, Writes, Does, Rests, Finished, Starting, Removing
<1>3. CASE Prepare(s)
  BY <1>3, <1>t, <1>h, <1>k, SlotNumbers, PrepareEffect
     DEF CapacityInv, Owns, RecordInv, SettledRecord, TaskInv, NoInstance,
        OnlyInstance, Up, Down, Writes, Does, Rests, Finished, Starting, Removing
<1>4. CASE PutSlot(s)
  <2>1. task[s].slot \in Slots /\ capacity \in [Slots -> Owner]
    BY <1>4, <1>k, <1>t DEF PutSlot, Typed
  <2>2. /\ UNCHANGED <<record, robbed, cloud>> /\ task[s].step = "probe"
        /\ \/ task'[s].step = "reserved" /\ task'[s].slot = task[s].slot
              /\ capacity'[task[s].slot] = s
           \/ task'[s].step = "taken"
    BY <1>4, <1>t, <2>1, PutSlotEffect DEF Does
  <2>3. record[s].slot = NoSlot /\ record[s].host = NoHost /\ record[s].life # "RUNNING"
    BY <2>2 DEF RecordInv, SettledRecord, TaskInv
  <2>4. QED
    BY <2>2, <2>3 DEF CapacityInv
<1>5. CASE ReadSlot(s)
  <2>1. task[s].slot \in Slots
    BY <1>5, <1>k DEF ReadSlot
  <2>2. capacity \in [Slots -> Owner]
    BY <1>t DEF Typed
  <2>3. QED
    BY <1>5, <1>t, <1>h, <2>1, <2>2, SlotNumbers, ReadSlotEffect
       DEF CapacityInv, Owns, RecordInv, SettledRecord, TaskInv, NoInstance,
          OnlyInstance, Up, Down, Writes, Does, Rests, Finished, Starting, Removing
<1>6. CASE SaveSlot(s)
  BY <1>6, <1>t, <1>h, <1>k, SlotNumbers, SaveSlotEffect
     DEF CapacityInv, Owns, RecordInv, SettledRecord, TaskInv, NoInstance,
        OnlyInstance, Up, Down, Writes, Does, Rests, Finished, Starting, Removing
<1>7. CASE EnsureInstance(s)
  BY <1>7, <1>t, <1>h, <1>k, SlotNumbers, EnsureInstanceEffect
     DEF CapacityInv, Owns, RecordInv, SettledRecord, TaskInv, NoInstance,
        OnlyInstance, Up, Down, Writes, Does, Rests, Finished, Starting, Removing
<1>8. CASE SaveLaunch(s)
  BY <1>8, <1>t, <1>h, <1>k, SlotNumbers, SaveLaunchEffect
     DEF CapacityInv, Owns, RecordInv, SettledRecord, TaskInv, NoInstance,
        OnlyInstance, Up, Down, Writes, Does, Rests, Finished, Starting, Removing
<1>9. CASE CompleteStart(s)
  BY <1>9, <1>t, <1>h, <1>k, SlotNumbers, CompleteStartEffect
     DEF CapacityInv, Owns, RecordInv, SettledRecord, TaskInv, NoInstance,
        OnlyInstance, Up, Down, Writes, Does, Rests, Finished, Starting, Removing
<1>10. CASE FailStart(s)
  BY <1>10, <1>t, <1>h, <1>k, SlotNumbers, FailStartEffect
     DEF CapacityInv, Owns, RecordInv, SettledRecord, TaskInv, NoInstance,
        OnlyInstance, Up, Down, Writes, Does, Rests, Finished, Starting, Removing
<1>11. CASE FailProvision(s)
  BY <1>11, <1>t, <1>h, <1>k, SlotNumbers, FailProvisionEffect
     DEF CapacityInv, Owns, RecordInv, SettledRecord, TaskInv, NoInstance,
        OnlyInstance, Up, Down, Writes, Does, Rests, Finished, Starting, Removing
<1>12. ASSUME NEW j \in Slots, ReleaseAfterFailure(s, j) PROVE CapacityInv(s)'
  <2>1. /\ UNCHANGED <<record, task, cloud>>
        /\ capacity' = Released(s, j) \/ capacity' = capacity
        /\ s \in robbed => s \in robbed'
        /\ capacity' # capacity /\ Counts(s, j) => s \in robbed'
    BY <1>12, <1>t, ReleaseAfterFailureEffect
  <2>2. CASE capacity' = capacity \/ Counts(s, j)
    BY <2>1, <2>2 DEF CapacityInv, Owns, NoInstance, Up, Down
  <2>3. CASE ~Counts(s, j)
    <3>1. \A k \in Slots : k # j => Released(s, j)[k] = capacity[k]
      BY <1>t DEF Released, Typed
    <3>2. Owns(s) => Owns(s)'
      BY <2>1, <2>3, <3>1 DEF Owns, Counts
    <3>3. task[s].step = "reserved" /\ capacity[task[s].slot] = s => capacity'[task[s].slot] = s
      BY <1>k, <2>1, <2>3, <3>1 DEF Counts
    <3>4. QED
      BY <2>1, <3>2, <3>3 DEF CapacityInv, NoInstance, Up, Down
  <2>4. QED
    BY <2>2, <2>3
<1>13. CASE ReleaseBeforeFailure(s)
  BY <1>13, <1>t, <1>h, <1>k, SlotNumbers, ReleaseBeforeFailureEffect
     DEF CapacityInv, Owns, RecordInv, SettledRecord, TaskInv, NoInstance,
        OnlyInstance, Up, Down, Writes, Does, Rests, Finished, Starting, Removing
<1>14. CASE FailRestore(s)
  BY <1>14, <1>t, <1>h, <1>k, SlotNumbers, FailRestoreEffect
     DEF CapacityInv, Owns, RecordInv, SettledRecord, TaskInv, NoInstance,
        OnlyInstance, Up, Down, Writes, Does, Rests, Finished, Starting, Removing
<1>15. CASE TerminateInstance(s)
  BY <1>15, <1>t, <1>h, <1>k, SlotNumbers, TerminateInstanceEffect
     DEF CapacityInv, Owns, RecordInv, SettledRecord, TaskInv, NoInstance,
        OnlyInstance, Up, Down, Writes, Does, Rests, Finished, Starting, Removing
<1>16. CASE ReleaseBeforeCompletion(s)
  BY <1>16, <1>t, <1>h, <1>k, SlotNumbers, ReleaseBeforeCompletionEffect
     DEF CapacityInv, Owns, RecordInv, SettledRecord, TaskInv, NoInstance,
        OnlyInstance, Up, Down, Writes, Does, Rests, Finished, Starting, Removing
<1>17. CASE CompleteRemoval(s)
  BY <1>17, <1>t, <1>h, <1>k, SlotNumbers, CompleteRemovalEffect
     DEF CapacityInv, Owns, RecordInv, SettledRecord, TaskInv, NoInstance,
        OnlyInstance, Up, Down, Writes, Does, Rests, Finished, Starting, Removing
<1>18. CASE FailRemoval(s) \/ Repair(s)
  BY <1>18, <1>t, <1>h, <1>k, SlotNumbers, SettleEffect
     DEF CapacityInv, Owns, RecordInv, SettledRecord, TaskInv, NoInstance,
        OnlyInstance, Up, Down, Writes, Does, Rests, Finished, Starting, Removing
<1>19. CASE Crash(s)
  BY <1>19, <1>t, <1>h, <1>k, SlotNumbers, CrashEffect
     DEF CapacityInv, Owns, RecordInv, SettledRecord, TaskInv, NoInstance,
        OnlyInstance, Up, Down, Writes, Does, Rests, Finished, Starting, Removing
<1>20. CASE \/ StrayPrepare(s) \/ StrayEnsure(s) \/ StrayTerminate(s) \/ StrayRelease(s)
             \/ StrayEnds(s)
  <2>1. UNCHANGED <<record, task, robbed>>
    BY <1>20, <1>t, StrayPrepareEffect, StrayEnsureEffect, StrayTerminateEffect,
       StrayReleaseEffect, StrayEndsEffect
  <2>2. CASE StrayEnds(s)
    BY <2>1, <2>2, <1>t, StrayEndsEffect DEF CapacityInv, Owns, NoInstance, Up, Down
  <2>3. CASE ~StrayEnds(s)
    <3>1. record[s].life = "FAILED" /\ task[s].step = "idle"
      BY <1>20, <1>t, <2>3, StrayPrepareEffect, StrayEnsureEffect, StrayTerminateEffect,
         StrayReleaseEffect DEF RecordInv, TaskInv, Starting, Removing
    <3>2. record[s].host # NoHost /\ s \notin robbed
            => Owns(s)' \/ Down(record[s].host)'
      <4>1. CASE StrayPrepare(s)
        BY <1>h, <1>t, <4>1, StrayPrepareEffect DEF CapacityInv, Owns, Down, Typed
      <4>2. CASE StrayEnsure(s) \/ StrayTerminate(s) \/ StrayRelease(s)
        BY <1>h, <1>t, <4>2, StrayEnsureEffect, StrayTerminateEffect, StrayReleaseEffect DEF Down
      <4>3. QED
        BY <1>20, <2>3, <4>1, <4>2
    <3>3. QED
      BY <2>1, <3>1, <3>2 DEF CapacityInv, Starting, Owns, Down
  <2>4. QED
    BY <2>2, <2>3
<1>21. QED
  BY <1>1, <1>2, <1>3, <1>4, <1>5, <1>6, <1>7, <1>8, <1>9, <1>10, <1>11, <1>12, <1>13,
     <1>14, <1>15, <1>16, <1>17, <1>18, <1>19, <1>20 DEF SessionStep

LEMMA CapacityHolds ==
    ASSUME TypeInv, \A u \in Sessions : RecordInv(u),
           \A u \in Sessions : CapacityInv(u), [FleetNext]_fleetVars
    PROVE  \A u \in Sessions : CapacityInv(u)'
<1>1. CASE UNCHANGED fleetVars \/ OrphanStep
  <2>1. ASSUME NEW u \in Sessions
        PROVE  FadesFor(u) /\ UNCHANGED <<record, task, lateVars, capacity>>
    BY <1>1, OrphanFrame, OrphanFades DEF fleetVars, FadesFor
  <2>2. QED
    BY <2>1, CapacityFrame
<1>2. ASSUME NEW s \in Sessions, CreateSession(s) \/ SessionStep(s), NEW u \in Sessions
      PROVE  CapacityInv(u)'
  <2>1. CASE u = s
    BY <1>2, <2>1, SessionKeepsCapacity
  <2>2. CASE u # s
    <3>1. record'[u] = record[u] /\ task'[u] = task[u] /\ (u \in robbed => u \in robbed')
          /\ CloudMoves(s) /\ CapacityMoves(s)
      BY <1>2, <2>2, SessionFrame DEF Alone
    <3>2. \A k \in Slots : capacity[k] = u => capacity'[k] = u
      BY <2>2, <3>1, FleetAssumption DEF CapacityMoves
    <3>3. QED
      BY <2>2, <3>1, <3>2, SessionFades, CapacityFrame
  <2>3. QED
    BY <2>1, <2>2
<1>3. QED
  BY <1>1, <1>2 DEF FleetNext

-----------------------------------------------------------------------------
(* Orphans                                                                 *)

LEMMA FadedIsLost ==
    ASSUME NEW h \in Hosts, cloud[h].owner \in Sessions, FadesFor(cloud[h].owner),
           record'[cloud[h].owner] = record[cloud[h].owner]
    PROVE  /\ cloud'[h].owner = cloud[h].owner
           /\ Lost(h) => Lost(h)'
           /\ record[cloud[h].owner].host = h => record'[cloud'[h].owner].host = h
BY DEF Lost, Down, FadesFor

\* A host stays lost, and one that is referred to stays so until it is down.
LEMMA LostIsForever ==
    ASSUME TypeInv, NEW s \in Sessions, RecordInv(s), CreateSession(s) \/ SessionStep(s),
           NEW h \in Hosts, cloud[h].owner \in Sessions, ~cloud[h].astray
    PROVE  /\ cloud'[h].owner = cloud[h].owner
           /\ Lost(h) => Lost(h)'
           /\ record[cloud[h].owner].host = h =>
                 Lost(h)' \/ record'[cloud'[h].owner].host = h
<1>t. Typed /\ ChoiceInv /\ NoHost \notin Hosts
  BY TypeParts, FleetAssumption DEF TypeInv
<1>f. Alone(s) /\ CloudMoves(s)
  BY SessionFrame
<1>o. cloud'[h].owner = cloud[h].owner /\ (~cloud[h].up => ~cloud'[h].up)
  BY <1>f, FleetAssumption DEF CloudMoves
<1>u. CASE cloud[h].owner # s
  BY <1>f, <1>u, SessionFades, FadedIsLost DEF Alone
<1>s. CASE cloud[h].owner = s
  <2>i. /\ record[s].host = NoHost /\ record[s].slot = NoSlot /\ record[s].life # "DELETED"
             => ~cloud[h].up
    BY <1>s DEF RecordInv, SettledRecord, NoInstance, Up
  <2>x. ASSUME record'[s].host = record[s].host,
               record[s].host = NoHost /\ record[s].life \in {"DELETED", "DELETING", "FAILED"}
                  => record'[s].life \in {"DELETED", "DELETING", "FAILED"} \/ ~cloud[h].up
        PROVE  /\ Lost(h) => Lost(h)'
               /\ record[s].host = h => Lost(h)' \/ record'[s].host = h
    BY <1>o, <1>s, <2>x DEF Lost, Down
  <2>y. ~cloud[h].up => Lost(h)'
    BY <1>o DEF Lost, Down
  <2>1. CASE Prepare(s) \/ PutSlot(s) \/ ReadSlot(s) \/ EnsureInstance(s)
             \/ FailStart(s) \/ (\E j \in Slots : ReleaseAfterFailure(s, j))
             \/ ReleaseBeforeFailure(s) \/ TerminateInstance(s)
             \/ ReleaseBeforeCompletion(s) \/ Crash(s) \/ StrayPrepare(s) \/ StrayEnsure(s)
             \/ StrayTerminate(s) \/ StrayRelease(s) \/ StrayEnds(s)
    <3>1. UNCHANGED record
      BY <2>1 DEF Prepare, PutSlot, ReadSlot, EnsureInstance, FailStart,
         ReleaseAfterFailure, ReleaseBeforeFailure, TerminateInstance,
         ReleaseBeforeCompletion, Crash, StrayPrepare, StrayEnsure, StrayTerminate,
         StrayRelease, StrayEnds
    <3>2. QED
      BY <3>1, <2>x, <1>o, <1>s
  <2>2. CASE CreateSession(s)
    BY <2>2, <1>t, <1>o, <1>s, <2>x, <2>y, CreateSessionEffect
       DEF RecordInv, SettledRecord, TaskInv, Writes, Starting, Removing, Lost, Down
  <2>3. CASE StartProvision(s) \/ StartArchive(s) \/ StartRestore(s) \/ StartTermination(s)
    <3>1. PICK l \in {"PROVISIONING", "ARCHIVING", "RESTORING", "DELETING"} :
            /\ Writes(s, l, record[s].slot, record[s].host, record[s].retry)
            /\ l = "PROVISIONING" =>
                  \/ record[s].life = "NEW"
                  \/ /\ record[s].life = "FAILED"
                     /\ record[s].slot = NoSlot /\ record[s].host = NoHost
            /\ l = "ARCHIVING" => record[s].life = "RUNNING"
            /\ l = "RESTORING" =>
                  \/ record[s].life = "ARCHIVED"
                  \/ record[s].life = "FAILED" /\ record[s].retry /\ record[s].host # NoHost
      BY <2>3, <1>t, StartEffect
    <3>2. QED
      BY <3>1, <2>i, <2>x, <1>o, <1>s DEF Writes
  <2>4. CASE SaveSlot(s)
    BY <2>4, <1>t, <1>o, <1>s, <2>x, <2>y, SaveSlotEffect
       DEF RecordInv, SettledRecord, TaskInv, Writes, Starting, Removing, Lost, Down
  <2>5. CASE SaveLaunch(s)
    BY <2>5, <1>t, <1>o, <1>s, <2>x, <2>y, SaveLaunchEffect
       DEF RecordInv, SettledRecord, TaskInv, Writes, Starting, Removing, Lost, Down
  <2>6. CASE CompleteStart(s)
    BY <2>6, <1>t, <1>o, <1>s, <2>x, <2>y, CompleteStartEffect
       DEF RecordInv, SettledRecord, TaskInv, Writes, Starting, Removing, Lost, Down
  <2>7. CASE FailProvision(s)
    BY <2>7, <1>t, <1>o, <1>s, <2>x, <2>y, FailProvisionEffect
       DEF RecordInv, SettledRecord, TaskInv, Writes, Starting, Removing, Lost, Down
  <2>8. CASE FailRestore(s)
    BY <2>8, <1>t, <1>o, <1>s, <2>x, <2>y, FailRestoreEffect
       DEF RecordInv, SettledRecord, TaskInv, Writes, Starting, Removing, Lost, Down
  <2>9. CASE CompleteRemoval(s)
    BY <2>9, <1>t, <1>o, <1>s, <2>x, <2>y, CompleteRemovalEffect
       DEF RecordInv, SettledRecord, TaskInv, Writes, Starting, Removing, Lost, Down
  <2>10. CASE FailRemoval(s) \/ Repair(s)
    BY <2>10, <1>t, <1>o, <1>s, <2>x, <2>y, SettleEffect
       DEF RecordInv, SettledRecord, TaskInv, Writes, Starting, Removing, Lost, Down
  <2>11. QED
    BY <1>o, <1>s, <2>1, <2>2, <2>3, <2>4, <2>5, <2>6, <2>7, <2>8, <2>9, <2>10 DEF
       SessionStep
<1>q. QED
  BY <1>u, <1>s

LEMMA OrphansHold ==
    ASSUME TypeInv, \A u \in Sessions : RecordInv(u), OrphanInv, [FleetNext]_fleetVars
    PROVE  OrphanInv'
<1>t. Typed /\ NoHost \notin Hosts
  BY TypeParts, FleetAssumption DEF TypeInv
<1>f. ASSUME CloudFades, UNCHANGED record, NEW h \in Hosts, cloud[h].owner \in Sessions
      PROVE  /\ cloud'[h].owner = cloud[h].owner /\ cloud'[h].astray = cloud[h].astray
             /\ Lost(h) => Lost(h)'
             /\ record[cloud[h].owner].host = h => record'[cloud'[h].owner].host = h
  BY <1>f, OrphanFades, FadedIsLost DEF CloudFades
<1>w. ASSUME CloudFades, UNCHANGED record,
             \A h \in Hosts : finding'[h].waited => finding[h].waited
      PROVE  \A h \in Hosts : finding'[h].waited =>
                /\ cloud'[h].owner \in Sessions
                /\ ~cloud'[h].astray => Lost(h)' \/ record'[cloud'[h].owner].host = h
  BY <1>f, <1>w DEF OrphanInv
<1>r. ASSUME CloudFades, UNCHANGED record, UNCHANGED operator
      PROVE  operator' # AtRest /\ operator'.listed /\ ~cloud'[operator'.host].astray
                /\ StillUnreferenced' => Lost(operator.host)'
  BY <1>f, <1>r DEF OrphanInv, TypeInv, ChoiceInv, StillUnreferenced
<1>c. UNCHANGED cloud => CloudFades
  BY DEF CloudFades
<1>1. ASSUME NEW s \in Sessions, CreateSession(s) \/ SessionStep(s)
      PROVE  OrphanInv'
  <2>1. UNCHANGED <<finding, operator>>
    BY <1>1, SessionFrame DEF orphanVars
  <2>2. ASSUME NEW h \in Hosts, cloud[h].owner \in Sessions
        PROVE  cloud'[h].owner = cloud[h].owner /\ cloud'[h].astray = cloud[h].astray
    BY <1>1, <2>2, SessionFrame, FleetAssumption DEF CloudMoves
  <2>3. \A h \in Hosts : finding[h].waited =>
           /\ cloud'[h].owner \in Sessions
           /\ ~cloud'[h].astray => Lost(h)' \/ record'[cloud'[h].owner].host = h
    BY <1>1, <2>2, LostIsForever DEF OrphanInv
  <2>4. ASSUME NEW h, h = operator.host, operator # AtRest, operator.listed,
               ~cloud'[h].astray, StillUnreferenced
        PROVE  Lost(h)'
    BY <1>1, <2>2, <2>4, LostIsForever DEF OrphanInv, TypeInv, ChoiceInv
  <2>5. QED
    BY <2>1, <2>3, <2>4 DEF OrphanInv, StillUnreferenced, Lost
<1>2. CASE UNCHANGED fleetVars
  BY <1>2 DEF fleetVars, OrphanInv, Lost, Down, StillUnreferenced
<1>3. ASSUME NEW s \in Sessions, Scan(s) PROVE OrphanInv'
  BY <1>3, <1>c, <1>w, <1>r, ScanEffect DEF OrphanInv, Lost, Down, StillUnreferenced
<1>4. ASSUME NEW h \in Hosts, QuarantineOrphan(h) PROVE OrphanInv'
  BY <1>4, <1>c, <1>w, <1>r, QuarantineEffect DEF OrphanInv, Lost, Down, StillUnreferenced
<1>5. ASSUME NEW h \in Hosts, Wait(h) PROVE OrphanInv'
  <2>1. /\ UNCHANGED <<record, cloud, operator>> /\ cloud[h].owner \in Sessions
        /\ task[cloud[h].owner].step = "idle"
        /\ \A g \in Hosts : g # h => finding'[g] = finding[g]
    BY <1>5, WaitEffect
  <2> DEFINE s == cloud[h].owner
  <2>2. RecordInv(s) /\ record[s].life \in Lives
    BY <1>t, <2>1 DEF Typed, Record
  <2>3. ~cloud[h].astray => Lost(h) \/ record[s].host = h
    <3>1. record[s].life \notin {"PROVISIONING", "RESTORING", "ARCHIVING", "DELETING"}
      BY <2>1, <2>2 DEF RecordInv, TaskInv, Starting, Removing
    <3>2. CASE record[s].host = NoHost
      BY <2>2, <3>1, <3>2 DEF RecordInv, SettledRecord, Lost, Down, Lives, NoInstance, Up
    <3>3. CASE record[s].host # NoHost
      BY <2>2, <3>3 DEF RecordInv, SettledRecord, Lost, Down, OnlyInstance, Up
    <3>4. QED
      BY <3>2, <3>3
  <2>4. \A g \in Hosts : finding'[g].waited =>
           /\ cloud[g].owner \in Sessions
           /\ ~cloud[g].astray => Lost(g) \/ record[cloud[g].owner].host = g
    BY <2>1, <2>3 DEF OrphanInv
  <2>5. QED
    BY <2>1, <2>4 DEF OrphanInv, Lost, Down, StillUnreferenced
<1>6. ASSUME NEW h \in Hosts, Revalidate(h) PROVE OrphanInv'
  <2>1. /\ UNCHANGED <<record, cloud, finding>> /\ cloud[h].owner \in Sessions
        /\ finding[h].waited /\ operator'.host = h
        /\ operator'.listed => operator'.spared = record[cloud[h].owner].host
    BY <1>6, RevalidateEffect
  <2>2. operator'.listed /\ h # operator'.spared /\ ~cloud[h].astray => Lost(h)
    BY <1>t, <2>1 DEF OrphanInv
  <2>3. QED
    BY <2>1, <2>2 DEF OrphanInv, Lost, Down, StillUnreferenced
<1>7. CASE CleanupOrphan
  BY <1>7, <1>w, CleanupEffect DEF OrphanInv
<1>8. QED
  BY <1>1, <1>2, <1>3, <1>4, <1>5, <1>6, <1>7 DEF FleetNext, OrphanStep

-----------------------------------------------------------------------------
(* The theorems                                                            *)

LEMMA FleetInit == Init => FleetInv
<1> SUFFICES ASSUME Init PROVE FleetInv
  OBVIOUS
<1>1. ASSUME NEW s \in Sessions PROVE RecordInv(s)
  BY <1>1, FleetAssumption
     DEF Init, RecordInv, SettledRecord, TaskInv, NoInstance, OnlyInstance, Up, Idle,
        Starting, Removing, NeverLaunched
<1>2. OrphanInv
  BY DEF Init, OrphanInv, AtRest
<1>3. QED
  BY <1>1, <1>2, TypeInit DEF FleetInv

LEMMA FleetHolds == FleetSpec => []FleetInv
<1>1. FleetInv /\ [FleetNext]_fleetVars => FleetInv'
  BY TypeStep, RecordsHold, OrphansHold DEF FleetInv
<1>2. QED
  BY <1>1, FleetInit, PTL DEF FleetSpec

\* An orphan's cleanup never ends a host that a session refers to, if the last
\* look had the session on its page and a workflow launched the host: the age gate
\* has outlasted every workflow that could still refer to it, and the record is
\* read after it.
THEOREM CleanupIsSafe == FleetSpec => CleanupSparesListed
<1>1. ASSUME FleetInv, CleanupOrphan, operator.listed, ~cloud[operator.host].astray
      PROVE  Spares
  <2> SUFFICES ASSUME NEW s \in Sessions, record[s].host # NoHost
               PROVE  cloud'[record[s].host].up = cloud[record[s].host].up
    BY DEF Spares
  <2> DEFINE x == operator.host
  <2>1. /\ x \in Hosts /\ cloud[x].owner \in Sessions /\ operator # AtRest
        /\ ~StillUnreferenced => UNCHANGED cloud
        /\ CloudFades
        /\ \A h \in Hosts : h # x => cloud'[h] = cloud[h]
    BY <1>1, CleanupEffect DEF FleetInv
  <2>2. record[s].host \in Hosts /\ cloud[record[s].host].owner = s
    BY <1>1, TypeParts DEF FleetInv, TypeInv, Typed, Record, RecordInv, SettledRecord
  <2>3. CASE record[s].host = x /\ StillUnreferenced
    <3>1. Lost(x)
      BY <1>1, <2>1, <2>3 DEF FleetInv, OrphanInv
    <3>2. ~cloud[x].up
      BY <1>1, <2>2, <2>3, <3>1 DEF Lost, Down
    <3>3. cloud \in [Hosts -> Instance] /\ cloud' \in [Hosts -> Instance]
      BY <1>1, CleanupEffect, TypeParts DEF FleetInv, TypeInv, Typed
    <3>4. ~cloud'[x].up
      BY <2>1, <3>2 DEF CloudFades
    <3>5. QED
      BY <2>1, <2>3, <3>2, <3>3, <3>4 DEF Instance
  <2>4. CASE record[s].host # x \/ ~StillUnreferenced
    BY <2>1, <2>2, <2>4
  <2>5. QED
    BY <2>3, <2>4
<1>2. FleetInv /\ [FleetNext]_fleetVars =>
         [CleanupOrphan /\ operator.listed /\ ~cloud[operator.host].astray => Spares]_fleetVars
  BY <1>1
<1>3. QED
  BY <1>2, FleetHolds, PTL DEF FleetSpec, CleanupSparesListed

LEMMA SlotsHold == FleetSpec => []SlotInv
<1>1. Init => SlotInv
  <2> SUFFICES ASSUME Init PROVE SlotInv
    OBVIOUS
  <2>1. ASSUME NEW s \in Sessions PROVE CapacityInv(s)
    BY <2>1 DEF Init, CapacityInv, Idle, Starting
  <2>2. QED
    BY <2>1, FleetInit DEF SlotInv
<1>2. SlotInv /\ [FleetNext]_fleetVars => SlotInv'
  BY TypeStep, RecordsHold, OrphansHold, CapacityHolds DEF SlotInv, FleetInv
<1>3. QED
  BY <1>1, <1>2, PTL DEF FleetSpec

\* Every host that a session refers to, or that its start has launched, has a slot
\* behind it, whatever invocation dies at whatever point, as long as no late release
\* has taken it.
THEOREM LiveHostsCovered == FleetSpec => []LiveHostsAreCovered
<1>1. ASSUME SlotInv PROVE LiveHostsAreCovered
  <2> SUFFICES ASSUME NEW h \in Hosts, NEW s \in Sessions, Up(s, h), s \notin robbed,
                      record[s].host = h \/ (record[s].life \in Starting /\ ~cloud[h].astray)
               PROVE  \E k \in Slots : capacity[k] = s
    BY DEF LiveHostsAreCovered, Up
  <2>1. RecordInv(s) /\ CapacityInv(s) /\ NoHost \notin Hosts
    BY <1>1, FleetAssumption DEF SlotInv, FleetInv
  <2>2. Owns(s)
    <3>1. CASE record[s].host = h
      BY <2>1, <3>1 DEF CapacityInv, Down, Up
    <3>2. CASE record[s].life \in Starting /\ ~cloud[h].astray
      <4>1. record[s].slot # NoSlot
        BY <2>1, <3>2 DEF RecordInv, SettledRecord, Starting
      <4>2. record[s].host # NoHost => record[s].host = h
        BY <2>1 DEF RecordInv, SettledRecord, OnlyInstance
      <4>3. QED
        BY <2>1, <3>2, <4>1, <4>2 DEF CapacityInv, Down, Up, NoInstance
    <3>3. QED
      BY <3>1, <3>2
  <2>3. QED
    BY <2>2 DEF Owns
<1>2. QED
  BY <1>1, SlotsHold, PTL

\* A running session owns the slot its record names, unless a late release of an
\* earlier failure has taken it.
THEOREM RunningOwnsItsSlot == FleetSpec => []RunningOwnsSlot
<1>1. ASSUME SlotInv PROVE RunningOwnsSlot
  BY <1>1, SlotNumbers DEF SlotInv, CapacityInv, Owns, RunningOwnsSlot
<1>2. QED
  BY <1>1, SlotsHold, PTL

=============================================================================
