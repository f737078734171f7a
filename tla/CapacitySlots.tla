---------------------------- MODULE CapacitySlots ----------------------------
(***************************************************************************)
(* What the platform promises about capacity: a fixed number of slots,     *)
(* each owned by at most one session, taken by a session that finds one    *)
(* free and given back by its owner only.  Every operation is atomic, as   *)
(* it is in the in-memory adapter, which this module is written from; the  *)
(* DynamoDB adapter probes one slot after the other (module Fleet).        *)
(***************************************************************************)
EXTENDS Naturals

CONSTANTS
    Sessions,           \* session identifiers
    NoSession,          \* the owner of a free slot
    MaxProvisioned      \* the number of slots

VARIABLE capacity       \* capacity[k]: the session that owns slot k

Slots == 0 .. MaxProvisioned - 1

TypeOK == capacity \in [Slots -> Sessions \cup {NoSession}]

Init == capacity = [k \in Slots |-> NoSession]

(* CheckCapacity: there is a slot that the session could have.              *)
HasCapacity(s) == \E k \in Slots : capacity[k] \in {NoSession, s}

(* AcquireCapacitySlot: the first slot that is free or already its own.     *)
AcquireCapacitySlot(s) ==
    \E k \in Slots :
        /\ capacity[k] \in {NoSession, s}
        /\ capacity' = [capacity EXCEPT ![k] = s]

(* ReleaseCapacitySlot: a slot of another session is left alone.            *)
ReleaseCapacitySlot(s) ==
    \E k \in Slots :
        /\ capacity[k] = s
        /\ capacity' = [capacity EXCEPT ![k] = NoSession]

Next == \E s \in Sessions : AcquireCapacitySlot(s) \/ ReleaseCapacitySlot(s)

Spec == Init /\ [][Next]_capacity
=============================================================================
