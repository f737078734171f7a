------------------------------- MODULE MCFleet -------------------------------
(***************************************************************************)
(* Instances of Fleet for TLC.  Sessions and hosts are interchangeable.    *)
(***************************************************************************)
EXTENDS Fleet, TLC

Symmetry == Permutations(Sessions) \cup Permutations(Hosts)

(* What makes no difference to what anybody can do next, nor to the          *)
(* properties: whose a terminated host was and what was found out about it,  *)
(* which execution of a deleted session runs on, and whether a session may   *)
(* be restored again that is not a failed one with a host.                  *)
LiveView ==
    LET Alive == {s \in Sessions : record[s].life # "DELETED"}
        Again(s) == record[s].life = "FAILED" /\ record[s].host # NoHost /\ record[s].retry
    IN <<[s \in Sessions |-> <<record[s].life, record[s].slot, record[s].host, Again(s)>>],
         task, late, capacity, operator.host, operator.listed, StillUnreferenced,
         robbed \cap Alive, [s \in Alive |-> stray[s]],
         [h \in Hosts |-> IF cloud[h].up THEN <<cloud[h], finding[h]>>
                          ELSE <<cloud[h].owner # NoSession, FALSE>>]>>
=============================================================================
