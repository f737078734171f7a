---------------------------- MODULE MCGuildSessions ----------------------------
(* The situations of GuildSessions: items with index keys and without, and   *)
(* who is at work.                                                           *)
EXTENDS GuildSessions, TLC

Situation(stored, legacy, cut, operates, targets, n) ==
    [stored |-> stored, legacy |-> legacy, cutover |-> cut, operates |-> operates,
     targets |-> targets, claimed |-> {2}, saves |-> n]

Two == 1 :> "RUNNING" @@ 2 :> "SLEEPING"
Three == 1 :> "SLEEPING" @@ 2 :> "RUNNING" @@ 3 :> "RUNNING"

MCSituations ==
    {Situation(Two, {1}, FALSE, TRUE, {}, 3),
     Situation(Three, {1, 3}, FALSE, TRUE, {None}, 1),
     Situation(Three, {}, TRUE, FALSE, {None, 1, 2}, 2)}
=============================================================================
