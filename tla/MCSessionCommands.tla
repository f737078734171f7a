--------------------------- MODULE MCSessionCommands ---------------------------
(* The situations of SessionCommands: who asks for what, and how often.      *)
EXTENDS SessionCommands, TLC

CONSTANTS a1, a2, a3, a4, a5, old, second

Nothing == [op |-> "none", key |-> NoWorkflow, owner |-> "ann", target |-> NoSession,
            slug |-> <<"none", 0>>, generated |-> FALSE, kind |-> "none", manager |-> FALSE]
Creates(k, owner, slug, generated) ==
    [Nothing EXCEPT !.op = "create", !.key = k, !.owner = owner, !.slug = slug,
                    !.generated = generated]
Does(op, k, kind) == [Nothing EXCEPT !.op = op, !.key = k, !.kind = kind, !.target = old]

Server(life) == old :> [life |-> life, owner |-> "ann", slug |-> <<"ops", 1>>]
From(life, legacy, requests) ==
    [stored |-> Server(life), legacy |-> legacy,
     requests |-> [a \in Attempts |-> IF a \in DOMAIN requests THEN requests[a] ELSE Nothing]]

\* One interaction twice, and two others, all after the same words.
Creations ==
    {From("RUNNING", legacy,
          a1 :> Creates(1, "ann", <<"ops", 1>>, TRUE) @@ a2 :> Creates(1, "ann", <<"ops", 1>>, TRUE)
          @@ a3 :> Creates(2, "bob", <<"ops", 1>>, TRUE)
          @@ a4 :> Creates(3, "bob", <<"ops", 2>>, FALSE)) : legacy \in {{}, {old}}}

Edits ==
    {From("SLEEPING", {},
          a1 :> Does("edit", 1, "none") @@ a2 :> Does("edit", 1, "none")
          @@ a3 :> Does("edit", 2, "none") @@ a4 :> Does("lifecycle", 3, "start")),
     From("RUNNING", {},
          a1 :> Does("edit", 1, "none") @@ a2 :> Does("edit", 2, "none")
          @@ a3 :> [Does("lifecycle", 3, "Restart") EXCEPT !.owner = "bob", !.manager = TRUE]
          @@ a4 :> [Does("edit", 4, "none") EXCEPT !.owner = "bob"]
          @@ a5 :> Does("edit", 1, "another text"))}

\* A confirmation is asked for, given, taken back, and asked for again.
Confirmations ==
    {From(life, {},
          a1 :> Does("ask", 1, first) @@ a2 :> Does("ask", 2, "Terminate")
          @@ a3 :> Does("confirm", 3, "none") @@ a4 :> Does(alt, 4, kind)
          @@ a5 :> Does("cancel", 5, "none")) :
       life \in {"RUNNING", "SLEEPING"}, first \in {"Archive", "Terminate"},
       <<alt, kind>> \in {<<"confirm", "none">>, <<"lifecycle", "Terminate">>,
                            <<"edit", "none">>}}

Deliveries ==
    {From("RUNNING", {},
          a1 :> Does("ask", 1, "Archive") @@ a2 :> Does("ask", 1, "Archive")
          @@ a3 :> Does("confirm", 3, "none") @@ a4 :> Does("lifecycle", 4, "Sleep"))}

\* Two sessions of one owner share her confirmation slot.
Shared ==
    {[stored |-> [s \in {old, second} |->
                    [life |-> "RUNNING", owner |-> "ann",
                     slug |-> IF s = old THEN <<"ops", 1>> ELSE <<"ops", 2>>]],
      legacy |-> {},
      requests |-> [a \in Attempts |->
                      CASE a = a1 -> Does("ask", 1, "Terminate")
                        [] a = a2 -> [Does("ask", 2, "Archive") EXCEPT !.target = second]
                        [] a = a3 -> Does("confirm", 3, "none")
                        [] a = a4 -> Does("confirm", 4, "none")
                        [] a = a5 -> Nothing]]}

MCSituations == Creations \cup Edits \cup Confirmations \cup Deliveries \cup Shared
=============================================================================
