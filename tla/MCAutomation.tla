----------------------------- MODULE MCAutomation -----------------------------
(* Automatic command IDs are the pairs of an action and a deadline; the owner *)
(* has as many commands as the configuration names.                           *)
EXTENDS Automation

CONSTANT Owners

MCAutomaticID(k, d) == <<k, d>>
MCOwned == {<<"owner", w>> : w \in Owners}
MCWorkflows == MCOwned \cup {<<k, d>> : k \in Actions, d \in 0 .. 40}
=============================================================================
