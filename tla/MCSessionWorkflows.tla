-------------------------- MODULE MCSessionWorkflows --------------------------
(***************************************************************************)
(* Instances of SessionWorkflows for TLC.  A configuration names the       *)
(* workflows and the scenarios; the name of a workflow gives its kind.     *)
(***************************************************************************)
EXTENDS SessionWorkflows

MCTypeOf ==
    [c \in Workflows |->
        CASE c = "provision" -> "Provision"
          [] c = "bootstrap" -> "Bootstrap"
          [] c = "sleep"   -> "Sleep"
          [] c = "wake"    -> "Wake"
          [] c = "restart" -> "Restart"
          [] c \in {"archive", "archive2"} -> "Archive"
          [] c \in {"restore", "restore2"} -> "Restore"
          [] c = "terminate" -> "Terminate"]

(* "bootstrap" is the continuation of "provision". *)
MCContinuation ==
    [c \in Workflows |-> IF c = "provision" THEN "bootstrap" ELSE NoWorkflow]

From(life, commands) == [life |-> life, commands |-> commands]

(* A draft that is configured, provisioned and bootstrapped; the bootstrap  *)
(* may be cancelled.                                                       *)
MCFirstStart == {From("DRAFT", {"provision", "bootstrap"})}

(* The host stays, stopping and starting again; or it goes, and comes back  *)
(* from the archive, perhaps at the second attempt.  "archive" may be       *)
(* cancelled, "archive2" may not.                                          *)
MCHosts ==
    {From("RUNNING", {"sleep", "wake"}), From("RUNNING", {"restart"}),
     From("SLEEPING", {"archive"}), From("SLEEPING", {"archive2", "restore"}),
     From("SLEEPING", {"archive2", "terminate"}), From("ARCHIVED", {"restore", "restore2"})}
=============================================================================
