---------------------------- MODULE Acquisition ----------------------------
(***************************************************************************)
(* What a stage promises the store: an executor that is started ends,      *)
(* unless the process stops; it reports success only with the artifact on  *)
(* disk complete; and nothing it does, not even a crash half way, takes a  *)
(* complete artifact away again.                                           *)
(***************************************************************************)
VARIABLES
  artifact,  \* "none" or "whole"
  outcome    \* "running", or how the last stage ended

Init == artifact = "none" /\ outcome = "none"

Start == outcome # "running" /\ outcome' = "running" /\ UNCHANGED artifact
Land  == outcome = "running" /\ artifact' = "whole" /\ UNCHANGED outcome

End ==
  /\ outcome = "running"
  /\ outcome' \in {"done", "error", "aborted"}
  /\ outcome' = "done" => artifact = "whole"
  /\ UNCHANGED artifact

Crash == outcome' = "none" /\ UNCHANGED artifact

Next == Start \/ Land \/ End \/ Crash
vars == <<artifact, outcome>>
Safety == Init /\ [][Next]_vars
Spec == Safety /\ WF_vars(End)
=============================================================================
