----------------------------- MODULE MCExitInput ----------------------------
(***************************************************************************)
(* Two instances for TLC that share nothing: part says whether the server  *)
(* is started and stopped, or one connection of it sends requests, and the *)
(* other stays where it begins.  Liveness is checked, so no symmetry.      *)
(***************************************************************************)
EXTENDS MCHttpInput, IocpExit

VARIABLE part

ExitInputInit ==
  /\ part \in {"exit", "input"}
  /\ ExitInit /\ InputInit
  /\ part = "exit" => reqs = <<Short>>
  /\ part = "input" => event = "unset"

ExitInputNext ==
  /\ UNCHANGED part
  /\ \/ part = "exit" /\ ExitNext /\ UNCHANGED inputVars
     \/ part = "input" /\ InputNext /\ UNCHANGED exitVars

\* ExitFairness, where the server is started at all.
ExitInputFairness ==
  /\ WF_exitVars(part = "exit" /\ (Start \/ ShutdownAccept \/ StopSteps))
  /\ \A w \in Workers : WF_exitVars(part = "exit" /\ Loop(w))
  /\ \A a \in Accepts : WF_exitVars(part = "exit" /\ Aborted(a))

ExitInputSpec ==
  /\ ExitInputInit /\ [][ExitInputNext]_<<part, inputVars, exitVars>>
  /\ ExitInputFairness
=============================================================================
