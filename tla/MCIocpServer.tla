---------------------------- MODULE MCIocpServer ----------------------------
(***************************************************************************)
(* Instances of IocpServer for TLC: sets of model values and the           *)
(* permutations under which the specification is symmetric.                *)
(***************************************************************************)
EXTENDS IocpServer, TLC

Symmetry == Permutations(Workers) \cup Permutations(Contexts)
              \cup Permutations(Socks) \cup Permutations(AcceptIos)
=============================================================================
