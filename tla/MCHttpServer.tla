---------------------------- MODULE MCHttpServer ----------------------------
(***************************************************************************)
(* Instances of HttpServer for TLC.                                        *)
(***************************************************************************)
EXTENDS HttpServer, TLC

Symmetry == Permutations(Workers) \cup Permutations(Contexts)
              \cup Permutations(Socks) \cup Permutations(AcceptIos)
=============================================================================
