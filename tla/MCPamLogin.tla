----------------------------- MODULE MCPamLogin -----------------------------
(* An instance of PamLogin for TLC: connections are alike.                   *)
EXTENDS PamLogin, TLC

Symmetry == Permutations(Conns)
=============================================================================
