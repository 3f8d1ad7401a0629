---------------------------- MODULE MCHubRegistry ----------------------------
(* HubRegistry on small sets.  Sessions and connections are used only for  *)
(* equality, so permuting them is a symmetry.                              *)
EXTENDS HubRegistry, TLC

Symmetry == Permutations(Sessions) \cup Permutations(Conns)
=============================================================================
