------------------------------ MODULE MCWatch ------------------------------
(* An instance of Watch for TLC: one console of the second directory is    *)
(* explicit.                                                               *)
EXTENDS Watch

CONSTANTS d1, d2, a, b

MCExplicit == {<<d2, b>>}
=============================================================================
