----------------------------- MODULE MCSessions -----------------------------
(* An instance of Sessions: the first user gets to a console and uses up  *)
(* his bytes there, or edits a line; the second types nothing.             *)
EXTENDS Sessions

CONSTANTS
    first, second,
    Typed    \* how many bytes the first user types

MCConns == {first, second}
MCKeys == [prompt |-> {"c", "q", "bs", "cr", "etx"}, console |-> {"x", "~", "."}]
MCTyped == [c \in Conns |-> IF c = first THEN Typed ELSE 0]
=============================================================================
