------------------------------ MODULE HubObject ------------------------------
(***************************************************************************)
(* What a ConsoleHub promises the code that holds a reference to it: a     *)
(* flag that is raised once and for good, and a membership that one caller *)
(* at a time enters or leaves, and that is dissolved as a whole only after *)
(* the flag is up.  It promises no more: in particular a caller that got   *)
(* the hub before it ended may still join afterwards.                      *)
(*                                                                         *)
(* ConsoleHub implements it (threads, lock, timers, descriptor), and       *)
(* HubRegistry uses hubs only through it.                                  *)
(***************************************************************************)

CONSTANT Callers     \* the sessions that may join

VARIABLES
    ended,    \* is_done
    members   \* who is on _clients

Init == ended = FALSE /\ members = {}

Join(c)  == members' = members \cup {c} /\ UNCHANGED ended
Leave(c) == members' = members \ {c} /\ UNCHANGED ended
End      == ended' = TRUE /\ UNCHANGED members
Dissolve == ended /\ members' = {} /\ UNCHANGED ended

Next == (\E c \in Callers : Join(c) \/ Leave(c)) \/ End \/ Dissolve

Spec == Init /\ [][Next]_<<ended, members>>
=============================================================================
