---------------------------- MODULE MCConsoleHub ----------------------------
(* ConsoleHub on small sets of threads. Timer identities are used only for *)
(* equality, so permuting them is a symmetry of the safety runs.           *)
EXTENDS ConsoleHub, TLC

TimerSymmetry == Permutations(Timers)
=============================================================================
