----------------------------- MODULE MCTimeout -----------------------------
(* The timer driver with every operation of its clients, in the first       *)
(* Modulus ticks of its absolute times.                                     *)
EXTENDS Timeout, TLC

TimerSymmetry == Permutations(Timers)
=============================================================================
