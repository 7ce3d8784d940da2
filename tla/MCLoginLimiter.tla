--------------------------- MODULE MCLoginLimiter ---------------------------
(***************************************************************************)
(* A finite instance of LoginLimiter needs no further bound: ages stop at  *)
(* Window and the lock bounds the failures.                                *)
(***************************************************************************)
EXTENDS LoginLimiter, TLC

SlotsAndKeys == Permutations(Requests) \cup Permutations(Keys)
=============================================================================
