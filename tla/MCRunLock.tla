------------------------------ MODULE MCRunLock ------------------------------
(* Instance of RunLock for TLC: three calls, a lock that goes stale after one  *)
(* unit of time.                                                               *)
EXTENDS RunLock, TLC

Symmetry == Permutations(Runs)

=============================================================================
