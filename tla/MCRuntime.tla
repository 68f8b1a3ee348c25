------------------------------ MODULE MCRuntime ------------------------------
(* Three runs are enough for one that ends, one that is active and one that    *)
(* is refused or late.                                                         *)
EXTENDS Runtime
=============================================================================
