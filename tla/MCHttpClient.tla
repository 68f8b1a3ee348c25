---------------------------- MODULE MCHttpClient -----------------------------
(* A call of any kind beside a read, two attempts, a token that     *)
(* expires once, one fault.                                                   *)
EXTENDS HttpClient

CONSTANTS c1, c2
MCCalls == { c1, c2 }
MCWanted == [c \in MCCalls |-> IF c = c1 THEN Kinds \ {"none"} ELSE {"read"}]
=============================================================================
