---------------------------- MODULE MCDeletePlan -----------------------------
(* A tree with two levels of directories, a sibling directory whose name       *)
(* extends the other's, and a path with a phantom segment.                     *)
EXTENDS DeletePlan

MCDirectories == { <<"a">>, <<"a", "b">>, <<"ab">> }
MCFiles == { <<"f">>, <<"a", "g">>, <<"a", "b", "h">>, <<"ab", "Disk:">> }

=============================================================================
