----------------------------- MODULE MCSyncRoot ------------------------------
(* A root with a file at the top and a file in a directory; a root with two   *)
(* files in a directory whose names differ in case only; and a root with an    *)
(* empty directory `_`, a name that LIKE takes for any other of one letter.    *)
EXTENDS SyncRoot

MCDirs == { <<>>, <<"d">> }
MCFiles == { <<"f">>, <<"d", "g">> }
MCLower == [path \in Paths |-> path]

NoMatches == {}

CaseFiles == { <<"d", "g">>, <<"d", "G">> }
CaseLower == [path \in Paths |-> IF path = <<"d", "G">> THEN <<"d", "g">> ELSE path]

WildDirs == { <<>>, <<"_">>, <<"d">> }
WildFiles == { <<"d", "g">> }
WildMatches == { << <<"_">>, <<"d", "g">> >> }

=============================================================================
