------------------------------ MODULE MCScanner ------------------------------
(* Two threads, a directory with a database that may grow too large for a hash   *)
(* and a plain file that may grow over the limit, an excluded directory.       *)
EXTENDS Scanner

CONSTANTS t1, t2
MCThreads == { t1, t2 }
MCDirs == { <<>>, <<"d">>, <<"x">> }
MCFiles == { <<"d", "a">>, <<"d", "b.db">>, <<"x", "c">> }
MCExcluded == { <<"x">> }
MCOversized == { <<<<"d", "a">>, 2>> }
MCUnhashed == { <<<<"d", "b.db">>, 2>> }
MCEdited == { <<"d", "a">>, <<"d", "b.db">> }
MCSqlite == { <<"d", "b.db">> }
=============================================================================
