---------------------------- MODULE MCMigration ------------------------------
(* A root with a small file in a directory, beside it one above                *)
(* full_hash_max_bytes and one from large_file_name_size_only_min_bytes on,    *)
(* and two legacy trees.                                                      *)
EXTENDS Migration, TLC

MCDirs == { <<>>, <<"d">> }
MCFiles == { <<"d", "g">>, <<"f">>, <<"h">> }
MCOrder == << <<"d", "g">>, <<"f">>, <<"h">> >>
MCSizeOnly == { <<"f">>, <<"h">> }
MCLarge == { <<"h">> }

JustG == [Empty EXCEPT ![<<>>] = 1, ![<<"d">>] = 1, ![<<"d", "g">>] = 1]
Others == [Empty EXCEPT ![<<>>] = 1, ![<<"d">>] = 1,
                        ![<<"d", "g">>] = Foreign, ![<<"f">>] = Foreign]

\* The canonical place is empty, until a run fills it.  The first legacy place may have
\* the small file, the second one other content of the same size for the small file and
\* for the one in the middle.  A top-level move or a merge move brings them over.
MCStarts == << {Empty, JustG}, {Empty, Others} >> @@ (0 :> {Empty})
=============================================================================
