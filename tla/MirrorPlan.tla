----------------------------- MODULE MirrorPlan ------------------------------
(***************************************************************************)
(* The planning functions of yds-sync as operators on sets of paths.        *)
(*                                                                         *)
(* A path is the sequence of its segments relative to the root; << >> is    *)
(* the canonical remote directory of the root.  Local relative paths and    *)
(* remote paths correspond one to one, so both are the same sequence.       *)
(***************************************************************************)
EXTENDS Integers, Sequences

\* The segments that mark paths a listing returned with a second "disk:" in them:
\* the letters of "disk" in either case.
DiskSegments ==
    { "disk:", "Disk:", "dIsk:", "diSk:", "disK:", "DIsk:", "DiSk:", "DisK:",
      "dISk:", "dIsK:", "diSK:", "DISk:", "DIsK:", "DiSK:", "dISK:", "DISK:" }

\* path.strip_prefix(prefix) is empty or starts with '/'.
Covers(prefix, path) ==
    /\ Len(prefix) <= Len(path)
    /\ SubSeq(path, 1, Len(prefix)) = prefix

\* path starts with `prefix/`.
Below(path, prefix) == prefix # path /\ Covers(prefix, path)

CoveredBySome(prefixes, path) == \E prefix \in prefixes : Covers(prefix, path)

\* The directories on the way from the root's first level down to a path.
Ancestors(path) == { SubSeq(path, 1, n) : n \in 1..(Len(path) - 1) }

\* A set of paths a walk can have produced: a directory is visited before what is
\* in it.
AncestorClosed(paths) == \A path \in paths : Ancestors(path) \subseteq paths

\* known_live_remote_paths: the root and whatever is in the live plan outside its
\* deleted subtrees.
KnownLive(directories, files, deletedSubtrees) ==
    {<<>>} \cup { path \in directories \cup files : ~CoveredBySome(deletedSubtrees, path) }

\* The paths remote_delete_candidate_relative_path accepts.
DeleteCandidate(path) ==
    path # <<>> /\ \A i \in 1..Len(path) : path[i] \notin DiskSegments

\* A path that is not in the plan and has nothing of the plan below it.
Dead(path, known) == path \notin known /\ \A live \in known : ~Below(live, path)

\* Mutant: the test that nothing live is below a prefix is dropped.
AnyAncestors(path, known) == Ancestors(path)

\* The candidates of top_missing_remote_directory_prefix; the function returns the
\* shortest.
DeadAncestors(path, known) == { prefix \in Ancestors(path) : Dead(prefix, known) }

Shortest(prefixes) ==
    CHOOSE prefix \in prefixes : \A other \in prefixes : Len(prefix) <= Len(other)

\* collect_coalesced_delete_operations as a set: each extra resource is deleted
\* with its topmost dead directory, or by itself.
CoalescedDeletes(known, inventory) ==
    { IF DeadAncestors(path, known) = {} THEN path ELSE Shortest(DeadAncestors(path, known)) :
        path \in { p \in inventory : DeleteCandidate(p) /\ p \notin known } }

\* Mutant: the search for the missing directory starts at the path itself.
MissingFromItself(path, localDirs) == (Ancestors(path) \cup {path}) \ localDirs

\* nearest_missing_directory as detect_deleted_local_subtree uses it: the topmost
\* directory above a path that no longer exists locally.
MissingAncestors(path, localDirs) == Ancestors(path) \ localDirs

\* add_deleted_subtree for several subtrees: keep the topmost ones.
AddDeletedSubtrees(deletedSubtrees, new) ==
    LET all == deletedSubtrees \cup new
    IN  { prefix \in all : ~\E other \in all : Below(prefix, other) }

\* Mutants: the root directory is not planned; a changed file that is on the disk is
\* not planned.
CreatesWithoutRoot(liveDirs, inventory) == liveDirs \ inventory

UploadsOnlyMissing(liveFiles, reused, inventory) == liveFiles \ inventory

\* build_root_plan: directories to create, files to upload.
PlannedCreates(liveDirs, inventory) == ({<<>>} \cup liveDirs) \ inventory

PlannedUploads(liveFiles, reused, inventory) ==
    { file \in liveFiles : file \notin reused \/ file \notin inventory }

=============================================================================
