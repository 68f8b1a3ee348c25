----------------------------- MODULE DeletePlan ------------------------------
(***************************************************************************)
(* The loop of collect_coalesced_delete_operations: it walks the remote     *)
(* inventory, directories first and shallow ones before deep ones, and      *)
(* keeps the prefixes it has already decided to delete as a whole.          *)
(***************************************************************************)
EXTENDS MirrorPlan

CONSTANTS
    Directories,  \* paths of directories, the root excluded
    Files         \* paths of files

ASSUME PathsAssumption ==
    /\ \A path \in Directories \cup Files : path \in Seq(STRING) /\ path # <<>>
    /\ Directories \cap Files = {}
    /\ AncestorClosed(Directories)
    /\ \A file \in Files : Ancestors(file) \subseteq Directories

VARIABLES
    known,       \* known_local_remote_paths
    inventory,   \* remote_inventory
    resources,   \* the resources the loop has still to visit
    suppressed,  \* suppressed_prefixes
    operations   \* the paths of the delete operations

vars == <<known, inventory, resources, suppressed, operations>>

AllPaths == Directories \cup Files

TypeOK ==
    /\ known \subseteq AllPaths \cup {<<>>}
    /\ inventory \subseteq AllPaths
    /\ resources \subseteq inventory
    /\ suppressed \subseteq Directories
    /\ operations \subseteq AllPaths

\* Every plan a scan can leave beside every inventory.  An inventory may lack the
\* directory of a file it has: a directory creation whose answer was lost leaves no
\* cache row, the upload into it that follows does.
Init ==
    /\ known \in { {<<>>} \cup live : live \in { l \in SUBSET AllPaths : AncestorClosed(l) } }
    /\ inventory \in SUBSET AllPaths
    /\ resources = inventory
    /\ suppressed = {}
    /\ operations = {}

\* sort_by_key (not a directory, depth); the order of names is left open.
Precedes(path, other) ==
    \/ path \in Directories /\ other \in Files
    \/ (path \in Directories <=> other \in Directories) /\ Len(path) <= Len(other)

NextResource(path) ==
    path \in resources /\ \A other \in resources : Precedes(path, other)

\* The early `continue`s: not a candidate, already suppressed, or live.
Skipped(path) ==
    ~DeleteCandidate(path) \/ CoveredBySome(suppressed, path) \/ path \in known

Visit(path) ==
    /\ NextResource(path)
    /\ resources' = resources \ {path}
    /\ UNCHANGED <<known, inventory>>

Skip(path) ==
    /\ Visit(path)
    /\ Skipped(path)
    /\ UNCHANGED <<suppressed, operations>>

\* Mutant: the direct parent instead of the topmost dead directory.
DeleteParent(path) ==
    /\ Visit(path)
    /\ ~Skipped(path)
    /\ DeadAncestors(path, known) # {}
    /\ LET parent == SubSeq(path, 1, Len(path) - 1)
       IN  IF CoveredBySome(suppressed, parent)
           THEN UNCHANGED <<suppressed, operations>>
           ELSE /\ suppressed' = suppressed \cup {parent}
                /\ operations' = operations \cup {parent}

\* A directory above the resource is gone as a whole.
DeleteTopMissing(path) ==
    /\ Visit(path)
    /\ ~Skipped(path)
    /\ DeadAncestors(path, known) # {}
    /\ LET top == Shortest(DeadAncestors(path, known))
       IN  IF CoveredBySome(suppressed, top)
           THEN UNCHANGED <<suppressed, operations>>
           ELSE /\ suppressed' = suppressed \cup {top}
                /\ operations' = operations \cup {top}

\* Mutant: the prefix of a file is suppressed too.
DeleteResourceSuppresses(path) ==
    /\ Visit(path)
    /\ ~Skipped(path)
    /\ DeadAncestors(path, known) = {}
    /\ suppressed' = suppressed \cup {path}
    /\ operations' = operations \cup {path}

\* The resource itself: a directory with nothing live in it suppresses what is
\* below it, anything else is deleted alone.
DeleteResource(path) ==
    /\ Visit(path)
    /\ ~Skipped(path)
    /\ DeadAncestors(path, known) = {}
    /\ suppressed' = IF path \in Directories /\ Dead(path, known)
                     THEN suppressed \cup {path}
                     ELSE suppressed
    /\ operations' = operations \cup {path}

Finished == resources = {} /\ UNCHANGED vars

Next ==
    \/ \E path \in resources : Skip(path) \/ DeleteTopMissing(path) \/ DeleteResource(path)
    \/ Finished

Spec == Init /\ [][Next]_vars

-----------------------------------------------------------------------------

\* No planned delete removes a path of the live plan, neither by naming it nor by
\* naming a directory above it: deletes on the disk are permanent and recursive.
NeverCoversLive ==
    \A operation \in operations, live \in known : ~Covers(operation, live)

\* When the loop ends every extra resource of the inventory is covered by a delete,
\* and by only one, so no delete hits what an earlier one removed: the operations
\* are what CoalescedDeletes says.
ComputesCoalescedDeletes ==
    resources = {} =>
        /\ operations = CoalescedDeletes(known, inventory)
        /\ \A path \in inventory :
              DeleteCandidate(path) /\ path \notin known => CoveredBySome(operations, path)
        /\ \A one, other \in operations : ~Below(one, other)

=============================================================================
