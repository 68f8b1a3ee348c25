------------------------------- MODULE Listing -------------------------------
(***************************************************************************)
(* list_recursive_with_options: the walk over the directories of a remote   *)
(* root, several directories at a time, each read page by page by offset,   *)
(* while other clients change the disk.  SyncRoot and Migration take such a *)
(* listing as one step; this module says what that step may report.         *)
(*                                                                         *)
(* The disk pages the children of a directory in one fixed order.  A page   *)
(* is one request of HttpClient, its retries included: here it is answered, *)
(* or it fails.  Paths are those of module MirrorPlan.                      *)
(***************************************************************************)
EXTENDS MirrorPlan, FiniteSets

CONSTANTS
    Dirs,         \* directory paths, the root << >> included
    Order,        \* all other paths as the disk sorts them
    Concurrency,  \* DEFAULT_LIST_DIRECTORY_CONCURRENCY
    Limit,        \* DEFAULT_LIST_LIMIT
    Faults,       \* which faults may happen
    MaxFaults,    \* bound on the faults
    MaxChanges    \* bound on the changes of the disk during the walk

Paths == {<<>>} \cup { Order[i] : i \in 1..Len(Order) }
Slots == 1..Concurrency

FaultKinds ==
    { "page",     \* a page fails, or its directory times out
      "total" }   \* a page comes without embedded.total

ASSUME ListingAssumption ==
    /\ Order \in Seq(Seq(STRING) \ {<<>>})
    /\ \A i, j \in 1..Len(Order) : Order[i] = Order[j] => i = j
    /\ <<>> \in Dirs /\ Dirs \subseteq Paths
    /\ \A path \in Paths : Ancestors(path) \subseteq Dirs
    /\ Concurrency \in Nat \ {0} /\ Limit \in Nat \ {0}
    /\ Faults \subseteq FaultKinds /\ MaxFaults \in Nat /\ MaxChanges \in Nat

VARIABLES
    tree,      \* what is on the disk
    prune,     \* ListRecursiveOptions.prune_remote_prefixes
    pc,        \* "root", "walk", and the results: "listed", "not_found", "failed"
    pending,   \* directories to be listed, a stack
    slot,      \* the tasks of the JoinSet
    listed,    \* what the joined tasks have reported
    steady,    \* history: paths that have been on the disk all the time
    shifted,   \* history: directories out of which something was removed
    short,     \* history: directories of which a page came without its total
    faults, changes

walk == <<pc, pending, slot, listed>>
history == <<steady, shifted, short>>
walkVars == <<tree, prune, walk, history, faults, changes>>

\* list_directory_children of one directory: where it is, and what it has collected.
Task(dir) == [active |-> TRUE, dir |-> dir, offset |-> 0, subdirs |-> <<>>, items |-> {}]
NoTask == [Task(<<>>) EXCEPT !.active = FALSE]

WalkTypeOK ==
    /\ tree \subseteq Paths /\ prune \subseteq Dirs
    /\ pc \in {"root", "walk", "listed", "not_found", "failed"}
    /\ \A i \in 1..Len(pending) : pending[i] \in Dirs
    /\ \A s \in Slots : slot[s].active =>
          /\ slot[s].dir \in Dirs /\ slot[s].offset <= Len(Order)
          /\ slot[s].items \subseteq Paths
          /\ \A i \in 1..Len(slot[s].subdirs) : slot[s].subdirs[i] \in Dirs \cap slot[s].items
    /\ listed \subseteq Paths /\ steady \subseteq Paths /\ shifted \subseteq Dirs
    /\ short \subseteq Dirs
    /\ faults \in 0..MaxFaults /\ changes \in 0..MaxChanges

Parent(path) == SubSeq(path, 1, Len(path) - 1)
IsTree(paths) == AncestorClosed(paths) /\ (paths # {} => <<>> \in paths)

\* Mutant: a prefix prunes what is below it, not itself.
PrunedBelow(path) == \E prefix \in prune : Below(path, prefix)

\* is_pruned_remote_path.
Pruned(path) == CoveredBySome(prune, path)

Fault(kind) == kind \in Faults /\ faults < MaxFaults /\ faults' = faults + 1

\* The root's prefix is never pruned: deleted subtrees are below it.
WalkInit ==
    /\ tree \in { paths \in SUBSET Paths : IsTree(paths) }
    /\ prune \in SUBSET (Dirs \ {<<>>})
    /\ pc = "root" /\ pending = <<>> /\ listed = {}
    /\ slot = [s \in Slots |-> NoTask]
    /\ steady = tree /\ shifted = {} /\ short = {} /\ faults = 0 /\ changes = 0

-----------------------------------------------------------------------------

\* list_recursive_inner asks for the root first.
FindRoot ==
    /\ pc = "root"
    /\ IF <<>> \in tree
       THEN pc' = "walk" /\ pending' = << <<>> >>
       ELSE pc' = "not_found" /\ UNCHANGED pending
    /\ UNCHANGED <<tree, prune, slot, listed, history, faults, changes>>

Idle(s) == ~slot[s].active
Full == \A s \in Slots : ~Idle(s)

\* The inner loop: a directory is popped and gets a task unless it is pruned.
Spawn(s) ==
    /\ pc = "walk" /\ pending # <<>>
    /\ Idle(s) /\ \A other \in 1..(s - 1) : ~Idle(other)
    /\ LET dir == pending[Len(pending)]
       IN  slot' = IF Pruned(dir) THEN slot ELSE [slot EXCEPT ![s] = Task(dir)]
    /\ pending' = SubSeq(pending, 1, Len(pending) - 1)
    /\ UNCHANGED <<tree, prune, pc, listed, history, faults, changes>>

\* The paths of a set, none of them the root, as the disk sorts them.
Position == [path \in Paths \ {<<>>} |-> CHOOSE n \in 1..Len(Order) : Order[n] = path]
Rank(path, paths) == Cardinality({ other \in paths : Position[other] <= Position[path] })
InOrder(paths) ==
    [n \in 1..Cardinality(paths) |-> CHOOSE path \in paths : Rank(path, paths) = n]

\* The children of a directory in the disk's order.
Kids(dir) == { path \in tree \ {<<>>} : Parent(path) = dir }
Children(dir) == InOrder(Kids(dir))

\* The answer to offset and limit.
Page(dir, offset) ==
    LET children == Children(dir)
        end == IF offset + Limit < Len(children) THEN offset + Limit ELSE Len(children)
    IN  SubSeq(children, offset + 1, end)

\* collect_embedded_page: every item is reported, directories are walked unless pruned.
Entries(page) == { page[i] : i \in 1..Len(page) }
Collect(t, page) ==
    [t EXCEPT !.subdirs = @ \o InOrder({ path \in Entries(page) \cap Dirs : ~Pruned(path) }),
              !.items = @ \cup Entries(page)]

\* Mutant: the offset stays where it was.
SameOffset(t, page) == t.offset

NextOffset(t, page) == t.offset + Len(page)

\* Mutant: the total is taken for the last offset.
LastTooEarly(page, offset, total) == Len(page) = 0 \/ offset + 1 >= total

LastPage(page, offset, total) == Len(page) = 0 \/ offset >= total

\* One page of a task's directory.  The last one ends the task, which is joined
\* when no other can be spawned.
ReadPage(s, known) ==
    /\ pc = "walk" /\ ~Idle(s) /\ slot[s].dir \in tree
    /\ IF known
       THEN UNCHANGED <<short, faults>>
       ELSE Fault("total") /\ short' = short \cup {slot[s].dir}
    /\ LET t == slot[s]
           page == Page(t.dir, t.offset)
           total == IF known THEN Len(Children(t.dir)) ELSE 0
           read == [Collect(t, page) EXCEPT !.offset = NextOffset(t, page)]
       IN  IF LastPage(page, read.offset, total)
           THEN /\ pending = <<>> \/ Full
                /\ slot' = [slot EXCEPT ![s] = NoTask]
                /\ pending' = pending \o read.subdirs
                /\ listed' = listed \cup read.items
           ELSE /\ slot' = [slot EXCEPT ![s] = read]
                /\ UNCHANGED <<pending, listed>>
    /\ UNCHANGED <<tree, prune, pc, steady, shifted, changes>>

\* The walk ends with an error; the other tasks are dropped.
Abort(result) ==
    /\ pc' = result
    /\ pending' = <<>> /\ slot' = [s \in Slots |-> NoTask] /\ listed' = {}
    /\ UNCHANGED <<tree, prune, history, changes>>

\* Somebody removed the directory.
DirectoryNotFound(s) ==
    /\ pc = "walk" /\ ~Idle(s) /\ slot[s].dir \notin tree
    /\ Abort("not_found")
    /\ UNCHANGED faults

\* An error after all retries, or list_directory_task_timeout.
PageFails(s) ==
    /\ pc = "walk" /\ ~Idle(s) /\ Fault("page")
    /\ Abort("failed")

Finish ==
    /\ pc = "walk" /\ pending = <<>> /\ \A s \in Slots : Idle(s)
    /\ pc' = "listed"
    /\ UNCHANGED <<tree, prune, pending, slot, listed, history, faults, changes>>

-----------------------------------------------------------------------------
(* Other clients of the disk.                                                *)

Change ==
    /\ pc \in {"root", "walk"} /\ changes < MaxChanges
    /\ changes' = changes + 1
    /\ UNCHANGED <<prune, walk, short, faults>>

Remove(path) ==
    /\ path \in tree
    /\ tree' = { other \in tree : ~Covers(path, other) }
    /\ steady' = steady \cap tree'
    /\ shifted' = IF path = <<>> THEN shifted ELSE shifted \cup {Parent(path)}
    /\ Change

Add(path) ==
    /\ path \in Paths \ tree /\ path # <<>> /\ Parent(path) \in tree
    /\ tree' = tree \cup {path}
    /\ UNCHANGED <<steady, shifted>>
    /\ Change

WalkSteps ==
    \/ FindRoot \/ Finish
    \/ \E s \in Slots :
          Spawn(s) \/ ReadPage(s, TRUE) \/ ReadPage(s, FALSE) \/ DirectoryNotFound(s) \/ PageFails(s)

WalkNext == WalkSteps \/ \E path \in Paths : Remove(path) \/ Add(path)

\* Every request is answered or times out.
WalkSpec == WalkInit /\ [][WalkNext]_walkVars /\ WF_walkVars(WalkSteps)

-----------------------------------------------------------------------------
(* Properties.                                                               *)

\* What a complete listing of a set of paths reports below the root: nothing below a
\* pruned prefix, but the pruned directories themselves, which are to be deleted.
Reported(paths) == { path \in paths \ {<<>>} : ~\E prefix \in prune : Below(path, prefix) }

\* The snapshot that remote_inventory stores as complete, when nobody changed the disk
\* during the walk and every page had its total, is exactly what SyncRoot and
\* Migration take a listing for.
QuietWalkIsExact ==
    pc = "listed" /\ changes = 0 /\ short = {} => listed = Reported(tree)

\* Paging by offset loses a path that was on the disk all the time only if something
\* was removed from its directory, or from one above it, during the walk: additions,
\* removals elsewhere and directories listed at the same time do no harm.
MissedOnlyWhereShifted ==
    pc = "listed" =>
        \A path \in Reported(steady) \ listed :
            \E dir \in {<<>>} \cup Ancestors(path) : dir \in shifted \cup short

\* The walk ends: every page either moves the offset on or is the last one.
WalkEnds == <>(pc \in {"listed", "not_found", "failed"})

=============================================================================
