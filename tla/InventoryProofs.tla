--------------------------- MODULE InventoryProofs ---------------------------
(***************************************************************************)
(* The remote inventory: what the walk that reads it reports, and what is    *)
(* deleted because of it.                                                    *)
(*                                                                          *)
(* For every tree, every live plan and every inventory the delete operations *)
(* the loop collects never take a live path with them, and they are the      *)
(* coalesced deletes, in whichever order names are visited.  For every tree, *)
(* every page size and any number of tasks the walk loses a path only where  *)
(* something was removed, and nothing when nobody disturbs it.               *)
(***************************************************************************)
EXTENDS DeletePlan, Listing, MirrorPlanProofs, FiniteSetTheorems

-----------------------------------------------------------------------------
(* The loop that collects the delete operations.                             *)

\* A walk reports a directory before what is in it, so the live plan is closed.
PlanClosed ==
    /\ known \subseteq AllPaths \cup {<<>>}
    /\ AncestorClosed(known)

IInv == TypeOK /\ PlanClosed /\ NeverCoversLive

\* All paths are sequences of segments, and none but the root is empty.
LEMMA PathsAreSeqs == AllPaths \subseteq Seq(STRING) \ {<<>>}
  BY PathsAssumption DEF AllPaths

\* What is above a path of the tree is a directory of the tree.
LEMMA AncestorsAreDirectories ==
    ASSUME NEW path \in AllPaths
    PROVE  Ancestors(path) \subseteq Directories
  BY PathsAssumption DEF AllPaths, AncestorClosed

\* In a closed plan a path outside the plan has nothing of the plan below it, so
\* deleting it alone is safe.
LEMMA OutsideCoversNothing ==
    ASSUME PlanClosed, NEW path \in AllPaths, path \notin known, NEW live \in known
    PROVE  ~Covers(path, live)
<1> SUFFICES ASSUME Covers(path, live) PROVE FALSE
  OBVIOUS
<1>1. path \in Seq(STRING) /\ path # <<>>
  BY PathsAreSeqs
<1>2. <<>> \in Seq(STRING)
  OBVIOUS
<1>3. live \in Seq(STRING)
  BY <1>2, PathsAreSeqs DEF PlanClosed
<1>4. path # live
  OBVIOUS
<1>5. path \in Ancestors(live)
  BY <1>1, <1>3, <1>4, CoversIsAncestor
<1> QED
  BY <1>5 DEF PlanClosed, AncestorClosed

\* The prefix DeleteTopMissing picks is a dead directory of the tree.
LEMMA TopMissingIsDead ==
    ASSUME NEW path \in AllPaths, DeadAncestors(path, known) # {}
    PROVE  /\ Shortest(DeadAncestors(path, known)) \in Directories
           /\ Shortest(DeadAncestors(path, known)) \notin known
<1> DEFINE dead == DeadAncestors(path, known)
<1>1. dead \subseteq Directories
  BY AncestorsAreDirectories DEF DeadAncestors
<1>2. dead \subseteq Seq(STRING)
  BY <1>1, PathsAreSeqs DEF AllPaths
<1>3. Shortest(dead) \in dead
  BY <1>2, ShortestIsLeast
<1> QED
  BY <1>1, <1>3 DEF DeadAncestors, Dead

\* Init establishes the invariant.
LEMMA InitIInv == Init => IInv
<1> SUFFICES ASSUME Init PROVE IInv
  OBVIOUS
<1>1. PICK l \in SUBSET AllPaths : AncestorClosed(l) /\ known = {<<>>} \cup l
  BY DEF Init
<1>2. Ancestors(<<>>) = {}
  BY DEF Ancestors
<1>3. PlanClosed
  BY <1>1, <1>2 DEF PlanClosed, AncestorClosed
<1> QED
  BY <1>3 DEF Init, IInv, TypeOK, PlanClosed, NeverCoversLive

\* Every step of the loop preserves the invariant.
LEMMA NextIInv == IInv /\ [Next]_vars => IInv'
<1> SUFFICES ASSUME IInv, [Next]_vars PROVE IInv'
  OBVIOUS
<1>1. ASSUME UNCHANGED vars PROVE IInv'
  BY <1>1 DEF vars, IInv, TypeOK, PlanClosed, NeverCoversLive
<1>2. ASSUME NEW path \in resources, Skip(path) PROVE IInv'
  BY <1>2 DEF Skip, Visit, IInv, TypeOK, PlanClosed, NeverCoversLive
<1>3. ASSUME NEW path \in resources, DeleteTopMissing(path) PROVE IInv'
  <2> DEFINE top == Shortest(DeadAncestors(path, known))
  <2>1. path \in AllPaths /\ known' = known /\ inventory' = inventory
        /\ resources' = resources \ {path}
    BY <1>3 DEF DeleteTopMissing, Visit, IInv, TypeOK
  <2>2. top \in Directories /\ top \notin known
    BY <1>3, <2>1, TopMissingIsDead DEF DeleteTopMissing
  <2>3. PlanClosed'
    BY <2>1 DEF IInv, PlanClosed
  <2>4. \/ suppressed' = suppressed /\ operations' = operations
        \/ suppressed' = suppressed \cup {top} /\ operations' = operations \cup {top}
    BY <1>3 DEF DeleteTopMissing
  <2>5. TypeOK'
    BY <2>1, <2>2, <2>4 DEF IInv, TypeOK, AllPaths
  <2>6. \A live \in known : ~Covers(top, live)
    BY <2>2, OutsideCoversNothing DEF IInv, AllPaths
  <2>7. NeverCoversLive'
    BY <2>1, <2>4, <2>6 DEF IInv, NeverCoversLive
  <2> QED
    BY <2>3, <2>5, <2>7 DEF IInv
<1>4. ASSUME NEW path \in resources, DeleteResource(path) PROVE IInv'
  <2>1. /\ path \in AllPaths /\ path \notin known
        /\ known' = known /\ inventory' = inventory /\ resources' = resources \ {path}
    BY <1>4 DEF DeleteResource, Skipped, Visit, IInv, TypeOK
  <2>2. TypeOK'
    BY <1>4, <2>1 DEF DeleteResource, IInv, TypeOK
  <2>3. PlanClosed'
    BY <2>1 DEF IInv, PlanClosed
  <2>4. \A live \in known : ~Covers(path, live)
    BY <2>1, OutsideCoversNothing DEF IInv
  <2>5. NeverCoversLive'
    BY <1>4, <2>1, <2>4 DEF DeleteResource, IInv, NeverCoversLive
  <2> QED
    BY <2>2, <2>3, <2>5 DEF IInv
<1> QED
  BY <1>1, <1>2, <1>3, <1>4 DEF Next, Finished

-----------------------------------------------------------------------------

\* Type correctness of the loop.
THEOREM TypeCorrect == Spec => []TypeOK
<1>1. IInv => TypeOK
  BY DEF IInv
<1> QED
  BY InitIInv, NextIInv, <1>1, PTL DEF Spec

\* collect_coalesced_delete_operations never plans a delete that covers a path of the
\* live plan, for any tree, plan and inventory.
THEOREM DeletesAreSafe == Spec => []NeverCoversLive
<1>1. IInv => NeverCoversLive
  BY DEF IInv
<1> QED
  BY InitIInv, NextIInv, <1>1, PTL DEF Spec

-----------------------------------------------------------------------------
(* Which deletes the loop collects.                                          *)

\* A topmost path outside the plan: it is not live, and what is above it is.
Topmost(path) == path \in AllPaths /\ path \notin known /\ Ancestors(path) \subseteq known

\* The delete that takes a resource away.
Target(path) ==
    IF DeadAncestors(path, known) = {} THEN path ELSE Shortest(DeadAncestors(path, known))

\* The extra resources the loop has visited.
Planned == { path \in inventory \ resources : DeleteCandidate(path) /\ path \notin known }

\* The loop has planned exactly the targets of what it has visited, and it suppresses
\* nothing that it does not delete.
LoopInv ==
    /\ operations = { Target(path) : path \in Planned }
    /\ suppressed \subseteq operations

\* Two topmost paths above one path are one: this is why it makes no difference which
\* resource leads the loop to a directory.
LEMMA TopmostIsUnique ==
    ASSUME NEW a, NEW b, NEW path \in AllPaths, Topmost(a), Topmost(b),
           Covers(a, path), Covers(b, path)
    PROVE  a = b
<1>1. ASSUME NEW x, NEW y, Topmost(x), Topmost(y), Covers(x, path), Covers(y, path),
             Len(x) <= Len(y), x # y
      PROVE  FALSE
  <2>1. /\ path \in Seq(STRING) /\ x \in Seq(STRING) /\ y \in Seq(STRING) /\ x # <<>>
    BY <1>1, PathsAreSeqs DEF Topmost
  <2>2. Covers(x, y)
    BY <1>1, <2>1, CoversLinear
  <2>3. x \in Ancestors(y)
    BY <1>1, <2>1, <2>2, CoversIsAncestor
  <2> QED
    BY <1>1, <2>3 DEF Topmost
<1>2. Len(a) \in Nat /\ Len(b) \in Nat
  BY PathsAreSeqs DEF Topmost
<1>3. Len(a) <= Len(b) \/ Len(b) <= Len(a)
  BY <1>2
<1> QED
  BY <1>1, <1>3

\* In a closed plan a directory is dead if it is not live.
LEMMA DeadIsOutside ==
    ASSUME PlanClosed, NEW path \in AllPaths
    PROVE  Dead(path, known) <=> path \notin known
  BY OutsideCoversNothing DEF Dead, Below

\* The target of a resource that is not live is the topmost path that is not live.
LEMMA TargetIsTopmost ==
    ASSUME PlanClosed, NEW path \in AllPaths, path \notin known
    PROVE  Topmost(Target(path)) /\ Covers(Target(path), path)
<1> DEFINE dead == DeadAncestors(path, known)
<1>1. path \in Seq(STRING) /\ Ancestors(path) \subseteq AllPaths
  BY PathsAreSeqs, AncestorsAreDirectories DEF AllPaths
<1>2. dead = Ancestors(path) \ known
  BY <1>1, DeadIsOutside DEF DeadAncestors
<1>3. CASE dead = {}
  <2>1. Covers(path, path)
    BY <1>1, CoversPointwise
  <2> QED
    BY <1>2, <1>3, <2>1 DEF Target, Topmost
<1>4. CASE dead # {}
  <2>1. PICK top : top = Shortest(dead)
    OBVIOUS
  <2>2. dead \subseteq Seq(STRING)
    BY <1>1, <1>2, AncestorCovers
  <2>3. top \in dead /\ \A other \in dead : Len(top) <= Len(other)
    BY <1>4, <2>1, <2>2, ShortestIsLeast
  <2>4. top \in Seq(STRING) /\ Covers(top, path)
    BY <1>1, <1>2, <2>3, AncestorCovers
  <2>5. ASSUME NEW above \in Ancestors(top), above \notin known
        PROVE  FALSE
    <3>1. above \in Seq(STRING) /\ above # <<>> /\ Len(above) < Len(top) /\ Covers(above, top)
      BY <2>4, AncestorCovers
    <3>2. Covers(above, path) /\ Len(top) <= Len(path)
      BY <1>1, <2>4, <3>1, CoversTransitive DEF Covers
    <3>3. Len(above) \in Nat /\ Len(top) \in Nat /\ Len(path) \in Nat
      BY <1>1, <2>4, <3>1
    <3>4. above # path
      BY <3>1, <3>2, <3>3
    <3>5. above \in dead
      BY <1>1, <1>2, <2>5, <3>1, <3>2, <3>4, CoversIsAncestor
    <3> QED
      BY <2>3, <3>1, <3>3, <3>5
  <2>6. Topmost(top)
    BY <1>1, <1>2, <2>3, <2>5 DEF Topmost
  <2> QED
    BY <1>4, <2>1, <2>4, <2>6 DEF Target
<1> QED
  BY <1>3, <1>4

\* Whatever a step visits, its target is deleted afterwards and nothing else is added.
LEMMA VisitLoop ==
    ASSUME IInv, LoopInv, NEW path \in resources, Visit(path),
           \/ /\ DeleteCandidate(path) /\ path \notin known
              /\ operations' = operations \cup {Target(path)}
           \/ ~DeleteCandidate(path) /\ UNCHANGED operations
           \/ path \in known /\ UNCHANGED operations
           \/ /\ DeleteCandidate(path) /\ path \notin known
              /\ Target(path) \in operations /\ UNCHANGED operations,
           suppressed' \subseteq operations'
    PROVE  LoopInv'
<1>1. UNCHANGED <<known, inventory>> /\ resources' = resources \ {path} /\ path \in inventory
  BY DEF Visit, IInv, TypeOK
<1>2. \A p : Target(p)' = Target(p)
  BY <1>1 DEF Target, DeadAncestors, Dead, Shortest
<1>3. Planned' = Planned \cup (IF DeleteCandidate(path) /\ path \notin known THEN {path} ELSE {})
  BY <1>1 DEF Planned, IInv, TypeOK
<1>4. { Target(p)' : p \in Planned' } = { Target(p) : p \in Planned' }
  BY <1>2
<1>5. operations' = { Target(p) : p \in Planned' }
  <2> HIDE DEF Target, Planned
  <2> QED
    BY <1>3 DEF LoopInv
<1> QED
  BY <1>1, <1>2, <1>4, <1>5 DEF LoopInv

\* Init: nothing is visited.
LEMMA InitLoop == Init => LoopInv
  BY DEF Init, LoopInv, Planned

\* Every step of the loop keeps the operations the targets of what it has visited.
LEMMA NextLoop == IInv /\ LoopInv /\ [Next]_vars => LoopInv'
<1> SUFFICES ASSUME IInv, LoopInv, [Next]_vars PROVE LoopInv'
  OBVIOUS
<1>1. ASSUME NEW path \in resources PROVE path \in AllPaths /\ PlanClosed
  BY <1>1 DEF IInv, TypeOK
<1>2. \A s \in suppressed : Topmost(s)
  <2> SUFFICES ASSUME NEW s \in suppressed PROVE Topmost(s)
    OBVIOUS
  <2>1. PICK p \in Planned : s = Target(p)
    BY DEF LoopInv
  <2>2. p \in AllPaths /\ p \notin known /\ PlanClosed
    BY DEF Planned, IInv, TypeOK
  <2> QED
    BY <2>1, <2>2, TargetIsTopmost
<1>3. ASSUME NEW path \in resources, Skip(path)
      PROVE  LoopInv'
  <2>1. CASE CoveredBySome(suppressed, path) /\ DeleteCandidate(path) /\ path \notin known
    <3>1. PICK s \in suppressed : Covers(s, path)
      BY <2>1 DEF CoveredBySome
    <3>2. s = Target(path)
      BY <1>1, <1>2, <2>1, <3>1, TargetIsTopmost, TopmostIsUnique
    <3>3. Target(path) \in operations
      BY <3>2 DEF LoopInv
    <3> QED
      BY <1>3, <2>1, <3>3, VisitLoop DEF Skip, LoopInv
  <2>2. CASE ~DeleteCandidate(path) \/ path \in known
    BY <1>3, <2>2, VisitLoop DEF Skip, LoopInv
  <2> QED
    BY <1>3, <2>1, <2>2 DEF Skip, Skipped
<1>4. ASSUME NEW path \in resources, DeleteTopMissing(path)
      PROVE  LoopInv'
  <2>1. /\ Visit(path) /\ DeleteCandidate(path) /\ path \notin known
        /\ Target(path) = Shortest(DeadAncestors(path, known))
    BY <1>4 DEF DeleteTopMissing, Skipped, Target
  <2>2. CASE CoveredBySome(suppressed, Target(path)) /\ UNCHANGED <<suppressed, operations>>
    <3>1. PICK s \in suppressed : Covers(s, Target(path))
      BY <2>2 DEF CoveredBySome
    <3>2. Topmost(Target(path)) /\ Covers(Target(path), Target(path))
      <4>1. Topmost(Target(path))
        BY <1>1, <2>1, TargetIsTopmost
      <4> QED
        BY <4>1, PathsAreSeqs, CoversPointwise DEF Topmost
    <3>3. s = Target(path)
      BY <1>2, <3>1, <3>2, TopmostIsUnique DEF Topmost
    <3>4. Target(path) \in operations
      BY <3>3 DEF LoopInv
    <3> QED
      BY <2>1, <2>2, <3>4, VisitLoop DEF LoopInv
  <2>3. CASE /\ suppressed' = suppressed \cup {Target(path)}
             /\ operations' = operations \cup {Target(path)}
    BY <2>1, <2>3, VisitLoop DEF LoopInv
  <2> QED
    BY <1>4, <2>1, <2>2, <2>3 DEF DeleteTopMissing
<1>5. ASSUME NEW path \in resources, DeleteResource(path)
      PROVE  LoopInv'
  <2>1. /\ Visit(path) /\ DeleteCandidate(path) /\ path \notin known /\ Target(path) = path
        /\ operations' = operations \cup {path} /\ suppressed' \subseteq suppressed \cup {path}
    BY <1>5 DEF DeleteResource, Skipped, Target
  <2> QED
    BY <2>1, VisitLoop DEF LoopInv
<1>6. CASE UNCHANGED vars
  BY <1>6 DEF vars, LoopInv, Planned, Target
<1> QED
  BY <1>3, <1>4, <1>5, <1>6 DEF Next, Finished

\* When the loop ends, the operations are the coalesced deletes of the extra resources:
\* each is covered, and no delete is below another one.  The order in which the loop
\* visits directories and files, which the code sorts, is not needed for this.
THEOREM DeletesAreCoalesced == Spec => []ComputesCoalescedDeletes
<1>1. ASSUME IInv, LoopInv, resources = {}
      PROVE  /\ operations = CoalescedDeletes(known, inventory)
             /\ \A path \in inventory :
                   DeleteCandidate(path) /\ path \notin known => CoveredBySome(operations, path)
             /\ \A one, other \in operations : ~Below(one, other)
  <2>1. Planned = { path \in inventory : DeleteCandidate(path) /\ path \notin known }
    BY <1>1 DEF Planned
  <2>2. \A path \in Planned : Topmost(Target(path)) /\ Covers(Target(path), path)
    BY <1>1, TargetIsTopmost DEF Planned, IInv, TypeOK
  <2>3. operations = CoalescedDeletes(known, inventory)
    BY <1>1, <2>1 DEF LoopInv, CoalescedDeletes, Target
  <2>4. ASSUME NEW path \in inventory, DeleteCandidate(path), path \notin known
        PROVE  CoveredBySome(operations, path)
    BY <1>1, <2>1, <2>2, <2>4 DEF LoopInv, CoveredBySome
  <2>5. \A operation \in operations : Topmost(operation)
    BY <1>1, <2>2 DEF LoopInv
  <2>6. ASSUME NEW one \in operations, NEW other \in operations, Below(one, other)
        PROVE  FALSE
    <3>1. Topmost(one) /\ Topmost(other) /\ other # one /\ Covers(other, one)
      BY <2>5, <2>6 DEF Below
    <3>2. other \in Ancestors(one)
      BY <3>1, PathsAreSeqs, CoversIsAncestor DEF Topmost
    <3> QED
      BY <3>1, <3>2 DEF Topmost
  <2> QED
    BY <2>3, <2>4, <2>6
<1>2. IInv /\ LoopInv => ComputesCoalescedDeletes
  BY <1>1 DEF ComputesCoalescedDeletes
<1> QED
  BY InitIInv, NextIInv, InitLoop, NextLoop, <1>2, PTL DEF Spec

-----------------------------------------------------------------------------
(* The walk: the order in which the disk pages.                              *)

\* Paths are sequences of names, finitely many of them.
LEMMA PathsFacts ==
    /\ Paths \subseteq Seq(STRING) /\ <<>> \in Paths
    /\ Len(Order) \in Nat
    /\ IsFiniteSet(Paths)
<1>1. Order \in Seq(Seq(STRING) \ {<<>>})
  BY ListingAssumption
<1>2. Len(Order) \in Nat /\ \A i \in 1..Len(Order) : Order[i] \in Seq(STRING) \ {<<>>}
  BY <1>1
<1>3. <<>> \in Seq(STRING)
  OBVIOUS
<1>4. Paths \subseteq Seq(STRING) /\ <<>> \in Paths
  BY <1>2, <1>3 DEF Paths
<1> DEFINE named == { Order[i] : i \in 1..Len(Order) }
           name == [i \in 1..Len(Order) |-> Order[i]]
<1>5. name \in Surjection(1..Len(Order), named)
  BY DEF Surjection
<1>6. IsFiniteSet(1..Len(Order))
  BY <1>2, FS_Interval
<1>7. IsFiniteSet(named)
  <2> HIDE DEF named, name
  <2> QED
    BY <1>5, <1>6, FS_Surjection
<1>8. IsFiniteSet(named \cup {<<>>})
  <2> HIDE DEF named
  <2> QED
    BY <1>7, FS_AddElement
<1>9. Paths = named \cup {<<>>}
  BY DEF Paths
<1> QED
  BY <1>2, <1>4, <1>8, <1>9

\* Every path but the root has a place in the order, no two the same.
LEMMA PositionFacts ==
    /\ \A path \in Paths \ {<<>>} : Position[path] \in 1..Len(Order) /\ Order[Position[path]] = path
    /\ \A one, other \in Paths \ {<<>>} : Position[one] = Position[other] => one = other
<1>1. ASSUME NEW path \in Paths \ {<<>>}
      PROVE  Position[path] \in 1..Len(Order) /\ Order[Position[path]] = path
  <2>1. \E n \in 1..Len(Order) : Order[n] = path
    BY DEF Paths
  <2>2. Position[path] = CHOOSE n \in 1..Len(Order) : Order[n] = path
    BY DEF Position
  <2> QED
    BY <2>1, <2>2
<1> QED
  BY <1>1

\* A set of paths is finite.
LEMMA SomePaths ==
    ASSUME NEW paths, paths \subseteq Paths
    PROVE  IsFiniteSet(paths) /\ Cardinality(paths) \in Nat
  BY PathsFacts, FS_Subset, FS_CardinalityType

\* The rank of a path in a set is its number there.
LEMMA RankFacts ==
    ASSUME NEW paths, paths \subseteq Paths \ {<<>>}
    PROVE  /\ \A path \in paths : Rank(path, paths) \in 1..Cardinality(paths)
           /\ \A one, other \in paths : Rank(one, paths) = Rank(other, paths) => one = other
<1> DEFINE upTo(path) == { other \in paths : Position[other] <= Position[path] }
<1>1. ASSUME NEW path \in paths
      PROVE  /\ IsFiniteSet(upTo(path)) /\ Cardinality(upTo(path)) \in Nat
             /\ Cardinality(upTo(path)) <= Cardinality(paths)
             /\ Cardinality(upTo(path)) # 0
  <2>1. upTo(path) \subseteq paths /\ upTo(path) \subseteq Paths
    OBVIOUS
  <2>2. path \in upTo(path)
    BY PositionFacts, PathsFacts
  <2> HIDE DEF upTo
  <2>3. IsFiniteSet(paths) /\ IsFiniteSet(upTo(path)) /\ Cardinality(upTo(path)) \in Nat
    BY <2>1, SomePaths
  <2>4. Cardinality(upTo(path)) <= Cardinality(paths)
    BY <2>1, <2>3, FS_Subset
  <2>5. Cardinality(upTo(path)) # 0
    BY <2>2, <2>3, FS_EmptySet
  <2> QED
    BY <2>3, <2>4, <2>5
<1>2. \A path \in paths : Rank(path, paths) = Cardinality(upTo(path))
  BY DEF Rank
<1>3. Cardinality(paths) \in Nat
  BY SomePaths
<1>4. ASSUME NEW one \in paths, NEW other \in paths, Position[one] < Position[other]
      PROVE  Rank(one, paths) # Rank(other, paths)
  <2>1. upTo(one) \subseteq upTo(other) /\ other \in upTo(other) /\ other \notin upTo(one)
    BY <1>4, PositionFacts, PathsFacts
  <2> HIDE DEF upTo
  <2>2. IsFiniteSet(upTo(other))
    BY <1>1
  <2>3. Cardinality(upTo(other)) = Cardinality(upTo(one)) => upTo(other) = upTo(one)
    BY <2>1, <2>2, FS_Subset
  <2> QED
    BY <1>2, <2>1, <2>3
<1>5. ASSUME NEW one \in paths, NEW other \in paths, one # other
      PROVE  Position[one] < Position[other] \/ Position[other] < Position[one]
  BY <1>5, PositionFacts, PathsFacts
<1>6. \A path \in paths : Rank(path, paths) \in 1..Cardinality(paths)
  <2> HIDE DEF upTo
  <2> QED
    BY <1>1, <1>2, <1>3
<1> QED
  BY <1>4, <1>5, <1>6

\* Every number up to the size of the set is the rank of one of its paths.
LEMMA RankOnto ==
    ASSUME NEW paths, paths \subseteq Paths \ {<<>>}, NEW n \in 1..Cardinality(paths)
    PROVE  \E path \in paths : Rank(path, paths) = n
<1> DEFINE numbers == 1..Cardinality(paths)
           rank == [path \in paths |-> Rank(path, paths)]
<1>1. IsFiniteSet(paths) /\ Cardinality(paths) \in Nat
  BY SomePaths
<1>2. IsFiniteSet(numbers) /\ Cardinality(numbers) = Cardinality(paths)
  BY <1>1, FS_Interval
<1>3. rank \in Injection(paths, numbers)
  BY RankFacts DEF Injection, IsInjective
<1>4. rank \in Surjection(paths, numbers)
  <2> HIDE DEF rank, numbers
  <2> QED
    BY <1>1, <1>2, <1>3, FS_Injection
<1> QED
  BY <1>4 DEF Surjection

\* InOrder lists the set, each path at its rank.
LEMMA InOrderFacts ==
    ASSUME NEW paths, paths \subseteq Paths \ {<<>>}
    PROVE  /\ InOrder(paths) \in Seq(paths) /\ Len(InOrder(paths)) = Cardinality(paths)
           /\ Cardinality(paths) \in Nat
           /\ \A path \in paths : /\ Rank(path, paths) \in 1..Cardinality(paths)
                                  /\ InOrder(paths)[Rank(path, paths)] = path
<1>1. Cardinality(paths) \in Nat
  BY SomePaths
<1>2. ASSUME NEW n \in 1..Cardinality(paths)
      PROVE  InOrder(paths)[n] \in paths /\ Rank(InOrder(paths)[n], paths) = n
  <2>1. InOrder(paths)[n] = CHOOSE path \in paths : Rank(path, paths) = n
    BY DEF InOrder
  <2>2. \E path \in paths : Rank(path, paths) = n
    BY RankOnto
  <2> QED
    BY <2>1, <2>2
<1>3. InOrder(paths) \in [1..Cardinality(paths) -> paths]
  BY <1>2 DEF InOrder
<1>4. InOrder(paths) \in Seq(paths) /\ Len(InOrder(paths)) = Cardinality(paths)
  BY <1>1, <1>3
<1>5. ASSUME NEW path \in paths
      PROVE  /\ Rank(path, paths) \in 1..Cardinality(paths)
             /\ InOrder(paths)[Rank(path, paths)] = path
  BY <1>2, RankFacts
<1> QED
  BY <1>1, <1>4, <1>5

\* A path does not move to the front when others join the set.
LEMMA RankGrows ==
    ASSUME NEW paths, NEW more, paths \subseteq more, more \subseteq Paths \ {<<>>},
           NEW path \in paths
    PROVE  Rank(path, paths) <= Rank(path, more)
<1> DEFINE few == { other \in paths : Position[other] <= Position[path] }
           many == { other \in more : Position[other] <= Position[path] }
<1>1. few \subseteq many /\ many \subseteq Paths
  OBVIOUS
<1>2. Rank(path, paths) = Cardinality(few) /\ Rank(path, more) = Cardinality(many)
  BY DEF Rank
<1> HIDE DEF few, many
<1>3. IsFiniteSet(many)
  BY <1>1, SomePaths
<1> QED
  BY <1>1, <1>2, <1>3, FS_Subset

-----------------------------------------------------------------------------
(* The walk: its inductive invariant.                                        *)

\* A directory above a path, the root included.
Above(path) == {<<>>} \cup Ancestors(path)

\* What somebody may have moved under the walk.
Disturbed(path) == \E dir \in Above(path) : dir \in shifted \cup short

\* A directory that the walk has still to list, or is listing.
Open(dir) ==
    \/ \E i \in 1..Len(pending) : pending[i] = dir
    \/ \E s \in Slots : slot[s].active /\ slot[s].dir = dir

\* A task of the JoinSet.
SlotType ==
    [active : BOOLEAN, dir : Dirs, offset : Nat, subdirs : Seq(Dirs), items : SUBSET Paths]

\* With them: what has been on the disk all the time is still there, with what is above it.
WalkTypes ==
    /\ tree \subseteq Paths /\ prune \subseteq Dirs \ {<<>>}
    /\ pending \in Seq(Dirs) /\ slot \in [Slots -> SlotType]
    /\ listed \subseteq Paths /\ steady \subseteq tree /\ AncestorClosed(steady)
    /\ faults \in Nat /\ changes \in Nat

\* A task lists a directory that is not pruned.  What it has read is in that directory,
\* what it has read of directories is to be walked unless it is pruned, and what has been
\* there all the time has been read or comes after the offset, unless something was removed.
TaskInv(s) ==
    slot[s].active =>
        /\ ~Pruned(slot[s].dir)
        /\ \A path \in slot[s].items : path # <<>> /\ Parent(path) = slot[s].dir
        /\ \A path \in slot[s].items \cap Dirs :
              Pruned(path) \/ \E i \in 1..Len(slot[s].subdirs) : slot[s].subdirs[i] = path
        /\ slot[s].dir \notin shifted =>
              \A path \in steady \cap Kids(slot[s].dir) :
                  path \in slot[s].items \/ Rank(path, Kids(slot[s].dir)) > slot[s].offset

\* A path that is to be reported is, or a directory above it is still open, unless the
\* walk was disturbed there.
CoverInv ==
    pc \in {"walk", "listed"} =>
        \A path \in Reported(steady) :
            path \in listed \/ Disturbed(path) \/ \E dir \in Above(path) : Open(dir)

\* Nothing below a pruned prefix is reported; without changes only what is there.
ReportInv ==
    /\ \A path \in listed : path # <<>> /\ ~\E prefix \in prune : Below(path, prefix)
    /\ changes = 0 => /\ steady = tree /\ shifted = {} /\ listed \subseteq tree
                      /\ \A s \in Slots : slot[s].active => slot[s].items \subseteq tree

\* The walk has ended when nothing is open.
EndInv ==
    /\ pc = "listed" => pending = <<>> /\ \A s \in Slots : ~slot[s].active
    /\ pc = "root" => pending = <<>> /\ \A s \in Slots : ~slot[s].active

\* The inductive invariant of the walk.
WalkInv ==
    /\ WalkTypes /\ \A s \in Slots : TaskInv(s)
    /\ CoverInv /\ ReportInv /\ EndInv

\* The children of a directory are paths other than the root.
LEMMA KidsFacts ==
    ASSUME WalkTypes, NEW dir
    PROVE  Kids(dir) \subseteq Paths \ {<<>>}
  BY DEF WalkTypes, Kids

\* A page has the children after the offset, up to the next offset.
LEMMA PageFacts ==
    ASSUME WalkTypes, NEW dir, NEW offset \in Nat
    PROVE  /\ Page(dir, offset) \in Seq(Kids(dir)) /\ Len(Page(dir, offset)) \in Nat
           /\ Entries(Page(dir, offset)) \subseteq Kids(dir)
           /\ Len(Children(dir)) \in Nat
           /\ \A path \in Kids(dir) :
                 /\ Rank(path, Kids(dir)) \in 1..Len(Children(dir))
                 /\ \/ Rank(path, Kids(dir)) <= offset
                    \/ path \in Entries(Page(dir, offset))
                    \/ Rank(path, Kids(dir)) > offset + Len(Page(dir, offset))
           /\ Len(Page(dir, offset)) = 0 => offset >= Len(Children(dir))
<1> DEFINE kids == Kids(dir)
           size == Cardinality(kids)
           children == Children(dir)
           end == IF offset + Limit < size THEN offset + Limit ELSE size
           page == Page(dir, offset)
<1>1. kids \subseteq Paths \ {<<>>}
  BY KidsFacts
<1>2. children = InOrder(kids)
  BY DEF Children
<1>3. children \in Seq(kids) /\ Len(children) = size /\ size \in Nat
  <2> HIDE DEF kids
  <2> QED
    BY <1>1, <1>2, InOrderFacts
<1>4. \A path \in kids : Rank(path, kids) \in 1..size /\ children[Rank(path, kids)] = path
  <2> HIDE DEF kids
  <2> QED
    BY <1>1, <1>2, InOrderFacts
<1>5. page = SubSeq(children, offset + 1, end)
  BY <1>3 DEF Page
<1>6. Limit \in Nat \ {0}
  BY ListingAssumption
<1> HIDE DEF kids, size, children, page
<1>7. CASE offset >= size
  <2>1. end = size /\ offset + 1 > end
    BY <1>3, <1>6, <1>7
  <2>2. page = <<>>
    BY <1>3, <1>5, <2>1
  <2>3. Entries(page) = {} /\ Len(page) = 0 /\ page \in Seq(kids)
    BY <2>2 DEF Entries
  <2> QED
    BY <1>3, <1>4, <1>7, <2>3 DEF kids, size, children, page
<1>8. CASE offset < size
  <2>1. end \in Nat /\ offset + 1 <= end /\ end <= size /\ end <= offset + Limit
    BY <1>3, <1>6, <1>8
  <2> HIDE DEF end
  <2>2. /\ page \in Seq(kids) /\ Len(page) = end - offset
        /\ \A i \in 1..(end - offset) : page[i] = children[offset + i]
    BY <1>3, <1>5, <2>1
  <2>3. Entries(page) \subseteq kids
    BY <2>2 DEF Entries
  <2>4. ASSUME NEW path \in kids, Rank(path, kids) > offset, Rank(path, kids) <= end
        PROVE  path \in Entries(page)
    <3> DEFINE i == Rank(path, kids) - offset
    <3>1. i \in 1..(end - offset) /\ offset + i = Rank(path, kids)
      BY <1>4, <2>1, <2>4, <1>3
    <3>2. page[i] = path
      BY <1>4, <2>2, <3>1
    <3> HIDE DEF i
    <3> QED
      BY <2>2, <3>1, <3>2, <2>1 DEF Entries
  <2>5. Len(page) \in Nat /\ Len(page) # 0 /\ offset + Len(page) = end
    BY <2>1, <2>2
  <2>6. ASSUME NEW path \in kids
        PROVE  /\ Rank(path, kids) \in 1..size
               /\ \/ Rank(path, kids) <= offset
                  \/ path \in Entries(page)
                  \/ Rank(path, kids) > offset + Len(page)
    BY <1>3, <1>4, <2>1, <2>4, <2>5
  <2> QED
    BY <1>3, <2>2, <2>3, <2>5, <2>6 DEF kids, size, children, page
<1> QED
  BY <1>3, <1>7, <1>8

\* Nothing is left after the last page.
LEMMA LastPageIsLast ==
    ASSUME WalkTypes, NEW dir, NEW offset \in Nat,
           LastPage(Page(dir, offset), offset + Len(Page(dir, offset)), Len(Children(dir))),
           NEW path \in Kids(dir), Rank(path, Kids(dir)) > offset
    PROVE  path \in Entries(Page(dir, offset))
<1>1. /\ Len(Page(dir, offset)) \in Nat /\ Len(Children(dir)) \in Nat
      /\ Rank(path, Kids(dir)) \in 1..Len(Children(dir))
      /\ \/ Rank(path, Kids(dir)) <= offset
         \/ path \in Entries(Page(dir, offset))
         \/ Rank(path, Kids(dir)) > offset + Len(Page(dir, offset))
      /\ Len(Page(dir, offset)) = 0 => offset >= Len(Children(dir))
  BY PageFacts
<1>2. Len(Page(dir, offset)) = 0 \/ offset + Len(Page(dir, offset)) >= Len(Children(dir))
  BY DEF LastPage
<1> QED
  BY <1>1, <1>2

\* On the way from a directory down to a path there is a child of that directory.
LEMMA ChildToward ==
    ASSUME NEW path \in Seq(STRING), path # <<>>, NEW dir \in Above(path)
    PROVE  \E child \in {path} \cup Ancestors(path) : child # <<>> /\ Parent(child) = dir
<1>1. dir \in Seq(STRING) /\ Len(dir) < Len(path) /\ dir = SubSeq(path, 1, Len(dir))
  <2>1. CASE dir = <<>>
    BY <2>1
  <2>2. CASE dir \in Ancestors(path)
    BY <2>2, AncestorCovers DEF Covers
  <2> QED
    BY <2>1, <2>2 DEF Above
<1> DEFINE n == Len(dir) + 1
           child == SubSeq(path, 1, n)
<1>2. n \in 1..Len(path) /\ n \in Nat /\ Len(path) \in Nat
  BY <1>1
<1>3. child \in Seq(STRING) /\ Len(child) = n /\ \A i \in 1..n : child[i] = path[i]
  BY <1>2
<1>4. child # <<>>
  BY <1>2, <1>3
<1>5. child \in {path} \cup Ancestors(path)
  <2>1. CASE n = Len(path)
    BY <2>1
  <2>2. CASE n # Len(path)
    BY <1>2, <2>2 DEF Ancestors
  <2> QED
    BY <2>1, <2>2
<1>6. Parent(child) = dir
  <2> HIDE DEF child
  <2>1. Parent(child) = SubSeq(child, 1, Len(dir))
    BY <1>1, <1>3 DEF Parent
  <2>2. /\ SubSeq(child, 1, Len(dir)) \in Seq(STRING) /\ Len(SubSeq(child, 1, Len(dir))) = Len(dir)
        /\ \A i \in 1..Len(dir) : SubSeq(child, 1, Len(dir))[i] = child[i]
    BY <1>1, <1>2, <1>3
  <2>3. \A i \in 1..Len(dir) : dir[i] = path[i]
    BY <1>1
  <2>4. ASSUME NEW i \in 1..Len(dir) PROVE SubSeq(child, 1, Len(dir))[i] = dir[i]
    <3>1. i \in 1..n
      BY <1>1
    <3>2. child[i] = path[i]
      BY <1>3, <3>1
    <3> QED
      BY <2>2, <2>3, <3>2
  <2> QED
    BY <1>1, <2>1, <2>2, <2>4
<1> QED
  BY <1>4, <1>5, <1>6

\* The parent of a path is above it, and whatever is above it covers its parent.
LEMMA ParentFacts ==
    ASSUME NEW path \in Seq(STRING), path # <<>>
    PROVE  /\ Parent(path) \in Above(path) /\ Parent(path) \in Seq(STRING)
           /\ Covers(Parent(path), path) /\ Parent(path) # path
           /\ \A prefix \in Seq(STRING) :
                 Covers(prefix, path) /\ prefix # path => Covers(prefix, Parent(path))
<1> DEFINE n == Len(path) - 1
<1>1. n \in Nat /\ n < Len(path) /\ Len(path) \in Nat
  OBVIOUS
<1>2. /\ Parent(path) \in Seq(STRING) /\ Len(Parent(path)) = n
      /\ \A i \in 1..n : Parent(path)[i] = path[i]
  <2>1. Parent(path) = SubSeq(path, 1, n)
    BY DEF Parent
  <2> HIDE DEF n
  <2>2. /\ SubSeq(path, 1, n) \in Seq(STRING) /\ Len(SubSeq(path, 1, n)) = n
        /\ \A i \in 1..n : SubSeq(path, 1, n)[i] = path[i]
    BY <1>1
  <2> QED
    BY <2>1, <2>2
<1>3. Parent(path) \in Above(path)
  <2>1. CASE n = 0
    BY <1>2, <2>1 DEF Above
  <2>2. CASE n # 0
    BY <1>1, <2>2 DEF Parent, Ancestors, Above
  <2> QED
    BY <2>1, <2>2
<1>4. Covers(Parent(path), path) /\ Parent(path) # path
  BY <1>1, <1>2, CoversPointwise
<1>5. ASSUME NEW prefix \in Seq(STRING), Covers(prefix, path), prefix # path
      PROVE  Covers(prefix, Parent(path))
  <2>1. Len(prefix) <= Len(path) /\ \A i \in 1..Len(prefix) : prefix[i] = path[i]
    BY <1>5, CoversPointwise
  <2>2. Len(prefix) # Len(path)
    BY <1>5, <2>1
  <2>3. Len(prefix) <= n /\ Len(prefix) \in Nat
    BY <1>1, <2>1, <2>2
  <2>4. \A i \in 1..Len(prefix) : prefix[i] = Parent(path)[i]
    BY <1>1, <1>2, <2>1, <2>3
  <2> QED
    BY <1>2, <2>3, <2>4, CoversPointwise
<1> QED
  BY <1>2, <1>3, <1>4, <1>5

\* What is above a path covers it.
LEMMA AboveCovers ==
    ASSUME NEW path \in Seq(STRING), path # <<>>, NEW dir \in Above(path)
    PROVE  dir \in Seq(STRING) /\ dir # path /\ Covers(dir, path)
<1>1. CASE dir = <<>>
  <2>1. dir \in Seq(STRING) /\ Len(dir) = 0 /\ dir # path
    BY <1>1
  <2>2. Len(dir) <= Len(path) /\ \A i \in 1..Len(dir) : dir[i] = path[i]
    BY <2>1
  <2> QED
    BY <2>1, <2>2, CoversPointwise
<1>2. CASE dir \in Ancestors(path)
  BY <1>2, AncestorCovers
<1> QED
  BY <1>1, <1>2 DEF Above

\* Nothing above a path that is to be reported is pruned.
LEMMA ReportedIsOpen ==
    ASSUME WalkTypes, NEW paths, paths \subseteq Paths, NEW path \in Reported(paths),
           NEW dir \in Above(path)
    PROVE  ~Pruned(dir)
<1> SUFFICES ASSUME NEW prefix \in prune, Covers(prefix, dir) PROVE FALSE
  BY DEF Pruned, CoveredBySome
<1>1. path \in Seq(STRING) /\ path # <<>> /\ prefix \in Seq(STRING)
  BY PathsFacts, ListingAssumption DEF WalkTypes, Reported
<1>2. dir \in Seq(STRING) /\ dir # path /\ Covers(dir, path)
  BY <1>1, AboveCovers
<1>3. Covers(prefix, path)
  BY <1>1, <1>2, CoversTransitive
<1>4. prefix # path
  BY <1>1, <1>2, CoversAntisymmetric
<1> QED
  BY <1>3, <1>4 DEF Reported, Below

\* A step keeps what covers the paths, if what was open is done, disturbed or still open.
LEMMA CoverKept ==
    ASSUME CoverInv, pc' \in {"walk", "listed"} => pc \in {"walk", "listed"},
           prune' = prune, steady' \subseteq steady, listed \subseteq listed',
           shifted \subseteq shifted', short \subseteq short',
           \A path \in Reported(steady) : \A dir \in Above(path) :
               Open(dir) => \/ path \in listed' \/ Disturbed(path)'
                            \/ \E other \in Above(path) : Open(other)'
    PROVE  CoverInv'
<1> SUFFICES ASSUME pc \in {"walk", "listed"}, NEW path \in Reported(steady)'
             PROVE  path \in listed' \/ Disturbed(path)' \/ \E dir \in Above(path) : Open(dir)'
  BY DEF CoverInv
<1>1. path \in Reported(steady)
  BY DEF Reported
<1>2. path \in listed \/ Disturbed(path) \/ \E dir \in Above(path) : Open(dir)
  BY <1>1 DEF CoverInv
<1>3. Disturbed(path) => Disturbed(path)'
  BY DEF Disturbed
<1> QED
  BY <1>1, <1>2, <1>3

\* A task that goes on keeps its invariant, if its children have not moved to the front.
LEMMA TaskKept ==
    ASSUME NEW s \in Slots, TaskInv(s), slot'[s] = slot[s], prune' = prune,
           steady' \subseteq steady, shifted \subseteq shifted',
           slot[s].dir \notin shifted' =>
               \A path \in steady' \cap Kids(slot[s].dir)' :
                   /\ path \in Kids(slot[s].dir)
                   /\ Rank(path, Kids(slot[s].dir)) \in Nat
                   /\ Rank(path, Kids(slot[s].dir)') \in Nat
                   /\ Rank(path, Kids(slot[s].dir)) <= Rank(path, Kids(slot[s].dir)'),
           slot[s].offset \in Nat
    PROVE  TaskInv(s)'
<1> SUFFICES ASSUME slot[s].active PROVE TaskInv(s)'
  BY DEF TaskInv
<1>1. \A path : Pruned(path)' <=> Pruned(path)
  BY DEF Pruned
<1>2. ASSUME slot[s].dir \notin shifted', NEW path \in steady' \cap Kids(slot[s].dir)'
      PROVE  path \in slot[s].items \/ Rank(path, Kids(slot[s].dir)') > slot[s].offset
  <2>1. path \in slot[s].items \/ Rank(path, Kids(slot[s].dir)) > slot[s].offset
    BY <1>2 DEF TaskInv
  <2> QED
    BY <1>2, <2>1
<1> QED
  BY <1>1, <1>2 DEF TaskInv

\* A step that leaves the tree alone leaves its directories alone.
LEMMA TreeQuiet ==
    ASSUME WalkTypes, tree' = tree, NEW dir
    PROVE  /\ Kids(dir)' = Kids(dir)
           /\ \A path \in Kids(dir) : Rank(path, Kids(dir)) \in Nat
<1>1. Kids(dir)' = Kids(dir)
  BY DEF Kids
<1>2. \A path \in Kids(dir) : Rank(path, Kids(dir)) \in Nat
  <2>1. Kids(dir) \subseteq Paths \ {<<>>}
    BY KidsFacts
  <2>2. Cardinality(Kids(dir)) \in Nat
    BY <2>1, SomePaths
  <2>3. \A path \in Kids(dir) : Rank(path, Kids(dir)) \in 1..Cardinality(Kids(dir))
    BY <2>1, RankFacts
  <2> QED
    BY <2>2, <2>3
<1> QED
  BY <1>1, <1>2

-----------------------------------------------------------------------------
(* The walk: every step keeps the invariant.                                 *)

\* The task after a page: what was read before, and the entries of the page.
Read(t) ==
    [Collect(t, Page(t.dir, t.offset)) EXCEPT !.offset = NextOffset(t, Page(t.dir, t.offset))]

\* A task that nothing touches keeps its invariant.
LEMMA TaskStays ==
    ASSUME WalkTypes, NEW s \in Slots, TaskInv(s), slot'[s] = slot[s],
           UNCHANGED <<tree, prune, steady, shifted>>
    PROVE  TaskInv(s)'
<1>1. Kids(slot[s].dir)' = Kids(slot[s].dir)
  BY DEF Kids
<1>2. \A path : Pruned(path)' <=> Pruned(path)
  BY DEF Pruned
<1> QED
  BY <1>1, <1>2 DEF TaskInv

\* What is read of a directory that is not pruned is not below a pruned prefix.
LEMMA ReadIsReported ==
    ASSUME WalkTypes, NEW dir, ~Pruned(dir), NEW path \in Paths \ {<<>>}, Parent(path) = dir
    PROVE  ~\E prefix \in prune : Below(path, prefix)
<1> SUFFICES ASSUME NEW prefix \in prune, Below(path, prefix) PROVE FALSE
  OBVIOUS
<1>1. path \in Seq(STRING) /\ path # <<>> /\ prefix \in Seq(STRING)
  BY PathsFacts, ListingAssumption DEF WalkTypes
<1>2. Covers(prefix, dir)
  BY <1>1, ParentFacts DEF Below
<1> QED
  BY <1>2 DEF Pruned, CoveredBySome

\* A page keeps what is said of a task's items.
LEMMA ReadFacts ==
    ASSUME WalkTypes, NEW s \in Slots, slot[s].active, TaskInv(s)
    PROVE  LET read == Read(slot[s])
               page == Page(slot[s].dir, slot[s].offset)
           IN  /\ read \in SlotType /\ read.active /\ read.dir = slot[s].dir
               /\ read.offset = slot[s].offset + Len(page)
               /\ read.items = slot[s].items \cup Entries(page)
               /\ Entries(page) \subseteq Kids(slot[s].dir)
               /\ \A path \in read.items : path # <<>> /\ Parent(path) = slot[s].dir
               /\ \A path \in read.items \cap Dirs :
                     Pruned(path) \/ \E i \in 1..Len(read.subdirs) : read.subdirs[i] = path
<1> DEFINE t == slot[s]
           page == Page(t.dir, t.offset)
           fresh == { path \in Entries(page) \cap Dirs : ~Pruned(path) }
           read == Read(t)
<1>1. t \in SlotType
  BY DEF WalkTypes
<1>2. /\ Len(page) \in Nat /\ Entries(page) \subseteq Kids(t.dir)
      /\ Kids(t.dir) \subseteq Paths \ {<<>>}
  BY <1>1, PageFacts, KidsFacts DEF SlotType
<1>3. InOrder(fresh) \in Seq(fresh) /\ \A path \in fresh : \E i \in 1..Len(InOrder(fresh)) : InOrder(fresh)[i] = path
  <2>1. fresh \subseteq Paths \ {<<>>}
    BY <1>2
  <2> HIDE DEF fresh
  <2> QED
    BY <2>1, InOrderFacts
<1>4. fresh \subseteq Dirs
  OBVIOUS
<1>6. \A path \in Entries(page) : path # <<>> /\ Parent(path) = t.dir
  BY <1>2 DEF Kids
<1>7. InOrder(fresh) \in Seq(Dirs)
  <2> HIDE DEF fresh
  <2> QED
    BY <1>3, <1>4
<1>8. t.subdirs \in Seq(Dirs) /\ t.offset \in Nat /\ t.items \subseteq Paths /\ t.dir \in Dirs /\ t.active
  BY <1>1 DEF SlotType
<1>9. \A path \in t.items : path # <<>> /\ Parent(path) = t.dir
  BY DEF TaskInv
<1>10. \A path \in t.items \cap Dirs :
          Pruned(path) \/ \E i \in 1..Len(t.subdirs) : t.subdirs[i] = path
  BY DEF TaskInv
<1>11. \A path \in Entries(page) \cap Dirs :
          Pruned(path) \/ \E i \in 1..Len(InOrder(fresh)) : InOrder(fresh)[i] = path
  BY <1>3
<1> DEFINE more == InOrder(fresh)
           both == t.subdirs \o more
<1> HIDE DEF t, page, fresh, read
<1>12. /\ both \in Seq(Dirs)
       /\ \A i \in 1..Len(t.subdirs) : i \in 1..Len(both) /\ both[i] = t.subdirs[i]
       /\ \A i \in 1..Len(more) :
             Len(t.subdirs) + i \in 1..Len(both) /\ both[Len(t.subdirs) + i] = more[i]
  <2> HIDE DEF more
  <2> QED
    BY <1>7, <1>8 DEF more
<1>13. \A path \in (t.items \cup Entries(page)) \cap Dirs :
          Pruned(path) \/ \E i \in 1..Len(both) : both[i] = path
  <2> HIDE DEF both, more
  <2>1. ASSUME NEW path \in t.items \cap Dirs, ~Pruned(path)
        PROVE  \E i \in 1..Len(both) : both[i] = path
    BY <1>10, <1>12, <2>1
  <2>2. ASSUME NEW path \in Entries(page) \cap Dirs, ~Pruned(path)
        PROVE  \E i \in 1..Len(both) : both[i] = path
    <3>1. PICK i \in 1..Len(more) : more[i] = path
      BY <1>11, <2>2 DEF more
    <3> QED
      BY <1>12, <3>1
  <2> QED
    BY <2>1, <2>2
<1>14. /\ read \in SlotType /\ read.active = t.active /\ read.dir = t.dir
       /\ read.offset = t.offset + Len(page) /\ read.subdirs = both
       /\ read.items = t.items \cup Entries(page)
  <2> DEFINE items == t.items \cup Entries(page)
             offset == t.offset + Len(page)
             collected == [t EXCEPT !.subdirs = both, !.items = items]
  <2>1. offset \in Nat /\ items \subseteq Paths
    BY <1>2, <1>8
  <2>2. read = [collected EXCEPT !.offset = offset]
    BY DEF Read, Collect, NextOffset, read, t, page, fresh
  <2> HIDE DEF both, items, offset
  <2>3. /\ collected \in SlotType /\ collected.active = t.active /\ collected.dir = t.dir
        /\ collected.subdirs = both /\ collected.items = items
    BY <1>1, <1>12, <2>1 DEF SlotType
  <2> HIDE DEF collected
  <2>4. /\ read \in SlotType /\ read.active = collected.active /\ read.dir = collected.dir
        /\ read.offset = offset /\ read.subdirs = collected.subdirs
        /\ read.items = collected.items
    BY <2>1, <2>2, <2>3 DEF SlotType
  <2> QED
    BY <2>3, <2>4 DEF items, offset
<1> HIDE DEF both
<1>15. \A path \in read.items : path # <<>> /\ Parent(path) = t.dir
  BY <1>6, <1>9, <1>14
<1> QED
  BY <1>2, <1>8, <1>13, <1>14, <1>15 DEF t, page, read

\* A new task, and none.
LEMMA NoTaskFacts ==
    /\ \A dir \in Dirs : /\ Task(dir) \in SlotType /\ Task(dir).active /\ Task(dir).dir = dir
                         /\ Task(dir).offset = 0 /\ Task(dir).items = {}
    /\ NoTask \in SlotType /\ ~NoTask.active
<1>1. <<>> \in Dirs /\ <<>> \in Seq(Dirs)
  BY ListingAssumption
<1>2. ASSUME NEW dir \in Dirs
      PROVE  /\ Task(dir) \in SlotType /\ Task(dir).active /\ Task(dir).dir = dir
             /\ Task(dir).offset = 0 /\ Task(dir).items = {}
  BY <1>1 DEF Task, SlotType
<1>3. NoTask = [Task(<<>>) EXCEPT !.active = FALSE]
  BY DEF NoTask
<1>4. ASSUME NEW t \in SlotType
      PROVE  [t EXCEPT !.active = FALSE] \in SlotType /\ ~[t EXCEPT !.active = FALSE].active
  BY DEF SlotType
<1> QED
  BY <1>1, <1>2, <1>3, <1>4

\* The invariant holds before the walk.
LEMMA WalkStarts == WalkInit => WalkInv
<1> SUFFICES ASSUME WalkInit PROVE WalkInv
  OBVIOUS
<1>1. NoTask \in SlotType /\ ~NoTask.active
  BY NoTaskFacts
<1>2. \A s \in Slots : ~slot[s].active
  BY <1>1 DEF WalkInit
<1>3. WalkTypes
  <2>1. slot \in [Slots -> SlotType]
    BY <1>1 DEF WalkInit
  <2>2. pending \in Seq(Dirs)
    BY DEF WalkInit
  <2>3. prune \subseteq Dirs \ {<<>>} /\ tree \subseteq Paths /\ steady = tree
    BY DEF WalkInit
  <2>4. AncestorClosed(steady)
    BY DEF WalkInit, IsTree
  <2> QED
    BY <2>1, <2>2, <2>3, <2>4 DEF WalkTypes, WalkInit
<1>4. \A s \in Slots : TaskInv(s)
  BY <1>2 DEF TaskInv
<1>5. CoverInv
  BY DEF CoverInv, WalkInit
<1>6. ReportInv
  BY <1>2 DEF ReportInv, WalkInit
<1>7. EndInv
  BY <1>2 DEF EndInv, WalkInit
<1> QED
  BY <1>3, <1>4, <1>5, <1>6, <1>7 DEF WalkInv

\* The root is open when the walk begins.
LEMMA FindRootKeeps == ASSUME WalkInv, FindRoot PROVE WalkInv'
<1> USE DEF FindRoot, history
<1>1. \A s \in Slots : ~slot[s].active
  BY DEF WalkInv, EndInv
<1>2. WalkTypes'
  <2>1. <<>> \in Dirs
    BY ListingAssumption
  <2>2. << <<>> >> \in Seq(Dirs)
    BY <2>1
  <2>3. WalkTypes /\ (pending' = << <<>> >> \/ pending' = pending)
    BY DEF WalkInv
  <2>4. pending' \in Seq(Dirs)
    BY <2>2, <2>3 DEF WalkTypes
  <2> QED
    BY <2>3, <2>4 DEF WalkTypes
<1>3. \A s \in Slots : TaskInv(s)'
  BY <1>1 DEF TaskInv
<1>4. CoverInv'
  <2> SUFFICES ASSUME pc' = "walk", NEW path PROVE \E dir \in Above(path) : Open(dir)'
    BY DEF CoverInv
  <2>1. pending' = << <<>> >>
    OBVIOUS
  <2>2. Open(<<>>)'
    BY <2>1 DEF Open
  <2> QED
    BY <2>2 DEF Above
<1>5. ReportInv'
  BY <1>1 DEF WalkInv, ReportInv
<1>6. EndInv'
  BY DEF EndInv
<1> QED
  BY <1>2, <1>3, <1>4, <1>5, <1>6 DEF WalkInv

\* A popped directory that something depends on is not pruned: it gets a task.
LEMMA SpawnKeeps == ASSUME WalkInv, NEW s \in Slots, Spawn(s) PROVE WalkInv'
<1>1. WalkTypes /\ pending \in Seq(Dirs) /\ Len(pending) \in Nat \ {0}
  BY DEF Spawn, WalkInv, WalkTypes
<1>0. PICK dir \in Dirs : dir = pending[Len(pending)]
  BY <1>1
<1>2. /\ UNCHANGED <<tree, prune, pc, listed, steady, shifted, short, faults, changes>>
      /\ pc = "walk" /\ ~slot[s].active
      /\ slot' = IF Pruned(dir) THEN slot ELSE [slot EXCEPT ![s] = Task(dir)]
      /\ pending' = SubSeq(pending, 1, Len(pending) - 1)
  BY <1>0 DEF Spawn, history, Idle
<1>3. /\ pending' \in Seq(Dirs) /\ Len(pending') = Len(pending) - 1
      /\ \A i \in 1..(Len(pending) - 1) : pending'[i] = pending[i]
  <2> DEFINE n == Len(pending) - 1
             rest == SubSeq(pending, 1, n)
  <2>1. n \in Nat /\ n <= Len(pending)
    BY <1>1
  <2> HIDE DEF n
  <2>2. rest \in Seq(Dirs) /\ Len(rest) = n /\ \A i \in 1..n : rest[i] = pending[i]
    BY <1>1, <2>1
  <2> QED
    BY <1>2, <2>2 DEF n
<1>4. /\ Task(dir) \in SlotType /\ Task(dir).active /\ Task(dir).dir = dir
      /\ Task(dir).offset = 0 /\ Task(dir).items = {}
  BY NoTaskFacts
<1>5. slot \in [Slots -> SlotType] /\ slot' \in [Slots -> SlotType]
  BY <1>1, <1>2, <1>4 DEF WalkTypes
<1>6. WalkTypes'
  BY <1>1, <1>2, <1>3, <1>5 DEF WalkTypes
<1>7. \A t \in Slots : t # s => slot'[t] = slot[t]
  BY <1>2, <1>5
<1>8. \A t \in Slots : TaskInv(t)'
  <2>1. ASSUME NEW t \in Slots, slot'[t] = slot[t] PROVE TaskInv(t)'
    BY <1>1, <1>2, <2>1, TaskStays DEF WalkInv
  <2>2. ASSUME ~Pruned(dir), slot'[s] = Task(dir) PROVE TaskInv(s)'
    <3>1. /\ slot'[s].dir = dir /\ slot'[s].offset = 0 /\ slot'[s].items = {}
      BY <1>4, <2>2
    <3>2. \A path : Pruned(path)' <=> Pruned(path)
      BY <1>2 DEF Pruned
    <3>3. Kids(dir)' = Kids(dir)
      BY <1>2 DEF Kids
    <3>4. \A path \in Kids(dir) : Rank(path, Kids(dir)) > 0
      <4>1. Kids(dir) \subseteq Paths \ {<<>>}
        BY <1>1, KidsFacts
      <4>2. Cardinality(Kids(dir)) \in Nat
        BY <4>1, SomePaths
      <4>3. \A path \in Kids(dir) : Rank(path, Kids(dir)) \in 1..Cardinality(Kids(dir))
        BY <4>1, RankFacts
      <4> QED
        BY <4>2, <4>3
    <3> QED
      BY <2>2, <3>1, <3>2, <3>3, <3>4 DEF TaskInv
  <2>3. Pruned(dir) => slot' = slot
    BY <1>2
  <2>4. ~Pruned(dir) => slot'[s] = Task(dir)
    BY <1>2, <1>5
  <2> QED
    BY <1>7, <2>1, <2>2, <2>3, <2>4
<1>9. CoverInv'
  <2>1. ASSUME NEW path \in Reported(steady), NEW above \in Above(path), Open(above)
        PROVE  Open(above)'
    <3>1. ~Pruned(above)
      <4>1. steady \subseteq Paths
        BY <1>1 DEF WalkTypes
      <4> QED
        BY <1>1, <4>1, ReportedIsOpen
    <3>2. CASE \E t \in Slots : slot[t].active /\ slot[t].dir = above
      BY <1>2, <1>7, <3>2 DEF Open
    <3>3. CASE \E i \in 1..Len(pending) : pending[i] = above
      <4>1. PICK i \in 1..Len(pending) : pending[i] = above
        BY <3>3
      <4>2. CASE i # Len(pending)
        <5>1. i \in 1..(Len(pending) - 1) /\ i \in 1..Len(pending')
          BY <1>1, <1>3, <4>2
        <5> QED
          BY <1>3, <4>1, <5>1 DEF Open
      <4>3. CASE i = Len(pending)
        <5>1. above = dir
          BY <1>0, <4>1, <4>3
        <5>2. slot'[s] = Task(dir)
          BY <1>2, <1>5, <3>1, <5>1
        <5>3. slot'[s].active /\ slot'[s].dir = dir
          BY <1>4, <5>2
        <5> QED
          BY <5>1, <5>3 DEF Open
      <4> QED
        BY <4>2, <4>3
    <3> QED
      BY <2>1, <3>2, <3>3 DEF Open
  <2> QED
    BY <1>2, <2>1, CoverKept DEF WalkInv
<1>10. ReportInv'
  <2>1. slot'[s] = slot[s] \/ slot'[s].items = {}
    BY <1>2, <1>4, <1>5
  <2>2. \A t \in Slots : slot'[t] = slot[t] \/ slot'[t].items = {}
    BY <1>7, <2>1
  <2> QED
    BY <1>2, <2>2 DEF WalkInv, ReportInv
<1>11. EndInv'
  BY <1>2 DEF EndInv
<1> QED
  BY <1>6, <1>8, <1>9, <1>10, <1>11 DEF WalkInv

\* An error drops everything.
LEMMA AbortKeeps ==
    ASSUME WalkInv, NEW result \in {"not_found", "failed"}, Abort(result), faults' \in Nat
    PROVE  WalkInv'
<1>1. /\ UNCHANGED <<tree, prune, steady, shifted, short, changes>>
      /\ pc' = result /\ pending' = <<>> /\ slot' = [s \in Slots |-> NoTask] /\ listed' = {}
  BY DEF Abort, history
<1>2. NoTask \in SlotType /\ ~NoTask.active
  BY NoTaskFacts
<1>3. \A s \in Slots : ~slot'[s].active
  BY <1>1, <1>2
<1>4. WalkTypes'
  <2>1. slot' \in [Slots -> SlotType] /\ pending' \in Seq(Dirs)
    BY <1>1, <1>2
  <2> QED
    BY <1>1, <2>1 DEF WalkInv, WalkTypes
<1>5. \A s \in Slots : TaskInv(s)'
  BY <1>3 DEF TaskInv
<1>6. CoverInv' /\ EndInv'
  BY <1>1 DEF CoverInv, EndInv
<1>7. ReportInv'
  BY <1>1, <1>3 DEF WalkInv, ReportInv
<1> QED
  BY <1>4, <1>5, <1>6, <1>7 DEF WalkInv

\* The walk ends when nothing is open.
LEMMA FinishKeeps == ASSUME WalkInv, Finish PROVE WalkInv'
<1>1. /\ UNCHANGED <<tree, prune, pending, slot, listed, steady, shifted, short, faults, changes>>
      /\ pc = "walk" /\ pc' = "listed" /\ pending = <<>> /\ \A s \in Slots : ~slot[s].active
  BY DEF Finish, history, Idle
<1>2. WalkTypes'
  BY <1>1 DEF WalkInv, WalkTypes
<1>3. \A s \in Slots : TaskInv(s)'
  BY <1>1 DEF TaskInv
<1>4. CoverInv'
  <2>1. \A dir : Open(dir) => Open(dir)'
    BY <1>1 DEF Open
  <2> QED
    BY <1>1, <2>1, CoverKept DEF WalkInv
<1>5. ReportInv' /\ EndInv'
  BY <1>1 DEF WalkInv, ReportInv, EndInv
<1> QED
  BY <1>2, <1>3, <1>4, <1>5 DEF WalkInv

\* A page that is not the last one: the children up to the new offset have been read.
LEMMA PageKeeps ==
    ASSUME WalkInv, NEW s \in Slots, slot[s].active, slot' = [slot EXCEPT ![s] = Read(slot[s])],
           slot[s].dir \in tree, faults' \in Nat, pc = "walk", short \subseteq short',
           UNCHANGED <<tree, prune, pc, pending, listed, steady, shifted, changes>>
    PROVE  WalkInv'
<1> DEFINE page == Page(slot[s].dir, slot[s].offset)
<1>1. WalkTypes /\ slot \in [Slots -> SlotType] /\ slot[s] \in SlotType /\ TaskInv(s)
  BY DEF WalkInv, WalkTypes
<1>2. PICK read : read = Read(slot[s])
  OBVIOUS
<1>3. /\ read \in SlotType /\ read.active /\ read.dir = slot[s].dir
      /\ read.offset = slot[s].offset + Len(page)
      /\ read.items = slot[s].items \cup Entries(page)
      /\ Entries(page) \subseteq Kids(slot[s].dir)
      /\ \A path \in read.items : path # <<>> /\ Parent(path) = slot[s].dir
      /\ \A path \in read.items \cap Dirs :
            Pruned(path) \/ \E i \in 1..Len(read.subdirs) : read.subdirs[i] = path
  BY <1>1, <1>2, ReadFacts
<1>4. slot'[s] = read /\ (\A t \in Slots : t # s => slot'[t] = slot[t])
      /\ slot' \in [Slots -> SlotType]
  BY <1>1, <1>2, <1>3
<1>5. WalkTypes'
  BY <1>1, <1>4 DEF WalkTypes
<1>6. \A t \in Slots : TaskInv(t)'
  <2>1. ASSUME NEW t \in Slots, t # s PROVE TaskInv(t)'
    <3>1. slot'[t] = slot[t] /\ TaskInv(t)
      BY <1>4, <2>1 DEF WalkInv
    <3> QED
      BY <1>1, <3>1, TaskStays
  <2>2. TaskInv(s)'
    <3>1. \A path : Pruned(path)' <=> Pruned(path)
      BY DEF Pruned
    <3>2. PICK dir : dir = slot[s].dir
      OBVIOUS
    <3>3. Kids(dir)' = Kids(dir)
      BY DEF Kids
    <3>4. ASSUME dir \notin shifted, NEW path \in steady \cap Kids(dir)
          PROVE  path \in read.items \/ Rank(path, Kids(dir)) > read.offset
      <4>1. path \in slot[s].items \/ Rank(path, Kids(dir)) > slot[s].offset
        BY <1>1, <3>2, <3>4 DEF TaskInv
      <4>2. slot[s].offset \in Nat
        BY <1>1 DEF SlotType
      <4>3. /\ Len(page) \in Nat /\ Len(Children(dir)) \in Nat
            /\ Rank(path, Kids(dir)) \in 1..Len(Children(dir))
            /\ \/ Rank(path, Kids(dir)) <= slot[s].offset
               \/ path \in Entries(page)
               \/ Rank(path, Kids(dir)) > slot[s].offset + Len(page)
        BY <1>1, <3>2, <3>4, <4>2, PageFacts
      <4> HIDE DEF page
      <4> QED
        BY <1>3, <4>1, <4>2, <4>3
    <3>5. slot'[s].dir = dir
      BY <1>3, <1>4, <3>2
    <3>6. ~Pruned(dir)
      BY <1>1, <3>2 DEF TaskInv
    <3> QED
      BY <1>3, <1>4, <3>1, <3>2, <3>3, <3>4, <3>5, <3>6 DEF TaskInv
  <2> QED
    BY <2>1, <2>2
<1>7. CoverInv'
  <2>1. \A dir : Open(dir) => Open(dir)'
    BY <1>3, <1>4 DEF Open
  <2> QED
    BY <2>1, CoverKept DEF WalkInv
<1>8. ReportInv'
  <2>1. Entries(page) \subseteq tree
    BY <1>3 DEF Kids
  <2>2. ReportInv
    BY DEF WalkInv
  <2> HIDE DEF page
  <2>3. changes = 0 => \A t \in Slots : slot'[t].active => slot'[t].items \subseteq tree
    BY <1>3, <1>4, <2>1, <2>2 DEF ReportInv
  <2> QED
    BY <2>2, <2>3 DEF ReportInv
<1>9. EndInv'
  BY DEF EndInv
<1> QED
  BY <1>5, <1>6, <1>7, <1>8, <1>9 DEF WalkInv

\* The last page of a directory: what has been there all the time has been read, and of
\* its directories those that are not pruned are open now, unless something was removed
\* from it or its total was missing.
LEMMA LastPageKeeps ==
    ASSUME WalkInv, NEW s \in Slots, slot[s].active, slot' = [slot EXCEPT ![s] = NoTask],
           slot[s].dir \in tree, faults' \in Nat, pc = "walk", short \subseteq short',
           pending' = pending \o Read(slot[s]).subdirs,
           listed' = listed \cup Read(slot[s]).items,
           \/ slot[s].dir \in short'
           \/ LastPage(Page(slot[s].dir, slot[s].offset),
                       slot[s].offset + Len(Page(slot[s].dir, slot[s].offset)),
                       Len(Children(slot[s].dir))),
           UNCHANGED <<tree, prune, pc, steady, shifted, changes>>
    PROVE  WalkInv'
<1> DEFINE page == Page(slot[s].dir, slot[s].offset)
<1>1. WalkTypes /\ slot \in [Slots -> SlotType] /\ slot[s] \in SlotType /\ TaskInv(s)
  BY DEF WalkInv, WalkTypes
<1>2. PICK read : read = Read(slot[s])
  OBVIOUS
<1>3. /\ read \in SlotType /\ read.active /\ read.dir = slot[s].dir
      /\ read.offset = slot[s].offset + Len(page)
      /\ read.items = slot[s].items \cup Entries(page)
      /\ Entries(page) \subseteq Kids(slot[s].dir)
      /\ \A path \in read.items : path # <<>> /\ Parent(path) = slot[s].dir
      /\ \A path \in read.items \cap Dirs :
            Pruned(path) \/ \E i \in 1..Len(read.subdirs) : read.subdirs[i] = path
  BY <1>1, <1>2, ReadFacts
<1>4. /\ slot'[s] = NoTask /\ (\A t \in Slots : t # s => slot'[t] = slot[t])
      /\ slot' \in [Slots -> SlotType] /\ ~slot'[s].active
  BY <1>1, NoTaskFacts
<1>5. /\ pending \in Seq(Dirs) /\ pending' \in Seq(Dirs)
      /\ \A i \in 1..Len(pending) : i \in 1..Len(pending') /\ pending'[i] = pending[i]
      /\ \A i \in 1..Len(read.subdirs) :
            Len(pending) + i \in 1..Len(pending') /\ pending'[Len(pending) + i] = read.subdirs[i]
  <2>1. pending \in Seq(Dirs) /\ read.subdirs \in Seq(Dirs)
    BY <1>1, <1>3 DEF WalkTypes, SlotType
  <2>2. ASSUME NEW one \in Seq(Dirs), NEW two \in Seq(Dirs)
        PROVE  /\ one \o two \in Seq(Dirs)
               /\ \A i \in 1..Len(one) : i \in 1..Len(one \o two) /\ (one \o two)[i] = one[i]
               /\ \A i \in 1..Len(two) :
                     Len(one) + i \in 1..Len(one \o two) /\ (one \o two)[Len(one) + i] = two[i]
    OBVIOUS
  <2>3. pending' = pending \o read.subdirs
    BY <1>2
  <2> QED
    BY <2>1, <2>2, <2>3
<1>6. listed' = listed \cup read.items /\ read.items \subseteq Paths
  BY <1>2, <1>3 DEF SlotType
<1>7. WalkTypes'
  BY <1>1, <1>4, <1>5, <1>6 DEF WalkTypes
<1>8. \A t \in Slots : TaskInv(t)'
  <2>1. ASSUME NEW t \in Slots, t # s PROVE TaskInv(t)'
    <3>1. slot'[t] = slot[t] /\ TaskInv(t)
      BY <1>4, <2>1 DEF WalkInv
    <3> QED
      BY <1>1, <3>1, TaskStays
  <2>2. TaskInv(s)'
    BY <1>4 DEF TaskInv
  <2> QED
    BY <2>1, <2>2
<1>9. CoverInv'
  <2>1. ASSUME NEW path \in Reported(steady), NEW dir \in Above(path), Open(dir)
        PROVE  \/ path \in listed' \/ Disturbed(path)'
               \/ \E other \in Above(path) : Open(other)'
    <3>1. CASE \E i \in 1..Len(pending) : pending[i] = dir
      BY <1>5, <3>1 DEF Open
    <3>2. CASE \E t \in Slots \ {s} : slot[t].active /\ slot[t].dir = dir
      BY <1>4, <3>2 DEF Open
    <3>3. CASE slot[s].dir = dir
      <4>1. path \in steady /\ path # <<>> /\ path \in Seq(STRING) /\ steady \subseteq Paths
        BY <1>1, PathsFacts DEF Reported, WalkTypes
      <4>2. PICK child \in {path} \cup Ancestors(path) : child # <<>> /\ Parent(child) = dir
        BY <4>1, ChildToward
      <4>3. child \in steady /\ child \in Kids(dir)
        BY <1>1, <4>1, <4>2 DEF WalkTypes, AncestorClosed, Kids
      <4>4. CASE dir \in shifted \cup short'
        BY <2>1, <4>4 DEF Disturbed
      <4>5. CASE dir \notin shifted \cup short'
        <5>1. child \in slot[s].items \/ Rank(child, Kids(dir)) > slot[s].offset
          BY <1>1, <3>3, <4>3, <4>5 DEF TaskInv
        <5>2. LastPage(page, slot[s].offset + Len(page), Len(Children(dir))) /\ slot[s].offset \in Nat
          BY <1>1, <3>3, <4>5 DEF SlotType
        <5>3. child \in slot[s].items \/ child \in Entries(page)
          BY <1>1, <3>3, <4>3, <5>1, <5>2, LastPageIsLast
        <5>4. child \in read.items
          BY <1>3, <5>3
        <5>5. CASE child = path
          BY <1>6, <5>4, <5>5
        <5>6. CASE child \in Ancestors(path)
          <6>1. child \in Above(path) /\ child \in Dirs
            BY <4>1, <5>6, ListingAssumption DEF Above
          <6>2. ~Pruned(child)
            BY <1>1, <4>1, <6>1, ReportedIsOpen
          <6>3. PICK i \in 1..Len(read.subdirs) : read.subdirs[i] = child
            BY <1>3, <5>4, <6>1, <6>2
          <6>4. Len(pending) + i \in 1..Len(pending') /\ pending'[Len(pending) + i] = child
            BY <1>5, <6>3
          <6> QED
            BY <6>1, <6>4 DEF Open
        <5> QED
          BY <4>2, <5>5, <5>6
      <4> QED
        BY <4>4, <4>5
    <3> QED
      BY <2>1, <3>1, <3>2, <3>3 DEF Open
  <2> QED
    BY <1>6, <2>1, CoverKept DEF WalkInv
<1>10. ReportInv'
  <2>1. Entries(page) \subseteq tree
    BY <1>3 DEF Kids
  <2>2. ReportInv
    BY DEF WalkInv
  <2>3. ~Pruned(slot[s].dir)
    BY <1>1 DEF TaskInv
  <2>4. \A path \in read.items : path # <<>> /\ ~\E prefix \in prune : Below(path, prefix)
    BY <1>1, <1>3, <1>6, <2>3, ReadIsReported
  <2> HIDE DEF page
  <2>5. changes = 0 => /\ \A t \in Slots : slot'[t].active => slot'[t].items \subseteq tree
                       /\ listed' \subseteq tree
    BY <1>3, <1>4, <1>6, <2>1, <2>2 DEF ReportInv
  <2> QED
    BY <1>6, <2>2, <2>4, <2>5 DEF ReportInv
<1>11. EndInv'
  BY DEF EndInv
<1> QED
  BY <1>7, <1>8, <1>9, <1>10, <1>11 DEF WalkInv

\* One page of a task, with its total or without.
LEMMA ReadPageKeeps ==
    ASSUME WalkInv, NEW s \in Slots, NEW hasTotal \in BOOLEAN, ReadPage(s, hasTotal)
    PROVE  WalkInv'
<1> DEFINE page == Page(slot[s].dir, slot[s].offset)
           total == IF hasTotal THEN Len(Children(slot[s].dir)) ELSE 0
<1>1. slot[s] \in SlotType /\ faults \in Nat /\ WalkTypes /\ TaskInv(s)
  BY DEF WalkInv, WalkTypes
<1>2. pc = "walk" /\ slot[s].active /\ slot[s].dir \in tree
      /\ UNCHANGED <<tree, prune, pc, steady, shifted, changes>>
  BY DEF ReadPage, Idle
<1>3. faults' \in Nat /\ short \subseteq short' /\ (hasTotal \/ slot[s].dir \in short')
  BY <1>1 DEF ReadPage, Fault
<1>4. Read(slot[s]).offset = slot[s].offset + Len(page)
  BY <1>1, <1>2, ReadFacts
<1>5. IF LastPage(page, Read(slot[s]).offset, total)
      THEN /\ slot' = [slot EXCEPT ![s] = NoTask]
           /\ pending' = pending \o Read(slot[s]).subdirs
           /\ listed' = listed \cup Read(slot[s]).items
      ELSE /\ slot' = [slot EXCEPT ![s] = Read(slot[s])]
           /\ UNCHANGED <<pending, listed>>
  BY DEF ReadPage, Read
<1>6. CASE LastPage(page, Read(slot[s]).offset, total)
  <2>1. \/ slot[s].dir \in short'
        \/ LastPage(page, slot[s].offset + Len(page), Len(Children(slot[s].dir)))
    BY <1>3, <1>4, <1>6
  <2> QED
    BY <1>2, <1>3, <1>5, <1>6, <2>1, LastPageKeeps
<1>7. CASE ~LastPage(page, Read(slot[s]).offset, total)
  BY <1>2, <1>3, <1>5, <1>7, PageKeeps
<1> QED
  BY <1>6, <1>7

\* A change of the disk keeps the walk, if no directory's remaining children move to the
\* front except where something was removed.
LEMMA ChangeKeeps ==
    ASSUME WalkInv, Change, tree' \subseteq Paths, steady' \subseteq steady, steady' \subseteq tree',
           AncestorClosed(steady'), shifted \subseteq shifted',
           \A dir \in Dirs \ shifted' : \A path \in steady' \cap Kids(dir)' :
               /\ path \in Kids(dir) /\ Rank(path, Kids(dir)) \in Nat
               /\ Rank(path, Kids(dir)') \in Nat
               /\ Rank(path, Kids(dir)) <= Rank(path, Kids(dir)')
    PROVE  WalkInv'
<1>1. UNCHANGED <<prune, pc, pending, slot, listed, short, faults>> /\ changes' = changes + 1
      /\ pc \in {"root", "walk"}
  BY DEF Change, walk
<1>2. WalkTypes /\ changes \in Nat
  BY DEF WalkInv, WalkTypes
<1>3. changes' \in Nat /\ changes' # 0
  BY <1>1, <1>2
<1>4. WalkTypes'
  BY <1>1, <1>2, <1>3 DEF WalkTypes
<1>5. ASSUME NEW s \in Slots PROVE TaskInv(s)'
  <2>1. slot[s].dir \in Dirs /\ slot[s].offset \in Nat /\ TaskInv(s) /\ slot'[s] = slot[s]
    BY <1>1, <1>2 DEF WalkInv, WalkTypes, SlotType
  <2>2. PICK dir : dir = slot[s].dir
    OBVIOUS
  <2>3. dir \notin shifted' => \A path \in steady' \cap Kids(dir)' :
               /\ path \in Kids(dir) /\ Rank(path, Kids(dir)) \in Nat
               /\ Rank(path, Kids(dir)') \in Nat
               /\ Rank(path, Kids(dir)) <= Rank(path, Kids(dir)')
    BY <2>1, <2>2
  <2>4. Kids(slot[s].dir)' = Kids(dir)'
    BY <1>1, <2>2 DEF Kids
  <2> QED
    BY <1>1, <2>1, <2>2, <2>3, <2>4, TaskKept
<1>6. CoverInv'
  <2>1. \A dir : Open(dir) => Open(dir)'
    BY <1>1 DEF Open
  <2> QED
    BY <1>1, <2>1, CoverKept DEF WalkInv
<1>7. ReportInv' /\ EndInv'
  BY <1>1, <1>3 DEF WalkInv, ReportInv, EndInv
<1> QED
  BY <1>4, <1>5, <1>6, <1>7 DEF WalkInv

\* The ranks of a directory's children are numbers.
LEMMA RankIsNat ==
    ASSUME NEW paths, paths \subseteq Paths \ {<<>>}, NEW path \in paths
    PROVE  Rank(path, paths) \in Nat
<1>1. Cardinality(paths) \in Nat
  BY SomePaths
<1>2. Rank(path, paths) \in 1..Cardinality(paths)
  BY RankFacts
<1> QED
  BY <1>1, <1>2

\* An addition moves children back, never to the front.
LEMMA AddKeeps == ASSUME WalkInv, NEW path \in Paths, Add(path) PROVE WalkInv'
<1>1. WalkTypes /\ tree \subseteq Paths /\ steady \subseteq tree /\ AncestorClosed(steady)
  BY DEF WalkInv, WalkTypes
<1>2. Change /\ tree' = tree \cup {path} /\ UNCHANGED <<steady, shifted>>
  BY DEF Add
<1>3. ASSUME NEW dir \in Dirs, NEW child \in steady' \cap Kids(dir)'
      PROVE  /\ child \in Kids(dir) /\ Rank(child, Kids(dir)) \in Nat
             /\ Rank(child, Kids(dir)') \in Nat
             /\ Rank(child, Kids(dir)) <= Rank(child, Kids(dir)')
  <2>1. child \in Kids(dir) /\ Kids(dir) \subseteq Kids(dir)' /\ Kids(dir)' \subseteq Paths \ {<<>>}
    BY <1>1, <1>2 DEF Kids
  <2>2. PICK few, many : few = Kids(dir) /\ many = Kids(dir)'
    OBVIOUS
  <2>3. few \subseteq many /\ many \subseteq Paths \ {<<>>} /\ child \in few
    BY <2>1, <2>2
  <2>4. Rank(child, few) \in Nat /\ Rank(child, many) \in Nat
    BY <2>3, RankIsNat
  <2>5. Rank(child, few) <= Rank(child, many)
    BY <2>3, RankGrows
  <2> QED
    BY <2>1, <2>2, <2>4, <2>5
<1>4. tree' \subseteq Paths /\ steady' \subseteq steady /\ steady' \subseteq tree'
      /\ AncestorClosed(steady') /\ shifted \subseteq shifted'
  BY <1>1, <1>2
<1> QED
  BY <1>2, <1>3, <1>4, ChangeKeeps

\* A removal moves the children of its own directory to the front, and no others that
\* remain.
LEMMA RemoveKeeps == ASSUME WalkInv, NEW path \in Paths, Remove(path) PROVE WalkInv'
<1>1. WalkTypes /\ tree \subseteq Paths /\ steady \subseteq tree /\ AncestorClosed(steady)
  BY DEF WalkInv, WalkTypes
<1>2. /\ Change /\ tree' = { other \in tree : ~Covers(path, other) }
      /\ steady' = steady \cap tree' /\ shifted \subseteq shifted'
      /\ path # <<>> => Parent(path) \in shifted'
  BY DEF Remove
<1>3. Paths \subseteq Seq(STRING) /\ path \in Seq(STRING)
  BY PathsFacts
<1>4. AncestorClosed(steady')
  <2> SUFFICES ASSUME NEW other \in steady', NEW dir \in Ancestors(other) PROVE dir \in steady'
    BY DEF AncestorClosed
  <2>1. other \in Seq(STRING) /\ other \in steady /\ ~Covers(path, other)
    BY <1>1, <1>2, <1>3
  <2>2. dir \in steady
    BY <1>1, <2>1 DEF AncestorClosed
  <2>3. dir \in Seq(STRING) /\ Covers(dir, other)
    BY <2>1, AncestorCovers
  <2>4. ~Covers(path, dir)
    BY <1>3, <2>1, <2>3, CoversTransitive
  <2> QED
    BY <1>1, <1>2, <2>2, <2>4
<1>5. ASSUME NEW dir \in Dirs \ shifted', NEW child \in steady' \cap Kids(dir)'
      PROVE  /\ child \in Kids(dir) /\ Rank(child, Kids(dir)) \in Nat
             /\ Rank(child, Kids(dir)') \in Nat
             /\ Rank(child, Kids(dir)) <= Rank(child, Kids(dir)')
  <2>1. /\ child \in Kids(dir) /\ Kids(dir) \subseteq Paths \ {<<>>} /\ Kids(dir)' \subseteq Kids(dir)
        /\ child \in Seq(STRING) \ {<<>>} /\ Parent(child) = dir /\ ~Covers(path, child)
    BY <1>1, <1>2, <1>3 DEF Kids
  <2>2. path # <<>>
    <3>1. <<>> \in Above(child) /\ child \in Seq(STRING) /\ child # <<>>
      BY <2>1 DEF Above
    <3> QED
      BY <2>1, <3>1, AboveCovers
  <2>3. ASSUME NEW other \in Kids(dir) PROVE other \in Kids(dir)'
    <3> SUFFICES ASSUME Covers(path, other) PROVE FALSE
      BY <1>2 DEF Kids
    <3>1. other \in Seq(STRING) /\ other # <<>> /\ Parent(other) = dir
      BY <1>3, <2>1 DEF Kids
    <3>2. path # other
      BY <1>2, <2>2, <3>1
    <3>3. Covers(path, dir)
      BY <1>3, <3>1, <3>2, ParentFacts
    <3>4. dir \in Seq(STRING) /\ Covers(dir, child)
      BY <2>1, ParentFacts
    <3> QED
      BY <1>3, <2>1, <3>3, <3>4, CoversTransitive
  <2>4. Kids(dir)' = Kids(dir)
    BY <2>1, <2>3
  <2>5. PICK kids : kids = Kids(dir)
    OBVIOUS
  <2>6. Rank(child, kids) \in Nat
    BY <2>1, <2>5, RankIsNat
  <2>7. Rank(child, kids) <= Rank(child, kids)
    BY <2>6
  <2> QED
    BY <2>1, <2>4, <2>5, <2>6, <2>7
<1>6. tree' \subseteq Paths /\ steady' \subseteq steady /\ steady' \subseteq tree'
  BY <1>1, <1>2
<1> QED
  BY <1>2, <1>4, <1>5, <1>6, ChangeKeeps

\* The invariant of the walk holds throughout.
LEMMA WalkInvariant == WalkSpec => []WalkInv
<1>1. WalkInit => WalkInv
  BY WalkStarts
<1>2. WalkInv /\ [WalkNext]_walkVars => WalkInv'
  <2> SUFFICES ASSUME WalkInv, [WalkNext]_walkVars PROVE WalkInv'
    OBVIOUS
  <2>1. CASE FindRoot
    BY <2>1, FindRootKeeps
  <2>2. CASE Finish
    BY <2>2, FinishKeeps
  <2>3. ASSUME NEW s \in Slots, Spawn(s) PROVE WalkInv'
    BY <2>3, SpawnKeeps
  <2>4. ASSUME NEW s \in Slots, NEW hasTotal \in BOOLEAN, ReadPage(s, hasTotal) PROVE WalkInv'
    BY <2>4, ReadPageKeeps
  <2>5. ASSUME NEW s \in Slots, DirectoryNotFound(s) PROVE WalkInv'
    <3>1. faults' \in Nat /\ Abort("not_found")
      BY <2>5 DEF DirectoryNotFound, WalkInv, WalkTypes
    <3> QED
      BY <3>1, AbortKeeps
  <2>6. ASSUME NEW s \in Slots, PageFails(s) PROVE WalkInv'
    <3>1. faults' \in Nat /\ Abort("failed")
      BY <2>6 DEF PageFails, Fault, WalkInv, WalkTypes
    <3> QED
      BY <3>1, AbortKeeps
  <2>7. ASSUME NEW path \in Paths, Remove(path) \/ Add(path) PROVE WalkInv'
    BY <2>7, RemoveKeeps, AddKeeps
  <2>8. CASE UNCHANGED walkVars
    <3>1. UNCHANGED <<tree, prune, pc, pending, slot, listed, steady, shifted, short, faults, changes>>
      BY <2>8 DEF walkVars, walk, history
    <3>2. WalkTypes'
      BY <3>1 DEF WalkInv, WalkTypes
    <3>3. \A s \in Slots : TaskInv(s)'
      BY <3>1, TaskStays DEF WalkInv
    <3>4. CoverInv'
      <4>1. \A dir : Open(dir) => Open(dir)'
        BY <3>1 DEF Open
      <4> QED
        BY <3>1, <4>1, CoverKept DEF WalkInv
    <3>5. ReportInv' /\ EndInv'
      BY <3>1 DEF WalkInv, ReportInv, EndInv
    <3> QED
      BY <3>2, <3>3, <3>4, <3>5 DEF WalkInv
  <2> QED
    BY <2>1, <2>2, <2>3, <2>4, <2>5, <2>6, <2>7, <2>8 DEF WalkNext, WalkSteps
<1> QED
  BY <1>1, <1>2, PTL DEF WalkSpec

\* When the walk has ended nothing is open.
LEMMA NothingOpen ==
    ASSUME WalkInv, pc = "listed", NEW dir
    PROVE  ~Open(dir)
<1>1. pending = <<>> /\ \A s \in Slots : ~slot[s].active
  BY DEF WalkInv, EndInv
<1>2. Len(pending) = 0
  BY <1>1
<1> QED
  BY <1>1, <1>2 DEF Open

\* Paging by offset loses a path that was on the disk all the time only if something was
\* removed from a directory above it, or a page there came without its total.
THEOREM ListingMissesOnlyWhereShifted == WalkSpec => []MissedOnlyWhereShifted
<1>1. WalkInv => MissedOnlyWhereShifted
  <2> SUFFICES ASSUME WalkInv, pc = "listed", NEW path \in Reported(steady) \ listed
               PROVE  \E dir \in {<<>>} \cup Ancestors(path) : dir \in shifted \cup short
    BY DEF MissedOnlyWhereShifted
  <2>1. \A dir : ~Open(dir)
    BY NothingOpen
  <2>2. path \in listed \/ Disturbed(path) \/ \E dir \in Above(path) : Open(dir)
    BY DEF WalkInv, CoverInv
  <2> QED
    BY <2>1, <2>2 DEF Disturbed, Above
<1> QED
  BY <1>1, WalkInvariant, PTL

\* A walk that nobody disturbs reports exactly the tree, without what is below a pruned
\* directory.
THEOREM QuietListingIsExact == WalkSpec => []QuietWalkIsExact
<1>1. WalkInv => QuietWalkIsExact
  <2> SUFFICES ASSUME WalkInv, pc = "listed", changes = 0, short = {} PROVE listed = Reported(tree)
    BY DEF QuietWalkIsExact
  <2>1. steady = tree /\ shifted = {} /\ listed \subseteq tree
    BY DEF WalkInv, ReportInv
  <2>2. listed \subseteq Reported(tree)
    BY <2>1 DEF WalkInv, ReportInv, Reported
  <2>3. ASSUME NEW path \in Reported(tree) PROVE path \in listed
    <3>1. \A dir : ~Open(dir)
      BY NothingOpen
    <3>2. ~Disturbed(path)
      BY <2>1 DEF Disturbed
    <3>3. path \in listed \/ Disturbed(path) \/ \E dir \in Above(path) : Open(dir)
      BY <2>1, <2>3 DEF WalkInv, CoverInv
    <3> QED
      BY <3>1, <3>2, <3>3
  <2> QED
    BY <2>2, <2>3
<1> QED
  BY <1>1, WalkInvariant, PTL

=============================================================================
