-------------------------- MODULE MirrorPlanProofs ---------------------------
(* Facts about paths that the proofs about the plan and the runs share.        *)
EXTENDS MirrorPlan, WellFoundedInduction, TLAPS

\* A path that covers another one is that path or one of the directories above it:
\* the prefix test of the code (strip_prefix and a '/') is the tree's own order.
LEMMA CoversIsAncestor ==
    ASSUME NEW prefix \in Seq(STRING), NEW path \in Seq(STRING),
           prefix # <<>>, prefix # path, Covers(prefix, path)
    PROVE  prefix \in Ancestors(path)
<1>1. Len(prefix) \in Nat \ {0} /\ Len(prefix) <= Len(path)
  BY DEF Covers
<1>2. Len(prefix) # Len(path)
  <2> SUFFICES ASSUME Len(prefix) = Len(path) PROVE FALSE
    OBVIOUS
  <2>1. SubSeq(path, 1, Len(path)) = path
    OBVIOUS
  <2> QED
    BY <2>1 DEF Covers
<1>3. Len(prefix) \in 1..(Len(path) - 1)
  BY <1>1, <1>2
<1>4. prefix = SubSeq(path, 1, Len(prefix))
  BY DEF Covers
<1> QED
  BY <1>3, <1>4 DEF Ancestors

\* The directories above a path are paths.
LEMMA AncestorsAreSeqs ==
    ASSUME NEW path \in Seq(STRING)
    PROVE  Ancestors(path) \subseteq Seq(STRING) \ {<<>>}
<1> SUFFICES ASSUME NEW n \in 1..(Len(path) - 1)
             PROVE  SubSeq(path, 1, n) \in Seq(STRING) /\ SubSeq(path, 1, n) # <<>>
  BY DEF Ancestors
<1>1. SubSeq(path, 1, n) \in Seq(STRING) /\ Len(SubSeq(path, 1, n)) = n
  OBVIOUS
<1> QED
  BY <1>1

\* A path covers another one if it agrees with it segment by segment.
LEMMA CoversPointwise ==
    ASSUME NEW a \in Seq(STRING), NEW b \in Seq(STRING)
    PROVE  Covers(a, b) <=> Len(a) <= Len(b) /\ \A i \in 1..Len(a) : a[i] = b[i]
<1>1. ASSUME Len(a) <= Len(b)
      PROVE  /\ SubSeq(b, 1, Len(a)) \in Seq(STRING) /\ Len(SubSeq(b, 1, Len(a))) = Len(a)
             /\ \A i \in 1..Len(a) : SubSeq(b, 1, Len(a))[i] = b[i]
  BY <1>1
<1> QED
  BY <1>1 DEF Covers

\* The tree's order is transitive.
LEMMA CoversTransitive ==
    ASSUME NEW a \in Seq(STRING), NEW b \in Seq(STRING), NEW c \in Seq(STRING),
           Covers(a, b), Covers(b, c)
    PROVE  Covers(a, c)
<1>1. Len(a) <= Len(b) /\ \A i \in 1..Len(a) : a[i] = b[i]
  BY CoversPointwise
<1>2. Len(b) <= Len(c) /\ \A i \in 1..Len(b) : b[i] = c[i]
  BY CoversPointwise
<1>3. Len(a) <= Len(c) /\ \A i \in 1..Len(a) : a[i] = c[i]
  BY <1>1, <1>2
<1> QED
  BY <1>3, CoversPointwise

\* Two paths that cover each other are one.
LEMMA CoversAntisymmetric ==
    ASSUME NEW a \in Seq(STRING), NEW b \in Seq(STRING), Covers(a, b), Covers(b, a)
    PROVE  a = b
<1>1. Len(a) = Len(b) /\ \A i \in 1..Len(a) : a[i] = b[i]
  BY CoversPointwise
<1> QED
  BY <1>1

\* Of two directories above one path one is above the other.
LEMMA CoversLinear ==
    ASSUME NEW a \in Seq(STRING), NEW b \in Seq(STRING), NEW c \in Seq(STRING),
           Covers(a, c), Covers(b, c), Len(a) <= Len(b)
    PROVE  Covers(a, b)
<1>1. \A i \in 1..Len(a) : a[i] = c[i] /\ b[i] = c[i]
  BY CoversPointwise
<1> QED
  BY <1>1, CoversPointwise

\* What is above a path covers it and is shorter.
LEMMA AncestorCovers ==
    ASSUME NEW path \in Seq(STRING), NEW prefix \in Ancestors(path)
    PROVE  /\ prefix \in Seq(STRING) /\ prefix # <<>> /\ Len(prefix) < Len(path)
           /\ Covers(prefix, path)
<1>1. PICK n \in 1..(Len(path) - 1) : prefix = SubSeq(path, 1, n)
  BY DEF Ancestors
<1>2. prefix \in Seq(STRING) /\ Len(prefix) = n
  BY <1>1
<1> QED
  BY <1>1, <1>2 DEF Covers

\* Some numbers have a least one.
LEMMA LeastNumber ==
    ASSUME NEW numbers, numbers \subseteq Nat, numbers # {}
    PROVE  \E n \in numbers : \A m \in numbers : n <= m
<1> DEFINE R == { ss \in Nat \X Nat : ss[1] < ss[2] }
<1>1. IsWellFoundedOn(R, Nat)
  BY NatLessThanWellFounded, Zenon DEF OpToRel
<1>2. PICK n \in numbers : \A m \in numbers : ~ (<<m, n>> \in R)
  <2> HIDE DEF R
  <2> QED
    BY <1>1, WFMin
<1>3. ASSUME NEW m \in numbers PROVE n <= m
  <2>1. m \in Nat /\ n \in Nat
    OBVIOUS
  <2>2. ~ (<<m, n>> \in R)
    BY <1>2
  <2> QED
    BY <2>1, <2>2
<1> QED
  BY <1>3

\* The shortest of some paths is one of them and no longer than the others: what
\* the top-down loop of top_missing_remote_directory_prefix returns.
LEMMA ShortestIsLeast ==
    ASSUME NEW prefixes, prefixes \subseteq Seq(STRING), prefixes # {}
    PROVE  /\ Shortest(prefixes) \in prefixes
           /\ \A other \in prefixes : Len(Shortest(prefixes)) <= Len(other)
<1> DEFINE lengths == { Len(path) : path \in prefixes }
<1>1. lengths \subseteq Nat /\ lengths # {}
  <2>1. \A path \in prefixes : Len(path) \in Nat
    OBVIOUS
  <2> QED
    BY <2>1
<1>2. PICK n \in lengths : \A m \in lengths : n <= m
  <2> HIDE DEF lengths
  <2> QED
    BY <1>1, LeastNumber
<1>3. PICK path \in prefixes : Len(path) = n
  OBVIOUS
<1>4. \A other \in prefixes : Len(path) <= Len(other)
  BY <1>2, <1>3
<1> QED
  BY <1>4 DEF Shortest

=============================================================================
