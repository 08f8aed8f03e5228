------------------------------ MODULE LeftFold ------------------------------
(***************************************************************************)
(* What FoldLeft of the community modules returns, for one operator Op and *)
(* one base: the base of the empty sequence, and one more step of Op for   *)
(* every element appended.  A module that folds takes an instance of this  *)
(* one for its own operator.  FoldLeft recurs over sets of indices, so the *)
(* facts rest on an induction; it is had from the minimum of a well        *)
(* founded set.                                                            *)
(***************************************************************************)
EXTENDS Integers, SequencesExt, SequenceTheorems, WellFoundedInduction, TLAPS

CONSTANTS Op(_, _), Base

Folded(s) == FoldLeft(Op, Base, s)

-----------------------------------------------------------------------------
(* Induction over sets of numbers and of sequences.                        *)

Less == OpToRel(<, Nat)

LEMMA LessIsLess == \A m, n \in Nat : <<m, n>> \in Less <=> m < n
  BY DEF Less, OpToRel

(***************************************************************************)
(* A set of numbers with 0 and every successor is all of Nat: the least    *)
(* number outside has a predecessor inside.                                *)
(***************************************************************************)
THEOREM NatSetInduction ==
  ASSUME NEW T \in SUBSET Nat, 0 \in T, \A n \in T : n + 1 \in T
  PROVE  T = Nat
<1> DEFINE U == Nat \ T
<1>1. SUFFICES ASSUME U # {} PROVE FALSE
  OBVIOUS
<1>2. PICK least \in U : \A n \in U : <<n, least>> \notin Less
  <2>1. U \subseteq Nat
    OBVIOUS
  <2>2. IsWellFoundedOn(Less, Nat)
    BY NatLessThanWellFounded DEF Less
  <2> HIDE DEF U
  <2>3. QED
    BY <1>1, <2>1, <2>2, WFMin
<1>3. least # 0 /\ least - 1 \in Nat /\ least - 1 < least
  OBVIOUS
<1>4. least - 1 \in T
  <2>1. <<least - 1, least>> \in Less
    BY <1>3, LessIsLess
  <2>2. QED
    BY <1>2, <1>3, <2>1
<1>5. QED
  BY <1>3, <1>4

(***************************************************************************)
(* A set of sequences with the empty one and every extension of a member   *)
(* is all of Seq(C): by induction on the length.                           *)
(***************************************************************************)
THEOREM SeqSetInduction ==
  ASSUME NEW C, NEW T \in SUBSET Seq(C), << >> \in T,
         \A s \in T, c \in C : Append(s, c) \in T
  PROVE  T = Seq(C)
<1> DEFINE N == {n \in Nat : \A s \in Seq(C) : Len(s) = n => s \in T}
<1>1. 0 \in N
  <2>1. SUFFICES ASSUME NEW s \in Seq(C), Len(s) = 0 PROVE s \in T
    OBVIOUS
  <2>2. QED
    BY <2>1, EmptySeq
<1>2. ASSUME NEW n \in N PROVE n + 1 \in N
  <2>1. SUFFICES ASSUME NEW s \in Seq(C), Len(s) = n + 1 PROVE s \in T
    OBVIOUS
  <2>2. s # << >>
    BY <2>1, EmptySeq
  <2>3. PICK t \in Seq(C), c \in C : s = Append(t, c)
    BY <2>2, SequenceEmptyOrAppend
  <2>4. Len(t) = n
    BY <2>1, <2>3, AppendProperties, LenProperties
  <2>5. QED
    BY <2>3, <2>4
<1>3. N = Nat
  <2>1. N \in SUBSET Nat
    OBVIOUS
  <2> HIDE DEF N
  <2>2. QED
    BY <1>1, <1>2, <2>1, NatSetInduction
<1>4. ASSUME NEW s \in Seq(C) PROVE s \in T
  <2>1. Len(s) \in N
    BY <1>3, LenProperties
  <2>2. QED
    BY <2>1
<1>5. QED
  BY <1>4

-----------------------------------------------------------------------------
(* The recursion over sets of indices has a solution.                      *)

\* One unfolding of the recursion, for the subsets of 1..n.
Unfolded(s, n, g) ==
    [t \in SUBSET (1..n) |->
        IF t = {} THEN Base ELSE Op(g[t \ {Max(t)}], s[Max(t)])]

Solution(s, n) == CHOOSE g : g = Unfolded(s, n, g)

LEMMA MaxIsLast ==
  ASSUME NEW n \in Nat, NEW t \in SUBSET (1..n), n \in t
  PROVE  Max(t) = n
<1>1. \A m \in t : n >= m
  OBVIOUS
<1>2. Max(t) \in t /\ \A m \in t : Max(t) >= m
  BY <1>1 DEF Max
<1>3. Max(t) \in 1..n /\ Max(t) >= n
  BY <1>2
<1>4. QED
  BY <1>3

(***************************************************************************)
(* A solution for the subsets of 1..n gives one for those of 1..n+1: the   *)
(* sets with n+1 in them need only sets without it.                        *)
(***************************************************************************)
LEMMA SolutionExists ==
  ASSUME NEW s, NEW k \in Nat
  PROVE  \E g : g = Unfolded(s, k, g)
<1> DEFINE T == {n \in Nat : \E g : g = Unfolded(s, n, g)}
<1>1. 0 \in T
  <2> DEFINE g == [t \in SUBSET (1..0) |-> Base]
  <2>1. g = Unfolded(s, 0, g)
    BY DEF Unfolded
  <2>2. QED
    BY <2>1
<1>2. ASSUME NEW n \in T PROVE n + 1 \in T
  <2>1. PICK g : g = Unfolded(s, n, g)
    OBVIOUS
  <2> DEFINE h == [t \in SUBSET (1..n+1) |->
                      IF n + 1 \in t THEN Op(g[t \ {n + 1}], s[n + 1]) ELSE g[t]]
  <2>2. ASSUME NEW t \in SUBSET (1..n+1)
        PROVE  h[t] = IF t = {} THEN Base ELSE Op(h[t \ {Max(t)}], s[Max(t)])
    <3>1. CASE n + 1 \in t
      <4>1. Max(t) = n + 1
        BY <3>1, MaxIsLast, n + 1 \in Nat
      <4>2. t \ {n + 1} \in SUBSET (1..n+1) /\ n + 1 \notin t \ {n + 1}
        OBVIOUS
      <4>3. h[t \ {n + 1}] = g[t \ {n + 1}]
        BY <4>2
      <4>4. QED
        BY <3>1, <4>1, <4>3
    <3>2. CASE n + 1 \notin t
      <4>1. t \in SUBSET (1..n) /\ h[t] = g[t]
        BY <3>2
      <4>2. g[t] = IF t = {} THEN Base ELSE Op(g[t \ {Max(t)}], s[Max(t)])
        <5> HIDE DEF h, T
        <5>1. QED
          BY <2>1, <4>1 DEF Unfolded
      <4>3. t \ {Max(t)} \in SUBSET (1..n+1) /\ n + 1 \notin t \ {Max(t)}
        BY <3>2
      <4>4. h[t \ {Max(t)}] = g[t \ {Max(t)}]
        BY <4>3
      <4>5. QED
        BY <4>1, <4>2, <4>4
    <3>3. QED
      BY <3>1, <3>2
  <2>3. h = Unfolded(s, n + 1, h)
    BY <2>2 DEF Unfolded
  <2> HIDE DEF h
  <2>4. QED
    BY <2>3
<1>3. T = Nat
  <2>1. T \in SUBSET Nat
    OBVIOUS
  <2> HIDE DEF T
  <2>2. QED
    BY <1>1, <1>2, <2>1, NatSetInduction
<1>4. QED
  BY <1>3

LEMMA SolutionUnfolds ==
  ASSUME NEW s, NEW n \in Nat
  PROVE  Solution(s, n) = Unfolded(s, n, Solution(s, n))
<1>1. \E g : g = Unfolded(s, n, g)
  BY SolutionExists
<1>2. QED
  BY <1>1 DEF Solution

\* Along the initial segments of the indices, the solution takes one step each.
LEMMA SolutionAlong ==
  ASSUME NEW s, NEW n \in Nat
  PROVE  /\ Solution(s, n)[{}] = Base
         /\ \A k \in 1..n : Solution(s, n)[1..k] = Op(Solution(s, n)[1..(k-1)], s[k])
<1> DEFINE g == Solution(s, n)
<1>1. g = Unfolded(s, n, g)
  BY SolutionUnfolds
<1>2. \A t \in SUBSET (1..n) :
         g[t] = IF t = {} THEN Base ELSE Op(g[t \ {Max(t)}], s[Max(t)])
  <2> HIDE DEF g
  <2>1. QED
    BY <1>1 DEF Unfolded
<1>3. ASSUME NEW k \in 1..n PROVE g[1..k] = Op(g[1..(k-1)], s[k])
  <2>1. 1..k \in SUBSET (1..n) /\ 1..k # {} /\ (1..k) \ {k} = 1..(k-1)
    OBVIOUS
  <2>2. Max(1..k) = k
    BY MaxIsLast, 1..k \in SUBSET (1..k), k \in 1..k, k \in Nat
  <2> HIDE DEF g
  <2>3. QED
    BY <1>2, <2>1, <2>2
<1>4. QED
  <2> HIDE DEF g
  <2>1. g[{}] = Base
    BY <1>2
  <2>2. QED
    BY <2>1, <1>3 DEF g

LEMMA FoldedIsSolution ==
  ASSUME NEW C, NEW s \in Seq(C)
  PROVE  Folded(s) = Solution(s, Len(s))[1..Len(s)]
<1>1. DOMAIN s = 1..Len(s)
  BY LenProperties
<1>2. Folded(s) = (CHOOSE g : g = [t \in SUBSET (DOMAIN s) |->
                      IF t = {} THEN Base ELSE Op(g[t \ {Max(t)}], s[Max(t)])])[DOMAIN s]
  BY DEF Folded, FoldLeft, MapThenFoldSet
<1>3. QED
  BY <1>1, <1>2 DEF Solution, Unfolded

-----------------------------------------------------------------------------
(* The theory of the fold.                                                 *)

\* The fold of the empty sequence is the base.
THEOREM FoldedEmpty == Folded(<< >>) = Base
<1>1. << >> \in Seq({}) /\ Len(<< >>) = 0 /\ 1..0 = {}
  OBVIOUS
<1>2. Folded(<< >>) = Solution(<< >>, 0)[{}]
  BY <1>1, FoldedIsSolution
<1>3. QED
  BY <1>2, SolutionAlong

(***************************************************************************)
(* The fold of a longer sequence is one more step: up to the length of the *)
(* shorter one the two solutions agree.                                    *)
(***************************************************************************)
THEOREM FoldedAppend ==
  ASSUME NEW C, NEW s \in Seq(C), NEW c \in C
  PROVE  Folded(Append(s, c)) = Op(Folded(s), c)
<1> DEFINE n == Len(s)
           u == Append(s, c)
           T == {k \in Nat : k <= n => Solution(u, n + 1)[1..k] = Solution(s, n)[1..k]}
<1>1. /\ u \in Seq(C) /\ Len(u) = n + 1 /\ u[n + 1] = c
      /\ n \in Nat /\ n + 1 \in Nat
      /\ \A k \in 1..n : u[k] = s[k]
  BY AppendProperties, LenProperties
<1>2. Folded(u) = Solution(u, n + 1)[1..(n + 1)] /\ Folded(s) = Solution(s, n)[1..n]
  BY <1>1, FoldedIsSolution
<1> HIDE DEF n, u
<1>3. 0 \in T
  BY <1>1, SolutionAlong, 1..0 = {}
<1>4. ASSUME NEW k \in T PROVE k + 1 \in T
  <2>1. SUFFICES ASSUME k + 1 <= n
                 PROVE  Solution(u, n + 1)[1..(k + 1)] = Solution(s, n)[1..(k + 1)]
    OBVIOUS
  <2>2. k \in Nat /\ k + 1 \in 1..n /\ k + 1 \in 1..(n + 1) /\ (k + 1) - 1 = k
    BY <1>1, <2>1
  <2>3. Solution(u, n + 1)[1..(k + 1)] = Op(Solution(u, n + 1)[1..k], u[k + 1])
    BY <1>1, <2>2, SolutionAlong
  <2>4. Solution(s, n)[1..(k + 1)] = Op(Solution(s, n)[1..k], s[k + 1])
    BY <1>1, <2>2, SolutionAlong
  <2>5. Solution(u, n + 1)[1..k] = Solution(s, n)[1..k] /\ u[k + 1] = s[k + 1]
    BY <1>1, <2>1, <2>2
  <2>6. QED
    BY <2>3, <2>4, <2>5
<1>5. T = Nat
  <2>1. T \in SUBSET Nat
    OBVIOUS
  <2> HIDE DEF T
  <2>2. QED
    BY <1>3, <1>4, <2>1, NatSetInduction
<1>6. Solution(u, n + 1)[1..n] = Solution(s, n)[1..n]
  BY <1>1, <1>5
<1>7. Solution(u, n + 1)[1..(n + 1)] = Op(Solution(u, n + 1)[1..n], u[n + 1])
  BY <1>1, SolutionAlong, n + 1 \in 1..(n + 1), (n + 1) - 1 = n
<1>8. QED
  BY <1>1, <1>2, <1>6, <1>7 DEF u

=============================================================================
