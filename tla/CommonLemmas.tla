---------------------------- MODULE CommonLemmas ----------------------------
(***************************************************************************)
(* What the proofs of several components need of sequences, of minima, and  *)
(* in place of induction.                                                  *)
(***************************************************************************)
EXTENDS Integers, Sequences, FiniteSets, FiniteSetsExt, SequenceTheorems,
        FiniteSetTheorems, TLAPS

-----------------------------------------------------------------------------
(* Sequences and minima.                                                   *)

LEMMA DropHead ==
  ASSUME NEW S, NEW q \in Seq(S), q # <<>>
  PROVE  /\ Len(q) \in Nat \ {0} /\ Head(q) = q[1] /\ q[1] \in S
         /\ Tail(q) \in Seq(S) /\ Len(Tail(q)) = Len(q) - 1
         /\ \A i \in 1..(Len(q) - 1) : Tail(q)[i] = q[i + 1]
BY HeadTailProperties, EmptySeq, ElementOfSeq

LEMMA Push ==
  ASSUME NEW S, NEW q \in Seq(S), NEW x \in S
  PROVE  /\ Append(q, x) \in Seq(S) /\ Len(Append(q, x)) = Len(q) + 1
         /\ \A i \in 1..Len(q) : Append(q, x)[i] = q[i]
         /\ Append(q, x)[Len(q) + 1] = x
OBVIOUS

LEMMA Rotate ==
  ASSUME NEW S, NEW q \in Seq(S), q # <<>>, NEW x \in S
  PROVE  LET r == Append(Tail(q), x)
         IN  /\ r \in Seq(S) /\ Len(r) = Len(q)
             /\ \A i \in 1..(Len(q) - 1) : r[i] = q[i + 1]
             /\ r[Len(q)] = x
<1>1. /\ Tail(q) \in Seq(S) /\ Len(Tail(q)) = Len(q) - 1 /\ Len(q) \in Nat \ {0}
      /\ \A i \in 1..(Len(q) - 1) : Tail(q)[i] = q[i + 1]
  BY DropHead
<1>2. /\ Append(Tail(q), x) \in Seq(S)
      /\ Len(Append(Tail(q), x)) = Len(Tail(q)) + 1
      /\ \A i \in 1..Len(Tail(q)) : Append(Tail(q), x)[i] = Tail(q)[i]
      /\ Append(Tail(q), x)[Len(Tail(q)) + 1] = x
  BY <1>1, Push
<1>. QED BY <1>1, <1>2

LEMMA MinOf ==
  ASSUME NEW S \in SUBSET Nat, S # {}
  PROVE  Min(S) \in S /\ \A y \in S : Min(S) <= y
<1>. DEFINE T == {1..x : x \in S}
            R == StrictSubsetOrdering(Nat)
<1>1. T \subseteq FiniteSubsetsOf(Nat) /\ T # {}
  <2>1. ASSUME NEW x \in S PROVE 1..x \in FiniteSubsetsOf(Nat)
    <3>1. IsFiniteSet(1..x) /\ 1..x \subseteq Nat
      BY FS_Interval, x \in Int, 1 \in Int
    <3>. QED BY <3>1 DEF FiniteSubsetsOf
  <2>. QED BY <2>1
<1>2. PICK a \in T : \A b \in T : <<b, a>> \notin R
  <2>. HIDE DEF T
  <2>. QED BY <1>1, FS_StrictSubsetOrderingWellFounded, WFMin
<1>3. PICK x \in S : a = 1..x
  BY <1>2
<1>4. ASSUME NEW y \in S, y < x PROVE FALSE
  <2>1. 1..y \in T /\ 1..y \subseteq 1..x /\ 1..y # 1..x
    <3>1. x \in 1..x /\ x \notin 1..y
      BY <1>4
    <3>. QED BY <1>4, <3>1
  <2>2. <<1..y, 1..x>> \in R
    BY <2>1 DEF StrictSubsetOrdering
  <2>. QED BY <1>2, <1>3, <2>1, <2>2
<1>5. \A y \in S : x <= y
  BY <1>4
<1>. QED BY <1>5 DEF Min

\* Induction up to N, of a set: a condition on n is the set of those that meet it.
LEMMA Climb ==
  ASSUME NEW N \in Nat, NEW Good, 0 \in Good, \A n \in 1..N : n - 1 \in Good => n \in Good
  PROVE  \A n \in 0..N : n \in Good
<1>. DEFINE Bad == {n \in 0..N : n \notin Good}
<1>1. Bad \in SUBSET Nat
  OBVIOUS
<1>2. ASSUME Bad # {} PROVE FALSE
  <2>1. Min(Bad) \in Bad /\ \A y \in Bad : Min(Bad) <= y
    <3>. HIDE DEF Bad
    <3>. QED BY <1>1, <1>2, MinOf
  <2>. DEFINE b == Min(Bad)
  <2>2. b \in 0..N /\ b \notin Good /\ \A y \in Bad : b <= y
    BY <2>1
  <2>. HIDE DEF b
  <2>3. b \in 1..N
    BY <2>2
  <2>4. b - 1 \in 0..N /\ ~(b <= b - 1)
    BY <2>3
  <2>5. b - 1 \in Good
    BY <2>2, <2>4
  <2>. QED BY <2>2, <2>3, <2>5
<1>. QED BY <1>2

=============================================================================
