------------------------------- MODULE Maxima -------------------------------
(***************************************************************************)
(* The maximum of a finite set of numbers, which getNextHeight() and the   *)
(* counts of listeners are about.  FiniteSetsExt defines Max by CHOOSE;    *)
(* that there is something to choose is what the other proofs need.  So is *)
(* induction over the numbers, stated for a set of them.                   *)
(***************************************************************************)
EXTENDS Integers, FiniteSetsExt, FiniteSetTheorems, WellFoundedInduction, TLAPS

\* A finite set of numbers with an element has a maximum: of the sets of elements
\* above one of its elements, a smallest one is empty.
LEMMA MaxIsGreatest ==
    ASSUME NEW S \in SUBSET Nat, IsFiniteSet(S), S # {}
    PROVE  Max(S) \in S /\ \A x \in S : x <= Max(S)
<1> DEFINE Above(x) == {y \in S : y > x}
           T == {Above(x) : x \in S}
           R == StrictSubsetOrdering(S)
<1>1. IsWellFoundedOn(R, SUBSET S)
  <2>1. FiniteSubsetsOf(S) = SUBSET S
    BY FS_FiniteSubsetsOfFinite
  <2>2. IsWellFoundedOn(R, FiniteSubsetsOf(S))
    BY FS_StrictSubsetOrderingWellFounded
  <2> QED
    BY <2>1, <2>2
<1>2. T \subseteq SUBSET S /\ T # {}
  OBVIOUS
<1>3. PICK A \in T : \A B \in T : ~(<<B, A>> \in R)
  <2> HIDE DEF T, R
  <2> QED
    BY <1>1, <1>2, WFMin
<1>4. PICK m \in S : A = Above(m)
  BY <1>3
<1>5. \A x \in S : m >= x
  <2> SUFFICES ASSUME NEW x \in S, ~(m >= x) PROVE FALSE
    OBVIOUS
  <2>1. m \in Nat /\ x \in Nat /\ x > m
    OBVIOUS
  <2>2. x \in Above(m) /\ x \notin Above(x)
    BY <2>1
  <2>3. Above(x) \subseteq Above(m)
    <3>1. SUFFICES ASSUME NEW y \in S, y > x PROVE y > m
      OBVIOUS
    <3>2. y \in Nat
      OBVIOUS
    <3> QED
      BY <2>1, <3>1, <3>2
  <2>4. <<Above(x), Above(m)>> \in R
    BY <2>2, <2>3 DEF StrictSubsetOrdering
  <2> QED
    BY <1>3, <1>4, <2>4
<1>6. Max(S) \in S /\ \A x \in S : Max(S) >= x
  BY <1>5 DEF Max
<1> QED
  BY <1>6

\* So has a set of numbers with a bound.
LEMMA MaxOfBounded ==
    ASSUME NEW S \in SUBSET Nat, NEW n \in Nat, \A x \in S : x <= n, S # {}
    PROVE  Max(S) \in S /\ \A x \in S : x <= Max(S)
<1>1. IsFiniteSet(S)
  BY FS_BoundedSetOfNaturals
<1> QED
  BY <1>1, MaxIsGreatest

\* Induction: of the numbers below one that is missing, the first missing one has a
\* predecessor.
LEMMA NatSetInduction ==
    ASSUME NEW S, 0 \in S, \A n \in Nat : n \in S => n + 1 \in S
    PROVE  \A n \in Nat : n \in S
<1> SUFFICES ASSUME NEW x \in Nat, x \notin S
             PROVE  FALSE
  OBVIOUS
<1> DEFINE T == {i \in 0 .. x : x - i \notin S}
<1>1. T \in SUBSET Nat /\ T # {} /\ \A i \in T : i <= x
  <2>1. 0 \in T
    OBVIOUS
  <2> QED
    BY <2>1
<1>2. PICK m : m = Max(T)
  OBVIOUS
<1>3. m \in T /\ \A i \in T : i <= m
  <2> HIDE DEF T
  <2> QED
    BY <1>1, <1>2, MaxOfBounded
<1>4. m \in 0 .. x /\ x - m \notin S /\ m + 1 \notin T
  BY <1>3
<1>5. m # x
  BY <1>4
<1>6. m + 1 \in 0 .. x /\ x - (m + 1) \in Nat /\ x - (m + 1) + 1 = x - m
  BY <1>4, <1>5
<1>7. x - (m + 1) \in S
  BY <1>4, <1>6
<1> QED
  BY <1>4, <1>6, <1>7

=============================================================================
