------------------------------ MODULE Extrema ------------------------------
(***************************************************************************)
(* The least and the greatest of some numbers, for the searches and counts *)
(* that the models state with Min and Max.                                 *)
(***************************************************************************)
EXTENDS Integers, FiniteSetsExt, FiniteSetTheorems, WellFoundedInduction, TLAPS

(* The least element of a set of numbers with a bound.                     *)
LEMMA MinOf ==
  ASSUME NEW n \in Nat, NEW S \in SUBSET (0 .. n), S # {}
  PROVE  Min(S) \in S /\ \A y \in S : Min(S) <= y
  <1> DEFINE U == 0 .. n
             down(x) == {y \in S : y <= x}
             T == {down(x) : x \in S}
  <1>1. FiniteSubsetsOf(U) = SUBSET U
    <2>1. IsFiniteSet(U)
      BY FS_Interval
    <2> HIDE DEF U
    <2> QED
      BY <2>1, FS_FiniteSubsetsOfFinite
  <1>2. T \subseteq FiniteSubsetsOf(U) /\ T # {}
    <2>1. \A x \in S : down(x) \in SUBSET U
      OBVIOUS
    <2> HIDE DEF U, down
    <2> QED
      BY <1>1, <2>1
  <1>3. PICK d \in T : \A e \in T : ~(<<e, d>> \in StrictSubsetOrdering(U))
    <2> HIDE DEF T, U
    <2> QED
      BY <1>2, FS_StrictSubsetOrderingWellFounded, WFMin
  <1>4. PICK x \in S : d = down(x)
    OBVIOUS
  <1>5. ASSUME NEW y \in S, y < x
        PROVE  FALSE
    <2>1. down(y) \in T /\ down(y) \subseteq down(x) /\ x \in down(x) /\ x \notin down(y)
      <3>1. down(y) \in T
        OBVIOUS
      <3>2. \A z \in S : z \in Int
        OBVIOUS
      <3>3. down(y) \subseteq down(x)
        <4>1. SUFFICES ASSUME NEW z \in down(y)
                       PROVE  z \in down(x)
          BY DEF down
        <4>2. z \in S /\ z <= y /\ z \in Int /\ y \in Int /\ x \in Int /\ y < x
          BY <4>1, <3>2, <1>5
        <4>3. z <= x
          BY <4>2
        <4> QED
          BY <4>2, <4>3
      <3>4. x \in down(x) /\ x \notin down(y)
        BY <1>5, <3>2
      <3> QED
        BY <3>1, <3>3, <3>4
    <2>2. <<down(y), down(x)>> \in StrictSubsetOrdering(U)
      <3>1. down(y) \in SUBSET U /\ down(x) \in SUBSET U
        OBVIOUS
      <3>2. down(y) # down(x)
        BY <2>1
      <3> HIDE DEF down, U
      <3> QED
        BY <2>1, <3>1, <3>2 DEF StrictSubsetOrdering
    <2> QED
      BY <1>3, <1>4, <2>1, <2>2
  <1>6. \A y \in S : x <= y
    BY <1>5
  <1> QED
    BY <1>6 DEF Min

(* The greatest element: the least distance from the bound.                *)
LEMMA MaxOf ==
  ASSUME NEW n \in Nat, NEW S \in SUBSET (0 .. n), S # {}
  PROVE  Max(S) \in S /\ \A y \in S : y <= Max(S)
  <1> DEFINE D == {n - x : x \in S}
  <1>1. D \in SUBSET (0 .. n) /\ D # {}
    <2>1. \A x \in S : n - x \in 0 .. n
      OBVIOUS
    <2> QED
      BY <2>1
  <1>2. PICK d \in D : \A e \in D : d <= e
    <2> HIDE DEF D
    <2> QED
      BY <1>1, MinOf
  <1>3. PICK x \in S : d = n - x
    OBVIOUS
  <1>4. \A y \in S : y <= x
    <2>1. \A y \in S : n - x <= n - y
      BY <1>2, <1>3
    <2> QED
      BY <2>1
  <1> QED
    BY <1>4 DEF Max
=============================================================================
