----------------------------- MODULE NaturalsSets -----------------------------
(***************************************************************************)
(* Induction over the natural numbers in the form the proofs of this       *)
(* project use it: about sets of numbers.  What is to be shown of every    *)
(* number is made the set of the numbers it holds for.                     *)
(***************************************************************************)
EXTENDS Integers, FiniteSetTheorems, WellFoundedInduction, TLAPS

\* A set of natural numbers that is not empty has a least element.
LEMMA LeastNumber ==
    ASSUME NEW T, T \subseteq Nat, T # {}
    PROVE  \E x \in T : \A y \in T : x <= y
  <1>. DEFINE R == {p \in Nat \X Nat : p[1] < p[2]}
  <1>1. OpToRel(<, Nat) = R
    BY Zenon DEF OpToRel
  <1>2. IsWellFoundedOn(R, Nat)
    BY <1>1, NatLessThanWellFounded, Zenon
  <1>3. \A x, y \in Nat : y < x => <<y, x>> \in R
    <2>1. TAKE x, y \in Nat
    <2>2. <<y, x>> \in Nat \X Nat /\ <<y, x>>[1] = y /\ <<y, x>>[2] = x
      OBVIOUS
    <2>. QED  BY <2>2, Zenon
  <1>. HIDE DEF R
  <1>4. PICK x \in T : \A y \in T : ~(<<y, x>> \in R)
    BY <1>2, WFMin
  <1>5. \A y \in T : ~(y < x)
    BY <1>3, <1>4
  <1>. QED  BY <1>5

\* A set that holds zero and with each number the next one holds them all.
LEMMA NatSetInduction ==
    ASSUME NEW S, 0 \in S, \A n \in Nat : n \in S => n + 1 \in S
    PROVE  Nat \subseteq S
  <1>1. SUFFICES ASSUME Nat \ S # {} PROVE FALSE
    OBVIOUS
  <1>2. PICK x \in Nat \ S : \A y \in Nat \ S : x <= y
    BY <1>1, LeastNumber
  <1>3. x - 1 \in Nat /\ x - 1 \in S
    BY <1>2
  <1>. QED  BY <1>2, <1>3

\* A finite set of natural numbers that is not empty has a greatest element.
LEMMA GreatestNumber ==
    ASSUME NEW T, T \subseteq Nat, T # {}, IsFiniteSet(T)
    PROVE  \E x \in T : \A y \in T : y <= x
  <1>. DEFINE Q(n) == \A U \in SUBSET Nat : IsFiniteSet(U) /\ Cardinality(U) = n + 1
                          => \E x \in U : \A y \in U : y <= x
              G == {n \in Nat : Q(n)}
  <1>1. 0 \in G
    <2>1. SUFFICES ASSUME NEW U \in SUBSET Nat, IsFiniteSet(U), Cardinality(U) = 1
                   PROVE  \E x \in U : \A y \in U : y <= x
      OBVIOUS
    <2>2. PICK x : U = {x}
      BY <2>1, FS_Singleton
    <2>. QED  BY <2>2
  <1>2. ASSUME NEW n \in Nat, n \in G PROVE n + 1 \in G
    <2>1. SUFFICES ASSUME NEW U \in SUBSET Nat, IsFiniteSet(U), Cardinality(U) = n + 2
                   PROVE  \E x \in U : \A y \in U : y <= x
      BY <1>2
    <2>2. U # {}
      BY <2>1, FS_EmptySet
    <2>3. PICK u \in U : TRUE
      BY <2>2
    <2>4. IsFiniteSet(U \ {u}) /\ Cardinality(U \ {u}) = n + 1
      BY <2>1, <2>3, FS_RemoveElement
    <2>5. PICK x \in U \ {u} : \A y \in U \ {u} : y <= x
      BY <1>2, <2>4
    <2>6. u <= x \/ x <= u
      BY <2>3, <2>5
    <2>. QED  BY <2>3, <2>5, <2>6
  <1>. HIDE DEF G
  <1>3. Nat \subseteq G
    BY <1>1, <1>2, NatSetInduction
  <1>4. Cardinality(T) \in Nat /\ Cardinality(T) # 0
    BY FS_CardinalityType, FS_EmptySet
  <1>5. Cardinality(T) - 1 \in G
    BY <1>3, <1>4
  <1>. QED  BY <1>4, <1>5 DEF G
=============================================================================
