------------------------- MODULE MixedLeafPlanProofs -------------------------
(***************************************************************************)
(* Proofs about MixedLeafPlan, for every set of identifiers, every         *)
(* capacity and minimum, all limits and any number of leaves.              *)
(***************************************************************************)
EXTENDS MixedLeafPlan, NaturalsSets, SequenceTheorems

(* Dividing a leaf. *)

\* The running sum exists, for any number of sizes.
LEMMA StartsExist ==
    ASSUME NEW s
    PROVE  \A n \in Nat : \E f :
               f = [g \in 1..n |-> IF g = 1 THEN 0 ELSE f[g - 1] + s[g - 1]]
  <1>. DEFINE Sum(f, n) == f = [g \in 1..n |-> IF g = 1 THEN 0 ELSE f[g - 1] + s[g - 1]]
              G == {n \in Nat : \E f : Sum(f, n)}
  <1>1. 0 \in G
    <2>. DEFINE f == [g \in 1..0 |-> 0]
    <2>1. Sum(f, 0)
      OBVIOUS
    <2>. QED  BY <2>1
  <1>2. ASSUME NEW n \in Nat, n \in G PROVE n + 1 \in G
    <2>1. PICK f : Sum(f, n)
      BY <1>2
    <2>. DEFINE h == [g \in 1..(n + 1) |->
                        IF g <= n THEN f[g] ELSE IF g = 1 THEN 0 ELSE f[n] + s[n]]
                k == [g \in 1..(n + 1) |-> IF g = 1 THEN 0 ELSE h[g - 1] + s[g - 1]]
    <2>2. \A g \in 1..n : f[g] = IF g = 1 THEN 0 ELSE f[g - 1] + s[g - 1]
      BY <2>1
    <2>3. \A g \in 1..n : h[g] = f[g]
      OBVIOUS
    <2>4. \A g \in 1..(n + 1) : h[g] = k[g]
      <3>1. TAKE g \in 1..(n + 1)
      <3>2. CASE g = 1
        BY <2>2, <3>2
      <3>3. CASE g # 1 /\ g <= n
        <4>1. h[g - 1] = f[g - 1]
          BY <2>3, <3>3
        <4>2. h[g] = f[g - 1] + s[g - 1]
          BY <2>2, <2>3, <3>3
        <4>. QED  BY <3>1, <3>3, <4>1, <4>2
      <3>4. CASE g # 1 /\ g = n + 1
        <4>1. h[n] = f[n] /\ g - 1 = n
          BY <2>3, <3>4
        <4>2. h[g] = f[n] + s[n]
          BY <3>4
        <4>. QED  BY <3>1, <3>4, <4>1, <4>2
      <3>. QED  BY <3>1, <3>2, <3>3, <3>4
    <2>5. h = k
      BY <2>4
    <2>. HIDE DEF h
    <2>6. Sum(h, n + 1)
      BY <2>5
    <2>. QED  BY <2>6
  <1>. HIDE DEF G
  <1>3. Nat \subseteq G
    BY <1>1, <1>2, NatSetInduction
  <1>. QED  BY <1>3 DEF G

\* What Starts computes.
LEMMA StartsValue ==
    ASSUME NEW n \in Nat \ {0}, NEW s \in [1..n -> Nat]
    PROVE  /\ Starts(s) \in [1..n -> Nat]
           /\ Starts(s)[1] = 0
           /\ \A g \in 1..(n - 1) : Starts(s)[g + 1] = Starts(s)[g] + s[g]
  <1>. DEFINE Sum(f) == f = [g \in 1..n |-> IF g = 1 THEN 0 ELSE f[g - 1] + s[g - 1]]
  <1>1. DOMAIN s = 1..n
    OBVIOUS
  <1>2. Starts(s) = CHOOSE f : Sum(f)
    BY <1>1, Zenon DEF Starts
  <1>3. \E f : Sum(f)
    BY StartsExist
  <1>4. Sum(Starts(s))
    <2>. HIDE DEF Sum
    <2>. QED  BY <1>2, <1>3, Zenon
  <1>. DEFINE start == Starts(s)
  <1>. HIDE DEF start
  <1>5. /\ DOMAIN start = 1..n
        /\ \A g \in 1..n : start[g] = IF g = 1 THEN 0 ELSE start[g - 1] + s[g - 1]
    <2>1. start = [g \in 1..n |-> IF g = 1 THEN 0 ELSE start[g - 1] + s[g - 1]]
      BY <1>4 DEF start
    <2>. QED  BY <2>1
  <1>6. start[1] = 0
    BY <1>5
  <1>7. \A g \in 1..(n - 1) : start[g + 1] = start[g] + s[g]
    <2>1. TAKE g \in 1..(n - 1)
    <2>2. g + 1 \in 1..n /\ g + 1 # 1 /\ (g + 1) - 1 = g
      OBVIOUS
    <2>. QED  BY <1>5, <2>2
  <1>8. \A g \in 1..n : start[g] \in Nat
    <2>. DEFINE G == {m \in Nat : m + 1 \in 1..n => start[m + 1] \in Nat}
    <2>1. 0 \in G
      BY <1>6
    <2>2. ASSUME NEW m \in Nat, m \in G PROVE m + 1 \in G
      <3>1. SUFFICES ASSUME (m + 1) + 1 \in 1..n PROVE start[(m + 1) + 1] \in Nat
        OBVIOUS
      <3>2. m + 1 \in 1..(n - 1) /\ s[m + 1] \in Nat /\ start[m + 1] \in Nat
        BY <2>2, <3>1
      <3>. QED  BY <1>7, <3>2
    <2>. HIDE DEF G
    <2>3. Nat \subseteq G
      BY <2>1, <2>2, NatSetInduction
    <2>4. TAKE g \in 1..n
    <2>5. g - 1 \in G
      BY <2>3
    <2>. QED  BY <2>5 DEF G
  <1>9. start = [g \in 1..n |-> start[g]]
    BY <1>4 DEF start
  <1>. QED  BY <1>6, <1>7, <1>8, <1>9 DEF start

\* A group ends before every later one begins.
LEMMA StartsIncrease ==
    ASSUME NEW n \in Nat \ {0}, NEW s \in [1..n -> Nat],
           NEW g \in 1..n, NEW h \in 1..n, g < h
    PROVE  Starts(s)[g] + s[g] <= Starts(s)[h]
  <1>. DEFINE start == Starts(s)
              G == {m \in Nat : g + 1 + m \in 1..n => start[g] + s[g] <= start[g + 1 + m]}
  <1>1. /\ \A k \in 1..n : start[k] \in Nat
        /\ \A k \in 1..(n - 1) : start[k + 1] = start[k] + s[k]
        /\ \A k \in 1..n : s[k] \in Nat
    <2>1. \A k \in 1..n : s[k] \in Nat
      OBVIOUS
    <2>. QED  BY <2>1, StartsValue
  <1>. HIDE DEF start
  <1>2. 0 \in G
    BY <1>1
  <1>3. ASSUME NEW m \in Nat, m \in G PROVE m + 1 \in G
    <2>1. SUFFICES ASSUME g + 1 + (m + 1) \in 1..n
                   PROVE  start[g] + s[g] <= start[g + 1 + (m + 1)]
      OBVIOUS
    <2>2. g + 1 + m \in 1..(n - 1) /\ g + 1 + (m + 1) = (g + 1 + m) + 1
      BY <2>1
    <2>3. start[g] + s[g] <= start[g + 1 + m]
      BY <1>3, <2>2
    <2>4. start[(g + 1 + m) + 1] = start[g + 1 + m] + s[g + 1 + m]
      BY <1>1, <2>2
    <2>5. s[g + 1 + m] \in Nat /\ start[g + 1 + m] \in Nat /\ start[g] \in Nat /\ s[g] \in Nat
      BY <1>1, <2>2
    <2>. QED  BY <2>2, <2>3, <2>4, <2>5
  <1>. HIDE DEF G
  <1>4. h - g - 1 \in G
    BY <1>2, <1>3, NatSetInduction
  <1>5. g + 1 + (h - g - 1) = h
    OBVIOUS
  <1>. QED  BY <1>4, <1>5 DEF G, start

\* How many identifiers are not above x.
Rank(ids, x) == Cardinality({y \in ids : y <= x})

LEMMA RankFacts ==
    ASSUME NEW ids, ids \subseteq Nat, IsFiniteSet(ids)
    PROVE  /\ \A x \in ids : Rank(ids, x) \in 1..Cardinality(ids)
           /\ \A x, y \in ids : y <= x => Rank(ids, y) <= Rank(ids, x)
  <1>. DEFINE below(x) == {y \in ids : y <= x}
  <1>1. Cardinality(ids) \in Nat
    BY FS_CardinalityType
  <1>2. ASSUME NEW x \in ids
        PROVE  /\ IsFiniteSet(below(x)) /\ Cardinality(below(x)) \in Nat
               /\ Cardinality(below(x)) <= Cardinality(ids) /\ Cardinality(below(x)) # 0
    <2>1. IsFiniteSet(below(x)) /\ Cardinality(below(x)) <= Cardinality(ids)
      BY FS_Subset
    <2>2. x \in below(x)
      BY <1>2
    <2>. QED  BY <2>1, <2>2, FS_CardinalityType, FS_EmptySet
  <1>3. ASSUME NEW x \in ids, NEW y \in ids, y <= x
        PROVE  Cardinality(below(y)) <= Cardinality(below(x))
    <2>1. \A z \in below(y) : z \in below(x)
      <3>1. TAKE z \in below(y)
      <3>2. x \in Nat /\ y \in Nat /\ z \in Nat /\ z \in ids /\ z <= y
        BY <1>3
      <3>. QED  BY <1>3, <3>2
    <2>. QED  BY <1>2, <2>1, FS_Subset
  <1>. QED  BY <1>1, <1>2, <1>3 DEF Rank

\* Sizes that add up to the number of identifiers cut them into groups that
\* hold each identifier and are in order.
LEMMA PartitionHolds ==
    ASSUME NEW ids, ids \subseteq Nat, IsFiniteSet(ids),
           NEW n \in Nat \ {0}, NEW s \in [1..n -> Nat],
           Starts(s)[n] + s[n] = Cardinality(ids)
    PROVE  /\ DOMAIN Partition(ids, s) = 1..n
           /\ \A g \in 1..n : Partition(ids, s)[g] \subseteq ids
           /\ \A x \in ids : \E g \in 1..n : x \in Partition(ids, s)[g]
           /\ \A g, h \in 1..n : g < h =>
                  \A x \in Partition(ids, s)[g], y \in Partition(ids, s)[h] : x < y
  <1>. DEFINE start == Starts(s)
              part == Partition(ids, s)
  <1>1. /\ start[1] = 0
        /\ \A k \in 1..n : start[k] \in Nat /\ s[k] \in Nat
        /\ \A k \in 1..(n - 1) : start[k + 1] = start[k] + s[k]
    BY StartsValue
  <1>2. /\ DOMAIN part = 1..n
        /\ \A g \in 1..n :
              part[g] = {x \in ids : Rank(ids, x) \in (start[g] + 1)..(start[g] + s[g])}
    BY DEF Partition, Rank
  <1>3. start[n] + s[n] = Cardinality(ids)
    OBVIOUS
  <1>. HIDE DEF start, part
  <1>4. ASSUME NEW x \in ids PROVE \E g \in 1..n : x \in part[g]
    <2>. DEFINE r == Rank(ids, x)
                Enough == {g \in 1..n : r <= start[g] + s[g]}
    <2>1. r \in Nat /\ 1 <= r /\ r <= Cardinality(ids) /\ Cardinality(ids) \in Nat
      <3>1. Cardinality(ids) \in Nat
        BY FS_CardinalityType
      <3>2. Rank(ids, x) \in 1..Cardinality(ids)
        BY RankFacts
      <3>. QED  BY <3>1, <3>2
    <2>. HIDE DEF r
    <2>2. n \in Enough
      BY <1>3, <2>1
    <2>3. PICK g \in Enough : \A h \in Enough : g <= h
      <3>1. Enough \subseteq Nat
        OBVIOUS
      <3>. HIDE DEF Enough
      <3>. QED  BY <2>2, <3>1, LeastNumber
    <2>4. start[g] < r
      <3>1. CASE g = 1
        BY <1>1, <2>1, <3>1
      <3>2. CASE g # 1
        <4>1. g - 1 \in 1..(n - 1) /\ g - 1 \notin Enough
          BY <2>3, <3>2
        <4>2. start[g] = start[g - 1] + s[g - 1]
          <5>1. start[(g - 1) + 1] = start[g - 1] + s[g - 1]
            BY <1>1, <4>1
          <5>. QED  BY <5>1
        <4>. QED  BY <1>1, <2>1, <4>1, <4>2
      <3>. QED  BY <3>1, <3>2
    <2>5. r \in (start[g] + 1)..(start[g] + s[g])
      BY <1>1, <2>1, <2>3, <2>4
    <2>. QED  BY <1>2, <2>3, <2>5 DEF r
  <1>5. ASSUME NEW g \in 1..n, NEW h \in 1..n, g < h,
               NEW x \in part[g], NEW y \in part[h]
        PROVE  x < y
    <2>1. start[g] + s[g] <= start[h]
      BY <1>5, StartsIncrease DEF start
    <2>2. x \in ids /\ y \in ids /\ Rank(ids, x) <= start[g] + s[g] /\ start[h] < Rank(ids, y)
          /\ Rank(ids, x) \in Nat /\ Rank(ids, y) \in Nat
      <3>1. /\ x \in ids /\ Rank(ids, x) \in (start[g] + 1)..(start[g] + s[g])
            /\ y \in ids /\ Rank(ids, y) \in (start[h] + 1)..(start[h] + s[h])
        BY <1>2
      <3>2. start[g] \in Nat /\ s[g] \in Nat /\ start[h] \in Nat /\ s[h] \in Nat
        BY <1>1
      <3>. DEFINE a == start[g]
                  b == start[h]
                  c == s[g]
                  d == s[h]
      <3>3. /\ a \in Nat /\ b \in Nat /\ c \in Nat /\ d \in Nat
            /\ Rank(ids, x) \in (a + 1)..(a + c) /\ Rank(ids, y) \in (b + 1)..(b + d)
        BY <3>1, <3>2
      <3>. HIDE DEF a, b, c, d
      <3>4. /\ Rank(ids, x) <= a + c /\ b < Rank(ids, y)
            /\ Rank(ids, x) \in Nat /\ Rank(ids, y) \in Nat
        BY <3>3
      <3>. QED  BY <3>1, <3>4 DEF a, b, c
    <2>3. ~(Rank(ids, y) <= Rank(ids, x))
      BY <1>1, <2>1, <2>2
    <2>4. ~(y <= x)
      BY <2>2, <2>3, RankFacts
    <2>. QED  BY <2>2, <2>4
  <1>. QED  BY <1>2, <1>4, <1>5 DEF part

\* As long as the groups are full, each begins where so many full ones end.
LEMMA FullStarts ==
    ASSUME NEW n \in Nat \ {0}, NEW s \in [1..n -> Nat], NEW m \in 1..n,
           \A g \in 1..(m - 1) : s[g] = Capacity
    PROVE  Starts(s)[m] = (m - 1) * Capacity
  <1>. DEFINE start == Starts(s)
              G == {k \in Nat : k + 1 \in 1..m => start[k + 1] = k * Capacity}
  <1>1. /\ start[1] = 0
        /\ \A k \in 1..(n - 1) : start[k + 1] = start[k] + s[k]
        /\ Capacity \in Nat
    BY StartsValue, LimitsAssumption
  <1>. HIDE DEF start
  <1>2. 0 \in G
    BY <1>1
  <1>3. ASSUME NEW k \in Nat, k \in G PROVE k + 1 \in G
    <2>1. SUFFICES ASSUME (k + 1) + 1 \in 1..m
                   PROVE  start[(k + 1) + 1] = (k + 1) * Capacity
      OBVIOUS
    <2>2. k + 1 \in 1..(m - 1) /\ k + 1 \in 1..(n - 1)
      BY <2>1
    <2>3. start[(k + 1) + 1] = start[k + 1] + Capacity
      BY <1>1, <2>2
    <2>4. start[k + 1] = k * Capacity
      BY <1>3, <2>2
    <2>5. (k + 1) * Capacity = k * Capacity + Capacity
      BY <1>1
    <2>. QED  BY <2>3, <2>4, <2>5
  <1>. HIDE DEF G
  <1>4. m - 1 \in G
    BY <1>2, <1>3, NatSetInduction
  <1>. QED  BY <1>4 DEF G, start

\* The sizes of the groups add up to what is divided: the check of
\* canonical_group_sizes on their sum never fails.
LEMMA GroupSizesAddUp ==
    ASSUME NEW total \in Nat \ {0}
    PROVE  \E n \in Nat \ {0} : /\ GroupSizes(total) \in [1..n -> Nat]
                                /\ Starts(GroupSizes(total))[n] + GroupSizes(total)[n] = total
  <1>. DEFINE full == total \div Capacity
              rest == total % Capacity
              s == GroupSizes(total)
  <1>1. /\ Capacity \in Nat \ {0} /\ Minimum \in Nat /\ Minimum <= Capacity
        /\ full \in Nat /\ rest \in Nat /\ rest < Capacity
        /\ total = Capacity * full + rest
    BY LimitsAssumption
  <1>2. /\ rest = 0 => s = [i \in 1..full |-> Capacity]
        /\ rest # 0 /\ (rest >= Minimum \/ full = 0) =>
               s = [i \in 1..(full + 1) |-> IF i <= full THEN Capacity ELSE rest]
        /\ rest # 0 /\ ~(rest >= Minimum \/ full = 0) =>
               s = [i \in 1..(full + 1) |->
                       CASE i < full -> Capacity
                         [] i = full -> Capacity - (Minimum - rest)
                         [] i = full + 1 -> Minimum]
    BY DEF GroupSizes
  <1>. HIDE DEF full, rest, s
  <1>3. CASE rest = 0
    <2>1. full \in Nat \ {0} /\ s \in [1..full -> Nat] /\ s[full] = Capacity
      BY <1>1, <1>2, <1>3
    <2>2. Starts(s)[full] = (full - 1) * Capacity
      <3>1. full \in 1..full /\ \A g \in 1..(full - 1) : s[g] = Capacity
        BY <1>1, <1>2, <1>3, <2>1
      <3>. QED  BY <2>1, <3>1, FullStarts
    <2>3. (full - 1) * Capacity + Capacity = Capacity * full
      BY <1>1
    <2>. QED  BY <1>1, <1>3, <2>1, <2>2, <2>3 DEF s
  <1>4. CASE rest # 0 /\ (rest >= Minimum \/ full = 0)
    <2>1. /\ full + 1 \in Nat \ {0} /\ s \in [1..(full + 1) -> Nat] /\ s[full + 1] = rest
          /\ \A g \in 1..((full + 1) - 1) : s[g] = Capacity
      BY <1>1, <1>2, <1>4
    <2>2. Starts(s)[full + 1] = ((full + 1) - 1) * Capacity
      <3>1. full + 1 \in 1..(full + 1)
        BY <1>1
      <3>. QED  BY <2>1, <3>1, FullStarts
    <2>3. ((full + 1) - 1) * Capacity = Capacity * full
      BY <1>1
    <2>. QED  BY <1>1, <2>1, <2>2, <2>3 DEF s
  <1>5. CASE rest # 0 /\ ~(rest >= Minimum \/ full = 0)
    <2>1. s = [i \in 1..(full + 1) |->
                  CASE i < full -> Capacity
                    [] i = full -> Capacity - (Minimum - rest)
                    [] i = full + 1 -> Minimum]
      BY <1>2, <1>5
    <2>2. /\ DOMAIN s = 1..(full + 1)
          /\ \A i \in 1..(full + 1) : i < full => s[i] = Capacity
          /\ s[full] = Capacity - (Minimum - rest)
          /\ s[full + 1] = Minimum
      BY <1>1, <1>5, <2>1
    <2>3. Capacity - (Minimum - rest) \in Nat
      BY <1>1, <1>5
    <2>4. \A i \in 1..(full + 1) : s[i] \in Nat
      <3>1. TAKE i \in 1..(full + 1)
      <3>2. i < full \/ i = full \/ i = full + 1
        BY <1>1
      <3>. QED  BY <1>1, <2>2, <2>3, <3>2
    <2>5. s \in [1..(full + 1) -> Nat]
      BY <2>1, <2>2, <2>4
    <2>6. Starts(s)[full] = (full - 1) * Capacity
      BY <1>1, <1>5, <2>2, <2>5, FullStarts
    <2>7. Starts(s)[full + 1] = (full - 1) * Capacity + (Capacity - (Minimum - rest))
      <3>1. full \in 1..((full + 1) - 1)
        BY <1>1, <1>5
      <3>. QED  BY <1>1, <2>2, <2>5, <2>6, <3>1, StartsValue
    <2>8. (full - 1) * Capacity + Capacity = Capacity * full
      BY <1>1
    <2>. DEFINE product == (full - 1) * Capacity
    <2>9. product \in Int
      BY <1>1
    <2>10. Starts(s)[full + 1] + s[full + 1] = total
      <3>. HIDE DEF product
      <3>. QED  BY <1>1, <2>2, <2>7, <2>8, <2>9 DEF product
    <2>. QED  BY <1>1, <2>5, <2>10 DEF s
  <1>. QED  BY <1>3, <1>4, <1>5
-----------------------------------------------------------------------------
(* Leaves and rows of leaves. *)

\* Max and Min are what their names say, for the leaves there are.
LEMMA MaxMin ==
    ASSUME NEW S \in SUBSET Ids, S # {}
    PROVE  /\ Max(S) \in S /\ \A y \in S : y <= Max(S)
           /\ Min(S) \in S /\ \A y \in S : Min(S) <= y
  <1>1. S \subseteq Nat /\ IsFiniteSet(S)
    BY LimitsAssumption, FS_Subset
  <1>2. \E x \in S : \A y \in S : y <= x
    BY <1>1, GreatestNumber
  <1>3. \E x \in S : \A y \in S : x >= y
    BY <1>1, <1>2
  <1>4. \E x \in S : \A y \in S : x =< y
    BY <1>1, LeastNumber
  <1>5. Max(S) \in S /\ \A y \in S : Max(S) >= y
    BY <1>3 DEF Max
  <1>6. Min(S) \in S /\ \A y \in S : Min(S) =< y
    BY <1>4 DEF Min
  <1>. QED  BY <1>1, <1>5, <1>6

InOrder(w) ==
    \A i, j \in DOMAIN w : i < j => \A x \in w[i], y \in w[j] : x < y

\* validate_input_pages compares neighbours; the whole row is in order.
LEMMA WellFormedInOrder ==
    ASSUME NEW w \in Seq(SUBSET Ids), WellFormed(w)
    PROVE  /\ InOrder(w)
           /\ \A i, j \in DOMAIN w : i < j => \A y \in w[j] : Max(w[i]) < y
  <1>0. /\ Len(w) \in Nat /\ DOMAIN w = 1..Len(w)
        /\ \A i \in 1..Len(w) : w[i] \in SUBSET Ids /\ w[i] # {}
        /\ \A i \in 1..(Len(w) - 1) : Max(w[i]) < Min(w[i + 1])
    BY LenProperties, ElementOfSeq DEF WellFormed
  <1>1. /\ \A i \in 1..Len(w) : Max(w[i]) \in w[i] /\ Max(w[i]) \in Nat
        /\ \A i \in 1..Len(w) : \A y \in w[i] : y \in Nat /\ y <= Max(w[i])
        /\ \A i \in 1..Len(w) : Min(w[i]) \in Nat /\ \A y \in w[i] : Min(w[i]) <= y
    BY <1>0, MaxMin, LimitsAssumption
  <1>2. ASSUME NEW i \in 1..Len(w)
        PROVE  \A j \in 1..Len(w) : i < j => \A y \in w[j] : Max(w[i]) < y
    <2>. DEFINE G == {m \in Nat : i + 1 + m \in 1..Len(w) =>
                         \A y \in w[i + 1 + m] : Max(w[i]) < y}
    <2>1. 0 \in G
      <3>1. SUFFICES ASSUME i + 1 \in 1..Len(w), NEW y \in w[i + 1] PROVE Max(w[i]) < y
        <4>1. i + 1 + 0 = i + 1
          BY <1>0
        <4>. QED  BY <4>1
      <3>2. Max(w[i]) < Min(w[i + 1]) /\ Min(w[i + 1]) <= y
        BY <1>0, <1>1, <3>1
      <3>. QED  BY <1>1, <3>1, <3>2
    <2>2. ASSUME NEW m \in Nat, m \in G PROVE m + 1 \in G
      <3>. DEFINE k == i + 1 + m
      <3>1. k \in Nat /\ i + 1 + (m + 1) = k + 1
        BY <1>0
      <3>. HIDE DEF k
      <3>2. SUFFICES ASSUME k + 1 \in 1..Len(w), NEW y \in w[k + 1] PROVE Max(w[i]) < y
        BY <3>1
      <3>3. k \in 1..Len(w) /\ k \in 1..(Len(w) - 1)
        BY <1>0, <3>1, <3>2 DEF k
      <3>4. Max(w[i]) < Max(w[k])
        BY <1>1, <2>2, <3>3 DEF k
      <3>5. Max(w[k]) < Min(w[k + 1]) /\ Min(w[k + 1]) <= y
        BY <1>0, <1>1, <3>2, <3>3
      <3>6. y \in Nat /\ Max(w[i]) \in Nat /\ Max(w[k]) \in Nat /\ Min(w[k + 1]) \in Nat
        BY <1>1, <3>2, <3>3
      <3>. QED  BY <3>4, <3>5, <3>6
    <2>. HIDE DEF G
    <2>3. Nat \subseteq G
      BY <2>1, <2>2, NatSetInduction
    <2>4. TAKE j \in 1..Len(w)
    <2>5. i < j => j - i - 1 \in G /\ i + 1 + (j - i - 1) = j
      BY <1>0, <2>3
    <2>. QED  BY <2>5 DEF G
  <1>3. InOrder(w)
    <2>1. SUFFICES ASSUME NEW i \in 1..Len(w), NEW j \in 1..Len(w), i < j,
                          NEW x \in w[i], NEW y \in w[j]
                   PROVE  x < y
      BY <1>0 DEF InOrder
    <2>2. x <= Max(w[i]) /\ Max(w[i]) < y
      BY <1>1, <1>2, <2>1
    <2>. QED  BY <1>1, <2>1, <2>2
  <1>. QED  BY <1>0, <1>2, <1>3

\* Vec::splice of one element, place by place.
LEMMA SpliceValue ==
    ASSUME NEW S, NEW seq \in Seq(S), NEW i \in 1..Len(seq), NEW new \in Seq(S)
    PROVE  /\ Splice(seq, i, new) \in Seq(S)
           /\ Len(Splice(seq, i, new)) = Len(seq) - 1 + Len(new)
           /\ \A k \in 1..(Len(seq) - 1 + Len(new)) : Splice(seq, i, new)[k] =
                  IF k < i THEN seq[k]
                  ELSE IF k < i + Len(new) THEN new[k - i + 1]
                  ELSE seq[k - Len(new) + 1]
  <1>. DEFINE left == SubSeq(seq, 1, i - 1)
              right == SubSeq(seq, i + 1, Len(seq))
  <1>0. Len(seq) \in Nat /\ Len(new) \in Nat
    BY LenProperties
  <1>1. /\ left \in Seq(S) /\ Len(left) = i - 1
        /\ \A k \in 1..(i - 1) : left[k] = seq[k]
    <2>1. \A k \in 1..(i - 1) : seq[k] \in S
      BY <1>0, ElementOfSeq
    <2>2. /\ left \in Seq(S)
          /\ Len(left) = IF 1 <= i - 1 THEN (i - 1) - 1 + 1 ELSE 0
          /\ \A k \in 1..((i - 1) - 1 + 1) : left[k] = seq[1 + k - 1]
      BY <1>0, <2>1, SubSeqProperties
    <2>. QED  BY <1>0, <2>2
  <1>2. /\ right \in Seq(S) /\ Len(right) = Len(seq) - i
        /\ \A k \in 1..(Len(seq) - i) : right[k] = seq[i + k]
    <2>1. \A k \in (i + 1)..Len(seq) : seq[k] \in S
      BY <1>0, ElementOfSeq
    <2>2. /\ right \in Seq(S)
          /\ Len(right) = IF i + 1 <= Len(seq) THEN Len(seq) - (i + 1) + 1 ELSE 0
          /\ \A k \in 1..(Len(seq) - (i + 1) + 1) : right[k] = seq[(i + 1) + k - 1]
      BY <1>0, <2>1, SubSeqProperties
    <2>3. \A k \in 1..(Len(seq) - i) : right[k] = seq[i + k]
      <3>1. TAKE k \in 1..(Len(seq) - i)
      <3>2. k \in 1..(Len(seq) - (i + 1) + 1) /\ (i + 1) + k - 1 = i + k
        BY <1>0
      <3>. QED  BY <2>2, <3>2
    <2>. QED  BY <1>0, <2>2, <2>3
  <1>. HIDE DEF left, right
  <1>3. /\ left \o new \in Seq(S) /\ Len(left \o new) = i - 1 + Len(new)
        /\ \A k \in 1..(i - 1 + Len(new)) : (left \o new)[k] =
               IF k <= i - 1 THEN left[k] ELSE new[k - (i - 1)]
    <2>1. /\ left \o new \in Seq(S) /\ Len(left \o new) = Len(left) + Len(new)
          /\ \A k \in 1..(Len(left) + Len(new)) : (left \o new)[k] =
                 IF k <= Len(left) THEN left[k] ELSE new[k - Len(left)]
      BY <1>1, ConcatProperties, Zenon
    <2>. QED  BY <1>1, <2>1
  <1>4. /\ (left \o new) \o right \in Seq(S)
        /\ Len((left \o new) \o right) = i - 1 + Len(new) + (Len(seq) - i)
        /\ \A k \in 1..(i - 1 + Len(new) + (Len(seq) - i)) : ((left \o new) \o right)[k] =
               IF k <= i - 1 + Len(new) THEN (left \o new)[k]
               ELSE right[k - (i - 1 + Len(new))]
    <2>. DEFINE front == left \o new
    <2>. HIDE DEF front
    <2>0. front \in Seq(S) /\ right \in Seq(S)
      BY <1>2, <1>3 DEF front
    <2>1. Len(front) = i - 1 + Len(new) /\ Len(right) = Len(seq) - i
      BY <1>2, <1>3 DEF front
    <2>2. /\ front \o right \in Seq(S) /\ Len(front \o right) = Len(front) + Len(right)
          /\ \A k \in 1..(Len(front) + Len(right)) : (front \o right)[k] =
                 IF k <= Len(front) THEN front[k] ELSE right[k - Len(front)]
      BY <2>0, ConcatProperties, Zenon
    <2>. QED  BY <2>0, <2>1, <2>2 DEF front
  <1>. DEFINE all == (left \o new) \o right
  <1>5. Splice(seq, i, new) = all
    BY DEF Splice, left, right
  <1>. HIDE DEF all
  <1>6. all \in Seq(S) /\ Len(all) = Len(seq) - 1 + Len(new)
    BY <1>0, <1>4 DEF all
  <1>7. \A k \in 1..(Len(seq) - 1 + Len(new)) : all[k] =
                  IF k < i THEN seq[k]
                  ELSE IF k < i + Len(new) THEN new[k - i + 1]
                  ELSE seq[k - Len(new) + 1]
    <2>1. TAKE k \in 1..(Len(seq) - 1 + Len(new))
    <2>2. CASE k < i
      BY <1>0, <1>1, <1>3, <1>4, <2>2 DEF all
    <2>3. CASE ~(k < i) /\ k < i + Len(new)
      <3>1. k - (i - 1) = k - i + 1
        BY <1>0
      <3>. QED  BY <1>0, <1>3, <1>4, <2>3, <3>1 DEF all
    <2>4. CASE ~(k < i) /\ ~(k < i + Len(new))
      <3>. DEFINE r == k - (i - 1 + Len(new))
      <3>1. r \in 1..(Len(seq) - i) /\ i + r = k - Len(new) + 1
        BY <1>0, <2>4
      <3>2. all[k] = right[r]
        <4>1. ~(k <= i - 1 + Len(new)) /\ k \in 1..(i - 1 + Len(new) + (Len(seq) - i))
          BY <1>0, <2>4
        <4>. QED  BY <1>4, <4>1 DEF all
      <3>. HIDE DEF r
      <3>. QED  BY <1>2, <2>4, <3>1, <3>2
    <2>. QED  BY <2>2, <2>3, <2>4
  <1>. QED  BY <1>5, <1>6, <1>7
-----------------------------------------------------------------------------
(* The inductive invariant. *)

\* A row holds what the batch asks for.
Holds(w) == \A x \in Ids : (\E i \in DOMAIN w : x \in w[i]) <=> x \in Wanted

\* A leaf that is not touched is in the row, as the only one that comes from it.
UntouchedStays(w, o, t) ==
    \A i \in DOMAIN pages : i \notin t =>
        \E j \in DOMAIN w : w[j] = pages[i] /\ o[j] = {i}

\* A row under repair, with its origins and the leaves touched.
RowOK(w, o, t) ==
    /\ w \in Seq(SUBSET Ids) /\ o \in Seq(SUBSET Nat) /\ Len(o) = Len(w)
    /\ Holds(w)
    /\ InOrder(w)
    /\ UntouchedStays(w, o, t)

Types ==
    /\ pages \in Seq(SUBSET Ids) /\ WellFormed(pages)
    /\ phase \in {"start", "split", "repair", "done"}
    /\ position \in Nat \ {0}
    /\ phase # "done" => result = "none"

IInv ==
    /\ Types
    /\ phase \in {"split", "repair"} \/ result = "ok" => RowOK(working, origins, touched)
    /\ result = "ok" => WellFormed(working)

\* The leaves to begin with are the ones validate_input_pages lets pass.
LEMMA InitIInv == Init => IInv
  <1>. SUFFICES ASSUME Init PROVE IInv
    OBVIOUS
  <1>1. pages \in Inputs
    BY DEF Init
  <1>2. WellFormed(pages)
    BY <1>1 DEF Inputs
  <1>3. PICK n \in 1..MaxInput : \E s \in [1..n -> 1..Capacity], ids \in SUBSET Ids :
            pages = Partition(ids, s)
    BY <1>1 DEF Inputs
  <1>4. PICK s \in [1..n -> 1..Capacity], ids \in SUBSET Ids : pages = Partition(ids, s)
    BY <1>3
  <1>5. n \in Nat /\ pages \in [1..n -> SUBSET Ids]
    <2>1. DOMAIN s = 1..n /\ n \in Nat
      BY LimitsAssumption
    <2>2. Partition(ids, s) \in [1..n -> SUBSET Ids]
      BY <2>1 DEF Partition
    <2>. QED  BY <1>4, <2>1, <2>2
  <1>6. pages \in Seq(SUBSET Ids)
    BY <1>5, SeqDef
  <1>. QED  BY <1>2, <1>6 DEF Init, IInv, Types

\* A return leaves the row, and only ValidateFinal returns "ok".
LEMMA ReturnIInv ==
    ASSUME IInv, NEW r, r # "ok", Return(r)
    PROVE  IInv'
  BY DEF IInv, Types, Return

\* A turn that leaves a good row, in one of the two loops.
LEMMA TurnIInv ==
    ASSUME IInv, UNCHANGED <<pages, ops>>,
           phase' \in {"split", "repair"}, result' = "none", position' \in Nat \ {0},
           RowOK(working', origins', touched')
    PROVE  IInv'
  <1>1. Types'
    BY DEF IInv, Types, WellFormed
  <1>2. RowOK(working, origins, touched)'
    <2>1. Wanted' = Wanted
      BY DEF Wanted, Present, Put, Deleted
    <2>. QED  BY <2>1 DEF RowOK, Holds, UntouchedStays, InOrder
  <1>. QED  BY <1>1, <1>2 DEF IInv

\* Simultaneous application: every identifier of the batch has one leaf, the
\* leaf an identifier is in is the one it is routed to.
LEMMA RouteFacts ==
    ASSUME Types
    PROVE  /\ \A x \in Ids : Route(x) \in DOMAIN pages
           /\ \A x \in Ids : \A i \in DOMAIN pages : i < Route(x) => Max(pages[i]) < x
           /\ \A x \in Ids : Route(x) = Len(pages) \/ x <= Max(pages[Route(x)])
           /\ \A i \in DOMAIN pages : \A x \in pages[i] : Route(x) = i
  <1>0. /\ Len(pages) \in Nat \ {0} /\ DOMAIN pages = 1..Len(pages)
        /\ \A i \in 1..Len(pages) : pages[i] \in SUBSET Ids /\ pages[i] # {}
        /\ Ids \subseteq Nat
    BY LenProperties, ElementOfSeq, LimitsAssumption DEF Types, WellFormed
  <1>1. \A i \in 1..Len(pages) : Max(pages[i]) \in Nat /\ \A y \in pages[i] : y <= Max(pages[i])
    BY <1>0, MaxMin
  <1>2. \A i, j \in 1..Len(pages) : i < j => \A y \in pages[j] : Max(pages[i]) < y
    BY <1>0, WellFormedInOrder DEF Types
  <1>3. ASSUME NEW x \in Ids
        PROVE  /\ Route(x) \in 1..Len(pages)
               /\ \A i \in 1..Len(pages) : i < Route(x) => Max(pages[i]) < x
               /\ Route(x) = Len(pages) \/ x <= Max(pages[Route(x)])
    <2>. DEFINE fits == {i \in 1..Len(pages) : x <= Max(pages[i])}
    <2>1. Route(x) = IF fits # {} THEN Min(fits) ELSE Len(pages)
      BY <1>0 DEF Route
    <2>2. CASE fits # {}
      <3>1. fits \subseteq Nat
        BY <1>0
      <3>. HIDE DEF fits
      <3>2. \E i \in fits : \A j \in fits : i =< j
        BY <2>2, <3>1, LeastNumber
      <3>3. Min(fits) \in fits /\ \A j \in fits : Min(fits) =< j
        BY <3>2 DEF Min
      <3>4. Route(x) \in fits /\ \A j \in fits : Route(x) <= j
        BY <2>1, <2>2, <3>3
      <3>5. \A i \in 1..Len(pages) : i < Route(x) => i \notin fits
        <4>1. TAKE i \in 1..Len(pages)
        <4>2. Route(x) \in Nat
          BY <3>1, <3>4, Zenon
        <4>3. i \in Nat
          BY <1>0
        <4>. QED  BY <3>4, <4>2, <4>3
      <3>. QED  BY <1>0, <1>1, <1>3, <3>4, <3>5 DEF fits
    <2>3. CASE fits = {}
      <3>1. \A i \in 1..Len(pages) : Max(pages[i]) < x
        BY <1>0, <1>1, <1>3, <2>3
      <3>. QED  BY <1>0, <2>1, <2>3, <3>1
    <2>. QED  BY <2>2, <2>3
  <1>4. ASSUME NEW i \in 1..Len(pages), NEW x \in pages[i] PROVE Route(x) = i
    <2>1. x \in Ids /\ x \in Nat /\ x <= Max(pages[i])
      BY <1>0, <1>1
    <2>2. ~(i < Route(x))
      BY <1>1, <1>3, <2>1
    <2>3. ~(Route(x) < i)
      <3>1. SUFFICES ASSUME Route(x) < i PROVE FALSE
        OBVIOUS
      <3>2. Max(pages[Route(x)]) < x
        BY <1>2, <1>3, <2>1, <3>1
      <3>3. x <= Max(pages[Route(x)])
        BY <1>0, <1>3, <2>1, <3>1
      <3>. QED  BY <1>1, <1>3, <2>1, <3>2, <3>3
    <2>. QED  BY <1>0, <1>3, <2>1, <2>2, <2>3
  <1>. QED  BY <1>0, <1>3, <1>4

LEMMA ApplyBatchIInv == IInv /\ ApplyBatch => IInv'
  <1>. SUFFICES ASSUME IInv, ApplyBatch PROVE IInv'
    OBVIOUS
  <1>. DEFINE changed == {i \in DOMAIN pages : Routed(i) # {}}
              leaf(i) == (pages[i] \cup (Routed(i) \cap Put)) \ Deleted
              row == [i \in DOMAIN pages |-> leaf(i)]
              single == [i \in DOMAIN pages |-> {i}]
  <1>1. CASE \E r : r # "ok" /\ Return(r)
    BY <1>1, ReturnIInv
  <1>2. CASE /\ working' = row /\ origins' = single /\ touched' = changed
             /\ phase' = "split" /\ UNCHANGED <<pages, ops, position, result>>
    <2>0. /\ Len(pages) \in Nat \ {0} /\ DOMAIN pages = 1..Len(pages)
          /\ \A i \in 1..Len(pages) : pages[i] \in SUBSET Ids /\ pages[i] # {}
          /\ Ids \subseteq Nat /\ Put \subseteq Ids /\ Deleted \subseteq Ids
      BY LenProperties, ElementOfSeq, LimitsAssumption DEF IInv, Types, WellFormed, Put, Deleted
    <2>1. /\ \A x \in Ids : Route(x) \in 1..Len(pages)
          /\ \A x \in Ids : \A i \in 1..Len(pages) : i < Route(x) => Max(pages[i]) < x
          /\ \A x \in Ids : Route(x) = Len(pages) \/ x <= Max(pages[Route(x)])
          /\ \A i \in 1..Len(pages) : \A x \in pages[i] : Route(x) = i
      BY <2>0, RouteFacts DEF IInv
    <2>2. \A x \in Put \cup Deleted : x \in Batch
      BY DEF Put, Deleted, Batch
    <2>3. \A i \in 1..Len(pages) : leaf(i) \in SUBSET Ids
      BY <2>0
    <2>4. row \in Seq(SUBSET Ids) /\ Len(row) = Len(pages) /\ DOMAIN row = 1..Len(pages)
      <3>1. row \in [1..Len(pages) -> SUBSET Ids]
        BY <2>0, <2>3
      <3>. HIDE DEF row
      <3>2. row \in Seq(SUBSET Ids)
        BY <2>0, <3>1, SeqDef
      <3>. QED  BY <2>0, <3>1, <3>2, LenProperties
    <2>5. single \in Seq(SUBSET Nat) /\ Len(single) = Len(pages)
      <3>1. single \in [1..Len(pages) -> SUBSET Nat]
        BY <2>0
      <3>. HIDE DEF single
      <3>2. single \in Seq(SUBSET Nat)
        BY <2>0, <3>1, SeqDef
      <3>. QED  BY <2>0, <3>1, <3>2, LenProperties
    <2>6. Holds(row)
      <3>1. ASSUME NEW x, x \in Wanted PROVE \E i \in 1..Len(pages) : x \in leaf(i)
        <4>1. CASE x \in Present
          <5>1. PICK i \in 1..Len(pages) : x \in pages[i]
            BY <2>0, <4>1 DEF Present
          <5>. QED  BY <3>1, <5>1 DEF Wanted
        <4>2. CASE x \in Put
          <5>1. Route(x) \in 1..Len(pages) /\ x \in Routed(Route(x))
            BY <2>0, <2>1, <2>2, <4>2 DEF Routed
          <5>. QED  BY <3>1, <4>2, <5>1 DEF Wanted
        <4>. QED  BY <3>1, <4>1, <4>2 DEF Wanted
      <3>2. ASSUME NEW i \in 1..Len(pages), NEW x \in leaf(i) PROVE x \in Wanted
        BY <2>0, <3>2 DEF Wanted, Present
      <3>3. \A i \in 1..Len(pages) : row[i] = leaf(i)
        BY <2>0
      <3>. QED  BY <2>4, <3>1, <3>2, <3>3 DEF Holds
    <2>7. InOrder(row)
      <3>1. SUFFICES ASSUME NEW i \in 1..Len(pages), NEW j \in 1..Len(pages), i < j,
                            NEW x \in leaf(i), NEW y \in leaf(j)
                     PROVE  x < y
        BY <2>0, <2>4 DEF InOrder
      <3>2. x \in Ids /\ y \in Ids /\ Route(x) = i /\ Route(y) = j
        BY <2>0, <2>1, <3>1 DEF Routed
      <3>3. Max(pages[i]) < y
        BY <2>1, <3>1, <3>2
      <3>4. x <= Max(pages[i])
        BY <2>0, <2>1, <3>1, <3>2
      <3>5. Max(pages[i]) \in Nat
        BY <2>0, MaxMin
      <3>. QED  BY <2>0, <3>2, <3>3, <3>4, <3>5
    <2>8. UntouchedStays(row, single, changed)
      <3>1. ASSUME NEW i \in 1..Len(pages), Routed(i) = {} PROVE leaf(i) = pages[i]
        <4>1. \A x \in pages[i] : x \notin Deleted
          BY <2>0, <2>1, <2>2, <3>1 DEF Routed
        <4>. QED  BY <3>1, <4>1
      <3>2. \A i \in 1..Len(pages) : row[i] = leaf(i) /\ single[i] = {i}
        BY <2>0
      <3>. QED  BY <2>0, <2>4, <3>1, <3>2 DEF UntouchedStays
    <2>9. RowOK(row, single, changed)
      BY <2>4, <2>5, <2>6, <2>7, <2>8 DEF RowOK
    <2>10. result' = "none" /\ position' \in Nat \ {0}
      BY <1>2 DEF IInv, Types, ApplyBatch
    <2>. HIDE DEF row, single, changed
    <2>. QED  BY <1>2, <2>9, <2>10, TurnIInv
  <1>3. InvalidBatch # "ok"
    BY DEF InvalidBatch
  <1>. QED  BY <1>1, <1>2, <1>3 DEF ApplyBatch

\* What the loops start from.
LEMMA InLoop ==
    ASSUME IInv, phase \in {"split", "repair"}
    PROVE  /\ RowOK(working, origins, touched) /\ result = "none"
           /\ working \in Seq(SUBSET Ids) /\ origins \in Seq(SUBSET Nat)
           /\ Len(working) \in Nat /\ Len(origins) = Len(working)
           /\ DOMAIN working = 1..Len(working)
           /\ \A i \in 1..Len(working) : working[i] \in SUBSET Ids
           /\ \A i \in 1..Len(working) : origins[i] \in SUBSET Nat
           /\ position \in Nat \ {0}
           /\ Ids \subseteq Nat
  <1>1. /\ RowOK(working, origins, touched) /\ result = "none" /\ position \in Nat \ {0}
        /\ working \in Seq(SUBSET Ids) /\ origins \in Seq(SUBSET Nat)
        /\ Len(origins) = Len(working)
    BY DEF IInv, RowOK, Types
  <1>. QED  BY <1>1, LenProperties, ElementOfSeq, LimitsAssumption

LEMMA AdvanceIInv ==
    ASSUME IInv, phase \in {"split", "repair"}, Advance
    PROVE  IInv'
  <1>1. RowOK(working, origins, touched) /\ result = "none" /\ position \in Nat \ {0}
    BY InLoop
  <1>2. /\ UNCHANGED <<pages, ops, working, origins, touched, phase, result>>
        /\ position' = position + 1
    BY DEF Advance
  <1>3. RowOK(working', origins', touched')
    BY <1>1, <1>2
  <1>. QED  BY <1>1, <1>2, <1>3, TurnIInv

LEMMA SplitDoneIInv == IInv /\ SplitDone => IInv'
  <1>. SUFFICES ASSUME IInv, SplitDone PROVE IInv'
    OBVIOUS
  <1>1. RowOK(working, origins, touched) /\ result = "none"
    BY InLoop DEF SplitDone
  <1>2. /\ UNCHANGED <<pages, ops, working, origins, touched, result>>
        /\ position' = 1 /\ phase' = "repair"
    BY DEF SplitDone
  <1>3. RowOK(working', origins', touched')
    BY <1>1, <1>2
  <1>. QED  BY <1>1, <1>2, <1>3, TurnIInv

\* A leaf p is replaced by a row of leaves that holds the same, in order, and
\* its origins are touched.
LEMMA SplitRow ==
    ASSUME NEW w, NEW o, NEW t, RowOK(w, o, t),
           NEW p \in 1..Len(w), NEW part \in Seq(SUBSET Ids), NEW src \in Seq(SUBSET Nat),
           Len(src) = Len(part),
           \A g \in 1..Len(part) : part[g] \subseteq w[p],
           \A x \in w[p] : \E g \in 1..Len(part) : x \in part[g],
           \A g, h \in 1..Len(part) : g < h => \A x \in part[g], y \in part[h] : x < y
    PROVE  RowOK(Splice(w, p, part), Splice(o, p, src), t \cup o[p])
  <1>. DEFINE n == Len(part)
              v == Splice(w, p, part)
              u == Splice(o, p, src)
  <1>0. /\ w \in Seq(SUBSET Ids) /\ o \in Seq(SUBSET Nat) /\ Len(o) = Len(w)
        /\ Len(w) \in Nat /\ n \in Nat /\ DOMAIN w = 1..Len(w) /\ Ids \subseteq Nat
        /\ \A i \in 1..Len(w) : w[i] \in SUBSET Ids
    BY LenProperties, ElementOfSeq, LimitsAssumption DEF RowOK
  <1>1. /\ v \in Seq(SUBSET Ids) /\ Len(v) = Len(w) - 1 + n
        /\ \A k \in 1..(Len(w) - 1 + n) :
              v[k] = IF k < p THEN w[k] ELSE IF k < p + n THEN part[k - p + 1] ELSE w[k - n + 1]
    BY <1>0, SpliceValue, SMTT(60)
  <1>2. /\ u \in Seq(SUBSET Nat) /\ Len(u) = Len(w) - 1 + n
        /\ \A k \in 1..(Len(w) - 1 + n) :
              u[k] = IF k < p THEN o[k] ELSE IF k < p + n THEN src[k - p + 1] ELSE o[k - n + 1]
    <2>1. p \in 1..Len(o)
      BY <1>0
    <2>2. /\ u \in Seq(SUBSET Nat) /\ Len(u) = Len(o) - 1 + Len(src)
          /\ \A k \in 1..(Len(o) - 1 + Len(src)) : u[k] =
                IF k < p THEN o[k] ELSE IF k < p + Len(src) THEN src[k - p + 1]
                ELSE o[k - Len(src) + 1]
      BY <1>0, <2>1, SpliceValue, SMTT(60)
    <2>. QED  BY <1>0, <2>2
  <1>3. DOMAIN v = 1..(Len(w) - 1 + n)
    BY <1>1, LenProperties
  <1>. HIDE DEF v, u, n
  \* Where a leaf of the old row is in the new one.
  <1>4. ASSUME NEW k \in 1..Len(w), k < p
        PROVE  k \in 1..(Len(w) - 1 + n) /\ v[k] = w[k] /\ u[k] = o[k]
    <2>1. k \in 1..(Len(w) - 1 + n)
      BY <1>0, <1>4
    <2>. QED  BY <1>1, <1>2, <1>4, <2>1
  <1>5. ASSUME NEW k \in 1..Len(w), p < k
        PROVE  /\ k + n - 1 \in 1..(Len(w) - 1 + n)
               /\ v[k + n - 1] = w[k] /\ u[k + n - 1] = o[k]
    <2>. DEFINE m == k + n - 1
    <2>1. m \in 1..(Len(w) - 1 + n) /\ ~(m < p) /\ ~(m < p + n) /\ m - n + 1 = k
      BY <1>0, <1>5
    <2>. HIDE DEF m
    <2>2. v[m] = w[m - n + 1] /\ u[m] = o[m - n + 1]
      BY <1>1, <1>2, <2>1
    <2>. QED  BY <2>1, <2>2 DEF m
  <1>6. ASSUME NEW g \in 1..n
        PROVE  p + g - 1 \in 1..(Len(w) - 1 + n) /\ v[p + g - 1] = part[g]
    <2>. DEFINE m == p + g - 1
    <2>1. m \in 1..(Len(w) - 1 + n) /\ ~(m < p) /\ m < p + n /\ m - p + 1 = g
      BY <1>0, <1>6
    <2>. HIDE DEF m
    <2>2. v[m] = part[m - p + 1]
      BY <1>1, <2>1
    <2>. QED  BY <2>1, <2>2 DEF m
  \* Where a leaf of the new row comes from.
  <1>7. ASSUME NEW k \in 1..(Len(w) - 1 + n)
        PROVE  \/ k < p /\ k \in 1..Len(w) /\ v[k] = w[k]
               \/ \E g \in 1..n : k = p + g - 1 /\ v[k] = part[g]
               \/ \E j \in 1..Len(w) : p < j /\ k = j + n - 1 /\ v[k] = w[j]
    <2>1. CASE k < p
      BY <1>0, <1>1, <1>7, <2>1
    <2>2. CASE ~(k < p) /\ k < p + n
      <3>1. k - p + 1 \in 1..n /\ k = p + (k - p + 1) - 1
        BY <1>0, <1>7, <2>2
      <3>2. v[k] = part[k - p + 1]
        BY <1>1, <1>7, <2>2
      <3>. QED  BY <3>1, <3>2
    <2>3. CASE ~(k < p) /\ ~(k < p + n)
      <3>1. k - n + 1 \in 1..Len(w) /\ p < k - n + 1 /\ k = (k - n + 1) + n - 1
        BY <1>0, <1>7, <2>3
      <3>2. v[k] = w[k - n + 1]
        BY <1>1, <1>7, <2>3
      <3>. QED  BY <3>1, <3>2
    <2>. QED  BY <2>1, <2>2, <2>3
  <1>8. Holds(v)
    <2>1. ASSUME NEW x \in Ids PROVE (\E i \in 1..Len(w) : x \in w[i]) <=> x \in Wanted
      BY <1>0, <2>1 DEF RowOK, Holds
    <2>2. ASSUME NEW x \in Ids, NEW i \in 1..Len(w), x \in w[i]
          PROVE  \E k \in 1..(Len(w) - 1 + n) : x \in v[k]
      <3>1. CASE i < p
        BY <1>4, <2>2, <3>1
      <3>2. CASE p < i
        BY <1>5, <2>2, <3>2
      <3>3. CASE i = p
        <4>1. PICK g \in 1..n : x \in part[g]
          BY <2>2, <3>3 DEF n
        <4>. QED  BY <1>6, <4>1
      <3>. QED  BY <1>0, <3>1, <3>2, <3>3
    <2>3. ASSUME NEW x \in Ids, NEW k \in 1..(Len(w) - 1 + n), x \in v[k]
          PROVE  \E i \in 1..Len(w) : x \in w[i]
      <3>1. \A g \in 1..n : part[g] \subseteq w[p]
        BY DEF n
      <3>. QED  BY <1>7, <2>3, <3>1
    <2>. QED  BY <1>3, <2>1, <2>2, <2>3 DEF Holds
  <1>9. InOrder(v)
    <2>1. \A i, j \in 1..Len(w) : i < j => \A x \in w[i], y \in w[j] : x < y
      BY <1>0 DEF RowOK, InOrder
    <2>2. \A g \in 1..n : part[g] \subseteq w[p]
      BY DEF n
    <2>3. \A g, h \in 1..n : g < h => \A x \in part[g], y \in part[h] : x < y
      BY DEF n
    <2>4. SUFFICES ASSUME NEW a \in 1..(Len(w) - 1 + n), NEW b \in 1..(Len(w) - 1 + n), a < b,
                          NEW x \in v[a], NEW y \in v[b]
                   PROVE  x < y
      BY <1>3 DEF InOrder
    \* The old leaf that x and y were in.
    <2>5. CASE \E g, h \in 1..n : a = p + g - 1 /\ v[a] = part[g] /\ b = p + h - 1 /\ v[b] = part[h]
      <3>1. PICK g, h \in 1..n : a = p + g - 1 /\ v[a] = part[g] /\ b = p + h - 1 /\ v[b] = part[h]
        BY <2>5
      <3>2. g < h
        BY <1>0, <2>4, <3>1
      <3>. QED  BY <2>3, <2>4, <3>1, <3>2
    <2>6. CASE \E i, j \in 1..Len(w) : i < j /\ v[a] \subseteq w[i] /\ v[b] \subseteq w[j]
      BY <2>1, <2>4, <2>6
    <2>7. \/ a < p /\ a \in 1..Len(w) /\ v[a] = w[a]
          \/ \E g \in 1..n : a = p + g - 1 /\ v[a] = part[g]
          \/ \E j \in 1..Len(w) : p < j /\ a = j + n - 1 /\ v[a] = w[j]
      BY <1>7
    <2>8. \/ b < p /\ b \in 1..Len(w) /\ v[b] = w[b]
          \/ \E g \in 1..n : b = p + g - 1 /\ v[b] = part[g]
          \/ \E j \in 1..Len(w) : p < j /\ b = j + n - 1 /\ v[b] = w[j]
      BY <1>7
    <2>9. CASE a < p /\ a \in 1..Len(w) /\ v[a] = w[a]
      <3>1. CASE b < p /\ b \in 1..Len(w) /\ v[b] = w[b]
        BY <2>1, <2>4, <2>9, <3>1
      <3>2. CASE \E g \in 1..n : b = p + g - 1 /\ v[b] = part[g]
        BY <2>2, <2>6, <2>9, <3>2
      <3>3. CASE \E j \in 1..Len(w) : p < j /\ b = j + n - 1 /\ v[b] = w[j]
        <4>1. PICK j \in 1..Len(w) : p < j /\ v[b] = w[j]
          BY <3>3
        <4>2. a < j
          BY <1>0, <2>9, <4>1
        <4>. QED  BY <2>6, <2>9, <4>1, <4>2
      <3>. QED  BY <2>8, <3>1, <3>2, <3>3
    <2>10. CASE \E g \in 1..n : a = p + g - 1 /\ v[a] = part[g]
      <3>1. ~(b < p)
        BY <1>0, <2>4, <2>10
      <3>2. CASE \E g \in 1..n : b = p + g - 1 /\ v[b] = part[g]
        BY <2>5, <2>10, <3>2
      <3>3. CASE \E j \in 1..Len(w) : p < j /\ b = j + n - 1 /\ v[b] = w[j]
        BY <2>2, <2>6, <2>10, <3>3
      <3>. QED  BY <2>8, <3>1, <3>2, <3>3
    <2>11. CASE \E j \in 1..Len(w) : p < j /\ a = j + n - 1 /\ v[a] = w[j]
      <3>1. PICK i \in 1..Len(w) : p < i /\ a = i + n - 1 /\ v[a] = w[i]
        BY <2>11
      <3>2. ~(b < p) /\ \A g \in 1..n : b # p + g - 1
        BY <1>0, <2>4, <3>1
      <3>3. PICK j \in 1..Len(w) : p < j /\ b = j + n - 1 /\ v[b] = w[j]
        BY <2>8, <3>2
      <3>4. i < j
        BY <1>0, <2>4, <3>1, <3>3
      <3>. QED  BY <2>6, <3>1, <3>3, <3>4
    <2>. QED  BY <2>7, <2>9, <2>10, <2>11
  <1>10. UntouchedStays(v, u, t \cup o[p])
    <2>1. SUFFICES ASSUME NEW i \in DOMAIN pages, i \notin t, i \notin o[p]
                   PROVE  \E k \in 1..(Len(w) - 1 + n) : v[k] = pages[i] /\ u[k] = {i}
      BY <1>3 DEF UntouchedStays
    <2>2. PICK j \in 1..Len(w) : w[j] = pages[i] /\ o[j] = {i}
      BY <1>0, <2>1 DEF RowOK, UntouchedStays
    <2>3. j # p
      BY <2>1, <2>2
    <2>4. CASE j < p
      BY <1>4, <2>2, <2>4
    <2>5. CASE p < j
      BY <1>5, <2>2, <2>5
    <2>6. j < p \/ p < j
      BY <1>0, <2>3
    <2>. QED  BY <2>4, <2>5, <2>6
  <1>. QED  BY <1>1, <1>2, <1>8, <1>9, <1>10 DEF RowOK, v, u

LEMMA SplitIInv == IInv /\ Split => IInv'
  <1>. SUFFICES ASSUME IInv, Split PROVE IInv'
    OBVIOUS
  <1>0. /\ RowOK(working, origins, touched) /\ result = "none"
        /\ working \in Seq(SUBSET Ids) /\ origins \in Seq(SUBSET Nat)
        /\ Len(working) \in Nat /\ Len(origins) = Len(working)
        /\ \A i \in 1..Len(working) : working[i] \in SUBSET Ids
        /\ \A i \in 1..Len(working) : origins[i] \in SUBSET Nat
        /\ position \in Nat \ {0} /\ Ids \subseteq Nat
    BY InLoop DEF Split
  <1>1. position \in 1..Len(working) /\ phase = "split"
    BY <1>0 DEF Split
  <1>. DEFINE leaf == working[position]
              s == GroupSizes(Cardinality(leaf))
              part == Partition(leaf, s)
              src == [g \in DOMAIN s |-> origins[position]]
  <1>2. CASE \E r : r # "ok" /\ Return(r)
    BY <1>2, ReturnIInv
  <1>3. CASE /\ working' = Splice(working, position, part)
             /\ origins' = Splice(origins, position, src)
             /\ touched' = touched \cup origins[position]
             /\ position' = position + 1
             /\ UNCHANGED <<pages, ops, phase, result>>
    <2>1. leaf \subseteq Nat /\ leaf \subseteq Ids /\ IsFiniteSet(leaf)
      BY <1>0, <1>1, LimitsAssumption, FS_Subset
    <2>2. Cardinality(leaf) \in Nat \ {0}
      <3>1. Cardinality(leaf) \in Nat
        BY <2>1, FS_CardinalityType
      <3>2. Cardinality(leaf) > Capacity /\ Capacity \in Nat
        BY LimitsAssumption DEF Split, Size
      <3>. QED  BY <3>1, <3>2
    <2>3. PICK n \in Nat \ {0} : s \in [1..n -> Nat] /\ Starts(s)[n] + s[n] = Cardinality(leaf)
      BY <2>2, GroupSizesAddUp
    <2>. HIDE DEF s, leaf
    <2>4. /\ DOMAIN part = 1..n
          /\ \A g \in 1..n : part[g] \subseteq leaf
          /\ \A x \in leaf : \E g \in 1..n : x \in part[g]
          /\ \A g, h \in 1..n : g < h => \A x \in part[g], y \in part[h] : x < y
      BY <2>1, <2>3, PartitionHolds
    <2>5. part \in Seq(SUBSET Ids) /\ Len(part) = n
      <3>1. part = [g \in 1..n |-> part[g]]
        BY <2>3 DEF Partition
      <3>. HIDE DEF part
      <3>2. part \in [1..n -> SUBSET Ids]
        BY <2>1, <2>4, <3>1
      <3>. QED  BY <3>2, SeqDef, LenProperties
    <2>6. src \in Seq(SUBSET Nat) /\ Len(src) = n
      <3>1. src \in [1..n -> SUBSET Nat]
        BY <1>0, <1>1, <2>3
      <3>. HIDE DEF src
      <3>. QED  BY <3>1, SeqDef, LenProperties
    <2>. HIDE DEF part, src
    <2>7. RowOK(Splice(working, position, part), Splice(origins, position, src),
                touched \cup origins[position])
      BY <1>0, <1>1, <2>4, <2>5, <2>6, SplitRow DEF leaf
    <2>8. RowOK(working', origins', touched')
      BY <1>3, <2>7 DEF part, src, s, leaf
    <2>. QED  BY <1>0, <1>1, <1>3, <2>8, TurnIInv
  <1>. QED  BY <1>2, <1>3 DEF Split, Size

\* One identifier moves between neighbours, the largest to the right or the
\* smallest to the left.
LEMMA MoveIInv ==
    ASSUME IInv, phase = "repair", position \in 1..Len(working),
           NEW from \in 1..Len(working), NEW x \in working[from],
           \/ from = position - 1 /\ \A y \in working[from] : y <= x
           \/ from = position + 1 /\ \A y \in working[from] : x <= y,
           Move(x, from)
    PROVE  IInv'
  <1>0. /\ RowOK(working, origins, touched) /\ result = "none"
        /\ working \in Seq(SUBSET Ids) /\ origins \in Seq(SUBSET Nat)
        /\ Len(working) \in Nat /\ Len(origins) = Len(working)
        /\ DOMAIN working = 1..Len(working)
        /\ \A i \in 1..Len(working) : working[i] \in SUBSET Ids
        /\ position \in Nat \ {0} /\ Ids \subseteq Nat
    BY InLoop
  <1>. DEFINE p == position
              row == [working EXCEPT ![from] = @ \ {x}, ![p] = @ \cup {x}]
              t == touched \cup origins[from] \cup origins[p]
  <1>1. CASE \E r : r # "ok" /\ Return(r)
    BY <1>1, ReturnIInv
  <1>2. CASE /\ working' = row /\ touched' = t /\ position' = p + 1
             /\ UNCHANGED <<pages, ops, origins, phase, result>>
    <2>1. from # p
      BY <1>0
    <2>2. /\ DOMAIN row = 1..Len(working)
          /\ row[from] = working[from] \ {x}
          /\ row[p] = working[p] \cup {x}
          /\ \A k \in 1..Len(working) : k # from /\ k # p => row[k] = working[k]
      BY <1>0, <2>1
    <2>3. row \in Seq(SUBSET Ids) /\ Len(row) = Len(working)
      <3>1. \A k \in 1..Len(working) : row[k] \in SUBSET Ids
        BY <1>0, <2>2
      <3>2. row \in [1..Len(working) -> SUBSET Ids]
        BY <1>0, <3>1
      <3>. HIDE DEF row
      <3>. QED  BY <1>0, <3>2, SeqDef, LenProperties
    <2>. HIDE DEF row, p
    <2>4. p \in 1..Len(working)
      BY DEF p
    <2>5. Holds(row)
      <3>1. ASSUME NEW y \in Ids
            PROVE  (\E k \in 1..Len(working) : y \in row[k])
                   <=> (\E k \in 1..Len(working) : y \in working[k])
        <4>1. CASE y = x
          BY <2>2, <2>4, <4>1
        <4>2. CASE y # x
          <5>1. \A k \in 1..Len(working) : y \in row[k] <=> y \in working[k]
            BY <2>2, <4>2
          <5>. QED  BY <5>1
        <4>. QED  BY <4>1, <4>2
      <3>. QED  BY <1>0, <2>2, <3>1 DEF RowOK, Holds
    <2>6. InOrder(row)
      <3>1. \A i, j \in 1..Len(working) : i < j =>
                \A a \in working[i], b \in working[j] : a < b
        BY <1>0 DEF RowOK, InOrder
      <3>2. SUFFICES ASSUME NEW i \in 1..Len(working), NEW j \in 1..Len(working), i < j,
                            NEW a \in row[i], NEW b \in row[j]
                     PROVE  a < b
        BY <2>2 DEF InOrder
      <3>3. /\ a \in working[i] \/ (i = p /\ a = x)
            /\ b \in working[j] \/ (j = p /\ b = x)
            /\ i = from => a # x
            /\ j = from => b # x
        BY <2>2, <3>2
      <3>4. x \in Nat /\ \A k \in 1..Len(working) : \A y \in working[k] : y \in Nat
        BY <1>0
      <3>5. CASE a \in working[i] /\ b \in working[j]
        BY <3>1, <3>2, <3>5
      <3>6. CASE i = p /\ a = x
        <4>1. b \in working[j]
          BY <3>2, <3>3, <3>6
        <4>2. CASE from = p - 1
          <5>1. from < j
            BY <1>0, <2>4, <3>2, <3>6, <4>2
          <5>. QED  BY <3>1, <3>6, <4>1, <5>1
        <4>3. CASE from = p + 1 /\ \A y \in working[from] : x <= y
          <5>1. CASE j = from
            BY <3>3, <3>4, <3>6, <4>1, <4>3, <5>1
          <5>2. CASE j # from
            <6>1. from < j
              BY <1>0, <2>4, <3>2, <3>6, <4>3, <5>2
            <6>. QED  BY <3>1, <3>6, <4>1, <6>1
          <5>. QED  BY <5>1, <5>2
        <4>. QED  BY <4>2, <4>3 DEF p
      <3>7. CASE j = p /\ b = x
        <4>1. a \in working[i]
          BY <3>2, <3>3, <3>7
        <4>2. CASE from = p + 1
          <5>1. i < from
            BY <1>0, <2>4, <3>2, <3>7, <4>2
          <5>. QED  BY <3>1, <3>7, <4>1, <5>1
        <4>3. CASE from = p - 1 /\ \A y \in working[from] : y <= x
          <5>1. CASE i = from
            BY <3>3, <3>4, <3>7, <4>1, <4>3, <5>1
          <5>2. CASE i # from
            <6>1. i < from
              BY <1>0, <2>4, <3>2, <3>7, <4>3, <5>2
            <6>. QED  BY <3>1, <3>7, <4>1, <6>1
          <5>. QED  BY <5>1, <5>2
        <4>. QED  BY <4>2, <4>3 DEF p
      <3>. QED  BY <3>3, <3>5, <3>6, <3>7
    <2>7. UntouchedStays(row, origins, t)
      <3>1. SUFFICES ASSUME NEW i \in DOMAIN pages, i \notin t
                     PROVE  \E k \in 1..Len(working) : row[k] = pages[i] /\ origins[k] = {i}
        BY <2>2 DEF UntouchedStays
      <3>2. PICK k \in 1..Len(working) : working[k] = pages[i] /\ origins[k] = {i}
        BY <1>0, <3>1 DEF RowOK, UntouchedStays
      <3>3. k # from /\ k # p
        BY <3>1, <3>2
      <3>. QED  BY <2>2, <3>2, <3>3
    <2>8. RowOK(row, origins, t)
      BY <1>0, <2>3, <2>5, <2>6, <2>7 DEF RowOK
    <2>9. RowOK(working', origins', touched')
      BY <1>2, <2>8
    <2>. QED  BY <1>0, <1>2, <2>9, TurnIInv DEF p
  <1>. QED  BY <1>1, <1>2 DEF Move

\* The leaf a neighbour lends from has one to lend.
LEMMA BorrowIInv == IInv /\ (BorrowFromLeft \/ BorrowFromRight) => IInv'
  <1>. SUFFICES ASSUME IInv, BorrowFromLeft \/ BorrowFromRight PROVE IInv'
    OBVIOUS
  <1>0. /\ phase = "repair" /\ position <= Len(working)
        /\ Len(working) \in Nat /\ position \in Nat \ {0}
        /\ \A i \in 1..Len(working) : working[i] \in SUBSET Ids
        /\ Minimum \in Nat
    BY InLoop, LimitsAssumption DEF BorrowFromLeft, BorrowFromRight, Underfull, Repairing
  <1>1. ASSUME NEW k \in 1..Len(working), Size(k) > Minimum
        PROVE  working[k] # {}
    <2>1. SUFFICES ASSUME working[k] = {} PROVE FALSE
      OBVIOUS
    <2>2. Size(k) = 0
      BY <2>1, FS_EmptySet DEF Size
    <2>. QED  BY <1>0, <1>1, <2>2
  <1>2. CASE BorrowFromLeft
    <2>1. position - 1 \in 1..Len(working) /\ Size(position - 1) > Minimum
      BY <1>0, <1>2 DEF BorrowFromLeft, LeftLends
    <2>. DEFINE x == Max(working[position - 1])
    <2>2. x \in working[position - 1] /\ \A y \in working[position - 1] : y <= x
      BY <1>0, <1>1, <2>1, MaxMin
    <2>3. Move(x, position - 1)
      BY <1>2 DEF BorrowFromLeft
    <2>. HIDE DEF x
    <2>. QED  BY <1>0, <2>1, <2>2, <2>3, MoveIInv
  <1>3. CASE BorrowFromRight
    <2>1. position + 1 \in 1..Len(working) /\ Size(position + 1) > Minimum
      BY <1>0, <1>3 DEF BorrowFromRight, RightLends
    <2>. DEFINE x == Min(working[position + 1])
    <2>2. x \in working[position + 1] /\ \A y \in working[position + 1] : x <= y
      BY <1>0, <1>1, <2>1, MaxMin
    <2>3. Move(x, position + 1)
      BY <1>3 DEF BorrowFromRight
    <2>. HIDE DEF x
    <2>. QED  BY <1>0, <2>1, <2>2, <2>3, MoveIInv
  <1>. QED  BY <1>2, <1>3

\* Two neighbours become one, and the row behind them moves up.
LEMMA MergedRow ==
    ASSUME NEW S, NEW w \in Seq(SUBSET S), NEW i \in 1..(Len(w) - 1)
    PROVE  LET v == Splice([w EXCEPT ![i] = @ \cup w[i + 1]], i + 1, <<>>)
           IN  /\ v \in Seq(SUBSET S) /\ Len(v) = Len(w) - 1
               /\ \A k \in 1..(Len(w) - 1) :
                     v[k] = IF k < i THEN w[k]
                            ELSE IF k = i THEN w[i] \cup w[i + 1] ELSE w[k + 1]
  <1>. DEFINE joined == [w EXCEPT ![i] = @ \cup w[i + 1]]
              v == Splice(joined, i + 1, <<>>)
  <1>0. Len(w) \in Nat /\ i \in 1..Len(w) /\ i + 1 \in 1..Len(w)
    BY LenProperties
  <1>1. w[i] \cup w[i + 1] \in SUBSET S
    <2>1. w[i] \in SUBSET S /\ w[i + 1] \in SUBSET S
      BY <1>0, ElementOfSeq
    <2>. QED  BY <2>1
  <1>2. /\ joined \in Seq(SUBSET S) /\ Len(joined) = Len(w)
        /\ \A k \in 1..Len(w) : joined[k] = IF k = i THEN w[i] \cup w[i + 1] ELSE w[k]
    BY <1>0, <1>1, ExceptSeq
  <1>. HIDE DEF joined
  <1>3. /\ v \in Seq(SUBSET S) /\ Len(v) = Len(w) - 1
        /\ \A k \in 1..(Len(w) - 1) :
              v[k] = IF k < i + 1 THEN joined[k] ELSE joined[k + 1]
    <2>. DEFINE none == <<>>
                p == i + 1
    <2>1. none \in Seq(SUBSET S) /\ p \in 1..Len(joined) /\ joined \in Seq(SUBSET S)
      BY <1>0, <1>2, EmptySeq
    <2>2. Len(none) = 0 /\ p = i + 1
      BY EmptySeq
    <2>3. v = Splice(joined, p, none)
      OBVIOUS
    <2>. HIDE DEF none, v, p
    <2>4. /\ v \in Seq(SUBSET S) /\ Len(v) = Len(joined) - 1 + Len(none)
          /\ \A k \in 1..(Len(joined) - 1 + Len(none)) : v[k] =
                IF k < p THEN joined[k]
                ELSE IF k < p + Len(none) THEN none[k - p + 1]
                ELSE joined[k - Len(none) + 1]
      BY <2>1, <2>3, SpliceValue, Zenon
    <2>. QED  BY <1>0, <1>2, <2>2, <2>4
  <1>. HIDE DEF v
  <1>4. v \in Seq(SUBSET S) /\ Len(v) = Len(w) - 1
    BY <1>3
  <1>5. ASSUME NEW k \in 1..(Len(w) - 1)
        PROVE  v[k] = IF k < i THEN w[k]
                      ELSE IF k = i THEN w[i] \cup w[i + 1] ELSE w[k + 1]
    <2>1. CASE k < i + 1
      <3>1. k \in 1..Len(w) /\ v[k] = joined[k]
        BY <1>0, <1>3, <1>5, <2>1
      <3>2. joined[k] = IF k = i THEN w[i] \cup w[i + 1] ELSE w[k]
        BY <1>2, <3>1
      <3>3. CASE k = i
        <4>1. ~(k < i)
          BY <1>0, <3>3
        <4>. QED  BY <3>1, <3>2, <3>3, <4>1, Zenon
      <3>4. CASE k # i
        <4>1. k < i
          BY <1>0, <1>5, <2>1, <3>4
        <4>. QED  BY <3>1, <3>2, <3>4, <4>1, Zenon
      <3>. QED  BY <3>3, <3>4
    <2>2. CASE ~(k < i + 1)
      <3>1. v[k] = joined[k + 1] /\ k + 1 \in 1..Len(w) /\ k + 1 # i
        BY <1>0, <1>2, <1>3, <1>5, <2>2
      <3>. QED  BY <1>0, <1>2, <2>2, <3>1
    <2>. QED  BY <2>1, <2>2
  <1>. QED  BY <1>4, <1>5 DEF v, joined

LEMMA MergeIInv ==
    ASSUME IInv, phase = "repair", NEW i \in 1..(Len(working) - 1), Merge(i)
    PROVE  IInv'
  <1>0. /\ RowOK(working, origins, touched) /\ result = "none"
        /\ working \in Seq(SUBSET Ids) /\ origins \in Seq(SUBSET Nat)
        /\ Len(working) \in Nat /\ Len(origins) = Len(working)
        /\ DOMAIN working = 1..Len(working)
        /\ Ids \subseteq Nat
    BY InLoop
  <1>. DEFINE v == Splice([working EXCEPT ![i] = @ \cup working[i + 1]], i + 1, <<>>)
              u == Splice([origins EXCEPT ![i] = @ \cup origins[i + 1]], i + 1, <<>>)
              t == touched \cup origins[i] \cup origins[i + 1]
              n == Len(working) - 1
  <1>1. CASE \E r : r # "ok" /\ Return(r)
    BY <1>1, ReturnIInv
  <1>2. CASE /\ working' = v /\ origins' = u /\ touched' = t /\ position' = i
             /\ UNCHANGED <<pages, ops, phase, result>>
    <2>1. /\ v \in Seq(SUBSET Ids) /\ Len(v) = n
          /\ \A k \in 1..n : v[k] = IF k < i THEN working[k]
                ELSE IF k = i THEN working[i] \cup working[i + 1] ELSE working[k + 1]
      <3>1. working \in Seq(SUBSET Ids) /\ i \in 1..(Len(working) - 1)
        BY <1>0
      <3>. QED  BY <3>1, MergedRow, ZenonT(60)
    <2>2. /\ u \in Seq(SUBSET Nat) /\ Len(u) = n
          /\ \A k \in 1..n : u[k] = IF k < i THEN origins[k]
                ELSE IF k = i THEN origins[i] \cup origins[i + 1] ELSE origins[k + 1]
      <3>1. origins \in Seq(SUBSET Nat) /\ i \in 1..(Len(origins) - 1)
        BY <1>0
      <3>2. /\ u \in Seq(SUBSET Nat) /\ Len(u) = Len(origins) - 1
            /\ \A k \in 1..(Len(origins) - 1) : u[k] = IF k < i THEN origins[k]
                  ELSE IF k = i THEN origins[i] \cup origins[i + 1] ELSE origins[k + 1]
        BY <3>1, MergedRow, ZenonT(60)
      <3>. QED  BY <1>0, <3>2
    <2>3. DOMAIN v = 1..n
      BY <2>1, LenProperties
    <2>4. n \in Nat /\ Len(working) = n + 1 /\ i \in 1..n
      BY <1>0
    <2>. HIDE DEF v, u, n
    <2>5. Holds(v)
      <3>1. ASSUME NEW x \in Ids, NEW k \in 1..n, x \in v[k]
            PROVE  \E j \in 1..(n + 1) : x \in working[j]
        BY <2>1, <2>4, <3>1
      <3>2. ASSUME NEW x \in Ids, NEW j \in 1..(n + 1), x \in working[j]
            PROVE  \E k \in 1..n : x \in v[k]
        <4>1. CASE j < i
          <5>1. j \in 1..n /\ v[j] = working[j]
            BY <2>1, <2>4, <3>2, <4>1
          <5>. QED  BY <3>2, <5>1
        <4>2. CASE j = i \/ j = i + 1
          <5>1. v[i] = working[i] \cup working[i + 1]
            BY <2>1, <2>4
          <5>. QED  BY <2>4, <3>2, <4>2, <5>1
        <4>3. CASE i + 1 < j
          <5>1. j - 1 \in 1..n /\ ~(j - 1 < i) /\ j - 1 # i /\ (j - 1) + 1 = j
            BY <2>4, <3>2, <4>3
          <5>2. v[j - 1] = working[(j - 1) + 1]
            BY <2>1, <5>1
          <5>. QED  BY <3>2, <5>1, <5>2
        <4>. QED  BY <2>4, <3>2, <4>1, <4>2, <4>3
      <3>3. \A x \in Ids : (\E j \in 1..(n + 1) : x \in working[j]) <=> x \in Wanted
        BY <1>0, <2>4 DEF RowOK, Holds
      <3>. QED  BY <2>3, <3>1, <3>2, <3>3 DEF Holds
    <2>6. InOrder(v)
      <3>1. \A a, b \in 1..(n + 1) : a < b => \A x \in working[a], y \in working[b] : x < y
        BY <1>0, <2>4 DEF RowOK, InOrder
      <3>2. SUFFICES ASSUME NEW a \in 1..n, NEW b \in 1..n, a < b,
                            NEW x \in v[a], NEW y \in v[b]
                     PROVE  x < y
        BY <2>3 DEF InOrder
      \* The old leaf of each of the two.
      <3>3. PICK c \in 1..(n + 1) : x \in working[c] /\ c <= a + 1 /\ (a < i => c = a)
                                    /\ (a = i => c <= i + 1) /\ (i < a => c = a + 1)
        BY <2>1, <2>4, <3>2
      <3>4. PICK d \in 1..(n + 1) : y \in working[d] /\ b <= d /\ (i < b => d = b + 1)
        BY <2>1, <2>4, <3>2
      <3>5. c < d
        BY <2>4, <3>2, <3>3, <3>4
      <3>. QED  BY <3>1, <3>3, <3>4, <3>5
    <2>7. UntouchedStays(v, u, t)
      <3>1. SUFFICES ASSUME NEW m \in DOMAIN pages, m \notin t
                     PROVE  \E k \in 1..n : v[k] = pages[m] /\ u[k] = {m}
        BY <2>3 DEF UntouchedStays
      <3>2. PICK j \in 1..(n + 1) : working[j] = pages[m] /\ origins[j] = {m}
        BY <1>0, <2>4, <3>1 DEF RowOK, UntouchedStays
      <3>3. j # i /\ j # i + 1
        BY <3>1, <3>2
      <3>4. CASE j < i
        <4>1. j \in 1..n /\ v[j] = working[j] /\ u[j] = origins[j]
          BY <2>1, <2>2, <2>4, <3>2, <3>4
        <4>. QED  BY <3>2, <4>1
      <3>5. CASE i + 1 < j
        <4>1. j - 1 \in 1..n /\ ~(j - 1 < i) /\ j - 1 # i /\ (j - 1) + 1 = j
          BY <2>4, <3>2, <3>5
        <4>2. v[j - 1] = working[(j - 1) + 1] /\ u[j - 1] = origins[(j - 1) + 1]
          BY <2>1, <2>2, <4>1
        <4>. QED  BY <3>2, <4>1, <4>2
      <3>6. j < i \/ i + 1 < j
        BY <2>4, <3>2, <3>3
      <3>. QED  BY <3>4, <3>5, <3>6
    <2>8. RowOK(v, u, t)
      BY <2>1, <2>2, <2>5, <2>6, <2>7 DEF RowOK
    <2>9. RowOK(working', origins', touched')
      BY <1>2, <2>8 DEF v, u
    <2>. QED  BY <1>0, <1>2, <2>4, <2>9, TurnIInv
  <1>. QED  BY <1>1, <1>2 DEF Merge

LEMMA MergesIInv == IInv /\ (MergeWithLeft \/ MergeWithRight) => IInv'
  <1>. SUFFICES ASSUME IInv, MergeWithLeft \/ MergeWithRight PROVE IInv'
    OBVIOUS
  <1>1. /\ phase = "repair" /\ Len(working) > 1 /\ position <= Len(working)
        /\ Len(working) \in Nat /\ position \in Nat \ {0}
    BY InLoop DEF MergeWithLeft, MergeWithRight, Underfull, Repairing
  <1>2. CASE MergeWithLeft
    BY <1>1, <1>2, MergeIInv DEF MergeWithLeft
  <1>3. CASE MergeWithRight
    BY <1>1, <1>3, MergeIInv DEF MergeWithRight
  <1>. QED  BY <1>2, <1>3

LEMMA ValidateFinalIInv == IInv /\ ValidateFinal => IInv'
  <1>. SUFFICES ASSUME IInv, ValidateFinal PROVE IInv'
    OBVIOUS
  <1>1. RowOK(working, origins, touched)
    BY InLoop DEF ValidateFinal
  <1>2. /\ UNCHANGED <<pages, ops, working, origins, touched, position>>
        /\ phase' = "done"
        /\ result' = "ok" => WellFormed(working)
    BY DEF ValidateFinal, Return
  <1>3. RowOK(working, origins, touched)'
    <2>1. Wanted' = Wanted
      BY <1>2 DEF Wanted, Present, Put, Deleted
    <2>. QED  BY <1>1, <1>2, <2>1 DEF RowOK, Holds, UntouchedStays, InOrder
  <1>4. Types'
    BY <1>2 DEF IInv, Types, WellFormed
  <1>. QED  BY <1>2, <1>3, <1>4 DEF IInv, WellFormed

\* The invariant holds in every state of every behaviour.
LEMMA Invariance == Spec => []IInv
  <1>1. IInv /\ UNCHANGED vars => IInv'
    <2>. SUFFICES ASSUME IInv, UNCHANGED vars PROVE IInv'
      OBVIOUS
    <2>1. Types' /\ (result' = "ok" => WellFormed(working)')
      BY DEF IInv, Types, WellFormed, vars
    <2>2. Wanted' = Wanted
      BY DEF Wanted, Present, Put, Deleted, vars
    <2>3. RowOK(working, origins, touched) => RowOK(working, origins, touched)'
      BY <2>2 DEF RowOK, Holds, UntouchedStays, InOrder, vars
    <2>. QED  BY <2>1, <2>3 DEF IInv, vars
  <1>2. IInv /\ (SplitPasses \/ RepairPasses) => IInv'
    BY AdvanceIInv DEF SplitPasses, RepairPasses, Repairing
  <1>3. IInv /\ [Next]_vars => IInv'
    BY <1>1, <1>2, ApplyBatchIInv, SplitIInv, SplitDoneIInv, BorrowIInv, MergesIInv,
       ValidateFinalIInv DEF Next
  <1>. QED  BY InitIInv, <1>3, PTL DEF Spec
-----------------------------------------------------------------------------
\* At every turn of the repair the leaves hold what the batch asks for, in order,
\* and a plan keeps every leaf it does not list as touched
\* (plan_mixed_leaf_updates).
THEOREM PlanLosesNothing == Spec => []NothingLost
  <1>1. ASSUME IInv PROVE NothingLost
    <2>1. ASSUME phase \in {"split", "repair"} \/ result = "ok"
          PROVE  /\ UNION {working[i] : i \in DOMAIN working} = Wanted
                 /\ \A i, j \in DOMAIN working : i < j =>
                        \A x \in working[i], y \in working[j] : x < y
      <3>1. RowOK(working, origins, touched)
        BY <1>1, <2>1 DEF IInv
      <3>2. \A i \in DOMAIN working : working[i] \in SUBSET Ids
        BY <3>1, LenProperties DEF RowOK
      <3>3. Wanted \subseteq Ids
        <4>1. \A i \in DOMAIN pages : pages[i] \in SUBSET Ids
          BY <1>1, LenProperties DEF IInv, Types
        <4>. QED  BY <4>1 DEF Wanted, Present, Put
      <3>4. \A x \in Ids : (\E i \in DOMAIN working : x \in working[i]) <=> x \in Wanted
        BY <3>1 DEF RowOK, Holds
      <3>5. UNION {working[i] : i \in DOMAIN working} = Wanted
        BY <3>2, <3>3, <3>4
      <3>. QED  BY <3>1, <3>5 DEF RowOK, InOrder
    <2>2. ASSUME result = "ok"
          PROVE  /\ WellFormed(working)
                 /\ \A i \in DOMAIN pages : i \notin touched =>
                        \E j \in DOMAIN working : working[j] = pages[i]
      BY <1>1, <2>2 DEF IInv, RowOK, UntouchedStays
    <2>. QED  BY <2>1, <2>2 DEF NothingLost
  <1>. QED  BY <1>1, Invariance, PTL
=============================================================================
