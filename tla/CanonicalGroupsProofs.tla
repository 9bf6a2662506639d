------------------------ MODULE CanonicalGroupsProofs ------------------------
(***************************************************************************)
(* The arithmetic of pages, for every capacity: LEAF_CAPACITY is 185 and    *)
(* INTERNAL_FANOUT 255, far beyond what a model checker can enumerate.      *)
(***************************************************************************)
EXTENDS CanonicalGroups, TLAPS

\* Division with remainder, in the form the proofs below use it.
LEMMA DivMod ==
    ASSUME NEW n \in Nat, NEW d \in Nat \ {0}
    PROVE  /\ n \div d \in Nat /\ n % d \in Nat
           /\ n = d * (n \div d) + (n % d)
           /\ n % d < d
  OBVIOUS

\* Quotient and remainder are the only ones.
LEMMA DivUnique ==
    ASSUME NEW d \in Nat \ {0}, NEW q \in Nat, NEW r \in Nat, r < d
    PROVE  (d * q + r) \div d = q
  <1> DEFINE n == d * q + r
             x == n \div d
             y == n % d
  <1>1. n \in Nat
    OBVIOUS
  <1>2. x \in Nat /\ y \in Nat /\ n = d * x + y /\ y < d
    BY <1>1, DivMod
  <1> HIDE DEF x, y
  <1>3. d * x + y = d * q + r
    BY <1>2
  <1>4. ~(x >= q + 1)
    <2>1. SUFFICES ASSUME x >= q + 1 PROVE FALSE
      OBVIOUS
    <2>2. d * x >= d * (q + 1)
      BY <2>1, <1>2
    <2>3. d * (q + 1) = d * q + d
      OBVIOUS
    <2>4. QED
      BY <2>2, <2>3, <1>2, <1>3
  <1>5. ~(q >= x + 1)
    <2>1. SUFFICES ASSUME q >= x + 1 PROVE FALSE
      OBVIOUS
    <2>2. d * q >= d * (x + 1)
      BY <2>1, <1>2
    <2>3. d * (x + 1) = d * x + d
      BY <1>2
    <2>4. QED
      BY <2>2, <2>3, <1>2, <1>3
  <1>6. x = q
    BY <1>2, <1>4, <1>5
  <1>7. QED
    BY <1>6 DEF x

\* The number of pages is the quotient, and one more if something is left.
LEMMA GroupCountValue ==
    ASSUME NEW total \in Nat, NEW c \in Nat \ {0}
    PROVE  GroupCount(total, c) =
               IF total % c = 0 THEN total \div c ELSE (total \div c) + 1
  <1> DEFINE q == total \div c
             r == total % c
  <1>1. q \in Nat /\ r \in Nat /\ total = c * q + r /\ r < c
    BY DivMod
  <1> HIDE DEF q, r
  <1>2. CASE r = 0
    <2>1. total + c - 1 = c * q + (c - 1)
      BY <1>1, <1>2
    <2>2. (c * q + (c - 1)) \div c = q
      BY <1>1, DivUnique
    <2>3. QED
      BY <1>2, <2>1, <2>2 DEF GroupCount, q, r
  <1>3. CASE r # 0
    <2>1. total + c - 1 = c * (q + 1) + (r - 1)
      <3>1. c * (q + 1) = c * q + c
        BY <1>1
      <3>2. QED
        BY <3>1, <1>1
    <2>2. (c * (q + 1) + (r - 1)) \div c = q + 1
      BY <1>1, <1>3, DivUnique
    <2>3. QED
      BY <1>3, <2>1, <2>2 DEF GroupCount, q, r
  <1>4. QED
    BY <1>2, <1>3

LEMMA HalfBounds ==
    ASSUME NEW n \in Nat
    PROVE  Half(n) \in Nat /\ 2 * Half(n) >= n /\ 2 * Half(n) <= n + 1
  BY DEF Half

\* What the sizes are made from, in one place.
LEMMA Parts ==
    ASSUME NEW total \in Nat \ {0}, NEW c \in Nat \ {0}
    PROVE  /\ total \div c \in Nat /\ total % c \in 0..(c - 1)
           /\ total = c * (total \div c) + (total % c)
           /\ GroupCount(total, c) \in Nat \ {0}
           /\ GroupCount(total, c) =
                 IF total % c = 0 THEN total \div c ELSE (total \div c) + 1
           /\ Half(c) \in 1..c /\ 2 * Half(c) >= c /\ 2 * Half(c) <= c + 1
  <1>1. /\ total \div c \in Nat /\ total % c \in Nat
        /\ total = c * (total \div c) + (total % c)
        /\ total % c < c
    BY DivMod
  <1>2. GroupCount(total, c) =
            IF total % c = 0 THEN total \div c ELSE (total \div c) + 1
    BY GroupCountValue
  <1>3. total \div c = 0 => total % c # 0
    BY <1>1
  <1>4. GroupCount(total, c) \in Nat \ {0}
    BY <1>1, <1>2, <1>3
  <1>5. Half(c) \in Nat /\ 2 * Half(c) >= c /\ 2 * Half(c) <= c + 1
    BY HalfBounds
  <1>6. QED
    BY <1>1, <1>2, <1>4, <1>5

\* canonical_group_sizes never fails its own check of the sizes: a tree that needs
\* more than one page has no page below half or above its capacity, and one page
\* is enough exactly when everything fits in it.
THEOREM GroupsAreHalfFull ==
    ASSUME NEW total \in Nat \ {0}, NEW c \in Nat \ {0},
           NEW k \in 1..GroupCount(total, c)
    PROVE  /\ GroupCount(total, c) > 1 => GroupSizes(total, c)[k] \in Half(c)..c
           /\ GroupCount(total, c) = 1 => GroupSizes(total, c)[k] = total /\ total <= c
  <1> DEFINE q == total \div c
             r == total % c
             g == GroupCount(total, c)
             h == Half(c)
  <1>1. /\ q \in Nat /\ r \in 0..(c - 1) /\ total = c * q + r
        /\ g \in Nat \ {0} /\ g = IF r = 0 THEN q ELSE q + 1
        /\ h \in 1..c /\ 2 * h >= c /\ 2 * h <= c + 1
    BY Parts
  <1>2. GroupSizes(total, c) =
            IF g = 1 THEN [j \in 1..1 |-> total]
            ELSE IF r = 0 THEN [j \in 1..g |-> c]
            ELSE IF r >= h THEN [j \in 1..g |-> IF j < g THEN c ELSE r]
            ELSE [j \in 1..g |-> IF j = g THEN h
                                 ELSE IF j = g - 1 THEN c - (h - r) ELSE c]
    BY DEF GroupSizes
  <1>3. k \in 1..g
    OBVIOUS
  <1> HIDE DEF q, r, g, h
  <1>4. CASE g = 1
    <2>1. GroupSizes(total, c)[k] = total
      BY <1>2, <1>3, <1>4
    <2>2. total <= c
      <3>1. CASE q = 0
        BY <3>1, <1>1
      <3>2. CASE q = 1
        BY <3>2, <1>1, <1>4
      <3>3. QED
        BY <3>1, <3>2, <1>1, <1>4
    <2>3. QED
      BY <2>1, <2>2, <1>4 DEF g
  <1>5. CASE g > 1
    <2>1. GroupSizes(total, c)[k] \in h..c
      <3>1. CASE r = 0
        BY <3>1, <1>1, <1>2, <1>3, <1>5
      <3>2. CASE r # 0 /\ r >= h
        BY <3>2, <1>1, <1>2, <1>3, <1>5
      <3>3. CASE r # 0 /\ r < h
        BY <3>3, <1>1, <1>2, <1>3, <1>5
      <3>4. QED
        BY <3>1, <3>2, <3>3, <1>1
    <2>2. QED
      BY <2>1, <1>5 DEF g, h
  <1>6. QED
    BY <1>1, <1>4, <1>5 DEF g

\* Every entry has its place: all pages but the last two are full, and the last
\* two hold what is left, so that no entry is dropped or written twice.
THEOREM GroupsHoldEverything ==
    ASSUME NEW total \in Nat \ {0}, NEW c \in Nat \ {0}, GroupCount(total, c) > 1
    PROVE  LET g == GroupCount(total, c)
               s == GroupSizes(total, c)
           IN  /\ \A k \in 1..(g - 2) : s[k] = c
               /\ (g - 2) * c + s[g - 1] + s[g] = total
  <1> DEFINE q == total \div c
             r == total % c
             g == GroupCount(total, c)
             h == Half(c)
             s == GroupSizes(total, c)
  <1>1. /\ q \in Nat /\ r \in 0..(c - 1) /\ total = c * q + r
        /\ g \in Nat \ {0} /\ g = IF r = 0 THEN q ELSE q + 1
        /\ h \in 1..c
    BY Parts
  <1>2. s = IF g = 1 THEN [j \in 1..1 |-> total]
            ELSE IF r = 0 THEN [j \in 1..g |-> c]
            ELSE IF r >= h THEN [j \in 1..g |-> IF j < g THEN c ELSE r]
            ELSE [j \in 1..g |-> IF j = g THEN h
                                 ELSE IF j = g - 1 THEN c - (h - r) ELSE c]
    BY DEF GroupSizes
  <1>3. g > 1
    OBVIOUS
  <1> HIDE DEF q, r, g, h, s
  <1>4. /\ \A k \in 1..(g - 2) : s[k] = c
        /\ s[g - 1] + s[g] = (IF r = 0 THEN c + c ELSE c + r)
    <2>1. CASE r = 0
      BY <2>1, <1>1, <1>2, <1>3
    <2>2. CASE r # 0 /\ r >= h
      BY <2>2, <1>1, <1>2, <1>3
    <2>3. CASE r # 0 /\ r < h
      BY <2>3, <1>1, <1>2, <1>3
    <2>4. QED
      BY <2>1, <2>2, <2>3, <1>1
  <1>5. (g - 2) * c = c * g - (c + c)
    BY <1>1
  <1>6. c * (q + 1) = c * q + c
    BY <1>1
  <1>7. s[g - 1] \in Int /\ s[g] \in Int
    BY <1>1, <1>2, <1>3
  <1>8. (g - 2) * c + s[g - 1] + s[g] = total
    <2>1. CASE r = 0
      BY <2>1, <1>1, <1>4, <1>5, <1>7
    <2>2. CASE r # 0
      <3>1. g = q + 1
        BY <2>2, <1>1
      <3>2. c * g = c * q + c
        BY <3>1, <1>6
      <3>3. s[g - 1] + s[g] = c + r
        BY <2>2, <1>4
      <3>4. QED
        BY <3>2, <3>3, <1>1, <1>5, <1>7
    <2>3. QED
      BY <2>1, <2>2
  <1>9. QED
    BY <1>4, <1>8 DEF g, s

\* A page that overflows by one entry is split by insert_persistent_path where
\* canonical_group_sizes would split it, into two pages of at least half: one put
\* gives the same pages through either writer.
THEOREM SplitIsGrouping ==
    ASSUME NEW c \in Nat \ {0, 1}
    PROVE  /\ GroupCount(c + 1, c) = 2
           /\ GroupSizes(c + 1, c)[1] = Half(c + 1)
           /\ GroupSizes(c + 1, c)[2] = (c + 1) - Half(c + 1)
           /\ (c + 1) - Half(c + 1) >= Half(c)
  <1>1. (c * 1 + 1) \div c = 1
    BY DivUnique
  <1>2. (c + 1) \div c = 1
    BY <1>1
  <1>3. (c + 1) % c = 1
    BY <1>2, DivMod
  <1>4. GroupCount(c + 1, c) = 2
    BY <1>2, <1>3, GroupCountValue
  <1>5. GroupSizes(c + 1, c) =
            IF 1 >= Half(c) THEN [j \in 1..2 |-> IF j < 2 THEN c ELSE 1]
            ELSE [j \in 1..2 |-> IF j = 2 THEN Half(c)
                                 ELSE IF j = 2 - 1 THEN c - (Half(c) - 1) ELSE c]
    <2> DEFINE g == GroupCount(c + 1, c)
               r == (c + 1) % c
    <2>1. GroupSizes(c + 1, c) =
              IF g = 1 THEN [j \in 1..1 |-> c + 1]
              ELSE IF r = 0 THEN [j \in 1..g |-> c]
              ELSE IF r >= Half(c) THEN [j \in 1..g |-> IF j < g THEN c ELSE r]
              ELSE [j \in 1..g |-> IF j = g THEN Half(c)
                                   ELSE IF j = g - 1 THEN c - (Half(c) - r) ELSE c]
      BY DEF GroupSizes
    <2>2. g = 2 /\ r = 1
      BY <1>3, <1>4
    <2> HIDE DEF g, r
    <2>3. QED
      BY <2>1, <2>2
  <1>6. Half(c) \in Nat /\ Half(c + 1) = c + 1 - Half(c) /\ (c > 2 => Half(c) > 1)
        /\ (c = 2 => Half(c) = 1)
    BY DEF Half
  <1>7. CASE 1 >= Half(c)
    BY <1>4, <1>5, <1>6, <1>7
  <1>8. CASE ~(1 >= Half(c))
    BY <1>4, <1>5, <1>6, <1>8
  <1>9. QED
    BY <1>7, <1>8

\* Two siblings that cannot lend fit in one page after a deletion, and a sibling
\* that lends stays at the minimum: merge_deletion_nodes never overflows a page,
\* and what it makes is not underfull.
THEOREM MergeFits ==
    ASSUME NEW c \in Nat \ {0, 1}
    PROVE  /\ Half(c) + (Half(c) - 1) \in Half(c)..c
           /\ \A n \in Nat : n > Half(c) => n - 1 >= Half(c)
  BY DEF Half
=============================================================================
