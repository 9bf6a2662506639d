--------------------------- MODULE CanonicalGroups ---------------------------
(***************************************************************************)
(* How entries are divided over pages (occupancy.rs): pages are full except *)
(* that the last two share what is left, so that no page but a root is less *)
(* than half full.                                                          *)
(***************************************************************************)
EXTENDS Integers

\* div_ceil(2): the minimum occupancy of a page of capacity n, and the place
\* where a page of n entries is split.
Half(n) == (n + 1) \div 2

GroupCount(total, capacity) == (total + capacity - 1) \div capacity

\* canonical_group_sizes, with minimum = Half(capacity).
GroupSizes(total, capacity) ==
    LET groups    == GroupCount(total, capacity)
        remainder == total % capacity
        minimum   == Half(capacity)
        moved     == minimum - remainder
    IN  IF groups = 1 THEN [k \in 1..1 |-> total]
        ELSE IF remainder = 0 THEN [k \in 1..groups |-> capacity]
        ELSE IF remainder >= minimum
        THEN [k \in 1..groups |-> IF k < groups THEN capacity ELSE remainder]
        ELSE [k \in 1..groups |-> IF k = groups THEN minimum
                                  ELSE IF k = groups - 1 THEN capacity - moved
                                  ELSE capacity]
=============================================================================
