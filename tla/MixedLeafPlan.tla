---------------------------- MODULE MixedLeafPlan ----------------------------
(***************************************************************************)
(* plan_mixed_leaf_updates (mixed_update_plan.rs): a whole batch of puts   *)
(* and deletes is applied to the ordered leaves of a directory, overfull   *)
(* leaves are split, underfull ones borrow from or merge with a neighbour. *)
(*                                                                         *)
(* A leaf is the set of its identifiers: the code keeps each one sorted.   *)
(* One step is one turn of the code's loops.                               *)
(***************************************************************************)
EXTENDS Naturals, Sequences, FiniteSets, FiniteSetsExt, Functions

CONSTANTS
    Ids,          \* object identifiers, an interval 1 .. n
    Capacity,     \* limits.capacity
    Minimum,      \* limits.minimum
    MaxObjects,   \* limits.max_objects
    MaxPages,     \* limits.max_pages
    MaxActions,   \* limits.max_actions
    MaxInput,     \* bound: original leaves
    MaxBatch      \* bound: identifiers a batch names

ASSUME LimitsAssumption ==
    /\ Capacity \in Nat /\ Minimum \in 1..Capacity
    /\ MaxObjects \in Nat \ {0} /\ MaxPages \in Nat \ {0} /\ MaxActions \in Nat \ {0}
    /\ Ids \subseteq Nat \ {0} /\ IsFiniteSet(Ids) /\ MaxInput \in Nat /\ MaxBatch \in Nat

VARIABLES
    pages,     \* the original leaves
    ops,       \* the batch: for each identifier what is asked of it
    working,   \* the leaves being repaired
    origins,   \* for each of them, the original leaves it comes from
    touched,   \* touched_original_pages
    actions,   \* how many repair actions are recorded
    position,  \* the loop's position, from 1
    phase,     \* which loop
    result     \* "ok", an error, or "none" while planning

vars == <<pages, ops, working, origins, touched, actions, position, phase, result>>

Kinds == {"none", "put", "delete", "twice"}

Present == UNION {pages[i] : i \in DOMAIN pages}
Batch   == {x \in Ids : ops[x] # "none"}
Put     == {x \in Ids : ops[x] = "put"}
Deleted == {x \in Ids : ops[x] = "delete"}

\* What the leaves must hold in the end.
Wanted == (Present \cup Put) \ Deleted

\* Leaves in order: sizes within the limits, identifiers increasing.
WellFormed(leaves) ==
    /\ \A i \in DOMAIN leaves :
        /\ leaves[i] # {}
        /\ Cardinality(leaves[i]) <= Capacity
        /\ Len(leaves) > 1 => Cardinality(leaves[i]) >= Minimum
    /\ \A i \in 1..(Len(leaves) - 1) : Max(leaves[i]) < Min(leaves[i + 1])
    /\ Len(leaves) \in 1..MaxPages

\* Where each group begins: the running sum of the sizes before it.
Starts(sizes) ==
    LET start[g \in DOMAIN sizes] == IF g = 1 THEN 0 ELSE start[g - 1] + sizes[g - 1]
    IN  start

\* Identifiers in increasing order, cut into groups of the given sizes.
Partition(ids, sizes) ==
    LET rank(x) == Cardinality({y \in ids : y <= x})
    IN  [g \in DOMAIN sizes |->
            {x \in ids : rank(x) \in (Starts(sizes)[g] + 1)..(Starts(sizes)[g] + sizes[g])}]

\* Every row of leaves that validate_input_pages lets pass.
Inputs ==
    LET sizes == UNION {[1..n -> 1..Capacity] : n \in 1..MaxInput}
        rows == {Partition(ids, s) : ids \in SUBSET Ids, s \in sizes}
    IN  {row \in rows : WellFormed(row) /\ Cardinality(UNION Range(row)) <= MaxObjects}

Init ==
    /\ pages \in Inputs
    /\ ops \in {o \in [Ids -> Kinds] : Cardinality({x \in Ids : o[x] # "none"}) \in 1..MaxBatch}
    /\ working = <<>> /\ origins = <<>>
    /\ touched = {}
    /\ actions = 0
    /\ position = 1
    /\ phase = "start"
    /\ result = "none"

Return(r) ==
    /\ phase' = "done"
    /\ result' = r
    /\ UNCHANGED <<pages, ops, working, origins, touched, actions, position>>
-----------------------------------------------------------------------------
(* Routing and simultaneous application. *)

\* The leaf an identifier belongs to: the first whose largest one is not below
\* it, the last one if there is none.
Route(x) ==
    IF \E i \in DOMAIN pages : x <= Max(pages[i])
    THEN Min({i \in DOMAIN pages : x <= Max(pages[i])})
    ELSE Len(pages)

Routed(i) == {x \in Batch : Route(x) = i}

\* The first of the checks on the batch that fails.
InvalidBatch ==
    LET twice == {x \in Batch : ops[x] = "twice"}
    IN  IF Cardinality(Batch) + Cardinality(twice) > MaxObjects THEN "Limit"
        ELSE IF twice # {} THEN "DuplicateOperation"
        ELSE IF ~(Deleted \subseteq Present) THEN "MissingObject"
        ELSE IF Wanted = {} THEN "EmptyResult"
        ELSE IF Cardinality(Wanted) > MaxObjects THEN "Limit"
        ELSE "none"

ApplyBatch ==
    /\ phase = "start"
    /\ LET changed == {i \in DOMAIN pages : Routed(i) # {}}
       IN  IF InvalidBatch # "none" THEN Return(InvalidBatch)
           ELSE IF Cardinality(changed) > MaxActions THEN Return("Limit")
           ELSE /\ working' = [i \in DOMAIN pages |->
                                 (pages[i] \cup (Routed(i) \cap Put)) \ Deleted]
                /\ origins' = [i \in DOMAIN pages |-> {i}]
                /\ touched' = changed
                /\ actions' = Cardinality(changed)
                /\ phase' = "split"
                /\ UNCHANGED <<pages, ops, position, result>>
-----------------------------------------------------------------------------
(* Splitting overfull leaves, left to right. *)

Size(i) == Cardinality(working[i])

\* canonical_group_sizes: full leaves, the last two balanced when the rest is
\* too small for a leaf of its own.
GroupSizes(total) ==
    LET full == total \div Capacity
        rest == total % Capacity
    IN  IF rest = 0 THEN [i \in 1..full |-> Capacity]
        ELSE IF rest >= Minimum \/ full = 0
        THEN [i \in 1..(full + 1) |-> IF i <= full THEN Capacity ELSE rest]
        ELSE [i \in 1..(full + 1) |->
                CASE i < full -> Capacity
                  [] i = full -> Capacity - (Minimum - rest)
                  [] i = full + 1 -> Minimum]

\* working.splice(position..=position, replacements)
Splice(seq, i, new) == SubSeq(seq, 1, i - 1) \o new \o SubSeq(seq, i + 1, Len(seq))

Advance ==
    /\ position' = position + 1
    /\ UNCHANGED <<pages, ops, working, origins, touched, actions, phase, result>>

SplitPasses ==
    /\ phase = "split"
    /\ position <= Len(working)
    /\ Size(position) <= Capacity
    /\ Advance

Split ==
    /\ phase = "split"
    /\ position <= Len(working)
    /\ Size(position) > Capacity
    /\ LET sizes == GroupSizes(Size(position))
       IN  IF Len(sizes) > MaxPages THEN Return("Limit")
           ELSE IF \E g \in DOMAIN sizes : sizes[g] < Minimum THEN Return("InvalidPage")
           ELSE IF actions >= MaxActions \/ Len(working) - 1 + Len(sizes) > MaxPages
           THEN Return("Limit")
           ELSE /\ working' = Splice(working, position, Partition(working[position], sizes))
                /\ origins' = Splice(origins, position,
                                     [g \in DOMAIN sizes |-> origins[position]])
                /\ touched' = touched \cup origins[position]
                /\ actions' = actions + 1
                /\ position' = position + 1
                /\ UNCHANGED <<pages, ops, phase, result>>

SplitDone ==
    /\ phase = "split"
    /\ position > Len(working)
    /\ position' = 1
    /\ phase' = "repair"
    /\ UNCHANGED <<pages, ops, working, origins, touched, actions, result>>
-----------------------------------------------------------------------------
(* Repairing underfull leaves, left to right. *)

Repairing == phase = "repair" /\ Len(working) > 1 /\ position <= Len(working)
Underfull == Repairing /\ Size(position) < Minimum

LeftLends == position > 1 /\ Size(position - 1) > Minimum
RightLends == position < Len(working) /\ Size(position + 1) > Minimum

RepairPasses ==
    /\ Repairing
    /\ Size(position) >= Minimum
    /\ Advance

\* Mutant: the lender is not recorded as touched.
MoveUnrecorded(x, from) ==
    IF actions >= MaxActions THEN Return("Limit")
    ELSE /\ working' = [working EXCEPT ![from] = @ \ {x}, ![position] = @ \cup {x}]
         /\ touched' = touched \cup origins[position]
         /\ actions' = actions + 1
         /\ position' = position + 1
         /\ UNCHANGED <<pages, ops, origins, phase, result>>

\* One identifier x moves from the leaf `from` to the one at the position.
Move(x, from) ==
    IF actions >= MaxActions THEN Return("Limit")
    ELSE /\ working' = [working EXCEPT ![from] = @ \ {x}, ![position] = @ \cup {x}]
         /\ touched' = touched \cup origins[from] \cup origins[position]
         /\ actions' = actions + 1
         /\ position' = position + 1
         /\ UNCHANGED <<pages, ops, origins, phase, result>>

BorrowFromLeft == Underfull /\ LeftLends /\ Move(Max(working[position - 1]), position - 1)

BorrowFromRight ==
    /\ Underfull /\ ~LeftLends /\ RightLends
    /\ Move(Min(working[position + 1]), position + 1)

\* The leaves at i and i + 1 become one, and the loop looks at it again.
Merge(i) ==
    IF Cardinality(working[i]) + Cardinality(working[i + 1]) > Capacity
    THEN Return("InvalidPage")
    ELSE IF actions >= MaxActions THEN Return("Limit")
    ELSE /\ working' = Splice([working EXCEPT ![i] = @ \cup working[i + 1]], i + 1, <<>>)
         /\ origins' = Splice([origins EXCEPT ![i] = @ \cup origins[i + 1]], i + 1, <<>>)
         /\ touched' = touched \cup origins[i] \cup origins[i + 1]
         /\ actions' = actions + 1
         /\ position' = i
         /\ UNCHANGED <<pages, ops, phase, result>>

MergeWithLeft ==
    /\ Underfull /\ ~LeftLends /\ ~RightLends
    /\ position > 1
    /\ Merge(position - 1)

MergeWithRight ==
    /\ Underfull /\ ~LeftLends /\ ~RightLends
    /\ position = 1
    /\ Merge(1)

\* validate_final_pages
ValidateFinal ==
    /\ phase = "repair"
    /\ ~Repairing
    /\ Return(IF WellFormed(working) THEN "ok" ELSE "InvalidPage")

Next ==
    \/ ApplyBatch
    \/ SplitPasses \/ Split \/ SplitDone
    \/ RepairPasses \/ BorrowFromLeft \/ BorrowFromRight
    \/ MergeWithLeft \/ MergeWithRight
    \/ ValidateFinal

Spec == Init /\ [][Next]_vars
-----------------------------------------------------------------------------
\* Nothing is lost, doubled or moved out of order by splits, borrows and merges:
\* at every turn the leaves are disjoint, in order, and hold what the batch
\* asks for (validate_final_pages checks the order, never the contents).  A plan
\* is well formed, and an original leaf it does not list as touched is in it
\* unchanged: a writer reuses the pages of those.
NothingLost ==
    /\ phase \in {"split", "repair"} \/ result = "ok" =>
          /\ UNION {working[i] : i \in DOMAIN working} = Wanted
          /\ \A i, j \in DOMAIN working : i < j =>
                 \A x \in working[i], y \in working[j] : x < y
    /\ result = "ok" =>
          /\ WellFormed(working)
          /\ \A i \in DOMAIN pages : i \notin touched =>
                 \E j \in DOMAIN working : working[j] = pages[i]
=============================================================================
