----------------------------- MODULE TreeUpdate -----------------------------
(***************************************************************************)
(* The copy-on-write object directory of an immutable file, under any       *)
(* sequence of updates:                                                     *)
(*                                                                          *)
(*   part4.rs, part5.rs         build_tree, build_genesis, append_replacement *)
(*   batch.rs                   append_batch, the full rebuild              *)
(*   persistent_insert.rs       one absent object                           *)
(*   persistent_delete.rs       one deletion, with borrowing and merging    *)
(*   persistent_multi_put.rs    several insertions and replacements         *)
(*   persistent_mixed.rs        deletions among other operations            *)
(*   persistent_batch.rs        replacements, and the choice among these    *)
(*   occupancy.rs, part2.rs, part3.rs   validation                          *)
(*                                                                          *)
(* A page is a record with the entries of a leaf (locators) or the pages it *)
(* refers to.  Pages and object records are only ever appended, so all that *)
(* a commit can tell of a page or record is whether it was there before:    *)
(* "old" or "new".  Commits are not counted; the file may have any history. *)
(***************************************************************************)
EXTENDS CanonicalGroups, Sequences, FiniteSets, SequencesExt

CONSTANTS
    Ids,              \* object ids, a set of positive numbers
    LeafCapacity,     \* LEAF_CAPACITY
    InternalFanout,   \* INTERNAL_FANOUT
    MaxObjects,       \* limits.max_objects
    MaxPages,         \* limits.max_pages
    MaxDepth,         \* limits.max_depth
    Batches,          \* sets of operations a caller may ask for
    NoTree            \* there is no file yet

Policies == {"LeftFirst", "FullerSiblingLeftTie"}

\* "badput" is a Put with kind zero.
Operations == [id : Ids, op : {"put", "delete", "badput"}]

ASSUME TreeAssumption ==
    /\ Ids \subseteq Nat \ {0}
    /\ {LeafCapacity, InternalFanout} \subseteq Nat \ {0, 1, 2}
    /\ {MaxObjects, MaxPages, MaxDepth} \subseteq Nat
    /\ Batches \subseteq SUBSET Operations

VARIABLES
    tree,     \* the root page of the newest commit
    before,   \* the root page it was made from
    last      \* the last call and what it returned

vars == <<tree, before, last>>
-----------------------------------------------------------------------------
(* Pages. *)

Capacity(level) == IF level = 0 THEN LeafCapacity ELSE InternalFanout
Minimum(level)  == Half(Capacity(level))

Cow(level, entries) == [level |-> level, entries |-> entries, at |-> "new"]
Locator(id) == [id |-> id, rec |-> "new"]

\* A page no check lets pass.
BadPage == Cow(0, <<>>)

RECURSIVE Least(_)
Least(p) == IF p.level = 0 THEN p.entries[1].id ELSE Least(p.entries[1])

RECURSIVE Greatest(_)
Greatest(p) == IF p.level = 0 THEN Last(p.entries).id ELSE Greatest(Last(p.entries))

Covers(p, id) == Least(p) <= id /\ id <= Greatest(p)

RECURSIVE Pages(_)
Pages(p) == {p} \cup IF p.level = 0 THEN {} ELSE UNION {Pages(c) : c \in Range(p.entries)}

RECURSIVE Locators(_)
Locators(p) ==
    IF p.level = 0 THEN p.entries
    ELSE FlattenSeq([i \in DOMAIN p.entries |-> Locators(p.entries[i])])

IdsOf(p) == {l.id : l \in Range(Locators(p))}

\* What the next commit finds: everything is old.
RECURSIVE Age(_)
Age(p) == [level |-> p.level, at |-> "old",
           entries |-> [i \in DOMAIN p.entries |->
                          IF p.level = 0 THEN [p.entries[i] EXCEPT !.rec = "old"]
                          ELSE Age(p.entries[i])]]

Total(s) == FoldLeft(LAMBDA sum, n : sum + n, 0, s)
SortById(locators) ==
    [k \in 1..Cardinality(locators) |->
        CHOOSE l \in locators : Cardinality({m \in locators : m.id < l.id}) = k - 1]
Splice(s, from, to, new) == SubSeq(s, 1, from - 1) \o new \o SubSeq(s, to + 1, Len(s))
-----------------------------------------------------------------------------
(* Grouping and full construction *)

\* append_leaf_groups and append_internal_groups.
Grouped(level, entries) ==
    LET sizes == GroupSizes(Len(entries), Capacity(level))
        start(k) == Total([j \in 1..(k - 1) |-> sizes[j]])
    IN  [k \in DOMAIN sizes |-> Cow(level, SubSeq(entries, start(k) + 1, start(k) + sizes[k]))]

\* Mutant: a page with the same objects in it is reused.
ReuseById(page, originals) ==
    LET same == {q \in originals : q.level = page.level /\ IdsOf(q) = IdsOf(page)}
    IN  IF same = {} THEN page ELSE CHOOSE q \in same : TRUE

\* reusable_mixed_leaf, reusable_mixed_internal: exactly the same body.
Reuse(page, originals) ==
    LET same == {q \in originals : q.level = page.level /\ q.entries = page.entries}
    IN  IF same = {} THEN page ELSE CHOOSE q \in same : TRUE

\* build_tree; with originals, materialize_canonical_mixed_tree.
RECURSIVE Materialize(_, _, _)
Materialize(level, entries, originals) ==
    LET groups == Grouped(level, entries)
        pages  == [k \in DOMAIN groups |-> Reuse(groups[k], originals)]
        reused == Cardinality({k \in DOMAIN pages : pages[k].at = "old"})
        above  == Materialize(level + 1, pages, originals)
    IN  IF Len(pages) = 1 
        THEN [root |-> pages[1], written |-> 1 - reused, reused |-> reused]
        ELSE [root |-> above.root, written |-> above.written + Len(pages) - reused,
              reused |-> above.reused + reused]
-----------------------------------------------------------------------------
(* Insertion and puts *)

\* Where an id belongs: the first child that reaches up to it, or the last.
Route(children, id) ==
    LET reaching == {i \in DOMAIN children : id <= Greatest(children[i])}
    IN  IF reaching = {} THEN Len(children)
        ELSE CHOOSE i \in reaching : \A j \in reaching : i <= j

SplitPages(level, entries) ==
    IF Len(entries) <= Capacity(level) THEN <<Cow(level, entries)>>
    ELSE LET split == Half(Len(entries))
         IN  <<Cow(level, SubSeq(entries, 1, split)),
               Cow(level, SubSeq(entries, split + 1, Len(entries)))>>

\* insert_persistent_path
RECURSIVE InsertPath(_, _)
InsertPath(p, locator) ==
    IF p.level = 0
    THEN LET pages == SplitPages(0, SortById(Range(p.entries) \cup {locator}))
         IN  [pages |-> pages, written |-> Len(pages)]
    ELSE LET i     == Route(p.entries, locator.id)
             below == InsertPath(p.entries[i], locator)
             pages == SplitPages(p.level, Splice(p.entries, i, i, below.pages))
         IN  [pages |-> pages, written |-> below.written + Len(pages)]

MergeLeafPuts(entries, updates) ==
    SortById({e \in Range(entries) : \A u \in Range(updates) : u.id # e.id}
             \cup Range(updates))

\* Mutant: pages the batch does not touch are copied as well.
NothingToPutNever(updates) == FALSE

NothingToPut(updates) == updates = <<>>

\* rewrite_put_paths, with route_put_updates.
RECURSIVE RewritePutPaths(_, _)
RewritePutPaths(p, updates) ==
    IF NothingToPut(updates) THEN [pages |-> <<p>>, written |-> 0, touched |-> 0]
    ELSE IF p.level = 0
    THEN LET pages == Grouped(0, MergeLeafPuts(p.entries, updates))
         IN  [pages |-> pages, written |-> Len(pages), touched |-> 1]
    ELSE LET routed(i) == SelectSeq(updates, LAMBDA u : Route(p.entries, u.id) = i)
             below == [i \in DOMAIN p.entries |-> RewritePutPaths(p.entries[i], routed(i))]
             pages == Grouped(p.level, FlattenSeq([i \in DOMAIN below |-> below[i].pages]))
         IN  [pages   |-> pages,
              written |-> Len(pages) + Total([i \in DOMAIN below |-> below[i].written]),
              touched |-> 1 + Total([i \in DOMAIN below |-> below[i].touched])]

\* finish_put_roots
RECURSIVE FinishPutRoots(_, _)
FinishPutRoots(pages, written) ==
    IF Len(pages) = 1 THEN [root |-> pages[1], written |-> written]
    ELSE LET above == Grouped(pages[1].level + 1, pages)
         IN  FinishPutRoots(above, written + Len(above))

\* rewrite_replacement_path
RECURSIVE ReplacementPath(_, _)
ReplacementPath(p, updates) ==
    LET covered  == {u \in Range(updates) : Covers(p, u.id)}
        here(e)  == {u \in covered : u.id = e.id}
        below    == [i \in DOMAIN p.entries |-> ReplacementPath(p.entries[i], updates)]
    IN  IF covered = {} THEN [page |-> p, written |-> 0]
        ELSE IF p.level > 0
        THEN [page    |-> Cow(p.level, [i \in DOMAIN below |-> below[i].page]),
              written |-> 1 + Total([i \in DOMAIN below |-> below[i].written])]
        ELSE IF \A e \in Range(p.entries) : here(e) = {}
        THEN [page |-> BadPage, written |-> 0]
        ELSE [page    |-> Cow(0, [i \in DOMAIN p.entries |->
                                    IF here(p.entries[i]) = {} THEN p.entries[i]
                                    ELSE CHOOSE u \in here(p.entries[i]) : TRUE]),
              written |-> 1]
-----------------------------------------------------------------------------
(* Deletion *)

\* Mutant: a sibling that has just the minimum lends.
ChooseBorrowSideAtMinimum(policy, children, i) ==
    LET lends(j) == j \in DOMAIN children
                    /\ Len(children[j].entries) >= Minimum(children[j].level)
    IN  IF lends(i - 1) THEN "Left" ELSE IF lends(i + 1) THEN "Right" ELSE "None"

\* choose_deletion_borrow_side
ChooseBorrowSide(policy, children, i) ==
    LET lends(j) == j \in DOMAIN children
                    /\ Len(children[j].entries) > Minimum(children[j].level)
    IN  IF lends(i - 1) /\ lends(i + 1) /\ policy = "FullerSiblingLeftTie"
        THEN IF Len(children[i - 1].entries) >= Len(children[i + 1].entries)
             THEN "Left" ELSE "Right"
        ELSE IF lends(i - 1) THEN "Left"
        ELSE IF lends(i + 1) THEN "Right"
        ELSE "None"

\* Which children are replaced by which pages, once child i has become target:
\* itself, one borrowed entry, or one merged page (borrow_deletion_from_left,
\* borrow_deletion_from_right, merge_deletion_nodes).
Repair(policy, children, i, target) ==
    LET level == target.level
        side  == ChooseBorrowSide(policy, children, i)
        left  == children[i - 1].entries
        right == children[i + 1].entries
    IN  IF Len(target.entries) >= Minimum(level)
        THEN [from |-> i, to |-> i, pages |-> <<target>>]
        ELSE IF side = "Left"
        THEN [from |-> i - 1, to |-> i,
              pages |-> <<Cow(level, Front(left)),
                          Cow(level, <<Last(left)>> \o target.entries)>>]
        ELSE IF side = "Right"
        THEN [from |-> i, to |-> i + 1,
              pages |-> <<Cow(level, Append(target.entries, Head(right))),
                          Cow(level, Tail(right))>>]
        ELSE IF i > 1
        THEN [from |-> i - 1, to |-> i, pages |-> <<Cow(level, left \o target.entries)>>]
        ELSE IF i < Len(children)
        THEN [from |-> i, to |-> i + 1, pages |-> <<Cow(level, target.entries \o right)>>]
        ELSE [from |-> i, to |-> i, pages |-> <<BadPage>>]

\* increment_touched, for the page itself and the sibling.
TouchedBy(repair) == 1 + repair.to - repair.from

\* delete_persistent_node: the page without the object, not yet written.
RECURSIVE DeleteNode(_, _, _)
DeleteNode(p, id, policy) ==
    IF p.level = 0
    THEN [node |-> Cow(0, SelectSeq(p.entries, LAMBDA e : e.id # id)),
          written |-> 0, touched |-> 1]
    ELSE LET i      == CHOOSE j \in DOMAIN p.entries : Covers(p.entries[j], id)
             below  == DeleteNode(p.entries[i], id, policy)
             repair == Repair(policy, p.entries, i, below.node)
         IN  [node    |-> Cow(p.level, Splice(p.entries, repair.from, repair.to, repair.pages)),
              written |-> below.written + Len(repair.pages),
              touched |-> below.touched + TouchedBy(repair)]
-----------------------------------------------------------------------------
(* Validation of what was written *)

\* parse_page, and encode_leaf or encode_internal before it: the order and the
\* levels of one page's entries.
InOrder(p) ==
    /\ \A i \in 2..Len(p.entries) :
          IF p.level = 0 THEN p.entries[i - 1].id < p.entries[i].id
          ELSE Greatest(p.entries[i - 1]) < Least(p.entries[i])
    /\ p.level > 0 => \A c \in Range(p.entries) : c.level + 1 = p.level

\* validate_canonical_internal
CanonicalPage(p, root) ==
    LET count == Len(p.entries)
    IN  IF p # root THEN count >= Minimum(p.level) ELSE p.level > 0 => count >= 2

\* validate_internal: the pages of this commit are as many as its footer says.
Valid(root, written) ==
    /\ \A p \in Pages(root) : Len(p.entries) \in 1..Capacity(p.level)
    /\ \A p \in Pages(root) : InOrder(p)
    /\ Cardinality({p \in Pages(root) : p.at = "new"}) = written

Canonical(root) == \A p \in Pages(root) : CanonicalPage(p, root)

Failed(error) == [error |-> error, root |-> NoTree, mode |-> "none", written |-> 0, reused |-> 0]

\* publish, the validation of the output, and the result.
Published(root, written, reused, mode, canonical) ==
    IF root.level > MaxDepth \/ written > MaxPages \/ Cardinality(Pages(root)) > MaxPages
    THEN Failed("Limit")
    ELSE IF ~Valid(root, written) \/ reused < 0 \/ (canonical /\ ~Canonical(root))
    THEN Failed("Invalid")
    ELSE [error |-> "none", root |-> root, mode |-> mode, written |-> written, reused |-> reused]
-----------------------------------------------------------------------------
(* The calls.  Each takes the tree of the newest commit. *)

Puts(ops)    == {o.id : o \in {o \in ops : o.op = "put"}}
Deletes(ops) == {o.id : o \in {o \in ops : o.op = "delete"}}

Updates(ops) == SortById({Locator(id) : id \in Puts(ops)})

Applied(base, ops) ==
    SortById({l \in Range(Locators(base)) : l.id \notin Puts(ops) \cup Deletes(ops)}
             \cup {Locator(id) : id \in Puts(ops)})

Duplicated(ops) == \E o, q \in ops : o # q /\ o.id = q.id

\* The checks of the operations, in whatever order a call makes them.
Refusal(base, ops) ==
    IF \/ ops = {}
       \/ \E o \in ops : o.op = "badput"
       \/ Duplicated(ops)
       \/ ~(Deletes(ops) \subseteq IdsOf(base))
       \/ Applied(base, ops) = <<>>
    THEN "Refused"
    ELSE IF Len(Applied(base, ops)) > MaxObjects THEN "Limit" ELSE "none"

BuildGenesis(ids) ==
    IF ids = {} \/ Cardinality(ids) > MaxObjects THEN Failed("Limit")
    ELSE LET built == Materialize(0, SortById({Locator(id) : id \in ids}), {})
         IN  Published(built.root, built.written, 0, "genesis", TRUE)

\* append_batch
AppendBatch(base, ops) ==
    IF Refusal(base, ops) # "none" THEN Failed(Refusal(base, ops))
    ELSE LET built == Materialize(0, Applied(base, ops), {})
         IN  Published(built.root, built.written, 0, "FullRebuildShapeChange", TRUE)

\* append_replacement
AppendReplacement(base, ops) ==
    IF Puts(ops) \subseteq IdsOf(base) THEN AppendBatch(base, ops) ELSE Failed("Refused")

\* append_persistent_insert_from_previous; it does not ask for canonical
\* occupancy.
PersistentInsert(base, ops) ==
    IF Refusal(base, ops) # "none" THEN Failed(Refusal(base, ops))
    ELSE IF Puts(ops) \subseteq IdsOf(base) THEN Failed("Refused")
    ELSE LET path == InsertPath(base, Updates(ops)[1])
             grown == Len(path.pages) = 2
             root == IF grown THEN Cow(base.level + 1, path.pages) ELSE path.pages[1]
         IN  Published(root, path.written + (IF grown THEN 1 ELSE 0),
                       Cardinality(Pages(base)) - (base.level + 1),
                       "CopyOnWriteInsertion", FALSE)

\* append_persistent_delete_from_previous_with_policy
PersistentDelete(base, ops, policy) ==
    IF Refusal(base, ops) # "none" THEN Failed(Refusal(base, ops))
    ELSE LET id      == CHOOSE i \in Deletes(ops) : TRUE
             deleted == DeleteNode(base, id, policy)
             node    == deleted.node
             collapse == node.level > 0 /\ Len(node.entries) = 1
         IN  Published(IF collapse THEN node.entries[1] ELSE node,
                       deleted.written + (IF collapse THEN 0 ELSE 1),
                       Cardinality(Pages(base)) - deleted.touched,
                       "CopyOnWriteDeletion", TRUE)

\* append_persistent_put_refs_from_previous
PersistentPuts(base, ops) ==
    IF Refusal(base, ops) # "none" THEN Failed(Refusal(base, ops))
    ELSE LET paths == RewritePutPaths(base, Updates(ops))
             done  == FinishPutRoots(paths.pages, paths.written)
         IN  Published(done.root, done.written, Cardinality(Pages(base)) - paths.touched,
                       "CopyOnWritePutBatch", TRUE)

\* append_persistent_mixed_from_previous
PersistentMixed(base, ops) ==
    IF Refusal(base, ops) # "none" THEN Failed(Refusal(base, ops))
    ELSE LET built == Materialize(0, Applied(base, ops), Pages(base))
             result == Published(built.root, built.written, built.reused,
                                 "CopyOnWriteCanonicalMixed", TRUE)
         IN  IF result.error = "none"
                /\ Cardinality(Pages(built.root)) # built.written + built.reused
             THEN Failed("Invalid") ELSE result

\* Replacements only: the end of append_persistent_batch.
PersistentReplacements(base, ops) ==
    LET path == ReplacementPath(base, Updates(ops))
    IN  IF path.written = 0 THEN Failed("Invalid")
        ELSE Published(path.page, path.written, Cardinality(Pages(base)) - path.written,
                       "CopyOnWriteReplacements", TRUE)

\* append_persistent_batch: which of the writers an operation set goes to.
PersistentBatch(base, ops) ==
    LET inserts == ~({o.id : o \in {o \in ops : o.op # "delete"}} \subseteq IdsOf(base))
    IN  IF ops = {} \/ Duplicated(ops) THEN Failed("Refused")
        ELSE IF Cardinality(ops) > 1 /\ Deletes(ops) # {} THEN PersistentMixed(base, ops)
        ELSE IF Deletes(ops) # {} THEN PersistentDelete(base, ops, "LeftFirst")
        ELSE IF inserts /\ Cardinality(ops) = 1 THEN PersistentInsert(base, ops)
        ELSE IF inserts THEN PersistentPuts(base, ops)
        ELSE IF \E o \in ops : o.op = "badput" THEN AppendBatch(base, ops)
        ELSE PersistentReplacements(base, ops)
-----------------------------------------------------------------------------
NoResult == [call |-> "none", ops |-> {}, error |-> "none", mode |-> "none",
             written |-> 0, reused |-> 0]

Init == tree = NoTree /\ before = NoTree /\ last = NoResult

\* A call returns: with a longer file, or with an error and no file.
Return(call, ops, result) ==
    /\ before' = tree
    /\ tree' = IF result.error = "none" THEN result.root ELSE tree
    /\ last' = [call |-> call, ops |-> ops, error |-> result.error, mode |-> result.mode,
                written |-> result.written, reused |-> result.reused]

Genesis ==
    /\ tree = NoTree /\ last.call = "none"
    /\ \E ids \in SUBSET Ids :
          Return("build_genesis", {[id |-> i, op |-> "put"] : i \in ids}, BuildGenesis(ids))

Rebuild ==
    /\ tree # NoTree /\ last.call = "none"
    /\ \E ops \in Batches : Return("append_batch", ops, AppendBatch(tree, ops))

Replacement ==
    /\ tree # NoTree /\ last.call = "none"
    /\ \E ops \in Batches :
        /\ Cardinality(ops) = 1 /\ Deletes(ops) = {}
        /\ Return("append_replacement", ops, AppendReplacement(tree, ops))

Insert ==
    /\ tree # NoTree /\ last.call = "none"
    /\ \E ops \in Batches :
        /\ Cardinality(ops) = 1 /\ Deletes(ops) = {}
        /\ Return("append_persistent_insert", ops, PersistentInsert(tree, ops))

Delete ==
    /\ tree # NoTree /\ last.call = "none"
    /\ \E ops \in Batches, policy \in Policies :
        /\ Cardinality(ops) = 1 /\ Deletes(ops) # {}
        /\ Return("append_persistent_delete", ops, PersistentDelete(tree, ops, policy))

PutBatch ==
    /\ tree # NoTree /\ last.call = "none"
    /\ \E ops \in Batches :
        /\ Deletes(ops) = {}
        /\ Return("append_persistent_put_batch", ops, PersistentPuts(tree, ops))

Batch ==
    /\ tree # NoTree /\ last.call = "none"
    /\ \E ops \in Batches :
          Return("append_persistent_batch", ops, PersistentBatch(tree, ops))

\* The caller keeps the file and will use it for its next call.
Keep ==
    /\ last.call # "none"
    /\ tree' = IF tree = NoTree THEN NoTree ELSE Age(tree)
    /\ before' = NoTree
    /\ last' = NoResult

Next ==
    \/ Genesis \/ Rebuild \/ Replacement \/ Insert
    \/ Delete \/ PutBatch \/ Batch \/ Keep

Spec == Init /\ [][Next]_vars
-----------------------------------------------------------------------------
Succeeded == last.call # "none" /\ last.error = "none"

\* Every writer does what its operations say and nothing else: the directory has
\* the objects it had, with those put and without those deleted; the records of
\* the put ones are the new ones, and no other entry changed.
ContentsApplied ==
    Succeeded =>
        LET had == IF before = NoTree THEN {} ELSE IdsOf(before)
        IN  /\ IdsOf(tree) = (had \cup Puts(last.ops)) \ Deletes(last.ops)
            /\ \A l \in Range(Locators(tree)) :
                  l.rec = "new" <=> l.id \in Puts(last.ops)

\* A call on a file its predecessors wrote fails only for what the caller asked or
\* a limit: no merge overflows a page, no page is without a sibling, no
\* self-check of the output fails.  Whatever the history, every page but the root
\* is at least half full; an insertion does not check this of its output, and the
\* next writer would refuse the file.
OnlyCallersFail ==
    last.error # "Invalid" /\ (tree # NoTree => Canonical(tree))

\* The same update through two writers gives the same tree: one put through the
\* batch writer and through insertion or replacement, and a mixed batch, whatever
\* pages it reuses, and a full rebuild.
WritersAgree ==
    Succeeded =>
        /\ last.mode = "CopyOnWritePutBatch" /\ Cardinality(last.ops) = 1
              /\ ~(Puts(last.ops) \subseteq IdsOf(before))
           => PersistentInsert(before, last.ops).root = tree
        /\ last.mode = "CopyOnWritePutBatch" /\ Puts(last.ops) \subseteq IdsOf(before)
           => PersistentReplacements(before, last.ops).root = tree
        /\ last.mode = "CopyOnWriteCanonicalMixed"
           => Age(AppendBatch(before, last.ops).root) = Age(tree)
=============
