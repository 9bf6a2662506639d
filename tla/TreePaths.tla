------------------------------ MODULE TreePaths ------------------------------
(***************************************************************************)
(* Tails that copy the paths of an insertion, a batch of puts or a          *)
(* deletion: built from a file in memory and streamed behind it             *)
(* (persistent_insert_streaming.rs, persistent_multi_put_streaming.rs,      *)
(* persistent_delete_streaming.rs, and persistent_streaming_dispatch.rs,    *)
(* which chooses among all tails), or planned from a versioned source       *)
(* (persistent_source_insertion.rs, persistent_source_multi_put.rs,         *)
(* persistent_source_deletion.rs).  The two forms of each walk differ in    *)
(* how a page is read and are one definition here; the planner's name for   *)
(* it is next to it.                                                        *)
(*                                                                          *)
(* A walk carries p: the reader r, the tail and its pages, refs (what takes *)
(* the place of the page that was visited), inserted (objects that are new) *)
(* and node (a page that is not written yet).                               *)
(***************************************************************************)
EXTENDS TreeTails

Capacity(level) == IF level = 0 THEN LeafCapacity ELSE InternalFanout

Node(level, entries) ==
    IF level = 0 THEN LeafPage(entries) ELSE InternalPage(entries, level)

Walked(r, tail) ==
    [r |-> r, tail |-> tail, pages |-> 0, refs |-> <<>>, inserted |-> 0, node |-> <<>>]

\* A file in memory, read without a budget.
Memory(data, limits) == [InMemory(data, limits) EXCEPT !.by = "memory"]

\* checked_persistent_page, decode_persistent_leaf and decode_persistent_children.
CheckedPage(r, ref) ==
    LET page == At(ContentAt(r.src, 1), ref.offset)
    IN  Require([r EXCEPT !.got = <<page>>],
                page = ref.digest /\ page.t = "page" /\ page.level = ref.level /\ PageShapeOk(page))

\* read_persistent_insertion_page; the root's range is not known to it.
RequireInsertionPage(r, ref) ==
    Require(r, PageNamed(r.got[1], ref) /\ Len(r.got[1].entries) \in 1..Capacity(r.got[1].level))

ReadInsertionPage(r, ref) == RequireInsertionPage(ReadVec(r, ref.offset, 1), ref)

\* append_persistent_tail_page, one page after the other.
AppendTailPages(p, pages) ==
    FoldLeft(LAMBDA q, page : [q EXCEPT !.tail = Append(@, page), !.pages = @ + 1,
                                        !.refs = Append(@, TailReference(q.r.len, q.tail, page))],
             [p EXCEPT !.refs = <<>>], pages)

\* The first child that reaches up to id, or the last: the position in insert_persistent_tail_path
\* and, for updates in order, route_put_updates.
RouteChild(children, id) ==
    LET reaching == {i \in DOMAIN children : id <= children[i].max}
    IN  IF reaching = {} THEN Len(children) ELSE Min(reaching)

\* s with the elements from i to j replaced by those of t.
Spliced(s, i, j, t) == SubSeq(s, 1, i - 1) \o t \o SubSeq(s, j + 1, Len(s))

-----------------------------------------------------------------------------
(* Insertion                                                                  *)

\* One page, or two halves.
Halves(level, entries) ==
    LET split == Half(Len(entries))
    IN  IF Len(entries) <= Capacity(level) THEN <<Node(level, entries)>>
        ELSE <<Node(level, SubSeq(entries, 1, split)),
               Node(level, SubSeq(entries, split + 1, Len(entries)))>>

\* What takes the place of a page once the insertion below it is done: one page, or two.
InsertedLeaf(p, page, new) ==
    IF new.id \in Ids(Range(page.entries)) THEN [p EXCEPT !.r = Fail(@, "duplicate")]
    ELSE AppendTailPages(p, Halves(0, ById(Range(page.entries) \cup {new})))

InsertedInternal(p, page, i) ==
    IF p.r.st # "ok" THEN p
    ELSE AppendTailPages(p, Halves(page.level, Spliced(page.entries, i, i, p.refs)))

RECURSIVE InsertTailPath(_, _, _)
InsertBelow(p, new) ==
    LET page == p.r.got[1]
        i    == RouteChild(page.entries, new.id)
    IN  IF p.r.st # "ok" THEN p
        ELSE IF page.level = 0 THEN InsertedLeaf(p, page, new)
        ELSE InsertedInternal(InsertTailPath(p, Child(page, i), new), page, i)

InsertTailPath(p, ref, new) ==
    InsertBelow([p EXCEPT !.r = IF @.by = "memory" THEN CheckedPage(@, ref)
                                ELSE ReadInsertionPage(@, ref)], new)

\* persistent_source_insert_path
SourceInsertPath(p, ref, new) == InsertTailPath(p, ref, new)

\* A root that was split gets a root above it.
GrownRoot(p, level, limits) ==
    IF p.r.st # "ok" \/ Len(p.refs) = 1 THEN p
    ELSE IF level + 1 > limits.depth THEN [p EXCEPT !.r = Fail(@, "limit")]
    ELSE AppendTailPages(p, <<InternalPage(p.refs, level + 1)>>)

-----------------------------------------------------------------------------
(* Puts                                                                       *)

\* merge_leaf_puts
MergeLeafPuts(entries, updates) ==
    ById({e \in Range(entries) : e.id \notin Ids(Range(updates))} \cup Range(updates))

\* append_leaf_tail_groups and append_internal_tail_groups
AppendTailGroups(p, level, entries) ==
    LET groups == Grouped(entries, GroupSizes(Len(entries), Capacity(level)))
    IN  AppendTailPages(p, [k \in DOMAIN groups |-> Node(level, groups[k])])

MergedLeaf(p, page, updates) ==
    AppendTailGroups([p EXCEPT !.inserted = @ +
                            Cardinality(Ids(Range(updates)) \ Ids(Range(page.entries)))],
                     0, MergeLeafPuts(page.entries, updates))

MergedInternal(p, page) ==
    IF p.r.st # "ok" THEN p ELSE AppendTailGroups(p, page.level, p.refs)

RECURSIVE RewritePutTailPaths(_, _, _)
RewritePutsBelow(p, updates) ==
    LET page == p.r.got[1]
        share(i) == SelectSeq(updates, LAMBDA u : RouteChild(page.entries, u.id) = i)
    IN  IF p.r.st # "ok" THEN p
        ELSE IF page.level = 0 THEN MergedLeaf(p, page, updates)
        ELSE MergedInternal(
                FoldLeft(LAMBDA q, i : [RewritePutTailPaths(q, Child(page, i), share(i))
                                            EXCEPT !.refs = q.refs \o @],
                         [p EXCEPT !.refs = <<>>], [i \in DOMAIN page.entries |-> i]),
                page)

RewritePutTailPaths(p, ref, updates) ==
    IF p.r.st # "ok" THEN p
    ELSE IF updates = <<>> THEN [p EXCEPT !.refs = <<ref>>]
    ELSE RewritePutsBelow([p EXCEPT !.r = IF @.by = "memory" THEN CheckedPage(@, ref)
                                          ELSE ReadDeletionNode(@, ref)], updates)

\* rewrite_source_put_paths
RewriteSourcePutPaths(p, ref, updates) == RewritePutTailPaths(p, ref, updates)

\* finish_put_tail_roots
RECURSIVE FinishPutTailRoots(_, _, _)
FinishPutTailRoots(p, level, limits) ==
    IF p.r.st # "ok" \/ Len(p.refs) = 1 THEN p
    ELSE IF level + 1 > limits.depth THEN [p EXCEPT !.r = Fail(@, "limit")]
    ELSE FinishPutTailRoots(AppendTailGroups(p, level + 1, p.refs), level + 1, limits)

-----------------------------------------------------------------------------
(* Deletion                                                                   *)

LoadDeletionNode(r, ref) ==
    IF r.by = "memory" THEN CheckedPage(r, ref) ELSE ReadDeletionNode(r, ref)

\* What becomes of child i of page once it is target: [r, from, to, pages], the children
\* from..to are replaced by the pages.  The siblings are read only if it is underfull, the
\* right one only if the left one does not lend.
Repaired(r, level, from, to, nodes) ==
    [r |-> Require(r, \A k \in DOMAIN nodes : Len(nodes[k]) <= Capacity(level)),
     from |-> from, to |-> to, pages |-> [k \in DOMAIN nodes |-> Node(level, nodes[k])]]

\* left is empty if there is none; right is the last page r read, unless i is the last child.
RepairedFromRight(r, page, i, target, left) ==
    LET right == r.got[1].entries
    IN  IF r.st # "ok" THEN Repaired(r, target.level, i, i, <<>>)
        ELSE IF i < Len(page.entries) /\ Len(right) > Half(Capacity(target.level))
        THEN Repaired(r, target.level, i, i + 1, <<Append(target.entries, Head(right)), Tail(right)>>)
        ELSE IF i > 1 THEN Repaired(r, target.level, i - 1, i, <<left \o target.entries>>)
        ELSE IF i < Len(page.entries)
        THEN Repaired(r, target.level, i, i + 1, <<target.entries \o right>>)
        ELSE Repaired(Fail(r, "format"), target.level, i, i, <<>>)

RepairedFromLeft(r, page, i, target, left) ==
    IF r.st # "ok" THEN Repaired(r, target.level, i, i, <<>>)
    ELSE IF Len(left) > Half(Capacity(target.level))
    THEN Repaired(r, target.level, i - 1, i, <<Front(left), <<Last(left)>> \o target.entries>>)
    ELSE RepairedFromRight(IF i < Len(page.entries) THEN LoadDeletionNode(r, Child(page, i + 1)) ELSE r,
                           page, i, target, left)

LeftLoaded(r, page, i, target) == RepairedFromLeft(r, page, i, target, r.got[1].entries)

RepairedChild(r, page, i, target) ==
    IF Len(target.entries) >= Half(Capacity(target.level))
    THEN Repaired(r, target.level, i, i, <<target.entries>>)
    ELSE IF i > 1 THEN LeftLoaded(LoadDeletionNode(r, Child(page, i - 1)), page, i, target)
    ELSE RepairedFromLeft(r, page, i, target, <<>>)

\* A page that is not written yet, because it may be too small.
Holding(p, level, entries) == [p EXCEPT !.node = [level |-> level, entries |-> entries]]

ChildSpliced(p, page, fixed) ==
    Holding(p, page.level, Spliced(page.entries, fixed.from, fixed.to, p.refs))

ChildFixed(p, page, fixed) ==
    IF fixed.r.st # "ok" THEN [p EXCEPT !.r = fixed.r]
    ELSE ChildSpliced(AppendTailPages([p EXCEPT !.r = fixed.r], fixed.pages), page, fixed)

ChildDeleted(p, page, i) ==
    IF p.r.st # "ok" THEN p ELSE ChildFixed(p, page, RepairedChild(p.r, page, i, p.node))

RECURSIVE DeleteTailNode(_, _, _)
DeleteBelow(p, id) ==
    LET page   == p.r.got[1]
        covers == {j \in DOMAIN page.entries : Covers(page.entries[j], id)}
    IN  IF p.r.st # "ok" THEN p
        ELSE IF page.level = 0
        THEN IF id \in Ids(Range(page.entries))
             THEN Holding(p, 0, SelectSeq(page.entries, LAMBDA e : e.id # id))
             ELSE [p EXCEPT !.r = Fail(@, "missing")]
        ELSE IF covers = {} THEN [p EXCEPT !.r = Fail(@, "missing")]
        ELSE ChildDeleted(DeleteTailNode(p, Child(page, Min(covers)), id), page, Min(covers))

DeleteTailNode(p, ref, id) == DeleteBelow([p EXCEPT !.r = LoadDeletionNode(@, ref)], id)

\* delete_source_persistent_node
DeleteSourceNode(p, ref, id) == DeleteTailNode(p, ref, id)

\* An internal root with one child gives way to it.
CollapsedRoot(p) ==
    IF p.r.st # "ok" THEN p
    ELSE IF p.node.level > 0 /\ Len(p.node.entries) = 1 THEN [p EXCEPT !.refs = p.node.entries]
    ELSE AppendTailPages(p, <<Node(p.node.level, p.node.entries)>>)

-----------------------------------------------------------------------------
(* Built in memory and streamed                                               *)

\* What all of them end with: the commit over the only reference left, and the limits.
TailOf(p, report, limits) ==
    IF p.r.st # "ok" THEN [st |-> p.r.st]
    ELSE TailWithin(p.r.len, PublishTail(p.r.len, p.tail, report.sequence + 1, p.refs[1],
                                         report.snapshot, p.pages),
                    p.pages, limits)

StreamedTail(p, report, limits) == Readable(p.r.len, TailOf(p, report, limits), limits)

InputOk(o) == o.id # 0 /\ o.kind # 0

\* append_persistent_insert_to
InsertionTailOf(data, previous, o, object, limits) ==
    IF Len(data) > limits.output THEN [st |-> "limit"]
    ELSE IF ~InputOk(o) \/ previous.st # "ok" THEN Error
    ELSE IF Len(previous.locators) >= limits.objects THEN [st |-> "limit"]
    ELSE IF o.id \in Ids(Range(previous.locators)) THEN [st |-> "duplicate"]
    ELSE StreamedTail(GrownRoot(InsertTailPath(Walked(Memory(data, limits), object.tail), previous.root,
                                               CHOOSE l \in object.locators : TRUE),
                                previous.root.level, limits),
                      previous.report, limits)

InsertionTail(data, o, limits) ==
    InsertionTailOf(data, ValidateCanonical(data, limits), o, TailObjects(Len(data), {o}), limits)

AppendPersistentInsertTo(data, o, limits, room) ==
    StreamTail(data, InsertionTail(data, o, limits), limits, room)

\* append_persistent_put_refs_to
PutTailOf(data, previous, puts, objects, limits) ==
    IF Len(data) > limits.output THEN [st |-> "limit"]
    ELSE IF puts = {} \/ previous.st # "ok" THEN Error
    ELSE IF Cardinality(Ids(puts)) # Cardinality(puts) THEN [st |-> "duplicate"]
    ELSE IF \E o \in puts : ~InputOk(o) THEN Error
    ELSE IF Len(previous.locators) + Cardinality(Ids(puts) \ Ids(Range(previous.locators)))
                > limits.objects THEN [st |-> "limit"]
    ELSE StreamedTail(
            FinishPutTailRoots(
                RewritePutTailPaths(Walked(Memory(data, limits), objects.tail), previous.root,
                                    ById(objects.locators)),
                previous.root.level, limits),
            previous.report, limits)

PutTail(data, puts, limits) ==
    PutTailOf(data, ValidateCanonical(data, limits), puts, TailObjects(Len(data), puts), limits)

AppendPersistentPutBatchTo(data, puts, limits, room) ==
    StreamTail(data, PutTail(data, puts, limits), limits, room)

\* append_persistent_delete_to
DeletionTailOf(data, previous, id, limits) ==
    IF Len(data) > limits.output THEN [st |-> "limit"]
    ELSE IF id = 0 \/ previous.st # "ok" \/ Len(previous.locators) <= 1 THEN Error
    ELSE IF id \notin Ids(Range(previous.locators)) THEN [st |-> "missing"]
    ELSE StreamedTail(
            CollapsedRoot(DeleteTailNode(Walked(Memory(data, limits), <<>>), previous.root, id)),
            previous.report, limits)

DeletionTail(data, id, limits) == DeletionTailOf(data, ValidateCanonical(data, limits), id, limits)

AppendPersistentDeleteTo(data, id, limits, room) ==
    StreamTail(data, DeletionTail(data, id, limits), limits, room)

\* append_persistent_batch_to, on what canonical validation made of the base.
DispatchBatch(data, previous, puts, deletes, limits, room) ==
    LET new == Ids(puts) \ Ids(Range(previous.locators))
        n   == Cardinality(puts) + Cardinality(deletes)
        refused(st) == StreamTail(data, [st |-> st], limits, room)
    IN  IF n = 0 \/ previous.st # "ok" THEN refused("format")
        ELSE IF Cardinality(Ids(puts) \cup deletes) # n THEN refused("duplicate")
        ELSE IF n > 1 /\ deletes # {}
        THEN AppendPersistentMixedBatchTo(data, puts, deletes, limits, room)
        ELSE IF deletes # {}
        THEN AppendPersistentDeleteTo(data, CHOOSE id \in deletes : TRUE, limits, room)
        ELSE IF new = {} THEN AppendPersistentReplacementBatchTo(data, puts, limits, room)
        ELSE IF n = 1
        THEN AppendPersistentInsertTo(data, CHOOSE o \in puts : TRUE, limits, room)
        ELSE AppendPersistentPutBatchTo(data, puts, limits, room)

AppendPersistentBatchTo(data, puts, deletes, limits, room) ==
    DispatchBatch(data, ValidateCanonical(data, limits), puts, deletes, limits, room)

-----------------------------------------------------------------------------
(* Planned from a versioned source                                            *)

\* The plan of a walk over base: [r] or [r, identity, tail].
PlanOf(base, p, limits) ==
    PlanWith(base, AddSourceStats(base.total, p.r), TailOf(p, base.strict.report, limits))

InsertionFrom(base, o, object, limits) ==
    IF base.r.st # "ok" THEN [r |-> base.r]
    ELSE LET root == base.envelope.e.snapshot.root
         IN  PlanOf(base, GrownRoot(SourceInsertPath(Walked(base.r, object.tail), root,
                                                     CHOOSE l \in object.locators : TRUE),
                                    root.level, limits), limits)

InsertionOn(base, o, limits) == InsertionFrom(base, o, TailObjects(base.r.len, {o}), limits)

InsertionChecked(checked, o, limits) ==
    IF checked.r.st = "ok" /\ checked.strict.report.objects >= limits.objects
    THEN [r |-> Fail(checked.r, "limit")]
    ELSE InsertionOn(PlanBase(checked, FALSE), o, limits)

\* plan_persistent_source_insertion_inner
PlanSourceInsertion(opened, o, limits) ==
    IF ~InputOk(o) THEN [r |-> Fail(opened, "format")]
    ELSE InsertionChecked(PlanStrict(opened), o, limits)

PlanInsertionTailAt(src, o, limits) == PlanSourceInsertion(StableSource(src, limits), o, limits)

PutsPlanned(base, p, limits) ==
    IF base.strict.report.objects + p.inserted > limits.objects
    THEN [r |-> Fail(AddSourceStats(base.total, p.r), "limit")]
    ELSE PlanOf(base, p, limits)

PutsFrom(base, objects, limits) ==
    IF base.r.st # "ok" THEN [r |-> base.r]
    ELSE LET root == base.envelope.root
         IN  PutsPlanned(base,
                FinishPutTailRoots(
                    RewriteSourcePutPaths(Walked(base.r, objects.tail), root, ById(objects.locators)),
                    root.level, limits), limits)

PutsOn(base, puts, limits) == PutsFrom(base, TailObjects(base.r.len, puts), limits)

\* plan_persistent_source_multi_put_inner
PlanSourceMultiPut(opened, puts, limits) ==
    IF puts = {} THEN [r |-> Fail(opened, "format")]
    ELSE IF Cardinality(Ids(puts)) # Cardinality(puts) THEN [r |-> Fail(opened, "duplicate")]
    ELSE IF \E o \in puts : ~InputOk(o) THEN [r |-> Fail(opened, "format")]
    ELSE PutsOn(PlanBase(PlanStrict(opened), TRUE), puts, limits)

PlanPutBatchTailAt(src, puts, limits) == PlanSourceMultiPut(StableSource(src, limits), puts, limits)

DeletionFrom(base, id, limits) ==
    IF base.r.st # "ok" THEN [r |-> base.r]
    ELSE PlanOf(base, CollapsedRoot(DeleteSourceNode(Walked(base.r, <<>>), base.envelope.root, id)),
                limits)

DeletionChecked(checked, id, limits) ==
    IF checked.r.st = "ok" /\ checked.strict.report.objects <= 1
    THEN [r |-> Fail(checked.r, "format")]
    ELSE DeletionFrom(PlanBase(checked, TRUE), id, limits)

\* plan_persistent_source_deletion_inner
PlanSourceDeletion(opened, id, limits) ==
    IF id = 0 THEN [r |-> Fail(opened, "format")]
    ELSE DeletionChecked(PlanStrict(opened), id, limits)

PlanDeletionTailAt(src, id, limits) == PlanSourceDeletion(StableSource(src, limits), id, limits)
=============================================================================
