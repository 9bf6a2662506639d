------------------------------ MODULE TreeTails ------------------------------
(***************************************************************************)
(* Commits that are built as a tail behind a base that stays where it is:   *)
(* in memory and streamed behind a copy of the base                         *)
(* (persistent_mixed_streaming.rs, persistent_replacement_streaming.rs),    *)
(* and planned from a versioned source that is read in parts                *)
(* (persistent_source_replacement.rs, persistent_source_mixed.rs).  Offsets *)
(* are those of the file the tail will end.                                 *)
(***************************************************************************)
EXTENDS TreeSinks

\* persistent_tail_total_len, and the limit on the pages of a tail.
TailFits(base, tail, pages, limits) ==
    base + Len(tail) <= limits.output /\ pages <= limits.pages

\* append_persistent_tail_object, over the puts of a batch: [tail, locators].
TailObjects(base, puts) ==
    FoldLeft(LAMBDA made, o : [tail |-> made.tail \o ObjectUnits(o),
                               locators |-> made.locators \cup
                                   {[LocatorOf(made.tail, o) EXCEPT !.offset = @ + base]}],
             [tail |-> <<>>, locators |-> {}], ById(puts))

\* Mutant: the offset of a page is counted from the beginning of the tail.
TailReferenceInTail(base, tail, page) == ReferenceOf(tail, page)

\* append_persistent_tail_page, the reference it returns.
TailReference(base, tail, page) == [ReferenceOf(tail, page) EXCEPT !.offset = @ + base]

\* publish_persistent_tail: the commit's units are the tail's, base ends with a footer.
PublishTail(base, tail, sequence, root, parent, pages) ==
    LET snapshot == SnapshotUnit(sequence, root, parent)
        body     == Append(tail, snapshot)
    IN  Append(body, FooterUnit(snapshot, base + Len(tail), base - 1, pages, body))

-----------------------------------------------------------------------------
(* Deletions with other operations: the canonical tree over the new locators, *)
(* with every page the old tree already has.                                  *)

\* canonical_mixed_operation_order: "ok", or the error of the first check that fails;
\* the operations are looked at in the order of their identifiers.
MixedOrder(locators, puts, deletes, limits) ==
    LET malformed == {o.id : o \in {p \in puts : p.id = 0 \/ p.kind = 0}}
        missing == {id \in deletes : id = 0 \/ id \notin Ids(locators)}
        count == Cardinality((Ids(locators) \ deletes) \cup Ids(puts))
    IN  IF Cardinality(puts) + Cardinality(deletes) < 2 \/ deletes = {} THEN "format"
        ELSE IF Cardinality(Ids(puts) \cup deletes) < Cardinality(puts) + Cardinality(deletes)
        THEN "duplicate"
        ELSE IF malformed \cup missing # {}
        THEN IF Min(malformed \cup missing) \in malformed THEN "format" ELSE "missing"
        ELSE IF count = 0 THEN "format"
        ELSE IF count > limits.objects THEN "limit"
        ELSE "ok"

\* apply_persistent_tail_operations, which apply_source_mixed_operations repeats.
ApplyTailOperations(locators, new, deletes) ==
    {l \in locators : l.id \notin deletes \cup Ids(new)} \cup new

\* reusable_mixed_leaf and reusable_mixed_internal.
Reusable(originals, page) ==
    {p \in originals : p.level = page.level /\ p.digest.entries = page.entries}

\* One level of materialize_persistent_tail_tree: [tail, level, pages].
TailLevel(base, made, pages, originals) ==
    FoldLeft(LAMBDA m, page :
                LET old == Reusable(originals, page)
                IN  IF old # {}
                    THEN [m EXCEPT !.level = Append(@, CHOOSE p \in old : TRUE)]
                    ELSE [tail |-> Append(m.tail, page), pages |-> m.pages + 1,
                          level |-> Append(m.level, TailReference(base, m.tail, page))],
             [made EXCEPT !.level = <<>>], pages)

RECURSIVE TailTreeAbove(_, _, _, _)
TailTreeAbove(base, made, originals, limits) ==
    LET groups == Grouped(made.level, GroupSizes(Len(made.level), InternalFanout))
        parent == made.level[1].level + 1
    IN  IF Len(made.level) = 1 \/ parent > limits.depth THEN made
        ELSE TailTreeAbove(base,
                TailLevel(base, made, [k \in DOMAIN groups |->
                            InternalPage(groups[k], parent)], originals),
                originals, limits)

\* materialize_persistent_tail_tree: [tail, level, pages], the root alone in its level
\* unless the tree would be too deep.
MaterializeTailTree(base, tail, locators, originals, limits) ==
    LET groups == Grouped(locators, GroupSizes(Len(locators), LeafCapacity))
    IN  TailTreeAbove(base,
            TailLevel(base, [tail |-> tail, level |-> <<>>, pages |-> 0],
                      [k \in DOMAIN groups |-> LeafPage(groups[k])], originals),
            originals, limits)

\* A tail of so many pages behind base, if the limits allow it: [st, tail].
TailWithin(base, tail, pages, limits) ==
    IF ~TailFits(base, tail, pages, limits) THEN [st |-> "limit"] ELSE [st |-> "ok", tail |-> tail]

MixedTree(base, report, tree, limits) ==
    IF Len(tree.level) > 1 THEN [st |-> "limit"]
    ELSE TailWithin(base, PublishTail(base, tree.tail, report.sequence + 1, tree.level[1],
                                 report.snapshot, tree.pages),
               tree.pages, limits)

MixedObjects(base, report, locators, originals, objects, deletes, limits) ==
    MixedTree(base, report,
              MaterializeTailTree(base, objects.tail,
                  ById(ApplyTailOperations(locators, objects.locators, deletes)), originals,
                  limits),
              limits)

\* The tail over a base whose locators and pages are known, for operations in the given
\* order or refused with it: [st, tail].
MixedTail(base, report, locators, originals, order, puts, deletes, limits) ==
    IF order # "ok" THEN [st |-> order]
    ELSE MixedObjects(base, report, locators, originals, TailObjects(base, puts), deletes, limits)

\* build_persistent_mixed_tail, on what canonical validation made of the base.
MixedTailOf(base, previous, puts, deletes, limits) ==
    IF previous.st # "ok" THEN Error
    ELSE MixedTail(base, previous.report, Range(previous.locators), previous.pages,
                   MixedOrder(Range(previous.locators), puts, deletes, limits),
                   puts, deletes, limits)

BuildMixedTail(data, puts, deletes, limits) ==
    MixedTailOf(Len(data), ValidateCanonical(data, limits), puts, deletes, limits)

\* write_persistent_mixed_chunked
WriteChunked(s, units) == WriteBytes(s, units, FALSE)

\* The base and then the tail, once there is one.
StreamTail(data, built, limits, room) ==
    LET s == Stream(InMemory(data, limits), room)
    IN  IF built.st # "ok" THEN [s EXCEPT !.r = Fail(@, built.st)]
        ELSE WriteChunked(WriteChunked(s, data), built.tail)

\* append_persistent_mixed_batch_to
AppendPersistentMixedBatchTo(data, puts, deletes, limits, room) ==
    StreamTail(data, BuildMixedTail(data, puts, deletes, limits), limits, room)

-----------------------------------------------------------------------------
(* Replacements: only the pages on the way to a replaced entry are new.       *)

\* The entries of a leaf with those of new in their place.
Replaced(entries, new) ==
    [i \in DOMAIN entries |-> IF entries[i].id \in Ids(new)
                              THEN CHOOSE l \in new : l.id = entries[i].id ELSE entries[i]]

\* page_has_replacement
HasReplacement(ref, new) == \E l \in new : Covers(ref, l.id)

\* rewrite_replacement_tail_path: [tail, ref, pages].
RECURSIVE RewriteTailPath(_, _, _, _, _)
RewriteTailPath(data, base, made, ref, new) ==
    LET page  == At(data, ref.offset)
        below == FoldLeft(LAMBDA m, i :
                            LET next == RewriteTailPath(data, base, m, Child(page, i), new)
                            IN  next @@ [refs |-> Append(m.refs, next.ref)],
                          [tail |-> made.tail, pages |-> made.pages, refs |-> <<>>],
                          [i \in DOMAIN page.entries |-> i])
        write(m, copy) == [tail |-> Append(m.tail, copy), pages |-> m.pages + 1,
                           ref |-> TailReference(base, m.tail, copy)]
    IN  IF ~HasReplacement(ref, new) THEN [tail |-> made.tail, pages |-> made.pages, ref |-> ref]
        ELSE IF ref.level = 0 THEN write(made, LeafPage(Replaced(page.entries, new)))
        ELSE write(below, InternalPage(below.refs, ref.level))

\* The file must also be one that can be read again.
Readable(base, built, limits) ==
    IF built.st = "ok" /\ base + Len(built.tail) > limits.file THEN [st |-> "limit"] ELSE built

ReplacementTree(base, report, tree, limits) ==
    TailWithin(base, PublishTail(base, tree.tail, report.sequence + 1, tree.ref,
                                 report.snapshot, tree.pages),
               tree.pages, limits)

\* append_persistent_replacement_batch_to, its tail, on what canonical validation made of the
\* base: [st, tail].
ReplacementTailOf(data, previous, puts, objects, limits) ==
    IF puts = {} \/ previous.st # "ok" THEN Error
    ELSE IF Cardinality(Ids(puts)) # Cardinality(puts) THEN [st |-> "duplicate"]
    ELSE IF \E o \in puts : o.id = 0 \/ o.kind = 0 THEN Error
    ELSE IF ~(Ids(puts) \subseteq Ids(Range(previous.locators))) THEN [st |-> "missing"]
    ELSE Readable(Len(data),
                  ReplacementTree(Len(data), previous.report,
                      RewriteTailPath(data, Len(data), [tail |-> objects.tail, pages |-> 0],
                                      previous.root, objects.locators),
                      limits),
                  limits)

ReplacementTail(data, puts, limits) ==
    ReplacementTailOf(data, ValidateCanonical(data, limits), puts, TailObjects(Len(data), puts), limits)

AppendPersistentReplacementBatchTo(data, puts, limits, room) ==
    StreamTail(data, ReplacementTail(data, puts, limits), limits, room)

-----------------------------------------------------------------------------
(* Planned from a versioned source.  A plan is [r] or [r, identity, tail].    *)

\* A source that looks at the version around every call, its version taken.
StableSource(src, limits) == [NewReader(src, 0, limits) EXCEPT !.by = "stable"]

\* SourceReader::new on it, with the limits that are left: the length is asked for again.
AskLength(r, most) ==
    LET length == Len(ContentAt(r.src, r.reads + 1))
    IN  IF r.st # "ok" THEN r
        ELSE Require(EnsureStable([r EXCEPT !.reads = @ + 1, !.len = length]), length <= most)

Reopened(r) ==
    AskLength(EnsureStable([r EXCEPT !.limits = RemainingLimits(r), !.ops = 0, !.units = 0]),
              r.limits.file)

\* One page of the walk of persistent_source_canonical_envelope.
RECURSIVE CanonicalPages(_, _)
CanonicalBelow(w, ref, r, root) ==
    LET page == r.got[1]
    IN  IF r.st # "ok" THEN [w EXCEPT !.r = r]
        ELSE IF ~(PageNamed(page, ref) /\ OccupancyOk(page, ref.offset = root.offset))
        THEN [w EXCEPT !.r = Fail(r, "format")]
        ELSE CanonicalPages([r |-> r, seen |-> w.seen \cup {ref.offset},
                             stack |-> Front(w.stack) \o
                                IF page.level = 0 THEN <<>>
                                ELSE Reverse([i \in DOMAIN page.entries |-> Child(page, i)])],
                            root)

CanonicalPages(w, root) ==
    LET ref == Last(w.stack)
    IN  IF w.r.st # "ok" \/ w.stack = <<>> THEN w
        ELSE CanonicalBelow(w, ref,
                ReadVec(Require(w.r, /\ Cardinality(w.seen) < w.r.limits.pages
                                     /\ ref.offset \notin w.seen), ref.offset, 1), root)

CanonicalCounted(w, e, strict) ==
    [r |-> Require(w.r, Cardinality(w.seen) = strict.report.pages), e |-> e]

CanonicalFrom(e, strict) ==
    IF e.r.st # "ok" THEN [r |-> e.r]
    ELSE CanonicalCounted(
            CanonicalPages([r |-> Require(e.r, SameCommit(e, strict)), seen |-> {},
                            stack |-> <<e.snapshot.root>>], e.snapshot.root), e, strict)

\* persistent_source_canonical_envelope: [r] or [r, e].
CanonicalEnvelope(r, strict) == CanonicalFrom(ReadLookupEnvelope(r), strict)

\* The same for deletions, which read the root page again for its range: [r] or [r, e, root].
RootRanged(found, r) ==
    LET named == found.e.snapshot.root
        page  == r.got[1]
    IN  IF r.st # "ok" \/ ~PageNamed(page, named)
        THEN [r |-> AddSourceStats(found.r, Require(r, FALSE))]
        ELSE [r |-> AddSourceStats(found.r, r), e |-> found.e,
              root |-> [min |-> page.min, max |-> page.max] @@ named]

RootAgain(found) ==
    IF found.r.st # "ok" THEN found
    ELSE RootRanged(found, ReadVec(Reopened(found.r), found.e.snapshot.root.offset, 1))

CanonicalEnvelopeForDeletion(total, strict) ==
    RootAgain(CanonicalEnvelope(Reopened(total), strict))

\* persistent_source_identity: the hash of the whole source.
SourceIdentity(r) == HashRange(r, 0, r.len)

\* What every planner does first, strict validation: [r, strict].
StrictCharged(opened, strict) == [r |-> AddSourceStats(opened, strict.r), strict |-> strict]

PlanStrict(opened) == StrictCharged(opened, StrictWith(Reopened(opened)))

\* What they do then, before they look at the tree: canonical occupancy, the identity of the
\* base and a reader for the rest, under one budget: [r] or
\* [r, total, strict, envelope, identity].
BaseReader(b, reader) ==
    [b EXCEPT !.r = Require(reader, reader.len = Len(b.identity))]

BaseIdentity(b, identity) ==
    LET total == AddSourceStats(b.total, identity)
    IN  IF total.st # "ok" THEN [r |-> total]
        ELSE BaseReader([b EXCEPT !.total = total, !.identity = identity.got], Reopened(total))

BaseEnvelope(checked, envelope) ==
    LET total == AddSourceStats(checked.r, envelope.r)
    IN  IF total.st # "ok" THEN [r |-> total]
        ELSE BaseIdentity([r |-> total, total |-> total, strict |-> checked.strict,
                           envelope |-> envelope, identity |-> <<>>],
                          SourceIdentity(Reopened(total)))

PlanBase(checked, deletion) ==
    IF checked.r.st # "ok" THEN [r |-> checked.r]
    ELSE BaseEnvelope(checked,
            IF deletion THEN CanonicalEnvelopeForDeletion(checked.r, checked.strict)
            ELSE CanonicalEnvelope(Reopened(checked.r), checked.strict))

\* The page a reference names, as replacements read it.
ReadReplacementPage(r, ref) == RequirePage(ReadVec(r, ref.offset, 1), ref)

\* persistent_source_replacement_page: p is [r, tail, matched, pages, ref, refs, changed]; page
\* is the one ref names, p what came of what is below it.
ReplacedPage(p, ref, page, copy) ==
    IF p.changed
    THEN [p EXCEPT !.tail = Append(@, copy), !.pages = @ + 1,
                   !.ref = TailReference(p.r.len, p.tail, copy)]
    ELSE [p EXCEPT !.ref = [min |-> page.min, max |-> page.max, offset |-> ref.offset,
                            level |-> page.level, digest |-> ref.digest]]

ReplacedLeaf(p, ref, page, new) ==
    LET hits == {page.entries[i].id : i \in DOMAIN page.entries} \cap Ids(new)
    IN  ReplacedPage([p EXCEPT !.matched = @ \cup hits, !.changed = hits # {}], ref, page,
                     LeafPage(Replaced(page.entries, new)))

ReplacedInternal(p, ref, page) ==
    IF p.r.st # "ok" THEN p ELSE ReplacedPage(p, ref, page, InternalPage(p.refs, page.level))

ChildReplaced(p, next) ==
    [next EXCEPT !.refs = Append(p.refs, next.ref), !.changed = p.changed \/ next.changed]

RECURSIVE ReplacementPage(_, _, _)
ReplacementBelow(p, ref, page, new) ==
    IF p.r.st # "ok" THEN p
    ELSE IF page.level = 0 THEN ReplacedLeaf(p, ref, page, new)
    ELSE ReplacedInternal(
            FoldLeft(LAMBDA q, i :
                        IF HasReplacement(Child(page, i), new)
                        THEN ChildReplaced(q, ReplacementPage(q, Child(page, i), new))
                        ELSE [q EXCEPT !.refs = Append(@, Child(page, i))],
                     p, [i \in DOMAIN page.entries |-> i]),
            ref, page)

ReplacementRead(p, r, ref, new) ==
    ReplacementBelow([p EXCEPT !.r = r, !.refs = <<>>, !.changed = FALSE], ref, r.got[1], new)

ReplacementPage(p, ref, new) == ReplacementRead(p, ReadReplacementPage(p.r, ref), ref, new)

\* What a planner returns for the tail it built: [r] or [r, identity, tail].
PlanWith(base, total, built) ==
    IF built.st # "ok" THEN [r |-> Fail(total, built.st)]
    ELSE [r |-> total, identity |-> base.identity, tail |-> built.tail]

ReplacementsPlanned(base, tree, total, puts, limits) ==
    IF tree.r.st # "ok" THEN [r |-> total]
    ELSE IF tree.matched # Ids(puts) THEN [r |-> Fail(total, "missing")]
    ELSE PlanWith(base, total, ReplacementTree(base.r.len, base.strict.report, tree, limits))

ReplacementsWalked(base, tree, puts, limits) ==
    ReplacementsPlanned(base, tree, AddSourceStats(base.total, tree.r), puts, limits)

ReplacementsOn(base, puts, objects, limits) ==
    IF base.r.st # "ok" THEN [r |-> base.r]
    ELSE IF ~TailFits(base.r.len, objects.tail, 0, limits) THEN [r |-> Fail(base.r, "limit")]
    ELSE ReplacementsWalked(base,
            ReplacementPage([r |-> base.r, tail |-> objects.tail, matched |-> {}, pages |-> 0,
                             ref |-> <<>>, refs |-> <<>>, changed |-> FALSE],
                            base.envelope.e.snapshot.root, objects.locators),
            puts, limits)

ReplacementsFrom(base, puts, limits) ==
    ReplacementsOn(base, puts, TailObjects(base.r.len, puts), limits)

\* plan_persistent_source_replacements_inner
PlanSourceReplacements(opened, puts, limits) ==
    IF puts = {} THEN [r |-> Fail(opened, "format")]
    ELSE IF Cardinality(Ids(puts)) # Cardinality(puts) THEN [r |-> Fail(opened, "duplicate")]
    ELSE IF \E o \in puts : o.id = 0 \/ o.kind = 0 THEN [r |-> Fail(opened, "format")]
    ELSE ReplacementsFrom(PlanBase(PlanStrict(opened), FALSE), puts, limits)

\* plan_persistent_replacement_tail_at
PlanReplacementTailAt(src, puts, limits) ==
    PlanSourceReplacements(StableSource(src, limits), puts, limits)

\* read_source_deletion_node
ReadDeletionNode(r, ref) == RequirePage(ReadVec(r, ref.offset, 1), ref)

\* collect_source_mixed_inventory: c is [r, originals, locators].
RECURSIVE CollectMixedInventory(_, _)
CollectBelow(c, r, ref) ==
    LET page == r.got[1]
        seen == [c EXCEPT !.r = r, !.originals = @ \cup {ref}]
    IN  IF r.st # "ok" THEN [c EXCEPT !.r = r]
        ELSE IF page.level # 0
        THEN FoldLeft(LAMBDA d, i : CollectMixedInventory(d, Child(page, i)), seen,
                      [i \in DOMAIN page.entries |-> i])
        ELSE IF Len(c.locators) + Len(page.entries) > c.r.limits.objects
        THEN [c EXCEPT !.r = Fail(r, "limit")]
        ELSE [seen EXCEPT !.locators = @ \o page.entries]

CollectMixedInventory(c, ref) ==
    IF c.r.st = "ok" /\ Cardinality(c.originals) >= c.r.limits.pages
    THEN [c EXCEPT !.r = Fail(@, "limit")]
    ELSE CollectBelow(c, ReadDeletionNode(c.r, ref), ref)

\* source_mixed_operation_order: the planner's copy of canonical_mixed_operation_order,
\* which counts the insertions and the deletions.
SourceMixedOrder(locators, puts, deletes, limits) ==
    LET held == {l.id : l \in Range(locators)}
        order == SetToSortSeq(Ids(puts) \cup deletes, <)
        bad(id) == \/ \E o \in puts : o.id = id /\ (id = 0 \/ o.kind = 0)
                   \/ id \in deletes /\ (id = 0 \/ id \notin held)
        first == SelectInSeq(order, bad)
        next == Len(locators) + Cardinality(Ids(puts) \ held) - Cardinality(deletes)
    IN  IF deletes = {} \/ Cardinality(puts) + Cardinality(deletes) < 2 THEN "format"
        ELSE IF Len(order) # Cardinality(puts) + Cardinality(deletes) THEN "duplicate"
        ELSE IF first # 0 THEN IF order[first] \in deletes THEN "missing" ELSE "format"
        ELSE IF next <= 0 THEN "format"
        ELSE IF next > limits.objects THEN "limit"
        ELSE "ok"

MixedPlanned(base, found, total, puts, deletes, limits) ==
    IF found.r.st # "ok" THEN [r |-> total]
    ELSE IF ~(/\ Cardinality(found.originals) = base.strict.report.pages
              /\ Len(found.locators) = base.strict.report.objects
              /\ OrderedIds(found.locators))
    THEN [r |-> Fail(total, "format")]
    ELSE PlanWith(base, total,
            MixedTail(base.r.len, base.strict.report, Range(found.locators), found.originals,
                      SourceMixedOrder(found.locators, puts, deletes, limits),
                      puts, deletes, limits))

MixedCollected(base, found, puts, deletes, limits) ==
    MixedPlanned(base, found, AddSourceStats(base.total, found.r), puts, deletes, limits)

MixedFrom(base, puts, deletes, limits) ==
    IF base.r.st # "ok" THEN [r |-> base.r]
    ELSE MixedCollected(base,
            CollectMixedInventory([r |-> base.r, originals |-> {}, locators |-> <<>>],
                                  base.envelope.root),
            puts, deletes, limits)

\* plan_persistent_source_mixed_inner
PlanSourceMixed(opened, puts, deletes, limits) ==
    MixedFrom(PlanBase(PlanStrict(opened), TRUE), puts, deletes, limits)

\* plan_persistent_mixed_tail_at
PlanMixedTailAt(src, puts, deletes, limits) ==
    PlanSourceMixed(StableSource(src, limits), puts, deletes, limits)
=============================================================================
