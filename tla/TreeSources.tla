----------------------------- MODULE TreeSources -----------------------------
(***************************************************************************)
(* The operations on a bounded source: a lookup, strict validation, the     *)
(* validation of all linked prefixes, the recovery scan and the inventories,*)
(* synchronous (source.rs, source_full.rs, source_inventory.rs,             *)
(* source_history_inventory.rs, source_history_rewrite.rs) and asynchronous *)
(* over one strong version (the conditional_async_source files).            *)
(* The asynchronous files repeat the synchronous parsers statement for      *)
(* statement over range requests with the pinned version: what differs is   *)
(* the reader they are given.                                               *)
(***************************************************************************)
EXTENDS TreeReaders

\* The units read_lookup_envelope reads and what it requires of them, one step after the
\* other: e is [r], then [r, footer], then [r, footer, snapshot].
ReadHeader(r) == ReadVec(Require(r, r.len >= MinimumLength), 0, 1)
ReadFooter(r) == ReadVec(Require(r, r.got = <<HeaderUnit>>), r.len - 1, 1)

\* The footer of the commit that ends at end.
TakeFooter(r, end) ==
    IF r.st # "ok" THEN [r |-> r]
    ELSE [r |-> Require(r, r.got[1].t = "footer" /\ r.got[1].snapshot + 1 = end - 1),
          footer |-> r.got[1]]

TakeSnapshot(e, r) ==
    IF r.st # "ok" THEN [r |-> r]
    ELSE [r |-> Require(r, /\ r.got[1] = e.footer.digest /\ r.got[1].t = "snapshot"
                           /\ r.got[1].sequence = e.footer.sequence),
          footer |-> e.footer, snapshot |-> r.got[1]]

ReadSnapshot(e) ==
    IF e.r.st # "ok" THEN e ELSE TakeSnapshot(e, ReadVec(e.r, e.footer.snapshot, 1))

ParentNamed(e, r) ==
    Require(r, /\ r.got[1].t = "footer" /\ e.footer.sequence = r.got[1].sequence + 1
               /\ r.got[1].digest = e.snapshot.parent)

ReadParent(e) ==
    IF e.r.st # "ok" THEN e
    ELSE [e EXCEPT !.r =
            IF e.footer.previous = Absent
            THEN Require(@, e.footer.sequence = 0 /\ e.snapshot.parent = ZeroDigest)
            ELSE ParentNamed(e, ReadVec(Require(@, e.footer.previous + 1 <= e.footer.snapshot),
                                        e.footer.previous, 1))]

CommitHashed(e, r) ==
    Require(r, /\ e.footer.commit = [body |-> r.got, by |-> FooterSemantics(e.footer)]
               /\ e.snapshot.root.level <= r.limits.depth)

HashCommit(e) ==
    LET start == CommitStart(e.footer)
    IN  IF e.r.st # "ok" THEN e
        ELSE [e EXCEPT !.r = CommitHashed(e, HashRange(@, start, e.r.len - 1 - start))]

\* read_lookup_envelope
ReadLookupEnvelope(r) ==
    HashCommit(ReadParent(ReadSnapshot(TakeFooter(ReadFooter(ReadHeader(r)), r.len))))

\* read_lookup_envelope_async and read_full_envelope_async.
ReadLookupEnvelopeAsync(r) == ReadLookupEnvelope(r)
ReadFullEnvelopeAsync(r) == ReadLookupEnvelope(r)

\* The one a lookup uses, and the one strict validation uses.
LookupEnvelope(r) ==
    IF r.by = "lookup" THEN ReadLookupEnvelopeAsync(r) ELSE ReadLookupEnvelope(r)
FullEnvelope(r) == IF r.by = "full" THEN ReadFullEnvelopeAsync(r) ELSE ReadLookupEnvelope(r)

\* What the pages are walked with: known holds the offsets of known_ranges, LookupReference
\* is [offset, level, digest] and, below the root, the range.
Walk(e) ==
    [r |-> e.r, visited |-> {}, known |-> {e.footer.snapshot, e.r.len - 1}, locators |-> <<>>,
     stack |-> <<e.snapshot.root>>]

Requires(w, holds) == [w EXCEPT !.r = Require(w.r, holds)]

\* register_page_range
RegisterPageRange(w, e, offset) ==
    [Requires(w, offset >= 1 /\ offset + 1 <= e.footer.snapshot /\ offset \notin w.known)
        EXCEPT !.known = @ \cup {offset}]

\* The page that was read is the one the reference names, its range too if that is known.
PageNamed(page, ref) ==
    /\ page = ref.digest /\ page.t = "page" /\ page.level = ref.level
    /\ "min" \in DOMAIN ref => page.min = ref.min /\ page.max = ref.max

RequirePage(r, ref) == Require(r, PageNamed(r.got[1], ref) /\ PageShapeOk(r.got[1]))

\* What read_lookup_page and read_full_page do up to the match on the page's kind: w.r.got
\* is the page.
ReadPage(w, e, ref) ==
    LET first == [Requires(w, /\ Cardinality(w.visited) < w.r.limits.pages
                              /\ ref.offset \notin w.visited)
                    EXCEPT !.visited = @ \cup {ref.offset}]
    IN  [(IF ref.offset \in w.known THEN first ELSE RegisterPageRange(first, e, ref.offset))
            EXCEPT !.r = RequirePage(ReadVec(@, ref.offset, 1), ref)]

RegisterChildren(w, e, page) ==
    FoldLeft(LAMBDA v, i : RegisterPageRange(v, e, page.entries[i].offset), w,
             [i \in DOMAIN page.entries |-> i])

\* Mutant: the last identifier of a child is looked for in the next one.
CoversAllButLast(child, id) == child.min <= id /\ id < child.max

\* Whether the page under a reference holds the identifier, if any does.
Covers(child, id) == child.min <= id /\ id <= child.max

LookIn(read, e, id) ==
    LET page == read.r.got[1]
        hits == IF page.level = 0 THEN {i \in DOMAIN page.entries : page.entries[i].id = id}
                ELSE {i \in DOMAIN page.entries : Covers(page.entries[i], id)}
    IN  IF read.r.st # "ok" THEN [read EXCEPT !.stack = <<>>]
        ELSE IF page.level = 0
        THEN [read EXCEPT !.stack = <<>>, !.locators = SetToSeq({page.entries[i] : i \in hits})]
        ELSE [RegisterChildren(read, e, page) EXCEPT
                !.stack = SetToSeq({Child(page, i) : i \in hits})]

\* read_lookup_page: the stack holds the child the identifier falls in, locators its entry;
\* neither is there when it is absent.
ReadLookupPage(w, e, ref, id) == LookIn(ReadPage(w, e, ref), e, id)

\* read_lookup_page_async
ReadLookupPageAsync(w, e, ref, id) == ReadLookupPage(w, e, ref, id)

RecordHashed(r, header, l) == Require(r, header \o r.got = l.digest)

HashRecord(r, l) ==
    IF r.st # "ok" THEN r ELSE RecordHashed(HashRange(r, l.offset + 1, l.len - 1), r.got, l)

RequireHeader(r, l) == Require(r, HeaderMatches(r.got[1], l))

\* validate_lookup_object
ValidateLookupObject(r, e, known, l) ==
    HashRecord(RequireHeader(
                   ReadVec(Require(r, /\ l.offset >= 1 /\ l.offset + l.len <= e.footer.snapshot
                                      /\ RecordUnits(l) \cap known = {}), l.offset, 1), l), l)

\* validate_lookup_object_async and validate_full_object_async.
ValidateLookupObjectAsync(r, e, known, l) == ValidateLookupObject(r, e, known, l)
ValidateFullObjectAsync(r, e, known, l) == ValidateLookupObject(r, e, known, l)

LookupObject(r, e, known, l) ==
    IF r.by = "lookup" THEN ValidateLookupObjectAsync(r, e, known, l)
    ELSE ValidateLookupObject(r, e, known, l)
FullObject(r, e, known, l) ==
    IF r.by = "full" THEN ValidateFullObjectAsync(r, e, known, l)
    ELSE ValidateLookupObject(r, e, known, l)

RECURSIVE Descend(_, _, _)
Descend(w, e, id) ==
    IF w.r.st # "ok" \/ w.stack = <<>> THEN w
    ELSE Descend(IF w.r.by = "sync" THEN ReadLookupPage(w, e, w.stack[1], id)
                 ELSE ReadLookupPageAsync(w, e, w.stack[1], id), e, id)

\* The record that was found, or that there is none.
Answer(w, e) ==
    [r |-> IF w.r.st = "ok" /\ w.locators # <<>>
           THEN LookupObject(w.r, e, w.known, w.locators[1]) ELSE w.r,
     answer |-> [sequence |-> e.footer.sequence, snapshot |-> e.footer.digest,
                 found |-> w.locators]]

LookupBelow(e, id) ==
    IF e.r.st # "ok" THEN [r |-> e.r] ELSE Answer(Descend(Walk(e), e, id), e)

\* lookup_at with a new reader.
LookupWith(r, id) == LookupBelow(LookupEnvelope(Require(r, id # 0)), id)

LookupAt(src, id, limits) == LookupWith(NewReader(src, Len(src[1].content), limits), id)

Unfold(read, e) ==
    LET page == read.r.got[1]
        leaf == Requires(read, Len(read.locators) + Len(page.entries) <= read.r.limits.objects)
        node == Requires(read, Len(read.stack) + Len(page.entries) <= read.r.limits.pages)
    IN  IF read.r.st # "ok" THEN read
        ELSE IF page.level = 0 THEN [leaf EXCEPT !.locators = @ \o page.entries]
        ELSE [RegisterChildren(node, e, page) EXCEPT
                !.stack = @ \o [i \in DOMAIN page.entries |-> Child(page, i)]]

\* read_full_page
ReadFullPage(w, e, ref) == Unfold(ReadPage([w EXCEPT !.stack = Front(@)], e, ref), e)

\* read_full_page_async
ReadFullPageAsync(w, e, ref) == ReadFullPage(w, e, ref)

RECURSIVE WalkAll(_, _)
WalkAll(w, e) ==
    IF w.r.st # "ok" \/ w.stack = <<>> THEN w
    ELSE WalkAll(IF w.r.by \in {"sync", "stable"} THEN ReadFullPage(w, e, Last(w.stack))
                 ELSE ReadFullPageAsync(w, e, Last(w.stack)), e)

\* The footer's count of the pages its commit wrote.
PagesCounted(w, footer) ==
    footer.pages = Cardinality({o \in w.visited : o >= CommitStart(footer)})

SortedLocators(w) == ById(Range(w.locators))

\* validate_source_at in its steps: [r] or [r, report, locators].  The footer is read again
\* and its second reading is used for the pages.
StrictReport(r, w, e, sorted) ==
    IF r.st # "ok" THEN [r |-> r]
    ELSE [r |-> r, locators |-> sorted,
          report |-> Report(e.footer, e.snapshot, Len(sorted), Cardinality(w.visited))]

StrictObjects(w, e, footer, sorted) ==
    StrictReport(FoldLeft(LAMBDA r, l : FullObject(r, e, w.known, l),
                          Require(w.r, /\ PagesCounted(w, footer)
                                       /\ sorted # <<>> /\ Len(sorted) = Len(w.locators)
                                       /\ Disjoint(sorted)),
                          sorted),
                 w, e, sorted)

StrictPages(w, e, footer) ==
    IF w.r.st # "ok" THEN [r |-> w.r] ELSE StrictObjects(w, e, footer, SortedLocators(w))

StrictAgain(e, r) ==
    IF r.st # "ok" THEN [r |-> r]
    ELSE StrictPages(WalkAll(Walk([e EXCEPT !.r = Require(r, r.got[1].t = "footer")]), e), e, r.got[1])

StrictBelow(e) ==
    IF e.r.st # "ok" THEN [r |-> e.r] ELSE StrictAgain(e, ReadVec(e.r, e.r.len - 1, 1))

\* validate_source_at with a new reader.
StrictWith(r) == StrictBelow(FullEnvelope(r))

ValidateSourceAt(src, limits) == StrictWith(NewReader(src, Len(src[1].content), limits))

-----------------------------------------------------------------------------
(* Many prefixes under one budget.                                            *)

\* remaining_source_limits
RemainingLimits(r) == [r.limits EXCEPT !.ops = @ - r.ops, !.units = @ - r.units]

\* Mutant: the length of the whole source is kept.
WholeReader(r, end) ==
    [r EXCEPT !.limits = RemainingLimits(r), !.ops = 0, !.units = 0]

\* PrefixSource: a prefix of the source, with the limits that are left.
PrefixReader(r, end) ==
    [r EXCEPT !.len = end, !.limits = RemainingLimits(r), !.ops = 0, !.units = 0,
              !.st = IF r.st = "ok" /\ end > r.limits.file THEN "format" ELSE r.st]

\* AsyncPrefixStrongVersionSource and AsyncTrackedPrefixStrongVersionSource: the parser's
\* authority ends at the prefix, requests keep the version and the length of the whole.
AsyncPrefixReader(r, end) == PrefixReader(r, end)
AsyncTrackedPrefixReader(r, end) == PrefixReader(r, end)

\* Mutant: a prefix that is refused is not charged.
AddOnSuccess(r, used) ==
    [r EXCEPT !.reads = used.reads, !.st = used.st,
              !.ops = IF used.st = "ok" THEN @ + used.ops ELSE @,
              !.units = IF used.st = "ok" THEN @ + used.units ELSE @]

\* add_source_stats, of what a prefix used whether it was accepted or not.
AddSourceStats(r, used) ==
    [r EXCEPT !.reads = used.reads, !.st = used.st, !.ops = @ + used.ops,
              !.units = @ + used.units]

\* The result of a part, charged to the whole.
Charged(r, part) == [part EXCEPT !.r = AddSourceStats(r, @)]

\* validate_source_prefix
ValidateSourcePrefix(r, end) == Charged(r, StrictWith(PrefixReader(r, end)))

\* validate_async_recovery_prefix
ValidateAsyncRecoveryPrefix(r, end) == Charged(r, StrictWith(AsyncTrackedPrefixReader(r, end)))

\* What validate_source_history_async does with one prefix.
ValidateAsyncHistoryPrefix(r, end) == Charged(r, StrictWith(AsyncPrefixReader(r, end)))

TakeParent(r, footer) ==
    IF r.st = "ok" /\ r.got[1] = footer.digest
    THEN [r |-> r, footer |-> footer, parent |-> r.got[1].parent]
    ELSE [r |-> Require(r, FALSE)]

SnapshotParent(e) ==
    IF e.r.st # "ok" THEN e ELSE TakeParent(ReadInto(e.r, e.footer.snapshot, 1), e.footer)

\* source_footer_and_parent: [r, footer, parent].
FooterAndParent(r, end) ==
    SnapshotParent(TakeFooter(ReadInto(Require(r, end >= 1), end - 1, 1), end))

\* async_history_footer_and_parent, which makes both reads with read_vec: they are of one
\* unit each, so that the first one settles whether the allocation is allowed.
AsyncHistoryFooterAndParent(r, end) ==
    Charged(r, SnapshotParent(TakeFooter(
        ReadVec(Require(AsyncPrefixReader(r, end), end >= 1), end - 1, 1), end)))

\* validate_source_history from the prefix of length end: [r, entries].  expected is <<>> or
\* the sequence and the digest the newer commit names.
RECURSIVE SourceHistoryFrom(_, _, _, _)
SourceHistoryBefore(named, end, entries) ==
    IF named.r.st # "ok" THEN [r |-> named.r]
    ELSE IF named.footer.previous = Absent
    THEN [r |-> Require(named.r, named.footer.sequence = 0 /\ named.parent = ZeroDigest),
          entries |-> entries]
    ELSE IF named.footer.sequence = 0 \/ named.footer.previous >= end - 1
    THEN [r |-> Fail(named.r, "format")]
    ELSE SourceHistoryFrom(named.r, named.footer.previous + 1, entries,
                           <<named.footer.sequence - 1, named.parent>>)

SourceHistoryLinked(strict, end, entries, expected) ==
    IF strict.r.st # "ok" THEN [r |-> strict.r]
    ELSE IF expected \notin {<<>>, <<strict.report.sequence, strict.report.snapshot>>}
    THEN [r |-> Fail(strict.r, "format")]
    ELSE SourceHistoryBefore(IF strict.r.by = "sync" THEN FooterAndParent(strict.r, end)
                             ELSE AsyncHistoryFooterAndParent(strict.r, end),
                             end, Append(entries, Entry(end - 1, strict.report)))

SourceHistoryFrom(r, end, entries, expected) ==
    IF Len(entries) >= r.limits.history THEN [r |-> Fail(r, "format")]
    ELSE SourceHistoryLinked(IF r.by = "sync" THEN ValidateSourcePrefix(r, end)
                             ELSE ValidateAsyncHistoryPrefix(r, end), end, entries, expected)

\* An operation over many prefixes itself asks only for the length.
Opened(src, limits) == [NewReader(src, Len(src[1].content), limits) EXCEPT !.st = "ok"]

ValidateSourceHistory(src, limits) ==
    SourceHistoryFrom(Opened(src, limits), Len(src[1].content), <<>>, <<>>)

\* The loop of scan_source_recovery: a footer that the end of the file cuts off is
\* counted and not read; only a format error moves on to the next footer.
RECURSIVE SourceCandidates(_, _, _, _)
SourceAttempted(strict, offsets, complete, found) ==
    LET next == [strict.r EXCEPT !.st = "ok"]
    IN  IF strict.r.st = "format" THEN SourceCandidates(next, Tail(offsets), complete, found)
        ELSE IF strict.r.st # "ok" THEN [r |-> strict.r]
        ELSE IF Len(found.candidates) >= next.limits.candidates
        THEN [r |-> next, found |-> [found EXCEPT !.candidatesTruncated = TRUE]]
        ELSE SourceCandidates(next, Tail(offsets), complete,
                [found EXCEPT !.candidates = Append(@, Entry(Head(offsets), strict.report))])

SourceCandidates(r, offsets, complete, found) ==
    LET tried == [found EXCEPT !.attempted = @ + 1]
    IN  IF offsets = <<>> THEN [r |-> r, found |-> found]
        ELSE IF found.attempted >= r.limits.attempts
        THEN [r |-> r, found |-> [found EXCEPT !.attemptsTruncated = TRUE]]
        ELSE IF Head(offsets) \notin complete
        THEN SourceCandidates(r, Tail(offsets), complete, tried)
        ELSE SourceAttempted(IF r.by = "sync" THEN ValidateSourcePrefix(r, Head(offsets) + 1)
                             ELSE ValidateAsyncRecoveryPrefix(r, Head(offsets) + 1),
                             offsets, complete, tried)

ScanSuffix(suffix, start) ==
    IF suffix.st # "ok" THEN [r |-> suffix]
    ELSE SourceCandidates(suffix, MagicOffsets(suffix.got, start),
                          {start + i - 1 : i \in {j \in DOMAIN suffix.got :
                                                    suffix.got[j].t = "footer"}},
                          NothingFound)

\* scan_source_recovery, of a reader that has the whole source before it.
ScanWith(r) ==
    LET len == Least(r.len, r.limits.scan)
    IN  ScanSuffix(ReadInto(Require(r, len <= r.limits.alloc), r.len - len, len), r.len - len)

ScanSourceRecovery(src, limits) == ScanWith(Opened(src, limits))

-----------------------------------------------------------------------------
(* Over one strong version.                                                   *)

LookupAtAsync(src, id, limits) == LookupWith(NewAsyncReader(src, limits), id)

ValidateSourceAtAsync(src, limits) == StrictWith(NewAsyncFullReader(src, limits))

\* validate_source_history_async: the metadata of the whole are asked for once.
ValidateSourceHistoryAsync(src, limits) ==
    SourceHistoryFrom([NewAsyncFullReader(src, limits) EXCEPT !.st = "ok"],
                      Len(src[1].content), <<>>, <<>>)

\* scan_source_recovery_async, which refuses a file that is too large before it scans.
ScanSourceRecoveryAsync(src, limits) == ScanWith(NewAsyncFullReader(src, limits))

-----------------------------------------------------------------------------
(* Inventories, and what is rewritten from them.                              *)

\* inventory_source_at with a new reader: validate_source_at again, between two looks at
\* the version, the first of which is behind the reader.
InventoryWith(r) == [StrictWith(r) EXCEPT !.r = CheckVersion(@)]

InventorySourceAt(src, limits) == InventoryWith(NewReader(src, Len(src[1].content), limits))

\* validated_source_inventory: is the source still what strict validation saw?
SameCommit(e, strict) ==
    /\ e.footer.sequence = strict.report.sequence /\ e.footer.digest = strict.report.snapshot
    /\ e.footer.commit = strict.report.commit /\ e.snapshot.root.level = strict.report.level

\* validated_source_inventory in its steps.
InventoryCounted(strict, w, sorted) ==
    IF w.r.st # "ok" THEN [r |-> AddSourceStats(strict.r, w.r)]
    ELSE IF ~(/\ Len(w.locators) = strict.report.objects
              /\ Cardinality(w.visited) = strict.report.pages
              /\ Len(sorted) = Len(w.locators))
    THEN [r |-> Fail(AddSourceStats(strict.r, w.r), "io")]
    ELSE [r |-> AddSourceStats(strict.r, w.r), report |-> strict.report, locators |-> sorted]

InventoryWalked(strict, w) == InventoryCounted(strict, w, SortedLocators(w))

InventoryBelow(strict, e) ==
    IF e.r.st # "ok" THEN [r |-> AddSourceStats(strict.r, e.r)]
    ELSE IF ~SameCommit(e, strict) THEN [r |-> Fail(AddSourceStats(strict.r, e.r), "io")]
    ELSE InventoryWalked(strict, WalkAll(Walk(e), e))

InventoryAgain(strict) ==
    IF strict.r.st # "ok" THEN [r |-> strict.r]
    ELSE InventoryBelow(strict, ReadLookupEnvelope(PrefixReader(strict.r, strict.r.len)))

\* validated_source_inventory: strict validation, then a second walk for the locators.
ValidatedSourceInventory(r) == InventoryAgain(StrictWith(r))

\* source_input_from_locator: [r, objects] with one object more.
TakeInput(r, objects, l) ==
    IF r.st = "ok" /\ HeaderMatches(r.got[1], l) /\ r.got = l.digest
    THEN [r |-> r, objects |-> objects \cup
            {[id |-> l.id, kind |-> l.kind, payload |-> Tail(r.got)]}]
    ELSE [r |-> Require(r, FALSE), objects |-> {}]

SourceInputFrom(made, l) ==
    TakeInput(ReadInto(Require(made.r, l.len >= 1 /\ l.len <= made.r.limits.alloc), l.offset, l.len),
              made.objects, l)

SnapshotInputs(r, inventory, expected) ==
    IF inventory.r.st # "ok" THEN [r |-> AddSourceStats(r, inventory.r), objects |-> {}]
    ELSE IF inventory.report # expected
    THEN [r |-> Fail(AddSourceStats(r, inventory.r), "io"), objects |-> {}]
    ELSE Charged(r, FoldLeft(SourceInputFrom, [r |-> inventory.r, objects |-> {}],
                             inventory.locators))

\* source_snapshot_inputs: the objects of the prefix whose report is expected.
SourceSnapshotInputs(r, end, expected) ==
    SnapshotInputs(r, ValidatedSourceInventory(PrefixReader(r, end)), expected)

\* history_transition_operations: [puts, deletes]; two states that are the same are told
\* apart by putting the first object again.
TransitionOperations(previous, next) ==
    LET changed == next \ previous
        gone    == Ids(previous) \ Ids(next)
    IN  [puts    |-> IF changed = {} /\ gone = {} THEN {Head(ById(next))} ELSE changed,
         deletes |-> gone]

\* What is written behind out when the objects become those of the next snapshot.
GrownBy(out, objects, next, limits) ==
    LET ops == TransitionOperations(objects, next)
    IN  IF out = <<>> THEN BuildGenesis(next)
        ELSE AppendBatch(out, Range(ValidateInternal(out, limits).locators), ops.puts, ops.deletes)

\* The loop of rewrite_source_selected_history over the sequences that are left.
RECURSIVE RewriteSelected(_, _, _, _)
RewriteGrown(made, out, history, selected, limits) ==
    IF Len(out) > limits.output THEN [made EXCEPT !.r = Fail(@, "limit")]
    ELSE RewriteSelected([made EXCEPT !.out = out], history, selected, limits)

RewriteFromInputs(made, inputs, history, selected, limits) ==
    IF inputs.r.st # "ok" THEN [made EXCEPT !.r = inputs.r]
    ELSE RewriteGrown([made EXCEPT !.r = inputs.r, !.objects = inputs.objects],
                      GrownBy(made.out, made.objects, inputs.objects, limits),
                      history, selected, limits)

RewriteSelected(made, history, selected, limits) ==
    LET matches == SelectSeq(history, LAMBDA x : x.report.sequence = Head(selected))
    IN  IF selected = <<>> THEN made
        ELSE IF matches = <<>> THEN [made EXCEPT !.r = Fail(@, "format")]
        ELSE RewriteFromInputs(made,
                SourceSnapshotInputs(made.r, matches[1].footer + 1, matches[1].report),
                history, Tail(selected), limits)

\* The validation of the new file, which has n snapshots.
HistoryWritten(made, written, n) ==
    IF made.r.st # "ok" THEN [r |-> made.r]
    ELSE IF written.st = "ok" /\ Len(written.entries) = n THEN [r |-> made.r, out |-> made.out]
    ELSE [r |-> Fail(made.r, "format")]

HistoryMade(made, n, limits) == HistoryWritten(made, ValidateHistory(made.out, limits), n)

RewriteHistoryFrom(history, selected, limits) ==
    IF history.r.st # "ok" THEN [r |-> history.r]
    ELSE HistoryMade(RewriteSelected([r |-> history.r, objects |-> {}, out |-> <<>>],
                                     history.entries, selected, limits),
                     Len(selected), limits)

\* rewrite_source_selected_history: [r] or [r, out].  The caller's sequences are put in
\* order; a repeated one is refused.
RewriteSourceSelectedHistory(src, sequences, limits) ==
    IF Len(sequences) \notin 1..limits.history \/ ~IsInjective(sequences)
    THEN [r |-> Fail(Opened(src, limits), "format")]
    ELSE RewriteHistoryFrom(ValidateSourceHistory(src, limits), SortSeq(sequences, <), limits)
=============================================================================
