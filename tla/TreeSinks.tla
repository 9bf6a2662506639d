------------------------------ MODULE TreeSinks ------------------------------
(***************************************************************************)
(* The writers that stream a file into a sequential sink                    *)
(* (streaming_genesis.rs, source_streaming_genesis.rs,                      *)
(* active_file_streaming.rs, and the *_to_sink.rs files over a versioned    *)
(* source): sizes and shape are worked out before the first write, objects  *)
(* are written as they are read, the commit is hashed on the way.           *)
(*                                                                          *)
(* A stream is [r, out, hashed, room]: the reader its payloads come from,   *)
(* whose st is the writer's result as well, what the sink holds, what the   *)
(* commit hasher was given, and how many units the sink takes before it     *)
(* fails.                                                                   *)
(***************************************************************************)
EXTENDS TreeSources

Stream(r, room) == [r |-> r, out |-> <<>>, hashed |-> <<>>, room |-> room]

\* For writers that have their input in memory, where nothing changes.
InMemory(data, limits) == Opened(<<[from |-> 1, content |-> data]>>, limits)

\* StreamingSink::write_bytes
WriteBytes(s, units, included) ==
    LET fits == SubSeq(units, 1, Least(Len(units), s.room - Len(s.out)))
    IN  IF s.r.st # "ok" THEN s
        ELSE [s EXCEPT !.out = @ \o fits, !.hashed = IF included THEN @ \o fits ELSE @,
                       !.r = IF fits = units THEN @ ELSE Fail(@, "output")]

WriteCommitBytes(s, units) == WriteBytes(s, units, TRUE)
WriteFooter(s, footer) == WriteBytes(s, <<footer>>, FALSE)

\* StreamingSink::write_page, over a level of pages: [s, level].
WritePages(s, pages) ==
    FoldLeft(LAMBDA made, page : [s |-> WriteCommitBytes(made.s, <<page>>),
                                  level |-> Append(made.level, ReferenceOf(made.s.out, page))],
             [s |-> s, level |-> <<>>], pages)

\* streaming_tree_shape: [ok, pages, level] of the tree over n objects, before it exists.
RECURSIVE ShapeAbove(_, _, _, _)
ShapeAbove(nodes, pages, level, limits) ==
    LET parents == Len(GroupSizes(nodes, InternalFanout))
    IN  IF nodes <= 1 THEN [ok |-> TRUE, pages |-> pages, level |-> level]
        ELSE IF level + 1 > limits.depth \/ pages + parents > limits.pages
        THEN [ok |-> FALSE, pages |-> pages, level |-> level]
        ELSE ShapeAbove(parents, pages + parents, level + 1, limits)

StreamingTreeShape(n, limits) ==
    LET leaves == Len(GroupSizes(n, LeafCapacity))
    IN  ShapeAbove(leaves, leaves, 0, limits)

\* The length of a genesis of objects whose payloads have these lengths.
ExpectedLength(lengths, pages) ==
    1 + FoldLeft(LAMBDA sum, len : sum + 1 + len, 0, lengths) + pages + 2

SizesAllowed(lengths, limits) ==
    /\ lengths # <<>> /\ Len(lengths) <= limits.objects
    /\ LET shape == StreamingTreeShape(Len(lengths), limits)
           expected == ExpectedLength(lengths, shape.pages)
       IN  shape.ok /\ expected <= limits.output /\ expected <= limits.file

\* preflight_streaming_genesis
PreflightGenesis(objects, limits) ==
    /\ GenesisAllowed(objects) /\ \A o \in objects : o.kind # 0
    /\ SizesAllowed([i \in DOMAIN ById(objects) |-> Len(ById(objects)[i].payload)], limits)

\* write_streaming_object: made is [s, locators].
WriteStreamingObject(made, o) ==
    [s |-> WriteCommitBytes(made.s, ObjectUnits(o)),
     locators |-> Append(made.locators, LocatorOf(made.s.out, o))]

\* write_streaming_tree: [s, root, pages].
RECURSIVE WriteAbove(_, _, _)
WriteAbove(s, level, pages) ==
    LET groups == Grouped(level, GroupSizes(Len(level), InternalFanout))
        made   == WritePages(s, [k \in DOMAIN groups |->
                                    InternalPage(groups[k], level[1].level + 1)])
    IN  IF Len(level) = 1 THEN [s |-> s, root |-> level[1], pages |-> pages]
        ELSE WriteAbove(made.s, made.level, pages + Len(groups))

WriteStreamingTree(s, locators) ==
    LET groups == Grouped(locators, GroupSizes(Len(locators), LeafCapacity))
        made   == WritePages(s, [k \in DOMAIN groups |-> LeafPage(groups[k])])
    IN  WriteAbove(made.s, made.level, Len(groups))

\* Mutant: the commit hasher is finished before the snapshot is written.
PublicationHashedEarly(s, root, pages) ==
    LET snapshot == SnapshotUnit(0, root, ZeroDigest)
        made     == WriteCommitBytes(s, <<snapshot>>)
    IN  WriteFooter(made, FooterUnit(snapshot, Len(s.out), Absent, pages, s.hashed))

\* write_streaming_publication
WriteStreamingPublication(s, root, pages) ==
    LET snapshot == SnapshotUnit(0, root, ZeroDigest)
        made     == WriteCommitBytes(s, <<snapshot>>)
    IN  WriteFooter(made, FooterUnit(snapshot, Len(s.out), Absent, pages, made.hashed))

\* How every one of these writers ends: the tree, which must have the shape that was
\* expected, the publication, and the length that was expected.
LengthExpected(s, locators, shape) ==
    [s EXCEPT !.r = Require(@, Len(s.out) =
        ExpectedLength([i \in DOMAIN locators |-> locators[i].len - 1], shape.pages))]

FinishTree(tree, locators, shape) ==
    LengthExpected(WriteStreamingPublication(
                       [tree.s EXCEPT !.r = Require(@, /\ tree.pages = shape.pages
                                                       /\ tree.root.level = shape.level)],
                       tree.root, tree.pages),
                   locators, shape)

Finish(made) ==
    IF made.s.r.st # "ok" THEN made.s
    ELSE FinishTree(WriteStreamingTree(made.s, made.locators), made.locators,
                    StreamingTreeShape(Len(made.locators), made.s.r.limits))

\* write_genesis_to
WriteGenesisTo(objects, limits, room) ==
    LET empty   == Stream(InMemory(<<>>, limits), room)
        started == [s |-> WriteCommitBytes(empty, <<HeaderUnit>>), locators |-> <<>>]
    IN  IF ~PreflightGenesis(objects, limits) THEN [empty EXCEPT !.r = Fail(@, "format")]
        ELSE Finish(FoldLeft(WriteStreamingObject, started, ById(objects)))

-----------------------------------------------------------------------------
(* From payloads that are read in parts.                                      *)

CheckSource(s) == [s EXCEPT !.r = CheckVersion(@)]

\* A read of a payload, which is counted and not refused: preflight allowed it.
ReadPayload(r, offset, n) ==
    LET read == ReadOnce([r EXCEPT !.got = <<>>, !.limits.ops = r.ops + 1,
                                   !.limits.units = r.units + n], offset, n)
    IN  [read EXCEPT !.limits = r.limits]

\* n units of the source at offset, read and written piece by piece.
RECURSIVE CopyPieces(_, _, _)
CopyPieces(s, offset, n) ==
    LET take == Least(n, s.r.limits.request)
        r    == ReadPayload(s.r, offset, take)
    IN  IF s.r.st # "ok" \/ n = 0 THEN s
        ELSE CopyPieces(WriteCommitBytes([s EXCEPT !.r = r], r.got), offset + take, n - take)

\* A record whose payload is copied, between two looks at the version.
CopyRecord(s, l) ==
    LET header == [t |-> "object", id |-> l.id, kind |-> l.kind, len |-> l.len - 1]
    IN  CheckSource(CopyPieces(WriteCommitBytes(CheckSource(s), <<header>>), l.offset + 1, l.len - 1))

\* The record a stream has now that it had not before.
NewRecord(before, after) == SubSeq(after.out, Len(before.out) + 1, Len(after.out))

CopiedLocator(before, after, l) ==
    [l EXCEPT !.offset = Len(before.out), !.digest = NewRecord(before, after)]

\* active_file_payload_sources: the payloads of a file in memory.
PayloadViews(data, strict) ==
    IF strict.st # "ok" THEN Error
    ELSE [st |-> IF \A l \in Range(strict.locators) : l.len >= 1 /\ l.offset + l.len <= Len(data)
                 THEN "ok" ELSE "format",
          locators |-> strict.locators]

ActiveFilePayloadSources(data, limits) == PayloadViews(data, ValidateCanonical(data, limits))

\* preflight_source_streaming, of payloads that are views of one source.
PreflightSourceStreaming(r, locators) ==
    Require(r, /\ \A l \in Range(locators) :
                    l.id # 0 /\ l.kind # 0 /\ Least(l.len - 1, r.limits.request) <= r.limits.alloc
               /\ SizesAllowed([i \in DOMAIN locators |-> locators[i].len - 1], r.limits))

\* write_source_streaming_object
RecordStreamed(made, s, l) ==
    [s |-> s, locators |-> Append(made.locators, CopiedLocator(made.s, s, l))]

WriteSourceStreamingObject(made, l) == RecordStreamed(made, CopyRecord(made.s, l), l)

\* write_genesis_sources_to, once the header is written.
WriteSourcesBehind(s, locators) ==
    IF s.r.st # "ok" THEN s
    ELSE Finish(FoldLeft(WriteSourceStreamingObject, [s |-> s, locators |-> <<>>], locators))

WriteGenesisSourcesTo(r, locators, room) ==
    WriteSourcesBehind(
        WriteCommitBytes(Stream(PreflightSourceStreaming(r, locators), room), <<HeaderUnit>>), locators)

\* rewrite_active_file_to
RewriteViewsTo(payloads, r, room) ==
    IF payloads.st # "ok" THEN Stream(Fail(r, "format"), room)
    ELSE WriteGenesisSourcesTo(r, payloads.locators, room)

RewriteActiveFileTo(data, limits, room) ==
    RewriteViewsTo(ActiveFilePayloadSources(data, limits), InMemory(data, limits), room)

\* rewrite_selected_active_file_to
RewriteSelectedViewsTo(payloads, ids, r, room) ==
    LET selected == SelectSeq(payloads.locators, LAMBDA l : l.id \in Range(ids))
    IN  IF Len(ids) \notin 1..r.limits.objects \/ ~IsInjective(ids) \/ payloads.st # "ok"
        THEN Stream(Fail(r, "format"), room)
        ELSE IF Len(selected) # Len(ids) THEN Stream(Fail(r, "missing"), room)
        ELSE WriteGenesisSourcesTo(r, selected, room)

RewriteSelectedActiveFileTo(data, ids, limits, room) ==
    RewriteSelectedViewsTo(ActiveFilePayloadSources(data, limits), ids, InMemory(data, limits), room)

-----------------------------------------------------------------------------
(* From a versioned source.                                                   *)

PayloadReads(l, request) == (l.len - 1 + request - 1) \div request

\* What is still to be read of the payloads: [ops, units].
PayloadBudget(locators, limits) ==
    FoldLeft(LAMBDA sum, l : [ops |-> sum.ops + PayloadReads(l, limits.request),
                              units |-> sum.units + l.len - 1],
             [ops |-> 0, units |-> 0], locators)

\* preflight_source_to_sink
PreflightSourceToSink(r, locators) ==
    LET more    == PayloadBudget(locators, r.limits)
        counted == Require(r, /\ r.limits.request <= r.limits.alloc
                              /\ \A l \in Range(locators) : l.id # 0 /\ l.kind # 0)
        budget  == IF counted.st = "ok" /\ (r.units + more.units > r.limits.units
                                            \/ r.ops + more.ops > r.limits.ops)
                   THEN Fail(counted, "limit") ELSE counted
    IN  Require(budget, SizesAllowed([i \in DOMAIN locators |-> locators[i].len - 1], r.limits))

\* write_inventory_object
RecordCopied(made, s, l) ==
    [s |-> [s EXCEPT !.r = Require(@, NewRecord(made.s, s) = l.digest)],
     locators |-> Append(made.locators, CopiedLocator(made.s, s, l))]

WriteInventoryObject(made, l) == RecordCopied(made, CopyRecord(made.s, l), l)

\* The header and the records of an inventory: [s, locators].
CopyInventory(r, locators, room) ==
    FoldLeft(WriteInventoryObject,
             [s |-> WriteCommitBytes(CheckSource(Stream(r, room)), <<HeaderUnit>>), locators |-> <<>>],
             locators)

\* Mutant: the version is looked at for the last time when the file is complete.
RewriteThenCheck(inventory, room) ==
    IF inventory.r.st # "ok" THEN Stream(inventory.r, room)
    ELSE CheckSource(Finish(CopyInventory(PreflightSourceToSink(inventory.r, inventory.locators),
                                          inventory.locators, room)))

\* The payloads are read with what preflight counted, no more and no less.
ReadAsCounted(s, r, more) ==
    [s EXCEPT !.r = Require(@, @.units = r.units + more.units /\ @.ops = r.ops + more.ops)]

RewriteCounted(r, locators, room) ==
    Finish([CopyInventory(r, locators, room) EXCEPT !.s =
                ReadAsCounted(CheckSource(@), r, PayloadBudget(locators, r.limits))])

\* rewrite_selected_inventory_to: inventory is [r] or [r, locators].
RewriteSelectedInventoryTo(inventory, room) ==
    IF inventory.r.st # "ok" THEN Stream(inventory.r, room)
    ELSE RewriteCounted(PreflightSourceToSink(inventory.r, inventory.locators),
                        inventory.locators, room)

\* rewrite_versioned_source_to, which repeats it for all that is active.
RewriteVersionedSourceWith(r, room) == RewriteSelectedInventoryTo(InventoryWith(r), room)

RewriteVersionedSourceTo(src, limits, room) ==
    RewriteVersionedSourceWith(NewReader(src, Len(src[1].content), limits), room)

\* selected_source_inventory
SelectedSourceInventory(inventory, ids, limits) ==
    LET chosen == SelectSeq(inventory.locators, LAMBDA l : l.id \in Range(ids))
    IN  IF inventory.r.st # "ok" THEN [r |-> inventory.r]
        ELSE [r |-> Require(inventory.r, /\ Len(ids) \in 1..limits.objects /\ IsInjective(ids)
                                         /\ 0 \notin Range(ids) /\ Len(chosen) = Len(ids)),
              locators |-> chosen]

\* rewrite_versioned_source_selected_to
RewriteVersionedSourceSelectedWith(r, ids, room) ==
    RewriteSelectedInventoryTo(SelectedSourceInventory(InventoryWith(r), ids, r.limits), room)

RewriteVersionedSourceSelectedTo(src, ids, limits, room) ==
    RewriteVersionedSourceSelectedWith(NewReader(src, Len(src[1].content), limits), ids, room)

\* VersionLockedPrefix, at the first look at the version.
VersionLockedPrefix(r, end) == CheckVersion(PrefixReader(r, end))

\* rewrite_versioned_source_sequence_to, with the way the prefix is copied.  That the copy
\* is of the selected report is checked when the output is written.
SequenceChecked(made, r, same) ==
    [made EXCEPT !.r = IF @.st # "ok" THEN AddSourceStats(r, @)
                       ELSE Require(AddSourceStats(r, @), same)]

SequenceCopied(prefix, r, entry, room, Copy(_, _)) ==
    SequenceChecked(Copy(prefix, room), r, InventoryWith(prefix).report = entry.report)

SequenceFrom(r, entries, sequence, room, Copy(_, _)) ==
    LET matches == SelectSeq(entries, LAMBDA x : x.report.sequence = sequence)
    IN  IF r.st # "ok" THEN Stream(r, room)
        ELSE IF matches = <<>> THEN Stream(Fail(r, "missing"), room)
        ELSE SequenceCopied(VersionLockedPrefix(r, matches[1].footer + 1), r, matches[1], room, Copy)

SequenceIn(history, sequence, room, Copy(_, _)) ==
    SequenceFrom(CheckVersion(history.r), history.entries, sequence, room, Copy)

SequenceTo(src, sequence, limits, room, Copy(_, _)) ==
    SequenceIn(ValidateSourceHistory(src, limits), sequence, room, Copy)

RewriteVersionedSourceSequenceTo(src, sequence, limits, room) ==
    SequenceTo(src, sequence, limits, room, RewriteVersionedSourceWith)

\* rewrite_versioned_source_sequence_selected_to
RewriteVersionedSourceSequenceSelectedTo(src, sequence, ids, limits, room) ==
    SequenceTo(src, sequence, limits, room,
               LAMBDA r, n : RewriteVersionedSourceSelectedWith(r, ids, n))

\* rewrite_versioned_source_selected_history_to: the new history is made, and the version
\* looked at again, before the first write.
HistoryStreamed(made, s) == IF s.r.st # "ok" THEN s ELSE WriteBytes(s, made.out, FALSE)

HistoryTo(made, room) == HistoryStreamed(made, Stream(CheckVersion(made.r), room))

RewriteVersionedSourceSelectedHistoryTo(src, sequences, limits, room) ==
    HistoryTo(RewriteSourceSelectedHistory(src, sequences, limits), room)

\* rewrite_versioned_source_selected_history_to_with_owned_output_cap
RewriteSelectedHistoryWithOwnedOutputCap(src, sequences, limits, cap, room) ==
    RewriteVersionedSourceSelectedHistoryTo(src, sequences,
        [limits EXCEPT !.output = Least(@, cap)], room)
=============================================================================
