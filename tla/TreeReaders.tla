----------------------------- MODULE TreeReaders -----------------------------
(***************************************************************************)
(* The readers of an immutable-successor file in memory (part2.rs, part3.rs,*)
(* history.rs) and through a source that is read in bounded parts           *)
(* (source.rs, source_full.rs, source_inventory.rs,                         *)
(* source_history_inventory.rs and the conditional_async_source files).     *)
(*                                                                          *)
(* limits is [file, output, pages, depth, objects, alloc, history, scan,    *)
(* attempts, candidates, ops, units, request]: ImmutableLimits and          *)
(* ImmutableSourceLimits, in units.  hash_block_bytes is request; the       *)
(* allocations bounded by alloc are those of the buffers that are read.     *)
(***************************************************************************)
EXTENDS TreeFile

Error == [st |-> "format"]

\* FILE_HEADER_LEN + OBJECT_HEADER_LEN + PAGE_SIZE + SNAPSHOT_LEN + FOOTER_LEN
MinimumLength == 5

Ascending(s, Low(_), High(_)) == \A i \in 1..(Len(s) - 1) : High(s[i]) < Low(s[i + 1])

\* A page's own bounds, counts and order, which every reader checks.
PageShapeOk(page) ==
    /\ page.entries # <<>>
    /\ IF page.level = 0
       THEN /\ Len(page.entries) <= LeafCapacity
            /\ \A i \in DOMAIN page.entries : page.entries[i].id # 0 /\ page.entries[i].kind # 0
            /\ Ascending(page.entries, LAMBDA e : e.id, LAMBDA e : e.id)
            /\ Head(page.entries).id = page.min /\ Last(page.entries).id = page.max
       ELSE /\ Len(page.entries) <= InternalFanout
            /\ \A i \in DOMAIN page.entries : page.entries[i].min <= page.entries[i].max
            /\ Ascending(page.entries, LAMBDA e : e.min, LAMBDA e : e.max)
            /\ Head(page.entries).min = page.min /\ Last(page.entries).max = page.max

\* The references of an internal page.
Child(page, i) == [page.entries[i] EXCEPT !.level = page.level - 1]

RecordUnits(l) == l.offset..(l.offset + l.len - 1)

\* The header of an object record and the locator agree.
HeaderMatches(header, l) ==
    /\ header.t = "object" /\ header.kind # 0 /\ header.id # 0
    /\ 1 + header.len = l.len /\ header.id = l.id /\ header.kind = l.kind

\* ImmutableReport
Report(footer, snapshot, objects, pages) ==
    [sequence |-> footer.sequence, objects |-> objects, pages |-> pages,
     level |-> snapshot.root.level, snapshot |-> footer.digest, commit |-> footer.commit]

CommitStart(footer) == IF footer.previous = Absent THEN 0 ELSE footer.previous + 1

-----------------------------------------------------------------------------
(* In memory.                                                                 *)

\* parse_page over the stack of pages still to visit; the offsets in structural are
\* those of the pages visited, the snapshot and the footer.
RECURSIVE ParsePages(_, _, _, _)
ParsePages(data, limits, w, snapshotAt) ==
    IF ~w.ok \/ w.stack = <<>> THEN w
    ELSE LET ref  == Last(w.stack)
             rest == Front(w.stack)
             page == At(data, ref.offset)
             ok   == /\ ref.offset >= 1 /\ ref.offset + 1 <= snapshotAt
                     /\ ref.offset \notin w.structural
                     /\ Cardinality(w.seen) < limits.pages
                     /\ page.t = "page" /\ page = ref.digest
                     /\ page.level = ref.level /\ page.min = ref.min /\ page.max = ref.max
                     /\ PageShapeOk(page)
                     /\ IF page.level = 0 THEN Len(w.locators) + Len(page.entries) <= limits.objects
                        ELSE page.level <= limits.depth
         IN  ParsePages(data, limits,
                 IF ~ok THEN [w EXCEPT !.ok = FALSE]
                 ELSE [ok |-> TRUE, seen |-> w.seen \cup {ref.offset},
                       structural |-> w.structural \cup {ref.offset},
                       stack |-> IF page.level = 0 THEN rest
                                 ELSE rest \o Reverse([i \in DOMAIN page.entries |->
                                                          Child(page, i)]),
                       locators |-> IF page.level = 0 THEN w.locators \o page.entries
                                    ELSE w.locators],
                 snapshotAt)

\* The linkage of a commit with the one before: genesis linkage, previous footer, parent
\* linkage.
ParentLinked(data, footer, snapshot) ==
    IF footer.previous = Absent
    THEN footer.sequence = 0 /\ snapshot.parent = ZeroDigest
    ELSE /\ footer.previous + 1 <= footer.snapshot
         /\ LET previous == At(data, footer.previous)
            IN  /\ previous.t = "footer" /\ footer.sequence = previous.sequence + 1
                /\ previous.digest = snapshot.parent

\* The commit at the exact end of data: its footer, snapshot, parent and digest, and the
\* root page's level and range.
CommitIntact(data, limits) ==
    /\ Len(data) <= limits.file /\ Len(data) >= MinimumLength
    /\ data[1] = HeaderUnit
    /\ LET end    == Len(data) - 1
           footer == At(data, end)
       IN  /\ footer.t = "footer" /\ footer.snapshot + 1 = end
           /\ LET snapshot == At(data, footer.snapshot)
                  start    == CommitStart(footer)
              IN  /\ snapshot = footer.digest /\ snapshot.t = "snapshot"
                  /\ snapshot.sequence = footer.sequence
                  /\ ParentLinked(data, footer, snapshot)
                  /\ footer.commit = [body |-> Slice(data, start, end - start),
                                      by |-> FooterSemantics(footer)]
                  /\ snapshot.root.level <= limits.depth
                  /\ At(data, snapshot.root.offset).t = "page"

\* Mutant: an object's bytes are not hashed.
UnhashedRecord(data, l, structural, snapshotAt) ==
    /\ l.offset >= 1 /\ l.offset + l.len <= snapshotAt
    /\ RecordUnits(l) \cap structural = {}
    /\ HeaderMatches(At(data, l.offset), l)

\* The checks of validate_internal on one record.
RecordIntact(data, l, structural, snapshotAt) ==
    /\ l.offset >= 1 /\ l.offset + l.len <= snapshotAt
    /\ RecordUnits(l) \cap structural = {}
    /\ HeaderMatches(At(data, l.offset), l)
    /\ Slice(data, l.offset, l.len) = l.digest

Disjoint(locators) ==
    \A i, j \in DOMAIN locators :
        i # j => RecordUnits(locators[i]) \cap RecordUnits(locators[j]) = {}

OrderedIds(locators) ==
    locators # <<>> /\ Ascending(locators, LAMBDA l : l.id, LAMBDA l : l.id)

\* What validate_internal wants of the tree the walk w saw under the root.
TreeIntact(data, root, w) ==
    /\ w.ok
    /\ Last(data).pages = Cardinality({o \in w.seen : o >= CommitStart(Last(data))})
    /\ OrderedIds(w.locators)
    /\ Head(w.locators).id = root.min /\ Last(w.locators).id = root.max
    /\ \A i \in DOMAIN w.locators :
            RecordIntact(data, w.locators[i], w.structural, Last(data).snapshot)
    /\ Disjoint(w.locators)

Validated(data, root, w) ==
    IF TreeIntact(data, root, w)
    THEN [st |-> "ok", locators |-> w.locators,
          report |-> Report(Last(data), Last(data).digest, Len(w.locators), Cardinality(w.seen))]
    ELSE Error

ValidateBelow(data, limits, root) ==
    Validated(data, root,
              ParsePages(data, limits,
                         [ok |-> TRUE, seen |-> {}, stack |-> <<root>>, locators |-> <<>>,
                          structural |-> {Last(data).snapshot, Len(data) - 1}],
                         Last(data).snapshot))

\* validate_internal: [st, report, locators] or Error.
ValidateInternal(data, limits) ==
    IF ~CommitIntact(data, limits) THEN Error
    ELSE ValidateBelow(data, limits, RootReference(data, Last(data).digest))

\* What validate_canonical_internal and persistent_source_canonical_envelope want of a page.
OccupancyOk(page, isRoot) ==
    LET count == Len(page.entries)
    IN  IF page.level = 0
        THEN count \in 1..LeafCapacity /\ (isRoot \/ count >= Half(LeafCapacity))
        ELSE count <= InternalFanout /\ count >= IF isRoot THEN 2 ELSE Half(InternalFanout)

\* collect_original_mixed_pages: the references of the tree.
RECURSIVE OriginalPages(_, _)
OriginalPages(data, ref) ==
    LET page == At(data, ref.offset)
    IN  {ref} \cup IF ref.level = 0 THEN {}
                   ELSE UNION {OriginalPages(data, Child(page, i)) : i \in DOMAIN page.entries}

Canonical(strict, root, pages) ==
    IF strict.st = "ok" /\ \A p \in pages : OccupancyOk(p.digest, p = root)
    THEN strict @@ [root |-> root, pages |-> pages] ELSE Error

\* validate_canonical_internal: the strict report and the pages, if all are canonical.
ValidateCanonical(data, limits) ==
    LET root == RootReference(data, Last(data).digest)
    IN  Canonical(ValidateInternal(data, limits), root, OriginalPages(data, root))

Entry(footerAt, report) == [footer |-> footerAt, report |-> report]

\* validate_history from the prefix of length end, newest first; strict is what
\* validation made of it.
RECURSIVE HistoryFrom(_, _, _, _)
HistoryBefore(data, limits, end, entries, strict) ==
    LET previous == At(data, end - 1).previous
        more     == Append(entries, Entry(end - 1, strict.report))
    IN  IF strict.st # "ok" THEN Error
        ELSE IF previous = Absent THEN [st |-> "ok", entries |-> more]
        ELSE IF previous + 1 > end - 1 THEN Error
        ELSE HistoryFrom(data, limits, previous + 1, more)

HistoryFrom(data, limits, end, entries) ==
    IF Len(entries) >= limits.history THEN Error
    ELSE HistoryBefore(data, limits, end, entries, ValidateInternal(SubSeq(data, 1, end), limits))

ValidateHistory(data, limits) == HistoryFrom(data, limits, Len(data), <<>>)

\* Mutant: the first offset comes first.
OldestFirst(suffix, start) ==
    SelectSeq([i \in DOMAIN suffix |-> start + i - 1],
              LAMBDA o : HasFooterMagic(suffix[o - start + 1]))

\* The offsets of footer magic in the suffix that is scanned, last first.
MagicOffsets(suffix, start) ==
    Reverse(SelectSeq([i \in DOMAIN suffix |-> start + i - 1],
                      LAMBDA o : HasFooterMagic(suffix[o - start + 1])))

\* scan_recovery_candidates over the offsets that are left; strict is what validation made
\* of the prefix that ends with the first.
RECURSIVE Candidates(_, _, _, _)
Attempted(data, limits, offsets, found, strict) ==
    IF strict.st # "ok" THEN Candidates(data, limits, Tail(offsets), found)
    ELSE IF Len(found.candidates) >= limits.candidates
    THEN [found EXCEPT !.candidatesTruncated = TRUE]
    ELSE Candidates(data, limits, Tail(offsets),
            [found EXCEPT !.candidates = Append(@, Entry(Head(offsets), strict.report))])

Candidates(data, limits, offsets, found) ==
    IF offsets = <<>> THEN found
    ELSE IF found.attempted >= limits.attempts THEN [found EXCEPT !.attemptsTruncated = TRUE]
    ELSE Attempted(data, limits, offsets, [found EXCEPT !.attempted = @ + 1],
                   ValidateInternal(SubSeq(data, 1, Head(offsets) + 1), limits))

NothingFound == [attempted |-> 0, attemptsTruncated |-> FALSE, candidatesTruncated |-> FALSE,
                 candidates |-> <<>>]

Least(a, b) == IF a < b THEN a ELSE b

ScanRecoveryCandidates(data, limits) ==
    LET len == Least(Len(data), limits.scan)
    IN  IF Len(data) > limits.file THEN Error
        ELSE [st |-> "ok", found |->
                Candidates(data, limits,
                           MagicOffsets(Slice(data, Len(data) - len, len), Len(data) - len),
                           NothingFound)]

-----------------------------------------------------------------------------
(* Through a source.  A reader is                                              *)
(*   src     what the source holds: a sequence of [from, content], where       *)
(*           content is what the source's read number from, and those after it *)
(*           until the next, are served from;                                  *)
(*   pinned  the version every read is conditional on, or NoPin;               *)
(*   len     the length the reader believes in;                                *)
(*   limits, ops, units  the limits and what was charged against them;         *)
(*   reads   how many reads were made of the source, looks at its version      *)
(*           among them;                                                       *)
(*   got     what the last read returned;                                      *)
(*   by      which files' parsers it is given to: "sync", "stable" (the same,  *)
(*           over a source that looks at the version around every read),       *)
(*           "lookup" (the asynchronous lookup) or "full" (the other           *)
(*           asynchronous ones);                                               *)
(*   st      "ok", or the class of the error it returns: "format", "limit",    *)
(*           "io", "conditional", "changed" (the version), "missing" (what was *)
(*           asked for), "duplicate" (what was added) or "output" (the sink a  *)
(*           stream is written to).                                            *)
(* A strong version is a token of the content, so the content stands for it.   *)

NoPin == <<>>

ContentAt(src, n) == Last(SelectSeq(src, LAMBDA c : c.from <= n)).content

Fail(r, st) == IF r.st = "ok" THEN [r EXCEPT !.st = st] ELSE r
Require(r, holds) == IF r.st = "ok" /\ ~holds THEN Fail(r, "format") ELSE r

\* Mutant: the version of a response is not compared.
ServedAnything(r, content) == TRUE

\* The answer to one range request: with the pinned version it must be of that version,
\* without it must be long enough.
Served(r, content) == r.pinned = NoPin \/ content = r.pinned

\* strong_version or version_token, asked for again and compared with the first answer.
CheckVersion(r) ==
    LET after == [r EXCEPT !.reads = @ + 1]
    IN  IF r.st # "ok" THEN r
        ELSE IF ContentAt(r.src, r.reads + 1) = r.src[1].content THEN after
        ELSE Fail(after, "changed")

\* PersistentReplacementStableSource::ensure_stable, which other sources have not.
EnsureStable(r) == IF r.by = "stable" THEN CheckVersion(r) ELSE r

\* What the source returns to a read, before which it was looked at or not.
ReadServed(r, offset, n) ==
    LET content == ContentAt(r.src, r.reads + 1)
        after   == [r EXCEPT !.reads = @ + 1]
    IN  IF r.st # "ok" THEN r
        ELSE IF ~Served(r, content) THEN Fail(after, "conditional")
        ELSE IF offset + n > Len(content) THEN Fail(after, "io")
        ELSE [after EXCEPT !.ops = @ + 1, !.units = @ + n, !.got = @ \o Slice(content, offset, n)]

\* One read of the source: read_exact_at, or read_range_if_match_async and the checks of
\* its response.
ReadOnce(r, offset, n) ==
    IF r.st # "ok" THEN r
    ELSE IF offset + n > r.len THEN Fail(r, "format")
    ELSE IF r.ops >= r.limits.ops \/ r.units + n > r.limits.units THEN Fail(r, "limit")
    ELSE EnsureStable(ReadServed(EnsureStable(r), offset, n))

RECURSIVE ReadPieces(_, _, _, _)
ReadPieces(r, offset, n, piece) ==
    IF r.st # "ok" \/ n = 0 THEN r
    ELSE LET take == Least(n, piece)
         IN  ReadPieces(ReadOnce(r, offset, take), offset + take, n - take, piece)

\* SourceReader::read_into, and read_direct: n units into an empty buffer.
ReadInto(r, offset, n) ==
    ReadPieces([Require(r, offset + n <= r.len) EXCEPT !.got = <<>>], offset, n,
               r.limits.request)

\* SourceReader::read_vec
ReadVec(r, offset, n) == ReadInto(Require(r, n <= r.limits.alloc), offset, n)

\* SourceReader::hash_range: got is what was hashed.
HashRange(r, offset, n) ==
    ReadPieces([r EXCEPT !.got = <<>>], offset, n, Least(r.limits.request, r.limits.alloc))

\* SourceReader::new, of a source that is len long.
NewReader(src, len, limits) ==
    [src |-> src, pinned |-> NoPin, len |-> len, limits |-> limits, ops |-> 0, units |-> 0,
     reads |-> 0, got |-> <<>>, by |-> "sync", st |-> IF len > limits.file THEN "format" ELSE "ok"]

\* AsyncSourceReader: metadata_async gives the length and the version every read is then
\* conditional on; read_into, read_vec and hash_range are those of SourceReader.
NewAsyncReader(src, limits) ==
    [NewReader(src, Len(src[1].content), limits) EXCEPT
        !.pinned = src[1].content, !.by = "lookup"]

\* AsyncFullSourceReader, the same again for full validation.
NewAsyncFullReader(src, limits) ==
    [NewReader(src, Len(src[1].content), limits) EXCEPT
        !.pinned = src[1].content, !.by = "full"]
=============================================================================
