----------------------------- MODULE PagedReaders -----------------------------
(***************************************************************************)
(* The readers of a UCOF-EXP-0002 file.  The format is read by five pieces  *)
(* of code that repeat its checks, each in an order of its own:             *)
(*                                                                          *)
(*   exp0002.rs                  validate_strict, of bytes in memory        *)
(*   exp0002_source_strict.rs    validate_strict_at, of a bounded source    *)
(*   exp0002_lookup.rs           lookup_authenticated, of one object        *)
(*   exp0002_source.rs           lookup_authenticated_at                    *)
(*   exp0002_recovery.rs, exp0002_source_recovery.rs, exp0002_source_chain.rs *)
(*                               scans for commits and walks of the chain   *)
(*                                                                          *)
(* Of an error only its presence is kept.  In memory, where nothing counts  *)
(* the work done, counters that only grow are compared with their limits    *)
(* once, at the end.                                                        *)
(***************************************************************************)
EXTENDS PagedFile

Sums(s) == FoldSeq(LAMBDA x, y : x + y, 0, s)

Ceil(n, d) == (n + d - 1) \div d

\* checked_range, to_range, ByteRange::new
InRange(offset, len, total) == offset >= 0 /\ offset + len <= total

\* Snapshot::parse: the identifiers are non-zero and there are not too many.
SnapshotOk(unit, lim) ==
    unit.t = "snapshot" /\ 0 \notin unit.roots /\ Cardinality(unit.roots) <= lim.roots

-----------------------------------------------------------------------------
(* validate_strict *)

\* parse_page with validate_leaf_order and validate_internal_order.
PageOk(unit) ==
    /\ unit.t = "page" /\ unit.entries # <<>>
    /\ Len(unit.entries) <= (IF unit.level = 0 THEN LeafCapacity ELSE InternalCapacity)
    /\ unit.min = Head(unit.entries).min /\ unit.max = Last(unit.entries).max
    /\ \A i \in 1..(Len(unit.entries) - 1) : unit.entries[i].max < unit.entries[i + 1].min
    /\ unit.level > 0 => \A i \in DOMAIN unit.entries : unit.entries[i].level + 1 = unit.level

\* Mutant: a snapshot's parent is compared by its position only.
ParentByPosition(file, at, f, snapshot) ==
    \/ f.previous = Absent /\ f.sequence = 0 /\ f.start = 0
    \/ /\ f.previous # Absent /\ f.previous < at
       /\ f.start = f.previous + 1

\* validate_parent_link; at is the offset of the footer f was read from.
ParentLinkOk(file, at, f, snapshot) ==
    \/ /\ f.previous = Absent
       /\ f.sequence = 0 /\ f.start = 0 /\ snapshot.parent = ZeroDigest
    \/ /\ f.previous # Absent /\ f.previous < at
       /\ LET unit == file[f.previous + 1]
          IN  /\ unit.t = "footer"
              /\ unit.semantics.digest = snapshot.parent
              /\ unit.semantics.sequence + 1 = f.sequence
              /\ f.start = f.previous + 1

\* What a page says of itself against what its parent, or the snapshot, expects.
Refused == [ok |-> FALSE, pages |-> <<>>, entries |-> <<>>]

\* validate_directory: the pages from expected on, each read once; bounded says
\* whether expected has a range.
RECURSIVE WalkPages(_, _, _, _, _, _)
WalkPages(file, expected, bounded, sequence, depth, lim) ==
    LET unit == file[expected.offset + 1]
        below == [i \in DOMAIN unit.entries |->
                    WalkPages(file, unit.entries[i], TRUE, sequence, depth + 1, lim)]
    IN  IF \/ depth > lim.depth \/ ~InRange(expected.offset, 1, Len(file))
           \/ unit # expected.digest \/ ~PageOk(unit) \/ unit.level # expected.level
           \/ bounded /\ (unit.min # expected.min \/ unit.max # expected.max)
           \/ unit.sequence # sequence
        THEN Refused
        ELSE IF unit.level = 0
        THEN [ok |-> TRUE, pages |-> <<expected.offset>>, entries |-> unit.entries]
        ELSE [ok |-> \A i \in DOMAIN below : below[i].ok,
              pages |-> <<expected.offset>> \o FlattenSeq([i \in DOMAIN below |-> below[i].pages]),
              entries |-> FlattenSeq([i \in DOMAIN below |-> below[i].entries])]

DirectoryOk(dir, lim) ==
    /\ dir.ok /\ IsInjective(dir.pages) /\ Len(dir.pages) <= lim.pages
    /\ Len(dir.entries) <= lim.objects
    /\ IsInjective([i \in DOMAIN dir.entries |-> dir.entries[i].min])

Occupied(entry) == entry.offset..(entry.offset + entry.len - 1)

\* validate_objects: every record is apart from the pages, the snapshot, the footer
\* and the other records, and is the one the entry names.
ObjectsOk(file, dir, snapshotAt, lim) ==
    LET taken == Range(dir.pages) \cup {snapshotAt, Len(file) - 1}
        of(i) == dir.entries[i]
    IN  /\ \A i \in DOMAIN dir.entries :
            LET head == file[of(i).offset + 1]
            IN  /\ InRange(of(i).offset, of(i).len, Len(file))
                /\ Occupied(of(i)) \cap taken = {}
                /\ head.t = "object" /\ head.id = of(i).min /\ head.len + 1 = of(i).len
                /\ Slice(file, of(i).offset, of(i).len) = of(i).digest
        /\ \A i, j \in DOMAIN dir.entries : i # j => Occupied(of(i)) \cap Occupied(of(j)) = {}
        /\ Sums([i \in DOMAIN dir.entries |-> of(i).len - 1]) <= lim.payload

ObjectUnitsRead(dir) == Sums([i \in DOMAIN dir.entries |-> dir.entries[i].len])

CommitDigest(file, f) == [commit |-> Slice(file, f.start, f.len), by |-> f]

StrictDirectory(file, lim) ==
    LET snapshot == file[Last(file).semantics.snapshot + 1]
    IN  WalkPages(file, snapshot.directory, FALSE, snapshot.sequence, 1, lim)

\* validate_strict
Strict(file, lim) ==
    LET at == Len(file) - 1
        f  == Last(file).semantics
        snapshot == file[f.snapshot + 1]
        dir == StrictDirectory(file, lim)
    IN  /\ Len(file) <= lim.file /\ Len(file) >= 2
        /\ file[1] = HeaderUnit /\ Last(file).t = "footer"
        /\ f.start + f.len = at /\ f.len <= lim.commit
        /\ f.start <= f.snapshot /\ f.snapshot < at
        /\ snapshot = f.digest /\ SnapshotOk(snapshot, lim)
        /\ snapshot.sequence = f.sequence /\ snapshot.previous = f.previous
        /\ ParentLinkOk(file, at, f, snapshot)
        /\ f.len + Len(dir.pages) + ObjectUnitsRead(dir) <= lim.hashed
        /\ CommitDigest(file, f) = Last(file).digest
        /\ DirectoryOk(dir, lim) /\ ObjectsOk(file, dir, f.snapshot, lim)
        /\ snapshot.roots # {}
        /\ snapshot.roots \subseteq {e.min : e \in Range(dir.entries)}

\* VerifiedExp0002, of a file that Strict accepts.
VerifiedEntries(file, lim) ==
    Sorted(Range(StrictDirectory(file, lim).entries), LAMBDA e : e.min)

VerifiedRoots(file) == file[Last(file).semantics.snapshot + 1].roots

-----------------------------------------------------------------------------
(* validate_strict_at *)

\* validate_limit_configuration
ConfigurationOk(lim) == lim.block > 0 /\ lim.block <= lim.request

\* parse_page of exp0002_source_strict.rs.
SourcePageOk(unit) ==
    /\ unit.t = "page" /\ unit.entries # <<>> /\ unit.min <= unit.max
    /\ \/ /\ unit.level = 0 /\ Len(unit.entries) <= LeafCapacity
       \/ /\ unit.level > 0 /\ Len(unit.entries) <= InternalCapacity
          /\ \A e \in Range(unit.entries) : e.level + 1 = unit.level
    /\ Head(unit.entries).min = unit.min /\ Last(unit.entries).max = unit.max
    /\ \A i \in 2..Len(unit.entries) : unit.entries[i - 1].max < unit.entries[i].min

\* validate_directory of exp0002_source_strict.rs: a stack of expected pages; a page
\* lies apart from the snapshot, the footer and the pages before it.  pages are the
\* pages that were read, the last of which may have been refused.
RECURSIVE StackPages(_, _, _, _, _, _)
StackPages(file, stack, pages, entries, snapshotAt, lim) ==
    IF stack = <<>> THEN [ok |-> TRUE, pages |-> pages, entries |-> entries]
    ELSE LET e == Head(stack)
             unit == file[e.at.offset + 1]
             read == Append(pages, e.at.offset)
             leaf == entries \o unit.entries
         IN  IF \/ e.depth > lim.depth \/ e.at.offset \in Range(pages)
                \/ Len(read) > lim.pages \/ Len(read) > lim.pagereads
                \/ ~InRange(e.at.offset, 1, Len(file))
                \/ e.at.offset \in {snapshotAt, Len(file) - 1}
             THEN [ok |-> FALSE, pages |-> pages, entries |-> entries]
             ELSE IF \/ unit # e.at.digest \/ ~SourcePageOk(unit) \/ unit.level # e.at.level
                     \/ e.depth > 1 /\ (unit.min # e.at.min \/ unit.max # e.at.max)
                     \/ unit.sequence # file[snapshotAt + 1].sequence
                     \/ unit.level = 0 /\ Len(leaf) > lim.objects
             THEN [ok |-> FALSE, pages |-> read, entries |-> entries]
             ELSE IF unit.level = 0
             THEN StackPages(file, Tail(stack), read, leaf, snapshotAt, lim)
             ELSE StackPages(file, [i \in DOMAIN unit.entries |->
                                      [at |-> unit.entries[i], depth |-> e.depth + 1]]
                                   \o Tail(stack),
                             read, entries, snapshotAt, lim)

\* A trail is the reads a validation made and whether it has refused nothing so far;
\* a read has its units and the units that are hashed after it.  What follows a
\* refusal is not read.
Unhashed == <<[units |-> 1, hashed |-> 0]>>
Hashed   == <<[units |-> 1, hashed |-> 1]>>

\* BudgetedSource::hash_range: len units in blocks, hashed at the end.
HashedBlocks(len, lim) ==
    [i \in 1..Ceil(len, lim.block) |->
        LET left == len - (i - 1) * lim.block
        IN  [units  |-> IF left < lim.block THEN left ELSE lim.block,
             hashed |-> IF left <= lim.block THEN len ELSE 0]]

After(trail, reads, ok) ==
    IF trail.ok THEN [ok |-> ok, reads |-> trail.reads \o reads] ELSE trail

\* validate_parent_link of exp0002_source_strict.rs.
StrictAtParent(trail, file, at, f, snapshot) ==
    IF ~trail.ok THEN trail
    ELSE IF f.previous = Absent
    THEN After(trail, <<>>, f.sequence = 0 /\ f.start = 0 /\ snapshot.parent = ZeroDigest)
    ELSE LET previous == file[f.previous + 1]
         IN  After(After(trail, <<>>, f.previous < at /\ f.start = f.previous + 1),
                   Unhashed,
                   /\ previous.t = "footer"
                   /\ previous.semantics.digest = snapshot.parent
                   /\ previous.semantics.sequence + 1 = f.sequence)

\* validate_objects of exp0002_source_strict.rs: of each entry, in the order of the
\* identifiers, the record's header and then the whole record.
StrictAtObjects(trail, file, entries, taken, lim) ==
    LET object(t, i) ==
            LET e == entries[i]
                head == file[e.offset + 1]
                apart == /\ e.len >= 1 /\ InRange(e.offset, e.len, Len(file))
                         /\ Occupied(e) \cap taken = {}
                named == /\ head.t = "object" /\ head.id = e.min /\ 1 + head.len = e.len
                         /\ Sums([j \in 1..i |-> entries[j].len - 1]) <= lim.payload
            IN  After(After(After(t, <<>>, apart), Unhashed, named),
                      HashedBlocks(e.len, lim), Slice(file, e.offset, e.len) = e.digest)
    IN  IF ~trail.ok THEN trail
        ELSE After(FoldLeftDomain(object, trail, entries), <<>>,
                   \A i, j \in DOMAIN entries :
                       i # j => Occupied(entries[i]) \cap Occupied(entries[j]) = {})

\* validate_strict_at without its budget: what it would read, and its verdict.
StrictAtTrail(file, lim) ==
    LET at == Len(file) - 1
        f  == Last(file).semantics
        snapshot == file[f.snapshot + 1]
        dir == StackPages(file, <<[at |-> snapshot.directory, depth |-> 1]>>, <<>>, <<>>,
                          f.snapshot, lim)
        entries == Sorted(Range(dir.entries), LAMBDA e : e.min)
        begun  == [ok |-> ConfigurationOk(lim) /\ Len(file) <= lim.file /\ Len(file) >= 2,
                   reads |-> <<>>]
        header == After(begun, Unhashed, file[1] = HeaderUnit)
        footer == After(header, Unhashed,
                        /\ Last(file).t = "footer"
                        /\ f.start + f.len = at /\ f.len <= lim.commit
                        /\ f.start <= f.snapshot /\ f.snapshot < at)
        named  == After(footer, Hashed,
                        /\ snapshot = f.digest /\ SnapshotOk(snapshot, lim)
                        /\ snapshot.sequence = f.sequence /\ snapshot.previous = f.previous)
        linked == StrictAtParent(named, file, at, f, snapshot)
        paged  == After(linked, [i \in DOMAIN dir.pages |-> Head(Hashed)],
                        dir.ok /\ IsInjective([i \in DOMAIN dir.entries |-> dir.entries[i].min]))
        stored == StrictAtObjects(paged, file, entries,
                                  {f.snapshot, at} \cup Range(dir.pages), lim)
        rooted == After(stored, <<>>, /\ snapshot.roots # {}
                                      /\ snapshot.roots \subseteq {e.min : e \in Range(entries)})
    IN  After(rooted, HashedBlocks(f.len, lim), CommitDigest(file, f) = Last(file).digest)

\* BudgetedSource: how many of the reads are within the limits on operations, units
\* and units hashed; the first that is not ends the validation.
Affordable(reads, lim) ==
    LET within(n) == /\ n <= lim.ops
                     /\ Sums([i \in 1..n |-> reads[i].units]) <= lim.read
                     /\ Sums([i \in 1..(n - 1) |-> reads[i].hashed]) <= lim.hashed
    IN  Cardinality({n \in DOMAIN reads : within(n)})

AllAfforded(trail, lim) ==
    /\ trail.ok
    /\ Affordable(trail.reads, lim) = Len(trail.reads)
    /\ Sums([i \in DOMAIN trail.reads |-> trail.reads[i].hashed]) <= lim.hashed

\* validate_strict_at
StrictAt(file, lim) == AllAfforded(StrictAtTrail(file, lim), lim)

\* CountingPrefixSource: the units that validate_strict_at read of a source, whether
\* it accepted it or not.
UnitsAfforded(reads, lim) == Sums([i \in 1..Affordable(reads, lim) |-> reads[i].units])

UnitsCharged(file, lim) == UnitsAfforded(StrictAtTrail(file, lim).reads, lim)

-----------------------------------------------------------------------------
(* lookup_authenticated *)

Error    == [res |-> "error"]
NotThere == [res |-> "absent"]
Found(entry) == [res |-> "found", entry |-> entry]

\* parse_page_header
LookupHeaderOk(unit, sequence) ==
    unit.t = "page" /\ unit.entries # <<>> /\ unit.sequence = sequence /\ unit.min <= unit.max

\* The checks of select_leaf and of select_internal.
LeafOk(unit) ==
    /\ unit.level = 0 /\ Len(unit.entries) <= LeafCapacity
    /\ \A i \in 1..(Len(unit.entries) - 1) : unit.entries[i].min < unit.entries[i + 1].min
    /\ Head(unit.entries).min = unit.min /\ Last(unit.entries).min = unit.max

InternalOk(unit) ==
    /\ unit.level # 0 /\ Len(unit.entries) <= InternalCapacity
    /\ \A i \in DOMAIN unit.entries :
        /\ unit.entries[i].min <= unit.entries[i].max
        /\ i > 1 => unit.entries[i - 1].max < unit.entries[i].min
        /\ unit.entries[i].level + 1 = unit.level
    /\ Head(unit.entries).min = unit.min /\ Last(unit.entries).max = unit.max

\* The entry a page has for an identifier.
Holding(unit, id) == {e \in Range(unit.entries) : e.min <= id /\ id <= e.max}

\* validate_parent_link of exp0002_lookup.rs.
LookupParentOk(file, at, f, snapshot) ==
    IF f.previous = Absent
    THEN f.sequence = 0 /\ f.start = 0 /\ snapshot.parent = ZeroDigest
    ELSE /\ f.previous < at /\ f.start = f.previous + 1
         /\ file[f.previous + 1].t = "footer"
         /\ file[f.previous + 1].semantics.sequence + 1 = f.sequence
         /\ file[f.previous + 1].semantics.digest = snapshot.parent

\* Mutant: the record's digest is not compared.
SelectedByHeader(file, entry, taken, lim) ==
    LET head == file[entry.offset + 1]
    IN  /\ InRange(entry.offset, entry.len, Len(file)) /\ Occupied(entry) \cap taken = {}
        /\ head.t = "object" /\ head.id = entry.min /\ 1 + head.len = entry.len

\* validate_selected_object, and the range and the overlaps the caller checks.
SelectedOk(file, entry, taken, lim) ==
    LET head == file[entry.offset + 1]
    IN  /\ InRange(entry.offset, entry.len, Len(file))
        /\ Occupied(entry) \cap taken = {}
        /\ head.t = "object" /\ head.id = entry.min
        /\ head.len <= lim.payload /\ 1 + head.len = entry.len
        /\ Slice(file, entry.offset, entry.len) = entry.digest

\* The descent from expected to the leaf: path has the offsets of the pages read.
RECURSIVE Descend(_, _, _, _, _, _)
Descend(file, expected, id, f, path, lim) ==
    LET unit  == file[expected.offset + 1]
        read  == Append(path, expected.offset)
        entry == CHOOSE e \in Holding(unit, id) : TRUE
        hashed == f.len + 1 + Len(read)
    IN  IF \/ Len(read) > lim.pagereads \/ Len(read) > lim.depth \/ Len(read) > lim.pages
           \/ ~InRange(expected.offset, 1, Len(file)) \/ hashed > lim.hashed
           \/ unit # expected.digest \/ ~LookupHeaderOk(unit, f.sequence)
           \/ unit.level # expected.level
           \/ path # <<>> /\ (unit.min # expected.min \/ unit.max # expected.max)
        THEN Error
        ELSE IF id < unit.min \/ id > unit.max THEN NotThere
        ELSE IF ~(IF unit.level = 0 THEN LeafOk(unit) ELSE InternalOk(unit)) THEN Error
        ELSE IF Holding(unit, id) = {} THEN NotThere
        ELSE IF unit.level > 0 THEN Descend(file, entry, id, f, read, lim)
        ELSE IF hashed + entry.len <= lim.hashed
                /\ SelectedOk(file, entry, Range(read) \cup {f.snapshot, Len(file) - 1}, lim)
        THEN Found(entry) ELSE Error

\* lookup_authenticated
Lookup(file, id, lim) ==
    LET at == Len(file) - 1
        f  == Last(file).semantics
        snapshot == file[f.snapshot + 1]
    IN  IF /\ id # 0 /\ Len(file) <= lim.file /\ Len(file) >= 2
           /\ file[1] = HeaderUnit /\ Last(file).t = "footer"
           /\ f.start + f.len = at /\ f.len <= lim.commit /\ f.len <= lim.hashed
           /\ CommitDigest(file, f) = Last(file).digest
           /\ f.start <= f.snapshot /\ f.snapshot < at
           /\ snapshot = f.digest /\ f.len + 1 <= lim.hashed /\ SnapshotOk(snapshot, lim)
           /\ snapshot.sequence = f.sequence /\ snapshot.previous = f.previous
           /\ LookupParentOk(file, at, f, snapshot)
        THEN Descend(file, snapshot.directory, id, f, <<>>, lim)
        ELSE Error

-----------------------------------------------------------------------------
(* lookup_authenticated_at.  Between any two of its reads the source may      *)
(* change, so it is given as what it does next after the reads that returned  *)
(* log: the length of the source first, then sequences of units.  It asks for *)
(* a read, or it answers.                                                     *)

Ask(offset, len) == [res |-> "ask", offset |-> offset, len |-> len]
AskLength == [res |-> "length"]

\* BudgetedSource::hash_range: the block after done blocks of len units.
AskBlock(offset, len, done, lim) ==
    LET left == len - done * lim.block
    IN  Ask(offset + done * lim.block, IF left < lim.block THEN left ELSE lim.block)

\* parse_page_header, select_leaf and select_internal of exp0002_source.rs.
SourceHeaderOk(unit, sequence) ==
    unit.t = "page" /\ Len(unit.entries) > 0 /\ unit.min <= unit.max /\ unit.sequence = sequence

SourceLeafOk(unit) ==
    /\ unit.level = 0 /\ Len(unit.entries) <= LeafCapacity
    /\ unit.min = Head(unit.entries).min /\ unit.max = Last(unit.entries).min
    /\ \A i \in 2..Len(unit.entries) : unit.entries[i - 1].min < unit.entries[i].min

SourceInternalOk(unit) ==
    /\ unit.level # 0 /\ Len(unit.entries) <= InternalCapacity
    /\ unit.min = Head(unit.entries).min /\ unit.max = Last(unit.entries).max
    /\ \A e \in Range(unit.entries) : e.min <= e.max /\ e.level + 1 = unit.level
    /\ \A i \in 2..Len(unit.entries) : unit.entries[i - 1].max < unit.entries[i].min

\* validate_selected_object of exp0002_source.rs, and the range and the overlaps its
\* caller checks: the header is read k of log, then the payload is read.
RecordNext(log, k, entry, taken, hashed, lim) ==
    LET header == log[k][1]
        blocks == Ceil(header.len, lim.block)
    IN  IF \/ ~InRange(entry.offset, entry.len, log[1]) \/ Occupied(entry) \cap taken # {}
           \/ entry.len < 1
        THEN Error
        ELSE IF Len(log) < k THEN Ask(entry.offset, 1)
        ELSE IF \/ header.t # "object" \/ header.id # entry.min
                \/ header.len > lim.payload \/ 1 + header.len # entry.len
        THEN Error
        ELSE IF Len(log) < k + blocks
        THEN AskBlock(entry.offset + 1, header.len, Len(log) - k, lim)
        ELSE IF \/ hashed + header.len + 1 > lim.hashed
                \/ FlattenSeq(SubSeq(log, k, k + blocks)) # entry.digest
        THEN Error
        ELSE Found(entry)

\* The descent: the page at expected is read k of log; path has the offsets of the
\* pages before it.
RECURSIVE PageNext(_, _, _, _, _, _, _)
PageNext(log, k, expected, path, id, f, lim) ==
    LET unit == log[k][1]
        read == Append(path, expected.offset)
        hashed == f.len + 1 + Len(read)
        entry == CHOOSE e \in Holding(unit, id) : TRUE
    IN  IF Len(read) > lim.pagereads \/ Len(read) > lim.depth \/ Len(read) > lim.pages
        THEN Error
        ELSE IF Len(log) < k THEN Ask(expected.offset, 1)
        ELSE IF \/ hashed > lim.hashed
                \/ unit # expected.digest \/ ~SourceHeaderOk(unit, f.sequence)
                \/ unit.level # expected.level
                \/ path # <<>> /\ (unit.min # expected.min \/ unit.max # expected.max)
        THEN Error
        ELSE IF id < unit.min \/ id > unit.max THEN NotThere
        ELSE IF ~(IF unit.level = 0 THEN SourceLeafOk(unit) ELSE SourceInternalOk(unit)) THEN Error
        ELSE IF Holding(unit, id) = {} THEN NotThere
        ELSE IF unit.level > 0 THEN PageNext(log, k + 1, entry, read, id, f, lim)
        ELSE RecordNext(log, k + 1, entry, Range(read) \cup {f.snapshot, log[1] - 1}, hashed, lim)

\* parse_footer and validate_parent_link of exp0002_source.rs, once the previous footer
\* was read.
SourceParentOk(previous, f, snapshot) ==
    /\ previous.t = "footer"
    /\ previous.semantics.digest = snapshot.parent
    /\ previous.semantics.sequence + 1 = f.sequence

\* lookup_authenticated_at.
Resume(log, id, lim) ==
    LET len == log[1]
        f == log[3][1].semantics
        blocks == Ceil(f.len, lim.block)
        snapshot == log[4 + blocks][1]
        linked == f.previous # Absent
        root == IF linked THEN 6 + blocks ELSE 5 + blocks
        previous == log[5 + blocks][1]
    IN  IF id = 0 \/ ~ConfigurationOk(lim) THEN Error
        ELSE IF log = <<>> THEN AskLength
        ELSE IF len > lim.file \/ len < 2 THEN Error
        ELSE IF Len(log) = 1 THEN Ask(0, 1)
        ELSE IF log[2] # <<HeaderUnit>> THEN Error
        ELSE IF Len(log) = 2 THEN Ask(len - 1, 1)
        ELSE IF \/ log[3][1].t # "footer"
                \/ f.start + f.len # len - 1 \/ f.len > lim.commit
        THEN Error
        ELSE IF Len(log) < 3 + blocks THEN AskBlock(f.start, f.len, Len(log) - 3, lim)
        ELSE IF \/ f.len > lim.hashed
                \/ [commit |-> FlattenSeq(SubSeq(log, 4, 3 + blocks)), by |-> f] # log[3][1].digest
                \/ f.snapshot < f.start \/ f.snapshot >= len - 1
        THEN Error
        ELSE IF Len(log) = 3 + blocks THEN Ask(f.snapshot, 1)
        ELSE IF \/ f.len + 1 > lim.hashed \/ snapshot # f.digest \/ ~SnapshotOk(snapshot, lim)
                \/ snapshot.sequence # f.sequence \/ snapshot.previous # f.previous
                \/ ~linked /\ (f.sequence # 0 \/ f.start # 0 \/ snapshot.parent # ZeroDigest)
                \/ linked /\ (f.previous >= len - 1 \/ f.start # f.previous + 1)
        THEN Error
        ELSE IF linked /\ Len(log) = 4 + blocks THEN Ask(f.previous, 1)
        ELSE IF linked /\ ~SourceParentOk(previous, f, snapshot) THEN Error
        ELSE PageNext(log, root, snapshot.directory, <<>>, id, f, lim)

\* BudgetedSource::read_exact of exp0002_source.rs, which every read goes through.
LookupNext(log, id, lim) ==
    LET next == Resume(log, id, lim)
        units == Sums([i \in 1..(Len(log) - 1) |-> Len(log[i + 1])])
    IN  IF /\ next.res = "ask"
           /\ \/ next.offset + next.len > log[1]
              \/ Len(log) > lim.ops \/ units + next.len > lim.read
        THEN Error
        ELSE next

\* A source that does not change, read from where log ends.
RECURSIVE LookupOn(_, _, _, _)
LookupOn(file, log, id, lim) ==
    LET next == LookupNext(log, id, lim)
    IN  IF next.res = "length" THEN LookupOn(file, <<Len(file)>>, id, lim)
        ELSE IF next.res = "ask"
        THEN LookupOn(file, Append(log, Slice(file, next.offset, next.len)), id, lim)
        ELSE next

LookupAt(file, id, lim) == LookupOn(file, <<>>, id, lim)

-----------------------------------------------------------------------------
(* Recovery and history *)

Prefix(file, offset) == SubSeq(file, 1, offset + 1)

\* Offsets, the last first, at which the last window units have the footer's magic.
Magic(file, window) ==
    LET found == {o \in 0..(Len(file) - 1) : /\ o >= Len(file) - window
                                            /\ file[o + 1].t \in {"footer", "tornfooter"}}
    IN  Reverse(Sorted(found, LAMBDA o : o))

Complete(file, offsets) == SelectSeq(offsets, LAMBDA o : file[o + 1].t = "footer")

\* The limits that the three scans have alike, and the report.
Reported(matches, tried, valid, rec) ==
    IF Len(matches) > rec.matches \/ Len(tried) > rec.tried \/ Len(valid) > rec.results
    THEN Error
    ELSE [res |-> "found", footers |-> valid]

\* scan_valid_prefixes of exp0002_recovery.rs: the offsets of the footers of valid
\* prefixes, the highest sequence first.
ScanPrefixes(file, lim, rec) ==
    LET matches == Magic(file, rec.scan)
        tried   == Complete(file, matches)
        valid   == SelectSeq(tried, LAMBDA o : Strict(Prefix(file, o), lim))
        rank(o) == file[o + 1].semantics.sequence * (Len(file) + 1) + o
    IN  Reported(matches, tried, Reverse(Sorted(Range(valid), rank)), rec)

\* What the validations of the prefixes that end at offsets read.
PrefixesCharged(file, offsets, lim) ==
    Sums([i \in DOMAIN offsets |-> UnitsCharged(Prefix(file, offsets[i]), lim)])

\* scan_valid_prefixes_at of exp0002_source_strict.rs: charges the units read of the
\* candidates that were valid.
ScanStrictAt(file, lim, rec) ==
    LET matches == Magic(file, rec.scan)
        tried   == Complete(file, matches)
        valid   == SelectSeq(tried, LAMBDA o : StrictAt(Prefix(file, o), lim))
    IN  IF \/ 0 \in {rec.scan, rec.matches, rec.tried, rec.results}
           \/ PrefixesCharged(file, valid, lim) > rec.read
        THEN Error
        ELSE Reported(matches, tried, valid, rec)

\* Mutant: a candidate that is refused is not charged.
ScanChargingValid(file, lim, rec) ==
    LET matches == Magic(file, rec.scan)
        tried   == Complete(file, matches)
        valid   == SelectSeq(tried, LAMBDA o : StrictAt(Prefix(file, o), lim))
    IN  IF PrefixesCharged(file, valid, lim) > rec.candidates THEN Error
        ELSE Reported(matches, tried, valid, rec)

\* scan_valid_prefixes_at of exp0002_source_recovery.rs: reads the window in pieces,
\* and charges the units read of every candidate, valid or not.
ScanSourceAt(file, lim, rec) ==
    LET window  == IF Len(file) < rec.scan THEN Len(file) ELSE rec.scan
        matches == Magic(file, window)
        tried   == Complete(file, matches)
        valid   == SelectSeq(tried, LAMBDA o : StrictAt(Prefix(file, o), lim))
    IN  IF \/ 0 \in {rec.scan, rec.scanreads, rec.matches, rec.tried, rec.results}
           \/ ~ConfigurationOk(lim) \/ Ceil(window, lim.request) > rec.scanreads
           \/ PrefixesCharged(file, tried, lim) > rec.candidates
        THEN Error
        ELSE Reported(matches, tried, valid, rec)

\* Mutant: an ancestor's link is checked, and not its prefix.
LinkedOnly(file, offset, p, lim, defaults) ==
    /\ p + 1 <= Len(file) /\ p < offset
    /\ file[p + 1].t = "footer"
    /\ file[p + 1].semantics.sequence + 1 = file[offset + 1].semantics.sequence

\* Whether the prefix that ends at p is valid and is the parent that the footer at
\* offset names.  current_parent_digest validates the child once more, under the
\* default limits, before it takes the parent's digest from it.
AncestorOk(file, offset, p, lim, defaults) ==
    LET f == file[offset + 1].semantics
    IN  /\ p + 1 <= Len(file) /\ p < offset
        /\ Strict(Prefix(file, p), lim)
        /\ Strict(Prefix(file, offset), [defaults EXCEPT !.file = offset + 1])
        /\ file[p + 1].semantics.digest = file[f.snapshot + 1].parent
        /\ file[p + 1].semantics.sequence + 1 = f.sequence

\* enumerate_previous_chain of exp0002_recovery.rs, from a footer whose prefix is
\* valid: an ancestor is valid too, and is the parent its child names.
RECURSIVE ChainFrom(_, _, _, _, _, _)
ChainFrom(file, offset, seen, lim, defaults, depth) ==
    LET p == file[offset + 1].semantics.previous
        chain == Append(seen, offset)
    IN  IF p = Absent THEN [res |-> "found", footers |-> chain]
        ELSE IF \/ Len(chain) >= depth \/ p \in Range(chain)
                \/ ~AncestorOk(file, offset, p, lim, defaults)
        THEN Error
        ELSE ChainFrom(file, p, chain, lim, defaults, depth)

\* enumerate_previous_chain_at of exp0002_source_chain.rs: validates each prefix from
\* the end, charges what that read, then compares it with its child.
RECURSIVE ChainAt(_, _, _, _, _, _)
ChainAt(file, len, seen, charged, lim, rec) ==
    LET offset == len - 1
        f == file[len].semantics
        child == file[Last(seen) + 1].semantics
        parent == file[child.snapshot + 1].parent
        total == charged + UnitsCharged(SubSeq(file, 1, len), lim)
    IN  IF \/ 0 \in {rec.depth, rec.chain} \/ Len(seen) >= rec.depth \/ total > rec.chain
           \/ ~StrictAt(SubSeq(file, 1, len), lim)
           \/ offset \in Range(seen)
           \/ seen # <<>> /\ \/ child.previous # offset
                             \/ parent # f.digest
                             \/ f.sequence + 1 # child.sequence
        THEN Error
        ELSE IF f.previous = Absent
        THEN [res |-> "found", footers |-> Append(seen, offset)]
        ELSE IF f.previous >= offset THEN Error
        ELSE ChainAt(file, f.previous + 1, Append(seen, offset), total, lim, rec)
=============================================================================
