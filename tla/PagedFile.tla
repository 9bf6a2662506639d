------------------------------ MODULE PagedFile ------------------------------
(***************************************************************************)
(* The layout and the writers of a UCOF-EXP-0002 file (exp0002.rs,          *)
(* exp0002_rewrite.rs): a header, then commits.  A commit is the records of *)
(* its new objects, the pages of a directory of all objects, a snapshot     *)
(* that names the directory and a footer that names the snapshot.           *)
(*                                                                          *)
(* A file is a sequence of units and an offset is the number of units       *)
(* before.  A fixed structure is one unit; a payload has as many units as   *)
(* it has pieces.  A digest is what it was computed from.                   *)
(***************************************************************************)
EXTENDS Integers, Sequences, FiniteSets, SequencesExt

CONSTANTS LeafCapacity, InternalCapacity

ASSUME CapacitiesAssumption ==
    LeafCapacity \in Nat \ {0} /\ InternalCapacity \in Nat \ {0, 1}

Absent     == -1                    \* ABSENT_OFFSET
ZeroDigest == [t |-> "zero"]
HeaderUnit == [t |-> "header"]
Garbage    == [t |-> "garbage"]     \* bytes no parser accepts
Torn       == [t |-> "torn"]        \* the first bytes of a structure
TornFooter == [t |-> "tornfooter"]  \* the first bytes of a footer, its magic among them

\* ObjectInput is [id, payload]; its record is an ObjectHeader and the payload.
ObjectUnits(o) == <<[t |-> "object", id |-> o.id, len |-> Len(o.payload)]>> \o o.payload

LeafEntry(o, offset) ==
    [min |-> o.id, max |-> o.id, offset |-> offset, len |-> 1 + Len(o.payload),
     digest |-> ObjectUnits(o)]

PageUnit(level, entries, sequence) ==
    [t |-> "page", level |-> level, entries |-> entries, sequence |-> sequence,
     min |-> Head(entries).min, max |-> Last(entries).max]

\* InternalEntry and PageLocator.
Locator(page, offset) ==
    [min |-> page.min, max |-> page.max, offset |-> offset, level |-> page.level,
     digest |-> page]

SnapshotUnit(sequence, parent, previous, directory, roots) ==
    [t |-> "snapshot", sequence |-> sequence, parent |-> parent, previous |-> previous,
     directory |-> directory, roots |-> roots]

\* Footer: its semantics and the digest of the commit and the semantics.
FooterUnit(semantics, commit) ==
    [t |-> "footer", semantics |-> semantics, digest |-> [commit |-> commit, by |-> semantics]]

Slice(file, offset, len) == SubSeq(file, offset + 1, offset + len)

Chunks(s, n) ==
    [i \in 1..((Len(s) + n - 1) \div n) |->
        SubSeq(s, (i - 1) * n + 1, IF i * n < Len(s) THEN i * n ELSE Len(s))]

\* write_object_records, of objects with distinct identifiers that are not zero, in
\* the order of the identifiers, behind base units.
Sorted(S, Key(_)) ==
    [i \in 1..Cardinality(S) |->
        CHOOSE x \in S : Cardinality({y \in S : Key(y) < Key(x)}) = i - 1]

ByIdentifier(objects) == Sorted(objects, LAMBDA o : o.id)

RecordsOf(objects) == FlattenSeq([i \in 1..Cardinality(objects) |->
                                    ObjectUnits(ByIdentifier(objects)[i])])

EntriesOf(objects, base) ==
    LET sorted == ByIdentifier(objects)
    IN  [i \in DOMAIN sorted |->
            LeafEntry(sorted[i],
                      base + Len(FlattenSeq([j \in 1..(i - 1) |-> ObjectUnits(sorted[j])])))]

\* write_directory: pages of entries, then pages of pages, until one is left.
RECURSIVE LevelsAbove(_, _, _)
LevelsAbove(locators, base, sequence) ==
    IF Len(locators) = 1 THEN [pages |-> <<>>, root |-> locators[1]]
    ELSE LET chunks == Chunks(locators, InternalCapacity)
             pages  == [i \in DOMAIN chunks |->
                            PageUnit(chunks[i][1].level + 1, chunks[i], sequence)]
             above  == LevelsAbove([i \in DOMAIN pages |-> Locator(pages[i], base + i - 1)],
                                   base + Len(pages), sequence)
         IN  [pages |-> pages \o above.pages, root |-> above.root]

Directory(entries, base, sequence) ==
    LET chunks == Chunks(entries, LeafCapacity)
        leaves == [i \in DOMAIN chunks |-> PageUnit(0, chunks[i], sequence)]
        above  == LevelsAbove([i \in DOMAIN leaves |-> Locator(leaves[i], base + i - 1)],
                              base + Len(leaves), sequence)
    IN  [pages |-> leaves \o above.pages, root |-> above.root]

\* finish_commit: the directory, the snapshot and the footer behind bytes.
FinishCommit(bytes, entries, roots, sequence, parent, previous, start, count) ==
    LET directory == Directory(entries, Len(bytes), sequence)
        snapshot  == SnapshotUnit(sequence, parent, previous, directory.root, roots)
        body      == bytes \o directory.pages \o <<snapshot>>
        semantics == [start |-> start, len |-> Len(body) - start,
                      snapshot |-> Len(body) - 1, sequence |-> sequence,
                      previous |-> previous, count |-> count, digest |-> snapshot]
    IN  Append(body, FooterUnit(semantics, Slice(body, start, Len(body) - start)))

Identifiers(objects) == {o.id : o \in objects}

\* What write_object_records and canonical_values refuse.
WellFormed(objects) ==
    0 \notin Identifiers(objects) /\ Cardinality(Identifiers(objects)) = Cardinality(objects)

\* build_genesis with build_commit; roots are the identifiers of the root objects.
GenesisAllowed(objects, roots) ==
    objects # {} /\ roots # {} /\ roots \subseteq Identifiers(objects) /\ WellFormed(objects)

Genesis(objects, roots) ==
    FinishCommit(<<HeaderUnit>> \o RecordsOf(objects), EntriesOf(objects, 1), roots,
                 0, ZeroDigest, Absent, 0, Cardinality(objects))

\* build_append, of a file that validate_strict accepted with entries.
AppendAllowed(entries, objects, roots) ==
    LET existing == {entries[i].min : i \in DOMAIN entries}
    IN  /\ roots # {} /\ 0 \notin roots
        /\ WellFormed(objects) /\ Identifiers(objects) \cap existing = {}
        /\ roots \subseteq existing \cup Identifiers(objects)

AppendCommit(file, entries, objects, roots) ==
    LET footer == Last(file).semantics
        all    == Range(entries) \cup Range(EntriesOf(objects, Len(file)))
    IN  FinishCommit(file \o RecordsOf(objects), Sorted(all, LAMBDA e : e.min), roots,
                     footer.sequence + 1, footer.digest, Len(file) - 1, Len(file),
                     Cardinality(objects))
=============================================================================
