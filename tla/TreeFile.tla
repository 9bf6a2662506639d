------------------------------ MODULE TreeFile ------------------------------
(***************************************************************************)
(* The bytes of an immutable-successor file and the writers that produce    *)
(* them (immutable_successor/part1.rs to part5.rs, batch.rs, rewrite.rs).   *)
(* A file is a header and then commits; a commit is the records of its      *)
(* objects, the pages it wrote, a snapshot that names the root page and, at *)
(* the end, a footer.  Pages do not name the commit that wrote them, so a   *)
(* tree may use pages of older commits.                                     *)
(*                                                                          *)
(* A file is a sequence of units and an offset is the number of units       *)
(* before.  Every fixed structure is one unit, a payload has a unit for     *)
(* each of its pieces.  A digest is what it was computed from.              *)
(***************************************************************************)
EXTENDS SequencesExt, CanonicalGroups

CONSTANTS LeafCapacity, InternalFanout

ASSUME FileAssumption == LeafCapacity \in Nat \ {0} /\ InternalFanout \in Nat \ {0, 1}

Absent     == -1                    \* ABSENT_OFFSET
ZeroDigest == [t |-> "zero"]
HeaderUnit == [t |-> "header"]
Garbage    == [t |-> "garbage"]     \* bytes no parser accepts
Torn       == [t |-> "torn"]        \* the first bytes of a structure
TornFooter == [t |-> "tornfooter"]  \* the first bytes of a footer, its magic among them

\* What the scans for FOOTER_MAGIC stop at.
HasFooterMagic(unit) == unit.t \in {"footer", "tornfooter"}

Slice(file, offset, len) == SubSeq(file, offset + 1, offset + len)
At(file, offset) == file[offset + 1]

\* encode_object: a header, then the payload.
ObjectUnits(o) ==
    <<[t |-> "object", id |-> o.id, kind |-> o.kind, len |-> Len(o.payload)]>> \o o.payload

\* The Locator append_object returns, of an object behind out.
LocatorOf(out, o) ==
    [id |-> o.id, kind |-> o.kind, offset |-> Len(out), len |-> 1 + Len(o.payload),
     digest |-> ObjectUnits(o)]

\* encode_leaf
LeafPage(entries) ==
    [t |-> "page", level |-> 0, min |-> Head(entries).id, max |-> Last(entries).id,
     entries |-> entries]

\* encode_internal
InternalPage(children, level) ==
    [t |-> "page", level |-> level, min |-> Head(children).min, max |-> Last(children).max,
     entries |-> children]

\* The PageRef append_page returns, of a page behind out.
ReferenceOf(out, page) ==
    [min |-> page.min, max |-> page.max, offset |-> Len(out), level |-> page.level,
     digest |-> page]

\* append_page over a level of pages: [out, level].
RECURSIVE AppendPages(_, _, _)
AppendPages(out, pages, level) ==
    IF pages = <<>> THEN [out |-> out, level |-> level]
    ELSE AppendPages(Append(out, Head(pages)), Tail(pages),
                     Append(level, ReferenceOf(out, Head(pages))))

Grouped(s, sizes) ==
    LET before(k) == FoldLeft(LAMBDA a, b : a + b, 0, SubSeq(sizes, 1, k - 1))
    IN  [k \in DOMAIN sizes |-> SubSeq(s, before(k) + 1, before(k) + sizes[k])]

\* build_tree: leaves in canonical groups, then levels of internal pages until one page
\* is left.  The result is [out, root, pages].
RECURSIVE BuildAbove(_, _, _)
BuildAbove(out, level, pages) ==
    IF Len(level) = 1 THEN [out |-> out, root |-> level[1], pages |-> pages]
    ELSE LET groups == Grouped(level, GroupSizes(Len(level), InternalFanout))
             made   == AppendPages(out, [k \in DOMAIN groups |->
                                            InternalPage(groups[k], level[1].level + 1)], <<>>)
         IN  BuildAbove(made.out, made.level, pages + Len(groups))

BuildTree(out, locators) ==
    LET groups == Grouped(locators, GroupSizes(Len(locators), LeafCapacity))
        made   == AppendPages(out, [k \in DOMAIN groups |-> LeafPage(groups[k])], <<>>)
    IN  BuildAbove(made.out, made.level, Len(groups))

\* footer_semantics
FooterSemantics(f) == <<f.sequence, f.snapshot, f.previous, f.pages, f.digest>>

SnapshotUnit(sequence, root, parent) ==
    [t |-> "snapshot", sequence |-> sequence, parent |-> parent,
     root |-> [offset |-> root.offset, level |-> root.level, digest |-> root.digest]]

\* The footer behind a snapshot at an offset; hashed are the commit's units.
FooterUnit(snapshot, offset, previous, pages, hashed) ==
    LET footer == [t |-> "footer", sequence |-> snapshot.sequence, snapshot |-> offset,
                   previous |-> previous, pages |-> pages, digest |-> snapshot]
    IN  footer @@ [commit |-> [body |-> hashed, by |-> FooterSemantics(footer)]]

\* publish: the snapshot and the footer, whose digest is of all units since the previous
\* footer.
Publish(out, sequence, root, parent, previous, pages) ==
    LET snapshot == SnapshotUnit(sequence, root, parent)
        body     == Append(out, snapshot)
        start    == IF previous = Absent THEN 0 ELSE previous + 1
    IN  Append(body, FooterUnit(snapshot, Len(out), previous, pages,
                                Slice(body, start, Len(body) - start)))

PublishTree(tree, sequence, parent, previous) ==
    Publish(tree.out, sequence, tree.root, parent, previous, tree.pages)

\* Objects, or locators, in the order of their identifiers.
ById(S) ==
    [i \in 1..Cardinality(S) |->
        CHOOSE x \in S : Cardinality({y \in S : y.id < x.id}) = i - 1]
Ids(S) == {x.id : x \in S}

\* append_object over inputs in the order of their identifiers: [out, locators], the
\* locators as a set.
AppendObjects(out, objects) ==
    FoldLeft(LAMBDA made, o : [out |-> made.out \o ObjectUnits(o),
                               locators |-> made.locators \cup {LocatorOf(made.out, o)}],
             [out |-> out, locators |-> {}], ById(objects))

\* What build_genesis and encode_object accept.
GenesisAllowed(objects) ==
    objects # {} /\ 0 \notin Ids(objects) /\ Cardinality(Ids(objects)) = Cardinality(objects)

\* build_genesis; its closing validate_canonical_occupancy is what OnlyCallersFail of
\* TreeUpdate and CanonicalGroupsProofs are about.
BuildGenesis(objects) ==
    LET made == AppendObjects(<<HeaderUnit>>, objects)
    IN  PublishTree(BuildTree(made.out, ById(made.locators)), 0, ZeroDigest, Absent)

\* The commit append_replacement and append_batch write behind file, whose active
\* locators are known: puts replace or add, deletes remove, all pages are written anew.
Rebuild(file, locators, puts, deletes) ==
    LET made == AppendObjects(file, puts)
        kept == {l \in locators : l.id \notin deletes \cup Ids(puts)}
    IN  PublishTree(BuildTree(made.out, ById(kept \cup made.locators)),
                    Last(file).sequence + 1, Last(file).digest, Len(file) - 1)

\* append_replacement
AppendReplacement(file, locators, o) == Rebuild(file, locators, {o}, {})

\* append_batch, and what it accepts.
BatchAllowed(locators, puts, deletes) ==
    /\ puts # {} \/ deletes # {}
    /\ 0 \notin Ids(puts) \cup deletes
    /\ Cardinality(Ids(puts)) = Cardinality(puts) /\ Ids(puts) \cap deletes = {}
    /\ deletes \subseteq Ids(locators)
    /\ (Ids(locators) \ deletes) \cup Ids(puts) # {}

AppendBatch(file, locators, puts, deletes) == Rebuild(file, locators, puts, deletes)

\* rewrite_replacement_path: pages on the way to a replaced entry are copied behind out,
\* the other references are kept.  The result is [out, ref].
RECURSIVE RewritePath(_, _, _, _)
RewritePath(file, out, ref, new) ==
    LET page == At(file, ref.offset)
        write(done, copy) == [out |-> Append(done, copy), ref |-> ReferenceOf(done, copy)]
        below == FoldLeft(LAMBDA done, child :
                            LET next == RewritePath(file, done.out, child, new)
                            IN  [out |-> next.out, refs |-> Append(done.refs, next.ref)],
                          [out |-> out, refs |-> <<>>], page.entries)
    IN  IF new.id \notin ref.min..ref.max THEN [out |-> out, ref |-> ref]
        ELSE IF ref.level = 0
        THEN write(out, LeafPage([i \in DOMAIN page.entries |->
                            IF page.entries[i].id = new.id THEN new ELSE page.entries[i]]))
        ELSE write(below.out, InternalPage(below.refs, ref.level))

\* root_reference
RootReference(file, snapshot) ==
    LET page == At(file, snapshot.root.offset)
    IN  [min |-> page.min, max |-> page.max, offset |-> snapshot.root.offset,
         level |-> snapshot.root.level, digest |-> snapshot.root.digest]

\* append_persistent_batch of one replacement.
PersistentReplacement(file, o) ==
    LET last == Last(file)
        made == AppendObjects(file, {o})
        new  == CHOOSE l \in made.locators : TRUE
        tree == RewritePath(file, made.out, RootReference(file, last.digest), new)
    IN  Publish(tree.out, last.sequence + 1, tree.ref, last.digest, Len(file) - 1,
                Len(tree.out) - Len(made.out))

\* input_from_locator
InputFrom(file, locator) ==
    [id |-> locator.id, kind |-> locator.kind,
     payload |-> Slice(file, locator.offset + 1, locator.len - 1)]

\* rewrite_from_internal: a new genesis of the selected active objects.
RewriteAllowed(locators, selected) == selected # {} /\ selected \subseteq Ids(locators)

RewriteFrom(file, locators, selected) ==
    BuildGenesis({InputFrom(file, l) : l \in {x \in locators : x.id \in selected}})
=============================================================================
