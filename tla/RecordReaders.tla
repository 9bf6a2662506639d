--------------------------- MODULE RecordReaders ---------------------------
(***************************************************************************)
(* The readers of a UCOF-EXP-0001 file that have all of it at hand:         *)
(*                                                                          *)
(*   reader.rs            ValidatedFile::parse, of bytes in memory          *)
(*   source.rs            MetadataInspector, which skips payloads           *)
(*   source_validate.rs   SourceValidator, which adds the digest            *)
(*   diagnostic.rs        PrefixSalvager, for files that are not whole      *)
(*                                                                          *)
(* and writer.rs, the writer of files in memory.  Each is a function of the *)
(* file and the limits; of its errors only their presence is kept.          *)
(***************************************************************************)
EXTENDS RecordFile

\* scan_records: the entries of the records that fill the file from its header to
\* end; if they do not fill it, what was found before that, and ok is FALSE.
ScanFrom(file, end, limits) ==
    LET scan[o \in 0..end] ==
            LET unit == file[o + 1]
                next == o + 1 + unit.len
                rest == scan[next]
            IN  IF o = end THEN [ok |-> TRUE, entries |-> <<>>]
                ELSE IF ~IsRecord(unit, limits) \/ next > end
                THEN [ok |-> FALSE, entries |-> <<>>]
                ELSE [ok |-> rest.ok,
                      entries |-> <<Entry(unit.kind, unit.id, o, unit.len)>> \o rest.entries]
    IN  scan[1]

Distinct(entries) ==
    \A i, j \in DOMAIN entries : entries[i].id = entries[j].id /\ i # j => entries[i].id = 0

Payload(file, entry) == Slice(file, entry.offset + 1, entry.len)

\* Where the header and the footer are, and what the footer says of the directory.
FooterOffset(file) == Len(file) - 1

Framed(file, limits) ==
    /\ Len(file) <= limits.file /\ Len(file) >= 2
    /\ file[1] = HeaderUnit
    /\ Last(file).t = "footer"
    /\ Last(file).directory.offset + Last(file).directory.len = FooterOffset(file)

\* The manifest the footer names, and its roots.
ManifestOk(file, entries, limits) ==
    \E i \in DOMAIN entries :
        /\ entries[i].id = Last(file).manifest
        /\ entries[i].kind = "Manifest"
        /\ entries[i].len <= limits.metadata
        /\ IsManifest(Payload(file, entries[i]))
        /\ Payload(file, entries[i])[1].m.roots \subseteq {e.id : e \in Range(entries)}

ManifestOf(file, entries) ==
    LET i == CHOOSE j \in DOMAIN entries : entries[j].id = Last(file).manifest
    IN  Payload(file, entries[i])[1].m

\* ValidatedFile::parse
Parse(file, limits) ==
    LET footer  == Last(file)
        found   == ScanFrom(file, FooterOffset(file), limits)
        records == found.entries
        entries == Front(records)
    IN  /\ Framed(file, limits)
        /\ found.ok /\ Distinct(records)
        /\ Len(records) <= limits.records /\ Len(records) = footer.count
        /\ records # <<>> /\ Last(records).kind = "Directory"
        /\ Last(records).offset = footer.directory.offset
        /\ Front(file) = footer.digest
        /\ Last(records).len <= limits.metadata
        /\ IsDirectory(Payload(file, Last(records)))
        /\ Payload(file, Last(records))[1].entries = entries
        /\ ManifestOk(file, entries, limits)
        /\ ManifestOf(file, entries).required = {}

\* validate_inventory_headers
InventoryOk(file, entries, end, limits) ==
    LET start(i) == IF i = 1 THEN 1 ELSE entries[i - 1].offset + 1 + entries[i - 1].len
    IN  /\ Distinct(entries)
        /\ \A i \in DOMAIN entries :
            LET e == entries[i]
                unit == file[e.offset + 1]
            IN  /\ e.id # 0 /\ e.offset = start(i) /\ e.offset < FooterOffset(file)
                /\ IsRecord(unit, limits) /\ unit.kind # "Directory"
                /\ unit = RecordUnit(e.kind, e.id, e.len)
                /\ e.offset + 1 + e.len <= end
        /\ start(Len(entries) + 1) = end

\* MetadataInspector::inspect
Inspect(file, limits) ==
    LET at   == Last(file).directory.offset
        unit == file[at + 1]
        data == Slice(file, at + 1, unit.len)
        entries == data[1].entries
        manifest == CHOOSE e \in Range(entries) : e.id = Last(file).manifest
    IN  /\ Framed(file, limits)
        /\ Last(file).directory.len >= 1
        /\ IsRecord(unit, limits) /\ unit.kind = "Directory"
        /\ 1 + unit.len = Last(file).directory.len
        /\ unit.len <= limits.metadata /\ unit.len <= limits.alloc
        /\ IsDirectory(data)
        /\ Len(entries) + 1 = Last(file).count /\ Len(entries) + 1 <= limits.records
        /\ InventoryOk(file, entries, at, limits)
        /\ ManifestOk(file, entries, limits)
        /\ manifest.len <= limits.alloc
        /\ 3 + unit.len + Len(entries) + manifest.len <= limits.read

\* SourceValidator::validate, of a source that does not change: the footer it reads
\* again is the one of the inspection.
Validate(file, limits) ==
    LET entries == Slice(file, Last(file).directory.offset + 1, 1)[1].entries
        manifest == CHOOSE e \in Range(entries) : e.id = Last(file).manifest
        inspected == 3 + Len(entries) + 1 + Len(entries) + manifest.len
    IN  /\ Inspect(file, limits)
        /\ limits.chunk > 0 /\ limits.alloc > 0
        /\ inspected + Len(file) <= limits.read
        /\ Front(file) = Last(file).digest

\* Mutant: a record is salvaged when its header is there, whatever of its payload is.
SalvageHeaders(file, limits) ==
    LET longer == file \o [i \in 1..9 |-> GarbageUnit]
        found  == ScanFrom(longer, Len(longer), limits).entries
    IN  IF file = <<>> THEN <<>> ELSE found

\* PrefixSalvager::scan: complete records from the start, up to a directory, of a
\* file within the limits on its size and on the bytes read.
Salvage(file, limits) ==
    LET found == ScanFrom(file, Len(file), limits).entries
        good(k) == /\ k <= limits.records
                   /\ Distinct(SubSeq(found, 1, k))
                   /\ \A i \in 1..(k - 1) : found[i].kind # "Directory"
        kept == {k \in 0..Len(found) : good(k)}
    IN  IF file = <<>> \/ file[1] # HeaderUnit THEN <<>>
        ELSE SubSeq(found, 1, CHOOSE k \in kept : \A j \in kept : j <= k)

\* Writer of writer.rs: the whole file of the records given to it.
MemoryFile(records, manifest) ==
    LET units(r)  == <<RecordUnit(r.kind, r.id, Len(r.payload))>> \o r.payload
        before(i) == 1 + Len(FlattenSeq([j \in 1..(i - 1) |-> units(records[j])]))
        entries   == [i \in DOMAIN records |->
                        Entry(records[i].kind, records[i].id, before(i), Len(records[i].payload))]
        directory == [kind |-> "Directory", id |-> 0, payload |-> EncodeDirectory(entries)]
        prefix    == <<HeaderUnit>> \o FlattenSeq([i \in DOMAIN records |-> units(records[i])])
                     \o units(directory)
    IN  Append(prefix, FooterUnit([offset |-> before(Len(records) + 1),
                                   len    |-> 1 + Len(directory.payload)],
                                  manifest, Len(records) + 1, prefix))
=============================================================================
