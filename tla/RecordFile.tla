----------------------------- MODULE RecordFile -----------------------------
(***************************************************************************)
(* The layout of a UCOF-EXP-0001 file (format.rs, model.rs): a header,      *)
(* records, one of them a directory, and a footer.                          *)
(*                                                                          *)
(* A file is a sequence of units.  A fixed structure (file header, record   *)
(* header, footer) is one unit; so is one piece of a payload.  An offset is *)
(* the number of units before.  An encoded manifest or directory has as     *)
(* many units as it has items, and one more.  A digest is the sequence it   *)
(* was computed from.                                                       *)
(***************************************************************************)
EXTENDS Naturals, Sequences, FiniteSets, SequencesExt

Kinds == {"Opaque", "Manifest", "Directory"}

HeaderUnit  == [t |-> "header"]
TornUnit    == [t |-> "torn"]       \* the first bytes of a fixed structure
GarbageUnit == [t |-> "garbage"]    \* bytes no parser accepts

RecordUnit(kind, id, len) == [t |-> "record", kind |-> kind, id |-> id, len |-> len]

FooterUnit(directory, manifest, count, digest) ==
    [t |-> "footer", directory |-> directory, manifest |-> manifest,
     count |-> count, digest |-> digest]

\* DirectoryEntry; the logical length is the stored length.
Entry(kind, id, offset, len) == [kind |-> kind, id |-> id, offset |-> offset, len |-> len]

EncodeManifest(m) ==
    [i \in 1..(1 + Cardinality(m.roots)) |-> [t |-> "manifest", m |-> m, part |-> i]]

EncodeDirectory(entries) ==
    [i \in 1..(1 + Len(entries)) |-> [t |-> "directory", entries |-> entries, part |-> i]]

\* decode_canonical followed by parse_manifest, with Manifest::validate_shape, and
\* by parse_directory.
ShapeOk(m) == 0 \notin m.roots

IsManifest(units) ==
    /\ units # <<>> /\ units[1].t = "manifest"
    /\ units = EncodeManifest(units[1].m) /\ ShapeOk(units[1].m)

IsDirectory(units) ==
    units # <<>> /\ units[1].t = "directory" /\ units = EncodeDirectory(units[1].entries)

\* parse_record_header: the fixed fields, the payload limit and the identifier.
IsRecord(unit, limits) ==
    /\ unit.t = "record" /\ unit.kind \in Kinds
    /\ unit.len <= limits.payload
    /\ unit.kind = "Directory" <=> unit.id = 0

\* SubSeq with an offset instead of an index.
Slice(file, offset, len) == SubSeq(file, offset + 1, offset + len)
=============================================================================
