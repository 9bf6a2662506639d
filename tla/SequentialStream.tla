-------------------------- MODULE SequentialStream --------------------------
(***************************************************************************)
(* The sequential core of UCOF (ucof-core): a file is written to a sink     *)
(* that may fail (stream_writer.rs), is carried to a reader, perhaps cut or *)
(* damaged, and read in one pass without seeking (stream.rs).               *)
(*                                                                          *)
(* A call of the writer is one action, with every point where the sink or   *)
(* the payload's source may fail inside it.  A call that is refused before  *)
(* it writes changes nothing and is not an action.  One next_event of the   *)
(* reader is one action.  SeekableWriter is the same writer on another sink.*)
(***************************************************************************)
EXTENDS RecordReaders

CONSTANTS
    Ids,         \* object identifiers the caller may use
    Payloads,    \* opaque payloads, sequences of byte units
    Manifests,   \* manifests: records of roots and required capabilities
    Jobs,        \* the limits of writer and reader, and what may happen in between
    Generous,    \* limits beyond anything in the model
    Foreign,     \* what the files of other implementations hold: records and a manifest
    NoFile       \* nothing has been delivered yet

\* The units of a file, first all but its footer.
Entries        == [kind : Kinds, id : Nat, offset : Nat, len : Nat]
Bytes          == [t : {"byte"}, v : {0, 1}]
RecordUnits    == [t : {"record"}, kind : Kinds, id : Nat, len : Nat]
ManifestUnits  == [t : {"manifest"}, m : Manifests, part : Nat]
DirectoryUnits == [t : {"directory"}, entries : Seq(Entries), part : Nat]
Plain   == {HeaderUnit, TornUnit, GarbageUnit} \cup Bytes \cup RecordUnits
           \cup ManifestUnits \cup DirectoryUnits
Footers == [t : {"footer"}, directory : [offset : Nat, len : Nat], manifest : Nat,
            count : Nat, digest : Seq(Plain)]
Units   == Plain \cup Footers

\* Records with payloads of the units S.
Records(S) == [kind : Kinds, id : Nat, payload : Seq(S)]

\* What the calls of the writer make of their arguments, and how several fit together.
Acceptable(r) ==
    /\ r.id # 0
    /\ r.kind \in {"Opaque", "Manifest"}
    /\ r.kind = "Opaque" => r.payload \in Seq(Bytes)
    /\ r.kind = "Manifest" => \E m \in Manifests : ShapeOk(m) /\ r.payload = EncodeManifest(m)

OneEach(recs) == \A i, j \in 1..Len(recs) : recs[i].id = recs[j].id => i = j

\* What every record of a file is whose framing is right; nothing is said of what its
\* payload holds, and a directory may stand among the objects.
Lawful(r) == (r.kind = "Directory" <=> r.id = 0) /\ TornUnit \notin Range(r.payload)

ForeignFiles == {MemoryFile(f.records, f.manifest) : f \in Foreign}

LimitNames == {"file", "read", "logical", "records", "payload", "metadata", "alloc", "chunk"}

\* Generous limits let a file of n units through, also to a reader that reads its
\* metadata first and then all of it.
Fits(n) ==
    /\ \A name \in LimitNames \ {"chunk"} : n <= Generous[name]
    /\ 2 * n <= Generous.read

ASSUME StreamAssumption ==
    /\ Ids \subseteq Nat
    /\ Payloads \subseteq Seq(Bytes)
    /\ \A m \in Manifests : m.roots \subseteq Nat /\ IsFiniteSet(m.roots)
    /\ Jobs \subseteq [writer : [LimitNames -> Nat], reader : [LimitNames -> Nat],
                       harm : SUBSET {"more", "cut", "changed", "lost"}]
    /\ Generous \in [LimitNames -> Nat] /\ Generous.chunk > 0 /\ Generous.alloc > 0
    /\ \A j \in Jobs : Fits(j.writer.file)
    /\ \A f \in Foreign :
          /\ f.records \in Seq(Records(Plain)) /\ f.manifest \in Nat
          /\ \A i \in DOMAIN f.records : Lawful(f.records[i])
          /\ Distinct(f.records)
          /\ Fits(Len(MemoryFile(f.records, f.manifest)))
    /\ NoFile \notin Seq(Units)

VARIABLES
    job,         \* which of the Jobs this is
    w,           \* the writer
    sink,        \* what the sink has taken
    accepted,    \* the records of the calls that returned Ok
    delivered,   \* the file the reader is given
    rd,          \* the reader
    got          \* the records its events have shown so far

vars == <<job, w, sink, accepted, delivered, rd, got>>
writerVars == <<job, w, sink, accepted>>

NoActive    == [kind |-> "none"]
NoDirectory == [offset |-> 0, len |-> 0]

\* StreamingWriter; its set of object_ids is that of its entries.
NewWriter(limits) ==
    [st |-> "new", entries |-> <<>>, hashed |-> <<>>, limits |-> limits, manifest |-> 0]

\* SequentialReader::new; bytes_read is the offset.
NewReader(limits) ==
    [st |-> "Header", limits |-> limits, offset |-> 0, hashed |-> <<>>, logical |-> 0,
     active |-> NoActive, inventory |-> <<>>, manifests |-> {}, directory |-> NoDirectory,
     count |-> 0, manifest |-> 0, io |-> FALSE]

Init ==
    /\ job \in Jobs
    /\ w = NewWriter(job.writer)
    /\ sink = <<>> /\ accepted = <<>>
    /\ delivered = NoFile /\ got = <<>>
    /\ rd = [NewReader(Generous) EXCEPT !.st = "idle"]
-----------------------------------------------------------------------------
(* The writer *)

Total(s) == LET sum[k \in 0..Len(s)] == IF k = 0 THEN 0 ELSE sum[k - 1] + s[k]
            IN  sum[Len(s)]

\* write_checked, piece by piece: how many units the file limit lets through.
Allowed(pieces) ==
    LET fits == {k \in 0..Len(pieces) :
                    Len(sink) + Total(SubSeq(pieces, 1, k)) <= w.limits.file}
    IN  Total(SubSeq(pieces, 1, CHOOSE k \in fits : \A j \in fits : j <= k))

\* What may become of units written in these pieces: all of them, or a failure
\* after some, with a part of the next one if it is a fixed structure.
Outcomes(units, allowed) ==
    LET some(n) == sink \o SubSeq(units, 1, n)
        short   == {n \in 0..(Len(units) - 1) : n <= allowed}
    IN  {[ok |-> TRUE, taken |-> n, sink |-> some(n)] : n \in {Len(units)} \cap {allowed}}
        \cup {[ok |-> FALSE, taken |-> n, sink |-> some(n)] : n \in short}
        \cup {[ok |-> FALSE, taken |-> n, sink |-> Append(some(n), TornUnit)] :
                 n \in {m \in short \ {allowed} :
                          units[m + 1].t \in {"header", "record", "footer"}}}

\* StreamingWriter::new
Create ==
    /\ w.st = "new" /\ delivered = NoFile
    /\ \E out \in Outcomes(<<HeaderUnit>>, Allowed(<<1>>)) :
        /\ sink' = out.sink
        /\ w' = [w EXCEPT !.st = IF out.ok THEN "open" ELSE "gone",
                          !.hashed = IF out.ok THEN <<HeaderUnit>> ELSE @]
    /\ UNCHANGED <<job, accepted, delivered, rd, got>>

\* begin_record lets the record pass.
MayBegin(id, len) ==
    /\ w.st = "open" /\ delivered = NoFile
    /\ id # 0 /\ len <= w.limits.payload
    /\ Len(w.entries) + 1 < w.limits.records
    /\ \A e \in Range(w.entries) : e.id # id

\* Mutant: a failure does not end the writer.
WrittenStillOpen(kind, id, payload, out) ==
    /\ sink' = out.sink
    /\ w' = [w EXCEPT !.hashed = IF out.ok THEN out.sink ELSE @,
                      !.entries = IF out.taken > 0
                                  THEN Append(@, Entry(kind, id, Len(sink), Len(payload))) ELSE @]
    /\ accepted' = IF out.ok THEN Append(accepted, [kind |-> kind, id |-> id, payload |-> payload])
                   ELSE accepted
    /\ UNCHANGED <<job, delivered, rd, got>>

\* What a call has done when it returns: any failure after the checks is final.
Written(kind, id, payload, out) ==
    /\ sink' = out.sink
    /\ w' = [w EXCEPT !.st = IF out.ok THEN "open" ELSE "failed",
                      !.hashed = IF out.ok THEN @ \o SubSeq(out.sink, Len(sink) + 1, Len(out.sink))
                                 ELSE @,
                      !.entries = IF out.taken > 0
                                  THEN Append(@, Entry(kind, id, Len(sink), Len(payload))) ELSE @]
    /\ accepted' = IF out.ok THEN Append(accepted, [kind |-> kind, id |-> id, payload |-> payload])
                   ELSE accepted
    /\ UNCHANGED <<job, delivered, rd, got>>

Record(kind, id, payload) == <<RecordUnit(kind, id, Len(payload))>> \o payload

AddOpaque(id, payload) ==
    /\ MayBegin(id, Len(payload))
    /\ \E out \in Outcomes(Record("Opaque", id, payload), Allowed(<<1, Len(payload)>>)) :
          Written("Opaque", id, payload, out)

ChunkLimit(limits) == IF limits.chunk < limits.alloc THEN limits.chunk ELSE limits.alloc

\* add_opaque_from_reader: the source has the payload it was declared to have, or
\* is short or fails before a chunk.  A chunk limit of zero is found out after the
\* record's header is written, also when there is nothing to read.
AddOpaqueFromReader(id, payload) ==
    /\ MayBegin(id, Len(payload))
    /\ LET chunk == ChunkLimit(w.limits)
           chunks == IF chunk = 0 THEN 0 ELSE (Len(payload) + chunk - 1) \div chunk
           sizes == [k \in 1..chunks |-> IF k < chunks THEN chunk
                                         ELSE Len(payload) - (chunks - 1) * chunk]
           units == Record("Opaque", id, payload)
       IN  \E supplied \in 0..chunks :
             \E out \in Outcomes(units, Allowed(<<1>> \o SubSeq(sizes, 1, supplied))) :
                Written("Opaque", id, payload, [out EXCEPT !.ok = @ /\ chunk > 0])

AddManifest(id, m) ==
    /\ ShapeOk(m)
    /\ MayBegin(id, Len(EncodeManifest(m)))
    /\ \E out \in Outcomes(Record("Manifest", id, EncodeManifest(m)),
                           Allowed(<<1, Len(EncodeManifest(m))>>)) :
          Written("Manifest", id, EncodeManifest(m), out)

\* finish lets the directory be written; otherwise the writer is dropped.
MayFinish(id) ==
    /\ \E e \in Range(w.entries) : e.id = id /\ e.kind = "Manifest"
    /\ Len(EncodeDirectory(w.entries)) <= w.limits.metadata

Finish(id) ==
    /\ w.st \in {"open", "failed"} /\ delivered = NoFile
    /\ LET payload   == EncodeDirectory(w.entries)
           directory == Record("Directory", 0, payload)
           place     == [offset |-> Len(sink), len |-> 1 + Len(payload)]
           footer    == FooterUnit(place, id, Len(w.entries) + 1, w.hashed \o directory)
           counted   == Len(w.entries) + 1 <= w.limits.records
           pieces    == <<1, Len(payload)>> \o (IF counted THEN <<1>> ELSE <<>>)
       IN  IF w.st = "open" /\ MayFinish(id)
           THEN \E out \in Outcomes(Append(directory, footer), Allowed(pieces)) :
                  /\ sink' = out.sink
                  /\ w' = [w EXCEPT !.st = IF out.ok THEN "finished" ELSE "gone", !.manifest = id]
           ELSE /\ w' = [w EXCEPT !.st = "gone"]
                /\ UNCHANGED sink
    /\ UNCHANGED <<job, accepted, delivered, rd, got>>
-----------------------------------------------------------------------------
(* The way to the reader: external *)

\* Units one unit may have become.
Damaged(unit) ==
    {GarbageUnit} \cup
    CASE unit.t = "byte"   -> {[unit EXCEPT !.v = IF @ = 0 THEN 1 ELSE 0]}
      [] unit.t = "record" -> {[unit EXCEPT !.len = @ + 1], [unit EXCEPT !.id = @ + 1]}
      [] unit.t = "footer" -> {[unit EXCEPT !.count = @ + 1]}
                              \cup {[unit EXCEPT !.manifest = i] : i \in Ids \ {unit.manifest}}
      [] OTHER -> {}

\* What may have become of a file where this harm is done.
Harmed(harm, files) == {f \in files : harm \in job.harm}

\* Unharmed, with something after its end, cut, with one unit changed or lost.
Carried(file) ==
    {file}
    \cup Harmed("more", {Append(file, GarbageUnit)})
    \cup Harmed("cut", UNION {{SubSeq(file, 1, n), Append(SubSeq(file, 1, n), TornUnit)} :
                                 n \in 0..(Len(file) - 1)})
    \cup Harmed("changed", UNION {{[file EXCEPT ![i] = unit] : unit \in Damaged(file[i])} :
                                     i \in DOMAIN file})
    \cup Harmed("lost", {RemoveAt(file, i) : i \in DOMAIN file})

\* What a writer left unfinished comes as the sink took it: that is a cut already.
Deliver ==
    /\ w.st # "new" /\ delivered = NoFile
    /\ delivered' \in IF w.st = "finished" THEN Carried(sink) ELSE {sink}
    /\ rd' = NewReader(job.reader)
    /\ UNCHANGED <<writerVars, got>>

DeliverForeign ==
    /\ w.st = "new" /\ delivered = NoFile
    /\ delivered' \in ForeignFiles
    /\ rd' = NewReader(Generous)
    /\ UNCHANGED <<writerVars, got>>
-----------------------------------------------------------------------------
(* The reader *)

Fail == rd' = [rd EXCEPT !.st = "Failed"] /\ UNCHANGED got

\* check_file_budget, and the total of bytes read.
WithinBudget(n) == rd.offset + n <= rd.limits.file /\ rd.offset + n <= rd.limits.read

\* read_exact_into succeeds for the next n units.
Readable(n) ==
    /\ WithinBudget(n)
    /\ rd.offset + n <= Len(delivered)
    /\ \A i \in 1..n : delivered[rd.offset + i].t # "torn"

NextUnits(n) == Slice(delivered, rd.offset, n)
NextUnit == delivered[rd.offset + 1]

ReadHeader ==
    /\ rd.st = "Header"
    /\ IF Readable(1) /\ NextUnit = HeaderUnit
       THEN /\ rd' = [rd EXCEPT !.st = "RecordHeader", !.offset = 1, !.hashed = <<HeaderUnit>>]
            /\ UNCHANGED got
       ELSE Fail
    /\ UNCHANGED <<writerVars, delivered>>

RecordCount(unit) == rd.count + 1

\* The checks of read_record_header, of what it read.
RecordAccepted(unit) ==
    /\ IsRecord(unit, rd.limits)
    /\ \A e \in Range(rd.inventory) : e.id # unit.id
    /\ unit.kind # "Opaque" => unit.len <= rd.limits.metadata /\ unit.len <= rd.limits.alloc

ReadRecordHeader ==
    /\ rd.st = "RecordHeader"
    /\ IF /\ rd.directory = NoDirectory /\ rd.count < rd.limits.records
          /\ Readable(1) /\ RecordAccepted(NextUnit)
       THEN LET unit  == NextUnit
                entry == Entry(unit.kind, unit.id, rd.offset, unit.len)
            IN  /\ rd' = [rd EXCEPT
                     !.st = IF unit.len = 0 THEN "RecordEnd" ELSE "Payload",
                     !.count = RecordCount(unit),
                     !.offset = @ + 1, !.hashed = Append(@, unit),
                     !.inventory = IF unit.kind = "Directory" THEN @ ELSE Append(@, entry),
                     !.active = [kind |-> unit.kind, entry |-> entry, remaining |-> unit.len,
                                 metadata |-> <<>>]]
                /\ got' = Append(got, [kind |-> unit.kind, id |-> unit.id, payload |-> <<>>])
       ELSE Fail
    /\ UNCHANGED <<writerVars, delivered>>

Least(s) == CHOOSE n \in s : \A m \in s : n <= m

\* Mutant: a chunk limit of zero is not refused.
ChunkRefusedNever == rd.logical = rd.limits.logical

\* read_payload_event cannot emit even one unit.
ChunkRefused == ChunkLimit(rd.limits) = 0 \/ rd.logical = rd.limits.logical

ReadPayload ==
    /\ rd.st = "Payload"
    /\ LET len == Least({rd.active.remaining, ChunkLimit(rd.limits), rd.limits.logical - rd.logical})
       IN  IF ~ChunkRefused /\ Readable(len)
           THEN /\ rd' = [rd EXCEPT
                     !.st = IF len = rd.active.remaining THEN "RecordEnd" ELSE "Payload",
                     !.offset = @ + len, !.hashed = @ \o NextUnits(len), !.logical = @ + len,
                     !.active.remaining = @ - len,
                     !.active.metadata = IF rd.active.kind = "Opaque" THEN @ ELSE @ \o NextUnits(len)]
                /\ got' = [got EXCEPT ![Len(got)].payload = @ \o NextUnits(len)]
           ELSE Fail
    /\ UNCHANGED <<writerVars, delivered>>

FinishRecord ==
    /\ rd.st = "RecordEnd"
    /\ LET active == rd.active
           data   == active.metadata
           done   == [rd EXCEPT !.active = NoActive]
       IN  \/ /\ active.kind = "Opaque"
              /\ rd' = [done EXCEPT !.st = "RecordHeader"]
              /\ UNCHANGED got
           \/ /\ active.kind = "Manifest"
              /\ IF IsManifest(data)
                 THEN /\ rd' = [done EXCEPT !.st = "RecordHeader",
                                    !.manifests = @ \cup {[id |-> active.entry.id, m |-> data[1].m]}]
                      /\ UNCHANGED got
                 ELSE Fail
           \/ /\ active.kind = "Directory"
              /\ IF IsDirectory(data) /\ data[1].entries = rd.inventory
                 THEN /\ rd' = [done EXCEPT !.st = "Footer",
                                    !.directory = [offset |-> active.entry.offset,
                                                   len    |-> 1 + active.entry.len]]
                      /\ UNCHANGED got
                 ELSE Fail
    /\ UNCHANGED <<writerVars, delivered>>

\* Mutant: the digest is not compared.
FooterAcceptedUnhashed(footer) ==
    /\ footer.t = "footer"
    /\ footer.directory = rd.directory /\ footer.count = rd.count
    /\ \E x \in rd.manifests :
          x.id = footer.manifest /\ x.m.roots \subseteq {e.id : e \in Range(rd.inventory)}

\* The checks of read_footer before it looks for the end.
FooterAccepted(footer) ==
    /\ footer.t = "footer"
    /\ footer.directory = rd.directory /\ footer.count = rd.count
    /\ footer.digest = rd.hashed
    /\ \E x \in rd.manifests :
          x.id = footer.manifest /\ x.m.roots \subseteq {e.id : e \in Range(rd.inventory)}

\* Mutant: what follows the footer is not looked at.
AtEndAlways(offset) == TRUE

\* ensure_exact_end
AtEnd(offset) == offset = Len(delivered)

ReadFooter ==
    /\ rd.st = "Footer"
    /\ IF Readable(1) /\ FooterAccepted(NextUnit) /\ AtEnd(rd.offset + 1)
       THEN /\ rd' = [rd EXCEPT !.st = "Done", !.offset = @ + 1, !.manifest = NextUnit.manifest]
            /\ UNCHANGED got
       ELSE Fail
    /\ UNCHANGED <<writerVars, delivered>>

\* The operating system fails a read.
ReadFails ==
    /\ rd.st \in {"Header", "RecordHeader", "Payload", "Footer"}
    /\ rd' = [rd EXCEPT !.st = "Failed", !.io = TRUE]
    /\ UNCHANGED <<writerVars, delivered, got>>

NextEvent == ReadHeader \/ ReadRecordHeader \/ ReadPayload \/ FinishRecord \/ ReadFooter

Write ==
    \/ Create
    \/ \E id \in Ids, payload \in Payloads : AddOpaque(id, payload)
    \/ \E id \in Ids, payload \in Payloads : AddOpaqueFromReader(id, payload)
    \/ \E id \in Ids, m \in Manifests : AddManifest(id, m)
    \/ \E id \in Ids : Finish(id)

Next == Write \/ Deliver \/ DeliverForeign \/ NextEvent \/ ReadFails

\* A caller that has begun to read goes on until there is nothing more to read.  No
\* read has to fail.
Spec == Init /\ [][Next]_vars /\ WF_vars(NextEvent)
-----------------------------------------------------------------------------
\* What StreamingWriter finishes is, unit for unit, what the in-memory Writer makes
\* of the calls that returned Ok, whatever was refused between them: a file with a
\* footer never has a part of a record whose call failed.
StreamingMatchesMemory ==
    w.st = "finished" => sink = MemoryFile(accepted, w.manifest)

RootsExist ==
    \A r \in Range(accepted) :
        r.kind = "Manifest" /\ r.id = w.manifest =>
            r.payload[1].m.roots \subseteq {q.id : q \in Range(accepted)}

Refused == rd.st = "Failed" /\ ~rd.io /\ rd.limits = Generous

\* A Commit event means that the writer finished and the records shown before it
\* are exactly those it accepted, with their payloads; the manifest is one of
\* them.  (The footer is not under its own digest: which manifest is not known.)
\* A finished file that arrives unharmed, and whose manifest has roots that were
\* written, is read to its Commit, in whatever chunks it was written.
CommitIsGenuine ==
    /\ rd.st = "Done" /\ delivered \notin ForeignFiles =>
          /\ w.st = "finished"
          /\ Front(got) = accepted
          /\ \E r \in Range(accepted) : r.kind = "Manifest" /\ r.id = rd.manifest
    /\ Refused /\ w.st = "finished" /\ delivered = sink => ~RootsExist

\* Every finished file can be read: finish emits the footer after it has validated
\* the selected manifest, as the comment on StreamingWriter says.
FinishedIsReadable ==
    ~(Refused /\ w.st = "finished" /\ delivered = sink)

\* What the directory of a file that SourceValidator or ValidatedFile::parse accepts
\* says of its records.
Listed(file) == Slice(file, Last(file).directory.offset + 1, 1)[1].entries

\* Where the three strict readers agree about a file, whole or damaged or foreign,
\* and exactly where they do not.  The one-pass reader commits what SourceValidator
\* verifies, but decodes every manifest: it refuses a file with one that is malformed,
\* which the others notice only in the one the footer names.  ValidatedFile::parse
\* accepts what SourceValidator verifies unless it requires a capability, and besides
\* that only files with a directory record among their objects.
ReadersAgree ==
    rd.st \in {"Done", "Failed"} /\ ~rd.io /\ rd.limits = Generous =>
        /\ rd.st = "Done" <=>
              /\ Validate(delivered, Generous)
              /\ \A e \in Range(Listed(delivered)) :
                    e.kind = "Manifest" => IsManifest(Payload(delivered, e))
        /\ (/\ Validate(delivered, Generous)
            /\ ManifestOf(delivered, Listed(delivered)).required = {}) <=>
              /\ Parse(delivered, Generous)
              /\ \A e \in Range(Listed(delivered)) : e.kind # "Directory"

\* Whatever a failed writer or a cut leaves behind, salvage finds the records that
\* are complete, in their order, and nothing else but their directory.
SalvageIsExact ==
    delivered # NoFile /\ delivered \notin ForeignFiles /\ rd.st = "Header" /\ IsPrefix(delivered, sink) =>
        LET found == Salvage(delivered, Generous)
        IN  \E k \in 0..Len(w.entries) :
               /\ \A i \in DOMAIN w.entries :
                     i <= k <=> w.entries[i].offset + 1 + w.entries[i].len <= Len(delivered)
               /\ k <= Len(found) /\ SubSeq(found, 1, k) = SubSeq(w.entries, 1, k)
               /\ \A i \in (k + 1)..Len(found) : found[i].kind = "Directory"

\* A reader that is asked for event after event comes to its end, also with limits
\* that leave it nothing to read.
DrainEnds == rd.st = "Header" ~> rd.st \in {"Done", "Failed"}
=============================================================================
