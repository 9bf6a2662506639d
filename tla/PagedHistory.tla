---------------------------- MODULE PagedHistory ----------------------------
(***************************************************************************)
(* The life of a UCOF-EXP-0002 file: commits are appended, a write is cut   *)
(* off, stored units are damaged, the file is cut back to what recovery     *)
(* found, or rewritten (exp0002_rewrite.rs and the two commands of          *)
(* bin/ucof-exp0002.rs that write).  Meanwhile a lookup reads the file, one *)
(* read after the other, through Exp0002StableSource                        *)
(* (exp0002_source_version.rs) or without it.                               *)
(***************************************************************************)
EXTENDS PagedReaders

CONSTANTS
    Batches,     \* the sets of objects a caller may commit
    RootSets,    \* the sets of roots
    Probes,      \* the identifiers that are looked up
    Readers,     \* how a lookup reads that is under way: subset of {"stable", "plain"}
    Targets,     \* what such a lookup looks up
    Limits,      \* the limits of a reader
    Defaults,    \* ValidationLimits::default()
    Recovery,    \* the limits of a recovery and of a walk of the chain
    MaxCommits, MaxChanges, MaxDamage,  \* bounds on the instance
    MaxLookupChanges                    \* the bound on changes while a lookup is under way

ASSUME PagedAssumption ==
    /\ Readers \subseteq {"stable", "plain"}
    /\ MaxCommits \in Nat /\ MaxChanges \in Nat /\ MaxDamage \in Nat /\ MaxLookupChanges \in Nat

VARIABLES
    file,      \* the units stored
    version,   \* the source's version token: how often the file changed
    hurt,      \* how many units were damaged
    commits,   \* history: what was committed to this file, and where it ends
    reader     \* the lookup that is under way

vars == <<file, version, hurt, commits, reader>>

Idle == [phase |-> "idle"]

\* Object inputs: a payload may be empty, data, or a copy of the file's last footer.
Materialise(batch) ==
    {[id |-> o.id, payload |-> IF o.data = "footer" /\ file # <<>> /\ Last(file).t = "footer"
                               THEN <<Last(file)>>
                               ELSE IF o.data = "none" THEN <<>>
                               ELSE <<[t |-> "data", v |-> o.data]>>] : o \in batch}

Committed(end, objects, roots) == [end |-> end, objects |-> objects, roots |-> roots]

Init ==
    /\ file = <<>> /\ version = 0 /\ hurt = 0 /\ commits = <<>>
    /\ reader = Idle

Changes ==
    /\ version < (IF reader = Idle THEN MaxChanges ELSE MaxLookupChanges)
    /\ version' = version + 1

\* What is stored when a write of new stops: k of its units, and perhaps the first
\* bytes of the one after them.
CutOff(new) ==
    LET first(k) == SubSeq(new, 1, k)
        bytes(u) == IF u.t = "footer" THEN TornFooter ELSE Torn
    IN  {first(k) : k \in 0..(Len(new) - 1)}
        \cup {Append(first(k), bytes(new[k + 1])) : k \in 0..(Len(new) - 1)}

BuildGenesis(batch, roots) ==
    LET objects == Materialise(batch)
    IN  /\ file = <<>> /\ Changes
        /\ GenesisAllowed(objects, roots)
        /\ file' = Genesis(objects, roots)
        /\ commits' = <<Committed(Len(file'), objects, roots)>>
        /\ UNCHANGED <<hurt, reader>>

\* build_append, and its caller storing the result, in full or not.
BuildAppend(batch, roots) ==
    LET objects == Materialise(batch)
        entries == VerifiedEntries(file, Limits)
        new     == AppendCommit(file, entries, objects, roots)
    IN  /\ Len(commits) < MaxCommits /\ Changes
        /\ file # <<>> /\ Strict(file, Limits)
        /\ AppendAllowed(entries, objects, roots)
        /\ \/ /\ file' = new
              /\ commits' = Append(commits, Committed(Len(new), Last(commits).objects \cup objects,
                                                      roots))
           \/ /\ file' \in {cut \in CutOff(new) : Len(cut) > Len(file)}
              /\ UNCHANGED commits
        /\ UNCHANGED <<hurt, reader>>

\* rewrite_verified: what of the file's objects is retained, as a new genesis.
Retained(entries, retained) ==
    {[id |-> e.min, payload |-> Slice(file, e.offset + 1, e.len - 1)] :
        e \in {x \in Range(entries) : x.min \in retained}}

RewriteAllowed(entries, retained, roots) ==
    /\ retained # {} /\ roots # {} /\ roots \subseteq retained
    /\ retained \subseteq {e.min : e \in Range(entries)}

\* rewrite_selected_to_new_file with write_new_output; repair_all_to_new_file is the
\* rewrite that retains everything.  The caller goes on with the output.
Rewrite(retained, roots) ==
    LET entries == VerifiedEntries(file, Limits)
        new     == Genesis(Retained(entries, retained), roots)
    IN  /\ Changes /\ file # <<>> /\ Strict(file, Limits)
        /\ RewriteAllowed(entries, retained, roots) /\ Strict(new, Limits)
        /\ \/ /\ file' = new
              /\ commits' = <<Committed(Len(new), {o \in Last(commits).objects : o.id \in retained},
                                        roots)>>
           \/ file' \in CutOff(new) /\ commits' = <<>>
        /\ hurt' = 0
        /\ UNCHANGED reader

RepairAll == LET entries == VerifiedEntries(file, Limits)
             IN  /\ file # <<>> /\ Strict(file, Limits)
                 /\ Rewrite({e.min : e \in Range(entries)}, VerifiedRoots(file))

\* The caller cuts the file back to the newest prefix recovery reports.
AdoptLatest ==
    LET report == ScanPrefixes(file, Limits, Recovery)
        last   == report.footers[1]
    IN  /\ Changes /\ report.res = "found" /\ report.footers # <<>>
        /\ last + 1 < Len(file)
        /\ file' = Prefix(file, last)
        /\ commits' = SelectSeq(commits, LAMBDA c : c.end <= last + 1)
        /\ UNCHANGED <<hurt, reader>>

Damage(i) ==
    /\ hurt < MaxDamage /\ Changes /\ i \in DOMAIN file
    /\ file' = [file EXCEPT ![i] = Garbage]
    /\ hurt' = hurt + 1
    /\ UNCHANGED <<commits, reader>>

-----------------------------------------------------------------------------
(* A lookup makes one read at a time.  Exp0002StableSource compares the        *)
(* version before and after each; a change between the first comparison and    *)
(* the read is found by the second, so the first is made together with the     *)
(* read.  opened and ended are history: what the file would have answered when *)
(* the lookup began, and what the file would have answered when the lookup     *)
(* read its footer, up to the length and behind the header it read before.     *)

\* Mutant: no comparison of versions.
UncheckedRead(r) == TRUE

\* Exp0002StableSource::ensure_stable
EnsureStable(r) == r.by = "stable" => r.token = version

ReaderOpen(id, by) ==
    /\ reader = Idle /\ file # <<>> /\ version < MaxLookupChanges
    /\ reader' = [phase |-> "read", by |-> by, id |-> id, token |-> version, log |-> <<>>,
                  opened |-> Lookup(file, id, Limits), ended |-> Error, answer |-> Error]
    /\ UNCHANGED <<file, version, hurt, commits>>

\* The lookup returns: what it has read is dropped.
Answered(r, answer) == [r EXCEPT !.phase = "done", !.log = <<>>, !.answer = answer]

\* len or read_exact_at up to the read; a read that the file is too short for fails.
ReaderRead ==
    LET next == LookupNext(reader.log, reader.id, Limits)
        read == IF next.res = "length" THEN Len(file) ELSE Slice(file, next.offset, next.len)
        ended == IF Len(reader.log) = 2
                 THEN Lookup(reader.log[2] \o SubSeq(file, 2, reader.log[1]), reader.id, Limits)
                 ELSE reader.ended
    IN  /\ reader.phase = "read" /\ next.res \in {"length", "ask"}
        /\ reader' = IF \/ ~EnsureStable(reader)
                        \/ next.res = "ask" /\ next.offset + next.len > Len(file)
                     THEN Answered(reader, Error)
                     ELSE [reader EXCEPT !.phase = "check", !.log = Append(@, read),
                                         !.ended = ended]
        /\ UNCHANGED <<file, version, hurt, commits>>

\* The comparison after the read.
ReaderCheck ==
    /\ reader.phase = "check"
    /\ reader' = IF EnsureStable(reader) THEN [reader EXCEPT !.phase = "read"]
                 ELSE Answered(reader, Error)
    /\ UNCHANGED <<file, version, hurt, commits>>

\* lookup_authenticated_at has read enough.
ReaderAnswer ==
    LET next == LookupNext(reader.log, reader.id, Limits)
    IN  /\ reader.phase = "read" /\ next.res \notin {"length", "ask"}
        /\ reader' = Answered(reader, next)
        /\ UNCHANGED <<file, version, hurt, commits>>

ReaderDone ==
    /\ reader.phase = "done" /\ reader' = Idle
    /\ UNCHANGED <<file, version, hurt, commits>>

Next ==
    \/ \E batch \in Batches, roots \in RootSets :
        BuildGenesis(batch, roots) \/ BuildAppend(batch, roots)
    \/ \E retained, roots \in RootSets : Rewrite(retained, roots)
    \/ RepairAll
    \/ AdoptLatest
    \/ \E i \in DOMAIN file : Damage(i)
    \/ \E id \in Targets, by \in Readers : ReaderOpen(id, by)
    \/ ReaderRead \/ ReaderCheck \/ ReaderAnswer \/ ReaderDone

Spec == Init /\ [][Next]_vars
-----------------------------------------------------------------------------
(* What the readers promise, in terms of what was committed.  Whatever a file   *)
(* becomes while a lookup is under way, it also becomes without the lookup, so  *)
(* the properties of a file are stated of the states with no lookup.            *)

Whole(from, to) == \A i \in from..to : i \in DOMAIN file /\ file[i].t \notin {"garbage", "torn"}

\* The first unit of commit i, as an index.
Start(i) == IF i = 1 THEN 1 ELSE commits[i - 1].end + 1

\* Where an object was stored: by the first commit that has it.
RecordOf(o) ==
    LET i == CHOOSE j \in DOMAIN commits : /\ o \in commits[j].objects
                                           /\ j = 1 \/ o \notin commits[j - 1].objects
        new == {p \in commits[i].objects : i = 1 \/ p \notin commits[i - 1].objects}
        before == {p \in new : p.id < o.id}
        first == Start(i) + (IF i = 1 THEN 1 ELSE 0)
                 + Sums([k \in 1..Cardinality(before) |-> 1 + Len(ByIdentifier(before)[k].payload)])
    IN  [from |-> first, to |-> first + Len(o.payload)]

\* What a commit needs to be readable at all, and to be valid in full.
Reachable(i) ==
    /\ Whole(1, 1) /\ Whole(Start(i), commits[i].end)
    /\ i > 1 => Whole(commits[i - 1].end, commits[i - 1].end)

Intact(i) ==
    Reachable(i) /\ \A o \in commits[i].objects : Whole(RecordOf(o).from, RecordOf(o).to)

Contents(prefix) ==
    {[id |-> e.min, payload |-> Tail(e.digest)] : e \in Range(VerifiedEntries(prefix, Limits))}

\* StrictExact: validate_strict and validate_strict_at accept a prefix of the file
\* exactly when a commit ended there whose header, units, previous footer and
\* objects are undamaged, and report the objects, the roots and the number of that
\* commit: no cut, damaged unit or footer inside a payload makes another.
StrictExact ==
    reader = Idle => \A k \in 1..Len(file) :
        LET prefix == SubSeq(file, 1, k)
            good == {i \in DOMAIN commits : commits[i].end = k /\ Intact(i)}
        IN  /\ Strict(prefix, Limits) <=> good # {}
            /\ StrictAt(prefix, Limits) <=> good # {}
            /\ \A i \in good : /\ Contents(prefix) = commits[i].objects
                               /\ VerifiedRoots(prefix) = commits[i].roots
                               /\ Last(prefix).semantics.sequence = i - 1

\* What a lookup of id must answer for the last commit.
Expected(id) ==
    LET c == Last(commits)
        there == {o \in c.objects : o.id = id}
    IN  IF id = 0 \/ commits = <<>> \/ c.end # Len(file) \/ ~Reachable(Len(commits)) THEN Error
        ELSE IF there = {} THEN NotThere
        ELSE IF \A o \in there : Whole(RecordOf(o).from, RecordOf(o).to)
        THEN [res |-> "found", payload |-> (CHOOSE o \in there : TRUE).payload]
        ELSE Error

Answer(a) ==
    IF a.res = "found" THEN [res |-> "found", payload |-> Tail(a.entry.digest)] ELSE a

\* LookupExact: lookup_authenticated and lookup_authenticated_at answer alike; they
\* find an object, or find that there is none, exactly when the last commit is
\* undamaged and so is that object's record, whatever happened to other objects and
\* to older commits.
LookupExact ==
    reader = Idle /\ file # <<>> => \A id \in Probes :
        /\ Answer(Lookup(file, id, Limits)) = Expected(id)
        /\ Answer(LookupAt(file, id, Limits)) = Expected(id)

\* What one validation of an intact commit reads: the header, the footer and the
\* snapshot, the previous footer, the pages, each record and once more its header, and
\* the units of the commit.
Cost(i) ==
    LET pages == {k \in Start(i)..commits[i].end : file[k].t = "page"}
        sorted == ByIdentifier(commits[i].objects)
    IN  3 + (IF i > 1 THEN 1 ELSE 0) + Cardinality(pages)
        + Sums([k \in DOMAIN sorted |-> 2 + Len(sorted[k].payload)])
        + commits[i].end - Start(i)

\* RecoveryExact: the three scans report the footers of exactly the intact commits,
\* the newest first, unless a limit stops them, and a limit never shortens a report.
\* The limits on the window, the matches, the attempts and the results stop all three
\* alike.  The limit on the units read stops the source scans alone: a scan of
\* exp0002_source_recovery.rs that ends could pay for each intact commit, and at least
\* for the header and the footer of every other prefix it tried; one that is stopped
\* was given less than four readings of each prefix.  The scan of
\* exp0002_source_strict.rs is stopped exactly when it could not pay for the intact
\* commits.
RecoveryExact ==
    LET intact == {i \in DOMAIN commits : Intact(i) /\ commits[i].end > Len(file) - Recovery.scan}
        newest == Reverse(Sorted(intact, LAMBDA i : i))
        footers == [k \in DOMAIN newest |-> commits[newest[k]].end - 1]
        tried == Complete(file, Magic(file, Recovery.scan))
        valid == Sums([k \in DOMAIN newest |-> Cost(newest[k])])
        least == valid + 2 * (Len(tried) - Len(newest))
        most  == 4 * Sums([k \in DOMAIN tried |-> tried[k] + 1])
        a == ScanPrefixes(file, Limits, Recovery)
        b == ScanStrictAt(file, Limits, Recovery)
        c == ScanSourceAt(file, Limits, Recovery)
    IN  reader = Idle /\ file # <<>> =>
        /\ a.res = "found" => a.footers = footers
        /\ Len(footers) > Recovery.results => a = Error
        /\ b = IF valid <= Recovery.read THEN a ELSE Error
        /\ c \in {a, Error}
        /\ c # Error => least <= Recovery.candidates
        /\ c # a => most > Recovery.candidates

\* HistoryExact: from a valid end both walks list every commit back to the first, or
\* refuse.  The walk in memory refuses exactly when an older commit is damaged or there
\* are more than the depth allows; the walk of a source refuses then too, and otherwise
\* exactly when it cannot pay for reading every commit with all its objects.
HistoryExact ==
    LET ends == Reverse([i \in DOMAIN commits |-> commits[i].end - 1])
        full == IF \A i \in DOMAIN commits : Intact(i)
                THEN [res |-> "found", footers |-> ends] ELSE Error
        paid == Sums([i \in DOMAIN commits |-> Cost(i)]) <= Recovery.chain
    IN  reader = Idle /\ file # <<>> /\ Strict(file, Limits) =>
        LET a == ChainFrom(file, Len(file) - 1, <<>>, Limits, Defaults, Recovery.depth)
            b == ChainAt(file, Len(file), <<>>, 0, Limits, Recovery)
        IN  /\ a = IF Len(commits) <= Recovery.depth THEN full ELSE Error
            /\ b = IF a = Error \/ paid THEN a ELSE Error

\* AnswerIsOfOneVersion: a lookup during which the file was replaced, cut, extended or
\* damaged between any two reads answers, when it answers at all, as the file it read
\* its footer from would have been answered up to the length it read first: pages and
\* records of other versions never pass for it.  One that reads through
\* Exp0002StableSource answers for the file it was opened on.
AnswerIsOfOneVersion ==
    reader.phase = "done" /\ reader.answer # Error =>
        /\ reader.answer = reader.ended
        /\ reader.by = "stable" => reader.answer = reader.opened
=============================================================================
