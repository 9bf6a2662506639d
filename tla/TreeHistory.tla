----------------------------- MODULE TreeHistory -----------------------------
(***************************************************************************)
(* The life of an immutable-successor file: it is created, commits are      *)
(* appended by a full rebuild or by copying the path to one entry, a write  *)
(* is cut off, stored units are damaged, the file is cut back to what a     *)
(* recovery scan found, or rewritten.  Meanwhile an operation reads it      *)
(* through a source, and an application decides by evaluate_freshness       *)
(* (freshness.rs) which of the snapshots it saw it goes on with.            *)
(***************************************************************************)
EXTENDS TreePaths

CONSTANTS
    Genesis,     \* the sets of objects a file is created with
    Puts,        \* the objects that are replaced later
    Updates,     \* the batches [puts, deletes] whose tails are compared
    Published,   \* those of them that are applied to the file
    Planned,     \* those that are planned from a source that may change
    Selections,  \* the sets of identifiers a rewrite retains
    Sequences,   \* the sequences of snapshots a rewrite of the history retains
    Probes,      \* the identifiers that are looked up
    Kinds,       \* the operations that read in parts
    Limits,      \* the limits of every reader
    Budgets,     \* smaller limits on read operations
    MaxCommits, MaxChanges, MaxDamage  \* bounds on the instance

ASSUME HistoryAssumption ==
    /\ MaxCommits \in Nat /\ MaxChanges \in Nat /\ MaxDamage \in Nat
    /\ Kinds \subseteq {"lookup", "strict", "history", "scan", "inventory", "copy", "copySequence",
                       "chain", "plan"}
    /\ Published \subseteq Updates /\ Planned \subseteq Updates

VARIABLES
    file,     \* the units stored
    written,  \* history: what was meant to be stored
    commits,  \* history: where the commits of written end, and their objects
    changes,  \* how often file changed
    hurt,     \* how often it was damaged
    op,       \* the operation that is under way, and what its source holds
    trusted   \* TrustedFreshnessCheckpoint

vars == <<file, written, commits, changes, hurt, op, trusted>>

Idle == [kind |-> "none"]

\* A payload may be data, or a copy of the file's last footer.
Materialise(o) ==
    [o EXCEPT !.payload = [i \in DOMAIN @ |-> IF @[i].t = "copy" THEN Last(file) ELSE @[i]]]

Unpinned == [sequence |-> -1]

Init ==
    /\ file = <<>> /\ written = <<>> /\ commits = <<>> /\ changes = 0 /\ hurt = 0
    /\ op = Idle /\ trusted = Unpinned

Materialised(u) == {Materialise(o) : o \in u.puts}

\* The planner an application takes for a batch, by what the file held when it began.
PlanAt(src, u, limits) ==
    LET base   == ValidateInternal(src[1].content, limits)
        active == IF base.st = "ok" THEN Ids(Range(base.locators)) ELSE {}
        n      == Cardinality(u.puts) + Cardinality(u.deletes)
    IN  IF n > 1 /\ u.deletes # {} THEN PlanMixedTailAt(src, u.puts, u.deletes, limits)
        ELSE IF u.deletes # {} THEN PlanDeletionTailAt(src, CHOOSE id \in u.deletes : TRUE, limits)
        ELSE IF Ids(u.puts) \subseteq active THEN PlanReplacementTailAt(src, u.puts, limits)
        ELSE IF n = 1 THEN PlanInsertionTailAt(src, CHOOSE o \in u.puts : TRUE, limits)
        ELSE PlanPutBatchTailAt(src, u.puts, limits)

\* What a copy into a sink returns, of all that is active or of a selection of genesis.
Copied(o) ==
    IF o.kind = "copy" THEN RewriteVersionedSourceTo(o.src, Limits, Limits.file)
    ELSE RewriteVersionedSourceSequenceSelectedTo(o.src, 0, o.target, Limits, Limits.file)

\* What the operation returns: [r, ...].
Result(o) ==
    CASE o.kind = "lookup"    -> LookupAtAsync(o.src, o.target, Limits)
      [] o.kind = "strict"    -> ValidateSourceAtAsync(o.src, Limits)
      [] o.kind = "history"   -> ValidateSourceHistoryAsync(o.src, Limits)
      [] o.kind = "scan"      -> ScanSourceRecoveryAsync(o.src, Limits)
      [] o.kind = "inventory" -> InventorySourceAt(o.src, Limits)
      [] o.kind \in {"copy", "copySequence"} -> Copied(o)
      [] o.kind = "chain" ->
            RewriteVersionedSourceSelectedHistoryTo(o.src, o.target, Limits, Limits.file)
      [] o.kind = "plan"      -> PlanAt(o.src, o.target, Limits)

Targets(kind) == CASE kind = "lookup" -> Probes [] kind = "chain" -> Sequences
                   [] kind = "plan" -> Planned
                   [] kind = "copySequence" -> {SetToSeq(ids) : ids \in Selections}
                   [] OTHER -> {0}

\* An operation, with how often it reads the source or looks at it if that does not change.
Started(o) == o @@ [looks |-> Result(o).r.reads]

\* No operation looks at what the application trusts, so they are begun while it trusts nothing.
Begin(kind, target) ==
    /\ op = Idle /\ trusted = Unpinned /\ file # <<>> /\ hurt = 0 /\ changes < MaxChanges
    /\ op' = Started([kind |-> kind, target |-> target,
                      src |-> <<[from |-> 1, content |-> file]>>])
    /\ UNCHANGED <<file, written, commits, changes, hurt, trusted>>

\* The source changes once under an operation.
MayChange == changes < MaxChanges /\ (op # Idle => Len(op.src) = 1)

\* The content of the file becomes new, under an operation before one of the reads or looks
\* at the version it makes.
Become(new) ==
    /\ MayChange /\ changes' = changes + 1
    /\ file' = new
    /\ IF op = Idle THEN op' = op
       ELSE \E k \in 1..op.looks :
                op' = [op EXCEPT !.src = Append(@, [from |-> k, content |-> new])]

Return ==
    /\ op # Idle /\ op' = Idle
    /\ UNCHANGED <<file, written, commits, changes, hurt, trusted>>

\* What is stored when the write of new stops: k of its units, and perhaps the first bytes
\* of the one after them.
CutOff(new) ==
    LET first(k) == SubSeq(new, 1, k)
        bytes(u) == IF u.t = "footer" THEN TornFooter ELSE Torn
    IN  {first(k) : k \in Len(file)..(Len(new) - 1)}
        \cup {Append(first(k), bytes(new[k + 1])) : k \in Len(file)..(Len(new) - 1)}

\* Units that follow those of file in new are meant as they are.
Meant(new) == SubSeq(written, 1, Len(file)) \o SubSeq(new, Len(file) + 1, Len(new))

\* The file that has one commit more takes the place of the old one.
Supersede(new, objects) ==
    /\ Become(new) /\ written' = Meant(new)
    /\ commits' = Append(commits, [end |-> Len(new), objects |-> objects])
    /\ UNCHANGED <<hurt, trusted>>

\* The caller of a writer stores its output, which has one commit more.  A write that is cut
\* off is one to a file, where no operation of a versioned source is under way.
Commit(new, objects) ==
    \/ Supersede(new, objects)
    \/ /\ written' = Meant(new)
       /\ op = Idle /\ \E cut \in CutOff(new) : cut # file /\ Become(cut)
       /\ UNCHANGED <<commits, hurt, trusted>>

Create(objects) ==
    /\ MayChange /\ file = <<>> /\ GenesisAllowed(objects)
    /\ Commit(BuildGenesis(objects), objects)

Active == ValidateInternal(file, Limits)
ActiveObjects == {InputFrom(file, l) : l \in Range(Active.locators)}
Writable == MayChange /\ file # <<>> /\ Len(commits) \in 1..(MaxCommits - 1) /\ Active.st = "ok"

With(objects, puts, deletes) ==
    {o \in objects : o.id \notin Ids(puts) \cup deletes} \cup puts

Replace(put) ==
    LET o == Materialise(put)
    IN  /\ Writable /\ o.id \in Ids(Range(Active.locators))
        /\ \/ Commit(AppendReplacement(file, Range(Active.locators), o),
                     With(Last(commits).objects, {o}, {}))
           \/ Commit(PersistentReplacement(file, o), With(Last(commits).objects, {o}, {}))

Batch(u) ==
    /\ Writable /\ BatchAllowed(Range(Active.locators), Materialised(u), u.deletes)
    /\ Commit(AppendBatch(file, Range(Active.locators), Materialised(u), u.deletes),
              With(Last(commits).objects, Materialised(u), u.deletes))

StoreStream(made, objects) == made.r.st = "ok" /\ Supersede(made.out, objects)

\* The caller streams a batch into a new file and publishes that in place of the old one.
StreamBatch(u) ==
    /\ Writable
    /\ StoreStream(AppendPersistentBatchTo(file, Materialised(u), u.deletes, Limits, 2 * Limits.file),
                   With(Last(commits).objects, Materialised(u), u.deletes))

\* rewrite_selected, and rewrite_all, which selects everything: the file becomes a new one.
Rewrite(selected) ==
    /\ MayChange /\ file # <<>> /\ Len(commits) > 1 /\ Active.st = "ok"
    /\ RewriteAllowed(Range(Active.locators), selected)
    /\ LET new == RewriteFrom(file, Range(Active.locators), selected)
       IN  /\ ValidateInternal(new, Limits).st = "ok"
           /\ Become(new) /\ written' = new
           /\ commits' = <<[end |-> Len(new), objects |->
                                {o \in Last(commits).objects : o.id \in selected}]>>
    /\ hurt' = 0
    /\ UNCHANGED trusted

RewriteAll == MayChange /\ file # <<>> /\ Active.st = "ok" /\ Rewrite(Ids(Range(Active.locators)))

\* The caller stores what rewrite_source_selected_history made of some snapshots.
StoreHistory(made, selected) ==
    /\ made.r.st = "ok"
    /\ Become(made.out) /\ written' = made.out
    /\ LET ends == SelectSeq([i \in DOMAIN made.out |-> i],
                             LAMBDA i : /\ made.out[i].t = "footer" /\ made.out[i].snapshot + 2 = i
                                        /\ made.out[i - 1] = made.out[i].digest)
       IN  commits' = [i \in DOMAIN ends |->
                        [end |-> ends[i], objects |-> commits[SortSeq(selected, <)[i] + 1].objects]]
    /\ hurt' = 0
    /\ UNCHANGED trusted

RewriteHistory(selected) ==
    /\ op = Idle /\ MayChange /\ file # <<>> /\ Len(commits) > 1
    /\ StoreHistory(RewriteSourceSelectedHistory(<<[from |-> 1, content |-> file]>>, selected, Limits),
                    selected)

\* The caller cuts the file back to the newest candidate.
Adopt ==
    LET scan == ScanRecoveryCandidates(file, Limits)
        to   == scan.found.candidates[1].footer + 1
    IN  /\ op = Idle /\ MayChange /\ file # <<>> /\ scan.st = "ok" /\ scan.found.candidates # <<>>
        /\ to < Len(file)
        /\ Become(SubSeq(file, 1, to))
        /\ written' = SubSeq(written, 1, to)
        /\ commits' = SelectSeq(commits, LAMBDA c : c.end <= to)
        /\ UNCHANGED <<hurt, trusted>>

\* Stored units go bad.  A strong version names one content, so this is a change no reader
\* under way could be told of.
Damage(i) ==
    /\ op = Idle /\ hurt < MaxDamage /\ i \in DOMAIN file /\ hurt' = hurt + 1
    /\ Become([file EXCEPT ![i] = Garbage])
    /\ UNCHANGED <<written, commits, trusted>>

-----------------------------------------------------------------------------

\* Mutant: an equal sequence is taken for the same snapshot.
SequenceOnly(candidate, checkpoint) ==
    IF checkpoint = Unpinned THEN "unpinned"
    ELSE IF candidate.sequence < checkpoint.sequence THEN "rollback"
    ELSE IF candidate.sequence = checkpoint.sequence THEN "current" ELSE "advances"

EvaluateFreshness(candidate, checkpoint) ==
    IF checkpoint = Unpinned THEN "unpinned"
    ELSE IF candidate.sequence < checkpoint.sequence THEN "rollback"
    ELSE IF candidate.sequence > checkpoint.sequence THEN "advances"
    ELSE IF candidate.snapshot = checkpoint.snapshot THEN "current" ELSE "fork"

\* The application validates the file and goes on with it, or refuses it.
Accept ==
    /\ op = Idle /\ file # <<>> /\ hurt = 0 /\ Active.st = "ok"
    /\ EvaluateFreshness(Active.report, trusted) \in {"unpinned", "advances"}
    /\ trusted' = [sequence |-> Active.report.sequence, snapshot |-> Active.report.snapshot]
    /\ UNCHANGED <<file, written, commits, changes, hurt, op>>

Next ==
    \/ \E objects \in Genesis : Create(objects)
    \/ \E put \in Puts : Replace(put)
    \/ \E u \in Published : Batch(u) \/ StreamBatch(u)
    \/ \E selected \in Selections : Rewrite(selected)
    \/ RewriteAll
    \/ \E selected \in Sequences : RewriteHistory(selected)
    \/ Adopt
    \/ \E i \in DOMAIN file : Damage(i)
    \/ \E kind \in Kinds : \E target \in Targets(kind) : Begin(kind, target)
    \/ Return
    \/ Accept

Spec == Init /\ [][Next]_vars

-----------------------------------------------------------------------------
(* What the readers must find, told from what was written.                    *)

RECURSIVE PagesBelow(_)
PagesBelow(at) ==
    LET page == At(written, at)
    IN  {at} \cup IF page.level = 0 THEN {}
                  ELSE UNION {PagesBelow(page.entries[i].offset) : i \in DOMAIN page.entries}

\* The pages on the way to id.
RECURSIVE PathTo(_, _)
PathTo(at, id) ==
    LET page == At(written, at)
    IN  {at} \cup IF page.level = 0 THEN {}
                  ELSE UNION {PathTo(page.entries[i].offset, id) : i \in
                                {j \in DOMAIN page.entries :
                                    id \in page.entries[j].min..page.entries[j].max}}

FooterOf(i) == written[commits[i].end]
RootOf(i) == FooterOf(i).digest.root.offset
LeafEntries(pages) ==
    UNION {Range(At(written, p).entries) : p \in {q \in pages : At(written, q).level = 0}}

\* The units every reader of commit i depends on, and those of some pages and records.
EnvelopeOf(i) ==
    {0} \cup (CommitStart(FooterOf(i))..(commits[i].end - 1))
        \cup (IF FooterOf(i).previous = Absent THEN {} ELSE {FooterOf(i).previous})
Needs(i) ==
    EnvelopeOf(i) \cup PagesBelow(RootOf(i))
        \cup UNION {RecordUnits(l) : l \in LeafEntries(PagesBelow(RootOf(i)))}
NeedsFor(i, id) ==
    EnvelopeOf(i) \cup PathTo(RootOf(i), id)
        \cup UNION {RecordUnits(l) : l \in {x \in LeafEntries(PathTo(RootOf(i), id)) : x.id = id}}

Unhurt(offsets) ==
    \A o \in offsets : o < Len(file) /\ At(file, o) = At(written, o)
Intact(i) == Unhurt(Needs(i))

\* The commit that ends where the file ends.
EndsWith == {i \in DOMAIN commits : commits[i].end = Len(file)}

Still == op = Idle /\ file # <<>>
Whole == <<[from |-> 1, content |-> file]>>

\* What validate found in memory, over the commits that may be found.
StrictIs(memory, found) ==
    /\ (memory.st = "ok") <=> (found # {})
    /\ \A i \in found : /\ {InputFrom(file, l) : l \in Range(memory.locators)} = commits[i].objects
                        /\ memory.report.sequence = i - 1
    /\ \A strict \in {ValidateSourceAt(Whole, Limits), ValidateSourceAtAsync(Whole, Limits)} :
            IF memory.st = "ok"
            THEN /\ strict.r.st = "ok"
                 /\ strict.report = memory.report /\ strict.locators = memory.locators
            ELSE strict.r.st = "format"

\* validate, validate_source_at and validate_source_at_async: a file is accepted exactly when
\* it ends with a commit all of whose units, old pages and old records among them, are what
\* was written; then all three report that commit and its objects.
StrictExact == Still => StrictIs(Active, {i \in EndsWith : Intact(i)})

LookupIs(id, lookup, found) ==
    /\ lookup.r.st = IF found # {} THEN "ok" ELSE "format"
    /\ \A i \in found :
            /\ lookup.answer.sequence = i - 1 /\ lookup.answer.snapshot = FooterOf(i).digest
            /\ {InputFrom(file, l) : l \in Range(lookup.answer.found)}
                    = {o \in commits[i].objects : o.id = id}

\* lookup_at and lookup_at_async: a lookup answers exactly when the commit, the pages on
\* the way and the record found are what was written, whatever happened to the rest, and
\* answers with the object of the newest commit, or that it has none.
LookupExact ==
    Still => \A id \in Probes :
        \A lookup \in {LookupAt(Whole, id, Limits), LookupAtAsync(Whole, id, Limits)} :
            LookupIs(id, lookup, {i \in EndsWith : Unhurt(NeedsFor(i, id))})

HistoryIs(memory, listed, allowed) ==
    /\ (memory.st = "ok") <=> allowed
    /\ \A history \in listed : (history.r.st = "ok") <=> allowed
    /\ allowed =>
        /\ [k \in DOMAIN memory.entries |-> memory.entries[k].footer + 1]
                = Reverse([i \in 1..Len(memory.entries) |-> commits[i].end])
        /\ \A history \in listed : history.entries = memory.entries

\* validate_history, validate_source_history and its asynchronous form: the history is
\* accepted exactly when the commit at the end and every one before it is intact, and the
\* limit on it allows as many; all list them newest first.
HistoryExact ==
    Still => HistoryIs(ValidateHistory(file, Limits),
                       {ValidateSourceHistory(Whole, Limits), ValidateSourceHistoryAsync(Whole, Limits)},
                       \E n \in EndsWith : n <= Limits.history /\ \A i \in 1..n : Intact(i))

\* What a scan found, when tried are the places it may try and good those that end a commit.
ScanIs(memory, places, tried, good) ==
    LET listed == SubSeq(good, 1, Least(Len(good), Limits.candidates))
    IN  /\ memory.st = "ok"
        /\ [k \in DOMAIN memory.found.candidates |-> memory.found.candidates[k].footer] = listed
        /\ memory.found.candidatesTruncated = (Len(good) > Len(listed))
        /\ ~memory.found.candidatesTruncated =>
                memory.found.attemptsTruncated = (Len(places) > Len(tried))
        /\ \A scan \in {ScanSourceRecovery(Whole, Limits), ScanSourceRecoveryAsync(Whole, Limits)} :
                scan.r.st = "ok" /\ scan.found = memory.found

\* scan_recovery_candidates and its two source forms: of the places in the window where a
\* footer may begin (footers, torn footers, copies of footers in payloads), the last ones
\* first and no more than the attempts allow, exactly those that end an intact commit are
\* candidates, and a scan that had to leave some out says so.
RecoveryExact ==
    Still =>
        LET from   == Len(file) - Least(Len(file), Limits.scan)
            places == Reverse(SetToSortSeq({o \in from..(Len(file) - 1) : HasFooterMagic(At(file, o))}, <))
            tried  == SubSeq(places, 1, Least(Len(places), Limits.attempts))
        IN  ScanIs(ScanRecoveryCandidates(file, Limits), places, tried,
                   SelectSeq(tried, LAMBDA o :
                                \E i \in DOMAIN commits : commits[i].end = o + 1 /\ Intact(i)))

\* What the operation promises, without the reader.
Promise(result) ==
    IF result.r.st # "ok" THEN <<>>
    ELSE CASE "answer" \in DOMAIN result  -> <<result.answer>>
           [] "report" \in DOMAIN result  -> <<result.report, result.locators>>
           [] "entries" \in DOMAIN result -> <<result.entries>>
           [] "found" \in DOMAIN result   -> <<result.found>>
           [] "out" \in DOMAIN result     -> <<result.out>>
           [] "tail" \in DOMAIN result    -> <<result.identity, result.tail>>

Wrote(s, out) == s.r.st = "ok" /\ s.out = out

\* What the writers make of all that is active, streams, and of a selection of it.
AllOfIt(memory, streams) ==
    \A s \in streams :
        IF memory.st = "ok"
        THEN Wrote(s, BuildGenesis({InputFrom(file, l) : l \in Range(memory.locators)}))
        ELSE s.out = <<>>

SelectionOf(memory, ids, s) ==
    IF RewriteAllowed(Range(memory.locators), ids)
    THEN Wrote(s, RewriteFrom(file, Range(memory.locators), ids))
    ELSE s.r.st \in {"format", "missing"} /\ s.out = <<>>

\* The writers that make a new file of what is active, in memory, into a sink, from the
\* file in memory or from a bounded source, all of it or a selection, of the newest commit or
\* of an older one, write the same units; the selected history is streamed as it is built.
SinksAgree ==
    Still =>
        /\ AllOfIt(Active, {RewriteActiveFileTo(file, Limits, Limits.file),
                            RewriteVersionedSourceTo(Whole, Limits, Limits.file)})
        /\ Active.st = "ok" =>
            /\ Wrote(WriteGenesisTo(ActiveObjects, Limits, Limits.file), BuildGenesis(ActiveObjects))
            /\ \A ids \in Selections :
                \A s \in {RewriteVersionedSourceSelectedTo(Whole, SetToSeq(ids), Limits, Limits.file),
                          RewriteSelectedActiveFileTo(file, SetToSeq(ids), Limits, Limits.file)} :
                    SelectionOf(Active, ids, s)
            /\ ValidateHistory(file, Limits).st = "ok" => \A i \in DOMAIN commits :
                Wrote(RewriteVersionedSourceSequenceTo(Whole, i - 1, Limits, Limits.file),
                      BuildGenesis(commits[i].objects))

\* What a batch makes of the file before, streamed, planned and read again.
TailAgrees(before, puts, deletes, stream, plan, after) ==
    /\ stream.r.st = plan.r.st
    /\ stream.r.st = "ok" <=> BatchAllowed(Range(before.locators), puts, deletes)
    /\ stream.r.st = "ok" =>
            /\ plan.identity \o plan.tail = stream.out
            /\ after.st = "ok" /\ after.report.sequence = before.report.sequence + 1
            /\ {InputFrom(stream.out, l) : l \in Range(after.locators)}
                    = With({InputFrom(file, l) : l \in Range(before.locators)}, puts, deletes)
    /\ stream.r.st # "ok" => stream.out = <<>>
    /\ \A o \in puts : puts = {o} /\ deletes = {} =>
            /\ AppendPersistentPutBatchTo(file, puts, Limits, 2 * Limits.file).out = stream.out
            /\ o.id \in Ids(Range(before.locators)) => stream.out = PersistentReplacement(file, o)

StreamAgrees(before, puts, deletes, stream) ==
    TailAgrees(before, puts, deletes, stream,
               PlanAt(Whole, [puts |-> puts, deletes |-> deletes], Limits),
               ValidateCanonical(stream.out, Limits))

\* append_persistent_batch_to, which streams a tail behind the base, and the planners of
\* tails from a versioned source, for insertions, replacements, batches of puts, deletions
\* and mixed batches: the base is never copied into the plan, its offsets are those of the
\* file the tail will end, and that file is valid, canonical and holds the objects of the
\* base with the batch applied.  What one refuses the other refuses, with the same error,
\* and only for the batch's own sake.  A batch of one put is the insertion or the
\* replacement it amounts to, and a replacement is append_persistent_batch's.
TailsAgree ==
    Still /\ Active.st = "ok" => \A u \in Updates :
        StreamAgrees(Active, Materialised(u), u.deletes,
            AppendPersistentBatchTo(file, Materialised(u), u.deletes, Limits, 2 * Limits.file))

\* What a stream that failed leaves in the sink, and one whose output has a limit.
NoFile(s) ==
    /\ s.r.st # "ok" => ValidateInternal(s.out, Limits).st # "ok"
    /\ s.r.st \in {"limit", "format", "missing"} => s.out = <<>>
BaseAtMost(s) == s.r.st # "ok" /\ ValidateInternal(s.out, Limits).st = "ok" => s.out = file
CapKept(s, cap) == IF s.r.st = "ok" THEN Len(s.out) <= cap ELSE s.out = <<>>

\* A writer into a sink that fails, because the sink is full, the source changed or a limit
\* is reached, leaves no file with something new in the sink: nothing valid, or the base it
\* appended to.  Limits are found out before the first write; a selected history that does
\* not fit in its output leaves nothing at all.
FailedSinkIsNoFile ==
    /\ op # Idle /\ op.kind \in {"copy", "copySequence"} => NoFile(Copied(op))
    /\ Still /\ Active.st = "ok" =>
          /\ \A room \in 0..Len(file) :
                \A s \in {RewriteActiveFileTo(file, Limits, room),
                          RewriteVersionedSourceTo(Whole, Limits, room)} : NoFile(s)
          /\ \A budget \in Budgets :
                NoFile(RewriteVersionedSourceTo(Whole, [Limits EXCEPT !.ops = budget], Limits.file))
          /\ \A u \in Published, room \in Len(file)..(Len(file) + 12) :
                BaseAtMost(AppendPersistentBatchTo(file, Materialised(u), u.deletes, Limits, room))
          /\ \A sequences \in Sequences, cap \in {0, Len(file)} :
                CapKept(RewriteSelectedHistoryWithOwnedOutputCap(Whole, sequences, Limits, cap,
                                                                 Limits.file), cap)

WithinBudget(budget, little, enough) ==
    /\ little.r.reads <= budget
    /\ little.r.st # "limit" => little.r.st = enough.r.st /\ Promise(little) = Promise(enough)

\* max_read_operations under validate_source_history and scan_source_recovery, which share
\* one budget over many prefixes, accepted or refused: they never read more often, and with less
\* than they need they fail by the limit and never answer differently.
BudgetKept ==
    Still => \A budget \in Budgets :
        /\ WithinBudget(budget, ValidateSourceHistory(Whole, [Limits EXCEPT !.ops = budget]),
                        ValidateSourceHistory(Whole, Limits))
        /\ WithinBudget(budget, ScanSourceRecovery(Whole, [Limits EXCEPT !.ops = budget]),
                        ScanSourceRecovery(Whole, Limits))

\* A result that one version of the source gives to the operation by itself.
IsOfOneVersion(result) ==
    result.r.st = "ok" =>
        \E k \in DOMAIN op.src :
            /\ op.kind \in {"inventory", "copy", "copySequence", "chain", "plan"} => k = Len(op.src)
            /\ Promise(result) = Promise(Result([op EXCEPT !.src =
                                            <<[from |-> 1, content |-> op.src[k].content]>>]))

\* The asynchronous operations pin one strong version; the inventory, the copies into a sink
\* and the planned tails look at it before and after their reads, those of a whole history
\* among them, which walk every prefix again: the file may be replaced under any of them, and
\* what it returns is still what one version of the file holds.  Those that look at the
\* version return what the source holds at their last look.
AnswerIsOfOneVersion ==
    op # Idle => IsOfOneVersion(Result(op))

\* evaluate_freshness on a file that is valid: the snapshot the application trusts is
\* recognised in the file's own history, and a file that has another at its sequence is
\* never taken for it.
FreshnessExact ==
    Still /\ trusted # Unpinned /\ Active.st = "ok" =>
        LET verdict == EvaluateFreshness(Active.report, trusted)
            places  == {i \in DOMAIN commits : FooterOf(i).digest = trusted.snapshot}
            newest  == Len(commits)
        IN  /\ (verdict = "current") <=> (newest \in places)
            /\ places # {} /\ newest \notin places => verdict = "advances"
            /\ verdict = "rollback" => places = {}
=============================================================================
