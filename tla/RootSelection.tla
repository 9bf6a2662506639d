---------------------------- MODULE RootSelection ----------------------------
(***************************************************************************)
(* Which snapshot of an append-only file is the active one:                *)
(*                                                                         *)
(*   snapshots.rs    RootSelectionReport::select, evaluate_chain           *)
(*   enumeration.rs  RootEnumerationReport::enumerate, classify_chain      *)
(*                                                                         *)
(* The file gains snapshots from writers that build on the newest root, on *)
(* a stale one (a fork), or number their snapshot wrongly; writers die in  *)
(* the middle of an append; parts of the file are damaged, and its tail is *)
(* cut off.  A footer offset is the place of the snapshot in the file.     *)
(***************************************************************************)
EXTENDS Naturals, Sequences, FiniteSets

CONSTANTS
    Identities,      \* snapshot identities
    None,            \* no parent
    MaxSequence,     \* bound: sequence numbers are 0 .. MaxSequence
    MaxSnapshots,    \* bound: snapshots in the file
    MaxFaults,       \* bound: stray writers and damages
    MaxCandidates,   \* limits.max_candidates
    MaxDepth,        \* limits.max_parent_depth
    MaxResults       \* limits.max_results of the enumeration

ASSUME LimitsAssumption ==
    /\ None \notin Identities
    /\ {MaxSequence, MaxSnapshots, MaxFaults, MaxCandidates, MaxDepth, MaxResults}
          \subseteq Nat

VARIABLES
    file,     \* the candidates a scan finds, oldest first
    tail,     \* bytes after the last footer: an unpublished or damaged tail
    faults    \* stray writers and damages so far

vars == <<file, tail, faults>>

Kinds == {"Complete", "Progress"}
\* IntegrityFailed also stands for UnsupportedRequiredCapability and Invalid:
\* select treats them alike, and enumerate passes each on as it is.
Statuses == {"Verified", "IntegrityFailed", "Truncated"}
Candidates == [identity : Identities, sequence : 0..MaxSequence,
               parent : Identities \cup {None}, kind : Kinds, status : Statuses]

Places == DOMAIN file
ExactEnd(i) == i = Len(file) /\ ~tail
-----------------------------------------------------------------------------
(* evaluate_chain *)

IsVerifiedComplete(c) == c.status = "Verified" /\ c.kind = "Complete"

\* by_identity; only used when no identity occurs twice.
Holder(id) == {i \in Places : file[i].identity = id}
Lookup(id) == file[CHOOSE i \in Holder(id) : TRUE]

Rejected(reason) == [reason |-> reason, chain |-> <<>>]

TooDeep(chain) == Len(chain) >= MaxDepth

\* What is wrong with the sequence numbers of a snapshot and its parent, if
\* anything; both loops ask for it in the same words.  A sequence number above
\* another is not the largest u64, so saturating_add does not saturate here.
Misnumbered(c, parent) ==
    IF c.sequence <= parent.sequence THEN {"NonIncreasingSequence"}
    ELSE IF c.sequence # parent.sequence + 1 THEN {"SequenceGap"}
    ELSE {}

\* One turn of the loop: from a candidate to its parent.  The loop keeps the
\* identities it went through, the oldest ancestor first, and the reason it
\* returned for.
Turn(loop) ==
    LET c == loop.current
        parent == Lookup(c.parent)
        wrong == Misnumbered(c, parent)
        gone == <<c.identity>> \o loop.chain
        Return(reason) == [loop EXCEPT !.reason = reason]
    IN  IF loop.reason # "running" THEN loop
        ELSE IF TooDeep(loop.chain) THEN Return("ParentDepthExceeded")
        ELSE IF \E k \in DOMAIN loop.chain : loop.chain[k] = c.identity
             THEN Return("ParentCycle")
        ELSE IF c.parent = None
             THEN [current |-> c, chain |-> gone, reason |-> "ok"]
        ELSE IF Holder(c.parent) = {} THEN Return("MissingParent")
        ELSE IF parent.status # "Verified" THEN Return("ParentNotVerified")
        ELSE IF parent.kind = "Progress" THEN Return("ProgressCheckpoint")
        ELSE IF wrong # {} THEN Return(CHOOSE w \in wrong : TRUE)
        ELSE [current |-> parent, chain |-> gone, reason |-> "running"]

\* The loop; the depth limit ends it within MaxDepth + 1 turns.  The loop after n
\* turns is the one element of turns[n].
Start(c) == [current |-> c, chain |-> <<>>, reason |-> "running"]
Walk(c) ==
    LET turns[n \in 0..(MaxDepth + 1)] ==
            IF n = 0 THEN {Start(c)} ELSE {Turn(loop) : loop \in turns[n - 1]}
    IN  CHOOSE loop \in turns[MaxDepth + 1] : TRUE

\* Mutant: a candidate whose end is missing is taken for a snapshot.
EvaluateChainOfCut(c) ==
    IF c.status = "IntegrityFailed" THEN Rejected("NotVerified")
    ELSE IF c.kind = "Progress" THEN Rejected("ProgressCheckpoint")
    ELSE Walk(c)

EvaluateChain(c) ==
    IF c.status # "Verified" THEN Rejected("NotVerified")
    ELSE IF c.kind = "Progress" THEN Rejected("ProgressCheckpoint")
    ELSE Walk(c)
-----------------------------------------------------------------------------
(* classify_chain: a loop of its own, which keeps a set of identities and    *)
(* counts the depth, from one, after each step to a parent.                  *)

Unclassified(reason) == [reason |-> reason, depth |-> 0]

\* Mutant: a chain of exactly the limit is refused.
DepthExceededByOne(depth) == depth >= MaxDepth

\* A count that overflowed would have been refused for its depth before.
DepthExceeded(depth) == depth > MaxDepth

ClassifyTurn(loop) ==
    LET c == loop.current
        parent == Lookup(c.parent)
        wrong == Misnumbered(c, parent)
        Return(reason) == [loop EXCEPT !.reason = reason]
    IN  IF loop.reason # "running" THEN loop
        ELSE IF DepthExceeded(loop.depth) THEN Return("ParentDepthExceeded")
        ELSE IF c.identity \in loop.visited THEN Return("ParentCycle")
        ELSE IF c.parent = None THEN Return("ok")
        ELSE IF Holder(c.parent) = {} THEN Return("MissingParent")
        ELSE IF ~IsVerifiedComplete(parent) THEN Return("ParentNotVerified")
        ELSE IF wrong # {} THEN Return(CHOOSE w \in wrong : TRUE)
        ELSE [loop EXCEPT !.current = parent, !.depth = @ + 1,
                          !.visited = @ \cup {c.identity}]

\* The loop; again the depth limit ends it within MaxDepth + 1 turns.
ClassifyStart(c) ==
    [current |-> c, visited |-> {}, depth |-> 1, reason |-> "running"]
ClassifyWalk(c) ==
    LET turns[n \in 0..(MaxDepth + 1)] ==
            IF n = 0 THEN {ClassifyStart(c)}
            ELSE {ClassifyTurn(loop) : loop \in turns[n - 1]}
    IN  CHOOSE loop \in turns[MaxDepth + 1] : TRUE

ClassifyChain(c) ==
    IF c.status # "Verified" THEN Unclassified(c.status)
    ELSE IF c.kind = "Progress" THEN Unclassified("ProgressCheckpoint")
    ELSE ClassifyWalk(c)
-----------------------------------------------------------------------------
(* select *)

Duplicated == \E i, j \in Places : i # j /\ file[i].identity = file[j].identity

\* Mutant: any candidate, valid or not, makes its parent an ancestor.
ParentsOfAny(valid) ==
    {i \in valid : \E j \in Places : file[j].parent = file[i].identity}

\* Mutant: the last in the file instead of the highest in sequence.
LastInFile(places) == {i \in places : \A j \in places : j <= i}

\* The places with a valid chain, those of them that are nobody's parent, and
\* the highest of these.
Valid == {i \in Places : EvaluateChain(file[i]).reason = "ok"}
Parents(valid) == {i \in valid : \E j \in valid : file[j].parent = file[i].identity}
Highest(places) ==
    {i \in places : \A j \in places : file[j].sequence <= file[i].sequence}

Failed(error) == [error |-> error, root |-> 0, chain |-> <<>>]
Selected(i) == [error |-> "none", root |-> i, chain |-> EvaluateChain(file[i]).chain]

OneOf(places, none, several) ==
    IF places = {} THEN Failed(none)
    ELSE IF Cardinality(places) > 1 THEN Failed(several)
    ELSE Selected(CHOOSE i \in places : TRUE)

Select(mode) ==
    IF Len(file) > MaxCandidates THEN Failed("CandidateLimitExceeded")
    ELSE IF Duplicated THEN Failed("DuplicateIdentity")
    ELSE IF mode = "StrictExactEnd"
    THEN OneOf({i \in Valid : ExactEnd(i)}, "NoExactEndRoot", "MultipleExactEndRoots")
    ELSE OneOf(Highest(Valid \ Parents(Valid)), "NoValidRoot", "AmbiguousFork")
-----------------------------------------------------------------------------
(* enumerate *)

ValidDepths == {i \in Places : ClassifyChain(file[i]).reason = "ok"}

\* The report: the status of each place, the depth of the valid ones and the
\* summary.  All of it is worked out over identities.
Enumerate ==
    IF Len(file) > MaxCandidates THEN [error |-> "CandidateLimitExceeded"]
    ELSE IF Len(file) > MaxResults THEN [error |-> "ResultLimitExceeded"]
    ELSE IF Duplicated THEN [error |-> "DuplicateIdentity"]
    ELSE LET ids == {file[i].identity : i \in ValidDepths}
             parentIds == {file[i].parent : i \in ValidDepths} \cap ids
             terminals == ids \ parentIds
             sequences == {Lookup(id).sequence : id \in terminals}
             maximum == {s \in sequences : \A t \in sequences : t <= s}
             highest == {id \in terminals : Lookup(id).sequence \in maximum}
             fork == Cardinality(highest) > 1
             status(c) == IF fork /\ c.identity \in highest THEN "VerifiedForkTerminal"
                          ELSE IF c.identity \in parentIds THEN "VerifiedAncestor"
                          ELSE IF c.identity \in ids THEN "VerifiedTerminal"
                          ELSE ClassifyChain(c).reason
         IN  [error |-> "none",
              status |-> [i \in Places |-> status(file[i])],
              depth |-> [i \in ValidDepths |-> ClassifyChain(file[i]).depth],
              sequence |-> maximum,
              fork |-> fork]
-----------------------------------------------------------------------------
(* The file. *)

Init == file = <<>> /\ tail = FALSE /\ faults = 0

Room == Len(file) < MaxSnapshots

Fault == faults < MaxFaults /\ faults' = faults + 1

Publish(c) == file' = Append(file, c) /\ tail' = FALSE

Candidate(id, seq, parent, kind) ==
    [identity |-> id, sequence |-> seq, parent |-> parent, kind |-> kind,
     status |-> "Verified"]

\* What a writer appends: the first snapshot of a new file, or a successor of
\* the root it works on, the one a strict reader sees or, after an interruption,
\* the one that was recovered.
Successors ==
    {Candidate(id, 0, None, "Complete") : id \in {j \in Identities : file = <<>>}}
    \cup
    {Candidate(id, file[base.root].sequence + 1, file[base.root].identity, "Complete") :
        id \in Identities,
        base \in {b \in {Select("StrictExactEnd"), Select("Recovery")} :
                    b.error = "none" /\ file[b.root].sequence < MaxSequence}}

Fresh(c) == Holder(c.identity) = {}

AppendSuccessor ==
    /\ Room
    /\ \E c \in Successors : Fresh(c) /\ Publish(c)
    /\ UNCHANGED faults

\* A progress checkpoint is written; it is nobody's base.
AppendProgress ==
    /\ Room
    /\ \E id \in Identities, p \in Places :
        /\ Holder(id) = {}
        /\ file[p].sequence < MaxSequence
        /\ Publish(Candidate(id, file[p].sequence + 1, file[p].identity, "Progress"))
    /\ UNCHANGED faults

\* A writer with a stale base, a wrong number, a parent that is not there, or an
\* identity that is: all of it verifies, and a reader has to cope with it.
AppendOther ==
    /\ Room
    /\ \E id \in Identities, seq \in 0..MaxSequence, p \in Identities \cup {None} :
            Publish(Candidate(id, seq, p, "Complete"))
    /\ Fault

\* A snapshot, or something it needs, no longer verifies.
Damage ==
    /\ \E i \in Places :
        /\ file[i].status = "Verified"
        /\ file' = [file EXCEPT ![i].status = "IntegrityFailed"]
    /\ Fault
    /\ UNCHANGED tail

Cut(c) == [c EXCEPT !.status = "Truncated"]

\* The file is cut after some footer, or in the middle of what followed it: a
\* scan may or may not recognise the part that is left of that.
Truncate ==
    /\ \E n \in 0..(Len(file) - 1) :
        \/ file' = SubSeq(file, 1, n) /\ tail' \in BOOLEAN
        \/ file' = Append(SubSeq(file, 1, n), Cut(file[n + 1])) /\ tail' = TRUE
    /\ UNCHANGED faults

\* A writer dies before its footer is complete.  Either a scan recognises nothing
\* in what it wrote, or it lists a truncated candidate.
InterruptedAppend ==
    /\ tail' = TRUE
    /\ \/ ~tail /\ UNCHANGED file
       \/ Room /\ \E c \in Successors : Fresh(c) /\ file' = Append(file, Cut(c))
    /\ UNCHANGED faults

Next ==
    \/ AppendSuccessor \/ AppendProgress \/ AppendOther
    \/ Damage \/ Truncate \/ InterruptedAppend

Spec == Init /\ [][Next]_vars
-----------------------------------------------------------------------------
Recovery == Select("Recovery")
Strict   == Select("StrictExactEnd")

\* Reference: a place is intact when it is the end of an unbroken line of
\* verified complete snapshots, numbered one by one, of bounded length.
Line(places) ==
    \A i \in places : file[i].parent = None \/
        \E j \in places : /\ file[j].identity = file[i].parent
                          /\ file[i].sequence = file[j].sequence + 1
Intact(i) ==
    \E places \in SUBSET {j \in Places : IsVerifiedComplete(file[j])} :
        i \in places /\ Line(places) /\ Cardinality(places) <= MaxDepth

\* Recovery finds the newest intact snapshot, whatever forks, gaps, damage and
\* cuts there are; it refuses only if there is none, or two of the same number.
RecoveryIsNewestIntact ==
    Recovery.error \in {"none", "NoValidRoot", "AmbiguousFork"} =>
        LET newest == Highest({i \in Places : Intact(i)})
        IN  /\ Recovery.error = "none" => newest = {Recovery.root}
            /\ Recovery.error = "NoValidRoot" => newest = {}
            /\ Recovery.error = "AmbiguousFork" => Cardinality(newest) > 1

\* Selection and enumeration, two separate walks over the same candidates that
\* count the depth each in its own way, agree on what is valid, on forks, on the
\* depth and on the root to recover.
EnumerationAgrees ==
    Enumerate.error = "none" =>
        /\ \A i \in Places :
              i \in Valid <=> Enumerate.status[i] \in
                  {"VerifiedTerminal", "VerifiedAncestor", "VerifiedForkTerminal"}
        /\ Enumerate.fork <=> Recovery.error = "AmbiguousFork"
        /\ Recovery.error = "none" =>
              /\ Enumerate.status[Recovery.root] = "VerifiedTerminal"
              /\ Enumerate.sequence = {file[Recovery.root].sequence}
              /\ Enumerate.depth[Recovery.root] = Len(Recovery.chain)

\* An interrupted append never moves the recovered root, in whatever file it
\* happens and although a truncated candidate that names the root as its parent
\* may be left behind; and a strict reader refuses the file.
InterruptionKeepsRoot ==
    [][InterruptedAppend /\ Len(file') <= MaxCandidates =>
        /\ Recovery'.error = Recovery.error
        /\ Recovery'.root = Recovery.root
        /\ Strict'.error # "none"]_vars

Finished == {i \in Places : IsVerifiedComplete(file[i])}

\* Nothing that was published is lost: through any interruptions, cuts, progress
\* checkpoints and resumed writers, as long as nobody forks, nothing is damaged and
\* the limits hold, recovery finds the last snapshot that was finished, and a
\* strict reader finds the same one or, behind an unfinished end, nothing.
RootIsLastFinished ==
    faults = 0 /\ Len(file) <= MaxCandidates /\ Cardinality(Finished) <= MaxDepth =>
        IF Finished = {}
        THEN Recovery.error = "NoValidRoot" /\ Strict.error = "NoExactEndRoot"
        ELSE /\ Recovery.error = "none"
             /\ Recovery.root \in Finished
             /\ \A i \in Finished : i <= Recovery.root
             /\ IF ExactEnd(Recovery.root) THEN Strict = Recovery
                ELSE Strict.error = "NoExactEndRoot"
=============================================================================
