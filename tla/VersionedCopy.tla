---------------------------- MODULE VersionedCopy ----------------------------
(***************************************************************************)
(* The bounded two-pass copy of a base held by a remote object store:      *)
(*                                                                         *)
(*   persistent_source_copy.rs             the copy itself                 *)
(*   persistent_versioned_source_copy.rs   the version check around every  *)
(*                                         source operation                *)
(*                                                                         *)
(* The source is read once to be hashed and once more to be hashed and     *)
(* written to the sink; the tail follows only when the second pass too has *)
(* the digest of the pinned identity.  The object may be replaced by a     *)
(* newer version between any two calls.  A SHA-256 digest is modelled by   *)
(* the bytes it is taken of, a range by one unit of the object.            *)
(***************************************************************************)
EXTENDS Naturals, Sequences

CONSTANTS
    MaxVersion,   \* versions the object goes through: 0 .. MaxVersion
    Bytes,        \* the object's contents in each version, in ranges
    Identities,   \* contents a caller may pin (PersistentSourceIdentity)
    TailBytes,    \* the preconstructed tail, a sequence of writes
    ReadLimits    \* values of limits.max_read_operations

Versions == 0..MaxVersion

\* Every range there is, of an object, a pinned identity or the tail.
Contents == {Bytes[v] : v \in Versions} \cup Identities \cup {TailBytes}
Ranges == UNION {{c[k] : k \in DOMAIN c} : c \in Contents}

ASSUME SourceAssumption ==
    /\ MaxVersion \in Nat
    /\ ReadLimits \subseteq Nat
    /\ DOMAIN Bytes = Versions
    /\ \A v \in Versions : Bytes[v] \in Seq(Ranges)
    /\ \A id \in Identities : id \in Seq(Ranges)
    /\ TailBytes \in Seq(Ranges)

VARIABLES
    job,        \* the call: which of the two functions, identity, limit
    source,     \* the object's version in the store
    expected,   \* PersistentStableSource.expected
    op,         \* the source operation under way
    step,       \* its progress: version check, call, version check
    buf,        \* what the call returned: a length or a range
    hashed,     \* the digest state of the current pass
    reads,      \* budget.read_operations
    sink,       \* what the writer has received
    origin,     \* the version each base range in the sink was read from
    seen,       \* the version buf was read from
    result      \* the error, "ok", or "none" while running

vars == <<job, source, expected, op, step, buf, hashed, reads, sink, origin, seen, result>>

Reads == {"preRead", "copyRead"}

\* append_versioned_source_with_tail_to wraps the source in the version check,
\* append_verified_source_with_tail_to is the bare copy.
Jobs == [versioned : BOOLEAN, identity : Identities, maxReads : ReadLimits]

Versioned  == job.versioned
Identity   == job.identity
MaxReads   == job.maxReads
BaseLength == Len(Identity)

Init ==
    /\ job \in Jobs
    /\ source \in Versions
    /\ expected = source
    /\ op = "token"
    /\ step = "before"
    /\ buf = 0
    /\ hashed = <<>>
    /\ reads = 0
    /\ sink = <<>>
    /\ origin = <<>>
    /\ seen = source
    /\ result = "none"

\* The function returns; what the sink got so far is left there.
Return(r) ==
    /\ result' = r
    /\ op' = "returned"
    /\ step' = "before"

Stay == UNCHANGED <<job, source, expected, hashed, sink, origin>>

\* The token is taken once, then the read budget is compared with what two
\* passes need.
TakeToken ==
    /\ op = "token"
    /\ expected' = source
    /\ \/ Versioned /\ Return("Version")
       \/ 2 * BaseLength > MaxReads /\ Return("Limit")
       \/ /\ 2 * BaseLength <= MaxReads
          /\ op' = "preLength"
          /\ UNCHANGED <<step, result>>
    /\ UNCHANGED <<job, source, buf, hashed, reads, sink, origin, seen>>

\* The phase an error names: the sink has received nothing yet, or something.
ChangedPhase == IF sink = <<>> THEN "VersionPreflight" ELSE "VersionCopy"

\* ensure_stable, before and after every call of the inner source.  A range
\* is charged to the budget before its first check.
EnsureStable(next) ==
    \/ /\ ~Versioned \/ source = expected
       /\ step' = next
       /\ UNCHANGED <<op, result>>
    \/ Versioned /\ source # expected /\ Return(ChangedPhase)
    \/ Versioned /\ Return("Version")

CheckBefore ==
    /\ op \notin {"token", "tail", "returned"}
    /\ step = "before"
    /\ reads' = IF op \in Reads THEN reads + 1 ELSE reads
    /\ EnsureStable("call")
    /\ UNCHANGED <<buf, seen>>
    /\ Stay

\* The source's own len() or read_exact_at(): it serves the version it has.
Call ==
    /\ step = "call"
    /\ \/ /\ op \notin Reads
          /\ buf' = Len(Bytes[source])
          /\ step' = "after"
          /\ UNCHANGED <<op, result>>
       \/ /\ op \in Reads
          /\ Len(hashed) < Len(Bytes[source])
          /\ buf' = Bytes[source][Len(hashed) + 1]
          /\ step' = "after"
          /\ UNCHANGED <<op, result>>
       \/ Return("Source") /\ UNCHANGED buf
    /\ seen' = source
    /\ UNCHANGED reads
    /\ Stay

\* Mutant: the version is checked before the call only.
AcceptedUnchecked(o) == op = o /\ step = "after"

\* The second ensure_stable passed: the operation's result is used.
Accepted(o) ==
    /\ op = o
    /\ step = "after"
    /\ ~Versioned \/ source = expected

Continue(o) ==
    /\ op' = o
    /\ step' = "before"
    /\ UNCHANGED result

\* The next range of a pass, or the length check that ends it.
AfterRange(n, range, end) == IF n < BaseLength THEN range ELSE end

Kept == UNCHANGED <<job, source, expected, buf, reads, seen>>

\* persistent_source_copy_length, at the start of each pass.
PassLength(o, range, end, mismatch) ==
    /\ Accepted(o)
    /\ IF buf = BaseLength THEN Continue(AfterRange(0, range, end))
                           ELSE Return(mismatch)
    /\ hashed' = <<>>
    /\ UNCHANGED <<sink, origin>>
    /\ Kept

PreflightLength == PassLength("preLength", "preRead", "preEnd", "IdentityPreflight")
CopyLength      == PassLength("copyLength", "copyRead", "copyEnd", "IdentityCopy")

\* hash_persistent_source: a range of the first pass.
HashRange ==
    /\ Accepted("preRead")
    /\ hashed' = Append(hashed, buf)
    /\ Continue(AfterRange(Len(hashed'), "preRead", "preEnd"))
    /\ UNCHANGED <<sink, origin>>
    /\ Kept

\* A range of the second pass is hashed, then written to the sink.
CopyRange ==
    /\ Accepted("copyRead")
    /\ hashed' = Append(hashed, buf)
    /\ \/ /\ sink' = Append(sink, buf)
          /\ origin' = Append(origin, seen)
          /\ Continue(AfterRange(Len(hashed'), "copyRead", "copyEnd"))
       \/ Return("Io") /\ UNCHANGED <<sink, origin>>
    /\ Kept

\* Mutant: the digest is not compared.
PassEndLengthOnly(o, next, mismatch) ==
    /\ Accepted(o)
    /\ IF buf = BaseLength THEN Continue(next) ELSE Return(mismatch)
    /\ UNCHANGED <<hashed, sink, origin>>
    /\ Kept

\* The end of each pass: the length again, and the digest.
PassEnd(o, next, mismatch) ==
    /\ Accepted(o)
    /\ IF buf = BaseLength /\ hashed = Identity THEN Continue(next)
                                                ELSE Return(mismatch)
    /\ UNCHANGED <<hashed, sink, origin>>
    /\ Kept

PreflightEnd == PassEnd("preEnd", "copyLength", "IdentityPreflight")
CopyEnd      == PassEnd("copyEnd", "tail", "IdentityCopy")

\* The second check finds another version, or the version service fails.
CheckAfterFails ==
    /\ Versioned
    /\ step = "after"
    /\ \/ source # expected /\ Return(ChangedPhase)
       \/ Return("Version")
    /\ UNCHANGED <<buf, reads, seen>>
    /\ Stay

\* The tail is written in requests of bounded size; any of them may fail.
WriteTail ==
    /\ op = "tail"
    /\ \/ /\ Len(sink) < BaseLength + Len(TailBytes)
          /\ \/ /\ sink' = Append(sink, TailBytes[Len(sink) - BaseLength + 1])
                /\ UNCHANGED <<op, step, result>>
             \/ Return("Io") /\ UNCHANGED sink
       \/ /\ Len(sink) = BaseLength + Len(TailBytes)
          /\ Return("ok")
          /\ UNCHANGED sink
    /\ UNCHANGED <<job, source, expected, buf, hashed, reads, origin, seen>>

\* The object is replaced in the store, by a version with a new token.
Replace ==
    /\ source < MaxVersion
    /\ source' = source + 1
    /\ UNCHANGED <<job, expected, op, step, buf, hashed, reads, sink, origin, seen, result>>

Copier ==
    \/ TakeToken
    \/ CheckBefore \/ Call \/ CheckAfterFails
    \/ PreflightLength \/ HashRange \/ PreflightEnd
    \/ CopyLength \/ CopyRange \/ CopyEnd
    \/ WriteTail

Next == Copier \/ Replace

Spec == Init /\ [][Next]_vars
-----------------------------------------------------------------------------
\* "Bytes from a range whose token changes are never handed to the sink"
\* (append_versioned_source_with_tail_to): with the version check every base
\* range in the sink was read from the one version the operation began with,
\* however the object changes between check, read and check.
OneVersionInSink ==
    Versioned => \A k \in DOMAIN origin : origin[k] = expected

\* The tail is withheld until the copied base is the pinned one, and a success is that base
\* and the whole tail, also when the source has no version check and changed on the way.
SuccessIsExact ==
    /\ Len(sink) > Len(origin) =>
            Len(origin) = BaseLength /\ SubSeq(sink, 1, BaseLength) = Identity
    /\ result = "ok" => sink = Identity \o TailBytes
=============================================================================
