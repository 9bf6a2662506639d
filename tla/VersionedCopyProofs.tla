------------------------- MODULE VersionedCopyProofs -------------------------
(***************************************************************************)
(* Proofs about VersionedCopy, for any contents, any number of versions,   *)
(* any pinned identity, tail and read limit, with and without the version  *)
(* check.                                                                  *)
(***************************************************************************)
EXTENDS VersionedCopy, SequenceTheorems, TLAPS

\* The operations on the source, and those of them before the second pass.
Preflight == {"preLength", "preRead", "preEnd"}
Copying   == {"copyRead", "copyEnd"}
SourceOps == Preflight \cup {"copyLength"} \cup Copying
Ops       == SourceOps \cup {"token", "tail", "returned"}

Types ==
    /\ job \in Jobs
    /\ source \in Versions /\ expected \in Versions /\ seen \in Versions
    /\ op \in Ops
    /\ step \in {"before", "call", "after"}
    /\ op \notin SourceOps => step = "before"
    /\ hashed \in Seq(Ranges)
    /\ sink \in Seq(Ranges)
    /\ origin \in Seq(Versions)

\* Versions only grow: what was read after the token was taken and is accepted
\* while the token is still the same was read from that version.
ReadIsRecent ==
    /\ expected <= source
    /\ step = "after" => expected <= seen /\ seen <= source
    /\ step = "after" /\ op \in Reads => buf \in Ranges

\* Until a range of the second pass is written there is nothing in the sink,
\* and during that pass the sink holds what the digest has seen.
SinkFollowsDigest ==
    /\ op \in Preflight \cup {"token", "copyLength"} => sink = <<>>
    /\ op \in Copying => sink = hashed
    /\ op \in SourceOps \cup {"token"} => Len(origin) = Len(sink)
    /\ Len(origin) <= Len(sink)

\* What there is of the tail follows the pinned base.
BaseThenTail ==
    /\ Len(sink) <= BaseLength + Len(TailBytes)
    /\ \A k \in 1..BaseLength : sink[k] = Identity[k]
    /\ \A k \in (BaseLength + 1)..Len(sink) : sink[k] = TailBytes[k - BaseLength]

TailFollowsBase ==
    /\ op = "tail" => Len(origin) = BaseLength
    /\ op = "tail" \/ Len(sink) > Len(origin) =>
          Len(origin) = BaseLength /\ BaseThenTail
    /\ result = "ok" =>
          /\ op = "returned" /\ Len(origin) = BaseLength
          /\ Len(sink) = BaseLength + Len(TailBytes) /\ BaseThenTail

IInv ==
    /\ Types
    /\ ReadIsRecent
    /\ SinkFollowsDigest
    /\ TailFollowsBase
    /\ OneVersionInSink
-----------------------------------------------------------------------------
(* The inductive invariant holds initially and no step breaks it. *)

\* What Append does, for the sequences of this module.
LEMMA Appended ==
    ASSUME NEW S, NEW s \in Seq(S), NEW e \in S
    PROVE  /\ Append(s, e) \in Seq(S)
           /\ Len(s) \in Nat
           /\ Len(Append(s, e)) = Len(s) + 1
           /\ \A k \in 1..Len(s) : Append(s, e)[k] = s[k]
           /\ Append(s, e)[Len(s) + 1] = e
  BY AppendProperties, LenProperties

\* The pinned identity and the tail are sequences of ranges.
LEMMA JobTypes ==
    ASSUME job \in Jobs
    PROVE  /\ Identity \in Seq(Ranges) /\ TailBytes \in Seq(Ranges)
           /\ BaseLength \in Nat /\ Len(TailBytes) \in Nat
  BY SourceAssumption, LenProperties DEF Jobs, Identity, BaseLength

\* Nothing is read and nothing written.
LEMMA InitIInv == Init => IInv
  <1>. SUFFICES ASSUME Init PROVE IInv
    OBVIOUS
  <1>1. Types
    BY EmptySeq DEF Init, Types, Ops, SourceOps, Preflight, Copying
  <1>2. ReadIsRecent
    BY SourceAssumption DEF Init, ReadIsRecent, Versions
  <1>3. SinkFollowsDigest /\ TailFollowsBase
    BY EmptySeq DEF Init, SinkFollowsDigest, TailFollowsBase, Preflight, Copying, SourceOps
  <1>4. OneVersionInSink
    BY EmptySeq, LenProperties DEF Init, OneVersionInSink
  <1>. QED  BY <1>1, <1>2, <1>3, <1>4 DEF IInv

\* A step that leaves the digest, the sink and the token alone, goes on with
\* the same operation or returns an error, and reads nothing or reads now.
LEMMA QuietStep ==
    ASSUME IInv,
           UNCHANGED <<job, source, expected, hashed, sink, origin>>,
           \/ op' = op /\ result' = result
           \/ op' = "returned" /\ result' # "ok",
           op \notin {"token", "tail", "returned"},
           step' \in {"before", "call", "after"},
           op' = "returned" => step' = "before",
           seen' \in Versions,
           step' = "after" => seen' = source,
           step' = "after" /\ op' \in Reads => buf' \in Ranges
    PROVE  IInv'
  <1>. USE DEF IInv
  <1>1. Types'
    BY DEF Types, Ops, SourceOps, Preflight, Copying
  <1>2. ReadIsRecent'
    BY SourceAssumption DEF ReadIsRecent, Types, Versions
  <1>3. SinkFollowsDigest'
    BY DEF SinkFollowsDigest, Types, Ops, SourceOps, Preflight, Copying
  <1>4. TailFollowsBase'
    BY DEF TailFollowsBase, BaseThenTail, Identity, BaseLength, Types, Ops, SourceOps,
           Preflight, Copying
  <1>5. OneVersionInSink'
    BY DEF OneVersionInSink, Versioned
  <1>. QED  BY <1>1, <1>2, <1>3, <1>4, <1>5

LEMMA TakeTokenIInv == IInv /\ TakeToken => IInv'
  <1>. SUFFICES ASSUME IInv, TakeToken PROVE IInv'
    OBVIOUS
  <1>. USE DEF IInv, TakeToken, Return
  <1>0. sink = <<>> /\ Len(sink) = 0 /\ Len(origin) = 0 /\ step = "before" /\ result # "ok"
    BY EmptySeq DEF SinkFollowsDigest, TailFollowsBase, Types, SourceOps, Preflight, Copying
  <1>1. Types'
    BY <1>0 DEF Types, Ops, SourceOps, Preflight, Copying
  <1>2. ReadIsRecent'
    BY <1>0, SourceAssumption DEF ReadIsRecent, Types, Versions
  <1>3. SinkFollowsDigest'
    BY <1>0 DEF SinkFollowsDigest, Types, Ops, SourceOps, Preflight, Copying
  <1>4. TailFollowsBase'
    BY <1>0 DEF TailFollowsBase, Types, Ops, SourceOps, Preflight, Copying
  <1>5. OneVersionInSink'
    <2>1. DOMAIN origin = {}
      BY <1>0, LenProperties DEF Types
    <2>. QED  BY <2>1 DEF OneVersionInSink
  <1>. QED  BY <1>1, <1>2, <1>3, <1>4, <1>5

\* The checks around a call of the source, and the call.
LEMMA ChecksIInv == IInv /\ (CheckBefore \/ Call \/ CheckAfterFails) => IInv'
  <1>. SUFFICES ASSUME IInv, CheckBefore \/ Call \/ CheckAfterFails PROVE IInv'
    OBVIOUS
  <1>. USE DEF Return, Stay
  <1>1. CASE CheckBefore
    <2>1. ChangedPhase # "ok"
      BY DEF ChangedPhase
    <2>2. seen' \in Versions /\ step' # "after"
      BY <1>1 DEF CheckBefore, EnsureStable, IInv, Types
    <2>. QED  BY <1>1, <2>1, <2>2, QuietStep DEF CheckBefore, EnsureStable
  <1>2. CASE Call
    <2>1. op \notin {"token", "tail", "returned"}
      BY <1>2 DEF Call, IInv, Types, SourceOps, Preflight, Copying
    <2>2. op \in Reads /\ Len(hashed) < Len(Bytes[source])
              => Bytes[source][Len(hashed) + 1] \in Ranges
      BY SourceAssumption, LenProperties DEF IInv, Types
    <2>3. seen' \in Versions /\ seen' = source
      BY <1>2 DEF Call, IInv, Types
    <2>. QED  BY <1>2, <2>1, <2>2, <2>3, QuietStep DEF Call
  <1>3. CASE CheckAfterFails
    <2>1. op \notin {"token", "tail", "returned"}
      BY <1>3 DEF CheckAfterFails, IInv, Types, SourceOps, Preflight, Copying
    <2>2. ChangedPhase # "ok"
      BY DEF ChangedPhase
    <2>3. seen' \in Versions /\ step' # "after"
      BY <1>3 DEF CheckAfterFails, IInv, Types
    <2>. QED  BY <1>3, <2>1, <2>2, <2>3, QuietStep DEF CheckAfterFails
  <1>. QED  BY <1>1, <1>2, <1>3

\* The first pass, and the length at the start of the second: nothing is in
\* the sink, before or after.
LEMMA PreflightIInv ==
    IInv /\ (PreflightLength \/ HashRange \/ PreflightEnd \/ CopyLength) => IInv'
  <1>. SUFFICES ASSUME IInv, PreflightLength \/ HashRange \/ PreflightEnd \/ CopyLength
                PROVE  IInv'
    OBVIOUS
  <1>. USE DEF IInv
  <1>1. /\ op \in Preflight \cup {"copyLength"} /\ result # "ok"
        /\ sink = <<>> /\ Len(sink) = 0 /\ Len(origin) = 0
    BY EmptySeq DEF PreflightLength, HashRange, PreflightEnd, CopyLength, PassLength, PassEnd,
          Accepted, Preflight, Copying, SourceOps, SinkFollowsDigest, TailFollowsBase
  <1>2. /\ UNCHANGED <<job, source, expected, buf, reads, seen, sink, origin>>
        /\ step' = "before"
    BY DEF PreflightLength, HashRange, PreflightEnd, CopyLength, PassLength, PassEnd, Kept,
           Continue, Return
  <1>3. /\ op' \in Preflight \cup {"copyLength", "returned"} \cup Copying
        /\ result' # "ok"
    BY <1>1 DEF PreflightLength, HashRange, PreflightEnd, CopyLength, PassLength, PassEnd,
           Continue, Return, AfterRange, Preflight, Copying
  <1>4. hashed' \in Seq(Ranges) /\ (op' \in Copying => hashed' = <<>>)
    <2>1. CASE PreflightLength \/ CopyLength
      BY <2>1, EmptySeq DEF PreflightLength, CopyLength, PassLength
    <2>2. CASE HashRange
      <3>1. buf \in Ranges
        BY <2>2 DEF HashRange, Accepted, ReadIsRecent, Reads
      <3>. QED  BY <2>2, <3>1, Appended
                DEF Types, HashRange, Continue, AfterRange, Copying
    <2>3. CASE PreflightEnd
      BY <2>3 DEF PreflightEnd, PassEnd, Types, Continue, Return, Copying
    <2>. QED  BY <2>1, <2>2, <2>3
  <1>5. Types'
    BY <1>2, <1>3, <1>4 DEF Types, Ops, SourceOps, Preflight, Copying
  <1>6. ReadIsRecent'
    BY <1>2 DEF ReadIsRecent
  <1>7. SinkFollowsDigest'
    BY <1>1, <1>2, <1>4 DEF SinkFollowsDigest
  <1>8. TailFollowsBase'
    BY <1>1, <1>2, <1>3 DEF TailFollowsBase, Preflight, Copying
  <1>9. OneVersionInSink'
    BY <1>2 DEF OneVersionInSink, Versioned
  <1>. QED  BY <1>5, <1>6, <1>7, <1>8, <1>9

\* A range of the second pass: read from the version the token names.
LEMMA CopyRangeIInv == IInv /\ CopyRange => IInv'
  <1>. SUFFICES ASSUME IInv, CopyRange PROVE IInv'
    OBVIOUS
  <1>. USE DEF IInv
  <1>1. /\ op = "copyRead" /\ step = "after" /\ (~Versioned \/ source = expected)
        /\ buf \in Ranges /\ seen \in Versions /\ expected <= seen /\ seen <= source
        /\ sink = hashed /\ Len(origin) = Len(sink) /\ result # "ok"
        /\ sink \in Seq(Ranges) /\ origin \in Seq(Versions)
    BY DEF CopyRange, Accepted, Types, ReadIsRecent, Reads, SinkFollowsDigest, Copying,
           SourceOps, TailFollowsBase
  <1>2. /\ UNCHANGED <<job, source, expected, buf, reads, seen>>
        /\ step' = "before"
        /\ hashed' = Append(hashed, buf)
    BY DEF CopyRange, Kept, Continue, Return
  <1>3. \/ /\ sink' = Append(sink, buf) /\ origin' = Append(origin, seen)
           /\ op' \in Copying /\ result' = result
        \/ op' = "returned" /\ result' = "Io" /\ UNCHANGED <<sink, origin>>
    BY DEF CopyRange, Continue, Return, AfterRange, Copying
  <1>4. /\ Append(sink, buf) \in Seq(Ranges) /\ Len(Append(sink, buf)) = Len(sink) + 1
        /\ Append(origin, seen) \in Seq(Versions)
        /\ Len(Append(origin, seen)) = Len(origin) + 1
        /\ \A k \in 1..Len(origin) : Append(origin, seen)[k] = origin[k]
        /\ Append(origin, seen)[Len(origin) + 1] = seen
        /\ Len(origin) \in Nat /\ Len(sink) \in Nat
    BY <1>1, Appended
  <1>5. Types'
    BY <1>1, <1>2, <1>3, <1>4 DEF Types, Ops, SourceOps, Copying
  <1>6. ReadIsRecent'
    BY <1>2 DEF ReadIsRecent
  <1>7. SinkFollowsDigest'
    BY <1>1, <1>2, <1>3, <1>4 DEF SinkFollowsDigest, SourceOps, Copying, Preflight
  <1>8. TailFollowsBase'
    BY <1>1, <1>3, <1>4 DEF TailFollowsBase, Copying
  <1>9. OneVersionInSink'
    <2>1. DOMAIN origin = 1..Len(origin) /\ DOMAIN origin' = 1..Len(origin')
      BY <1>1, <1>5, LenProperties DEF Types
    <2>2. Versioned => seen = expected
      BY <1>1 DEF Types, Versions
    <2>3. Versioned' = Versioned
      BY <1>2 DEF Versioned
    <2>4. CASE origin' = Append(origin, seen)
      BY <1>2, <1>4, <2>1, <2>2, <2>3, <2>4 DEF OneVersionInSink
    <2>5. CASE origin' = origin
      BY <1>2, <2>3, <2>5 DEF OneVersionInSink
    <2>. QED  BY <1>3, <2>4, <2>5
  <1>. QED  BY <1>5, <1>6, <1>7, <1>8, <1>9

\* The second digest agrees with the pinned one, and so does the sink.
LEMMA CopyEndIInv == IInv /\ CopyEnd => IInv'
  <1>. SUFFICES ASSUME IInv, CopyEnd PROVE IInv'
    OBVIOUS
  <1>. USE DEF IInv
  <1>1. /\ op = "copyEnd" /\ sink = hashed /\ Len(origin) = Len(sink) /\ result # "ok"
        /\ Len(sink) \in Nat
    BY LenProperties DEF CopyEnd, PassEnd, Accepted, SinkFollowsDigest, Copying, SourceOps,
          TailFollowsBase, Types
  <1>2. /\ UNCHANGED <<job, source, expected, buf, reads, seen, hashed, sink, origin>>
        /\ step' = "before"
        /\ \/ op' = "tail" /\ hashed = Identity /\ result' = result
           \/ op' = "returned" /\ result' = "IdentityCopy"
    BY DEF CopyEnd, PassEnd, Kept, Continue, Return
  <1>3. Types' /\ ReadIsRecent' /\ SinkFollowsDigest' /\ OneVersionInSink'
    BY <1>1, <1>2 DEF Types, ReadIsRecent, SinkFollowsDigest, OneVersionInSink, Versioned,
          Ops, SourceOps, Preflight, Copying
  <1>4. Identity' = Identity /\ BaseLength' = BaseLength
    BY <1>2 DEF Identity, BaseLength
  <1>5. TailFollowsBase'
    <2>1. CASE op' = "tail" /\ hashed = Identity /\ result' = result
      <3>1. BaseThenTail'
        BY <1>1, <1>2, <1>4, <2>1, JobTypes DEF BaseThenTail, BaseLength, Types
      <3>. QED  BY <1>1, <1>2, <1>4, <2>1, <3>1 DEF TailFollowsBase, BaseLength
    <2>2. CASE op' = "returned" /\ result' = "IdentityCopy"
      BY <1>1, <1>2, <2>2 DEF TailFollowsBase
    <2>. QED  BY <1>2, <2>1, <2>2
  <1>. QED  BY <1>3, <1>5

\* A write of the tail, or the return.
LEMMA WriteTailIInv == IInv /\ WriteTail => IInv'
  <1>. SUFFICES ASSUME IInv, WriteTail PROVE IInv'
    OBVIOUS
  <1>. USE DEF IInv
  <1>. DEFINE next == TailBytes[Len(sink) - BaseLength + 1]
  <1>1. /\ op = "tail" /\ result # "ok" /\ Len(origin) = BaseLength /\ BaseThenTail
        /\ Len(origin) <= Len(sink) /\ sink \in Seq(Ranges) /\ Len(sink) \in Nat
        /\ BaseLength \in Nat /\ Len(TailBytes) \in Nat /\ TailBytes \in Seq(Ranges)
        /\ step = "before"
    BY JobTypes, LenProperties DEF WriteTail, TailFollowsBase, SinkFollowsDigest, Types,
          SourceOps, Preflight, Copying
  <1>2. UNCHANGED <<job, source, expected, buf, hashed, reads, origin, seen>>
    BY DEF WriteTail
  <1>3. Identity' = Identity /\ BaseLength' = BaseLength /\ Versioned' = Versioned
    BY <1>2 DEF Identity, BaseLength, Versioned
  <1>4. CASE /\ Len(sink) < BaseLength + Len(TailBytes)
             /\ sink' = Append(sink, next)
             /\ UNCHANGED <<op, step, result>>
    <2>1. next \in Ranges
      BY <1>1, <1>4, ElementOfSeq
    <2>2. /\ sink' \in Seq(Ranges) /\ Len(sink') = Len(sink) + 1
          /\ \A k \in 1..Len(sink) : sink'[k] = sink[k]
          /\ sink'[Len(sink) + 1] = next
      BY <1>1, <1>4, <2>1, Appended
    <2>3. Types' /\ ReadIsRecent' /\ OneVersionInSink' /\ SinkFollowsDigest'
      BY <1>1, <1>2, <1>3, <1>4, <2>2
      DEF Types, ReadIsRecent, OneVersionInSink, SinkFollowsDigest, SourceOps, Preflight,
          Copying
    <2>4. BaseThenTail'
      <3>1. Len(sink') <= BaseLength + Len(TailBytes)
        BY <1>1, <1>4, <2>2
      <3>2. \A k \in 1..BaseLength : sink'[k] = Identity[k]
        <4>1. \A k \in 1..BaseLength : sink[k] = Identity[k]
          BY <1>1 DEF BaseThenTail
        <4>2. \A k \in 1..BaseLength : k \in 1..Len(sink)
          BY <1>1
        <4>. QED  BY <2>2, <4>1, <4>2
      <3>3. \A k \in (BaseLength + 1)..Len(sink') : sink'[k] = TailBytes[k - BaseLength]
        <4>1. TAKE k \in (BaseLength + 1)..Len(sink')
        <4>2. CASE k <= Len(sink)
          BY <1>1, <2>2, <4>1, <4>2 DEF BaseThenTail
        <4>3. CASE k = Len(sink) + 1
          <5>1. k - BaseLength = Len(sink) - BaseLength + 1
            BY <1>1, <4>3
          <5>. QED  BY <2>2, <4>3, <5>1
        <4>. QED  BY <1>1, <2>2, <4>1, <4>2, <4>3
      <3>. QED  BY <1>3, <3>1, <3>2, <3>3 DEF BaseThenTail
    <2>5. TailFollowsBase'
      BY <1>1, <1>2, <1>3, <1>4, <2>4 DEF TailFollowsBase
    <2>. QED  BY <2>3, <2>5
  <1>5. CASE /\ UNCHANGED sink /\ op' = "returned" /\ step' = "before"
             /\ \/ result' = "Io"
                \/ result' = "ok" /\ Len(sink) = BaseLength + Len(TailBytes)
    <2>1. Types' /\ ReadIsRecent' /\ OneVersionInSink' /\ SinkFollowsDigest'
      BY <1>1, <1>2, <1>3, <1>5
      DEF Types, ReadIsRecent, OneVersionInSink, SinkFollowsDigest, SourceOps, Preflight,
          Copying, Ops
    <2>2. BaseThenTail'
      BY <1>1, <1>3, <1>5 DEF BaseThenTail
    <2>3. TailFollowsBase'
      BY <1>1, <1>2, <1>3, <1>5, <2>2 DEF TailFollowsBase
    <2>. QED  BY <2>1, <2>3
  <1>. QED  BY <1>4, <1>5 DEF WriteTail, Return

\* A newer version in the store leaves what was read older than it.
LEMMA ReplaceIInv == IInv /\ Replace => IInv'
  <1>. SUFFICES ASSUME IInv, Replace PROVE IInv'
    OBVIOUS
  <1>. USE DEF IInv, Replace
  <1>1. Types' /\ ReadIsRecent'
    BY SourceAssumption DEF Types, ReadIsRecent, Versions
  <1>2. SinkFollowsDigest' /\ OneVersionInSink'
    BY DEF SinkFollowsDigest, OneVersionInSink, Versioned
  <1>3. TailFollowsBase'
    BY DEF TailFollowsBase, BaseThenTail, Identity, BaseLength
  <1>. QED  BY <1>1, <1>2, <1>3

\* The invariant holds in every state of every behaviour.
LEMMA Invariance == Spec => []IInv
  <1>1. IInv /\ UNCHANGED vars => IInv'
    BY DEF IInv, vars, Types, ReadIsRecent, SinkFollowsDigest, TailFollowsBase, BaseThenTail,
           OneVersionInSink, Identity, BaseLength, Versioned
  <1>2. IInv /\ [Next]_vars => IInv'
    BY <1>1, TakeTokenIInv, ChecksIInv, PreflightIInv, CopyRangeIInv, CopyEndIInv,
       WriteTailIInv, ReplaceIInv DEF Next, Copier
  <1>. QED  BY InitIInv, <1>2, PTL DEF Spec
-----------------------------------------------------------------------------
\* With the version check, every base range handed to the sink was read from
\* the version the operation began with (append_versioned_source_with_tail_to).
THEOREM OneVersionCopied == Spec => []OneVersionInSink
  <1>1. IInv => OneVersionInSink
    BY DEF IInv
  <1>. QED  BY <1>1, Invariance, PTL

\* No tail before the pinned base, and a success is that base and the tail, with
\* and without the version check (append_verified_source_with_tail_to).
THEOREM CopyIsExact == Spec => []SuccessIsExact
  <1>1. ASSUME IInv PROVE SuccessIsExact
    <2>. USE <1>1 DEF IInv
    <2>0. /\ Identity \in Seq(Ranges) /\ TailBytes \in Seq(Ranges)
          /\ BaseLength = Len(Identity) /\ BaseLength \in Nat
          /\ sink \in Seq(Ranges) /\ Len(sink) \in Nat /\ Len(origin) \in Nat
      BY JobTypes, LenProperties DEF Types, BaseLength
    <2>1. ASSUME Len(sink) > Len(origin)
          PROVE  Len(origin) = BaseLength /\ SubSeq(sink, 1, BaseLength) = Identity
      <3>1. Len(origin) = BaseLength /\ BaseThenTail
        BY <2>1 DEF TailFollowsBase
      <3>2. \A k \in 1..BaseLength : sink[k] \in Ranges
        BY <2>0, <2>1, <3>1, ElementOfSeq
      <3>3. /\ SubSeq(sink, 1, BaseLength) \in Seq(Ranges)
            /\ Len(SubSeq(sink, 1, BaseLength)) = BaseLength
            /\ \A k \in 1..BaseLength : SubSeq(sink, 1, BaseLength)[k] = sink[k]
        BY <2>0, <3>2, SubSeqProperties
      <3>4. \A k \in 1..BaseLength : sink[k] = Identity[k]
        BY <3>1 DEF BaseThenTail
      <3>. QED  BY <2>0, <3>1, <3>3, <3>4, SeqEqual
    <2>2. ASSUME result = "ok" PROVE sink = Identity \o TailBytes
      <3>1. Len(sink) = BaseLength + Len(TailBytes) /\ BaseThenTail
        BY <2>2 DEF TailFollowsBase
      <3>2. /\ Identity \o TailBytes \in Seq(Ranges)
            /\ Len(Identity \o TailBytes) = BaseLength + Len(TailBytes)
            /\ \A i \in 1..(BaseLength + Len(TailBytes)) : (Identity \o TailBytes)[i] =
                    IF i <= BaseLength THEN Identity[i] ELSE TailBytes[i - BaseLength]
        BY <2>0, ConcatProperties
      <3>3. \A i \in 1..Len(sink) : sink[i] = (Identity \o TailBytes)[i]
        BY <2>0, <3>1, <3>2 DEF BaseThenTail
      <3>. QED  BY <2>0, <3>1, <3>2, <3>3, SeqEqual
    <2>. QED  BY <2>1, <2>2 DEF SuccessIsExact
  <1>. QED  BY <1>1, Invariance, PTL
=============================================================================
