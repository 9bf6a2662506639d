----------------------- MODULE SequentialStreamProofs -----------------------
(***************************************************************************)
(* Proofs about SequentialStream, for every set of identifiers, payloads   *)
(* and manifests, all limits and every harm done to a file.                *)
(***************************************************************************)
EXTENDS SequentialStream, NaturalsSets, SequenceTheorems

(* Flattening. *)

\* What FlattenSeq computes.
LEMMA FlattenSteps ==
    ASSUME NEW S, NEW s \in Seq(Seq(S)), Len(s) # 0
    PROVE  \E f : /\ f[1] = s[1]
                  /\ \A i \in 2..Len(s) : f[i] = f[i - 1] \o s[i]
                  /\ FlattenSeq(s) = f[Len(s)]
  <1>. DEFINE Join(x, i) == x \o s[i]
              N == Len(s)
              Steps(f, n) == f = [i \in 1..n |-> IF i = 1 THEN s[i] ELSE Join(f[i - 1], i)]
              G == {n \in Nat : \E f : Steps(f, n)}
              t == CHOOSE f : Steps(f, N)
  <1>0. FlattenSeq(s) = t[N]
    BY Zenon DEF FlattenSeq
  <1>. HIDE DEF Join
  <1>1. 0 \in G
    <2>. DEFINE f == [i \in 1..0 |-> 0]
    <2>1. Steps(f, 0)
      OBVIOUS
    <2>. QED  BY <2>1
  <1>2. ASSUME NEW n \in Nat, n \in G PROVE n + 1 \in G
    <2>1. PICK f : Steps(f, n)
      BY <1>2
    <2>. DEFINE h == [i \in 1..(n + 1) |->
                        IF i <= n THEN f[i] ELSE IF i = 1 THEN s[i] ELSE Join(f[n], i)]
                g == [i \in 1..(n + 1) |-> IF i = 1 THEN s[i] ELSE Join(h[i - 1], i)]
    <2>2. \A i \in 1..n : f[i] = IF i = 1 THEN s[i] ELSE Join(f[i - 1], i)
      BY <2>1
    <2>3. \A i \in 1..n : h[i] = f[i]
      OBVIOUS
    <2>4. \A i \in 1..(n + 1) : h[i] = g[i]
      <3>1. TAKE i \in 1..(n + 1)
      <3>2. CASE i = 1
        BY <2>2, <3>2
      <3>3. CASE i # 1 /\ i <= n
        <4>1. h[i - 1] = f[i - 1]
          BY <2>3, <3>3
        <4>2. h[i] = Join(f[i - 1], i)
          BY <2>2, <2>3, <3>3
        <4>. QED  BY <3>1, <3>3, <4>1, <4>2
      <3>4. CASE i # 1 /\ i = n + 1
        <4>1. h[n] = f[n] /\ i - 1 = n
          BY <2>3, <3>4
        <4>2. h[i] = Join(f[n], i)
          BY <3>4
        <4>. QED  BY <3>1, <3>4, <4>1, <4>2
      <3>. QED  BY <3>1, <3>2, <3>3, <3>4
    <2>5. h = g
      BY <2>4
    <2>. HIDE DEF h
    <2>6. Steps(h, n + 1)
      BY <2>5
    <2>. HIDE DEF Steps
    <2>. QED  BY <2>6
  <1>3. \E f : Steps(f, N)
    <2>. HIDE DEF G
    <2>1. Nat \subseteq G
      BY <1>1, <1>2, NatSetInduction
    <2>2. N \in G
      BY <2>1, LenProperties
    <2>. HIDE DEF Steps
    <2>. QED  BY <2>2 DEF G
  <1>4. Steps(t, N)
    <2>. HIDE DEF Steps
    <2>. QED  BY <1>3, Zenon
  <1>. HIDE DEF t
  <1>6. \A i \in 1..N : t[i] = IF i = 1 THEN s[i] ELSE Join(t[i - 1], i)
    BY <1>4
  <1>7. N \in Nat /\ N # 0
    BY LenProperties
  <1>. HIDE DEF N
  <1>8. t[1] = s[1] /\ \A i \in 2..N : t[i] = Join(t[i - 1], i)
    BY <1>6, <1>7
  <1>. QED  BY <1>0, <1>8, Zenon DEF N, Join

LEMMA FlattenType ==
    ASSUME NEW S, NEW s \in Seq(Seq(S))
    PROVE  FlattenSeq(s) \in Seq(S)
  <1>1. Len(s) \in Nat /\ \A i \in 1..Len(s) : s[i] \in Seq(S)
    BY LenProperties, ElementOfSeq
  <1>2. CASE Len(s) = 0
    <2>1. s = <<>>
      BY <1>2, EmptySeq
    <2>2. FlattenSeq(s) = s
      BY <1>2 DEF FlattenSeq
    <2>. QED  BY <2>1, <2>2, EmptySeq
  <1>3. CASE Len(s) # 0
    <2>1. PICK f : /\ f[1] = s[1]
                   /\ \A i \in 2..Len(s) : f[i] = f[i - 1] \o s[i]
                   /\ FlattenSeq(s) = f[Len(s)]
      BY <1>3, FlattenSteps
    <2>. DEFINE G == {n \in Nat : n + 1 <= Len(s) => f[n + 1] \in Seq(S)}
    <2>2. 0 \in G
      BY <1>1, <1>3, <2>1
    <2>3. ASSUME NEW n \in Nat, n \in G PROVE n + 1 \in G
      <3>1. SUFFICES ASSUME n + 1 + 1 <= Len(s) PROVE f[n + 1 + 1] \in Seq(S)
        OBVIOUS
      <3>2. f[n + 1] \in Seq(S) /\ n + 1 + 1 \in 2..Len(s) /\ (n + 1 + 1) - 1 = n + 1
        BY <1>1, <2>3, <3>1
      <3>. DEFINE k == n + 1 + 1
      <3>. HIDE DEF k
      <3>3. k \in 2..Len(s) /\ k \in 1..Len(s) /\ k - 1 = n + 1 /\ k = n + 1 + 1
        BY <1>1, <3>2 DEF k
      <3>4. f[k] = f[k - 1] \o s[k] /\ s[k] \in Seq(S)
        BY <1>1, <2>1, <3>3, Zenon
      <3>5. f[k - 1] \in Seq(S)
        BY <3>2, <3>3
      <3>. QED  BY <3>3, <3>4, <3>5, ConcatProperties
    <2>. HIDE DEF G
    <2>4. Nat \subseteq G
      BY <2>2, <2>3, NatSetInduction
    <2>5. Len(s) - 1 \in G /\ Len(s) - 1 + 1 = Len(s)
      BY <1>1, <1>3, <2>4
    <2>6. f[Len(s)] \in Seq(S)
      BY <1>1, <2>5 DEF G
    <2>. QED  BY <2>1, <2>6
  <1>. QED  BY <1>2, <1>3

LEMMA FlattenAppend ==
    ASSUME NEW S, NEW s \in Seq(Seq(S)), NEW x \in Seq(S)
    PROVE  FlattenSeq(Append(s, x)) = FlattenSeq(s) \o x
  <1>. DEFINE a == Append(s, x)
              n == Len(s)
  <1>1. a \in Seq(Seq(S)) /\ Len(a) = n + 1 /\ n \in Nat /\ a[n + 1] = x
        /\ \A i \in 1..n : a[i] = s[i]
    BY AppendProperties, LenProperties
  <1>. HIDE DEF a
  <1>2. PICK g : /\ g[1] = a[1]
                 /\ \A i \in 2..Len(a) : g[i] = g[i - 1] \o a[i]
                 /\ FlattenSeq(a) = g[Len(a)]
    <2>1. Len(a) # 0
      BY <1>1
    <2>. QED  BY <1>1, <2>1, FlattenSteps
  <1>3. CASE n = 0
    <2>1. s = <<>>
      BY <1>3, EmptySeq
    <2>2. FlattenSeq(s) = s
      BY <1>3 DEF FlattenSeq
    <2>3. FlattenSeq(a) = x
      BY <1>1, <1>2, <1>3
    <2>. QED  BY <2>1, <2>2, <2>3, ConcatEmptySeq DEF a
  <1>4. CASE n # 0
    <2>1. PICK f : /\ f[1] = s[1]
                   /\ \A i \in 2..n : f[i] = f[i - 1] \o s[i]
                   /\ FlattenSeq(s) = f[n]
      BY <1>4, FlattenSteps
    <2>. DEFINE G == {m \in Nat : m + 1 <= n => f[m + 1] = g[m + 1]}
    <2>2. 0 \in G
      BY <1>1, <1>2, <1>4, <2>1
    <2>3. ASSUME NEW m \in Nat, m \in G PROVE m + 1 \in G
      <3>1. SUFFICES ASSUME m + 1 + 1 <= n PROVE f[m + 1 + 1] = g[m + 1 + 1]
        OBVIOUS
      <3>2. f[m + 1] = g[m + 1] /\ m + 1 + 1 \in 2..n /\ (m + 1 + 1) - 1 = m + 1
            /\ m + 1 + 1 \in 2..Len(a) /\ m + 1 + 1 \in 1..n
        BY <1>1, <2>3, <3>1
      <3>3. f[m + 1 + 1] = f[m + 1] \o s[m + 1 + 1]
        BY <2>1, <3>2
      <3>4. g[m + 1 + 1] = g[m + 1] \o s[m + 1 + 1]
        BY <1>1, <1>2, <3>2
      <3>. QED  BY <3>2, <3>3, <3>4
    <2>. HIDE DEF G
    <2>4. Nat \subseteq G
      BY <2>2, <2>3, NatSetInduction
    <2>5. n - 1 \in G /\ n - 1 + 1 = n
      BY <1>1, <1>4, <2>4
    <2>6. f[n] = g[n]
      BY <1>1, <2>5 DEF G
    <2>7. n + 1 \in 2..Len(a) /\ (n + 1) - 1 = n
      BY <1>1, <1>4
    <2>8. FlattenSeq(a) = g[n] \o x
      BY <1>1, <1>2, <2>7
    <2>. QED  BY <2>1, <2>6, <2>8 DEF a
  <1>. QED  BY <1>3, <1>4

-----------------------------------------------------------------------------
(* Records, one after the other. *)

\* The units of a record.
UnitsOf(r) == Record(r.kind, r.id, r.payload)

\* The first n of the records as they lie in a file.
Laid(recs, n) == FlattenSeq([j \in 1..n |-> UnitsOf(recs[j])])

LEMMA UnitsOfRecord ==
    ASSUME NEW S, RecordUnits \subseteq S, NEW r \in Records(S)
    PROVE  /\ UnitsOf(r) \in Seq(S)
           /\ Len(r.payload) \in Nat
           /\ Len(UnitsOf(r)) = 1 + Len(r.payload)
           /\ UnitsOf(r)[1] = RecordUnit(r.kind, r.id, Len(r.payload))
           /\ \A i \in 1..Len(r.payload) : UnitsOf(r)[1 + i] = r.payload[i]
  <1>. DEFINE head == RecordUnit(r.kind, r.id, Len(r.payload))
              one == <<head>>
              p == r.payload
  <1>1. p \in Seq(S) /\ Len(p) \in Nat
    BY LenProperties DEF Records
  <1>2. head \in S
    BY <1>1 DEF RecordUnit, RecordUnits, Records
  <1>. HIDE DEF head
  <1>3. one \in Seq(S) /\ Len(one) = 1 /\ one[1] = head
    BY <1>2
  <1>4. UnitsOf(r) = one \o p
    BY DEF UnitsOf, Record, head
  <1>. HIDE DEF one, p
  <1>5. /\ one \o p \in Seq(S) /\ Len(one \o p) = Len(one) + Len(p)
        /\ \A i \in 1..(Len(one) + Len(p)) : (one \o p)[i] =
              IF i <= Len(one) THEN one[i] ELSE p[i - Len(one)]
    <2>1. one \in Seq(S) /\ p \in Seq(S)
      BY <1>1, <1>3
    <2>. QED  BY <2>1, ConcatProperties, Zenon
  <1>6. ASSUME NEW i \in 1..Len(p) PROVE (one \o p)[1 + i] = p[i]
    <2>1. 1 + i \in 1..(Len(one) + Len(p)) /\ ~(1 + i <= Len(one)) /\ 1 + i - Len(one) = i
      BY <1>1, <1>3
    <2>. QED  BY <1>5, <2>1
  <1>7. (one \o p)[1] = head
    <2>1. 1 \in 1..(Len(one) + Len(p)) /\ 1 <= Len(one)
      BY <1>1, <1>3
    <2>. QED  BY <1>3, <1>5, <2>1
  <1>. QED  BY <1>1, <1>3, <1>4, <1>5, <1>6, <1>7 DEF head, p

LEMMA LaidSteps ==
    ASSUME NEW S, RecordUnits \subseteq S, NEW recs \in Seq(Records(S)), NEW n \in 0..Len(recs)
    PROVE  /\ Laid(recs, n) \in Seq(S)
           /\ Laid(recs, 0) = <<>>
           /\ n < Len(recs) => Laid(recs, n + 1) = Laid(recs, n) \o UnitsOf(recs[n + 1])
  <1>. DEFINE U(i) == UnitsOf(recs[i])
              L(m) == [j \in 1..m |-> U(j)]
  <1>0. n \in Nat /\ Len(recs) \in Nat /\ n <= Len(recs)
    BY LenProperties
  <1>1. \A i \in 1..Len(recs) : U(i) \in Seq(S)
    BY ElementOfSeq, UnitsOfRecord
  <1>. HIDE DEF U
  <1>2. \A m \in 0..Len(recs) : L(m) \in Seq(Seq(S)) /\ Len(L(m)) = m
    <2>1. TAKE m \in 0..Len(recs)
    <2>2. L(m) \in [1..m -> Seq(S)] /\ m \in Nat
      BY <1>0, <1>1
    <2>. QED  BY <2>2
  <1>3. Laid(recs, n) \in Seq(S)
    <2>1. Laid(recs, n) = FlattenSeq(L(n))
      BY DEF Laid, U
    <2>2. L(n) \in Seq(Seq(S))
      BY <1>2
    <2>. HIDE DEF L
    <2>. QED  BY <2>1, <2>2, FlattenType
  <1>4. Laid(recs, 0) = <<>>
    <2>1. Laid(recs, 0) = FlattenSeq(L(0))
      BY DEF Laid, U
    <2>2. L(0) \in Seq(Seq(S)) /\ Len(L(0)) = 0
      BY <1>0, <1>2
    <2>. HIDE DEF L
    <2>3. FlattenSeq(L(0)) = L(0)
      BY <2>2 DEF FlattenSeq
    <2>4. L(0) = <<>>
      BY <2>2, EmptySeq
    <2>. QED  BY <2>1, <2>3, <2>4
  <1>5. ASSUME n < Len(recs) PROVE Laid(recs, n + 1) = Laid(recs, n) \o U(n + 1)
    <2>. DEFINE x == U(n + 1)
                a == L(n)
                b == L(n + 1)
    <2>1. n + 1 \in 0..Len(recs) /\ n + 1 \in 1..Len(recs)
      BY <1>0, <1>5
    <2>2. a \in Seq(Seq(S)) /\ Len(a) = n /\ b \in Seq(Seq(S)) /\ Len(b) = n + 1
          /\ x \in Seq(S)
      BY <1>1, <1>2, <2>1
    <2>3. b[n + 1] = x /\ \A i \in 1..n : b[i] = a[i]
      BY <1>0
    <2>. HIDE DEF a, b, x
    <2>4. /\ Append(a, x) \in Seq(Seq(S)) /\ Len(Append(a, x)) = Len(a) + 1
          /\ \A i \in 1..Len(a) : Append(a, x)[i] = a[i]
          /\ Append(a, x)[Len(a) + 1] = x
      BY <2>2, AppendProperties
    <2>5. b = Append(a, x)
      <3>1. \A i \in 1..(n + 1) : i \in 1..n \/ i = n + 1
        BY <1>0
      <3>2. \A i \in 1..Len(b) : b[i] = Append(a, x)[i]
        BY <2>2, <2>3, <2>4, <3>1
      <3>3. Len(b) = Len(Append(a, x))
        BY <2>2, <2>4
      <3>. QED  BY <2>2, <2>4, <3>2, <3>3, SeqEqual
    <2>6. FlattenSeq(b) = FlattenSeq(a) \o x
      BY <2>2, <2>5, FlattenAppend
    <2>7. Laid(recs, n + 1) = FlattenSeq(b) /\ Laid(recs, n) = FlattenSeq(a)
      BY Zenon DEF Laid, a, b, U
    <2>. QED  BY <2>6, <2>7 DEF x
  <1>. QED  BY <1>3, <1>4, <1>5 DEF U

\* Only the first n records count.
LEMMA LaidOfFirst ==
    ASSUME NEW a, NEW b, NEW n, \A i \in 1..n : a[i] = b[i]
    PROVE  Laid(a, n) = Laid(b, n)
  <1>1. \A i \in 1..n : UnitsOf(a[i]) = UnitsOf(b[i])
    OBVIOUS
  <1>2. [j \in 1..n |-> UnitsOf(a[j])] = [j \in 1..n |-> UnitsOf(b[j])]
    BY <1>1
  <1>. QED  BY <1>2 DEF Laid

\* What has been laid down stays when more follows.
LEMMA LaidPrefix ==
    ASSUME NEW S, RecordUnits \subseteq S, NEW recs \in Seq(Records(S)),
           NEW m \in 0..Len(recs), NEW n \in m..Len(recs)
    PROVE  /\ Len(Laid(recs, m)) \in Nat /\ Len(Laid(recs, n)) \in Nat
           /\ Len(Laid(recs, m)) <= Len(Laid(recs, n))
           /\ \A i \in 1..Len(Laid(recs, m)) : Laid(recs, n)[i] = Laid(recs, m)[i]
  <1>0. Len(recs) \in Nat /\ m \in Nat /\ n \in Nat /\ m <= n /\ n <= Len(recs)
    BY LenProperties
  <1>1. \A k \in 0..Len(recs) : Laid(recs, k) \in Seq(S) /\ Len(Laid(recs, k)) \in Nat
    BY LaidSteps, LenProperties
  <1>. DEFINE Extends(d) == /\ Len(Laid(recs, m)) <= Len(Laid(recs, m + d))
                            /\ \A i \in 1..Len(Laid(recs, m)) :
                                  Laid(recs, m + d)[i] = Laid(recs, m)[i]
              G == {d \in Nat : m + d <= Len(recs) => Extends(d)}
  <1>2. 0 \in G
    <2>1. m + 0 = m
      BY <1>0
    <2>. QED  BY <1>1, <2>1
  <1>3. ASSUME NEW d \in Nat, d \in G PROVE d + 1 \in G
    <2>1. SUFFICES ASSUME m + (d + 1) <= Len(recs) PROVE Extends(d + 1)
      OBVIOUS
    <2>. DEFINE k == m + d
                x == Laid(recs, k)
                u == UnitsOf(recs[k + 1])
    <2>2. k \in 0..Len(recs) /\ k < Len(recs) /\ m + (d + 1) = k + 1 /\ k + 1 \in 1..Len(recs)
      BY <1>0, <2>1
    <2>3. Extends(d)
      BY <1>0, <1>3, <2>2
    <2>4. Laid(recs, k + 1) = x \o u
      BY <2>2, LaidSteps
    <2>5. x \in Seq(S) /\ u \in Seq(S) /\ Len(x) \in Nat /\ Len(u) \in Nat
      <3>1. recs[k + 1] \in Records(S)
        BY <2>2, ElementOfSeq
      <3>2. u \in Seq(S)
        BY <3>1, UnitsOfRecord
      <3>. QED  BY <1>1, <2>2, <3>2, LenProperties
    <2>. HIDE DEF x, u
    <2>6. /\ Len(x \o u) = Len(x) + Len(u)
          /\ \A i \in 1..(Len(x) + Len(u)) : (x \o u)[i] =
                IF i <= Len(x) THEN x[i] ELSE u[i - Len(x)]
      BY <2>5, ConcatProperties, Zenon
    <2>. DEFINE y == x \o u
    <2>. HIDE DEF y
    <2>7. Len(x) <= Len(y) /\ \A i \in 1..Len(x) : y[i] = x[i]
      BY <2>5, <2>6 DEF y
    <2>8. Len(Laid(recs, m)) \in Nat
      BY <1>1
    <2>9. Laid(recs, m + (d + 1)) = y /\ Laid(recs, m + d) = x
      BY <2>2, <2>4 DEF x, y
    <2>10. /\ Len(Laid(recs, m)) <= Len(x)
           /\ \A i \in 1..Len(Laid(recs, m)) : x[i] = Laid(recs, m)[i]
      BY <2>3, <2>9
    <2>11. Len(y) \in Nat
      BY <2>5, <2>6 DEF y
    <2>12. /\ Len(Laid(recs, m)) <= Len(y)
           /\ \A i \in 1..Len(Laid(recs, m)) : y[i] = Laid(recs, m)[i]
      BY <2>5, <2>7, <2>8, <2>10, <2>11
    <2>. QED  BY <2>9, <2>12
  <1>. HIDE DEF G
  <1>4. Nat \subseteq G
    BY <1>2, <1>3, NatSetInduction
  <1>5. n - m \in G /\ m + (n - m) = n
    BY <1>0, <1>4
  <1>6. Extends(n - m)
    BY <1>0, <1>5 DEF G
  <1>. QED  BY <1>0, <1>1, <1>5, <1>6

\* Where a record lies.
LEMMA LaidRecord ==
    ASSUME NEW S, RecordUnits \subseteq S, NEW recs \in Seq(Records(S)),
           NEW m \in 0..(Len(recs) - 1), NEW n \in (m + 1)..Len(recs)
    PROVE  LET p == Len(Laid(recs, m))
               r == recs[m + 1]
           IN  /\ p \in Nat /\ Len(r.payload) \in Nat /\ Len(Laid(recs, n)) \in Nat
               /\ p + 1 + Len(r.payload) <= Len(Laid(recs, n))
               /\ Len(Laid(recs, m + 1)) = p + 1 + Len(r.payload)
               /\ Laid(recs, n)[p + 1] = RecordUnit(r.kind, r.id, Len(r.payload))
               /\ \A i \in 1..Len(r.payload) : Laid(recs, n)[p + 1 + i] = r.payload[i]
  <1>. DEFINE x == Laid(recs, m)
              r == recs[m + 1]
              u == UnitsOf(r)
              y == Laid(recs, m + 1)
              z == Laid(recs, n)
  <1>0. Len(recs) \in Nat /\ m \in 0..Len(recs) /\ m < Len(recs) /\ m + 1 \in 1..Len(recs)
        /\ m + 1 \in 0..Len(recs) /\ n \in (m + 1)..Len(recs) /\ n \in 0..Len(recs)
    BY LenProperties
  <1>1. r \in Records(S)
    BY <1>0, ElementOfSeq
  <1>2. /\ u \in Seq(S) /\ Len(r.payload) \in Nat /\ Len(u) = 1 + Len(r.payload)
        /\ u[1] = RecordUnit(r.kind, r.id, Len(r.payload))
        /\ \A i \in 1..Len(r.payload) : u[1 + i] = r.payload[i]
    BY <1>1, UnitsOfRecord
  <1>3. x \in Seq(S) /\ Len(x) \in Nat /\ y = x \o u
    BY <1>0, LaidSteps, LenProperties
  <1>4. Len(y) <= Len(z) /\ Len(y) \in Nat /\ Len(z) \in Nat /\ \A i \in 1..Len(y) : z[i] = y[i]
    BY <1>0, LaidPrefix
  <1>. HIDE DEF x, u, y, z, r
  <1>5. /\ Len(x \o u) = Len(x) + Len(u)
        /\ \A i \in 1..(Len(x) + Len(u)) : (x \o u)[i] =
              IF i <= Len(x) THEN x[i] ELSE u[i - Len(x)]
    <2>1. x \in Seq(S) /\ u \in Seq(S)
      BY <1>2, <1>3
    <2>. QED  BY <2>1, ConcatProperties, Zenon
  <1>. DEFINE lx == Len(x)
              lu == Len(u)
              lp == Len(r.payload)
  <1>. HIDE DEF lx, lu, lp
  <1>51. lx \in Nat /\ lp \in Nat /\ lu = 1 + lp
    BY <1>2, <1>3 DEF lx, lu, lp
  <1>52. Len(y) = lx + lu
    BY <1>3, <1>5, Zenon DEF lx, lu
  <1>53. Len(y) = lx + 1 + lp
    BY <1>51, <1>52
  <1>6. Len(y) = Len(x) + 1 + Len(r.payload)
    BY <1>53 DEF lx, lp
  <1>7. \A j \in 1..Len(u) : z[Len(x) + j] = u[j]
    <2>1. TAKE j \in 1..Len(u)
    <2>2. j \in 1..lu
      BY DEF lu
    <2>3. lx + j \in 1..(lx + lu) /\ ~(lx + j <= lx) /\ lx + j - lx = j
      BY <1>51, <2>2
    <2>4. \A i \in 1..(lx + lu) : (x \o u)[i] = IF i <= lx THEN x[i] ELSE u[i - lx]
      BY <1>5, Zenon DEF lx, lu
    <2>5. y[lx + j] = u[j]
      <3>1. \A i \in 1..(lx + lu) : y[i] = IF i <= lx THEN x[i] ELSE u[i - lx]
        BY <1>3, <2>4, Zenon
      <3>. QED  BY <1>51, <2>2, <2>3, <3>1
    <2>6. \A i \in 1..(lx + lu) : z[i] = y[i]
      BY <1>4, <1>52, Zenon
    <2>7. z[lx + j] = u[j]
      BY <2>3, <2>5, <2>6, Zenon
    <2>. QED  BY <2>7 DEF lx
  <1>8. z[Len(x) + 1] = RecordUnit(r.kind, r.id, Len(r.payload))
    <2>1. 1 \in 1..Len(u)
      BY <1>2
    <2>. QED  BY <1>2, <1>7, <2>1
  <1>9. ASSUME NEW i \in 1..Len(r.payload) PROVE z[Len(x) + 1 + i] = r.payload[i]
    <2>1. 1 + i \in 1..Len(u) /\ Len(x) + (1 + i) = Len(x) + 1 + i
      BY <1>2, <1>3
    <2>. QED  BY <1>2, <1>7, <2>1
  <1>. QED  BY <1>2, <1>3, <1>4, <1>6, <1>8, <1>9 DEF x, y, z, r

\* Records can be told from the units they lie in: a file that begins with these
\* records' units begins with these records.
LEMMA LaidIsUnique ==
    ASSUME NEW S, RecordUnits \subseteq S,
           NEW a \in Seq(Records(S)), NEW b \in Seq(Records(S)),
           Len(Laid(a, Len(a))) <= Len(Laid(b, Len(b))),
           \A i \in 1..Len(Laid(a, Len(a))) : Laid(a, Len(a))[i] = Laid(b, Len(b))[i]
    PROVE  Len(a) <= Len(b) /\ \A i \in 1..Len(a) : a[i] = b[i]
  <1>. DEFINE x == Laid(a, Len(a))
              y == Laid(b, Len(b))
              Same(k) == k <= Len(b) /\ \A i \in 1..k : a[i] = b[i]
              G == {k \in Nat : k <= Len(a) => Same(k)}
  <1>0. Len(a) \in Nat /\ Len(b) \in Nat
    BY LenProperties
  <1>1. 0 \in G
    BY <1>0
  <1>2. ASSUME NEW k \in Nat, k \in G PROVE k + 1 \in G
    <2>1. SUFFICES ASSUME k + 1 <= Len(a) PROVE Same(k + 1)
      OBVIOUS
    <2>2. k \in 0..(Len(a) - 1) /\ k + 1 \in 1..Len(a) /\ Same(k) /\ Len(a) \in (k + 1)..Len(a)
      BY <1>0, <1>2, <2>1
    <2>. DEFINE p == Len(Laid(a, k))
                r == a[k + 1]
                q == b[k + 1]
    <2>3. /\ p \in Nat /\ Len(r.payload) \in Nat /\ Len(x) \in Nat
          /\ p + 1 + Len(r.payload) <= Len(x)
          /\ x[p + 1] = RecordUnit(r.kind, r.id, Len(r.payload))
          /\ \A i \in 1..Len(r.payload) : x[p + 1 + i] = r.payload[i]
      <3>1. k \in 0..(Len(a) - 1) /\ Len(a) \in (k + 1)..Len(a)
        BY <2>2
      <3>. QED  BY <3>1, LaidRecord, ZenonT(60)
    <2>4. Laid(a, k) = Laid(b, k)
      BY <2>2, LaidOfFirst
    <2>. DEFINE lx == Len(x)
                lp == Len(r.payload)
    <2>41. lx <= Len(y)
      OBVIOUS
    <2>42. p \in Nat /\ lp \in Nat /\ lx \in Nat /\ p + 1 + lp <= lx
      BY <2>3
    <2>5. k # Len(b)
      <3>1. SUFFICES ASSUME k = Len(b) PROVE FALSE
        OBVIOUS
      <3>2. Len(y) = p
        BY <2>4, <3>1
      <3>3. lx <= p
        BY <2>41, <3>2
      <3>. HIDE DEF p, lx, lp
      <3>. QED  BY <2>42, <3>3
    <2>6. k \in 0..(Len(b) - 1) /\ k + 1 \in 1..Len(b) /\ Len(b) \in (k + 1)..Len(b)
      BY <1>0, <2>2, <2>5
    <2>61. p = Len(Laid(b, k))
      BY <2>4
    <2>7. /\ Len(q.payload) \in Nat /\ Len(y) \in Nat
          /\ p + 1 + Len(q.payload) <= Len(y)
          /\ y[p + 1] = RecordUnit(q.kind, q.id, Len(q.payload))
          /\ \A i \in 1..Len(q.payload) : y[p + 1 + i] = q.payload[i]
      <3>. DEFINE o == Len(Laid(b, k))
      <3>1. /\ Len(q.payload) \in Nat /\ Len(y) \in Nat
            /\ o + 1 + Len(q.payload) <= Len(y)
            /\ y[o + 1] = RecordUnit(q.kind, q.id, Len(q.payload))
            /\ \A i \in 1..Len(q.payload) : y[o + 1 + i] = q.payload[i]
        BY <2>6, LaidRecord
      <3>2. p = o
        BY <2>61
      <3>. HIDE DEF p, o, y, q
      <3>. QED  BY <3>1, <3>2, Zenon
    <2>8. r \in Records(S) /\ q \in Records(S)
      BY <2>2, <2>6, ElementOfSeq
    <2>9. \A i \in 1..Len(x) : x[i] = y[i]
      OBVIOUS
    <2>. HIDE DEF x, y, p, r, q
    <2>10. r.kind = q.kind /\ r.id = q.id /\ Len(r.payload) = Len(q.payload)
      <3>1. p + 1 \in 1..Len(x)
        <4>. HIDE DEF lx, lp
        <4>1. p + 1 \in 1..lx
          BY <2>42
        <4>. QED  BY <4>1 DEF lx
      <3>2. RecordUnit(r.kind, r.id, Len(r.payload)) = RecordUnit(q.kind, q.id, Len(q.payload))
        BY <2>3, <2>7, <2>9, <3>1, Zenon
      <3>. QED  BY <3>2 DEF RecordUnit
    <2>11. r.payload = q.payload
      <3>1. \A i \in 1..Len(r.payload) : r.payload[i] = q.payload[i]
        <4>1. TAKE i \in 1..Len(r.payload)
        <4>2. p + 1 + i \in 1..Len(x)
          <5>. HIDE DEF lx, lp
          <5>1. i \in 1..lp
            BY DEF lp
          <5>2. p + 1 + i \in 1..lx
            BY <2>42, <5>1
          <5>. QED  BY <5>2 DEF lx
        <4>3. i \in 1..Len(q.payload)
          BY <2>10
        <4>. QED  BY <2>3, <2>7, <2>9, <4>2, <4>3, Zenon
      <3>2. r.payload \in Seq(S) /\ q.payload \in Seq(S)
        BY <2>8 DEF Records
      <3>. QED  BY <2>10, <3>1, <3>2, SeqEqual
    <2>12. r = q
      <3>1. /\ r = [kind |-> r.kind, id |-> r.id, payload |-> r.payload]
            /\ q = [kind |-> q.kind, id |-> q.id, payload |-> q.payload]
        BY <2>8 DEF Records
      <3>. QED  BY <2>10, <2>11, <3>1, Zenon
    <2>13. \A i \in 1..(k + 1) : i \in 1..k \/ i = k + 1
      OBVIOUS
    <2>. QED  BY <1>0, <2>2, <2>6, <2>12, <2>13 DEF r, q
  <1>. HIDE DEF G
  <1>3. Nat \subseteq G
    BY <1>1, <1>2, NatSetInduction
  <1>4. Len(a) \in G
    BY <1>0, <1>3
  <1>. QED  BY <1>0, <1>4 DEF G
-----------------------------------------------------------------------------
(* Whole files. *)

EntryOf(recs, i) ==
    Entry(recs[i].kind, recs[i].id, 1 + Len(Laid(recs, i - 1)), Len(recs[i].payload))
EntriesOf(recs) == [i \in 1..Len(recs) |-> EntryOf(recs, i)]

\* The header and the records; the directory of these records; all the records.
Body(recs) == <<HeaderUnit>> \o Laid(recs, Len(recs))
DirectoryOf(recs) ==
    [kind |-> "Directory", id |-> 0, payload |-> EncodeDirectory(EntriesOf(recs))]
Whole(recs) == Append(recs, DirectoryOf(recs))

FooterOf(recs, manifest) ==
    FooterUnit([offset |-> Len(Body(recs)), len |-> 1 + Len(DirectoryOf(recs).payload)],
               manifest, Len(recs) + 1, Body(Whole(recs)))

LEMMA UnitSets ==
    /\ RecordUnits \subseteq Plain /\ RecordUnits \subseteq Units /\ Plain \subseteq Units
    /\ HeaderUnit \in Plain /\ TornUnit \in Plain /\ GarbageUnit \in Plain
    /\ Bytes \subseteq Plain /\ ManifestUnits \subseteq Plain /\ DirectoryUnits \subseteq Plain
    /\ Footers \subseteq Units
  BY DEF Plain, Units

LEMMA EncodeDirectoryType ==
    ASSUME NEW es \in Seq(Entries)
    PROVE  /\ EncodeDirectory(es) \in Seq(DirectoryUnits)
           /\ Len(EncodeDirectory(es)) = 1 + Len(es)
           /\ Len(es) \in Nat
  <1>1. Len(es) \in Nat
    BY LenProperties
  <1>. DEFINE n == 1 + Len(es)
  <1>2. n \in Nat
    BY <1>1
  <1>3. EncodeDirectory(es) = [i \in 1..n |-> [t |-> "directory", entries |-> es, part |-> i]]
    BY DEF EncodeDirectory
  <1>. HIDE DEF n
  <1>4. [i \in 1..n |-> [t |-> "directory", entries |-> es, part |-> i]] \in [1..n -> DirectoryUnits]
    BY <1>2 DEF DirectoryUnits
  <1>5. EncodeDirectory(es) \in [1..n -> DirectoryUnits]
    BY <1>3, <1>4
  <1>. QED  BY <1>1, <1>2, <1>5 DEF n

LEMMA EncodeManifestType ==
    ASSUME NEW m \in Manifests
    PROVE  /\ EncodeManifest(m) \in Seq(ManifestUnits)
           /\ Len(EncodeManifest(m)) \in Nat
           /\ Len(EncodeManifest(m)) # 0
  <1>1. Cardinality(m.roots) \in Nat
    BY StreamAssumption, FS_CardinalityType
  <1>. DEFINE n == 1 + Cardinality(m.roots)
  <1>2. n \in Nat /\ n # 0
    BY <1>1
  <1>3. EncodeManifest(m) = [i \in 1..n |-> [t |-> "manifest", m |-> m, part |-> i]]
    BY DEF EncodeManifest
  <1>. HIDE DEF n
  <1>4. [i \in 1..n |-> [t |-> "manifest", m |-> m, part |-> i]] \in [1..n -> ManifestUnits]
    BY <1>2 DEF ManifestUnits
  <1>5. EncodeManifest(m) \in [1..n -> ManifestUnits]
    BY <1>3, <1>4
  <1>. QED  BY <1>2, <1>5

LEMMA EntriesType ==
    ASSUME NEW S, RecordUnits \subseteq S, NEW recs \in Seq(Records(S))
    PROVE  EntriesOf(recs) \in Seq(Entries) /\ Len(EntriesOf(recs)) = Len(recs)
  <1>1. Len(recs) \in Nat
    BY LenProperties
  <1>2. \A i \in 1..Len(recs) : EntryOf(recs, i) \in Entries
    <2>1. TAKE i \in 1..Len(recs)
    <2>2. recs[i] \in Records(S) /\ i - 1 \in 0..Len(recs)
      BY <1>1, ElementOfSeq
    <2>3. Laid(recs, i - 1) \in Seq(S)
      BY <2>2, LaidSteps
    <2>4. Len(Laid(recs, i - 1)) \in Nat
      BY <2>3, LenProperties
    <2>5. recs[i].kind \in Kinds /\ recs[i].id \in Nat /\ Len(recs[i].payload) \in Nat
      BY <2>2, LenProperties DEF Records
    <2>. DEFINE o == 1 + Len(Laid(recs, i - 1))
    <2>6. o \in Nat
      BY <2>4
    <2>. HIDE DEF o
    <2>. QED  BY <2>5, <2>6 DEF EntryOf, Entry, Entries, o
  <1>. DEFINE n == Len(recs)
              E(i) == EntryOf(recs, i)
  <1>3. EntriesOf(recs) = [i \in 1..n |-> E(i)]
    BY DEF EntriesOf
  <1>. HIDE DEF n, E
  <1>4. [i \in 1..n |-> E(i)] \in [1..n -> Entries] /\ n \in Nat
    BY <1>1, <1>2 DEF n, E
  <1>5. EntriesOf(recs) \in Seq(Entries) /\ Len(EntriesOf(recs)) = n
    BY <1>3, <1>4
  <1>. QED  BY <1>5 DEF n

LEMMA DirectoryType ==
    ASSUME NEW S, RecordUnits \subseteq S, DirectoryUnits \subseteq S, NEW recs \in Seq(Records(S))
    PROVE  /\ DirectoryOf(recs) \in Records(S)
           /\ Len(DirectoryOf(recs).payload) = 1 + Len(recs)
           /\ Whole(recs) \in Seq(Records(S))
           /\ Len(Whole(recs)) = Len(recs) + 1
           /\ Whole(recs)[Len(recs) + 1] = DirectoryOf(recs)
           /\ \A i \in 1..Len(recs) : Whole(recs)[i] = recs[i]
  <1>1. EntriesOf(recs) \in Seq(Entries) /\ Len(EntriesOf(recs)) = Len(recs)
    BY EntriesType
  <1>. DEFINE d == EncodeDirectory(EntriesOf(recs))
  <1>2. d \in Seq(DirectoryUnits) /\ Len(d) = 1 + Len(recs)
    BY <1>1, EncodeDirectoryType
  <1>3. d \in Seq(S)
    BY <1>2, SeqMonotonic
  <1>4. DirectoryOf(recs) = [kind |-> "Directory", id |-> 0, payload |-> d]
    BY DEF DirectoryOf
  <1>. HIDE DEF d
  <1>5. DirectoryOf(recs) \in Records(S) /\ Len(DirectoryOf(recs).payload) = 1 + Len(recs)
    BY <1>2, <1>3, <1>4 DEF Records, Kinds
  <1>. QED  BY <1>5, AppendProperties DEF Whole

\* The body of more records.
LEMMA BodyAppend ==
    ASSUME NEW S, RecordUnits \subseteq S, HeaderUnit \in S,
           NEW recs \in Seq(Records(S)), NEW r \in Records(S)
    PROVE  /\ Body(recs) \in Seq(S)
           /\ Len(Laid(recs, Len(recs))) \in Nat
           /\ Len(Body(recs)) = 1 + Len(Laid(recs, Len(recs)))
           /\ Laid(Append(recs, r), Len(recs) + 1) = Laid(recs, Len(recs)) \o UnitsOf(r)
           /\ Body(Append(recs, r)) = Body(recs) \o UnitsOf(r)
  <1>. DEFINE n == Len(recs)
              x == Laid(recs, n)
              a == Append(recs, r)
              u == UnitsOf(r)
              h == <<HeaderUnit>>
  <1>1. /\ n \in Nat /\ a \in Seq(Records(S)) /\ Len(a) = n + 1 /\ a[n + 1] = r
        /\ \A i \in 1..n : a[i] = recs[i]
    BY LenProperties, AppendProperties
  <1>2. n \in 0..Len(recs) /\ n \in 0..Len(a) /\ n < Len(a)
    BY <1>1
  <1>3. x \in Seq(S) /\ Len(x) \in Nat
    BY <1>2, LaidSteps, LenProperties
  <1>4. Laid(a, n + 1) = Laid(a, n) \o UnitsOf(a[n + 1])
    <2>. HIDE DEF a, n
    <2>. QED  BY <1>1, <1>2, LaidSteps
  <1>5. Laid(a, n) = x
    <2>. HIDE DEF a, n
    <2>. QED  BY <1>1, LaidOfFirst DEF x
  <1>6. Laid(a, n + 1) = x \o u
    BY <1>1, <1>4, <1>5
  <1>7. u \in Seq(S)
    BY UnitsOfRecord
  <1>8. h \in Seq(S) /\ Len(h) = 1
    OBVIOUS
  <1>9. Body(recs) = h \o x /\ Body(a) = h \o Laid(a, n + 1)
    BY <1>1 DEF Body
  <1>. HIDE DEF n, x, a, u, h
  <1>10. h \o x \in Seq(S) /\ Len(h \o x) = Len(h) + Len(x)
    BY <1>3, <1>8, ConcatProperties
  <1>11. Len(Body(recs)) = 1 + Len(x)
    BY <1>8, <1>9, <1>10
  <1>12. (h \o x) \o u = h \o (x \o u)
    BY <1>3, <1>7, <1>8, ConcatAssociative, SMTT(60)
  <1>13. Body(a) = Body(recs) \o u
    BY <1>6, <1>9, <1>12, Zenon
  <1>. QED  BY <1>3, <1>6, <1>9, <1>10, <1>11, <1>13 DEF n, x, a, u

\* What the writer of writer.rs makes of records.
LEMMA MemoryFileIs ==
    ASSUME NEW S, RecordUnits \subseteq S, DirectoryUnits \subseteq S, HeaderUnit \in S,
           NEW recs \in Seq(Records(S)), NEW manifest
    PROVE  MemoryFile(recs, manifest) = Append(Body(Whole(recs)), FooterOf(recs, manifest))
  <1>1. DOMAIN recs = 1..Len(recs) /\ Len(recs) \in Nat
    BY LenProperties
  <1>. DEFINE units(r)  == <<RecordUnit(r.kind, r.id, Len(r.payload))>> \o r.payload
              before(i) == 1 + Len(FlattenSeq([j \in 1..(i - 1) |-> units(recs[j])]))
              entries   == [i \in DOMAIN recs |->
                              Entry(recs[i].kind, recs[i].id, before(i), Len(recs[i].payload))]
              directory == [kind |-> "Directory", id |-> 0, payload |-> EncodeDirectory(entries)]
              prefix    == <<HeaderUnit>> \o FlattenSeq([i \in DOMAIN recs |-> units(recs[i])])
                           \o units(directory)
              footer    == FooterUnit([offset |-> before(Len(recs) + 1),
                                       len    |-> 1 + Len(directory.payload)],
                                      manifest, Len(recs) + 1, prefix)
  <1>2. MemoryFile(recs, manifest) = Append(prefix, footer)
    BY Zenon DEF MemoryFile
  <1>3. \A r : units(r) = UnitsOf(r)
    BY Zenon DEF UnitsOf, Record
  <1>. HIDE DEF units
  <1>4. \A i : before(i) = 1 + Len(Laid(recs, i - 1))
    <2>1. TAKE i
    <2>2. \A j \in 1..(i - 1) : units(recs[j]) = UnitsOf(recs[j])
      BY <1>3
    <2>3. [j \in 1..(i - 1) |-> units(recs[j])] = [j \in 1..(i - 1) |-> UnitsOf(recs[j])]
      BY <2>2
    <2>. QED  BY <2>3 DEF Laid
  <1>. HIDE DEF before
  <1>5. entries = EntriesOf(recs)
    <2>. DEFINE A(i) == Entry(recs[i].kind, recs[i].id, before(i), Len(recs[i].payload))
                B(i) == EntryOf(recs, i)
    <2>1. \A i : A(i) = B(i)
      BY <1>4 DEF EntryOf
    <2>2. entries = [i \in 1..Len(recs) |-> A(i)] /\ EntriesOf(recs) = [i \in 1..Len(recs) |-> B(i)]
      BY <1>1 DEF EntriesOf
    <2>. HIDE DEF A, B, entries
    <2>. QED  BY <2>1, <2>2
  <1>. HIDE DEF entries
  <1>6. directory = DirectoryOf(recs)
    BY <1>5 DEF DirectoryOf
  <1>. HIDE DEF directory
  <1>7. FlattenSeq([i \in DOMAIN recs |-> units(recs[i])]) = Laid(recs, Len(recs))
    <2>1. \A j \in 1..Len(recs) : units(recs[j]) = UnitsOf(recs[j])
      BY <1>3
    <2>2. [j \in 1..Len(recs) |-> units(recs[j])] = [j \in 1..Len(recs) |-> UnitsOf(recs[j])]
      BY <2>1
    <2>. QED  BY <1>1, <2>2 DEF Laid
  <1>8. prefix = Body(recs) \o UnitsOf(DirectoryOf(recs))
    BY <1>3, <1>6, <1>7 DEF Body
  <1>. HIDE DEF prefix
  <1>9. DirectoryOf(recs) \in Records(S)
    BY DirectoryType
  <1>10. prefix = Body(Whole(recs))
    BY <1>8, <1>9, BodyAppend DEF Whole
  <1>11. before(Len(recs) + 1) = Len(Body(recs))
    <2>1. (Len(recs) + 1) - 1 = Len(recs)
      BY <1>1
    <2>2. Len(Body(recs)) = 1 + Len(Laid(recs, Len(recs)))
      BY <1>9, BodyAppend
    <2>. QED  BY <1>4, <2>1, <2>2
  <1>12. footer = FooterOf(recs, manifest)
    BY <1>6, <1>10, <1>11 DEF FooterOf
  <1>. QED  BY <1>2, <1>10, <1>12
-----------------------------------------------------------------------------
(* The writer. *)

Writers == [st : {"new", "open", "failed", "finished", "gone"}, entries : Seq(Entries),
            hashed : Seq(Plain), limits : [LimitNames -> Nat], manifest : Nat]

WriterType ==
    /\ job \in Jobs /\ w \in Writers /\ w.limits = job.writer
    /\ sink \in Seq(Units) /\ accepted \in Seq(Records(Plain))
    /\ w.st # "finished" => sink \in Seq(Plain)

\* The accepted records, and what the sink, the digest and the directory have of
\* them; all of it in a file that is finished.
WriterKeeps ==
    /\ w.st = "new" => sink = <<>> /\ accepted = <<>> /\ w.entries = <<>>
    /\ w.st \in {"open", "finished"} =>
          /\ w.entries = EntriesOf(accepted)
          /\ \A i \in 1..Len(accepted) : Acceptable(accepted[i])
          /\ OneEach(accepted)
    /\ w.st = "open" => sink = Body(accepted) /\ w.hashed = sink
    /\ w.st = "finished" =>
          /\ sink = Append(Body(Whole(accepted)), FooterOf(accepted, w.manifest))
          /\ \E i \in 1..Len(accepted) :
                accepted[i].kind = "Manifest" /\ accepted[i].id = w.manifest
    /\ w.st \in {"new", "open", "finished"} => Len(sink) <= w.limits.file

WriterInv == WriterType /\ WriterKeeps

LEMMA TotalOfNothing == Total(<<>>) = 0
  <1>. DEFINE N == Len(<<>>)
              Steps(f) == f = [k \in 0..N |-> IF k = 0 THEN 0 ELSE f[k - 1] + <<>>[k]]
              t == CHOOSE f : Steps(f)
  <1>1. N = 0
    OBVIOUS
  <1>2. Total(<<>>) = t[N]
    BY Zenon DEF Total
  <1>. HIDE DEF N
  <1>3. \E f : Steps(f)
    <2>. DEFINE f == [k \in 0..N |-> 0]
                g == [k \in 0..N |-> IF k = 0 THEN 0 ELSE f[k - 1] + <<>>[k]]
    <2>1. \A k \in 0..N : k = 0
      BY <1>1
    <2>2. f = g
      BY <2>1
    <2>. HIDE DEF f
    <2>3. Steps(f)
      BY <2>2
    <2>. HIDE DEF Steps
    <2>. QED  BY <2>3
  <1>4. Steps(t)
    <2>. HIDE DEF Steps
    <2>. QED  BY <1>3, Zenon
  <1>. HIDE DEF t
  <1>5. 0 \in 0..N
    BY <1>1
  <1>6. t[0] = 0
    BY <1>4, <1>5
  <1>. QED  BY <1>1, <1>2, <1>6

\* write_checked lets some of the pieces through, and no more than the limit on the
\* file.
LEMMA AllowedIs ==
    ASSUME WriterType, Len(sink) <= w.limits.file, NEW S, NEW pieces \in Seq(S)
    PROVE  \E k \in 0..Len(pieces) : /\ Allowed(pieces) = Total(SubSeq(pieces, 1, k))
                                     /\ Len(sink) + Allowed(pieces) <= w.limits.file
  <1>. DEFINE T(k) == Total(SubSeq(pieces, 1, k))
              fits == {k \in 0..Len(pieces) : Len(sink) + T(k) <= w.limits.file}
              top == CHOOSE k \in fits : \A j \in fits : j <= k
  <1>1. Len(pieces) \in Nat /\ Len(sink) \in Nat
    BY LenProperties DEF WriterType
  <1>2. T(0) = 0
    <2>1. SubSeq(pieces, 1, 0) = <<>>
      BY SubSeqEmpty
    <2>. QED  BY <2>1, TotalOfNothing
  <1>. HIDE DEF T
  <1>3. 0 \in fits
    BY <1>1, <1>2
  <1>4. fits \subseteq Nat /\ IsFiniteSet(fits)
    <2>1. IsFiniteSet(0..Len(pieces))
      BY <1>1, FS_Interval
    <2>2. fits \subseteq 0..Len(pieces)
      OBVIOUS
    <2>. HIDE DEF fits
    <2>3. IsFiniteSet(fits)
      BY <2>1, <2>2, FS_Subset
    <2>4. fits \subseteq Nat
      BY <1>1, <2>2
    <2>. QED  BY <2>3, <2>4
  <1>5. Allowed(pieces) = T(top)
    BY Zenon DEF Allowed, T
  <1>6. top \in fits
    <2>. HIDE DEF fits
    <2>1. \E x \in fits : \A y \in fits : y <= x
      BY <1>3, <1>4, GreatestNumber
    <2>. QED  BY <2>1
  <1>. HIDE DEF top
  <1>. QED  BY <1>5, <1>6 DEF T

LEMMA AllowedFits ==
    ASSUME WriterType, Len(sink) <= w.limits.file, NEW S, NEW pieces \in Seq(S)
    PROVE  Len(sink) + Allowed(pieces) <= w.limits.file
  BY AllowedIs

\* What a call has written when it succeeds, and what when it fails.
LEMMA OutcomeUnits ==
    ASSUME WriterType, sink \in Seq(Plain), NEW units \in Seq(Units), NEW allowed,
           NEW out \in Outcomes(units, allowed)
    PROVE  /\ out.ok \in BOOLEAN
           /\ out.ok => /\ out.sink = sink \o units /\ out.taken = Len(units)
                        /\ Len(units) = allowed
           /\ (\A i \in 1..(Len(units) - 1) : units[i] \in Plain) /\ ~out.ok
                 => out.sink \in Seq(Plain)
  <1>. DEFINE Some(n) == sink \o SubSeq(units, 1, n)
              short == {n \in 0..(Len(units) - 1) : n <= allowed}
              A == {[ok |-> TRUE, taken |-> n, sink |-> Some(n)] : n \in {Len(units)} \cap {allowed}}
              B == {[ok |-> FALSE, taken |-> n, sink |-> Some(n)] : n \in short}
              C == {[ok |-> FALSE, taken |-> n, sink |-> Append(Some(n), TornUnit)] :
                       n \in {m \in short \ {allowed} :
                                units[m + 1].t \in {"header", "record", "footer"}}}
  <1>1. out \in A \cup B \cup C
    BY Zenon DEF Outcomes
  <1>2. Len(units) \in Nat
    BY LenProperties
  <1>3. Some(Len(units)) = sink \o units
    BY SubSeqFull
  <1>4. ASSUME \A i \in 1..(Len(units) - 1) : units[i] \in Plain, NEW n \in 0..(Len(units) - 1)
        PROVE  Some(n) \in Seq(Plain) /\ Append(Some(n), TornUnit) \in Seq(Plain)
    <2>1. \A i \in 1..n : units[i] \in Plain
      BY <1>2, <1>4
    <2>2. SubSeq(units, 1, n) \in Seq(Plain)
      <3>1. 1 \in Int /\ n \in Int
        BY <1>2
      <3>. QED  BY <2>1, <3>1, SubSeqProperties
    <2>3. Some(n) \in Seq(Plain)
      BY <2>2, ConcatProperties
    <2>. HIDE DEF Some
    <2>. QED  BY <2>3, UnitSets, AppendProperties
  <1>. HIDE DEF Some
  <1>5. CASE out \in A
    BY <1>3, <1>5
  <1>6. CASE out \in B
    <2>1. PICK n \in short : out = [ok |-> FALSE, taken |-> n, sink |-> Some(n)]
      BY <1>6
    <2>2. n \in 0..(Len(units) - 1)
      OBVIOUS
    <2>3. out.ok = FALSE /\ out.sink = Some(n)
      BY <2>1
    <2>. QED  BY <1>4, <2>2, <2>3
  <1>7. CASE out \in C
    <2>1. PICK n \in short : out = [ok |-> FALSE, taken |-> n, sink |-> Append(Some(n), TornUnit)]
      BY <1>7
    <2>2. n \in 0..(Len(units) - 1)
      OBVIOUS
    <2>3. out.ok = FALSE /\ out.sink = Append(Some(n), TornUnit)
      BY <2>1
    <2>. QED  BY <1>4, <2>2, <2>3
  <1>. HIDE DEF A, B, C
  <1>. QED  BY <1>1, <1>5, <1>6, <1>7

LEMMA EntriesAppend ==
    ASSUME NEW S, RecordUnits \subseteq S, NEW recs \in Seq(Records(S)), NEW r \in Records(S)
    PROVE  EntriesOf(Append(recs, r)) =
              Append(EntriesOf(recs), Entry(r.kind, r.id, 1 + Len(Laid(recs, Len(recs))), Len(r.payload)))
  <1>. DEFINE a == Append(recs, r)
              n == Len(recs)
              e == Entry(r.kind, r.id, 1 + Len(Laid(recs, n)), Len(r.payload))
  <1>1. /\ n \in Nat /\ a \in Seq(Records(S)) /\ Len(a) = n + 1 /\ a[n + 1] = r
        /\ \A i \in 1..n : a[i] = recs[i]
    BY LenProperties, AppendProperties
  <1>. HIDE DEF a
  <1>2. \A i \in 1..n : EntryOf(a, i) = EntryOf(recs, i)
    <2>1. TAKE i \in 1..n
    <2>2. \A j \in 1..(i - 1) : a[j] = recs[j]
      BY <1>1
    <2>3. Laid(a, i - 1) = Laid(recs, i - 1)
      BY <2>2, LaidOfFirst
    <2>. QED  BY <1>1, <2>3 DEF EntryOf
  <1>3. EntryOf(a, n + 1) = e
    <2>1. (n + 1) - 1 = n
      BY <1>1
    <2>2. Laid(a, n) = Laid(recs, n)
      BY <1>1, LaidOfFirst
    <2>. QED  BY <1>1, <2>1, <2>2 DEF EntryOf
  <1>4. /\ EntriesOf(a) \in Seq(Entries) /\ Len(EntriesOf(a)) = n + 1
        /\ EntriesOf(recs) \in Seq(Entries) /\ Len(EntriesOf(recs)) = n
    BY <1>1, EntriesType
  <1>. DEFINE x == EntriesOf(recs)
              y == EntriesOf(a)
  <1>5. /\ \A i \in 1..n : x[i] = EntryOf(recs, i)
        /\ \A i \in 1..(n + 1) : y[i] = EntryOf(a, i)
    BY <1>1 DEF EntriesOf
  <1>. HIDE DEF x, y, e
  <1>6. n + 1 \in 1..(n + 1) /\ \A i \in 1..(n + 1) : i \in 1..n \/ i = n + 1
    BY <1>1
  <1>7. y[n + 1] = e /\ \A i \in 1..n : y[i] = x[i]
    <2>1. \A i \in 1..n : i \in 1..(n + 1)
      BY <1>1
    <2>. QED  BY <1>2, <1>3, <1>5, <1>6, <2>1
  <1>8. e \in Entries
    <2>1. y \in Seq(Entries) /\ n + 1 \in 1..Len(y)
      BY <1>4, <1>6 DEF y
    <2>. QED  BY <1>7, <2>1, ElementOfSeq
  <1>9. /\ Append(x, e) \in Seq(Entries) /\ Len(Append(x, e)) = n + 1
        /\ Append(x, e)[n + 1] = e /\ \A i \in 1..n : Append(x, e)[i] = x[i]
    <2>1. x \in Seq(Entries) /\ Len(x) = n
      BY <1>4 DEF x
    <2>. QED  BY <1>8, <2>1, AppendProperties
  <1>10. \A i \in 1..(n + 1) : y[i] = Append(x, e)[i]
    BY <1>6, <1>7, <1>9
  <1>11. y \in Seq(Entries) /\ Len(y) = n + 1
    BY <1>4 DEF y
  <1>12. y = Append(x, e)
    BY <1>9, <1>10, <1>11, SeqEqual
  <1>. QED  BY <1>12 DEF x, y, e, a

\* Records a writer may have accepted.
Sound(recs) ==
    /\ recs \in Seq(Records(Plain)) /\ OneEach(recs)
    /\ \A i \in 1..Len(recs) : Acceptable(recs[i])

\* A record is accepted after others.
LEMMA OneMore ==
    ASSUME NEW recs, Sound(recs), NEW r \in Records(Plain), Acceptable(r),
           \A e \in Range(EntriesOf(recs)) : e.id # r.id
    PROVE  /\ Sound(Append(recs, r))
           /\ Body(Append(recs, r)) = Body(recs) \o UnitsOf(r)
           /\ EntriesOf(Append(recs, r)) =
                 Append(EntriesOf(recs), Entry(r.kind, r.id, Len(Body(recs)), Len(r.payload)))
  <1>. DEFINE more == Append(recs, r)
              n == Len(recs)
  <1>0. recs \in Seq(Records(Plain)) /\ OneEach(recs) /\ \A i \in 1..n : Acceptable(recs[i])
    BY DEF Sound
  <1>1. more \in Seq(Records(Plain)) /\ Len(more) = n + 1 /\ n \in Nat
         /\ more[n + 1] = r /\ \A i \in 1..n : more[i] = recs[i]
    BY <1>0, AppendProperties, LenProperties
  <1>2. Body(more) = Body(recs) \o UnitsOf(r) /\ Len(Body(recs)) = 1 + Len(Laid(recs, n))
    BY <1>0, UnitSets, BodyAppend
  <1>3. EntriesOf(more) = Append(EntriesOf(recs), Entry(r.kind, r.id, Len(Body(recs)), Len(r.payload)))
    <2>1. EntriesOf(more) = Append(EntriesOf(recs), Entry(r.kind, r.id, 1 + Len(Laid(recs, n)), Len(r.payload)))
      BY <1>0, UnitSets, EntriesAppend
    <2>. QED  BY <1>2, <2>1
  <1>4. \A i \in 1..(n + 1) : i \in 1..n \/ i = n + 1
    BY <1>1
  <1>5. \A i \in 1..n : recs[i].id # r.id
    <2>1. TAKE i \in 1..n
    <2>2. EntriesOf(recs) \in Seq(Entries) /\ Len(EntriesOf(recs)) = n
      BY <1>0, UnitSets, EntriesType
    <2>3. EntriesOf(recs)[i] \in Range(EntriesOf(recs))
      BY <2>2, RangeEquality
    <2>4. EntriesOf(recs)[i].id = recs[i].id
      BY DEF EntriesOf, EntryOf, Entry
    <2>. QED  BY <2>3, <2>4
  <1>6. Sound(more)
    <2>. HIDE DEF more
    <2>1. \A i \in 1..Len(more) : Acceptable(more[i])
      BY <1>0, <1>1, <1>4
    <2>2. SUFFICES ASSUME NEW i \in 1..(n + 1), NEW j \in 1..(n + 1), more[i].id = more[j].id
                   PROVE  i = j
      BY <1>1, <2>1 DEF OneEach, Sound
    <2>3. CASE i \in 1..n /\ j \in 1..n
      BY <1>0, <1>1, <2>2, <2>3 DEF OneEach
    <2>4. CASE i \in 1..n /\ j = n + 1
      BY <1>1, <1>5, <2>2, <2>4
    <2>5. CASE i = n + 1 /\ j \in 1..n
      BY <1>1, <1>5, <2>2, <2>5
    <2>. QED  BY <1>4, <2>3, <2>4, <2>5
  <1>. QED  BY <1>2, <1>3, <1>6

LEMMA RestOfConcat ==
    ASSUME NEW S, NEW s \in Seq(S), NEW u \in Seq(S)
    PROVE  SubSeq(s \o u, Len(s) + 1, Len(s \o u)) = u
  <1>1. Len(s) \in Nat /\ Len(u) \in Nat /\ Len(s \o u) = Len(s) + Len(u)
    BY LenProperties, ConcatProperties
  <1>2. CASE Len(u) = 0
    <2>1. u = <<>>
      BY <1>2, EmptySeq
    <2>2. SubSeq(s \o u, Len(s) + 1, Len(s \o u)) = <<>>
      BY <1>1, <1>2, SubSeqEmpty
    <2>. QED  BY <2>1, <2>2
  <1>3. CASE Len(u) # 0
    <2>. DEFINE m == Len(s) + 1
                n == Len(s) + Len(u)
    <2>1. /\ m \in (Len(s) + 1)..(Len(s) + Len(u)) /\ n \in (Len(s) + 1)..(Len(s) + Len(u))
          /\ m - Len(s) = 1 /\ n - Len(s) = Len(u)
      BY <1>1, <1>3
    <2>2. SubSeq(s \o u, m, n) = SubSeq(u, m - Len(s), n - Len(s))
      <3>. HIDE DEF m, n
      <3>. QED  BY <2>1, SubSeqOfConcat2
    <2>3. SubSeq(u, 1, Len(u)) = u
      BY SubSeqFull
    <2>. HIDE DEF m, n
    <2>4. SubSeq(s \o u, m, n) = u
      BY <2>1, <2>2, <2>3, Zenon
    <2>. QED  BY <1>1, <2>4 DEF m, n
  <1>. QED  BY <1>2, <1>3

\* A call that writes a record, whatever comes of it.
LEMMA WrittenKeepsInv ==
    ASSUME WriterInv, w.st = "open",
           NEW kind, NEW id, NEW payload, [kind |-> kind, id |-> id, payload |-> payload] \in Records(Plain),
           Acceptable([kind |-> kind, id |-> id, payload |-> payload]),
           \A e \in Range(w.entries) : e.id # id,
           NEW S, NEW pieces \in Seq(S), NEW out \in Outcomes(Record(kind, id, payload), Allowed(pieces)),
           NEW res, res.sink = out.sink, res.taken = out.taken, res.ok \in BOOLEAN, res.ok => out.ok,
           Written(kind, id, payload, res)
    PROVE  WriterInv'
  <1>. DEFINE r == [kind |-> kind, id |-> id, payload |-> payload]
              u == Record(kind, id, payload)
              e == Entry(kind, id, Len(sink), Len(payload))
              more == Append(accepted, r)
  <1>1. r.kind = kind /\ r.id = id /\ r.payload = payload /\ r \in Records(Plain) /\ u = UnitsOf(r)
    BY DEF UnitsOf
  <1>2. kind \in Kinds /\ id \in Nat /\ payload \in Seq(Plain) /\ Len(payload) \in Nat
    BY LenProperties DEF Records
  <1>3. u \in Seq(Plain) /\ u \in Seq(Units) /\ Len(u) = 1 + Len(payload)
    <2>1. UnitsOf(r) \in Seq(Plain) /\ Len(UnitsOf(r)) = 1 + Len(r.payload)
      BY <1>1, UnitsOfRecord, UnitSets
    <2>2. UnitsOf(r) \in Seq(Units)
      BY <2>1, UnitSets, SeqMonotonic
    <2>. HIDE DEF r, u
    <2>. QED  BY <1>1, <2>1, <2>2
  <1>4. /\ w \in Writers /\ job \in Jobs /\ w.limits = job.writer /\ sink \in Seq(Plain)
        /\ accepted \in Seq(Records(Plain)) /\ sink = Body(accepted) /\ w.hashed = sink
        /\ w.entries = EntriesOf(accepted) /\ OneEach(accepted)
        /\ \A i \in 1..Len(accepted) : Acceptable(accepted[i])
        /\ Len(sink) <= w.limits.file
    BY DEF WriterInv, WriterType, WriterKeeps
  <1>5. WriterType /\ Len(sink) \in Nat /\ w.limits.file \in Nat
    BY <1>4, LenProperties DEF WriterInv, Writers, LimitNames
  <1>. HIDE DEF u
  <1>6. /\ out.ok \in BOOLEAN
        /\ out.ok => /\ out.sink = sink \o u /\ out.taken = Len(u) /\ Len(u) = Allowed(pieces)
        /\ ~out.ok => out.sink \in Seq(Plain)
    <2>1. \A i \in 1..(Len(u) - 1) : u[i] \in Plain
      BY <1>2, <1>3, ElementOfSeq
    <2>. DEFINE al == Allowed(pieces)
    <2>2. out \in Outcomes(u, al)
      BY DEF u
    <2>. HIDE DEF al
    <2>3. /\ out.ok \in BOOLEAN
          /\ out.ok => /\ out.sink = sink \o u /\ out.taken = Len(u) /\ Len(u) = al
          /\ ~out.ok => out.sink \in Seq(Plain)
      BY <1>3, <1>4, <1>5, <2>1, <2>2, OutcomeUnits
    <2>. QED  BY <2>3 DEF al
  <1>7. sink \o u \in Seq(Plain) /\ Len(sink \o u) = Len(sink) + Len(u)
    BY <1>3, <1>4, ConcatProperties
  <1>8. e \in Entries
    BY <1>2, <1>5 DEF Entry, Entries
  <1>. HIDE DEF e
  <1>9. w' = [w EXCEPT !.st = IF res.ok THEN "open" ELSE "failed",
                       !.hashed = IF res.ok THEN @ \o SubSeq(res.sink, Len(sink) + 1, Len(res.sink))
                                  ELSE @,
                       !.entries = IF res.taken > 0 THEN Append(@, e) ELSE @]
        /\ sink' = res.sink /\ job' = job
        /\ accepted' = IF res.ok THEN more ELSE accepted
    BY DEF Written, e
  <1>10. more \in Seq(Records(Plain)) /\ Len(more) = Len(accepted) + 1 /\ Len(accepted) \in Nat
         /\ more[Len(accepted) + 1] = r /\ \A i \in 1..Len(accepted) : more[i] = accepted[i]
    BY <1>1, <1>4, AppendProperties, LenProperties
  <1>11. Append(w.entries, e) \in Seq(Entries) /\ w.entries \in Seq(Entries)
    BY <1>4, <1>8, AppendProperties DEF Writers
  <1>12. CASE res.ok
    <2>1. out.ok /\ res.sink = sink \o u /\ res.taken = Len(u)
      BY <1>6, <1>12
    <2>2. res.taken > 0
      BY <1>2, <1>3, <2>1
    <2>3. SubSeq(sink \o u, Len(sink) + 1, Len(sink \o u)) = u
      BY <1>3, <1>4, RestOfConcat
    <2>4. /\ w'.st = "open" /\ w'.hashed = sink \o u /\ w'.entries = Append(w.entries, e)
          /\ w'.limits = w.limits /\ w'.manifest = w.manifest /\ w' \in Writers
      <3>. DEFINE all == sink \o u
                  en == Append(w.entries, e)
      <3>0. all \in Seq(Plain) /\ en \in Seq(Entries)
        BY <1>7, <1>11
      <3>1. w.hashed \o SubSeq(res.sink, Len(sink) + 1, Len(res.sink)) = all
        BY <1>4, <2>1, <2>3
      <3>2. w' = [w EXCEPT !.st = "open", !.hashed = all, !.entries = en]
        <4>. HIDE DEF all, en
        <4>1. w' = [w EXCEPT !.st = "open",
                       !.hashed = @ \o SubSeq(res.sink, Len(sink) + 1, Len(res.sink)),
                       !.entries = Append(@, e)]
          BY <1>9, <1>12, <2>2
        <4>. QED  BY <1>4, <3>1, <4>1 DEF Writers, en
      <3>. HIDE DEF all, en
      <3>3. w' \in Writers /\ w'.st = "open" /\ w'.hashed = all /\ w'.entries = en
            /\ w'.limits = w.limits /\ w'.manifest = w.manifest
        BY <1>4, <3>0, <3>2 DEF Writers
      <3>. QED  BY <3>3 DEF all, en
    <2>5. sink' = sink \o u /\ accepted' = more
      BY <1>9, <1>12, <2>1
    <2>6. Sound(more) /\ Body(more) = sink \o u /\ EntriesOf(more) = Append(w.entries, e)
      <3>1. Sound(accepted) /\ Acceptable(r) /\ \A x \in Range(EntriesOf(accepted)) : x.id # r.id
        BY <1>1, <1>4 DEF Sound
      <3>2. /\ Sound(more) /\ Body(more) = Body(accepted) \o UnitsOf(r)
            /\ EntriesOf(more) =
                  Append(EntriesOf(accepted), Entry(r.kind, r.id, Len(Body(accepted)), Len(r.payload)))
        BY <1>1, <3>1, OneMore
      <3>. QED  BY <1>1, <1>4, <3>2 DEF e
    <2>7. OneEach(more) /\ \A i \in 1..Len(more) : Acceptable(more[i])
      BY <2>6 DEF Sound
    <2>10. Len(sink \o u) <= w.limits.file
      <3>1. Len(sink) + Allowed(pieces) <= w.limits.file
        BY <1>4, <1>5, AllowedFits
      <3>2. Len(u) = Allowed(pieces)
        BY <1>6, <2>1
      <3>. QED  BY <1>7, <3>1, <3>2
    <2>11. sink \o u \in Seq(Units)
      BY <1>7, UnitSets, SeqMonotonic
    <2>. HIDE DEF more
    <2>12. WriterType'
      BY <1>4, <1>7, <1>9, <1>10, <2>4, <2>5, <2>11 DEF WriterType
    <2>13. WriterKeeps'
      BY <2>4, <2>5, <2>6, <2>7, <2>10 DEF WriterKeeps
    <2>. QED  BY <2>12, <2>13 DEF WriterInv
  <1>13. CASE ~res.ok
    <2>1. out.sink \in Seq(Plain)
      BY <1>6, <1>7
    <2>2. w'.st = "failed" /\ w' \in Writers /\ w'.limits = w.limits
      BY <1>4, <1>9, <1>11, <1>13 DEF Writers
    <2>3. sink' \in Seq(Plain) /\ sink' \in Seq(Units)
      <3>1. sink' \in Seq(Plain)
        BY <1>9, <2>1
      <3>. QED  BY <3>1, UnitSets, SeqMonotonic
    <2>4. WriterType'
      BY <1>4, <1>9, <1>13, <2>2, <2>3 DEF WriterType
    <2>5. WriterKeeps'
      BY <2>2 DEF WriterKeeps
    <2>. QED  BY <2>4, <2>5 DEF WriterInv
  <1>. QED  BY <1>12, <1>13

LEMMA InitWriter == ASSUME Init PROVE WriterInv
  <1>1. job \in Jobs /\ job.writer \in [LimitNames -> Nat]
    BY StreamAssumption DEF Init
  <1>2. w \in Writers /\ w.limits = job.writer /\ w.st = "new" /\ w.entries = <<>>
    BY <1>1 DEF Init, NewWriter, Writers
  <1>3. sink = <<>> /\ accepted = <<>> /\ Len(sink) = 0
    BY DEF Init
  <1>4. w.limits.file \in Nat
    BY <1>1, <1>2 DEF LimitNames
  <1>5. WriterType
    BY <1>1, <1>2, <1>3 DEF WriterType
  <1>6. WriterKeeps
    BY <1>2, <1>3, <1>4 DEF WriterKeeps
  <1>. QED  BY <1>5, <1>6 DEF WriterInv

LEMMA CreateKeepsWriter == ASSUME WriterInv, Create PROVE WriterInv'
  <1>. DEFINE u == <<HeaderUnit>>
              pieces == <<1>>
              al == Allowed(pieces)
  <1>1. PICK out \in Outcomes(u, al) :
           /\ sink' = out.sink
           /\ w' = [w EXCEPT !.st = IF out.ok THEN "open" ELSE "gone",
                             !.hashed = IF out.ok THEN u ELSE @]
    BY Zenon DEF Create
  <1>2. w.st = "new" /\ job' = job /\ accepted' = accepted
    BY DEF Create
  <1>3. /\ w \in Writers /\ job \in Jobs /\ w.limits = job.writer /\ sink = <<>>
        /\ accepted = <<>> /\ w.entries = <<>> /\ Len(sink) <= w.limits.file
        /\ accepted \in Seq(Records(Plain))
    BY <1>2 DEF WriterInv, WriterType, WriterKeeps
  <1>4. u \in Seq(Plain) /\ u \in Seq(Units) /\ Len(u) = 1 /\ sink \in Seq(Plain)
        /\ pieces \in Seq({1}) /\ WriterType
    BY <1>3, UnitSets DEF WriterInv
  <1>. HIDE DEF u
  <1>5. /\ out.ok \in BOOLEAN
        /\ out.ok => out.sink = sink \o u /\ Len(u) = al
        /\ ~out.ok => out.sink \in Seq(Plain)
    <2>1. \A i \in 1..(Len(u) - 1) : u[i] \in Plain
      BY <1>4
    <2>. HIDE DEF al
    <2>. QED  BY <1>4, <2>1, OutcomeUnits
  <1>6. sink \o u = u
    BY <1>3, <1>4, ConcatEmptySeq
  <1>7. CASE out.ok
    <2>1. /\ w' = [w EXCEPT !.st = "open", !.hashed = u] /\ sink' = u
      BY <1>1, <1>5, <1>6, <1>7
    <2>2. w' \in Writers /\ w'.limits = w.limits /\ w'.st = "open" /\ w'.hashed = u
          /\ w'.entries = <<>>
      BY <1>3, <1>4, <2>1 DEF Writers
    <2>3. Body(<<>>) = u
      <3>1. Len(<<>>) = 0 /\ <<>> \in Seq(Records(Plain)) /\ 0 \in 0..0
        OBVIOUS
      <3>2. Laid(<<>>, 0) = <<>>
        BY <3>1, UnitSets, LaidSteps
      <3>3. u \o <<>> = u
        BY <1>4, ConcatEmptySeq
      <3>. QED  BY <3>1, <3>2, <3>3 DEF Body, u
    <2>4. EntriesOf(<<>>) = <<>>
      <3>1. EntriesOf(<<>>) \in Seq(Entries) /\ Len(EntriesOf(<<>>)) = 0
        <4>1. <<>> \in Seq(Records(Plain)) /\ Len(<<>>) = 0
          OBVIOUS
        <4>. QED  BY <4>1, UnitSets, EntriesType
      <3>. QED  BY <3>1, EmptySeq
    <2>5. Len(u) <= w.limits.file
      <3>1. Len(sink) + al <= w.limits.file
        BY <1>3, <1>4, AllowedFits
      <3>2. Len(sink) = 0 /\ Len(u) = al
        BY <1>3, <1>5, <1>7
      <3>. QED  BY <1>4, <3>1, <3>2
    <2>6. WriterType'
      BY <1>2, <1>3, <1>4, <2>1, <2>2 DEF WriterType
    <2>7. Len(accepted) = 0
      BY <1>3
    <2>8. OneEach(accepted) /\ \A i \in 1..Len(accepted) : Acceptable(accepted[i])
      BY <2>7 DEF OneEach
    <2>9. WriterKeeps'
      BY <1>2, <1>3, <2>1, <2>2, <2>3, <2>4, <2>5, <2>8 DEF WriterKeeps
    <2>. QED  BY <2>6, <2>9 DEF WriterInv
  <1>8. CASE ~out.ok
    <2>1. w'.st = "gone" /\ w' \in Writers /\ w'.limits = w.limits
      BY <1>1, <1>3, <1>8 DEF Writers
    <2>2. sink' \in Seq(Plain) /\ sink' \in Seq(Units)
      <3>1. sink' \in Seq(Plain)
        BY <1>1, <1>5, <1>8
      <3>. QED  BY <3>1, UnitSets, SeqMonotonic
    <2>3. WriterType'
      BY <1>2, <1>3, <2>1, <2>2 DEF WriterType
    <2>4. WriterKeeps'
      BY <2>1 DEF WriterKeeps
    <2>. QED  BY <2>3, <2>4 DEF WriterInv
  <1>. QED  BY <1>5, <1>7, <1>8

LEMMA AddOpaqueKeepsWriter ==
    ASSUME WriterInv, NEW id \in Ids, NEW payload \in Payloads, AddOpaque(id, payload)
    PROVE  WriterInv'
  <1>. DEFINE pieces == <<1, Len(payload)>>
              u == Record("Opaque", id, payload)
              r == [kind |-> "Opaque", id |-> id, payload |-> payload]
  <1>1. payload \in Seq(Plain) /\ id \in Nat /\ Len(payload) \in Nat
    BY StreamAssumption, UnitSets, SeqMonotonic, LenProperties
  <1>2. r \in Records(Plain)
    BY <1>1 DEF Records, Kinds
  <1>3. w.st = "open" /\ id # 0 /\ \A e \in Range(w.entries) : e.id # id
    BY DEF AddOpaque, MayBegin
  <1>4. Acceptable(r)
    BY <1>3, StreamAssumption DEF Acceptable
  <1>5. pieces \in Seq(Nat)
    BY <1>1
  <1>6. PICK out \in Outcomes(u, Allowed(pieces)) : Written("Opaque", id, payload, out)
    BY Zenon DEF AddOpaque
  <1>. HIDE DEF pieces
  <1>7. out.ok \in BOOLEAN
    <2>. DEFINE al == Allowed(pieces)
    <2>1. u \in Seq(Units)
      <3>1. UnitsOf(r) = u /\ r \in Records(Units)
        BY <1>1, <1>2, UnitSets, SeqMonotonic DEF UnitsOf, Records
      <3>. QED  BY <3>1, UnitsOfRecord, UnitSets
    <2>2. WriterType /\ sink \in Seq(Plain)
      BY <1>3 DEF WriterInv, WriterType
    <2>. HIDE DEF al, u
    <2>3. out \in Outcomes(u, al)
      BY DEF al
    <2>. QED  BY <2>1, <2>2, <2>3, OutcomeUnits
  <1>. QED  BY <1>2, <1>3, <1>4, <1>5, <1>6, <1>7, WrittenKeepsInv

LEMMA AddFromReaderKeepsWriter ==
    ASSUME WriterInv, NEW id \in Ids, NEW payload \in Payloads, AddOpaqueFromReader(id, payload)
    PROVE  WriterInv'
  <1>. DEFINE chunk == ChunkLimit(w.limits)
              chunks == IF chunk = 0 THEN 0 ELSE (Len(payload) + chunk - 1) \div chunk
              sizes == [k \in 1..chunks |-> IF k < chunks THEN chunk
                                            ELSE Len(payload) - (chunks - 1) * chunk]
              pieces(supplied) == <<1>> \o SubSeq(sizes, 1, supplied)
              u == Record("Opaque", id, payload)
              r == [kind |-> "Opaque", id |-> id, payload |-> payload]
  <1>1. payload \in Seq(Plain) /\ id \in Nat /\ Len(payload) \in Nat
    BY StreamAssumption, UnitSets, SeqMonotonic, LenProperties
  <1>2. r \in Records(Plain)
    BY <1>1 DEF Records, Kinds
  <1>3. w.st = "open" /\ id # 0 /\ \A e \in Range(w.entries) : e.id # id
    BY DEF AddOpaqueFromReader, MayBegin
  <1>4. Acceptable(r)
    BY <1>3, StreamAssumption DEF Acceptable
  <1>5. PICK supplied \in 0..chunks : \E out \in Outcomes(u, Allowed(pieces(supplied))) :
                Written("Opaque", id, payload, [out EXCEPT !.ok = @ /\ chunk > 0])
    BY Zenon DEF AddOpaqueFromReader
  <1>6. PICK out \in Outcomes(u, Allowed(pieces(supplied))) :
                Written("Opaque", id, payload, [out EXCEPT !.ok = @ /\ chunk > 0])
    BY <1>5
  <1>. HIDE DEF chunks, chunk
  <1>7. supplied \in Nat
    OBVIOUS
  <1>. HIDE DEF sizes
  <1>. DEFINE S == {1} \cup {sizes[i] : i \in 1..supplied}
  <1>8. pieces(supplied) \in Seq(S)
    <2>1. \A i \in 1..supplied : sizes[i] \in S
      OBVIOUS
    <2>2. <<1>> \in Seq(S)
      OBVIOUS
    <2>. HIDE DEF S
    <2>3. 1 \in Int /\ supplied \in Int
      BY <1>7
    <2>4. SubSeq(sizes, 1, supplied) \in Seq(S)
      BY <2>1, <2>3, SubSeqProperties
    <2>. QED  BY <2>2, <2>4, ConcatProperties
  <1>. HIDE DEF S
  <1>. DEFINE al == Allowed(pieces(supplied))
  <1>9. out.ok \in BOOLEAN
    <2>1. u \in Seq(Units)
      <3>1. UnitsOf(r) = u /\ r \in Records(Units)
        BY <1>1, <1>2, UnitSets, SeqMonotonic DEF UnitsOf, Records
      <3>. QED  BY <3>1, UnitsOfRecord, UnitSets
    <2>2. WriterType /\ sink \in Seq(Plain)
      BY <1>3 DEF WriterInv, WriterType
    <2>3. out \in Outcomes(u, al)
      BY <1>6
    <2>. HIDE DEF al, u
    <2>. QED  BY <2>1, <2>2, <2>3, OutcomeUnits
  <1>10. out = [ok |-> out.ok, taken |-> out.taken, sink |-> out.sink]
    <2>. HIDE DEF u
    <2>1. out \in Outcomes(u, al)
      BY <1>6
    <2>. HIDE DEF al
    <2>2. \E a, b, c : out = [ok |-> a, taken |-> b, sink |-> c]
      BY <2>1 DEF Outcomes
    <2>. QED  BY <2>2
  <1>. DEFINE res == [out EXCEPT !.ok = @ /\ chunk > 0]
              some == chunk > 0
  <1>11. some \in BOOLEAN
    BY DEF some
  <1>12. res.sink = out.sink /\ res.taken = out.taken /\ res.ok = (out.ok /\ some)
    BY <1>10
  <1>. HIDE DEF some
  <1>13. res.ok \in BOOLEAN /\ (res.ok => out.ok)
    <2>. HIDE DEF res
    <2>. QED  BY <1>12
  <1>14. Written("Opaque", id, payload, res)
    BY <1>6
  <1>15. out \in Outcomes(u, Allowed(pieces(supplied)))
    BY <1>6
  <1>. HIDE DEF res, pieces
  <1>. QED  BY <1>2, <1>3, <1>4, <1>8, <1>12, <1>13, <1>14, <1>15, WrittenKeepsInv

LEMMA AddManifestKeepsWriter ==
    ASSUME WriterInv, NEW id \in Ids, NEW m \in Manifests, AddManifest(id, m)
    PROVE  WriterInv'
  <1>. DEFINE payload == EncodeManifest(m)
              pieces == <<1, Len(payload)>>
              u == Record("Manifest", id, payload)
              r == [kind |-> "Manifest", id |-> id, payload |-> payload]
  <1>1. payload \in Seq(Plain) /\ id \in Nat /\ Len(payload) \in Nat
    <2>1. payload \in Seq(ManifestUnits)
      BY EncodeManifestType
    <2>. HIDE DEF payload
    <2>. QED  BY <2>1, StreamAssumption, UnitSets, SeqMonotonic, LenProperties
  <1>2. PICK out \in Outcomes(u, Allowed(pieces)) : Written("Manifest", id, payload, out)
    BY Zenon DEF AddManifest
  <1>3. w.st = "open" /\ id # 0 /\ ShapeOk(m) /\ \A e \in Range(w.entries) : e.id # id
    BY DEF AddManifest, MayBegin
  <1>4. Acceptable(r)
    BY <1>3 DEF Acceptable
  <1>. HIDE DEF payload
  <1>5. r \in Records(Plain)
    BY <1>1 DEF Records, Kinds
  <1>6. pieces \in Seq(Nat)
    BY <1>1
  <1>. HIDE DEF pieces
  <1>7. out.ok \in BOOLEAN
    <2>. DEFINE al == Allowed(pieces)
    <2>1. u \in Seq(Units)
      <3>1. UnitsOf(r) = u /\ r \in Records(Units)
        BY <1>1, <1>5, UnitSets, SeqMonotonic DEF UnitsOf, Records
      <3>. QED  BY <3>1, UnitsOfRecord, UnitSets
    <2>2. WriterType /\ sink \in Seq(Plain)
      BY <1>3 DEF WriterInv, WriterType
    <2>. HIDE DEF al, u
    <2>3. out \in Outcomes(u, al)
      BY DEF al
    <2>. QED  BY <2>1, <2>2, <2>3, OutcomeUnits
  <1>. QED  BY <1>2, <1>3, <1>4, <1>5, <1>6, <1>7, WrittenKeepsInv

LEMMA FinishKeepsWriter ==
    ASSUME WriterInv, NEW id \in Ids, Finish(id)
    PROVE  WriterInv'
  <1>. DEFINE payload   == EncodeDirectory(w.entries)
              directory == Record("Directory", 0, payload)
              place     == [offset |-> Len(sink), len |-> 1 + Len(payload)]
              footer    == FooterUnit(place, id, Len(w.entries) + 1, w.hashed \o directory)
              counted   == Len(w.entries) + 1 <= w.limits.records
              pieces    == <<1, Len(payload)>> \o (IF counted THEN <<1>> ELSE <<>>)
              u         == Append(directory, footer)
              al        == Allowed(pieces)
  <1>1. /\ w \in Writers /\ job \in Jobs /\ w.limits = job.writer /\ id \in Nat
        /\ accepted \in Seq(Records(Plain)) /\ sink \in Seq(Units)
        /\ job' = job /\ accepted' = accepted /\ w.st \in {"open", "failed"}
        /\ sink \in Seq(Plain)
    BY StreamAssumption DEF WriterInv, WriterType, Finish
  <1>2. CASE ~(w.st = "open" /\ MayFinish(id))
    <2>1. w' = [w EXCEPT !.st = "gone"] /\ sink' = sink
      BY <1>2, Zenon DEF Finish
    <2>2. w' \in Writers /\ w'.limits = w.limits /\ w'.st = "gone"
      BY <1>1, <2>1 DEF Writers
    <2>3. WriterType'
      BY <1>1, <2>1, <2>2 DEF WriterType
    <2>4. WriterKeeps'
      BY <2>2 DEF WriterKeeps
    <2>. QED  BY <2>3, <2>4 DEF WriterInv
  <1>3. CASE w.st = "open" /\ MayFinish(id)
    <2>1. PICK out \in Outcomes(u, al) :
             /\ sink' = out.sink
             /\ w' = [w EXCEPT !.st = IF out.ok THEN "finished" ELSE "gone", !.manifest = id]
      BY <1>3, Zenon DEF Finish
    <2>2. /\ sink = Body(accepted) /\ w.hashed = sink
          /\ w.entries = EntriesOf(accepted) /\ OneEach(accepted)
          /\ \A i \in 1..Len(accepted) : Acceptable(accepted[i])
          /\ Len(sink) <= w.limits.file /\ WriterType
      BY <1>3 DEF WriterInv, WriterKeeps
    <2>. DEFINE d == DirectoryOf(accepted)
    <2>3. /\ d \in Records(Plain) /\ Len(d.payload) = 1 + Len(accepted)
          /\ Len(accepted) \in Nat /\ Len(w.entries) = Len(accepted)
      <3>1. d \in Records(Plain) /\ Len(d.payload) = 1 + Len(accepted)
        BY <1>1, UnitSets, DirectoryType
      <3>2. Len(w.entries) = Len(accepted)
        BY <1>1, <2>2, UnitSets, EntriesType
      <3>. QED  BY <1>1, <3>1, <3>2, LenProperties
    <2>4. d.payload = payload /\ directory = UnitsOf(d)
      BY <2>2 DEF DirectoryOf, UnitsOf
    <2>5. directory \in Seq(Plain) /\ Len(directory) \in Nat
      BY <2>3, <2>4, UnitSets, UnitsOfRecord, LenProperties
    <2>6. Body(Whole(accepted)) = sink \o directory /\ Len(sink) \in Nat
      <3>1. Body(Append(accepted, d)) = Body(accepted) \o UnitsOf(d)
        BY <1>1, <2>3, UnitSets, BodyAppend
      <3>. QED  BY <1>1, <2>2, <2>4, <3>1, LenProperties DEF Whole
    <2>7. footer = FooterOf(accepted, id)
      BY <2>2, <2>3, <2>4, <2>6 DEF FooterOf
    <2>. HIDE DEF directory
    <2>8. footer \in Footers
      <3>. DEFINE o == Len(sink)
                  l == 1 + Len(payload)
                  c == Len(w.entries) + 1
                  g == w.hashed \o directory
      <3>1. o \in Nat /\ l \in Nat /\ c \in Nat
        BY <2>3, <2>4, <2>6
      <3>2. g \in Seq(Plain)
        BY <1>1, <2>2, <2>5, ConcatProperties
      <3>. HIDE DEF o, l, c, g
      <3>3. footer = FooterUnit([offset |-> o, len |-> l], id, c, g)
        BY DEF o, l, c, g
      <3>. HIDE DEF footer
      <3>. QED  BY <1>1, <3>1, <3>2, <3>3 DEF Footers, FooterUnit
    <2>. HIDE DEF footer
    <2>9. footer \in Units /\ directory \in Seq(Units)
      BY <2>5, <2>8, UnitSets, SeqMonotonic
    <2>10. /\ u \in Seq(Units) /\ Len(u) = Len(directory) + 1
           /\ \A i \in 1..(Len(u) - 1) : u[i] \in Plain
      <3>1. /\ u \in Seq(Units) /\ Len(u) = Len(directory) + 1
            /\ \A i \in 1..Len(directory) : u[i] = directory[i]
        BY <2>9, AppendProperties
      <3>2. \A i \in 1..Len(directory) : directory[i] \in Plain
        BY <2>5, ElementOfSeq
      <3>3. Len(u) - 1 = Len(directory)
        BY <2>5, <3>1
      <3>. QED  BY <3>1, <3>2, <3>3
    <2>11. sink \o u = Append(Body(Whole(accepted)), footer)
      <3>1. u = directory \o <<footer>>
        BY <2>9, AppendIsConcat
      <3>2. sink \o directory \in Seq(Units)
        BY <1>1, <2>9, ConcatProperties
      <3>3. Append(sink \o directory, footer) = (sink \o directory) \o <<footer>>
        BY <2>9, <3>2, AppendIsConcat
      <3>4. <<footer>> \in Seq(Units)
        BY <2>9
      <3>5. (sink \o directory) \o <<footer>> = sink \o (directory \o <<footer>>)
        <4>1. sink \in Seq(Units) /\ directory \in Seq(Units)
          BY <1>1, <2>9
        <4>. DEFINE last == <<footer>>
        <4>2. last \in Seq(Units)
          BY <3>4
        <4>. HIDE DEF last
        <4>3. (sink \o directory) \o last = sink \o (directory \o last)
          BY <4>1, <4>2, ConcatAssociative, SMTT(60)
        <4>. QED  BY <4>3 DEF last
      <3>. HIDE DEF u
      <3>. QED  BY <2>6, <3>1, <3>3, <3>5, Zenon
    <2>12. pieces \in Seq(Nat)
      <3>1. Len(payload) \in Nat
        BY <2>3, <2>4
      <3>2. <<1, Len(payload)>> \in Seq(Nat) /\ <<1>> \in Seq(Nat) /\ <<>> \in Seq(Nat)
        BY <3>1
      <3>. HIDE DEF payload
      <3>. QED  BY <3>2, ConcatProperties
    <2>. HIDE DEF pieces, u
    <2>13. /\ out.ok \in BOOLEAN
           /\ out.ok => out.sink = sink \o u /\ Len(u) = al
           /\ ~out.ok => out.sink \in Seq(Plain)
      <3>. HIDE DEF al
      <3>. QED  BY <1>1, <2>1, <2>2, <2>10, OutcomeUnits
    <2>14. CASE out.ok
      <3>1. w' = [w EXCEPT !.st = "finished", !.manifest = id] /\ sink' = sink \o u
        BY <2>1, <2>13, <2>14
      <3>2. /\ w' \in Writers /\ w'.limits = w.limits /\ w'.st = "finished" /\ w'.manifest = id
            /\ w'.entries = w.entries
        BY <1>1, <3>1 DEF Writers
      <3>3. sink \o u \in Seq(Units) /\ Len(sink \o u) = Len(sink) + Len(u)
        BY <1>1, <2>10, ConcatProperties
      <3>4. Len(sink \o u) <= w.limits.file
        <4>1. Len(sink) + al <= w.limits.file
          BY <2>2, <2>12, AllowedFits
        <4>2. Len(u) = al
          BY <2>13, <2>14
        <4>. QED  BY <3>3, <4>1, <4>2
      <3>5. \E i \in 1..Len(accepted) : accepted[i].kind = "Manifest" /\ accepted[i].id = id
        <4>1. PICK e \in Range(w.entries) : e.id = id /\ e.kind = "Manifest"
          BY <1>3 DEF MayFinish
        <4>2. EntriesOf(accepted) \in Seq(Entries) /\ Len(EntriesOf(accepted)) = Len(accepted)
          BY <1>1, UnitSets, EntriesType
        <4>3. PICK i \in 1..Len(accepted) : e = EntriesOf(accepted)[i]
          BY <2>2, <4>1, <4>2, RangeEquality
        <4>4. e.id = accepted[i].id /\ e.kind = accepted[i].kind
          BY <4>3 DEF EntriesOf, EntryOf, Entry
        <4>. QED  BY <4>1, <4>4
      <3>6. WriterType'
        BY <1>1, <3>1, <3>2, <3>3 DEF WriterType
      <3>7. sink' = Append(Body(Whole(accepted)), FooterOf(accepted, id))
        BY <2>7, <2>11, <3>1
      <3>8. WriterKeeps'
        BY <1>1, <2>2, <3>1, <3>2, <3>4, <3>5, <3>7 DEF WriterKeeps
      <3>. QED  BY <3>6, <3>8 DEF WriterInv
    <2>15. CASE ~out.ok
      <3>1. w'.st = "gone" /\ w' \in Writers /\ w'.limits = w.limits
        BY <1>1, <2>1, <2>15 DEF Writers
      <3>2. sink' \in Seq(Plain) /\ sink' \in Seq(Units)
        <4>1. sink' \in Seq(Plain)
          BY <2>1, <2>13, <2>15
        <4>. QED  BY <4>1, UnitSets, SeqMonotonic
      <3>3. WriterType'
        BY <1>1, <3>1, <3>2 DEF WriterType
      <3>4. WriterKeeps'
        BY <3>1 DEF WriterKeeps
      <3>. QED  BY <3>3, <3>4 DEF WriterInv
    <2>. QED  BY <2>13, <2>14, <2>15
  <1>. QED  BY <1>2, <1>3

LEMMA NextKeepsWriter == ASSUME WriterInv, [Next]_vars PROVE WriterInv'
  <1>1. CASE Write
    BY <1>1, CreateKeepsWriter, AddOpaqueKeepsWriter, AddFromReaderKeepsWriter,
       AddManifestKeepsWriter, FinishKeepsWriter DEF Write
  <1>2. CASE UNCHANGED writerVars
    BY <1>2 DEF WriterInv, WriterType, WriterKeeps, writerVars
  <1>3. Write \/ UNCHANGED writerVars
    BY DEF Next, vars, writerVars, Deliver, DeliverForeign, NextEvent, ReadHeader, ReadRecordHeader,
           ReadPayload, FinishRecord, ReadFooter, ReadFails
  <1>. QED  BY <1>1, <1>2, <1>3

\* What StreamingWriter finishes is, unit for unit, what the in-memory Writer makes of
\* the records of the calls that returned Ok, for every sink that fails where it
\* likes, every payload, chunk size and limit.
THEOREM StreamIsMemoryFile == Spec => []StreamingMatchesMemory
  <1>1. Init => WriterInv
    BY InitWriter
  <1>2. WriterInv /\ [Next]_vars => WriterInv'
    BY NextKeepsWriter
  <1>3. WriterInv => StreamingMatchesMemory
    <2>1. SUFFICES ASSUME WriterInv, w.st = "finished" PROVE sink = MemoryFile(accepted, w.manifest)
      BY DEF StreamingMatchesMemory
    <2>2. /\ sink = Append(Body(Whole(accepted)), FooterOf(accepted, w.manifest))
          /\ accepted \in Seq(Records(Plain))
      BY <2>1 DEF WriterInv, WriterType, WriterKeeps
    <2>. QED  BY <2>2, UnitSets, MemoryFileIs
  <1>. QED  BY <1>1, <1>2, <1>3, PTL DEF Spec
-----------------------------------------------------------------------------
(* The reader. *)

\* The reader has a file of this writer, perhaps harmed, or of another.
HasFile == delivered # NoFile

\* The records the file was written with.
Foreigner(file) == CHOOSE f \in Foreign : file = MemoryFile(f.records, f.manifest)
Content == IF w.st = "new" THEN Foreigner(delivered).records ELSE accepted

\* Only a finished file has a footer, and harm leaves its digest.
DirectoryPlace(recs) == [offset |-> Len(Body(recs)), len |-> 1 + Len(DirectoryOf(recs).payload)]
SignedAs(recs) == {u \in Units : u.t = "footer" =>
                      u.digest = Body(Whole(recs)) /\ u.directory = DirectoryPlace(recs)}
Signed == {u \in SignedAs(Content) : u.t = "footer" => w.st \in {"new", "finished"}}

FileKept ==
    /\ HasFile /\ w.st = "new" => \E f \in Foreign : delivered = MemoryFile(f.records, f.manifest)
    /\ delivered = NoFile => rd.st = "idle" /\ got = <<>>
    /\ HasFile => delivered \in Seq(Signed)

Actives == [kind : Kinds, entry : Entries, remaining : Nat, metadata : Seq(Units)]
Readers == [st : {"Header", "RecordHeader", "Payload", "RecordEnd", "Footer", "Done", "Failed"},
            limits : [LimitNames -> Nat], offset : Nat, hashed : Seq(Units), logical : Nat,
            active : Actives \cup {NoActive}, inventory : Seq(Entries),
            manifests : SUBSET [id : Nat, m : Manifests], directory : [offset : Nat, len : Nat],
            count : Nat, manifest : Nat, io : BOOLEAN]

\* What has been read of records the last of which lacks some units.
Opened(recs, missing) ==
    LET r == recs[Len(recs)]
    IN  Append(Body(SubSeq(recs, 1, Len(recs) - 1)),
               RecordUnit(r.kind, r.id, Len(r.payload) + missing)) \o r.payload

ReaderType ==
    HasFile => /\ rd \in Readers /\ got \in Seq(Records(Units))
               /\ rd.logical <= rd.limits.logical
               /\ rd.st \in {"Payload", "RecordEnd"} => rd.active \in Actives

\* The digest is of the records that were shown; a manifest is one of them.
ReaderKeeps ==
    HasFile =>
        /\ rd.st = "Header" => got = <<>>
        /\ rd.st \in {"RecordHeader", "Footer", "Done"} => rd.hashed = Body(got)
        /\ rd.st \in {"Payload", "RecordEnd"} =>
              /\ Len(got) # 0
              /\ rd.active.kind = got[Len(got)].kind /\ rd.active.entry.id = got[Len(got)].id
              /\ rd.hashed = Opened(got, rd.active.remaining)
        /\ rd.st = "RecordEnd" => rd.active.remaining = 0
        /\ \A x \in rd.manifests :
              \E i \in 1..Len(got) : got[i].kind = "Manifest" /\ got[i].id = x.id
        /\ rd.st = "Done" =>
              /\ w.st \in {"new", "finished"} /\ rd.hashed = Body(Whole(Content))
              /\ \E x \in rd.manifests : x.id = rd.manifest

CommitInv == WriterInv /\ FileKept /\ ReaderType /\ ReaderKeeps

LEMMA LeastOfThree ==
    ASSUME NEW a \in Nat, NEW b \in Nat, NEW c \in Nat
    PROVE  /\ Least({a, b, c}) \in {a, b, c}
           /\ Least({a, b, c}) <= a /\ Least({a, b, c}) <= b /\ Least({a, b, c}) <= c
  <1>1. \E n \in {a, b, c} : \A m \in {a, b, c} : n <= m
    OBVIOUS
  <1>. DEFINE s == {a, b, c}
  <1>. HIDE DEF s
  <1>2. \E n \in s : \A m \in s : n <= m
    BY <1>1 DEF s
  <1>3. Least(s) \in s /\ \A m \in s : Least(s) <= m
    BY <1>2 DEF Least
  <1>. QED  BY <1>3 DEF s

LEMMA FirstOf ==
    ASSUME NEW S, NEW s \in Seq(S), NEW n \in 0..Len(s)
    PROVE  /\ SubSeq(s, 1, n) \in Seq(S) /\ Len(SubSeq(s, 1, n)) = n
           /\ \A i \in 1..n : SubSeq(s, 1, n)[i] = s[i]
  <1>1. Len(s) \in Nat /\ n \in Nat /\ 1 \in Int /\ n \in Int
    BY LenProperties
  <1>2. \A i \in 1..n : s[i] \in S
    BY <1>1, ElementOfSeq
  <1>. DEFINE f == SubSeq(s, 1, n)
  <1>3. /\ f \in Seq(S) /\ Len(f) = IF 1 <= n THEN n - 1 + 1 ELSE 0
        /\ \A i \in 1..(n - 1 + 1) : f[i] = s[1 + i - 1]
    BY <1>1, <1>2, SubSeqProperties
  <1>. HIDE DEF f
  <1>4. Len(f) = n /\ n - 1 + 1 = n /\ \A i \in 1..n : 1 + i - 1 = i
    BY <1>1, <1>3
  <1>5. \A i \in 1..n : f[i] = s[i]
    BY <1>3, <1>4
  <1>. QED  BY <1>3, <1>4, <1>5 DEF f

\* Nothing is missing.
LEMMA OpenedWhole ==
    ASSUME NEW S, RecordUnits \subseteq S, HeaderUnit \in S,
           NEW recs \in Seq(Records(S)), Len(recs) # 0
    PROVE  Opened(recs, 0) = Body(recs)
  <1>. DEFINE n == Len(recs)
              r == recs[n]
              f == SubSeq(recs, 1, n - 1)
              ru == RecordUnit(r.kind, r.id, Len(r.payload))
  <1>1. n \in Nat /\ n \in 1..n /\ n - 1 \in Nat
    BY LenProperties
  <1>2. r \in Records(S)
    BY <1>1, ElementOfSeq
  <1>3. Len(r.payload) \in Nat /\ r.payload \in Seq(S) /\ ru \in S
    <2>1. Len(r.payload) \in Nat /\ r.payload \in Seq(S) /\ r.kind \in Kinds /\ r.id \in Nat
      BY <1>2, LenProperties DEF Records
    <2>. HIDE DEF r
    <2>. QED  BY <2>1 DEF RecordUnit, RecordUnits
  <1>4. f \in Seq(Records(S)) /\ Len(f) = n - 1 /\ Append(f, r) = recs
    <2>2. /\ f \in Seq(Records(S)) /\ Len(f) = n - 1
          /\ \A i \in 1..(n - 1) : f[i] = recs[i]
      <3>1. n - 1 \in 0..Len(recs)
        BY <1>1
      <3>. QED  BY <3>1, FirstOf
    <2>. HIDE DEF f, r
    <2>3. /\ Append(f, r) \in Seq(Records(S)) /\ Len(Append(f, r)) = n
          /\ Append(f, r)[n] = r /\ \A i \in 1..(n - 1) : Append(f, r)[i] = recs[i]
      BY <1>1, <1>2, <2>2, AppendProperties
    <2>4. \A i \in 1..n : Append(f, r)[i] = recs[i]
      <3>1. \A i \in 1..n : i \in 1..(n - 1) \/ i = n
        BY <1>1
      <3>. QED  BY <2>3, <3>1 DEF r
    <2>. QED  BY <2>2, <2>3, <2>4, SeqEqual
  <1>. HIDE DEF f, r, n, ru
  <1>5. Body(f) \in Seq(S) /\ Body(recs) = Body(f) \o UnitsOf(r)
    BY <1>2, <1>4, BodyAppend
  <1>6. Opened(recs, 0) = Append(Body(f), ru) \o r.payload
    <2>1. Len(r.payload) + 0 = Len(r.payload)
      BY <1>3
    <2>. QED  BY <2>1 DEF Opened, f, r, n, ru
  <1>7. Append(Body(f), ru) = Body(f) \o <<ru>>
    BY <1>3, <1>5, AppendIsConcat
  <1>8. <<ru>> \in Seq(S)
    BY <1>3
  <1>9. (Body(f) \o <<ru>>) \o r.payload = Body(f) \o (<<ru>> \o r.payload)
    <2>. DEFINE a == Body(f)
                b == <<ru>>
                c == r.payload
    <2>1. a \in Seq(S) /\ b \in Seq(S) /\ c \in Seq(S)
      BY <1>3, <1>5, <1>8
    <2>. HIDE DEF a, b, c
    <2>2. (a \o b) \o c = a \o (b \o c)
      BY <2>1, ConcatAssociative
    <2>. QED  BY <2>2 DEF a, b, c
  <1>10. UnitsOf(r) = <<ru>> \o r.payload
    BY DEF UnitsOf, Record, ru
  <1>. QED  BY <1>5, <1>6, <1>7, <1>9, <1>10, Zenon

LEMMA PlainHasNoFooter == \A u \in Plain : u.t # "footer"
  BY DEF Plain, HeaderUnit, TornUnit, GarbageUnit, Bytes, RecordUnits, ManifestUnits, DirectoryUnits

LEMMA PlainIsSigned == Plain \subseteq Signed /\ Signed \subseteq Units
  BY PlainHasNoFooter, UnitSets DEF Signed, SignedAs

LEMMA DamagedIsSigned ==
    ASSUME NEW u \in Signed, NEW v \in Damaged(u)
    PROVE  v \in Signed
  <1>1. u \in Units
    BY PlainIsSigned
  <1>2. CASE v = GarbageUnit
    BY <1>2, UnitSets, PlainIsSigned
  <1>3. CASE u.t = "byte" /\ v # GarbageUnit
    <2>1. u \in Bytes
      BY <1>1, <1>3 DEF Units, Plain, HeaderUnit, TornUnit, GarbageUnit, RecordUnits, ManifestUnits,
                        DirectoryUnits, Footers
    <2>2. v = [u EXCEPT !.v = IF @ = 0 THEN 1 ELSE 0]
      BY <1>3 DEF Damaged
    <2>3. v \in Bytes
      BY <2>1, <2>2 DEF Bytes
    <2>. QED  BY <2>3, UnitSets, PlainIsSigned
  <1>4. CASE u.t = "record" /\ v # GarbageUnit
    <2>1. u \in RecordUnits
      BY <1>1, <1>4 DEF Units, Plain, HeaderUnit, TornUnit, GarbageUnit, Bytes, ManifestUnits,
                        DirectoryUnits, Footers
    <2>2. v = [u EXCEPT !.len = @ + 1] \/ v = [u EXCEPT !.id = @ + 1]
      BY <1>4 DEF Damaged
    <2>3. v \in RecordUnits
      BY <2>1, <2>2 DEF RecordUnits
    <2>. QED  BY <2>3, UnitSets, PlainIsSigned
  <1>5. CASE u.t = "footer" /\ v # GarbageUnit
    <2>1. u \in Footers
      BY <1>1, <1>5 DEF Units, Plain, HeaderUnit, TornUnit, GarbageUnit, Bytes, RecordUnits,
                        ManifestUnits, DirectoryUnits
    <2>2. v = [u EXCEPT !.count = @ + 1] \/ \E i \in Ids : v = [u EXCEPT !.manifest = i]
      BY <1>5 DEF Damaged
    <2>3. v \in Footers /\ v.digest = u.digest /\ v.directory = u.directory
      <3>1. CASE v = [u EXCEPT !.count = @ + 1]
        BY <2>1, <3>1 DEF Footers
      <3>2. CASE \E i \in Ids : v = [u EXCEPT !.manifest = i]
        <4>1. PICK i \in Ids : v = [u EXCEPT !.manifest = i]
          BY <3>2
        <4>2. i \in Nat
          BY StreamAssumption
        <4>. QED  BY <2>1, <4>1, <4>2 DEF Footers
      <3>. QED  BY <2>2, <3>1, <3>2
    <2>4. v \in Units
      BY <2>3, UnitSets
    <2>. QED  BY <1>5, <2>3, <2>4 DEF Signed, SignedAs
  <1>6. CASE u.t \notin {"byte", "record", "footer"}
    BY <1>2, <1>6 DEF Damaged
  <1>. QED  BY <1>2, <1>3, <1>4, <1>5, <1>6

LEMMA CarriedIsSigned ==
    ASSUME NEW file \in Seq(Signed), NEW f \in Carried(file)
    PROVE  f \in Seq(Signed)
  <1>0. Len(file) \in Nat /\ DOMAIN file = 1..Len(file)
    BY LenProperties
  <1>1. GarbageUnit \in Signed /\ TornUnit \in Signed
    BY UnitSets, PlainIsSigned
  <1>2. CASE f = Append(file, GarbageUnit)
    BY <1>1, <1>2, AppendProperties
  <1>3. ASSUME NEW n \in 0..(Len(file) - 1),
               f = SubSeq(file, 1, n) \/ f = Append(SubSeq(file, 1, n), TornUnit)
        PROVE  f \in Seq(Signed)
    <2>1. n \in 0..Len(file)
      BY <1>0
    <2>. DEFINE x == SubSeq(file, 1, n)
    <2>2. x \in Seq(Signed)
      BY <2>1, FirstOf
    <2>. HIDE DEF x
    <2>3. f = x \/ f = Append(x, TornUnit)
      BY <1>3 DEF x
    <2>. QED  BY <1>1, <2>2, <2>3, AppendProperties
  <1>4. ASSUME NEW i \in DOMAIN file, NEW unit \in Damaged(file[i]), f = [file EXCEPT ![i] = unit]
        PROVE  f \in Seq(Signed)
    <2>1. i \in 1..Len(file) /\ file[i] \in Signed
      BY <1>0, ElementOfSeq
    <2>2. unit \in Signed
      BY <2>1, DamagedIsSigned
    <2>. QED  BY <1>4, <2>1, <2>2, ExceptSeq
  <1>5. ASSUME NEW i \in DOMAIN file, f = RemoveAt(file, i)
        PROVE  f \in Seq(Signed)
    <2>. DEFINE x == SubSeq(file, 1, i - 1)
                y == SubSeq(file, i + 1, Len(file))
    <2>1. i \in 1..Len(file) /\ i - 1 \in 0..Len(file) /\ i + 1 \in Int /\ Len(file) \in Int
      BY <1>0
    <2>2. x \in Seq(Signed)
      BY <2>1, FirstOf
    <2>3. \A j \in (i + 1)..Len(file) : file[j] \in Signed
      BY <1>0, <2>1, ElementOfSeq
    <2>4. y \in Seq(Signed)
      BY <2>1, <2>3, SubSeqProperties
    <2>5. f = x \o y
      BY <1>5 DEF RemoveAt
    <2>. HIDE DEF x, y
    <2>. QED  BY <2>2, <2>4, <2>5, ConcatProperties
  <1>6. \/ f = file \/ f = Append(file, GarbageUnit)
        \/ \E n \in 0..(Len(file) - 1) :
              f = SubSeq(file, 1, n) \/ f = Append(SubSeq(file, 1, n), TornUnit)
        \/ \E i \in DOMAIN file : \E unit \in Damaged(file[i]) : f = [file EXCEPT ![i] = unit]
        \/ \E i \in DOMAIN file : f = RemoveAt(file, i)
    <2>. DEFINE A == {Append(file, GarbageUnit)}
                Y(n) == {SubSeq(file, 1, n), Append(SubSeq(file, 1, n), TornUnit)}
                B == {Y(n) : n \in 0..(Len(file) - 1)}
                Z(i) == {[file EXCEPT ![i] = unit] : unit \in Damaged(file[i])}
                C == {Z(i) : i \in DOMAIN file}
                D == {RemoveAt(file, i) : i \in DOMAIN file}
    <2>1. f = file \/ f \in A \/ f \in UNION B \/ f \in UNION C \/ f \in D
      BY Zenon DEF Carried, Harmed
    <2>. HIDE DEF Y, Z
    <2>2. CASE f \in A
      BY <2>2
    <2>3. CASE f \in UNION B
      <3>1. PICK n \in 0..(Len(file) - 1) : f \in Y(n)
        BY <2>3
      <3>2. f = SubSeq(file, 1, n) \/ f = Append(SubSeq(file, 1, n), TornUnit)
        BY <3>1 DEF Y
      <3>. QED  BY <3>2, Zenon
    <2>4. CASE f \in UNION C
      <3>1. PICK i \in DOMAIN file : f \in Z(i)
        BY <2>4
      <3>2. PICK unit \in Damaged(file[i]) : f = [file EXCEPT ![i] = unit]
        BY <3>1 DEF Z
      <3>. QED  BY <3>2, Zenon
    <2>5. CASE f \in D
      BY <2>5, Zenon
    <2>. HIDE DEF A, B, C, D
    <2>. QED  BY <2>1, <2>2, <2>3, <2>4, <2>5, Zenon
  <1>. QED  BY <1>2, <1>3, <1>4, <1>5, <1>6, Zenon

\* A writer's step: nothing has been delivered.
LEMMA WriteKeepsReader ==
    ASSUME FileKept, delivered = NoFile, delivered' = delivered, rd' = rd, got' = got
    PROVE  FileKept' /\ ReaderType' /\ ReaderKeeps'
  BY DEF FileKept, ReaderType, ReaderKeeps, HasFile

\* A footer, and what it is the footer of.
LEMMA FooterType ==
    ASSUME NEW recs \in Seq(Records(Plain)), NEW manifest \in Nat
    PROVE  LET f == FooterOf(recs, manifest)
           IN  /\ Body(Whole(recs)) \in Seq(Plain)
               /\ f \in Footers /\ f.t = "footer" /\ f.digest = Body(Whole(recs))
               /\ f.directory = DirectoryPlace(recs)
               /\ f.manifest = manifest /\ f.count = Len(recs) + 1
  <1>. DEFINE f == FooterOf(recs, manifest)
              b == Body(Whole(recs))
              o == Len(Body(recs))
              l == 1 + Len(DirectoryOf(recs).payload)
              c == Len(recs) + 1
  <1>1. /\ DirectoryOf(recs) \in Records(Plain) /\ Whole(recs) \in Seq(Records(Plain))
        /\ Len(DirectoryOf(recs).payload) = 1 + Len(recs) /\ Len(recs) \in Nat
    BY UnitSets, DirectoryType, LenProperties
  <1>2. b \in Seq(Plain) /\ Body(recs) \in Seq(Plain)
    BY <1>1, UnitSets, BodyAppend
  <1>3. o \in Nat /\ l \in Nat /\ c \in Nat
    BY <1>1, <1>2, LenProperties
  <1>4. DirectoryPlace(recs) = [offset |-> o, len |-> l]
    BY DEF DirectoryPlace
  <1>5. f = FooterUnit([offset |-> o, len |-> l], manifest, c, b)
    BY DEF FooterOf
  <1>. HIDE DEF f, b, o, l, c
  <1>6. /\ f \in Footers /\ f.t = "footer" /\ f.digest = b /\ f.directory = DirectoryPlace(recs)
        /\ f.manifest = manifest /\ f.count = c
    BY <1>2, <1>3, <1>4, <1>5 DEF Footers, FooterUnit
  <1>. QED  BY <1>2, <1>6 DEF f, b, c

LEMMA FinishedIsSigned ==
    ASSUME NEW recs \in Seq(Records(Plain)), NEW manifest \in Nat
    PROVE  Append(Body(Whole(recs)), FooterOf(recs, manifest)) \in Seq(SignedAs(recs))
  <1>. DEFINE f == FooterOf(recs, manifest)
              b == Body(Whole(recs))
  <1>1. /\ b \in Seq(Plain) /\ f \in Footers /\ f.digest = b
        /\ f.directory = DirectoryPlace(recs)
    BY FooterType
  <1>. HIDE DEF f
  <1>2. f \in SignedAs(recs)
    BY <1>1, UnitSets DEF SignedAs
  <1>. HIDE DEF b
  <1>3. b \in Seq(SignedAs(recs))
    <2>1. Plain \subseteq SignedAs(recs)
      BY PlainHasNoFooter, UnitSets DEF SignedAs
    <2>. QED  BY <1>1, <2>1, SeqMonotonic
  <1>4. Append(b, f) \in Seq(SignedAs(recs))
    BY <1>2, <1>3, AppendProperties
  <1>. QED  BY <1>4 DEF b, f

LEMMA DeliverKeepsReader ==
    ASSUME CommitInv, Deliver
    PROVE  FileKept' /\ ReaderType' /\ ReaderKeeps'
  <1>1. /\ w.st # "new" /\ delivered = NoFile /\ rd' = NewReader(job.reader)
        /\ w' = w /\ accepted' = accepted /\ got' = got /\ job \in Jobs /\ got = <<>>
    BY DEF Deliver, CommitInv, WriterInv, WriterType, writerVars, FileKept
  <1>2. delivered' \in Seq(Signed)
    <2>1. CASE w.st = "finished"
      <3>1. /\ sink = Append(Body(Whole(accepted)), FooterOf(accepted, w.manifest))
            /\ accepted \in Seq(Records(Plain)) /\ sink \in Seq(Units)
        BY <2>1 DEF CommitInv, WriterInv, WriterType, WriterKeeps
      <3>2. w.manifest \in Nat /\ Content = accepted
        BY <2>1 DEF CommitInv, WriterInv, WriterType, Writers, Content
      <3>3. sink \in Seq(SignedAs(accepted))
        BY <3>1, <3>2, FinishedIsSigned
      <3>4. SignedAs(accepted) = Signed
        BY <2>1, <3>2 DEF Signed
      <3>8. sink \in Seq(Signed)
        BY <3>3, <3>4
      <3>9. delivered' \in Carried(sink)
        BY <2>1 DEF Deliver
      <3>. QED  BY <3>8, <3>9, CarriedIsSigned
    <2>2. CASE w.st # "finished"
      <3>1. delivered' = sink /\ sink \in Seq(Plain)
        BY <2>2 DEF Deliver, CommitInv, WriterInv, WriterType
      <3>. QED  BY <3>1, PlainIsSigned, SeqMonotonic
    <2>. QED  BY <2>1, <2>2
  <1>3. Signed' = Signed
    BY <1>1 DEF Signed, Content
  <1>4. delivered' # NoFile
    BY <1>2, PlainIsSigned, SeqMonotonic, StreamAssumption
  <1>5. FileKept'
    BY <1>1, <1>2, <1>3, <1>4 DEF FileKept, HasFile
  <1>6. job.reader \in [LimitNames -> Nat] /\ job.reader.logical \in Nat
    BY <1>1, StreamAssumption DEF LimitNames
  <1>7. rd' \in Readers /\ rd'.logical = 0 /\ rd'.limits = job.reader /\ rd'.st = "Header"
        /\ rd'.manifests = {}
    BY <1>1, <1>6 DEF NewReader, Readers, NoActive, NoDirectory
  <1>8. got' \in Seq(Records(Units)) /\ got' = <<>>
    BY <1>1
  <1>9. ReaderType'
    BY <1>6, <1>7, <1>8 DEF ReaderType
  <1>10. ReaderKeeps'
    BY <1>7, <1>8 DEF ReaderKeeps
  <1>. QED  BY <1>5, <1>9, <1>10

\* What a file of another implementation holds.
LEMMA ForeignContent ==
    ASSUME NEW file, NEW f \in Foreign, file = MemoryFile(f.records, f.manifest)
    PROVE  LET g == Foreigner(file)
           IN  /\ g \in Foreign /\ g.records \in Seq(Records(Plain)) /\ g.manifest \in Nat
               /\ file = MemoryFile(g.records, g.manifest)
               /\ file = Append(Body(Whole(g.records)), FooterOf(g.records, g.manifest))
  <1>. DEFINE g == Foreigner(file)
  <1>1. g \in Foreign /\ file = MemoryFile(g.records, g.manifest)
    BY Zenon DEF Foreigner
  <1>. HIDE DEF g
  <1>3. g.records \in Seq(Records(Plain)) /\ g.manifest \in Nat
    BY <1>1, StreamAssumption
  <1>4. file = Append(Body(Whole(g.records)), FooterOf(g.records, g.manifest))
    BY <1>1, <1>3, UnitSets, MemoryFileIs
  <1>. QED  BY <1>1, <1>3, <1>4 DEF g

LEMMA ForeignKeepsReader ==
    ASSUME CommitInv, DeliverForeign
    PROVE  FileKept' /\ ReaderType' /\ ReaderKeeps'
  <1>1. /\ w' = w /\ w.st = "new" /\ delivered = NoFile /\ got' = got /\ rd' = NewReader(Generous)
        /\ delivered' \in ForeignFiles
    BY DEF DeliverForeign, writerVars
  <1>2. got = <<>>
    BY <1>1 DEF CommitInv, FileKept
  <1>3. PICK f \in Foreign : delivered' = MemoryFile(f.records, f.manifest)
    BY <1>1 DEF ForeignFiles
  <1>g. PICK g : g = Foreigner(delivered')
    OBVIOUS
  <1>4. delivered' \in Seq(SignedAs(g.records))
    <2>1. /\ g.records \in Seq(Records(Plain)) /\ g.manifest \in Nat
          /\ delivered' = Append(Body(Whole(g.records)), FooterOf(g.records, g.manifest))
      BY <1>3, <1>g, ForeignContent
    <2>. QED  BY <2>1, FinishedIsSigned
  <1>s. Signed' = SignedAs(g.records)
    BY <1>1, <1>g DEF Signed, Content
  <1>5. delivered' # NoFile
    <2>1. SignedAs(g.records) \subseteq Units
      BY DEF SignedAs
    <2>2. delivered' \in Seq(Units)
      BY <1>4, <2>1, SeqMonotonic
    <2>. QED  BY <2>2, StreamAssumption
  <1>6. FileKept'
    BY <1>1, <1>3, <1>4, <1>5, <1>s DEF FileKept, HasFile
  <1>7. Generous \in [LimitNames -> Nat] /\ Generous.logical \in Nat
    BY StreamAssumption DEF LimitNames
  <1>8. rd' \in Readers /\ rd'.logical = 0 /\ rd'.limits = Generous /\ rd'.st = "Header"
        /\ rd'.manifests = {}
    BY <1>1, <1>7 DEF NewReader, Readers, NoActive, NoDirectory
  <1>9. got' \in Seq(Records(Units)) /\ got' = <<>>
    BY <1>1, <1>2
  <1>10. ReaderType'
    BY <1>7, <1>8, <1>9 DEF ReaderType
  <1>11. ReaderKeeps'
    BY <1>8, <1>9 DEF ReaderKeeps
  <1>. QED  BY <1>6, <1>10, <1>11

\* While the reader reads, what was delivered stays.
LEMMA ReadKeepsFile ==
    ASSUME CommitInv, HasFile, UNCHANGED <<writerVars, delivered>>
    PROVE  FileKept' /\ HasFile' /\ delivered \in Seq(Units)
           /\ rd \in Readers /\ got \in Seq(Records(Units)) /\ rd.logical <= rd.limits.logical
           /\ accepted' = accepted /\ w' = w /\ delivered' = delivered /\ Content' = Content
  <1>1. accepted' = accepted /\ w' = w /\ delivered' = delivered
    BY DEF writerVars
  <1>c. Content' = Content
    BY <1>1 DEF Content
  <1>2. Signed' = Signed /\ HasFile'
    BY <1>1, <1>c DEF Signed, HasFile
  <1>3. delivered \in Seq(Signed)
    BY DEF CommitInv, FileKept
  <1>4. FileKept'
    BY <1>1, <1>2, <1>3 DEF CommitInv, FileKept, HasFile
  <1>. QED  BY <1>1, <1>2, <1>3, <1>4, <1>c, PlainIsSigned, SeqMonotonic DEF CommitInv, ReaderType

LEMMA FailKeepsReader ==
    ASSUME CommitInv, HasFile, UNCHANGED <<writerVars, delivered>>,
           NEW io \in BOOLEAN, rd' = [rd EXCEPT !.st = "Failed", !.io = io], got' = got
    PROVE  ReaderType' /\ ReaderKeeps'
  <1>1. rd \in Readers /\ got \in Seq(Records(Units)) /\ rd.logical <= rd.limits.logical
    BY ReadKeepsFile
  <1>2. /\ rd' \in Readers /\ rd'.st = "Failed" /\ rd'.logical = rd.logical
        /\ rd'.limits = rd.limits /\ rd'.manifests = rd.manifests
    BY <1>1 DEF Readers
  <1>3. ReaderType'
    BY <1>1, <1>2 DEF ReaderType
  <1>4. ReaderKeeps'
    BY <1>2 DEF CommitInv, ReaderKeeps
  <1>. QED  BY <1>3, <1>4

LEMMA FailIs == ASSUME rd \in Readers, Fail PROVE rd' = [rd EXCEPT !.st = "Failed", !.io = rd.io] /\ got' = got
                                                  /\ rd.io \in BOOLEAN
  BY DEF Fail, Readers

LEMMA NothingRead == Body(<<>>) = <<HeaderUnit>>
  <1>1. Len(<<>>) = 0 /\ <<>> \in Seq(Records(Plain)) /\ 0 \in 0..0
    OBVIOUS
  <1>2. Laid(<<>>, 0) = <<>>
    BY <1>1, UnitSets, LaidSteps
  <1>. DEFINE u == <<HeaderUnit>>
  <1>3. u \in Seq(Plain)
    BY UnitSets
  <1>. HIDE DEF u
  <1>4. u \o <<>> = u
    BY <1>3, ConcatEmptySeq
  <1>. QED  BY <1>1, <1>2, <1>4 DEF Body, u

LEMMA ReadHeaderKeepsReader ==
    ASSUME CommitInv, HasFile, ReadHeader
    PROVE  ReaderType' /\ ReaderKeeps'
  <1>0. UNCHANGED <<writerVars, delivered>> /\ rd.st = "Header"
    BY DEF ReadHeader
  <1>1. rd \in Readers /\ got \in Seq(Records(Units)) /\ rd.logical <= rd.limits.logical
    BY <1>0, ReadKeepsFile
  <1>2. CASE Fail
    BY <1>0, <1>1, <1>2, FailIs, FailKeepsReader
  <1>3. CASE ~Fail
    <2>1. rd' = [rd EXCEPT !.st = "RecordHeader", !.offset = 1, !.hashed = <<HeaderUnit>>]
          /\ got' = got
      BY <1>3, Zenon DEF ReadHeader
    <2>2. <<HeaderUnit>> \in Seq(Units) /\ <<HeaderUnit>> = Body(<<>>)
      BY UnitSets, NothingRead
    <2>3. got = <<>>
      BY <1>0 DEF CommitInv, ReaderKeeps
    <2>. DEFINE h == <<HeaderUnit>>
    <2>. HIDE DEF h
    <2>4. /\ rd' \in Readers /\ rd'.st = "RecordHeader" /\ rd'.logical = rd.logical
          /\ rd'.limits = rd.limits /\ rd'.manifests = rd.manifests /\ rd'.hashed = h
      <3>1. rd' = [rd EXCEPT !.st = "RecordHeader", !.offset = 1, !.hashed = h] /\ h \in Seq(Units)
        BY <2>1, <2>2 DEF h
      <3>. QED  BY <1>1, <3>1 DEF Readers
    <2>5. ReaderType'
      BY <1>1, <2>1, <2>4 DEF ReaderType
    <2>6. rd'.hashed = Body(got)
      BY <2>2, <2>3, <2>4 DEF h
    <2>7. ReaderKeeps'
      BY <2>1, <2>4, <2>6 DEF CommitInv, ReaderKeeps
    <2>. QED  BY <2>5, <2>7
  <1>. QED  BY <1>2, <1>3

LEMMA NextIsUnit ==
    ASSUME CommitInv, HasFile, Readable(1)
    PROVE  NextUnit \in Units /\ rd.offset + 1 \in 1..Len(delivered)
  <1>1. rd \in Readers /\ delivered \in Seq(Units)
    BY PlainIsSigned, SeqMonotonic DEF CommitInv, ReaderType, FileKept
  <1>2. rd.offset \in Nat /\ rd.offset + 1 <= Len(delivered) /\ Len(delivered) \in Nat
    BY <1>1, LenProperties DEF Readable, Readers
  <1>. QED  BY <1>1, <1>2, ElementOfSeq DEF NextUnit

LEMMA NextAreUnits ==
    ASSUME CommitInv, HasFile, NEW n \in Nat, Readable(n)
    PROVE  NextUnits(n) \in Seq(Units) /\ Len(NextUnits(n)) = n
  <1>1. rd \in Readers /\ delivered \in Seq(Units)
    BY PlainIsSigned, SeqMonotonic DEF CommitInv, ReaderType, FileKept
  <1>. DEFINE o == rd.offset
              a == o + 1
              b == o + n
  <1>2. o \in Nat /\ b <= Len(delivered) /\ Len(delivered) \in Nat
    BY <1>1, LenProperties DEF Readable, Readers
  <1>. HIDE DEF o
  <1>3. a \in Int /\ b \in Int /\ (IF a <= b THEN b - a + 1 ELSE 0) = n
    BY <1>2
  <1>4. \A i \in a..b : i \in 1..Len(delivered)
    BY <1>2
  <1>5. \A i \in a..b : delivered[i] \in Units
    BY <1>1, <1>4, ElementOfSeq
  <1>. HIDE DEF a, b
  <1>. DEFINE x == SubSeq(delivered, a, b)
  <1>6. x \in Seq(Units) /\ Len(x) = IF a <= b THEN b - a + 1 ELSE 0
    BY <1>3, <1>5, SubSeqProperties
  <1>. HIDE DEF x
  <1>7. x \in Seq(Units) /\ Len(x) = n
    BY <1>3, <1>6
  <1>. QED  BY <1>7 DEF NextUnits, Slice, x, a, b, o

LEMMA RecordHeaderKeepsReader ==
    ASSUME CommitInv, HasFile, ReadRecordHeader
    PROVE  ReaderType' /\ ReaderKeeps'
  <1>0. UNCHANGED <<writerVars, delivered>> /\ rd.st = "RecordHeader"
    BY DEF ReadRecordHeader
  <1>1. rd \in Readers /\ got \in Seq(Records(Units)) /\ rd.logical <= rd.limits.logical
    BY <1>0, ReadKeepsFile
  <1>2. CASE Fail
    BY <1>0, <1>1, <1>2, FailIs, FailKeepsReader
  <1>3. CASE ~Fail
    <2>. DEFINE unit  == NextUnit
                entry == Entry(unit.kind, unit.id, rd.offset, unit.len)
                active == [kind |-> unit.kind, entry |-> entry, remaining |-> unit.len,
                           metadata |-> <<>>]
                next == IF unit.len = 0 THEN "RecordEnd" ELSE "Payload"
                inv == IF unit.kind = "Directory" THEN rd.inventory ELSE Append(rd.inventory, entry)
                hashed == Append(rd.hashed, unit)
                r == [kind |-> unit.kind, id |-> unit.id, payload |-> <<>>]
    <2>1. /\ Readable(1) /\ RecordAccepted(unit)
          /\ rd' = [rd EXCEPT
                     !.st = next, !.count = RecordCount(unit), !.offset = @ + 1,
                     !.hashed = Append(@, unit),
                     !.inventory = IF unit.kind = "Directory" THEN @ ELSE Append(@, entry),
                     !.active = active]
          /\ got' = Append(got, r)
      BY <1>3, Zenon DEF ReadRecordHeader
    <2>2. unit \in RecordUnits
      <3>1. unit \in Units /\ unit.t = "record"
        BY <2>1, NextIsUnit DEF RecordAccepted, IsRecord
      <3>. HIDE DEF unit
      <3>. QED  BY <3>1 DEF Units, Plain, HeaderUnit, TornUnit, GarbageUnit, Bytes, ManifestUnits,
                            DirectoryUnits, Footers
    <2>. HIDE DEF unit
    <2>3. /\ unit.kind \in Kinds /\ unit.id \in Nat /\ unit.len \in Nat /\ unit \in Units
          /\ unit = RecordUnit(unit.kind, unit.id, unit.len)
      <3>1. /\ unit.kind \in Kinds /\ unit.id \in Nat /\ unit.len \in Nat
            /\ unit = RecordUnit(unit.kind, unit.id, unit.len)
        BY <2>2 DEF RecordUnits, RecordUnit
      <3>. QED  BY <2>2, <3>1, UnitSets
    <2>4. /\ rd.offset \in Nat /\ rd.inventory \in Seq(Entries) /\ rd.hashed \in Seq(Units)
          /\ rd.count \in Nat
      BY <1>1 DEF Readers
    <2>5. entry \in Entries /\ entry.id = unit.id
      BY <2>3, <2>4 DEF Entries, Entry
    <2>. HIDE DEF entry
    <2>6. active \in Actives /\ active.kind = unit.kind /\ active.entry = entry
          /\ active.remaining = unit.len
      BY <2>3, <2>5 DEF Actives
    <2>7. inv \in Seq(Entries) /\ hashed \in Seq(Units)
      BY <2>3, <2>4, <2>5, AppendProperties
    <2>8. r \in Records(Units) /\ r.kind = unit.kind /\ r.id = unit.id /\ r.payload = <<>>
      BY <2>3 DEF Records
    <2>9. rd' = [rd EXCEPT !.st = next, !.count = rd.count + 1, !.offset = rd.offset + 1,
                           !.hashed = hashed, !.inventory = inv, !.active = active]
      <3>. HIDE DEF active, next, r
      <3>. QED  BY <1>1, <2>1 DEF RecordCount, Readers
    <2>10. next \in {"RecordEnd", "Payload"} /\ (next = "RecordEnd" => unit.len = 0)
      OBVIOUS
    <2>. HIDE DEF active, next, r, inv, hashed
    <2>11. /\ rd' \in Readers /\ rd'.st = next /\ rd'.logical = rd.logical
           /\ rd'.limits = rd.limits /\ rd'.manifests = rd.manifests /\ rd'.hashed = hashed
           /\ rd'.active = active
      <3>. DEFINE c == rd.count + 1
                  o == rd.offset + 1
      <3>1. c \in Nat /\ o \in Nat
        BY <2>4
      <3>. HIDE DEF c, o
      <3>2. rd' = [rd EXCEPT !.st = next, !.count = c, !.offset = o,
                             !.hashed = hashed, !.inventory = inv, !.active = active]
        BY <2>9 DEF c, o
      <3>. QED  BY <1>1, <2>6, <2>7, <2>10, <3>1, <3>2 DEF Readers
    <2>. DEFINE n == Len(got)
                more == Append(got, r)
    <2>12. /\ n \in Nat /\ more \in Seq(Records(Units)) /\ Len(more) = n + 1 /\ more[n + 1] = r
           /\ \A i \in 1..n : more[i] = got[i]
      BY <1>1, <2>8, LenProperties, AppendProperties
    <2>13. ReaderType'
      BY <1>1, <2>1, <2>6, <2>10, <2>11, <2>12 DEF ReaderType
    <2>14. SubSeq(more, 1, n) = got
      <3>1. n \in 0..Len(more)
        BY <2>12
      <3>. DEFINE x == SubSeq(more, 1, n)
      <3>2. x \in Seq(Records(Units)) /\ Len(x) = n /\ \A i \in 1..n : x[i] = more[i]
        <4>. HIDE DEF more, n
        <4>. QED  BY <2>12, <3>1, FirstOf
      <3>. HIDE DEF x, more
      <3>3. \A i \in 1..Len(x) : x[i] = got[i]
        BY <2>12, <3>2
      <3>4. Len(x) = Len(got)
        BY <3>2
      <3>5. x = got
        BY <1>1, <3>2, <3>3, <3>4, SeqEqual
      <3>. QED  BY <3>5 DEF x
    <2>15. rd.hashed = Body(got)
      BY <1>0 DEF CommitInv, ReaderKeeps
    <2>16. Opened(more, unit.len) = hashed
      <3>1. (n + 1) - 1 = n /\ Len(<<>>) + unit.len = unit.len
        BY <2>3, <2>12
      <3>. HIDE DEF more, n
      <3>2. Opened(more, unit.len) = Append(Body(got), unit) \o <<>>
        <4>1. more[Len(more)] = r /\ Len(more) - 1 = n
          BY <2>12, <3>1
        <4>2. RecordUnit(r.kind, r.id, Len(r.payload) + unit.len) = unit
          BY <2>3, <2>8, <3>1
        <4>. QED  BY <2>8, <2>14, <4>1, <4>2, Zenon DEF Opened
      <3>3. hashed \o <<>> = hashed
        BY <2>7, ConcatEmptySeq
      <3>. QED  BY <2>15, <3>2, <3>3 DEF hashed
    <2>17. \A x \in rd'.manifests :
              \E i \in 1..Len(more) : more[i].kind = "Manifest" /\ more[i].id = x.id
      <3>1. TAKE x \in rd'.manifests
      <3>2. PICK i \in 1..n : got[i].kind = "Manifest" /\ got[i].id = x.id
        BY <2>11 DEF CommitInv, ReaderKeeps
      <3>3. i \in 1..Len(more)
        BY <2>12
      <3>. HIDE DEF more
      <3>. QED  BY <2>12, <3>2, <3>3
    <2>18. got' = more
      BY <2>1
    <2>19. /\ rd'.st \in {"RecordEnd", "Payload"} /\ Len(more) # 0
           /\ rd'.active.kind = more[Len(more)].kind /\ rd'.active.entry.id = more[Len(more)].id
           /\ rd'.hashed = Opened(more, rd'.active.remaining)
           /\ rd'.st = "RecordEnd" => rd'.active.remaining = 0
      <3>. HIDE DEF more, n
      <3>. QED  BY <2>5, <2>6, <2>8, <2>10, <2>11, <2>12, <2>16
    <2>. HIDE DEF more
    <2>20. ReaderKeeps'
      BY <2>17, <2>18, <2>19 DEF ReaderKeeps
    <2>. QED  BY <2>13, <2>20
  <1>. QED  BY <1>2, <1>3

\* The next chunk: at least one unit, and no more than is missing.
LEMMA ChunkFits ==
    ASSUME CommitInv, HasFile, rd.st = "Payload", ~ChunkRefused
    PROVE  LET len == Least({rd.active.remaining, ChunkLimit(rd.limits), rd.limits.logical - rd.logical})
           IN  /\ len \in Nat /\ len <= rd.active.remaining /\ len + rd.logical <= rd.limits.logical
               /\ rd.active.remaining # 0 => len # 0
  <1>. DEFINE a == rd.active.remaining
              b == ChunkLimit(rd.limits)
              c == rd.limits.logical - rd.logical
  <1>1. rd \in Readers /\ rd.logical <= rd.limits.logical /\ rd.active \in Actives
    BY DEF CommitInv, ReaderType
  <1>2. rd.limits.chunk \in Nat /\ rd.limits.alloc \in Nat /\ rd.limits.logical \in Nat
        /\ rd.logical \in Nat /\ a \in Nat
    <2>1. rd.limits \in [LimitNames -> Nat]
      BY <1>1 DEF Readers
    <2>. QED  BY <1>1, <2>1 DEF Readers, Actives, LimitNames
  <1>3. b \in Nat /\ c \in Nat /\ b # 0 /\ c # 0
    BY <1>1, <1>2 DEF ChunkLimit, ChunkRefused
  <1>. HIDE DEF a, b
  <1>. DEFINE len == Least({a, b, c})
  <1>4. len \in {a, b, c} /\ len <= a /\ len <= b /\ len <= c
    <2>. HIDE DEF c
    <2>. QED  BY <1>2, <1>3, LeastOfThree
  <1>5. len \in Nat /\ len <= a /\ len + rd.logical <= rd.limits.logical /\ (a # 0 => len # 0)
    <2>. HIDE DEF len
    <2>. QED  BY <1>2, <1>3, <1>4
  <1>. QED  BY <1>5 DEF a, b

\* More of the last record has come.
Longer(r, x) == [kind |-> r.kind, id |-> r.id, payload |-> r.payload \o x]
Grown(recs, x) == [recs EXCEPT ![Len(recs)] = Longer(recs[Len(recs)], x)]

LEMMA LongerLast ==
    ASSUME NEW S, NEW recs \in Seq(Records(S)), Len(recs) # 0, NEW x \in Seq(S)
    PROVE  [recs EXCEPT ![Len(recs)].payload = @ \o x] = Grown(recs, x)
  <1>. DEFINE n == Len(recs)
              r == recs[n]
              pp == r.payload \o x
              z == [r EXCEPT !.payload = pp]
  <1>1. r \in Records(S)
    <2>1. n \in 1..n
      BY LenProperties
    <2>. QED  BY <2>1, ElementOfSeq
  <1>2. z = [kind |-> r.kind, id |-> r.id, payload |-> pp]
    <2>1. r.payload \in Seq(S)
      BY <1>1 DEF Records
    <2>2. pp \in Seq(S)
      BY <2>1, ConcatProperties
    <2>. HIDE DEF r, pp
    <2>3. z \in Records(S) /\ z.kind = r.kind /\ z.id = r.id /\ z.payload = pp
      BY <1>1, <2>2 DEF Records
    <2>. HIDE DEF z
    <2>4. z = [kind |-> z.kind, id |-> z.id, payload |-> z.payload]
      BY <2>3 DEF Records
    <2>. QED  BY <2>3, <2>4, Zenon
  <1>3. z = Longer(r, x)
    BY <1>2 DEF Longer
  <1>4. [recs EXCEPT ![n].payload = @ \o x] = [recs EXCEPT ![n] = z]
    BY DEF z, pp, r
  <1>. HIDE DEF z
  <1>. QED  BY <1>3, <1>4 DEF Grown

LEMMA OpenedMore ==
    ASSUME NEW S, RecordUnits \subseteq S, HeaderUnit \in S,
           NEW recs \in Seq(Records(S)), Len(recs) # 0, NEW x \in Seq(S), NEW missing \in Nat
    PROVE  /\ Grown(recs, x) \in Seq(Records(S)) /\ Len(Grown(recs, x)) = Len(recs)
           /\ \A i \in 1..Len(recs) :
                 Grown(recs, x)[i].kind = recs[i].kind /\ Grown(recs, x)[i].id = recs[i].id
           /\ \A i \in 1..(Len(recs) - 1) : Grown(recs, x)[i] = recs[i]
           /\ Grown(recs, x)[Len(recs)].payload = recs[Len(recs)].payload \o x
           /\ Opened(Grown(recs, x), missing) = Opened(recs, missing + Len(x)) \o x
  <1>. DEFINE n == Len(recs)
              r == recs[n]
              q == Longer(r, x)
              one == [recs EXCEPT ![n] = q]
  <1>1. n \in Nat /\ n \in 1..n /\ n - 1 \in Nat /\ n - 1 \in 0..n
    BY LenProperties
  <1>2. r \in Records(S)
    BY <1>1, ElementOfSeq
  <1>. HIDE DEF r
  <1>3. r.kind \in Kinds /\ r.id \in Nat /\ r.payload \in Seq(S) /\ Len(r.payload) \in Nat
        /\ Len(x) \in Nat
    BY <1>2, LenProperties DEF Records
  <1>4. r.payload \o x \in Seq(S) /\ Len(r.payload \o x) = Len(r.payload) + Len(x)
    <2>. DEFINE p == r.payload
    <2>. HIDE DEF p
    <2>1. p \in Seq(S)
      BY <1>3 DEF p
    <2>2. p \o x \in Seq(S) /\ Len(p \o x) = Len(p) + Len(x)
      BY <2>1, ConcatProperties
    <2>. QED  BY <2>2 DEF p
  <1>5. q \in Records(S)
    <2>. DEFINE pp == r.payload \o x
    <2>. HIDE DEF pp
    <2>1. q = [kind |-> r.kind, id |-> r.id, payload |-> pp] /\ pp \in Seq(S)
      BY <1>4 DEF pp, Longer
    <2>. HIDE DEF q
    <2>. QED  BY <1>3, <2>1 DEF Records
  <1>6. Grown(recs, x) = one
    BY DEF r, Grown
  <1>7. q.kind = r.kind /\ q.id = r.id /\ q.payload = r.payload \o x
    BY DEF Longer
  <1>. HIDE DEF q
  <1>8. /\ one \in Seq(Records(S)) /\ Len(one) = n
        /\ \A i \in 1..n : one[i] = IF i = n THEN q ELSE recs[i]
    BY <1>1, <1>5, ExceptSeq
  <1>. HIDE DEF one, n
  <1>81. Len(recs) = n /\ r = recs[n]
    BY DEF n, r
  <1>9. \A i \in 1..n : one[i].kind = recs[i].kind /\ one[i].id = recs[i].id
    BY <1>7, <1>8, <1>81
  <1>10. one[n].payload = r.payload \o x /\ one[n] = q
    BY <1>1, <1>7, <1>8
  <1>11. \A i \in 1..(n - 1) : one[i] = recs[i]
    BY <1>1, <1>8
  <1>. DEFINE f == SubSeq(recs, 1, n - 1)
              g == SubSeq(one, 1, n - 1)
  <1>12. f = g /\ f \in Seq(Records(S))
    <2>1. f \in Seq(Records(S)) /\ Len(f) = n - 1 /\ \A i \in 1..(n - 1) : f[i] = recs[i]
      BY <1>1, <1>81, FirstOf
    <2>2. g \in Seq(Records(S)) /\ Len(g) = n - 1 /\ \A i \in 1..(n - 1) : g[i] = one[i]
      BY <1>1, <1>8, FirstOf
    <2>. HIDE DEF f, g
    <2>3. \A i \in 1..Len(f) : f[i] = g[i]
      BY <1>11, <2>1, <2>2
    <2>4. Len(f) = Len(g)
      BY <2>1, <2>2
    <2>. QED  BY <2>1, <2>2, <2>3, <2>4, SeqEqual
  <1>. HIDE DEF f, g
  <1>. DEFINE ru == RecordUnit(r.kind, r.id, Len(r.payload) + (missing + Len(x)))
              a == Append(Body(f), ru)
              b == r.payload
  <1>13. Opened(recs, missing + Len(x)) = a \o b
    BY <1>81, Zenon DEF Opened, f
  <1>14. Opened(one, missing) = a \o (b \o x)
    <2>1. Len(r.payload \o x) + missing = Len(r.payload) + (missing + Len(x))
      <3>. DEFINE lp == Len(r.payload)
                  lx == Len(x)
                  ly == Len(r.payload \o x)
      <3>1. lp \in Nat /\ lx \in Nat /\ ly = lp + lx
        BY <1>3, <1>4
      <3>. HIDE DEF lp, lx, ly
      <3>2. ly + missing = lp + (missing + lx)
        BY <3>1
      <3>. QED  BY <3>2 DEF lp, lx, ly
    <2>2. RecordUnit(q.kind, q.id, Len(q.payload) + missing) = ru
      BY <1>7, <2>1
    <2>3. Opened(one, missing) = Append(Body(g), RecordUnit(q.kind, q.id, Len(q.payload) + missing)) \o q.payload
      BY <1>8, <1>10, Zenon DEF Opened, g
    <2>. HIDE DEF ru
    <2>. QED  BY <1>7, <1>12, <2>2, <2>3, Zenon
  <1>15. a \in Seq(S) /\ b \in Seq(S)
    <2>1. ru \in S
      <3>. DEFINE lp == Len(r.payload)
                  lx == Len(x)
                  k == lp + (missing + lx)
      <3>0. lp \in Nat /\ lx \in Nat
        BY <1>3
      <3>. HIDE DEF lp, lx
      <3>1. k \in Nat
        BY <3>0
      <3>. HIDE DEF k
      <3>2. RecordUnit(r.kind, r.id, k) \in RecordUnits
        BY <1>3, <3>1 DEF RecordUnit, RecordUnits
      <3>. QED  BY <3>2 DEF k, lp, lx
    <2>2. Body(f) \in Seq(S)
      BY <1>2, <1>12, BodyAppend
    <2>. HIDE DEF ru
    <2>. QED  BY <1>3, <2>1, <2>2, AppendProperties
  <1>. HIDE DEF a, b
  <1>16. (a \o b) \o x = a \o (b \o x)
    BY <1>15, ConcatAssociative
  <1>17. Opened(one, missing) = Opened(recs, missing + Len(x)) \o x
    BY <1>13, <1>14, <1>16, Zenon
  <1>. QED  BY <1>6, <1>8, <1>81, <1>9, <1>10, <1>11, <1>17

LEMMA PayloadKeepsReader ==
    ASSUME CommitInv, HasFile, ReadPayload
    PROVE  ReaderType' /\ ReaderKeeps'
  <1>0. UNCHANGED <<writerVars, delivered>> /\ rd.st = "Payload"
    BY DEF ReadPayload
  <1>1. rd \in Readers /\ got \in Seq(Records(Units)) /\ rd.logical <= rd.limits.logical
        /\ rd.active \in Actives
    BY <1>0, ReadKeepsFile DEF CommitInv, ReaderType
  <1>2. CASE Fail
    BY <1>0, <1>1, <1>2, FailIs, FailKeepsReader
  <1>3. CASE ~Fail
    <2>. DEFINE len == Least({rd.active.remaining, ChunkLimit(rd.limits), rd.limits.logical - rd.logical})
                x == NextUnits(len)
                next == IF len = rd.active.remaining THEN "RecordEnd" ELSE "Payload"
                more == [got EXCEPT ![Len(got)].payload = @ \o x]
    <2>1. /\ ~ChunkRefused /\ Readable(len)
          /\ rd' = [rd EXCEPT
                     !.st = next, !.offset = @ + len, !.hashed = @ \o x, !.logical = @ + len,
                     !.active.remaining = @ - len,
                     !.active.metadata = IF rd.active.kind = "Opaque" THEN @ ELSE @ \o x]
          /\ got' = more
      BY <1>3, Zenon DEF ReadPayload
    <2>2. len \in Nat /\ len <= rd.active.remaining /\ len + rd.logical <= rd.limits.logical
      BY <1>0, <2>1, ChunkFits
    <2>. HIDE DEF len
    <2>3. x \in Seq(Units) /\ Len(x) = len
      BY <2>1, <2>2, NextAreUnits
    <2>. HIDE DEF x
    <2>. DEFINE a == rd.active
                data == IF a.kind = "Opaque" THEN a.metadata ELSE a.metadata \o x
                b == [a EXCEPT !.remaining = @ - len, !.metadata = data]
    <2>4. a \in Actives /\ a.remaining \in Nat /\ a.metadata \in Seq(Units)
      BY <1>1 DEF Actives
    <2>5. data \in Seq(Units)
      BY <2>3, <2>4, ConcatProperties
    <2>6. rd.offset \in Nat /\ rd.logical \in Nat /\ rd.hashed \in Seq(Units)
          /\ rd.limits \in [LimitNames -> Nat] /\ rd.limits.logical \in Nat
      BY <1>1 DEF Readers, LimitNames
    <2>. DEFINE rest == a.remaining - len
                o == rd.offset + len
                l == rd.logical + len
                hashed == rd.hashed \o x
    <2>7. rest \in Nat /\ o \in Nat /\ l \in Nat /\ l <= rd.limits.logical /\ rest + len = a.remaining
          /\ (len = a.remaining => rest = 0)
      <3>. DEFINE ar == a.remaining
                  ro == rd.offset
                  rl == rd.logical
                  ll == rd.limits.logical
      <3>1. /\ ar \in Nat /\ ro \in Nat /\ rl \in Nat /\ ll \in Nat /\ len \in Nat
            /\ len <= ar /\ rl + len <= ll
        BY <2>2, <2>4, <2>6
      <3>. HIDE DEF ar, ro, rl, ll
      <3>2. /\ ar - len \in Nat /\ ro + len \in Nat /\ rl + len \in Nat /\ rl + len <= ll
            /\ (ar - len) + len = ar /\ (len = ar => ar - len = 0)
        BY <3>1
      <3>. QED  BY <3>2 DEF ar, ro, rl, ll
    <2>8. hashed \in Seq(Units)
      BY <2>3, <2>6, ConcatProperties
    <2>9. b \in Actives /\ b.remaining = rest /\ b.kind = a.kind /\ b.entry = a.entry
      <3>. HIDE DEF data, a
      <3>. QED  BY <2>4, <2>5, <2>7 DEF Actives
    <2>10. rd' = [rd EXCEPT !.st = next, !.offset = o, !.hashed = hashed, !.logical = l, !.active = b]
      <3>. HIDE DEF next, more
      <3>. QED  BY <1>1, <2>1 DEF Readers
    <2>11. next \in {"RecordEnd", "Payload"} /\ (next = "RecordEnd" => rest = 0)
      BY <2>7
    <2>. HIDE DEF b, rest, o, l, hashed, next, data
    <2>12. /\ rd' \in Readers /\ rd'.st = next /\ rd'.logical = l
           /\ rd'.limits = rd.limits /\ rd'.manifests = rd.manifests /\ rd'.hashed = hashed
           /\ rd'.active = b
      BY <1>1, <2>7, <2>8, <2>9, <2>10, <2>11 DEF Readers
    <2>13. /\ Len(got) # 0 /\ a.kind = got[Len(got)].kind /\ a.entry.id = got[Len(got)].id
           /\ rd.hashed = Opened(got, a.remaining)
           /\ \A y \in rd.manifests :
                 \E i \in 1..Len(got) : got[i].kind = "Manifest" /\ got[i].id = y.id
      BY <1>0 DEF CommitInv, ReaderKeeps
    <2>14. /\ more \in Seq(Records(Units)) /\ Len(more) = Len(got)
           /\ \A i \in 1..Len(got) : more[i].kind = got[i].kind /\ more[i].id = got[i].id
           /\ Opened(more, rest) = Opened(got, rest + Len(x)) \o x
      <3>1. more = Grown(got, x)
        BY <1>1, <2>3, <2>13, LongerLast
      <3>. HIDE DEF more
      <3>2. RecordUnits \subseteq Units /\ HeaderUnit \in Units /\ Len(got) # 0
            /\ got \in Seq(Records(Units)) /\ x \in Seq(Units) /\ rest \in Nat
        BY <1>1, <2>3, <2>7, <2>13, UnitSets
      <3>. DEFINE g == Grown(got, x)
      <3>3. /\ g \in Seq(Records(Units)) /\ Len(g) = Len(got)
            /\ \A i \in 1..Len(got) : g[i].kind = got[i].kind /\ g[i].id = got[i].id
            /\ Opened(g, rest) = Opened(got, rest + Len(x)) \o x
        BY <3>2, OpenedMore
      <3>. HIDE DEF g
      <3>4. more = g
        BY <3>1 DEF g
      <3>. QED  BY <3>3, <3>4, Zenon
    <2>. HIDE DEF more
    <2>15. Len(got) \in Nat /\ Len(got) \in 1..Len(got)
      BY <1>1, <2>13, LenProperties
    <2>16. Opened(more, rest) = hashed
      BY <2>3, <2>7, <2>13, <2>14 DEF hashed
    <2>17. ReaderType'
      BY <2>1, <2>7, <2>9, <2>12, <2>14 DEF ReaderType
    <2>18. /\ rd'.st \in {"RecordEnd", "Payload"} /\ Len(more) # 0
           /\ rd'.active.kind = more[Len(more)].kind /\ rd'.active.entry.id = more[Len(more)].id
           /\ rd'.hashed = Opened(more, rd'.active.remaining)
           /\ rd'.st = "RecordEnd" => rd'.active.remaining = 0
      BY <2>9, <2>11, <2>12, <2>13, <2>14, <2>15, <2>16
    <2>19. \A y \in rd'.manifests :
              \E i \in 1..Len(more) : more[i].kind = "Manifest" /\ more[i].id = y.id
      BY <2>12, <2>13, <2>14
    <2>20. ReaderKeeps'
      BY <2>1, <2>18, <2>19 DEF ReaderKeeps
    <2>. QED  BY <2>17, <2>20
  <1>. QED  BY <1>2, <1>3

LEMMA FinishRecordKeepsReader ==
    ASSUME CommitInv, HasFile, FinishRecord
    PROVE  ReaderType' /\ ReaderKeeps'
  <1>0. UNCHANGED <<writerVars, delivered>> /\ rd.st = "RecordEnd"
    BY DEF FinishRecord
  <1>1. rd \in Readers /\ got \in Seq(Records(Units)) /\ rd.logical <= rd.limits.logical
        /\ rd.active \in Actives
    BY <1>0, ReadKeepsFile DEF CommitInv, ReaderType
  <1>2. CASE Fail
    BY <1>0, <1>1, <1>2, FailIs, FailKeepsReader
  <1>3. CASE ~Fail
    <2>. DEFINE a == rd.active
                data == a.metadata
                done == [rd EXCEPT !.active = NoActive]
    <2>1. /\ Len(got) # 0 /\ a.kind = got[Len(got)].kind /\ a.entry.id = got[Len(got)].id
          /\ rd.hashed = Opened(got, 0)
          /\ \A y \in rd.manifests :
                 \E i \in 1..Len(got) : got[i].kind = "Manifest" /\ got[i].id = y.id
      BY <1>0 DEF CommitInv, ReaderKeeps
    <2>2. rd.hashed = Body(got)
      BY <1>1, <2>1, UnitSets, OpenedWhole
    <2>3. Len(got) \in 1..Len(got)
      BY <1>1, <2>1, LenProperties
    <2>4. a.kind \in Kinds /\ a.entry.id \in Nat /\ a.entry.offset \in Nat /\ a.entry.len \in Nat
          /\ data \in Seq(Units)
      BY <1>1 DEF Actives, Entries
    <2>5. ASSUME NEW st \in {"RecordHeader", "Footer"}, NEW ms \in SUBSET [id : Nat, m : Manifests],
                 NEW dir \in [offset : Nat, len : Nat],
                 \A y \in ms : y \in rd.manifests \/ (a.kind = "Manifest" /\ y.id = a.entry.id),
                 rd' = [rd EXCEPT !.active = NoActive, !.st = st, !.manifests = ms, !.directory = dir],
                 got' = got
          PROVE  ReaderType' /\ ReaderKeeps'
      <3>1. /\ rd' \in Readers /\ rd'.st = st /\ rd'.logical = rd.logical
            /\ rd'.limits = rd.limits /\ rd'.manifests = ms /\ rd'.hashed = rd.hashed
        BY <1>1, <2>5 DEF Readers
      <3>2. ReaderType'
        BY <1>1, <2>5, <3>1 DEF ReaderType
      <3>3. \A y \in ms : \E i \in 1..Len(got) : got[i].kind = "Manifest" /\ got[i].id = y.id
        BY <2>1, <2>3, <2>5
      <3>4. ReaderKeeps'
        BY <2>2, <2>5, <3>1, <3>3 DEF ReaderKeeps
      <3>. QED  BY <3>2, <3>4
    <2>6. CASE a.kind = "Opaque"
      <3>1. rd' = [done EXCEPT !.st = "RecordHeader"] /\ got' = got
        BY <2>6, Zenon DEF FinishRecord
      <3>2. rd' = [rd EXCEPT !.active = NoActive, !.st = "RecordHeader", !.manifests = rd.manifests,
                             !.directory = rd.directory]
        BY <1>1, <3>1 DEF Readers
      <3>3. rd.manifests \in SUBSET [id : Nat, m : Manifests] /\ rd.directory \in [offset : Nat, len : Nat]
        BY <1>1 DEF Readers
      <3>. QED  BY <2>5, <3>1, <3>2, <3>3
    <2>7. CASE a.kind = "Manifest"
      <3>. DEFINE x == [id |-> a.entry.id, m |-> data[1].m]
                  ms == rd.manifests \cup {x}
      <3>1. IsManifest(data) /\ rd' = [done EXCEPT !.st = "RecordHeader", !.manifests = @ \cup {x}]
            /\ got' = got
        BY <1>3, <2>7, Zenon DEF FinishRecord
      <3>2. data[1].m \in Manifests
        <4>1. data # <<>> /\ data[1].t = "manifest"
          BY <3>1 DEF IsManifest
        <4>2. Len(data) \in Nat /\ Len(data) # 0
          BY <2>4, <4>1, EmptySeq
        <4>3. data[1] \in Units
          BY <2>4, <4>2, ElementOfSeq
        <4>. DEFINE u == data[1]
        <4>. HIDE DEF u
        <4>4. u \in Units /\ u.t = "manifest"
          BY <4>1, <4>3 DEF u
        <4>5. u \in ManifestUnits
          BY <4>4 DEF Units, Plain, HeaderUnit, TornUnit, GarbageUnit, Bytes, RecordUnits,
                      DirectoryUnits, Footers
        <4>. QED  BY <4>5 DEF u, ManifestUnits
      <3>3. x \in [id : Nat, m : Manifests] /\ x.id = a.entry.id
        BY <2>4, <3>2
      <3>. HIDE DEF x
      <3>4. rd.manifests \in SUBSET [id : Nat, m : Manifests] /\ rd.directory \in [offset : Nat, len : Nat]
        BY <1>1 DEF Readers
      <3>5. ms \in SUBSET [id : Nat, m : Manifests]
        BY <3>3, <3>4
      <3>6. \A y \in ms : y \in rd.manifests \/ (a.kind = "Manifest" /\ y.id = a.entry.id)
        BY <2>7, <3>3
      <3>7. rd' = [rd EXCEPT !.active = NoActive, !.st = "RecordHeader", !.manifests = ms,
                             !.directory = rd.directory]
        BY <1>1, <3>1 DEF Readers
      <3>. HIDE DEF ms, a
      <3>. QED  BY <2>5, <3>1, <3>4, <3>5, <3>6, <3>7
    <2>8. CASE a.kind = "Directory"
      <3>. DEFINE dir == [offset |-> a.entry.offset, len |-> 1 + a.entry.len]
      <3>1. rd' = [done EXCEPT !.st = "Footer", !.directory = dir] /\ got' = got
        BY <1>3, <2>8, Zenon DEF FinishRecord
      <3>2. dir \in [offset : Nat, len : Nat]
        BY <2>4
      <3>. HIDE DEF dir
      <3>3. rd' = [rd EXCEPT !.active = NoActive, !.st = "Footer", !.manifests = rd.manifests,
                             !.directory = dir]
        BY <1>1, <3>1 DEF Readers
      <3>4. rd.manifests \in SUBSET [id : Nat, m : Manifests]
        BY <1>1 DEF Readers
      <3>. QED  BY <2>5, <3>1, <3>2, <3>3, <3>4
    <2>. QED  BY <2>4, <2>6, <2>7, <2>8 DEF Kinds
  <1>. QED  BY <1>2, <1>3

LEMMA FooterKeepsReader ==
    ASSUME CommitInv, HasFile, ReadFooter
    PROVE  ReaderType' /\ ReaderKeeps'
  <1>0. UNCHANGED <<writerVars, delivered>> /\ rd.st = "Footer"
    BY DEF ReadFooter
  <1>1. rd \in Readers /\ got \in Seq(Records(Units)) /\ rd.logical <= rd.limits.logical
        /\ w' = w /\ Content' = Content
    BY <1>0, ReadKeepsFile DEF CommitInv, ReaderType
  <1>2. CASE Fail
    BY <1>0, <1>1, <1>2, FailIs, FailKeepsReader
  <1>3. CASE ~Fail
    <2>. DEFINE f == NextUnit
    <2>1. /\ Readable(1) /\ FooterAccepted(f)
          /\ rd' = [rd EXCEPT !.st = "Done", !.offset = @ + 1, !.manifest = f.manifest] /\ got' = got
      BY <1>3, Zenon DEF ReadFooter
    <2>2. f.t = "footer" /\ f.digest = rd.hashed /\ \E x \in rd.manifests : x.id = f.manifest
      BY <2>1 DEF FooterAccepted
    <2>3. f \in Signed
      <3>1. delivered \in Seq(Signed)
        BY DEF CommitInv, FileKept
      <3>2. rd.offset + 1 \in 1..Len(delivered)
        BY <2>1, NextIsUnit
      <3>. QED  BY <3>1, <3>2, ElementOfSeq DEF NextUnit
    <2>. HIDE DEF f
    <2>4. w.st \in {"new", "finished"} /\ rd.hashed = Body(Whole(Content))
      BY <2>2, <2>3 DEF Signed, SignedAs
    <2>5. f.manifest \in Nat
      <3>1. rd.manifests \in SUBSET [id : Nat, m : Manifests]
        BY <1>1 DEF Readers
      <3>. QED  BY <2>2, <3>1
    <2>6. /\ rd' \in Readers /\ rd'.st = "Done" /\ rd'.logical = rd.logical
          /\ rd'.limits = rd.limits /\ rd'.manifests = rd.manifests /\ rd'.hashed = rd.hashed
          /\ rd'.manifest = f.manifest
      <3>. DEFINE o == rd.offset + 1
                  m == f.manifest
      <3>1. o \in Nat /\ m \in Nat
        BY <1>1, <2>5 DEF Readers
      <3>. HIDE DEF o, m
      <3>2. rd' = [rd EXCEPT !.st = "Done", !.offset = o, !.manifest = m]
        BY <2>1 DEF o, m
      <3>3. /\ rd' \in Readers /\ rd'.st = "Done" /\ rd'.logical = rd.logical
            /\ rd'.limits = rd.limits /\ rd'.manifests = rd.manifests /\ rd'.hashed = rd.hashed
            /\ rd'.manifest = m
        BY <1>1, <3>1, <3>2 DEF Readers
      <3>. QED  BY <3>3 DEF m
    <2>7. ReaderType'
      BY <1>1, <2>1, <2>6 DEF ReaderType
    <2>8. rd.hashed = Body(got)
      BY <1>0 DEF CommitInv, ReaderKeeps
    <2>9. \A y \in rd.manifests :
              \E i \in 1..Len(got) : got[i].kind = "Manifest" /\ got[i].id = y.id
      BY DEF CommitInv, ReaderKeeps
    <2>10. ReaderKeeps'
      BY <1>1, <2>1, <2>2, <2>4, <2>6, <2>8, <2>9 DEF ReaderKeeps
    <2>. QED  BY <2>7, <2>10
  <1>. QED  BY <1>2, <1>3

LEMMA InitCommit == ASSUME Init PROVE CommitInv
  <1>1. delivered = NoFile /\ rd.st = "idle" /\ got = <<>>
    BY DEF Init, NewReader
  <1>. QED  BY <1>1, InitWriter DEF CommitInv, FileKept, ReaderType, ReaderKeeps, HasFile

\* The writer works before anything is delivered.
LEMMA WriteIsEarly ==
    ASSUME Write
    PROVE  delivered = NoFile /\ delivered' = delivered /\ rd' = rd /\ got' = got
  <1>1. CASE Create
    BY <1>1 DEF Create
  <1>2. ASSUME NEW id \in Ids, NEW payload \in Payloads, AddOpaque(id, payload)
        PROVE  delivered = NoFile /\ delivered' = delivered /\ rd' = rd /\ got' = got
    BY <1>2 DEF AddOpaque, MayBegin, Written
  <1>3. ASSUME NEW id \in Ids, NEW payload \in Payloads, AddOpaqueFromReader(id, payload)
        PROVE  delivered = NoFile /\ delivered' = delivered /\ rd' = rd /\ got' = got
    BY <1>3 DEF AddOpaqueFromReader, MayBegin, Written
  <1>4. ASSUME NEW id \in Ids, NEW m \in Manifests, AddManifest(id, m)
        PROVE  delivered = NoFile /\ delivered' = delivered /\ rd' = rd /\ got' = got
    BY <1>4 DEF AddManifest, MayBegin, Written
  <1>5. ASSUME NEW id \in Ids, Finish(id)
        PROVE  delivered = NoFile /\ delivered' = delivered /\ rd' = rd /\ got' = got
    BY <1>5 DEF Finish
  <1>. QED  BY <1>1, <1>2, <1>3, <1>4, <1>5 DEF Write

\* An event leaves the limits, and only a failed read is marked.
LEMMA EventKeepsLimits ==
    ASSUME rd \in Readers, NextEvent
    PROVE  rd'.limits = rd.limits /\ rd'.io = rd.io
  <1>1. CASE ReadHeader
    BY <1>1 DEF ReadHeader, Fail, Readers
  <1>2. CASE ReadRecordHeader
    <2>1. CASE Fail
      BY <2>1 DEF Fail, Readers
    <2>2. CASE ~Fail
      <3>. DEFINE st == IF NextUnit.len = 0 THEN "RecordEnd" ELSE "Payload"
                  entry == Entry(NextUnit.kind, NextUnit.id, rd.offset, NextUnit.len)
                  hashed == Append(rd.hashed, NextUnit)
                  inventory == IF NextUnit.kind = "Directory" THEN rd.inventory
                               ELSE Append(rd.inventory, entry)
                  active == [kind |-> NextUnit.kind, entry |-> entry,
                             remaining |-> NextUnit.len, metadata |-> <<>>]
      <3>1. rd' = [rd EXCEPT !.st = st, !.count = RecordCount(NextUnit),
                             !.offset = rd.offset + 1, !.hashed = hashed,
                             !.inventory = inventory, !.active = active]
        BY <1>2, <2>2, ZenonT(60) DEF ReadRecordHeader
      <3>. HIDE DEF st, hashed, inventory, active
      <3>. QED  BY <3>1 DEF Readers
    <2>. QED  BY <2>1, <2>2
  <1>3. CASE ReadPayload
    <2>1. CASE Fail
      BY <2>1 DEF Fail, Readers
    <2>2. CASE ~Fail
      <3>. DEFINE len == Least({rd.active.remaining, ChunkLimit(rd.limits),
                                rd.limits.logical - rd.logical})
                  st == IF len = rd.active.remaining THEN "RecordEnd" ELSE "Payload"
      <3>1. rd' = [rd EXCEPT !.st = st, !.offset = @ + len, !.hashed = @ \o NextUnits(len),
                             !.logical = @ + len, !.active.remaining = @ - len,
                             !.active.metadata = IF rd.active.kind = "Opaque" THEN @
                                                 ELSE @ \o NextUnits(len)]
        BY <1>3, <2>2 DEF ReadPayload
      <3>. HIDE DEF len, st
      <3>. QED  BY <3>1 DEF Readers
    <2>. QED  BY <2>1, <2>2
  <1>4. CASE FinishRecord
    BY <1>4 DEF FinishRecord, Fail, Readers
  <1>5. CASE ReadFooter
    BY <1>5 DEF ReadFooter, Fail, Readers
  <1>. QED  BY <1>1, <1>2, <1>3, <1>4, <1>5 DEF NextEvent

LEMMA NextKeepsCommit == ASSUME CommitInv, [Next]_vars PROVE CommitInv'
  <1>0. WriterInv'
    BY NextKeepsWriter DEF CommitInv
  <1>1. CASE Write
    <2>1. delivered = NoFile /\ delivered' = delivered /\ rd' = rd /\ got' = got
      BY <1>1, WriteIsEarly
    <2>. QED  BY <1>0, <2>1, WriteKeepsReader DEF CommitInv
  <1>2. CASE Deliver
    BY <1>0, <1>2, DeliverKeepsReader DEF CommitInv
  <1>3. CASE DeliverForeign
    BY <1>0, <1>3, ForeignKeepsReader DEF CommitInv
  <1>4. CASE (NextEvent \/ ReadFails) /\ HasFile
    <2>1. UNCHANGED <<writerVars, delivered>>
      BY <1>4 DEF NextEvent, ReadHeader, ReadRecordHeader, ReadPayload, FinishRecord, ReadFooter, ReadFails
    <2>2. FileKept'
      BY <1>4, <2>1, ReadKeepsFile
    <2>3. CASE ReadFails
      <3>1. rd' = [rd EXCEPT !.st = "Failed", !.io = TRUE] /\ got' = got
        BY <2>3 DEF ReadFails
      <3>2. ReaderType' /\ ReaderKeeps'
        BY <1>4, <2>1, <3>1, FailKeepsReader
      <3>. QED  BY <1>0, <2>2, <3>2 DEF CommitInv
    <2>4. CASE NextEvent
      <3>1. ReaderType' /\ ReaderKeeps'
        BY <1>4, <2>4, ReadHeaderKeepsReader, RecordHeaderKeepsReader, PayloadKeepsReader,
           FinishRecordKeepsReader, FooterKeepsReader DEF NextEvent
      <3>. QED  BY <1>0, <2>2, <3>1 DEF CommitInv
    <2>. QED  BY <1>4, <2>3, <2>4
  <1>5. CASE (NextEvent \/ ReadFails) /\ ~HasFile
    <2>1. rd.st # "idle"
      BY <1>5 DEF NextEvent, ReadHeader, ReadRecordHeader, ReadPayload, FinishRecord, ReadFooter, ReadFails
    <2>. QED  BY <1>5, <2>1 DEF CommitInv, FileKept, HasFile
  <1>6. CASE UNCHANGED vars
    <2>0. Content' = Content
      BY <1>6 DEF Content, vars
    <2>1. Signed' = Signed
      BY <1>6, <2>0 DEF Signed, vars
    <2>. QED  BY <1>0, <1>6, <2>0, <2>1 DEF CommitInv, FileKept, ReaderType, ReaderKeeps, HasFile, vars
  <1>. QED  BY <1>1, <1>2, <1>3, <1>4, <1>5, <1>6 DEF Next

\* A body names its records.
LEMMA BodyIsUnique ==
    ASSUME NEW S, RecordUnits \subseteq S, HeaderUnit \in S,
           NEW a \in Seq(Records(S)), NEW b \in Seq(Records(S)), Body(a) = Body(b)
    PROVE  a = b
  <1>. DEFINE x == Laid(a, Len(a))
              y == Laid(b, Len(b))
              h == <<HeaderUnit>>
  <1>1. Len(a) \in Nat /\ Len(b) \in Nat /\ Len(a) \in 0..Len(a) /\ Len(b) \in 0..Len(b)
    BY LenProperties
  <1>2. x \in Seq(S) /\ y \in Seq(S) /\ h \in Seq(S)
    BY <1>1, LaidSteps
  <1>3. h \o x = h \o y
    BY DEF Body
  <1>4. Len(x) \in Nat /\ Len(y) \in Nat
    BY <1>2, LenProperties
  <1>. HIDE DEF x, y, h
  <1>5. x = y
    BY <1>2, <1>3, ConcatSimplifications
  <1>6. Len(x) <= Len(y) /\ Len(y) <= Len(x)
        /\ (\A i \in 1..Len(x) : x[i] = y[i]) /\ (\A i \in 1..Len(y) : y[i] = x[i])
    BY <1>4, <1>5
  <1>7. Len(a) <= Len(b) /\ \A i \in 1..Len(a) : a[i] = b[i]
    BY <1>6, LaidIsUnique DEF x, y
  <1>8. Len(b) <= Len(a)
    BY <1>6, LaidIsUnique DEF x, y
  <1>9. Len(a) = Len(b)
    BY <1>1, <1>7, <1>8
  <1>. QED  BY <1>7, <1>9, SeqEqual

LEMMA WholeIsUnits ==
    ASSUME NEW recs \in Seq(Records(Plain))
    PROVE  /\ recs \in Seq(Records(Units)) /\ Whole(recs) \in Seq(Records(Units))
           /\ Whole(recs) \in Seq(Records(Plain))
           /\ Len(Whole(recs)) = Len(recs) + 1 /\ Len(recs) \in Nat
           /\ Whole(recs)[Len(recs) + 1] = DirectoryOf(recs)
           /\ \A i \in 1..Len(recs) : Whole(recs)[i] = recs[i]
  <1>1. Records(Plain) \subseteq Records(Units)
    <2>1. \A s \in Seq(Plain) : s \in Seq(Units)
      BY UnitSets, SeqMonotonic
    <2>. QED  BY <2>1 DEF Records
  <1>. QED  BY <1>1, UnitSets, DirectoryType, SeqMonotonic, LenProperties

\* A Commit event has shown what the writer accepted.
LEMMA CommitShowsAccepted ==
    ASSUME CommitInv, rd.st = "Done", delivered \notin ForeignFiles
    PROVE  /\ w.st = "finished" /\ Front(got) = accepted
           /\ \E r \in Range(accepted) : r.kind = "Manifest" /\ r.id = rd.manifest
  <1>1. HasFile
    BY DEF CommitInv, FileKept, HasFile
  <1>w. w.st # "new" /\ Content = accepted
    BY <1>1 DEF CommitInv, FileKept, ForeignFiles, Content
  <1>2. /\ w.st = "finished" /\ Body(got) = Body(Whole(accepted))
        /\ got \in Seq(Records(Units)) /\ accepted \in Seq(Records(Plain))
    BY <1>1, <1>w DEF CommitInv, ReaderType, ReaderKeeps, WriterInv, WriterType
  <1>3. PICK i \in 1..Len(got) : got[i].kind = "Manifest" /\ got[i].id = rd.manifest
    BY <1>1 DEF CommitInv, ReaderKeeps
  <1>. DEFINE n == Len(accepted)
              all == Whole(accepted)
  <1>4. /\ accepted \in Seq(Records(Units)) /\ all \in Seq(Records(Units)) /\ Len(all) = n + 1
        /\ n \in Nat /\ all[n + 1] = DirectoryOf(accepted)
        /\ \A j \in 1..n : all[j] = accepted[j]
    BY <1>2, WholeIsUnits
  <1>. HIDE DEF all
  <1>5. got = all
    BY <1>2, <1>4, UnitSets, BodyIsUnique DEF all
  <1>6. Front(got) = accepted
    <2>. DEFINE f == SubSeq(all, 1, n)
    <2>1. n \in 0..Len(all) /\ Len(all) - 1 = n
      BY <1>4
    <2>2. f \in Seq(Records(Units)) /\ Len(f) = n /\ \A j \in 1..n : f[j] = all[j]
      BY <1>4, <2>1, FirstOf
    <2>3. Front(got) = f
      BY <1>5, <2>1 DEF Front
    <2>. HIDE DEF f
    <2>4. \A j \in 1..Len(f) : f[j] = accepted[j]
      BY <1>4, <2>2
    <2>5. Len(f) = Len(accepted)
      BY <2>2
    <2>6. f = accepted
      BY <1>4, <2>2, <2>4, <2>5, SeqEqual
    <2>. QED  BY <2>3, <2>6
  <1>7. i \in 1..n
    <2>1. DirectoryOf(accepted).kind = "Directory"
      BY DEF DirectoryOf
    <2>2. i # n + 1
      BY <1>3, <1>4, <1>5, <2>1
    <2>. QED  BY <1>4, <1>5, <2>2
  <1>8. accepted[i] \in Range(accepted) /\ accepted[i] = got[i]
    BY <1>4, <1>5, <1>7, RangeEquality
  <1>. QED  BY <1>2, <1>3, <1>6, <1>8
-----------------------------------------------------------------------------
(* Reading a file that has arrived as it was written. *)

\* What was encoded is recognised.
LEMMA Recognised ==
    /\ \A m \in Manifests : ShapeOk(m) =>
          IsManifest(EncodeManifest(m)) /\ EncodeManifest(m)[1].m = m
    /\ \A es \in Seq(Entries) :
          IsDirectory(EncodeDirectory(es)) /\ EncodeDirectory(es)[1].entries = es
  <1>1. ASSUME NEW m \in Manifests, ShapeOk(m)
        PROVE  IsManifest(EncodeManifest(m)) /\ EncodeManifest(m)[1].m = m
    <2>. DEFINE d == EncodeManifest(m)
    <2>1. d \in Seq(ManifestUnits) /\ Len(d) \in Nat /\ Len(d) # 0
      BY EncodeManifestType
    <2>2. d # <<>> /\ 1 \in 1..Len(d) /\ 1 \in DOMAIN d
      BY <2>1, LenProperties
    <2>3. d[1].t = "manifest" /\ d[1].m = m
      BY <2>2 DEF EncodeManifest
    <2>. HIDE DEF d
    <2>4. d = EncodeManifest(d[1].m) /\ ShapeOk(d[1].m)
      BY <1>1, <2>3 DEF d
    <2>5. IsManifest(d) /\ d[1].m = m
      BY <2>2, <2>3, <2>4 DEF IsManifest
    <2>. QED  BY <2>5 DEF d
  <1>2. ASSUME NEW es \in Seq(Entries)
        PROVE  IsDirectory(EncodeDirectory(es)) /\ EncodeDirectory(es)[1].entries = es
    <2>. DEFINE d == EncodeDirectory(es)
    <2>1. d \in Seq(DirectoryUnits) /\ Len(d) = 1 + Len(es) /\ Len(es) \in Nat
      BY EncodeDirectoryType
    <2>2. d # <<>> /\ 1 \in 1..(1 + Len(es))
      BY <2>1, LenProperties
    <2>3. d[1].t = "directory" /\ d[1].entries = es
      BY <2>2 DEF EncodeDirectory
    <2>. HIDE DEF d
    <2>4. d = EncodeDirectory(d[1].entries)
      BY <2>3 DEF d
    <2>5. IsDirectory(d) /\ d[1].entries = es
      BY <2>2, <2>3, <2>4 DEF IsDirectory
    <2>. QED  BY <2>5 DEF d
  <1>. QED  BY <1>1, <1>2

\* A record the one-pass reader lets pass before the directory.
WellFormed(r) == r.kind # "Directory" /\ (r.kind = "Manifest" => IsManifest(r.payload))

\* The units of a lawful record are whole.
LEMMA LawfulIsWhole ==
    ASSUME NEW r \in Records(Plain), Lawful(r)
    PROVE  \A i \in 1..Len(r.payload) : r.payload[i].t # "torn"
  <1>1. r.payload \in Seq(Plain)
    BY DEF Records
  <1>2. TAKE i \in 1..Len(r.payload)
  <1>3. r.payload[i] \in Plain /\ r.payload[i] \in Range(r.payload)
    BY <1>1, ElementOfSeq, RangeEquality
  <1>4. r.payload[i] # TornUnit
    BY <1>3 DEF Lawful
  <1>5. \A u \in Plain : u.t = "torn" => u = TornUnit
    BY DEF Plain, HeaderUnit, TornUnit, GarbageUnit, Bytes, RecordUnits, ManifestUnits, DirectoryUnits
  <1>. QED  BY <1>3, <1>4, <1>5

\* What the writer accepts is lawful and well formed.
LEMMA AcceptableIsLawful ==
    ASSUME NEW r \in Records(Plain), Acceptable(r)
    PROVE  Lawful(r) /\ WellFormed(r)
  <1>1. r.id # 0 /\ r.kind \in {"Opaque", "Manifest"} /\ r.payload \in Seq(Plain)
    BY DEF Acceptable, Records
  <1>2. ASSUME \A i \in 1..Len(r.payload) : r.payload[i].t # "torn" PROVE Lawful(r)
    <2>1. Range(r.payload) = {r.payload[i] : i \in 1..Len(r.payload)}
      BY <1>1, RangeEquality
    <2>2. TornUnit.t = "torn"
      BY DEF TornUnit
    <2>3. TornUnit \notin Range(r.payload)
      BY <1>2, <2>1, <2>2
    <2>. QED  BY <1>1, <2>3 DEF Lawful
  <1>3. CASE r.kind = "Opaque"
    <2>1. r.payload \in Seq(Bytes)
      BY <1>3 DEF Acceptable
    <2>2. \A i \in 1..Len(r.payload) : r.payload[i] \in Bytes
      BY <2>1, ElementOfSeq
    <2>3. \A u \in Bytes : u.t # "torn"
      BY DEF Bytes
    <2>. QED  BY <1>2, <1>3, <2>2, <2>3 DEF WellFormed
  <1>4. CASE r.kind = "Manifest"
    <2>1. PICK m \in Manifests : ShapeOk(m) /\ r.payload = EncodeManifest(m)
      BY <1>4 DEF Acceptable
    <2>2. r.payload \in Seq(ManifestUnits)
      BY <2>1, EncodeManifestType
    <2>3. \A i \in 1..Len(r.payload) : r.payload[i] \in ManifestUnits
      BY <2>2, ElementOfSeq
    <2>4. \A u \in ManifestUnits : u.t # "torn"
      BY DEF ManifestUnits
    <2>5. IsManifest(r.payload)
      BY <2>1, Recognised
    <2>. QED  BY <1>2, <1>4, <2>3, <2>4, <2>5 DEF WellFormed
  <1>. QED  BY <1>1, <1>3, <1>4

\* The file is as it was written, up to its footer, which may be harmed.
Foot == delivered[Len(delivered)]
Intact ==
    /\ HasFile /\ delivered # <<>> /\ Foot.t = "footer"
    /\ SubSeq(delivered, 1, Len(delivered) - 1) = Body(Whole(Content))

\* Nothing stands among its objects that only some readers let pass.
Regular == \A i \in 1..Len(Content) : WellFormed(Content[i])

ReadingIntact == Intact /\ Regular /\ rd.limits = Generous /\ ~rd.io

\* What the footer says is so.
FooterGood ==
    /\ Foot.count = Len(Content) + 1
    /\ \E i \in 1..Len(Content) :
          /\ Content[i].kind = "Manifest" /\ Content[i].id = Foot.manifest
          /\ Content[i].payload[1].m.roots \subseteq {Content[j].id : j \in 1..Len(Content)}

\* Where the record after the first m begins; the entries of these; their manifests.
At(m) == 1 + Len(Laid(Whole(Content), m))
Known(m) == SubSeq(EntriesOf(Content), 1, m)
ManifestsOf(recs, m) ==
    {[id |-> recs[i].id, m |-> recs[i].payload[1].m] : i \in {j \in 1..m : recs[j].kind = "Manifest"}}
Learnt(m) == rd.manifests = ManifestsOf(Content, m)

\* The reader is between two records, k of which it has seen.
Between(k) ==
    /\ k \in 0..Len(Content)
    /\ \A i \in 1..k : got[i] = Whole(Content)[i]
    /\ rd.offset = At(k) /\ rd.inventory = Known(k) /\ Learnt(k)
    /\ rd.directory = NoDirectory

\* The reader is inside record k.
Within(k) ==
    /\ k \in 1..(Len(Content) + 1)
    /\ \A i \in 1..(k - 1) : got[i] = Whole(Content)[i]
    /\ got[k].kind = Whole(Content)[k].kind /\ got[k].id = Whole(Content)[k].id
    /\ Len(got[k].payload) + rd.active.remaining = Len(Whole(Content)[k].payload)
    /\ \A j \in 1..Len(got[k].payload) : got[k].payload[j] = Whole(Content)[k].payload[j]
    /\ rd.offset = At(k - 1) + 1 + Len(got[k].payload)
    /\ rd.active.entry = EntryOf(Whole(Content), k)
    /\ got[k].kind # "Opaque" => rd.active.metadata = got[k].payload
    /\ rd.inventory = Known(IF k <= Len(Content) THEN k ELSE Len(Content))
    /\ Learnt(k - 1)
    /\ rd.directory = NoDirectory

\* The reader has seen the directory.
Behind ==
    /\ Len(got) = Len(Content) + 1
    /\ \A i \in 1..Len(got) : got[i] = Whole(Content)[i]
    /\ rd.offset = At(Len(Content) + 1)
    /\ rd.inventory = Known(Len(Content)) /\ Learnt(Len(Content))
    /\ rd.directory = DirectoryPlace(Content)

IntactRead ==
    ReadingIntact =>
        /\ rd.st = "Failed" => ~FooterGood
        /\ rd.st = "Done" =>
              FooterGood /\ Learnt(Len(Content)) /\ rd.manifest = Foot.manifest
        /\ rd.st \notin {"Failed", "Done"} => rd.count = Len(got) /\ rd.logical <= rd.offset
        /\ rd.st = "Header" => /\ rd.offset = 0 /\ rd.directory = NoDirectory
                               /\ rd.inventory = Known(0) /\ Learnt(0)
        /\ rd.st = "RecordHeader" => Between(Len(got))
        /\ rd.st \in {"Payload", "RecordEnd"} => Within(Len(got))
        /\ rd.st = "Footer" => Behind

GenuineInv == CommitInv /\ IntactRead

\* What an intact file holds, and what its footer keeps.
LEMMA IntactContent ==
    ASSUME CommitInv, Intact
    PROVE  /\ Content \in Seq(Records(Plain))
           /\ \A i, j \in 1..Len(Content) :
                 Content[i].id = Content[j].id /\ Content[i].id # 0 => i = j
           /\ \A i \in 1..Len(Content) : Lawful(Content[i])
           /\ w.st = "finished" => Regular
           /\ delivered \in Seq(Units) /\ Len(delivered) \in Nat /\ Fits(Len(delivered))
           /\ Foot \in Units /\ Foot.t = "footer" /\ Foot.digest = Body(Whole(Content))
           /\ Foot.directory = DirectoryPlace(Content)
           /\ delivered = Append(Body(Whole(Content)), Foot)
  <1>1. delivered \in Seq(Signed) /\ delivered # <<>> /\ Foot.t = "footer" /\ HasFile
    BY DEF CommitInv, FileKept, Intact
  <1>2. delivered \in Seq(Units) /\ Len(delivered) \in Nat /\ Len(delivered) # 0
    BY <1>1, PlainIsSigned, SeqMonotonic, LenProperties, EmptySeq
  <1>3. Foot \in Signed
    <2>1. Len(delivered) \in 1..Len(delivered)
      BY <1>2
    <2>. QED  BY <1>1, <2>1, ElementOfSeq DEF Foot
  <1>4. /\ Foot \in Units /\ w.st \in {"new", "finished"} /\ Foot.digest = Body(Whole(Content))
        /\ Foot.directory = DirectoryPlace(Content)
    BY <1>1, <1>3 DEF Signed, SignedAs
  <1>. DEFINE b == Body(Whole(Content))
  <1>5. delivered = Append(b, Foot) /\ b \in Seq(Units) /\ Len(b) = Len(delivered) - 1
    <2>. DEFINE k == Len(delivered) - 1
                f == SubSeq(delivered, 1, k)
                a == Append(f, Foot)
    <2>1. k \in 0..Len(delivered) /\ k + 1 = Len(delivered)
      BY <1>2
    <2>2. f \in Seq(Units) /\ Len(f) = k /\ \A i \in 1..k : f[i] = delivered[i]
      BY <1>2, <2>1, FirstOf
    <2>3. f = b
      BY DEF Intact
    <2>. HIDE DEF f, k
    <2>4. a \in Seq(Units) /\ Len(a) = k + 1 /\ a[k + 1] = Foot /\ \A i \in 1..k : a[i] = f[i]
      BY <1>4, <2>2, AppendProperties
    <2>. HIDE DEF a
    <2>5. \A i \in 1..Len(a) : a[i] = delivered[i]
      <3>1. \A i \in 1..(k + 1) : i \in 1..k \/ i = k + 1
        BY <2>1
      <3>. QED  BY <2>1, <2>2, <2>4, <3>1 DEF Foot
    <2>6. a = delivered
      BY <1>2, <2>1, <2>4, <2>5, SeqEqual
    <2>. QED  BY <2>2, <2>3, <2>6 DEF a, k
  <1>. HIDE DEF b
  <1>6. CASE w.st = "new"
    <2>. DEFINE g == Foreigner(delivered)
    <2>1. g \in Foreign /\ delivered = MemoryFile(g.records, g.manifest)
      <3>1. PICK f \in Foreign : delivered = MemoryFile(f.records, f.manifest)
        BY <1>1, <1>6 DEF CommitInv, FileKept
      <3>. QED  BY <3>1, ForeignContent
    <2>2. Content = g.records
      BY <1>6 DEF Content
    <2>. HIDE DEF g
    <2>3. /\ g.records \in Seq(Records(Plain)) /\ Distinct(g.records) /\ Fits(Len(delivered))
          /\ \A i \in DOMAIN g.records : Lawful(g.records[i])
      BY <2>1, StreamAssumption
    <2>4. DOMAIN g.records = 1..Len(g.records)
      BY <2>3, LenProperties
    <2>5. \A i, j \in 1..Len(g.records) :
             g.records[i].id = g.records[j].id /\ g.records[i].id # 0 => i = j
      BY <2>3, <2>4 DEF Distinct
    <2>. QED  BY <1>1, <1>2, <1>4, <1>5, <1>6, <2>2, <2>3, <2>4, <2>5 DEF b
  <1>7. CASE w.st = "finished"
    <2>1. Content = accepted
      BY <1>7 DEF Content
    <2>2. /\ accepted \in Seq(Records(Plain)) /\ OneEach(accepted)
          /\ \A i \in 1..Len(accepted) : Acceptable(accepted[i])
          /\ sink = Append(Body(Whole(accepted)), FooterOf(accepted, w.manifest))
          /\ sink \in Seq(Units) /\ Len(sink) <= w.limits.file
          /\ job \in Jobs /\ w.limits = job.writer
      BY <1>7 DEF CommitInv, WriterInv, WriterType, WriterKeeps
    <2>3. Len(sink) = Len(delivered)
      <3>. DEFINE f == FooterOf(accepted, w.manifest)
                  S == Units \cup {f}
      <3>1. b \in Seq(S) /\ f \in S
        BY <1>5, SeqMonotonic
      <3>2. sink = Append(b, f)
        BY <2>1, <2>2 DEF b
      <3>. HIDE DEF f, S
      <3>3. Len(sink) = Len(b) + 1
        BY <3>1, <3>2, AppendProperties
      <3>. QED  BY <1>2, <1>5, <3>3
    <2>4. Fits(Len(delivered))
      <3>. DEFINE ld == Len(delivered)
                  lf == job.writer.file
      <3>1. ld \in Nat /\ lf \in Nat /\ ld <= lf /\ Fits(lf) /\ Generous \in [LimitNames -> Nat]
        BY <1>2, <2>2, <2>3, StreamAssumption DEF LimitNames
      <3>. HIDE DEF ld, lf
      <3>2. ASSUME NEW name \in LimitNames \ {"chunk"} PROVE ld <= Generous[name]
        <4>1. lf <= Generous[name] /\ Generous[name] \in Nat
          BY <3>1 DEF Fits
        <4>. QED  BY <3>1, <4>1
      <3>3. 2 * ld <= Generous.read
        <4>1. 2 * lf <= Generous.read /\ Generous.read \in Nat
          BY <3>1 DEF Fits, LimitNames
        <4>. QED  BY <3>1, <4>1
      <3>4. Fits(ld)
        BY <3>2, <3>3 DEF Fits
      <3>. QED  BY <3>4 DEF ld
    <2>5. ASSUME NEW i \in 1..Len(accepted) PROVE Lawful(accepted[i]) /\ WellFormed(accepted[i])
      BY <2>2, ElementOfSeq, AcceptableIsLawful
    <2>6. \A i, j \in 1..Len(accepted) : accepted[i].id = accepted[j].id => i = j
      BY <2>2 DEF OneEach
    <2>. QED  BY <1>1, <1>2, <1>4, <1>5, <2>1, <2>2, <2>4, <2>5, <2>6 DEF b, Regular
  <1>. QED  BY <1>4, <1>6, <1>7

\* Where the records lie in an intact file.
LEMMA IntactFile ==
    ASSUME CommitInv, Intact
    PROVE  /\ Len(Content) \in Nat /\ Whole(Content) \in Seq(Records(Units))
           /\ Len(Whole(Content)) = Len(Content) + 1
           /\ Len(delivered) \in Nat /\ delivered[1] = HeaderUnit /\ At(0) = 1 /\ Len(Content) < Len(delivered)
           /\ \A m \in 0..Len(Content) :
                 /\ At(m) \in Nat /\ At(m + 1) \in Nat /\ Len(Whole(Content)[m + 1].payload) \in Nat
                 /\ At(m + 1) = At(m) + 1 + Len(Whole(Content)[m + 1].payload)
                 /\ At(m + 1) < Len(delivered)
                 /\ delivered[At(m) + 1] = RecordUnit(Whole(Content)[m + 1].kind, Whole(Content)[m + 1].id,
                                                 Len(Whole(Content)[m + 1].payload))
                 /\ \A i \in 1..Len(Whole(Content)[m + 1].payload) :
                       delivered[At(m) + 1 + i] = Whole(Content)[m + 1].payload[i]
           /\ Len(delivered) = At(Len(Content) + 1) + 1
           /\ delivered[At(Len(Content) + 1) + 1] = Foot
  <1>. DEFINE n == Len(Content)
              all == Whole(Content)
              h == <<HeaderUnit>>
              z == Laid(all, n + 1)
              f == Foot
              b == Body(all)
  <1>1. Content \in Seq(Records(Plain)) /\ delivered = Append(b, f)
    BY IntactContent
  <1>2. n \in Nat /\ all \in Seq(Records(Units)) /\ Len(all) = n + 1 /\ all[n + 1] = DirectoryOf(Content)
    BY <1>1, WholeIsUnits
  <1>. HIDE DEF all, f
  <1>3. z \in Seq(Units) /\ Len(z) \in Nat
    <2>1. n + 1 \in 0..Len(all)
      BY <1>2
    <2>. QED  BY <1>2, <2>1, UnitSets, LaidSteps, LenProperties
  <1>4. b = h \o z /\ h \in Seq(Units) /\ Len(h) = 1 /\ h[1] = HeaderUnit
    BY <1>2, UnitSets DEF Body
  <1>. HIDE DEF h, z
  <1>5. /\ b \in Seq(Units) /\ Len(b) = 1 + Len(z) /\ b[1] = HeaderUnit
        /\ \A i \in 1..Len(z) : b[1 + i] = z[i]
    <2>. HIDE DEF b
    <2>1. /\ h \o z \in Seq(Units) /\ Len(h \o z) = Len(h) + Len(z)
          /\ \A i \in 1..(Len(h) + Len(z)) : (h \o z)[i] = IF i <= Len(h) THEN h[i] ELSE z[i - Len(h)]
      BY <1>3, <1>4, ConcatProperties, Zenon
    <2>2. /\ b \in Seq(Units) /\ Len(b) = 1 + Len(z)
          /\ \A i \in 1..(1 + Len(z)) : b[i] = IF i <= 1 THEN h[i] ELSE z[i - 1]
      BY <1>4, <2>1
    <2>3. \A i \in 1..Len(z) : 1 + i \in 1..(1 + Len(z)) /\ ~(1 + i <= 1) /\ 1 + i - 1 = i
      BY <1>3
    <2>4. 1 \in 1..(1 + Len(z)) /\ 1 <= 1
      BY <1>3
    <2>. QED  BY <1>4, <2>2, <2>3, <2>4
  <1>. HIDE DEF b
  <1>6. /\ Len(delivered) = Len(z) + 2 /\ delivered[Len(z) + 2] = f
        /\ \A i \in 1..(Len(z) + 1) : delivered[i] = b[i]
    <2>. DEFINE S == Units \cup {f}
    <2>1. b \in Seq(S) /\ f \in S
      BY <1>5, SeqMonotonic
    <2>. HIDE DEF S
    <2>2. /\ Len(delivered) = Len(b) + 1 /\ delivered[Len(b) + 1] = f /\ \A i \in 1..Len(b) : delivered[i] = b[i]
      BY <1>1, <2>1, AppendProperties
    <2>3. Len(b) + 1 = Len(z) + 2 /\ Len(b) = Len(z) + 1
      BY <1>3, <1>5
    <2>. QED  BY <2>2, <2>3
  <1>7. delivered[1] = HeaderUnit /\ \A i \in 1..Len(z) : delivered[1 + i] = z[i]
    <2>1. 1 \in 1..(Len(z) + 1) /\ \A i \in 1..Len(z) : 1 + i \in 1..(Len(z) + 1)
      BY <1>3
    <2>. QED  BY <1>5, <1>6, <2>1
  <1>8. At(n + 1) = 1 + Len(z)
    BY DEF At, z, all
  <1>9. At(0) = 1
    <2>1. n + 1 \in 0..Len(all)
      BY <1>2
    <2>2. Laid(all, 0) = <<>>
      BY <1>2, <2>1, UnitSets, LaidSteps
    <2>. QED  BY <2>2 DEF At, all
  <1>10. ASSUME NEW m \in 0..n
         PROVE  /\ At(m) \in Nat /\ At(m + 1) \in Nat /\ Len(all[m + 1].payload) \in Nat
                /\ At(m + 1) = At(m) + 1 + Len(all[m + 1].payload)
                /\ At(m + 1) < Len(delivered)
                /\ delivered[At(m) + 1] = RecordUnit(all[m + 1].kind, all[m + 1].id, Len(all[m + 1].payload))
                /\ \A i \in 1..Len(all[m + 1].payload) : delivered[At(m) + 1 + i] = all[m + 1].payload[i]
    <2>. DEFINE p == Len(Laid(all, m))
                r == all[m + 1]
                lp == Len(r.payload)
    <2>1. m \in 0..(Len(all) - 1) /\ n + 1 \in (m + 1)..Len(all)
      BY <1>2
    <2>2. /\ p \in Nat /\ lp \in Nat /\ Len(z) \in Nat
          /\ p + 1 + lp <= Len(z)
          /\ Len(Laid(all, m + 1)) = p + 1 + lp
          /\ z[p + 1] = RecordUnit(r.kind, r.id, lp)
          /\ \A i \in 1..lp : z[p + 1 + i] = r.payload[i]
      BY <1>2, <2>1, UnitSets, LaidRecord DEF z
    <2>3. At(m) = 1 + p /\ At(m + 1) = 1 + Len(Laid(all, m + 1))
      BY DEF At, all
    <2>. HIDE DEF p, lp
    <2>4. /\ At(m) \in Nat /\ At(m + 1) = At(m) + 1 + lp /\ At(m + 1) \in Nat
          /\ At(m + 1) < Len(delivered)
      <3>. DEFINE q == Len(Laid(all, m + 1))
                  lz == Len(z)
                  ls == Len(delivered)
                  a0 == At(m)
                  a1 == At(m + 1)
      <3>1. /\ p \in Nat /\ lp \in Nat /\ lz \in Nat /\ p + 1 + lp <= lz /\ q = p + 1 + lp
            /\ a0 = 1 + p /\ a1 = 1 + q /\ ls = lz + 2
        BY <1>6, <2>2, <2>3
      <3>. HIDE DEF q, lz, ls, a0, a1
      <3>2. a0 \in Nat /\ a1 = a0 + 1 + lp /\ a1 \in Nat /\ a1 < ls
        BY <3>1
      <3>. QED  BY <3>2 DEF a0, a1, ls
    <2>5. At(m) + 1 = 1 + (p + 1) /\ p + 1 \in 1..Len(z)
      BY <2>2, <2>3
    <2>6. delivered[At(m) + 1] = RecordUnit(r.kind, r.id, lp)
      BY <1>7, <2>2, <2>5
    <2>7. ASSUME NEW i \in 1..lp PROVE delivered[At(m) + 1 + i] = r.payload[i]
      <3>1. At(m) + 1 + i = 1 + (p + 1 + i) /\ p + 1 + i \in 1..Len(z)
        BY <2>2, <2>3
      <3>. HIDE DEF r
      <3>2. z[p + 1 + i] = r.payload[i]
        BY <2>2
      <3>3. delivered[1 + (p + 1 + i)] = z[p + 1 + i]
        BY <1>7, <3>1
      <3>. QED  BY <3>1, <3>2, <3>3
    <2>. QED  BY <2>2, <2>4, <2>6, <2>7 DEF lp
  <1>11. n < Len(delivered)
    <2>1. n \in 0..n /\ Len(DirectoryOf(Content).payload) = 1 + n
      BY <1>1, <1>2, UnitSets, DirectoryType
    <2>2. At(n) \in Nat /\ At(n + 1) = At(n) + 1 + (1 + n) /\ At(n + 1) < Len(delivered) /\ At(n + 1) \in Nat
      BY <1>2, <1>10, <2>1
    <2>3. Len(delivered) \in Nat
      BY <1>3, <1>6
    <2>. QED  BY <1>2, <2>2, <2>3
  <1>12. Len(delivered) \in Nat /\ Len(delivered) = At(n + 1) + 1 /\ delivered[At(n + 1) + 1] = f
    <2>1. At(n + 1) + 1 = Len(z) + 2
      BY <1>3, <1>8
    <2>. QED  BY <1>3, <1>6, <2>1
  <1>. QED  BY <1>2, <1>7, <1>9, <1>10, <1>11, <1>12 DEF all, f

\* What the records of an intact file are.
LEMMA IntactRecords ==
    ASSUME CommitInv, Intact, NEW k \in 1..(Len(Content) + 1)
    PROVE  LET r == Whole(Content)[k]
           IN  /\ r \in Records(Units) /\ r.kind \in Kinds
               /\ r.kind = "Directory" <=> r.id = 0
               /\ Regular => (r.kind = "Directory" <=> k = Len(Content) + 1)
               /\ k <= Len(Content) => r = Content[k] /\ (Regular => WellFormed(r))
               /\ k = Len(Content) + 1 => r = DirectoryOf(Content)
               /\ \A i \in 1..Len(r.payload) : r.payload[i].t # "torn"
  <1>. DEFINE n == Len(Content)
              r == Whole(Content)[k]
  <1>1. Content \in Seq(Records(Plain)) /\ \A i \in 1..n : Lawful(Content[i])
    BY IntactContent
  <1>2. /\ n \in Nat /\ Whole(Content) \in Seq(Records(Units)) /\ Len(Whole(Content)) = n + 1
        /\ Whole(Content)[n + 1] = DirectoryOf(Content) /\ \A i \in 1..n : Whole(Content)[i] = Content[i]
    BY <1>1, WholeIsUnits
  <1>3. r \in Records(Units) /\ r.kind \in Kinds
    <2>1. r \in Records(Units)
      BY <1>2, ElementOfSeq
    <2>. QED  BY <2>1 DEF Records
  <1>4. CASE k <= n
    <2>1. k \in 1..n /\ k # n + 1
      BY <1>2, <1>4
    <2>2. r = Content[k] /\ Lawful(r) /\ r \in Records(Plain) /\ (Regular => WellFormed(r))
      BY <1>1, <1>2, <2>1, ElementOfSeq DEF Regular
    <2>. HIDE DEF r
    <2>3. r.kind = "Directory" <=> r.id = 0
      BY <2>2 DEF Lawful
    <2>4. \A i \in 1..Len(r.payload) : r.payload[i].t # "torn"
      BY <2>2, LawfulIsWhole
    <2>5. Regular => r.kind # "Directory"
      BY <2>2 DEF WellFormed
    <2>. QED  BY <1>3, <2>1, <2>2, <2>3, <2>4, <2>5 DEF r
  <1>5. CASE k = n + 1
    <2>1. r = DirectoryOf(Content) /\ ~(k <= n)
      BY <1>2, <1>5
    <2>2. r.kind = "Directory" /\ r.id = 0 /\ r.payload = EncodeDirectory(EntriesOf(Content))
      BY <2>1 DEF DirectoryOf
    <2>3. EntriesOf(Content) \in Seq(Entries)
      BY <1>1, UnitSets, EntriesType
    <2>4. r.payload \in Seq(DirectoryUnits)
      BY <2>2, <2>3, EncodeDirectoryType
    <2>. HIDE DEF r
    <2>5. \A i \in 1..Len(r.payload) : r.payload[i] \in DirectoryUnits
      BY <2>4, ElementOfSeq
    <2>6. \A u \in DirectoryUnits : u.t # "torn"
      BY DEF DirectoryUnits
    <2>. QED  BY <1>3, <1>5, <2>1, <2>2, <2>5, <2>6 DEF r
  <1>. QED  BY <1>2, <1>4, <1>5

\* Generous limits allow whatever the writer's let through.
LEMMA IntactLimits ==
    ASSUME CommitInv, ReadingIntact
    PROVE  /\ \A name \in LimitNames \ {"chunk"} : Len(delivered) <= rd.limits[name] /\ rd.limits[name] \in Nat
           /\ ChunkLimit(rd.limits) # 0
  <1>1. rd.limits = Generous /\ Fits(Len(delivered)) /\ Generous \in [LimitNames -> Nat]
    BY StreamAssumption, IntactContent DEF ReadingIntact
  <1>2. \A name \in LimitNames \ {"chunk"} : Generous[name] \in Nat /\ Len(delivered) <= Generous[name]
    BY <1>1 DEF Fits
  <1>3. Generous.chunk > 0 /\ Generous.alloc > 0 /\ Generous.chunk \in Nat /\ Generous.alloc \in Nat
    BY <1>1, StreamAssumption DEF LimitNames
  <1>4. ChunkLimit(Generous) # 0
    BY <1>3 DEF ChunkLimit
  <1>. QED  BY <1>1, <1>2, <1>4

\* Units that are there and whole can be read.
LEMMA IntactReadable ==
    ASSUME CommitInv, ReadingIntact, NEW n \in Nat, rd.offset + n <= Len(delivered),
           \A i \in 1..n : delivered[rd.offset + i].t # "torn"
    PROVE  Readable(n)
  <1>1. Len(delivered) <= rd.limits.file /\ rd.limits.file \in Nat /\ Len(delivered) <= rd.limits.read
        /\ rd.limits.read \in Nat
    BY IntactLimits DEF LimitNames
  <1>2. rd.offset \in Nat /\ Len(delivered) \in Nat
    BY IntactContent DEF ReadingIntact, Intact, CommitInv, ReaderType, Readers
  <1>. QED  BY <1>1, <1>2 DEF Readable, WithinBudget

LEMMA IntactStays ==
    ASSUME UNCHANGED <<writerVars, delivered>>, rd'.limits = rd.limits
    PROVE  /\ \A m : At(m)' = At(m) /\ Known(m)' = Known(m)
           /\ Content' = Content /\ Foot' = Foot /\ Intact' = Intact /\ FooterGood' = FooterGood
           /\ Regular' = Regular
           /\ ReadingIntact' => (rd'.io = rd.io => ReadingIntact)
  <1>1. w' = w /\ accepted' = accepted /\ delivered' = delivered
    BY DEF writerVars
  <1>2. Content' = Content /\ Foot' = Foot
    BY <1>1 DEF Content, Foot
  <1>3. Intact' = Intact /\ FooterGood' = FooterGood /\ Regular' = Regular
    BY <1>1, <1>2 DEF Intact, HasFile, FooterGood, Regular
  <1>4. \A m : At(m)' = At(m) /\ Known(m)' = Known(m)
    BY <1>2 DEF At, Known
  <1>. QED  BY <1>2, <1>3, <1>4 DEF ReadingIntact

LEMMA HeaderOfIntact ==
    ASSUME GenuineInv, HasFile, ReadHeader
    PROVE  IntactRead'
  <1>0. UNCHANGED <<writerVars, delivered>> /\ rd.st = "Header" /\ rd \in Readers /\ CommitInv
    BY DEF ReadHeader, GenuineInv, CommitInv, ReaderType
  <1>1. rd'.limits = rd.limits /\ rd'.io = rd.io
    BY <1>0, EventKeepsLimits DEF NextEvent
  <1>2. SUFFICES ASSUME ReadingIntact' PROVE IntactRead'
    BY DEF IntactRead
  <1>3. ReadingIntact
    BY <1>0, <1>1, <1>2, IntactStays
  <1>4. rd.offset = 0 /\ rd.count = Len(got) /\ rd.logical <= rd.offset /\ rd.directory = NoDirectory
        /\ rd.inventory = Known(0) /\ got = <<>> /\ Learnt(0)
    BY <1>0, <1>3 DEF GenuineInv, CommitInv, ReaderKeeps, IntactRead
  <1>5. CommitInv /\ Intact /\ Regular
    BY <1>0, <1>3 DEF ReadingIntact
  <1>6. /\ Len(delivered) \in Nat /\ delivered[1] = HeaderUnit /\ Len(Content) < Len(delivered) /\ At(0) = 1
        /\ Len(Content) \in Nat
    BY <1>5, IntactFile
  <1>7. Readable(1) /\ NextUnit = HeaderUnit
    <2>1. rd.offset + 1 = 1 /\ rd.offset + 1 <= Len(delivered)
      BY <1>4, <1>6
    <2>2. HeaderUnit.t # "torn"
      BY DEF HeaderUnit
    <2>3. \A i \in 1..1 : rd.offset + i = 1
      BY <1>4
    <2>4. \A i \in 1..1 : delivered[rd.offset + i].t # "torn"
      BY <1>6, <2>2, <2>3
    <2>. QED  BY <1>0, <1>3, <1>5, <1>6, <2>1, <2>4, IntactReadable DEF NextUnit
  <1>8. rd' = [rd EXCEPT !.st = "RecordHeader", !.offset = 1, !.hashed = <<HeaderUnit>>] /\ got' = got
    BY <1>7 DEF ReadHeader
  <1>9. /\ rd'.st = "RecordHeader" /\ rd'.offset = 1 /\ rd'.inventory = rd.inventory
        /\ rd'.directory = rd.directory /\ rd'.count = rd.count /\ rd'.logical = rd.logical
        /\ rd'.manifests = rd.manifests
    BY <1>0, <1>8 DEF Readers
  <1>10. At(0)' = At(0) /\ Known(0)' = Known(0) /\ Content' = Content
    BY <1>0, <1>1, IntactStays
  <1>11. Len(got) = 0 /\ Len(got) \in 0..Len(Content) /\ rd.logical \in Nat
    BY <1>0, <1>4, <1>6 DEF Readers
  <1>12. Between(0)'
    <2>1. Learnt(0)'
      BY <1>4, <1>9, <1>10 DEF Learnt
    <2>. QED  BY <1>4, <1>6, <1>9, <1>10, <1>11, <2>1 DEF Between
  <1>13. rd'.logical <= rd'.offset
    BY <1>4, <1>9, <1>11
  <1>. QED  BY <1>4, <1>8, <1>9, <1>11, <1>12, <1>13 DEF IntactRead

\* The entries a reader has noted after k records.
LEMMA KnownEntries ==
    ASSUME CommitInv, Intact, NEW k \in 0..Len(Content)
    PROVE  /\ Known(k) \in Seq(Entries) /\ Len(Known(k)) = k
           /\ \A i \in 1..k : Known(k)[i] = EntryOf(Whole(Content), i)
           /\ k < Len(Content) => Known(k + 1) = Append(Known(k), EntryOf(Whole(Content), k + 1))
           /\ Known(Len(Content)) = EntriesOf(Content)
  <1>. DEFINE n == Len(Content)
              all == Whole(Content)
              es == EntriesOf(Content)
  <1>1. Content \in Seq(Records(Plain))
    BY IntactContent
  <1>2. n \in Nat /\ \A i \in 1..n : all[i] = Content[i]
    BY <1>1, WholeIsUnits
  <1>3. es \in Seq(Entries) /\ Len(es) = n
    BY <1>1, UnitSets, EntriesType
  <1>4. \A i \in 1..n : es[i] = EntryOf(all, i)
    <2>1. TAKE i \in 1..n
    <2>2. es[i] = EntryOf(Content, i)
      BY DEF EntriesOf
    <2>3. all[i] = Content[i] /\ \A j \in 1..(i - 1) : all[j] = Content[j]
      BY <1>2
    <2>4. Laid(all, i - 1) = Laid(Content, i - 1)
      BY <2>3, LaidOfFirst
    <2>5. EntryOf(all, i) = EntryOf(Content, i)
      BY <2>3, <2>4 DEF EntryOf
    <2>. QED  BY <2>2, <2>5
  <1>. HIDE DEF es, all
  <1>5. ASSUME NEW m \in 0..n
        PROVE  Known(m) \in Seq(Entries) /\ Len(Known(m)) = m /\ \A i \in 1..m : Known(m)[i] = es[i]
    BY <1>3, FirstOf DEF Known, es
  <1>6. \A i \in 1..k : Known(k)[i] = EntryOf(all, i)
    <2>1. \A i \in 1..k : i \in 1..n
      BY <1>2
    <2>. QED  BY <1>4, <1>5, <2>1
  <1>7. ASSUME k < n PROVE Known(k + 1) = Append(Known(k), EntryOf(all, k + 1))
    <2>. DEFINE e == EntryOf(all, k + 1)
                a == Known(k)
                b == Known(k + 1)
                c == Append(a, e)
    <2>1. k + 1 \in 0..n /\ k + 1 \in 1..n /\ k \in Nat
      BY <1>2, <1>7
    <2>2. a \in Seq(Entries) /\ Len(a) = k /\ \A i \in 1..k : a[i] = es[i]
      BY <1>5
    <2>3. b \in Seq(Entries) /\ Len(b) = k + 1 /\ \A i \in 1..(k + 1) : b[i] = es[i]
      BY <1>5, <2>1
    <2>4. e = es[k + 1] /\ e \in Entries
      BY <1>3, <1>4, <2>1, ElementOfSeq
    <2>. HIDE DEF a, b, e
    <2>5. c \in Seq(Entries) /\ Len(c) = k + 1 /\ c[k + 1] = e /\ \A i \in 1..k : c[i] = a[i]
      BY <2>2, <2>4, AppendProperties
    <2>. HIDE DEF c
    <2>6. \A i \in 1..(k + 1) : b[i] = c[i]
      <3>1. TAKE i \in 1..(k + 1)
      <3>2. i \in 1..k \/ i = k + 1
        BY <2>1
      <3>. QED  BY <2>2, <2>3, <2>4, <2>5, <3>2
    <2>7. Len(b) = Len(c) /\ \A i \in 1..Len(b) : b[i] = c[i]
      BY <2>3, <2>5, <2>6
    <2>8. b = c
      BY <2>3, <2>5, <2>7, SeqEqual
    <2>. QED  BY <2>8 DEF b, c, a, e
  <1>8. Known(n) = es
    <2>1. n \in 0..n
      BY <1>2
    <2>2. Known(n) \in Seq(Entries) /\ Len(Known(n)) = n /\ \A i \in 1..n : Known(n)[i] = es[i]
      BY <1>5, <2>1
    <2>. QED  BY <1>3, <2>2, SeqEqual
  <1>. QED  BY <1>5, <1>6, <1>7, <1>8 DEF all, es

\* No two records of a regular file have the same identifier.
LEMMA IntactDistinct ==
    ASSUME CommitInv, Intact, Regular, NEW i \in 1..Len(Content), NEW j \in 1..(Len(Content) + 1),
           Whole(Content)[i].id = Whole(Content)[j].id
    PROVE  i = j
  <1>. DEFINE n == Len(Content)
              all == Whole(Content)
  <1>1. /\ n \in Nat
        /\ \A x, y \in 1..n : Content[x].id = Content[y].id /\ Content[x].id # 0 => x = y
    BY IntactFile, IntactContent
  <1>2. i \in 1..(n + 1) /\ i <= n
    BY <1>1
  <1>3. all[i] = Content[i] /\ WellFormed(all[i]) /\ (all[i].kind = "Directory" <=> all[i].id = 0)
    BY <1>2, IntactRecords
  <1>. HIDE DEF all
  <1>4. all[i].id # 0
    BY <1>3 DEF WellFormed
  <1>5. all[j].id # 0
    BY <1>4 DEF all
  <1>6. all[j].id = 0 <=> j = n + 1
    BY IntactRecords DEF all
  <1>7. j \in 1..n /\ j <= n
    BY <1>1, <1>5, <1>6
  <1>8. all[j] = Content[j]
    BY <1>7, IntactRecords DEF all
  <1>. QED  BY <1>1, <1>3, <1>4, <1>7, <1>8 DEF all

LEMMA RecordHeaderOfIntact ==
    ASSUME GenuineInv, HasFile, ReadRecordHeader
    PROVE  IntactRead'
  <1>0. /\ UNCHANGED <<writerVars, delivered>> /\ rd.st = "RecordHeader" /\ rd \in Readers /\ CommitInv
        /\ got \in Seq(Records(Units))
    BY DEF ReadRecordHeader, GenuineInv, CommitInv, ReaderType
  <1>1. rd'.limits = rd.limits /\ rd'.io = rd.io
    BY <1>0, EventKeepsLimits DEF NextEvent
  <1>2. SUFFICES ASSUME ReadingIntact' PROVE IntactRead'
    BY DEF IntactRead
  <1>3. ReadingIntact
    BY <1>0, <1>1, <1>2, IntactStays
  <1>k. PICK k, n : k = Len(got) /\ n = Len(Content)
    OBVIOUS
  <1>. USE <1>k
  <1>. DEFINE all == Whole(Content)
              r == all[k + 1]
              lp == Len(r.payload)
              unit == RecordUnit(r.kind, r.id, lp)
              entry == EntryOf(all, k + 1)
  <1>4. Between(k) /\ rd.count = k /\ rd.logical <= rd.offset
    BY <1>0, <1>3 DEF GenuineInv, IntactRead
  <1>41. /\ k \in 0..n /\ rd.offset = At(k) /\ rd.inventory = Known(k) /\ Learnt(k)
         /\ rd.directory = NoDirectory /\ \A i \in 1..k : got[i] = all[i]
    BY <1>4 DEF Between
  <1>5. CommitInv /\ Intact /\ Regular
    BY <1>0, <1>3 DEF ReadingIntact
  <1>6. /\ n \in Nat /\ Len(delivered) \in Nat /\ n < Len(delivered) /\ At(k) \in Nat /\ lp \in Nat
        /\ At(k + 1) = At(k) + 1 + lp /\ At(k + 1) < Len(delivered) /\ delivered[At(k) + 1] = unit
    BY <1>5, <1>41, IntactFile
  <1>7. k + 1 \in 1..(n + 1) /\ k \in Nat
    BY <1>6, <1>41
  <1>8. /\ r.kind \in Kinds /\ r.id \in Nat
        /\ r.kind = "Directory" <=> r.id = 0
        /\ r.kind = "Directory" <=> k + 1 = n + 1
    <2>1. r \in Records(Units)
      BY <1>5, <1>7, IntactRecords
    <2>2. r.id \in Nat
      BY <2>1 DEF Records
    <2>. QED  BY <1>5, <1>7, <2>2, IntactRecords
  <1>. HIDE DEF r, lp
  <1>9. unit.t = "record" /\ unit.kind = r.kind /\ unit.id = r.id /\ unit.len = lp
    BY DEF RecordUnit
  <1>10. NextUnit = unit
    BY <1>5, <1>6, <1>41 DEF NextUnit
  <1>. HIDE DEF unit
  <1>11. Readable(1)
    <2>1. rd.offset + 1 <= Len(delivered)
      BY <1>6, <1>41
    <2>2. \A i \in 1..1 : i = 1
      OBVIOUS
    <2>3. \A i \in 1..1 : delivered[rd.offset + i].t # "torn"
      BY <1>6, <1>9, <1>41, <2>2
    <2>. QED  BY <1>0, <1>3, <2>1, <2>3, IntactReadable
  <1>12. /\ Len(delivered) <= rd.limits.payload /\ Len(delivered) <= rd.limits.metadata /\ Len(delivered) <= rd.limits.alloc
         /\ Len(delivered) <= rd.limits.records
         /\ rd.limits.payload \in Nat /\ rd.limits.metadata \in Nat /\ rd.limits.alloc \in Nat
         /\ rd.limits.records \in Nat
    BY <1>0, <1>3, IntactLimits DEF LimitNames
  <1>13. lp <= Len(delivered)
    BY <1>6
  <1>14. \A e \in Range(rd.inventory) : e.id # r.id
    <2>1. TAKE e \in Range(rd.inventory)
    <2>2. Known(k) \in Seq(Entries) /\ Len(Known(k)) = k /\ \A i \in 1..k : Known(k)[i] = EntryOf(all, i)
      BY <1>5, <1>41, KnownEntries
    <2>3. PICK i \in 1..k : e = Known(k)[i]
      BY <1>41, <2>2, RangeEquality
    <2>31. EntryOf(all, i).id = all[i].id
      BY DEF EntryOf, Entry
    <2>32. e = EntryOf(all, i)
      BY <2>2, <2>3
    <2>4. e.id = all[i].id
      BY <2>31, <2>32
    <2>5. i \in 1..n /\ i # k + 1
      BY <1>6, <1>41
    <2>. QED  BY <1>5, <1>7, <2>4, <2>5, IntactDistinct DEF r
  <1>15. RecordAccepted(NextUnit)
    <2>1. lp <= rd.limits.payload /\ lp <= rd.limits.metadata /\ lp <= rd.limits.alloc
      <3>. DEFINE ls == Len(delivered)
                  a == rd.limits.payload
                  b == rd.limits.metadata
                  c == rd.limits.alloc
      <3>1. /\ ls \in Nat /\ lp \in Nat /\ a \in Nat /\ b \in Nat /\ c \in Nat
            /\ lp <= ls /\ ls <= a /\ ls <= b /\ ls <= c
        BY <1>6, <1>12, <1>13
      <3>. HIDE DEF ls, a, b, c
      <3>2. lp <= a /\ lp <= b /\ lp <= c
        BY <3>1
      <3>. QED  BY <3>2 DEF a, b, c
    <2>2. IsRecord(unit, rd.limits)
      BY <1>8, <1>9, <1>7, <2>1 DEF IsRecord
    <2>. QED  BY <1>9, <1>10, <1>14, <2>1, <2>2 DEF RecordAccepted
  <1>16. rd.count < rd.limits.records
    BY <1>4, <1>6, <1>12, <1>41
  <1>. DEFINE active == [kind |-> r.kind, entry |-> entry, remaining |-> lp, metadata |-> <<>>]
              q == [kind |-> r.kind, id |-> r.id, payload |-> <<>>]
              next == IF lp = 0 THEN "RecordEnd" ELSE "Payload"
              inv == IF r.kind = "Directory" THEN rd.inventory ELSE Append(rd.inventory, entry)
              hashed == Append(rd.hashed, unit)
  <1>17. entry = Entry(unit.kind, unit.id, rd.offset, unit.len)
    <2>1. (k + 1) - 1 = k
      BY <1>7
    <2>. QED  BY <1>9, <1>41, <2>1 DEF EntryOf, At, r, lp
  <1>. HIDE DEF entry
  <1>18. /\ rd' = [rd EXCEPT !.st = next, !.count = rd.count + 1, !.offset = rd.offset + 1,
                             !.hashed = hashed, !.inventory = inv, !.active = active]
         /\ got' = Append(got, q)
    BY <1>9, <1>10, <1>11, <1>15, <1>16, <1>17, <1>41 DEF ReadRecordHeader, RecordCount
  <1>19. /\ rd'.st = next /\ rd'.count = rd.count + 1 /\ rd'.offset = rd.offset + 1
         /\ rd'.inventory = inv /\ rd'.active = active /\ rd'.manifests = rd.manifests
         /\ rd'.directory = rd.directory /\ rd'.logical = rd.logical
    <2>. HIDE DEF next, hashed, inv, active
    <2>. QED  BY <1>0, <1>18 DEF Readers
  <1>20. active.remaining = lp /\ active.entry = entry /\ active.metadata = <<>>
    OBVIOUS
  <1>. HIDE DEF active
  <1>21. q.kind = r.kind /\ q.id = r.id /\ q.payload = <<>>
    OBVIOUS
  <1>. DEFINE more == Append(got, q)
  <1>22. Len(more) = k + 1 /\ more[k + 1] = q /\ \A i \in 1..k : more[i] = got[i]
    <2>1. q \in Records(Units)
      BY <1>8 DEF Records
    <2>. HIDE DEF q
    <2>. QED  BY <1>0, <2>1, AppendProperties
  <1>. HIDE DEF q, more
  <1>23. next \in {"RecordEnd", "Payload"}
    OBVIOUS
  <1>. HIDE DEF next
  <1>24. inv = Known(IF k + 1 <= n THEN k + 1 ELSE n)
    <2>1. CASE k < n
      <3>1. k + 1 <= n /\ r.kind # "Directory"
        BY <1>6, <1>7, <1>8, <2>1
      <3>2. Known(k + 1) = Append(Known(k), entry)
        BY <1>5, <1>41, <2>1, KnownEntries DEF entry
      <3>. QED  BY <1>41, <3>1, <3>2
    <2>2. CASE k = n
      <3>1. ~(k + 1 <= n) /\ r.kind = "Directory"
        BY <1>6, <1>7, <1>8, <2>2
      <3>. QED  BY <1>41, <2>2, <3>1
    <2>. QED  BY <1>6, <1>41, <2>1, <2>2
  <1>. HIDE DEF inv
  <1>25. /\ \A m : At(m)' = At(m) /\ Known(m)' = Known(m)
         /\ Content' = Content
    BY <1>0, <1>1, IntactStays
  <1>26. got' = more
    BY <1>18 DEF more
  <1>. DEFINE k1 == k + 1
  <1>27. k1 \in Nat /\ k1 - 1 = k /\ k1 \in 1..(n + 1)
    BY <1>7
  <1>28. Learnt(k)'
    BY <1>19, <1>25, <1>41 DEF Learnt
  <1>29. /\ more[k1].kind = r.kind /\ more[k1].id = r.id /\ more[k1].payload = <<>>
         /\ Len(more[k1].payload) + lp = lp /\ At(k) + 1 = At(k) + 1 + Len(more[k1].payload)
         /\ \A j \in 1..Len(more[k1].payload) : more[k1].payload[j] = r.payload[j]
    <2>1. more[k1].kind = r.kind /\ more[k1].id = r.id /\ more[k1].payload = <<>>
      BY <1>21, <1>22
    <2>2. Len(<<>>) = 0 /\ 0 + lp = lp /\ At(k) + 1 + 0 = At(k) + 1
      BY <1>6
    <2>. QED  BY <2>1, <2>2
  <1>30. r = all[k1] /\ lp = Len(r.payload) /\ entry = EntryOf(all, k1)
         /\ inv = Known(IF k1 <= n THEN k1 ELSE n) /\ Len(more) = k1
         /\ \A i \in 1..k : more[i] = all[i]
    BY <1>22, <1>24, <1>41 DEF r, lp, entry
  <1>. HIDE DEF k1
  <1>31. Within(k1)'
    <2>1. \A i \in 1..(k1 - 1) : got'[i] = all[i]
      BY <1>26, <1>27, <1>30
    <2>2. /\ got'[k1].kind = all[k1].kind /\ got'[k1].id = all[k1].id
          /\ Len(got'[k1].payload) + rd'.active.remaining = Len(all[k1].payload)
          /\ \A j \in 1..Len(got'[k1].payload) : got'[k1].payload[j] = all[k1].payload[j]
      BY <1>19, <1>20, <1>26, <1>29, <1>30
    <2>3. rd'.offset = At(k1 - 1)' + 1 + Len(got'[k1].payload)
      BY <1>19, <1>25, <1>26, <1>27, <1>29, <1>41
    <2>4. rd'.active.entry = EntryOf(all, k1) /\ rd'.active.metadata = got'[k1].payload
      BY <1>19, <1>20, <1>26, <1>29, <1>30
    <2>5. rd'.inventory = Known(IF k1 <= n THEN k1 ELSE n)'
      BY <1>19, <1>25, <1>30
    <2>6. Learnt(k1 - 1)' /\ rd'.directory = NoDirectory
      BY <1>19, <1>27, <1>28, <1>41
    <2>. QED  BY <1>25, <1>27, <2>1, <2>2, <2>3, <2>4, <2>5, <2>6 DEF Within
  <1>32. rd'.logical <= rd'.offset /\ rd'.count = Len(got')
    <2>1. rd.logical \in Nat
      BY <1>0 DEF Readers
    <2>. QED  BY <1>4, <1>6, <1>19, <1>26, <1>30, <1>41, <2>1 DEF k1
  <1>33. Len(got') = k1
    BY <1>26, <1>30
  <1>. QED  BY <1>19, <1>23, <1>31, <1>32, <1>33 DEF IntactRead

\* What the next n units are.
LEMMA NextFromFile ==
    ASSUME CommitInv, HasFile, NEW n \in Nat, Readable(n)
    PROVE  \A i \in 1..n : NextUnits(n)[i] = delivered[rd.offset + i]
  <1>1. rd \in Readers /\ delivered \in Seq(Units)
    BY PlainIsSigned, SeqMonotonic DEF CommitInv, ReaderType, FileKept
  <1>. DEFINE o == rd.offset
              a == o + 1
              b == o + n
              x == SubSeq(delivered, a, b)
  <1>2. o \in Nat /\ b <= Len(delivered) /\ Len(delivered) \in Nat
    BY <1>1, LenProperties DEF Readable, Readers
  <1>. HIDE DEF o
  <1>3. a \in Int /\ b \in Int /\ b - a + 1 = n /\ \A i \in 1..n : a + i - 1 = o + i
    BY <1>2
  <1>4. \A i \in a..b : i \in 1..Len(delivered)
    BY <1>2
  <1>5. \A i \in a..b : delivered[i] \in Units
    BY <1>1, <1>4, ElementOfSeq
  <1>. HIDE DEF a, b
  <1>6. \A i \in 1..(b - a + 1) : x[i] = delivered[a + i - 1]
    BY <1>3, <1>5, SubSeqProperties
  <1>. HIDE DEF x
  <1>7. \A i \in 1..n : x[i] = delivered[o + i]
    BY <1>3, <1>6
  <1>. QED  BY <1>7 DEF NextUnits, Slice, x, a, b, o

LEMMA PayloadOfIntact ==
    ASSUME GenuineInv, HasFile, ReadPayload
    PROVE  IntactRead'
  <1>0. /\ UNCHANGED <<writerVars, delivered>> /\ rd.st = "Payload" /\ rd \in Readers /\ CommitInv
        /\ got \in Seq(Records(Units)) /\ rd.active \in Actives
    BY DEF ReadPayload, GenuineInv, CommitInv, ReaderType
  <1>1. rd'.limits = rd.limits /\ rd'.io = rd.io
    BY <1>0, EventKeepsLimits DEF NextEvent
  <1>2. SUFFICES ASSUME ReadingIntact' PROVE IntactRead'
    BY DEF IntactRead
  <1>3. ReadingIntact
    BY <1>0, <1>1, <1>2, IntactStays
  <1>4. CommitInv /\ Intact /\ Regular
    BY <1>0, <1>3 DEF ReadingIntact
  <1>5. Within(Len(got)) /\ rd.count = Len(got) /\ rd.logical <= rd.offset
    BY <1>0, <1>3 DEF GenuineInv, IntactRead
  <1>k. PICK k, n, all, p, g, rem, len :
          /\ k = Len(got) /\ n = Len(Content) /\ all = Whole(Content) /\ p = got[k].payload
          /\ g = Len(p) /\ rem = rd.active.remaining
          /\ len = Least({rem, ChunkLimit(rd.limits), rd.limits.logical - rd.logical})
    OBVIOUS
  <1>6. /\ k \in 1..(n + 1) /\ (\A i \in 1..(k - 1) : got[i] = all[i])
        /\ got[k].kind = all[k].kind /\ got[k].id = all[k].id
        /\ g + rem = Len(all[k].payload) /\ (\A j \in 1..g : p[j] = all[k].payload[j])
        /\ rd.offset = At(k - 1) + 1 + g /\ rd.active.entry = EntryOf(all, k)
        /\ (got[k].kind # "Opaque" => rd.active.metadata = p)
        /\ rd.inventory = Known(IF k <= n THEN k ELSE n) /\ Learnt(k - 1) /\ rd.directory = NoDirectory
    BY <1>5, <1>k DEF Within
  <1>7. n \in Nat /\ k \in Nat /\ k - 1 \in 0..n /\ (k - 1) + 1 = k /\ k # 0
    BY <1>4, <1>6, <1>k, IntactFile
  <1>. DEFINE r == all[k]
              lp == Len(r.payload)
              a0 == At(k - 1)
              a1 == At(k)
  <1>8. /\ Len(delivered) \in Nat /\ a0 \in Nat /\ lp \in Nat /\ a1 = a0 + 1 + lp /\ a1 < Len(delivered)
        /\ \A i \in 1..lp : delivered[a0 + 1 + i] = r.payload[i]
    BY <1>4, <1>7, <1>k, IntactFile
  <1>9. \A i \in 1..lp : r.payload[i].t # "torn"
    BY <1>4, <1>6, <1>k, IntactRecords
  <1>10. got[k] \in Records(Units)
    BY <1>0, <1>6, <1>7, <1>k, ElementOfSeq
  <1>11. p \in Seq(Units) /\ g \in Nat /\ rem \in Nat /\ rd.logical \in Nat /\ rd.offset \in Nat
    BY <1>0, <1>10, <1>k, LenProperties DEF Records, Actives, Readers
  <1>12. lp = g + rem /\ rd.offset = a0 + 1 + g
    BY <1>6
  <1>. HIDE DEF lp, a0, a1
  <1>13. ~ChunkRefused
    <2>1. ChunkLimit(rd.limits) # 0 /\ Len(delivered) <= rd.limits.logical /\ rd.limits.logical \in Nat
      BY <1>0, <1>3, IntactLimits DEF LimitNames
    <2>2. rd.logical # rd.limits.logical
      BY <1>5, <1>8, <1>11, <1>12, <2>1
    <2>. QED  BY <2>1, <2>2 DEF ChunkRefused
  <1>14. len \in Nat /\ len <= rem
    BY <1>0, <1>13, <1>k, ChunkFits
  <1>15. \A i \in 1..len : delivered[rd.offset + i] = r.payload[g + i] /\ g + i \in 1..lp
    <2>1. TAKE i \in 1..len
    <2>2. rd.offset + i = a0 + 1 + (g + i) /\ g + i \in 1..lp
      BY <1>8, <1>11, <1>12, <1>14
    <2>3. delivered[a0 + 1 + (g + i)] = r.payload[g + i]
      BY <1>8, <2>2
    <2>. QED  BY <2>2, <2>3
  <1>16. Readable(len)
    <2>1. rd.offset + len <= Len(delivered)
      BY <1>8, <1>11, <1>12, <1>14
    <2>2. \A i \in 1..len : delivered[rd.offset + i].t # "torn"
      BY <1>9, <1>15
    <2>. QED  BY <1>0, <1>3, <1>14, <2>1, <2>2, IntactReadable
  <1>x. PICK x : x = NextUnits(len)
    OBVIOUS
  <1>17. x \in Seq(Units) /\ Len(x) = len /\ \A i \in 1..len : x[i] = r.payload[g + i]
    <2>1. x \in Seq(Units) /\ Len(x) = len
      BY <1>0, <1>14, <1>16, <1>x, NextAreUnits
    <2>2. \A i \in 1..len : x[i] = delivered[rd.offset + i]
      BY <1>0, <1>4, <1>14, <1>16, <1>x, NextFromFile
    <2>. QED  BY <1>15, <2>1, <2>2
  <1>. DEFINE a == rd.active
              data == IF a.kind = "Opaque" THEN a.metadata ELSE a.metadata \o x
              b == [a EXCEPT !.remaining = @ - len, !.metadata = data]
              next == IF len = rem THEN "RecordEnd" ELSE "Payload"
              hashed == rd.hashed \o x
              o == rd.offset + len
              l == rd.logical + len
  <1>18. /\ rd' = [rd EXCEPT !.st = next, !.offset = o, !.hashed = hashed, !.logical = l, !.active = b]
         /\ got' = [got EXCEPT ![Len(got)].payload = @ \o x]
    <2>1. /\ rd' = [rd EXCEPT
                     !.st = next, !.offset = @ + len, !.hashed = @ \o x, !.logical = @ + len,
                     !.active.remaining = @ - len,
                     !.active.metadata = IF rd.active.kind = "Opaque" THEN @ ELSE @ \o x]
          /\ got' = [got EXCEPT ![Len(got)].payload = @ \o x]
      BY <1>13, <1>16, <1>k, <1>x, Zenon DEF ReadPayload
    <2>. HIDE DEF next
    <2>. QED  BY <1>0, <2>1 DEF Readers
  <1>19. b.remaining = rem - len /\ b.entry = a.entry /\ b.metadata = data
    <2>. HIDE DEF data
    <2>. QED  BY <1>0, <1>k DEF Actives
  <1>20. next \in {"RecordEnd", "Payload"}
    OBVIOUS
  <1>. HIDE DEF b, next, hashed, data, o, l
  <1>22. /\ rd'.st = next /\ rd'.offset = o /\ rd'.logical = l /\ rd'.active = b
         /\ rd'.inventory = rd.inventory /\ rd'.manifests = rd.manifests
         /\ rd'.directory = rd.directory /\ rd'.count = rd.count
    BY <1>0, <1>18 DEF Readers
  <1>. DEFINE more == Grown(got, x)
  <1>23. got' = more
    <2>1. Len(got) # 0
      BY <1>7, <1>k
    <2>2. [got EXCEPT ![Len(got)].payload = @ \o x] = Grown(got, x)
      BY <1>0, <1>17, <2>1, LongerLast
    <2>. QED  BY <1>18, <2>2
  <1>24. /\ Len(more) = k /\ more[k].kind = got[k].kind /\ more[k].id = got[k].id
         /\ more[k].payload = p \o x /\ \A i \in 1..(k - 1) : more[i] = got[i]
    <2>1. Len(got) # 0 /\ x \in Seq(Units) /\ k \in 1..k /\ 0 \in Nat
      BY <1>7, <1>17, <1>k
    <2>2. /\ Len(more) = Len(got)
          /\ \A i \in 1..Len(got) : more[i].kind = got[i].kind /\ more[i].id = got[i].id
          /\ \A i \in 1..(Len(got) - 1) : more[i] = got[i]
          /\ more[Len(got)].payload = got[Len(got)].payload \o x
      <3>1. /\ RecordUnits \subseteq Units /\ HeaderUnit \in Units
            /\ got \in Seq(Records(Units))
        BY <1>0, UnitSets
      <3>. QED  BY <2>1, <3>1, OpenedMore, ZenonT(60)
    <2>. HIDE DEF more
    <2>. QED  BY <1>k, <2>1, <2>2
  <1>. HIDE DEF more
  <1>. DEFINE y == p \o x
  <1>25. /\ Len(y) = g + len
         /\ \A j \in 1..(g + len) : y[j] = IF j <= g THEN p[j] ELSE x[j - g]
    <2>1. /\ Len(y) = Len(p) + Len(x)
          /\ \A j \in 1..(Len(p) + Len(x)) : y[j] = IF j <= Len(p) THEN p[j] ELSE x[j - Len(p)]
      BY <1>11, <1>17, ConcatProperties, Zenon
    <2>. HIDE DEF y
    <2>. QED  BY <1>17, <1>k, <2>1
  <1>. HIDE DEF y
  <1>26. \A j \in 1..Len(y) : y[j] = r.payload[j]
    <2>1. TAKE j \in 1..Len(y)
    <2>2. CASE j <= g
      <3>1. j \in 1..g /\ j \in 1..(g + len)
        BY <1>11, <1>14, <1>25, <2>2
      <3>. QED  BY <1>6, <1>25, <2>2, <3>1
    <2>3. CASE ~(j <= g)
      <3>1. j - g \in 1..len /\ g + (j - g) = j /\ j \in 1..(g + len)
        BY <1>11, <1>14, <1>25, <2>3
      <3>. QED  BY <1>17, <1>25, <2>3, <3>1
    <2>. QED  BY <2>2, <2>3
  <1>27. Len(y) + (rem - len) = lp /\ o = a0 + 1 + Len(y) /\ l <= o
    <2>1. o = rd.offset + len /\ l = rd.logical + len
      BY DEF o, l
    <2>. DEFINE ly == Len(y)
                ro == rd.offset
                rl == rd.logical
    <2>2. /\ ly = g + len /\ o = ro + len /\ l = rl + len /\ ro = a0 + 1 + g /\ lp = g + rem /\ rl <= ro
          /\ g \in Nat /\ len \in Nat /\ rem \in Nat /\ a0 \in Nat /\ rl \in Nat /\ ro \in Nat
      BY <1>5, <1>8, <1>11, <1>12, <1>14, <1>25, <2>1
    <2>. HIDE DEF ly, ro, rl
    <2>3. ly + (rem - len) = lp /\ o = a0 + 1 + ly /\ l <= o
      BY <2>2
    <2>. QED  BY <2>3 DEF ly
  <1>28. got[k].kind # "Opaque" => data = y
    <2>1. a.kind = got[k].kind
      BY <1>0, <1>k DEF CommitInv, ReaderKeeps
    <2>. QED  BY <1>6, <2>1 DEF data, y
  <1>29. /\ \A m : At(m)' = At(m) /\ Known(m)' = Known(m)
         /\ Content' = Content
    BY <1>0, <1>1, IntactStays
  <1>30. Learnt(k - 1)'
    BY <1>22, <1>29, <1>6 DEF Learnt
  <1>31. /\ got'[k].payload = y /\ got'[k].kind = all[k].kind /\ got'[k].id = all[k].id
         /\ got'[k].kind = got[k].kind /\ Len(got') = k /\ \A i \in 1..(k - 1) : got'[i] = all[i]
    BY <1>6, <1>23, <1>24 DEF y
  <1>32. Within(k)'
    <2>1. /\ rd'.active.remaining = rem - len /\ rd'.active.entry = EntryOf(all, k)
          /\ got'[k].kind # "Opaque" => rd'.active.metadata = got'[k].payload
      BY <1>6, <1>19, <1>22, <1>28, <1>31
    <2>2. Len(got'[k].payload) + rd'.active.remaining = Len(all[k].payload)
      BY <1>27, <1>31, <2>1 DEF lp
    <2>3. \A j \in 1..Len(got'[k].payload) : got'[k].payload[j] = all[k].payload[j]
      BY <1>26, <1>31
    <2>4. rd'.offset = At(k - 1)' + 1 + Len(got'[k].payload)
      BY <1>22, <1>27, <1>29, <1>31 DEF a0
    <2>5. rd'.inventory = Known(IF k <= n THEN k ELSE n)' /\ rd'.directory = NoDirectory
      BY <1>6, <1>22, <1>29
    <2>. QED  BY <1>6, <1>29, <1>30, <1>31, <1>k, <2>1, <2>2, <2>3, <2>4, <2>5 DEF Within
  <1>33. rd'.logical <= rd'.offset /\ rd'.count = Len(got')
    BY <1>5, <1>22, <1>27, <1>31, <1>k
  <1>. QED  BY <1>20, <1>22, <1>31, <1>32, <1>33 DEF IntactRead

\* The manifests among one record more.
LEMMA ManifestsSteps ==
    ASSUME NEW recs, NEW k \in Nat, k # 0
    PROVE  /\ recs[k].kind # "Manifest" => ManifestsOf(recs, k) = ManifestsOf(recs, k - 1)
           /\ recs[k].kind = "Manifest" =>
                 ManifestsOf(recs, k) =
                     ManifestsOf(recs, k - 1) \cup {[id |-> recs[k].id, m |-> recs[k].payload[1].m]}
  <1>1. \A i : i \in 1..k <=> i \in 1..(k - 1) \/ i = k
    OBVIOUS
  <1>2. ~(k \in 1..(k - 1))
    OBVIOUS
  <1>. DEFINE A == {j \in 1..k : recs[j].kind = "Manifest"}
              B == {j \in 1..(k - 1) : recs[j].kind = "Manifest"}
  <1>3. recs[k].kind # "Manifest" => A = B
    BY <1>1
  <1>4. recs[k].kind = "Manifest" => A = B \cup {k}
    BY <1>1
  <1>5. /\ ManifestsOf(recs, k) = {[id |-> recs[i].id, m |-> recs[i].payload[1].m] : i \in A}
        /\ ManifestsOf(recs, k - 1) = {[id |-> recs[i].id, m |-> recs[i].payload[1].m] : i \in B}
    BY DEF ManifestsOf
  <1>. HIDE DEF A, B
  <1>. QED  BY <1>3, <1>4, <1>5

LEMMA FinishRecordOfIntact ==
    ASSUME GenuineInv, HasFile, FinishRecord
    PROVE  IntactRead'
  <1>0. /\ UNCHANGED <<writerVars, delivered>> /\ rd.st = "RecordEnd" /\ rd \in Readers /\ CommitInv
        /\ got \in Seq(Records(Units)) /\ rd.active \in Actives
    BY DEF FinishRecord, GenuineInv, CommitInv, ReaderType
  <1>1. rd'.limits = rd.limits /\ rd'.io = rd.io
    BY <1>0, EventKeepsLimits DEF NextEvent
  <1>2. SUFFICES ASSUME ReadingIntact' PROVE IntactRead'
    BY DEF IntactRead
  <1>3. ReadingIntact
    BY <1>0, <1>1, <1>2, IntactStays
  <1>4. CommitInv /\ Intact /\ Regular
    BY <1>0, <1>3 DEF ReadingIntact
  <1>5. Within(Len(got)) /\ rd.count = Len(got) /\ rd.logical <= rd.offset
    BY <1>0, <1>3 DEF GenuineInv, IntactRead
  <1>k. PICK k, n, all, a, p :
          /\ k = Len(got) /\ n = Len(Content) /\ all = Whole(Content) /\ a = rd.active
          /\ p = got[k].payload
    OBVIOUS
  <1>51. a.remaining = 0 /\ a.kind = got[k].kind
    BY <1>0, <1>k DEF CommitInv, ReaderKeeps
  <1>6. /\ k \in 1..(n + 1) /\ (\A i \in 1..(k - 1) : got[i] = all[i])
        /\ got[k].kind = all[k].kind /\ got[k].id = all[k].id
        /\ Len(p) + a.remaining = Len(all[k].payload)
        /\ (\A j \in 1..Len(p) : p[j] = all[k].payload[j])
        /\ rd.offset = At(k - 1) + 1 + Len(p) /\ a.entry = EntryOf(all, k)
        /\ (got[k].kind # "Opaque" => a.metadata = p)
        /\ rd.inventory = Known(IF k <= n THEN k ELSE n) /\ Learnt(k - 1) /\ rd.directory = NoDirectory
    BY <1>5, <1>k DEF Within
  <1>7. n \in Nat /\ k \in Nat /\ k - 1 \in 0..n /\ (k - 1) + 1 = k /\ k # 0
    BY <1>4, <1>6, <1>k, IntactFile
  <1>8. At(k) = At(k - 1) + 1 + Len(all[k].payload)
    BY <1>4, <1>7, <1>k, IntactFile
  <1>9. got[k] \in Records(Units) /\ all[k] \in Records(Units)
    BY <1>0, <1>4, <1>6, <1>7, <1>k, ElementOfSeq, IntactRecords
  <1>10. /\ all[k].kind = "Directory" <=> k = n + 1
         /\ k <= n => all[k] = Content[k] /\ WellFormed(all[k])
         /\ k = n + 1 => all[k] = DirectoryOf(Content)
    BY <1>4, <1>6, <1>k, IntactRecords
  <1>11. p = all[k].payload
    <2>. DEFINE q == all[k].payload
    <2>1. p \in Seq(Units) /\ q \in Seq(Units)
      BY <1>9, <1>k DEF Records
    <2>2. Len(p) \in Nat
      BY <2>1, LenProperties
    <2>3. Len(p) = Len(q) /\ \A j \in 1..Len(p) : p[j] = q[j]
      BY <1>51, <1>6, <2>2
    <2>. HIDE DEF q
    <2>4. p = q
      BY <2>1, <2>3, SeqEqual
    <2>. QED  BY <2>4 DEF q
  <1>12. got[k] = all[k]
    <2>. DEFINE x == got[k]
                y == all[k]
    <2>1. x \in Records(Units) /\ y \in Records(Units) /\ x.kind = y.kind /\ x.id = y.id
          /\ x.payload = y.payload
      BY <1>6, <1>9, <1>11, <1>k
    <2>. HIDE DEF x, y
    <2>2. x = [kind |-> x.kind, id |-> x.id, payload |-> x.payload]
          /\ y = [kind |-> y.kind, id |-> y.id, payload |-> y.payload]
      BY <2>1 DEF Records
    <2>3. x = y
      BY <2>1, <2>2, Zenon
    <2>. QED  BY <2>3 DEF x, y
  <1>13. \A i \in 1..k : got[i] = all[i]
    <2>1. \A i \in 1..k : i \in 1..(k - 1) \/ i = k
      BY <1>7
    <2>. QED  BY <1>6, <1>12, <2>1
  <1>14. rd.offset = At(k)
    BY <1>6, <1>8, <1>11
  <1>15. /\ \A m : At(m)' = At(m) /\ Known(m)' = Known(m)
         /\ Content' = Content
    BY <1>0, <1>1, IntactStays
  <1>. DEFINE done == [rd EXCEPT !.active = NoActive]
  <1>16. ASSUME k <= n, rd'.st = "RecordHeader", rd'.offset = rd.offset, rd'.inventory = rd.inventory,
                rd'.directory = rd.directory, rd'.count = rd.count, rd'.logical = rd.logical,
                got' = got, Learnt(k)'
         PROVE  IntactRead'
    <2>1. Between(k)'
      <3>1. k \in 0..n
        BY <1>7, <1>16
      <3>. QED  BY <1>6, <1>13, <1>14, <1>15, <1>16, <1>k, <3>1 DEF Between
    <2>. QED  BY <1>5, <1>16, <1>k, <2>1 DEF IntactRead
  <1>17. CASE a.kind = "Opaque"
    <2>1. rd' = [done EXCEPT !.st = "RecordHeader"] /\ got' = got
      BY <1>17, <1>k, Zenon DEF FinishRecord
    <2>2. /\ rd'.st = "RecordHeader" /\ rd'.offset = rd.offset /\ rd'.inventory = rd.inventory
          /\ rd'.directory = rd.directory /\ rd'.count = rd.count /\ rd'.logical = rd.logical
          /\ rd'.manifests = rd.manifests
      BY <1>0, <2>1 DEF Readers
    <2>3. k <= n /\ Content[k].kind # "Manifest"
      BY <1>6, <1>7, <1>10, <1>17, <1>51
    <2>4. Learnt(k)'
      <3>1. ManifestsOf(Content, k) = ManifestsOf(Content, k - 1)
        BY <1>7, <2>3, ManifestsSteps
      <3>. QED  BY <1>6, <1>15, <2>2, <3>1 DEF Learnt
    <2>. QED  BY <1>16, <2>1, <2>2, <2>3, <2>4
  <1>18. CASE a.kind = "Manifest"
    <2>1. k <= n /\ all[k] = Content[k] /\ got[k].kind # "Opaque" /\ all[k].kind = "Manifest"
      BY <1>6, <1>7, <1>10, <1>18, <1>51
    <2>2. IsManifest(all[k].payload)
      BY <1>10, <2>1 DEF WellFormed
    <2>3. a.metadata = all[k].payload
      BY <1>6, <1>11, <2>1
    <2>4. IsManifest(a.metadata) /\ a.metadata[1].m = all[k].payload[1].m
      BY <2>2, <2>3
    <2>. DEFINE x == [id |-> a.entry.id, m |-> a.metadata[1].m]
    <2>5. rd' = [done EXCEPT !.st = "RecordHeader", !.manifests = @ \cup {x}] /\ got' = got
      BY <1>18, <1>k, <2>4, Zenon DEF FinishRecord
    <2>6. x = [id |-> Content[k].id, m |-> Content[k].payload[1].m]
      <3>1. a.entry.id = all[k].id
        BY <1>6 DEF EntryOf, Entry
      <3>. QED  BY <2>1, <2>4, <3>1
    <2>. HIDE DEF x
    <2>7. /\ rd'.st = "RecordHeader" /\ rd'.offset = rd.offset /\ rd'.inventory = rd.inventory
          /\ rd'.directory = rd.directory /\ rd'.count = rd.count /\ rd'.logical = rd.logical
          /\ rd'.manifests = rd.manifests \cup {x}
      BY <1>0, <2>5 DEF Readers
    <2>8. Learnt(k)'
      <3>1. Content[k].kind = "Manifest"
        BY <2>1
      <3>2. ManifestsOf(Content, k) = ManifestsOf(Content, k - 1) \cup {x}
        BY <1>7, <2>6, <3>1, ManifestsSteps
      <3>. QED  BY <1>6, <1>15, <2>7, <3>2 DEF Learnt
    <2>. QED  BY <1>16, <2>1, <2>5, <2>7, <2>8
  <1>19. CASE a.kind = "Directory"
    <2>1. k = n + 1 /\ all[k] = DirectoryOf(Content) /\ got[k].kind # "Opaque" /\ ~(k <= n)
      BY <1>6, <1>7, <1>10, <1>19, <1>51
    <2>2. Content \in Seq(Records(Plain))
      BY <1>4, IntactContent
    <2>3. EntriesOf(Content) \in Seq(Entries)
      BY <2>2, UnitSets, EntriesType
    <2>4. a.metadata = EncodeDirectory(EntriesOf(Content))
      BY <1>6, <1>11, <2>1 DEF DirectoryOf
    <2>5. rd.inventory = Known(n) /\ Known(n) = EntriesOf(Content)
      <3>1. n \in 0..n
        BY <1>7
      <3>. QED  BY <1>4, <1>6, <1>k, <2>1, <3>1, KnownEntries
    <2>6. IsDirectory(a.metadata) /\ a.metadata[1].entries = rd.inventory
      BY <2>3, <2>4, <2>5, Recognised
    <2>. DEFINE dir == [offset |-> a.entry.offset, len |-> 1 + a.entry.len]
    <2>7. rd' = [done EXCEPT !.st = "Footer", !.directory = dir] /\ got' = got
      BY <1>19, <1>k, <2>6, Zenon DEF FinishRecord
    <2>8. dir = DirectoryPlace(Content)
      <3>1. k - 1 = n
        BY <1>7, <2>1
      <3>2. a.entry.offset = 1 + Len(Laid(all, n)) /\ a.entry.len = Len(DirectoryOf(Content).payload)
        BY <1>6, <2>1, <3>1 DEF EntryOf, Entry
      <3>3. \A i \in 1..n : all[i] = Content[i]
        BY <1>k, <2>2, WholeIsUnits
      <3>4. Laid(all, n) = Laid(Content, n)
        BY <3>3, LaidOfFirst
      <3>5. Len(Body(Content)) = 1 + Len(Laid(Content, n))
        <4>1. DirectoryOf(Content) \in Records(Plain)
          BY <2>2, UnitSets, DirectoryType
        <4>. QED  BY <1>k, <2>2, <4>1, UnitSets, BodyAppend
      <3>. QED  BY <3>2, <3>4, <3>5 DEF DirectoryPlace
    <2>. HIDE DEF dir
    <2>9. /\ rd'.st = "Footer" /\ rd'.offset = rd.offset /\ rd'.inventory = rd.inventory
          /\ rd'.directory = dir /\ rd'.count = rd.count /\ rd'.logical = rd.logical
          /\ rd'.manifests = rd.manifests
      BY <1>0, <2>7 DEF Readers
    <2>10. Learnt(n)'
      <3>1. k - 1 = n
        BY <1>7, <2>1
      <3>. QED  BY <1>6, <1>15, <2>9, <3>1 DEF Learnt
    <2>11. Behind'
      BY <1>13, <1>14, <1>15, <1>k, <2>1, <2>5, <2>7, <2>8, <2>9, <2>10 DEF Behind
    <2>. QED  BY <1>5, <2>7, <2>9, <2>11 DEF IntactRead
  <1>. QED
    <2>1. a.kind \in Kinds
      BY <1>0, <1>k DEF Actives
    <2>. QED  BY <1>17, <1>18, <1>19, <2>1 DEF Kinds

\* The identifiers a reader knows after the last record, and the manifests.
LEMMA KnownIds ==
    ASSUME CommitInv, Intact
    PROVE  {e.id : e \in Range(Known(Len(Content)))} = {Content[j].id : j \in 1..Len(Content)}
  <1>. DEFINE n == Len(Content)
              all == Whole(Content)
              es == Known(n)
  <1>1. n \in Nat /\ n \in 0..n
    BY IntactFile
  <1>2. es \in Seq(Entries) /\ Len(es) = n /\ \A h \in 1..n : es[h] = EntryOf(all, h)
    BY <1>1, KnownEntries
  <1>3. \A h \in 1..n : all[h] = Content[h]
    BY IntactContent, WholeIsUnits
  <1>4. \A h \in 1..n : EntryOf(all, h).id = all[h].id
    BY DEF EntryOf, Entry
  <1>. HIDE DEF all, es
  <1>5. \A h \in 1..n : es[h].id = Content[h].id
    BY <1>2, <1>3, <1>4
  <1>6. Range(es) = {es[h] : h \in 1..n}
    BY <1>2, RangeEquality
  <1>7. {e.id : e \in Range(es)} = {Content[j].id : j \in 1..n}
    BY <1>5, <1>6
  <1>. QED  BY <1>7 DEF es

LEMMA ManifestAmong ==
    ASSUME NEW recs, NEW n
    PROVE  /\ \A i \in 1..n : recs[i].kind = "Manifest" =>
                 \E x \in ManifestsOf(recs, n) : x.id = recs[i].id /\ x.m = recs[i].payload[1].m
           /\ \A x \in ManifestsOf(recs, n) :
                 \E i \in 1..n : /\ recs[i].kind = "Manifest"
                                 /\ x.id = recs[i].id /\ x.m = recs[i].payload[1].m
  <1>. DEFINE X(i) == [id |-> recs[i].id, m |-> recs[i].payload[1].m]
  <1>1. \A i : X(i).id = recs[i].id /\ X(i).m = recs[i].payload[1].m
    OBVIOUS
  <1>2. \A x : x \in ManifestsOf(recs, n) <=> \E i \in 1..n : recs[i].kind = "Manifest" /\ x = X(i)
    BY DEF ManifestsOf
  <1>. HIDE DEF X
  <1>. QED  BY <1>1, <1>2

LEMMA FooterOfIntact ==
    ASSUME GenuineInv, HasFile, ReadFooter
    PROVE  IntactRead'
  <1>0. /\ UNCHANGED <<writerVars, delivered>> /\ rd.st = "Footer" /\ rd \in Readers /\ CommitInv
        /\ got \in Seq(Records(Units)) /\ rd.hashed = Body(got)
    BY DEF ReadFooter, GenuineInv, CommitInv, ReaderType, ReaderKeeps
  <1>1. rd'.limits = rd.limits /\ rd'.io = rd.io /\ rd'.st \in {"Failed", "Done"}
        /\ rd'.manifests = rd.manifests
    BY <1>0 DEF ReadFooter, Fail, Readers
  <1>2. SUFFICES ASSUME ReadingIntact' PROVE IntactRead'
    BY DEF IntactRead
  <1>3. ReadingIntact
    BY <1>0, <1>1, <1>2, IntactStays
  <1>4. CommitInv /\ Intact /\ Regular
    BY <1>0, <1>3 DEF ReadingIntact
  <1>5. Behind /\ rd.count = Len(got)
    BY <1>0, <1>3 DEF GenuineInv, IntactRead
  <1>. DEFINE n == Len(Content)
              all == Whole(Content)
              f == Foot
  <1>6. /\ n \in Nat /\ all \in Seq(Records(Units)) /\ Len(all) = n + 1 /\ Len(delivered) \in Nat
        /\ At(n + 1) \in Nat /\ Len(delivered) = At(n + 1) + 1 /\ delivered[At(n + 1) + 1] = f
    <2>1. n \in Nat
      BY <1>4, IntactFile
    <2>2. n \in 0..n
      BY <2>1
    <2>. QED  BY <1>4, <2>2, IntactFile
  <1>7. /\ Len(got) = n + 1 /\ rd.offset = At(n + 1) /\ rd.inventory = Known(n) /\ Learnt(n)
        /\ rd.directory = DirectoryPlace(Content) /\ \A i \in 1..(n + 1) : got[i] = all[i]
    BY <1>5 DEF Behind
  <1>8. got = all
    <2>. HIDE DEF all
    <2>1. Len(got) = Len(all) /\ \A i \in 1..Len(got) : got[i] = all[i]
      BY <1>6, <1>7
    <2>. QED  BY <1>0, <1>6, <2>1, SeqEqual
  <1>9. f.t = "footer" /\ f.directory = DirectoryPlace(Content) /\ f.digest = Body(all)
    BY <1>4, IntactContent
  <1>. HIDE DEF f
  <1>10. NextUnit = f
    BY <1>4, <1>6, <1>7 DEF NextUnit
  <1>11. Readable(1)
    <2>1. rd.offset + 1 <= Len(delivered)
      BY <1>6, <1>7
    <2>2. \A i \in 1..1 : i = 1
      OBVIOUS
    <2>3. \A i \in 1..1 : delivered[rd.offset + i].t # "torn"
      BY <1>6, <1>7, <1>9, <2>2
    <2>. QED  BY <1>0, <1>3, <2>1, <2>3, IntactReadable
  <1>12. AtEnd(rd.offset + 1)
    BY <1>4, <1>6, <1>7 DEF AtEnd
  <1>13. {e.id : e \in Range(rd.inventory)} = {Content[j].id : j \in 1..n}
    BY <1>4, <1>7, KnownIds
  <1>14. (\E x \in rd.manifests :
             x.id = f.manifest /\ x.m.roots \subseteq {e.id : e \in Range(rd.inventory)})
         <=> \E i \in 1..n :
                /\ Content[i].kind = "Manifest" /\ Content[i].id = f.manifest
                /\ Content[i].payload[1].m.roots \subseteq {Content[j].id : j \in 1..n}
    <2>1. rd.manifests = ManifestsOf(Content, n)
      BY <1>7 DEF Learnt
    <2>. DEFINE ids == {Content[j].id : j \in 1..n}
                known == {e.id : e \in Range(rd.inventory)}
    <2>2. known = ids
      BY <1>13
    <2>3. /\ \A i \in 1..n : Content[i].kind = "Manifest" =>
                 \E x \in rd.manifests : x.id = Content[i].id /\ x.m = Content[i].payload[1].m
          /\ \A x \in rd.manifests :
                 \E i \in 1..n : /\ Content[i].kind = "Manifest"
                                 /\ x.id = Content[i].id /\ x.m = Content[i].payload[1].m
      BY <2>1, ManifestAmong
    <2>. HIDE DEF ids, known, n
    <2>4. (\E x \in rd.manifests : x.id = f.manifest /\ x.m.roots \subseteq known)
          <=> \E i \in 1..n : /\ Content[i].kind = "Manifest" /\ Content[i].id = f.manifest
                              /\ Content[i].payload[1].m.roots \subseteq ids
      <3>1. ASSUME NEW x \in rd.manifests, x.id = f.manifest /\ x.m.roots \subseteq known
            PROVE  \E i \in 1..n : /\ Content[i].kind = "Manifest" /\ Content[i].id = f.manifest
                                   /\ Content[i].payload[1].m.roots \subseteq ids
        <4>1. PICK i \in 1..n : /\ Content[i].kind = "Manifest"
                                /\ x.id = Content[i].id /\ x.m = Content[i].payload[1].m
          BY <2>3, Zenon
        <4>. QED  BY <2>2, <3>1, <4>1, Zenon
      <3>2. ASSUME NEW i \in 1..n, Content[i].kind = "Manifest", Content[i].id = f.manifest,
                   Content[i].payload[1].m.roots \subseteq ids
            PROVE  \E x \in rd.manifests : x.id = f.manifest /\ x.m.roots \subseteq known
        <4>1. PICK x \in rd.manifests : x.id = Content[i].id /\ x.m = Content[i].payload[1].m
          BY <2>3, <3>2, Zenon
        <4>. QED  BY <2>2, <3>2, <4>1, Zenon
      <3>. QED  BY <3>1, <3>2, Zenon
    <2>. QED  BY <2>4 DEF ids, known, n
  <1>15. FooterAccepted(f) <=> FooterGood
    <2>1. FooterGood <=> f.count = n + 1 /\ \E i \in 1..n :
                /\ Content[i].kind = "Manifest" /\ Content[i].id = f.manifest
                /\ Content[i].payload[1].m.roots \subseteq {Content[j].id : j \in 1..n}
      BY DEF FooterGood, f
    <2>2. f.digest = rd.hashed
      BY <1>0, <1>8, <1>9
    <2>3. rd.count = n + 1
      BY <1>5, <1>7
    <2>. QED  BY <1>7, <1>9, <1>14, <2>1, <2>2, <2>3 DEF FooterAccepted
  <1>16. Content' = Content /\ Foot' = Foot /\ FooterGood' = FooterGood /\ Learnt(n)'
    <2>1. Content' = Content /\ Foot' = Foot /\ FooterGood' = FooterGood
      BY <1>0, <1>1, IntactStays
    <2>. QED  BY <1>1, <1>7, <2>1 DEF Learnt
  <1>17. CASE FooterGood
    <2>1. rd' = [rd EXCEPT !.st = "Done", !.offset = @ + 1, !.manifest = NextUnit.manifest]
      BY <1>10, <1>11, <1>12, <1>15, <1>17 DEF ReadFooter
    <2>2. rd'.st = "Done" /\ rd'.manifest = f.manifest
      BY <1>0, <1>10, <2>1 DEF Readers
    <2>. QED  BY <1>16, <1>17, <2>2 DEF IntactRead, f
  <1>18. CASE ~FooterGood
    <2>1. rd'.st = "Failed"
      BY <1>0, <1>10, <1>15, <1>18 DEF ReadFooter, Fail, Readers
    <2>. QED  BY <1>16, <1>18, <2>1 DEF IntactRead
  <1>. QED  BY <1>17, <1>18

LEMMA InitGenuine == ASSUME Init PROVE GenuineInv
  <1>1. ~ReadingIntact
    BY DEF Init, ReadingIntact, Intact, HasFile
  <1>. QED  BY <1>1, InitCommit DEF GenuineInv, IntactRead

\* A reader that has just been given its file.
LEMMA NewReaderOfIntact ==
    ASSUME CommitInv, CommitInv', delivered = NoFile, NEW limits, rd' = NewReader(limits), got' = got
    PROVE  IntactRead'
  <1>1. /\ rd'.st = "Header" /\ rd'.offset = 0 /\ rd'.count = 0 /\ rd'.logical = 0
        /\ rd'.directory = NoDirectory /\ rd'.inventory = <<>> /\ rd'.manifests = {}
    BY DEF NewReader
  <1>2. got' = <<>> /\ Len(got') = 0
    BY DEF CommitInv, FileKept
  <1>3. ASSUME NEW recs PROVE SubSeq(EntriesOf(recs), 1, 0) = <<>>
    BY SubSeqEmpty
  <1>4. ASSUME NEW recs PROVE ManifestsOf(recs, 0) = {}
    <2>1. {j \in 1..0 : recs[j].kind = "Manifest"} = {}
      OBVIOUS
    <2>. QED  BY <2>1 DEF ManifestsOf
  <1>5. Known(0)' = <<>>
    BY <1>3 DEF Known
  <1>6. Learnt(0)'
    BY <1>1, <1>4 DEF Learnt
  <1>. QED  BY <1>1, <1>2, <1>5, <1>6 DEF IntactRead

LEMMA NextKeepsGenuine == ASSUME GenuineInv, [Next]_vars PROVE GenuineInv'
  <1>0. CommitInv /\ CommitInv'
    BY NextKeepsCommit DEF GenuineInv
  <1>1. SUFFICES ASSUME ReadingIntact' PROVE IntactRead'
    BY <1>0 DEF GenuineInv, IntactRead
  <1>2. CASE Write
    <2>1. delivered' = NoFile
      BY <1>2, WriteIsEarly
    <2>. QED  BY <1>1, <2>1 DEF ReadingIntact, Intact, HasFile
  <1>3. CASE DeliverForeign
    BY <1>0, <1>3, NewReaderOfIntact DEF DeliverForeign
  <1>4. CASE Deliver
    BY <1>0, <1>4, NewReaderOfIntact DEF Deliver
  <1>5. CASE NextEvent
    <2>1. delivered' = delivered
      BY <1>5 DEF NextEvent, ReadHeader, ReadRecordHeader, ReadPayload, FinishRecord, ReadFooter
    <2>2. HasFile
      BY <1>1, <2>1 DEF ReadingIntact, Intact, HasFile
    <2>. QED  BY <1>5, <2>2, HeaderOfIntact, RecordHeaderOfIntact, PayloadOfIntact, FinishRecordOfIntact,
                 FooterOfIntact DEF NextEvent
  <1>6. CASE ReadFails
    <2>1. delivered' = delivered /\ rd' = [rd EXCEPT !.st = "Failed", !.io = TRUE]
      BY <1>6 DEF ReadFails
    <2>2. HasFile
      BY <1>1, <2>1 DEF ReadingIntact, Intact, HasFile
    <2>3. rd \in Readers
      BY <1>0, <2>2 DEF CommitInv, ReaderType
    <2>4. rd'.io = TRUE
      BY <2>1, <2>3 DEF Readers
    <2>. QED  BY <1>1, <2>4 DEF ReadingIntact
  <1>7. CASE UNCHANGED vars
    <2>1. IntactRead
      BY DEF GenuineInv
    <2>2. UNCHANGED <<writerVars, delivered>> /\ rd' = rd /\ got' = got
      BY <1>7 DEF vars, writerVars
    <2>3. /\ \A m : At(m)' = At(m) /\ Known(m)' = Known(m)
          /\ Content' = Content /\ Foot' = Foot /\ Intact' = Intact /\ FooterGood' = FooterGood
          /\ Regular' = Regular
      BY <2>2, IntactStays
    <2>4. \A m : Learnt(m)' = Learnt(m)
      BY <2>2, <2>3 DEF Learnt
    <2>5. ReadingIntact' = ReadingIntact /\ Behind' = Behind
          /\ \A k : Between(k)' = Between(k) /\ Within(k)' = Within(k)
      BY <2>2, <2>3, <2>4 DEF ReadingIntact, Behind, Between, Within
    <2>. QED  BY <2>1, <2>2, <2>3, <2>4, <2>5 DEF IntactRead
  <1>. QED  BY <1>2, <1>3, <1>4, <1>5, <1>6, <1>7 DEF Next

\* A finished file that arrives unharmed is intact, and its footer is the writer's.
LEMMA UnharmedIsIntact ==
    ASSUME CommitInv, HasFile, w.st = "finished", delivered = sink
    PROVE  Intact /\ Foot.count = Len(accepted) + 1 /\ Foot.manifest = w.manifest
  <1>. DEFINE b == Body(Whole(accepted))
              f == FooterOf(accepted, w.manifest)
  <1>1. sink = Append(b, f) /\ accepted \in Seq(Records(Plain))
    BY DEF CommitInv, WriterInv, WriterType, WriterKeeps
  <1>2. b \in Seq(Plain) /\ Len(b) \in Nat
    <2>1. Whole(accepted) \in Seq(Records(Plain)) /\ DirectoryOf(accepted) \in Records(Plain)
      BY <1>1, UnitSets, DirectoryType, WholeIsUnits
    <2>. QED  BY <2>1, UnitSets, BodyAppend, LenProperties
  <1>3. f.t = "footer" /\ f.count = Len(accepted) + 1 /\ f.manifest = w.manifest
    BY DEF FooterOf, FooterUnit
  <1>. HIDE DEF b, f
  <1>. DEFINE S == Plain \cup {f}
  <1>4. b \in Seq(S) /\ f \in S
    BY <1>2, SeqMonotonic
  <1>. HIDE DEF S
  <1>5. /\ sink \in Seq(S) /\ Len(sink) = Len(b) + 1 /\ sink[Len(b) + 1] = f
        /\ \A i \in 1..Len(b) : sink[i] = b[i]
    BY <1>1, <1>4, AppendProperties
  <1>6. Foot = f /\ delivered # <<>> /\ Len(delivered) - 1 = Len(b)
    BY <1>2, <1>5 DEF Foot
  <1>7. SubSeq(sink, 1, Len(b)) = b
    <2>. DEFINE s == SubSeq(sink, 1, Len(b))
    <2>1. Len(b) \in 0..Len(sink)
      BY <1>2, <1>5
    <2>2. s \in Seq(S) /\ Len(s) = Len(b) /\ \A i \in 1..Len(b) : s[i] = sink[i]
      BY <1>5, <2>1, FirstOf
    <2>. HIDE DEF s
    <2>3. s = b
      BY <1>4, <1>5, <2>2, SeqEqual
    <2>. QED  BY <2>3 DEF s
  <1>8. Content = accepted
    BY DEF Content
  <1>. QED  BY <1>3, <1>6, <1>7, <1>8 DEF Intact, b

\* A Commit event of the one-pass reader means that the writer finished, that the
\* events before it showed exactly the records the writer accepted, and that the
\* manifest it names is one of them, whatever was done to the file on the way; and a
\* finished file that arrives as it was written is read to its Commit in whatever
\* chunks, unless its manifest names a root that was never written.
THEOREM CommitsAreGenuine == Spec => []CommitIsGenuine
  <1>1. GenuineInv => CommitIsGenuine
    <2>1. SUFFICES ASSUME GenuineInv PROVE CommitIsGenuine
      OBVIOUS
    <2>2. CommitInv /\ IntactRead
      BY <2>1 DEF GenuineInv
    <2>3. ASSUME Refused, w.st = "finished", delivered = sink PROVE ~RootsExist
      <3>1. HasFile
        BY <2>2, <2>3 DEF CommitInv, FileKept, Refused, HasFile
      <3>2. Intact /\ Foot.count = Len(accepted) + 1 /\ Foot.manifest = w.manifest
        BY <2>2, <2>3, <3>1, UnharmedIsIntact
      <3>3. ReadingIntact
        BY <2>2, <2>3, <3>2, IntactContent DEF ReadingIntact, Refused
      <3>4. ~FooterGood
        BY <2>2, <2>3, <3>3 DEF IntactRead, Refused
      <3>5. Content = accepted
        BY <2>3 DEF Content
      <3>6. /\ accepted \in Seq(Records(Plain))
            /\ \E i \in 1..Len(accepted) : accepted[i].kind = "Manifest" /\ accepted[i].id = w.manifest
        BY <2>2, <2>3 DEF CommitInv, WriterInv, WriterType, WriterKeeps
      <3>7. PICK i \in 1..Len(accepted) : accepted[i].kind = "Manifest" /\ accepted[i].id = w.manifest
        BY <3>6
      <3>8. ~(accepted[i].payload[1].m.roots \subseteq {accepted[j].id : j \in 1..Len(accepted)})
        BY <3>2, <3>4, <3>5, <3>7 DEF FooterGood
      <3>9. Range(accepted) = {accepted[j] : j \in 1..Len(accepted)}
        BY <3>6, RangeEquality
      <3>10. accepted[i] \in Range(accepted)
             /\ {q.id : q \in Range(accepted)} = {accepted[j].id : j \in 1..Len(accepted)}
        BY <3>7, <3>9
      <3>. QED  BY <3>7, <3>8, <3>10 DEF RootsExist
    <2>. QED  BY <2>2, <2>3, CommitShowsAccepted DEF CommitIsGenuine
  <1>. QED  BY <1>1, InitGenuine, NextKeepsGenuine, PTL DEF Spec
-----------------------------------------------------------------------------
(* Scanning records that lie one after another. *)

\* What scan_records finds from each offset on.
Scanned(scan, file, end, limits) ==
    /\ ScanFrom(file, end, limits) = scan[1]
    /\ scan[end] = [ok |-> TRUE, entries |-> <<>>]
    /\ \A o \in 0..(end - 1) :
         LET unit == file[o + 1]
             next == o + 1 + unit.len
         IN  scan[o] = IF ~IsRecord(unit, limits) \/ next > end
                       THEN [ok |-> FALSE, entries |-> <<>>]
                       ELSE [ok |-> scan[next].ok,
                             entries |-> <<Entry(unit.kind, unit.id, o, unit.len)>>
                                         \o scan[next].entries]

LEMMA RecordLength == \A u \in Units : u.t = "record" => u.len \in Nat
  BY DEF Units, Plain, HeaderUnit, TornUnit, GarbageUnit, Bytes, RecordUnits, ManifestUnits, DirectoryUnits,
         Footers

LEMMA ScanSteps ==
    ASSUME NEW file, NEW end \in Nat, NEW limits,
           \A o \in 0..(end - 1) : IsRecord(file[o + 1], limits) => file[o + 1].len \in Nat
    PROVE  \E scan : Scanned(scan, file, end, limits)
  <1>. DEFINE Nx(o) == o + 1 + file[o + 1].len
              Stop(o) == ~IsRecord(file[o + 1], limits) \/ Nx(o) > end
              Before(o, x) == [ok |-> x.ok,
                               entries |-> <<Entry(file[o + 1].kind, file[o + 1].id, o, file[o + 1].len)>>
                                           \o x.entries]
              full == [ok |-> TRUE, entries |-> <<>>]
              none == [ok |-> FALSE, entries |-> <<>>]
              D(f, o) == IF o = end THEN full ELSE IF Stop(o) THEN none ELSE Before(o, f[Nx(o)])
              Steps(f, l) == f = [o \in l..end |-> D(f, o)]
              G == {d \in Nat : d <= end => \E f : Steps(f, end - d)}
              t == CHOOSE f : Steps(f, 0)
  <1>0. ScanFrom(file, end, limits) = t[1]
    BY Zenon DEF ScanFrom
  <1>1. \A o \in 0..end : o # end /\ ~Stop(o) => Nx(o) \in (o + 1)..end
    <2>1. SUFFICES ASSUME NEW o \in 0..end, o # end, ~Stop(o) PROVE Nx(o) \in (o + 1)..end
      OBVIOUS
    <2>. DEFINE len == file[o + 1].len
    <2>2. len \in Nat
      BY <2>1
    <2>. HIDE DEF len
    <2>3. ~(o + 1 + len > end)
      BY <2>1 DEF len
    <2>4. o + 1 + len \in (o + 1)..end
      BY <2>2, <2>3
    <2>. QED  BY <2>4 DEF len
  <1>. HIDE DEF Before, Stop, Nx, full, none
  <1>2. 0 \in G
    <2>. DEFINE f == [o \in end..end |-> full]
                g == [o \in end..end |-> D(f, o)]
    <2>1. \A o \in end..end : f[o] = g[o]
      OBVIOUS
    <2>2. f = g
      BY <2>1
    <2>3. end - 0 = end
      OBVIOUS
    <2>. HIDE DEF f
    <2>4. Steps(f, end - 0)
      BY <2>2, <2>3
    <2>. HIDE DEF Steps
    <2>. QED  BY <2>4
  <1>3. ASSUME NEW d \in Nat, d \in G PROVE d + 1 \in G
    <2>1. SUFFICES ASSUME d + 1 <= end PROVE \E f : Steps(f, end - (d + 1))
      <3>. HIDE DEF Steps
      <3>. QED  OBVIOUS
    <2>. DEFINE l == end - d
                k == end - (d + 1)
    <2>2. l \in 1..end /\ k \in 0..end /\ l = k + 1 /\ k # end
      BY <2>1
    <2>3. PICK f : Steps(f, l)
      <3>. HIDE DEF Steps
      <3>. QED  BY <1>3, <2>1
    <2>. HIDE DEF l, k
    <2>. DEFINE h == [o \in k..end |-> IF o = k THEN D(f, o) ELSE f[o]]
                g == [o \in k..end |-> D(h, o)]
    <2>4. \A o \in l..end : f[o] = D(f, o) /\ h[o] = f[o]
      BY <2>2, <2>3
    <2>5. \A o \in k..end : h[o] = g[o]
      <3>1. TAKE o \in k..end
      <3>2. o \in 0..end /\ k \in k..end
        BY <2>2
      <3>3. h[o] = D(f, o)
        <4>1. CASE o = k
          BY <3>2, <4>1
        <4>2. CASE o # k
          <5>1. o \in l..end
            BY <2>2, <3>2, <4>2
          <5>. QED  BY <2>4, <5>1
        <4>. QED  BY <4>1, <4>2
      <3>4. o # end /\ ~Stop(o) => Nx(o) \in l..end
        BY <1>1, <2>2, <3>2
      <3>5. o # end /\ ~Stop(o) => h[Nx(o)] = f[Nx(o)]
        BY <2>4, <3>4
      <3>6. D(h, o) = D(f, o)
        <4>. HIDE DEF h
        <4>. QED  BY <3>5
      <3>. QED  BY <3>1, <3>3, <3>6
    <2>6. h = g
      BY <2>5
    <2>. HIDE DEF h
    <2>7. Steps(h, k)
      BY <2>6
    <2>. HIDE DEF Steps
    <2>. QED  BY <2>7 DEF k
  <1>4. \E f : Steps(f, 0)
    <2>. HIDE DEF G
    <2>1. Nat \subseteq G
      BY <1>2, <1>3, NatSetInduction
    <2>2. end \in G /\ end - end = 0 /\ end <= end
      BY <2>1
    <2>. HIDE DEF Steps
    <2>. QED  BY <2>2 DEF G
  <1>5. Steps(t, 0)
    <2>. HIDE DEF Steps
    <2>. QED  BY <1>4, Zenon
  <1>. HIDE DEF t
  <1>6. \A o \in 0..end : t[o] = D(t, o)
    BY <1>5
  <1>7. t[end] = full /\ \A o \in 0..(end - 1) : o \in 0..end /\ o # end
    BY <1>6
  <1>8. \A o \in 0..(end - 1) : t[o] = IF Stop(o) THEN none ELSE Before(o, t[Nx(o)])
    BY <1>6, <1>7
  <1>. QED  BY <1>0, <1>7, <1>8, Zenon DEF Scanned, Before, Stop, Nx, full, none

\* Where the record behind the first m begins.
PlaceOf(recs, m) == 1 + Len(Laid(recs, m))

LEMMA Places ==
    ASSUME NEW S, RecordUnits \subseteq S, NEW recs \in Seq(Records(S))
    PROVE  /\ PlaceOf(recs, 0) = 1 /\ Len(recs) \in Nat
           /\ \A m \in 0..Len(recs) : PlaceOf(recs, m) \in Nat
           /\ \A m \in 0..(Len(recs) - 1) :
                 /\ Len(recs[m + 1].payload) \in Nat
                 /\ PlaceOf(recs, m + 1) = PlaceOf(recs, m) + 1 + Len(recs[m + 1].payload)
           /\ \A m, n \in 0..Len(recs) : m <= n => PlaceOf(recs, m) <= PlaceOf(recs, n)
  <1>0. Len(recs) \in Nat
    BY LenProperties
  <1>1. PlaceOf(recs, 0) = 1
    <2>1. 0 \in 0..Len(recs)
      BY <1>0
    <2>2. Laid(recs, 0) = <<>>
      BY <2>1, LaidSteps
    <2>. QED  BY <2>2 DEF PlaceOf
  <1>2. ASSUME NEW m \in 0..Len(recs) PROVE PlaceOf(recs, m) \in Nat
    <2>1. Laid(recs, m) \in Seq(S)
      BY LaidSteps
    <2>2. Len(Laid(recs, m)) \in Nat
      BY <2>1, LenProperties
    <2>. QED  BY <2>2 DEF PlaceOf
  <1>3. ASSUME NEW m \in 0..(Len(recs) - 1)
        PROVE  /\ Len(recs[m + 1].payload) \in Nat
               /\ PlaceOf(recs, m + 1) = PlaceOf(recs, m) + 1 + Len(recs[m + 1].payload)
    <2>. DEFINE p == Len(Laid(recs, m))
                q == Len(Laid(recs, m + 1))
                lp == Len(recs[m + 1].payload)
    <2>1. m + 1 \in (m + 1)..Len(recs)
      BY <1>0
    <2>2. p \in Nat /\ lp \in Nat /\ q = p + 1 + lp
      BY <2>1, LaidRecord, Zenon
    <2>. HIDE DEF p, q, lp
    <2>3. 1 + q = 1 + p + 1 + lp
      BY <2>2
    <2>. QED  BY <2>2, <2>3 DEF p, q, lp, PlaceOf
  <1>4. ASSUME NEW m \in 0..Len(recs), NEW n \in 0..Len(recs), m <= n
        PROVE  PlaceOf(recs, m) <= PlaceOf(recs, n)
    <2>1. n \in m..Len(recs)
      BY <1>0, <1>4
    <2>. DEFINE p == Len(Laid(recs, m))
                q == Len(Laid(recs, n))
    <2>2. p \in Nat /\ q \in Nat /\ p <= q
      BY <2>1, LaidPrefix, Zenon
    <2>. HIDE DEF p, q
    <2>3. 1 + p <= 1 + q
      BY <2>2
    <2>. QED  BY <2>3 DEF p, q, PlaceOf
  <1>. QED  BY <1>0, <1>1, <1>2, <1>3, <1>4

\* Of these records the first k lie in the file one after another, and the next is
\* not whole before end.
Lie(recs, k, file, end, limits) ==
    /\ recs \in Seq(Records(Units)) /\ k \in 0..Len(recs) /\ end \in Nat
    /\ \A o \in 0..(end - 1) : IsRecord(file[o + 1], limits) => file[o + 1].len \in Nat
    /\ \A m \in 0..(k - 1) :
          /\ IsRecord(file[PlaceOf(recs, m) + 1], limits)
          /\ file[PlaceOf(recs, m) + 1] =
                RecordUnit(recs[m + 1].kind, recs[m + 1].id, Len(recs[m + 1].payload))
    /\ PlaceOf(recs, k) <= end
    /\ PlaceOf(recs, k) < end =>
          \/ ~IsRecord(file[PlaceOf(recs, k) + 1], limits)
          \/ PlaceOf(recs, k) + 1 + file[PlaceOf(recs, k) + 1].len > end

\* The scan found the entries of these, and that they fill the file if they do.
Finds(recs, k, file, end, limits) ==
    /\ PlaceOf(recs, k) = end => ScanFrom(file, end, limits).ok = TRUE
    /\ ScanFrom(file, end, limits).entries = SubSeq(EntriesOf(recs), 1, k)

\* A scan finds the entries of the records that lie in the file.
LEMMA ScanRecords ==
    ASSUME NEW recs, NEW k, NEW file, NEW end, NEW limits, Lie(recs, k, file, end, limits)
    PROVE  Finds(recs, k, file, end, limits)
  <1>a. /\ recs \in Seq(Records(Units)) /\ k \in 0..Len(recs) /\ end \in Nat
        /\ \A o \in 0..(end - 1) : IsRecord(file[o + 1], limits) => file[o + 1].len \in Nat
    BY DEF Lie
  <1>b. /\ \A m \in 0..(k - 1) :
              /\ IsRecord(file[PlaceOf(recs, m) + 1], limits)
              /\ file[PlaceOf(recs, m) + 1] =
                    RecordUnit(recs[m + 1].kind, recs[m + 1].id, Len(recs[m + 1].payload))
        /\ PlaceOf(recs, k) <= end
        /\ PlaceOf(recs, k) < end =>
              \/ ~IsRecord(file[PlaceOf(recs, k) + 1], limits)
              \/ PlaceOf(recs, k) + 1 + file[PlaceOf(recs, k) + 1].len > end
    BY Zenon DEF Lie
  <1>. DEFINE P(m) == PlaceOf(recs, m)
              es == EntriesOf(recs)
  <1>0. PICK scan : Scanned(scan, file, end, limits)
    BY <1>a, ScanSteps
  <1>1. /\ ScanFrom(file, end, limits) = scan[1]
        /\ scan[end] = [ok |-> TRUE, entries |-> <<>>]
        /\ \A o \in 0..(end - 1) :
             LET unit == file[o + 1]
                 next == o + 1 + unit.len
             IN  scan[o] = IF ~IsRecord(unit, limits) \/ next > end
                           THEN [ok |-> FALSE, entries |-> <<>>]
                           ELSE [ok |-> scan[next].ok,
                                 entries |-> <<Entry(unit.kind, unit.id, o, unit.len)>>
                                             \o scan[next].entries]
    BY <1>0, Zenon DEF Scanned
  <1>2. /\ P(0) = 1 /\ Len(recs) \in Nat
        /\ \A m \in 0..Len(recs) : P(m) \in Nat
        /\ \A m \in 0..(Len(recs) - 1) :
              Len(recs[m + 1].payload) \in Nat /\ P(m + 1) = P(m) + 1 + Len(recs[m + 1].payload)
        /\ \A m, n \in 0..Len(recs) : m <= n => P(m) <= P(n)
    BY <1>a, UnitSets, Places, Zenon
  <1>3. es \in Seq(Entries) /\ Len(es) = Len(recs)
    BY <1>a, UnitSets, EntriesType
  <1>4. \A i \in 1..Len(recs) : es[i] = Entry(recs[i].kind, recs[i].id, P(i - 1), Len(recs[i].payload))
    BY DEF EntriesOf, EntryOf, PlaceOf
  <1>c. k \in 0..Len(recs) /\ end \in Nat
    BY <1>a
  <1>. USE <1>c
  <1>. HIDE DEF P, es
  <1>. DEFINE Found(m) == scan[P(m)].ok = scan[P(k)].ok /\ scan[P(m)].entries = SubSeq(es, m + 1, k)
              G == {d \in Nat : d <= k => Found(k - d)}
  <1>5. 0 \in G
    <2>1. k - 0 = k /\ k \in Nat
      BY <1>2
    <2>2. SubSeq(es, k + 1, k) = <<>>
      BY <2>1, SubSeqEmpty
    <2>3. CASE P(k) = end
      <3>1. scan[P(k)].entries = <<>>
        BY <1>1, <2>3
      <3>. QED  BY <2>1, <2>2, <3>1
    <2>4. CASE P(k) # end
      <3>1. P(k) \in 0..(end - 1) /\ P(k) < end
        BY <1>2, <1>b, <2>1, <2>4 DEF P
      <3>2. scan[P(k)] = [ok |-> FALSE, entries |-> <<>>]
        BY <1>1, <1>b, <3>1 DEF P
      <3>3. scan[P(k)].entries = <<>>
        BY <3>2
      <3>. QED  BY <2>1, <2>2, <3>3
    <2>. QED  BY <2>3, <2>4
  <1>6. ASSUME NEW d \in Nat, d \in G PROVE d + 1 \in G
    <2>1. SUFFICES ASSUME d + 1 <= k PROVE Found(k - (d + 1))
      OBVIOUS
    <2>. DEFINE m == k - (d + 1)
                r == recs[m + 1]
                lp == Len(r.payload)
    <2>2. /\ m \in 0..(k - 1) /\ m \in 0..(Len(recs) - 1) /\ m \in 0..Len(recs)
          /\ k \in 0..Len(recs) /\ m <= k
          /\ m + 1 = k - d /\ m + 1 \in 0..Len(recs) /\ m + 1 \in 1..Len(recs) /\ m + 1 <= k
          /\ k \in (m + 1)..Len(recs) /\ (m + 1) - 1 = m
      BY <1>2, <2>1
    <2>3. Found(m + 1)
      BY <1>6, <2>1, <2>2
    <2>. HIDE DEF m
    <2>4. lp \in Nat /\ P(m) \in Nat /\ P(m + 1) = P(m) + 1 + lp
      BY <1>2, <2>2, Zenon
    <2>5. P(m + 1) <= P(k) /\ P(k) \in Nat /\ P(k) <= end
      BY <1>2, <1>b, <2>2 DEF P
    <2>6. IsRecord(file[P(m) + 1], limits) /\ file[P(m) + 1] = RecordUnit(r.kind, r.id, lp)
      BY <1>b, <2>2 DEF P
    <2>. HIDE DEF lp
    <2>7. P(m) \in 0..(end - 1) /\ ~(P(m) + 1 + lp > end)
      BY <2>4, <2>5
    <2>8. /\ file[P(m) + 1].len = lp /\ file[P(m) + 1].kind = r.kind /\ file[P(m) + 1].id = r.id
      BY <2>6 DEF RecordUnit
    <2>. DEFINE e == Entry(r.kind, r.id, P(m), lp)
    <2>9. scan[P(m)] = [ok |-> scan[P(m + 1)].ok, entries |-> <<e>> \o scan[P(m + 1)].entries]
      <3>. DEFINE o == P(m)
                  unit == file[o + 1]
                  next == o + 1 + unit.len
      <3>1. scan[o] = IF ~IsRecord(unit, limits) \/ next > end
                      THEN [ok |-> FALSE, entries |-> <<>>]
                      ELSE [ok |-> scan[next].ok,
                            entries |-> <<Entry(unit.kind, unit.id, o, unit.len)>>
                                        \o scan[next].entries]
        BY <1>1, <2>7, Zenon
      <3>2. IsRecord(unit, limits) /\ ~(next > end) /\ next = P(m + 1)
            /\ Entry(unit.kind, unit.id, o, unit.len) = e
        BY <2>4, <2>6, <2>7, <2>8
      <3>. HIDE DEF e, o, unit, next
      <3>3. scan[o] = [ok |-> scan[next].ok,
                       entries |-> <<Entry(unit.kind, unit.id, o, unit.len)>> \o scan[next].entries]
        BY <3>1, <3>2
      <3>. QED  BY <3>2, <3>3 DEF o
    <2>10. es[m + 1] = e
      BY <1>4, <2>2 DEF lp
    <2>. HIDE DEF e
    <2>11. SubSeq(es, m + 1, k) = <<e>> \o SubSeq(es, m + 1 + 1, k)
      <3>1. m + 1 \in 1..Len(es) /\ k \in (m + 1)..Len(es)
        BY <1>3, <2>2
      <3>2. SubSeq(es, m + 1, k) = <<es[m + 1]>> \o SubSeq(es, m + 1 + 1, k)
        BY <1>3, <3>1, SubSeqRecursiveFirst
      <3>. QED  BY <2>10, <3>2
    <2>12. Found(m)
      <3>1. /\ scan[P(m)].ok = scan[P(m + 1)].ok
            /\ scan[P(m)].entries = <<e>> \o scan[P(m + 1)].entries
        BY <2>9
      <3>2. /\ scan[P(m + 1)].ok = scan[P(k)].ok
            /\ scan[P(m + 1)].entries = SubSeq(es, m + 1 + 1, k)
        BY <2>3
      <3>. QED  BY <2>11, <3>1, <3>2
    <2>. HIDE DEF Found
    <2>. QED  BY <2>12 DEF m
  <1>. HIDE DEF G
  <1>7. Nat \subseteq G
    BY <1>5, <1>6, NatSetInduction
  <1>8. k \in G /\ k - k = 0 /\ k <= k
    BY <1>2, <1>7
  <1>9. Found(0)
    <2>. HIDE DEF Found
    <2>. QED  BY <1>8 DEF G
  <1>10. 0 + 1 = 1
    OBVIOUS
  <1>11. /\ PlaceOf(recs, k) = end => scan[1].ok = TRUE
         /\ scan[1].entries = SubSeq(EntriesOf(recs), 1, k)
    BY <1>1, <1>2, <1>9, <1>10 DEF es, P
  <1>. QED  BY <1>1, <1>11 DEF Finds
-----------------------------------------------------------------------------
(* The readers agree. *)

\* The digest is of what has been read; a Commit event means that the file is
\* intact up to its footer.
HashKept ==
    HasFile =>
        /\ rd.st = "Header" => rd.offset = 0
        /\ rd.st \in {"Header", "RecordHeader", "Payload", "RecordEnd", "Footer"} =>
              rd.offset <= Len(delivered) /\ rd.hashed = SubSeq(delivered, 1, rd.offset)
        /\ rd.st = "Done" => Intact

AgreeInv == GenuineInv /\ HashKept

LEMMA ReadMore ==
    ASSUME NEW file \in Seq(Units), NEW o \in Nat, NEW n \in Nat, o + n <= Len(file)
    PROVE  SubSeq(file, 1, o) \o Slice(file, o, n) = SubSeq(file, 1, o + n)
  <1>1. 1 \in 1..(Len(file) + 1) /\ o \in (1 - 1)..Len(file) /\ o + n \in o..Len(file)
    BY LenProperties
  <1>. QED  BY <1>1, ConcatAdjacentSubSeq DEF Slice

LEMMA ReadOneMore ==
    ASSUME NEW file \in Seq(Units), NEW o \in Nat, o + 1 <= Len(file)
    PROVE  Append(SubSeq(file, 1, o), file[o + 1]) = SubSeq(file, 1, o + 1)
  <1>1. Len(file) \in Nat
    BY LenProperties
  <1>2. o \in 0..Len(file) /\ 1 \in 1..Len(file) /\ o + 1 \in 1..Len(file) /\ (o + 1) - 1 = o
    BY <1>1
  <1>. DEFINE f == SubSeq(file, 1, o)
              u == file[o + 1]
  <1>3. f \in Seq(Units) /\ u \in Units
    BY <1>2, FirstOf, ElementOfSeq
  <1>4. SubSeq(file, 1, o + 1) = f \o <<u>>
    BY <1>2, SubSeqRecursiveSecond
  <1>. HIDE DEF f, u
  <1>5. Append(f, u) = f \o <<u>>
    BY <1>3, AppendIsConcat
  <1>. QED  BY <1>4, <1>5 DEF f, u

\* The file and what is known of the reader.
LEMMA HashTypes ==
    ASSUME AgreeInv, HasFile
    PROVE  /\ rd \in Readers /\ rd.offset \in Nat /\ rd.hashed \in Seq(Units) /\ CommitInv
           /\ delivered \in Seq(Units) /\ delivered \in Seq(Signed) /\ Len(delivered) \in Nat
  <1>1. rd \in Readers /\ delivered \in Seq(Signed) /\ CommitInv
    BY DEF AgreeInv, GenuineInv, CommitInv, ReaderType, FileKept
  <1>2. delivered \in Seq(Units)
    BY <1>1, PlainIsSigned, SeqMonotonic
  <1>. QED  BY <1>1, <1>2, LenProperties DEF Readers

LEMMA HeaderKeepsHash ==
    ASSUME AgreeInv, HasFile, ReadHeader
    PROVE  HashKept'
  <1>1. rd \in Readers /\ rd.offset = 0 /\ delivered' = delivered /\ delivered \in Seq(Units)
    BY HashTypes DEF AgreeInv, HashKept, ReadHeader
  <1>2. CASE Readable(1) /\ NextUnit = HeaderUnit
    <2>1. rd' = [rd EXCEPT !.st = "RecordHeader", !.offset = 1, !.hashed = <<HeaderUnit>>]
      BY <1>2 DEF ReadHeader
    <2>2. rd'.st = "RecordHeader" /\ rd'.offset = 1 /\ rd'.hashed = <<HeaderUnit>>
      BY <1>1, <2>1 DEF Readers
    <2>3. 1 <= Len(delivered) /\ delivered[1] = HeaderUnit /\ Len(delivered) \in Nat
      BY <1>1, <1>2, HashTypes DEF Readable, NextUnit
    <2>4. SubSeq(delivered, 1, 1) = <<HeaderUnit>>
      <3>. DEFINE s == SubSeq(delivered, 1, 1)
      <3>1. 1 \in 0..Len(delivered)
        BY <2>3
      <3>2. s \in Seq(Units) /\ Len(s) = 1 /\ s[1] = delivered[1]
        BY <1>1, <3>1, FirstOf
      <3>3. <<HeaderUnit>> \in Seq(Units) /\ Len(<<HeaderUnit>>) = 1 /\ <<HeaderUnit>>[1] = HeaderUnit
        BY UnitSets
      <3>. HIDE DEF s
      <3>4. s = <<HeaderUnit>>
        BY <2>3, <3>2, <3>3, SeqEqual
      <3>. QED  BY <3>4 DEF s
    <2>. QED  BY <1>1, <2>2, <2>3, <2>4 DEF HashKept
  <1>3. CASE ~(Readable(1) /\ NextUnit = HeaderUnit)
    <2>1. rd'.st = "Failed"
      BY <1>1, <1>3 DEF ReadHeader, Fail, Readers
    <2>. QED  BY <2>1 DEF HashKept
  <1>. QED  BY <1>2, <1>3

LEMMA RecordHeaderKeepsHash ==
    ASSUME AgreeInv, HasFile, ReadRecordHeader
    PROVE  HashKept'
  <1>1. /\ rd \in Readers /\ delivered' = delivered /\ delivered \in Seq(Units) /\ rd.offset \in Nat
        /\ rd.offset <= Len(delivered) /\ rd.hashed = SubSeq(delivered, 1, rd.offset)
    BY HashTypes DEF AgreeInv, HashKept, ReadRecordHeader
  <1>. DEFINE Ok == /\ rd.directory = NoDirectory /\ rd.count < rd.limits.records
                    /\ Readable(1) /\ RecordAccepted(NextUnit)
  <1>2. CASE Ok
    <2>. DEFINE unit == NextUnit
                entry == Entry(unit.kind, unit.id, rd.offset, unit.len)
                next == IF unit.len = 0 THEN "RecordEnd" ELSE "Payload"
                count == RecordCount(unit)
                inv == IF unit.kind = "Directory" THEN rd.inventory ELSE Append(rd.inventory, entry)
                active == [kind |-> unit.kind, entry |-> entry, remaining |-> unit.len,
                           metadata |-> <<>>]
                hashed == Append(rd.hashed, unit)
    <2>1. rd' = [rd EXCEPT !.st = next, !.count = count, !.offset = rd.offset + 1,
                           !.hashed = hashed, !.inventory = inv, !.active = active]
      BY <1>2, Zenon DEF ReadRecordHeader
    <2>2. next \in {"RecordEnd", "Payload"}
      OBVIOUS
    <2>. HIDE DEF next, count, inv, active, hashed
    <2>3. rd'.st = next /\ rd'.offset = rd.offset + 1 /\ rd'.hashed = hashed
      BY <1>1, <2>1 DEF Readers
    <2>4. rd.offset + 1 <= Len(delivered)
      BY <1>2 DEF Readable
    <2>5. hashed = SubSeq(delivered, 1, rd.offset + 1)
      BY <1>1, <2>4, ReadOneMore DEF hashed, unit, NextUnit
    <2>. QED  BY <1>1, <2>2, <2>3, <2>4, <2>5 DEF HashKept
  <1>3. CASE ~Ok
    <2>1. rd'.st = "Failed"
      <3>1. Fail
        BY <1>3, Zenon DEF ReadRecordHeader
      <3>. QED  BY <1>1, <3>1 DEF Fail, Readers
    <2>. QED  BY <2>1 DEF HashKept
  <1>. QED  BY <1>2, <1>3

LEMMA PayloadKeepsHash ==
    ASSUME AgreeInv, HasFile, ReadPayload
    PROVE  HashKept'
  <1>1. /\ rd \in Readers /\ delivered' = delivered /\ delivered \in Seq(Units) /\ rd.offset \in Nat
        /\ rd.offset <= Len(delivered) /\ rd.hashed = SubSeq(delivered, 1, rd.offset)
        /\ rd.st = "Payload" /\ CommitInv
    BY HashTypes DEF AgreeInv, HashKept, ReadPayload
  <1>len. PICK len : len = Least({rd.active.remaining, ChunkLimit(rd.limits), rd.limits.logical - rd.logical})
    OBVIOUS
  <1>2. CASE ~ChunkRefused /\ Readable(len)
    <2>1. len \in Nat
      BY <1>1, <1>2, <1>len, ChunkFits
    <2>. DEFINE next == IF len = rd.active.remaining THEN "RecordEnd" ELSE "Payload"
                x == NextUnits(len)
    <2>2. rd' = [rd EXCEPT
                     !.st = next, !.offset = @ + len, !.hashed = @ \o x, !.logical = @ + len,
                     !.active.remaining = @ - len,
                     !.active.metadata = IF rd.active.kind = "Opaque" THEN @ ELSE @ \o x]
      BY <1>2, <1>len, Zenon DEF ReadPayload
    <2>3. next \in {"RecordEnd", "Payload"}
      OBVIOUS
    <2>. HIDE DEF next, x
    <2>4. rd'.st = next /\ rd'.offset = rd.offset + len /\ rd'.hashed = rd.hashed \o x
      BY <1>1, <2>2 DEF Readers
    <2>5. rd.offset + len <= Len(delivered)
      BY <1>2 DEF Readable
    <2>6. rd.hashed \o x = SubSeq(delivered, 1, rd.offset + len)
      BY <1>1, <2>1, <2>5, ReadMore DEF x, NextUnits
    <2>. QED  BY <1>1, <2>3, <2>4, <2>5, <2>6 DEF HashKept
  <1>3. CASE ~(~ChunkRefused /\ Readable(len))
    <2>1. Fail
      BY <1>3, <1>len, Zenon DEF ReadPayload
    <2>2. rd'.st = "Failed"
      BY <1>1, <2>1 DEF Fail, Readers
    <2>. QED  BY <2>2 DEF HashKept
  <1>. QED  BY <1>2, <1>3

LEMMA FinishRecordKeepsHash ==
    ASSUME AgreeInv, HasFile, FinishRecord
    PROVE  HashKept'
  <1>1. /\ rd \in Readers /\ delivered' = delivered
        /\ rd.offset <= Len(delivered) /\ rd.hashed = SubSeq(delivered, 1, rd.offset)
    BY HashTypes DEF AgreeInv, HashKept, FinishRecord
  <1>2. \/ rd'.st = "Failed"
        \/ rd'.st \in {"RecordHeader", "Footer"} /\ rd'.offset = rd.offset /\ rd'.hashed = rd.hashed
    <2>1. CASE rd.active.kind = "Opaque"
      BY <1>1, <2>1 DEF FinishRecord, Readers
    <2>2. CASE rd.active.kind = "Manifest"
      BY <1>1, <2>2 DEF FinishRecord, Fail, Readers
    <2>3. CASE rd.active.kind = "Directory"
      BY <1>1, <2>3 DEF FinishRecord, Fail, Readers
    <2>. QED  BY <2>1, <2>2, <2>3 DEF FinishRecord
  <1>. QED  BY <1>1, <1>2 DEF HashKept

LEMMA FooterKeepsHash ==
    ASSUME AgreeInv, HasFile, ReadFooter
    PROVE  HashKept'
  <1>1. /\ rd \in Readers /\ delivered' = delivered /\ w' = w /\ accepted' = accepted /\ rd.offset \in Nat
        /\ delivered \in Seq(Signed) /\ Len(delivered) \in Nat
        /\ rd.offset <= Len(delivered) /\ rd.hashed = SubSeq(delivered, 1, rd.offset)
    BY HashTypes DEF AgreeInv, HashKept, ReadFooter, writerVars
  <1>2. CASE Readable(1) /\ FooterAccepted(NextUnit) /\ AtEnd(rd.offset + 1)
    <2>1. rd'.st = "Done"
      BY <1>1, <1>2 DEF ReadFooter, Readers
    <2>2. rd.offset + 1 = Len(delivered) /\ rd.offset = Len(delivered) - 1 /\ Len(delivered) \in 1..Len(delivered)
      BY <1>1, <1>2 DEF AtEnd
    <2>3. Foot.t = "footer" /\ Foot.digest = SubSeq(delivered, 1, Len(delivered) - 1)
      BY <1>1, <1>2, <2>2 DEF FooterAccepted, NextUnit, Foot
    <2>4. Foot \in Signed
      BY <1>1, <2>2, ElementOfSeq DEF Foot
    <2>5. Foot.digest = Body(Whole(Content))
      BY <2>3, <2>4 DEF Signed, SignedAs
    <2>6. delivered # <<>>
      BY <1>1, <2>2
    <2>7. Intact
      BY <2>3, <2>5, <2>6 DEF Intact
    <2>8. Intact'
      <3>1. Content' = Content /\ Foot' = Foot /\ HasFile'
        BY <1>1 DEF Content, Foot, HasFile
      <3>. QED  BY <1>1, <2>7, <3>1 DEF Intact
    <2>. QED  BY <2>1, <2>8 DEF HashKept
  <1>3. CASE ~(Readable(1) /\ FooterAccepted(NextUnit) /\ AtEnd(rd.offset + 1))
    <2>1. rd'.st = "Failed"
      BY <1>1, <1>3 DEF ReadFooter, Fail, Readers
    <2>. QED  BY <2>1 DEF HashKept
  <1>. QED  BY <1>2, <1>3

LEMMA InitAgree == ASSUME Init PROVE AgreeInv
  BY InitGenuine DEF Init, AgreeInv, HashKept, HasFile

LEMMA NextKeepsAgree == ASSUME AgreeInv, [Next]_vars PROVE AgreeInv'
  <1>0. GenuineInv /\ GenuineInv' /\ CommitInv'
    BY NextKeepsGenuine DEF AgreeInv, GenuineInv
  <1>1. SUFFICES ASSUME HasFile' PROVE HashKept'
    BY <1>0 DEF AgreeInv, HashKept
  <1>2. CASE Write
    <2>1. delivered' = NoFile
      BY <1>0, <1>2, WriteIsEarly DEF GenuineInv
    <2>. QED  BY <1>1, <2>1 DEF HasFile
  <1>3. ASSUME NEW limits, rd' = NewReader(limits) PROVE HashKept'
    <2>1. rd'.st = "Header" /\ rd'.offset = 0 /\ rd'.hashed = <<>>
      BY <1>3 DEF NewReader
    <2>2. Len(delivered') \in Nat
      <3>1. (delivered \in Seq(Signed))'
        BY <1>0, <1>1 DEF CommitInv, FileKept
      <3>. QED  BY <3>1, LenProperties
    <2>3. SubSeq(delivered', 1, 0) = <<>>
      BY SubSeqEmpty
    <2>. QED  BY <2>1, <2>2, <2>3 DEF HashKept
  <1>4. CASE Deliver \/ DeliverForeign
    BY <1>3, <1>4 DEF Deliver, DeliverForeign
  <1>5. CASE NextEvent
    <2>1. HasFile
      BY <1>1, <1>5 DEF HasFile, NextEvent, ReadHeader, ReadRecordHeader, ReadPayload, FinishRecord, ReadFooter
    <2>. QED  BY <1>5, <2>1, HeaderKeepsHash, RecordHeaderKeepsHash, PayloadKeepsHash, FinishRecordKeepsHash,
                 FooterKeepsHash DEF NextEvent
  <1>6. CASE ReadFails
    <2>1. HasFile
      BY <1>1, <1>6 DEF HasFile, ReadFails
    <2>2. rd \in Readers
      BY <2>1, HashTypes
    <2>3. rd'.st = "Failed"
      BY <1>6, <2>2 DEF ReadFails, Readers
    <2>. QED  BY <2>3 DEF HashKept
  <1>7. CASE UNCHANGED vars
    <2>1. HashKept /\ delivered' = delivered /\ rd' = rd /\ w' = w /\ accepted' = accepted
      BY <1>7 DEF AgreeInv, vars
    <2>2. Intact' = Intact /\ HasFile' = HasFile
      BY <2>1 DEF Intact, HasFile, Foot, Content
    <2>. QED  BY <2>1, <2>2 DEF HashKept
  <1>. QED  BY <1>2, <1>4, <1>5, <1>6, <1>7 DEF Next

\* Every record shown before the directory is well formed: FinishRecord has decoded a
\* manifest from the units that were shown.
Shown ==
    HasFile =>
        /\ rd.st \notin {"Header", "Failed"} => \A i \in 1..(Len(got) - 1) : WellFormed(got[i])
        /\ rd.st = "RecordHeader" => \A i \in 1..Len(got) : WellFormed(got[i])
        /\ rd.st \in {"Payload", "RecordEnd"} /\ rd.active.kind # "Opaque" =>
              rd.active.metadata = got[Len(got)].payload

ShownInv == AgreeInv /\ Shown

\* A step that fails, and one that shows nothing more of a record.
LEMMA FailedIsShown ==
    ASSUME rd'.st = "Failed"
    PROVE  Shown'
  BY DEF Shown

LEMMA HeaderKeepsShown ==
    ASSUME ShownInv, HasFile, ReadHeader
    PROVE  Shown'
  <1>1. rd \in Readers /\ got = <<>> /\ rd.st = "Header"
    BY HashTypes DEF ShownInv, AgreeInv, GenuineInv, CommitInv, ReaderKeeps, ReadHeader
  <1>2. CASE Readable(1) /\ NextUnit = HeaderUnit
    <2>1. rd' = [rd EXCEPT !.st = "RecordHeader", !.offset = 1, !.hashed = <<HeaderUnit>>] /\ got' = got
      BY <1>2 DEF ReadHeader
    <2>2. rd'.st = "RecordHeader" /\ Len(got') = 0
      BY <1>1, <2>1 DEF Readers
    <2>3. 1..Len(got') = {} /\ 1..(Len(got') - 1) = {}
      BY <2>2
    <2>. QED  BY <2>2, <2>3 DEF Shown
  <1>3. CASE ~(Readable(1) /\ NextUnit = HeaderUnit)
    <2>1. rd'.st = "Failed"
      BY <1>1, <1>3 DEF ReadHeader, Fail, Readers
    <2>. QED  BY <2>1, FailedIsShown
  <1>. QED  BY <1>2, <1>3

LEMMA RecordHeaderKeepsShown ==
    ASSUME ShownInv, HasFile, ReadRecordHeader
    PROVE  Shown'
  <1>1. /\ rd \in Readers /\ rd.st = "RecordHeader" /\ got \in Seq(Records(Units))
        /\ \A i \in 1..Len(got) : WellFormed(got[i])
    BY HashTypes DEF ShownInv, Shown, AgreeInv, GenuineInv, CommitInv, ReaderType, ReadRecordHeader
  <1>. DEFINE Ok == /\ rd.directory = NoDirectory /\ rd.count < rd.limits.records
                    /\ Readable(1) /\ RecordAccepted(NextUnit)
  <1>2. CASE Ok
    <2>. DEFINE unit == NextUnit
                entry == Entry(unit.kind, unit.id, rd.offset, unit.len)
                next == IF unit.len = 0 THEN "RecordEnd" ELSE "Payload"
                count == RecordCount(unit)
                inv == IF unit.kind = "Directory" THEN rd.inventory ELSE Append(rd.inventory, entry)
                active == [kind |-> unit.kind, entry |-> entry, remaining |-> unit.len,
                           metadata |-> <<>>]
                hashed == Append(rd.hashed, unit)
                q == [kind |-> unit.kind, id |-> unit.id, payload |-> <<>>]
    <2>1. /\ rd' = [rd EXCEPT !.st = next, !.count = count, !.offset = rd.offset + 1,
                              !.hashed = hashed, !.inventory = inv, !.active = active]
          /\ got' = Append(got, q)
      BY <1>2, Zenon DEF ReadRecordHeader
    <2>2. next \in {"RecordEnd", "Payload"} /\ active.metadata = <<>> /\ q.payload = <<>>
      OBVIOUS
    <2>. HIDE DEF next, count, inv, active, hashed, q
    <2>3. rd'.st = next /\ rd'.active = active
      BY <1>1, <2>1 DEF Readers
    <2>. DEFINE S == Records(Units) \cup {q}
                more == Append(got, q)
    <2>4. got \in Seq(S) /\ q \in S
      BY <1>1, SeqMonotonic
    <2>. HIDE DEF S
    <2>5. /\ Len(got) \in Nat /\ Len(more) = Len(got) + 1 /\ more[Len(more)] = q
          /\ \A i \in 1..Len(got) : more[i] = got[i]
      BY <2>4, AppendProperties, LenProperties
    <2>6. got' = more
      BY <2>1
    <2>. HIDE DEF more
    <2>7. \A i \in 1..(Len(more) - 1) : WellFormed(more[i])
      BY <1>1, <2>5
    <2>8. rd'.active.metadata = got'[Len(got')].payload
      BY <2>2, <2>3, <2>5, <2>6
    <2>. QED  BY <2>2, <2>3, <2>6, <2>7, <2>8 DEF Shown
  <1>3. CASE ~Ok
    <2>1. Fail
      BY <1>3, Zenon DEF ReadRecordHeader
    <2>2. rd'.st = "Failed"
      BY <1>1, <2>1 DEF Fail, Readers
    <2>. QED  BY <2>2, FailedIsShown
  <1>. QED  BY <1>2, <1>3

LEMMA PayloadKeepsShown ==
    ASSUME ShownInv, HasFile, ReadPayload
    PROVE  Shown'
  <1>1. /\ rd \in Readers /\ rd.st = "Payload" /\ got \in Seq(Records(Units)) /\ Len(got) # 0
        /\ rd.active \in Actives /\ CommitInv
        /\ \A i \in 1..(Len(got) - 1) : WellFormed(got[i])
        /\ rd.active.kind # "Opaque" => rd.active.metadata = got[Len(got)].payload
    BY HashTypes DEF ShownInv, Shown, AgreeInv, GenuineInv, CommitInv, ReaderType, ReaderKeeps, ReadPayload
  <1>len. PICK len : len = Least({rd.active.remaining, ChunkLimit(rd.limits), rd.limits.logical - rd.logical})
    OBVIOUS
  <1>2. CASE ~ChunkRefused /\ Readable(len)
    <2>1. len \in Nat
      BY <1>1, <1>2, <1>len, ChunkFits
    <2>. DEFINE next == IF len = rd.active.remaining THEN "RecordEnd" ELSE "Payload"
                x == NextUnits(len)
                n == Len(got)
                a == rd.active
                data == IF a.kind = "Opaque" THEN a.metadata ELSE a.metadata \o x
                more == [got EXCEPT ![Len(got)].payload = @ \o x]
    <2>2. /\ rd' = [rd EXCEPT
                     !.st = next, !.offset = @ + len, !.hashed = @ \o x, !.logical = @ + len,
                     !.active.remaining = @ - len,
                     !.active.metadata = IF rd.active.kind = "Opaque" THEN @ ELSE @ \o x]
          /\ got' = more
      BY <1>2, <1>len, Zenon DEF ReadPayload
    <2>3. next \in {"RecordEnd", "Payload"}
      OBVIOUS
    <2>4. x \in Seq(Units)
      BY <1>1, <1>2, <2>1, NextAreUnits
    <2>. HIDE DEF next, x
    <2>5. rd'.st = next /\ rd'.active.kind = a.kind /\ rd'.active.metadata = data
      <3>. DEFINE b == [a EXCEPT !.remaining = @ - len, !.metadata = data]
      <3>1. b.kind = a.kind /\ b.metadata = data
        <4>. HIDE DEF data, a
        <4>1. a \in Actives
          BY <1>1 DEF a
        <4>. QED  BY <4>1 DEF Actives
      <3>2. rd' = [rd EXCEPT !.st = next, !.offset = @ + len, !.hashed = @ \o x, !.logical = @ + len,
                             !.active = b]
        BY <2>2
      <3>. HIDE DEF b, data, a
      <3>3. rd'.st = next /\ rd'.active = b
        BY <1>1, <3>2 DEF Readers
      <3>. QED  BY <3>1, <3>3
    <2>6. more = Grown(got, x)
      BY <1>1, <2>4, LongerLast
    <2>7. n \in 1..n /\ n \in Nat /\ DOMAIN got = 1..n
      BY <1>1, LenProperties
    <2>8. Len(more) = n /\ more[n].payload = got[n].payload \o x /\ \A i \in 1..(n - 1) : more[i] = got[i]
      <3>. DEFINE z == Longer(got[n], x)
      <3>1. z.payload = got[n].payload \o x
        BY DEF Longer
      <3>2. more = [got EXCEPT ![n] = z]
        BY <2>6 DEF Grown
      <3>. HIDE DEF z, more
      <3>3. z \in Records(Units) \cup {z} /\ got \in Seq(Records(Units) \cup {z})
        BY <1>1, SeqMonotonic
      <3>4. Len(more) = n /\ more[n] = z /\ \A i \in 1..n : i # n => more[i] = got[i]
        <4>. DEFINE S == Records(Units) \cup {z}
        <4>1. got \in Seq(S) /\ z \in S /\ n \in 1..Len(got)
          BY <2>7, <3>3
        <4>. HIDE DEF S
        <4>2. /\ Len(more) = Len(got)
              /\ \A i \in 1..Len(got) : more[i] = IF i = n THEN z ELSE got[i]
          BY <3>2, <4>1, ExceptSeq
        <4>. QED  BY <4>1, <4>2
      <3>5. \A i \in 1..(n - 1) : i \in 1..n /\ i # n
        <4>. HIDE DEF n
        <4>. QED  BY <2>7
      <3>6. more[n].payload = got[n].payload \o x
        BY <3>1, <3>4
      <3>. QED  BY <3>4, <3>5, <3>6
    <2>. HIDE DEF more
    <2>9. a.kind # "Opaque" => data = more[n].payload
      BY <1>1, <2>8
    <2>10. \A i \in 1..(n - 1) : WellFormed(more[i])
      BY <1>1, <2>8
    <2>11. got' = more
      BY <2>2
    <2>. QED  BY <2>3, <2>5, <2>8, <2>9, <2>10, <2>11 DEF Shown
  <1>3. CASE ~(~ChunkRefused /\ Readable(len))
    <2>1. Fail
      BY <1>3, <1>len, Zenon DEF ReadPayload
    <2>2. rd'.st = "Failed"
      BY <1>1, <2>1 DEF Fail, Readers
    <2>. QED  BY <2>2, FailedIsShown
  <1>. QED  BY <1>2, <1>3

LEMMA FinishRecordKeepsShown ==
    ASSUME ShownInv, HasFile, FinishRecord
    PROVE  Shown'
  <1>1. /\ rd \in Readers /\ rd.st = "RecordEnd" /\ got \in Seq(Records(Units))
        /\ rd.active.kind = got[Len(got)].kind
        /\ \A i \in 1..(Len(got) - 1) : WellFormed(got[i])
        /\ rd.active.kind # "Opaque" => rd.active.metadata = got[Len(got)].payload
    BY HashTypes DEF ShownInv, Shown, AgreeInv, GenuineInv, CommitInv, ReaderType, ReaderKeeps, FinishRecord
  <1>2. Len(got) \in Nat
    BY <1>1, LenProperties
  <1>3. ASSUME WellFormed(got[Len(got)]), rd'.st = "RecordHeader", got' = got
        PROVE  Shown'
    <2>1. \A i \in 1..Len(got) : i \in 1..(Len(got) - 1) \/ i = Len(got)
      BY <1>2
    <2>2. \A i \in 1..Len(got) : WellFormed(got[i])
      BY <1>1, <1>3, <2>1
    <2>. QED  BY <1>1, <1>3, <2>2 DEF Shown
  <1>4. CASE rd.active.kind = "Opaque"
    <2>1. rd'.st = "RecordHeader" /\ got' = got
      BY <1>1, <1>4 DEF FinishRecord, Readers
    <2>. QED  BY <1>1, <1>3, <1>4, <2>1 DEF WellFormed
  <1>5. CASE rd.active.kind = "Manifest" /\ IsManifest(rd.active.metadata)
    <2>1. rd'.st = "RecordHeader" /\ got' = got
      BY <1>1, <1>5 DEF FinishRecord, Readers
    <2>. QED  BY <1>1, <1>3, <1>5, <2>1 DEF WellFormed
  <1>6. CASE rd.active.kind = "Manifest" /\ ~IsManifest(rd.active.metadata)
    <2>1. rd'.st = "Failed"
      BY <1>1, <1>6 DEF FinishRecord, Fail, Readers
    <2>. QED  BY <2>1, FailedIsShown
  <1>7. CASE rd.active.kind = "Directory"
    <2>1. rd'.st = "Failed" \/ (rd'.st = "Footer" /\ got' = got)
      BY <1>1, <1>7 DEF FinishRecord, Fail, Readers
    <2>. QED  BY <1>1, <2>1 DEF Shown
  <1>. QED  BY <1>4, <1>5, <1>6, <1>7 DEF FinishRecord

LEMMA FooterKeepsShown ==
    ASSUME ShownInv, HasFile, ReadFooter
    PROVE  Shown'
  <1>1. rd \in Readers /\ \A i \in 1..(Len(got) - 1) : WellFormed(got[i])
    BY HashTypes DEF ShownInv, Shown, ReadFooter
  <1>2. got' = got /\ rd'.st \in {"Done", "Failed"}
    BY <1>1 DEF ReadFooter, Fail, Readers
  <1>. QED  BY <1>1, <1>2 DEF Shown

LEMMA InitShown == ASSUME Init PROVE ShownInv
  BY InitAgree DEF Init, ShownInv, Shown, HasFile

LEMMA NextKeepsShown == ASSUME ShownInv, [Next]_vars PROVE ShownInv'
  <1>0. AgreeInv /\ AgreeInv' /\ GenuineInv
    BY NextKeepsAgree DEF ShownInv, AgreeInv
  <1>1. SUFFICES ASSUME HasFile' PROVE Shown'
    BY <1>0 DEF ShownInv, Shown
  <1>2. CASE Write
    <2>1. delivered' = NoFile
      BY <1>0, <1>2, WriteIsEarly DEF GenuineInv
    <2>. QED  BY <1>1, <2>1 DEF HasFile
  <1>3. CASE Deliver \/ DeliverForeign
    <2>1. rd'.st = "Header"
      BY <1>3 DEF Deliver, DeliverForeign, NewReader
    <2>. QED  BY <2>1 DEF Shown
  <1>4. CASE NextEvent
    <2>1. HasFile
      BY <1>1, <1>4 DEF HasFile, NextEvent, ReadHeader, ReadRecordHeader, ReadPayload, FinishRecord, ReadFooter
    <2>. QED  BY <1>4, <2>1, HeaderKeepsShown, RecordHeaderKeepsShown, PayloadKeepsShown,
                 FinishRecordKeepsShown, FooterKeepsShown DEF NextEvent
  <1>5. CASE ReadFails
    <2>1. HasFile
      BY <1>1, <1>5 DEF HasFile, ReadFails
    <2>2. rd \in Readers
      BY <1>0, <2>1, HashTypes
    <2>3. rd'.st = "Failed"
      BY <1>5, <2>2 DEF ReadFails, Readers
    <2>. QED  BY <2>3, FailedIsShown
  <1>6. CASE UNCHANGED vars
    <2>1. Shown /\ delivered' = delivered /\ rd' = rd /\ got' = got
      BY <1>6 DEF ShownInv, vars
    <2>. QED  BY <2>1 DEF Shown, HasFile
  <1>. QED  BY <1>2, <1>3, <1>4, <1>5, <1>6 DEF Next

\* A file read to its Commit is regular.
LEMMA CommitIsRegular ==
    ASSUME ShownInv, HasFile, rd.st = "Done"
    PROVE  Intact /\ Regular
  <1>1. /\ CommitInv /\ Intact /\ got \in Seq(Records(Units)) /\ Body(got) = Body(Whole(Content))
        /\ \A i \in 1..(Len(got) - 1) : WellFormed(got[i])
    BY DEF ShownInv, Shown, AgreeInv, HashKept, GenuineInv, CommitInv, ReaderType, ReaderKeeps
  <1>. DEFINE n == Len(Content)
              all == Whole(Content)
  <1>2. Content \in Seq(Records(Plain))
    BY <1>1, IntactContent
  <1>3. /\ all \in Seq(Records(Units)) /\ Len(all) = n + 1 /\ n \in Nat
        /\ \A i \in 1..n : all[i] = Content[i]
    BY <1>2, WholeIsUnits
  <1>4. got = all
    BY <1>1, <1>3, UnitSets, BodyIsUnique
  <1>. HIDE DEF all
  <1>5. \A i \in 1..n : WellFormed(Content[i])
    BY <1>1, <1>3, <1>4
  <1>. QED  BY <1>1, <1>5 DEF Regular

\* Every record takes at least one unit.
LEMMA PlacesGrow ==
    ASSUME NEW S, RecordUnits \subseteq S, NEW recs \in Seq(Records(S)),
           NEW m \in 0..Len(recs), NEW n \in m..Len(recs)
    PROVE  PlaceOf(recs, m) + (n - m) <= PlaceOf(recs, n)
  <1>. DEFINE P(i) == PlaceOf(recs, i)
              G == {d \in Nat : m + d <= Len(recs) => P(m) + d <= P(m + d)}
  <1>1. /\ Len(recs) \in Nat /\ \A i \in 0..Len(recs) : P(i) \in Nat
        /\ \A i \in 0..(Len(recs) - 1) :
              Len(recs[i + 1].payload) \in Nat /\ P(i + 1) = P(i) + 1 + Len(recs[i + 1].payload)
    BY Places, Zenon
  <1>. HIDE DEF P
  <1>2. 0 \in G
    BY <1>1
  <1>3. ASSUME NEW d \in Nat, d \in G PROVE d + 1 \in G
    <2>1. SUFFICES ASSUME m + (d + 1) <= Len(recs) PROVE P(m) + (d + 1) <= P(m + (d + 1))
      OBVIOUS
    <2>. DEFINE i == m + d
    <2>2. i \in 0..(Len(recs) - 1) /\ i \in 0..Len(recs) /\ i <= Len(recs) /\ m + (d + 1) = i + 1
      BY <1>1, <2>1
    <2>. HIDE DEF i
    <2>3. P(i) \in Nat /\ P(m) \in Nat /\ Len(recs[i + 1].payload) \in Nat
          /\ P(i + 1) = P(i) + 1 + Len(recs[i + 1].payload)
      BY <1>1, <2>2
    <2>4. P(m) + d <= P(i)
      BY <1>3, <2>2 DEF i
    <2>5. P(m) + (d + 1) <= P(i + 1)
      <3>. DEFINE a == P(m)
                  b == P(i)
                  c == P(i + 1)
                  l == Len(recs[i + 1].payload)
      <3>1. a \in Nat /\ b \in Nat /\ l \in Nat /\ c = b + 1 + l /\ a + d <= b
        BY <2>3, <2>4
      <3>. HIDE DEF a, b, c, l
      <3>2. a + (d + 1) <= c
        BY <3>1
      <3>. QED  BY <3>2 DEF a, c
    <2>. QED  BY <2>2, <2>5
  <1>. HIDE DEF G
  <1>4. Nat \subseteq G
    BY <1>2, <1>3, NatSetInduction
  <1>5. n - m \in G /\ m + (n - m) = n
    BY <1>1, <1>4
  <1>6. P(m) + (n - m) <= P(n)
    BY <1>1, <1>5 DEF G
  <1>. QED  BY <1>6 DEF P

\* A slice of a file is what lies there.
LEMMA SliceIs ==
    ASSUME NEW file \in Seq(Units), NEW p \in Seq(Units), NEW o \in Nat,
           o + Len(p) <= Len(file), \A i \in 1..Len(p) : file[o + i] = p[i]
    PROVE  Slice(file, o, Len(p)) = p
  <1>. DEFINE a == o + 1
              b == o + Len(p)
              x == SubSeq(file, a, b)
  <1>1. Len(p) \in Nat /\ Len(file) \in Nat
    BY LenProperties
  <1>2. a \in Int /\ b \in Int /\ b - a + 1 = Len(p) /\ \A i \in 1..Len(p) : a + i - 1 = o + i
    BY <1>1
  <1>3. (IF a <= b THEN b - a + 1 ELSE 0) = Len(p)
    BY <1>1
  <1>4. \A i \in a..b : i \in 1..Len(file)
    BY <1>1
  <1>5. \A i \in a..b : file[i] \in Units
    BY <1>4, ElementOfSeq
  <1>. HIDE DEF a, b
  <1>6. /\ x \in Seq(Units) /\ Len(x) = (IF a <= b THEN b - a + 1 ELSE 0)
        /\ \A i \in 1..(b - a + 1) : x[i] = file[a + i - 1]
    BY <1>2, <1>5, SubSeqProperties
  <1>. HIDE DEF x
  <1>7. Len(x) = Len(p) /\ \A i \in 1..Len(x) : x[i] = p[i]
    BY <1>2, <1>3, <1>6
  <1>8. x = p
    BY <1>6, <1>7, SeqEqual
  <1>. QED  BY <1>8 DEF x, a, b, Slice

\* What is not intact is not accepted: its digest is of something else.
LEMMA HarmedIsRefused ==
    ASSUME CommitInv, HasFile, NEW limits, Framed(delivered, limits),
           Front(delivered) = Last(delivered).digest
    PROVE  Intact
  <1>1. delivered \in Seq(Signed) /\ Len(delivered) \in Nat
    BY LenProperties DEF CommitInv, FileKept
  <1>2. Len(delivered) >= 2 /\ Foot.t = "footer"
    BY DEF Framed, Last, Foot
  <1>3. Len(delivered) \in 1..Len(delivered) /\ delivered # <<>>
    BY <1>1, <1>2
  <1>4. Foot \in Signed
    BY <1>1, <1>3, ElementOfSeq DEF Foot
  <1>5. Foot.digest = Body(Whole(Content))
    BY <1>2, <1>4 DEF Signed, SignedAs
  <1>6. SubSeq(delivered, 1, Len(delivered) - 1) = Foot.digest
    BY DEF Front, Last, Foot
  <1>. QED  BY <1>2, <1>3, <1>5, <1>6 DEF Intact

\* The frame of an intact file.
LEMMA IntactFrame ==
    ASSUME CommitInv, Intact
    PROVE  /\ Framed(delivered, Generous) /\ Front(delivered) = Last(delivered).digest
           /\ Last(delivered) = Foot /\ FooterOffset(delivered) = At(Len(Content) + 1)
           /\ Foot.directory.offset = At(Len(Content)) /\ Foot.directory.len = Len(Content) + 2
           /\ At(Len(Content)) \in Nat /\ Len(Content) \in Nat
           /\ Len(delivered) = At(Len(Content)) + Len(Content) + 3
           /\ Len(DirectoryOf(Content).payload) = Len(Content) + 1
  <1>. DEFINE n == Len(Content)
              d == DirectoryOf(Content)
  <1>1. /\ Content \in Seq(Records(Plain)) /\ Foot.t = "footer" /\ Foot.digest = Body(Whole(Content))
        /\ Foot.directory = DirectoryPlace(Content) /\ Fits(Len(delivered)) /\ Len(delivered) \in Nat
    BY IntactContent
  <1>2. d \in Records(Plain) /\ Len(d.payload) = 1 + n
    BY <1>1, UnitSets, DirectoryType
  <1>3. /\ n \in Nat /\ Whole(Content)[n + 1] = d
        /\ \A i \in 1..n : Whole(Content)[i] = Content[i]
    BY <1>1, WholeIsUnits
  <1>4. /\ At(n) \in Nat /\ At(n + 1) = At(n) + 1 + Len(Whole(Content)[n + 1].payload)
        /\ Len(delivered) = At(n + 1) + 1 /\ delivered[1] = HeaderUnit
    <2>1. n \in 0..n
      BY <1>3
    <2>. QED  BY <2>1, IntactFile
  <1>5. At(n + 1) = At(n) + n + 2 /\ Len(delivered) = At(n) + n + 3
    <2>. DEFINE l == Len(Whole(Content)[n + 1].payload)
    <2>1. l = 1 + n
      BY <1>2, <1>3
    <2>. HIDE DEF l
    <2>2. At(n + 1) = At(n) + 1 + l
      BY <1>4 DEF l
    <2>. QED  BY <1>3, <1>4, <2>1, <2>2
  <1>6. Len(Body(Content)) = At(n)
    <2>1. Len(Body(Content)) = 1 + Len(Laid(Content, n))
      BY <1>1, <1>2, UnitSets, BodyAppend
    <2>2. Laid(Whole(Content), n) = Laid(Content, n)
      BY <1>3, LaidOfFirst
    <2>. QED  BY <2>1, <2>2 DEF At
  <1>7. Foot.directory.offset = At(n) /\ Foot.directory.len = n + 2
    <2>1. Foot.directory.offset = Len(Body(Content)) /\ Foot.directory.len = 1 + Len(d.payload)
      BY <1>1 DEF DirectoryPlace
    <2>. QED  BY <1>2, <1>3, <1>6, <2>1
  <1>8. FooterOffset(delivered) = At(n + 1)
    BY <1>3, <1>4, <1>5 DEF FooterOffset
  <1>9. Framed(delivered, Generous)
    <2>1. Len(delivered) <= Generous.file
      BY <1>1 DEF Fits, LimitNames
    <2>2. Len(delivered) >= 2
      BY <1>3, <1>4, <1>5
    <2>3. Foot.directory.offset + Foot.directory.len = At(n + 1)
      BY <1>3, <1>4, <1>5, <1>7
    <2>. QED  BY <1>1, <1>4, <1>8, <2>1, <2>2, <2>3 DEF Framed, Last, Foot
  <1>10. Front(delivered) = Foot.digest
    BY <1>1 DEF Intact, Front
  <1>. QED  BY <1>2, <1>3, <1>4, <1>5, <1>7, <1>8, <1>9, <1>10 DEF Last, Foot

\* The entries of an intact file, and what lies where they say.
LEMMA IntactEntry ==
    ASSUME CommitInv, Intact, NEW i \in 1..Len(Content)
    PROVE  LET e == EntriesOf(Content)[i]
               r == Content[i]
           IN  /\ e = Entry(r.kind, r.id, At(i - 1), Len(r.payload))
               /\ e.kind = r.kind /\ e.id = r.id /\ e.offset = At(i - 1) /\ e.len = Len(r.payload)
               /\ At(i - 1) \in Nat /\ Len(r.payload) \in Nat /\ At(i) = At(i - 1) + 1 + Len(r.payload)
               /\ At(i) <= At(Len(Content)) /\ 1 + Len(Content) + Len(r.payload) <= At(Len(Content))
               /\ delivered[At(i - 1) + 1] = RecordUnit(r.kind, r.id, Len(r.payload))
               /\ r.kind \in Kinds /\ (r.kind = "Directory" <=> r.id = 0)
               /\ Payload(delivered, e) = r.payload
  <1>. DEFINE n == Len(Content)
              all == Whole(Content)
              r == Content[i]
              e == EntriesOf(Content)[i]
              lp == Len(r.payload)
  <1>1. /\ Content \in Seq(Records(Plain)) /\ Lawful(r) /\ delivered \in Seq(Units)
        /\ Len(delivered) \in Nat
    BY IntactContent
  <1>2. n \in Nat /\ i - 1 \in 0..n /\ (i - 1) + 1 = i /\ i \in 1..n
    BY <1>1, LenProperties
  <1>3. all[i] = r /\ all \in Seq(Records(Units)) /\ Len(all) = n + 1 /\ Content \in Seq(Records(Units))
    BY <1>1, <1>2, WholeIsUnits
  <1>. HIDE DEF all
  <1>4. /\ At(i - 1) \in Nat /\ lp \in Nat /\ At(i) = At(i - 1) + 1 + lp /\ At(i) < Len(delivered)
        /\ delivered[At(i - 1) + 1] = RecordUnit(r.kind, r.id, lp)
        /\ \A j \in 1..lp : delivered[At(i - 1) + 1 + j] = r.payload[j]
    <2>1. LET m == i - 1 IN
        /\ At(m) \in Nat /\ Len(all[m + 1].payload) \in Nat
        /\ At(m + 1) = At(m) + 1 + Len(all[m + 1].payload) /\ At(m + 1) < Len(delivered)
        /\ delivered[At(m) + 1] = RecordUnit(all[m + 1].kind, all[m + 1].id, Len(all[m + 1].payload))
        /\ \A j \in 1..Len(all[m + 1].payload) : delivered[At(m) + 1 + j] = all[m + 1].payload[j]
      BY <1>2, IntactFile DEF all
    <2>. HIDE DEF n, r
    <2>. QED  BY <1>2, <1>3, <2>1
  <1>5. e = Entry(r.kind, r.id, At(i - 1), lp)
    <2>1. e = EntryOf(Content, i)
      BY <1>2 DEF EntriesOf
    <2>2. \A j \in 1..(i - 1) : all[j] = Content[j]
      <3>1. \A j \in 1..(i - 1) : j \in 1..n
        BY <1>2
      <3>. QED  BY <1>1, <3>1, WholeIsUnits DEF all
    <2>3. Laid(all, i - 1) = Laid(Content, i - 1)
      BY <2>2, LaidOfFirst
    <2>. QED  BY <2>1, <2>3 DEF EntryOf, At, all
  <1>6. e.kind = r.kind /\ e.id = r.id /\ e.offset = At(i - 1) /\ e.len = lp
    BY <1>5 DEF Entry
  <1>7. At(i) <= At(n) /\ 1 + n + lp <= At(n) /\ At(n) \in Nat
    <2>1. \A m : At(m) = PlaceOf(all, m)
      BY DEF At, PlaceOf, all
    <2>2. /\ i \in 0..Len(all) /\ n \in i..Len(all) /\ i - 1 \in 0..Len(all)
          /\ 0 \in 0..Len(all) /\ i - 1 \in 0..Len(all) /\ n \in 0..Len(all) /\ i - 1 >= 0
      BY <1>2, <1>3
    <2>3. PlaceOf(all, i) + (n - i) <= PlaceOf(all, n)
      BY <1>3, <2>2, UnitSets, PlacesGrow
    <2>4. PlaceOf(all, 0) + ((i - 1) - 0) <= PlaceOf(all, i - 1)
      <3>1. i - 1 \in 0..Len(all)
        BY <2>2
      <3>. QED  BY <1>3, <2>2, <3>1, UnitSets, PlacesGrow
    <2>5. PlaceOf(all, 0) = 1 /\ PlaceOf(all, n) \in Nat
      BY <1>3, <2>2, UnitSets, Places
    <2>. DEFINE a == At(i - 1)
                b == At(i)
                c == At(n)
    <2>6. /\ a \in Nat /\ b = a + 1 + lp /\ lp \in Nat /\ c \in Nat
          /\ b + (n - i) <= c /\ 1 + ((i - 1) - 0) <= a
      BY <1>4, <2>1, <2>3, <2>4, <2>5
    <2>. HIDE DEF a, b, c, lp
    <2>7. b <= c /\ 1 + n + lp <= c
      BY <1>2, <2>6
    <2>. QED  BY <2>6, <2>7 DEF b, c
  <1>8. Payload(delivered, e) = r.payload
    <2>1. r.payload \in Seq(Units)
      <3>1. r \in Records(Units)
        BY <1>2, <1>3, ElementOfSeq
      <3>. QED  BY <3>1 DEF Records
    <2>2. At(i - 1) + 1 \in Nat /\ At(i - 1) + 1 + lp <= Len(delivered)
      BY <1>1, <1>4
    <2>3. Slice(delivered, At(i - 1) + 1, lp) = r.payload
      BY <1>1, <1>4, <2>1, <2>2, SliceIs
    <2>. QED  BY <1>6, <2>3 DEF Payload
  <1>9. r.kind \in Kinds /\ (r.kind = "Directory" <=> r.id = 0)
    <2>1. r \in Records(Plain)
      BY <1>1, ElementOfSeq
    <2>. QED  BY <1>1, <2>1 DEF Lawful, Records
  <1>. QED  BY <1>1, <1>4, <1>5, <1>6, <1>7, <1>8, <1>9

\* The directory of an intact file.
LEMMA IntactDirectory ==
    ASSUME CommitInv, Intact
    PROVE  LET n == Len(Content)
               o == At(n) + 1
               data == Slice(delivered, o, n + 1)
           IN  /\ delivered[o] = RecordUnit("Directory", 0, n + 1)
               /\ IsDirectory(data) /\ data[1].entries = EntriesOf(Content)
               /\ Slice(delivered, o, 1)[1].entries = EntriesOf(Content)
               /\ EntriesOf(Content) \in Seq(Entries) /\ Len(EntriesOf(Content)) = n
               /\ DOMAIN EntriesOf(Content) = 1..n
  <1>. DEFINE n == Len(Content)
              o == At(n) + 1
              es == EntriesOf(Content)
              p == DirectoryOf(Content).payload
              r == Whole(Content)[n + 1]
  <1>1. Content \in Seq(Records(Plain)) /\ delivered \in Seq(Units) /\ Len(delivered) \in Nat
    BY IntactContent
  <1>2. r = DirectoryOf(Content) /\ n \in Nat /\ n \in 0..n
    <2>1. r = DirectoryOf(Content) /\ n \in Nat
      BY <1>1, WholeIsUnits
    <2>. QED  BY <2>1
  <1>3. es \in Seq(Entries) /\ Len(es) = n /\ DOMAIN es = 1..n
    BY <1>1, UnitSets, EntriesType, LenProperties
  <1>4. /\ DirectoryOf(Content).kind = "Directory" /\ DirectoryOf(Content).id = 0 /\ p = EncodeDirectory(es)
    BY DEF DirectoryOf
  <1>5. Len(p) = n + 1 /\ At(n) \in Nat /\ Len(delivered) = At(n) + n + 3
    BY IntactFrame
  <1>6. /\ delivered[o] = RecordUnit(r.kind, r.id, Len(r.payload))
        /\ \A i \in 1..Len(r.payload) : delivered[o + i] = r.payload[i]
    BY <1>2, IntactFile
  <1>7. delivered[o] = RecordUnit("Directory", 0, n + 1) /\ \A i \in 1..(n + 1) : delivered[o + i] = p[i]
    BY <1>2, <1>4, <1>5, <1>6
  <1>8. p \in Seq(Units)
    <2>1. DirectoryOf(Content) \in Records(Units)
      <3>1. n + 1 \in 1..(n + 1)
        BY <1>2
      <3>. QED  BY <1>2, <3>1, IntactRecords
    <2>. QED  BY <2>1 DEF Records
  <1>. HIDE DEF p, r, es
  <1>9. Slice(delivered, o, n + 1) = p
    <2>1. o \in Nat /\ o + Len(p) <= Len(delivered) /\ \A i \in 1..Len(p) : delivered[o + i] = p[i]
      BY <1>2, <1>5, <1>7
    <2>2. Slice(delivered, o, Len(p)) = p
      <3>. HIDE DEF o
      <3>. QED  BY <1>1, <1>8, <2>1, SliceIs
    <2>. QED  BY <1>5, <2>2
  <1>10. IsDirectory(p) /\ p[1].entries = es
    BY <1>3, <1>4, Recognised
  <1>11. Slice(delivered, o, 1)[1] = p[1]
    <2>. DEFINE h == <<p[1]>>
    <2>1. h \in Seq(Units) /\ Len(h) = 1 /\ h[1] = p[1]
      <3>1. 1 \in 1..Len(p)
        BY <1>2, <1>5
      <3>2. p[1] \in Units
        BY <1>8, <3>1, ElementOfSeq
      <3>. QED  BY <3>2
    <2>2. o \in Nat /\ o + 1 <= Len(delivered) /\ 1 \in 1..(n + 1) /\ \A i \in 1..1 : i = 1
      BY <1>2, <1>5
    <2>3. \A i \in 1..Len(h) : delivered[o + i] = h[i]
      BY <1>7, <2>1, <2>2
    <2>. HIDE DEF h, o
    <2>4. Slice(delivered, o, Len(h)) = h
      BY <1>1, <2>1, <2>2, <2>3, SliceIs
    <2>. QED  BY <2>1, <2>4
  <1>. QED  BY <1>3, <1>7, <1>9, <1>10, <1>11 DEF es

\* The identifiers in the directory are those of the records, each but zero once.
LEMMA IntactIds ==
    ASSUME CommitInv, Intact
    PROVE  /\ {e.id : e \in Range(EntriesOf(Content))} = {Content[j].id : j \in 1..Len(Content)}
           /\ \A i, j \in 1..Len(Content) :
                 EntriesOf(Content)[i].id = EntriesOf(Content)[j].id /\ EntriesOf(Content)[i].id # 0 => i = j
           /\ Distinct(EntriesOf(Content))
           /\ \A e \in Range(EntriesOf(Content)) : \E i \in 1..Len(Content) : e = EntriesOf(Content)[i]
           /\ \A i \in 1..Len(Content) : EntriesOf(Content)[i] \in Range(EntriesOf(Content))
  <1>. DEFINE n == Len(Content)
              es == EntriesOf(Content)
  <1>1. es \in Seq(Entries) /\ Len(es) = n /\ DOMAIN es = 1..n
    BY IntactDirectory
  <1>2. \A i \in 1..n : es[i].id = Content[i].id
    BY IntactEntry
  <1>3. \A i, j \in 1..n : Content[i].id = Content[j].id /\ Content[i].id # 0 => i = j
    BY IntactContent
  <1>. HIDE DEF es
  <1>4. Range(es) = {es[i] : i \in 1..n}
    BY <1>1, RangeEquality
  <1>5. {e.id : e \in Range(es)} = {Content[j].id : j \in 1..n}
    BY <1>2, <1>4
  <1>6. \A i, j \in 1..n : es[i].id = es[j].id /\ es[i].id # 0 => i = j
    BY <1>2, <1>3
  <1>7. Distinct(es)
    BY <1>1, <1>6 DEF Distinct
  <1>. QED  BY <1>4, <1>5, <1>6, <1>7 DEF es

\* The footer names a manifest that can be decoded and all of whose roots are there.
NamesManifest ==
    \E i \in 1..Len(Content) :
        /\ Content[i].kind = "Manifest" /\ Content[i].id = Foot.manifest
        /\ IsManifest(Content[i].payload)
        /\ Content[i].payload[1].m.roots \subseteq {Content[j].id : j \in 1..Len(Content)}

LEMMA IntactManifest ==
    ASSUME CommitInv, Intact
    PROVE  ManifestOk(delivered, EntriesOf(Content), Generous) <=> NamesManifest
  <1>. DEFINE n == Len(Content)
              es == EntriesOf(Content)
              ids == {Content[j].id : j \in 1..n}
              known == {e.id : e \in Range(es)}
  <1>1. Last(delivered) = Foot /\ Len(delivered) = At(n) + n + 3 /\ At(n) \in Nat /\ n \in Nat
    BY IntactFrame
  <1>2. DOMAIN es = 1..n
    BY IntactDirectory
  <1>3. known = ids
    BY IntactIds
  <1>4. ASSUME NEW i \in 1..n
        PROVE  /\ es[i].id = Content[i].id /\ es[i].kind = Content[i].kind
               /\ es[i].len <= Generous.metadata
               /\ Payload(delivered, es[i]) = Content[i].payload
    <2>1. /\ es[i].id = Content[i].id /\ es[i].kind = Content[i].kind
          /\ Payload(delivered, es[i]) = Content[i].payload
          /\ es[i].len = Len(Content[i].payload) /\ Len(Content[i].payload) \in Nat
          /\ 1 + n + Len(Content[i].payload) <= At(n)
      BY IntactEntry
    <2>2. Generous.metadata \in Nat /\ Len(delivered) <= Generous.metadata
      BY IntactContent, StreamAssumption DEF Fits, LimitNames
    <2>3. es[i].len <= Generous.metadata
      <3>. DEFINE l == Len(Content[i].payload)
                  g == Generous.metadata
                  d == Len(delivered)
                  a == At(n)
      <3>1. l \in Nat /\ 1 + n + l <= a /\ d = a + n + 3 /\ d <= g /\ g \in Nat /\ a \in Nat /\ n \in Nat
        BY <1>1, <2>1, <2>2
      <3>. HIDE DEF l, g, d, a, n
      <3>2. l <= g
        BY <3>1
      <3>. QED  BY <2>1, <3>2 DEF l, g
    <2>. QED  BY <2>1, <2>3
  <1>. HIDE DEF es, ids, known
  <1>5. NamesManifest <=> \E i \in 1..n :
                             /\ Content[i].kind = "Manifest" /\ Content[i].id = Foot.manifest
                             /\ IsManifest(Content[i].payload)
                             /\ Content[i].payload[1].m.roots \subseteq ids
    BY DEF NamesManifest, ids
  <1>6. ManifestOk(delivered, es, Generous) <=>
           \E i \in 1..n :
              /\ es[i].id = Foot.manifest /\ es[i].kind = "Manifest" /\ es[i].len <= Generous.metadata
              /\ IsManifest(Payload(delivered, es[i]))
              /\ Payload(delivered, es[i])[1].m.roots \subseteq known
    BY <1>1, <1>2 DEF ManifestOk, known
  <1>7. ASSUME NEW i \in 1..n
        PROVE  (/\ es[i].id = Foot.manifest /\ es[i].kind = "Manifest" /\ es[i].len <= Generous.metadata
                /\ IsManifest(Payload(delivered, es[i]))
                /\ Payload(delivered, es[i])[1].m.roots \subseteq known)
               <=> /\ Content[i].kind = "Manifest" /\ Content[i].id = Foot.manifest
                   /\ IsManifest(Content[i].payload)
                   /\ Content[i].payload[1].m.roots \subseteq ids
    BY <1>3, <1>4, Zenon
  <1>8. ManifestOk(delivered, es, Generous) <=> NamesManifest
    BY <1>5, <1>6, <1>7, Zenon
  <1>. QED  BY <1>8 DEF es

\* No directory stands among the records.
Objects == \A i \in 1..Len(Content) : Content[i].kind # "Directory"

LEMMA IntactInventory ==
    ASSUME CommitInv, Intact
    PROVE  InventoryOk(delivered, EntriesOf(Content), At(Len(Content)), Generous) <=> Objects
  <1>. DEFINE n == Len(Content)
              es == EntriesOf(Content)
              start(i) == IF i = 1 THEN 1 ELSE es[i - 1].offset + 1 + es[i - 1].len
  <1>1. FooterOffset(delivered) = At(n + 1) /\ Len(delivered) = At(n) + n + 3 /\ At(n) \in Nat /\ n \in Nat
        /\ At(n + 1) = At(n) + n + 2
    <2>1. FooterOffset(delivered) = At(n + 1) /\ Len(delivered) = At(n) + n + 3 /\ At(n) \in Nat /\ n \in Nat
      BY IntactFrame
    <2>2. At(n + 1) = At(n) + n + 2
      BY <2>1 DEF FooterOffset
    <2>. QED  BY <2>1, <2>2
  <1>2. DOMAIN es = 1..n /\ Distinct(es) /\ Len(es) = n /\ At(0) = 1
    BY IntactDirectory, IntactIds, IntactFile
  <1>3. ASSUME NEW i \in 1..(n + 1) PROVE start(i) = At(i - 1)
    <2>1. CASE i = 1
      BY <1>2, <2>1
    <2>2. CASE i # 1
      <3>1. i - 1 \in 1..n
        BY <1>1, <2>2
      <3>2. /\ es[i - 1].offset = At((i - 1) - 1) /\ es[i - 1].len = Len(Content[i - 1].payload)
            /\ At(i - 1) = At((i - 1) - 1) + 1 + Len(Content[i - 1].payload)
        BY <3>1, IntactEntry
      <3>. QED  BY <2>2, <3>2
    <2>. QED  BY <2>1, <2>2
  <1>4. ASSUME Objects, NEW i \in 1..n
        PROVE  LET e == es[i]
                   unit == delivered[e.offset + 1]
               IN  /\ e.id # 0 /\ e.offset = start(i) /\ e.offset < FooterOffset(delivered)
                   /\ IsRecord(unit, Generous) /\ unit.kind # "Directory"
                   /\ unit = RecordUnit(e.kind, e.id, e.len)
                   /\ e.offset + 1 + e.len <= At(n)
    <2>. DEFINE e == es[i]
                r == Content[i]
                unit == delivered[e.offset + 1]
                l == Len(r.payload)
                a == At(i - 1)
                b == At(i)
                c == At(n)
    <2>1. /\ e.kind = r.kind /\ e.id = r.id /\ e.offset = a /\ e.len = l
          /\ a \in Nat /\ l \in Nat /\ b = a + 1 + l /\ b <= c /\ 1 + n + l <= c
          /\ delivered[a + 1] = RecordUnit(r.kind, r.id, l)
          /\ r.id # 0 /\ r.kind # "Directory" /\ r.kind \in Kinds
      BY <1>4, IntactEntry DEF Objects
    <2>2. start(i) = a
      <3>1. i \in 1..(n + 1)
        BY <1>1
      <3>. QED  BY <1>3, <3>1
    <2>3. Generous.payload \in Nat /\ Len(delivered) <= Generous.payload
      BY IntactContent, StreamAssumption DEF Fits, LimitNames
    <2>4. unit = RecordUnit(r.kind, r.id, l)
      BY <2>1
    <2>5. unit.t = "record" /\ unit.kind = r.kind /\ unit.id = r.id /\ unit.len = l
      BY <2>4 DEF RecordUnit
    <2>6. a < FooterOffset(delivered) /\ a + 1 + l <= c /\ l <= Generous.payload
      <3>. DEFINE g == Generous.payload
                  d == Len(delivered)
                  f == FooterOffset(delivered)
      <3>1. /\ a \in Nat /\ l \in Nat /\ b = a + 1 + l /\ b <= c /\ 1 + n + l <= c /\ c \in Nat /\ n \in Nat
            /\ f = c + n + 2 /\ d = c + n + 3 /\ d <= g /\ g \in Nat
        BY <1>1, <2>1, <2>3
      <3>. HIDE DEF a, b, c, d, f, g, l, n
      <3>2. a < f /\ a + 1 + l <= c /\ l <= g
        BY <3>1
      <3>. QED  BY <3>2 DEF f, g
    <2>7. IsRecord(unit, Generous)
      <3>. HIDE DEF unit, r, l
      <3>. QED  BY <2>1, <2>5, <2>6 DEF IsRecord
    <2>. HIDE DEF start, a, b, c, l
    <2>8. unit.kind # "Directory"
      BY <2>1, <2>5
    <2>9. unit = RecordUnit(e.kind, e.id, e.len)
      BY <2>1, <2>4
    <2>10. e.id # 0 /\ e.offset = start(i) /\ e.offset < FooterOffset(delivered) /\ e.offset + 1 + e.len <= c
      BY <2>1, <2>2, <2>6
    <2>. QED  BY <2>7, <2>8, <2>9, <2>10 DEF c
  <1>5. start(Len(es) + 1) = At(n)
    <2>1. n + 1 \in 1..(n + 1) /\ (n + 1) - 1 = n
      BY <1>1
    <2>. HIDE DEF start
    <2>. QED  BY <1>2, <1>3, <2>1
  <1>6. Objects => InventoryOk(delivered, es, At(n), Generous)
    BY <1>2, <1>4, <1>5, Zenon DEF InventoryOk
  <1>7. ASSUME InventoryOk(delivered, es, At(n), Generous), NEW i \in 1..n
        PROVE  Content[i].kind # "Directory"
    <2>1. es[i].id # 0
      BY <1>2, <1>7 DEF InventoryOk
    <2>. QED  BY <2>1, IntactEntry
  <1>. QED  BY <1>6, <1>7 DEF Objects

\* The manifest a good footer names.
LEMMA NamedEntry ==
    ASSUME CommitInv, Intact, NamesManifest
    PROVE  \E i \in 1..Len(Content) :
              /\ Content[i].kind = "Manifest" /\ Content[i].id = Foot.manifest
              /\ (CHOOSE e \in Range(EntriesOf(Content)) : e.id = Foot.manifest) = EntriesOf(Content)[i]
              /\ (CHOOSE j \in DOMAIN EntriesOf(Content) : EntriesOf(Content)[j].id = Foot.manifest) = i
              /\ \A j \in 1..Len(Content) : Content[j].id = Foot.manifest => j = i
  <1>. DEFINE n == Len(Content)
              es == EntriesOf(Content)
              id == Foot.manifest
              e0 == CHOOSE e \in Range(es) : e.id = id
              j0 == CHOOSE j \in DOMAIN es : es[j].id = id
  <1>1. PICK i \in 1..n : Content[i].kind = "Manifest" /\ Content[i].id = id
    BY DEF NamesManifest
  <1>0. id # 0
    BY <1>1, IntactEntry
  <1>2. /\ \A x, y \in 1..n : es[x].id = es[y].id /\ es[x].id # 0 => x = y
        /\ \A e \in Range(es) : \E x \in 1..n : e = es[x]
        /\ \A x \in 1..n : es[x] \in Range(es)
    BY IntactIds
  <1>3. DOMAIN es = 1..n /\ \A x \in 1..n : es[x].id = Content[x].id
    BY IntactDirectory, IntactEntry
  <1>. HIDE DEF es, id
  <1>4. e0 \in Range(es) /\ e0.id = id
    BY <1>1, <1>2, <1>3, Zenon
  <1>5. j0 \in DOMAIN es /\ es[j0].id = id
    BY <1>1, <1>3, Zenon
  <1>. HIDE DEF e0, j0
  <1>6. PICK x \in 1..n : e0 = es[x]
    BY <1>2, <1>4
  <1>7. x = i /\ j0 = i
    BY <1>0, <1>1, <1>2, <1>3, <1>4, <1>5, <1>6
  <1>8. \A j \in 1..n : Content[j].id = id => j = i
    BY <1>0, <1>1, <1>2, <1>3
  <1>9. e0 = es[i]
    BY <1>6, <1>7
  <1>. QED  BY <1>1, <1>7, <1>8, <1>9 DEF es, id, e0, j0

\* SourceValidator accepts an intact file exactly when no directory is among its
\* objects and its footer counts them and names a manifest.
LEMMA IntactValidate ==
    ASSUME CommitInv, Intact
    PROVE  Validate(delivered, Generous) <=>
              Objects /\ Foot.count = Len(Content) + 1 /\ NamesManifest
  <1>. DEFINE n == Len(Content)
              es == EntriesOf(Content)
              c == At(n)
              data == Slice(delivered, c + 1, n + 1)
              manifest == CHOOSE e \in Range(es) : e.id = Foot.manifest
              Small == /\ manifest.len <= Generous.alloc
                       /\ 3 + (n + 1) + n + manifest.len <= Generous.read
                       /\ 3 + n + 1 + n + manifest.len + Len(delivered) <= Generous.read
  <1>1. /\ Framed(delivered, Generous) /\ Front(delivered) = Last(delivered).digest
        /\ Last(delivered) = Foot /\ Foot.directory.offset = c /\ Foot.directory.len = n + 2
        /\ c \in Nat /\ n \in Nat /\ Len(delivered) = c + n + 3
    BY IntactFrame
  <1>2. /\ delivered[c + 1] = RecordUnit("Directory", 0, n + 1)
        /\ IsDirectory(data) /\ data[1].entries = es
        /\ Slice(delivered, c + 1, 1)[1].entries = es
        /\ es \in Seq(Entries) /\ Len(es) = n
    BY IntactDirectory
  <1>3. /\ Fits(Len(delivered)) /\ Generous \in [LimitNames -> Nat]
        /\ Generous.chunk > 0 /\ Generous.alloc > 0
    BY IntactContent, StreamAssumption
  <1>4. /\ Len(delivered) <= Generous.payload /\ Len(delivered) <= Generous.metadata
        /\ Len(delivered) <= Generous.alloc /\ Len(delivered) <= Generous.records
        /\ 2 * Len(delivered) <= Generous.read
        /\ Generous.payload \in Nat /\ Generous.metadata \in Nat /\ Generous.alloc \in Nat
        /\ Generous.records \in Nat /\ Generous.read \in Nat
    BY <1>3 DEF Fits, LimitNames
  <1>5. InventoryOk(delivered, es, c, Generous) <=> Objects
    BY IntactInventory
  <1>6. ManifestOk(delivered, es, Generous) <=> NamesManifest
    BY IntactManifest
  <1>. HIDE DEF es, data
  <1>8. ASSUME NamesManifest PROVE Small
    <2>1. PICK i \in 1..n : manifest = es[i]
      BY <1>8, NamedEntry DEF es
    <2>. DEFINE l == Len(Content[i].payload)
    <2>2. es[i].len = l /\ l \in Nat /\ 1 + n + l <= c
      BY IntactEntry DEF es
    <2>. DEFINE d == Len(delivered)
                g == Generous.alloc
                h == Generous.read
    <2>3. /\ l \in Nat /\ 1 + n + l <= c /\ c \in Nat /\ n \in Nat /\ d = c + n + 3 /\ d <= g /\ g \in Nat
          /\ 2 * d <= h /\ h \in Nat
      BY <1>1, <1>4, <2>2
    <2>. HIDE DEF d, g, h, l, c, n
    <2>4. l <= g /\ 3 + (n + 1) + n + l <= h /\ 3 + n + 1 + n + l + d <= h
      BY <2>3
    <2>5. manifest.len = l
      BY <2>1, <2>2
    <2>. HIDE DEF manifest
    <2>. QED  BY <2>4, <2>5 DEF d, g, h
  <1>. DEFINE unit == delivered[c + 1]
  <1>9. unit.t = "record" /\ unit.kind = "Directory" /\ unit.id = 0 /\ unit.len = n + 1
    BY <1>2 DEF RecordUnit
  <1>10. n + 1 <= Generous.payload /\ n + 1 <= Generous.metadata /\ n + 1 <= Generous.alloc
         /\ n + 1 <= Generous.records /\ 1 + (n + 1) = n + 2 /\ n + 2 >= 1
    <2>. DEFINE d == Len(delivered)
                a1 == Generous.payload
                a2 == Generous.metadata
                a3 == Generous.alloc
                a4 == Generous.records
    <2>1. /\ d = c + n + 3 /\ c \in Nat /\ n \in Nat /\ d <= a1 /\ d <= a2 /\ d <= a3 /\ d <= a4
          /\ a1 \in Nat /\ a2 \in Nat /\ a3 \in Nat /\ a4 \in Nat
      BY <1>1, <1>4
    <2>. HIDE DEF d, a1, a2, a3, a4, c, n
    <2>2. n + 1 <= a1 /\ n + 1 <= a2 /\ n + 1 <= a3 /\ n + 1 <= a4 /\ 1 + (n + 1) = n + 2 /\ n + 2 >= 1
      BY <2>1
    <2>. QED  BY <2>2 DEF a1, a2, a3, a4
  <1>. HIDE DEF unit
  <1>11. IsRecord(unit, Generous)
    BY <1>9, <1>10 DEF IsRecord, Kinds
  <1>. HIDE DEF manifest, n, c
  <1>12. Inspect(delivered, Generous) <=>
            /\ Objects /\ n + 1 = Foot.count /\ NamesManifest
            /\ manifest.len <= Generous.alloc
            /\ 3 + (n + 1) + n + manifest.len <= Generous.read
    <2>1. Inspect(delivered, Generous) <=>
            /\ Framed(delivered, Generous)
            /\ Foot.directory.len >= 1
            /\ IsRecord(unit, Generous) /\ unit.kind = "Directory"
            /\ 1 + unit.len = Foot.directory.len
            /\ unit.len <= Generous.metadata /\ unit.len <= Generous.alloc
            /\ IsDirectory(data)
            /\ Len(es) + 1 = Foot.count /\ Len(es) + 1 <= Generous.records
            /\ InventoryOk(delivered, es, c, Generous)
            /\ ManifestOk(delivered, es, Generous)
            /\ manifest.len <= Generous.alloc
            /\ 3 + unit.len + Len(es) + manifest.len <= Generous.read
      <3>1. Slice(delivered, Foot.directory.offset + 1, delivered[Foot.directory.offset + 1].len) = data
        BY <1>1, <1>9 DEF data, unit
      <3>. QED  BY <1>1, <1>2, <3>1, Zenon DEF Inspect, unit, manifest
    <2>. QED  BY <1>1, <1>2, <1>5, <1>6, <1>9, <1>10, <1>11, <2>1
  <1>13. Validate(delivered, Generous) <=>
            /\ Inspect(delivered, Generous)
            /\ 3 + n + 1 + n + manifest.len + Len(delivered) <= Generous.read
    BY <1>1, <1>2, <1>3, Zenon DEF Validate, manifest
  <1>. QED  BY <1>8, <1>12, <1>13 DEF n

\* ValidatedFile::parse scans all the records of an intact file.
LEMMA IntactScan ==
    ASSUME CommitInv, Intact
    PROVE  LET found == ScanFrom(delivered, FooterOffset(delivered), Generous)
           IN  found.ok = TRUE /\ found.entries = EntriesOf(Whole(Content))
  <1>. DEFINE n == Len(Content)
              all == Whole(Content)
              end == FooterOffset(delivered)
              k == n + 1
  <1>1. end = At(k) /\ Len(delivered) = At(n) + n + 3 /\ At(n) \in Nat /\ n \in Nat
    BY IntactFrame
  <1>2. all \in Seq(Records(Units)) /\ Len(all) = k /\ k \in 0..Len(all) /\ k \in Nat /\ k - 1 = n
    BY <1>1, IntactFile
  <1>3. end \in Nat /\ end = Len(delivered) - 1 /\ delivered \in Seq(Units) /\ Len(delivered) \in Nat
    BY <1>1, IntactContent DEF FooterOffset
  <1>. HIDE DEF end
  <1>4. \A m : At(m) = PlaceOf(all, m)
    BY DEF At, PlaceOf
  <1>. HIDE DEF all
  <1>5. \A o \in 0..(end - 1) : IsRecord(delivered[o + 1], Generous) => delivered[o + 1].len \in Nat
    <2>1. TAKE o \in 0..(end - 1)
    <2>2. o + 1 \in 1..Len(delivered)
      BY <1>3
    <2>3. delivered[o + 1] \in Units
      BY <1>3, <2>2, ElementOfSeq
    <2>. QED  BY <2>3, RecordLength DEF IsRecord
  <1>6. ASSUME NEW m \in 0..(k - 1)
        PROVE  /\ IsRecord(delivered[PlaceOf(all, m) + 1], Generous)
               /\ delivered[PlaceOf(all, m) + 1] =
                     RecordUnit(all[m + 1].kind, all[m + 1].id, Len(all[m + 1].payload))
    <2>. DEFINE r == all[m + 1]
                l == Len(r.payload)
                unit == delivered[PlaceOf(all, m) + 1]
    <2>1. m \in 0..n /\ m + 1 \in 1..(n + 1)
      BY <1>1, <1>2
    <2>2. /\ At(m) \in Nat /\ l \in Nat /\ At(m + 1) = At(m) + 1 + l /\ At(m + 1) < Len(delivered)
          /\ unit = RecordUnit(r.kind, r.id, l)
      BY <1>4, <2>1, IntactFile DEF all
    <2>3. r.kind \in Kinds /\ (r.kind = "Directory" <=> r.id = 0)
      BY <2>1, IntactRecords DEF all
    <2>4. unit.t = "record" /\ unit.kind = r.kind /\ unit.id = r.id /\ unit.len = l
      BY <2>2 DEF RecordUnit
    <2>5. Generous.payload \in Nat /\ Len(delivered) <= Generous.payload
      BY IntactContent, StreamAssumption DEF Fits, LimitNames
    <2>6. l <= Generous.payload
      <3>. DEFINE a == At(m)
                  b == At(m + 1)
                  d == Len(delivered)
                  g == Generous.payload
      <3>1. a \in Nat /\ l \in Nat /\ b = a + 1 + l /\ b < d /\ d \in Nat /\ d <= g /\ g \in Nat
        BY <1>3, <2>2, <2>5
      <3>. HIDE DEF a, b, d, g, l
      <3>2. l <= g
        BY <3>1
      <3>. QED  BY <3>2 DEF g
    <2>. HIDE DEF unit, r, l
    <2>7. IsRecord(unit, Generous)
      BY <2>3, <2>4, <2>6 DEF IsRecord
    <2>. QED  BY <2>2, <2>7 DEF unit, r, l
  <1>7. PlaceOf(all, k) = end /\ PlaceOf(all, k) <= end /\ ~(PlaceOf(all, k) < end)
    BY <1>1, <1>3, <1>4
  <1>. DEFINE found == ScanFrom(delivered, end, Generous)
  <1>8. found.ok = TRUE /\ found.entries = SubSeq(EntriesOf(all), 1, k)
    <2>. HIDE DEF k
    <2>1. PlaceOf(all, k) < end =>
              \/ ~IsRecord(delivered[PlaceOf(all, k) + 1], Generous)
              \/ PlaceOf(all, k) + 1 + delivered[PlaceOf(all, k) + 1].len > end
      BY <1>7
    <2>2. Lie(all, k, delivered, end, Generous)
      BY <1>2, <1>3, <1>5, <1>6, <1>7, <2>1, Zenon DEF Lie
    <2>3. Finds(all, k, delivered, end, Generous)
      BY <2>2, ScanRecords, Zenon
    <2>. QED  BY <1>7, <2>3 DEF Finds
  <1>9. SubSeq(EntriesOf(all), 1, k) = EntriesOf(all)
    <2>1. EntriesOf(all) \in Seq(Entries) /\ Len(EntriesOf(all)) = k
      BY <1>2, UnitSets, EntriesType
    <2>. QED  BY <2>1, SubSeqFull
  <1>. QED  BY <1>8, <1>9 DEF all, end

\* The manifest the footer names requires no capability.
RequiresNothing ==
    \E i \in 1..Len(Content) :
        /\ Content[i].kind = "Manifest" /\ Content[i].id = Foot.manifest
        /\ Content[i].payload[1].m.required = {}

\* ValidatedFile::parse asks for the same of the footer and for nothing of the objects,
\* but for a manifest that requires no capability.
LEMMA IntactParse ==
    ASSUME CommitInv, Intact
    PROVE  /\ Parse(delivered, Generous) <=>
                 Foot.count = Len(Content) + 1 /\ NamesManifest /\ RequiresNothing
           /\ NamesManifest =>
                 (ManifestOf(delivered, EntriesOf(Content)).required = {} <=> RequiresNothing)
  <1>. DEFINE n == Len(Content)
              es == EntriesOf(Content)
              all == Whole(Content)
              records == EntriesOf(all)
              last == records[n + 1]
              c == At(n)
              found == ScanFrom(delivered, FooterOffset(delivered), Generous)
  <1>1. /\ Framed(delivered, Generous) /\ Front(delivered) = Last(delivered).digest
        /\ Last(delivered) = Foot /\ Foot.directory.offset = c
        /\ c \in Nat /\ n \in Nat /\ Len(delivered) = c + n + 3
        /\ Len(DirectoryOf(Content).payload) = n + 1
    BY IntactFrame
  <1>2. found.ok = TRUE /\ found.entries = records
    BY IntactScan
  <1>3. /\ all \in Seq(Records(Units)) /\ Len(all) = n + 1 /\ all[n + 1] = DirectoryOf(Content)
        /\ \A i \in 1..n : all[i] = Content[i]
    BY IntactContent, WholeIsUnits
  <1>4. records \in Seq(Entries) /\ Len(records) = n + 1 /\ DOMAIN records = 1..(n + 1)
    BY <1>3, UnitSets, EntriesType, LenProperties
  <1>5. es \in Seq(Entries) /\ Len(es) = n /\ DOMAIN es = 1..n
    BY IntactDirectory
  <1>6. last.kind = "Directory" /\ last.id = 0 /\ last.offset = c /\ last.len = n + 1
    <2>1. n + 1 \in 1..Len(all) /\ (n + 1) - 1 = n
      BY <1>1, <1>3
    <2>2. last = EntryOf(all, n + 1)
      BY <2>1 DEF EntriesOf
    <2>3. last = Entry("Directory", 0, 1 + Len(Laid(all, n)), n + 1)
      BY <1>1, <1>3, <2>1, <2>2 DEF EntryOf, DirectoryOf
    <2>. QED  BY <2>3 DEF Entry, At
  <1>7. \A i \in 1..n : records[i] = es[i]
    <2>1. TAKE i \in 1..n
    <2>2. i \in 1..(n + 1)
      BY <1>1
    <2>3. records[i] = EntryOf(all, i) /\ es[i] = EntryOf(Content, i)
      BY <1>3, <2>2 DEF EntriesOf
    <2>4. all[i] = Content[i] /\ \A j \in 1..(i - 1) : all[j] = Content[j]
      BY <1>1, <1>3
    <2>5. Laid(all, i - 1) = Laid(Content, i - 1)
      BY <2>4, LaidOfFirst
    <2>. QED  BY <2>3, <2>4, <2>5 DEF EntryOf
  <1>. HIDE DEF records, all, es
  <1>8. Front(records) = es
    <2>. DEFINE f == SubSeq(records, 1, n)
    <2>1. n \in 0..Len(records) /\ Len(records) - 1 = n
      BY <1>1, <1>4
    <2>2. f \in Seq(Entries) /\ Len(f) = n /\ \A i \in 1..n : f[i] = records[i]
      BY <1>4, <2>1, FirstOf
    <2>. HIDE DEF f
    <2>3. f = es
      BY <1>5, <1>7, <2>2, SeqEqual
    <2>. QED  BY <2>1, <2>3 DEF Front, f
  <1>9. Last(records) = last /\ records # <<>>
    BY <1>1, <1>4 DEF Last
  <1>11. Distinct(records)
    <2>1. \A i, j \in 1..n : es[i].id = es[j].id /\ es[i].id # 0 => i = j
      BY IntactIds DEF es
    <2>2. \A i \in 1..(n + 1) : i \in 1..n \/ i = n + 1
      BY <1>1
    <2>3. ASSUME NEW i \in 1..(n + 1), NEW j \in 1..(n + 1), records[i].id = records[j].id, i # j
          PROVE  records[i].id = 0
      <3>1. CASE i = n + 1
        BY <1>6, <3>1
      <3>2. CASE j = n + 1
        BY <1>6, <2>3, <3>2
      <3>3. CASE i \in 1..n /\ j \in 1..n
        BY <1>7, <2>1, <2>3, <3>3
      <3>. QED  BY <2>2, <3>1, <3>2, <3>3
    <2>. QED  BY <1>4, <2>3 DEF Distinct
  <1>12. /\ IsDirectory(Payload(delivered, last)) /\ Payload(delivered, last)[1].entries = es
    <2>1. Payload(delivered, last) = Slice(delivered, c + 1, n + 1)
      BY <1>6 DEF Payload
    <2>. QED  BY <2>1, IntactDirectory DEF es
  <1>13. n + 1 <= Generous.records /\ n + 1 <= Generous.metadata
    <2>. DEFINE d == Len(delivered)
                a == Generous.records
                b == Generous.metadata
    <2>1. d <= a /\ d <= b /\ a \in Nat /\ b \in Nat /\ d = c + n + 3 /\ c \in Nat /\ n \in Nat
      BY <1>1, IntactContent, StreamAssumption DEF Fits, LimitNames
    <2>. HIDE DEF a, b, d, c, n
    <2>2. n + 1 <= a /\ n + 1 <= b
      BY <2>1
    <2>. QED  BY <2>2 DEF a, b
  <1>14. ManifestOk(delivered, es, Generous) <=> NamesManifest
    BY IntactManifest DEF es
  <1>16. ASSUME NamesManifest
         PROVE  ManifestOf(delivered, es).required = {} <=> RequiresNothing
    <2>1. PICK i \in 1..n :
             /\ Content[i].kind = "Manifest" /\ Content[i].id = Foot.manifest
             /\ (CHOOSE j \in DOMAIN es : es[j].id = Foot.manifest) = i
             /\ \A j \in 1..n : Content[j].id = Foot.manifest => j = i
      BY <1>16, NamedEntry DEF es
    <2>2. Payload(delivered, es[i]) = Content[i].payload
      BY IntactEntry DEF es
    <2>3. ManifestOf(delivered, es) = Content[i].payload[1].m
      BY <1>1, <2>1, <2>2 DEF ManifestOf
    <2>4. RequiresNothing <=> Content[i].payload[1].m.required = {}
      BY <2>1 DEF RequiresNothing
    <2>. QED  BY <2>3, <2>4
  <1>. HIDE DEF last, c, n
  <1>17. Parse(delivered, Generous) <=>
            /\ n + 1 = Foot.count
            /\ ManifestOk(delivered, es, Generous)
            /\ ManifestOf(delivered, es).required = {}
    <2>1. Parse(delivered, Generous) <=>
            /\ Framed(delivered, Generous)
            /\ found.ok /\ Distinct(records)
            /\ Len(records) <= Generous.records /\ Len(records) = Foot.count
            /\ records # <<>> /\ last.kind = "Directory"
            /\ last.offset = Foot.directory.offset
            /\ Front(delivered) = Foot.digest
            /\ last.len <= Generous.metadata
            /\ IsDirectory(Payload(delivered, last))
            /\ Payload(delivered, last)[1].entries = es
            /\ ManifestOk(delivered, es, Generous)
            /\ ManifestOf(delivered, es).required = {}
      BY <1>1, <1>2, <1>8, <1>9, Zenon DEF Parse
    <2>2. /\ Framed(delivered, Generous) /\ found.ok /\ Distinct(records)
          /\ Len(records) = n + 1 /\ n + 1 <= Generous.records
          /\ records # <<>> /\ last.kind = "Directory"
          /\ last.offset = Foot.directory.offset
          /\ Front(delivered) = Foot.digest
          /\ last.len <= Generous.metadata
          /\ IsDirectory(Payload(delivered, last))
          /\ Payload(delivered, last)[1].entries = es
      BY <1>1, <1>2, <1>4, <1>6, <1>9, <1>11, <1>12, <1>13
    <2>. QED  BY <2>1, <2>2, Zenon
  <1>18. CASE NamesManifest
    BY <1>14, <1>16, <1>17, <1>18 DEF n, es
  <1>19. CASE ~NamesManifest
    BY <1>14, <1>17, <1>19
  <1>. QED  BY <1>18, <1>19

\* What the directory of an intact file lists, and what its manifests decode to.
LEMMA IntactListed ==
    ASSUME CommitInv, Intact
    PROVE  /\ Listed(delivered) = EntriesOf(Content)
           /\ (\A e \in Range(Listed(delivered)) : e.kind # "Directory") <=> Objects
           /\ Objects /\ (\A e \in Range(Listed(delivered)) :
                             e.kind = "Manifest" => IsManifest(Payload(delivered, e))) <=> Regular
  <1>. DEFINE n == Len(Content)
              es == EntriesOf(Content)
  <1>1. Listed(delivered) = es
    BY IntactFrame, IntactDirectory DEF Listed
  <1>2. /\ \A e \in Range(es) : \E i \in 1..n : e = es[i]
        /\ \A i \in 1..n : es[i] \in Range(es)
    BY IntactIds
  <1>3. \A i \in 1..n : es[i].kind = Content[i].kind /\ Payload(delivered, es[i]) = Content[i].payload
    BY IntactEntry
  <1>. HIDE DEF es, n
  <1>4. (\A e \in Range(es) : e.kind # "Directory") <=> \A i \in 1..n : Content[i].kind # "Directory"
    BY <1>2, <1>3
  <1>5. (\A e \in Range(es) : e.kind = "Manifest" => IsManifest(Payload(delivered, e)))
        <=> \A i \in 1..n : Content[i].kind = "Manifest" => IsManifest(Content[i].payload)
    <2>1. ASSUME \A e \in Range(es) : e.kind = "Manifest" => IsManifest(Payload(delivered, e)),
                 NEW i \in 1..n, Content[i].kind = "Manifest"
          PROVE  IsManifest(Content[i].payload)
      <3>1. es[i].kind = "Manifest" /\ es[i] \in Range(es)
        BY <1>2, <1>3, <2>1
      <3>2. IsManifest(Payload(delivered, es[i]))
        BY <2>1, <3>1
      <3>. QED  BY <1>3, <3>2
    <2>2. ASSUME \A i \in 1..n : Content[i].kind = "Manifest" => IsManifest(Content[i].payload),
                 NEW e \in Range(es), e.kind = "Manifest"
          PROVE  IsManifest(Payload(delivered, e))
      <3>1. PICK i \in 1..n : e = es[i]
        BY <1>2
      <3>2. Content[i].kind = "Manifest" /\ Payload(delivered, e) = Content[i].payload
        BY <1>3, <2>2, <3>1
      <3>. QED  BY <2>2, <3>2
    <2>. QED  BY <2>1, <2>2
  <1>6. Objects <=> \A i \in 1..n : Content[i].kind # "Directory"
    BY DEF Objects, n
  <1>7. Regular <=> \A i \in 1..n : /\ Content[i].kind # "Directory"
                                    /\ Content[i].kind = "Manifest" => IsManifest(Content[i].payload)
    BY DEF Regular, WellFormed, n
  <1>. QED  BY <1>1, <1>4, <1>5, <1>6, <1>7 DEF es

\* For a file of this writer, harmed or not, or of another that frames its records,
\* lists and signs them as they are, whatever they hold, and for limits beyond it:
\* the one-pass reader comes to a Commit event exactly when SourceValidator accepts
\* the file and every manifest in it can be decoded; and SourceValidator accepts it,
\* with a manifest that requires no capability, exactly when ValidatedFile::parse does
\* and no directory record stands among its objects.
THEOREM ReadersAlwaysAgree == Spec => []ReadersAgree
  <1>1. ShownInv => ReadersAgree
    <2>. DEFINE Decoded == \A e \in Range(Listed(delivered)) :
                              e.kind = "Manifest" => IsManifest(Payload(delivered, e))
                Undirected == \A e \in Range(Listed(delivered)) : e.kind # "Directory"
                Free == ManifestOf(delivered, Listed(delivered)).required = {}
    <2>1. SUFFICES ASSUME ShownInv, rd.st \in {"Done", "Failed"}, ~rd.io, rd.limits = Generous
                   PROVE  /\ rd.st = "Done" <=> Validate(delivered, Generous) /\ Decoded
                          /\ Validate(delivered, Generous) /\ Free <=>
                                Parse(delivered, Generous) /\ Undirected
      BY DEF ReadersAgree
    <2>2. CommitInv /\ IntactRead
      BY <2>1 DEF ShownInv, AgreeInv, GenuineInv
    <2>3. HasFile
      BY <2>1, <2>2 DEF CommitInv, FileKept, HasFile
    <2>4. CASE Intact
      <3>. DEFINE good == Foot.count = Len(Content) + 1
      <3>1. Validate(delivered, Generous) <=> Objects /\ good /\ NamesManifest
        BY <2>2, <2>4, IntactValidate
      <3>2. Parse(delivered, Generous) <=> good /\ NamesManifest /\ RequiresNothing
        BY <2>2, <2>4, IntactParse
      <3>3. (Undirected <=> Objects) /\ (Objects /\ Decoded <=> Regular)
        BY <2>2, <2>4, IntactListed
      <3>4. NamesManifest => (Free <=> RequiresNothing)
        BY <2>2, <2>4, IntactParse, IntactListed
      <3>5. rd.st = "Done" => Regular
        BY <2>1, <2>3, CommitIsRegular
      <3>6. Regular => (rd.st = "Done" <=> FooterGood)
        BY <2>1, <2>2, <2>4 DEF IntactRead, ReadingIntact
      <3>7. Regular => (FooterGood <=> good /\ NamesManifest)
        BY DEF Regular, WellFormed, FooterGood, NamesManifest
      <3>. HIDE DEF Decoded, Undirected, Free, good
      <3>. QED  BY <3>1, <3>2, <3>3, <3>4, <3>5, <3>6, <3>7
    <2>5. CASE ~Intact
      <3>1. rd.st # "Done"
        BY <2>1, <2>3, <2>5, CommitIsRegular
      <3>2. ~Validate(delivered, Generous)
        BY <2>2, <2>3, <2>5, HarmedIsRefused DEF Validate, Inspect
      <3>3. ~Parse(delivered, Generous)
        BY <2>2, <2>3, <2>5, HarmedIsRefused DEF Parse
      <3>. QED  BY <3>1, <3>2, <3>3
    <2>. QED  BY <2>4, <2>5
  <1>. QED  BY <1>1, InitShown, NextKeepsShown, PTL DEF Spec
-----------------------------------------------------------------------------
(* Salvage. *)

\* The file is what these records make of it, up to end, where it ends; or where it
\* ends with a part of the next fixed structure, or a footer, behind a whole record.
Laying(file, all, end) ==
    /\ end \in 0..Len(file) /\ end <= PlaceOf(all, Len(all))
    /\ \A i \in 1..end : file[i] = Body(all)[i]
    /\ \/ Len(file) = end
       \/ /\ Len(file) = end + 1 /\ file[end + 1].t \in {"torn", "footer"}
          /\ end # 0 => \E m \in {Len(all) - 1, Len(all)} : end = PlaceOf(all, m)

\* The records the writer has entries of, with as much of them, and then of their
\* directory, as the file has room for.
Shape(recs, entries, file, end, most) ==
    /\ Sound(recs) /\ entries = EntriesOf(recs)
    /\ Laying(file, Whole(recs), end)
    /\ end <= most

\* The records of the calls.
Calls == {[kind |-> "Opaque", id |-> i, payload |-> p] : i \in Ids, p \in Payloads}
         \cup {[kind |-> "Manifest", id |-> i, payload |-> EncodeManifest(m)] : i \in Ids, m \in Manifests}

\* What a failed call leaves is a part of its record or a part of the directory.
ShapeKept ==
    w.st \in {"failed", "gone"} =>
        \E recs \in {accepted} \cup {Append(accepted, r) : r \in Calls}, end \in 0..Len(sink) :
            Shape(recs, w.entries, sink, end, w.limits.file)

LEMMA BodyPlaces ==
    ASSUME NEW all \in Seq(Records(Units))
    PROVE  /\ Body(all) \in Seq(Units) /\ Len(Body(all)) = PlaceOf(all, Len(all))
           /\ Body(all)[1] = HeaderUnit
           /\ \A m \in 0..(Len(all) - 1) :
                 Body(all)[PlaceOf(all, m) + 1] =
                    RecordUnit(all[m + 1].kind, all[m + 1].id, Len(all[m + 1].payload))
  <1>. DEFINE n == Len(all)
              x == Laid(all, n)
              h == <<HeaderUnit>>
  <1>1. n \in Nat /\ n \in 0..Len(all)
    BY LenProperties
  <1>2. x \in Seq(Units) /\ Len(x) \in Nat
    BY <1>1, UnitSets, LaidSteps, LenProperties
  <1>3. h \in Seq(Units) /\ Len(h) = 1 /\ h[1] = HeaderUnit
    BY UnitSets
  <1>4. Body(all) = h \o x
    BY DEF Body
  <1>5. PlaceOf(all, n) = 1 + Len(x)
    BY DEF PlaceOf
  <1>. HIDE DEF x, h
  <1>6. /\ h \o x \in Seq(Units) /\ Len(h \o x) = Len(h) + Len(x)
        /\ \A i \in 1..(Len(h) + Len(x)) : (h \o x)[i] = IF i <= Len(h) THEN h[i] ELSE x[i - Len(h)]
    BY <1>2, <1>3, ConcatProperties, Zenon
  <1>7. Body(all)[1] = HeaderUnit
    <2>1. 1 \in 1..(Len(h) + Len(x)) /\ 1 <= Len(h)
      BY <1>2, <1>3
    <2>. QED  BY <1>3, <1>4, <1>6, <2>1
  <1>8. ASSUME NEW m \in 0..(n - 1)
        PROVE  Body(all)[PlaceOf(all, m) + 1] =
                  RecordUnit(all[m + 1].kind, all[m + 1].id, Len(all[m + 1].payload))
    <2>. DEFINE p == Len(Laid(all, m))
                r == all[m + 1]
                l == Len(r.payload)
                u == RecordUnit(r.kind, r.id, l)
    <2>1. n \in (m + 1)..Len(all)
      BY <1>1
    <2>2. p \in Nat /\ l \in Nat /\ p + 1 + l <= Len(x) /\ x[p + 1] = u
      BY <2>1, UnitSets, LaidRecord, Zenon DEF x
    <2>3. PlaceOf(all, m) = 1 + p
      BY DEF PlaceOf
    <2>. HIDE DEF p, l, u
    <2>4. 1 + p + 1 \in 1..(Len(h) + Len(x)) /\ ~(1 + p + 1 <= Len(h)) /\ 1 + p + 1 - Len(h) = p + 1
      BY <1>2, <1>3, <2>2
    <2>5. (h \o x)[1 + p + 1] = u
      BY <1>6, <2>2, <2>4
    <2>. QED  BY <1>4, <2>3, <2>5 DEF u, l
  <1>. QED  BY <1>3, <1>4, <1>5, <1>6, <1>7, <1>8

\* Limits that let a file of so many units through let a shorter one through.
LEMMA FitsShorter ==
    ASSUME NEW n \in Nat, Fits(n), NEW m \in 0..n
    PROVE  m <= Generous.payload /\ m <= Generous.records /\ Generous.payload \in Nat /\ Generous.records \in Nat
  <1>1. n <= Generous.payload /\ n <= Generous.records
    BY DEF Fits, LimitNames
  <1>2. Generous.payload \in Nat /\ Generous.records \in Nat
    BY StreamAssumption DEF LimitNames
  <1>. QED  BY <1>1, <1>2

\* A reader of such a file finds the records that are whole.
LEMMA LayingLies ==
    ASSUME NEW all \in Seq(Records(Units)), NEW file \in Seq(Units), NEW end, Laying(file, all, end), end # 0,
           \A i \in 1..Len(all) : all[i].kind = "Directory" <=> all[i].id = 0,
           Len(all) # 0, end <= Generous.payload,
           NEW k \in 0..Len(all), PlaceOf(all, k) <= end, k < Len(all) => end < PlaceOf(all, k + 1)
    PROVE  Lie(all, k, file, Len(file), Generous)
  <1>. DEFINE n == Len(all)
              P(m) == PlaceOf(all, m)
              R(m) == all[m + 1]
              L(m) == Len(R(m).payload)
              U(m) == RecordUnit(R(m).kind, R(m).id, L(m))
  <1>1. /\ P(0) = 1 /\ n \in Nat /\ \A m \in 0..n : P(m) \in Nat
        /\ \A m \in 0..(n - 1) : L(m) \in Nat /\ P(m + 1) = P(m) + 1 + L(m)
        /\ \A m, q \in 0..n : m <= q => P(m) <= P(q)
    BY UnitSets, Places, Zenon
  <1>2. /\ end \in 0..Len(file) /\ end <= P(n) /\ \A i \in 1..end : file[i] = Body(all)[i]
        /\ \/ Len(file) = end
           \/ /\ Len(file) = end + 1 /\ file[end + 1].t \in {"torn", "footer"}
              /\ \E m \in {n - 1, n} : end = P(m)
    BY DEF Laying
  <1>3. Len(file) \in Nat /\ end \in Nat /\ Generous.payload \in Nat
    BY <1>2, LenProperties, StreamAssumption DEF LimitNames
  <1>4. \A m \in 0..(n - 1) : Body(all)[P(m) + 1] = U(m)
    BY BodyPlaces, Zenon
  <1>5. \A o \in 0..(Len(file) - 1) : IsRecord(file[o + 1], Generous) => file[o + 1].len \in Nat
    <2>1. TAKE o \in 0..(Len(file) - 1)
    <2>2. o + 1 \in 1..Len(file)
      BY <1>3
    <2>3. file[o + 1] \in Units
      BY <2>2, ElementOfSeq
    <2>. QED  BY <2>3, RecordLength DEF IsRecord
  <1>6. \A m \in 0..(n - 1) : R(m).kind \in Kinds /\ (R(m).kind = "Directory" <=> R(m).id = 0)
    <2>1. TAKE m \in 0..(n - 1)
    <2>2. m + 1 \in 1..Len(all)
      BY <1>1
    <2>3. R(m) \in Records(Units)
      BY <2>2, ElementOfSeq
    <2>. QED  BY <2>2, <2>3 DEF Records
  <1>7. n # 0 /\ k \in Nat /\ k <= n /\ P(k) \in Nat /\ P(k) <= end /\ (k < n => end < P(k + 1))
    BY <1>1
  <1>. HIDE DEF P, n, L, R
  <1>8. ASSUME NEW m \in 0..(k - 1) PROVE IsRecord(file[P(m) + 1], Generous) /\ file[P(m) + 1] = U(m)
    <2>1. m \in 0..(n - 1) /\ m \in 0..n /\ m + 1 \in 0..n /\ m + 1 <= k /\ k \in 0..n
      BY <1>1, <1>7
    <2>2. /\ P(m) \in Nat /\ L(m) \in Nat /\ P(m + 1) = P(m) + 1 + L(m) /\ P(m + 1) <= P(k)
      BY <1>1, <2>1
    <2>3. P(m) + 1 \in 1..end /\ L(m) <= Generous.payload
      BY <1>3, <1>7, <2>2
    <2>4. file[P(m) + 1] = U(m)
      BY <1>2, <1>4, <2>1, <2>3
    <2>. DEFINE unit == file[P(m) + 1]
    <2>5. unit.t = "record" /\ unit.kind = R(m).kind /\ unit.id = R(m).id /\ unit.len = L(m)
      BY <2>4 DEF RecordUnit
    <2>6. IsRecord(unit, Generous)
      <3>. HIDE DEF unit
      <3>. QED  BY <1>6, <2>1, <2>3, <2>5 DEF IsRecord
    <2>. QED  BY <2>4, <2>6
  <1>9. P(k) <= Len(file)
    BY <1>2, <1>3, <1>7
  <1>10. ASSUME P(k) < Len(file)
         PROVE  ~IsRecord(file[P(k) + 1], Generous) \/ P(k) + 1 + file[P(k) + 1].len > Len(file)
    <2>1. CASE Len(file) = end
      <3>1. k \in 0..(n - 1) /\ P(k) + 1 \in 1..end /\ k < n
        <4>1. k # n
          <5>1. SUFFICES ASSUME k = n PROVE FALSE
            OBVIOUS
          <5>2. P(k) = P(n)
            BY <5>1
          <5>. QED  BY <1>2, <1>3, <1>7, <1>10, <2>1, <5>2
        <4>2. k \in 0..(n - 1) /\ k < n
          BY <1>1, <1>7, <4>1
        <4>3. P(k) + 1 \in 1..end
          BY <1>3, <1>7, <1>10, <2>1
        <4>. QED  BY <4>2, <4>3
      <3>2. file[P(k) + 1] = U(k) /\ P(k + 1) = P(k) + 1 + L(k) /\ end < P(k + 1)
        BY <1>1, <1>2, <1>4, <1>7, <3>1
      <3>3. file[P(k) + 1].len = L(k)
        BY <3>2 DEF RecordUnit
      <3>4. P(k) + 1 + L(k) > Len(file)
        BY <1>1, <1>3, <1>7, <2>1, <3>1, <3>2
      <3>. QED  BY <3>3, <3>4
    <2>2. CASE Len(file) # end
      <3>1. PICK m \in {n - 1, n} : end = P(m)
        BY <1>2, <2>2
      <3>2. Len(file) = end + 1 /\ file[end + 1].t \in {"torn", "footer"}
        BY <1>2, <2>2
      <3>3. P(k) = end
        <4>0. m \in 0..n /\ P(m) \in Nat
          BY <1>1, <1>7
        <4>1. CASE k < m
          <5>1. k + 1 \in 0..n /\ k + 1 <= m /\ k < n
            BY <1>1, <1>7, <4>0, <4>1
          <5>2. P(k + 1) <= P(m) /\ P(k + 1) \in Nat /\ end < P(k + 1)
            BY <1>1, <1>7, <4>0, <5>1
          <5>. QED  BY <3>1, <4>0, <5>2
        <4>2. CASE m < k
          <5>1. m + 1 \in 0..n /\ m + 1 <= k /\ k \in 0..n /\ m \in 0..(n - 1)
            BY <1>1, <1>7, <4>0, <4>2
          <5>2. P(m + 1) <= P(k) /\ L(m) \in Nat /\ P(m + 1) = P(m) + 1 + L(m)
            BY <1>1, <5>1
          <5>. QED  BY <1>7, <3>1, <4>0, <5>2
        <4>3. k = m \/ k < m \/ m < k
          BY <1>7, <4>0
        <4>. QED  BY <3>1, <4>1, <4>2, <4>3
      <3>4. file[P(k) + 1].t # "record"
        BY <3>2, <3>3
      <3>. QED  BY <3>4 DEF IsRecord
    <2>. QED  BY <2>1, <2>2
  <1>11. k \in 0..n /\ Len(file) \in Nat
    BY <1>1, <1>3, <1>7
  <1>. QED  BY <1>5, <1>8, <1>9, <1>10, <1>11, Zenon DEF Lie, P, n, L, R

\* Of a file that begins with a header some records are whole, and no more.
LEMMA LastWhole ==
    ASSUME NEW all \in Seq(Records(Units)), NEW end \in Nat, end # 0
    PROVE  \E k \in 0..Len(all) : PlaceOf(all, k) <= end /\ (k < Len(all) => end < PlaceOf(all, k + 1))
  <1>. DEFINE n == Len(all)
              P(m) == PlaceOf(all, m)
              fit == {k \in 0..n : P(k) <= end}
  <1>1. P(0) = 1 /\ n \in Nat /\ \A m \in 0..n : P(m) \in Nat
    BY UnitSets, Places, Zenon
  <1>. HIDE DEF P, n
  <1>2. 0 \in fit
    BY <1>1
  <1>3. fit \subseteq Nat /\ IsFiniteSet(fit)
    <2>0. fit \subseteq 0..n
      OBVIOUS
    <2>1. IsFiniteSet(0..n) /\ fit \subseteq 0..n
      <3>1. IsFiniteSet(0..n)
        BY <1>1, FS_Interval
      <3>. QED  BY <2>0, <3>1
    <2>. HIDE DEF fit
    <2>2. IsFiniteSet(fit)
      BY <2>1, FS_Subset
    <2>. QED  BY <1>1, <2>1, <2>2
  <1>4. PICK k \in fit : \A j \in fit : j <= k
    <2>. HIDE DEF fit
    <2>. QED  BY <1>2, <1>3, GreatestNumber
  <1>5. k \in 0..n /\ P(k) <= end
    OBVIOUS
  <1>6. ASSUME k < n PROVE end < P(k + 1)
    <2>1. k + 1 \in 0..n
      BY <1>1, <1>5, <1>6
    <2>2. ~(k + 1 <= k) /\ P(k + 1) \in Nat
      BY <1>1, <1>5, <2>1
    <2>3. k + 1 \notin fit
      <3>. HIDE DEF fit
      <3>. QED  BY <1>4, <2>2
    <2>4. ~(P(k + 1) <= end)
      BY <2>1, <2>3
    <2>. QED  BY <2>2, <2>4
  <1>. QED  BY <1>5, <1>6 DEF P, n

\* Salvage keeps what the scan found when nothing of it is to be refused.
LEMMA SalvageKeepsAll ==
    ASSUME NEW file, file # <<>>, file[1] = HeaderUnit,
           NEW found \in Seq(Entries), ScanFrom(file, Len(file), Generous).entries = found,
           Len(found) <= Generous.records, Distinct(found),
           \A i \in 1..(Len(found) - 1) : found[i].kind # "Directory"
    PROVE  Salvage(file, Generous) = found
  <1>. DEFINE n == Len(found)
              good(k) == /\ k <= Generous.records
                         /\ Distinct(SubSeq(found, 1, k))
                         /\ \A i \in 1..(k - 1) : found[i].kind # "Directory"
              kept == {k \in 0..n : good(k)}
              top == CHOOSE k \in kept : \A j \in kept : j <= k
  <1>1. n \in Nat /\ SubSeq(found, 1, n) = found
    BY LenProperties, SubSeqFull
  <1>2. good(n)
    BY <1>1
  <1>. HIDE DEF good
  <1>3. n \in kept /\ \A j \in kept : j <= n /\ j \in Nat
    BY <1>1, <1>2
  <1>4. Salvage(file, Generous) = SubSeq(found, 1, top)
    BY Zenon DEF Salvage, good
  <1>. HIDE DEF kept
  <1>5. top \in kept /\ \A j \in kept : j <= top
    <2>1. \E k \in kept : \A j \in kept : j <= k
      BY <1>3
    <2>. QED  BY <2>1
  <1>. HIDE DEF top
  <1>6. top = n
    BY <1>1, <1>3, <1>5
  <1>. QED  BY <1>1, <1>4, <1>6

\* Salvage finds the entries of the records that are complete, and of the directory.
SalvageFinds(entries, file) ==
    LET found == Salvage(file, Generous)
    IN  \E k \in 0..Len(entries) :
           /\ \A i \in DOMAIN entries :
                 i <= k <=> entries[i].offset + 1 + entries[i].len <= Len(file)
           /\ k <= Len(found) /\ SubSeq(found, 1, k) = SubSeq(entries, 1, k)
           /\ \A i \in (k + 1)..Len(found) : found[i].kind = "Directory"

\* The entries of records and of their directory.
LEMMA WholeEntries ==
    ASSUME NEW recs \in Seq(Records(Plain)), OneEach(recs), \A i \in 1..Len(recs) : Acceptable(recs[i])
    PROVE  LET n == Len(recs)
               all == Whole(recs)
               es == EntriesOf(all)
               en == EntriesOf(recs)
           IN  /\ n \in Nat /\ all \in Seq(Records(Units)) /\ Len(all) = n + 1
               /\ es \in Seq(Entries) /\ Len(es) = n + 1 /\ en \in Seq(Entries) /\ Len(en) = n
               /\ \A i \in 1..n : /\ es[i] = en[i] /\ en[i].kind # "Directory"
                                  /\ en[i].offset + 1 + en[i].len = PlaceOf(all, i)
               /\ es[n + 1].kind = "Directory" /\ Distinct(es)
               /\ \A i \in 1..(n + 1) : all[i].kind = "Directory" <=> all[i].id = 0
  <1>. DEFINE n == Len(recs)
              all == Whole(recs)
              es == EntriesOf(all)
              en == EntriesOf(recs)
              d == DirectoryOf(recs)
  <1>1. /\ n \in Nat /\ all \in Seq(Records(Units)) /\ Len(all) = n + 1
        /\ all[n + 1] = d /\ \A i \in 1..n : all[i] = recs[i]
    BY WholeIsUnits
  <1>2. /\ es \in Seq(Entries) /\ Len(es) = n + 1 /\ en \in Seq(Entries) /\ Len(en) = n
    BY <1>1, UnitSets, EntriesType
  <1>3. d.kind = "Directory" /\ d.id = 0
    BY DEF DirectoryOf
  <1>. HIDE DEF all, d
  <1>4. \A i \in 1..(n + 1) : es[i] = EntryOf(all, i)
    BY <1>1 DEF EntriesOf
  <1>5. \A i \in 1..n : en[i] = EntryOf(recs, i)
    BY <1>1 DEF EntriesOf
  <1>6. ASSUME NEW i \in 1..n
        PROVE  /\ EntryOf(all, i) = EntryOf(recs, i) /\ recs[i].kind # "Directory" /\ recs[i].id # 0
               /\ EntryOf(recs, i).kind = recs[i].kind /\ EntryOf(recs, i).id = recs[i].id
               /\ EntryOf(recs, i).offset + 1 + EntryOf(recs, i).len = PlaceOf(all, i)
    <2>1. \A j \in 1..(i - 1) : all[j] = recs[j]
      BY <1>1
    <2>2. Laid(all, i - 1) = Laid(recs, i - 1)
      BY <2>1, LaidOfFirst
    <2>3. EntryOf(all, i) = EntryOf(recs, i)
      BY <1>1, <2>2 DEF EntryOf
    <2>4. recs[i].kind # "Directory" /\ recs[i].id # 0
      <3>1. Acceptable(recs[i])
        OBVIOUS
      <3>. QED  BY <3>1 DEF Acceptable
    <2>5. EntryOf(recs, i).kind = recs[i].kind /\ EntryOf(recs, i).id = recs[i].id
          /\ EntryOf(recs, i).offset = 1 + Len(Laid(all, i - 1)) /\ EntryOf(recs, i).len = Len(all[i].payload)
      BY <1>1, <2>2 DEF EntryOf, Entry
    <2>. DEFINE m == i - 1
    <2>6. m \in 0..(Len(all) - 1) /\ m + 1 = i
      BY <1>1
    <2>. HIDE DEF m
    <2>7. PlaceOf(all, m + 1) = PlaceOf(all, m) + 1 + Len(all[m + 1].payload)
      BY <1>1, <2>6, UnitSets, Places, Zenon
    <2>8. PlaceOf(all, i) = PlaceOf(all, i - 1) + 1 + Len(all[i].payload)
      BY <2>6, <2>7 DEF m
    <2>9. PlaceOf(all, i - 1) = 1 + Len(Laid(all, i - 1))
      BY DEF PlaceOf
    <2>. QED  BY <2>3, <2>4, <2>5, <2>8, <2>9
  <1>7. \A i \in 1..n : /\ es[i] = en[i] /\ en[i].kind # "Directory" /\ en[i].id = recs[i].id /\ recs[i].id # 0
                        /\ en[i].offset + 1 + en[i].len = PlaceOf(all, i)
    <2>1. TAKE i \in 1..n
    <2>2. i \in 1..(n + 1)
      BY <1>1
    <2>. QED  BY <1>4, <1>5, <1>6, <2>2
  <1>8. es[n + 1].kind = "Directory" /\ es[n + 1].id = 0
    <2>1. n + 1 \in 1..(n + 1)
      BY <1>1
    <2>2. es[n + 1] = EntryOf(all, n + 1)
      BY <1>4, <2>1
    <2>. QED  BY <1>1, <1>3, <2>2 DEF EntryOf, Entry
  <1>9. \A i \in 1..(n + 1) : i \in 1..n \/ i = n + 1
    BY <1>1
  <1>10. \A i \in 1..(n + 1) : all[i].kind = "Directory" <=> all[i].id = 0
    BY <1>1, <1>3, <1>6, <1>9
  <1>11. Distinct(es)
    <2>1. DOMAIN es = 1..(n + 1)
      BY <1>2, LenProperties
    <2>. HIDE DEF es, en
    <2>2. SUFFICES ASSUME NEW i \in 1..(n + 1), NEW j \in 1..(n + 1), es[i].id = es[j].id, i # j
                   PROVE  es[i].id = 0
      BY <2>1 DEF Distinct
    <2>3. CASE i \in 1..n /\ j \in 1..n
      BY <1>7, <2>2, <2>3 DEF OneEach
    <2>. QED  BY <1>8, <1>9, <2>2, <2>3
  <1>. QED  BY <1>1, <1>2, <1>7, <1>8, <1>10, <1>11 DEF all

\* What a failed writer, or a cut, leaves of a file, is salvaged exactly.
LEMMA SalvageOfShape ==
    ASSUME NEW recs, NEW entries, NEW file \in Seq(Units), NEW end, NEW most \in Nat,
           Shape(recs, entries, file, end, most), Fits(most)
    PROVE  SalvageFinds(entries, file)
  <1>. DEFINE n == Len(recs)
              all == Whole(recs)
              es == EntriesOf(all)
              en == EntriesOf(recs)
              P(m) == PlaceOf(all, m)
  <1>1. /\ recs \in Seq(Records(Plain)) /\ OneEach(recs) /\ \A i \in 1..Len(recs) : Acceptable(recs[i])
        /\ entries = en /\ Laying(file, all, end) /\ end <= most
    BY DEF Shape, Sound
  <1>2. /\ n \in Nat /\ all \in Seq(Records(Units)) /\ Len(all) = n + 1
        /\ es \in Seq(Entries) /\ Len(es) = n + 1 /\ en \in Seq(Entries) /\ Len(en) = n
        /\ \A i \in 1..n : /\ es[i] = en[i] /\ en[i].kind # "Directory"
                           /\ en[i].offset + 1 + en[i].len = P(i)
        /\ es[n + 1].kind = "Directory" /\ Distinct(es)
        /\ \A i \in 1..(n + 1) : all[i].kind = "Directory" <=> all[i].id = 0
    BY <1>1, WholeEntries, Zenon
  <1>. HIDE DEF all, es, en
  <1>3. /\ P(0) = 1 /\ \A m \in 0..(n + 1) : P(m) \in Nat
        /\ \A m, q \in 0..(n + 1) : m <= q => P(m) <= P(q)
    BY <1>2, UnitSets, Places, Zenon
  <1>4. /\ end \in 0..Len(file) /\ end <= P(n + 1) /\ \A i \in 1..end : file[i] = Body(all)[i]
        /\ \/ Len(file) = end
           \/ /\ Len(file) = end + 1 /\ file[end + 1].t \in {"torn", "footer"}
              /\ end # 0 => \E m \in {n, n + 1} : end = P(m)
    <2>1. n + 1 - 1 = n
      BY <1>2
    <2>. QED  BY <1>1, <1>2, <2>1 DEF Laying
  <1>5. Len(file) \in Nat /\ end \in Nat /\ end \in 0..most
    BY <1>1, <1>4, LenProperties
  <1>6. end <= Generous.payload /\ end <= Generous.records /\ Generous.records \in Nat
    BY <1>5, FitsShorter
  <1>7. DOMAIN en = 1..n /\ Len(entries) = n
    BY <1>1, <1>2, LenProperties
  <1>. DEFINE found == Salvage(file, Generous)
  <1>8. SUFFICES \E k \in 0..n :
                   /\ \A i \in 1..n : i <= k <=> P(i) <= Len(file)
                   /\ k <= Len(found) /\ SubSeq(found, 1, k) = SubSeq(en, 1, k)
                   /\ \A i \in (k + 1)..Len(found) : found[i].kind = "Directory"
    <2>1. ASSUME NEW k \in 0..n, \A i \in 1..n : i <= k <=> P(i) <= Len(file)
          PROVE  \A i \in DOMAIN entries : i <= k <=> entries[i].offset + 1 + entries[i].len <= Len(file)
      BY <1>1, <1>2, <1>7, <2>1
    <2>. HIDE DEF found, P, n
    <2>. QED  BY <1>1, <1>7, <2>1 DEF SalvageFinds, found
  <1>9. CASE end = 0
    <2>1. Len(file) \in {0, 1} /\ (Len(file) = 1 => file[1].t \in {"torn", "footer"})
      BY <1>4, <1>9
    <2>2. file = <<>> \/ file[1] # HeaderUnit
      <3>1. Len(file) = 0 => file = <<>>
        BY EmptySeq
      <3>2. HeaderUnit.t = "header"
        BY DEF HeaderUnit
      <3>. QED  BY <2>1, <3>1, <3>2
    <2>3. found = <<>>
      BY <2>2 DEF Salvage
    <2>. HIDE DEF found
    <2>4. Len(found) = 0 /\ SubSeq(found, 1, 0) = <<>> /\ SubSeq(en, 1, 0) = <<>>
      BY <2>3, SubSeqEmpty
    <2>5. \A i \in 1..n : ~(P(i) <= Len(file)) /\ ~(i <= 0)
      <3>1. TAKE i \in 1..n
      <3>2. i \in 0..Len(all) /\ 0 \in 0..Len(all) /\ i \in 0..Len(all) /\ i \in Nat /\ i >= 1
        BY <1>2
      <3>3. P(0) + (i - 0) <= P(i)
        BY <1>2, <3>2, UnitSets, PlacesGrow
      <3>4. P(i) \in Nat
        BY <1>2, <1>3, <3>2
      <3>. DEFINE a == P(0)
                  b == P(i)
                  l == Len(file)
      <3>5. a = 1 /\ b \in Nat /\ a + (i - 0) <= b /\ l \in {0, 1}
        BY <1>3, <2>1, <3>3, <3>4
      <3>. HIDE DEF a, b, l
      <3>6. ~(b <= l) /\ ~(i <= 0)
        BY <3>2, <3>5
      <3>. QED  BY <3>6 DEF b, l
    <2>. QED  BY <1>2, <2>4, <2>5
  <1>10. CASE end # 0
    <2>1. PICK K \in 0..(n + 1) : P(K) <= end /\ (K < n + 1 => end < P(K + 1))
      BY <1>2, <1>5, <1>10, LastWhole
    <2>2. Lie(all, K, file, Len(file), Generous)
      BY <1>1, <1>2, <1>6, <1>10, <2>1, LayingLies
    <2>. DEFINE f == SubSeq(es, 1, K)
    <2>3. ScanFrom(file, Len(file), Generous).entries = f
      <3>1. Finds(all, K, file, Len(file), Generous)
        BY <2>2, ScanRecords, Zenon
      <3>. QED  BY <3>1 DEF Finds, es
    <2>4. f \in Seq(Entries) /\ Len(f) = K /\ \A i \in 1..K : f[i] = es[i]
      BY <1>2, FirstOf
    <2>5. file # <<>> /\ file[1] = HeaderUnit
      <3>1. 1 \in 1..end /\ Len(file) # 0
        BY <1>4, <1>5, <1>10
      <3>2. Body(all)[1] = HeaderUnit
        BY <1>2, BodyPlaces
      <3>. QED  BY <1>4, <3>1, <3>2
    <2>6. K \in Nat /\ P(K) \in Nat /\ K <= n + 1
      BY <1>2, <1>3
    <2>7. K <= Generous.records
      <3>1. K \in 0..Len(all) /\ 0 \in 0..Len(all) /\ K \in 0..Len(all)
        BY <1>2
      <3>2. P(0) + (K - 0) <= P(K)
        BY <1>2, <3>1, UnitSets, PlacesGrow
      <3>. HIDE DEF P
      <3>. QED  BY <1>3, <1>5, <1>6, <2>1, <2>6, <3>2
    <2>8. Distinct(f)
      <3>1. DOMAIN f = 1..K /\ DOMAIN es = 1..(n + 1) /\ \A i \in 1..K : i \in 1..(n + 1)
        BY <1>2, <2>4, <2>6, LenProperties
      <3>. HIDE DEF f
      <3>. QED  BY <1>2, <2>4, <3>1 DEF Distinct
    <2>9. \A i \in 1..(K - 1) : f[i].kind # "Directory"
      <3>1. \A i \in 1..(K - 1) : i \in 1..K /\ i \in 1..n
        BY <1>2, <2>6
      <3>. HIDE DEF f
      <3>. QED  BY <1>2, <2>4, <3>1
    <2>10. found = f
      <3>. HIDE DEF f
      <3>. QED  BY <2>3, <2>4, <2>5, <2>7, <2>8, <2>9, SalvageKeepsAll
    <2>. HIDE DEF f, found
    <2>. DEFINE k == IF K <= n THEN K ELSE n
    <2>11. k \in 0..n /\ k <= K /\ k \in 0..K /\ k \in Nat /\ (K <= n => k = K) /\ (~(K <= n) => K = n + 1 /\ k = n)
      BY <1>2, <2>6
    <2>. HIDE DEF k
    <2>12. SubSeq(found, 1, k) = SubSeq(en, 1, k)
      <3>1. /\ SubSeq(f, 1, k) \in Seq(Entries) /\ Len(SubSeq(f, 1, k)) = k
            /\ \A i \in 1..k : SubSeq(f, 1, k)[i] = f[i]
        BY <2>4, <2>11, FirstOf
      <3>2. /\ SubSeq(en, 1, k) \in Seq(Entries) /\ Len(SubSeq(en, 1, k)) = k
            /\ \A i \in 1..k : SubSeq(en, 1, k)[i] = en[i]
        BY <1>2, <2>11, FirstOf
      <3>3. \A i \in 1..k : i \in 1..K /\ i \in 1..n
        BY <1>2, <2>6, <2>11
      <3>4. \A i \in 1..k : f[i] = en[i]
        BY <1>2, <2>4, <3>3
      <3>5. SubSeq(f, 1, k) = SubSeq(en, 1, k)
        BY <3>1, <3>2, <3>4, SeqEqual
      <3>. QED  BY <2>10, <3>5
    <2>13. \A i \in (k + 1)..Len(found) : found[i].kind = "Directory"
      <3>1. TAKE i \in (k + 1)..Len(found)
      <3>2. Len(found) = K
        BY <2>4, <2>10
      <3>3. i = n + 1 /\ i \in 1..K
        BY <1>2, <2>6, <2>11, <3>2
      <3>. QED  BY <1>2, <2>4, <2>10, <3>3
    <2>14. ASSUME NEW i \in 1..n PROVE i <= k <=> P(i) <= Len(file)
      <3>1. i \in 0..(n + 1) /\ P(i) \in Nat /\ i \in Nat
        BY <1>2, <1>3
      <3>2. P(i) <= Len(file) <=> P(i) <= end
        <4>1. CASE Len(file) = end
          BY <4>1
        <4>2. CASE Len(file) # end
          <5>1. PICK m \in {n, n + 1} : end = P(m)
            BY <1>4, <1>10, <4>2
          <5>2. m \in 0..(n + 1) /\ i <= m
            BY <1>2
          <5>3. P(i) <= end
            BY <1>3, <3>1, <5>1, <5>2
          <5>. QED  BY <1>4, <1>5, <3>1, <5>3
        <4>. QED  BY <4>1, <4>2
      <3>3. CASE i <= K
        <4>1. P(i) <= P(K)
          BY <1>3, <3>1, <3>3
        <4>2. P(i) <= end
          BY <1>5, <2>1, <2>6, <3>1, <4>1
        <4>3. i <= k
          BY <1>2, <2>6, <2>11, <3>1, <3>3
        <4>. QED  BY <3>2, <4>2, <4>3
      <3>4. CASE ~(i <= K)
        <4>1. K + 1 \in 0..(n + 1) /\ K + 1 <= i /\ K < n + 1
          BY <1>2, <2>6, <3>1, <3>4
        <4>2. P(K + 1) <= P(i) /\ end < P(K + 1) /\ P(K + 1) \in Nat
          BY <1>3, <2>1, <3>1, <4>1
        <4>3. ~(P(i) <= end)
          <5>. HIDE DEF P
          <5>. QED  BY <1>5, <3>1, <4>2
        <4>4. ~(i <= k)
          BY <2>6, <2>11, <3>1, <3>4
        <4>. QED  BY <3>2, <4>3, <4>4
      <3>. QED  BY <3>3, <3>4
    <2>15. k <= Len(found)
      BY <2>4, <2>10, <2>11
    <2>. QED  BY <2>11, <2>12, <2>13, <2>14, <2>15
  <1>. QED  BY <1>9, <1>10

\* A file that is a part of another from its beginning.
Begins(part, file) == Len(part) <= Len(file) /\ \A i \in 1..Len(part) : part[i] = file[i]

LEMMA BeginsConcat ==
    ASSUME NEW s \in Seq(Units), NEW u \in Seq(Units), NEW n \in 0..Len(u)
    PROVE  /\ s \o SubSeq(u, 1, n) \in Seq(Units) /\ Len(s \o SubSeq(u, 1, n)) = Len(s) + n
           /\ Begins(s \o SubSeq(u, 1, n), s \o u)
  <1>. DEFINE p == SubSeq(u, 1, n)
              a == s \o p
              b == s \o u
  <1>1. p \in Seq(Units) /\ Len(p) = n /\ \A i \in 1..n : p[i] = u[i]
    BY FirstOf
  <1>2. Len(s) \in Nat /\ Len(u) \in Nat /\ n \in Nat /\ n <= Len(u)
    BY LenProperties
  <1>. HIDE DEF p
  <1>3. /\ a \in Seq(Units) /\ Len(a) = Len(s) + n
        /\ \A i \in 1..(Len(s) + n) : a[i] = IF i <= Len(s) THEN s[i] ELSE p[i - Len(s)]
    BY <1>1, ConcatProperties
  <1>4. /\ b \in Seq(Units) /\ Len(b) = Len(s) + Len(u)
        /\ \A i \in 1..(Len(s) + Len(u)) : b[i] = IF i <= Len(s) THEN s[i] ELSE u[i - Len(s)]
    BY ConcatProperties
  <1>. HIDE DEF a, b
  <1>5. ASSUME NEW i \in 1..(Len(s) + n) PROVE a[i] = b[i]
    <2>1. i \in 1..(Len(s) + Len(u))
      BY <1>2
    <2>2. CASE i <= Len(s)
      BY <1>3, <1>4, <2>1, <2>2
    <2>3. CASE ~(i <= Len(s))
      <3>1. i - Len(s) \in 1..n
        BY <1>2, <2>3
      <3>2. a[i] = p[i - Len(s)] /\ b[i] = u[i - Len(s)]
        BY <1>3, <1>4, <2>1, <2>3
      <3>. QED  BY <1>1, <3>1, <3>2
    <2>. QED  BY <2>2, <2>3
  <1>6. Begins(a, b)
    BY <1>2, <1>3, <1>4, <1>5 DEF Begins
  <1>. QED  BY <1>3, <1>6 DEF a, b, p

LEMMA BeginsAgain ==
    ASSUME NEW a \in Seq(Units), NEW b \in Seq(Units), NEW c \in Seq(Units), Begins(a, b), Begins(b, c)
    PROVE  Begins(a, c)
  <1>1. Len(a) \in Nat /\ Len(b) \in Nat /\ Len(c) \in Nat
    BY LenProperties
  <1>2. \A i \in 1..Len(a) : i \in 1..Len(b)
    BY <1>1 DEF Begins
  <1>. QED  BY <1>1, <1>2 DEF Begins

\* A file that is cut, and one that has a torn structure or a footer where a record ends.
LEMMA LayingPart ==
    ASSUME NEW all \in Seq(Records(Units)), NEW file \in Seq(Units), Begins(file, Body(all))
    PROVE  Laying(file, all, Len(file))
  <1>1. Len(Body(all)) = PlaceOf(all, Len(all)) /\ Len(file) \in Nat
    BY BodyPlaces, LenProperties
  <1>2. Len(file) \in 0..Len(file)
    BY <1>1
  <1>. QED  BY <1>1, <1>2 DEF Laying, Begins

LEMMA LayingTorn ==
    ASSUME NEW all \in Seq(Records(Units)), NEW file \in Seq(Units), Begins(file, Body(all)),
           NEW u \in Units, u.t \in {"torn", "footer"},
           Len(file) # 0 => \E m \in {Len(all) - 1, Len(all)} : Len(file) = PlaceOf(all, m)
    PROVE  Laying(Append(file, u), all, Len(file))
  <1>. DEFINE a == Append(file, u)
              l == Len(file)
  <1>1. Len(Body(all)) = PlaceOf(all, Len(all)) /\ Len(file) \in Nat
    BY BodyPlaces, LenProperties
  <1>2. a \in Seq(Units) /\ Len(a) = l + 1 /\ a[l + 1] = u /\ \A i \in 1..l : a[i] = file[i]
    BY AppendProperties
  <1>. HIDE DEF a
  <1>3. l \in 0..Len(a) /\ l <= PlaceOf(all, Len(all)) /\ \A i \in 1..l : a[i] = Body(all)[i]
    BY <1>1, <1>2 DEF Begins
  <1>4. Laying(a, all, l)
    BY <1>2, <1>3, Zenon DEF Laying
  <1>. QED  BY <1>4 DEF a

LEMMA LayingShorter ==
    ASSUME NEW all \in Seq(Records(Units)), NEW file \in Seq(Units), NEW part \in Seq(Units),
           IsPrefix(part, file), NEW end, Laying(file, all, end)
    PROVE  \E e \in 0..end : Laying(part, all, e)
  <1>. DEFINE l == Len(part)
              top == PlaceOf(all, Len(all))
  <1>1. l \in Nat /\ Len(file) \in Nat /\ l \in 0..l /\ l \in 0..Len(part)
    BY LenProperties
  <1>2. l <= Len(file) /\ \A i \in 1..l : part[i] = file[i]
    <2>1. l <= Len(file) /\ SubSeq(part, 1, l) = SubSeq(file, 1, l)
      BY Zenon DEF IsPrefix
    <2>2. l \in 0..Len(file) /\ l \in 0..Len(part)
      BY <1>1, <2>1
    <2>3. \A i \in 1..l : SubSeq(file, 1, l)[i] = file[i] /\ SubSeq(part, 1, l)[i] = part[i]
      <3>. HIDE DEF l
      <3>. QED  BY <2>2, FirstOf
    <2>. QED  BY <2>1, <2>3
  <1>3. /\ end \in 0..Len(file) /\ end <= top /\ \A i \in 1..end : file[i] = Body(all)[i]
        /\ Len(file) = end \/ Len(file) = end + 1
    BY DEF Laying
  <1>4. top \in Nat /\ end \in Nat
    <2>1. Len(all) \in Nat /\ \A m \in 0..Len(all) : PlaceOf(all, m) \in Nat
      BY UnitSets, Places
    <2>. QED  BY <1>1, <1>3, <2>1
  <1>5. CASE l <= end
    <2>. HIDE DEF top, l
    <2>1. l \in 0..end /\ l <= top /\ \A i \in 1..l : i \in 1..end
      BY <1>1, <1>3, <1>4, <1>5
    <2>2. \A i \in 1..l : part[i] = Body(all)[i]
      BY <1>2, <1>3, <2>1
    <2>3. Laying(part, all, l)
      BY <1>1, <2>1, <2>2 DEF Laying, l, top
    <2>. QED  BY <2>1, <2>3
  <1>6. CASE ~(l <= end)
    <2>1. l = Len(file)
      BY <1>1, <1>2, <1>3, <1>4, <1>6
    <2>2. part = file
      BY <1>2, <2>1, SeqEqual
    <2>3. end \in 0..end
      BY <1>4
    <2>. QED  BY <2>2, <2>3
  <1>. QED  BY <1>5, <1>6

\* All the records, where the directory begins and where it ends.
LEMMA BodyOfWhole ==
    ASSUME NEW recs, Sound(recs)
    PROVE  LET u == UnitsOf(DirectoryOf(recs))
           IN  /\ Whole(recs) \in Seq(Records(Units)) /\ Len(Whole(recs)) = Len(recs) + 1 /\ Len(recs) \in Nat
               /\ Body(recs) \in Seq(Units) /\ u \in Seq(Units) /\ Body(Whole(recs)) = Body(recs) \o u
               /\ Len(Body(recs)) \in Nat /\ Len(u) \in Nat /\ Len(u) # 0
               /\ Len(Body(recs)) = PlaceOf(Whole(recs), Len(recs))
               /\ Len(Body(recs)) + Len(u) = PlaceOf(Whole(recs), Len(recs) + 1)
               /\ Len(Body(recs)) # 0
  <1>. DEFINE d == DirectoryOf(recs)
              u == UnitsOf(d)
              n == Len(recs)
  <1>1. recs \in Seq(Records(Plain)) /\ n \in Nat
    BY LenProperties DEF Sound
  <1>2. d \in Records(Plain) /\ Whole(recs) = Append(recs, d)
    BY <1>1, UnitSets, DirectoryType DEF Whole
  <1>3. /\ Whole(recs) \in Seq(Records(Units)) /\ Len(Whole(recs)) = n + 1
        /\ \A i \in 1..n : Whole(recs)[i] = recs[i]
    BY <1>1, WholeIsUnits
  <1>4. u \in Seq(Plain) /\ Len(u) = 1 + Len(d.payload) /\ Len(d.payload) \in Nat
    BY <1>2, UnitSets, UnitsOfRecord
  <1>5. /\ Body(recs) \in Seq(Plain) /\ Len(Laid(recs, n)) \in Nat /\ Len(Body(recs)) = 1 + Len(Laid(recs, n))
        /\ Body(Whole(recs)) = Body(recs) \o u
    BY <1>1, <1>2, UnitSets, BodyAppend
  <1>6. Body(recs) \in Seq(Units) /\ u \in Seq(Units)
    BY <1>4, <1>5, UnitSets, SeqMonotonic
  <1>7. Len(Body(recs)) = PlaceOf(Whole(recs), n)
    <2>1. Laid(Whole(recs), n) = Laid(recs, n)
      BY <1>3, LaidOfFirst
    <2>. QED  BY <1>5, <2>1 DEF PlaceOf
  <1>. HIDE DEF u, d
  <1>8. Len(Body(recs)) + Len(u) = PlaceOf(Whole(recs), n + 1)
    <2>1. Len(Body(Whole(recs))) = PlaceOf(Whole(recs), n + 1)
      BY <1>3, BodyPlaces
    <2>2. Len(Body(recs) \o u) = Len(Body(recs)) + Len(u)
      BY <1>6, ConcatProperties
    <2>. QED  BY <1>5, <2>1, <2>2
  <1>9. Len(u) \in Nat /\ Len(u) # 0 /\ Len(Body(recs)) \in Nat /\ Len(Body(recs)) # 0
    BY <1>4, <1>5
  <1>. QED  BY <1>1, <1>3, <1>5, <1>6, <1>7, <1>8, <1>9 DEF u, d

\* The shape of a file with the records and a part of the directory.
LEMMA ShapeDirectory ==
    ASSUME NEW recs, Sound(recs), NEW n \in 0..Len(UnitsOf(DirectoryOf(recs))),
           NEW most, Len(Body(recs)) + n <= most
    PROVE  LET file == Body(recs) \o SubSeq(UnitsOf(DirectoryOf(recs)), 1, n)
               end == Len(Body(recs)) + n
           IN  /\ file \in Seq(Units) /\ Len(file) = end /\ end \in Nat
               /\ Shape(recs, EntriesOf(recs), file, end, most)
               /\ n \in {0, Len(UnitsOf(DirectoryOf(recs)))} =>
                     \A x \in Units : x.t \in {"torn", "footer"} =>
                        /\ Shape(recs, EntriesOf(recs), Append(file, x), end, most)
                        /\ Append(file, x) \in Seq(Units) /\ Len(Append(file, x)) = end + 1
  <1>. DEFINE u == UnitsOf(DirectoryOf(recs))
              s == Body(recs)
              all == Whole(recs)
              file == s \o SubSeq(u, 1, n)
              end == Len(s) + n
  <1>1. /\ all \in Seq(Records(Units)) /\ Len(all) = Len(recs) + 1 /\ Len(recs) \in Nat
        /\ s \in Seq(Units) /\ u \in Seq(Units) /\ Body(all) = s \o u
        /\ Len(s) \in Nat /\ Len(u) \in Nat /\ Len(s) = PlaceOf(all, Len(recs))
        /\ Len(s) + Len(u) = PlaceOf(all, Len(recs) + 1)
    BY BodyOfWhole, Zenon
  <1>. HIDE DEF u, s, all
  <1>2. n \in 0..Len(u)
    BY DEF u
  <1>3. file \in Seq(Units) /\ Len(file) = end /\ Begins(file, Body(all)) /\ end \in Nat
    <2>1. file \in Seq(Units) /\ Len(file) = Len(s) + n /\ Begins(file, s \o u)
      BY <1>1, <1>2, BeginsConcat
    <2>. HIDE DEF file
    <2>. QED  BY <1>1, <1>2, <2>1
  <1>. HIDE DEF file
  <1>4. Laying(file, all, end)
    BY <1>1, <1>3, LayingPart
  <1>5. end <= most
    BY DEF s
  <1>6. Shape(recs, EntriesOf(recs), file, end, most)
    BY <1>4, <1>5 DEF Shape, all
  <1>7. ASSUME n \in {0, Len(u)}, NEW x \in Units, x.t \in {"torn", "footer"}
        PROVE  /\ Shape(recs, EntriesOf(recs), Append(file, x), end, most)
               /\ Append(file, x) \in Seq(Units) /\ Len(Append(file, x)) = end + 1
    <2>1. \E m \in {Len(all) - 1, Len(all)} : Len(file) = PlaceOf(all, m)
      <3>1. Len(all) - 1 = Len(recs)
        BY <1>1
      <3>2. CASE n = 0
        <4>1. end = Len(s)
          BY <1>1, <3>2
        <4>. QED  BY <1>1, <1>3, <3>1, <4>1
      <3>3. CASE n = Len(u)
        BY <1>1, <1>3, <3>3
      <3>. QED  BY <1>7, <3>2, <3>3
    <2>2. Laying(Append(file, x), all, Len(file))
      BY <1>1, <1>3, <1>7, <2>1, LayingTorn
    <2>3. Append(file, x) \in Seq(Units) /\ Len(Append(file, x)) = end + 1
      BY <1>3, AppendProperties
    <2>4. Laying(Append(file, x), all, end)
      BY <1>3, <2>2
    <2>. HIDE DEF end
    <2>. QED  BY <1>5, <2>3, <2>4 DEF Shape, all
  <1>. QED  BY <1>3, <1>6, <1>7 DEF file, s, u

\* The shape of a file that ends in a record.
LEMMA ShapeRecord ==
    ASSUME NEW recs, Sound(recs), NEW r \in Records(Plain), Acceptable(r),
           \A e \in Range(EntriesOf(recs)) : e.id # r.id,
           NEW n \in 0..Len(UnitsOf(r)), NEW most, Len(Body(recs)) + n <= most
    PROVE  LET file == Body(recs) \o SubSeq(UnitsOf(r), 1, n)
               more == Append(recs, r)
               end == Len(Body(recs)) + n
           IN  /\ file \in Seq(Units) /\ Len(file) = end /\ end \in Nat
               /\ Shape(more, EntriesOf(more), file, end, most)
  <1>. DEFINE u == UnitsOf(r)
              s == Body(recs)
              more == Append(recs, r)
              all == Whole(more)
              d == UnitsOf(DirectoryOf(more))
              file == s \o SubSeq(u, 1, n)
              end == Len(s) + n
  <1>1. Sound(more) /\ Body(more) = s \o u
    BY OneMore
  <1>2. s \in Seq(Units) /\ Len(s) \in Nat
    BY BodyOfWhole
  <1>3. u \in Seq(Units)
    <2>1. u \in Seq(Plain)
      BY UnitSets, UnitsOfRecord
    <2>. HIDE DEF u
    <2>. QED  BY <2>1, UnitSets, SeqMonotonic
  <1>. HIDE DEF more, u, s
  <1>4. /\ all \in Seq(Records(Units)) /\ Body(more) \in Seq(Units) /\ d \in Seq(Units)
        /\ Body(all) = Body(more) \o d /\ Len(d) \in Nat
    BY <1>1, BodyOfWhole, Zenon
  <1>. HIDE DEF all, d
  <1>5. file \in Seq(Units) /\ Len(file) = end /\ Begins(file, Body(more)) /\ end \in Nat
    <2>1. n \in 0..Len(u)
      BY DEF u
    <2>2. Len(u) \in Nat
      BY <1>3, LenProperties
    <2>. QED  BY <1>1, <1>2, <1>3, <2>1, <2>2, BeginsConcat
  <1>6. Begins(Body(more), Body(all)) /\ Body(all) \in Seq(Units)
    <2>1. Len(d) \in 0..Len(d) /\ SubSeq(d, 1, Len(d)) = d
      BY <1>4, SubSeqFull
    <2>2. Body(all) \in Seq(Units) /\ Len(Body(all)) = Len(Body(more)) + Len(d)
          /\ \A i \in 1..(Len(Body(more)) + Len(d)) :
                Body(all)[i] = IF i <= Len(Body(more)) THEN Body(more)[i] ELSE d[i - Len(Body(more))]
      BY <1>4, ConcatProperties
    <2>3. Len(Body(more)) \in Nat
      BY <1>4, LenProperties
    <2>4. \A i \in 1..Len(Body(more)) : i \in 1..(Len(Body(more)) + Len(d)) /\ i <= Len(Body(more))
      BY <1>4, <2>3
    <2>5. \A i \in 1..Len(Body(more)) : Body(all)[i] = Body(more)[i]
      BY <2>2, <2>4
    <2>6. Len(Body(more)) <= Len(Body(all))
      BY <1>4, <2>2, <2>3
    <2>. QED  BY <2>2, <2>5, <2>6 DEF Begins
  <1>. HIDE DEF file
  <1>7. Begins(file, Body(all))
    BY <1>4, <1>5, <1>6, BeginsAgain
  <1>8. Laying(file, all, end)
    BY <1>4, <1>5, <1>7, LayingPart
  <1>9. end <= most
    BY DEF s
  <1>. HIDE DEF end
  <1>10. Shape(more, EntriesOf(more), file, end, most)
    BY <1>1, <1>8, <1>9 DEF Shape, all
  <1>. QED  BY <1>5, <1>10 DEF file, end, more, s, u

\* The sum of whole numbers is one.
LEMMA TotalType ==
    ASSUME NEW s \in Seq(Int)
    PROVE  Total(s) \in Int
  <1>. DEFINE N == Len(s)
              D(f, k) == IF k = 0 THEN 0 ELSE f[k - 1] + s[k]
              Steps(f, n) == f = [k \in 0..n |-> D(f, k)]
              G == {n \in Nat : n <= N => \E f : Steps(f, n)}
              t == CHOOSE f : Steps(f, N)
  <1>0. N \in Nat /\ \A k \in 1..N : s[k] \in Int
    BY LenProperties, ElementOfSeq
  <1>1. Total(s) = t[N]
    BY Zenon DEF Total
  <1>. HIDE DEF N
  <1>2. 0 \in G
    <2>. DEFINE f == [k \in 0..0 |-> 0]
                g == [k \in 0..0 |-> D(f, k)]
    <2>1. \A k \in 0..0 : f[k] = g[k]
      OBVIOUS
    <2>2. f = g
      BY <2>1
    <2>. HIDE DEF f
    <2>3. Steps(f, 0)
      BY <2>2
    <2>. HIDE DEF Steps
    <2>. QED  BY <2>3
  <1>3. ASSUME NEW n \in Nat, n \in G PROVE n + 1 \in G
    <2>1. SUFFICES ASSUME n + 1 <= N PROVE \E f : Steps(f, n + 1)
      <3>. HIDE DEF Steps
      <3>. QED  OBVIOUS
    <2>2. PICK f : Steps(f, n)
      <3>1. n <= N
        BY <1>0, <2>1
      <3>. HIDE DEF Steps
      <3>. QED  BY <1>3, <3>1
    <2>. DEFINE h == [k \in 0..(n + 1) |-> IF k = n + 1 THEN D(f, k) ELSE f[k]]
                g == [k \in 0..(n + 1) |-> D(h, k)]
    <2>3. \A k \in 0..n : f[k] = D(f, k) /\ h[k] = f[k]
      BY <2>2
    <2>4. ASSUME NEW k \in 0..(n + 1) PROVE h[k] = g[k]
      <3>1. h[k] = D(f, k)
        <4>1. CASE k = n + 1
          BY <4>1
        <4>2. CASE k # n + 1
          <5>1. k \in 0..n
            BY <4>2
          <5>. QED  BY <2>3, <5>1
        <4>. QED  BY <4>1, <4>2
      <3>2. D(h, k) = D(f, k)
        <4>1. CASE k = 0
          BY <4>1
        <4>2. CASE k # 0
          <5>1. k - 1 \in 0..n
            BY <4>2
          <5>2. h[k - 1] = f[k - 1]
            BY <2>3, <5>1
          <5>. HIDE DEF h
          <5>. QED  BY <5>2
        <4>. QED  BY <4>1, <4>2
      <3>3. g[k] = D(h, k)
        <4>. HIDE DEF h
        <4>. QED  OBVIOUS
      <3>. QED  BY <3>1, <3>2, <3>3
    <2>5. h = g
      BY <2>4
    <2>. HIDE DEF h
    <2>6. Steps(h, n + 1)
      BY <2>5
    <2>. HIDE DEF Steps
    <2>. QED  BY <2>6
  <1>4. \E f : Steps(f, N)
    <2>. HIDE DEF G
    <2>1. Nat \subseteq G
      BY <1>2, <1>3, NatSetInduction
    <2>2. N \in G /\ N <= N
      BY <1>0, <2>1
    <2>. HIDE DEF Steps
    <2>. QED  BY <2>2 DEF G
  <1>5. Steps(t, N)
    <2>. HIDE DEF Steps
    <2>. QED  BY <1>4, Zenon
  <1>. HIDE DEF t
  <1>6. \A k \in 0..N : t[k] = D(t, k)
    BY <1>5
  <1>. HIDE DEF Steps, G
  <1>. DEFINE H == {n \in Nat : n <= N => t[n] \in Int}
  <1>7. 0 \in H
    BY <1>0, <1>6
  <1>8. ASSUME NEW n \in Nat, n \in H PROVE n + 1 \in H
    <2>1. SUFFICES ASSUME n + 1 <= N PROVE t[n + 1] \in Int
      OBVIOUS
    <2>2. n + 1 \in 0..N /\ n + 1 \in 1..N /\ n <= N /\ (n + 1) - 1 = n /\ n + 1 # 0
      BY <1>0, <2>1
    <2>3. t[n + 1] = t[n] + s[n + 1]
      BY <1>6, <2>2
    <2>. QED  BY <1>0, <1>8, <2>2, <2>3
  <1>. HIDE DEF H
  <1>9. Nat \subseteq H
    BY <1>7, <1>8, NatSetInduction
  <1>. QED  BY <1>0, <1>1, <1>9 DEF H

LEMMA AllowedType ==
    ASSUME WriterType, Len(sink) <= w.limits.file, NEW pieces \in Seq(Int)
    PROVE  Allowed(pieces) \in Int
  <1>1. PICK k \in 0..Len(pieces) : Allowed(pieces) = Total(SubSeq(pieces, 1, k))
    BY AllowedIs
  <1>2. SubSeq(pieces, 1, k) \in Seq(Int)
    BY FirstOf
  <1>. QED  BY <1>1, <1>2, TotalType

\* What the sink has taken of the units of a call.
Took(units, allowed, out, n) ==
    /\ n \in 0..Len(units) /\ n <= allowed /\ out.taken = n /\ (out.ok \/ n < Len(units))
    /\ \/ out.sink = sink \o SubSeq(units, 1, n)
       \/ /\ n < Len(units) /\ units[n + 1].t \in {"header", "record", "footer"}
          /\ out.sink = Append(sink \o SubSeq(units, 1, n), TornUnit)

LEMMA OutcomeTook ==
    ASSUME NEW S, NEW units \in Seq(S), NEW allowed \in Int, NEW out \in Outcomes(units, allowed)
    PROVE  \E n \in 0..Len(units) : Took(units, allowed, out, n)
  <1>. DEFINE Some(n) == sink \o SubSeq(units, 1, n)
              short == {n \in 0..(Len(units) - 1) : n <= allowed}
              A == {[ok |-> TRUE, taken |-> n, sink |-> Some(n)] : n \in {Len(units)} \cap {allowed}}
              B == {[ok |-> FALSE, taken |-> n, sink |-> Some(n)] : n \in short}
              C == {[ok |-> FALSE, taken |-> n, sink |-> Append(Some(n), TornUnit)] :
                       n \in {m \in short \ {allowed} :
                                units[m + 1].t \in {"header", "record", "footer"}}}
  <1>1. out \in A \cup B \cup C
    BY Zenon DEF Outcomes
  <1>2. Len(units) \in Nat
    BY LenProperties
  <1>. HIDE DEF Some
  <1>3. CASE out \in A
    <2>. DEFINE n == Len(units)
    <2>1. n = allowed /\ out.taken = n /\ out.sink = Some(n) /\ out.ok
      BY <1>3
    <2>2. n \in 0..Len(units) /\ n <= allowed
      BY <1>2, <2>1
    <2>. HIDE DEF n
    <2>. QED  BY <2>1, <2>2 DEF Took, Some
  <1>4. CASE out \in B
    <2>1. PICK n \in short : out = [ok |-> FALSE, taken |-> n, sink |-> Some(n)]
      BY <1>4
    <2>2. n \in 0..Len(units) /\ n <= allowed /\ n < Len(units)
      BY <1>2
    <2>3. out.taken = n /\ out.sink = Some(n)
      BY <2>1
    <2>. QED  BY <2>2, <2>3 DEF Took, Some
  <1>5. CASE out \in C
    <2>1. PICK n \in short : /\ out = [ok |-> FALSE, taken |-> n, sink |-> Append(Some(n), TornUnit)]
                             /\ units[n + 1].t \in {"header", "record", "footer"}
      BY <1>5
    <2>2. n \in 0..Len(units) /\ n <= allowed /\ n < Len(units)
      BY <1>2
    <2>3. out.taken = n /\ out.sink = Append(Some(n), TornUnit)
      BY <2>1
    <2>. QED  BY <2>1, <2>2, <2>3 DEF Took, Some
  <1>. HIDE DEF A, B, C
  <1>. QED  BY <1>1, <1>3, <1>4, <1>5

\* What an open writer has.
LEMMA OpenIs ==
    ASSUME WriterInv, w.st = "open"
    PROVE  /\ WriterType /\ w \in Writers /\ Sound(accepted) /\ w.entries = EntriesOf(accepted)
           /\ sink = Body(accepted) /\ sink \in Seq(Plain) /\ sink \in Seq(Units) /\ Len(sink) \in Nat
           /\ w.limits.file \in Nat /\ Len(sink) <= w.limits.file
  <1>1. /\ w \in Writers /\ sink \in Seq(Plain) /\ sink \in Seq(Units) /\ WriterType
        /\ accepted \in Seq(Records(Plain)) /\ sink = Body(accepted)
        /\ w.entries = EntriesOf(accepted) /\ OneEach(accepted)
        /\ \A i \in 1..Len(accepted) : Acceptable(accepted[i])
        /\ Len(sink) <= w.limits.file
    BY DEF WriterInv, WriterType, WriterKeeps
  <1>2. Len(sink) \in Nat /\ w.limits.file \in Nat
    BY <1>1, LenProperties DEF Writers, LimitNames
  <1>. QED  BY <1>1, <1>2 DEF Sound

\* No payload has a unit that could be torn.
LEMMA PayloadIsNotFixed ==
    ASSUME NEW r \in Records(Plain), Acceptable(r), NEW n \in 1..Len(r.payload)
    PROVE  UnitsOf(r)[n + 1].t \notin {"header", "record", "footer"}
  <1>1. UnitsOf(r)[1 + n] = r.payload[n]
    BY UnitSets, UnitsOfRecord
  <1>2. Len(r.payload) \in Nat
    BY UnitSets, UnitsOfRecord
  <1>3. n + 1 = 1 + n
    BY <1>2
  <1>4. CASE r.kind = "Opaque"
    <2>1. r.payload[n] \in Bytes
      <3>1. r.payload \in Seq(Bytes)
        BY <1>4 DEF Acceptable
      <3>. QED  BY <3>1, ElementOfSeq
    <2>2. r.payload[n].t = "byte"
      BY <2>1 DEF Bytes
    <2>. QED  BY <1>1, <1>3, <2>2
  <1>5. CASE r.kind = "Manifest"
    <2>1. PICK m \in Manifests : r.payload = EncodeManifest(m)
      BY <1>5 DEF Acceptable
    <2>2. r.payload \in Seq(ManifestUnits)
      BY <2>1, EncodeManifestType
    <2>3. r.payload[n] \in ManifestUnits
      BY <2>2, ElementOfSeq
    <2>4. r.payload[n].t = "manifest"
      BY <2>3 DEF ManifestUnits
    <2>. QED  BY <1>1, <1>3, <2>4
  <1>. QED  BY <1>4, <1>5 DEF Acceptable

\* A call that writes a record and fails.
LEMMA WrittenKeepsShape ==
    ASSUME WriterInv, w.st = "open",
           NEW kind, NEW id, NEW payload, [kind |-> kind, id |-> id, payload |-> payload] \in Records(Plain),
           [kind |-> kind, id |-> id, payload |-> payload] \in Calls,
           Acceptable([kind |-> kind, id |-> id, payload |-> payload]),
           \A e \in Range(w.entries) : e.id # id,
           NEW pieces \in Seq(Int), NEW out \in Outcomes(Record(kind, id, payload), Allowed(pieces)),
           NEW res, res.sink = out.sink, res.taken = out.taken,
           Written(kind, id, payload, res)
    PROVE  ShapeKept'
  <1>. DEFINE r == [kind |-> kind, id |-> id, payload |-> payload]
              u == UnitsOf(r)
              al == Allowed(pieces)
              e == Entry(kind, id, Len(sink), Len(payload))
              more == Append(accepted, r)
              most == w.limits.file
  <1>1. r.kind = kind /\ r.id = id /\ r.payload = payload /\ r \in Records(Plain) /\ Acceptable(r) /\ r \in Calls
    OBVIOUS
  <1>2. u = Record(kind, id, payload)
    BY DEF UnitsOf
  <1>3. /\ WriterType /\ w \in Writers /\ Sound(accepted) /\ w.entries = EntriesOf(accepted)
        /\ sink = Body(accepted) /\ sink \in Seq(Units) /\ Len(sink) \in Nat
        /\ most \in Nat /\ Len(sink) <= most
    BY OpenIs
  <1>4. w' = [w EXCEPT !.st = IF res.ok THEN "open" ELSE "failed",
                       !.hashed = IF res.ok THEN @ \o SubSeq(res.sink, Len(sink) + 1, Len(res.sink))
                                  ELSE @,
                       !.entries = IF res.taken > 0 THEN Append(@, e) ELSE @]
        /\ sink' = out.sink
        /\ accepted' = IF res.ok THEN more ELSE accepted
    BY DEF Written
  <1>. HIDE DEF r
  <1>5. u \in Seq(Plain) /\ Len(u) = 1 + Len(payload) /\ Len(payload) \in Nat
        /\ u[1].t = "record"
    <2>1. /\ u \in Seq(Plain) /\ Len(u) = 1 + Len(r.payload) /\ Len(r.payload) \in Nat
          /\ u[1] = RecordUnit(r.kind, r.id, Len(r.payload))
      BY <1>1, UnitSets, UnitsOfRecord
    <2>. HIDE DEF u
    <2>. QED  BY <1>1, <2>1 DEF RecordUnit
  <1>6. Len(sink) + al <= most /\ al \in Int
    BY <1>3, AllowedFits, AllowedType
  <1>7. PICK n \in 0..Len(u) : Took(u, al, out, n)
    <2>1. out \in Outcomes(u, al)
      BY <1>2
    <2>. HIDE DEF u, al
    <2>. QED  BY <1>5, <1>6, <2>1, OutcomeTook
  <1>. HIDE DEF al, e
  <1>8. n \in Nat /\ n <= al /\ Len(sink) + n <= most /\ res.taken = n
    <2>1. n <= al /\ out.taken = n /\ n \in Nat
      BY <1>7 DEF Took
    <2>. QED  BY <1>3, <1>6, <2>1
  <1>9. CASE res.ok
    <2>1. w'.st = "open"
      BY <1>3, <1>4, <1>9 DEF Writers
    <2>. QED  BY <2>1 DEF ShapeKept
  <1>10. CASE ~res.ok
    <2>1. /\ w'.st = "failed" /\ w'.limits = w.limits /\ accepted' = accepted
          /\ w'.entries = IF n > 0 THEN Append(w.entries, e) ELSE w.entries
      BY <1>3, <1>4, <1>8, <1>10 DEF Writers
    <2>2. SUFFICES \E recs \in {accepted, more} : \E end \in 0..Len(sink') :
                      Shape(recs, w'.entries, sink', end, most)
      BY <1>1, <2>1 DEF ShapeKept
    <2>3. CASE n = 0
      <3>. DEFINE none == SubSeq(UnitsOf(DirectoryOf(accepted)), 1, 0)
                  file == sink \o none
                  end == Len(sink) + 0
      <3>1. none = <<>> /\ SubSeq(u, 1, n) = <<>>
        BY <2>3, SubSeqEmpty
      <3>2. sink' = file \/ sink' = Append(file, TornUnit)
        BY <1>4, <1>7, <3>1 DEF Took
      <3>3. /\ file \in Seq(Units) /\ Len(file) = end /\ end \in Nat
            /\ Shape(accepted, w.entries, file, end, most)
            /\ Shape(accepted, w.entries, Append(file, TornUnit), end, most)
            /\ Len(Append(file, TornUnit)) = end + 1
        <4>1. 0 \in 0..Len(UnitsOf(DirectoryOf(accepted))) /\ Len(Body(accepted)) + 0 <= most
          BY <1>3, BodyOfWhole
        <4>2. TornUnit \in Units /\ TornUnit.t \in {"torn", "footer"}
          BY UnitSets DEF TornUnit
        <4>. HIDE DEF most
        <4>. QED  BY <1>3, <4>1, <4>2, ShapeDirectory
      <3>. HIDE DEF file, none, end
      <3>4. w'.entries = w.entries
        BY <2>1, <2>3
      <3>5. end \in 0..Len(sink')
        BY <3>2, <3>3
      <3>6. Shape(accepted, w'.entries, sink', end, most)
        BY <3>2, <3>3, <3>4
      <3>. QED  BY <3>5, <3>6
    <2>4. CASE n # 0
      <3>. DEFINE file == sink \o SubSeq(u, 1, n)
                  end == Len(sink) + n
      <3>1. sink' = file
        <4>1. n < Len(u) => u[n + 1].t \notin {"header", "record", "footer"}
          <5>1. ASSUME n < Len(u) PROVE n \in 1..Len(r.payload)
            BY <1>1, <1>5, <1>8, <2>4, <5>1
          <5>. QED  BY <1>1, <5>1, PayloadIsNotFixed
        <4>. QED  BY <1>4, <1>7, <4>1 DEF Took
      <3>2. Append(w.entries, e) = EntriesOf(more)
        BY <1>1, <1>3, OneMore DEF e
      <3>3. /\ file \in Seq(Units) /\ Len(file) = end /\ end \in Nat
            /\ Shape(more, EntriesOf(more), file, end, most)
        <4>. HIDE DEF most
        <4>. QED  BY <1>1, <1>3, <1>8, ShapeRecord
      <3>. HIDE DEF file, end
      <3>4. w'.entries = EntriesOf(more)
        BY <1>8, <2>1, <2>4, <3>2
      <3>5. end \in 0..Len(sink')
        BY <3>1, <3>3
      <3>. QED  BY <3>1, <3>3, <3>4, <3>5
    <2>. QED  BY <2>3, <2>4
  <1>. QED  BY <1>9, <1>10

LEMMA AddOpaqueKeepsShape ==
    ASSUME WriterInv, NEW id \in Ids, NEW payload \in Payloads, AddOpaque(id, payload)
    PROVE  ShapeKept'
  <1>. DEFINE pieces == <<1, Len(payload)>>
              r == [kind |-> "Opaque", id |-> id, payload |-> payload]
  <1>1. payload \in Seq(Plain) /\ id \in Nat /\ Len(payload) \in Nat
    BY StreamAssumption, UnitSets, SeqMonotonic, LenProperties
  <1>2. r \in Records(Plain) /\ r \in Calls
    BY <1>1 DEF Records, Kinds, Calls
  <1>3. w.st = "open" /\ id # 0 /\ \A e \in Range(w.entries) : e.id # id
    BY DEF AddOpaque, MayBegin
  <1>4. Acceptable(r)
    BY <1>3, StreamAssumption DEF Acceptable
  <1>5. pieces \in Seq(Int)
    BY <1>1
  <1>6. PICK out \in Outcomes(Record("Opaque", id, payload), Allowed(pieces)) : Written("Opaque", id, payload, out)
    BY Zenon DEF AddOpaque
  <1>. HIDE DEF pieces
  <1>. QED  BY <1>2, <1>3, <1>4, <1>5, <1>6, WrittenKeepsShape

LEMMA AddFromReaderKeepsShape ==
    ASSUME WriterInv, NEW id \in Ids, NEW payload \in Payloads, AddOpaqueFromReader(id, payload)
    PROVE  ShapeKept'
  <1>. DEFINE chunk == ChunkLimit(w.limits)
              chunks == IF chunk = 0 THEN 0 ELSE (Len(payload) + chunk - 1) \div chunk
              sizes == [k \in 1..chunks |-> IF k < chunks THEN chunk
                                            ELSE Len(payload) - (chunks - 1) * chunk]
              pieces(supplied) == <<1>> \o SubSeq(sizes, 1, supplied)
              u == Record("Opaque", id, payload)
              r == [kind |-> "Opaque", id |-> id, payload |-> payload]
  <1>1. payload \in Seq(Plain) /\ id \in Nat /\ Len(payload) \in Nat
    BY StreamAssumption, UnitSets, SeqMonotonic, LenProperties
  <1>2. r \in Records(Plain) /\ r \in Calls
    BY <1>1 DEF Records, Kinds, Calls
  <1>3. w.st = "open" /\ id # 0 /\ \A e \in Range(w.entries) : e.id # id
    BY DEF AddOpaqueFromReader, MayBegin
  <1>4. Acceptable(r)
    BY <1>3, StreamAssumption DEF Acceptable
  <1>5. PICK supplied \in 0..chunks : \E out \in Outcomes(u, Allowed(pieces(supplied))) :
                Written("Opaque", id, payload, [out EXCEPT !.ok = @ /\ chunk > 0])
    BY Zenon DEF AddOpaqueFromReader
  <1>6. PICK out \in Outcomes(u, Allowed(pieces(supplied))) :
                Written("Opaque", id, payload, [out EXCEPT !.ok = @ /\ chunk > 0])
    BY <1>5
  <1>7. chunk \in Nat
    <2>1. w.limits \in [LimitNames -> Nat]
      BY DEF WriterInv, WriterType, Writers
    <2>2. w.limits.chunk \in Nat /\ w.limits.alloc \in Nat
      BY <2>1 DEF LimitNames
    <2>. QED  BY <2>2 DEF ChunkLimit
  <1>. HIDE DEF chunk
  <1>8. chunks \in Int
    <2>. DEFINE more == Len(payload) + chunk - 1
    <2>1. more \in Int
      BY <1>1, <1>7
    <2>. HIDE DEF more
    <2>2. chunk # 0 => more \div chunk \in Int
      BY <1>7, <2>1
    <2>. QED  BY <2>2 DEF more
  <1>. HIDE DEF chunks
  <1>9. supplied \in Nat /\ supplied <= chunks
    BY <1>8
  <1>10. \A i \in 1..supplied : sizes[i] \in Int
    <2>1. TAKE i \in 1..supplied
    <2>2. i \in 1..chunks
      BY <1>8, <1>9
    <2>. DEFINE rest == (chunks - 1) * chunk
    <2>3. rest \in Int
      BY <1>7, <1>8
    <2>. HIDE DEF rest
    <2>4. Len(payload) - rest \in Int /\ chunk \in Int
      BY <1>1, <1>7, <2>3
    <2>. QED  BY <2>2, <2>4 DEF rest
  <1>. HIDE DEF sizes
  <1>11. pieces(supplied) \in Seq(Int)
    <2>1. <<1>> \in Seq(Int)
      OBVIOUS
    <2>2. 1 \in Int /\ supplied \in Int
      BY <1>9
    <2>3. SubSeq(sizes, 1, supplied) \in Seq(Int)
      BY <1>10, <2>2, SubSeqProperties
    <2>. QED  BY <2>1, <2>3, ConcatProperties
  <1>. DEFINE al == Allowed(pieces(supplied))
  <1>12. out = [ok |-> out.ok, taken |-> out.taken, sink |-> out.sink]
    <2>. HIDE DEF u
    <2>1. out \in Outcomes(u, al)
      BY <1>6
    <2>. HIDE DEF al
    <2>2. \E a, b, c : out = [ok |-> a, taken |-> b, sink |-> c]
      BY <2>1 DEF Outcomes
    <2>. QED  BY <2>2
  <1>. DEFINE res == [out EXCEPT !.ok = @ /\ chunk > 0]
  <1>13. res.sink = out.sink /\ res.taken = out.taken
    BY <1>12
  <1>14. Written("Opaque", id, payload, res)
    BY <1>6
  <1>15. out \in Outcomes(u, Allowed(pieces(supplied)))
    BY <1>6
  <1>. HIDE DEF res, pieces
  <1>. QED  BY <1>2, <1>3, <1>4, <1>11, <1>13, <1>14, <1>15, WrittenKeepsShape

LEMMA AddManifestKeepsShape ==
    ASSUME WriterInv, NEW id \in Ids, NEW m \in Manifests, AddManifest(id, m)
    PROVE  ShapeKept'
  <1>. DEFINE payload == EncodeManifest(m)
              pieces == <<1, Len(payload)>>
              r == [kind |-> "Manifest", id |-> id, payload |-> payload]
  <1>1. payload \in Seq(Plain) /\ id \in Nat /\ Len(payload) \in Nat
    <2>1. payload \in Seq(ManifestUnits)
      BY EncodeManifestType
    <2>. HIDE DEF payload
    <2>. QED  BY <2>1, StreamAssumption, UnitSets, SeqMonotonic, LenProperties
  <1>2. PICK out \in Outcomes(Record("Manifest", id, payload), Allowed(pieces)) :
           Written("Manifest", id, payload, out)
    BY Zenon DEF AddManifest
  <1>3. w.st = "open" /\ id # 0 /\ ShapeOk(m) /\ \A e \in Range(w.entries) : e.id # id
    BY DEF AddManifest, MayBegin
  <1>4. Acceptable(r) /\ r \in Calls
    BY <1>3 DEF Acceptable, Calls
  <1>. HIDE DEF payload
  <1>5. r \in Records(Plain)
    BY <1>1 DEF Records, Kinds
  <1>6. pieces \in Seq(Int)
    BY <1>1
  <1>. HIDE DEF pieces
  <1>. QED  BY <1>2, <1>3, <1>4, <1>5, <1>6, WrittenKeepsShape

\* A sink that does not take the header.
LEMMA CreateKeepsShape == ASSUME WriterInv, Create PROVE ShapeKept'
  <1>. DEFINE u == <<HeaderUnit>>
              pieces == <<1>>
              al == Allowed(pieces)
              most == w.limits.file
  <1>1. PICK out \in Outcomes(u, al) :
           /\ sink' = out.sink
           /\ w' = [w EXCEPT !.st = IF out.ok THEN "open" ELSE "gone",
                             !.hashed = IF out.ok THEN u ELSE @]
    BY Zenon DEF Create
  <1>2. w.st = "new" /\ accepted' = accepted
    BY DEF Create
  <1>3. /\ w \in Writers /\ sink = <<>> /\ accepted = <<>> /\ w.entries = <<>> /\ Len(sink) <= most
        /\ WriterType /\ most \in Nat
    BY <1>2 DEF WriterInv, WriterType, WriterKeeps, Writers, LimitNames
  <1>4. u \in Seq(Units) /\ Len(u) = 1 /\ pieces \in Seq(Int)
    BY UnitSets
  <1>5. al \in Int
    BY <1>3, <1>4, AllowedType
  <1>. HIDE DEF u
  <1>6. PICK n \in 0..Len(u) : Took(u, al, out, n)
    <2>. HIDE DEF al
    <2>. QED  BY <1>4, <1>5, OutcomeTook
  <1>7. CASE w'.st # "gone"
    <2>1. w'.st = "open"
      BY <1>1, <1>3, <1>7 DEF Writers
    <2>. QED  BY <2>1 DEF ShapeKept
  <1>8. CASE w'.st = "gone"
    <2>1. ~out.ok /\ w'.entries = w.entries /\ w'.limits = w.limits
      BY <1>1, <1>3, <1>8 DEF Writers
    <2>2. n = 0
      BY <1>4, <1>6, <2>1 DEF Took
    <2>. DEFINE none == <<>>
                all == Whole(none)
                torn == Append(none, TornUnit)
    <2>3. sink' = none \/ sink' = torn
      <3>1. SubSeq(u, 1, n) = none
        BY <2>2, SubSeqEmpty
      <3>2. sink \o none = none
        BY <1>3
      <3>. QED  BY <1>1, <1>3, <1>6, <3>1, <3>2 DEF Took
    <2>4. none \in Seq(Records(Plain)) /\ none \in Seq(Units) /\ Len(none) = 0
      OBVIOUS
    <2>5. Sound(none)
      BY <2>4 DEF Sound, OneEach
    <2>6. EntriesOf(none) = none
      <3>1. EntriesOf(none) \in Seq(Entries) /\ Len(EntriesOf(none)) = 0
        BY <2>4, UnitSets, EntriesType
      <3>. QED  BY <3>1, EmptySeq
    <2>7. all \in Seq(Records(Units)) /\ Body(all) \in Seq(Units) /\ Len(Body(all)) \in Nat
      <3>1. all \in Seq(Records(Units))
        BY <2>5, BodyOfWhole
      <3>. HIDE DEF all
      <3>. QED  BY <3>1, BodyPlaces, LenProperties
    <2>8. torn \in Seq(Units) /\ Len(torn) = 1
      BY <2>4, UnitSets, AppendProperties
    <2>. HIDE DEF all, none, torn
    <2>9. Begins(none, Body(all))
      BY <2>4, <2>7 DEF Begins
    <2>10. Laying(none, all, 0)
      BY <2>4, <2>7, <2>9, LayingPart
    <2>11. Laying(torn, all, 0)
      <3>1. TornUnit \in Units /\ TornUnit.t \in {"torn", "footer"}
        BY UnitSets DEF TornUnit
      <3>. QED  BY <2>4, <2>7, <2>9, <3>1, LayingTorn DEF torn
    <2>12. Shape(none, w'.entries, sink', 0, most) /\ 0 \in 0..Len(sink')
      <3>1. Laying(sink', all, 0)
        BY <2>3, <2>10, <2>11
      <3>2. w'.entries = EntriesOf(none) /\ 0 <= most
        BY <1>3, <2>1, <2>6 DEF none
      <3>3. 0 \in 0..Len(sink')
        BY <2>3, <2>4, <2>8
      <3>. QED  BY <2>5, <3>1, <3>2, <3>3 DEF Shape, all
    <2>13. accepted' = none
      BY <1>2, <1>3 DEF none
    <2>. QED  BY <2>1, <2>12, <2>13 DEF ShapeKept
  <1>. QED  BY <1>7, <1>8

\* A sink that does not take all of the directory, or the footer.
LEMMA FinishKeepsShape ==
    ASSUME WriterInv, ShapeKept, NEW id \in Ids, Finish(id)
    PROVE  ShapeKept'
  <1>. DEFINE payload   == EncodeDirectory(w.entries)
              directory == Record("Directory", 0, payload)
              place     == [offset |-> Len(sink), len |-> 1 + Len(payload)]
              footer    == FooterUnit(place, id, Len(w.entries) + 1, w.hashed \o directory)
              counted   == Len(w.entries) + 1 <= w.limits.records
              pieces    == <<1, Len(payload)>> \o (IF counted THEN <<1>> ELSE <<>>)
              u         == Append(directory, footer)
              al        == Allowed(pieces)
              most      == w.limits.file
              d         == UnitsOf(DirectoryOf(accepted))
  <1>1. w \in Writers /\ accepted' = accepted /\ w.st \in {"open", "failed"}
    BY DEF WriterInv, WriterType, Finish
  <1>2. CASE w.st = "failed"
    <2>1. w' = [w EXCEPT !.st = "gone"] /\ sink' = sink
      BY <1>2, Zenon DEF Finish
    <2>2. w'.limits = w.limits /\ w'.st = "gone" /\ w'.entries = w.entries
      BY <1>1, <2>1 DEF Writers
    <2>. QED  BY <1>1, <1>2, <2>1, <2>2 DEF ShapeKept
  <1>3. CASE w.st = "open"
    <2>1. /\ WriterType /\ Sound(accepted) /\ w.entries = EntriesOf(accepted)
          /\ sink = Body(accepted) /\ sink \in Seq(Units) /\ Len(sink) \in Nat
          /\ most \in Nat /\ Len(sink) <= most
      BY <1>3, OpenIs
    <2>2. d \in Seq(Units) /\ Len(d) \in Nat /\ Len(d) # 0
      BY <2>1, BodyOfWhole
    <2>3. ASSUME NEW n \in 0..Len(d), Len(sink) + n <= most
          PROVE  LET file == sink \o SubSeq(d, 1, n)
                     end == Len(sink) + n
                 IN  /\ file \in Seq(Units) /\ Len(file) = end /\ end \in 0..Len(file) /\ end \in 0..(end + 1)
                     /\ Shape(accepted, w.entries, file, end, most)
                     /\ n \in {0, Len(d)} =>
                           /\ Shape(accepted, w.entries, Append(file, TornUnit), end, most)
                           /\ Len(Append(file, TornUnit)) = end + 1
      <3>1. TornUnit \in Units /\ TornUnit.t \in {"torn", "footer"}
        BY UnitSets DEF TornUnit
      <3>. DEFINE file == sink \o SubSeq(d, 1, n)
                  end == Len(sink) + n
      <3>2. /\ file \in Seq(Units) /\ Len(file) = end /\ end \in Nat
            /\ Shape(accepted, w.entries, file, end, most)
            /\ n \in {0, Len(d)} =>
                  /\ Shape(accepted, w.entries, Append(file, TornUnit), end, most)
                  /\ Len(Append(file, TornUnit)) = end + 1
        <4>. HIDE DEF most
        <4>. QED  BY <2>1, <2>3, <3>1, ShapeDirectory
      <3>. HIDE DEF file, end
      <3>3. end \in 0..Len(file) /\ end \in 0..(end + 1)
        BY <3>2
      <3>. QED  BY <3>2, <3>3 DEF file, end
    <2>4. CASE ~MayFinish(id)
      <3>1. w' = [w EXCEPT !.st = "gone"] /\ sink' = sink
        BY <2>4, Zenon DEF Finish
      <3>2. w'.limits = w.limits /\ w'.st = "gone" /\ w'.entries = w.entries
        BY <1>1, <3>1 DEF Writers
      <3>3. 0 \in 0..Len(d) /\ Len(sink) + 0 <= most /\ SubSeq(d, 1, 0) = <<>> /\ sink \o <<>> = sink
            /\ Len(sink) + 0 = Len(sink)
        BY <2>1, <2>2, SubSeqEmpty, ConcatEmptySeq
      <3>. HIDE DEF d, most
      <3>4. Shape(accepted, w.entries, sink, Len(sink), most) /\ Len(sink) \in 0..Len(sink)
        BY <2>3, <3>3
      <3>. QED  BY <1>1, <3>1, <3>2, <3>4 DEF ShapeKept, most
    <2>5. CASE MayFinish(id)
      <3>1. PICK out \in Outcomes(u, al) :
               /\ sink' = out.sink
               /\ w' = [w EXCEPT !.st = IF out.ok THEN "finished" ELSE "gone", !.manifest = id]
        BY <1>3, <2>5, Zenon DEF Finish
      <3>2. directory = d
        BY <2>1 DEF DirectoryOf, UnitsOf
      <3>3. pieces \in Seq(Int)
        <4>1. Len(payload) \in Nat
          <5>1. w.entries \in Seq(Entries)
            BY <1>1 DEF Writers
          <5>2. Len(payload) = 1 + Len(w.entries) /\ Len(w.entries) \in Nat
            BY <5>1, EncodeDirectoryType
          <5>. QED  BY <5>2
        <4>2. <<1, Len(payload)>> \in Seq(Int) /\ <<1>> \in Seq(Int) /\ <<>> \in Seq(Int)
          BY <4>1
        <4>. HIDE DEF payload
        <4>. QED  BY <4>2, ConcatProperties
      <3>. HIDE DEF pieces
      <3>4. Len(sink) + al <= most /\ al \in Int
        BY <2>1, <3>3, AllowedFits, AllowedType
      <3>. DEFINE S == Units \cup {footer}
      <3>5. /\ u \in Seq(S) /\ Len(u) = Len(d) + 1 /\ \A i \in 1..Len(d) : u[i] = d[i]
        <4>. HIDE DEF directory, footer
        <4>1. directory \in Seq(S) /\ footer \in S
          BY <2>2, <3>2, SeqMonotonic
        <4>. HIDE DEF S
        <4>. QED  BY <3>2, <4>1, AppendProperties
      <3>. HIDE DEF u, S, al
      <3>6. PICK n \in 0..Len(u) : Took(u, al, out, n)
        BY <3>1, <3>4, <3>5, OutcomeTook
      <3>7. CASE out.ok
        <4>1. w'.st = "finished"
          BY <1>1, <3>1, <3>7 DEF Writers
        <4>. QED  BY <4>1 DEF ShapeKept
      <3>8. CASE ~out.ok
        <4>1. w'.st = "gone" /\ w'.limits = w.limits /\ w'.entries = w.entries
          BY <1>1, <3>1, <3>8 DEF Writers
        <4>. DEFINE file == sink \o SubSeq(d, 1, n)
                    end == Len(sink) + n
        <4>2. n \in 0..Len(d) /\ Len(sink) + n <= most
          BY <2>1, <2>2, <3>4, <3>5, <3>6, <3>8 DEF Took
        <4>3. SubSeq(u, 1, n) = SubSeq(d, 1, n)
          <5>. DEFINE a == SubSeq(u, 1, n)
                      b == SubSeq(d, 1, n)
          <5>. HIDE DEF d
          <5>1. a \in Seq(S) /\ Len(a) = n /\ \A i \in 1..n : a[i] = u[i]
            BY <3>5, <3>6, FirstOf
          <5>2. b \in Seq(Units) /\ Len(b) = n /\ \A i \in 1..n : b[i] = d[i]
            BY <2>2, <4>2, FirstOf
          <5>3. b \in Seq(S)
            BY <5>2, SeqMonotonic DEF S
          <5>. HIDE DEF a, b
          <5>4. \A i \in 1..n : i \in 1..Len(d)
            BY <2>2, <4>2
          <5>5. \A i \in 1..Len(a) : a[i] = b[i]
            BY <3>5, <5>1, <5>2, <5>4
          <5>6. a = b
            BY <5>1, <5>2, <5>3, <5>5, SeqEqual
          <5>. QED  BY <5>6 DEF a, b
        <4>4. \/ sink' = file
              \/ sink' = Append(file, TornUnit) /\ n \in {0, Len(d)}
          <5>1. ASSUME n # 0, n # Len(d) PROVE u[n + 1].t \notin {"header", "record", "footer"}
            <6>. DEFINE D == DirectoryOf(accepted)
                        p == D.payload
            <6>1. D \in Records(Plain) /\ p \in Seq(DirectoryUnits)
              <7>1. accepted \in Seq(Records(Plain))
                BY <2>1 DEF Sound
              <7>2. D \in Records(Plain)
                BY <7>1, UnitSets, DirectoryType
              <7>3. p = EncodeDirectory(w.entries) /\ w.entries \in Seq(Entries)
                BY <1>1, <2>1 DEF DirectoryOf, Writers
              <7>. QED  BY <7>2, <7>3, EncodeDirectoryType
            <6>2. Len(d) = 1 + Len(p) /\ Len(p) \in Nat /\ \A i \in 1..Len(p) : d[1 + i] = p[i]
              BY <6>1, UnitSets, UnitsOfRecord
            <6>. HIDE DEF p, D, d
            <6>3. n \in 1..Len(p) /\ n + 1 = 1 + n /\ n + 1 \in 1..Len(d)
              BY <2>2, <4>2, <5>1, <6>2
            <6>4. u[n + 1] = p[n]
              BY <3>5, <6>2, <6>3
            <6>5. p[n] \in DirectoryUnits
              BY <6>1, <6>3, ElementOfSeq DEF p
            <6>6. p[n].t = "directory"
              BY <6>5 DEF DirectoryUnits
            <6>. QED  BY <6>4, <6>6
          <5>. QED  BY <3>1, <3>6, <4>3, <5>1 DEF Took
        <4>5. /\ Len(file) = end /\ end \in 0..Len(file) /\ end \in 0..(end + 1)
              /\ Shape(accepted, w.entries, file, end, most)
              /\ n \in {0, Len(d)} =>
                    /\ Shape(accepted, w.entries, Append(file, TornUnit), end, most)
                    /\ Len(Append(file, TornUnit)) = end + 1
          BY <2>3, <4>2
        <4>. HIDE DEF file, end, most
        <4>6. Shape(accepted, w.entries, sink', end, most) /\ end \in 0..Len(sink')
          BY <4>4, <4>5
        <4>. QED  BY <1>1, <4>1, <4>6 DEF ShapeKept, most
      <3>. QED  BY <3>7, <3>8
    <2>. QED  BY <2>4, <2>5
  <1>. QED  BY <1>1, <1>2, <1>3

LEMMA NextKeepsShape == ASSUME WriterInv, ShapeKept, [Next]_vars PROVE ShapeKept'
  <1>1. CASE Write
    BY <1>1, CreateKeepsShape, AddOpaqueKeepsShape, AddFromReaderKeepsShape, AddManifestKeepsShape,
       FinishKeepsShape DEF Write
  <1>2. CASE UNCHANGED writerVars
    BY <1>2 DEF ShapeKept, writerVars
  <1>3. Write \/ UNCHANGED writerVars
    BY DEF Next, vars, writerVars, Deliver, DeliverForeign, NextEvent, ReadHeader, ReadRecordHeader,
           ReadPayload, FinishRecord, ReadFooter, ReadFails
  <1>. QED  BY <1>1, <1>2, <1>3

\* The sink of a writer that was created has this shape, whatever became of it.
LEMMA SinkHasShape ==
    ASSUME WriterInv, ShapeKept, w.st # "new"
    PROVE  \E recs, end : Shape(recs, w.entries, sink, end, w.limits.file)
  <1>1. w.st \in {"open", "failed", "finished", "gone"}
    BY DEF WriterInv, WriterType, Writers
  <1>2. CASE w.st \in {"failed", "gone"}
    BY <1>2 DEF ShapeKept
  <1>. DEFINE most == w.limits.file
              d == UnitsOf(DirectoryOf(accepted))
              s == Body(accepted)
  <1>3. CASE w.st = "open"
    <2>1. /\ Sound(accepted) /\ w.entries = EntriesOf(accepted) /\ sink = s
          /\ sink \in Seq(Units) /\ Len(sink) \in Nat /\ Len(sink) <= most
      BY <1>3, OpenIs
    <2>2. d \in Seq(Units) /\ Len(d) \in Nat
      BY <2>1, BodyOfWhole
    <2>3. 0 \in 0..Len(d) /\ Len(s) + 0 <= most /\ SubSeq(d, 1, 0) = <<>> /\ s \o <<>> = s
      BY <2>1, <2>2, SubSeqEmpty, ConcatEmptySeq
    <2>4. Shape(accepted, EntriesOf(accepted), s \o SubSeq(d, 1, 0), Len(s) + 0, most)
      <3>. HIDE DEF most
      <3>. QED  BY <2>1, <2>3, ShapeDirectory
    <2>. QED  BY <2>1, <2>3, <2>4
  <1>4. CASE w.st = "finished"
    <2>1. /\ Sound(accepted) /\ w.entries = EntriesOf(accepted) /\ Len(sink) <= most /\ most \in Nat
          /\ sink = Append(Body(Whole(accepted)), FooterOf(accepted, w.manifest)) /\ sink \in Seq(Units)
      BY <1>4 DEF WriterInv, WriterType, WriterKeeps, Sound, Writers, LimitNames
    <2>. DEFINE footer == FooterOf(accepted, w.manifest)
    <2>2. d \in Seq(Units) /\ Len(d) \in Nat /\ s \in Seq(Units) /\ Len(s) \in Nat
          /\ Body(Whole(accepted)) = s \o d
      BY <2>1, BodyOfWhole
    <2>3. footer \in Units /\ footer.t = "footer"
      <3>1. accepted \in Seq(Records(Plain)) /\ w.manifest \in Nat
        BY DEF WriterInv, WriterType, Writers
      <3>2. footer \in Footers
        BY <3>1, FooterType
      <3>. HIDE DEF footer
      <3>. QED  BY <3>2, UnitSets DEF Footers
    <2>4. Len(d) \in 0..Len(d) /\ SubSeq(d, 1, Len(d)) = d
      BY <2>2, SubSeqFull
    <2>. HIDE DEF footer, d, s
    <2>5. Len(sink) = Len(s) + Len(d) + 1
      <3>1. s \o d \in Seq(Units) /\ Len(s \o d) = Len(s) + Len(d)
        BY <2>2, ConcatProperties
      <3>2. sink = Append(s \o d, footer)
        BY <2>1, <2>2 DEF footer
      <3>. QED  BY <2>3, <3>1, <3>2, AppendProperties
    <2>6. Len(s) + Len(d) <= most
      <3>. HIDE DEF most
      <3>. QED  BY <2>1, <2>2, <2>5
    <2>7. Shape(accepted, EntriesOf(accepted), Append(s \o SubSeq(d, 1, Len(d)), footer), Len(s) + Len(d), most)
      <3>. HIDE DEF most
      <3>. QED  BY <2>1, <2>3, <2>4, <2>6, ShapeDirectory DEF s, d
    <2>8. sink = Append(s \o SubSeq(d, 1, Len(d)), footer)
      BY <2>1, <2>2, <2>4 DEF footer
    <2>. QED  BY <2>1, <2>7, <2>8
  <1>. QED  BY <1>1, <1>2, <1>3, <1>4

SalvageInv == CommitInv /\ ShapeKept

\* Whatever a failed writer or a cut leaves behind, salvage finds the entries of the
\* records that are complete, in their order, and nothing else but their directory.
THEOREM SalvageAlwaysExact == Spec => []SalvageIsExact
  <1>1. Init => SalvageInv
    BY InitCommit DEF SalvageInv, ShapeKept, Init, NewWriter
  <1>2. SalvageInv /\ [Next]_vars => SalvageInv'
    BY NextKeepsCommit, NextKeepsShape DEF SalvageInv, CommitInv
  <1>3. SalvageInv => SalvageIsExact
    <2>1. SUFFICES ASSUME SalvageInv, delivered # NoFile, delivered \notin ForeignFiles, IsPrefix(delivered, sink)
                   PROVE  SalvageFinds(w.entries, delivered)
      BY DEF SalvageIsExact, SalvageFinds
    <2>2. WriterInv /\ FileKept /\ ShapeKept
      BY <2>1 DEF SalvageInv, CommitInv
    <2>3. w.st # "new"
      BY <2>1, <2>2 DEF FileKept, HasFile, ForeignFiles
    <2>4. PICK recs, end : Shape(recs, w.entries, sink, end, w.limits.file)
      BY <2>2, <2>3, SinkHasShape
    <2>5. Sound(recs) /\ w.entries = EntriesOf(recs) /\ Laying(sink, Whole(recs), end) /\ end <= w.limits.file
      BY <2>4 DEF Shape
    <2>6. delivered \in Seq(Units) /\ sink \in Seq(Units)
      <3>1. delivered \in Seq(Signed)
        BY <2>1, <2>2 DEF FileKept, HasFile
      <3>. QED  BY <2>2, <3>1, PlainIsSigned, SeqMonotonic DEF WriterInv, WriterType
    <2>7. w.limits.file \in Nat /\ Fits(w.limits.file)
      <3>1. w \in Writers /\ w.limits = job.writer /\ job \in Jobs
        BY <2>2 DEF WriterInv, WriterType
      <3>2. Fits(w.limits.file)
        BY <3>1, StreamAssumption
      <3>. QED  BY <3>1, <3>2 DEF Writers, LimitNames
    <2>8. Whole(recs) \in Seq(Records(Units))
      BY <2>5, BodyOfWhole
    <2>9. PICK e \in 0..end : Laying(delivered, Whole(recs), e)
      BY <2>1, <2>5, <2>6, <2>8, LayingShorter
    <2>10. e <= w.limits.file
      <3>1. end \in Nat
        BY <2>5, <2>6, LenProperties DEF Laying
      <3>. QED  BY <2>5, <2>7, <3>1
    <2>11. Shape(recs, w.entries, delivered, e, w.limits.file)
      BY <2>5, <2>9, <2>10 DEF Shape
    <2>. QED  BY <2>6, <2>7, <2>11, SalvageOfShape
  <1>. QED  BY <1>1, <1>2, <1>3, PTL DEF Spec
=============================================================================
