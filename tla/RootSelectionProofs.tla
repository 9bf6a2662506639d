------------------------- MODULE RootSelectionProofs -------------------------
(***************************************************************************)
(* Proofs about RootSelection, for every set of identities, every limit    *)
(* and every file.                                                         *)
(***************************************************************************)
EXTENDS RootSelection, NaturalsSets, SequenceTheorems

(* The loop of a walk. *)

\* What a walk is refused for.
Refusals == {"ParentDepthExceeded", "ParentCycle", "MissingParent", "ParentNotVerified",
             "ProgressCheckpoint", "NonIncreasingSequence", "SequenceGap"}

LoopStates == [current : Candidates, chain : Seq(Identities),
               reason : Refusals \cup {"running", "ok"}]

\* A walk is the last of its turns.
LEMMA WalkTurns ==
    ASSUME NEW c
    PROVE  \E t : /\ t[0] = Start(c)
                  /\ \A n \in 1..(MaxDepth + 1) : t[n] = Turn(t[n - 1])
                  /\ Walk(c) = t[MaxDepth + 1]
  <1>. DEFINE N == MaxDepth + 1
              Step(S) == {Turn(loop) : loop \in S}
              Turns(f, n) == f = [k \in 0..n |-> IF k = 0 THEN {Start(c)}
                                                ELSE Step(f[k - 1])]
              G == {n \in Nat : \E f : Turns(f, n)}
              u == CHOOSE f : Turns(f, N)
              t == [n \in 0..N |-> CHOOSE loop \in u[n] : TRUE]
              One == {n \in Nat : n <= N => u[n] = {t[n]}}
  <1>. HIDE DEF Step
  <1>1. 0 \in G
    <2>. DEFINE f == [k \in 0..0 |-> {Start(c)}]
    <2>1. Turns(f, 0)
      OBVIOUS
    <2>. QED  BY <2>1
  <1>2. ASSUME NEW n \in Nat, n \in G PROVE n + 1 \in G
    <2>1. PICK f : Turns(f, n)
      BY <1>2
    <2>. DEFINE h == [k \in 0..(n + 1) |-> IF k <= n THEN f[k] ELSE Step(f[n])]
                g == [k \in 0..(n + 1) |-> IF k = 0 THEN {Start(c)} ELSE Step(h[k - 1])]
    <2>2. \A k \in 0..n : f[k] = IF k = 0 THEN {Start(c)} ELSE Step(f[k - 1])
      BY <2>1
    <2>3. \A k \in 0..n : h[k] = f[k]
      OBVIOUS
    <2>4. \A k \in 0..(n + 1) : h[k] = g[k]
      <3>1. TAKE k \in 0..(n + 1)
      <3>2. CASE k = 0
        BY <2>2, <3>2
      <3>3. CASE k # 0 /\ k <= n
        <4>1. h[k - 1] = f[k - 1]
          BY <2>3, <3>3
        <4>2. h[k] = Step(f[k - 1])
          BY <2>2, <2>3, <3>3
        <4>. QED  BY <3>1, <3>3, <4>1, <4>2
      <3>4. CASE k = n + 1
        <4>1. h[n] = f[n] /\ k - 1 = n /\ k # 0
          BY <2>3, <3>4
        <4>2. h[k] = Step(f[n])
          BY <3>4
        <4>. QED  BY <3>1, <3>4, <4>1, <4>2
      <3>. QED  BY <3>1, <3>2, <3>3, <3>4
    <2>5. h = g
      BY <2>4
    <2>. HIDE DEF h
    <2>6. Turns(h, n + 1)
      BY <2>5
    <2>. QED  BY <2>6
  <1>3. \E f : Turns(f, N)
    <2>. HIDE DEF G
    <2>1. Nat \subseteq G
      BY <1>1, <1>2, NatSetInduction
    <2>2. N \in G
      BY <2>1, LimitsAssumption DEF N
    <2>. HIDE DEF Turns
    <2>. QED  BY <2>2 DEF G
  <1>4. Turns(u, N)
    <2>. HIDE DEF Turns
    <2>. QED  BY <1>3, Zenon
  <1>5. Walk(c) = CHOOSE loop \in u[N] : TRUE
    BY Zenon DEF Walk, Step
  <1>. HIDE DEF u
  <1>6. \A n \in 0..N : u[n] = IF n = 0 THEN {Start(c)} ELSE Step(u[n - 1])
    BY <1>4
  <1>7. N \in Nat /\ u[0] = {Start(c)} /\ \A n \in 1..N : u[n] = Step(u[n - 1])
    BY <1>6, LimitsAssumption
  <1>. HIDE DEF N
  <1>8. \A n \in 0..N : \A x : u[n] = {x} => t[n] = x
    BY DEF t
  <1>9. 0 \in One
    <2>1. t[0] = Start(c)
      BY <1>7, <1>8
    <2>. HIDE DEF t
    <2>. QED  BY <1>7, <2>1 DEF One
  <1>10. ASSUME NEW n \in Nat, n \in One PROVE n + 1 \in One
    <2>. HIDE DEF t
    <2>1. SUFFICES ASSUME n + 1 <= N PROVE u[n + 1] = {t[n + 1]}
      BY DEF One
    <2>2. u[n] = {t[n]} /\ n + 1 \in 1..N /\ n + 1 \in 0..N /\ (n + 1) - 1 = n
      BY <1>7, <1>10, <2>1 DEF One
    <2>3. u[n + 1] = Step({t[n]})
      BY <1>7, <2>2
    <2>4. Step({t[n]}) = {Turn(t[n])}
      BY DEF Step
    <2>5. t[n + 1] = Turn(t[n])
      BY <1>8, <2>2, <2>3, <2>4
    <2>. QED  BY <2>3, <2>4, <2>5
  <1>. HIDE DEF One
  <1>11. Nat \subseteq One
    BY <1>9, <1>10, NatSetInduction
  <1>12. \A n \in 0..N : u[n] = {t[n]}
    <2>. HIDE DEF t
    <2>. QED  BY <1>7, <1>11 DEF One
  <1>13. t[0] = Start(c)
    BY <1>7, <1>8
  <1>14. \A n \in 1..N : t[n] = Turn(t[n - 1])
    <2>. HIDE DEF t
    <2>1. TAKE n \in 1..N
    <2>2. u[n] = Step(u[n - 1]) /\ n - 1 \in 0..N /\ n \in 0..N
      BY <1>7
    <2>3. u[n] = Step({t[n - 1]})
      BY <1>12, <2>2
    <2>4. Step({t[n - 1]}) = {Turn(t[n - 1])}
      BY DEF Step
    <2>. QED  BY <1>8, <2>2, <2>3, <2>4
  <1>15. Walk(c) = t[N]
    BY <1>5, <1>7 DEF t
  <1>. QED  BY <1>13, <1>14, <1>15, Zenon DEF N

\* What holds at the start of the loop and is kept by each turn holds at its end.
LEMMA WalkInvariant ==
    ASSUME NEW c, NEW G, Start(c) \in G, \A s \in G : Turn(s) \in G
    PROVE  Walk(c) \in G
  <1>1. PICK t : /\ t[0] = Start(c)
                 /\ \A n \in 1..(MaxDepth + 1) : t[n] = Turn(t[n - 1])
                 /\ Walk(c) = t[MaxDepth + 1]
    BY WalkTurns
  <1>. DEFINE S == {n \in Nat : n <= MaxDepth + 1 => t[n] \in G}
  <1>2. 0 \in S
    BY <1>1
  <1>3. ASSUME NEW n \in Nat, n \in S PROVE n + 1 \in S
    <2>1. SUFFICES ASSUME n + 1 <= MaxDepth + 1 PROVE t[n + 1] \in G
      OBVIOUS
    <2>2. t[n] \in G /\ n + 1 \in 1..(MaxDepth + 1) /\ (n + 1) - 1 = n
      BY <1>3, <2>1, LimitsAssumption
    <2>3. t[n + 1] = Turn(t[n])
      BY <1>1, <2>2
    <2>. QED  BY <2>2, <2>3
  <1>. HIDE DEF S
  <1>4. Nat \subseteq S
    BY <1>2, <1>3, NatSetInduction
  <1>5. MaxDepth + 1 \in S /\ MaxDepth + 1 \in Nat
    BY <1>4, LimitsAssumption
  <1>6. t[MaxDepth + 1] \in G
    BY <1>5 DEF S
  <1>. QED  BY <1>1, <1>6

\* The places of an identity.
LEMMA LookupHolds ==
    ASSUME file \in Seq(Candidates), NEW id, Holder(id) # {}
    PROVE  \E j \in Places : /\ Lookup(id) = file[j] /\ file[j].identity = id
                             /\ file[j] \in Candidates
  <1>. DEFINE j == CHOOSE i \in Holder(id) : TRUE
  <1>1. j \in Holder(id) /\ Lookup(id) = file[j]
    BY Zenon DEF Lookup
  <1>. HIDE DEF j
  <1>2. j \in Places /\ file[j].identity = id
    BY <1>1 DEF Holder
  <1>3. file[j] \in Candidates
    BY <1>2, ElementOfSeq DEF Places
  <1>. QED  BY <1>1, <1>2, <1>3

\* What one turn of the loop may do.
LEMMA TurnResult ==
    ASSUME file \in Seq(Candidates), NEW s \in LoopStates
    PROVE  /\ Turn(s) \in LoopStates
           /\ s.reason # "running" => Turn(s) = s
           /\ s.reason = "running" =>
                \/ Turn(s).reason \in Refusals
                \/ /\ Len(s.chain) < MaxDepth /\ s.current.parent = None
                   /\ Turn(s).reason = "ok"
                \/ /\ Len(s.chain) < MaxDepth
                   /\ Turn(s).reason = "running"
                   /\ Len(Turn(s).chain) = Len(s.chain) + 1
                   /\ \E j \in Places :
                        /\ file[j].identity = s.current.parent
                        /\ Turn(s).current = file[j]
                        /\ IsVerifiedComplete(file[j])
                        /\ s.current.sequence = file[j].sequence + 1
  <1>. DEFINE c == s.current
              ch == s.chain
              parent == Lookup(c.parent)
              wrong == Misnumbered(c, parent)
              gone == <<c.identity>> \o ch
              Stop(r) == [s EXCEPT !.reason = r]
              cycle == \E k \in DOMAIN s.chain : s.chain[k] = c.identity
  <1>1. /\ c \in Candidates /\ ch \in Seq(Identities) /\ Len(ch) \in Nat
        /\ c.identity \in Identities /\ MaxDepth \in Nat
        /\ s.reason \in Refusals \cup {"running", "ok"}
    BY LimitsAssumption DEF LoopStates, Candidates
  <1>2. gone \in Seq(Identities) /\ Len(gone) = Len(ch) + 1
    <2>. DEFINE one == <<c.identity>>
    <2>1. one \in Seq(Identities) /\ Len(one) = 1
      BY <1>1
    <2>. HIDE DEF one, ch
    <2>2. one \o ch \in Seq(Identities) /\ Len(one \o ch) = Len(one) + Len(ch)
      BY <1>1, <2>1, ConcatProperties
    <2>. QED  BY <1>1, <2>1, <2>2 DEF one, ch
  <1>3. \A r \in Refusals : Stop(r) \in LoopStates /\ Stop(r).reason = r
    BY <1>1 DEF LoopStates
  <1>4. CASE s.reason # "running"
    <2>1. Turn(s) = s
      BY <1>4 DEF Turn
    <2>. QED  BY <1>4, <2>1
  <1>5. CASE s.reason = "running" /\ \E r \in Refusals : Turn(s) = Stop(r)
    BY <1>3, <1>5
  <1>6. CASE /\ s.reason = "running" /\ Len(ch) < MaxDepth /\ c.parent = None
             /\ Turn(s) = [current |-> c, chain |-> gone, reason |-> "ok"]
    <2>1. Turn(s) \in LoopStates /\ Turn(s).reason = "ok"
      BY <1>1, <1>2, <1>6 DEF LoopStates
    <2>. QED  BY <1>6, <2>1
  <1>7. CASE /\ s.reason = "running" /\ Len(ch) < MaxDepth /\ Holder(c.parent) # {}
             /\ parent.status = "Verified" /\ parent.kind # "Progress" /\ wrong = {}
             /\ Turn(s) = [current |-> parent, chain |-> gone, reason |-> "running"]
    <2>1. PICK j \in Places : parent = file[j] /\ file[j].identity = c.parent
                              /\ file[j] \in Candidates
      BY <1>7, LookupHolds
    <2>2. Turn(s) \in LoopStates
      BY <1>2, <1>7, <2>1 DEF LoopStates
    <2>3. IsVerifiedComplete(file[j])
      BY <1>7, <2>1 DEF IsVerifiedComplete, Candidates, Kinds
    <2>4. c.sequence = file[j].sequence + 1
      BY <1>7, <2>1 DEF Misnumbered
    <2>5. Turn(s).reason = "running" /\ Turn(s).current = file[j]
          /\ Len(Turn(s).chain) = Len(ch) + 1
      BY <1>2, <1>7, <2>1
    <2>. QED  BY <1>7, <2>1, <2>2, <2>3, <2>4, <2>5
  <1>8. wrong # {} => (CHOOSE w \in wrong : TRUE) \in Refusals
    BY DEF Misnumbered, Refusals
  <1>9. ~TooDeep(ch) => Len(ch) < MaxDepth
    BY <1>1 DEF TooDeep
  <1>10. s.reason = "running" =>
          \/ \E r \in Refusals : Turn(s) = Stop(r)
          \/ /\ ~TooDeep(ch) /\ c.parent = None
             /\ Turn(s) = [current |-> c, chain |-> gone, reason |-> "ok"]
          \/ /\ ~TooDeep(ch) /\ Holder(c.parent) # {}
             /\ parent.status = "Verified" /\ parent.kind # "Progress" /\ wrong = {}
             /\ Turn(s) = [current |-> parent, chain |-> gone, reason |-> "running"]
    <2>1. {"ParentDepthExceeded", "ParentCycle", "MissingParent", "ParentNotVerified",
           "ProgressCheckpoint"}
             \subseteq Refusals
      BY DEF Refusals
    <2>. HIDE DEF wrong, parent, gone, ch
    <2>2. Turn(s) =
            IF s.reason # "running" THEN s
            ELSE IF TooDeep(ch) THEN Stop("ParentDepthExceeded")
            ELSE IF cycle THEN Stop("ParentCycle")
            ELSE IF c.parent = None THEN [current |-> c, chain |-> gone, reason |-> "ok"]
            ELSE IF Holder(c.parent) = {} THEN Stop("MissingParent")
            ELSE IF parent.status # "Verified" THEN Stop("ParentNotVerified")
            ELSE IF parent.kind = "Progress" THEN Stop("ProgressCheckpoint")
            ELSE IF wrong # {} THEN Stop(CHOOSE w \in wrong : TRUE)
            ELSE [current |-> parent, chain |-> gone, reason |-> "running"]
      BY Zenon DEF Turn, wrong, parent, gone, ch
    <2>. HIDE DEF Stop, c, cycle
    <2>. QED  BY <1>8, <2>1, <2>2, Zenon
  <1>. QED  BY <1>4, <1>5, <1>6, <1>7, <1>9, <1>10, Zenon

LEMMA StartType ==
    ASSUME NEW c \in Candidates
    PROVE  /\ Start(c) \in LoopStates /\ Start(c).chain = <<>>
           /\ Start(c).current = c /\ Start(c).reason = "running"
           /\ Len(Start(c).chain) = 0
  <1>1. <<>> \in Seq(Identities) /\ Len(<<>>) = 0
    BY EmptySeq
  <1>2. Start(c) = [current |-> c, chain |-> <<>>, reason |-> "running"]
    BY DEF Start
  <1>3. "running" \in Refusals \cup {"running", "ok"}
    OBVIOUS
  <1>. QED  BY <1>1, <1>2, <1>3 DEF LoopStates

\* The depth limit ends the loop.
LEMMA WalkEnds ==
    ASSUME file \in Seq(Candidates), NEW c \in Candidates
    PROVE  Walk(c) \in LoopStates /\ Walk(c).reason # "running"
  <1>1. PICK t : /\ t[0] = Start(c)
                 /\ \A n \in 1..(MaxDepth + 1) : t[n] = Turn(t[n - 1])
                 /\ Walk(c) = t[MaxDepth + 1]
    BY WalkTurns
  <1>. DEFINE Counts(s, n) == s \in LoopStates
                              /\ (s.reason = "running" => Len(s.chain) = n /\ n <= MaxDepth)
              S == {n \in Nat : n <= MaxDepth + 1 => Counts(t[n], n)}
  <1>2. 0 \in S
    <2>1. Start(c) \in LoopStates /\ Len(Start(c).chain) = 0 /\ MaxDepth \in Nat
      BY StartType, LimitsAssumption
    <2>. QED  BY <1>1, <2>1
  <1>3. ASSUME NEW n \in Nat, n \in S PROVE n + 1 \in S
    <2>1. SUFFICES ASSUME n + 1 <= MaxDepth + 1 PROVE Counts(t[n + 1], n + 1)
      OBVIOUS
    <2>2. Counts(t[n], n) /\ n + 1 \in 1..(MaxDepth + 1) /\ (n + 1) - 1 = n
          /\ MaxDepth \in Nat
      BY <1>3, <2>1, LimitsAssumption
    <2>3. t[n + 1] = Turn(t[n])
      BY <1>1, <2>2
    <2>. DEFINE s == t[n]
    <2>4. s \in LoopStates
      BY <2>2
    <2>5. /\ Turn(s) \in LoopStates
          /\ Turn(s).reason = "running" =>
                s.reason = "running" /\ Len(s.chain) < MaxDepth
                /\ Len(Turn(s).chain) = Len(s.chain) + 1
      <3>. HIDE DEF s
      <3>1. "running" \notin Refusals
        BY DEF Refusals
      <3>. QED  BY <2>4, <3>1, TurnResult
    <2>. QED  BY <2>2, <2>3, <2>5
  <1>. HIDE DEF S
  <1>4. Nat \subseteq S
    BY <1>2, <1>3, NatSetInduction
  <1>5. MaxDepth + 1 \in S /\ MaxDepth + 1 \in Nat /\ MaxDepth \in Nat
    BY <1>4, LimitsAssumption
  <1>6. Counts(t[MaxDepth + 1], MaxDepth + 1)
    BY <1>5 DEF S
  <1>. QED  BY <1>1, <1>5, <1>6

-----------------------------------------------------------------------------
(* The loops of select and of enumerate go in step. *)

ClassifyStates == [current : Candidates, visited : SUBSET Identities, depth : Nat,
                   reason : Refusals \cup {"running", "ok"}]

\* While both run they are at the same candidate, and the depth that the one
\* counts is one more than the length of what the other has gone through; they
\* accept together and then with the same depth; they refuse together, if not
\* always for the same reason.
InStep(s, l) ==
    /\ s \in LoopStates /\ l \in ClassifyStates
    /\ \/ /\ s.reason = "running" /\ l.reason = "running"
          /\ l.current = s.current /\ l.depth = Len(s.chain) + 1
          /\ l.visited = {s.chain[k] : k \in DOMAIN s.chain}
       \/ s.reason = "ok" /\ l.reason = "ok" /\ l.depth = Len(s.chain)
       \/ s.reason \in Refusals /\ l.reason \in Refusals

LEMMA TurnsInStep ==
    ASSUME file \in Seq(Candidates), NEW s, NEW l, InStep(s, l)
    PROVE  InStep(Turn(s), ClassifyTurn(l))
  <1>. DEFINE c == s.current
              ch == s.chain
              parent == Lookup(c.parent)
              wrong == Misnumbered(c, parent)
              gone == <<c.identity>> \o ch
              Stop(r) == [s EXCEPT !.reason = r]
              Halt(r) == [l EXCEPT !.reason = r]
              cycle == \E k \in DOMAIN s.chain : s.chain[k] = c.identity
  <1>1. s \in LoopStates /\ l \in ClassifyStates
    BY DEF InStep
  <1>2. CASE s.reason # "running"
    <2>1. l.reason # "running"
      BY <1>2 DEF InStep, Refusals
    <2>2. Turn(s) = s /\ ClassifyTurn(l) = l
      BY <1>2, <2>1, Zenon DEF Turn, ClassifyTurn
    <2>. QED  BY <2>2
  <1>3. CASE s.reason = "running"
    <2>1. /\ l.reason = "running" /\ l.current = c /\ l.depth = Len(ch) + 1
          /\ l.visited = {ch[k] : k \in DOMAIN ch}
      BY <1>3 DEF InStep, Refusals
    <2>2. /\ c \in Candidates /\ c.identity \in Identities /\ ch \in Seq(Identities)
          /\ Len(ch) \in Nat /\ DOMAIN ch = 1..Len(ch) /\ MaxDepth \in Nat
      BY <1>1, LimitsAssumption DEF LoopStates, Candidates
    <2>3. /\ gone \in Seq(Identities) /\ Len(gone) = Len(ch) + 1
          /\ DOMAIN gone = 1..(Len(ch) + 1)
          /\ gone[1] = c.identity
          /\ \A k \in 1..Len(ch) : gone[k + 1] = ch[k]
      <3>. DEFINE one == <<c.identity>>
      <3>1. one \in Seq(Identities) /\ Len(one) = 1 /\ one[1] = c.identity
        BY <2>2
      <3>. HIDE DEF one, ch
      <3>2. /\ one \o ch \in Seq(Identities) /\ Len(one \o ch) = Len(one) + Len(ch)
            /\ \A k \in 1..(Len(one) + Len(ch)) : (one \o ch)[k] =
                  IF k <= Len(one) THEN one[k] ELSE ch[k - Len(one)]
        BY <2>2, <3>1, ConcatProperties, ZenonT(60)
      <3>3. gone = one \o ch
        BY DEF one
      <3>. HIDE DEF gone
      <3>4. \A k \in 1..Len(ch) : k + 1 \in 1..(1 + Len(ch)) /\ ~(k + 1 <= 1) /\ (k + 1) - 1 = k
        BY <2>2
      <3>5. 1 \in 1..(1 + Len(ch))
        BY <2>2
      <3>. QED  BY <2>2, <3>1, <3>2, <3>3, <3>4, <3>5
    <2>4. \A r \in Refusals : InStep(Stop(r), Halt(r))
      BY <1>1 DEF InStep, LoopStates, ClassifyStates
    <2>5. \A q, r \in Refusals : InStep(Stop(q), Halt(r))
      BY <1>1 DEF InStep, LoopStates, ClassifyStates
    <2>6. Turn(s) =
            IF TooDeep(ch) THEN Stop("ParentDepthExceeded")
            ELSE IF cycle THEN Stop("ParentCycle")
            ELSE IF c.parent = None THEN [current |-> c, chain |-> gone, reason |-> "ok"]
            ELSE IF Holder(c.parent) = {} THEN Stop("MissingParent")
            ELSE IF parent.status # "Verified" THEN Stop("ParentNotVerified")
            ELSE IF parent.kind = "Progress" THEN Stop("ProgressCheckpoint")
            ELSE IF wrong # {} THEN Stop(CHOOSE w \in wrong : TRUE)
            ELSE [current |-> parent, chain |-> gone, reason |-> "running"]
      BY <1>3, Zenon DEF Turn
    <2>7. ClassifyTurn(l) =
            IF DepthExceeded(l.depth) THEN Halt("ParentDepthExceeded")
            ELSE IF c.identity \in l.visited THEN Halt("ParentCycle")
            ELSE IF c.parent = None THEN Halt("ok")
            ELSE IF Holder(c.parent) = {} THEN Halt("MissingParent")
            ELSE IF ~IsVerifiedComplete(parent) THEN Halt("ParentNotVerified")
            ELSE IF wrong # {} THEN Halt(CHOOSE w \in wrong : TRUE)
            ELSE [l EXCEPT !.current = parent, !.depth = @ + 1,
                           !.visited = @ \cup {c.identity}]
      <3>1. l.reason = "running" /\ l.current = s.current
        BY <2>1
      <3>. QED  BY <3>1, Zenon DEF ClassifyTurn
    <2>8. DepthExceeded(l.depth) <=> TooDeep(ch)
      <3>. HIDE DEF ch
      <3>. QED  BY <2>1, <2>2 DEF DepthExceeded, TooDeep
    <2>9. c.identity \in l.visited <=> cycle
      BY <2>1, Zenon
    <2>10. wrong # {} => (CHOOSE w \in wrong : TRUE) \in Refusals
      BY DEF Misnumbered, Refusals
    <2>11. {"ParentDepthExceeded", "ParentCycle", "MissingParent", "ParentNotVerified",
            "ProgressCheckpoint"} \subseteq Refusals
      BY DEF Refusals
    <2>12. ASSUME ~TooDeep(ch), ~cycle, c.parent = None
           PROVE  InStep(Turn(s), ClassifyTurn(l))
      <3>1. Turn(s) = [current |-> c, chain |-> gone, reason |-> "ok"]
        BY <2>6, <2>12, Zenon
      <3>2. ClassifyTurn(l) = Halt("ok")
        BY <2>7, <2>8, <2>9, <2>12, Zenon
      <3>. HIDE DEF gone, c, ch
      <3>3. Turn(s) \in LoopStates /\ Turn(s).reason = "ok" /\ Turn(s).chain = gone
        BY <2>2, <2>3, <3>1 DEF LoopStates
      <3>4. /\ ClassifyTurn(l) \in ClassifyStates /\ ClassifyTurn(l).reason = "ok"
            /\ ClassifyTurn(l).depth = l.depth
        BY <1>1, <3>2 DEF ClassifyStates
      <3>. QED  BY <2>1, <2>3, <3>3, <3>4 DEF InStep
    <2>13. ASSUME ~TooDeep(ch), ~cycle, c.parent # None, Holder(c.parent) # {},
                  IsVerifiedComplete(parent), wrong = {}
           PROVE  InStep(Turn(s), ClassifyTurn(l))
      <3>1. parent.status = "Verified" /\ parent.kind # "Progress"
        BY <2>13 DEF IsVerifiedComplete
      <3>2. Turn(s) = [current |-> parent, chain |-> gone, reason |-> "running"]
        BY <2>6, <2>13, <3>1, Zenon
      <3>3. ClassifyTurn(l) = [l EXCEPT !.current = parent, !.depth = @ + 1,
                                        !.visited = @ \cup {c.identity}]
        BY <2>7, <2>8, <2>9, <2>13, Zenon
      <3>4. parent \in Candidates
        BY <2>13, LookupHolds
      <3>5. {gone[k] : k \in DOMAIN gone} = l.visited \cup {c.identity}
        <4>. HIDE DEF gone, c, ch
        <4>1. ASSUME NEW k \in DOMAIN gone PROVE gone[k] \in l.visited \cup {c.identity}
          <5>1. CASE k = 1
            BY <2>3, <5>1
          <5>2. CASE k # 1
            <6>1. k - 1 \in 1..Len(ch) /\ (k - 1) + 1 = k
              BY <2>2, <2>3, <4>1, <5>2
            <6>2. gone[k] = ch[k - 1]
              BY <2>3, <6>1
            <6>. QED  BY <2>1, <2>2, <6>1, <6>2
          <5>. QED  BY <5>1, <5>2
        <4>2. ASSUME NEW x \in l.visited PROVE \E k \in DOMAIN gone : gone[k] = x
          <5>1. PICK k \in 1..Len(ch) : x = ch[k]
            BY <2>1, <2>2, <4>2
          <5>2. k + 1 \in DOMAIN gone /\ gone[k + 1] = x
            BY <2>2, <2>3, <5>1
          <5>. QED  BY <5>2
        <4>3. 1 \in DOMAIN gone /\ gone[1] = c.identity
          BY <2>2, <2>3
        <4>. QED  BY <4>1, <4>2, <4>3
      <3>. HIDE DEF parent, gone, c, ch
      <3>6. /\ Turn(s) \in LoopStates /\ Turn(s).reason = "running"
            /\ Turn(s).chain = gone /\ Turn(s).current = parent
        BY <2>3, <3>2, <3>4 DEF LoopStates
      <3>7. /\ ClassifyTurn(l) \in ClassifyStates /\ ClassifyTurn(l).reason = "running"
            /\ ClassifyTurn(l).depth = l.depth + 1 /\ ClassifyTurn(l).current = parent
            /\ ClassifyTurn(l).visited = l.visited \cup {c.identity}
        <4>. DEFINE d == l.depth + 1
                    v == l.visited \cup {c.identity}
        <4>1. l.visited \subseteq Identities /\ l.depth \in Nat
          BY <1>1 DEF ClassifyStates
        <4>2. d \in Nat /\ v \in SUBSET Identities
          BY <2>2, <4>1
        <4>3. ClassifyTurn(l) = [l EXCEPT !.current = parent, !.depth = d, !.visited = v]
          BY <3>3
        <4>. HIDE DEF d, v
        <4>4. /\ ClassifyTurn(l) \in ClassifyStates /\ ClassifyTurn(l).reason = l.reason
              /\ ClassifyTurn(l).depth = d /\ ClassifyTurn(l).current = parent
              /\ ClassifyTurn(l).visited = v
          BY <1>1, <3>4, <4>2, <4>3 DEF ClassifyStates
        <4>. QED  BY <2>1, <4>4 DEF d, v
      <3>8. ClassifyTurn(l).depth = Len(Turn(s).chain) + 1
        BY <2>1, <2>2, <2>3, <3>6, <3>7
      <3>9. ClassifyTurn(l).visited = {Turn(s).chain[k] : k \in DOMAIN Turn(s).chain}
        BY <3>5, <3>6, <3>7
      <3>. QED  BY <3>6, <3>7, <3>8, <3>9, Zenon DEF InStep
    <2>14. Holder(c.parent) # {} =>
              (IsVerifiedComplete(parent) <=> parent.status = "Verified"
                                              /\ parent.kind # "Progress")
      <3>1. ASSUME Holder(c.parent) # {} PROVE parent \in Candidates
        BY <3>1, LookupHolds
      <3>. HIDE DEF parent
      <3>. QED  BY <3>1 DEF IsVerifiedComplete, Candidates, Kinds
    <2>. HIDE DEF c, ch, parent, wrong, gone, Stop, Halt, cycle
    <2>15. CASE TooDeep(ch)
      BY <2>5, <2>6, <2>7, <2>8, <2>11, <2>15, Zenon
    <2>16. CASE ~TooDeep(ch) /\ cycle
      BY <2>5, <2>6, <2>7, <2>8, <2>9, <2>11, <2>16, Zenon
    <2>17. CASE ~TooDeep(ch) /\ ~cycle /\ c.parent # None /\ Holder(c.parent) = {}
      BY <2>5, <2>6, <2>7, <2>8, <2>9, <2>11, <2>17, Zenon
    <2>18. CASE /\ ~TooDeep(ch) /\ ~cycle /\ c.parent # None /\ Holder(c.parent) # {}
                /\ ~IsVerifiedComplete(parent)
      <3>1. ClassifyTurn(l) = Halt("ParentNotVerified")
        BY <2>7, <2>8, <2>9, <2>18, Zenon
      <3>2. Turn(s) = Stop("ParentNotVerified") \/ Turn(s) = Stop("ProgressCheckpoint")
        BY <2>6, <2>14, <2>18, Zenon
      <3>3. "ParentNotVerified" \in Refusals /\ "ProgressCheckpoint" \in Refusals
        BY <2>11
      <3>. QED  BY <2>5, <3>1, <3>2, <3>3, Zenon
    <2>19. CASE /\ ~TooDeep(ch) /\ ~cycle /\ c.parent # None /\ Holder(c.parent) # {}
                /\ IsVerifiedComplete(parent) /\ wrong # {}
      <3>1. ClassifyTurn(l) = Halt(CHOOSE w \in wrong : TRUE)
        BY <2>7, <2>8, <2>9, <2>19, Zenon
      <3>2. Turn(s) = Stop(CHOOSE w \in wrong : TRUE)
        BY <2>6, <2>14, <2>19, Zenon
      <3>. QED  BY <2>5, <2>10, <2>19, <3>1, <3>2, Zenon
    <2>. QED  BY <2>12, <2>13, <2>15, <2>16, <2>17, <2>18, <2>19, Zenon
  <1>. QED  BY <1>2, <1>3

\* The walk of enumerate is the last of its turns too.
LEMMA ClassifyTurns ==
    ASSUME NEW c
    PROVE  \E t : /\ t[0] = ClassifyStart(c)
                  /\ \A n \in 1..(MaxDepth + 1) : t[n] = ClassifyTurn(t[n - 1])
                  /\ ClassifyWalk(c) = t[MaxDepth + 1]
  <1>. DEFINE N == MaxDepth + 1
              Step(S) == {ClassifyTurn(loop) : loop \in S}
              Turns(f, n) == f = [k \in 0..n |-> IF k = 0 THEN {ClassifyStart(c)}
                                                ELSE Step(f[k - 1])]
              G == {n \in Nat : \E f : Turns(f, n)}
              u == CHOOSE f : Turns(f, N)
              t == [n \in 0..N |-> CHOOSE loop \in u[n] : TRUE]
              One == {n \in Nat : n <= N => u[n] = {t[n]}}
  <1>. HIDE DEF Step
  <1>1. 0 \in G
    <2>. DEFINE f == [k \in 0..0 |-> {ClassifyStart(c)}]
    <2>1. Turns(f, 0)
      OBVIOUS
    <2>. QED  BY <2>1
  <1>2. ASSUME NEW n \in Nat, n \in G PROVE n + 1 \in G
    <2>1. PICK f : Turns(f, n)
      BY <1>2
    <2>. DEFINE h == [k \in 0..(n + 1) |-> IF k <= n THEN f[k] ELSE Step(f[n])]
                g == [k \in 0..(n + 1) |-> IF k = 0 THEN {ClassifyStart(c)} ELSE Step(h[k - 1])]
    <2>2. \A k \in 0..n : f[k] = IF k = 0 THEN {ClassifyStart(c)} ELSE Step(f[k - 1])
      BY <2>1
    <2>3. \A k \in 0..n : h[k] = f[k]
      OBVIOUS
    <2>4. \A k \in 0..(n + 1) : h[k] = g[k]
      <3>1. TAKE k \in 0..(n + 1)
      <3>2. CASE k = 0
        BY <2>2, <3>2
      <3>3. CASE k # 0 /\ k <= n
        <4>1. h[k - 1] = f[k - 1]
          BY <2>3, <3>3
        <4>2. h[k] = Step(f[k - 1])
          BY <2>2, <2>3, <3>3
        <4>. QED  BY <3>1, <3>3, <4>1, <4>2
      <3>4. CASE k = n + 1
        <4>1. h[n] = f[n] /\ k - 1 = n /\ k # 0
          BY <2>3, <3>4
        <4>2. h[k] = Step(f[n])
          BY <3>4
        <4>. QED  BY <3>1, <3>4, <4>1, <4>2
      <3>. QED  BY <3>1, <3>2, <3>3, <3>4
    <2>5. h = g
      BY <2>4
    <2>. HIDE DEF h
    <2>6. Turns(h, n + 1)
      BY <2>5
    <2>. QED  BY <2>6
  <1>3. \E f : Turns(f, N)
    <2>. HIDE DEF G
    <2>1. Nat \subseteq G
      BY <1>1, <1>2, NatSetInduction
    <2>2. N \in G
      BY <2>1, LimitsAssumption DEF N
    <2>. HIDE DEF Turns
    <2>. QED  BY <2>2 DEF G
  <1>4. Turns(u, N)
    <2>. HIDE DEF Turns
    <2>. QED  BY <1>3, Zenon
  <1>5. ClassifyWalk(c) = CHOOSE loop \in u[N] : TRUE
    BY Zenon DEF ClassifyWalk, Step
  <1>. HIDE DEF u
  <1>6. \A n \in 0..N : u[n] = IF n = 0 THEN {ClassifyStart(c)} ELSE Step(u[n - 1])
    BY <1>4
  <1>7. N \in Nat /\ u[0] = {ClassifyStart(c)} /\ \A n \in 1..N : u[n] = Step(u[n - 1])
    BY <1>6, LimitsAssumption
  <1>. HIDE DEF N
  <1>8. \A n \in 0..N : \A x : u[n] = {x} => t[n] = x
    BY DEF t
  <1>9. 0 \in One
    <2>1. t[0] = ClassifyStart(c)
      BY <1>7, <1>8
    <2>. HIDE DEF t
    <2>. QED  BY <1>7, <2>1 DEF One
  <1>10. ASSUME NEW n \in Nat, n \in One PROVE n + 1 \in One
    <2>. HIDE DEF t
    <2>1. SUFFICES ASSUME n + 1 <= N PROVE u[n + 1] = {t[n + 1]}
      BY DEF One
    <2>2. u[n] = {t[n]} /\ n + 1 \in 1..N /\ n + 1 \in 0..N /\ (n + 1) - 1 = n
      BY <1>7, <1>10, <2>1 DEF One
    <2>3. u[n + 1] = Step({t[n]})
      BY <1>7, <2>2
    <2>4. Step({t[n]}) = {ClassifyTurn(t[n])}
      BY DEF Step
    <2>5. t[n + 1] = ClassifyTurn(t[n])
      BY <1>8, <2>2, <2>3, <2>4
    <2>. QED  BY <2>3, <2>4, <2>5
  <1>. HIDE DEF One
  <1>11. Nat \subseteq One
    BY <1>9, <1>10, NatSetInduction
  <1>12. \A n \in 0..N : u[n] = {t[n]}
    <2>. HIDE DEF t
    <2>. QED  BY <1>7, <1>11 DEF One
  <1>13. t[0] = ClassifyStart(c)
    BY <1>7, <1>8
  <1>14. \A n \in 1..N : t[n] = ClassifyTurn(t[n - 1])
    <2>. HIDE DEF t
    <2>1. TAKE n \in 1..N
    <2>2. u[n] = Step(u[n - 1]) /\ n - 1 \in 0..N /\ n \in 0..N
      BY <1>7
    <2>3. u[n] = Step({t[n - 1]})
      BY <1>12, <2>2
    <2>4. Step({t[n - 1]}) = {ClassifyTurn(t[n - 1])}
      BY DEF Step
    <2>. QED  BY <1>8, <2>2, <2>3, <2>4
  <1>15. ClassifyWalk(c) = t[N]
    BY <1>5, <1>7 DEF t
  <1>. QED  BY <1>13, <1>14, <1>15, Zenon DEF N

\* Both walks end alike, but for the name of a refusal.
LEMMA WalksInStep ==
    ASSUME file \in Seq(Candidates), NEW c \in Candidates
    PROVE  InStep(Walk(c), ClassifyWalk(c))
  <1>1. PICK t : /\ t[0] = Start(c)
                 /\ \A n \in 1..(MaxDepth + 1) : t[n] = Turn(t[n - 1])
                 /\ Walk(c) = t[MaxDepth + 1]
    BY WalkTurns
  <1>2. PICK u : /\ u[0] = ClassifyStart(c)
                 /\ \A n \in 1..(MaxDepth + 1) : u[n] = ClassifyTurn(u[n - 1])
                 /\ ClassifyWalk(c) = u[MaxDepth + 1]
    BY ClassifyTurns
  <1>. DEFINE S == {n \in Nat : n <= MaxDepth + 1 => InStep(t[n], u[n])}
  <1>3. 0 \in S
    <2>1. /\ Start(c) \in LoopStates /\ Start(c).current = c /\ Start(c).chain = <<>>
          /\ Start(c).reason = "running" /\ Len(Start(c).chain) = 0
      BY StartType
    <2>2. ClassifyStart(c) = [current |-> c, visited |-> {}, depth |-> 1, reason |-> "running"]
      BY DEF ClassifyStart
    <2>3. ClassifyStart(c) \in ClassifyStates
      BY <2>2 DEF ClassifyStates
    <2>4. {Start(c).chain[k] : k \in DOMAIN Start(c).chain} = {}
      BY <2>1
    <2>5. InStep(Start(c), ClassifyStart(c))
      BY <2>1, <2>2, <2>3, <2>4 DEF InStep
    <2>. QED  BY <1>1, <1>2, <2>5
  <1>4. ASSUME NEW n \in Nat, n \in S PROVE n + 1 \in S
    <2>1. SUFFICES ASSUME n + 1 <= MaxDepth + 1 PROVE InStep(t[n + 1], u[n + 1])
      OBVIOUS
    <2>2. InStep(t[n], u[n]) /\ n + 1 \in 1..(MaxDepth + 1) /\ (n + 1) - 1 = n
      BY <1>4, <2>1, LimitsAssumption
    <2>3. t[n + 1] = Turn(t[n]) /\ u[n + 1] = ClassifyTurn(u[n])
      BY <1>1, <1>2, <2>2
    <2>. QED  BY <2>2, <2>3, TurnsInStep
  <1>. HIDE DEF S
  <1>5. Nat \subseteq S
    BY <1>3, <1>4, NatSetInduction
  <1>6. MaxDepth + 1 \in S /\ MaxDepth + 1 \in Nat
    BY <1>5, LimitsAssumption
  <1>7. InStep(t[MaxDepth + 1], u[MaxDepth + 1])
    BY <1>6 DEF S
  <1>. QED  BY <1>1, <1>2, <1>7

-----------------------------------------------------------------------------
(* A walk accepts exactly the intact places. *)

\* The line a walk has gone through is unbroken.
LEMMA OkIsIntact ==
    ASSUME file \in Seq(Candidates), NEW i \in Places,
           IsVerifiedComplete(file[i]), Walk(file[i]).reason = "ok"
    PROVE  Intact(i)
  <1>. DEFINE On(s, P, j) ==
                /\ s.current = file[j] /\ j \in Places /\ IsVerifiedComplete(file[j])
                /\ IsFiniteSet(P) /\ Cardinality(P) <= Len(s.chain)
                /\ i \in P \cup {j}
                /\ \A p \in P : p \in Places /\ IsVerifiedComplete(file[p])
                /\ \A p \in P : \E q \in P \cup {j} :
                      /\ file[q].identity = file[p].parent
                      /\ file[p].sequence = file[q].sequence + 1
              G == {s \in LoopStates : /\ s.reason = "running" => \E P, j : On(s, P, j)
                                       /\ s.reason = "ok" => Intact(i)}
  <1>1. Start(file[i]) \in G
    <2>. DEFINE s == Start(file[i])
    <2>1. file[i] \in Candidates
      BY ElementOfSeq DEF Places
    <2>2. s \in LoopStates /\ s.current = file[i] /\ s.reason = "running"
          /\ Len(s.chain) = 0
      BY <2>1, StartType
    <2>. HIDE DEF s
    <2>3. On(s, {}, i)
      BY <2>2, FS_EmptySet
    <2>4. \E P, j : On(s, P, j)
      <3>. HIDE DEF On
      <3>. QED  BY <2>3
    <2>5. s.reason # "ok"
      BY <2>2
    <2>. QED  BY <2>2, <2>4, <2>5 DEF s
  <1>2. ASSUME NEW s \in G PROVE Turn(s) \in G
    <2>. DEFINE t == Turn(s)
    <2>1. /\ s \in LoopStates
          /\ t \in LoopStates
          /\ s.reason # "running" => t = s
          /\ s.reason = "running" =>
                \/ t.reason \in Refusals
                \/ /\ Len(s.chain) < MaxDepth /\ s.current.parent = None
                   /\ t.reason = "ok"
                \/ /\ Len(s.chain) < MaxDepth
                   /\ t.reason = "running"
                   /\ Len(t.chain) = Len(s.chain) + 1
                   /\ \E j \in Places :
                        /\ file[j].identity = s.current.parent
                        /\ t.current = file[j]
                        /\ IsVerifiedComplete(file[j])
                        /\ s.current.sequence = file[j].sequence + 1
      BY TurnResult
    <2>. HIDE DEF t
    <2>2. CASE s.reason # "running"
      BY <1>2, <2>1, <2>2 DEF t
    <2>3. CASE t.reason \in Refusals
      <3>1. t.reason # "running" /\ t.reason # "ok"
        BY <2>3 DEF Refusals
      <3>. QED  BY <2>1, <3>1 DEF t
    <2>4. ASSUME s.reason = "running" PROVE \E P, j : On(s, P, j)
      BY <1>2, <2>4
    <2>5. Len(s.chain) \in Nat /\ MaxDepth \in Nat
      BY <2>1, LimitsAssumption DEF LoopStates
    <2>6. CASE /\ s.reason = "running" /\ Len(s.chain) < MaxDepth
               /\ s.current.parent = None /\ t.reason = "ok"
      <3>1. PICK P, j : On(s, P, j)
        BY <2>4, <2>6
      <3>. DEFINE R == P \cup {j}
      <3>2. IsFiniteSet(R) /\ Cardinality(R) <= MaxDepth
        <4>1. Cardinality(P) \in Nat
          BY <3>1, FS_CardinalityType
        <4>2. IsFiniteSet(R)
              /\ Cardinality(R) = IF j \in P THEN Cardinality(P) ELSE Cardinality(P) + 1
          BY <3>1, FS_AddElement
        <4>3. Cardinality(P) <= Len(s.chain)
          BY <3>1
        <4>. HIDE DEF R, On
        <4>. QED  BY <2>5, <2>6, <4>1, <4>2, <4>3
      <3>3. R \in SUBSET {p \in Places : IsVerifiedComplete(file[p])} /\ i \in R
        BY <3>1
      <3>4. Line(R)
        BY <2>6, <3>1 DEF Line
      <3>. HIDE DEF R
      <3>5. Intact(i)
        BY <3>2, <3>3, <3>4 DEF Intact
      <3>. QED  BY <2>1, <2>6, <3>5 DEF t
    <2>7. CASE /\ s.reason = "running" /\ Len(s.chain) < MaxDepth
               /\ t.reason = "running" /\ Len(t.chain) = Len(s.chain) + 1
               /\ \E j \in Places :
                        /\ file[j].identity = s.current.parent
                        /\ t.current = file[j]
                        /\ IsVerifiedComplete(file[j])
                        /\ s.current.sequence = file[j].sequence + 1
      <3>1. PICK P, j : On(s, P, j)
        BY <2>4, <2>7
      <3>2. PICK k \in Places : /\ file[k].identity = s.current.parent
                                /\ t.current = file[k]
                                /\ IsVerifiedComplete(file[k])
                                /\ s.current.sequence = file[k].sequence + 1
        BY <2>7
      <3>. DEFINE R == P \cup {j}
      <3>3. IsFiniteSet(R) /\ Cardinality(R) <= Len(t.chain)
        <4>1. Cardinality(P) \in Nat
          BY <3>1, FS_CardinalityType
        <4>2. IsFiniteSet(R)
              /\ Cardinality(R) = IF j \in P THEN Cardinality(P) ELSE Cardinality(P) + 1
          BY <3>1, FS_AddElement
        <4>3. Cardinality(P) <= Len(s.chain)
          BY <3>1
        <4>. HIDE DEF R, On
        <4>. QED  BY <2>5, <2>7, <4>1, <4>2, <4>3
      <3>4. /\ i \in R \cup {k} /\ R \subseteq R \cup {k}
            /\ \A p \in R : p \in Places /\ IsVerifiedComplete(file[p])
        BY <3>1
      <3>5. \A p \in R : \E q \in R \cup {k} :
                /\ file[q].identity = file[p].parent
                /\ file[p].sequence = file[q].sequence + 1
        <4>1. TAKE p \in R
        <4>2. CASE p \in P
          <5>1. PICK q \in P \cup {j} : /\ file[q].identity = file[p].parent
                                        /\ file[p].sequence = file[q].sequence + 1
            BY <3>1, <4>2
          <5>. QED  BY <5>1
        <4>3. CASE p = j
          BY <3>1, <3>2, <4>3
        <4>. QED  BY <4>2, <4>3
      <3>. HIDE DEF R
      <3>6. On(t, R, k)
        BY <3>2, <3>3, <3>4, <3>5
      <3>7. \E P2, j2 : On(t, P2, j2)
        <4>. HIDE DEF On
        <4>. QED  BY <3>6
      <3>8. t.reason # "ok"
        BY <2>7
      <3>. QED  BY <2>1, <3>7, <3>8 DEF t
    <2>. QED  BY <2>1, <2>2, <2>3, <2>6, <2>7
  <1>. HIDE DEF G
  <1>3. Walk(file[i]) \in G
    BY <1>1, <1>2, WalkInvariant
  <1>. QED  BY <1>3 DEF G

\* No two places have the same identity.
LEMMA Unduplicated ==
    ASSUME ~Duplicated, NEW i \in Places, NEW j \in Places,
           file[i].identity = file[j].identity
    PROVE  i = j
  BY DEF Duplicated

\* A turn that finds nothing wrong goes on to the parent.
LEMMA TurnGoesOn ==
    ASSUME file \in Seq(Candidates), ~Duplicated, NEW s \in LoopStates,
           s.reason = "running", Len(s.chain) < MaxDepth,
           \A k \in DOMAIN s.chain : s.chain[k] # s.current.identity
    PROVE  /\ s.current.parent = None => Turn(s).reason = "ok"
           /\ \A j \in Places :
                 /\ s.current.parent # None /\ file[j].identity = s.current.parent
                 /\ IsVerifiedComplete(file[j])
                 /\ s.current.sequence = file[j].sequence + 1
                 => Turn(s) = [current |-> file[j],
                                   chain |-> <<s.current.identity>> \o s.chain,
                                   reason |-> "running"]
  <1>1. ~TooDeep(s.chain)
    <2>1. Len(s.chain) \in Nat /\ MaxDepth \in Nat
      BY LimitsAssumption DEF LoopStates
    <2>. QED  BY <2>1 DEF TooDeep
  <1>2. ASSUME s.current.parent = None PROVE Turn(s).reason = "ok"
    <2>1. Turn(s) = [current |-> s.current, chain |-> <<s.current.identity>> \o s.chain,
                         reason |-> "ok"]
      BY <1>1, <1>2, Zenon DEF Turn
    <2>. QED  BY <2>1
  <1>3. ASSUME NEW j \in Places, s.current.parent # None,
               file[j].identity = s.current.parent, IsVerifiedComplete(file[j]),
               s.current.sequence = file[j].sequence + 1
        PROVE  Turn(s) = [current |-> file[j],
                              chain |-> <<s.current.identity>> \o s.chain,
                              reason |-> "running"]
    <2>1. Holder(s.current.parent) # {}
      BY <1>3 DEF Holder
    <2>2. PICK h \in Places : Lookup(s.current.parent) = file[h]
                              /\ file[h].identity = s.current.parent
      BY <2>1, LookupHolds
    <2>3. Lookup(s.current.parent) = file[j]
      <3>1. h = j
        BY <1>3, <2>2, Unduplicated
      <3>. QED  BY <2>2, <3>1
    <2>4. file[j].status = "Verified" /\ file[j].kind # "Progress"
      BY <1>3 DEF IsVerifiedComplete
    <2>5. Misnumbered(s.current, file[j]) = {}
      <3>1. file[j].sequence \in Nat
        <4>1. file[j] \in Candidates
          BY ElementOfSeq DEF Places
        <4>. QED  BY <4>1, LimitsAssumption DEF Candidates
      <3>. QED  BY <1>3, <3>1 DEF Misnumbered
    <2>. QED  BY <1>1, <1>3, <2>1, <2>3, <2>4, <2>5, Zenon DEF Turn
  <1>. QED  BY <1>2, <1>3

\* A walk along an unbroken line is refused nowhere.
LEMMA IntactIsOk ==
    ASSUME file \in Seq(Candidates), ~Duplicated, NEW i \in Places,
           Intact(i)
    PROVE  IsVerifiedComplete(file[i]) /\ Walk(file[i]).reason = "ok"
  <1>1. PICK S \in SUBSET {j \in Places : IsVerifiedComplete(file[j])} :
                i \in S /\ Line(S) /\ Cardinality(S) <= MaxDepth
    BY DEF Intact
  <1>2. IsFiniteSet(S) /\ Cardinality(S) \in Nat /\ MaxDepth \in Nat
    <2>1. Len(file) \in Nat /\ Places = 1..Len(file)
      BY DEF Places
    <2>2. IsFiniteSet(Places)
      BY <2>1, FS_Interval
    <2>3. S \subseteq Places
      OBVIOUS
    <2>. QED  BY <2>2, <2>3, FS_Subset, FS_CardinalityType, LimitsAssumption
  <1>3. \A j \in S : /\ j \in Places /\ IsVerifiedComplete(file[j])
                     /\ file[j] \in Candidates /\ file[j].sequence \in Nat
                     /\ file[j].identity \in Identities
    <2>1. TAKE j \in S
    <2>2. j \in Places /\ IsVerifiedComplete(file[j])
      BY <2>1
    <2>3. file[j] \in Candidates
      BY <2>2, ElementOfSeq DEF Places
    <2>. QED  BY <2>2, <2>3, LimitsAssumption DEF Candidates
  <1>. DEFINE On(s, P, j) ==
                /\ s.current = file[j] /\ j \in S /\ P \subseteq S
                /\ Cardinality(P) = Len(s.chain)
                /\ \A p \in P : file[p].sequence > file[j].sequence
                /\ \A k \in 1..Len(s.chain) : \E p \in P : s.chain[k] = file[p].identity
              G == {s \in LoopStates : \/ s.reason = "ok"
                                       \/ s.reason = "running" /\ \E P, j : On(s, P, j)}
  <1>4. Start(file[i]) \in G
    <2>. DEFINE s == Start(file[i])
    <2>1. s \in LoopStates /\ s.current = file[i] /\ s.reason = "running"
          /\ Len(s.chain) = 0
      BY <1>1, <1>3, StartType
    <2>. HIDE DEF s
    <2>2. On(s, {}, i)
      BY <1>1, <2>1, FS_EmptySet
    <2>3. \E P, j : On(s, P, j)
      <3>. HIDE DEF On
      <3>. QED  BY <2>2
    <2>. QED  BY <2>1, <2>3 DEF s
  <1>5. ASSUME NEW s \in G PROVE Turn(s) \in G
    <2>1. s \in LoopStates /\ Turn(s) \in LoopStates
          /\ (s.reason # "running" => Turn(s) = s)
      BY TurnResult
    <2>2. CASE s.reason # "running"
      BY <1>5, <2>1, <2>2
    <2>3. CASE s.reason = "running"
      <3>1. PICK P, j : On(s, P, j)
        BY <1>5, <2>3
      <3>. DEFINE R == P \cup {j}
                  ch == s.chain
      <3>2. ch \in Seq(Identities) /\ Len(ch) \in Nat /\ DOMAIN ch = 1..Len(ch)
        BY <2>1 DEF LoopStates
      <3>3. j \in S /\ file[j].sequence \in Nat /\ s.current = file[j] /\ P \subseteq S
            /\ Cardinality(P) = Len(ch)
        BY <1>3, <3>1
      <3>4. j \notin P
        BY <1>3, <3>1
      <3>5. IsFiniteSet(R) /\ Cardinality(R) = Len(ch) + 1 /\ R \subseteq S
        <4>1. IsFiniteSet(P)
          BY <1>2, <3>3, FS_Subset
        <4>2. IsFiniteSet(R) /\ Cardinality(R) = Cardinality(P) + 1
          BY <3>4, <4>1, FS_AddElement
        <4>. QED  BY <3>3, <4>2
      <3>6. Len(ch) < MaxDepth
        <4>1. Cardinality(R) <= Cardinality(S)
          BY <1>2, <3>5, FS_Subset
        <4>. HIDE DEF R, ch
        <4>. QED  BY <1>1, <1>2, <3>2, <3>5, <4>1
      <3>7. \A k \in DOMAIN ch : ch[k] # file[j].identity
        <4>1. TAKE k \in DOMAIN ch
        <4>2. PICK p \in P : ch[k] = file[p].identity
          BY <3>1, <3>2
        <4>3. p # j /\ p \in Places /\ j \in Places
          BY <1>3, <3>3, <3>4
        <4>. QED  BY <4>2, <4>3, Unduplicated
      <3>8. CASE file[j].parent = None
        <4>1. Turn(s).reason = "ok"
          BY <2>1, <2>3, <3>3, <3>6, <3>7, <3>8, TurnGoesOn
        <4>. QED  BY <2>1, <4>1
      <3>9. CASE file[j].parent # None
        <4>1. PICK q \in S : /\ file[q].identity = file[j].parent
                             /\ file[j].sequence = file[q].sequence + 1
          BY <1>1, <3>3, <3>9 DEF Line
        <4>2. q \in Places /\ IsVerifiedComplete(file[q]) /\ file[q].sequence \in Nat
          BY <1>3
        <4>. DEFINE one == <<file[j].identity>>
                    gone == one \o ch
                    t == [current |-> file[q], chain |-> gone, reason |-> "running"]
        <4>3. Turn(s) = t
          <5>1. /\ s.current.parent # None /\ file[q].identity = s.current.parent
                /\ s.current.sequence = file[q].sequence + 1
            BY <3>3, <3>9, <4>1
          <5>2. \A k \in DOMAIN s.chain : s.chain[k] # s.current.identity
            BY <3>3, <3>7
          <5>. QED  BY <2>1, <2>3, <3>3, <3>6, <4>2, <5>1, <5>2, TurnGoesOn
        <4>4. /\ Len(gone) = Len(ch) + 1
              /\ gone[1] = file[j].identity
              /\ \A k \in 2..Len(gone) : gone[k] = ch[k - 1]
          <5>1. one \in Seq(Identities) /\ Len(one) = 1 /\ one[1] = file[j].identity
            BY <1>3, <3>3
          <5>. HIDE DEF one, ch
          <5>2. one \in Seq(Identities) /\ ch \in Seq(Identities)
            BY <3>2, <5>1
          <5>3. /\ one \o ch \in Seq(Identities) /\ Len(one \o ch) = Len(one) + Len(ch)
                /\ \A k \in 1..(Len(one) + Len(ch)) : (one \o ch)[k] =
                      IF k <= Len(one) THEN one[k] ELSE ch[k - Len(one)]
            BY <5>2, ConcatProperties, ZenonT(60)
          <5>. QED  BY <3>2, <5>1, <5>3
        <4>5. \A k \in 1..Len(gone) : \E p \in R : gone[k] = file[p].identity
          <5>. HIDE DEF gone, ch
          <5>1. TAKE k \in 1..Len(gone)
          <5>2. CASE k = 1
            BY <4>4, <5>2
          <5>3. CASE k # 1
            <6>1. k - 1 \in 1..Len(ch) /\ gone[k] = ch[k - 1]
              BY <3>2, <4>4, <5>1, <5>3
            <6>2. PICK p \in P : ch[k - 1] = file[p].identity
              BY <3>1, <6>1 DEF ch
            <6>. QED  BY <6>1, <6>2
          <5>. QED  BY <5>2, <5>3
        <4>6. \A p \in R : file[p].sequence > file[q].sequence
          <5>1. TAKE p \in R
          <5>2. file[p].sequence \in Nat
            BY <1>3, <3>5
          <5>3. p = j \/ file[p].sequence > file[j].sequence
            BY <3>1
          <5>. QED  BY <3>3, <4>1, <4>2, <5>2, <5>3
        <4>. HIDE DEF gone, ch, R
        <4>7. t.current = file[q] /\ t.chain = gone /\ t.reason = "running"
          OBVIOUS
        <4>. HIDE DEF t
        <4>8. On(t, R, q)
          BY <3>5, <4>4, <4>5, <4>6, <4>7
        <4>9. \E P2, j2 : On(t, P2, j2)
          <5>. HIDE DEF On
          <5>. QED  BY <4>8
        <4>. QED  BY <2>1, <4>3, <4>7, <4>9
      <3>. QED  BY <3>8, <3>9
    <2>. QED  BY <2>2, <2>3
  <1>. HIDE DEF G
  <1>6. Walk(file[i]) \in G
    BY <1>4, <1>5, WalkInvariant
  <1>7. Walk(file[i]).reason # "running"
    BY <1>1, <1>3, WalkEnds
  <1>. QED  BY <1>1, <1>3, <1>6, <1>7 DEF G

-----------------------------------------------------------------------------
(* Selection and enumeration of one file. *)

\* Both walks accept the same candidates, and count the same depth.
LEMMA ChainsAgree ==
    ASSUME file \in Seq(Candidates), NEW i \in Places
    PROVE  /\ EvaluateChain(file[i]).reason = "ok" <=> ClassifyChain(file[i]).reason = "ok"
           /\ EvaluateChain(file[i]).reason = "ok" =>
                 ClassifyChain(file[i]).depth = Len(EvaluateChain(file[i]).chain)
           /\ ClassifyChain(file[i]).reason \in
                 Refusals \cup Statuses \cup {"ok"}
  <1>. DEFINE c == file[i]
  <1>1. c \in Candidates
    BY ElementOfSeq DEF Places
  <1>2. "ok" \notin Refusals \cup Statuses /\ "running" \notin Refusals
        /\ "ProgressCheckpoint" \in Refusals
    BY DEF Refusals, Statuses
  <1>. HIDE DEF c
  <1>3. c.status \in Statuses
    BY <1>1 DEF Candidates
  <1>4. CASE c.status # "Verified" \/ c.kind = "Progress"
    <2>1. \A r : Rejected(r).reason = r /\ Unclassified(r).reason = r
      BY DEF Rejected, Unclassified
    <2>2. EvaluateChain(c).reason # "ok"
      BY <1>4, <2>1 DEF EvaluateChain
    <2>3. ClassifyChain(c).reason = c.status \/ ClassifyChain(c).reason = "ProgressCheckpoint"
      BY <1>4, <2>1 DEF ClassifyChain
    <2>. QED  BY <1>2, <1>3, <2>2, <2>3 DEF c
  <1>5. CASE c.status = "Verified" /\ c.kind # "Progress"
    <2>1. EvaluateChain(c) = Walk(c) /\ ClassifyChain(c) = ClassifyWalk(c)
      BY <1>5 DEF EvaluateChain, ClassifyChain
    <2>2. InStep(Walk(c), ClassifyWalk(c))
      BY <1>1, WalksInStep
    <2>3. Walk(c).reason # "running"
      BY <1>1, WalkEnds
    <2>. QED  BY <1>2, <2>1, <2>2, <2>3 DEF c, InStep
  <1>. QED  BY <1>4, <1>5

LEMMA DepthsAreValid ==
    ASSUME file \in Seq(Candidates)
    PROVE  ValidDepths = Valid
  BY ChainsAgree DEF ValidDepths, Valid

\* The valid places are the intact ones.
LEMMA ValidIsIntact ==
    ASSUME file \in Seq(Candidates), ~Duplicated
    PROVE  Valid = {i \in Places : Intact(i)}
  <1>2. ASSUME NEW i \in Places, EvaluateChain(file[i]).reason = "ok" PROVE Intact(i)
    <2>1. file[i] \in Candidates
      BY ElementOfSeq DEF Places
    <2>2. \A r : Rejected(r).reason = r
      BY DEF Rejected
    <2>3. file[i].status = "Verified" /\ file[i].kind # "Progress"
          /\ EvaluateChain(file[i]) = Walk(file[i])
      BY <1>2, <2>2 DEF EvaluateChain
    <2>4. IsVerifiedComplete(file[i])
      BY <2>1, <2>3 DEF Candidates, Kinds, IsVerifiedComplete
    <2>. QED  BY <1>2, <2>3, <2>4, OkIsIntact
  <1>3. ASSUME NEW i \in Places, Intact(i) PROVE EvaluateChain(file[i]).reason = "ok"
    <2>1. IsVerifiedComplete(file[i]) /\ Walk(file[i]).reason = "ok"
      BY <1>3, IntactIsOk
    <2>2. EvaluateChain(file[i]) = Walk(file[i])
      BY <2>1 DEF EvaluateChain, IsVerifiedComplete
    <2>. QED  BY <2>1, <2>2
  <1>. QED  BY <1>2, <1>3 DEF Valid

\* Sequence numbers of the places of a file.
LEMMA PlaceTypes ==
    ASSUME file \in Seq(Candidates)
    PROVE  /\ Len(file) \in Nat /\ Places = 1..Len(file) /\ IsFiniteSet(Places)
           /\ \A i \in Places : /\ file[i] \in Candidates
                                /\ file[i].sequence \in Nat /\ file[i].sequence <= MaxSequence
                                /\ file[i].identity \in Identities
                                /\ file[i].identity # None
  <1>1. Len(file) \in Nat /\ Places = 1..Len(file)
    BY DEF Places
  <1>2. IsFiniteSet(Places)
    BY <1>1, FS_Interval
  <1>3. ASSUME NEW i \in Places
        PROVE  /\ file[i] \in Candidates
               /\ file[i].sequence \in Nat /\ file[i].sequence <= MaxSequence
               /\ file[i].identity \in Identities
               /\ file[i].identity # None
    <2>1. file[i] \in Candidates
      BY <1>3, ElementOfSeq DEF Places
    <2>. QED  BY <2>1, LimitsAssumption DEF Candidates
  <1>. QED  BY <1>1, <1>2, <1>3

\* Some place is the highest of those there are.
LEMMA HighestExists ==
    ASSUME file \in Seq(Candidates), NEW V \in SUBSET Places, V # {}
    PROVE  Highest(V) # {}
  <1>. DEFINE T == {file[i].sequence : i \in V}
  <1>1. T \subseteq Nat /\ T # {} /\ MaxSequence \in Nat /\ \A n \in T : n <= MaxSequence
    BY PlaceTypes, LimitsAssumption
  <1>2. IsFiniteSet(T)
    BY <1>1, FS_BoundedSetOfNaturals
  <1>3. PICK n \in T : \A m \in T : m <= n
    <2>. HIDE DEF T
    <2>. QED  BY <1>1, <1>2, GreatestNumber
  <1>4. PICK i \in V : n = file[i].sequence
    BY <1>3
  <1>5. i \in Highest(V)
    BY <1>3, <1>4 DEF Highest
  <1>. QED  BY <1>5

\* The highest places are nobody's parents.
LEMMA HighestIsTerminal ==
    ASSUME file \in Seq(Candidates), ~Duplicated
    PROVE  Highest(Valid \ Parents(Valid)) = Highest(Valid)
  <1>. DEFINE V == Valid
  <1>1. V \subseteq Places
    BY DEF Valid
  <1>2. ASSUME NEW i \in V, NEW j \in V, file[j].parent = file[i].identity
        PROVE  file[j].sequence = file[i].sequence + 1
    <2>1. Intact(j)
      BY <1>2, ValidIsIntact
    <2>2. PICK S \in SUBSET {k \in Places : IsVerifiedComplete(file[k])} : j \in S /\ Line(S)
      BY <2>1 DEF Intact
    <2>3. file[j].parent # None
      BY <1>1, <1>2, PlaceTypes
    <2>4. PICK k \in S : /\ file[k].identity = file[j].parent
                         /\ file[j].sequence = file[k].sequence + 1
      BY <2>2, <2>3 DEF Line
    <2>5. k = i
      BY <1>1, <1>2, <2>2, <2>4, Unduplicated
    <2>. QED  BY <2>4, <2>5
  <1>. HIDE DEF V
  <1>3. \A i \in V : file[i].sequence \in Nat
    BY <1>1, PlaceTypes
  <1>4. Highest(V) \cap Parents(V) = {}
    BY <1>2, <1>3 DEF Highest, Parents
  <1>5. Highest(V) \subseteq Highest(V \ Parents(V))
    BY <1>4 DEF Highest
  <1>6. ASSUME NEW i \in Highest(V \ Parents(V)) PROVE i \in Highest(V)
    <2>1. i \in V \ Parents(V)
      BY DEF Highest
    <2>2. PICK m \in Highest(V) : TRUE
      BY <1>1, <2>1, HighestExists
    <2>3. m \in V \ Parents(V) /\ \A j \in V : file[j].sequence <= file[m].sequence
      BY <1>4, <2>2 DEF Highest
    <2>4. file[m].sequence <= file[i].sequence
      BY <2>3 DEF Highest
    <2>5. \A j \in V : file[j].sequence <= file[i].sequence
      BY <1>3, <2>1, <2>3, <2>4
    <2>. QED  BY <2>1, <2>5 DEF Highest
  <1>. QED  BY <1>5, <1>6 DEF V

\* A set is empty, has several elements, or one that is then chosen.
LEMMA NoneOneSeveral ==
    ASSUME NEW V, IsFiniteSet(V)
    PROVE  \/ V = {} /\ ~(Cardinality(V) > 1)
           \/ V # {} /\ Cardinality(V) > 1 /\ \A i : V # {i}
           \/ \E i : V = {i} /\ ~(Cardinality(V) > 1) /\ (CHOOSE k \in V : TRUE) = i
  <1>1. Cardinality(V) \in Nat /\ (Cardinality(V) = 0 <=> V = {})
    BY FS_CardinalityType, FS_EmptySet
  <1>2. CASE Cardinality(V) = 1
    <2>1. PICK i : V = {i}
      BY <1>2, FS_Singleton
    <2>2. (CHOOSE k \in V : TRUE) = i
      BY <2>1
    <2>. QED  BY <1>2, <2>1, <2>2
  <1>3. CASE Cardinality(V) > 1
    <2>1. \A i : V # {i}
      BY <1>3, FS_Singleton
    <2>2. V # {}
      BY <1>1, <1>3
    <2>. QED  BY <1>3, <2>1, <2>2, Zenon
  <1>. QED  BY <1>1, <1>2, <1>3

\* What recovery reports of a file of distinct snapshots within the limit.
LEMMA RecoveryOfHighest ==
    ASSUME file \in Seq(Candidates), Len(file) <= MaxCandidates, ~Duplicated
    PROVE  /\ Highest(Valid) \subseteq Places /\ IsFiniteSet(Highest(Valid))
           /\ Recovery = OneOf(Highest(Valid), "NoValidRoot", "AmbiguousFork")
           /\ Recovery.error \in {"none", "NoValidRoot", "AmbiguousFork"}
           /\ Recovery.error = "NoValidRoot" <=> Highest(Valid) = {}
           /\ Recovery.error = "AmbiguousFork" <=> Cardinality(Highest(Valid)) > 1
           /\ Recovery.error = "none" => /\ Highest(Valid) = {Recovery.root}
                                         /\ Recovery = Selected(Recovery.root)
           /\ \A i : Highest(Valid) = {i} =>
                 Recovery = Selected(i) /\ Recovery.error = "none" /\ Recovery.root = i
  <1>. DEFINE H == Highest(Valid)
  <1>1. H \subseteq Places /\ IsFiniteSet(H)
    <2>1. H \subseteq Places
      BY DEF Highest, Valid
    <2>. QED  BY <2>1, PlaceTypes, FS_Subset
  <1>2. Recovery = OneOf(H, "NoValidRoot", "AmbiguousFork")
    <2>1. ~(Len(file) > MaxCandidates)
      BY PlaceTypes, LimitsAssumption
    <2>2. Recovery = OneOf(Highest(Valid \ Parents(Valid)), "NoValidRoot", "AmbiguousFork")
      BY <2>1 DEF Recovery, Select
    <2>. QED  BY <2>2, HighestIsTerminal
  <1>. HIDE DEF H
  <1>3. /\ \A e : Failed(e).error = e
        /\ \A i : Selected(i).error = "none" /\ Selected(i).root = i
    BY DEF Failed, Selected
  <1>4. \/ H = {} /\ ~(Cardinality(H) > 1)
        \/ H # {} /\ Cardinality(H) > 1 /\ \A i : H # {i}
        \/ \E i : H = {i} /\ ~(Cardinality(H) > 1) /\ (CHOOSE k \in H : TRUE) = i
    BY <1>1, NoneOneSeveral
  <1>5. CASE H = {} /\ ~(Cardinality(H) > 1)
    <2>1. Recovery = Failed("NoValidRoot")
      BY <1>2, <1>5 DEF OneOf
    <2>. QED  BY <1>1, <1>2, <1>3, <1>5, <2>1 DEF H
  <1>6. CASE H # {} /\ Cardinality(H) > 1 /\ \A i : H # {i}
    <2>1. Recovery = Failed("AmbiguousFork")
      BY <1>2, <1>6 DEF OneOf
    <2>2. Recovery.error = "AmbiguousFork"
      BY <1>3, <2>1
    <2>3. Recovery.error # "NoValidRoot" /\ Recovery.error # "none"
      BY <2>2
    <2>. QED  BY <1>1, <1>2, <1>6, <2>2, <2>3, Zenon DEF H
  <1>7. ASSUME NEW i, H = {i}, ~(Cardinality(H) > 1), (CHOOSE k \in H : TRUE) = i
        PROVE  /\ Recovery = Selected(i) /\ Recovery.error = "none" /\ Recovery.root = i
    <2>1. Recovery = Selected(i)
      BY <1>2, <1>7, Zenon DEF OneOf
    <2>. QED  BY <1>3, <2>1
  <1>8. CASE \E i : H = {i} /\ ~(Cardinality(H) > 1) /\ (CHOOSE k \in H : TRUE) = i
    <2>1. PICK i : H = {i} /\ ~(Cardinality(H) > 1) /\ (CHOOSE k \in H : TRUE) = i
      BY <1>8
    <2>2. Recovery = Selected(i) /\ Recovery.error = "none" /\ Recovery.root = i
      BY <1>7, <2>1
    <2>. QED  BY <1>1, <1>2, <2>1, <2>2 DEF H
  <1>. QED  BY <1>4, <1>5, <1>6, <1>8

\* A file over the limit, or with an identity twice, is refused for that.
LEMMA RecoveryOfOther ==
    ASSUME file \in Seq(Candidates), Len(file) > MaxCandidates \/ Duplicated
    PROVE  Recovery.error \in {"CandidateLimitExceeded", "DuplicateIdentity"}
  <1>1. \A e : Failed(e).error = e
    BY DEF Failed
  <1>2. Recovery = Failed("CandidateLimitExceeded") \/ Recovery = Failed("DuplicateIdentity")
    BY DEF Recovery, Select
  <1>. QED  BY <1>1, <1>2

LEMMA NewestIntact ==
    ASSUME file \in Seq(Candidates)
    PROVE  RecoveryIsNewestIntact
  <1>1. CASE Len(file) > MaxCandidates \/ Duplicated
    BY <1>1, RecoveryOfOther DEF RecoveryIsNewestIntact
  <1>2. CASE ~(Len(file) > MaxCandidates \/ Duplicated)
    <2>1. Len(file) <= MaxCandidates /\ ~Duplicated
      BY <1>2, PlaceTypes, LimitsAssumption
    <2>2. Highest({i \in Places : Intact(i)}) = Highest(Valid)
      BY <2>1, ValidIsIntact
    <2>. QED  BY <2>1, <2>2, RecoveryOfHighest, Zenon DEF RecoveryIsNewestIntact
  <1>. QED  BY <1>1, <1>2

\* A place is found by its identity.
LEMMA LookupPlace ==
    ASSUME file \in Seq(Candidates), ~Duplicated, NEW i \in Places
    PROVE  Lookup(file[i].identity) = file[i]
  <1>1. Holder(file[i].identity) # {}
    BY DEF Holder
  <1>2. PICK j \in Places : /\ Lookup(file[i].identity) = file[j]
                            /\ file[j].identity = file[i].identity
    BY <1>1, LookupHolds
  <1>. QED  BY <1>2, Unduplicated

\* What enumerate works out over identities is what select works out over the
\* candidates: the ancestors, the terminals and the highest of them.
LEMMA EnumeratedSets ==
    ASSUME file \in Seq(Candidates), ~Duplicated
    PROVE  LET ids == {file[i].identity : i \in ValidDepths}
               parentIds == {file[i].parent : i \in ValidDepths} \cap ids
               terminals == ids \ parentIds
               sequences == {Lookup(id).sequence : id \in terminals}
               maximum == {s \in sequences : \A t \in sequences : t <= s}
               highest == {id \in terminals : Lookup(id).sequence \in maximum}
           IN  /\ maximum = {file[i].sequence : i \in Highest(Valid)}
               /\ Cardinality(highest) > 1 <=> Cardinality(Highest(Valid)) > 1
               /\ \A i \in Places : /\ file[i].identity \in ids <=> i \in Valid
                                    /\ file[i].identity \in parentIds <=> i \in Parents(Valid)
                                    /\ file[i].identity \in highest <=> i \in Highest(Valid)
  <1>. DEFINE V == Valid
              A == Parents(V)
              H == Highest(V)
              ids == {file[i].identity : i \in ValidDepths}
              parentIds == {file[i].parent : i \in ValidDepths} \cap ids
              terminals == ids \ parentIds
              sequences == {Lookup(id).sequence : id \in terminals}
              maximum == {s \in sequences : \A t \in sequences : t <= s}
              highest == {id \in terminals : Lookup(id).sequence \in maximum}
  <1>1. ValidDepths = V /\ V \subseteq Places
    BY DepthsAreValid DEF Valid
  <1>2. H = Highest(V \ A) /\ H \subseteq V \ A
    BY HighestIsTerminal DEF Highest
  <1>. HIDE DEF V
  <1>3. \A i \in Places : file[i].identity \in ids <=> i \in V
    BY <1>1, Unduplicated
  <1>4. \A i \in Places : file[i].identity \in parentIds <=> i \in A
    BY <1>1, <1>3 DEF Parents
  <1>5. \A i \in Places : file[i].identity \in terminals <=> i \in V \ A
    BY <1>3, <1>4
  <1>6. \A id \in terminals : \E i \in V \ A : id = file[i].identity
    <2>1. TAKE id \in terminals
    <2>2. PICK i \in V : id = file[i].identity
      BY <1>1
    <2>. HIDE DEF terminals
    <2>. QED  BY <1>1, <1>5, <2>2
  <1>. HIDE DEF ids, parentIds, terminals
  <1>7. \A i \in Places : Lookup(file[i].identity) = file[i] /\ file[i].sequence \in Nat
    BY LookupPlace, PlaceTypes
  <1>8. sequences = {file[i].sequence : i \in V \ A}
    <2>1. ASSUME NEW id \in terminals PROVE \E i \in V \ A : Lookup(id).sequence = file[i].sequence
      BY <1>1, <1>6, <1>7, <2>1
    <2>2. ASSUME NEW i \in V \ A PROVE \E id \in terminals : Lookup(id).sequence = file[i].sequence
      <3>1. i \in Places
        BY <1>1
      <3>. QED  BY <1>5, <1>7, <2>2, <3>1
    <2>. QED  BY <2>1, <2>2
  <1>9. \A i \in V \ A : file[i].sequence \in maximum <=> i \in H
    <2>1. TAKE i \in V \ A
    <2>2. file[i].sequence \in sequences
      BY <1>8
    <2>3. file[i].sequence \in maximum <=> \A j \in V \ A : file[j].sequence <= file[i].sequence
      BY <1>8, <2>2
    <2>4. i \in H <=> \A j \in V \ A : file[j].sequence <= file[i].sequence
      BY <1>2 DEF Highest
    <2>. QED  BY <2>3, <2>4
  <1>10. maximum = {file[i].sequence : i \in H}
    <2>1. maximum \subseteq {file[i].sequence : i \in V \ A}
      BY <1>8
    <2>. HIDE DEF maximum, H
    <2>. QED  BY <1>2, <1>9, <2>1
  <1>. HIDE DEF sequences, maximum
  <1>11. \A i \in Places : file[i].identity \in highest <=> i \in H
    <2>1. TAKE i \in Places
    <2>2. file[i].identity \in highest <=> i \in V \ A /\ file[i].sequence \in maximum
      BY <1>5, <1>7
    <2>. QED  BY <1>2, <1>9, <2>2
  <1>12. \A id \in highest : \E i \in H : id = file[i].identity
    <2>1. TAKE id \in highest
    <2>2. id \in terminals
      OBVIOUS
    <2>3. PICK i \in V \ A : id = file[i].identity
      BY <1>6, <2>2
    <2>. HIDE DEF highest, H
    <2>. QED  BY <1>1, <1>11, <2>1, <2>3
  <1>. HIDE DEF highest
  <1>13. Cardinality(highest) > 1 <=> Cardinality(H) > 1
    <2>1. IsFiniteSet(H) /\ H \subseteq Places
      <3>1. H \subseteq Places
        BY <1>1, <1>2
      <3>. QED  BY <3>1, PlaceTypes, FS_Subset
    <2>. HIDE DEF H
    <2>2. highest = {file[i].identity : i \in H}
      BY <1>11, <1>12, <2>1
    <2>3. IsFiniteSet(highest)
      <3>. DEFINE f == [i \in H |-> file[i].identity]
      <3>1. f \in Surjection(H, highest)
        BY <2>2 DEF Surjection
      <3>. HIDE DEF f
      <3>. QED  BY <2>1, <3>1, FS_Surjection
    <2>4. \A i, j \in H : file[i].identity = file[j].identity => i = j
      BY <2>1, Unduplicated
    <2>5. H = {} <=> highest = {}
      BY <2>2
    <2>6. (\E i : H = {i}) <=> (\E x : highest = {x})
      <3>1. ASSUME NEW i, H = {i} PROVE highest = {file[i].identity}
        BY <2>2, <3>1
      <3>2. ASSUME NEW x, highest = {x} PROVE \E i : H = {i}
        <4>1. PICK i \in H : x = file[i].identity
          BY <1>12, <3>2
        <4>2. \A j \in H : file[j].identity = x
          BY <2>2, <3>2
        <4>3. H = {i}
          BY <2>4, <4>1, <4>2
        <4>. QED  BY <4>3
      <3>. QED  BY <3>1, <3>2
    <2>7. \/ H = {} /\ ~(Cardinality(H) > 1)
          \/ H # {} /\ Cardinality(H) > 1 /\ \A i : H # {i}
          \/ \E i : H = {i} /\ ~(Cardinality(H) > 1) /\ (CHOOSE k \in H : TRUE) = i
      BY <2>1, NoneOneSeveral
    <2>8. \/ highest = {} /\ ~(Cardinality(highest) > 1)
          \/ highest # {} /\ Cardinality(highest) > 1 /\ \A i : highest # {i}
          \/ \E i : highest = {i} /\ ~(Cardinality(highest) > 1)
                    /\ (CHOOSE k \in highest : TRUE) = i
      BY <2>3, NoneOneSeveral
    <2>. QED  BY <2>5, <2>6, <2>7, <2>8, Zenon
  <1>. QED  BY <1>3, <1>4, <1>10, <1>11, <1>13
            DEF V, ids, parentIds, terminals, sequences, maximum, highest

LEMMA EnumerationOfFile ==
    ASSUME file \in Seq(Candidates)
    PROVE  EnumerationAgrees
  <1>1. SUFFICES ASSUME Enumerate.error = "none" PROVE EnumerationAgrees
    BY DEF EnumerationAgrees
  <1>. DEFINE A == Parents(Valid)
              H == Highest(Valid)
              ids == {file[i].identity : i \in ValidDepths}
              parentIds == {file[i].parent : i \in ValidDepths} \cap ids
              terminals == ids \ parentIds
              sequences == {Lookup(id).sequence : id \in terminals}
              maximum == {s \in sequences : \A t \in sequences : t <= s}
              highest == {id \in terminals : Lookup(id).sequence \in maximum}
              fork == Cardinality(highest) > 1
              status(c) == IF fork /\ c.identity \in highest THEN "VerifiedForkTerminal"
                           ELSE IF c.identity \in parentIds THEN "VerifiedAncestor"
                           ELSE IF c.identity \in ids THEN "VerifiedTerminal"
                           ELSE ClassifyChain(c).reason
              report == [error |-> "none",
                         status |-> [i \in Places |-> status(file[i])],
                         depth |-> [i \in ValidDepths |-> ClassifyChain(file[i]).depth],
                         sequence |-> maximum,
                         fork |-> fork]
  <1>2. Len(file) <= MaxCandidates /\ ~(Len(file) > MaxResults) /\ ~Duplicated
        /\ ~(Len(file) > MaxCandidates)
    <2>1. ~(Len(file) > MaxCandidates) /\ ~(Len(file) > MaxResults) /\ ~Duplicated
      BY <1>1 DEF Enumerate
    <2>. QED  BY <2>1, PlaceTypes, LimitsAssumption
  <1>3. Enumerate = report
    BY <1>2, Zenon DEF Enumerate
  <1>4. /\ maximum = {file[i].sequence : i \in H}
        /\ fork <=> Cardinality(H) > 1
        /\ \A i \in Places : /\ file[i].identity \in ids <=> i \in Valid
                             /\ file[i].identity \in parentIds <=> i \in A
                             /\ file[i].identity \in highest <=> i \in H
    BY <1>2, EnumeratedSets
  <1>. HIDE DEF ids, parentIds, terminals, sequences, maximum, highest, fork
  <1>5. /\ Enumerate.status = [i \in Places |-> status(file[i])]
        /\ Enumerate.depth = [i \in ValidDepths |-> ClassifyChain(file[i]).depth]
        /\ Enumerate.sequence = maximum
        /\ Enumerate.fork = fork
    <2>. HIDE DEF status
    <2>. QED  BY <1>3
  <1>6. A \subseteq Valid /\ H \subseteq Valid /\ Valid \subseteq Places /\ ValidDepths = Valid
    BY DepthsAreValid DEF Parents, Highest, Valid
  <1>7. H \cap A = {}
    <2>1. H = Highest(Valid \ A)
      BY <1>2, HighestIsTerminal
    <2>. QED  BY <2>1 DEF Highest
  <1>. HIDE DEF A, H
  <1>8. \A i \in Places : Enumerate.status[i] =
            IF fork /\ i \in H THEN "VerifiedForkTerminal"
            ELSE IF i \in A THEN "VerifiedAncestor"
            ELSE IF i \in Valid THEN "VerifiedTerminal"
            ELSE ClassifyChain(file[i]).reason
    <2>1. TAKE i \in Places
    <2>2. Enumerate.status[i] = status(file[i])
      <3>. HIDE DEF status
      <3>. QED  BY <1>5
    <2>. QED  BY <1>4, <2>2, Zenon
  <1>9. \A i \in Places : i \in Valid <=> Enumerate.status[i] \in
            {"VerifiedTerminal", "VerifiedAncestor", "VerifiedForkTerminal"}
    <2>1. TAKE i \in Places
    <2>2. ClassifyChain(file[i]).reason \in Refusals \cup Statuses \cup {"ok"}
      BY ChainsAgree
    <2>3. ClassifyChain(file[i]).reason \notin
            {"VerifiedTerminal", "VerifiedAncestor", "VerifiedForkTerminal"}
      BY <2>2 DEF Refusals, Statuses
    <2>. QED  BY <1>6, <1>8, <2>3
  <1>10. Enumerate.fork <=> Recovery.error = "AmbiguousFork"
    <2>1. Recovery.error = "AmbiguousFork" <=> Cardinality(H) > 1
      BY <1>2, RecoveryOfHighest, Zenon DEF H
    <2>. QED  BY <1>4, <1>5, <2>1
  <1>11. ASSUME Recovery.error = "none"
         PROVE  /\ Enumerate.status[Recovery.root] = "VerifiedTerminal"
                /\ Enumerate.sequence = {file[Recovery.root].sequence}
                /\ Enumerate.depth[Recovery.root] = Len(Recovery.chain)
    <2>. DEFINE r == Recovery.root
    <2>1. H = {r} /\ Recovery = Selected(r)
      BY <1>2, <1>11, RecoveryOfHighest, Zenon DEF H
    <2>2. ~fork
      <3>1. Recovery.error # "AmbiguousFork"
        BY <1>11
      <3>. QED  BY <1>5, <1>10, <3>1
    <2>3. Recovery.chain = EvaluateChain(file[r]).chain
      <3>1. \A i : Selected(i).chain = EvaluateChain(file[i]).chain
        BY DEF Selected
      <3>2. Recovery.chain = Selected(r).chain
        BY <2>1, Zenon
      <3>. QED  BY <3>1, <3>2, Zenon
    <2>. HIDE DEF r
    <2>4. r \in Valid /\ r \in Places /\ r \notin A
      BY <1>6, <1>7, <2>1
    <2>5. ClassifyChain(file[r]).depth = Len(EvaluateChain(file[r]).chain)
      BY <2>4, ChainsAgree DEF Valid
    <2>6. Enumerate.status[r] = "VerifiedTerminal"
      BY <1>8, <2>2, <2>4
    <2>7. Enumerate.sequence = {file[r].sequence}
      BY <1>4, <1>5, <2>1
    <2>8. Enumerate.depth[r] = Len(Recovery.chain)
      BY <1>5, <1>6, <2>3, <2>4, <2>5
    <2>. QED  BY <2>6, <2>7, <2>8 DEF r
  <1>. QED  BY <1>9, <1>10, <1>11, Zenon DEF EnumerationAgrees

-----------------------------------------------------------------------------
(* What both modes report, by the valid places alone. *)

\* A file over the limit, or with an identity twice, is refused for that.
LEMMA SelectOfOther ==
    ASSUME Len(file) > MaxCandidates \/ Duplicated, NEW mode
    PROVE  Select(mode) = IF Len(file) > MaxCandidates THEN Failed("CandidateLimitExceeded")
                          ELSE Failed("DuplicateIdentity")
  BY DEF Select

\* What a strict reader reports of any other file.
LEMMA StrictOfEnd ==
    ASSUME file \in Seq(Candidates), ~(Len(file) > MaxCandidates), ~Duplicated
    PROVE  /\ Len(file) \in Valid /\ ~tail => Strict = Selected(Len(file))
           /\ ~(Len(file) \in Valid /\ ~tail) => Strict = Failed("NoExactEndRoot")
  <1>. DEFINE E == {i \in Valid : ExactEnd(i)}
              n == Len(file)
  <1>1. Strict = OneOf(E, "NoExactEndRoot", "MultipleExactEndRoots")
    BY DEF Strict, Select
  <1>2. E = IF n \in Valid /\ ~tail THEN {n} ELSE {}
    BY DEF ExactEnd
  <1>. HIDE DEF E, n
  <1>3. CASE n \in Valid /\ ~tail
    <2>1. E = {n}
      BY <1>2, <1>3
    <2>2. IsFiniteSet(E) /\ Cardinality(E) = 1
      BY <2>1, FS_Singleton
    <2>3. E # {} /\ ~(Cardinality(E) > 1) /\ (CHOOSE i \in E : TRUE) = n
      BY <2>1, <2>2
    <2>4. Strict = Selected(n)
      BY <1>1, <2>3, Zenon DEF OneOf
    <2>. QED  BY <1>3, <2>4 DEF n
  <1>4. CASE ~(n \in Valid /\ ~tail)
    <2>1. E = {}
      BY <1>2, <1>4
    <2>2. Strict = Failed("NoExactEndRoot")
      BY <1>1, <2>1, Zenon DEF OneOf
    <2>. QED  BY <1>4, <2>2 DEF n
  <1>. QED  BY <1>3, <1>4

LEMMA Reports ==
    /\ \A e : Failed(e).error = e /\ Failed(e).root = 0
    /\ \A i : Selected(i).error = "none" /\ Selected(i).root = i
  BY DEF Failed, Selected

LEMMA ValidIsComplete ==
    ASSUME NEW i \in Valid
    PROVE  i \in Places /\ file[i].status = "Verified" /\ file[i].kind # "Progress"
  <1>1. \A r : Rejected(r).reason = r
    BY DEF Rejected
  <1>. QED  BY <1>1 DEF Valid, EvaluateChain

\* Whichever root a writer works on is valid.
LEMMA BaseIsValid ==
    ASSUME file \in Seq(Candidates), NEW mode \in {"StrictExactEnd", "Recovery"},
           Select(mode).error = "none"
    PROVE  /\ Select(mode).root \in Valid /\ ~Duplicated /\ Len(file) <= MaxCandidates
           /\ mode = "StrictExactEnd" => Select(mode).root = Len(file)
           /\ mode = "Recovery" => Highest(Valid) = {Select(mode).root}
  <1>1. ~(Len(file) > MaxCandidates \/ Duplicated)
    <2>1. SUFFICES ASSUME Len(file) > MaxCandidates \/ Duplicated PROVE FALSE
      OBVIOUS
    <2>2. Select(mode) = Failed("CandidateLimitExceeded") \/ Select(mode) = Failed("DuplicateIdentity")
      BY <2>1, SelectOfOther
    <2>. QED  BY <2>2, Reports
  <1>2. Len(file) <= MaxCandidates /\ ~Duplicated /\ ~(Len(file) > MaxCandidates)
    BY <1>1, PlaceTypes, LimitsAssumption
  <1>3. CASE mode = "StrictExactEnd"
    <2>1. Strict = Select(mode) /\ Strict.error = "none"
      BY <1>3 DEF Strict
    <2>2. Strict # Failed("NoExactEndRoot")
      BY <2>1, Reports
    <2>3. Strict = Selected(Len(file)) /\ Len(file) \in Valid
      BY <1>2, <2>2, StrictOfEnd
    <2>4. Strict.root = Len(file)
      BY <2>3, Reports
    <2>. QED  BY <1>2, <1>3, <2>1, <2>3, <2>4
  <1>4. CASE mode = "Recovery"
    <2>1. Recovery = Select(mode) /\ Recovery.error = "none"
      BY <1>4 DEF Recovery
    <2>2. Highest(Valid) = {Recovery.root}
      BY <1>2, <2>1, RecoveryOfHighest
    <2>3. Recovery.root \in Valid
      BY <2>2 DEF Highest
    <2>. QED  BY <1>2, <1>4, <2>1, <2>2, <2>3
  <1>. QED  BY <1>3, <1>4

-----------------------------------------------------------------------------
(* A file nobody forked and nothing damaged. *)

TypeOK == file \in Seq(Candidates) /\ tail \in BOOLEAN /\ faults \in Nat

Done(f) == {i \in 1..Len(f) : IsVerifiedComplete(f[i])}
UpTo(f, n) == {i \in Done(f) : i <= n}

\* A finished snapshot is the first, or follows the one finished before it, which
\* no earlier one is above.
Follows(f, i) ==
    \/ f[i].parent = None /\ \A j \in Done(f) : ~(j < i)
    \/ \E p \in Done(f) :
         /\ p < i /\ f[i].parent = f[p].identity /\ f[i].sequence = f[p].sequence + 1
         /\ \A j \in Done(f) : j < i => j <= p /\ f[j].sequence <= f[p].sequence

Distinct(f) == \A i, j \in 1..Len(f) : f[i].identity = f[j].identity => i = j

\* As far as the depth limit goes, the finished snapshots are one line.
Linear(f) == \A i \in Done(f) : Cardinality(UpTo(f, i)) <= MaxDepth => Follows(f, i)

\* Without stray writers and damage the file is such a line.
OneLine == faults = 0 => Distinct(file) /\ Linear(file)

IInv == TypeOK /\ OneLine

\* The finished places of two files that begin alike.
LEMMA DoneAlike ==
    ASSUME NEW f \in Seq(Candidates), NEW g \in Seq(Candidates), NEW n \in Nat,
           n <= Len(f), n <= Len(g), \A i \in 1..n : g[i] = f[i]
    PROVE  \A i \in 1..n : i \in Done(g) <=> i \in Done(f)
  <1>1. Len(f) \in Nat /\ Len(g) \in Nat
    OBVIOUS
  <1>. QED  BY <1>1 DEF Done

\* A file that begins like a line is a line as far as that goes.
LEMMA LinearAlike ==
    ASSUME NEW f \in Seq(Candidates), NEW g \in Seq(Candidates), NEW n \in Nat,
           n <= Len(f), n <= Len(g), \A i \in 1..n : g[i] = f[i], Linear(f),
           NEW i \in Done(g), i <= n, Cardinality(UpTo(g, i)) <= MaxDepth
    PROVE  Follows(g, i)
  <1>1. i \in 1..n /\ i \in Nat
    BY DEF Done
  <1>2. i \in Done(f)
    BY <1>1, DoneAlike
  <1>3. \A j \in Nat : j < i => (j \in Done(g) <=> j \in Done(f))
    <2>1. TAKE j \in Nat
    <2>2. j \notin 1..n /\ j < i => j \notin Done(f) /\ j \notin Done(g)
      BY <1>1 DEF Done
    <2>. QED  BY <2>2, DoneAlike
  <1>4. UpTo(g, i) = UpTo(f, i)
    <2>1. \A j \in Done(f) \cup Done(g) : j <= i => j \in 1..n
      BY <1>1 DEF Done
    <2>. QED  BY <2>1, DoneAlike DEF UpTo
  <1>5. Follows(f, i)
    BY <1>2, <1>4 DEF Linear
  <1>6. Done(f) \subseteq Nat /\ Done(g) \subseteq Nat
    BY DEF Done
  <1>7. \A j \in Done(f) \cup Done(g) : j < i => j \in 1..n
    BY <1>1 DEF Done
  <1>8. g[i] = f[i] /\ \A j \in Done(f) \cup Done(g) : j < i => g[j] = f[j]
    BY <1>1, <1>7
  <1>9. CASE f[i].parent = None /\ \A j \in Done(f) : ~(j < i)
    BY <1>3, <1>6, <1>8, <1>9 DEF Follows
  <1>10. CASE \E p \in Done(f) :
               /\ p < i /\ f[i].parent = f[p].identity /\ f[i].sequence = f[p].sequence + 1
               /\ \A j \in Done(f) : j < i => j <= p /\ f[j].sequence <= f[p].sequence
    <2>1. PICK p \in Done(f) :
               /\ p < i /\ f[i].parent = f[p].identity /\ f[i].sequence = f[p].sequence + 1
               /\ \A j \in Done(f) : j < i => j <= p /\ f[j].sequence <= f[p].sequence
      BY <1>10
    <2>2. p \in Done(g) /\ g[p] = f[p]
      BY <1>3, <1>6, <1>8, <2>1
    <2>3. \A j \in Done(g) : j < i => j <= p /\ g[j].sequence <= g[p].sequence
      BY <1>3, <1>6, <1>8, <2>1, <2>2
    <2>. QED  BY <1>8, <2>1, <2>2, <2>3 DEF Follows
  <1>. QED  BY <1>5, <1>9, <1>10 DEF Follows

\* Nothing changes by what is not finished at the end, or by what is cut off.
LEMMA LinearBeginning ==
    ASSUME NEW f \in Seq(Candidates), NEW g \in Seq(Candidates), NEW n \in Nat,
           n <= Len(f), n <= Len(g), \A i \in 1..n : g[i] = f[i],
           \A i \in Done(g) : i <= n, Linear(f)
    PROVE  Linear(g)
  BY LinearAlike DEF Linear

LEMMA DoneIsFinite ==
    ASSUME NEW f \in Seq(Candidates)
    PROVE  IsFiniteSet(Done(f)) /\ Cardinality(Done(f)) \in Nat /\ Done(f) \subseteq 1..Len(f)
           /\ Len(f) \in Nat
  <1>1. Done(f) \subseteq 1..Len(f) /\ Len(f) \in Nat
    BY DEF Done
  <1>2. IsFiniteSet(1..Len(f))
    BY <1>1, FS_Interval
  <1>. QED  BY <1>1, <1>2, FS_Subset, FS_CardinalityType

\* Within the limits, all finished snapshots are valid and the last of them is the
\* highest.
LEMMA LastIsHighest ==
    ASSUME file \in Seq(Candidates), Distinct(file), Linear(file),
           Cardinality(Done(file)) <= MaxDepth
    PROVE  /\ ~Duplicated /\ Valid = Done(file)
           /\ Done(file) # {} =>
                \E m \in Done(file) : /\ Highest(Valid) = {m}
                                      /\ \A i \in Done(file) :
                                            i <= m /\ file[i].sequence <= file[m].sequence
  <1>. DEFINE D == Done(file)
  <1>1. Places = 1..Len(file) /\ Len(file) \in Nat
    BY PlaceTypes
  <1>2. ~Duplicated
    BY <1>1 DEF Duplicated, Distinct
  <1>3. IsFiniteSet(D) /\ Cardinality(D) \in Nat /\ D \subseteq 1..Len(file)
    BY DoneIsFinite
  <1>4. D = {j \in Places : IsVerifiedComplete(file[j])}
    BY <1>1 DEF Done
  <1>5. \A i \in D : file[i].sequence \in Nat
    BY <1>4, PlaceTypes
  <1>6. \A i \in D : Follows(file, i)
    <2>1. TAKE i \in D
    <2>2. UpTo(file, i) \subseteq D
      BY DEF UpTo
    <2>3. IsFiniteSet(UpTo(file, i)) /\ Cardinality(UpTo(file, i)) <= Cardinality(D)
      BY <1>3, <2>2, FS_Subset
    <2>4. Cardinality(UpTo(file, i)) \in Nat /\ MaxDepth \in Nat
      BY <2>3, FS_CardinalityType, LimitsAssumption
    <2>5. Cardinality(UpTo(file, i)) <= MaxDepth
      BY <1>3, <2>3, <2>4
    <2>. QED  BY <2>5 DEF Linear
  <1>7. Line(D)
    BY <1>6 DEF Line, Follows
  <1>8. \A i \in D : Intact(i)
    BY <1>4, <1>7 DEF Intact
  <1>9. Valid = D
    <2>1. \A i \in Places : Intact(i) => i \in D
      BY <1>4 DEF Intact
    <2>. QED  BY <1>2, <1>4, <1>8, <2>1, ValidIsIntact
  <1>10. ASSUME D # {}
         PROVE  \E m \in D : /\ Highest(Valid) = {m}
                             /\ \A i \in D : i <= m /\ file[i].sequence <= file[m].sequence
    <2>1. D \subseteq Nat
      BY <1>3
    <2>. HIDE DEF D
    <2>2. PICK m \in D : \A i \in D : i <= m
      BY <1>3, <1>10, <2>1, GreatestNumber
    <2>3. \A i \in D : i < m => file[i].sequence < file[m].sequence
      <3>1. TAKE i \in D
      <3>2. SUFFICES ASSUME i < m PROVE file[i].sequence < file[m].sequence
        OBVIOUS
      <3>3. PICK p \in D : /\ file[m].sequence = file[p].sequence + 1
                           /\ \A j \in D : j < m => file[j].sequence <= file[p].sequence
        BY <1>6, <2>2, <3>2 DEF Follows, D
      <3>. QED  BY <1>5, <3>2, <3>3
    <2>4. \A i \in D : i = m \/ i < m
      BY <2>1, <2>2
    <2>5. Highest(D) = {m}
      BY <1>5, <2>3, <2>4 DEF Highest
    <2>. QED  BY <1>5, <1>9, <2>2, <2>3, <2>4, <2>5
  <1>. QED  BY <1>2, <1>9, <1>10

LEMMA LastFinished ==
    ASSUME IInv
    PROVE  RootIsLastFinished
  <1>1. file \in Seq(Candidates) /\ Len(file) \in Nat /\ Places = 1..Len(file)
    BY PlaceTypes DEF IInv, TypeOK
  <1>2. Finished = Done(file)
    BY <1>1 DEF Finished, Done
  <1>3. SUFFICES ASSUME faults = 0, Len(file) <= MaxCandidates, Cardinality(Finished) <= MaxDepth
                 PROVE  IF Finished = {}
                        THEN Recovery.error = "NoValidRoot" /\ Strict.error = "NoExactEndRoot"
                        ELSE /\ Recovery.error = "none"
                             /\ Recovery.root \in Finished
                             /\ \A i \in Finished : i <= Recovery.root
                             /\ IF ExactEnd(Recovery.root) THEN Strict = Recovery
                                ELSE Strict.error = "NoExactEndRoot"
    BY DEF RootIsLastFinished
  <1>4. Distinct(file) /\ Linear(file)
    BY <1>3 DEF IInv, OneLine
  <1>5. ~Duplicated /\ Valid = Finished /\ ~(Len(file) > MaxCandidates)
    <2>1. ~(Len(file) > MaxCandidates)
      BY <1>1, <1>3, LimitsAssumption
    <2>. QED  BY <1>1, <1>2, <1>3, <1>4, <2>1, LastIsHighest
  <1>6. CASE Finished = {}
    <2>1. Highest(Valid) = {}
      BY <1>5, <1>6 DEF Highest
    <2>2. Recovery.error = "NoValidRoot"
      BY <1>1, <1>3, <1>5, <2>1, RecoveryOfHighest
    <2>3. Strict = Failed("NoExactEndRoot")
      BY <1>1, <1>5, <1>6, StrictOfEnd
    <2>. QED  BY <1>6, <2>2, <2>3, Reports
  <1>7. CASE Finished # {}
    <2>1. PICK m \in Finished : Highest(Valid) = {m} /\ \A i \in Finished : i <= m
      BY <1>1, <1>2, <1>3, <1>4, <1>7, LastIsHighest
    <2>2. Recovery = Selected(m) /\ Recovery.error = "none" /\ Recovery.root = m
      BY <1>1, <1>3, <1>5, <2>1, RecoveryOfHighest
    <2>3. CASE ExactEnd(m)
      <3>1. m = Len(file) /\ ~tail
        BY <2>3 DEF ExactEnd
      <3>2. Len(file) \in Valid
        BY <1>5, <2>1, <3>1
      <3>3. Strict = Selected(m)
        BY <1>1, <1>5, <3>1, <3>2, StrictOfEnd
      <3>. QED  BY <1>7, <2>1, <2>2, <2>3, <3>3
    <2>4. CASE ~ExactEnd(m)
      <3>1. ~(Len(file) \in Valid /\ ~tail)
        <4>1. SUFFICES ASSUME Len(file) \in Valid, ~tail PROVE FALSE
          OBVIOUS
        <4>2. Len(file) <= m /\ m \in 1..Len(file)
          BY <1>1, <1>5, <2>1, <4>1 DEF Valid
        <4>3. m = Len(file)
          BY <1>1, <4>2
        <4>. QED  BY <2>4, <4>1, <4>3 DEF ExactEnd
      <3>2. Strict.error = "NoExactEndRoot"
        BY <1>1, <1>5, <3>1, StrictOfEnd, Reports
      <3>. QED  BY <1>7, <2>1, <2>2, <2>4, <3>2
    <2>. QED  BY <2>3, <2>4
  <1>. QED  BY <1>6, <1>7

-----------------------------------------------------------------------------
(* Every reachable file. *)

LEMMA CandidateType ==
    ASSUME NEW id \in Identities, NEW seq \in 0..MaxSequence,
           NEW p \in Identities \cup {None}, NEW kind \in Kinds
    PROVE  /\ Candidate(id, seq, p, kind) \in Candidates
           /\ Candidate(id, seq, p, kind).identity = id
           /\ Candidate(id, seq, p, kind).sequence = seq
           /\ Candidate(id, seq, p, kind).parent = p
           /\ Candidate(id, seq, p, kind).kind = kind
           /\ Candidate(id, seq, p, kind).status = "Verified"
  BY DEF Candidate, Candidates, Statuses

\* What a writer appends is a candidate, and without faults it follows the last
\* finished snapshot.
LEMMA SuccessorFollows ==
    ASSUME IInv, NEW c \in Successors
    PROVE  /\ c \in Candidates /\ IsVerifiedComplete(c)
           /\ faults = 0 /\ Cardinality(Done(file)) <= MaxDepth =>
                \/ c.parent = None /\ Done(file) = {}
                \/ \E p \in Done(file) :
                     /\ c.parent = file[p].identity /\ c.sequence = file[p].sequence + 1
                     /\ \A j \in Done(file) : j <= p /\ file[j].sequence <= file[p].sequence
  <1>1. file \in Seq(Candidates) /\ Places = 1..Len(file) /\ Len(file) \in Nat
    BY PlaceTypes DEF IInv, TypeOK
  <1>2. \/ \E id \in Identities : file = <<>> /\ c = Candidate(id, 0, None, "Complete")
        \/ \E id \in Identities, mode \in {"StrictExactEnd", "Recovery"} :
             /\ Select(mode).error = "none" /\ file[Select(mode).root].sequence < MaxSequence
             /\ c = Candidate(id, file[Select(mode).root].sequence + 1,
                              file[Select(mode).root].identity, "Complete")
    <2>. DEFINE Bases == {b \in {Select("StrictExactEnd"), Select("Recovery")} :
                             b.error = "none" /\ file[b.root].sequence < MaxSequence}
                New(id, b) == Candidate(id, file[b.root].sequence + 1, file[b.root].identity,
                                        "Complete")
                First(id) == Candidate(id, 0, None, "Complete")
    <2>1. \/ \E id \in {j \in Identities : file = <<>>} : c = First(id)
          \/ \E id \in Identities, b \in Bases : c = New(id, b)
      <3>. HIDE DEF New, First, Bases
      <3>1. Successors = {First(id) : id \in {j \in Identities : file = <<>>}}
                         \cup {New(id, b) : id \in Identities, b \in Bases}
        BY DEF Successors, New, First, Bases
      <3>. QED  BY <3>1
    <2>. HIDE DEF New, First
    <2>2. CASE \E id \in {j \in Identities : file = <<>>} : c = First(id)
      BY <2>2, Zenon DEF First
    <2>3. CASE \E id \in Identities, b \in Bases : c = New(id, b)
      <3>1. PICK id \in Identities, b \in Bases : c = New(id, b)
        BY <2>3
      <3>2. PICK mode \in {"StrictExactEnd", "Recovery"} : b = Select(mode)
        BY <3>1
      <3>. QED  BY <3>1, <3>2, Zenon DEF New
    <2>. QED  BY <2>1, <2>2, <2>3
  <1>3. CASE \E id \in Identities : file = <<>> /\ c = Candidate(id, 0, None, "Complete")
    <2>1. PICK id \in Identities : file = <<>> /\ c = Candidate(id, 0, None, "Complete")
      BY <1>3
    <2>2. c \in Candidates /\ c.parent = None /\ IsVerifiedComplete(c)
      BY <2>1, CandidateType, LimitsAssumption DEF Kinds, IsVerifiedComplete
    <2>3. Done(file) = {}
      BY <2>1 DEF Done
    <2>. QED  BY <2>2, <2>3
  <1>4. ASSUME NEW id \in Identities, NEW mode \in {"StrictExactEnd", "Recovery"},
               Select(mode).error = "none", file[Select(mode).root].sequence < MaxSequence,
               c = Candidate(id, file[Select(mode).root].sequence + 1,
                             file[Select(mode).root].identity, "Complete")
        PROVE  /\ c \in Candidates /\ IsVerifiedComplete(c)
               /\ faults = 0 /\ Cardinality(Done(file)) <= MaxDepth =>
                    \E p \in Done(file) :
                       /\ c.parent = file[p].identity /\ c.sequence = file[p].sequence + 1
                       /\ \A j \in Done(file) : j <= p /\ file[j].sequence <= file[p].sequence
    <2>. DEFINE r == Select(mode).root
    <2>1. r \in Valid /\ r \in Places
          /\ (mode = "StrictExactEnd" => r = Len(file)) /\ (mode = "Recovery" => Highest(Valid) = {r})
      BY <1>1, <1>4, BaseIsValid DEF Valid
    <2>. HIDE DEF r
    <2>2. file[r].sequence \in Nat /\ file[r].identity \in Identities
          /\ file[r].sequence < MaxSequence
      BY <1>1, <1>4, <2>1, PlaceTypes DEF r
    <2>3. /\ c \in Candidates /\ c.sequence = file[r].sequence + 1
          /\ c.parent = file[r].identity /\ c.kind = "Complete" /\ c.status = "Verified"
      <3>1. file[r].sequence + 1 \in 0..MaxSequence
            /\ file[r].identity \in Identities \cup {None} /\ "Complete" \in Kinds
        BY <2>2, LimitsAssumption DEF Kinds
      <3>. DEFINE q == file[r].sequence + 1
      <3>2. c = Candidate(id, q, file[r].identity, "Complete")
        BY <1>4 DEF r
      <3>3. q \in 0..MaxSequence
        BY <3>1
      <3>. HIDE DEF q
      <3>4. /\ c \in Candidates /\ c.sequence = q
            /\ c.parent = file[r].identity /\ c.kind = "Complete" /\ c.status = "Verified"
        BY <3>1, <3>2, <3>3, CandidateType
      <3>. QED  BY <3>4 DEF q
    <2>4. ASSUME faults = 0, Cardinality(Done(file)) <= MaxDepth
          PROVE  r \in Done(file)
                 /\ \A j \in Done(file) : j <= r /\ file[j].sequence <= file[r].sequence
      <3>1. Distinct(file) /\ Linear(file)
        BY <2>4 DEF IInv, OneLine
      <3>2. Valid = Done(file)
        BY <1>1, <2>4, <3>1, LastIsHighest
      <3>3. PICK m \in Done(file) : /\ Highest(Valid) = {m}
                                    /\ \A i \in Done(file) :
                                          i <= m /\ file[i].sequence <= file[m].sequence
        BY <1>1, <2>1, <2>4, <3>1, <3>2, LastIsHighest
      <3>4. r = m
        <4>1. CASE mode = "StrictExactEnd"
          <5>1. Len(file) <= m /\ m \in 1..Len(file)
            BY <1>1, <2>1, <3>2, <3>3, <4>1 DEF Done
          <5>. QED  BY <1>1, <2>1, <4>1, <5>1
        <4>2. CASE mode = "Recovery"
          BY <2>1, <3>3, <4>2
        <4>. QED  BY <4>1, <4>2
      <3>. QED  BY <3>3, <3>4
    <2>5. IsVerifiedComplete(c)
      BY <2>3 DEF IsVerifiedComplete
    <2>. QED  BY <2>3, <2>4, <2>5
  <1>. QED  BY <1>2, <1>3, <1>4

\* A file with one more candidate, of a new identity.
LEMMA DistinctAppend ==
    ASSUME NEW f \in Seq(Candidates), NEW c \in Candidates, Distinct(f),
           \A i \in 1..Len(f) : f[i].identity # c.identity
    PROVE  Distinct(Append(f, c))
  <1>. DEFINE g == Append(f, c)
  <1>1. \A i \in 1..Len(g) : \/ (i \in 1..Len(f) /\ g[i] = f[i])
                             \/ (i = Len(f) + 1 /\ g[i] = c)
    <2>1. /\ Len(g) = Len(f) + 1 /\ Len(f) \in Nat
          /\ \A i \in 1..Len(f) : g[i] = f[i]
          /\ g[Len(f) + 1] = c
      BY AppendProperties
    <2>. HIDE DEF g
    <2>. QED  BY <2>1
  <1>. HIDE DEF g
  <1>2. Distinct(g)
    BY <1>1 DEF Distinct
  <1>. QED  BY <1>2 DEF g

LEMMA InitIInv == Init => IInv
  <1>1. SUFFICES ASSUME Init PROVE IInv
    OBVIOUS
  <1>2. file = <<>> /\ tail = FALSE /\ faults = 0
    BY <1>1 DEF Init
  <1>3. TypeOK
    <2>1. <<>> \in Seq(Candidates)
      BY EmptySeq
    <2>. QED  BY <1>2, <2>1 DEF TypeOK
  <1>4. Len(file) = 0
    BY <1>2
  <1>5. Distinct(file) /\ Done(file) = {}
    BY <1>4 DEF Distinct, Done
  <1>. QED  BY <1>3, <1>5 DEF IInv, OneLine, Linear

\* A new root at the end of the file.
LEMMA AppendSuccessorIInv == IInv /\ AppendSuccessor => IInv'
  <1>1. SUFFICES ASSUME IInv, AppendSuccessor PROVE IInv'
    OBVIOUS
  <1>2. file \in Seq(Candidates) /\ faults \in Nat /\ faults' = faults
        /\ Len(file) \in Nat /\ Places = 1..Len(file)
    BY <1>1, PlaceTypes DEF IInv, TypeOK, AppendSuccessor
  <1>3. PICK c \in Successors : Fresh(c) /\ file' = Append(file, c) /\ tail' = FALSE
    BY <1>1 DEF AppendSuccessor, Publish
  <1>4. c \in Candidates /\ IsVerifiedComplete(c)
    BY <1>1, SuccessorFollows
  <1>. DEFINE n == Len(file)
              g == Append(file, c)
              D == Done(file)
  <1>5. /\ g \in Seq(Candidates) /\ Len(g) = n + 1
        /\ \A i \in 1..n : g[i] = file[i]
        /\ g[n + 1] = c
    BY <1>2, <1>4, AppendProperties
  <1>6. TypeOK'
    BY <1>2, <1>3, <1>5 DEF TypeOK
  <1>7. ASSUME faults = 0 PROVE Distinct(g) /\ Linear(g)
    <2>1. Distinct(file) /\ Linear(file)
      BY <1>1, <1>7 DEF IInv, OneLine
    <2>2. Distinct(g)
      <3>1. \A i \in 1..Len(file) : file[i].identity # c.identity
        BY <1>2, <1>3 DEF Fresh, Holder
      <3>. QED  BY <1>2, <1>4, <2>1, <3>1, DistinctAppend
    <2>. HIDE DEF g
    <2>3. D \subseteq 1..n /\ IsFiniteSet(D) /\ Cardinality(D) \in Nat /\ n \in Nat
      BY <1>2, DoneIsFinite
    <2>4. Done(g) = D \cup {n + 1}
      <3>1. \A i \in 1..n : i \in Done(g) <=> i \in D
        BY <1>2, <1>5, DoneAlike
      <3>2. n + 1 \in Done(g)
        BY <1>2, <1>4, <1>5 DEF Done
      <3>3. Done(g) \subseteq 1..(n + 1)
        BY <1>5 DEF Done
      <3>. HIDE DEF D, n
      <3>4. \A i \in 1..(n + 1) : i \in 1..n \/ i = n + 1
        BY <2>3
      <3>. QED  BY <2>3, <3>1, <3>2, <3>3, <3>4
    <2>5. ASSUME Cardinality(UpTo(g, n + 1)) <= MaxDepth PROVE Follows(g, n + 1)
      <3>1. UpTo(g, n + 1) = D \cup {n + 1}
        BY <2>3, <2>4 DEF UpTo
      <3>2. n + 1 \notin D
        BY <2>3
      <3>3. Cardinality(D \cup {n + 1}) = Cardinality(D) + 1
        BY <2>3, <3>2, FS_AddElement
      <3>4. Cardinality(D) <= MaxDepth
        <4>1. Cardinality(D \cup {n + 1}) <= MaxDepth /\ MaxDepth \in Nat
          BY <2>5, <3>1, LimitsAssumption
        <4>. HIDE DEF D, n
        <4>. QED  BY <2>3, <3>3, <4>1
      <3>5. \/ c.parent = None /\ D = {}
            \/ \E p \in D :
                 /\ c.parent = file[p].identity /\ c.sequence = file[p].sequence + 1
                 /\ \A j \in D : j <= p /\ file[j].sequence <= file[p].sequence
        BY <1>1, <1>7, <3>4, SuccessorFollows
      <3>6. /\ \A j \in D : j < n + 1 /\ g[j] = file[j]
            /\ ~(n + 1 < n + 1) /\ g[n + 1] = c
        BY <1>5, <2>3
      <3>. HIDE DEF D, n
      <3>7. CASE c.parent = None /\ D = {}
        BY <2>4, <3>6, <3>7 DEF Follows
      <3>8. CASE \E p \in D :
                 /\ c.parent = file[p].identity /\ c.sequence = file[p].sequence + 1
                 /\ \A j \in D : j <= p /\ file[j].sequence <= file[p].sequence
        BY <2>4, <3>6, <3>8 DEF Follows
      <3>. QED  BY <3>5, <3>7, <3>8
    <2>6. ASSUME NEW i \in Done(g), Cardinality(UpTo(g, i)) <= MaxDepth PROVE Follows(g, i)
      <3>1. CASE i = n + 1
        BY <2>5, <2>6, <3>1
      <3>2. CASE i # n + 1
        <4>1. i <= n /\ n <= Len(file) /\ n <= Len(g)
          BY <1>5, <2>3, <2>4, <2>6, <3>2
        <4>. QED  BY <1>2, <1>5, <2>1, <2>3, <2>6, <4>1, LinearAlike
      <3>. QED  BY <3>1, <3>2
    <2>. QED  BY <2>2, <2>6 DEF Linear
  <1>8. file' = g
    BY <1>3
  <1>. HIDE DEF g
  <1>. QED  BY <1>2, <1>6, <1>7, <1>8 DEF IInv, OneLine

\* A candidate that is not finished, of a new identity, at the end of the file.
LEMMA UnfinishedIInv ==
    ASSUME IInv, NEW c \in Candidates, ~IsVerifiedComplete(c), Fresh(c),
           file' = Append(file, c), tail' \in BOOLEAN, faults' = faults
    PROVE  IInv'
  <1>1. file \in Seq(Candidates) /\ faults \in Nat
        /\ Len(file) \in Nat /\ Places = 1..Len(file)
    BY PlaceTypes DEF IInv, TypeOK
  <1>. DEFINE n == Len(file)
              g == Append(file, c)
  <1>2. /\ g \in Seq(Candidates) /\ Len(g) = n + 1
        /\ \A i \in 1..n : g[i] = file[i]
        /\ g[n + 1] = c
    BY <1>1, AppendProperties
  <1>3. TypeOK'
    BY <1>1, <1>2 DEF TypeOK
  <1>4. ASSUME faults = 0 PROVE Distinct(g) /\ Linear(g)
    <2>1. Distinct(file) /\ Linear(file)
      BY <1>4 DEF IInv, OneLine
    <2>2. Distinct(g)
      <3>1. \A i \in 1..Len(file) : file[i].identity # c.identity
        BY <1>1 DEF Fresh, Holder
      <3>. QED  BY <1>1, <2>1, <3>1, DistinctAppend
    <2>. HIDE DEF g
    <2>3. \A i \in Done(g) : i <= n
      <3>1. \A i \in Done(g) : i \in 1..(n + 1) /\ i # n + 1
        BY <1>2 DEF Done
      <3>. QED  BY <1>1, <3>1
    <2>4. n \in Nat /\ n <= Len(file) /\ n <= Len(g)
      BY <1>1, <1>2
    <2>5. Linear(g)
      BY <1>1, <1>2, <2>1, <2>3, <2>4, LinearBeginning
    <2>. QED  BY <2>2, <2>5
  <1>5. file' = g
    OBVIOUS
  <1>. HIDE DEF g
  <1>. QED  BY <1>3, <1>4, <1>5 DEF IInv, OneLine

LEMMA AppendProgressIInv == IInv /\ AppendProgress => IInv'
  <1>1. SUFFICES ASSUME IInv, AppendProgress PROVE IInv'
    OBVIOUS
  <1>2. file \in Seq(Candidates) /\ faults' = faults
    BY <1>1 DEF IInv, TypeOK, AppendProgress
  <1>3. PICK id \in Identities, p \in Places :
            /\ Holder(id) = {} /\ file[p].sequence < MaxSequence
            /\ Publish(Candidate(id, file[p].sequence + 1, file[p].identity, "Progress"))
    BY <1>1 DEF AppendProgress
  <1>. DEFINE c == Candidate(id, file[p].sequence + 1, file[p].identity, "Progress")
  <1>4. c \in Candidates /\ c.identity = id /\ c.kind = "Progress"
    <2>1. file[p].sequence \in Nat /\ file[p].identity \in Identities
      BY <1>2, PlaceTypes
    <2>2. file[p].sequence + 1 \in 0..MaxSequence
          /\ file[p].identity \in Identities \cup {None} /\ "Progress" \in Kinds
      BY <1>3, <2>1, LimitsAssumption DEF Kinds
    <2>. DEFINE q == file[p].sequence + 1
    <2>3. q \in 0..MaxSequence
      BY <2>2
    <2>. HIDE DEF q
    <2>4. LET d == Candidate(id, q, file[p].identity, "Progress")
          IN  d \in Candidates /\ d.identity = id /\ d.kind = "Progress"
      BY <2>2, <2>3, CandidateType
    <2>. QED  BY <2>4 DEF q
  <1>5. file' = Append(file, c) /\ tail' = FALSE
    BY <1>3 DEF Publish
  <1>. HIDE DEF c
  <1>6. ~IsVerifiedComplete(c) /\ Fresh(c) /\ tail' \in BOOLEAN
    BY <1>3, <1>4, <1>5 DEF IsVerifiedComplete, Fresh
  <1>. QED  BY <1>1, <1>2, <1>4, <1>5, <1>6, UnfinishedIInv

LEMMA FaultIInv == IInv /\ (AppendOther \/ Damage) => IInv'
  <1>1. SUFFICES ASSUME IInv, AppendOther \/ Damage PROVE IInv'
    OBVIOUS
  <1>2. file \in Seq(Candidates) /\ tail \in BOOLEAN /\ faults \in Nat
    BY <1>1 DEF IInv, TypeOK
  <1>3. faults' \in Nat /\ faults' # 0
    BY <1>1, <1>2 DEF AppendOther, Damage, Fault
  <1>4. CASE AppendOther
    <2>1. PICK id \in Identities, seq \in 0..MaxSequence, p \in Identities \cup {None} :
            Publish(Candidate(id, seq, p, "Complete"))
      BY <1>4 DEF AppendOther
    <2>. DEFINE c == Candidate(id, seq, p, "Complete")
    <2>2. c \in Candidates
      BY CandidateType DEF Kinds
    <2>3. file' = Append(file, c) /\ tail' = FALSE
      BY <2>1 DEF Publish
    <2>. HIDE DEF c
    <2>4. TypeOK'
      BY <1>2, <1>3, <2>2, <2>3, AppendProperties DEF TypeOK
    <2>. QED  BY <1>3, <2>4 DEF IInv, OneLine
  <1>5. CASE Damage
    <2>1. PICK i \in Places : file' = [file EXCEPT ![i].status = "IntegrityFailed"]
      BY <1>5 DEF Damage
    <2>. DEFINE c == [file[i] EXCEPT !.status = "IntegrityFailed"]
    <2>2. i \in 1..Len(file) /\ file[i] \in Candidates
      BY <1>2, PlaceTypes
    <2>3. c \in Candidates
      BY <2>2 DEF Candidates, Statuses
    <2>4. file' = [file EXCEPT ![i] = c]
      BY <2>1
    <2>. HIDE DEF c
    <2>5. file' \in Seq(Candidates)
      BY <1>2, <2>2, <2>3, <2>4, ExceptSeq
    <2>6. TypeOK'
      BY <1>2, <1>3, <1>5, <2>5 DEF TypeOK, Damage
    <2>. QED  BY <1>3, <2>6 DEF IInv, OneLine
  <1>. QED  BY <1>1, <1>4, <1>5

\* What is left of a candidate that was cut.
LEMMA CutType ==
    ASSUME NEW c \in Candidates
    PROVE  Cut(c) \in Candidates /\ ~IsVerifiedComplete(Cut(c)) /\ Cut(c).identity = c.identity
  BY DEF Cut, Candidates, Statuses, IsVerifiedComplete

LEMMA TruncateIInv == IInv /\ Truncate => IInv'
  <1>1. SUFFICES ASSUME IInv, Truncate PROVE IInv'
    OBVIOUS
  <1>2. file \in Seq(Candidates) /\ faults \in Nat /\ faults' = faults /\ tail' \in BOOLEAN
        /\ Len(file) \in Nat
    BY <1>1, PlaceTypes DEF IInv, TypeOK, Truncate
  <1>3. PICK n \in 0..(Len(file) - 1) :
            \/ file' = SubSeq(file, 1, n)
            \/ file' = Append(SubSeq(file, 1, n), Cut(file[n + 1]))
    BY <1>1 DEF Truncate
  <1>. DEFINE g == SubSeq(file, 1, n)
              c == Cut(file[n + 1])
              h == Append(g, c)
  <1>4. n \in Nat /\ n + 1 \in 1..Len(file) /\ n <= Len(file)
    BY <1>2
  <1>5. g \in Seq(Candidates) /\ Len(g) = n /\ \A i \in 1..n : g[i] = file[i]
    <2>1. \A i \in 1..n : file[i] \in Candidates
      BY <1>2, <1>4, ElementOfSeq
    <2>2. /\ g \in Seq(Candidates) /\ Len(g) = IF 1 <= n THEN n - 1 + 1 ELSE 0
          /\ \A i \in 1..(n - 1 + 1) : g[i] = file[1 + i - 1]
      <3>1. 1 \in Int /\ n \in Int
        BY <1>4
      <3>. QED  BY <1>2, <1>4, <2>1, <3>1, SubSeqProperties
    <2>3. \A i \in 1..n : i \in 1..(n - 1 + 1) /\ 1 + i - 1 = i
      BY <1>4
    <2>. HIDE DEF g
    <2>4. Len(g) = n
      BY <1>4, <2>2
    <2>. QED  BY <2>2, <2>3, <2>4
  <1>6. c \in Candidates /\ ~IsVerifiedComplete(c) /\ c.identity = file[n + 1].identity
    <2>1. file[n + 1] \in Candidates
      BY <1>2, <1>4, ElementOfSeq
    <2>. QED  BY <2>1, CutType
  <1>. HIDE DEF g, c
  <1>7. /\ h \in Seq(Candidates) /\ Len(h) = n + 1
        /\ \A i \in 1..n : h[i] = file[i]
        /\ h[n + 1] = c
    <2>1. /\ h \in Seq(Candidates) /\ Len(h) = Len(g) + 1
          /\ \A i \in 1..Len(g) : h[i] = g[i]
          /\ h[Len(g) + 1] = c
      BY <1>5, <1>6, AppendProperties
    <2>. HIDE DEF h
    <2>. QED  BY <1>4, <1>5, <2>1
  <1>. HIDE DEF h
  <1>8. file' = g \/ file' = h
    BY <1>3 DEF g, c, h
  <1>9. TypeOK'
    BY <1>2, <1>5, <1>7, <1>8 DEF TypeOK
  <1>10. ASSUME faults = 0 PROVE Distinct(g) /\ Linear(g) /\ Distinct(h) /\ Linear(h)
    <2>1. Distinct(file) /\ Linear(file)
      BY <1>1, <1>10 DEF IInv, OneLine
    <2>2. Distinct(g)
      BY <1>2, <1>4, <1>5, <2>1 DEF Distinct
    <2>3. Distinct(h)
      <3>1. \A i \in 1..(n + 1) : i \in 1..n \/ i = n + 1
        BY <1>4
      <3>2. \A i \in 1..(n + 1) : h[i].identity = file[i].identity /\ i \in 1..Len(file)
        BY <1>2, <1>4, <1>6, <1>7, <3>1
      <3>. QED  BY <1>7, <2>1, <3>2 DEF Distinct
    <2>4. \A i \in Done(g) : i <= n
      BY <1>4, <1>5 DEF Done
    <2>5. \A i \in Done(h) : i <= n
      <3>1. \A i \in Done(h) : i \in 1..(n + 1) /\ i # n + 1
        BY <1>6, <1>7 DEF Done
      <3>. QED  BY <1>4, <3>1
    <2>6. Linear(g)
      BY <1>2, <1>4, <1>5, <2>1, <2>4, LinearBeginning
    <2>7. n <= Len(h)
      BY <1>4, <1>7
    <2>8. Linear(h)
      BY <1>2, <1>4, <1>7, <2>1, <2>5, <2>7, LinearBeginning
    <2>. QED  BY <2>2, <2>3, <2>6, <2>8
  <1>. QED  BY <1>2, <1>8, <1>9, <1>10 DEF IInv, OneLine

LEMMA InterruptedAppendIInv == IInv /\ (InterruptedAppend \/ UNCHANGED vars) => IInv'
  <1>1. SUFFICES ASSUME IInv, InterruptedAppend \/ UNCHANGED vars PROVE IInv'
    OBVIOUS
  <1>2. faults' = faults /\ tail' \in BOOLEAN
    BY <1>1 DEF InterruptedAppend, vars, IInv, TypeOK
  <1>3. CASE file' = file
    BY <1>1, <1>2, <1>3 DEF IInv, TypeOK, OneLine
  <1>4. CASE \E c \in Successors : Fresh(c) /\ file' = Append(file, Cut(c))
    <2>1. PICK c \in Successors : Fresh(c) /\ file' = Append(file, Cut(c))
      BY <1>4
    <2>2. c \in Candidates
      BY <1>1, SuccessorFollows
    <2>3. Cut(c) \in Candidates /\ ~IsVerifiedComplete(Cut(c)) /\ Fresh(Cut(c))
      BY <2>1, <2>2, CutType DEF Fresh
    <2>. QED  BY <1>1, <1>2, <2>1, <2>3, UnfinishedIInv
  <1>. QED  BY <1>1, <1>3, <1>4 DEF InterruptedAppend, vars

\* The inductive invariant holds in every reachable state.
LEMMA Invariance == Spec => []IInv
  <1>1. Init => IInv
    BY InitIInv
  <1>2. IInv /\ [Next]_vars => IInv'
    BY AppendSuccessorIInv, AppendProgressIInv, FaultIInv, TruncateIInv,
       InterruptedAppendIInv
    DEF Next
  <1>. QED  BY <1>1, <1>2, PTL DEF Spec

-----------------------------------------------------------------------------
(* An interrupted append. *)

\* What recovery reports is a matter of the intact places.
Report ==
    LET newest == Highest({i \in Places : Intact(i)})
    IN  /\ Len(file) > MaxCandidates =>
              Recovery.error = "CandidateLimitExceeded" /\ Recovery.root = 0
        /\ ~(Len(file) > MaxCandidates) /\ Duplicated =>
              Recovery.error = "DuplicateIdentity" /\ Recovery.root = 0
        /\ ~(Len(file) > MaxCandidates) /\ ~Duplicated =>
              /\ newest = {} => Recovery.error = "NoValidRoot" /\ Recovery.root = 0
              /\ \A i : newest = {i} => Recovery.error = "none" /\ Recovery.root = i
              /\ newest # {} /\ (\A i : newest # {i}) =>
                    Recovery.error = "AmbiguousFork" /\ Recovery.root = 0

\* A strict reader does not accept a file with anything after its last footer.
TailRefused == tail => Strict.error # "none"

LEMMA ReportOfFile == TypeOK => Report /\ TailRefused
  <1>1. SUFFICES ASSUME TypeOK PROVE Report /\ TailRefused
    OBVIOUS
  <1>2. file \in Seq(Candidates) /\ Len(file) \in Nat
    BY <1>1, PlaceTypes DEF TypeOK
  <1>. DEFINE H == Highest({i \in Places : Intact(i)})
  <1>3. CASE Len(file) > MaxCandidates \/ Duplicated
    <2>1. Recovery = IF Len(file) > MaxCandidates THEN Failed("CandidateLimitExceeded")
                     ELSE Failed("DuplicateIdentity")
      BY <1>3, SelectOfOther DEF Recovery
    <2>2. Strict = IF Len(file) > MaxCandidates THEN Failed("CandidateLimitExceeded")
                   ELSE Failed("DuplicateIdentity")
      BY <1>3, SelectOfOther DEF Strict
    <2>3. Report
      BY <1>3, <2>1, Reports DEF Report
    <2>4. TailRefused
      BY <2>2, Reports DEF TailRefused
    <2>. QED  BY <2>3, <2>4
  <1>4. CASE ~(Len(file) > MaxCandidates \/ Duplicated)
    <2>1. ~(Len(file) > MaxCandidates) /\ Len(file) <= MaxCandidates /\ ~Duplicated
      BY <1>2, <1>4, LimitsAssumption
    <2>2. H = Highest(Valid)
      BY <1>2, <2>1, ValidIsIntact
    <2>3. /\ IsFiniteSet(Highest(Valid))
          /\ Recovery = OneOf(Highest(Valid), "NoValidRoot", "AmbiguousFork")
          /\ \A i : Highest(Valid) = {i} =>
                 Recovery = Selected(i) /\ Recovery.error = "none" /\ Recovery.root = i
      BY <1>2, <2>1, RecoveryOfHighest
    <2>. HIDE DEF H
    <2>4. /\ IsFiniteSet(H)
          /\ Recovery = OneOf(H, "NoValidRoot", "AmbiguousFork")
          /\ \A i : H = {i} => Recovery.error = "none" /\ Recovery.root = i
      BY <2>2, <2>3, Zenon
    <2>5. \/ H = {} /\ ~(Cardinality(H) > 1)
          \/ H # {} /\ Cardinality(H) > 1 /\ \A i : H # {i}
          \/ \E i : H = {i} /\ ~(Cardinality(H) > 1) /\ (CHOOSE k \in H : TRUE) = i
      BY <2>4, NoneOneSeveral
    <2>6. ASSUME H = {} PROVE Recovery.error = "NoValidRoot" /\ Recovery.root = 0
      <3>1. Recovery = Failed("NoValidRoot")
        BY <2>4, <2>6, Zenon DEF OneOf
      <3>. QED  BY <3>1, Reports
    <2>7. ASSUME H # {}, \A i : H # {i}
          PROVE  Recovery.error = "AmbiguousFork" /\ Recovery.root = 0
      <3>1. Cardinality(H) > 1
        BY <2>5, <2>7
      <3>2. Recovery = Failed("AmbiguousFork")
        BY <2>4, <2>7, <3>1, Zenon DEF OneOf
      <3>. QED  BY <3>2, Reports
    <2>8. Report
      BY <2>1, <2>4, <2>6, <2>7, Zenon DEF Report, H
    <2>9. TailRefused
      <3>1. ASSUME tail PROVE Strict = Failed("NoExactEndRoot")
        BY <1>2, <2>1, <3>1, StrictOfEnd
      <3>. QED  BY <3>1, Reports DEF TailRefused
    <2>. QED  BY <2>8, <2>9
  <1>. QED  BY <1>3, <1>4

LEMMA ReportOfNextFile == TypeOK' => Report' /\ TailRefused'
  BY ReportOfFile, PTL

\* A candidate that is not verified makes nothing intact and breaks nothing.
LEMMA IntactAlike ==
    ASSUME Places \subseteq Places', \A i \in Places : file'[i] = file[i],
           \A i \in Places' : IsVerifiedComplete(file'[i]) => i \in Places
    PROVE  Highest({i \in Places : Intact(i)})' = Highest({i \in Places : Intact(i)})
  <1>. DEFINE C == {j \in Places : IsVerifiedComplete(file[j])}
              D == {j \in Places' : IsVerifiedComplete(file'[j])}
              In(S, i) == i \in S /\ Line(S) /\ Cardinality(S) <= MaxDepth
              InNext(S, i) == i \in S /\ Line(S)' /\ Cardinality(S) <= MaxDepth
  <1>1. C = D
    OBVIOUS
  <1>2. ASSUME NEW S \in SUBSET C PROVE Line(S)' <=> Line(S)
    <2>1. \A i \in S : file'[i] = file[i]
      OBVIOUS
    <2>2. Line(S)' <=> \A i \in S : file'[i].parent = None \/
                          \E j \in S : /\ file'[j].identity = file'[i].parent
                                       /\ file'[i].sequence = file'[j].sequence + 1
      BY DEF Line
    <2>. QED  BY <2>1, <2>2 DEF Line
  <1>3. ASSUME NEW i PROVE Intact(i)' <=> Intact(i)
    <2>1. Intact(i) <=> \E S \in SUBSET C : In(S, i)
      BY DEF Intact
    <2>2. Intact(i)' <=> \E S \in SUBSET D : InNext(S, i)
      BY DEF Intact, IsVerifiedComplete
    <2>. HIDE DEF C, D
    <2>. QED  BY <1>1, <1>2, <2>1, <2>2
  <1>4. \A i : Intact(i) => i \in Places
    BY DEF Intact
  <1>. DEFINE V == {i \in Places : Intact(i)}
              W == {i \in Places' : Intact(i)'}
  <1>5. W = V
    BY <1>3, <1>4
  <1>6. Highest(V) = {i \in V : \A j \in V : file[j].sequence <= file[i].sequence}
    BY DEF Highest
  <1>7. Highest(V)' = {i \in W : \A j \in W : file'[j].sequence <= file'[i].sequence}
    BY DEF Highest
  <1>8. \A i \in V : file'[i] = file[i]
    OBVIOUS
  <1>. HIDE DEF V, W
  <1>9. {i \in W : \A j \in W : file'[j].sequence <= file'[i].sequence}
        = {i \in V : \A j \in V : file[j].sequence <= file[i].sequence}
    BY <1>5, <1>8
  <1>. QED  BY <1>6, <1>7, <1>9 DEF V

LEMMA InterruptionStep ==
    IInv /\ IInv' /\ InterruptedAppend /\ Len(file') <= MaxCandidates =>
        /\ Recovery'.error = Recovery.error
        /\ Recovery'.root = Recovery.root
        /\ Strict'.error # "none"
  <1>1. SUFFICES ASSUME IInv, IInv', InterruptedAppend, Len(file') <= MaxCandidates
                 PROVE  /\ Recovery'.error = Recovery.error
                        /\ Recovery'.root = Recovery.root
                        /\ Strict'.error # "none"
    OBVIOUS
  <1>2. /\ file \in Seq(Candidates) /\ file' \in Seq(Candidates) /\ tail' = TRUE
        /\ Len(file) \in Nat /\ Len(file') \in Nat
        /\ Places = 1..Len(file) /\ Places' = 1..Len(file')
    BY <1>1 DEF IInv, TypeOK, InterruptedAppend, Places
  <1>3. Report /\ Report' /\ TailRefused'
    BY <1>1, ReportOfFile, ReportOfNextFile DEF IInv
  <1>4. /\ Len(file) <= Len(file')
        /\ \A i \in Places : file'[i] = file[i]
        /\ \A i \in Places' : IsVerifiedComplete(file'[i]) => i \in Places
        /\ Duplicated' <=> Duplicated
    <2>1. CASE file' = file
      BY <1>2, <2>1 DEF Duplicated
    <2>2. CASE \E c \in Successors : Fresh(c) /\ file' = Append(file, Cut(c))
      <3>1. PICK c \in Successors : Fresh(c) /\ file' = Append(file, Cut(c))
        BY <2>2
      <3>2. Cut(c) \in Candidates /\ ~IsVerifiedComplete(Cut(c)) /\ Cut(c).identity = c.identity
        BY <1>1, <3>1, SuccessorFollows, CutType
      <3>. DEFINE n == Len(file)
                  d == Cut(c)
      <3>3. /\ Len(file') = n + 1 /\ \A i \in 1..n : file'[i] = file[i]
            /\ file'[n + 1] = d
        BY <1>2, <3>1, <3>2, AppendProperties
      <3>4. \A i \in Places : file[i].identity # d.identity
        BY <3>1, <3>2 DEF Fresh, Holder
      <3>. HIDE DEF d, n
      <3>5. n \in Nat /\ Places = 1..n /\ Places' = 1..(n + 1)
        BY <1>2, <3>3 DEF n
      <3>6. \A i \in 1..(n + 1) : i \in 1..n \/ i = n + 1
        BY <3>5
      <3>7. \A i \in Places' : IsVerifiedComplete(file'[i]) => i \in Places
        BY <3>2, <3>3, <3>5, <3>6 DEF d
      <3>8. n + 1 \notin 1..n /\ 1..n \subseteq 1..(n + 1)
        BY <3>5
      <3>9. Duplicated' <=> \E i, j \in 1..(n + 1) : i # j /\ file'[i].identity = file'[j].identity
        BY <3>5 DEF Duplicated
      <3>10. Duplicated <=> \E i, j \in 1..n : i # j /\ file[i].identity = file[j].identity
        BY <3>5 DEF Duplicated
      <3>11. Duplicated' <=> Duplicated
        BY <3>3, <3>4, <3>5, <3>6, <3>8, <3>9, <3>10
      <3>12. Len(file) <= Len(file')
        BY <1>2, <3>3 DEF n
      <3>. QED  BY <3>3, <3>5, <3>7, <3>11, <3>12
    <2>. QED  BY <1>1, <2>1, <2>2 DEF InterruptedAppend
  <1>5. ~(Len(file) > MaxCandidates) /\ ~(Len(file') > MaxCandidates)
    BY <1>1, <1>2, <1>4, LimitsAssumption
  <1>6. Places \subseteq Places'
    BY <1>2, <1>4
  <1>. DEFINE H == Highest({i \in Places : Intact(i)})
              N == Highest({i \in Places : Intact(i)})'
  <1>7. N = H
    BY <1>4, <1>6, IntactAlike
  <1>8. /\ Duplicated => Recovery.error = "DuplicateIdentity" /\ Recovery.root = 0
        /\ ~Duplicated =>
              /\ H = {} => Recovery.error = "NoValidRoot" /\ Recovery.root = 0
              /\ \A i : H = {i} => Recovery.error = "none" /\ Recovery.root = i
              /\ H # {} /\ (\A i : H # {i}) =>
                    Recovery.error = "AmbiguousFork" /\ Recovery.root = 0
    BY <1>3, <1>5, Zenon DEF Report
  <1>9. /\ Duplicated' => Recovery'.error = "DuplicateIdentity" /\ Recovery'.root = 0
        /\ ~Duplicated' =>
              /\ N = {} => Recovery'.error = "NoValidRoot" /\ Recovery'.root = 0
              /\ \A i : N = {i} => Recovery'.error = "none" /\ Recovery'.root = i
              /\ N # {} /\ (\A i : N # {i}) =>
                    Recovery'.error = "AmbiguousFork" /\ Recovery'.root = 0
    BY <1>3, <1>5, Zenon DEF Report
  <1>. HIDE DEF H, N
  <1>10. Recovery'.error = Recovery.error /\ Recovery'.root = Recovery.root
    BY <1>4, <1>7, <1>8, <1>9, Zenon
  <1>11. Strict'.error # "none"
    BY <1>2, <1>3 DEF TailRefused
  <1>. QED  BY <1>10, <1>11

-----------------------------------------------------------------------------
\* RootSelectionReport::select in recovery mode returns the newest intact
\* snapshot of every file that writers, damage and cuts can leave, and refuses
\* only a file that has none, or two of the same number.
THEOREM RecoveryFindsNewest == Spec => []RecoveryIsNewestIntact
  <1>1. IInv => RecoveryIsNewestIntact
    BY NewestIntact DEF IInv, TypeOK
  <1>. QED  BY <1>1, Invariance, PTL

\* select and RootEnumerationReport::enumerate, with a walk and a way to count the
\* depth of their own each, agree on every such file.
THEOREM EnumerationIsSelection == Spec => []EnumerationAgrees
  <1>1. IInv => EnumerationAgrees
    BY EnumerationOfFile DEF IInv, TypeOK
  <1>. QED  BY <1>1, Invariance, PTL

\* An interrupted append, whether it leaves a truncated candidate or bytes a scan
\* does not recognise, never moves the root that recovery finds, in forked and
\* damaged files too, and a strict reader refuses what it left.
THEOREM InterruptionsKeepRoot == Spec => InterruptionKeepsRoot
  <1>1. IInv /\ IInv' => [InterruptedAppend /\ Len(file') <= MaxCandidates =>
                            /\ Recovery'.error = Recovery.error
                            /\ Recovery'.root = Recovery.root
                            /\ Strict'.error # "none"]_vars
    BY InterruptionStep
  <1>. QED  BY <1>1, Invariance, PTL DEF InterruptionKeepsRoot

\* After any number of interruptions, cuts and resumed writers, recovery finds the
\* last snapshot that was finished, and so does a strict reader unless the file
\* ends behind it.
THEOREM NothingPublishedIsLost == Spec => []RootIsLastFinished
  <1>1. IInv => RootIsLastFinished
    BY LastFinished
  <1>. QED  BY <1>1, Invariance, PTL
=============================================================================
