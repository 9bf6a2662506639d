----------------------- MODULE ConditionalClientProofs -----------------------
(***************************************************************************)
(* The conditional client stays within its budget, refreshes once for each *)
(* request and accepts bytes of one version only: for every number of      *)
(* ranges, attempts and versions, whatever the server answers and whenever *)
(* the caller cancels.                                                     *)
(***************************************************************************)
EXTENDS ConditionalClient, TLAPS

Permitted == "OneRefreshPermitted"

\* The part of the types the arguments below need.
Types ==
    /\ job \in Jobs /\ pc \in Stages /\ result \in Results
    /\ policy \in {Permitted, "Terminal"}
    /\ request \in Nat /\ attempts \in Nat /\ retries \in Nat /\ refreshes \in Nat
    /\ sent \in Nat /\ pinned \in Nat /\ object \in Nat
    /\ accepted \in Seq(Nat)
    /\ response \in [status : Statuses, version : Nat, minimum : Nat]

\* An attempt that is about to begin is already paid for: by its request, by
\* the delay that was planned, or by the refresh that was counted.
Paid ==
    /\ attempts <= MaxAttempts
    /\ attempts <= (request + 1) + retries + refreshes
    /\ pc \in {"begin", "waiting", "refreshing"} =>
           attempts <= request + retries + refreshes

\* An attempt is charged before its request is sent.
Charged == sent <= attempts /\ (pc = "sending" => sent < attempts)

\* The permission to refresh is used up by the refresh.
Refreshed ==
    /\ refreshes <= request + 1
    /\ policy = Permitted /\ pc \notin {"refreshing", "done"} => refreshes <= request
    /\ pc = "refreshing" => refreshes > 0
    /\ job.authenticated /\ policy = "Terminal" => refreshes > 0
    /\ result = "Unauthorized" => policy = "Terminal" /\ pc = "done"

\* Nothing is accepted before the metadata has named the version.
Bound == OneVersionAccepted /\ (request = 0 => accepted = <<>>)

IInv == Types /\ Paid /\ Charged /\ Refreshed /\ Bound
-----------------------------------------------------------------------------
\* Nothing has been asked for yet.
LEMMA InitIInv == Init => IInv
  BY PolicyAssumption
  DEF Init, IInv, Types, Paid, Charged, Refreshed, Bound, OneVersionAccepted, Jobs,
      Stages, Results, Statuses, Response, Permitted

\* A step of the client itself.
LEMMA ClientIInv == IInv /\ Client => IInv'
  <1>. SUFFICES ASSUME IInv, Client PROVE IInv'
    OBVIOUS
  <1>. USE PolicyAssumption
       DEF IInv, Types, Paid, Charged, Refreshed, Bound, OneVersionAccepted, Stages,
           Results, Finish, Goto, budget, control, Permitted
  <1>1. CASE ControlStops
    BY <1>1 DEF ControlStops
  <1>2. CASE BeginAttempt
    BY <1>2 DEF BeginAttempt
  <1>3. CASE Send
    BY <1>3 DEF Send, Response, Statuses
  <1>4. CASE AuthorizationFails \/ Wake
    BY <1>4 DEF AuthorizationFails, Wake
  <1>5. CASE Receive
    <2>. DEFINE decision == Classify(response)
    <2>0. UNCHANGED <<job, object, sent, response, control>>
      BY <1>5 DEF Receive
    <2>1. CASE decision = "Accept" /\ Accept /\ UNCHANGED budget
      <3>1. request = 0 \/ response.version = pinned
        BY <2>1 DEF Classify
      <3>2. /\ pc = "awaiting"
            /\ UNCHANGED <<attempts, retries, refreshes>>
        BY <1>5, <2>1 DEF Receive
      <3>3. \/ pc' = "done" /\ result' \in {"ok", "ReadLimit"} /\ UNCHANGED <<request, policy>>
            \/ /\ pc' = "begin" /\ request' = request + 1 /\ UNCHANGED result
               /\ policy' = IF job.authenticated THEN Permitted ELSE "Terminal"
        BY <2>1 DEF Accept
      <3>4. Paid' /\ Charged'
        BY <2>0, <3>2, <3>3
      <3>5. Refreshed'
        BY <2>0, <3>2, <3>3 DEF Jobs
      <3>6. CASE request = 0
        <4>1. pinned' = response.version /\ accepted' = accepted
          BY <2>1, <3>6 DEF Accept
        <4>2. Types'
          BY <2>0, <3>2, <3>3, <4>1
        <4>3. Bound'
          BY <3>3, <3>6, <4>1
        <4>. QED  BY <3>4, <3>5, <4>2, <4>3
      <3>7. CASE request # 0
        <4>1. accepted' = Append(accepted, response.version) /\ pinned' = pinned
          BY <2>1, <3>7 DEF Accept
        <4>2. Types'
          BY <2>0, <3>2, <3>3, <4>1
        <4>3. Bound'
          BY <3>1, <3>3, <3>7, <4>1
        <4>. QED  BY <3>4, <3>5, <4>2, <4>3
      <3>. QED  BY <3>6, <3>7
    <2>2. CASE /\ decision = "Retry"
               /\ RetryAfterDecision(response.minimum)
               /\ UNCHANGED <<request, policy, attempts, refreshes, pinned, accepted>>
      BY <1>5, <2>0, <2>2 DEF Receive, RetryAfterDecision, PlanNextDelay
    <2>3. CASE /\ decision = "Refresh"
               /\ refreshes' = refreshes + 1
               /\ Goto("refreshing")
               /\ UNCHANGED <<request, policy, attempts, retries, cumulative, delay,
                              pinned, accepted>>
      <3>1. policy = Permitted
        BY <2>3 DEF Classify
      <3>. QED  BY <1>5, <2>0, <2>3, <3>1 DEF Receive
    <2>4. CASE /\ decision \in {"Unauthorized", "Fail"}
               /\ Finish(IF decision = "Fail" THEN "Failed" ELSE decision)
               /\ UNCHANGED <<request, policy, budget, pinned, accepted>>
      <3>1. decision = "Unauthorized" => policy # Permitted
        BY DEF Classify
      <3>. QED  BY <1>5, <2>0, <2>4, <3>1 DEF Receive
    <2>. QED  BY <1>5, <2>1, <2>2, <2>3, <2>4 DEF Receive
  <1>. QED  BY <1>1, <1>2, <1>3, <1>4, <1>5 DEF Client

\* A step of the server, the application, the caller or the clock.
LEMMA EnvironmentIInv == IInv /\ Environment => IInv'
  <1>. SUFFICES ASSUME IInv, Environment PROVE IInv'
    OBVIOUS
  <1>. USE PolicyAssumption
       DEF IInv, Types, Paid, Charged, Refreshed, Bound, OneVersionAccepted, Stages,
           Results, Finish, Goto, budget, control, Permitted
  <1>1. CASE Answer
    BY <1>1 DEF Answer, Response, Statuses
  <1>2. CASE RefreshEnds
    BY <1>2 DEF RefreshEnds
  <1>3. CASE Replace
    BY <1>3 DEF Replace
  <1>4. CASE Cancel
    BY <1>4 DEF Cancel
  <1>5. CASE DeadlinePasses
    BY <1>5 DEF DeadlinePasses
  <1>. QED  BY <1>1, <1>2, <1>3, <1>4, <1>5 DEF Environment

\* The invariant holds in every state of every behaviour.
LEMMA Invariance == Spec => []IInv
  <1>1. IInv /\ UNCHANGED vars => IInv'
    BY DEF IInv, Types, Paid, Charged, Refreshed, Bound, OneVersionAccepted, vars,
           budget, control
  <1>2. IInv /\ [Next]_vars => IInv'
    BY <1>1, ClientIInv, EnvironmentIInv DEF Next
  <1>. QED  BY InitIInv, <1>2, PTL DEF Spec
-----------------------------------------------------------------------------
\* No request escapes the operation's budget, over retries and replays.
THEOREM BudgetKept == Spec => []AttemptsAccounted
  <1>1. IInv => AttemptsAccounted
    BY DEF IInv, Paid, Charged, AttemptsAccounted
  <1>. QED  BY <1>1, Invariance, PTL

\* One refresh at most for each logical request.
THEOREM RefreshOnce == Spec => []OneRefreshPerRequest
  <1>1. IInv => OneRefreshPerRequest
    BY DEF IInv, Types, Refreshed, OneRefreshPerRequest, Permitted
  <1>. QED  BY <1>1, Invariance, PTL

\* Every accepted body is of the version the operation began with.
THEOREM OneVersionOnly == Spec => []OneVersionAccepted
  <1>1. IInv => OneVersionAccepted
    BY DEF IInv, Bound
  <1>. QED  BY <1>1, Invariance, PTL
=============================================================================
