-------------------------- MODULE ConditionalClient --------------------------
(***************************************************************************)
(* One assurance operation over conditional HTTP: the object's metadata,   *)
(* then its ranges, each under the strong version the metadata named.      *)
(*                                                                         *)
(*   conditional_source_lookup (async)   the reader that asks              *)
(*   conditional_async_authentication    one credential refresh per request*)
(*   conditional_async_retry             attempts, delays, waits           *)
(*   conditional_backoff                 the delay budget                  *)
(*   conditional_http, conditional_reqwest   classification, cancellation  *)
(*                                                                         *)
(* The server answers when it likes, or never; the object is replaced at   *)
(* any time, also while an answer is on its way; the caller may cancel and *)
(* the deadline may pass at any time.                                      *)
(***************************************************************************)
EXTENDS Naturals, Sequences

CONSTANTS
    MaxVersion,      \* the object's versions are 0 .. MaxVersion
    Ranges,          \* how many ranges the reader asks for
    ReadLimits,      \* values of limits.max_read_operations
    MaxAttempts,     \* retry_policy.max_transport_attempts
    Base,            \* policy.base_delay_millis
    MaxDelay,        \* policy.max_delay_millis
    MaxCumulative,   \* policy.max_cumulative_delay_millis
    Minimums         \* server_minimum_millis a response may carry; 0: none

\* The constructors of the policies refuse anything else.  Delays of less than
\* 2^30 ms keep the arithmetic of Exponential within TLC's integers.
ASSUME PolicyAssumption ==
    /\ MaxVersion \in Nat /\ Ranges \in Nat /\ ReadLimits \subseteq Nat
    /\ MaxAttempts \in Nat \ {0}
    /\ Base \in 1..MaxDelay /\ MaxDelay \in 1..(2^30 - 1)
    /\ MaxCumulative \in Nat /\ Base <= MaxCumulative
    /\ Minimums \subseteq Nat /\ 0 \in Minimums

VARIABLES
    job,        \* which client, whether there is a deadline, the read limit
    pc,         \* what the client is doing
    request,    \* the logical request: 0 is metadata, k the k-th range
    policy,     \* ConditionalAuthenticationPolicy of the current attempts
    attempts,   \* transport_attempts
    retries,    \* backoff.retries_planned
    cumulative, \* backoff.cumulative_delay_millis
    delay,      \* the last delay planned
    refreshes,  \* refresh_attempts
    pinned,     \* the version the metadata named
    accepted,   \* the versions of the range bodies handed to the reader
    result,     \* how the operation ended
    object,     \* the object's version in the store
    sent,       \* HTTP requests that reached the network
    response,   \* the answer on its way, or the last one received
    cancelled,  \* the cancellation flag
    expired     \* the deadline has passed

budget  == <<attempts, retries, cumulative, delay, refreshes>>
control == <<cancelled, expired>>
vars == <<job, pc, request, policy, budget, pinned, accepted, result, object, sent,
          response, control>>

Versions == 0..MaxVersion
Jobs == [authenticated : BOOLEAN, deadline : BOOLEAN, maxReads : ReadLimits]
Stages == {"begin", "sending", "awaiting", "waiting", "refreshing", "done"}
Statuses == {"none", "success", "retryable", "unauthorized", "versionChanged",
             "terminal", "lost"}
Results == {"none", "ok", "Cancelled", "DeadlineExceeded", "Attempts", "RetryDelay",
            "ServerDelay", "Unauthorized", "Failed", "ReadLimit"}

Response(s, v, m) == [status |-> s, version |-> v, minimum |-> m]

Init ==
    /\ job \in Jobs
    /\ pc = "begin"
    /\ request = 0
    /\ policy = IF job.authenticated THEN "OneRefreshPermitted" ELSE "Terminal"
    /\ attempts = 0 /\ retries = 0 /\ cumulative = 0 /\ delay = 0 /\ refreshes = 0
    /\ pinned = 0
    /\ accepted = <<>>
    /\ result = "none"
    /\ object = 0
    /\ sent = 0
    /\ response = Response("none", 0, 0)
    /\ cancelled = FALSE
    /\ expired = FALSE
-----------------------------------------------------------------------------
(* ImmutableOperationControl.check *)

ControlFailed == cancelled \/ expired

Finish(r) == pc' = "done" /\ result' = r

Goto(stage) == pc' = stage /\ UNCHANGED result

\* Mutant: an answer is awaited without looking at the control.
ControlStopsNotAwaiting ==
    /\ pc \notin {"awaiting", "done"}
    /\ ControlFailed
    /\ Finish(IF cancelled THEN "Cancelled" ELSE "DeadlineExceeded")
    /\ UNCHANGED <<job, request, policy, budget, pinned, accepted, object, sent,
                   response, control>>

\* Every await is raced against the control, and the control is checked once
\* more when the await is over; so do begin_attempt and the attempt itself.
ControlStops ==
    /\ pc # "done"
    /\ ControlFailed
    /\ Finish(IF cancelled THEN "Cancelled" ELSE "DeadlineExceeded")
    /\ UNCHANGED <<job, request, policy, budget, pinned, accepted, object, sent,
                   response, control>>
-----------------------------------------------------------------------------
(* begin_attempt, then current_authorization and the request itself. *)

BeginAttempt ==
    /\ pc = "begin"
    /\ ~ControlFailed
    /\ IF attempts >= MaxAttempts
       THEN Finish("Attempts") /\ UNCHANGED attempts
       ELSE Goto("sending") /\ attempts' = attempts + 1
    /\ UNCHANGED <<job, request, policy, retries, cumulative, delay, refreshes,
                   pinned, accepted, object, sent, response, control>>

Send ==
    /\ pc = "sending"
    /\ ~ControlFailed
    /\ Goto("awaiting")
    /\ sent' = sent + 1
    /\ response' = Response("none", 0, 0)
    /\ UNCHANGED <<job, request, policy, budget, pinned, accepted, object, control>>

\* The application has no credential to send: the attempt stays charged.
AuthorizationFails ==
    /\ pc = "sending"
    /\ job.authenticated
    /\ Finish("Failed")
    /\ UNCHANGED <<job, request, policy, budget, pinned, accepted, object, sent,
                   response, control>>
-----------------------------------------------------------------------------
(* plan_next_delay *)

\* The doubled delay with its cap, over the integers.
Capped[n \in 0..63] ==
    IF n = 0 THEN Base
    ELSE IF 2 * Capped[n - 1] < MaxDelay THEN 2 * Capped[n - 1] ELSE MaxDelay

\* base.checked_shl(n.min(63)) in 64 bits: checked_shl only refuses a shift of
\* 64 or more, bits shifted out are lost.  Once they all are, the delay is 0;
\* as long as one is left, the value is at least 2^n and the cap applies.
Exponential(n) ==
    LET k == IF n < 63 THEN n ELSE 63
    IN  IF 64 - k <= 30 /\ Base % 2^(64 - k) = 0 THEN 0 ELSE Capped[k]

DelayFor(minimum) ==
    IF Exponential(retries) > minimum THEN Exponential(retries) ELSE minimum

\* The remaining time is data the model leaves out: with a deadline, any delay
\* may turn out to be too long for it.
PlanNextDelay(minimum) ==
    \/ /\ minimum > MaxDelay
       /\ Finish("ServerDelay")
       /\ UNCHANGED <<retries, cumulative, delay>>
    \/ /\ minimum <= MaxDelay
       /\ \/ /\ job.deadline
             /\ Finish("DeadlineExceeded")
             /\ UNCHANGED <<retries, cumulative, delay>>
          \/ /\ cumulative + DelayFor(minimum) > MaxCumulative
             /\ Finish("RetryDelay")
             /\ UNCHANGED <<retries, cumulative, delay>>
          \/ /\ cumulative + DelayFor(minimum) <= MaxCumulative
             /\ retries' = retries + 1
             /\ delay' = DelayFor(minimum)
             /\ cumulative' = cumulative + delay'
             /\ Goto("waiting")

\* Mutant: the first retry is immediate and not charged.
RetryAtOnce(minimum) == Goto("begin") /\ UNCHANGED <<retries, cumulative, delay>>

\* retry_after_decision: no delay is planned when no attempt is left.
RetryAfterDecision(minimum) ==
    \/ /\ attempts >= MaxAttempts
       /\ Finish("Attempts")
       /\ UNCHANGED <<retries, cumulative, delay>>
    \/ attempts < MaxAttempts /\ PlanNextDelay(minimum)

\* await_controlled_retry_delay
Wake ==
    /\ pc = "waiting"
    /\ ~ControlFailed
    /\ Goto("begin")
    /\ UNCHANGED <<job, request, policy, budget, pinned, accepted, object, sent,
                   response, control>>
-----------------------------------------------------------------------------
(* classify_conditional_http_response and map_reqwest_error *)

\* Mutant: the version of the answer is not compared with the pinned one.
ClassifyStatusOnly(r) ==
    CASE r.status \in {"retryable", "lost"} -> "Retry"
      [] r.status = "unauthorized" /\ policy = "OneRefreshPermitted" -> "Refresh"
      [] r.status = "unauthorized" /\ policy = "Terminal" -> "Unauthorized"
      [] r.status = "success" -> "Accept"
      [] OTHER -> "Fail"

Classify(r) ==
    CASE r.status \in {"retryable", "lost"} -> "Retry"
      [] r.status = "unauthorized" /\ policy = "OneRefreshPermitted" -> "Refresh"
      [] r.status = "unauthorized" /\ policy = "Terminal" -> "Unauthorized"
      [] r.status = "success" /\ (request = 0 \/ r.version = pinned) -> "Accept"
      [] OTHER -> "Fail"

\* The reader has its answer and asks for the next range, or is through.
Accept ==
    /\ IF request = 0
       THEN pinned' = response.version /\ UNCHANGED accepted
       ELSE accepted' = Append(accepted, response.version) /\ UNCHANGED pinned
    /\ IF request = Ranges THEN Finish("ok") /\ UNCHANGED <<request, policy>>
       ELSE IF request >= job.maxReads
       THEN Finish("ReadLimit") /\ UNCHANGED <<request, policy>>
       ELSE /\ request' = request + 1
            /\ policy' = IF job.authenticated THEN "OneRefreshPermitted" ELSE "Terminal"
            /\ Goto("begin")

Receive ==
    /\ pc = "awaiting"
    /\ response.status # "none"
    /\ ~ControlFailed
    /\ LET decision == Classify(response)
       IN  \/ /\ decision = "Accept"
              /\ Accept
              /\ UNCHANGED budget
           \/ /\ decision = "Retry"
              /\ RetryAfterDecision(response.minimum)
              /\ UNCHANGED <<request, policy, attempts, refreshes, pinned, accepted>>
           \/ /\ decision = "Refresh"
              /\ refreshes' = refreshes + 1
              /\ Goto("refreshing")
              /\ UNCHANGED <<request, policy, attempts, retries, cumulative, delay,
                             pinned, accepted>>
           \/ /\ decision \in {"Unauthorized", "Fail"}
              /\ Finish(IF decision = "Fail" THEN "Failed" ELSE decision)
              /\ UNCHANGED <<request, policy, budget, pinned, accepted>>
    /\ UNCHANGED <<job, object, sent, response, control>>

\* Mutant: the replay may refresh once more.
RefreshEndsPermitted ==
    /\ pc = "refreshing"
    /\ ~ControlFailed
    /\ Goto("begin")
    /\ UNCHANGED <<job, request, policy, budget, pinned, accepted, object, sent,
                   response, control>>

\* The application's refresh ends; the replay is under the terminal policy.
RefreshEnds ==
    /\ pc = "refreshing"
    /\ ~ControlFailed
    /\ \/ Goto("begin") /\ policy' = "Terminal"
       \/ Finish("Failed") /\ UNCHANGED policy
    /\ UNCHANGED <<job, request, budget, pinned, accepted, object, sent, response,
                   control>>
-----------------------------------------------------------------------------
(* The server, the caller and the clock. *)

\* The server answers a request it has seen: with the object, or a version of
\* it from a cache; with an error; a precondition that fails may be ignored.
Answer ==
    /\ pc = "awaiting"
    /\ response.status = "none"
    /\ \/ \E v \in 0..object : response' = Response("success", v, 0)
       \/ \E m \in Minimums : response' = Response("retryable", 0, m)
       \/ request > 0 /\ object # pinned /\ response' = Response("versionChanged", 0, 0)
       \/ \E s \in {"unauthorized", "terminal", "lost"} : response' = Response(s, 0, 0)
    /\ UNCHANGED <<job, pc, request, policy, budget, pinned, accepted, result, object,
                   sent, control>>

Replace ==
    /\ object < MaxVersion
    /\ object' = object + 1
    /\ UNCHANGED <<job, pc, request, policy, budget, pinned, accepted, result, sent,
                   response, control>>

Cancel ==
    /\ ~cancelled
    /\ cancelled' = TRUE
    /\ UNCHANGED <<job, pc, request, policy, budget, pinned, accepted, result, object,
                   sent, response, expired>>

DeadlinePasses ==
    /\ job.deadline
    /\ ~expired
    /\ expired' = TRUE
    /\ UNCHANGED <<job, pc, request, policy, budget, pinned, accepted, result, object,
                   sent, response, cancelled>>

Client == ControlStops \/ BeginAttempt \/ Send \/ AuthorizationFails \/ Wake \/ Receive
Environment == Answer \/ RefreshEnds \/ Replace \/ Cancel \/ DeadlinePasses
Next == Client \/ Environment

Spec == Init /\ [][Next]_vars

\* The client's own steps and the clock go on; the server and the application's
\* refresh may hang for ever.
FairSpec == Spec /\ WF_vars(Client) /\ WF_vars(DeadlinePasses)
-----------------------------------------------------------------------------
\* Every body handed to the reader is of the version the metadata named, though
\* the object is replaced between the requests, answers come from caches, and
\* a server may ignore If-Match: the classifier compares the version again.
OneVersionAccepted == \A k \in DOMAIN accepted : accepted[k] = pinned

\* No hidden request: what reaches the network is within the operation's
\* budget, and each attempt is the first of a logical request or is paid for
\* by a planned delay or a refresh (retry and replay share the one budget).
AttemptsAccounted ==
    /\ sent <= attempts
    /\ attempts <= MaxAttempts
    /\ attempts <= (request + 1) + retries + refreshes

\* At most one refresh for each logical request, and a 401 is reported by an
\* authenticated client only after the refresh of that request.
OneRefreshPerRequest ==
    /\ refreshes <= request + 1
    /\ job.authenticated /\ result = "Unauthorized" => policy = "Terminal" /\ refreshes > 0

\* A caller that set a deadline, or cancels, gets the operation back, although
\* neither the server nor the application's refresh ever has to answer.
OperationReturns ==
    /\ job.deadline => <>(pc = "done")
    /\ cancelled ~> pc = "done"

\* Experiment 0068: the planner "computes capped exponential delays by retry
\* index".
BackoffIsCappedExponential ==
    pc = "waiting" => delay >= Capped[IF retries - 1 < 63 THEN retries - 1 ELSE 63]
=============================================================================
