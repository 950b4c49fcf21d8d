------------------------------- MODULE Transport -------------------------------
(***************************************************************************)
(* The retry engine of retryx.go: RoundTrip, do, giveUp, finish, newAttempt *)
(* and bodyReplayer, the waiting helpers awaitHealth, pause and sleep of    *)
(* health.go, the shared Budget, and the hooks IdempotencyKey, Reconciler   *)
(* and RetryOnBody of hooks.go.                                             *)
(*                                                                          *)
(* Every call runs in a goroutine of its own.  Calls share the health gate, *)
(* the retry budget and the calls-in-flight gauge fed by the observer.  One *)
(* action is one stretch of do() between two points where another goroutine *)
(* or the environment can be noticed: a gate reading, the budget's mutex,   *)
(* the round trip, a timer, a user hook.                                    *)
(*                                                                          *)
(* The downstream is external.  It deduplicates operations by idempotency   *)
(* key, answers truthfully, and may apply a request whose answer was lost   *)
(* either at once, later, or never.                                         *)
(***************************************************************************)
EXTENDS Outcomes, Delays, Sequences, FiniteSets

CONSTANTS
  Calls,      \* the logical calls (goroutines inside RoundTrip)
  Requests,   \* the requests callers may hand in
  Options,    \* the option sets transports may be built with
  Replies,    \* what next.RoundTrip may return
  Backoffs,   \* the values the pluggable Backoff may return
  TokenUnit,  \* one retry token, in units of the smallest refund
  MaxTokens,  \* NewBudget's max, in the same unit
  Ratio,      \* NewBudget's ratio, in the same unit
  Settles     \* does a late write become visible within a backoff sleep?

Methods == SafeMethods \cup {"POST", "PATCH"}

RequestType ==
  [method : Methods, body : {"none", "getbody", "stream"}, size : Nat, faulty : BOOLEAN]

OptionType ==
  [maxAttempts : Int, gated : BOOLEAN, startWait : Int, retryWait : Int,
   releaseJitter : Int, maxRetryAfter : Int, bufferBody : Int, budgeted : BOOLEAN,
   key : {"none", "per_call", "per_attempt"}, before : BOOLEAN,
   after : {"none", "retry_on_body", "custom"},
   reconcile : {"none", "fail_closed", "fail_open", "custom"}, giveUp : BOOLEAN,
   panics : BOOLEAN]

HeaderType == [form : HeaderForms, v : Int]
ReplyType == [status : Nat, err : SUBSET ErrTraits, retryAfter : HeaderType]

\* A round trip returns a response or an error, never both and never neither.
ASSUME TransportAssumption ==
  /\ Requests \subseteq RequestType
  /\ Options \subseteq OptionType
  /\ Replies \subseteq ReplyType
  /\ \A r \in Replies : HasResp(r) <=> ~HasErr(r)
  /\ Backoffs \subseteq Int
  /\ TokenUnit \in Nat \ {0}
  /\ MaxTokens \in Nat
  /\ Ratio \in Nat
  /\ Settles \in BOOLEAN

VARIABLES
  pc,        \* where each goroutine is in do()
  cfg,       \* the configuration of the transport each call goes through
  req,       \* the caller's request
  canceled,  \* ctx.Err() # nil, per call
  call,      \* the Call struct and the locals replayable and getBody
  att,       \* the current Attempt struct and the last hook verdict
  wait,      \* the locals of pause: where it waits, for how long and why
  ret,       \* the give-up reason, the result label and what is returned
  gate,      \* what gate.State() answers
  tokens,    \* Budget.tokens
  inFlight,  \* the gauge fed by EventCallStart and EventCallDone
  applied,   \* the operations the downstream has performed, per call
  late,      \* operations it has accepted and may still perform
  log,       \* history variables, per call (see LogType)
  spent,     \* retry tokens taken so far, all calls
  refunds    \* successes that refunded the budget, all calls

control == <<pc, canceled, gate>>
static == <<cfg, req>>
budget == <<tokens, spent, refunds>>
server == <<applied, late>>
vars == <<pc, cfg, req, canceled, call, att, wait, ret, gate, tokens, inFlight,
          applied, late, log, spent, refunds>>

Verdicts == {"continue", "succeed_nil", "succeed_own", "succeed_other", "fail"}

Labels == {"idle", "body", "attempt", "gate", "await", "jitter", "before", "send",
           "inflight", "after", "decide", "backoff", "pause", "sleep", "recheck",
           "reconcile", "giveup", "done"}

NoReply == [status |-> 0, err |-> {}, retryAfter |-> NoHeader]
NewCall == [history |-> <<>>, idempotent |-> FALSE, attempts |-> 0,
            replayable |-> FALSE, getBody |-> FALSE]
NewAttempt(n) == [n |-> n, reply |-> NoReply, outcome |-> "success",
                  done |-> FALSE, verdict |-> "continue"]
NoWait == [at |-> "start", delay |-> 0, source |-> "backoff"]
NoReturn == [reason |-> "none", result |-> "none", kind |-> "none"]

\* owned   attempts whose response and context nobody has released yet
\* closed  attempts whose response body the engine has drained and closed
\* probed  attempts a probe has conclusively found not to have taken effect
\* paid    retry tokens this call has taken
\* events  EventAttempt events emitted
\* fresh   the gate was read healthy after the last backoff sleep
\* slept   the wait computed for the last attempt was slept in full
\* leaks   requests sent while the gate was unhealthy, since it last tripped
NewLog == [owned |-> {}, closed |-> {}, probed |-> {}, paid |-> 0, events |-> 0,
           fresh |-> FALSE, slept |-> FALSE, leaks |-> 0]

-----------------------------------------------------------------------------
(* Construction: New, the option functions and GatePolicy.normalized.       *)

\* New
New(o) ==
  [o EXCEPT !.maxAttempts = IF @ < 1 THEN 1 ELSE @,
            !.startWait = NormalizedStartWait(@),
            !.retryWait = NormalizedRetryWait(@),
            !.releaseJitter = NormalizedReleaseJitter(@)]

Configs == {New(o) : o \in Options}

\* bodyReplayer: how the request body can be produced, or "error".
BodyReplayer(q, limit) ==
  CASE q.body = "none" -> "nothing"
    [] q.body = "getbody" -> "getbody"
    [] q.body = "stream" /\ limit <= 0 -> "once"
    [] q.body = "stream" /\ limit > 0 /\ (q.faulty \/ q.size > limit) -> "error"
    [] OTHER -> "buffered"

\* The operation the downstream sees: one per idempotency key, else one per attempt.
OpId(c) == IF cfg[c].key = "per_call" THEN 0 ELSE att[c].n

\* What a truthful downstream may have done when it produced reply r.
Effects(r) ==
  CASE DefaultClassify(r) = "success" -> {"applied"}
    [] DefaultClassify(r) = "unknown" \/ (DefaultClassify(r) = "fatal" /\ HasErr(r))
         -> {"applied", "late", "never"}
    [] OTHER -> {"never"}

-----------------------------------------------------------------------------
Init ==
  /\ cfg \in [Calls -> Configs]
  /\ req \in [Calls -> Requests]
  /\ gate \in {"healthy", "unhealthy"}
  /\ pc = [c \in Calls |-> "idle"]
  /\ canceled = [c \in Calls |-> FALSE]
  /\ call = [c \in Calls |-> NewCall]
  /\ att = [c \in Calls |-> NewAttempt(0)]
  /\ wait = [c \in Calls |-> NoWait]
  /\ ret = [c \in Calls |-> NoReturn]
  /\ log = [c \in Calls |-> NewLog]
  /\ applied = [c \in Calls |-> {}]
  /\ late = [c \in Calls |-> {}]
  /\ tokens = MaxTokens
  /\ inFlight = 0
  /\ spent = 0
  /\ refunds = 0

Goto(c, label) == pc' = [pc EXCEPT ![c] = label]

\* do returns and RoundTrip emits EventCallDone.
Return(c, result, kind) ==
  /\ Goto(c, "done")
  /\ ret' = [ret EXCEPT ![c].result = result, ![c].kind = kind]
  /\ inFlight' = inFlight - 1

\* Attempt.discard
Discard(c) ==
  /\ att' = [att EXCEPT ![c].done = TRUE]
  /\ log' = IF att[c].done THEN log
            ELSE [log EXCEPT ![c].owned = @ \ {att[c].n},
                             ![c].closed = IF HasResp(att[c].reply)
                                           THEN @ \cup {att[c].n} ELSE @]

\* Attempt.deliver, with the result label do or finish attaches to it.
Deliver(c, result) ==
  IF HasErr(att[c].reply)
  THEN Discard(c) /\ Return(c, result, "error")
  ELSE /\ att' = [att EXCEPT ![c].done = TRUE]
       /\ log' = [log EXCEPT ![c].owned = @ \ {att[c].n}]
       /\ Return(c, result, "response")

\* finish: a hook ended the call.
Finish(c, v, okResult) ==
  CASE v = "succeed_own" /\ ~att[c].done -> Deliver(c, okResult)
    [] v = "succeed_own" /\ att[c].done -> Discard(c) /\ Return(c, okResult, "hook")
    [] v = "succeed_other" -> Discard(c) /\ Return(c, okResult, "hook")
    [] OTHER -> Discard(c) /\ Return(c, "hook_aborted", "error")

\* The verdicts user hooks of one phase can end with.
HookVerdicts(c, installed) ==
  IF ~installed THEN {"continue"}
  ELSE IF HasResp(att[c].reply) THEN Verdicts ELSE Verdicts \ {"succeed_own"}

-----------------------------------------------------------------------------
(* The call before its first attempt.                                       *)

\* RoundTrip: the observer hears EventCallStart.
Start(c) ==
  /\ pc[c] = "idle"
  /\ Goto(c, "body")
  /\ inFlight' = inFlight + 1
  /\ UNCHANGED <<static, canceled, call, att, wait, ret, gate, budget, server, log>>

PrepareBody(c) ==
  LET b == BodyReplayer(req[c], cfg[c].bufferBody) IN
  /\ pc[c] = "body"
  /\ IF b = "error"
     THEN Return(c, "body_error", "error") /\ UNCHANGED call
     ELSE /\ Goto(c, "attempt")
          /\ call' = [call EXCEPT ![c].replayable = (b # "once"),
                                  ![c].getBody = (b = "getbody")]
          /\ UNCHANGED <<ret, inFlight>>
  /\ UNCHANGED <<static, canceled, att, wait, gate, budget, server, log>>

\* newAttempt: clone the request with a fresh body; only the first attempt
\* goes through the gate.
BeginAttempt(c) ==
  LET n == att[c].n + 1 IN
  /\ pc[c] = "attempt"
  /\ Goto(c, IF n = 1 THEN "gate" ELSE "before")
  /\ att' = [att EXCEPT ![c] = NewAttempt(n)]
  /\ UNCHANGED <<static, canceled, call, wait, ret, gate, budget, inFlight, server, log>>

\* newAttempt: the request's GetBody failed.
GetBodyFails(c) ==
  /\ pc[c] = "attempt"
  /\ call[c].getBody /\ req[c].faulty
  /\ Return(c, "body_error", "error")
  /\ UNCHANGED <<static, canceled, call, att, wait, gate, budget, server, log>>

-----------------------------------------------------------------------------
(* The health gate: awaitHealth, reached from the start of the call and     *)
(* from pause.                                                              *)

\* awaitHealth's entry: wait if the policy allows it, else reject.
AwaitOrReject(c, maxWait, at) ==
  IF maxWait <= 0
  THEN /\ Goto(c, "giveup")
       /\ ret' = [ret EXCEPT ![c].reason = "unhealthy"]
       /\ UNCHANGED wait
  ELSE /\ Goto(c, "await")
       /\ wait' = [wait EXCEPT ![c].at = at]
       /\ UNCHANGED ret

\* A reading of gate.State() that lets the call go on.
SeenHealthy(c) == log' = [log EXCEPT ![c].fresh = TRUE]

GateAtStart(c) ==
  /\ pc[c] = "gate"
  /\ IF cfg[c].gated /\ gate = "unhealthy"
     THEN AwaitOrReject(c, cfg[c].startWait, "start") /\ UNCHANGED log
     ELSE /\ Goto(c, "before")
          /\ SeenHealthy(c)
          /\ UNCHANGED <<ret, wait>>
  /\ UNCHANGED <<static, canceled, call, att, gate, budget, inFlight, server>>

\* WaitHealthy returned nil: it read the gate healthy.
AwaitRecovered(c) ==
  /\ pc[c] = "await"
  /\ gate = "healthy"
  /\ Goto(c, "jitter")
  /\ SeenHealthy(c)
  /\ UNCHANGED <<static, canceled, call, att, wait, ret, gate, budget, inFlight, server>>

\* Mutated form: the wait has no timeout of its own.
AwaitTimeoutMissing(c) ==
  /\ pc[c] = "await"
  /\ canceled[c]
  /\ Goto(c, "giveup")
  /\ ret' = [ret EXCEPT ![c].reason = "unhealthy"]
  /\ UNCHANGED <<static, canceled, call, att, wait, gate, budget, inFlight, server, log>>

\* The wait's own timeout fired and the caller is still interested.
AwaitTimeout(c) ==
  /\ pc[c] = "await"
  /\ ~canceled[c]
  /\ Goto(c, "giveup")
  /\ ret' = [ret EXCEPT ![c].reason = "unhealthy"]
  /\ UNCHANGED <<static, canceled, call, att, wait, gate, budget, inFlight, server, log>>

\* The caller gave up while the call waited for health, or for its release.
AwaitCanceled(c) ==
  /\ pc[c] = "await" \/ (pc[c] = "jitter" /\ cfg[c].releaseJitter > 0)
  /\ canceled[c]
  /\ Discard(c)
  /\ Return(c, "canceled", "error")
  /\ UNCHANGED <<static, canceled, call, wait, gate, budget, server>>

\* The release jitter is over; the gate is not read again.
JitterDone(c) ==
  /\ pc[c] = "jitter"
  /\ Goto(c, IF wait[c].at = "start" THEN "before" ELSE "reconcile")
  /\ UNCHANGED <<static, canceled, call, att, wait, ret, gate, budget, inFlight, server, log>>

-----------------------------------------------------------------------------
(* One attempt.                                                             *)

\* The Before phase: IdempotencyKey, then a hook that may short-circuit.
BeforeHooks(c) ==
  /\ pc[c] = "before"
  /\ call' = [call EXCEPT ![c].idempotent = @ \/ cfg[c].key = "per_call"]
  /\ \E v \in HookVerdicts(c, cfg[c].before) :
       IF v = "continue"
       THEN Goto(c, "send") /\ UNCHANGED <<att, log, ret, inFlight>>
       ELSE Finish(c, v, "short_circuit")
  /\ UNCHANGED <<static, canceled, wait, gate, budget, server>>

\* The request goes out, under a context of its own.
Send(c) ==
  /\ pc[c] = "send"
  /\ Goto(c, "inflight")
  /\ call' = [call EXCEPT ![c].attempts = @ + 1]
  /\ log' = [log EXCEPT ![c].owned = @ \cup {att[c].n},
                         ![c].leaks = IF cfg[c].gated /\ gate = "unhealthy" THEN @ + 1 ELSE @]
  /\ UNCHANGED <<static, canceled, att, wait, ret, gate, budget, inFlight, server>>

\* A gate that trips begins a new outage for every call.
CountOutages ==
  log' = IF gate = "healthy" /\ gate' = "unhealthy"
         THEN [c \in Calls |-> [log[c] EXCEPT !.leaks = 0]] ELSE log

\* What the downstream did with the request that produced this reply (external).
Perform(c, effect) ==
  /\ applied' = [applied EXCEPT ![c] = IF effect = "applied" THEN @ \cup {OpId(c)} ELSE @]
  /\ late' = [late EXCEPT ![c] = IF effect = "late" THEN @ \cup {OpId(c)} ELSE @]

\* The round trip failed and the caller has gone: stop, outside the history.
Abandoned(c) ==
  /\ pc[c] = "inflight"
  /\ canceled[c]
  /\ \E r \in {x \in Replies : HasErr(x)} : \E e \in Effects(r) :
       /\ Perform(c, e)
       /\ att' = [att EXCEPT ![c].reply = r, ![c].outcome = "fatal", ![c].done = TRUE]
  /\ log' = [log EXCEPT ![c].owned = @ \ {att[c].n}, ![c].events = @ + 1]
  /\ Return(c, "canceled", "error")
  /\ UNCHANGED <<static, canceled, call, wait, gate, budget>>

\* Classify the reply and Report it: a report may trip the gate, never heal it.
Classified(c) ==
  /\ pc[c] = "inflight"
  /\ \E r \in {x \in Replies : HasErr(x) => ~canceled[c]} : \E e \in Effects(r) :
       /\ Perform(c, e)
       /\ att' = [att EXCEPT ![c].reply = r, ![c].outcome = DefaultClassify(r)]
       /\ gate' \in IF cfg[c].gated /\ DefaultIsFailure(r)
                    THEN {gate, "unhealthy"} ELSE {gate}
  /\ CountOutages
  /\ Goto(c, "after")
  /\ UNCHANGED <<static, canceled, call, wait, ret, budget, inFlight>>

\* RetryOnBody looks at successful responses only; a custom After hook may
\* override any outcome.
AfterOutcomes(c) ==
  CASE cfg[c].after = "custom" -> Outcome
    [] cfg[c].after = "retry_on_body" /\ att[c].outcome = "success"
         /\ ~HasErr(att[c].reply) -> Outcome
    [] OTHER -> {att[c].outcome}

\* The After phase, the history entry and EventAttempt.
AfterHooks(c) ==
  /\ pc[c] = "after"
  /\ \E o \in AfterOutcomes(c), v \in HookVerdicts(c, cfg[c].after = "custom") :
       /\ att' = [att EXCEPT ![c].outcome = o, ![c].verdict = v]
       /\ call' = [call EXCEPT ![c].history = Append(@, o)]
  /\ log' = [log EXCEPT ![c].events = @ + 1]
  /\ Goto(c, "decide")
  /\ UNCHANGED <<static, canceled, wait, ret, gate, budget, inFlight, server>>

ShortCircuit(c) ==
  /\ pc[c] = "decide"
  /\ att[c].verdict # "continue"
  /\ Finish(c, att[c].verdict, "short_circuit")
  /\ UNCHANGED <<static, canceled, call, wait, gate, budget, server>>

Least(x, y) == IF x < y THEN x ELSE y

\* Mutated form: the refund is not capped at max.
RefundUncapped(c) ==
  IF cfg[c].budgeted
  THEN tokens' = tokens + Ratio /\ refunds' = refunds + 1 /\ UNCHANGED spent
  ELSE UNCHANGED budget

\* Budget.onSuccess
Refund(c) ==
  IF cfg[c].budgeted
  THEN /\ tokens' = Least(MaxTokens, tokens + Ratio)
       /\ refunds' = refunds + 1
       /\ UNCHANGED spent
  ELSE UNCHANGED budget

DeliverSuccess(c) ==
  /\ pc[c] = "decide"
  /\ att[c].verdict = "continue" /\ att[c].outcome = "success"
  /\ Refund(c)
  /\ Deliver(c, "success")
  /\ UNCHANGED <<static, canceled, call, wait, gate, server>>

DeliverFatal(c) ==
  /\ pc[c] = "decide"
  /\ att[c].verdict = "continue" /\ att[c].outcome = "fatal"
  /\ Deliver(c, "non_retryable")
  /\ UNCHANGED <<static, canceled, call, wait, gate, budget, server>>

-----------------------------------------------------------------------------
(* The decision to try again.                                               *)

Wants(c) == pc[c] = "decide" /\ att[c].verdict = "continue" /\ att[c].outcome \in Retryable

\* Mutated form: an Unknown outcome of an unsafe request is retried blindly.
RefusalBlind(c) ==
  CASE att[c].n >= cfg[c].maxAttempts -> "exhausted"
    [] att[c].n < cfg[c].maxAttempts /\ ~call[c].replayable -> "body"
    [] OTHER -> "none"

\* Mutated form: one attempt too many.
RefusalLate(c) ==
  CASE att[c].n > cfg[c].maxAttempts -> "exhausted"
    [] att[c].n <= cfg[c].maxAttempts /\ ~call[c].replayable -> "body"
    [] /\ att[c].n <= cfg[c].maxAttempts /\ call[c].replayable
       /\ att[c].outcome = "unknown" /\ cfg[c].reconcile = "none"
       /\ ~ReplaySafe(call[c].idempotent, req[c].method) -> "unsafe"
    [] OTHER -> "none"

\* The safety gates, in the order of the switch; "none" lets the retry through
\* to the budget.
Refusal(c) ==
  CASE att[c].n >= cfg[c].maxAttempts -> "exhausted"
    [] att[c].n < cfg[c].maxAttempts /\ ~call[c].replayable -> "body"
    [] /\ att[c].n < cfg[c].maxAttempts /\ call[c].replayable
       /\ att[c].outcome = "unknown" /\ cfg[c].reconcile = "none"
       /\ ~ReplaySafe(call[c].idempotent, req[c].method) -> "unsafe"
    [] OTHER -> "none"

\* Mutated form: allow() does not look at the bucket.
AffordableAlways(c) == TRUE

\* Budget.allow would answer true.
Affordable(c) == ~cfg[c].budgeted \/ tokens >= TokenUnit

\* Mutated form: the budget takes its token before the safety gates are asked.
RefuseRetryPaid(c) ==
  /\ Wants(c)
  /\ Refusal(c) # "none" \/ ~Affordable(c)
  /\ ret' = [ret EXCEPT ![c].reason = IF Refusal(c) # "none" THEN Refusal(c) ELSE "budget"]
  /\ IF cfg[c].budgeted /\ Affordable(c)
     THEN /\ tokens' = tokens - TokenUnit
          /\ spent' = spent + 1
          /\ log' = [log EXCEPT ![c].paid = @ + 1]
     ELSE UNCHANGED <<tokens, spent, log>>
  /\ Goto(c, "giveup")
  /\ UNCHANGED <<static, canceled, call, att, wait, gate, inFlight, server, refunds>>

RefuseRetry(c) ==
  /\ Wants(c)
  /\ Refusal(c) # "none" \/ ~Affordable(c)
  /\ ret' = [ret EXCEPT ![c].reason = IF Refusal(c) # "none" THEN Refusal(c) ELSE "budget"]
  /\ Goto(c, "giveup")
  /\ UNCHANGED <<static, canceled, call, att, wait, gate, budget, inFlight, server, log>>

\* Budget.allow: the token is taken before the wait is even computed.
SpendToken(c) ==
  /\ Wants(c)
  /\ Refusal(c) = "none" /\ Affordable(c)
  /\ IF cfg[c].budgeted
     THEN /\ tokens' = tokens - TokenUnit
          /\ spent' = spent + 1
          /\ log' = [log EXCEPT ![c].paid = @ + 1]
     ELSE UNCHANGED <<tokens, spent, log>>
  /\ Goto(c, "backoff")
  /\ UNCHANGED <<static, canceled, call, att, wait, ret, gate, inFlight, server, refunds>>

\* Does the response carry a Retry-After the engine will not wait for?
TooLong(c) ==
  LET h == att[c].reply.retryAfter IN
  HasResp(att[c].reply) /\ HasRetryAfter(h) /\ RetryAfter(h) > cfg[c].maxRetryAfter

RetryAfterTooLong(c) ==
  /\ pc[c] = "backoff"
  /\ TooLong(c)
  /\ ret' = [ret EXCEPT ![c].reason = "retry_after"]
  /\ Goto(c, "giveup")
  /\ UNCHANGED <<static, canceled, call, att, wait, gate, budget, inFlight, server, log>>

\* The longer of the backoff and the Retry-After; then the response is discarded.
ChooseDelay(c) ==
  LET h == att[c].reply.retryAfter
      asked == HasResp(att[c].reply) /\ HasRetryAfter(h) IN
  /\ pc[c] = "backoff"
  /\ ~TooLong(c)
  /\ \E b \in Backoffs :
       wait' = [wait EXCEPT ![c] =
         IF asked /\ RetryAfter(h) > b
         THEN [at |-> "retry", delay |-> RetryAfter(h), source |-> "retry_after"]
         ELSE [at |-> "retry", delay |-> b, source |-> "backoff"]]
  /\ Discard(c)
  /\ Goto(c, "pause")
  /\ UNCHANGED <<static, canceled, call, ret, gate, budget, inFlight, server>>

-----------------------------------------------------------------------------
(* pause: the wait between two attempts.                                    *)

\* Mutated form: a call that is already retrying does not ask the gate.
TrippedNever(c) == FALSE

Tripped(c) == cfg[c].gated /\ gate = "unhealthy"

\* A gate already unhealthy replaces the sleep by the wait for recovery.
PauseCheck(c) ==
  /\ pc[c] = "pause"
  /\ IF Tripped(c)
     THEN AwaitOrReject(c, cfg[c].retryWait, "retry")
     ELSE Goto(c, "sleep") /\ UNCHANGED <<ret, wait>>
  /\ log' = [log EXCEPT ![c].fresh = ~Tripped(c), ![c].slept = FALSE]
  /\ UNCHANGED <<static, canceled, call, att, gate, budget, inFlight, server>>

\* sleep: the timer fires. A delay of at most zero only looks at the context. A
\* delay that outlasts the downstream's visibility lag lets late writes surface.
Sleep(c) ==
  /\ pc[c] = "sleep"
  /\ wait[c].delay > 0 \/ ~canceled[c]
  /\ IF Settles /\ wait[c].delay > 0
     THEN /\ applied' = [applied EXCEPT ![c] = @ \cup late[c]]
          /\ late' = [late EXCEPT ![c] = {}]
     ELSE UNCHANGED server
  /\ log' = [log EXCEPT ![c].fresh = FALSE, ![c].slept = TRUE]
  /\ Goto(c, "recheck")
  /\ UNCHANGED <<static, canceled, call, att, wait, ret, gate, budget, inFlight>>

SleepCanceled(c) ==
  /\ pc[c] = "sleep"
  /\ canceled[c]
  /\ Return(c, "canceled", "error")
  /\ UNCHANGED <<static, canceled, call, att, wait, gate, budget, server, log>>

\* Mutated form: the gate is not read again after the sleep.
RecheckSkipped(c) ==
  /\ pc[c] = "recheck"
  /\ Goto(c, "reconcile")
  /\ UNCHANGED <<static, canceled, call, att, wait, ret, gate, budget, inFlight, server, log>>

\* The gate may have tripped while the call slept.
Recheck(c) ==
  /\ pc[c] = "recheck"
  /\ IF Tripped(c)
     THEN AwaitOrReject(c, cfg[c].retryWait, "retry") /\ UNCHANGED log
     ELSE Goto(c, "reconcile") /\ SeenHealthy(c) /\ UNCHANGED <<ret, wait>>
  /\ UNCHANGED <<static, canceled, call, att, gate, budget, inFlight, server>>

\* What a probe of the downstream can answer; it may always be inconclusive.
ProbeAnswers(c) == {"inconclusive", IF applied[c] # {} THEN "found" ELSE "absent"}

\* Mutated form: an inconclusive probe always lets the retry through.
ReconcilerAlwaysOpen(answer, failOpen) ==
  IF answer = "found" THEN "succeed_other" ELSE "continue"

\* Mutated form: the two conclusive answers are swapped.
ReconcilerSwapped(answer, failOpen) ==
  CASE answer = "inconclusive" -> IF failOpen THEN "continue" ELSE "fail"
    [] answer = "found" -> "continue"
    [] OTHER -> "succeed_other"

\* Reconciler: the verdict for a probe's answer.
ReconcilerVerdict(answer, failOpen) ==
  CASE answer = "inconclusive" -> IF failOpen THEN "continue" ELSE "fail"
    [] answer = "found" -> "succeed_other"
    [] OTHER -> "continue"

\* How a Reconcile hook can end: with its verdict, and having established or not
\* that the attempt did not take effect. Reconciler asks the downstream; a hook of
\* the user may return any verdict.
ReconcileEnds(c) ==
  IF cfg[c].reconcile = "custom"
  THEN {[verdict |-> v, absent |-> FALSE] : v \in HookVerdicts(c, TRUE)}
  ELSE {[verdict |-> ReconcilerVerdict(answer, cfg[c].reconcile = "fail_open"),
         absent |-> answer = "absent"] : answer \in ProbeAnswers(c)}

\* The Reconcile phase, which runs after an Unknown outcome only.
ReconcileHooks(c) ==
  /\ pc[c] = "reconcile"
  /\ IF att[c].outcome = "unknown" /\ cfg[c].reconcile # "none"
     THEN \E end \in ReconcileEnds(c) :
            IF end.verdict = "continue"
            THEN /\ Goto(c, "attempt")
                 /\ log' = [log EXCEPT ![c].probed =
                              IF end.absent THEN @ \cup {att[c].n} ELSE @]
                 /\ UNCHANGED <<att, ret, inFlight>>
            ELSE Finish(c, end.verdict, "reconciled")
     ELSE Goto(c, "attempt") /\ UNCHANGED <<att, log, ret, inFlight>>
  /\ UNCHANGED <<static, canceled, call, wait, gate, budget, server>>

-----------------------------------------------------------------------------
(* giveUp                                                                   *)

\* Mutated form: a response already drained counts as deliverable.
NothingToDeliverDrained(c) == HasErr(att[c].reply) \/ ~HasResp(att[c].reply)

\* Is there no response left to hand back?
NothingToDeliver(c) ==
  HasErr(att[c].reply) \/ ~HasResp(att[c].reply) \/ att[c].done

\* The GiveUp phase, run with a.Reason set.
GiveUpHooks(c) ==
  /\ pc[c] = "giveup"
  /\ \E v \in HookVerdicts(c, cfg[c].giveUp) :
       /\ v # "continue"
       /\ Finish(c, v, "fallback")
  /\ UNCHANGED <<static, canceled, call, wait, gate, budget, server>>

GiveUp(c) ==
  /\ pc[c] = "giveup"
  /\ IF NothingToDeliver(c)
     THEN Discard(c) /\ Return(c, ResultForReason(ret[c].reason), "exhausted")
     ELSE Deliver(c, ResultForReason(ret[c].reason))
  /\ UNCHANGED <<static, canceled, call, wait, gate, budget, server>>

\* Where do() runs code of the user that may panic: the body's reader, the gate
\* selector and the gate, hooks, next.RoundTrip, the classifier and the backoff.
UserCode == {"body", "attempt", "gate", "await", "before", "inflight", "after",
             "backoff", "pause", "recheck", "reconcile", "giveup"}

\* Mutated form: a panic leaves RoundTrip without EventCallDone.
PanicUncounted(c) ==
  /\ cfg[c].panics
  /\ pc[c] \in UserCode
  /\ Goto(c, "done")
  /\ ret' = [ret EXCEPT ![c].result = "panic", ![c].kind = "panic"]
  /\ UNCHANGED <<static, canceled, call, att, wait, gate, budget, inFlight, server, log>>

\* The deferred EventCallDone of RoundTrip when user code panics.
Panic(c) ==
  /\ cfg[c].panics
  /\ pc[c] \in UserCode
  /\ Return(c, "panic", "panic")
  /\ UNCHANGED <<static, canceled, call, att, wait, gate, budget, server, log>>

-----------------------------------------------------------------------------
(* The environment.                                                         *)

Running(c) == pc[c] \notin {"idle", "done"}

\* The caller's context ends.
CancelCtx(c) ==
  /\ Running(c) /\ ~canceled[c]
  /\ canceled' = [canceled EXCEPT ![c] = TRUE]
  /\ UNCHANGED <<pc, static, call, att, wait, ret, gate, budget, inFlight, server, log>>

\* Probes and other transports' traffic change the gate's state at any time (at
\* any time a call of this model could tell).
GateFlips ==
  /\ \E c \in Calls : Running(c) /\ cfg[c].gated
  /\ gate' \in {"healthy", "unhealthy"} \ {gate}
  /\ CountOutages
  /\ UNCHANGED <<pc, static, canceled, call, att, wait, ret, budget, inFlight, server>>

\* A request whose answer was lost takes effect after all (external).
LateCommit(c) ==
  /\ \E op \in late[c] :
       /\ applied' = [applied EXCEPT ![c] = @ \cup {op}]
       /\ late' = [late EXCEPT ![c] = @ \ {op}]
  /\ UNCHANGED <<control, static, call, att, wait, ret, budget, inFlight, log>>

Step(c) ==
  \/ Start(c) \/ PrepareBody(c) \/ BeginAttempt(c) \/ GetBodyFails(c)
  \/ GateAtStart(c) \/ AwaitRecovered(c) \/ AwaitTimeout(c) \/ AwaitCanceled(c)
  \/ JitterDone(c) \/ BeforeHooks(c) \/ Send(c) \/ Abandoned(c) \/ Classified(c)
  \/ AfterHooks(c) \/ ShortCircuit(c) \/ DeliverSuccess(c) \/ DeliverFatal(c)
  \/ RefuseRetry(c) \/ SpendToken(c) \/ RetryAfterTooLong(c) \/ ChooseDelay(c)
  \/ PauseCheck(c) \/ Sleep(c) \/ SleepCanceled(c) \/ Recheck(c)
  \/ ReconcileHooks(c) \/ GiveUpHooks(c) \/ GiveUp(c)

Next ==
  \/ \E c \in Calls : Step(c) \/ Panic(c) \/ CancelCtx(c) \/ LateCommit(c)
  \/ GateFlips

\* The Go scheduler runs every goroutine that can run. A step also stands for a
\* round trip, hook or timer that ends: timers fire, and the user's hooks and
\* next.RoundTrip are assumed to return.
Fairness == \A c \in Calls : WF_vars(Step(c))

Spec == Init /\ [][Next]_vars /\ Fairness
-----------------------------------------------------------------------------
(* Types                                                                    *)

CallType == [history : Seq(Outcome), idempotent : BOOLEAN, attempts : Nat,
             replayable : BOOLEAN, getBody : BOOLEAN]
AttemptType == [n : Nat, reply : ReplyType, outcome : Outcome, done : BOOLEAN,
                verdict : Verdicts]
WaitType == [at : {"start", "retry"}, delay : Int, source : {"backoff", "retry_after"}]
ReturnType == [reason : Reasons, result : Results,
               kind : {"none", "response", "hook", "error", "exhausted", "panic"}]
LogType == [owned : SUBSET Nat, closed : SUBSET Nat, probed : SUBSET Nat, paid : Nat,
            events : Nat, fresh : BOOLEAN, slept : BOOLEAN, leaks : Nat]

\* Every variable keeps its type. The budget's tokens never go below zero: that
\* part rests on allow() testing and taking the token under one lock.
TypeOK ==
  /\ pc \in [Calls -> Labels]
  /\ cfg \in [Calls -> OptionType]
  /\ req \in [Calls -> RequestType]
  /\ canceled \in [Calls -> BOOLEAN]
  /\ call \in [Calls -> CallType]
  /\ att \in [Calls -> AttemptType]
  /\ wait \in [Calls -> WaitType]
  /\ ret \in [Calls -> ReturnType]
  /\ log \in [Calls -> LogType]
  /\ applied \in [Calls -> SUBSET Nat]
  /\ late \in [Calls -> SUBSET Nat]
  /\ gate \in {"healthy", "unhealthy"}
  /\ tokens \in Nat
  /\ spent \in Nat
  /\ refunds \in Nat
  /\ inFlight \in Int

-----------------------------------------------------------------------------
(* Safety                                                                   *)

Safe(c) == ReplaySafe(call[c].idempotent, req[c].method)

\* The Reconcile hooks that may let a retry through without knowing.
Trusting == {"fail_open", "custom"}

\* An attempt is only ever made after outcomes that permit one: never after a
\* success or a fatal outcome, and after an Unknown outcome of a request that is
\* not replay safe only when a probe has answered that the attempt did not take
\* effect (or the user chose failOpen, or answers for it with a Reconcile hook of
\* their own). This is "no blind duplicate POST".
NoBlindResend ==
  \A c \in Calls : \A k \in 1 .. Len(call[c].history) :
    k < att[c].n =>
      /\ call[c].history[k] \in Retryable
      /\ call[c].history[k] = "unknown" =>
           Safe(c) \/ k \in log[c].probed \/ cfg[c].reconcile \in Trusting

\* The configurations under which a non-idempotent request must take effect at
\* most once: a key per call, no reconcile hook at all, or a fail-closed probe
\* whose downstream shows a late write within the backoff. (A gated call may
\* skip that backoff: see WaitedBeforeReconcile.)
Guarded(c) ==
  /\ req[c].method \notin SafeMethods
  /\ cfg[c].after = "none"
  /\ \/ cfg[c].key = "per_call"
     \/ cfg[c].reconcile = "none"
     \/ /\ cfg[c].reconcile = "fail_closed" /\ ~cfg[c].gated
        /\ Settles /\ \A b \in Backoffs : b > 0

\* Whatever is lost, retried, probed or applied late, the downstream performs a
\* guarded request at most once.
EffectOnce == \A c \in Calls : Guarded(c) => Cardinality(applied[c] \cup late[c]) <= 1

\* The budget caps the retries of all calls together: every resend of a budgeted
\* call was paid for, and the tokens paid never exceed the bucket plus what
\* successes refunded, however allow() and onSuccess() interleave.
RetriesFunded ==
  /\ tokens <= MaxTokens
  /\ tokens + TokenUnit * spent <= MaxTokens + Ratio * refunds
  /\ \A c \in Calls : cfg[c].budgeted => call[c].attempts <= log[c].paid + 1

\* The results of calls that may end between taking a retry token and sending.
Forfeiting == {"retry_after_too_long", "downstream_unhealthy", "fallback", "reconciled",
               "hook_aborted", "short_circuit", "canceled", "body_error", "panic"}

\* A token taken before the Retry-After test, the wait for the gate and the
\* reconcile hooks is not given back, but a call forfeits at most that one: the
\* tokens it took are its resends, plus one when its result says that it ended
\* between the budget and the wire.
TokensAccounted ==
  \A c \in Calls : cfg[c].budgeted /\ pc[c] = "done" =>
    /\ log[c].paid <= call[c].attempts
    /\ ret[c].result \notin Forfeiting => log[c].paid + 1 = call[c].attempts

\* Once the gate has tripped, a gated call sends at most one more request until
\* the gate trips again: the one it had been cleared for by an earlier reading.
AtMostOneLeak == \A c \in Calls : log[c].leaks <= 1

\* The results of calls that may end with an attempt built and not sent.
Unsent == {"downstream_unhealthy", "fallback", "hook_aborted", "short_circuit",
           "canceled", "panic"}

\* No response body or attempt context is held while a call waits, none is left
\* behind when the call returns (a panic excepted), and the engine never hands
\* the caller a response whose body it has already drained and closed. At most
\* one request body obtained from GetBody is never handed to the RoundTripper,
\* which would close it, and the result label tells when. (The caller's own
\* stream, passed through unbuffered, is likewise left to the caller when no
\* attempt is sent.)
ResourcesReleased ==
  \A c \in Calls :
    /\ pc[c] \in {"pause", "sleep", "recheck", "await", "jitter", "reconcile", "attempt"}
         => log[c].owned = {}
    /\ pc[c] = "done" /\ ret[c].result # "panic" => log[c].owned = {}
    /\ ret[c].kind = "response" => att[c].n \notin log[c].closed
    /\ pc[c] = "done" => att[c].n - call[c].attempts \in {0, IF ret[c].result \in Unsent THEN 1 ELSE 0}

\* What the caller and the observers see of the calls.
Stage ==
  [c \in Calls |-> CASE pc[c] \in {"idle", "done"} -> pc[c]
                    [] pc[c] \in {"inflight", "after"} -> "flying"
                    [] OTHER -> "open"]
Last ==
  [c \in Calls |-> IF call[c].history = <<>> THEN "none"
                   ELSE call[c].history[Len(call[c].history)]]

Protocol ==
  INSTANCE CallProtocol
  WITH stage <- Stage, last <- Last,
       limit <- [c \in Calls |-> cfg[c].maxAttempts],
       sent <- [c \in Calls |-> call[c].attempts],
       told <- [c \in Calls |-> log[c].events],
       result <- [c \in Calls |-> ret[c].result]

\* The engine implements CallProtocol: through gates, budgets, hooks, waits and
\* cancellations a request goes out again only after an outcome that permits it
\* and within maxAttempts, each one sent is told before the next and before the
\* call ends (a panic excepted), and the result is one the last outcome justifies.
ImplementsProtocol == Protocol!Spec

\* calls_in_flight counts the calls inside RoundTrip, also after hook panics.
InFlightGauge == inFlight = Cardinality({c \in Calls : Running(c)})

\* A gated call goes to the Before hooks and to the wire only on a healthy
\* reading of the gate taken after the last backoff sleep of the call.
FreshReading ==
  \A c \in Calls : pc[c] \in {"before", "send"} /\ cfg[c].gated => log[c].fresh

\* What is handed back says what happened: a response that ends a call as
\* "success" is live, "unsafe_to_retry" is only said of an unsafe request,
\* "reconciled" only when the downstream has really performed the request (unless
\* a hook of the user says so), and
\* the history a give-up reports has one entry for each request sent.
ResultTruthful ==
  \A c \in Calls : pc[c] = "done" =>
    /\ ret[c].result = "success" /\ cfg[c].after # "custom" => ret[c].kind = "response"
    /\ ret[c].result = "unsafe_to_retry" => ~Safe(c)
    /\ ret[c].result = "reconciled" /\ cfg[c].reconcile # "custom" => applied[c] # {}
    /\ ret[c].reason # "none" => Len(call[c].history) = call[c].attempts

\* Every call that enters RoundTrip returns, whatever the gate does.
CallsReturn == \A c \in Calls : pc[c] = "body" ~> pc[c] = "done"

-----------------------------------------------------------------------------
(* Statements of the documentation that the code does not keep.             *)

\* "Give up if the server asks for a longer wait": a call that goes on to wait
\* was never asked, by a header in seconds, for more than maxRetryAfter.
RetryAfterCeiling ==
  \A c \in Calls : pc[c] = "pause" /\ att[c].reply.retryAfter.form = "seconds"
    => att[c].reply.retryAfter.v * Second <= cfg[c].maxRetryAfter

\* "Reconcile AFTER the wait, so eventually-consistent downstreams have had time
\* to make an in-flight write visible": a probe runs only once the backoff, or
\* the Retry-After that replaced it, has been slept.
WaitedBeforeReconcile ==
  \A c \in Calls :
    pc[c] = "reconcile" /\ att[c].outcome = "unknown" /\ cfg[c].reconcile # "none"
      => log[c].slept

\* "While g reports unhealthy, no HTTP request is sent": a call whose release
\* jitter ends while the gate is unhealthy is not let through to its next request.
NotReleasedWhileUnhealthy ==
  [][\A c \in Calls : pc[c] = "jitter" /\ pc'[c] \in {"before", "reconcile"}
       => gate = "healthy"]_vars

\* "OnGiveUp runs once when retrying stops without success": a call whose last
\* outcome was retryable ends through giveUp, or with the verdict of a hook.
GiveUpHookRuns ==
  \A c \in Calls :
    ( /\ pc[c] = "done" /\ cfg[c].giveUp
      /\ Len(call[c].history) > 0 /\ Last[c] \in Retryable
      /\ ret[c].result \notin {"panic", "reconciled", "hook_aborted", "short_circuit", "body_error"} )
      => ret[c].reason # "none"
===============================================================================
