------------------------------ MODULE MCTransport ------------------------------
(***************************************************************************)
(* Small instances of Transport.  A second is 1000 units and a Duration has *)
(* 25 bits, so that a Retry-After of 16778 seconds overflows as one of      *)
(* 9223372037 seconds does in int64 nanoseconds.                            *)
(***************************************************************************)
EXTENDS Transport, TLC

MCSecond == 1000
MCMaxDuration == 16777215

Plain ==
  [maxAttempts |-> 3, gated |-> FALSE, startWait |-> 0, retryWait |-> 0,
   releaseJitter |-> 0, maxRetryAfter |-> 30 * MCSecond, bufferBody |-> 4,
   budgeted |-> FALSE, key |-> "none", before |-> FALSE, after |-> "none",
   reconcile |-> "none", giveUp |-> FALSE, panics |-> FALSE]

GatedFailFast == [Plain EXCEPT !.gated = TRUE, !.retryWait = -1, !.releaseJitter = -1]
GatedWaiting == [Plain EXCEPT !.gated = TRUE, !.startWait = 5 * MCSecond]

\* One call, every feature of the engine in turn.
PathOptions ==
  { Plain,
    [Plain EXCEPT !.maxAttempts = 0],
    [Plain EXCEPT !.bufferBody = 0],
    [Plain EXCEPT !.before = TRUE, !.giveUp = TRUE, !.panics = TRUE],
    [Plain EXCEPT !.after = "retry_on_body", !.budgeted = TRUE],
    [Plain EXCEPT !.maxAttempts = 2, !.after = "custom", !.giveUp = TRUE],
    [Plain EXCEPT !.reconcile = "fail_closed", !.panics = TRUE],
    [Plain EXCEPT !.reconcile = "fail_open"],
    [Plain EXCEPT !.maxAttempts = 2, !.reconcile = "custom"],
    [GatedFailFast EXCEPT !.giveUp = TRUE],
    [GatedWaiting EXCEPT !.maxAttempts = 2, !.reconcile = "fail_closed", !.key = "per_call"] }

Request(method, body, size, faulty) ==
  [method |-> method, body |-> body, size |-> size, faulty |-> faulty]

PathRequests ==
  { Request("", "none", 0, FALSE), Request("POST", "getbody", 3, TRUE),
    Request("POST", "stream", 4, FALSE), Request("POST", "stream", 5, FALSE) }

Status(s) == [status |-> s, err |-> {}, retryAfter |-> NoHeader]
Busy(h) == [status |-> 503, err |-> {}, retryAfter |-> h]
Failed(traits) == [status |-> 0, err |-> traits, retryAfter |-> NoHeader]
Seconds(v) == [form |-> "seconds", v |-> v]

PathReplies ==
  { Status(200), Status(400), Status(500), Busy(Seconds(2)), Busy(Seconds(31)),
    Busy([form |-> "date", v |-> -1]), Failed({"other"}),
    Failed({"canceled"}) }

\* Retry-After headers up to the one whose product with time.Second wraps.
HeaderOptions == {Plain}
HeaderReplies == {Status(200), Busy(Seconds(30)), Busy(Seconds(31)), Busy(Seconds(16778))}

PathBackoffs == {0, MCSecond}

\* One unsafe request and everything that is supposed to keep it from being
\* performed twice.
EffectOptions ==
  {[Plain EXCEPT !.key = k, !.reconcile = r, !.gated = g, !.startWait = 1] :
     k \in {"none", "per_call", "per_attempt"}, r \in {"none", "fail_closed"}, g \in BOOLEAN}
EffectRequests == {Request("POST", "getbody", 3, FALSE)}
EffectReplies ==
  {Status(201), Status(429), Status(502), Failed({"dns"}), Failed({"other"})}
EffectBackoffs == {MCSecond}

\* Two calls sharing the gate, the budget and the gauge.
SharedOptions ==
  { [Plain EXCEPT !.budgeted = TRUE, !.panics = TRUE],
    [Plain EXCEPT !.budgeted = TRUE, !.maxAttempts = 2],
    [GatedFailFast EXCEPT !.budgeted = TRUE, !.releaseJitter = 0, !.startWait = 1, !.retryWait = 1] }
SharedRequests == {Request("GET", "none", 0, FALSE)}
SharedReplies == {Status(200), Status(503), Failed({"other"})}

CONSTANTS c1, c2
Pair == Permutations({c1, c2})
===============================================================================
