------------------------------- MODULE Outcomes -------------------------------
(***************************************************************************)
(* What one finished attempt looks like and how it is classified: the      *)
(* Outcome type, DefaultClassify and ReplaySafe of retryx.go, the give-up  *)
(* reasons with resultForReason of observer.go, and DefaultIsFailure of    *)
(* health.go.                                                              *)
(*                                                                         *)
(* A reply is a record                                                     *)
(*   status      the HTTP status, 0 when there is no response (Resp = nil) *)
(*   err         the error chain as the set of things errors.Is/errors.As  *)
(*               would find in it; {} when Err = nil                       *)
(*   retryAfter  the Retry-After header (see Delays)                       *)
(***************************************************************************)
EXTENDS Naturals

Outcome == {"success", "not_applied", "unknown", "fatal"}

\* The outcomes after which the loop may try again.
Retryable == {"not_applied", "unknown"}

\* What can be found in the error chain of a failed round trip. "other" stands
\* for resets, EOF, deadlines: everything DefaultClassify does not look for.
ErrTraits == {"cert", "canceled", "dns_not_found", "dns", "dial", "other"}

HasErr(r) == r.err # {}
HasResp(r) == r.status # 0

DefaultClassify(r) ==
  IF HasErr(r)
  THEN IF r.err \cap {"cert", "canceled", "dns_not_found"} # {} THEN "fatal"
       ELSE IF r.err \cap {"dns", "dial"} # {} THEN "not_applied"
       ELSE "unknown"
  ELSE IF r.status < 400 THEN "success"
       ELSE IF r.status \in {408, 425, 429, 503} THEN "not_applied"
       ELSE IF r.status \in {501, 505} THEN "fatal"
       ELSE IF r.status >= 500 THEN "unknown"
       ELSE "fatal"

\* Does a finished attempt count against the health of the downstream?
DefaultIsFailure(r) ==
  IF HasErr(r) THEN "canceled" \notin r.err ELSE r.status \in {502, 503, 504}

\* The methods a.ReplaySafe() accepts without a declaration by a hook.
SafeMethods == {"", "GET", "HEAD", "OPTIONS", "TRACE", "PUT", "DELETE"}

ReplaySafe(idempotent, method) == idempotent \/ method \in SafeMethods

\* The sentinel errors giveUp is called with ("none": giveUp was not called).
Reasons == {"none", "exhausted", "unsafe", "body", "budget", "retry_after", "unhealthy"}

ResultForReason(reason) ==
  CASE reason = "unsafe"      -> "unsafe_to_retry"
    [] reason = "body"        -> "body_not_replayable"
    [] reason = "budget"      -> "budget_exhausted"
    [] reason = "retry_after" -> "retry_after_too_long"
    [] reason = "unhealthy"   -> "downstream_unhealthy"
    [] OTHER                  -> "exhausted"

GiveUpResults == {"exhausted", "unsafe_to_retry", "body_not_replayable",
                  "budget_exhausted", "retry_after_too_long", "downstream_unhealthy"}

\* Every final result label of a logical call ("none": not finished).
Results == GiveUpResults \cup
  {"none", "success", "non_retryable", "reconciled", "fallback", "short_circuit",
   "hook_aborted", "canceled", "body_error", "panic"}
===============================================================================
