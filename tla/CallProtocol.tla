----------------------------- MODULE CallProtocol -----------------------------
(***************************************************************************)
(* What RoundTrip promises its caller and its observers, without bodies,    *)
(* hooks, gates, budgets or waits: a request goes out again only while the  *)
(* last outcome permits it and attempts are left, every request sent is     *)
(* told (EventAttempt) before the next one, and the call ends once, with a  *)
(* result that the last outcome justifies.  Transport implements this       *)
(* module; Observers listens to it.                                         *)
(***************************************************************************)
EXTENDS Outcomes

CONSTANT Calls

VARIABLES
  stage,   \* idle, open (deciding or waiting), flying (a request is out), done
  limit,   \* WithMaxAttempts
  sent,    \* Call.attempts
  told,    \* EventAttempts emitted
  last,    \* the outcome the last After phase left, or "none"
  result   \* the final Result label, or "none"

callVars == <<stage, limit, sent, told, last, result>>

Init ==
  /\ limit \in [Calls -> Nat \ {0}]
  /\ stage = [c \in Calls |-> "idle"]
  /\ sent = [c \in Calls |-> 0] /\ told = [c \in Calls |-> 0]
  /\ last = [c \in Calls |-> "none"] /\ result = [c \in Calls |-> "none"]

\* The call has sent nothing yet, or the outcome permits another try.
MayProceed(c) == last[c] \in Retryable \cup {"none"}

\* As well, attempts are left.
MaySend(c) == MayProceed(c) /\ sent[c] < limit[c]

Begin(c) ==
  /\ stage[c] = "idle"
  /\ stage' = [stage EXCEPT ![c] = "open"]
  /\ UNCHANGED <<limit, sent, told, last, result>>

Transmit(c) ==
  /\ stage[c] = "open"
  /\ MaySend(c)
  /\ stage' = [stage EXCEPT ![c] = "flying"]
  /\ sent' = [sent EXCEPT ![c] = @ + 1]
  /\ UNCHANGED <<limit, told, last, result>>

\* The request was answered, classified and seen by the After hooks.
Tell(c, o) ==
  /\ stage[c] = "flying"
  /\ stage' = [stage EXCEPT ![c] = "open"]
  /\ told' = [told EXCEPT ![c] = @ + 1]
  /\ last' = [last EXCEPT ![c] = o]
  /\ UNCHANGED <<limit, sent, result>>

\* The round trip failed because the caller has gone: told, not classified.
Abandon(c) ==
  /\ stage[c] = "flying"
  /\ stage' = [stage EXCEPT ![c] = "done"]
  /\ told' = [told EXCEPT ![c] = @ + 1]
  /\ result' = [result EXCEPT ![c] = "canceled"]
  /\ UNCHANGED <<limit, sent, last>>

\* The results a call may end with.
Justified(c) ==
  {"hook_aborted", "short_circuit"}
    \cup (IF last[c] = "success" THEN {"success"} ELSE {})
    \cup (IF last[c] = "fatal" THEN {"non_retryable"} ELSE {})
    \cup (IF MayProceed(c) THEN {"fallback"} ELSE {})
    \cup (IF last[c] \in Retryable /\ sent[c] = limit[c] THEN {"exhausted"} ELSE {})
    \cup (IF MaySend(c) THEN {"downstream_unhealthy", "canceled", "body_error"} ELSE {})
    \cup (IF MaySend(c) /\ last[c] # "none"
          THEN {"body_not_replayable", "budget_exhausted", "retry_after_too_long"} ELSE {})
    \cup (IF MaySend(c) /\ last[c] = "unknown" THEN {"unsafe_to_retry", "reconciled"} ELSE {})

End(c, r) ==
  /\ stage[c] = "open"
  /\ r \in Justified(c)
  /\ stage' = [stage EXCEPT ![c] = "done"]
  /\ result' = [result EXCEPT ![c] = r]
  /\ UNCHANGED <<limit, sent, told, last>>

\* User code panicked; a request that was out is not told.
Crash(c) ==
  /\ stage[c] \in {"open", "flying"}
  /\ stage' = [stage EXCEPT ![c] = "done"]
  /\ result' = [result EXCEPT ![c] = "panic"]
  /\ UNCHANGED <<limit, sent, told, last>>

Next ==
  \E c \in Calls :
    \/ Begin(c) \/ Transmit(c) \/ Abandon(c) \/ Crash(c)
    \/ \E o \in Outcome : Tell(c, o)
    \/ \E r \in Results : End(c, r)

Spec == Init /\ [][Next]_callVars
===============================================================================
