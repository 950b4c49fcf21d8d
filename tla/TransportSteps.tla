---------------------------- MODULE TransportSteps ----------------------------
(***************************************************************************)
(* What each action of Transport does to the call that takes it, one field  *)
(* at a time, and that it leaves every other call alone.  The proofs of the *)
(* engine's invariants use only these lemmas, so that each of their cases   *)
(* is about the handful of scalars of a single call.                        *)
(***************************************************************************)
EXTENDS TransportProofs

-----------------------------------------------------------------------------
(* Effects on one call.                                                     *)

CallIs(c, history, idempotent, attempts) ==
  /\ call'[c].history = history
  /\ call'[c].idempotent = idempotent
  /\ call'[c].attempts = attempts

AttIs(c, n, reply, outcome, done, verdict) ==
  /\ att'[c].n = n
  /\ att'[c].reply = reply
  /\ att'[c].outcome = outcome
  /\ att'[c].done = done
  /\ att'[c].verdict = verdict

RetIs(c, reason, result, kind) ==
  /\ ret'[c].reason = reason
  /\ ret'[c].result = result
  /\ ret'[c].kind = kind

HeldIs(c, owned, closed) == log'[c].owned = owned /\ log'[c].closed = closed
ToldIs(c, probed, paid, events) ==
  log'[c].probed = probed /\ log'[c].paid = paid /\ log'[c].events = events

\* A new outage resets the leaks of every call.
LeaksAfter(c) == IF gate = "healthy" /\ gate' = "unhealthy" THEN 0 ELSE log[c].leaks

SeenIs(c, fresh) == log'[c].fresh = fresh /\ log'[c].leaks = LeaksAfter(c)

SameCall(c) == CallIs(c, call[c].history, call[c].idempotent, call[c].attempts)
SameAtt(c) ==
  AttIs(c, att[c].n, att[c].reply, att[c].outcome, att[c].done, att[c].verdict)
SameRet(c) == RetIs(c, ret[c].reason, ret[c].result, ret[c].kind)
SameHeld(c) == HeldIs(c, log[c].owned, log[c].closed)
SameTold(c) == ToldIs(c, log[c].probed, log[c].paid, log[c].events)
SameLog(c) == SameHeld(c) /\ SameTold(c) /\ SeenIs(c, log[c].fresh)
SameWait(c) == wait'[c] = wait[c]
SameEffects(c) == applied'[c] = applied[c] /\ late'[c] = late[c]

\* A call none of whose state changes, though a new outage may begin.
Untouched(c) ==
  /\ pc'[c] = pc[c]
  /\ SameCall(c) /\ SameAtt(c) /\ SameWait(c) /\ SameRet(c) /\ SameLog(c) /\ SameEffects(c)

\* The configurations and requests stay, and so do all calls but c.
Alone(c) ==
  /\ cfg' = cfg /\ req' = req
  /\ \A d \in Calls : d # c => Untouched(d)

\* The call moves from one label to another; nobody is counted in or out.
Moves(c, from, to) ==
  pc[c] = from /\ pc'[c] = to /\ inFlight' = inFlight /\ gate' = gate

\* The call returns.
Returns(c, result, kind) ==
  /\ pc'[c] = "done"
  /\ RetIs(c, ret[c].reason, result, kind)
  /\ inFlight' = inFlight - 1
  /\ gate' = gate

\* The attempt is settled: drained and closed, or handed back as it is.
Settled(c, kept) ==
  /\ AttIs(c, att[c].n, att[c].reply, att[c].outcome, TRUE, att[c].verdict)
  /\ HeldIs(c, IF att[c].done /\ ~kept THEN log[c].owned ELSE log[c].owned \ {att[c].n},
               IF att[c].done \/ kept \/ ~HasResp(att[c].reply)
               THEN log[c].closed ELSE log[c].closed \cup {att[c].n})
  /\ SameTold(c)
  /\ SeenIs(c, log[c].fresh)

\* The call gives up on its next attempt for the given reason.
Rejects(c, from, reason) ==
  /\ Moves(c, from, "giveup")
  /\ RetIs(c, reason, ret[c].result, ret[c].kind)

\* A hook that said v ends the call, with its own label or as aborted; a response
\* is only handed back while it has not been drained.
Finishes(c, v, ok) ==
  \E result \in {ok, "hook_aborted"}, kind \in {"response", "hook", "error"} :
    /\ Returns(c, result, kind)
    /\ Settled(c, kind = "response")
    /\ kind = "response" => ~att[c].done
    /\ result = "hook_aborted" \/ v \in {"succeed_own", "succeed_other"}

\* The attempt's response is handed back, or its error.
Delivers(c, result) ==
  \E kept \in BOOLEAN :
    /\ kept = ~HasErr(att[c].reply)
    /\ Returns(c, result, IF kept THEN "response" ELSE "error")
    /\ Settled(c, kept)

-----------------------------------------------------------------------------
(* Values of one call.                                                      *)

\* The fields of a call's state have the types TypeOK gives them.
LEMMA FieldTypes ==
  ASSUME TypeOK, NEW c \in Calls
  PROVE  /\ pc[c] \in Labels
         /\ att[c].n \in Nat /\ att[c].reply \in ReplyType /\ att[c].outcome \in Outcome
         /\ att[c].done \in BOOLEAN /\ att[c].verdict \in Verdicts
         /\ call[c].history \in Seq(Outcome) /\ call[c].attempts \in Nat
         /\ call[c].idempotent \in BOOLEAN
         /\ wait[c].at \in {"start", "retry"} /\ wait[c].delay \in Int
         /\ ret[c].reason \in Reasons /\ ret[c].result \in Results /\ ret[c].kind \in Kinds
         /\ log[c].owned \in SUBSET Nat /\ log[c].closed \in SUBSET Nat
         /\ log[c].probed \in SUBSET Nat /\ log[c].paid \in Nat /\ log[c].events \in Nat
         /\ log[c].fresh \in BOOLEAN /\ log[c].leaks \in Nat
         /\ applied[c] \in SUBSET Nat /\ late[c] \in SUBSET Nat
         /\ gate \in {"healthy", "unhealthy"}
         /\ cfg[c].maxAttempts \in Int /\ cfg[c].gated \in BOOLEAN /\ cfg[c].budgeted \in BOOLEAN
<1>1. att[c] \in AttemptType /\ call[c] \in CallType /\ wait[c] \in WaitType
  BY DEF TypeOK
<1>2. ret[c] \in ReturnType /\ log[c] \in LogType /\ cfg[c] \in OptionType
  BY DEF TypeOK
<1>3. pc[c] \in Labels /\ applied[c] \in SUBSET Nat /\ late[c] \in SUBSET Nat
  BY DEF TypeOK
<1>4. gate \in {"healthy", "unhealthy"}
  BY DEF TypeOK
<1>5. /\ att[c].n \in Nat /\ att[c].reply \in ReplyType /\ att[c].outcome \in Outcome
      /\ att[c].done \in BOOLEAN /\ att[c].verdict \in Verdicts
  BY <1>1 DEF AttemptType
<1>6. /\ call[c].history \in Seq(Outcome) /\ call[c].attempts \in Nat
      /\ call[c].idempotent \in BOOLEAN
  BY <1>1 DEF CallType
<1>7. wait[c].at \in {"start", "retry"} /\ wait[c].delay \in Int
  BY <1>1 DEF WaitType
<1>8. ret[c].reason \in Reasons /\ ret[c].result \in Results /\ ret[c].kind \in Kinds
  BY <1>2 DEF ReturnType, Kinds
<1>9. /\ log[c].owned \in SUBSET Nat /\ log[c].closed \in SUBSET Nat
      /\ log[c].probed \in SUBSET Nat /\ log[c].paid \in Nat /\ log[c].events \in Nat
      /\ log[c].fresh \in BOOLEAN /\ log[c].leaks \in Nat
  BY <1>2 DEF LogType
<1>10. cfg[c].maxAttempts \in Int /\ cfg[c].gated \in BOOLEAN /\ cfg[c].budgeted \in BOOLEAN
  BY <1>2 DEF OptionType
<1> QED
  BY <1>3, <1>4, <1>5, <1>6, <1>7, <1>8, <1>9, <1>10

\* A call whose variables are all unchanged is untouched.
LEMMA FrameUntouched ==
  ASSUME NEW d \in Calls, pc'[d] = pc[d], call'[d] = call[d], att'[d] = att[d],
         wait'[d] = wait[d], ret'[d] = ret[d], log'[d] = log[d], gate' = gate,
         applied'[d] = applied[d], late'[d] = late[d]
  PROVE  Untouched(d)
BY DEF Untouched, SameCall, CallIs, SameAtt, AttIs, SameWait, SameRet, RetIs, SameLog,
       SameHeld, HeldIs, SameTold, ToldIs, SeenIs, LeaksAfter, SameEffects

\* Leaving do() touches the label, the return values and the gauge only.
LEMMA ReturnMove ==
  ASSUME TypeOK, NEW c \in Calls, NEW result, NEW kind, Return(c, result, kind), gate' = gate
  PROVE  /\ Returns(c, result, kind)
         /\ \A d \in Calls : d # c => pc'[d] = pc[d] /\ ret'[d] = ret[d]
<1>1. pc \in [Calls -> Labels] /\ ret \in [Calls -> ReturnType]
  BY DEF TypeOK
<1>2. /\ pc' = [pc EXCEPT ![c] = "done"]
      /\ ret' = [ret EXCEPT ![c].result = result, ![c].kind = kind]
      /\ inFlight' = inFlight - 1
  BY DEF Return, Goto
<1>3. RetIs(c, ret[c].reason, result, kind)
  BY <1>1, <1>2 DEF RetIs, ReturnType
<1> QED
  BY <1>1, <1>2, <1>3 DEF Returns

\* discard settles the attempt, and only the first time.
LEMMA DiscardMove ==
  ASSUME TypeOK, NEW c \in Calls, Discard(c), gate' = gate
  PROVE  /\ Settled(c, FALSE)
         /\ \A d \in Calls : d # c => att'[d] = att[d] /\ log'[d] = log[d]
<1>1. att \in [Calls -> AttemptType] /\ log \in [Calls -> LogType]
  BY DEF TypeOK
<1>2. att' = [att EXCEPT ![c].done = TRUE]
  BY DEF Discard
<1>3. AttIs(c, att[c].n, att[c].reply, att[c].outcome, TRUE, att[c].verdict)
  BY <1>1, <1>2 DEF AttIs, AttemptType
<1>4. CASE att[c].done
  <2>1. log' = log
    BY <1>4 DEF Discard
  <2> QED
    BY <1>1, <1>2, <1>3, <1>4, <2>1
       DEF Settled, HeldIs, SameTold, ToldIs, SeenIs, LeaksAfter
<1>5. CASE ~att[c].done
  <2> DEFINE o == log[c].owned \ {att[c].n}
             x == IF HasResp(att[c].reply)
                  THEN log[c].closed \cup {att[c].n} ELSE log[c].closed
  <2>1. log' = [log EXCEPT ![c].owned = o, ![c].closed = x]
    BY <1>1, <1>5 DEF Discard
  <2> HIDE DEF o, x
  <2>2. /\ log'[c].owned = o /\ log'[c].closed = x
        /\ log'[c].probed = log[c].probed /\ log'[c].paid = log[c].paid
        /\ log'[c].events = log[c].events /\ log'[c].fresh = log[c].fresh
        /\ log'[c].leaks = log[c].leaks
        /\ \A d \in Calls : d # c => log'[d] = log[d]
    BY <1>1, <2>1 DEF LogType
  <2> QED
    BY <1>1, <1>2, <1>3, <1>5, <2>2
       DEF Settled, HeldIs, SameTold, ToldIs, SeenIs, LeaksAfter, o, x
<1> QED
  BY <1>4, <1>5

\* deliver hands back a live response, or settles the attempt and returns its error.
LEMMA DeliverMove ==
  ASSUME TypeOK, NEW c \in Calls, NEW result, Deliver(c, result), gate' = gate
  PROVE  /\ Delivers(c, result)
         /\ \A d \in Calls : d # c =>
              pc'[d] = pc[d] /\ ret'[d] = ret[d] /\ att'[d] = att[d] /\ log'[d] = log[d]
<1>1. CASE HasErr(att[c].reply)
  <2>1. Discard(c) /\ Return(c, result, "error")
    BY <1>1 DEF Deliver
  <2>2. Returns(c, result, "error") /\ Settled(c, FALSE)
    BY <2>1, DiscardMove, ReturnMove
  <2>3. \A d \in Calls : d # c =>
          pc'[d] = pc[d] /\ ret'[d] = ret[d] /\ att'[d] = att[d] /\ log'[d] = log[d]
    BY <2>1, DiscardMove, ReturnMove
  <2> QED
    BY <1>1, <2>2, <2>3 DEF Delivers
<1>2. CASE ~HasErr(att[c].reply)
  <2>1. /\ att' = [att EXCEPT ![c].done = TRUE]
        /\ log' = [log EXCEPT ![c].owned = @ \ {att[c].n}]
        /\ Return(c, result, "response")
    BY <1>2 DEF Deliver
  <2>2. att \in [Calls -> AttemptType] /\ log \in [Calls -> LogType]
    BY DEF TypeOK
  <2>3. AttIs(c, att[c].n, att[c].reply, att[c].outcome, TRUE, att[c].verdict)
    BY <2>1, <2>2 DEF AttIs, AttemptType
  <2>4. /\ log'[c].owned = log[c].owned \ {att[c].n} /\ log'[c].closed = log[c].closed
        /\ log'[c].probed = log[c].probed /\ log'[c].paid = log[c].paid
        /\ log'[c].events = log[c].events /\ log'[c].fresh = log[c].fresh
        /\ log'[c].leaks = log[c].leaks
    BY <2>1, <2>2 DEF LogType
  <2>5. Settled(c, TRUE)
    BY <2>3, <2>4 DEF Settled, HeldIs, SameTold, ToldIs, SeenIs, LeaksAfter
  <2>6. \A d \in Calls : d # c =>
          pc'[d] = pc[d] /\ ret'[d] = ret[d] /\ att'[d] = att[d] /\ log'[d] = log[d]
    BY <2>1, <2>2, ReturnMove
  <2>7. Returns(c, result, "response")
    BY <2>1, ReturnMove
  <2> QED
    BY <1>2, <2>5, <2>6, <2>7 DEF Delivers
<1> QED
  BY <1>1, <1>2

\* finish ends the call for every verdict.
LEMMA FinishMove ==
  ASSUME TypeOK, NEW c \in Calls, NEW v, NEW ok, Finish(c, v, ok), gate' = gate
  PROVE  /\ Finishes(c, v, ok)
         /\ \A d \in Calls : d # c =>
              pc'[d] = pc[d] /\ ret'[d] = ret[d] /\ att'[d] = att[d] /\ log'[d] = log[d]
<1>1. CASE v = "succeed_own" /\ ~att[c].done
  <2>1. Deliver(c, ok)
    BY <1>1 DEF Finish
  <2>2. PICK kept \in BOOLEAN : /\ Returns(c, ok, IF kept THEN "response" ELSE "error")
                                /\ Settled(c, kept)
    BY <2>1, DeliverMove DEF Delivers
  <2>3. CASE kept
    BY <1>1, <2>1, <2>2, <2>3, DeliverMove DEF Finishes
  <2>4. CASE ~kept
    BY <1>1, <2>1, <2>2, <2>4, DeliverMove DEF Finishes
  <2> QED
    BY <2>3, <2>4
<1>2. CASE v \in {"succeed_own", "succeed_other"} /\ ~(v = "succeed_own" /\ ~att[c].done)
  <2>1. Discard(c) /\ Return(c, ok, "hook")
    BY <1>2 DEF Finish
  <2>2. Returns(c, ok, "hook") /\ Settled(c, FALSE)
    BY <2>1, DiscardMove, ReturnMove
  <2> QED
    BY <1>2, <2>1, <2>2, DiscardMove, ReturnMove DEF Finishes
<1>3. CASE v \notin {"succeed_own", "succeed_other"}
  <2>1. Discard(c) /\ Return(c, "hook_aborted", "error")
    BY <1>3 DEF Finish
  <2>2. Returns(c, "hook_aborted", "error") /\ Settled(c, FALSE)
    BY <2>1, DiscardMove, ReturnMove
  <2> QED
    BY <2>1, <2>2, DiscardMove, ReturnMove DEF Finishes
<1> QED
  BY <1>1, <1>2, <1>3

\* What a variable that does not change means for one call.
LEMMA Keeps ==
  ASSUME NEW c \in Calls
  PROVE  /\ call' = call => SameCall(c)
         /\ att' = att => SameAtt(c)
         /\ wait' = wait => SameWait(c)
         /\ ret' = ret => SameRet(c)
         /\ log' = log /\ gate' = gate => SameLog(c)
         /\ applied' = applied /\ late' = late => SameEffects(c)
BY DEF SameCall, CallIs, SameAtt, AttIs, SameWait, SameRet, RetIs, SameLog, SameHeld, HeldIs,
       SameTold, ToldIs, SeenIs, LeaksAfter, SameEffects

\* A step that changes the variables of one call only leaves the others alone.
LEMMA AloneFrom ==
  ASSUME NEW c \in Calls, cfg' = cfg, req' = req, gate' = gate,
         \A d \in Calls : d # c =>
           /\ pc'[d] = pc[d] /\ call'[d] = call[d] /\ att'[d] = att[d]
           /\ wait'[d] = wait[d] /\ ret'[d] = ret[d] /\ log'[d] = log[d]
           /\ applied'[d] = applied[d] /\ late'[d] = late[d]
  PROVE  Alone(c)
BY FrameUntouched DEF Alone

-----------------------------------------------------------------------------
(* The call before its first attempt.                                       *)

\* A call enters RoundTrip.
StartEffect(c) ==
  /\ pc[c] = "idle" /\ pc'[c] = "body" /\ inFlight' = inFlight + 1 /\ gate' = gate
  /\ SameCall(c) /\ SameAtt(c) /\ SameWait(c) /\ SameRet(c) /\ SameLog(c)
  /\ SameEffects(c)

\* Start has this effect, on its own call only.
LEMMA StartMove ==
  ASSUME TypeOK, NEW c \in Calls, Start(c)
  PROVE  Alone(c) /\ StartEffect(c)
<1> USE DEF StartEffect
<1>1. pc \in [Calls -> Labels]
  BY DEF TypeOK
<1>2. Alone(c)
  BY <1>1, AloneFrom DEF Start, Goto, static, server
<1> QED
  BY <1>1, <1>2, Keeps DEF Start, Goto, server

\* The body is ready, or the call ends.
PrepareBodyEffect(c) ==
  /\ pc[c] = "body"
  /\ \/ Returns(c, "body_error", "error")
     \/ Moves(c, "body", "attempt") /\ SameRet(c)
  /\ SameCall(c) /\ SameAtt(c) /\ SameWait(c) /\ SameLog(c) /\ SameEffects(c)

\* PrepareBody has this effect, on its own call only.
LEMMA PrepareBodyMove ==
  ASSUME TypeOK, NEW c \in Calls, PrepareBody(c)
  PROVE  Alone(c) /\ PrepareBodyEffect(c)
<1> USE DEF PrepareBodyEffect
<1>1. pc \in [Calls -> Labels] /\ call \in [Calls -> CallType]
  BY DEF TypeOK
<1>2. SameCall(c) /\ \A d \in Calls : d # c => call'[d] = call[d]
  <2>1. \/ call' = call
        \/ \E b : call' = [call EXCEPT ![c].replayable = (b # "once"),
                                       ![c].getBody = (b = "getbody")]
    BY DEF PrepareBody
  <2>2. ASSUME NEW i, NEW j, call' = [call EXCEPT ![c].replayable = i, ![c].getBody = j]
        PROVE  SameCall(c) /\ \A d \in Calls : d # c => call'[d] = call[d]
    BY <1>1, <2>2 DEF SameCall, CallIs, CallType
  <2> QED
    BY <2>1, <2>2, Keeps
<1>3. SameAtt(c) /\ SameWait(c) /\ SameLog(c) /\ SameEffects(c) /\ gate' = gate
  BY Keeps DEF PrepareBody, server
<1>4. CASE Return(c, "body_error", "error")
  <2>1. Returns(c, "body_error", "error")
    BY <1>3, <1>4, ReturnMove
  <2>2. Alone(c)
    BY <1>2, <1>3, <1>4, AloneFrom, ReturnMove DEF PrepareBody, static, server
  <2> QED
    BY <1>2, <1>3, <2>1, <2>2 DEF PrepareBody
<1>5. CASE Goto(c, "attempt") /\ UNCHANGED <<ret, inFlight>>
  <2>1. Alone(c)
    BY <1>1, <1>2, <1>3, <1>5, AloneFrom DEF PrepareBody, Goto, static, server
  <2> QED
    BY <1>1, <1>2, <1>3, <1>5, <2>1, Keeps DEF PrepareBody, Goto, Moves
<1> QED
  BY <1>4, <1>5 DEF PrepareBody

\* A new attempt is built.
BeginAttemptEffect(c) ==
  /\ Moves(c, "attempt", IF att[c].n + 1 = 1 THEN "gate" ELSE "before")
  /\ AttIs(c, att[c].n + 1, NoReply, "success", FALSE, "continue")
  /\ SameCall(c) /\ SameWait(c) /\ SameRet(c) /\ SameLog(c) /\ SameEffects(c)

\* BeginAttempt has this effect, on its own call only.
LEMMA BeginAttemptMove ==
  ASSUME TypeOK, NEW c \in Calls, BeginAttempt(c)
  PROVE  Alone(c) /\ BeginAttemptEffect(c)
<1> USE DEF BeginAttemptEffect
<1>1. pc \in [Calls -> Labels] /\ att \in [Calls -> AttemptType]
  BY DEF TypeOK
<1>2. AttIs(c, att[c].n + 1, NoReply, "success", FALSE, "continue")
  BY <1>1 DEF BeginAttempt, AttIs, NewAttempt
<1>3. Alone(c)
  BY <1>1, AloneFrom DEF BeginAttempt, Goto, static, server
<1>4. Moves(c, "attempt", IF att[c].n + 1 = 1 THEN "gate" ELSE "before")
  BY <1>1 DEF BeginAttempt, Goto, Moves
<1> QED
  BY <1>2, <1>3, <1>4, Keeps DEF BeginAttempt, server

\* GetBody fails.
GetBodyFailsEffect(c) ==
  /\ pc[c] = "attempt" /\ Returns(c, "body_error", "error")
  /\ SameCall(c) /\ SameAtt(c) /\ SameWait(c) /\ SameLog(c) /\ SameEffects(c)

\* GetBodyFails has this effect, on its own call only.
LEMMA GetBodyFailsMove ==
  ASSUME TypeOK, NEW c \in Calls, GetBodyFails(c)
  PROVE  Alone(c) /\ GetBodyFailsEffect(c)
<1> USE DEF GetBodyFailsEffect
<1>1. Returns(c, "body_error", "error")
  BY ReturnMove DEF GetBodyFails
<1>2. Alone(c)
  BY AloneFrom, ReturnMove DEF GetBodyFails, static, server
<1> QED
  BY <1>1, <1>2, Keeps DEF GetBodyFails, server

-----------------------------------------------------------------------------
(* The health gate.                                                         *)

\* awaitHealth's entry rejects the call or begins to wait.
LEMMA AwaitOrRejectMove ==
  ASSUME TypeOK, NEW c \in Calls, NEW maxWait, NEW at, NEW from, pc[c] = from,
         AwaitOrReject(c, maxWait, at), gate' = gate, inFlight' = inFlight
  PROVE  /\ \/ Rejects(c, from, "unhealthy") /\ SameWait(c)
            \/ Moves(c, from, "await") /\ wait'[c].at = at /\ SameRet(c)
         /\ \A d \in Calls : d # c => pc'[d] = pc[d] /\ ret'[d] = ret[d] /\ wait'[d] = wait[d]
<1>1. /\ pc \in [Calls -> Labels] /\ ret \in [Calls -> ReturnType]
      /\ wait \in [Calls -> WaitType]
  BY DEF TypeOK
<1>2. CASE maxWait <= 0
  <2>1. /\ pc' = [pc EXCEPT ![c] = "giveup"]
        /\ ret' = [ret EXCEPT ![c].reason = "unhealthy"] /\ wait' = wait
    BY <1>2 DEF AwaitOrReject, Goto
  <2>2. RetIs(c, "unhealthy", ret[c].result, ret[c].kind)
    BY <1>1, <2>1 DEF RetIs, ReturnType
  <2> QED
    BY <1>1, <2>1, <2>2 DEF Rejects, Moves, SameWait
<1>3. CASE ~(maxWait <= 0)
  <2>1. /\ pc' = [pc EXCEPT ![c] = "await"]
        /\ wait' = [wait EXCEPT ![c].at = at] /\ ret' = ret
    BY <1>3 DEF AwaitOrReject, Goto
  <2>2. wait'[c].at = at
    BY <1>1, <2>1 DEF WaitType
  <2> QED
    BY <1>1, <2>1, <2>2, Keeps DEF Moves
<1> QED
  BY <1>2, <1>3

\* A healthy reading is remembered.
LEMMA SeenHealthyMove ==
  ASSUME TypeOK, NEW c \in Calls, SeenHealthy(c), gate' = gate
  PROVE  /\ SameHeld(c) /\ SameTold(c) /\ SeenIs(c, TRUE)
         /\ \A d \in Calls : d # c => log'[d] = log[d]
<1>1. log \in [Calls -> LogType] /\ log' = [log EXCEPT ![c].fresh = TRUE]
  BY DEF TypeOK, SeenHealthy
<1> QED
  BY <1>1 DEF LogType, SameHeld, HeldIs, SameTold, ToldIs, SeenIs, LeaksAfter

\* The gate at the start of the call.
GateAtStartEffect(c) ==
  /\ pc[c] = "gate"
  /\ \/ Rejects(c, "gate", "unhealthy") /\ SameWait(c) /\ SameLog(c)
        /\ cfg[c].gated
     \/ Moves(c, "gate", "await") /\ wait'[c].at = "start" /\ SameRet(c)
        /\ SameLog(c) /\ cfg[c].gated
     \/ Moves(c, "gate", "before") /\ SameWait(c) /\ SameRet(c)
        /\ SameHeld(c) /\ SameTold(c) /\ SeenIs(c, TRUE)
        /\ ~(cfg[c].gated /\ gate = "unhealthy")
  /\ SameCall(c) /\ SameAtt(c) /\ SameEffects(c)

\* GateAtStart has this effect, on its own call only.
LEMMA GateAtStartMove ==
  ASSUME TypeOK, NEW c \in Calls, GateAtStart(c)
  PROVE  Alone(c) /\ GateAtStartEffect(c)
<1> USE DEF GateAtStartEffect
<1>1. pc \in [Calls -> Labels]
  BY DEF TypeOK
<1>2. /\ SameCall(c) /\ SameAtt(c) /\ SameEffects(c)
      /\ gate' = gate /\ inFlight' = inFlight /\ pc[c] = "gate"
  BY Keeps DEF GateAtStart, server
<1>3. CASE cfg[c].gated /\ gate = "unhealthy"
  <2>1. AwaitOrReject(c, cfg[c].startWait, "start") /\ log' = log
    BY <1>3 DEF GateAtStart
  <2>2. Alone(c)
    BY <1>2, <2>1, AloneFrom, AwaitOrRejectMove DEF GateAtStart, static, server
  <2>3. \/ Rejects(c, "gate", "unhealthy") /\ SameWait(c)
        \/ Moves(c, "gate", "await") /\ wait'[c].at = "start" /\ SameRet(c)
    BY <1>2, <2>1, AwaitOrRejectMove
  <2> QED
    BY <1>2, <1>3, <2>1, <2>2, <2>3, Keeps
<1>4. CASE ~(cfg[c].gated /\ gate = "unhealthy")
  <2>1. Goto(c, "before") /\ SeenHealthy(c) /\ UNCHANGED <<ret, wait>>
    BY <1>4 DEF GateAtStart
  <2>2. Alone(c)
    BY <1>1, <1>2, <2>1, AloneFrom, SeenHealthyMove DEF GateAtStart, Goto, static, server
  <2>3. Moves(c, "gate", "before")
    BY <1>1, <1>2, <2>1 DEF Goto, Moves
  <2> QED
    BY <1>2, <1>4, <2>1, <2>2, <2>3, Keeps, SeenHealthyMove
<1> QED
  BY <1>3, <1>4

\* A waiting call sees the gate healthy.
AwaitRecoveredEffect(c) ==
  /\ Moves(c, "await", "jitter") /\ gate = "healthy"
  /\ SameHeld(c) /\ SameTold(c) /\ SeenIs(c, TRUE)
  /\ SameCall(c) /\ SameAtt(c) /\ SameWait(c) /\ SameRet(c) /\ SameEffects(c)

\* AwaitRecovered has this effect, on its own call only.
LEMMA AwaitRecoveredMove ==
  ASSUME TypeOK, NEW c \in Calls, AwaitRecovered(c)
  PROVE  Alone(c) /\ AwaitRecoveredEffect(c)
<1> USE DEF AwaitRecoveredEffect
<1>1. pc \in [Calls -> Labels]
  BY DEF TypeOK
<1>2. Alone(c)
  BY <1>1, AloneFrom, SeenHealthyMove DEF AwaitRecovered, Goto, static, server
<1>3. Moves(c, "await", "jitter")
  BY <1>1 DEF AwaitRecovered, Goto, Moves
<1> QED
  BY <1>2, <1>3, Keeps, SeenHealthyMove DEF AwaitRecovered, server

\* A waiting call runs out of time.
AwaitTimeoutEffect(c) ==
  /\ Rejects(c, "await", "unhealthy")
  /\ SameCall(c) /\ SameAtt(c) /\ SameWait(c) /\ SameLog(c) /\ SameEffects(c)

\* AwaitTimeout has this effect, on its own call only.
LEMMA AwaitTimeoutMove ==
  ASSUME TypeOK, NEW c \in Calls, AwaitTimeout(c)
  PROVE  Alone(c) /\ AwaitTimeoutEffect(c)
<1> USE DEF AwaitTimeoutEffect
<1>1. pc \in [Calls -> Labels] /\ ret \in [Calls -> ReturnType]
  BY DEF TypeOK
<1>2. Alone(c)
  BY <1>1, AloneFrom DEF AwaitTimeout, Goto, static, server
<1>3. RetIs(c, "unhealthy", ret[c].result, ret[c].kind)
  BY <1>1 DEF AwaitTimeout, RetIs, ReturnType
<1>4. Moves(c, "await", "giveup")
  BY <1>1 DEF AwaitTimeout, Goto, Moves
<1> QED
  BY <1>2, <1>3, <1>4, Keeps DEF AwaitTimeout, Rejects, server

\* The caller goes away while its call waits.
AwaitCanceledEffect(c) ==
  /\ pc[c] \in {"await", "jitter"}
  /\ Returns(c, "canceled", "error") /\ Settled(c, FALSE)
  /\ SameCall(c) /\ SameWait(c) /\ SameEffects(c)

\* AwaitCanceled has this effect, on its own call only.
LEMMA AwaitCanceledMove ==
  ASSUME TypeOK, NEW c \in Calls, AwaitCanceled(c)
  PROVE  Alone(c) /\ AwaitCanceledEffect(c)
<1> USE DEF AwaitCanceledEffect
<1>1. Returns(c, "canceled", "error") /\ Settled(c, FALSE)
  BY ReturnMove, DiscardMove DEF AwaitCanceled
<1>2. Alone(c)
  BY AloneFrom, ReturnMove, DiscardMove DEF AwaitCanceled, static, server
<1> QED
  BY <1>1, <1>2, Keeps DEF AwaitCanceled, server

\* The release jitter ends.
JitterDoneEffect(c) ==
  /\ Moves(c, "jitter", IF wait[c].at = "start" THEN "before" ELSE "reconcile")
  /\ SameCall(c) /\ SameAtt(c) /\ SameWait(c) /\ SameRet(c) /\ SameLog(c)
  /\ SameEffects(c)

\* JitterDone has this effect, on its own call only.
LEMMA JitterDoneMove ==
  ASSUME TypeOK, NEW c \in Calls, JitterDone(c)
  PROVE  Alone(c) /\ JitterDoneEffect(c)
<1> USE DEF JitterDoneEffect
<1>1. pc \in [Calls -> Labels]
  BY DEF TypeOK
<1>2. Alone(c)
  BY <1>1, AloneFrom DEF JitterDone, Goto, static, server
<1> QED
  BY <1>1, <1>2, Keeps DEF JitterDone, Goto, Moves, server

-----------------------------------------------------------------------------
(* One attempt.                                                             *)

\* The Before phase: the call may become idempotent, never the reverse.
BeforeHooksEffect(c) ==
  /\ pc[c] = "before"
  /\ \/ Moves(c, "before", "send") /\ SameAtt(c) /\ SameRet(c) /\ SameLog(c)
     \/ \E v : Finishes(c, v, "short_circuit")
  /\ CallIs(c, call[c].history, call[c].idempotent \/ cfg[c].key = "per_call",
            call[c].attempts)
  /\ SameWait(c) /\ SameEffects(c)

\* BeforeHooks has this effect, on its own call only.
LEMMA BeforeHooksMove ==
  ASSUME TypeOK, NEW c \in Calls, BeforeHooks(c)
  PROVE  Alone(c) /\ BeforeHooksEffect(c)
<1> USE DEF BeforeHooksEffect
<1>1. pc \in [Calls -> Labels] /\ call \in [Calls -> CallType]
  BY DEF TypeOK
<1>2. SameWait(c) /\ SameEffects(c) /\ gate' = gate
  BY Keeps DEF BeforeHooks, server
<1>3. /\ CallIs(c, call[c].history, call[c].idempotent \/ cfg[c].key = "per_call",
                call[c].attempts)
      /\ \A d \in Calls : d # c => call'[d] = call[d]
  BY <1>1 DEF BeforeHooks, CallIs, CallType
<1>4. CASE Goto(c, "send") /\ UNCHANGED <<att, log, ret, inFlight>>
  <2>1. Alone(c)
    BY <1>1, <1>2, <1>3, <1>4, AloneFrom DEF BeforeHooks, Goto, static, server
  <2>2. Moves(c, "before", "send")
    BY <1>1, <1>2, <1>4 DEF BeforeHooks, Goto, Moves
  <2> QED
    BY <1>2, <1>3, <1>4, <2>1, <2>2, Keeps DEF BeforeHooks
<1>5. ASSUME NEW v, Finish(c, v, "short_circuit")
      PROVE  Alone(c) /\ Finishes(c, v, "short_circuit")
  BY <1>2, <1>3, <1>5, AloneFrom, FinishMove DEF BeforeHooks, static, server
<1> QED
  BY <1>2, <1>3, <1>4, <1>5 DEF BeforeHooks

\* The request goes out.
SendEffect(c) ==
  /\ Moves(c, "send", "inflight")
  /\ CallIs(c, call[c].history, call[c].idempotent, call[c].attempts + 1)
  /\ HeldIs(c, log[c].owned \cup {att[c].n}, log[c].closed) /\ SameTold(c)
  /\ log'[c].fresh = log[c].fresh
  /\ log'[c].leaks = IF cfg[c].gated /\ gate = "unhealthy"
                     THEN log[c].leaks + 1 ELSE log[c].leaks
  /\ SameAtt(c) /\ SameWait(c) /\ SameRet(c) /\ SameEffects(c)

\* Send has this effect, on its own call only.
LEMMA SendMove ==
  ASSUME TypeOK, NEW c \in Calls, Send(c)
  PROVE  Alone(c) /\ SendEffect(c)
<1> USE DEF SendEffect
<1>1. pc \in [Calls -> Labels] /\ call \in [Calls -> CallType] /\ log \in [Calls -> LogType]
  BY DEF TypeOK
<1>2. /\ CallIs(c, call[c].history, call[c].idempotent, call[c].attempts + 1)
      /\ \A d \in Calls : d # c => call'[d] = call[d]
  BY <1>1 DEF Send, CallIs, CallType
<1> DEFINE out == IF cfg[c].gated /\ gate = "unhealthy" THEN log[c].leaks + 1 ELSE log[c].leaks
           own == log[c].owned \cup {att[c].n}
<1>3. log' = [log EXCEPT ![c].owned = own, ![c].leaks = out]
  BY <1>1 DEF Send
<1> HIDE DEF out, own
<1>4. /\ HeldIs(c, own, log[c].closed) /\ SameTold(c)
      /\ log'[c].fresh = log[c].fresh /\ log'[c].leaks = out
      /\ \A d \in Calls : d # c => log'[d] = log[d]
  BY <1>1, <1>3 DEF HeldIs, SameTold, ToldIs, LogType
<1>5. Moves(c, "send", "inflight") /\ \A d \in Calls : d # c => pc'[d] = pc[d]
  BY <1>1 DEF Send, Goto, Moves
<1>6. Alone(c)
  BY <1>2, <1>4, <1>5, AloneFrom DEF Send, static, server
<1> QED
  BY <1>2, <1>4, <1>5, <1>6, Keeps DEF Send, server, own, out

\* What the downstream may have done with a request of c by the time it answered r.
Performed(c, r) ==
  \E e \in Effects(r) :
    /\ applied'[c] = IF e = "applied" THEN applied[c] \cup {OpId(c)} ELSE applied[c]
    /\ late'[c] = IF e = "late" THEN late[c] \cup {OpId(c)} ELSE late[c]

\* Only the operations of the call that was answered change.
LEMMA PerformMove ==
  ASSUME TypeOK, NEW c \in Calls, NEW r, NEW e \in Effects(r), Perform(c, e)
  PROVE  /\ Performed(c, r)
         /\ \A d \in Calls : d # c => applied'[d] = applied[d] /\ late'[d] = late[d]
<1>1. applied \in [Calls -> SUBSET Nat] /\ late \in [Calls -> SUBSET Nat]
  BY DEF TypeOK
<1>2. /\ applied'[c] = IF e = "applied" THEN applied[c] \cup {OpId(c)} ELSE applied[c]
      /\ late'[c] = IF e = "late" THEN late[c] \cup {OpId(c)} ELSE late[c]
  BY <1>1 DEF Perform
<1>3. Performed(c, r)
  BY <1>2 DEF Performed
<1>4. \A d \in Calls : d # c => applied'[d] = applied[d] /\ late'[d] = late[d]
  BY <1>1 DEF Perform
<1> QED
  BY <1>3, <1>4

\* The round trip failed and the caller has gone.
AbandonedEffect(c) ==
  /\ pc[c] = "inflight" /\ Returns(c, "canceled", "error")
  /\ \E r \in Replies : AttIs(c, att[c].n, r, "fatal", TRUE, att[c].verdict)
                        /\ Performed(c, r)
  /\ HeldIs(c, log[c].owned \ {att[c].n}, log[c].closed)
  /\ ToldIs(c, log[c].probed, log[c].paid, log[c].events + 1)
  /\ SeenIs(c, log[c].fresh)
  /\ SameCall(c) /\ SameWait(c)

\* Abandoned has this effect, on its own call only.
LEMMA AbandonedMove ==
  ASSUME TypeOK, NEW c \in Calls, Abandoned(c)
  PROVE  Alone(c) /\ AbandonedEffect(c)
<1> USE DEF AbandonedEffect
<1>1. att \in [Calls -> AttemptType] /\ log \in [Calls -> LogType]
  BY DEF TypeOK
<1>2. PICK r \in Replies : \E e \in Effects(r) :
        /\ Perform(c, e)
        /\ att' = [att EXCEPT ![c].reply = r, ![c].outcome = "fatal", ![c].done = TRUE]
  BY DEF Abandoned
<1>3. /\ AttIs(c, att[c].n, r, "fatal", TRUE, att[c].verdict)
      /\ \A d \in Calls : d # c => att'[d] = att[d]
  <2>1. att' = [att EXCEPT ![c].reply = r, ![c].outcome = "fatal", ![c].done = TRUE]
    BY <1>2
  <2> QED
    BY <1>1, <2>1 DEF AttIs, AttemptType
<1>4. /\ Performed(c, r)
      /\ \A d \in Calls : d # c => applied'[d] = applied[d] /\ late'[d] = late[d]
  BY <1>2, PerformMove
<1>5. /\ HeldIs(c, log[c].owned \ {att[c].n}, log[c].closed)
      /\ ToldIs(c, log[c].probed, log[c].paid, log[c].events + 1)
      /\ SeenIs(c, log[c].fresh)
      /\ \A d \in Calls : d # c => log'[d] = log[d]
  BY <1>1 DEF Abandoned, HeldIs, ToldIs, SeenIs, LeaksAfter, LogType
<1>6. /\ Returns(c, "canceled", "error")
      /\ \A d \in Calls : d # c => pc'[d] = pc[d] /\ ret'[d] = ret[d]
  BY ReturnMove DEF Abandoned
<1>7. Alone(c)
  BY <1>3, <1>4, <1>5, <1>6, AloneFrom DEF Abandoned, static
<1> QED
  BY <1>3, <1>4, <1>5, <1>6, <1>7, Keeps DEF Abandoned

\* A new outage changes nothing in a call's history variables but its leaks.
LEMMA CountOutagesMove ==
  ASSUME TypeOK, CountOutages, NEW d \in Calls
  PROVE  SameLog(d)
<1>1. log \in [Calls -> LogType]
  BY DEF TypeOK
<1>2. CASE gate = "healthy" /\ gate' = "unhealthy"
  <2>1. log'[d] = [log[d] EXCEPT !.leaks = 0]
    BY <1>1, <1>2 DEF CountOutages
  <2>2. /\ log'[d].leaks = 0 /\ log'[d].owned = log[d].owned /\ log'[d].closed = log[d].closed
        /\ log'[d].probed = log[d].probed /\ log'[d].paid = log[d].paid
        /\ log'[d].events = log[d].events /\ log'[d].fresh = log[d].fresh
    BY <1>1, <2>1 DEF LogType
  <2> QED
    BY <1>2, <2>2 DEF SameLog, SameHeld, HeldIs, SameTold, ToldIs, SeenIs, LeaksAfter
<1>3. CASE ~(gate = "healthy" /\ gate' = "unhealthy")
  BY <1>3 DEF CountOutages, SameLog, SameHeld, HeldIs, SameTold, ToldIs, SeenIs, LeaksAfter
<1> QED
  BY <1>2, <1>3

\* The reply is classified and reported; the report may begin an outage.
ClassifiedEffect(c) ==
  /\ pc[c] = "inflight" /\ pc'[c] = "after" /\ inFlight' = inFlight
  /\ gate' \in {gate, "unhealthy"}
  /\ \E r \in Replies : AttIs(c, att[c].n, r, DefaultClassify(r), att[c].done,
                              att[c].verdict)
                        /\ Performed(c, r)
  /\ SameCall(c) /\ SameWait(c) /\ SameRet(c) /\ SameLog(c)

\* Classified has this effect, on its own call only.
LEMMA ClassifiedMove ==
  ASSUME TypeOK, NEW c \in Calls, Classified(c)
  PROVE  Alone(c) /\ ClassifiedEffect(c)
<1> USE DEF ClassifiedEffect
<1>1. att \in [Calls -> AttemptType] /\ pc \in [Calls -> Labels]
  BY DEF TypeOK
<1>2. PICK r \in Replies : \E e \in Effects(r) :
        /\ Perform(c, e)
        /\ att' = [att EXCEPT ![c].reply = r, ![c].outcome = DefaultClassify(r)]
        /\ gate' \in {gate, "unhealthy"}
  BY DEF Classified
<1>3. /\ AttIs(c, att[c].n, r, DefaultClassify(r), att[c].done, att[c].verdict)
      /\ \A d \in Calls : d # c => att'[d] = att[d]
  <2>1. att' = [att EXCEPT ![c].reply = r, ![c].outcome = DefaultClassify(r)]
    BY <1>2
  <2> QED
    BY <1>1, <2>1 DEF AttIs, AttemptType
<1>4. /\ Performed(c, r)
      /\ \A d \in Calls : d # c => applied'[d] = applied[d] /\ late'[d] = late[d]
  BY <1>2, PerformMove
<1>5. \A d \in Calls : SameLog(d) /\ SameCall(d) /\ SameWait(d) /\ SameRet(d)
  BY CountOutagesMove, Keeps DEF Classified
<1>6. /\ pc[c] = "inflight" /\ pc'[c] = "after" /\ inFlight' = inFlight
      /\ \A d \in Calls : d # c => pc'[d] = pc[d]
  BY <1>1 DEF Classified, Goto
<1>7. \A d \in Calls : d # c => Untouched(d)
  BY <1>3, <1>4, <1>5, <1>6 DEF Untouched, SameAtt, AttIs, SameEffects
<1>8. Alone(c)
  BY <1>7 DEF Alone, Classified, static
<1> QED
  BY <1>2, <1>3, <1>4, <1>5, <1>6, <1>8

\* The After phase: the outcome it leaves is the one the history records.
AfterHooksEffect(c) ==
  /\ Moves(c, "after", "decide")
  /\ \E o \in AfterOutcomes(c), v \in Verdicts :
       /\ AttIs(c, att[c].n, att[c].reply, o, att[c].done, v)
       /\ CallIs(c, Append(call[c].history, o), call[c].idempotent, call[c].attempts)
  /\ ToldIs(c, log[c].probed, log[c].paid, log[c].events + 1)
  /\ SameHeld(c) /\ SeenIs(c, log[c].fresh)
  /\ SameWait(c) /\ SameRet(c) /\ SameEffects(c)

\* AfterHooks has this effect, on its own call only.
LEMMA AfterHooksMove ==
  ASSUME TypeOK, NEW c \in Calls, AfterHooks(c)
  PROVE  Alone(c) /\ AfterHooksEffect(c)
<1> USE DEF AfterHooksEffect
<1>1. /\ att \in [Calls -> AttemptType] /\ call \in [Calls -> CallType]
      /\ log \in [Calls -> LogType] /\ pc \in [Calls -> Labels]
  BY DEF TypeOK
<1>2. PICK o \in AfterOutcomes(c), v \in HookVerdicts(c, cfg[c].after = "custom") :
        /\ att' = [att EXCEPT ![c].outcome = o, ![c].verdict = v]
        /\ call' = [call EXCEPT ![c].history = Append(@, o)]
  BY DEF AfterHooks
<1>3. v \in Verdicts
  BY <1>2 DEF HookVerdicts, Verdicts
<1>4. /\ AttIs(c, att[c].n, att[c].reply, o, att[c].done, v)
      /\ \A d \in Calls : d # c => att'[d] = att[d]
  BY <1>1, <1>2 DEF AttIs, AttemptType
<1>5. /\ CallIs(c, Append(call[c].history, o), call[c].idempotent, call[c].attempts)
      /\ \A d \in Calls : d # c => call'[d] = call[d]
  BY <1>1, <1>2 DEF CallIs, CallType
<1>6. /\ ToldIs(c, log[c].probed, log[c].paid, log[c].events + 1)
      /\ SameHeld(c) /\ SeenIs(c, log[c].fresh)
      /\ \A d \in Calls : d # c => log'[d] = log[d]
  BY <1>1 DEF AfterHooks, SameHeld, HeldIs, ToldIs, SeenIs, LeaksAfter, LogType
<1>7. Moves(c, "after", "decide") /\ \A d \in Calls : d # c => pc'[d] = pc[d]
  BY <1>1 DEF AfterHooks, Goto, Moves
<1>8. Alone(c)
  BY <1>4, <1>5, <1>6, <1>7, AloneFrom DEF AfterHooks, static, server
<1> QED
  BY <1>3, <1>4, <1>5, <1>6, <1>7, <1>8, Keeps DEF AfterHooks, server

\* A custom After hook ends the call.
ShortCircuitEffect(c) ==
  /\ pc[c] = "decide"
  /\ \E v : Finishes(c, v, "short_circuit")
  /\ SameCall(c) /\ SameWait(c) /\ SameEffects(c)

\* ShortCircuit has this effect, on its own call only.
LEMMA ShortCircuitMove ==
  ASSUME TypeOK, NEW c \in Calls, ShortCircuit(c)
  PROVE  Alone(c) /\ ShortCircuitEffect(c)
<1> USE DEF ShortCircuitEffect
<1>1. /\ Finishes(c, att[c].verdict, "short_circuit")
      /\ \A d \in Calls : d # c =>
           pc'[d] = pc[d] /\ ret'[d] = ret[d] /\ att'[d] = att[d] /\ log'[d] = log[d]
  BY FinishMove DEF ShortCircuit
<1>2. Alone(c)
  BY <1>1, AloneFrom DEF ShortCircuit, static, server
<1> QED
  BY <1>1, <1>2, Keeps DEF ShortCircuit, server

\* A success is handed back.
DeliverSuccessEffect(c) ==
  /\ pc[c] = "decide" /\ att[c].outcome = "success"
  /\ Delivers(c, "success")
  /\ SameCall(c) /\ SameWait(c) /\ SameEffects(c)

\* DeliverSuccess has this effect, on its own call only.
LEMMA DeliverSuccessMove ==
  ASSUME TypeOK, NEW c \in Calls, DeliverSuccess(c)
  PROVE  Alone(c) /\ DeliverSuccessEffect(c)
<1> USE DEF DeliverSuccessEffect
<1>1. /\ Delivers(c, "success")
      /\ \A d \in Calls : d # c =>
           pc'[d] = pc[d] /\ ret'[d] = ret[d] /\ att'[d] = att[d] /\ log'[d] = log[d]
  BY DeliverMove DEF DeliverSuccess
<1>2. Alone(c)
  BY <1>1, AloneFrom DEF DeliverSuccess, static, server
<1> QED
  BY <1>1, <1>2, Keeps DEF DeliverSuccess, server

\* A fatal answer is handed back.
DeliverFatalEffect(c) ==
  /\ pc[c] = "decide" /\ att[c].outcome = "fatal"
  /\ Delivers(c, "non_retryable")
  /\ SameCall(c) /\ SameWait(c) /\ SameEffects(c)

\* DeliverFatal has this effect, on its own call only.
LEMMA DeliverFatalMove ==
  ASSUME TypeOK, NEW c \in Calls, DeliverFatal(c)
  PROVE  Alone(c) /\ DeliverFatalEffect(c)
<1> USE DEF DeliverFatalEffect
<1>1. /\ Delivers(c, "non_retryable")
      /\ \A d \in Calls : d # c =>
           pc'[d] = pc[d] /\ ret'[d] = ret[d] /\ att'[d] = att[d] /\ log'[d] = log[d]
  BY DeliverMove DEF DeliverFatal
<1>2. Alone(c)
  BY <1>1, AloneFrom DEF DeliverFatal, static, server
<1> QED
  BY <1>1, <1>2, Keeps DEF DeliverFatal, server

-----------------------------------------------------------------------------
(* The decision to try again and the wait between two attempts.             *)

\* What each answer of the safety gates says about the attempt.
LEMMA RefusalMeans ==
  ASSUME TypeOK, NEW c \in Calls
  PROVE  /\ Refusal(c) \in {"exhausted", "body", "unsafe", "none"}
         /\ Refusal(c) = "exhausted" <=> att[c].n >= cfg[c].maxAttempts
         /\ Refusal(c) = "unsafe" => att[c].outcome = "unknown" /\ ~Safe(c)
         /\ Refusal(c) = "none" /\ att[c].outcome = "unknown"
              => Safe(c) \/ cfg[c].reconcile # "none"
<1>1. att[c].n \in Nat /\ cfg[c].maxAttempts \in Int
  BY FieldTypes
<1>2. CASE att[c].n >= cfg[c].maxAttempts
  BY <1>1, <1>2 DEF Refusal
<1>3. CASE ~(att[c].n >= cfg[c].maxAttempts)
  <2>1. att[c].n < cfg[c].maxAttempts
    BY <1>1, <1>3
  <2> QED
    BY <1>3, <2>1 DEF Refusal, Safe
<1> QED
  BY <1>2, <1>3

\* A retry is refused.
RefuseRetryEffect(c) ==
  /\ att[c].outcome \in Retryable
  /\ \E reason \in {"exhausted", "body", "unsafe", "budget"} :
       /\ Rejects(c, "decide", reason)
       /\ reason = "exhausted" <=> att[c].n >= cfg[c].maxAttempts
       /\ reason = "unsafe" => att[c].outcome = "unknown" /\ ~Safe(c)
  /\ SameCall(c) /\ SameAtt(c) /\ SameWait(c) /\ SameLog(c) /\ SameEffects(c)

\* RefuseRetry has this effect, on its own call only.
LEMMA RefuseRetryMove ==
  ASSUME TypeOK, NEW c \in Calls, RefuseRetry(c)
  PROVE  Alone(c) /\ RefuseRetryEffect(c)
<1> USE DEF RefuseRetryEffect
<1>1. pc \in [Calls -> Labels] /\ ret \in [Calls -> ReturnType]
  BY DEF TypeOK
<1> DEFINE x == IF Refusal(c) # "none" THEN Refusal(c) ELSE "budget"
<1>2. ret' = [ret EXCEPT ![c].reason = x]
  BY DEF RefuseRetry
<1>3. /\ x \in {"exhausted", "body", "unsafe", "budget"}
      /\ x = "exhausted" <=> att[c].n >= cfg[c].maxAttempts
      /\ x = "unsafe" => att[c].outcome = "unknown" /\ ~Safe(c)
  BY RefusalMeans
<1> HIDE DEF x
<1>4. RetIs(c, x, ret[c].result, ret[c].kind) /\ \A d \in Calls : d # c => ret'[d] = ret[d]
  BY <1>1, <1>2 DEF RetIs, ReturnType
<1>5. Rejects(c, "decide", x)
  BY <1>1, <1>4 DEF RefuseRetry, Wants, Goto, Moves, Rejects
<1>6. Alone(c)
  BY <1>1, <1>4, AloneFrom DEF RefuseRetry, Goto, static, server
<1> QED
  BY <1>3, <1>5, <1>6, Keeps DEF RefuseRetry, Wants, server

\* A retry is granted, and paid for if there is a budget.
SpendTokenEffect(c) ==
  /\ Moves(c, "decide", "backoff")
  /\ att[c].outcome \in Retryable /\ ~(att[c].n >= cfg[c].maxAttempts)
  /\ att[c].outcome = "unknown" => Safe(c) \/ cfg[c].reconcile # "none"
  /\ ToldIs(c, log[c].probed, IF cfg[c].budgeted THEN log[c].paid + 1 ELSE log[c].paid,
            log[c].events)
  /\ SameHeld(c) /\ SeenIs(c, log[c].fresh)
  /\ SameCall(c) /\ SameAtt(c) /\ SameWait(c) /\ SameRet(c) /\ SameEffects(c)

\* SpendToken has this effect, on its own call only.
LEMMA SpendTokenMove ==
  ASSUME TypeOK, NEW c \in Calls, SpendToken(c)
  PROVE  Alone(c) /\ SpendTokenEffect(c)
<1> USE DEF SpendTokenEffect
<1>1. pc \in [Calls -> Labels] /\ log \in [Calls -> LogType]
  BY DEF TypeOK
<1>2. /\ ToldIs(c, log[c].probed, IF cfg[c].budgeted THEN log[c].paid + 1 ELSE log[c].paid,
                log[c].events)
      /\ SameHeld(c) /\ SeenIs(c, log[c].fresh)
      /\ \A d \in Calls : d # c => log'[d] = log[d]
  <2>1. gate' = gate
    BY DEF SpendToken
  <2>2. CASE cfg[c].budgeted
    <3>1. log' = [log EXCEPT ![c].paid = @ + 1]
      BY <2>2 DEF SpendToken
    <3> QED
      BY <1>1, <2>1, <2>2, <3>1 DEF ToldIs, SameHeld, HeldIs, SeenIs, LeaksAfter, LogType
  <2>3. CASE ~cfg[c].budgeted
    BY <2>1, <2>3 DEF SpendToken, ToldIs, SameHeld, HeldIs, SeenIs, LeaksAfter
  <2> QED
    BY <2>2, <2>3
<1>3. Moves(c, "decide", "backoff") /\ \A d \in Calls : d # c => pc'[d] = pc[d]
  BY <1>1 DEF SpendToken, Wants, Goto, Moves
<1>4. Alone(c)
  BY <1>2, <1>3, AloneFrom DEF SpendToken, static, server
<1>5. /\ att[c].outcome \in Retryable /\ ~(att[c].n >= cfg[c].maxAttempts)
      /\ att[c].outcome = "unknown" => Safe(c) \/ cfg[c].reconcile # "none"
  BY RefusalMeans DEF SpendToken, Wants
<1> QED
  BY <1>2, <1>3, <1>4, <1>5, Keeps DEF SpendToken, server

\* The server asks for too long a wait.
RetryAfterTooLongEffect(c) ==
  /\ Rejects(c, "backoff", "retry_after")
  /\ SameCall(c) /\ SameAtt(c) /\ SameWait(c) /\ SameLog(c) /\ SameEffects(c)

\* RetryAfterTooLong has this effect, on its own call only.
LEMMA RetryAfterTooLongMove ==
  ASSUME TypeOK, NEW c \in Calls, RetryAfterTooLong(c)
  PROVE  Alone(c) /\ RetryAfterTooLongEffect(c)
<1> USE DEF RetryAfterTooLongEffect
<1>1. pc \in [Calls -> Labels] /\ ret \in [Calls -> ReturnType]
  BY DEF TypeOK
<1>2. Alone(c)
  BY <1>1, AloneFrom DEF RetryAfterTooLong, Goto, static, server
<1>3. RetIs(c, "retry_after", ret[c].result, ret[c].kind)
  BY <1>1 DEF RetryAfterTooLong, RetIs, ReturnType
<1>4. Moves(c, "backoff", "giveup")
  BY <1>1 DEF RetryAfterTooLong, Goto, Moves
<1> QED
  BY <1>2, <1>3, <1>4, Keeps DEF RetryAfterTooLong, Rejects, server

\* The wait is chosen, never shorter than the backoff, and the response discarded.
ChooseDelayEffect(c) ==
  /\ Moves(c, "backoff", "pause")
  /\ wait'[c].at = "retry" /\ \E b \in Backoffs : wait'[c].delay >= b
  /\ Settled(c, FALSE)
  /\ SameCall(c) /\ SameRet(c) /\ SameEffects(c)

\* ChooseDelay has this effect, on its own call only.
LEMMA ChooseDelayMove ==
  ASSUME TypeOK, NEW c \in Calls, ChooseDelay(c)
  PROVE  Alone(c) /\ ChooseDelayEffect(c)
<1> USE DEF ChooseDelayEffect
<1>1. /\ pc \in [Calls -> Labels] /\ wait \in [Calls -> WaitType]
      /\ att[c].reply \in ReplyType
  BY FieldTypes DEF TypeOK
<1>2. RetryAfter(att[c].reply.retryAfter) \in Int
  BY <1>1, RetryAfterInt DEF ReplyType
<1>3. /\ wait'[c].at = "retry" /\ \E b \in Backoffs : wait'[c].delay >= b
      /\ \A d \in Calls : d # c => wait'[d] = wait[d]
  <2> DEFINE h == RetryAfter(att[c].reply.retryAfter)
  <2>1. PICK b \in Backoffs : \E asked \in BOOLEAN :
          wait' = [wait EXCEPT ![c] =
            IF asked /\ h > b THEN [at |-> "retry", delay |-> h, source |-> "retry_after"]
            ELSE [at |-> "retry", delay |-> b, source |-> "backoff"]]
    BY DEF ChooseDelay
  <2>2. b \in Int /\ h \in Int
    BY <1>2, TransportAssumption
  <2> HIDE DEF h
  <2> QED
    BY <1>1, <2>1, <2>2
<1>4. Settled(c, FALSE) /\ \A d \in Calls : d # c => att'[d] = att[d] /\ log'[d] = log[d]
  BY DiscardMove DEF ChooseDelay
<1>5. Moves(c, "backoff", "pause") /\ \A d \in Calls : d # c => pc'[d] = pc[d]
  BY <1>1 DEF ChooseDelay, Goto, Moves
<1>6. Alone(c)
  BY <1>3, <1>4, <1>5, AloneFrom DEF ChooseDelay, static, server
<1> QED
  BY <1>3, <1>4, <1>5, <1>6, Keeps DEF ChooseDelay, server

\* The gate is read before the sleep.
PauseCheckEffect(c) ==
  /\ pc[c] = "pause"
  /\ \/ Rejects(c, "pause", "unhealthy") /\ SameWait(c) /\ cfg[c].gated
     \/ Moves(c, "pause", "await") /\ wait'[c].at = "retry" /\ SameRet(c)
        /\ cfg[c].gated
     \/ Moves(c, "pause", "sleep") /\ SameWait(c) /\ SameRet(c)
  /\ SameHeld(c) /\ SameTold(c) /\ SeenIs(c, ~Tripped(c))
  /\ SameCall(c) /\ SameAtt(c) /\ SameEffects(c)

\* PauseCheck has this effect, on its own call only.
LEMMA PauseCheckMove ==
  ASSUME TypeOK, NEW c \in Calls, PauseCheck(c)
  PROVE  Alone(c) /\ PauseCheckEffect(c)
<1> USE DEF PauseCheckEffect
<1>1. pc \in [Calls -> Labels] /\ log \in [Calls -> LogType]
  BY DEF TypeOK
<1>2. /\ SameHeld(c) /\ SameTold(c) /\ SeenIs(c, ~Tripped(c))
      /\ \A d \in Calls : d # c => log'[d] = log[d]
  BY <1>1 DEF PauseCheck, SameHeld, HeldIs, SameTold, ToldIs, SeenIs, LeaksAfter, LogType
<1>3. /\ SameCall(c) /\ SameAtt(c) /\ SameEffects(c)
      /\ gate' = gate /\ inFlight' = inFlight /\ pc[c] = "pause"
  BY Keeps DEF PauseCheck, server
<1>4. CASE Tripped(c)
  <2>1. AwaitOrReject(c, cfg[c].retryWait, "retry") /\ cfg[c].gated
    BY <1>4 DEF PauseCheck, Tripped
  <2>2. Alone(c)
    BY <1>2, <1>3, <2>1, AloneFrom, AwaitOrRejectMove DEF PauseCheck, static, server
  <2>3. \/ Rejects(c, "pause", "unhealthy") /\ SameWait(c)
        \/ Moves(c, "pause", "await") /\ wait'[c].at = "retry" /\ SameRet(c)
    BY <1>3, <2>1, AwaitOrRejectMove
  <2> QED
    BY <1>2, <1>3, <2>1, <2>2, <2>3
<1>5. CASE ~Tripped(c)
  <2>1. Goto(c, "sleep") /\ UNCHANGED <<ret, wait>>
    BY <1>5 DEF PauseCheck
  <2>2. Alone(c)
    BY <1>1, <1>2, <1>3, <2>1, AloneFrom DEF PauseCheck, Goto, static, server
  <2>3. Moves(c, "pause", "sleep")
    BY <1>1, <1>3, <2>1 DEF Goto, Moves
  <2> QED
    BY <1>2, <1>3, <2>1, <2>2, <2>3, Keeps
<1> QED
  BY <1>4, <1>5

\* The sleep ends; a downstream that settles in time has shown its late writes.
SleepEffect(c) ==
  /\ Moves(c, "sleep", "recheck")
  /\ \/ applied'[c] = applied[c] \cup late[c] /\ late'[c] = {}
     \/ SameEffects(c) /\ ~(Settles /\ wait[c].delay > 0)
  /\ SameHeld(c) /\ SameTold(c) /\ SeenIs(c, FALSE)
  /\ SameCall(c) /\ SameAtt(c) /\ SameWait(c) /\ SameRet(c)

\* Sleep has this effect, on its own call only.
LEMMA SleepMove ==
  ASSUME TypeOK, NEW c \in Calls, Sleep(c)
  PROVE  Alone(c) /\ SleepEffect(c)
<1> USE DEF SleepEffect
<1>1. /\ pc \in [Calls -> Labels] /\ log \in [Calls -> LogType]
      /\ applied \in [Calls -> SUBSET Nat] /\ late \in [Calls -> SUBSET Nat]
  BY DEF TypeOK
<1>2. /\ SameHeld(c) /\ SameTold(c) /\ SeenIs(c, FALSE)
      /\ \A d \in Calls : d # c => log'[d] = log[d]
  BY <1>1 DEF Sleep, SameHeld, HeldIs, SameTold, ToldIs, SeenIs, LeaksAfter, LogType
<1>3. /\ \/ applied'[c] = applied[c] \cup late[c] /\ late'[c] = {}
         \/ SameEffects(c) /\ ~(Settles /\ wait[c].delay > 0)
      /\ \A d \in Calls : d # c => applied'[d] = applied[d] /\ late'[d] = late[d]
  BY <1>1 DEF Sleep, SameEffects, server
<1>4. Moves(c, "sleep", "recheck") /\ \A d \in Calls : d # c => pc'[d] = pc[d]
  BY <1>1 DEF Sleep, Goto, Moves
<1>5. Alone(c)
  BY <1>2, <1>3, <1>4, AloneFrom DEF Sleep, static
<1> QED
  BY <1>2, <1>3, <1>4, <1>5, Keeps DEF Sleep

\* The caller goes away during the sleep.
SleepCanceledEffect(c) ==
  /\ pc[c] = "sleep" /\ Returns(c, "canceled", "error")
  /\ SameCall(c) /\ SameAtt(c) /\ SameWait(c) /\ SameLog(c) /\ SameEffects(c)

\* SleepCanceled has this effect, on its own call only.
LEMMA SleepCanceledMove ==
  ASSUME TypeOK, NEW c \in Calls, SleepCanceled(c)
  PROVE  Alone(c) /\ SleepCanceledEffect(c)
<1> USE DEF SleepCanceledEffect
<1>1. Returns(c, "canceled", "error")
  BY ReturnMove DEF SleepCanceled
<1>2. Alone(c)
  BY AloneFrom, ReturnMove DEF SleepCanceled, static, server
<1> QED
  BY <1>1, <1>2, Keeps DEF SleepCanceled, server

\* The gate is read again after the sleep.
RecheckEffect(c) ==
  /\ pc[c] = "recheck"
  /\ \/ Rejects(c, "recheck", "unhealthy") /\ SameWait(c) /\ SameLog(c)
        /\ cfg[c].gated
     \/ Moves(c, "recheck", "await") /\ wait'[c].at = "retry" /\ SameRet(c)
        /\ SameLog(c) /\ cfg[c].gated
     \/ Moves(c, "recheck", "reconcile") /\ SameWait(c) /\ SameRet(c)
        /\ SameHeld(c) /\ SameTold(c) /\ SeenIs(c, TRUE) /\ ~Tripped(c)
  /\ SameCall(c) /\ SameAtt(c) /\ SameEffects(c)

\* Recheck has this effect, on its own call only.
LEMMA RecheckMove ==
  ASSUME TypeOK, NEW c \in Calls, Recheck(c)
  PROVE  Alone(c) /\ RecheckEffect(c)
<1> USE DEF RecheckEffect
<1>1. pc \in [Calls -> Labels]
  BY DEF TypeOK
<1>2. /\ SameCall(c) /\ SameAtt(c) /\ SameEffects(c)
      /\ gate' = gate /\ inFlight' = inFlight /\ pc[c] = "recheck"
  BY Keeps DEF Recheck, server
<1>3. CASE Tripped(c)
  <2>1. AwaitOrReject(c, cfg[c].retryWait, "retry") /\ log' = log /\ cfg[c].gated
    BY <1>3 DEF Recheck, Tripped
  <2>2. Alone(c)
    BY <1>2, <2>1, AloneFrom, AwaitOrRejectMove DEF Recheck, static, server
  <2>3. \/ Rejects(c, "recheck", "unhealthy") /\ SameWait(c)
        \/ Moves(c, "recheck", "await") /\ wait'[c].at = "retry" /\ SameRet(c)
    BY <1>2, <2>1, AwaitOrRejectMove
  <2> QED
    BY <1>2, <2>1, <2>2, <2>3, Keeps
<1>4. CASE ~Tripped(c)
  <2>1. Goto(c, "reconcile") /\ SeenHealthy(c) /\ UNCHANGED <<ret, wait>>
    BY <1>4 DEF Recheck
  <2>2. Alone(c)
    BY <1>1, <1>2, <2>1, AloneFrom, SeenHealthyMove DEF Recheck, Goto, static, server
  <2>3. Moves(c, "recheck", "reconcile")
    BY <1>1, <1>2, <2>1 DEF Goto, Moves
  <2> QED
    BY <1>2, <1>4, <2>1, <2>2, <2>3, Keeps, SeenHealthyMove
<1> QED
  BY <1>3, <1>4

\* A probe lets the call go on only after a conclusive "absent" or, if the user
\* chose so, an inconclusive answer; it ends the call as reconciled only when the
\* downstream has performed an operation of the call. A hook of the user may do
\* either at any time.
ReconcileHooksEffect(c) ==
  /\ pc[c] = "reconcile"
  /\ \/ /\ Moves(c, "reconcile", "attempt") /\ SameAtt(c) /\ SameRet(c)
        /\ \E probed :
             /\ ToldIs(c, probed, log[c].paid, log[c].events)
             /\ \/ /\ probed = log[c].probed
                   /\ \/ ~(att[c].outcome = "unknown" /\ cfg[c].reconcile # "none")
                      \/ cfg[c].reconcile \in Trusting
                \/ probed = log[c].probed \cup {att[c].n} /\ applied[c] = {}
        /\ SameHeld(c) /\ SeenIs(c, log[c].fresh)
     \/ /\ att[c].outcome = "unknown"
        /\ \E v : /\ Finishes(c, v, "reconciled")
                  /\ v \in {"succeed_own", "succeed_other"} /\ cfg[c].reconcile # "custom"
                       => applied[c] # {}
  /\ SameCall(c) /\ SameWait(c) /\ SameEffects(c)

\* ReconcileHooks has this effect, on its own call only.
LEMMA ReconcileHooksMove ==
  ASSUME TypeOK, NEW c \in Calls, ReconcileHooks(c)
  PROVE  Alone(c) /\ ReconcileHooksEffect(c)
<1> USE DEF ReconcileHooksEffect
<1>1. pc \in [Calls -> Labels] /\ log \in [Calls -> LogType]
  BY DEF TypeOK
<1>2. /\ SameCall(c) /\ SameWait(c) /\ SameEffects(c)
      /\ gate' = gate /\ pc[c] = "reconcile"
  BY Keeps DEF ReconcileHooks, server
<1>3. CASE ~(att[c].outcome = "unknown" /\ cfg[c].reconcile # "none")
  <2>1. Goto(c, "attempt") /\ UNCHANGED <<att, log, ret, inFlight>>
    BY <1>3 DEF ReconcileHooks
  <2>2. Alone(c)
    BY <1>1, <1>2, <2>1, AloneFrom DEF ReconcileHooks, Goto, static, server
  <2>3. Moves(c, "reconcile", "attempt")
    BY <1>1, <1>2, <2>1 DEF Goto, Moves
  <2>4. SameAtt(c) /\ SameRet(c) /\ SameLog(c)
    BY <1>2, <2>1, Keeps
  <2> QED
    BY <1>2, <1>3, <2>2, <2>3, <2>4 DEF SameLog, SameTold
<1>4. CASE att[c].outcome = "unknown" /\ cfg[c].reconcile # "none"
  <2>1. PICK end \in ReconcileEnds(c) :
          IF end.verdict = "continue"
          THEN /\ Goto(c, "attempt")
               /\ log' = [log EXCEPT ![c].probed =
                            IF end.absent THEN @ \cup {att[c].n} ELSE @]
               /\ UNCHANGED <<att, ret, inFlight>>
          ELSE Finish(c, end.verdict, "reconciled")
    BY <1>4 DEF ReconcileHooks
  <2>0. /\ end.verdict = "continue" => \/ ~end.absent /\ cfg[c].reconcile \in Trusting
                                       \/ end.absent /\ applied[c] = {}
        /\ end.verdict \in {"succeed_own", "succeed_other"} /\ cfg[c].reconcile # "custom"
             => applied[c] # {}
    <3>0. end \in ReconcileEnds(c)
      BY <2>1
    <3>1. CASE cfg[c].reconcile = "custom"
      <4>1. PICK v \in HookVerdicts(c, TRUE) : end = [verdict |-> v, absent |-> FALSE]
        BY <3>0, <3>1 DEF ReconcileEnds
      <4> QED
        BY <3>1, <4>1 DEF Trusting
    <3>2. CASE cfg[c].reconcile # "custom"
      <4>1. PICK answer \in ProbeAnswers(c) :
              end = [verdict |-> ReconcilerVerdict(answer, cfg[c].reconcile = "fail_open"),
                     absent |-> answer = "absent"]
        BY <3>0, <3>2 DEF ReconcileEnds
      <4>2. answer \in {"inconclusive", "found", "absent"} /\ (answer = "found" => applied[c] # {})
              /\ (answer = "absent" => applied[c] = {})
        BY <4>1 DEF ProbeAnswers
      <4> QED
        BY <3>2, <4>1, <4>2 DEF ReconcilerVerdict, Trusting
    <3> QED
      BY <3>1, <3>2
  <2> DEFINE v == end.verdict
             p == IF end.absent THEN log[c].probed \cup {att[c].n} ELSE log[c].probed
  <2>2. CASE v = "continue"
    <3>1. /\ Goto(c, "attempt") /\ UNCHANGED <<att, ret, inFlight>>
          /\ log' = [log EXCEPT ![c].probed = p]
      BY <1>1, <2>1, <2>2
    <3>2. \/ p = log[c].probed /\ cfg[c].reconcile \in Trusting
          \/ p = log[c].probed \cup {att[c].n} /\ applied[c] = {}
      BY <2>0, <2>2
    <3> HIDE DEF p, v
    <3>3. /\ ToldIs(c, p, log[c].paid, log[c].events) /\ SameHeld(c) /\ SeenIs(c, log[c].fresh)
          /\ \A d \in Calls : d # c => log'[d] = log[d]
      BY <1>1, <1>2, <3>1 DEF ToldIs, SameHeld, HeldIs, SeenIs, LeaksAfter, LogType
    <3>4. Alone(c)
      BY <1>1, <1>2, <3>1, <3>3, AloneFrom DEF ReconcileHooks, Goto, static, server
    <3>5. Moves(c, "reconcile", "attempt")
      BY <1>1, <1>2, <3>1 DEF Goto, Moves
    <3>6. SameAtt(c) /\ SameRet(c)
      BY <3>1, Keeps
    <3> QED
      BY <1>2, <3>2, <3>3, <3>4, <3>5, <3>6
  <2>3. CASE v # "continue"
    <3>1. Finish(c, v, "reconciled")
      BY <2>1, <2>3
    <3>2. v \in {"succeed_own", "succeed_other"} /\ cfg[c].reconcile # "custom" => applied[c] # {}
      BY <2>0
    <3> HIDE DEF v
    <3>3. Alone(c) /\ Finishes(c, v, "reconciled")
      BY <1>2, <3>1, AloneFrom, FinishMove DEF ReconcileHooks, static, server
    <3> QED
      BY <1>2, <1>4, <3>2, <3>3
  <2> QED
    BY <2>2, <2>3
<1> QED
  BY <1>3, <1>4

-----------------------------------------------------------------------------
(* The end of a call, and the environment.                                  *)

\* An OnGiveUp hook ends the call.
GiveUpHooksEffect(c) ==
  /\ pc[c] = "giveup"
  /\ \E v : Finishes(c, v, "fallback")
  /\ SameCall(c) /\ SameWait(c) /\ SameEffects(c)

\* GiveUpHooks has this effect, on its own call only.
LEMMA GiveUpHooksMove ==
  ASSUME TypeOK, NEW c \in Calls, GiveUpHooks(c)
  PROVE  Alone(c) /\ GiveUpHooksEffect(c)
<1> USE DEF GiveUpHooksEffect
<1>1. PICK v : Finish(c, v, "fallback")
  BY DEF GiveUpHooks
<1>2. /\ Finishes(c, v, "fallback")
      /\ \A d \in Calls : d # c =>
           pc'[d] = pc[d] /\ ret'[d] = ret[d] /\ att'[d] = att[d] /\ log'[d] = log[d]
  BY <1>1, FinishMove DEF GiveUpHooks
<1>3. Alone(c)
  BY <1>2, AloneFrom DEF GiveUpHooks, static, server
<1> QED
  BY <1>2, <1>3, Keeps DEF GiveUpHooks, server

\* giveUp hands back a live response, or the error that says why.
GiveUpEffect(c) ==
  /\ pc[c] = "giveup"
  /\ \E kept \in BOOLEAN :
       /\ Returns(c, ResultForReason(ret[c].reason),
                  IF kept THEN "response" ELSE "exhausted")
       /\ Settled(c, kept)
       /\ kept => ~att[c].done
  /\ SameCall(c) /\ SameWait(c) /\ SameEffects(c)

\* GiveUp has this effect, on its own call only.
LEMMA GiveUpMove ==
  ASSUME TypeOK, NEW c \in Calls, GiveUp(c)
  PROVE  Alone(c) /\ GiveUpEffect(c)
<1> USE DEF GiveUpEffect
<1>1. /\ SameCall(c) /\ SameWait(c) /\ SameEffects(c) /\ pc[c] = "giveup" /\ gate' = gate
  BY Keeps DEF GiveUp, server
<1> DEFINE r == ResultForReason(ret[c].reason)
<1>2. CASE NothingToDeliver(c)
  <2>1. Discard(c) /\ Return(c, r, "exhausted")
    BY <1>2 DEF GiveUp
  <2> HIDE DEF r
  <2>2. Returns(c, r, "exhausted") /\ Settled(c, FALSE)
    BY <1>1, <2>1, ReturnMove, DiscardMove
  <2>3. Alone(c)
    BY <1>1, <2>1, AloneFrom, ReturnMove, DiscardMove DEF GiveUp, static, server
  <2> QED
    BY <1>1, <2>2, <2>3 DEF r
<1>3. CASE ~NothingToDeliver(c)
  <2>1. Deliver(c, r) /\ ~HasErr(att[c].reply) /\ ~att[c].done
    BY <1>3 DEF GiveUp, NothingToDeliver
  <2> HIDE DEF r
  <2>2. Returns(c, r, "response") /\ Settled(c, TRUE)
    BY <1>1, <2>1, DeliverMove DEF Delivers
  <2>3. Alone(c)
    BY <1>1, <2>1, AloneFrom, DeliverMove DEF GiveUp, static, server
  <2> QED
    BY <1>1, <2>1, <2>2, <2>3 DEF r
<1> QED
  BY <1>2, <1>3

\* User code panics.
PanicEffect(c) ==
  /\ pc[c] \in UserCode /\ Returns(c, "panic", "panic")
  /\ SameCall(c) /\ SameAtt(c) /\ SameWait(c) /\ SameLog(c) /\ SameEffects(c)

\* Panic has this effect, on its own call only.
LEMMA PanicMove ==
  ASSUME TypeOK, NEW c \in Calls, Panic(c)
  PROVE  Alone(c) /\ PanicEffect(c)
<1> USE DEF PanicEffect
<1>1. Returns(c, "panic", "panic")
  BY ReturnMove DEF Panic
<1>2. Alone(c)
  BY AloneFrom, ReturnMove DEF Panic, static, server
<1> QED
  BY <1>1, <1>2, Keeps DEF Panic, server

\* A lost request takes effect: an operation moves from late to applied.
LateCommitEffect(c) ==
  /\ pc'[c] = pc[c] /\ inFlight' = inFlight /\ gate' = gate
  /\ \E op \in late[c] : /\ applied'[c] = applied[c] \cup {op}
                         /\ late'[c] = late[c] \ {op}
  /\ SameCall(c) /\ SameAtt(c) /\ SameWait(c) /\ SameRet(c) /\ SameLog(c)

\* LateCommit has this effect, on its own call only.
LEMMA LateCommitMove ==
  ASSUME TypeOK, NEW c \in Calls, LateCommit(c)
  PROVE  Alone(c) /\ LateCommitEffect(c)
<1> USE DEF LateCommitEffect
<1>1. applied \in [Calls -> SUBSET Nat] /\ late \in [Calls -> SUBSET Nat]
  BY DEF TypeOK
<1>2. PICK op \in late[c] : /\ applied' = [applied EXCEPT ![c] = @ \cup {op}]
                            /\ late' = [late EXCEPT ![c] = @ \ {op}]
  BY DEF LateCommit
<1>3. /\ applied'[c] = applied[c] \cup {op} /\ late'[c] = late[c] \ {op}
      /\ \A d \in Calls : d # c => applied'[d] = applied[d] /\ late'[d] = late[d]
  BY <1>1, <1>2
<1>4. Alone(c)
  BY <1>3, AloneFrom DEF LateCommit, control, static
<1> QED
  BY <1>3, <1>4, Keeps DEF LateCommit, control

\* Cancellation, a change of the gate and stuttering touch no call.
LEMMA QuietMove ==
  ASSUME TypeOK, GateFlips \/ (\E c \in Calls : CancelCtx(c)) \/ UNCHANGED vars
  PROVE  cfg' = cfg /\ req' = req /\ inFlight' = inFlight /\ \A d \in Calls : Untouched(d)
<1>1. CASE GateFlips
  <2>1. \A d \in Calls : SameLog(d)
    BY <1>1, CountOutagesMove DEF GateFlips
  <2>2. \A d \in Calls : Untouched(d)
    BY <1>1, <2>1, Keeps DEF GateFlips, Untouched, server
  <2> QED
    BY <1>1, <2>2 DEF GateFlips, static
<1>2. CASE \E c \in Calls : CancelCtx(c)
  <2>1. \A d \in Calls : Untouched(d)
    BY <1>2, Keeps DEF CancelCtx, Untouched, server
  <2> QED
    BY <1>2, <2>1 DEF CancelCtx, static
<1>3. CASE UNCHANGED vars
  <2>1. \A d \in Calls : Untouched(d)
    BY <1>3, Keeps DEF vars, Untouched
  <2> QED
    BY <1>3, <2>1 DEF vars
<1> QED
  BY <1>1, <1>2, <1>3

\* What a step of a call can be.
Effect(c) ==
  \/ StartEffect(c) \/ PrepareBodyEffect(c) \/ BeginAttemptEffect(c)
  \/ GetBodyFailsEffect(c) \/ GateAtStartEffect(c) \/ AwaitRecoveredEffect(c)
  \/ AwaitTimeoutEffect(c) \/ AwaitCanceledEffect(c) \/ JitterDoneEffect(c)
  \/ BeforeHooksEffect(c) \/ SendEffect(c) \/ AbandonedEffect(c)
  \/ ClassifiedEffect(c) \/ AfterHooksEffect(c) \/ ShortCircuitEffect(c)
  \/ DeliverSuccessEffect(c) \/ DeliverFatalEffect(c) \/ RefuseRetryEffect(c)
  \/ SpendTokenEffect(c) \/ RetryAfterTooLongEffect(c) \/ ChooseDelayEffect(c)
  \/ PauseCheckEffect(c) \/ SleepEffect(c) \/ SleepCanceledEffect(c)
  \/ RecheckEffect(c) \/ ReconcileHooksEffect(c) \/ GiveUpHooksEffect(c)
  \/ GiveUpEffect(c) \/ PanicEffect(c) \/ LateCommitEffect(c)

\* Every step of a call has one of these effects and touches no other call.
LEMMA StepEffect ==
  ASSUME TypeOK, NEW c \in Calls, Step(c) \/ Panic(c) \/ LateCommit(c)
  PROVE  Alone(c) /\ Effect(c)
BY StartMove, PrepareBodyMove, BeginAttemptMove, GetBodyFailsMove, GateAtStartMove,
   AwaitRecoveredMove, AwaitTimeoutMove, AwaitCanceledMove, JitterDoneMove,
   BeforeHooksMove, SendMove, AbandonedMove, ClassifiedMove, AfterHooksMove,
   ShortCircuitMove, DeliverSuccessMove, DeliverFatalMove, RefuseRetryMove,
   SpendTokenMove, RetryAfterTooLongMove, ChooseDelayMove, PauseCheckMove, SleepMove,
   SleepCanceledMove, RecheckMove, ReconcileHooksMove, GiveUpHooksMove, GiveUpMove,
   PanicMove, LateCommitMove DEF Step, Effect
=============================================================================
