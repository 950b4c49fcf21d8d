----------------------------- MODULE EngineProofs -----------------------------
(***************************************************************************)
(* The safety of the retry engine for any number of calls: what a call      *)
(* counts, holds, reads and pays.  Every invariant is stated for one call   *)
(* and proved from the effects that TransportSteps gives for each action.   *)
(***************************************************************************)
EXTENDS TransportSteps, FiniteSetTheorems

-----------------------------------------------------------------------------
(* Where a call is.                                                         *)

\* It waits for the gate before its first request.
AtGate(c) == pc[c] = "gate" \/ (pc[c] \in {"await", "jitter"} /\ wait[c].at = "start")

\* It has built an attempt that is not sent yet.
Built(c) == AtGate(c) \/ pc[c] \in {"before", "send"}

\* It has been granted a retry and has not built the attempt yet.
Granted(c) ==
  \/ pc[c] \in {"backoff", "pause", "sleep", "recheck", "reconcile"}
  \/ pc[c] \in {"await", "jitter"} /\ wait[c].at = "retry"

-----------------------------------------------------------------------------
(* Counting: the attempt's number, Call.attempts, the history and the limit *)
(* agree at every point of do().                                            *)

CountInv(c) ==
  /\ cfg[c].maxAttempts >= 1
  /\ att[c].n <= cfg[c].maxAttempts
  /\ pc[c] \in {"idle", "body"} => att[c].n = 0
  /\ AtGate(c) => att[c].n = 1
  /\ Built(c) => att[c].n = call[c].attempts + 1
  /\ ~Built(c) /\ pc[c] \notin {"giveup", "done"} => att[c].n = call[c].attempts
  /\ pc[c] = "attempt" \/ Granted(c) => att[c].n < cfg[c].maxAttempts
  /\ pc[c] \in {"inflight", "after", "decide"} \/ Granted(c) => att[c].n >= 1
  /\ pc[c] = "giveup" =>
       \/ att[c].n = call[c].attempts /\ att[c].n >= 1
       \/ ret[c].reason = "unhealthy" /\ att[c].n = 1 /\ call[c].attempts = 0
  /\ pc[c] = "done" =>
       \/ att[c].n = call[c].attempts
       \/ ret[c].result \in Unsent /\ att[c].n = call[c].attempts + 1

\* The history has one entry for each request sent, except while its answer is
\* awaited or seen by the After hooks, and after an abandoned or panicked call.
HistoryInv(c) ==
  /\ pc[c] \in {"inflight", "after"} => call[c].attempts = Len(call[c].history) + 1
  /\ pc[c] \notin {"inflight", "after", "done"} => call[c].attempts = Len(call[c].history)
  /\ pc[c] = "done" /\ ret[c].reason # "none" => call[c].attempts = Len(call[c].history)
  /\ pc[c] \notin {"giveup", "done"} => ret[c].reason = "none"
  /\ pc[c] # "done" => ret[c].result = "none" /\ ret[c].kind = "none"

\* A step of a call keeps its counters in agreement.
LEMMA StepCount ==
  ASSUME TypeOK, NEW c \in Calls, CountInv(c), Step(c) \/ Panic(c) \/ LateCommit(c)
  PROVE  CountInv(c)'
<1> USE DEF CountInv, AtGate, Built, Granted, Moves, Returns, Rejects, Settled, CallIs, AttIs,
            RetIs, SameCall, SameAtt, SameWait, SameRet, Unsent, Finishes, Delivers
<1>t. /\ att[c].n \in Nat /\ call[c].attempts \in Nat /\ cfg[c].maxAttempts \in Int
      /\ wait[c].at \in {"start", "retry"} /\ cfg' = cfg
  BY FieldTypes, StepEffect DEF Alone
<1>1. CASE StartEffect(c)
  BY <1>t, <1>1 DEF StartEffect
<1>2. CASE PrepareBodyEffect(c)
  BY <1>t, <1>2 DEF PrepareBodyEffect
<1>3. CASE BeginAttemptEffect(c)
  BY <1>t, <1>3 DEF BeginAttemptEffect
<1>4. CASE GetBodyFailsEffect(c)
  BY <1>t, <1>4 DEF GetBodyFailsEffect
<1>5. CASE GateAtStartEffect(c)
  <2>1. /\ pc[c] = "gate" /\ SameAtt(c) /\ SameCall(c)
        /\ \/ pc'[c] = "giveup" /\ ret'[c].reason = "unhealthy"
           \/ pc'[c] = "await" /\ wait'[c].at = "start"
           \/ pc'[c] = "before"
    BY <1>5 DEF GateAtStartEffect
  <2> QED
    BY <1>t, <2>1
<1>6. CASE AwaitRecoveredEffect(c)
  BY <1>t, <1>6 DEF AwaitRecoveredEffect
<1>7. CASE AwaitTimeoutEffect(c)
  BY <1>t, <1>7 DEF AwaitTimeoutEffect
<1>8. CASE AwaitCanceledEffect(c)
  BY <1>t, <1>8 DEF AwaitCanceledEffect
<1>9. CASE JitterDoneEffect(c)
  BY <1>t, <1>9 DEF JitterDoneEffect
<1>10. CASE BeforeHooksEffect(c)
  <2>1. call'[c].attempts = call[c].attempts /\ pc[c] = "before"
    BY ONLY <1>10 DEF BeforeHooksEffect, CallIs
  <2>2. CASE Moves(c, "before", "send") /\ SameAtt(c) /\ SameRet(c)
    BY <1>t, <2>1, <2>2
  <2>3. ASSUME NEW v, Finishes(c, v, "short_circuit") PROVE CountInv(c)'
    BY <1>t, <2>1, <2>3
  <2> QED
    BY ONLY <1>10, <2>2, <2>3 DEF BeforeHooksEffect
<1>11. CASE SendEffect(c)
  BY <1>t, <1>11 DEF SendEffect
<1>12. CASE AbandonedEffect(c)
  BY <1>t, <1>12 DEF AbandonedEffect
<1>13. CASE ClassifiedEffect(c)
  BY <1>t, <1>13 DEF ClassifiedEffect
<1>14. CASE AfterHooksEffect(c)
  BY <1>t, <1>14 DEF AfterHooksEffect
<1>15. CASE ShortCircuitEffect(c)
  BY <1>t, <1>15 DEF ShortCircuitEffect
<1>16. CASE DeliverSuccessEffect(c)
  BY <1>t, <1>16 DEF DeliverSuccessEffect
<1>17. CASE DeliverFatalEffect(c)
  BY <1>t, <1>17 DEF DeliverFatalEffect
<1>18. CASE RefuseRetryEffect(c)
  BY <1>t, <1>18 DEF RefuseRetryEffect
<1>19. CASE SpendTokenEffect(c)
  BY <1>t, <1>19 DEF SpendTokenEffect
<1>20. CASE RetryAfterTooLongEffect(c)
  BY <1>t, <1>20 DEF RetryAfterTooLongEffect
<1>21. CASE ChooseDelayEffect(c)
  BY <1>t, <1>21 DEF ChooseDelayEffect
<1>22. CASE PauseCheckEffect(c)
  BY <1>t, <1>22 DEF PauseCheckEffect
<1>23. CASE SleepEffect(c)
  BY <1>t, <1>23 DEF SleepEffect
<1>24. CASE SleepCanceledEffect(c)
  BY <1>t, <1>24 DEF SleepCanceledEffect
<1>25. CASE RecheckEffect(c)
  BY <1>t, <1>25 DEF RecheckEffect
<1>26. CASE ReconcileHooksEffect(c)
  <2>1. CASE Moves(c, "reconcile", "attempt") /\ SameAtt(c) /\ SameRet(c) /\ SameCall(c)
    BY <1>t, <2>1
  <2>2. ASSUME NEW v, Finishes(c, v, "reconciled"), pc[c] = "reconcile", SameCall(c)
        PROVE  CountInv(c)'
    BY <1>t, <2>2
  <2> QED
    BY ONLY <1>26, <2>1, <2>2 DEF ReconcileHooksEffect
<1>27. CASE GiveUpHooksEffect(c)
  BY <1>t, <1>27 DEF GiveUpHooksEffect
<1>28. CASE GiveUpEffect(c)
  BY <1>t, <1>28 DEF GiveUpEffect, ResultForReason
<1>29. CASE PanicEffect(c)
  BY <1>t, <1>29 DEF PanicEffect, UserCode
<1>30. CASE LateCommitEffect(c)
  BY <1>t, <1>30 DEF LateCommitEffect
<1> QED
  BY <1>t, <1>1, <1>2, <1>3, <1>4, <1>5, <1>6, <1>7, <1>8, <1>9, <1>10, <1>11, <1>12,
     <1>13, <1>14, <1>15, <1>16, <1>17, <1>18, <1>19, <1>20, <1>21, <1>22, <1>23,
     <1>24, <1>25, <1>26, <1>27, <1>28, <1>29, <1>30, StepEffect DEF Effect

\* A step of a call keeps its history in agreement with its attempts.
LEMMA StepHistory ==
  ASSUME TypeOK, NEW c \in Calls, HistoryInv(c), Step(c) \/ Panic(c) \/ LateCommit(c)
  PROVE  HistoryInv(c)'
<1> USE DEF HistoryInv, Moves, Returns, Rejects, CallIs, RetIs, SameCall, SameRet, Finishes,
            Delivers
<1>t. call[c].attempts \in Nat /\ call[c].history \in Seq(Outcome)
  BY FieldTypes
<1>1. CASE StartEffect(c)
  BY <1>t, <1>1 DEF StartEffect
<1>2. CASE PrepareBodyEffect(c)
  BY <1>t, <1>2 DEF PrepareBodyEffect
<1>3. CASE BeginAttemptEffect(c)
  BY <1>t, <1>3 DEF BeginAttemptEffect
<1>4. CASE GetBodyFailsEffect(c)
  BY <1>t, <1>4 DEF GetBodyFailsEffect
<1>5. CASE GateAtStartEffect(c)
  BY <1>t, <1>5 DEF GateAtStartEffect
<1>6. CASE AwaitRecoveredEffect(c)
  BY <1>t, <1>6 DEF AwaitRecoveredEffect
<1>7. CASE AwaitTimeoutEffect(c)
  BY <1>t, <1>7 DEF AwaitTimeoutEffect
<1>8. CASE AwaitCanceledEffect(c)
  BY <1>t, <1>8 DEF AwaitCanceledEffect
<1>9. CASE JitterDoneEffect(c)
  BY <1>t, <1>9 DEF JitterDoneEffect
<1>10. CASE BeforeHooksEffect(c)
  BY <1>t, <1>10 DEF BeforeHooksEffect
<1>11. CASE SendEffect(c)
  BY <1>t, <1>11 DEF SendEffect
<1>12. CASE AbandonedEffect(c)
  BY <1>t, <1>12 DEF AbandonedEffect
<1>13. CASE ClassifiedEffect(c)
  BY <1>t, <1>13 DEF ClassifiedEffect
<1>14. CASE AfterHooksEffect(c)
  BY <1>t, <1>14 DEF AfterHooksEffect
<1>15. CASE ShortCircuitEffect(c)
  BY <1>t, <1>15 DEF ShortCircuitEffect
<1>16. CASE DeliverSuccessEffect(c)
  BY <1>t, <1>16 DEF DeliverSuccessEffect
<1>17. CASE DeliverFatalEffect(c)
  BY <1>t, <1>17 DEF DeliverFatalEffect
<1>18. CASE RefuseRetryEffect(c)
  BY <1>t, <1>18 DEF RefuseRetryEffect
<1>19. CASE SpendTokenEffect(c)
  BY <1>t, <1>19 DEF SpendTokenEffect
<1>20. CASE RetryAfterTooLongEffect(c)
  BY <1>t, <1>20 DEF RetryAfterTooLongEffect
<1>21. CASE ChooseDelayEffect(c)
  BY <1>t, <1>21 DEF ChooseDelayEffect
<1>22. CASE PauseCheckEffect(c)
  BY <1>t, <1>22 DEF PauseCheckEffect
<1>23. CASE SleepEffect(c)
  BY <1>t, <1>23 DEF SleepEffect
<1>24. CASE SleepCanceledEffect(c)
  BY <1>t, <1>24 DEF SleepCanceledEffect
<1>25. CASE RecheckEffect(c)
  BY <1>t, <1>25 DEF RecheckEffect
<1>26. CASE ReconcileHooksEffect(c)
  BY <1>t, <1>26 DEF ReconcileHooksEffect
<1>27. CASE GiveUpHooksEffect(c)
  BY <1>t, <1>27 DEF GiveUpHooksEffect
<1>28. CASE GiveUpEffect(c)
  BY <1>t, <1>28 DEF GiveUpEffect
<1>29. CASE PanicEffect(c)
  BY <1>t, <1>29 DEF PanicEffect, UserCode
<1>30. CASE LateCommitEffect(c)
  BY <1>t, <1>30 DEF LateCommitEffect
<1> QED
  BY <1>t, <1>1, <1>2, <1>3, <1>4, <1>5, <1>6, <1>7, <1>8, <1>9, <1>10, <1>11, <1>12,
     <1>13, <1>14, <1>15, <1>16, <1>17, <1>18, <1>19, <1>20, <1>21, <1>22, <1>23,
     <1>24, <1>25, <1>26, <1>27, <1>28, <1>29, <1>30, StepEffect DEF Effect

-----------------------------------------------------------------------------
(* Payments: a budgeted call has paid for exactly its resends, plus one     *)
(* token from the moment allow() grants a retry until it is sent.           *)

TokenInv(c) ==
  cfg[c].budgeted =>
    /\ pc[c] \in {"inflight", "after", "decide"} => log[c].paid + 1 = call[c].attempts
    /\ pc[c] \notin {"inflight", "after", "decide", "giveup", "done"}
         => log[c].paid = call[c].attempts
    /\ pc[c] = "giveup" =>
         \/ log[c].paid + 1 = call[c].attempts
         \/ log[c].paid = call[c].attempts /\ ret[c].reason \in {"retry_after", "unhealthy"}
    /\ pc[c] = "done" =>
         \/ log[c].paid + 1 = call[c].attempts
         \/ log[c].paid = call[c].attempts /\ ret[c].result \in Forfeiting

\* A step of a call keeps its payments in agreement with its attempts.
LEMMA StepToken ==
  ASSUME TypeOK, NEW c \in Calls, TokenInv(c), Step(c) \/ Panic(c) \/ LateCommit(c)
  PROVE  TokenInv(c)'
<1> USE DEF TokenInv, Moves, Returns, Rejects, Settled, CallIs, RetIs, ToldIs, SameCall,
            SameRet, SameTold, SameLog, Finishes, Delivers, Forfeiting
<1>t. /\ call[c].attempts \in Nat /\ log[c].paid \in Nat /\ cfg[c].budgeted \in BOOLEAN
      /\ cfg' = cfg
  BY FieldTypes, StepEffect DEF Alone
<1>1. CASE StartEffect(c)
  BY <1>t, <1>1 DEF StartEffect
<1>2. CASE PrepareBodyEffect(c)
  BY <1>t, <1>2 DEF PrepareBodyEffect
<1>3. CASE BeginAttemptEffect(c)
  BY <1>t, <1>3 DEF BeginAttemptEffect
<1>4. CASE GetBodyFailsEffect(c)
  BY <1>t, <1>4 DEF GetBodyFailsEffect
<1>5. CASE GateAtStartEffect(c)
  BY <1>t, <1>5 DEF GateAtStartEffect
<1>6. CASE AwaitRecoveredEffect(c)
  BY <1>t, <1>6 DEF AwaitRecoveredEffect
<1>7. CASE AwaitTimeoutEffect(c)
  BY <1>t, <1>7 DEF AwaitTimeoutEffect
<1>8. CASE AwaitCanceledEffect(c)
  BY <1>t, <1>8 DEF AwaitCanceledEffect
<1>9. CASE JitterDoneEffect(c)
  BY <1>t, <1>9 DEF JitterDoneEffect
<1>10. CASE BeforeHooksEffect(c)
  BY <1>t, <1>10 DEF BeforeHooksEffect
<1>11. CASE SendEffect(c)
  BY <1>t, <1>11 DEF SendEffect
<1>12. CASE AbandonedEffect(c)
  BY <1>t, <1>12 DEF AbandonedEffect
<1>13. CASE ClassifiedEffect(c)
  BY <1>t, <1>13 DEF ClassifiedEffect
<1>14. CASE AfterHooksEffect(c)
  BY <1>t, <1>14 DEF AfterHooksEffect
<1>15. CASE ShortCircuitEffect(c)
  BY <1>t, <1>15 DEF ShortCircuitEffect
<1>16. CASE DeliverSuccessEffect(c)
  BY <1>t, <1>16 DEF DeliverSuccessEffect
<1>17. CASE DeliverFatalEffect(c)
  BY <1>t, <1>17 DEF DeliverFatalEffect
<1>18. CASE RefuseRetryEffect(c)
  BY <1>t, <1>18 DEF RefuseRetryEffect
<1>19. CASE SpendTokenEffect(c)
  BY <1>t, <1>19 DEF SpendTokenEffect
<1>20. CASE RetryAfterTooLongEffect(c)
  BY <1>t, <1>20 DEF RetryAfterTooLongEffect
<1>21. CASE ChooseDelayEffect(c)
  BY <1>t, <1>21 DEF ChooseDelayEffect
<1>22. CASE PauseCheckEffect(c)
  BY <1>t, <1>22 DEF PauseCheckEffect
<1>23. CASE SleepEffect(c)
  BY <1>t, <1>23 DEF SleepEffect
<1>24. CASE SleepCanceledEffect(c)
  BY <1>t, <1>24 DEF SleepCanceledEffect
<1>25. CASE RecheckEffect(c)
  BY <1>t, <1>25 DEF RecheckEffect
<1>26. CASE ReconcileHooksEffect(c)
  BY <1>t, <1>26 DEF ReconcileHooksEffect
<1>27. CASE GiveUpHooksEffect(c)
  BY <1>t, <1>27 DEF GiveUpHooksEffect
<1>28. CASE GiveUpEffect(c)
  BY <1>t, <1>28 DEF GiveUpEffect, ResultForReason
<1>29. CASE PanicEffect(c)
  BY <1>t, <1>29 DEF PanicEffect, UserCode
<1>30. CASE LateCommitEffect(c)
  BY <1>t, <1>30 DEF LateCommitEffect
<1> QED
  BY <1>t, <1>1, <1>2, <1>3, <1>4, <1>5, <1>6, <1>7, <1>8, <1>9, <1>10, <1>11, <1>12,
     <1>13, <1>14, <1>15, <1>16, <1>17, <1>18, <1>19, <1>20, <1>21, <1>22, <1>23,
     <1>24, <1>25, <1>26, <1>27, <1>28, <1>29, <1>30, StepEffect DEF Effect

-----------------------------------------------------------------------------
(* Resources: only the current attempt can hold a response and a context,   *)
(* and a response that was drained belongs to an attempt that is done.      *)

HoldInv(c) ==
  /\ log[c].owned \subseteq {att[c].n}
  /\ \A k \in log[c].closed : k <= att[c].n
  /\ pc[c] \notin {"inflight", "after", "decide", "backoff", "giveup", "done"}
       => log[c].owned = {}
  /\ att[c].done => log[c].owned = {}
  /\ att[c].n \in log[c].closed => att[c].done
  /\ pc[c] \in {"inflight", "after", "decide", "backoff"} => ~att[c].done
  /\ pc[c] \in {"before", "send"} \/ AtGate(c) => ~att[c].done
  /\ pc[c] = "done" /\ ret[c].result # "panic" => log[c].owned = {}
  /\ pc[c] # "done" => ret[c].kind # "response"
  /\ ret[c].kind = "response" => att[c].n \notin log[c].closed

\* A step of a call releases what it held and holds only what it sent.
LEMMA StepHold ==
  ASSUME TypeOK, NEW c \in Calls, HoldInv(c), Step(c) \/ Panic(c) \/ LateCommit(c)
  PROVE  HoldInv(c)'
<1> USE DEF HoldInv, AtGate, Moves, Returns, Rejects, Settled, AttIs, RetIs, HeldIs, SameAtt, SameRet,
            SameHeld, SameLog, SameWait, Finishes, Delivers
<1>t. /\ att[c].n \in Nat /\ att[c].done \in BOOLEAN /\ log[c].closed \in SUBSET Nat
      /\ wait[c].at \in {"start", "retry"}
  BY FieldTypes
<1>1. CASE StartEffect(c)
  BY <1>t, <1>1 DEF StartEffect
<1>2. CASE PrepareBodyEffect(c)
  BY <1>t, <1>2 DEF PrepareBodyEffect
<1>3. CASE BeginAttemptEffect(c)
  BY <1>t, <1>3 DEF BeginAttemptEffect
<1>4. CASE GetBodyFailsEffect(c)
  BY <1>t, <1>4 DEF GetBodyFailsEffect
<1>5. CASE GateAtStartEffect(c)
  BY <1>t, <1>5 DEF GateAtStartEffect
<1>6. CASE AwaitRecoveredEffect(c)
  BY <1>t, <1>6 DEF AwaitRecoveredEffect
<1>7. CASE AwaitTimeoutEffect(c)
  BY <1>t, <1>7 DEF AwaitTimeoutEffect
<1>8. CASE AwaitCanceledEffect(c)
  BY <1>t, <1>8 DEF AwaitCanceledEffect
<1>9. CASE JitterDoneEffect(c)
  BY <1>t, <1>9 DEF JitterDoneEffect
<1>10. CASE BeforeHooksEffect(c)
  <2>1. CASE Moves(c, "before", "send") /\ SameAtt(c) /\ SameRet(c) /\ SameLog(c)
    BY <1>t, <2>1
  <2>2. ASSUME NEW v, Finishes(c, v, "short_circuit") PROVE HoldInv(c)'
    BY <1>t, <2>2
  <2> QED
    BY ONLY <1>10, <2>1, <2>2 DEF BeforeHooksEffect
<1>11. CASE SendEffect(c)
  BY <1>t, <1>11 DEF SendEffect
<1>12. CASE AbandonedEffect(c)
  BY <1>t, <1>12 DEF AbandonedEffect
<1>13. CASE ClassifiedEffect(c)
  BY <1>t, <1>13 DEF ClassifiedEffect
<1>14. CASE AfterHooksEffect(c)
  BY <1>t, <1>14 DEF AfterHooksEffect
<1>15. CASE ShortCircuitEffect(c)
  BY <1>t, <1>15 DEF ShortCircuitEffect
<1>16. CASE DeliverSuccessEffect(c)
  BY <1>t, <1>16 DEF DeliverSuccessEffect
<1>17. CASE DeliverFatalEffect(c)
  BY <1>t, <1>17 DEF DeliverFatalEffect
<1>18. CASE RefuseRetryEffect(c)
  BY <1>t, <1>18 DEF RefuseRetryEffect
<1>19. CASE SpendTokenEffect(c)
  BY <1>t, <1>19 DEF SpendTokenEffect
<1>20. CASE RetryAfterTooLongEffect(c)
  BY <1>t, <1>20 DEF RetryAfterTooLongEffect
<1>21. CASE ChooseDelayEffect(c)
  BY <1>t, <1>21 DEF ChooseDelayEffect
<1>22. CASE PauseCheckEffect(c)
  BY <1>t, <1>22 DEF PauseCheckEffect
<1>23. CASE SleepEffect(c)
  BY <1>t, <1>23 DEF SleepEffect
<1>24. CASE SleepCanceledEffect(c)
  BY <1>t, <1>24 DEF SleepCanceledEffect
<1>25. CASE RecheckEffect(c)
  BY <1>t, <1>25 DEF RecheckEffect
<1>26. CASE ReconcileHooksEffect(c)
  <2>1. CASE Moves(c, "reconcile", "attempt") /\ SameAtt(c) /\ SameRet(c) /\ SameHeld(c)
    BY <1>t, <2>1
  <2>2. ASSUME NEW v, Finishes(c, v, "reconciled") PROVE HoldInv(c)'
    BY <1>t, <2>2
  <2> QED
    BY ONLY <1>26, <2>1, <2>2 DEF ReconcileHooksEffect
<1>27. CASE GiveUpHooksEffect(c)
  BY <1>t, <1>27 DEF GiveUpHooksEffect
<1>28. CASE GiveUpEffect(c)
  BY <1>t, <1>28 DEF GiveUpEffect
<1>29. CASE PanicEffect(c)
  BY <1>t, <1>29 DEF PanicEffect, UserCode
<1>30. CASE LateCommitEffect(c)
  BY <1>t, <1>30 DEF LateCommitEffect
<1> QED
  BY <1>t, <1>1, <1>2, <1>3, <1>4, <1>5, <1>6, <1>7, <1>8, <1>9, <1>10, <1>11, <1>12,
     <1>13, <1>14, <1>15, <1>16, <1>17, <1>18, <1>19, <1>20, <1>21, <1>22, <1>23,
     <1>24, <1>25, <1>26, <1>27, <1>28, <1>29, <1>30, StepEffect DEF Effect

-----------------------------------------------------------------------------
(* The gate: a call on its way to the wire acts on a healthy reading taken  *)
(* after its last sleep, and has sent nothing in an outage that began since.*)

Cleared(c) ==
  \/ pc[c] \in {"jitter", "before", "send", "reconcile"}
  \/ pc[c] = "attempt" /\ att[c].n > 0

GateInv(c) ==
  /\ log[c].leaks <= 1
  /\ ~cfg[c].gated => log[c].leaks = 0
  /\ cfg[c].gated /\ Cleared(c) => log[c].fresh /\ (gate = "unhealthy" => log[c].leaks = 0)

\* A step of a call keeps its reading of the gate fresh and its leaks bounded.
LEMMA StepGate ==
  ASSUME TypeOK, NEW c \in Calls, CountInv(c), GateInv(c),
         Step(c) \/ Panic(c) \/ LateCommit(c)
  PROVE  GateInv(c)'
<1> USE DEF GateInv, Cleared, Moves, Returns, Rejects, Settled, AttIs, SameAtt, SeenIs,
            LeaksAfter, SameLog, Finishes, Delivers
<1>t. /\ att[c].n \in Nat /\ log[c].leaks \in Nat /\ log[c].fresh \in BOOLEAN
      /\ cfg[c].gated \in BOOLEAN /\ gate \in {"healthy", "unhealthy"} /\ cfg' = cfg
  BY FieldTypes, StepEffect DEF Alone
<1>1. CASE StartEffect(c)
  BY <1>t, <1>1 DEF StartEffect
<1>2. CASE PrepareBodyEffect(c)
  BY <1>t, <1>2 DEF PrepareBodyEffect, CountInv
<1>3. CASE BeginAttemptEffect(c)
  BY <1>t, <1>3 DEF BeginAttemptEffect
<1>4. CASE GetBodyFailsEffect(c)
  BY <1>t, <1>4 DEF GetBodyFailsEffect
<1>5. CASE GateAtStartEffect(c)
  BY <1>t, <1>5 DEF GateAtStartEffect
<1>6. CASE AwaitRecoveredEffect(c)
  BY <1>t, <1>6 DEF AwaitRecoveredEffect
<1>7. CASE AwaitTimeoutEffect(c)
  BY <1>t, <1>7 DEF AwaitTimeoutEffect
<1>8. CASE AwaitCanceledEffect(c)
  BY <1>t, <1>8 DEF AwaitCanceledEffect
<1>9. CASE JitterDoneEffect(c)
  BY <1>t, <1>9 DEF JitterDoneEffect
<1>10. CASE BeforeHooksEffect(c)
  BY <1>t, <1>10 DEF BeforeHooksEffect
<1>11. CASE SendEffect(c)
  BY <1>t, <1>11 DEF SendEffect
<1>12. CASE AbandonedEffect(c)
  BY <1>t, <1>12 DEF AbandonedEffect
<1>13. CASE ClassifiedEffect(c)
  BY <1>t, <1>13 DEF ClassifiedEffect
<1>14. CASE AfterHooksEffect(c)
  BY <1>t, <1>14 DEF AfterHooksEffect
<1>15. CASE ShortCircuitEffect(c)
  BY <1>t, <1>15 DEF ShortCircuitEffect
<1>16. CASE DeliverSuccessEffect(c)
  BY <1>t, <1>16 DEF DeliverSuccessEffect
<1>17. CASE DeliverFatalEffect(c)
  BY <1>t, <1>17 DEF DeliverFatalEffect
<1>18. CASE RefuseRetryEffect(c)
  BY <1>t, <1>18 DEF RefuseRetryEffect
<1>19. CASE SpendTokenEffect(c)
  BY <1>t, <1>19 DEF SpendTokenEffect
<1>20. CASE RetryAfterTooLongEffect(c)
  BY <1>t, <1>20 DEF RetryAfterTooLongEffect
<1>21. CASE ChooseDelayEffect(c)
  BY <1>t, <1>21 DEF ChooseDelayEffect
<1>22. CASE PauseCheckEffect(c)
  BY <1>t, <1>22 DEF PauseCheckEffect, Tripped
<1>23. CASE SleepEffect(c)
  BY <1>t, <1>23 DEF SleepEffect
<1>24. CASE SleepCanceledEffect(c)
  BY <1>t, <1>24 DEF SleepCanceledEffect
<1>25. CASE RecheckEffect(c)
  BY <1>t, <1>25 DEF RecheckEffect, Tripped
<1>26. CASE ReconcileHooksEffect(c)
  BY <1>t, <1>26 DEF ReconcileHooksEffect
<1>27. CASE GiveUpHooksEffect(c)
  BY <1>t, <1>27 DEF GiveUpHooksEffect
<1>28. CASE GiveUpEffect(c)
  BY <1>t, <1>28 DEF GiveUpEffect
<1>29. CASE PanicEffect(c)
  BY <1>t, <1>29 DEF PanicEffect, UserCode
<1>30. CASE LateCommitEffect(c)
  BY <1>t, <1>30 DEF LateCommitEffect
<1> QED
  BY <1>t, <1>1, <1>2, <1>3, <1>4, <1>5, <1>6, <1>7, <1>8, <1>9, <1>10, <1>11, <1>12,
     <1>13, <1>14, <1>15, <1>16, <1>17, <1>18, <1>19, <1>20, <1>21, <1>22, <1>23,
     <1>24, <1>25, <1>26, <1>27, <1>28, <1>29, <1>30, StepEffect DEF Effect

-----------------------------------------------------------------------------
(* The invariants hold for every call in every state.                       *)

CallInv(c) == CountInv(c) /\ HistoryInv(c) /\ TokenInv(c) /\ HoldInv(c) /\ GateInv(c)

EngineInv == \A c \in Calls : CallInv(c)

\* A call that a step does not touch keeps its invariants: a new outage resets its
\* leaks, so it never has one to answer for.
LEMMA UntouchedInv ==
  ASSUME TypeOK, NEW d \in Calls, CallInv(d), Untouched(d), cfg' = cfg
  PROVE  CallInv(d)'
<1> USE DEF Untouched, AtGate, Built, Granted, CallIs, AttIs, RetIs, SameCall, SameAtt,
            SameWait, SameRet
<1>1. CountInv(d)'
  BY DEF CallInv, CountInv
<1>2. HistoryInv(d)'
  BY DEF CallInv, HistoryInv
<1>3. TokenInv(d)'
  BY DEF CallInv, TokenInv, SameLog, SameTold, ToldIs
<1>4. HoldInv(d)'
  BY DEF CallInv, HoldInv, SameLog, SameHeld, HeldIs
<1>5. GateInv(d)'
  BY FieldTypes DEF CallInv, GateInv, Cleared, SameLog, SeenIs, LeaksAfter
<1> QED
  BY <1>1, <1>2, <1>3, <1>4, <1>5 DEF CallInv

\* Every state keeps every call's counters, history, payments, resources and gate
\* readings in agreement.
THEOREM EngineInvariant == Spec => []EngineInv
<1>1. Init => EngineInv
  <2> SUFFICES ASSUME Init, NEW c \in Calls PROVE CallInv(c)
    BY DEF EngineInv
  <2>1. cfg[c].maxAttempts >= 1 /\ cfg[c].maxAttempts \in Int
    BY NewConfig DEF Init, Configs, OptionType
  <2>2. /\ pc[c] = "idle" /\ att[c].n = 0 /\ ~att[c].done
        /\ call[c].attempts = 0 /\ call[c].history = <<>>
        /\ ret[c].reason = "none" /\ ret[c].result = "none" /\ ret[c].kind = "none"
        /\ log[c].owned = {} /\ log[c].closed = {} /\ log[c].paid = 0 /\ log[c].leaks = 0
    BY DEF Init, NewAttempt, NewCall, NoReturn, NewLog
  <2>3. CountInv(c) /\ HistoryInv(c)
    BY <2>1, <2>2 DEF CountInv, HistoryInv, AtGate, Built, Granted
  <2>4. TokenInv(c) /\ HoldInv(c) /\ GateInv(c)
    BY <2>2 DEF TokenInv, HoldInv, AtGate, GateInv, Cleared
  <2> QED
    BY <2>3, <2>4 DEF CallInv
<1>2. TypeOK /\ EngineInv /\ [Next]_vars => EngineInv'
  <2> SUFFICES ASSUME TypeOK, EngineInv, [Next]_vars, NEW d \in Calls PROVE CallInv(d)'
    BY DEF EngineInv
  <2>1. CallInv(d)
    BY DEF EngineInv
  <2>2. ASSUME NEW c \in Calls, Step(c) \/ Panic(c) \/ LateCommit(c) PROVE CallInv(d)'
    <3>1. CASE d = c
      BY <2>1, <2>2, <3>1, StepCount, StepHistory, StepToken, StepHold, StepGate DEF CallInv
    <3>2. CASE d # c
      BY <2>1, <2>2, <3>2, StepEffect, UntouchedInv DEF Alone
    <3> QED
      BY <3>1, <3>2
  <2>3. CASE GateFlips \/ (\E c \in Calls : CancelCtx(c)) \/ UNCHANGED vars
    BY <2>1, <2>3, QuietMove, UntouchedInv
  <2> QED
    BY <2>2, <2>3 DEF Next
<1> QED
  BY <1>1, <1>2, TypeCorrect, PTL DEF Spec

\* No response or context is held while a call waits or after it has returned, no
\* drained response is handed back, and at most one attempt is built and not sent.
THEOREM ResourceSafety == Spec => []ResourcesReleased
<1>1. ASSUME TypeOK, EngineInv PROVE ResourcesReleased
  <2> SUFFICES ASSUME NEW c \in Calls
               PROVE  /\ pc[c] \in {"pause", "sleep", "recheck", "await", "jitter",
                                    "reconcile", "attempt"} => log[c].owned = {}
                      /\ pc[c] = "done" /\ ret[c].result # "panic" => log[c].owned = {}
                      /\ ret[c].kind = "response" => att[c].n \notin log[c].closed
                      /\ pc[c] = "done" => att[c].n - call[c].attempts
                           \in {0, IF ret[c].result \in Unsent THEN 1 ELSE 0}
    BY DEF ResourcesReleased
  <2>1. CountInv(c) /\ HoldInv(c)
    BY <1>1 DEF EngineInv, CallInv
  <2>2. att[c].n \in Nat /\ call[c].attempts \in Nat
    BY <1>1, FieldTypes
  <2>3. pc[c] = "done" => att[c].n - call[c].attempts
                            \in {0, IF ret[c].result \in Unsent THEN 1 ELSE 0}
    BY <2>1, <2>2 DEF CountInv
  <2> QED
    BY <2>1, <2>3 DEF HoldInv
<1> QED
  BY <1>1, EngineInvariant, TypeCorrect, PTL

\* A call forfeits at most one retry token, and its result says when it may have.
THEOREM TokenSafety == Spec => []TokensAccounted
<1>1. ASSUME TypeOK, EngineInv PROVE TokensAccounted
  <2> SUFFICES ASSUME NEW c \in Calls, cfg[c].budgeted, pc[c] = "done"
               PROVE  /\ log[c].paid <= call[c].attempts
                      /\ ret[c].result \notin Forfeiting => log[c].paid + 1 = call[c].attempts
    BY DEF TokensAccounted
  <2>1. log[c].paid \in Nat /\ call[c].attempts \in Nat
    BY <1>1, FieldTypes
  <2> QED
    BY <1>1, <2>1 DEF EngineInv, CallInv, TokenInv
<1> QED
  BY <1>1, EngineInvariant, TypeCorrect, PTL

\* A gated call reaches the hooks and the wire only on a reading of the gate taken
\* after its last sleep.
THEOREM GateSafety == Spec => []FreshReading
<1>1. ASSUME EngineInv PROVE FreshReading
  BY <1>1 DEF EngineInv, CallInv, GateInv, Cleared, FreshReading
<1> QED
  BY <1>1, EngineInvariant, PTL

\* However often the gate flips while a call sleeps, waits and sits out its release
\* jitter, the call sends at most one request into an outage.
THEOREM LeakSafety == Spec => []AtMostOneLeak
<1>1. ASSUME EngineInv PROVE AtMostOneLeak
  BY <1>1 DEF EngineInv, CallInv, GateInv, AtMostOneLeak
<1> QED
  BY <1>1, EngineInvariant, PTL

-----------------------------------------------------------------------------
(* The calls-in-flight gauge.                                               *)

\* A step lets a call into RoundTrip, lets it out, or leaves it where it is, and
\* the gauge follows.
LEMMA GaugeFollows ==
  ASSUME TypeOK, NEW c \in Calls, Step(c) \/ Panic(c) \/ LateCommit(c)
  PROVE  \/ ~Running(c) /\ Running(c)' /\ inFlight' = inFlight + 1
         \/ Running(c) /\ ~Running(c)' /\ inFlight' = inFlight - 1
         \/ (Running(c)' <=> Running(c)) /\ inFlight' = inFlight
<1> USE DEF Running, Moves, Returns, Rejects, Finishes, Delivers
<1>1. CASE StartEffect(c)
  BY <1>1 DEF StartEffect
<1>2. CASE PrepareBodyEffect(c)
  BY <1>2 DEF PrepareBodyEffect
<1>3. CASE BeginAttemptEffect(c)
  BY <1>3 DEF BeginAttemptEffect
<1>4. CASE GetBodyFailsEffect(c)
  BY <1>4 DEF GetBodyFailsEffect
<1>5. CASE GateAtStartEffect(c)
  BY <1>5 DEF GateAtStartEffect
<1>6. CASE AwaitRecoveredEffect(c)
  BY <1>6 DEF AwaitRecoveredEffect
<1>7. CASE AwaitTimeoutEffect(c)
  BY <1>7 DEF AwaitTimeoutEffect
<1>8. CASE AwaitCanceledEffect(c)
  BY <1>8 DEF AwaitCanceledEffect
<1>9. CASE JitterDoneEffect(c)
  BY <1>9 DEF JitterDoneEffect
<1>10. CASE BeforeHooksEffect(c)
  BY <1>10 DEF BeforeHooksEffect
<1>11. CASE SendEffect(c)
  BY <1>11 DEF SendEffect
<1>12. CASE AbandonedEffect(c)
  BY <1>12 DEF AbandonedEffect
<1>13. CASE ClassifiedEffect(c)
  BY <1>13 DEF ClassifiedEffect
<1>14. CASE AfterHooksEffect(c)
  BY <1>14 DEF AfterHooksEffect
<1>15. CASE ShortCircuitEffect(c)
  BY <1>15 DEF ShortCircuitEffect
<1>16. CASE DeliverSuccessEffect(c)
  BY <1>16 DEF DeliverSuccessEffect
<1>17. CASE DeliverFatalEffect(c)
  BY <1>17 DEF DeliverFatalEffect
<1>18. CASE RefuseRetryEffect(c)
  BY <1>18 DEF RefuseRetryEffect
<1>19. CASE SpendTokenEffect(c)
  BY <1>19 DEF SpendTokenEffect
<1>20. CASE RetryAfterTooLongEffect(c)
  BY <1>20 DEF RetryAfterTooLongEffect
<1>21. CASE ChooseDelayEffect(c)
  BY <1>21 DEF ChooseDelayEffect
<1>22. CASE PauseCheckEffect(c)
  BY <1>22 DEF PauseCheckEffect
<1>23. CASE SleepEffect(c)
  BY <1>23 DEF SleepEffect
<1>24. CASE SleepCanceledEffect(c)
  BY <1>24 DEF SleepCanceledEffect
<1>25. CASE RecheckEffect(c)
  BY <1>25 DEF RecheckEffect
<1>26. CASE ReconcileHooksEffect(c)
  BY <1>26 DEF ReconcileHooksEffect
<1>27. CASE GiveUpHooksEffect(c)
  BY <1>27 DEF GiveUpHooksEffect
<1>28. CASE GiveUpEffect(c)
  BY <1>28 DEF GiveUpEffect
<1>29. CASE PanicEffect(c)
  BY <1>29 DEF PanicEffect, UserCode
<1>30. CASE LateCommitEffect(c)
  BY <1>30 DEF LateCommitEffect
<1> QED
  BY <1>1, <1>2, <1>3, <1>4, <1>5, <1>6, <1>7, <1>8, <1>9, <1>10, <1>11, <1>12,
     <1>13, <1>14, <1>15, <1>16, <1>17, <1>18, <1>19, <1>20, <1>21, <1>22, <1>23,
     <1>24, <1>25, <1>26, <1>27, <1>28, <1>29, <1>30, StepEffect DEF Effect

GaugeInv == IsFiniteSet({c \in Calls : Running(c)}) /\ InFlightGauge

\* calls_in_flight is the number of calls inside RoundTrip, for any set of calls and
\* through every panic, cancellation and give-up.
THEOREM GaugeSafety == Spec => []InFlightGauge
<1> DEFINE R == {c \in Calls : Running(c)}
<1>1. Init => GaugeInv
  <2> SUFFICES ASSUME Init PROVE GaugeInv
    OBVIOUS
  <2>1. R = {}
    BY DEF Init, Running
  <2> QED
    BY <2>1, FS_EmptySet DEF Init, GaugeInv, InFlightGauge
<1>2. TypeOK /\ GaugeInv /\ [Next]_vars => GaugeInv'
  <2> SUFFICES ASSUME TypeOK, GaugeInv, [Next]_vars PROVE GaugeInv'
    OBVIOUS
  <2>1. IsFiniteSet(R) /\ inFlight = Cardinality(R)
    BY DEF GaugeInv, InFlightGauge
  <2>2. Cardinality(R) \in Nat
    BY <2>1, FS_CardinalityType
  <2>3. ASSUME NEW c \in Calls, Step(c) \/ Panic(c) \/ LateCommit(c) PROVE GaugeInv'
    <3>1. \A d \in Calls : d # c => (Running(d)' <=> Running(d))
      BY <2>3, StepEffect DEF Alone, Untouched, Running
    <3>2. CASE ~Running(c) /\ Running(c)' /\ inFlight' = inFlight + 1
      <4>1. R' = R \cup {c} /\ c \notin R
        BY <3>1, <3>2
      <4>2. IsFiniteSet(R') /\ Cardinality(R') = Cardinality(R) + 1
        BY ONLY <2>1, <4>1, FS_AddElement
      <4> QED
        BY <2>1, <3>2, <4>2 DEF GaugeInv, InFlightGauge
    <3>3. CASE Running(c) /\ ~Running(c)' /\ inFlight' = inFlight - 1
      <4>1. R' = R \ {c} /\ c \in R
        BY <3>1, <3>3
      <4>2. IsFiniteSet(R') /\ Cardinality(R') = Cardinality(R) - 1
        BY ONLY <2>1, <4>1, FS_RemoveElement
      <4> QED
        BY <2>1, <3>3, <4>2 DEF GaugeInv, InFlightGauge
    <3>4. CASE (Running(c)' <=> Running(c)) /\ inFlight' = inFlight
      <4>1. R' = R
        BY <3>1, <3>4
      <4> QED
        BY <2>1, <3>4, <4>1 DEF GaugeInv, InFlightGauge
    <3> QED
      BY <2>3, <3>2, <3>3, <3>4, GaugeFollows
  <2>4. CASE GateFlips \/ (\E c \in Calls : CancelCtx(c)) \/ UNCHANGED vars
    <3>1. R' = R /\ inFlight' = inFlight
      BY <2>4, QuietMove DEF Untouched, Running
    <3> QED
      BY <2>1, <3>1 DEF GaugeInv, InFlightGauge
  <2> QED
    BY <2>3, <2>4 DEF Next
<1>3. GaugeInv => InFlightGauge
  BY DEF GaugeInv
<1> QED
  BY <1>1, <1>2, <1>3, TypeCorrect, PTL DEF Spec
=============================================================================
