---------------------------- MODULE DecisionProofs ----------------------------
(***************************************************************************)
(* What the retry engine decides, for any number of calls: it resends only  *)
(* after outcomes that permit it, its results say what happened, a guarded  *)
(* request takes effect at most once, and each step of a call is seen by    *)
(* its caller and its observers as a step that CallProtocol allows.         *)
(***************************************************************************)
EXTENDS EngineProofs

-----------------------------------------------------------------------------
(* Decisions.                                                               *)

\* The k-th outcome of the call permits another attempt.
Permits(c, k) ==
  /\ call[c].history[k] \in Retryable
  /\ call[c].history[k] = "unknown" =>
       Safe(c) \/ k \in log[c].probed \/ cfg[c].reconcile \in Trusting

\* The last outcome, as the history records it, is the attempt's and retryable.
LastRetryable(c) ==
  /\ call[c].history[Len(call[c].history)] = att[c].outcome
  /\ att[c].outcome \in Retryable

\* What a reason to give up says about the call.
ReasonInv(c) ==
  pc[c] = "giveup" =>
    /\ ret[c].reason # "none"
    /\ ret[c].reason = "exhausted" => call[c].attempts = cfg[c].maxAttempts
    /\ ret[c].reason # "exhausted" => call[c].attempts < cfg[c].maxAttempts
    /\ ret[c].reason # "unhealthy" => call[c].attempts >= 1
    /\ ret[c].reason = "unsafe" => att[c].outcome = "unknown" /\ ~Safe(c)
    /\ call[c].attempts >= 1 => LastRetryable(c)

\* Every outcome but that of the current attempt permitted another one, and so did
\* that one once the next attempt is to be built.
PastInv(c) ==
  \A k \in 1 .. Len(call[c].history) :
    k < att[c].n \/ pc[c] = "attempt" => Permits(c, k)

\* A retry is granted after a retryable outcome only, and after an Unknown one of a
\* request that is not replay safe only if a probe is to tell what happened.
GrantInv(c) ==
  /\ pc[c] = "decide" => call[c].history[Len(call[c].history)] = att[c].outcome
  /\ Granted(c) => LastRetryable(c)
  /\ Granted(c) /\ att[c].outcome = "unknown" => Safe(c) \/ cfg[c].reconcile # "none"

\* What the result of a call says about it.
ResultInv(c) ==
  /\ pc[c] = "after" /\ att[c].outcome = "success" => ~HasErr(att[c].reply)
  /\ pc[c] = "decide" /\ att[c].outcome = "success" /\ cfg[c].after # "custom"
       => ~HasErr(att[c].reply)
  /\ pc[c] = "done" =>
       /\ ret[c].result = "success" /\ cfg[c].after # "custom" => ret[c].kind = "response"
       /\ ret[c].result = "unsafe_to_retry" => ~Safe(c)
       /\ ret[c].result = "reconciled" /\ cfg[c].reconcile # "custom" => applied[c] # {}

\* A step of a call keeps what its reason to give up says true.
LEMMA StepReason ==
  ASSUME TypeOK, NEW c \in Calls, CallInv(c), GrantInv(c), ReasonInv(c),
         Step(c) \/ Panic(c) \/ LateCommit(c)
  PROVE  ReasonInv(c)'
<1> USE DEF ReasonInv, LastRetryable, Safe, Moves, Returns, Rejects, CallIs, AttIs, RetIs, SameCall,
            SameAtt, SameRet, Finishes, Delivers
<1>t. /\ att[c].n \in Nat /\ call[c].attempts \in Nat /\ cfg[c].maxAttempts \in Int
      /\ wait[c].at \in {"start", "retry"} /\ cfg' = cfg /\ req' = req
  BY FieldTypes, StepEffect DEF Alone
<1>c. CountInv(c) /\ GrantInv(c)
  BY DEF CallInv
<1>1. CASE StartEffect(c)
  BY <1>t, <1>c, <1>1 DEF StartEffect
<1>2. CASE PrepareBodyEffect(c)
  BY <1>t, <1>c, <1>2 DEF PrepareBodyEffect
<1>3. CASE BeginAttemptEffect(c)
  BY <1>t, <1>c, <1>3 DEF BeginAttemptEffect
<1>4. CASE GetBodyFailsEffect(c)
  BY <1>t, <1>c, <1>4 DEF GetBodyFailsEffect
<1>5. CASE GateAtStartEffect(c)
  BY <1>t, <1>c, <1>5 DEF GateAtStartEffect, CountInv, GrantInv, Built, AtGate
<1>6. CASE AwaitRecoveredEffect(c)
  BY <1>t, <1>c, <1>6 DEF AwaitRecoveredEffect
<1>7. CASE AwaitTimeoutEffect(c)
  BY <1>t, <1>c, <1>7 DEF AwaitTimeoutEffect, CountInv, GrantInv, Granted, Built,
     AtGate
<1>8. CASE AwaitCanceledEffect(c)
  BY <1>t, <1>c, <1>8 DEF AwaitCanceledEffect
<1>9. CASE JitterDoneEffect(c)
  BY <1>t, <1>c, <1>9 DEF JitterDoneEffect
<1>10. CASE BeforeHooksEffect(c)
  BY <1>t, <1>c, <1>10 DEF BeforeHooksEffect
<1>11. CASE SendEffect(c)
  BY <1>t, <1>c, <1>11 DEF SendEffect
<1>12. CASE AbandonedEffect(c)
  BY <1>t, <1>c, <1>12 DEF AbandonedEffect
<1>13. CASE ClassifiedEffect(c)
  BY <1>t, <1>c, <1>13 DEF ClassifiedEffect
<1>14. CASE AfterHooksEffect(c)
  BY <1>t, <1>c, <1>14 DEF AfterHooksEffect
<1>15. CASE ShortCircuitEffect(c)
  BY <1>t, <1>c, <1>15 DEF ShortCircuitEffect
<1>16. CASE DeliverSuccessEffect(c)
  BY <1>t, <1>c, <1>16 DEF DeliverSuccessEffect
<1>17. CASE DeliverFatalEffect(c)
  BY <1>t, <1>c, <1>17 DEF DeliverFatalEffect
<1>18. CASE RefuseRetryEffect(c)
  BY <1>t, <1>c, <1>18 DEF RefuseRetryEffect, CountInv, GrantInv, Built, AtGate
<1>19. CASE SpendTokenEffect(c)
  BY <1>t, <1>c, <1>19 DEF SpendTokenEffect
<1>20. CASE RetryAfterTooLongEffect(c)
  BY <1>t, <1>c, <1>20 DEF RetryAfterTooLongEffect, CountInv, GrantInv, Granted,
     Built, AtGate
<1>21. CASE ChooseDelayEffect(c)
  BY <1>t, <1>c, <1>21 DEF ChooseDelayEffect
<1>22. CASE PauseCheckEffect(c)
  BY <1>t, <1>c, <1>22 DEF PauseCheckEffect, CountInv, GrantInv, Granted, Built,
     AtGate
<1>23. CASE SleepEffect(c)
  BY <1>t, <1>c, <1>23 DEF SleepEffect
<1>24. CASE SleepCanceledEffect(c)
  BY <1>t, <1>c, <1>24 DEF SleepCanceledEffect
<1>25. CASE RecheckEffect(c)
  BY <1>t, <1>c, <1>25 DEF RecheckEffect, CountInv, GrantInv, Granted, Built, AtGate
<1>26. CASE ReconcileHooksEffect(c)
  BY <1>t, <1>c, <1>26 DEF ReconcileHooksEffect
<1>27. CASE GiveUpHooksEffect(c)
  BY <1>t, <1>c, <1>27 DEF GiveUpHooksEffect
<1>28. CASE GiveUpEffect(c)
  BY <1>t, <1>c, <1>28 DEF GiveUpEffect
<1>29. CASE PanicEffect(c)
  BY <1>t, <1>c, <1>29 DEF PanicEffect, UserCode
<1>30. CASE LateCommitEffect(c)
  BY <1>t, <1>c, <1>30 DEF LateCommitEffect
<1> QED
  BY <1>t, <1>c, <1>1, <1>2, <1>3, <1>4, <1>5, <1>6, <1>7, <1>8, <1>9, <1>10, <1>11,
     <1>12, <1>13, <1>14, <1>15, <1>16, <1>17, <1>18, <1>19, <1>20, <1>21, <1>22,
     <1>23, <1>24, <1>25, <1>26, <1>27, <1>28, <1>29, <1>30, StepEffect DEF Effect

\* A step of a call grants a retry only after an outcome that permits it.
LEMMA StepGrant ==
  ASSUME TypeOK, NEW c \in Calls, GrantInv(c), Step(c) \/ Panic(c) \/ LateCommit(c)
  PROVE  GrantInv(c)'
<1> USE DEF GrantInv, Granted, LastRetryable, Safe, Moves, Returns, Rejects, CallIs, AttIs,
            SameCall, SameAtt, SameWait, Finishes, Delivers, Settled
<1>t. /\ wait[c].at \in {"start", "retry"} /\ cfg' = cfg /\ req' = req
      /\ call[c].history \in Seq(Outcome)
  BY FieldTypes, StepEffect DEF Alone
<1>1. CASE StartEffect(c)
  BY <1>t, <1>1 DEF StartEffect
<1>2. CASE PrepareBodyEffect(c)
  BY <1>t, <1>2 DEF PrepareBodyEffect
<1>3. CASE BeginAttemptEffect(c)
  BY <1>t, <1>3 DEF BeginAttemptEffect
<1>4. CASE GetBodyFailsEffect(c)
  BY <1>t, <1>4 DEF GetBodyFailsEffect
<1>5. CASE GateAtStartEffect(c)
  BY <1>t, <1>5 DEF GateAtStartEffect
<1>6. CASE AwaitRecoveredEffect(c)
  BY <1>t, <1>6 DEF AwaitRecoveredEffect
<1>7. CASE AwaitTimeoutEffect(c)
  BY <1>t, <1>7 DEF AwaitTimeoutEffect
<1>8. CASE AwaitCanceledEffect(c)
  BY <1>t, <1>8 DEF AwaitCanceledEffect
<1>9. CASE JitterDoneEffect(c)
  BY <1>t, <1>9 DEF JitterDoneEffect
<1>10. CASE BeforeHooksEffect(c)
  BY <1>t, <1>10 DEF BeforeHooksEffect
<1>11. CASE SendEffect(c)
  BY <1>t, <1>11 DEF SendEffect
<1>12. CASE AbandonedEffect(c)
  BY <1>t, <1>12 DEF AbandonedEffect
<1>13. CASE ClassifiedEffect(c)
  BY <1>t, <1>13 DEF ClassifiedEffect
<1>14. CASE AfterHooksEffect(c)
  BY <1>t, <1>14 DEF AfterHooksEffect
<1>15. CASE ShortCircuitEffect(c)
  BY <1>t, <1>15 DEF ShortCircuitEffect
<1>16. CASE DeliverSuccessEffect(c)
  BY <1>t, <1>16 DEF DeliverSuccessEffect
<1>17. CASE DeliverFatalEffect(c)
  BY <1>t, <1>17 DEF DeliverFatalEffect
<1>18. CASE RefuseRetryEffect(c)
  BY <1>t, <1>18 DEF RefuseRetryEffect
<1>19. CASE SpendTokenEffect(c)
  BY <1>t, <1>19 DEF SpendTokenEffect
<1>20. CASE RetryAfterTooLongEffect(c)
  BY <1>t, <1>20 DEF RetryAfterTooLongEffect
<1>21. CASE ChooseDelayEffect(c)
  BY <1>t, <1>21 DEF ChooseDelayEffect
<1>22. CASE PauseCheckEffect(c)
  BY <1>t, <1>22 DEF PauseCheckEffect
<1>23. CASE SleepEffect(c)
  BY <1>t, <1>23 DEF SleepEffect
<1>24. CASE SleepCanceledEffect(c)
  BY <1>t, <1>24 DEF SleepCanceledEffect
<1>25. CASE RecheckEffect(c)
  BY <1>t, <1>25 DEF RecheckEffect
<1>26. CASE ReconcileHooksEffect(c)
  BY <1>t, <1>26 DEF ReconcileHooksEffect
<1>27. CASE GiveUpHooksEffect(c)
  BY <1>t, <1>27 DEF GiveUpHooksEffect
<1>28. CASE GiveUpEffect(c)
  BY <1>t, <1>28 DEF GiveUpEffect
<1>29. CASE PanicEffect(c)
  BY <1>t, <1>29 DEF PanicEffect, UserCode
<1>30. CASE LateCommitEffect(c)
  BY <1>t, <1>30 DEF LateCommitEffect
<1> QED
  BY <1>t, <1>1, <1>2, <1>3, <1>4, <1>5, <1>6, <1>7, <1>8, <1>9, <1>10, <1>11, <1>12,
     <1>13, <1>14, <1>15, <1>16, <1>17, <1>18, <1>19, <1>20, <1>21, <1>22, <1>23,
     <1>24, <1>25, <1>26, <1>27, <1>28, <1>29, <1>30, StepEffect DEF Effect

\* What permitted another attempt still does while the history stays: hooks only
\* ever add a declaration of idempotency, and probes an answer.
LEMMA PermitsStay ==
  ASSUME TypeOK, NEW c \in Calls, NEW k, Permits(c, k), cfg' = cfg, req' = req,
         call'[c].history[k] = call[c].history[k],
         call[c].idempotent => call'[c].idempotent, log[c].probed \subseteq log'[c].probed
  PROVE  Permits(c, k)'
BY DEF Permits, Safe, ReplaySafe

\* So a step that builds no attempt and adds no outcome keeps the past permitted.
LEMMA PastStays ==
  ASSUME TypeOK, NEW c \in Calls, PastInv(c), cfg' = cfg, req' = req,
         call'[c].history = call[c].history, call[c].idempotent => call'[c].idempotent,
         log[c].probed \subseteq log'[c].probed, att'[c].n = att[c].n,
         pc'[c] = "attempt" => pc[c] = "attempt"
  PROVE  PastInv(c)'
BY PermitsStay DEF PastInv

\* A step of a call adds an outcome to the past only when it permitted another try.
LEMMA StepPast ==
  ASSUME TypeOK, NEW c \in Calls, CallInv(c), GrantInv(c), PastInv(c),
         Step(c) \/ Panic(c) \/ LateCommit(c)
  PROVE  PastInv(c)'
<1> USE DEF Moves, Returns, Rejects, CallIs, AttIs, ToldIs, SameCall, SameAtt, SameTold, SameLog,
            Finishes, Delivers, Settled
<1>t. /\ cfg' = cfg /\ req' = req /\ call[c].history \in Seq(Outcome) /\ att[c].n \in Nat
      /\ call[c].attempts \in Nat /\ Len(call[c].history) \in Nat
  BY FieldTypes, StepEffect DEF Alone
<1>c. CountInv(c) /\ HistoryInv(c)
  BY DEF CallInv
<1>1. CASE StartEffect(c)
  BY <1>t, PastStays, <1>1 DEF StartEffect
<1>2. CASE PrepareBodyEffect(c)
  <2>1. Len(call[c].history) = 0 /\ call'[c].history = call[c].history
    BY <1>t, <1>c, <1>2 DEF PrepareBodyEffect, CountInv, HistoryInv, Built, AtGate
  <2> QED
    BY <1>t, <2>1 DEF PastInv
<1>3. CASE BeginAttemptEffect(c)
  <2>1. /\ pc[c] = "attempt" /\ call'[c].history = call[c].history
        /\ call'[c].idempotent = call[c].idempotent /\ log'[c].probed = log[c].probed
    BY <1>3 DEF BeginAttemptEffect
  <2>2. \A k \in 1 .. Len(call[c].history) : Permits(c, k)
    BY <2>1 DEF PastInv
  <2> QED
    BY <1>t, <2>1, <2>2, PermitsStay DEF PastInv
<1>4. CASE GetBodyFailsEffect(c)
  BY <1>t, PastStays, <1>4 DEF GetBodyFailsEffect
<1>5. CASE GateAtStartEffect(c)
  BY <1>t, PastStays, <1>5 DEF GateAtStartEffect
<1>6. CASE AwaitRecoveredEffect(c)
  BY <1>t, PastStays, <1>6 DEF AwaitRecoveredEffect
<1>7. CASE AwaitTimeoutEffect(c)
  BY <1>t, PastStays, <1>7 DEF AwaitTimeoutEffect
<1>8. CASE AwaitCanceledEffect(c)
  BY <1>t, PastStays, <1>8 DEF AwaitCanceledEffect
<1>9. CASE JitterDoneEffect(c)
  BY <1>t, PastStays, <1>9 DEF JitterDoneEffect
<1>10. CASE BeforeHooksEffect(c)
  BY <1>t, PastStays, <1>10 DEF BeforeHooksEffect
<1>11. CASE SendEffect(c)
  BY <1>t, PastStays, <1>11 DEF SendEffect
<1>12. CASE AbandonedEffect(c)
  BY <1>t, PastStays, <1>12 DEF AbandonedEffect
<1>13. CASE ClassifiedEffect(c)
  BY <1>t, PastStays, <1>13 DEF ClassifiedEffect
<1>14. CASE AfterHooksEffect(c)
  <2>1. PICK o \in AfterOutcomes(c) : call'[c].history = Append(call[c].history, o)
    BY <1>14 DEF AfterHooksEffect
  <2>2. /\ pc'[c] = "decide" /\ att'[c].n = att[c].n /\ log'[c].probed = log[c].probed
        /\ call'[c].idempotent = call[c].idempotent
    BY <1>14 DEF AfterHooksEffect
  <2>3. att[c].n = Len(call[c].history) + 1
    BY <1>t, <1>c, <1>14 DEF AfterHooksEffect, CountInv, HistoryInv, Built, AtGate
  <2>4. ASSUME NEW k \in 1 .. Len(call'[c].history), k < att[c].n
        PROVE  Permits(c, k)'
    <3>1. k \in 1 .. Len(call[c].history) /\ call'[c].history[k] = call[c].history[k]
      BY <1>t, <2>1, <2>3, <2>4
    <3> QED
      BY <1>t, <2>2, <2>4, <3>1, PermitsStay DEF PastInv
  <2> QED
    BY <2>2, <2>4 DEF PastInv
<1>15. CASE ShortCircuitEffect(c)
  BY <1>t, PastStays, <1>15 DEF ShortCircuitEffect
<1>16. CASE DeliverSuccessEffect(c)
  BY <1>t, PastStays, <1>16 DEF DeliverSuccessEffect
<1>17. CASE DeliverFatalEffect(c)
  BY <1>t, PastStays, <1>17 DEF DeliverFatalEffect
<1>18. CASE RefuseRetryEffect(c)
  BY <1>t, PastStays, <1>18 DEF RefuseRetryEffect
<1>19. CASE SpendTokenEffect(c)
  BY <1>t, PastStays, <1>19 DEF SpendTokenEffect
<1>20. CASE RetryAfterTooLongEffect(c)
  BY <1>t, PastStays, <1>20 DEF RetryAfterTooLongEffect
<1>21. CASE ChooseDelayEffect(c)
  BY <1>t, PastStays, <1>21 DEF ChooseDelayEffect
<1>22. CASE PauseCheckEffect(c)
  BY <1>t, PastStays, <1>22 DEF PauseCheckEffect
<1>23. CASE SleepEffect(c)
  BY <1>t, PastStays, <1>23 DEF SleepEffect
<1>24. CASE SleepCanceledEffect(c)
  BY <1>t, PastStays, <1>24 DEF SleepCanceledEffect
<1>25. CASE RecheckEffect(c)
  BY <1>t, PastStays, <1>25 DEF RecheckEffect
<1>26. CASE ReconcileHooksEffect(c)
  <2>1. CASE pc'[c] # "attempt"
    BY <1>t, <1>26, <2>1, PastStays DEF ReconcileHooksEffect
  <2>2. CASE pc'[c] = "attempt"
    <3>1. /\ call'[c].history = call[c].history /\ call'[c].idempotent = call[c].idempotent
          /\ att'[c].n = att[c].n /\ pc[c] = "reconcile"
          /\ \/ /\ log'[c].probed = log[c].probed
                /\ \/ ~(att[c].outcome = "unknown" /\ cfg[c].reconcile # "none")
                   \/ cfg[c].reconcile \in Trusting
             \/ log'[c].probed = log[c].probed \cup {att[c].n}
      BY <1>26, <2>2 DEF ReconcileHooksEffect
    <3>2. att[c].n = Len(call[c].history)
      BY <1>t, <1>c, <3>1 DEF CountInv, HistoryInv, Built, AtGate
    <3>3. /\ call[c].history[att[c].n] = att[c].outcome /\ att[c].outcome \in Retryable
          /\ att[c].outcome = "unknown" => Safe(c) \/ cfg[c].reconcile # "none"
      BY <3>1, <3>2 DEF GrantInv, Granted, LastRetryable
    <3>4. Permits(c, att[c].n)'
      BY <1>t, <3>1, <3>3 DEF Permits, Safe
    <3>5. ASSUME NEW k \in 1 .. Len(call[c].history), k # att[c].n PROVE Permits(c, k)'
      <4>1. k < att[c].n
        BY <1>t, <3>2, <3>5
      <4> QED
        BY <1>t, <3>1, <4>1, PermitsStay DEF PastInv
    <3> QED
      BY <3>1, <3>4, <3>5 DEF PastInv
  <2> QED
    BY <2>1, <2>2
<1>27. CASE GiveUpHooksEffect(c)
  BY <1>t, PastStays, <1>27 DEF GiveUpHooksEffect
<1>28. CASE GiveUpEffect(c)
  BY <1>t, PastStays, <1>28 DEF GiveUpEffect
<1>29. CASE PanicEffect(c)
  BY <1>t, PastStays, <1>29 DEF PanicEffect, UserCode
<1>30. CASE LateCommitEffect(c)
  BY <1>t, PastStays, <1>30 DEF LateCommitEffect
<1> QED
  BY <1>t, PastStays, <1>1, <1>2, <1>3, <1>4, <1>5, <1>6, <1>7, <1>8, <1>9, <1>10,
     <1>11, <1>12, <1>13, <1>14, <1>15, <1>16, <1>17, <1>18, <1>19, <1>20, <1>21,
     <1>22, <1>23, <1>24, <1>25, <1>26, <1>27, <1>28, <1>29, <1>30, StepEffect DEF
     Effect

\* A step of a call ends it only with a result that says what happened.
LEMMA StepResult ==
  ASSUME TypeOK, NEW c \in Calls, ReasonInv(c), ResultInv(c),
         Step(c) \/ Panic(c) \/ LateCommit(c)
  PROVE  ResultInv(c)'
<1> USE DEF ResultInv, Safe, Moves, Returns, Rejects, CallIs, AttIs, RetIs, SameCall, SameAtt,
            SameRet, SameEffects, Finishes, Delivers, Settled
<1>t. cfg' = cfg /\ req' = req
  BY StepEffect DEF Alone
<1>1. CASE StartEffect(c)
  BY <1>t, <1>1 DEF StartEffect
<1>2. CASE PrepareBodyEffect(c)
  BY <1>t, <1>2 DEF PrepareBodyEffect
<1>3. CASE BeginAttemptEffect(c)
  BY <1>t, <1>3 DEF BeginAttemptEffect
<1>4. CASE GetBodyFailsEffect(c)
  BY <1>t, <1>4 DEF GetBodyFailsEffect
<1>5. CASE GateAtStartEffect(c)
  BY <1>t, <1>5 DEF GateAtStartEffect
<1>6. CASE AwaitRecoveredEffect(c)
  BY <1>t, <1>6 DEF AwaitRecoveredEffect
<1>7. CASE AwaitTimeoutEffect(c)
  BY <1>t, <1>7 DEF AwaitTimeoutEffect
<1>8. CASE AwaitCanceledEffect(c)
  BY <1>t, <1>8 DEF AwaitCanceledEffect
<1>9. CASE JitterDoneEffect(c)
  BY <1>t, <1>9 DEF JitterDoneEffect
<1>10. CASE BeforeHooksEffect(c)
  BY <1>t, <1>10 DEF BeforeHooksEffect
<1>11. CASE SendEffect(c)
  BY <1>t, <1>11 DEF SendEffect
<1>12. CASE AbandonedEffect(c)
  BY <1>t, <1>12 DEF AbandonedEffect
<1>13. CASE ClassifiedEffect(c)
  BY <1>t, <1>13 DEF ClassifiedEffect, DefaultClassify
<1>14. CASE AfterHooksEffect(c)
  BY <1>t, <1>14 DEF AfterHooksEffect, AfterOutcomes
<1>15. CASE ShortCircuitEffect(c)
  BY <1>t, <1>15 DEF ShortCircuitEffect
<1>16. CASE DeliverSuccessEffect(c)
  BY <1>t, <1>16 DEF DeliverSuccessEffect
<1>17. CASE DeliverFatalEffect(c)
  BY <1>t, <1>17 DEF DeliverFatalEffect
<1>18. CASE RefuseRetryEffect(c)
  BY <1>t, <1>18 DEF RefuseRetryEffect
<1>19. CASE SpendTokenEffect(c)
  BY <1>t, <1>19 DEF SpendTokenEffect
<1>20. CASE RetryAfterTooLongEffect(c)
  BY <1>t, <1>20 DEF RetryAfterTooLongEffect
<1>21. CASE ChooseDelayEffect(c)
  BY <1>t, <1>21 DEF ChooseDelayEffect
<1>22. CASE PauseCheckEffect(c)
  BY <1>t, <1>22 DEF PauseCheckEffect
<1>23. CASE SleepEffect(c)
  BY <1>t, <1>23 DEF SleepEffect
<1>24. CASE SleepCanceledEffect(c)
  BY <1>t, <1>24 DEF SleepCanceledEffect
<1>25. CASE RecheckEffect(c)
  BY <1>t, <1>25 DEF RecheckEffect
<1>26. CASE ReconcileHooksEffect(c)
  BY <1>t, <1>26 DEF ReconcileHooksEffect
<1>27. CASE GiveUpHooksEffect(c)
  BY <1>t, <1>27 DEF GiveUpHooksEffect
<1>28. CASE GiveUpEffect(c)
  BY <1>t, <1>28 DEF GiveUpEffect, ReasonInv, ResultForReason
<1>29. CASE PanicEffect(c)
  BY <1>t, <1>29 DEF PanicEffect, UserCode
<1>30. CASE LateCommitEffect(c)
  BY <1>t, <1>30 DEF LateCommitEffect
<1> QED
  BY <1>t, <1>1, <1>2, <1>3, <1>4, <1>5, <1>6, <1>7, <1>8, <1>9, <1>10, <1>11, <1>12,
     <1>13, <1>14, <1>15, <1>16, <1>17, <1>18, <1>19, <1>20, <1>21, <1>22, <1>23,
     <1>24, <1>25, <1>26, <1>27, <1>28, <1>29, <1>30, StepEffect DEF Effect

-----------------------------------------------------------------------------
(* The decisions of every call in every state.                              *)

DecisionInv(c) == GrantInv(c) /\ PastInv(c) /\ ReasonInv(c) /\ ResultInv(c)

\* A call that a step does not touch keeps its decisions.
LEMMA UntouchedDecision ==
  ASSUME TypeOK, NEW d \in Calls, DecisionInv(d), Untouched(d), cfg' = cfg, req' = req
  PROVE  DecisionInv(d)'
<1> USE DEF Untouched, CallIs, AttIs, RetIs, SameCall, SameAtt, SameWait, SameRet
<1>1. GrantInv(d)'
  BY DEF DecisionInv, GrantInv, Granted, LastRetryable, Safe
<1>2. PastInv(d)'
  BY PastStays DEF DecisionInv, SameLog, SameTold, ToldIs
<1>3. ReasonInv(d)'
  BY DEF DecisionInv, ReasonInv, LastRetryable, Safe
<1>4. ResultInv(d)'
  BY DEF DecisionInv, ResultInv, Safe, SameEffects
<1> QED
  BY <1>1, <1>2, <1>3, <1>4 DEF DecisionInv

\* Every decision of every call is permitted and every reason and result true.
THEOREM DecisionInvariant == Spec => [](\A c \in Calls : DecisionInv(c))
<1> DEFINE Inv == \A c \in Calls : DecisionInv(c)
<1>1. Init => Inv
  <2> SUFFICES ASSUME Init, NEW c \in Calls PROVE DecisionInv(c)
    OBVIOUS
  <2>1. pc[c] = "idle" /\ call[c].history = <<>>
    BY DEF Init, NewCall
  <2> QED
    BY <2>1 DEF DecisionInv, GrantInv, Granted, PastInv, ReasonInv, ResultInv
<1>2. TypeOK /\ EngineInv /\ Inv /\ [Next]_vars => Inv'
  <2> SUFFICES ASSUME TypeOK, EngineInv, Inv, [Next]_vars, NEW d \in Calls
               PROVE  DecisionInv(d)'
    OBVIOUS
  <2>1. DecisionInv(d) /\ CallInv(d)
    BY DEF EngineInv
  <2>2. ASSUME NEW c \in Calls, Step(c) \/ Panic(c) \/ LateCommit(c) PROVE DecisionInv(d)'
    <3>1. CASE d = c
      BY <2>1, <2>2, <3>1, StepGrant, StepPast, StepReason, StepResult DEF DecisionInv
    <3>2. CASE d # c
      BY <2>1, <2>2, <3>2, StepEffect, UntouchedDecision DEF Alone
    <3> QED
      BY <3>1, <3>2
  <2>3. CASE GateFlips \/ (\E c \in Calls : CancelCtx(c)) \/ UNCHANGED vars
    BY <2>1, <2>3, QuietMove, UntouchedDecision
  <2> QED
    BY <2>2, <2>3 DEF Next
<1> QED
  BY <1>1, <1>2, TypeCorrect, EngineInvariant, PTL DEF Spec

\* No blind duplicate POST, whatever the number of calls and attempts: only outcomes
\* that permit it are followed by another attempt.
THEOREM ResendSafety == Spec => []NoBlindResend
<1>1. (\A c \in Calls : DecisionInv(c)) => NoBlindResend
  BY DEF DecisionInv, PastInv, Permits, NoBlindResend
<1> QED
  BY <1>1, DecisionInvariant, PTL

\* A result says what happened: to the response, the request and the downstream.
THEOREM ResultSafety == Spec => []ResultTruthful
<1>1. EngineInv /\ (\A c \in Calls : DecisionInv(c)) => ResultTruthful
  BY DEF EngineInv, CallInv, HistoryInv, DecisionInv, ResultInv, ResultTruthful
<1> QED
  BY <1>1, EngineInvariant, DecisionInvariant, PTL

-----------------------------------------------------------------------------
(* What the downstream has performed, or still may, at each point of do().  *)

\* Nothing the call sent has taken effect or can do so later.
Silent(c) == applied[c] \cup late[c] = {}

\* Attempts are operations of their own: only the engine's decisions keep a second
\* one from taking effect.
Unkeyed(c) == Guarded(c) /\ cfg[c].key # "per_call"

\* With a key per call the downstream sees one operation.
KeyedInv(c) == cfg[c].key = "per_call" => applied[c] \cup late[c] \subseteq {0}

\* Without one only the current attempt may have an effect, and whenever another
\* request is ahead, none has: its outcome says so, or a probe did.
OnceInv(c) ==
  Unkeyed(c) =>
    /\ ~call[c].idempotent
    /\ applied[c] \cup late[c] \subseteq {att[c].n}
    /\ pc[c] \in {"idle", "body", "attempt", "inflight"} \/ Built(c) => Silent(c)
    /\ (pc[c] \in {"after", "decide"} \/ Granted(c)) /\ att[c].outcome = "not_applied"
         => Silent(c)

\* A fail-closed probe of an ungated call runs after a wait that was long enough.
ProbeInv(c) ==
  Unkeyed(c) /\ cfg[c].reconcile # "none" =>
    /\ pc[c] \notin {"await", "jitter"}
    /\ pc[c] \in {"pause", "sleep"} => wait[c].delay > 0
    /\ pc[c] \in {"recheck", "reconcile"} => late[c] = {}

\* The downstream performs nothing for an answer that says so.
LEMMA NotAppliedMeansNever ==
  ASSUME NEW r, DefaultClassify(r) = "not_applied"
  PROVE  Effects(r) = {"never"}
BY DEF Effects

\* An answered request adds its own operation at most.
LEMMA PerformedAdds ==
  ASSUME NEW c \in Calls, NEW r, Performed(c, r)
  PROVE  /\ applied'[c] \cup late'[c] \subseteq applied[c] \cup late[c] \cup {OpId(c)}
         /\ DefaultClassify(r) = "not_applied" => SameEffects(c)
<1>1. applied'[c] \cup late'[c] \subseteq applied[c] \cup late[c] \cup {OpId(c)}
  BY DEF Performed
<1>2. DefaultClassify(r) = "not_applied" => SameEffects(c)
  BY NotAppliedMeansNever DEF Performed, SameEffects
<1> QED
  BY <1>1, <1>2

\* A step of a call with a key adds no second operation.
LEMMA StepKeyed ==
  ASSUME TypeOK, NEW c \in Calls, KeyedInv(c), Step(c) \/ Panic(c) \/ LateCommit(c)
  PROVE  KeyedInv(c)'
<1> USE DEF KeyedInv, SameEffects
<1>t. cfg' = cfg
  BY StepEffect DEF Alone
<1>1. CASE StartEffect(c)
  BY <1>t, <1>1 DEF StartEffect
<1>2. CASE PrepareBodyEffect(c)
  BY <1>t, <1>2 DEF PrepareBodyEffect
<1>3. CASE BeginAttemptEffect(c)
  BY <1>t, <1>3 DEF BeginAttemptEffect
<1>4. CASE GetBodyFailsEffect(c)
  BY <1>t, <1>4 DEF GetBodyFailsEffect
<1>5. CASE GateAtStartEffect(c)
  BY <1>t, <1>5 DEF GateAtStartEffect
<1>6. CASE AwaitRecoveredEffect(c)
  BY <1>t, <1>6 DEF AwaitRecoveredEffect
<1>7. CASE AwaitTimeoutEffect(c)
  BY <1>t, <1>7 DEF AwaitTimeoutEffect
<1>8. CASE AwaitCanceledEffect(c)
  BY <1>t, <1>8 DEF AwaitCanceledEffect
<1>9. CASE JitterDoneEffect(c)
  BY <1>t, <1>9 DEF JitterDoneEffect
<1>10. CASE BeforeHooksEffect(c)
  BY <1>t, <1>10 DEF BeforeHooksEffect
<1>11. CASE SendEffect(c)
  BY <1>t, <1>11 DEF SendEffect
<1>12. CASE AbandonedEffect(c)
  <2>1. applied'[c] \cup late'[c] \subseteq applied[c] \cup late[c] \cup {OpId(c)}
    BY <1>12, PerformedAdds DEF AbandonedEffect
  <2> QED
    BY <1>t, <2>1 DEF OpId
<1>13. CASE ClassifiedEffect(c)
  <2>1. applied'[c] \cup late'[c] \subseteq applied[c] \cup late[c] \cup {OpId(c)}
    BY <1>13, PerformedAdds DEF ClassifiedEffect
  <2> QED
    BY <1>t, <2>1 DEF OpId
<1>14. CASE AfterHooksEffect(c)
  BY <1>t, <1>14 DEF AfterHooksEffect
<1>15. CASE ShortCircuitEffect(c)
  BY <1>t, <1>15 DEF ShortCircuitEffect
<1>16. CASE DeliverSuccessEffect(c)
  BY <1>t, <1>16 DEF DeliverSuccessEffect
<1>17. CASE DeliverFatalEffect(c)
  BY <1>t, <1>17 DEF DeliverFatalEffect
<1>18. CASE RefuseRetryEffect(c)
  BY <1>t, <1>18 DEF RefuseRetryEffect
<1>19. CASE SpendTokenEffect(c)
  BY <1>t, <1>19 DEF SpendTokenEffect
<1>20. CASE RetryAfterTooLongEffect(c)
  BY <1>t, <1>20 DEF RetryAfterTooLongEffect
<1>21. CASE ChooseDelayEffect(c)
  BY <1>t, <1>21 DEF ChooseDelayEffect
<1>22. CASE PauseCheckEffect(c)
  BY <1>t, <1>22 DEF PauseCheckEffect
<1>23. CASE SleepEffect(c)
  BY <1>t, <1>23 DEF SleepEffect
<1>24. CASE SleepCanceledEffect(c)
  BY <1>t, <1>24 DEF SleepCanceledEffect
<1>25. CASE RecheckEffect(c)
  BY <1>t, <1>25 DEF RecheckEffect
<1>26. CASE ReconcileHooksEffect(c)
  BY <1>t, <1>26 DEF ReconcileHooksEffect
<1>27. CASE GiveUpHooksEffect(c)
  BY <1>t, <1>27 DEF GiveUpHooksEffect
<1>28. CASE GiveUpEffect(c)
  BY <1>t, <1>28 DEF GiveUpEffect
<1>29. CASE PanicEffect(c)
  BY <1>t, <1>29 DEF PanicEffect
<1>30. CASE LateCommitEffect(c)
  BY <1>t, <1>30 DEF LateCommitEffect
<1> QED
  BY <1>t, <1>1, <1>2, <1>3, <1>4, <1>5, <1>6, <1>7, <1>8, <1>9, <1>10, <1>11, <1>12,
     <1>13, <1>14, <1>15, <1>16, <1>17, <1>18, <1>19, <1>20, <1>21, <1>22, <1>23,
     <1>24, <1>25, <1>26, <1>27, <1>28, <1>29, <1>30, StepEffect DEF Effect

\* Which requests are guarded does not change.
LEMMA GuardedStays ==
  ASSUME NEW c \in Calls, cfg' = cfg, req' = req
  PROVE  Unkeyed(c)' <=> Unkeyed(c)
BY DEF Unkeyed, Guarded

\* A step of a guarded call with a probe leaves nothing late behind its wait.
LEMMA StepProbe ==
  ASSUME TypeOK, NEW c \in Calls, ProbeInv(c), Step(c) \/ Panic(c) \/ LateCommit(c)
  PROVE  ProbeInv(c)'
<1> USE DEF ProbeInv, Moves, Returns, Rejects, Finishes, Delivers, SameWait, SameEffects
<1>t. /\ cfg' = cfg /\ req' = req /\ wait[c].delay \in Int /\ (Unkeyed(c)' <=> Unkeyed(c))
      /\ Unkeyed(c) /\ cfg[c].reconcile # "none" =>
           ~cfg[c].gated /\ Settles /\ \A b \in Backoffs : b > 0
  BY FieldTypes, StepEffect, GuardedStays DEF Alone, Unkeyed, Guarded, Trusting
<1>1. CASE StartEffect(c)
  BY <1>t, <1>1 DEF StartEffect
<1>2. CASE PrepareBodyEffect(c)
  BY <1>t, <1>2 DEF PrepareBodyEffect
<1>3. CASE BeginAttemptEffect(c)
  BY <1>t, <1>3 DEF BeginAttemptEffect
<1>4. CASE GetBodyFailsEffect(c)
  BY <1>t, <1>4 DEF GetBodyFailsEffect
<1>5. CASE GateAtStartEffect(c)
  BY <1>t, <1>5 DEF GateAtStartEffect
<1>6. CASE AwaitRecoveredEffect(c)
  BY <1>t, <1>6 DEF AwaitRecoveredEffect
<1>7. CASE AwaitTimeoutEffect(c)
  BY <1>t, <1>7 DEF AwaitTimeoutEffect
<1>8. CASE AwaitCanceledEffect(c)
  BY <1>t, <1>8 DEF AwaitCanceledEffect
<1>9. CASE JitterDoneEffect(c)
  BY <1>t, <1>9 DEF JitterDoneEffect
<1>10. CASE BeforeHooksEffect(c)
  BY <1>t, <1>10 DEF BeforeHooksEffect
<1>11. CASE SendEffect(c)
  BY <1>t, <1>11 DEF SendEffect
<1>12. CASE AbandonedEffect(c)
  BY <1>t, <1>12 DEF AbandonedEffect
<1>13. CASE ClassifiedEffect(c)
  BY <1>t, <1>13 DEF ClassifiedEffect
<1>14. CASE AfterHooksEffect(c)
  BY <1>t, <1>14 DEF AfterHooksEffect
<1>15. CASE ShortCircuitEffect(c)
  BY <1>t, <1>15 DEF ShortCircuitEffect
<1>16. CASE DeliverSuccessEffect(c)
  BY <1>t, <1>16 DEF DeliverSuccessEffect
<1>17. CASE DeliverFatalEffect(c)
  BY <1>t, <1>17 DEF DeliverFatalEffect
<1>18. CASE RefuseRetryEffect(c)
  BY <1>t, <1>18 DEF RefuseRetryEffect
<1>19. CASE SpendTokenEffect(c)
  BY <1>t, <1>19 DEF SpendTokenEffect
<1>20. CASE RetryAfterTooLongEffect(c)
  BY <1>t, <1>20 DEF RetryAfterTooLongEffect
<1>21. CASE ChooseDelayEffect(c)
  <2>t. TypeOK'
    BY StepTypes
  <2>1. wait'[c].delay \in Int /\ Backoffs \subseteq Int
    BY <2>t, TransportAssumption DEF TypeOK, WaitType
  <2>2. pc'[c] = "pause" /\ \E b \in Backoffs : wait'[c].delay >= b
    BY <1>21 DEF ChooseDelayEffect
  <2>3. PICK b \in Backoffs : wait'[c].delay >= b
    BY <2>2
  <2>4. b > 0 => wait'[c].delay > 0
    BY <2>1, <2>3
  <2> QED
    BY <1>t, <2>2, <2>3, <2>4
<1>22. CASE PauseCheckEffect(c)
  BY <1>t, <1>22 DEF PauseCheckEffect
<1>23. CASE SleepEffect(c)
  BY <1>t, <1>23 DEF SleepEffect
<1>24. CASE SleepCanceledEffect(c)
  BY <1>t, <1>24 DEF SleepCanceledEffect
<1>25. CASE RecheckEffect(c)
  BY <1>t, <1>25 DEF RecheckEffect
<1>26. CASE ReconcileHooksEffect(c)
  BY <1>t, <1>26 DEF ReconcileHooksEffect
<1>27. CASE GiveUpHooksEffect(c)
  BY <1>t, <1>27 DEF GiveUpHooksEffect
<1>28. CASE GiveUpEffect(c)
  BY <1>t, <1>28 DEF GiveUpEffect
<1>29. CASE PanicEffect(c)
  BY <1>t, <1>29 DEF PanicEffect, UserCode
<1>30. CASE LateCommitEffect(c)
  BY <1>t, <1>30 DEF LateCommitEffect
<1> QED
  BY <1>t, <1>1, <1>2, <1>3, <1>4, <1>5, <1>6, <1>7, <1>8, <1>9, <1>10, <1>11, <1>12,
     <1>13, <1>14, <1>15, <1>16, <1>17, <1>18, <1>19, <1>20, <1>21, <1>22, <1>23,
     <1>24, <1>25, <1>26, <1>27, <1>28, <1>29, <1>30, StepEffect DEF Effect

\* A step of a guarded call without a key sends again only in silence.
LEMMA StepOnce ==
  ASSUME TypeOK, NEW c \in Calls, GrantInv(c), ProbeInv(c), OnceInv(c),
         Step(c) \/ Panic(c) \/ LateCommit(c)
  PROVE  OnceInv(c)'
<1> USE DEF OnceInv, Silent, Built, AtGate, Granted, Moves, Returns, Rejects, Finishes, Delivers,
            Settled, CallIs, AttIs, SameCall, SameAtt, SameWait, SameEffects
<1>t. /\ cfg' = cfg /\ req' = req /\ wait[c].at \in {"start", "retry"}
      /\ (Unkeyed(c)' <=> Unkeyed(c))
      /\ Unkeyed(c) => cfg[c].key # "per_call" /\ cfg[c].after = "none"
                        /\ req[c].method \notin SafeMethods
                        /\ cfg[c].reconcile \notin Trusting
  BY FieldTypes, StepEffect, GuardedStays DEF Alone, Unkeyed, Guarded, Trusting
<1>1. CASE StartEffect(c)
  BY <1>t, <1>1 DEF StartEffect
<1>2. CASE PrepareBodyEffect(c)
  BY <1>t, <1>2 DEF PrepareBodyEffect
<1>3. CASE BeginAttemptEffect(c)
  BY <1>t, <1>3 DEF BeginAttemptEffect
<1>4. CASE GetBodyFailsEffect(c)
  BY <1>t, <1>4 DEF GetBodyFailsEffect
<1>5. CASE GateAtStartEffect(c)
  BY <1>t, <1>5 DEF GateAtStartEffect
<1>6. CASE AwaitRecoveredEffect(c)
  BY <1>t, <1>6 DEF AwaitRecoveredEffect
<1>7. CASE AwaitTimeoutEffect(c)
  BY <1>t, <1>7 DEF AwaitTimeoutEffect
<1>8. CASE AwaitCanceledEffect(c)
  BY <1>t, <1>8 DEF AwaitCanceledEffect
<1>9. CASE JitterDoneEffect(c)
  BY <1>t, <1>9 DEF JitterDoneEffect
<1>10. CASE BeforeHooksEffect(c)
  BY <1>t, <1>10 DEF BeforeHooksEffect
<1>11. CASE SendEffect(c)
  BY <1>t, <1>11 DEF SendEffect
<1>12. CASE AbandonedEffect(c)
  <2>1. applied'[c] \cup late'[c] \subseteq applied[c] \cup late[c] \cup {OpId(c)}
    BY <1>12, PerformedAdds DEF AbandonedEffect
  <2> QED
    BY <1>t, <1>12, <2>1 DEF AbandonedEffect, OpId
<1>13. CASE ClassifiedEffect(c)
  <2>1. PICK r \in Replies : Performed(c, r) /\ att'[c].outcome = DefaultClassify(r)
    BY <1>13 DEF ClassifiedEffect
  <2>2. /\ applied'[c] \cup late'[c] \subseteq applied[c] \cup late[c] \cup {OpId(c)}
        /\ att'[c].outcome = "not_applied" => SameEffects(c)
    BY <2>1, PerformedAdds
  <2> QED
    BY <1>t, <1>13, <2>2 DEF ClassifiedEffect, OpId
<1>14. CASE AfterHooksEffect(c)
  <2>1. cfg[c].after = "none" => att'[c].outcome = att[c].outcome
    BY <1>14 DEF AfterHooksEffect, AfterOutcomes
  <2> QED
    BY <1>t, <1>14, <2>1 DEF AfterHooksEffect
<1>15. CASE ShortCircuitEffect(c)
  BY <1>t, <1>15 DEF ShortCircuitEffect
<1>16. CASE DeliverSuccessEffect(c)
  BY <1>t, <1>16 DEF DeliverSuccessEffect
<1>17. CASE DeliverFatalEffect(c)
  BY <1>t, <1>17 DEF DeliverFatalEffect
<1>18. CASE RefuseRetryEffect(c)
  BY <1>t, <1>18 DEF RefuseRetryEffect
<1>19. CASE SpendTokenEffect(c)
  BY <1>t, <1>19 DEF SpendTokenEffect
<1>20. CASE RetryAfterTooLongEffect(c)
  BY <1>t, <1>20 DEF RetryAfterTooLongEffect
<1>21. CASE ChooseDelayEffect(c)
  BY <1>t, <1>21 DEF ChooseDelayEffect
<1>22. CASE PauseCheckEffect(c)
  BY <1>t, <1>22 DEF PauseCheckEffect
<1>23. CASE SleepEffect(c)
  BY <1>t, <1>23 DEF SleepEffect
<1>24. CASE SleepCanceledEffect(c)
  BY <1>t, <1>24 DEF SleepCanceledEffect
<1>25. CASE RecheckEffect(c)
  BY <1>t, <1>25 DEF RecheckEffect
<1>26. CASE ReconcileHooksEffect(c)
  <2>1. CASE pc'[c] # "attempt"
    BY <1>t, <1>26, <2>1 DEF ReconcileHooksEffect
  <2>2. CASE pc'[c] = "attempt"
    <3>1. /\ pc[c] = "reconcile" /\ SameAtt(c) /\ SameCall(c) /\ SameEffects(c)
          /\ \/ ~(att[c].outcome = "unknown" /\ cfg[c].reconcile # "none")
             \/ cfg[c].reconcile \in Trusting
             \/ applied[c] = {}
      BY <1>26, <2>2 DEF ReconcileHooksEffect
    <3>2. /\ att[c].outcome \in Retryable
          /\ att[c].outcome = "unknown" => Safe(c) \/ cfg[c].reconcile # "none"
      BY <3>1 DEF GrantInv, LastRetryable
    <3>3. ASSUME Unkeyed(c) PROVE Silent(c)
      <4>1. ~Safe(c)
        BY <1>t, <3>3 DEF Safe, ReplaySafe
      <4>2. CASE att[c].outcome = "not_applied"
        BY <3>1, <3>3, <4>2
      <4>3. CASE att[c].outcome = "unknown"
        <5>1. cfg[c].reconcile # "none" /\ applied[c] = {}
          BY <1>t, <3>1, <3>2, <3>3, <4>1, <4>3
        <5>2. late[c] = {}
          BY <3>1, <3>3, <5>1 DEF ProbeInv
        <5> QED
          BY <5>1, <5>2
      <4> QED
        BY <3>2, <4>2, <4>3 DEF Retryable
    <3> QED
      BY <1>t, <2>2, <3>1, <3>3
  <2> QED
    BY <2>1, <2>2
<1>27. CASE GiveUpHooksEffect(c)
  BY <1>t, <1>27 DEF GiveUpHooksEffect
<1>28. CASE GiveUpEffect(c)
  BY <1>t, <1>28 DEF GiveUpEffect
<1>29. CASE PanicEffect(c)
  BY <1>t, <1>29 DEF PanicEffect, UserCode
<1>30. CASE LateCommitEffect(c)
  BY <1>t, <1>30 DEF LateCommitEffect
<1> QED
  BY <1>t, <1>1, <1>2, <1>3, <1>4, <1>5, <1>6, <1>7, <1>8, <1>9, <1>10, <1>11, <1>12,
     <1>13, <1>14, <1>15, <1>16, <1>17, <1>18, <1>19, <1>20, <1>21, <1>22, <1>23,
     <1>24, <1>25, <1>26, <1>27, <1>28, <1>29, <1>30, StepEffect DEF Effect

-----------------------------------------------------------------------------
(* Once, for every call in every state.                                     *)

EffectInv(c) == KeyedInv(c) /\ OnceInv(c) /\ ProbeInv(c)

\* A call that a step does not touch keeps its effects.
LEMMA UntouchedEffect ==
  ASSUME TypeOK, NEW d \in Calls, EffectInv(d), Untouched(d), cfg' = cfg, req' = req
  PROVE  EffectInv(d)'
<1> USE DEF Untouched, CallIs, AttIs, SameCall, SameAtt, SameWait, SameEffects
<1>1. KeyedInv(d)'
  BY DEF EffectInv, KeyedInv
<1>2. OnceInv(d)'
  BY GuardedStays DEF EffectInv, OnceInv, Silent, Built, AtGate, Granted
<1>3. ProbeInv(d)'
  BY GuardedStays DEF EffectInv, ProbeInv
<1> QED
  BY <1>1, <1>2, <1>3 DEF EffectInv

\* A set within a singleton has at most one member.
LEMMA WithinOne ==
  ASSUME NEW x, NEW S, S \subseteq {x}
  PROVE  Cardinality(S) <= 1
<1>1. S = {} \/ S = {x}
  OBVIOUS
<1>2. Cardinality({}) = 0 /\ Cardinality({x}) = 1
  BY FS_EmptySet, FS_Singleton, Zenon
<1>3. Cardinality(S) = 0 \/ Cardinality(S) = 1
  BY <1>1, <1>2, Zenon
<1> QED
  BY <1>3

\* Whatever is lost, retried, probed or applied late, the downstream performs a
\* guarded request at most once.
THEOREM EffectSafety == Spec => []EffectOnce
<1> DEFINE Decided == \A c \in Calls : DecisionInv(c)
           Inv == \A c \in Calls : EffectInv(c)
<1>1. Init => Inv
  <2> SUFFICES ASSUME Init, NEW c \in Calls PROVE EffectInv(c)
    OBVIOUS
  <2>1. /\ pc[c] = "idle" /\ ~call[c].idempotent /\ applied[c] = {} /\ late[c] = {}
    BY DEF Init, NewCall
  <2> QED
    BY <2>1 DEF EffectInv, KeyedInv, OnceInv, ProbeInv, Silent
<1>2. TypeOK /\ Decided /\ Inv /\ [Next]_vars => Inv'
  <2> SUFFICES ASSUME TypeOK, Decided, Inv, [Next]_vars, NEW d \in Calls
               PROVE  EffectInv(d)'
    OBVIOUS
  <2>1. EffectInv(d) /\ DecisionInv(d)
    OBVIOUS
  <2>2. ASSUME NEW c \in Calls, Step(c) \/ Panic(c) \/ LateCommit(c) PROVE EffectInv(d)'
    <3>1. CASE d = c
      BY <2>1, <2>2, <3>1, StepKeyed, StepOnce, StepProbe DEF EffectInv, DecisionInv
    <3>2. CASE d # c
      BY <2>1, <2>2, <3>2, StepEffect, UntouchedEffect DEF Alone
    <3> QED
      BY <3>1, <3>2
  <2>3. CASE GateFlips \/ (\E c \in Calls : CancelCtx(c)) \/ UNCHANGED vars
    BY <2>1, <2>3, QuietMove, UntouchedEffect
  <2> QED
    BY <2>2, <2>3 DEF Next
<1>3. Inv => EffectOnce
  <2> SUFFICES ASSUME Inv, NEW c \in Calls, Guarded(c)
               PROVE  Cardinality(applied[c] \cup late[c]) <= 1
    BY DEF EffectOnce
  <2>1. \E x : applied[c] \cup late[c] \subseteq {x}
    BY DEF EffectInv, KeyedInv, OnceInv, Unkeyed
  <2> QED
    BY <2>1, WithinOne
<1> QED
  BY <1>1, <1>2, <1>3, TypeCorrect, DecisionInvariant, PTL DEF Spec

-----------------------------------------------------------------------------
(* What is seen of one call.                                                *)

StageOf(c) ==
  CASE pc[c] \in {"idle", "done"} -> pc[c]
    [] pc[c] \in {"inflight", "after"} -> "flying"
    [] OTHER -> "open"

LastOf(c) ==
  IF call[c].history = <<>> THEN "none" ELSE call[c].history[Len(call[c].history)]

\* After the step the call is seen like this.
SeenAs(c, stage, sent, told, last, result) ==
  /\ StageOf(c)' = stage
  /\ call'[c].attempts = sent
  /\ log'[c].events = told
  /\ LastOf(c)' = last
  /\ ret'[c].result = result

\* Another attempt is permitted and left.
MayTry(c) == LastOf(c) \in Retryable \cup {"none"} /\ call[c].attempts < cfg[c].maxAttempts

\* The results CallProtocol allows the call to end with.
Allowed(c) ==
  {r \in Results :
     \/ r \in {"hook_aborted", "short_circuit"}
     \/ r = "success" /\ LastOf(c) = "success"
     \/ r = "non_retryable" /\ LastOf(c) = "fatal"
     \/ r = "fallback" /\ LastOf(c) \in Retryable \cup {"none"}
     \/ r = "exhausted" /\ LastOf(c) \in Retryable /\ call[c].attempts = cfg[c].maxAttempts
     \/ r \in {"downstream_unhealthy", "canceled", "body_error"} /\ MayTry(c)
     \/ /\ r \in {"body_not_replayable", "budget_exhausted", "retry_after_too_long"}
        /\ MayTry(c) /\ LastOf(c) # "none"
     \/ r \in {"unsafe_to_retry", "reconciled"} /\ MayTry(c) /\ LastOf(c) = "unknown"}

\* The steps of CallProtocol, as seen of one call.
Unseen(c) ==
  SeenAs(c, StageOf(c), call[c].attempts, log[c].events, LastOf(c), ret[c].result)
Begins(c) ==
  /\ StageOf(c) = "idle"
  /\ SeenAs(c, "open", call[c].attempts, log[c].events, LastOf(c), ret[c].result)
Transmits(c) ==
  /\ StageOf(c) = "open" /\ MayTry(c)
  /\ SeenAs(c, "flying", call[c].attempts + 1, log[c].events, LastOf(c), ret[c].result)
Tells(c) ==
  /\ StageOf(c) = "flying"
  /\ \E o \in Outcome :
       SeenAs(c, "open", call[c].attempts, log[c].events + 1, o, ret[c].result)
Abandons(c) ==
  /\ StageOf(c) = "flying"
  /\ SeenAs(c, "done", call[c].attempts, log[c].events + 1, LastOf(c), "canceled")
Ends(c) ==
  /\ StageOf(c) = "open"
  /\ \E r \in Allowed(c) :
       SeenAs(c, "done", call[c].attempts, log[c].events, LastOf(c), r)
Crashes(c) ==
  /\ StageOf(c) \in {"open", "flying"}
  /\ SeenAs(c, "done", call[c].attempts, log[c].events, LastOf(c), "panic")

Seen(c) ==
  Unseen(c) \/ Begins(c) \/ Transmits(c) \/ Tells(c) \/ Abandons(c) \/ Ends(c) \/ Crashes(c)

-----------------------------------------------------------------------------
(* What the invariants say about the last outcome.                          *)

\* The last outcome is none exactly when the history is empty.
LEMMA LastMeans ==
  ASSUME TypeOK, NEW c \in Calls
  PROVE  /\ Len(call[c].history) = 0 => LastOf(c) = "none"
         /\ Len(call[c].history) # 0 => LastOf(c) = call[c].history[Len(call[c].history)]
         /\ LastOf(c) \in Outcome \cup {"none"}
<1>1. call[c].history \in Seq(Outcome)
  BY FieldTypes
<1>2. CASE call[c].history = <<>>
  BY <1>2 DEF LastOf
<1>3. CASE call[c].history # <<>>
  <2>1. Len(call[c].history) \in 1 .. Len(call[c].history)
    BY <1>1, <1>3
  <2> QED
    BY <1>1, <1>3, <2>1 DEF LastOf
<1> QED
  BY <1>2, <1>3

\* Wherever a request is ahead of the call, another attempt is permitted and left.
LEMMA MayTryAhead ==
  ASSUME TypeOK, NEW c \in Calls, CallInv(c), DecisionInv(c),
         pc[c] \in {"body", "attempt"} \/ Built(c) \/ Granted(c)
  PROVE  MayTry(c)
<1>t. /\ att[c].n \in Nat /\ call[c].attempts \in Nat /\ cfg[c].maxAttempts \in Int
      /\ Len(call[c].history) \in Nat /\ wait[c].at \in {"start", "retry"}
  BY FieldTypes
<1>c. CountInv(c) /\ HistoryInv(c) /\ PastInv(c) /\ GrantInv(c)
  BY DEF CallInv, DecisionInv
<1>1. call[c].attempts < cfg[c].maxAttempts /\ call[c].attempts = Len(call[c].history)
  BY <1>t, <1>c DEF CountInv, HistoryInv, Built, AtGate, Granted
<1>2. CASE Len(call[c].history) = 0
  BY <1>1, <1>2, LastMeans DEF MayTry
<1>3. CASE Len(call[c].history) # 0
  <2>1. LastOf(c) = call[c].history[Len(call[c].history)]
    BY <1>3, LastMeans
  <2>2. Len(call[c].history) \in 1 .. Len(call[c].history)
    BY <1>t, <1>3
  <2>3. CASE Granted(c)
    BY <1>1, <1>c, <2>1, <2>3 DEF GrantInv, LastRetryable, MayTry
  <2>4. CASE pc[c] \in {"body", "attempt"} \/ Built(c)
    <3>1. Len(call[c].history) < att[c].n \/ pc[c] = "attempt"
      BY <1>t, <1>c, <1>1, <1>3, <2>4 DEF CountInv
    <3>2. Permits(c, Len(call[c].history))
      BY <1>c, <2>2, <3>1 DEF PastInv
    <3> QED
      BY <1>1, <2>1, <3>2 DEF Permits, MayTry
  <2> QED
    BY <2>3, <2>4
<1> QED
  BY <1>2, <1>3

\* While a call decides, waits or gives up, its last outcome is the attempt's.
LEMMA LastIsOutcome ==
  ASSUME TypeOK, NEW c \in Calls, CallInv(c), DecisionInv(c)
  PROVE  /\ pc[c] = "decide" \/ Granted(c) => LastOf(c) = att[c].outcome
         /\ pc[c] = "giveup" /\ call[c].attempts >= 1
              => LastOf(c) = att[c].outcome /\ att[c].outcome \in Retryable
         /\ pc[c] = "giveup" /\ call[c].attempts = 0 => LastOf(c) = "none"
<1>t. /\ att[c].n \in Nat /\ call[c].attempts \in Nat
      /\ Len(call[c].history) \in Nat /\ wait[c].at \in {"start", "retry"}
  BY FieldTypes
<1>c. CountInv(c) /\ HistoryInv(c) /\ GrantInv(c) /\ ReasonInv(c)
  BY DEF CallInv, DecisionInv
<1>1. CASE pc[c] = "decide" \/ Granted(c)
  <2>1. Len(call[c].history) # 0
    BY <1>t, <1>c, <1>1 DEF CountInv, HistoryInv, Built, AtGate, Granted
  <2> QED
    BY <1>c, <1>1, <2>1, LastMeans DEF GrantInv, LastRetryable, Granted
<1>2. CASE pc[c] = "giveup"
  <2>1. call[c].attempts = Len(call[c].history)
    BY <1>c, <1>2 DEF HistoryInv
  <2> QED
    BY <1>t, <1>c, <1>2, <2>1, LastMeans DEF ReasonInv, LastRetryable, Granted
<1> QED
  BY <1>1, <1>2

-----------------------------------------------------------------------------
(* The steps of a call.                                                     *)

\* Every step of a call is seen as a step of the protocol, or not at all.
LEMMA StepSeen ==
  ASSUME TypeOK, NEW c \in Calls, CallInv(c), DecisionInv(c),
         Step(c) \/ Panic(c) \/ LateCommit(c)
  PROVE  Seen(c)
<1> USE DEF SeenAs, StageOf, Moves, Returns, Rejects, CallIs, RetIs, ToldIs, SameCall, SameRet,
            SameTold, SameLog, Settled
<1>t. /\ pc[c] \in Labels /\ call[c].history \in Seq(Outcome) /\ cfg' = cfg
      /\ wait[c].at \in {"start", "retry"} /\ call[c].attempts \in Nat
  BY FieldTypes, StepEffect DEF Alone
<1>h. call'[c].history = call[c].history => LastOf(c)' = LastOf(c)
  BY DEF LastOf
<1>a. {"hook_aborted", "short_circuit"} \subseteq Allowed(c)
  BY DEF Allowed, Results, GiveUpResults
<1>b. MayTry(c) => {"downstream_unhealthy", "canceled", "body_error"} \subseteq Allowed(c)
  BY DEF Allowed, Results, GiveUpResults
<1>1. CASE StartEffect(c)
  <2>1. Begins(c)
    BY <1>t, <1>h, <1>1 DEF StartEffect, Begins
  <2> QED
    BY <2>1 DEF Seen
<1>2. CASE PrepareBodyEffect(c)
  <2>1. MayTry(c)
    BY <1>2, MayTryAhead DEF PrepareBodyEffect
  <2>2. Ends(c) \/ Unseen(c)
    BY <1>t, <1>h, <1>b, <1>2, <2>1 DEF PrepareBodyEffect, Ends, Unseen
  <2> QED
    BY <2>2 DEF Seen
<1>3. CASE BeginAttemptEffect(c)
  <2>1. Unseen(c)
    BY <1>t, <1>h, <1>3 DEF BeginAttemptEffect, Unseen
  <2> QED
    BY <2>1 DEF Seen
<1>4. CASE GetBodyFailsEffect(c)
  <2>1. MayTry(c)
    BY <1>t, <1>4, MayTryAhead DEF GetBodyFailsEffect, Built
  <2>2. Ends(c)
    BY <1>t, <1>h, <1>b, <1>4, <2>1 DEF GetBodyFailsEffect, Ends
  <2> QED
    BY <2>2 DEF Seen
<1>5. CASE GateAtStartEffect(c)
  <2>1. Unseen(c)
    BY <1>t, <1>h, <1>5 DEF GateAtStartEffect, Unseen
  <2> QED
    BY <2>1 DEF Seen
<1>6. CASE AwaitRecoveredEffect(c)
  <2>1. Unseen(c)
    BY <1>t, <1>h, <1>6 DEF AwaitRecoveredEffect, Unseen
  <2> QED
    BY <2>1 DEF Seen
<1>7. CASE AwaitTimeoutEffect(c)
  <2>1. Unseen(c)
    BY <1>t, <1>h, <1>7 DEF AwaitTimeoutEffect, Unseen
  <2> QED
    BY <2>1 DEF Seen
<1>8. CASE AwaitCanceledEffect(c)
  <2>1. MayTry(c)
    BY <1>t, <1>8, MayTryAhead DEF AwaitCanceledEffect, Built, AtGate, Granted
  <2>2. Ends(c)
    BY <1>t, <1>h, <1>b, <1>8, <2>1 DEF AwaitCanceledEffect, Ends
  <2> QED
    BY <2>2 DEF Seen
<1>9. CASE JitterDoneEffect(c)
  <2>1. Unseen(c)
    BY <1>t, <1>h, <1>9 DEF JitterDoneEffect, Unseen
  <2> QED
    BY <2>1 DEF Seen
<1>10. CASE BeforeHooksEffect(c)
  <2>1. CASE \E v : Finishes(c, v, "short_circuit")
    <3>1. Ends(c)
      BY <1>t, <1>h, <1>a, <1>10, <2>1 DEF BeforeHooksEffect, Finishes, Ends
    <3> QED
      BY <3>1 DEF Seen
  <2>2. CASE pc'[c] = "send"
    <3>1. Unseen(c)
      BY <1>t, <1>h, <1>10, <2>2 DEF BeforeHooksEffect, Finishes, Unseen
    <3> QED
      BY <3>1 DEF Seen
  <2> QED
    BY <1>10, <2>1, <2>2 DEF BeforeHooksEffect
<1>11. CASE SendEffect(c)
  <2>1. MayTry(c)
    BY <1>11, MayTryAhead DEF SendEffect, Built
  <2>2. Transmits(c)
    BY <1>t, <1>h, <1>11, <2>1 DEF SendEffect, Transmits
  <2> QED
    BY <2>2 DEF Seen
<1>12. CASE AbandonedEffect(c)
  <2>1. Abandons(c)
    BY <1>t, <1>h, <1>12 DEF AbandonedEffect, Abandons
  <2> QED
    BY <2>1 DEF Seen
<1>13. CASE ClassifiedEffect(c)
  <2>1. Unseen(c)
    BY <1>t, <1>h, <1>13 DEF ClassifiedEffect, Unseen
  <2> QED
    BY <2>1 DEF Seen
<1>14. CASE AfterHooksEffect(c)
  <2>1. PICK o \in AfterOutcomes(c) :
          CallIs(c, Append(call[c].history, o), call[c].idempotent, call[c].attempts)
    BY <1>14 DEF AfterHooksEffect
  <2>2. o \in Outcome
    BY <2>1, FieldTypes DEF AfterOutcomes
  <2>3. LastOf(c)' = o
    BY <1>t, <2>1, <2>2 DEF LastOf
  <2>4. Tells(c)
    BY <1>t, <1>14, <2>1, <2>2, <2>3 DEF AfterHooksEffect, Tells
  <2> QED
    BY <2>4 DEF Seen
<1>15. CASE ShortCircuitEffect(c)
  <2>1. Ends(c)
    BY <1>t, <1>h, <1>a, <1>15 DEF ShortCircuitEffect, Ends, Finishes
  <2> QED
    BY <2>1 DEF Seen
<1>16. CASE DeliverSuccessEffect(c)
  <2>1. LastOf(c) = "success"
    BY <1>16, LastIsOutcome DEF DeliverSuccessEffect
  <2>2. "success" \in Allowed(c)
    BY <2>1 DEF Allowed, Results
  <2>3. Ends(c)
    BY <1>t, <1>h, <1>16, <2>2 DEF DeliverSuccessEffect, Delivers, Ends
  <2> QED
    BY <2>3 DEF Seen
<1>17. CASE DeliverFatalEffect(c)
  <2>1. LastOf(c) = "fatal"
    BY <1>17, LastIsOutcome DEF DeliverFatalEffect
  <2>2. "non_retryable" \in Allowed(c)
    BY <2>1 DEF Allowed, Results
  <2>3. Ends(c)
    BY <1>t, <1>h, <1>17, <2>2 DEF DeliverFatalEffect, Delivers, Ends
  <2> QED
    BY <2>3 DEF Seen
<1>18. CASE RefuseRetryEffect(c)
  <2>1. Unseen(c)
    BY <1>t, <1>h, <1>18 DEF RefuseRetryEffect, Unseen
  <2> QED
    BY <2>1 DEF Seen
<1>19. CASE SpendTokenEffect(c)
  <2>1. Unseen(c)
    BY <1>t, <1>h, <1>19 DEF SpendTokenEffect, Unseen
  <2> QED
    BY <2>1 DEF Seen
<1>20. CASE RetryAfterTooLongEffect(c)
  <2>1. Unseen(c)
    BY <1>t, <1>h, <1>20 DEF RetryAfterTooLongEffect, Unseen
  <2> QED
    BY <2>1 DEF Seen
<1>21. CASE ChooseDelayEffect(c)
  <2>1. Unseen(c)
    BY <1>t, <1>h, <1>21 DEF ChooseDelayEffect, Unseen
  <2> QED
    BY <2>1 DEF Seen
<1>22. CASE PauseCheckEffect(c)
  <2>1. Unseen(c)
    BY <1>t, <1>h, <1>22 DEF PauseCheckEffect, Unseen
  <2> QED
    BY <2>1 DEF Seen
<1>23. CASE SleepEffect(c)
  <2>1. Unseen(c)
    BY <1>t, <1>h, <1>23 DEF SleepEffect, Unseen
  <2> QED
    BY <2>1 DEF Seen
<1>24. CASE SleepCanceledEffect(c)
  <2>1. MayTry(c)
    BY <1>t, <1>24, MayTryAhead DEF SleepCanceledEffect, Granted
  <2>2. Ends(c)
    BY <1>t, <1>h, <1>b, <1>24, <2>1 DEF SleepCanceledEffect, Ends
  <2> QED
    BY <2>2 DEF Seen
<1>25. CASE RecheckEffect(c)
  <2>1. Unseen(c)
    BY <1>t, <1>h, <1>25 DEF RecheckEffect, Unseen
  <2> QED
    BY <2>1 DEF Seen
<1>26. CASE ReconcileHooksEffect(c)
  <2>1. MayTry(c) /\ LastOf(c) = att[c].outcome
    BY <1>26, MayTryAhead, LastIsOutcome DEF ReconcileHooksEffect, Granted
  <2>2. CASE pc'[c] = "attempt"
    <3>1. Unseen(c)
      BY <1>t, <1>h, <1>26, <2>2 DEF ReconcileHooksEffect, Finishes, Unseen
    <3> QED
      BY <3>1 DEF Seen
  <2>3. CASE att[c].outcome = "unknown" /\ \E v : Finishes(c, v, "reconciled")
    <3>1. "reconciled" \in Allowed(c)
      BY <2>1, <2>3 DEF Allowed, Results
    <3>2. Ends(c)
      BY <1>t, <1>h, <1>a, <1>26, <2>3, <3>1 DEF ReconcileHooksEffect, Finishes, Ends
    <3> QED
      BY <3>2 DEF Seen
  <2> QED
    BY <1>26, <2>2, <2>3 DEF ReconcileHooksEffect
<1>27. CASE GiveUpHooksEffect(c)
  <2>1. LastOf(c) \in Retryable \cup {"none"}
    BY <1>t, <1>27, LastIsOutcome DEF GiveUpHooksEffect
  <2>2. "fallback" \in Allowed(c)
    BY <2>1 DEF Allowed, Results
  <2>3. Ends(c)
    BY <1>t, <1>h, <1>a, <1>27, <2>2 DEF GiveUpHooksEffect, Finishes, Ends
  <2> QED
    BY <2>3 DEF Seen
<1>28. CASE GiveUpEffect(c)
  <2>1. pc[c] = "giveup" /\ ReasonInv(c) /\ ret[c].reason \in Reasons
    BY <1>28, FieldTypes DEF GiveUpEffect, DecisionInv
  <2>2. /\ LastOf(c) \in Retryable \cup {"none"}
        /\ call[c].attempts >= 1 => LastOf(c) = att[c].outcome /\ LastOf(c) \in Retryable
    BY <1>t, <2>1, LastIsOutcome
  <2>3. ResultForReason(ret[c].reason) \in Allowed(c)
    <3>1. CASE ret[c].reason = "exhausted"
      <4>1. LastOf(c) \in Retryable /\ call[c].attempts = cfg[c].maxAttempts
        BY <2>1, <2>2, <3>1 DEF ReasonInv
      <4> QED
        BY <3>1, <4>1 DEF Allowed, ResultForReason, Results, GiveUpResults
    <3>2. CASE ret[c].reason # "exhausted"
      <4>1. MayTry(c)
        BY <2>1, <2>2, <3>2 DEF ReasonInv, MayTry
      <4>2. ret[c].reason # "unhealthy" => LastOf(c) # "none"
        BY <2>1, <2>2 DEF ReasonInv, Retryable
      <4>3. ret[c].reason = "unsafe" => LastOf(c) = "unknown"
        BY <2>1, <2>2 DEF ReasonInv
      <4>4. ret[c].reason \in {"unsafe", "body", "budget", "retry_after", "unhealthy"}
        BY <2>1, <3>2 DEF ReasonInv, Reasons
      <4> QED
        BY <4>1, <4>2, <4>3, <4>4 DEF Allowed, ResultForReason, Results, GiveUpResults
    <3> QED
      BY <3>1, <3>2
  <2>4. Ends(c)
    BY <1>t, <1>h, <1>28, <2>3 DEF GiveUpEffect, Ends
  <2> QED
    BY <2>4 DEF Seen
<1>29. CASE PanicEffect(c)
  <2>1. Crashes(c)
    BY <1>t, <1>h, <1>29 DEF PanicEffect, Crashes, UserCode
  <2> QED
    BY <2>1 DEF Seen
<1>30. CASE LateCommitEffect(c)
  <2>1. Unseen(c)
    BY <1>t, <1>h, <1>30 DEF LateCommitEffect, Unseen
  <2> QED
    BY <2>1 DEF Seen
<1> QED
  BY <1>t, <1>1, <1>2, <1>3, <1>4, <1>5, <1>6, <1>7, <1>8, <1>9, <1>10, <1>11, <1>12,
     <1>13, <1>14, <1>15, <1>16, <1>17, <1>18, <1>19, <1>20, <1>21, <1>22, <1>23,
     <1>24, <1>25, <1>26, <1>27, <1>28, <1>29, <1>30, StepEffect DEF Effect

-----------------------------------------------------------------------------
(* From one call to all of them: the refinement mapping.                    *)

Sent == [d \in Calls |-> call[d].attempts]
Told == [d \in Calls |-> log[d].events]
Result == [d \in Calls |-> ret[d].result]
Limit == [d \in Calls |-> cfg[d].maxAttempts]

\* What is seen of all calls is what is seen of each.
LEMMA ViewOf ==
  ASSUME NEW c \in Calls
  PROVE  Stage[c] = StageOf(c) /\ Last[c] = LastOf(c) /\ Sent[c] = call[c].attempts
         /\ Limit[c] = cfg[c].maxAttempts
BY DEF Stage, Last, StageOf, LastOf, Sent, Limit

\* A step that leaves the other calls alone updates each seen variable at one call.
LEMMA ViewUpdated ==
  ASSUME NEW c \in Calls, Alone(c), NEW s, NEW n, NEW t, NEW l, NEW r, SeenAs(c, s, n, t, l, r)
  PROVE  /\ Stage' = [Stage EXCEPT ![c] = s]
         /\ Sent' = [Sent EXCEPT ![c] = n]
         /\ Told' = [Told EXCEPT ![c] = t]
         /\ Last' = [Last EXCEPT ![c] = l]
         /\ Result' = [Result EXCEPT ![c] = r]
         /\ Limit' = Limit
<1>1. \A d \in Calls : d # c =>
        /\ StageOf(d)' = StageOf(d) /\ LastOf(d)' = LastOf(d)
        /\ call'[d].attempts = call[d].attempts /\ log'[d].events = log[d].events
        /\ ret'[d].result = ret[d].result
  BY DEF Alone, Untouched, StageOf, LastOf, SameCall, CallIs, SameLog, SameTold, ToldIs,
         SameRet, RetIs
<1>2. Stage = [d \in Calls |-> StageOf(d)] /\ Last = [d \in Calls |-> LastOf(d)]
  BY DEF Stage, Last, StageOf, LastOf
<1>3. Stage' = [d \in Calls |-> StageOf(d)'] /\ Last' = [d \in Calls |-> LastOf(d)']
  BY DEF Stage, Last, StageOf, LastOf
<1>4. Stage' = [Stage EXCEPT ![c] = s] /\ Last' = [Last EXCEPT ![c] = l]
  BY <1>1, <1>2, <1>3 DEF SeenAs
<1>5. /\ Sent' = [Sent EXCEPT ![c] = n] /\ Told' = [Told EXCEPT ![c] = t]
      /\ Result' = [Result EXCEPT ![c] = r]
  BY <1>1 DEF SeenAs, Sent, Told, Result
<1> QED
  BY <1>4, <1>5 DEF Alone, Limit

\* Updating a seen variable with what it already shows changes nothing.
LEMMA ViewKept ==
  ASSUME NEW c \in Calls
  PROVE  /\ [Stage EXCEPT ![c] = StageOf(c)] = Stage
         /\ [Sent EXCEPT ![c] = call[c].attempts] = Sent
         /\ [Told EXCEPT ![c] = log[c].events] = Told
         /\ [Last EXCEPT ![c] = LastOf(c)] = Last
         /\ [Result EXCEPT ![c] = ret[c].result] = Result
BY DEF Stage, Last, StageOf, LastOf, Sent, Told, Result

\* The two ways of saying which results are justified agree.
LEMMA AllowedJustified ==
  ASSUME NEW c \in Calls, NEW r \in Allowed(c)
  PROVE  r \in Protocol!Justified(c) /\ r \in Protocol!Results
<1>1. Stage[c] = StageOf(c) /\ Last[c] = LastOf(c) /\ Sent[c] = call[c].attempts
      /\ Limit[c] = cfg[c].maxAttempts
  BY ViewOf
<1>2. Protocol!MayProceed(c) <=> LastOf(c) \in Retryable \cup {"none"}
  BY <1>1 DEF Protocol!MayProceed, Protocol!Retryable, Retryable
<1>3. MayTry(c) => Protocol!MaySend(c)
  BY <1>1, <1>2 DEF Protocol!MaySend, MayTry, Sent, Limit
<1>4. call[c].attempts = cfg[c].maxAttempts => Sent[c] = Limit[c]
  BY <1>1
<1>5. r \in Protocol!Results
  BY DEF Allowed, Results, GiveUpResults, Protocol!Results, Protocol!GiveUpResults
<1>6. r \in Protocol!Justified(c)
  BY <1>1, <1>2, <1>3, <1>4
     DEF Allowed, Protocol!Justified, Protocol!Retryable, Retryable, Sent, Limit
<1> QED
  BY <1>5, <1>6

\* What is seen of a call's step is a step of the protocol.
LEMMA SeenSimulated ==
  ASSUME TypeOK, NEW c \in Calls, Alone(c), Seen(c)
  PROVE  [Protocol!Next]_(Protocol!callVars)
<1> USE DEF Sent, Told, Result, Limit
<1>v. Stage[c] = StageOf(c) /\ Last[c] = LastOf(c)
  BY ViewOf
<1>s. Sent[c] = call[c].attempts /\ Told[c] = log[c].events
  OBVIOUS
<1> HIDE DEF Sent, Told, Result, Limit
<1>1. CASE Unseen(c)
  <2>1. Stage' = Stage /\ Sent' = Sent /\ Told' = Told /\ Last' = Last
        /\ Result' = Result /\ Limit' = Limit
    BY <1>1, ViewUpdated, ViewKept DEF Unseen
  <2> QED
    BY <2>1 DEF Protocol!callVars, Sent, Told, Result, Limit
<1>2. CASE Begins(c)
  <2>1. Stage' = [Stage EXCEPT ![c] = "open"] /\ Sent' = Sent /\ Told' = Told
        /\ Last' = Last /\ Result' = Result /\ Limit' = Limit
    BY <1>2, ViewUpdated, ViewKept DEF Begins
  <2>2. Protocol!Begin(c)
    BY <1>2, <1>v, <2>1 DEF Begins, Protocol!Begin, Sent, Told, Result, Limit
  <2> QED
    BY <2>2 DEF Protocol!Next
<1>3. CASE Transmits(c)
  <2>1. /\ Stage' = [Stage EXCEPT ![c] = "flying"] /\ Sent' = [Sent EXCEPT ![c] = Sent[c] + 1]
        /\ Told' = Told /\ Last' = Last /\ Result' = Result /\ Limit' = Limit
    BY <1>3, <1>s, ViewUpdated, ViewKept DEF Transmits
  <2>2. Protocol!MaySend(c)
    BY <1>3, <1>v DEF Transmits, MayTry, Protocol!MaySend, Protocol!MayProceed,
       Protocol!Retryable, Retryable
  <2>3. Protocol!Transmit(c)
    BY <1>3, <1>v, <2>1, <2>2 DEF Transmits, Protocol!Transmit, Sent, Told, Result, Limit
  <2> QED
    BY <2>3 DEF Protocol!Next
<1>4. CASE Tells(c)
  <2>1. PICK o \in Outcome :
          SeenAs(c, "open", call[c].attempts, log[c].events + 1, o, ret[c].result)
    BY <1>4 DEF Tells
  <2>2. /\ Stage' = [Stage EXCEPT ![c] = "open"] /\ Told' = [Told EXCEPT ![c] = Told[c] + 1]
        /\ Last' = [Last EXCEPT ![c] = o]
        /\ Sent' = Sent /\ Result' = Result /\ Limit' = Limit
    BY <1>s, <2>1, ViewUpdated, ViewKept
  <2>3. Protocol!Tell(c, o)
    BY <1>4, <1>v, <2>2 DEF Tells, Protocol!Tell, Sent, Told, Result, Limit
  <2> QED
    BY <2>3 DEF Protocol!Next, Protocol!Outcome, Outcome
<1>5. CASE Abandons(c)
  <2>1. /\ Stage' = [Stage EXCEPT ![c] = "done"] /\ Told' = [Told EXCEPT ![c] = Told[c] + 1]
        /\ Result' = [Result EXCEPT ![c] = "canceled"]
        /\ Sent' = Sent /\ Last' = Last /\ Limit' = Limit
    BY <1>5, <1>s, ViewUpdated, ViewKept DEF Abandons
  <2>2. Protocol!Abandon(c)
    BY <1>5, <1>v, <2>1 DEF Abandons, Protocol!Abandon, Sent, Told, Result, Limit
  <2> QED
    BY <2>2 DEF Protocol!Next
<1>6. CASE Ends(c)
  <2>1. PICK r \in Allowed(c) :
          SeenAs(c, "done", call[c].attempts, log[c].events, LastOf(c), r)
    BY <1>6 DEF Ends
  <2>2. /\ Stage' = [Stage EXCEPT ![c] = "done"] /\ Result' = [Result EXCEPT ![c] = r]
        /\ Sent' = Sent /\ Told' = Told /\ Last' = Last /\ Limit' = Limit
    BY <2>1, ViewUpdated, ViewKept
  <2>3. r \in Protocol!Justified(c) /\ r \in Protocol!Results
    BY AllowedJustified
  <2>4. Protocol!End(c, r)
    BY <1>6, <1>v, <2>2, <2>3 DEF Ends, Protocol!End, Sent, Told, Result, Limit
  <2> QED
    BY <2>3, <2>4 DEF Protocol!Next
<1>7. CASE Crashes(c)
  <2>1. /\ Stage' = [Stage EXCEPT ![c] = "done"] /\ Result' = [Result EXCEPT ![c] = "panic"]
        /\ Sent' = Sent /\ Told' = Told /\ Last' = Last /\ Limit' = Limit
    BY <1>7, ViewUpdated, ViewKept DEF Crashes
  <2>2. Protocol!Crash(c)
    BY <1>7, <1>v, <2>1 DEF Crashes, Protocol!Crash, Sent, Told, Result, Limit
  <2> QED
    BY <2>2 DEF Protocol!Next
<1> QED
  BY <1>1, <1>2, <1>3, <1>4, <1>5, <1>6, <1>7 DEF Seen

\* The engine implements CallProtocol for every set of calls, requests, options and
\* replies: observers and callers see only what the protocol allows.
THEOREM ProtocolImplemented == Spec => ImplementsProtocol
<1> DEFINE Decided == \A c \in Calls : DecisionInv(c)
<1>1. Init => Protocol!Init
  <2> SUFFICES ASSUME Init PROVE Protocol!Init
    OBVIOUS
  <2>1. \A c \in Calls : /\ cfg[c].maxAttempts \in Int /\ cfg[c].maxAttempts >= 1
                         /\ pc[c] = "idle" /\ call[c].history = <<>>
                         /\ call[c].attempts = 0 /\ log[c].events = 0 /\ ret[c].result = "none"
    BY NewConfig DEF Init, Configs, OptionType, NewCall, NewLog, NoReturn
  <2>2. Limit \in [Calls -> Nat \ {0}]
    BY <2>1 DEF Limit
  <2> QED
    BY <2>1, <2>2 DEF Protocol!Init, Stage, Last, Limit
<1>2. TypeOK /\ EngineInv /\ Decided /\ [Next]_vars => [Protocol!Next]_(Protocol!callVars)
  <2> SUFFICES ASSUME TypeOK, EngineInv, Decided, [Next]_vars
               PROVE  [Protocol!Next]_(Protocol!callVars)
    OBVIOUS
  <2>1. ASSUME NEW c \in Calls, Step(c) \/ Panic(c) \/ LateCommit(c)
        PROVE  [Protocol!Next]_(Protocol!callVars)
    <3>1. Alone(c) /\ Seen(c)
      BY <2>1, StepEffect, StepSeen DEF EngineInv
    <3> QED
      BY <3>1, SeenSimulated
  <2>2. CASE GateFlips \/ (\E c \in Calls : CancelCtx(c)) \/ UNCHANGED vars
    <3>1. \A c \in Calls : Untouched(c) /\ cfg' = cfg
      BY <2>2, QuietMove
    <3>2. \A c \in Calls : /\ pc'[c] = pc[c] /\ call'[c].history = call[c].history
                           /\ call'[c].attempts = call[c].attempts
                           /\ log'[c].events = log[c].events /\ ret'[c].result = ret[c].result
                           /\ cfg' = cfg
      BY <3>1 DEF Untouched, SameCall, CallIs, SameLog, SameTold, ToldIs, SameRet, RetIs
    <3>3. Stage' = Stage /\ Last' = Last
      BY <3>2 DEF Stage, Last
    <3>4. Sent' = Sent /\ Told' = Told /\ Result' = Result /\ Limit' = Limit
      BY <3>2 DEF Sent, Told, Result, Limit
    <3> QED
      BY <3>3, <3>4 DEF Protocol!callVars, Sent, Told, Result, Limit
  <2> QED
    BY <2>1, <2>2 DEF Next
<1> QED
  BY <1>1, <1>2, TypeCorrect, EngineInvariant, DecisionInvariant, PTL
     DEF Spec, ImplementsProtocol, Protocol!Spec
=============================================================================
