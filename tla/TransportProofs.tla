---------------------------- MODULE TransportProofs ----------------------------
(***************************************************************************)
(* Proofs about Transport, for any number of calls, any requests, options, *)
(* replies and backoffs that satisfy TransportAssumption.                   *)
(***************************************************************************)
EXTENDS Transport, TLAPS

Kinds == {"none", "response", "hook", "error", "exhausted", "panic"}

-----------------------------------------------------------------------------
(* The operators the actions are built from.                                *)

\* Machine arithmetic yields an integer.
LEMMA WrapInt == \A x \in Int : Wrap(x) \in Int
BY DurationAssumption DEF Wrap

\* retryAfter of any header is a duration.
LEMMA RetryAfterInt == \A h \in HeaderType : RetryAfter(h) \in Int
BY WrapInt, DurationAssumption DEF RetryAfter, HeaderType

\* New keeps the options' types and leaves at least one attempt.
LEMMA NewConfig == \A o \in Options : New(o) \in OptionType /\ New(o).maxAttempts >= 1
<1> SUFFICES ASSUME NEW o \in OptionType
             PROVE  New(o) \in OptionType /\ New(o).maxAttempts >= 1
  BY TransportAssumption
<1> DEFINE m == IF o.maxAttempts < 1 THEN 1 ELSE o.maxAttempts
           s == NormalizedStartWait(o.startWait)
           w == NormalizedRetryWait(o.retryWait)
           j == NormalizedReleaseJitter(o.releaseJitter)
<1>1. m \in Int /\ m >= 1 /\ s \in Int /\ w \in Int /\ j \in Int
  BY DurationAssumption
     DEF OptionType, NormalizedStartWait, NormalizedRetryWait, NormalizedReleaseJitter
<1>2. New(o) = [o EXCEPT !.maxAttempts = m, !.startWait = s, !.retryWait = w,
                         !.releaseJitter = j]
  BY DEF New
<1> HIDE DEF m, s, w, j
<1>3. New(o) \in OptionType
  BY <1>1, <1>2 DEF OptionType
<1>4. New(o).maxAttempts = m
  BY <1>2 DEF OptionType
<1> QED
  BY <1>1, <1>3, <1>4

\* Every reply classifies as one of the four outcomes.
LEMMA ClassifyOutcome == \A r \in ReplyType : DefaultClassify(r) \in Outcome
BY DEF DefaultClassify, Outcome

\* Every give-up reason has a result label.
LEMMA ReasonResult == \A x \in Reasons : ResultForReason(x) \in Results
BY DEF ResultForReason, Reasons, Results, GiveUpResults

\* Leaving do() keeps the types of the label, the return values and the gauge.
LEMMA ReturnTypes ==
  ASSUME TypeOK, NEW c \in Calls, NEW result \in Results, NEW kind \in Kinds,
         Return(c, result, kind)
  PROVE  /\ pc' \in [Calls -> Labels]
         /\ ret' \in [Calls -> ReturnType]
         /\ inFlight' \in Int
<1>1. pc \in [Calls -> Labels] /\ ret \in [Calls -> ReturnType] /\ inFlight \in Int
  BY DEF TypeOK
<1>2. pc' \in [Calls -> Labels]
  BY <1>1 DEF Return, Goto, Labels
<1>3. ret' \in [Calls -> ReturnType]
  BY <1>1 DEF Return, ReturnType, Kinds
<1>4. inFlight' \in Int
  BY <1>1 DEF Return
<1> QED
  BY <1>2, <1>3, <1>4

\* Attempt.discard keeps the types of the attempt and the history variables.
LEMMA DiscardTypes ==
  ASSUME TypeOK, NEW c \in Calls, Discard(c)
  PROVE  att' \in [Calls -> AttemptType] /\ log' \in [Calls -> LogType]
<1>1. att \in [Calls -> AttemptType] /\ log \in [Calls -> LogType]
  BY DEF TypeOK
<1>2. att' \in [Calls -> AttemptType]
  BY <1>1 DEF Discard, AttemptType
<1>3. att[c].n \in Nat
  BY <1>1 DEF AttemptType
<1>4. log' \in [Calls -> LogType]
  <2>1. CASE att[c].done
    BY <1>1, <2>1 DEF Discard
  <2>2. CASE ~att[c].done
    <3> DEFINE o == log[c].owned \ {att[c].n}
               x == IF HasResp(att[c].reply)
                    THEN log[c].closed \cup {att[c].n} ELSE log[c].closed
    <3>1. log' = [log EXCEPT ![c].owned = o, ![c].closed = x]
      BY <1>1, <2>2 DEF Discard
    <3>2. o \in SUBSET Nat /\ x \in SUBSET Nat
      BY <1>1, <1>3 DEF LogType
    <3> HIDE DEF o, x
    <3>3. ASSUME NEW r \in LogType
          PROVE  [r EXCEPT !.owned = o, !.closed = x] \in LogType
      BY <3>2 DEF LogType
    <3>4. log' = [log EXCEPT ![c] = [log[c] EXCEPT !.owned = o, !.closed = x]]
      BY <1>1, <3>1
    <3> QED
      BY <1>1, <3>3, <3>4
  <2> QED
    BY <2>1, <2>2
<1> QED
  BY <1>2, <1>4

\* Attempt.deliver, with either kind of reply, keeps the types.
LEMMA DeliverTypes ==
  ASSUME TypeOK, NEW c \in Calls, NEW result \in Results, Deliver(c, result)
  PROVE  /\ pc' \in [Calls -> Labels]
         /\ ret' \in [Calls -> ReturnType]
         /\ inFlight' \in Int
         /\ att' \in [Calls -> AttemptType] /\ log' \in [Calls -> LogType]
<1>1. CASE HasErr(att[c].reply)
  BY <1>1, DiscardTypes, ReturnTypes DEF Deliver, Kinds
<1>2. CASE ~HasErr(att[c].reply)
  <2>1. att \in [Calls -> AttemptType] /\ log \in [Calls -> LogType]
    BY DEF TypeOK
  <2>2. /\ att' = [att EXCEPT ![c].done = TRUE]
        /\ log' = [log EXCEPT ![c].owned = @ \ {att[c].n}]
        /\ Return(c, result, "response")
    BY <1>2 DEF Deliver
  <2>3. att' \in [Calls -> AttemptType]
    BY <2>1, <2>2 DEF AttemptType
  <2>4. log' \in [Calls -> LogType]
    BY <2>1, <2>2 DEF LogType
  <2> QED
    BY <2>2, <2>3, <2>4, ReturnTypes DEF Kinds
<1> QED
  BY <1>1, <1>2

\* finish keeps the types for every verdict a hook can return.
LEMMA FinishTypes ==
  ASSUME TypeOK, NEW c \in Calls, NEW v \in Verdicts, NEW okResult \in Results,
         Finish(c, v, okResult)
  PROVE  /\ pc' \in [Calls -> Labels]
         /\ ret' \in [Calls -> ReturnType]
         /\ inFlight' \in Int
         /\ att' \in [Calls -> AttemptType] /\ log' \in [Calls -> LogType]
<1>1. "hook_aborted" \in Results /\ "hook" \in Kinds /\ "error" \in Kinds
  BY DEF Results, Kinds
<1>2. CASE Deliver(c, okResult)
  BY <1>2, DeliverTypes
<1>3. CASE Discard(c) /\ Return(c, okResult, "hook")
  BY <1>1, <1>3, DiscardTypes, ReturnTypes
<1>4. CASE Discard(c) /\ Return(c, "hook_aborted", "error")
  BY <1>1, <1>4, DiscardTypes, ReturnTypes
<1> QED
  BY <1>2, <1>3, <1>4 DEF Finish, Verdicts
-----------------------------------------------------------------------------
(* Types.                                                                   *)

\* What the downstream does with a request keeps the sets of operations typed.
LEMMA PerformTypes ==
  ASSUME TypeOK, NEW c \in Calls, NEW e, Perform(c, e)
  PROVE  applied' \in [Calls -> SUBSET Nat] /\ late' \in [Calls -> SUBSET Nat]
<1>1. /\ applied \in [Calls -> SUBSET Nat] /\ late \in [Calls -> SUBSET Nat]
      /\ att \in [Calls -> AttemptType]
  BY DEF TypeOK
<1>2. OpId(c) \in Nat
  BY <1>1 DEF OpId, AttemptType
<1> QED
  BY <1>1, <1>2 DEF Perform

\* A new outage only resets the count of requests sent during the last one.
LEMMA OutageKeeps ==
  ASSUME log \in [Calls -> LogType], CountOutages
  PROVE  /\ log' \in [Calls -> LogType]
         /\ \A d \in Calls : log'[d].paid = log[d].paid
<1>1. CASE log' = log
  BY <1>1
<1>2. CASE log' = [c \in Calls |-> [log[c] EXCEPT !.leaks = 0]]
  BY <1>2 DEF LogType
<1> QED
  BY <1>1, <1>2 DEF CountOutages

\* Each step of a call keeps every variable's type.
LEMMA StepTypes ==
  ASSUME TypeOK, NEW c \in Calls, Step(c) \/ Panic(c) \/ CancelCtx(c) \/ LateCommit(c)
  PROVE  TypeOK'
<1>pc. pc \in [Calls -> Labels]
  BY DEF TypeOK
<1>call. call \in [Calls -> CallType]
  BY DEF TypeOK
<1>att. att \in [Calls -> AttemptType]
  BY DEF TypeOK
<1>n. att[c].n \in Nat
  BY <1>att DEF AttemptType
<1>wait. wait \in [Calls -> WaitType]
  BY DEF TypeOK
<1>ret. ret \in [Calls -> ReturnType]
  BY DEF TypeOK
<1>log. log \in [Calls -> LogType]
  BY DEF TypeOK
<1>effects. applied \in [Calls -> SUBSET Nat] /\ late \in [Calls -> SUBSET Nat]
  BY DEF TypeOK
<1>counts. tokens \in Nat /\ spent \in Nat /\ refunds \in Nat /\ inFlight \in Int
  BY DEF TypeOK
<1>1. CASE Start(c)
  <2>1. pc' \in [Calls -> Labels]
    BY <1>pc, <1>1 DEF Start, Goto, Labels
  <2>2. inFlight' \in Int
    BY <1>counts, <1>1 DEF Start
  <2> QED
    BY <1>1, <2>1, <2>2 DEF Start, TypeOK, static, budget, server
<1>2. CASE PrepareBody(c)
  <2>1. pc' \in [Calls -> Labels] /\ ret' \in [Calls -> ReturnType] /\ inFlight' \in Int
    <3>1. CASE Return(c, "body_error", "error")
      BY <3>1, ReturnTypes DEF Results, Kinds
    <3>2. CASE Goto(c, "attempt") /\ UNCHANGED <<ret, inFlight>>
      BY <3>2 DEF Goto, Labels, TypeOK
    <3> QED
      BY <1>2, <3>1, <3>2 DEF PrepareBody
  <2>2. call' \in [Calls -> CallType]
    <3>1. \/ call' = call
          \/ \E b :
               call' = [call EXCEPT ![c].replayable = (b # "once"), ![c].getBody = (b = "getbody")]
      BY <1>2 DEF PrepareBody
    <3>2. ASSUME NEW i \in BOOLEAN, NEW j \in BOOLEAN
          PROVE  [call EXCEPT ![c].replayable = i, ![c].getBody = j] \in [Calls -> CallType]
      BY <1>call DEF CallType
    <3> QED
      BY <1>call, <3>1, <3>2
  <2> QED
    BY <1>2, <2>1, <2>2 DEF PrepareBody, TypeOK, static, budget, server
<1>3. CASE BeginAttempt(c)
  <2>1. pc' \in [Calls -> Labels]
    BY <1>pc, <1>3 DEF BeginAttempt, Goto, Labels
  <2>2. att' \in [Calls -> AttemptType]
    BY <1>att, <1>3 DEF BeginAttempt, AttemptType, NewAttempt, NoReply, NoHeader, ReplyType, HeaderType, HeaderForms, Outcome, Verdicts, ErrTraits
  <2> QED
    BY <1>3, <2>1, <2>2 DEF BeginAttempt, TypeOK, static, budget, server
<1>4. CASE GetBodyFails(c)
  <2>1. pc' \in [Calls -> Labels] /\ ret' \in [Calls -> ReturnType] /\ inFlight' \in Int
    BY <1>4, ReturnTypes DEF GetBodyFails, Results, Kinds
  <2> QED
    BY <1>4, <2>1 DEF GetBodyFails, TypeOK, static, budget, server
<1>5. CASE GateAtStart(c)
  <2>1. pc' \in [Calls -> Labels]
    BY <1>pc, <1>5 DEF GateAtStart, Goto, Labels, AwaitOrReject
  <2>2. ret' \in [Calls -> ReturnType]
    BY <1>ret, <1>5 DEF GateAtStart, ReturnType, AwaitOrReject, Reasons
  <2>3. wait' \in [Calls -> WaitType]
    BY <1>wait, <1>5 DEF GateAtStart, WaitType, AwaitOrReject
  <2>4. log' \in [Calls -> LogType]
    <3>1. log' = log \/ log' = [log EXCEPT ![c].fresh = TRUE]
      BY <1>5 DEF GateAtStart, SeenHealthy
    <3>2. [log EXCEPT ![c].fresh = TRUE] \in [Calls -> LogType]
      BY <1>log DEF LogType
    <3> QED
      BY <1>log, <3>1, <3>2
  <2> QED
    BY <1>5, <2>1, <2>2, <2>3, <2>4 DEF GateAtStart, TypeOK, static, budget, server
<1>6. CASE AwaitRecovered(c)
  <2>1. pc' \in [Calls -> Labels]
    BY <1>pc, <1>6 DEF AwaitRecovered, Goto, Labels
  <2>2. log' \in [Calls -> LogType]
    <3>1. log' = log \/ log' = [log EXCEPT ![c].fresh = TRUE]
      BY <1>6 DEF AwaitRecovered, SeenHealthy
    <3>2. [log EXCEPT ![c].fresh = TRUE] \in [Calls -> LogType]
      BY <1>log DEF LogType
    <3> QED
      BY <1>log, <3>1, <3>2
  <2> QED
    BY <1>6, <2>1, <2>2 DEF AwaitRecovered, TypeOK, static, budget, server
<1>7. CASE AwaitTimeout(c)
  <2>1. pc' \in [Calls -> Labels]
    BY <1>pc, <1>7 DEF AwaitTimeout, Goto, Labels
  <2>2. ret' \in [Calls -> ReturnType]
    BY <1>ret, <1>7 DEF AwaitTimeout, ReturnType, Reasons
  <2> QED
    BY <1>7, <2>1, <2>2 DEF AwaitTimeout, TypeOK, static, budget, server
<1>8. CASE AwaitCanceled(c)
  <2>1. pc' \in [Calls -> Labels] /\ ret' \in [Calls -> ReturnType] /\ inFlight' \in Int
    BY <1>8, ReturnTypes DEF AwaitCanceled, Results, Kinds
  <2>2. att' \in [Calls -> AttemptType] /\ log' \in [Calls -> LogType]
    BY <1>8, DiscardTypes DEF AwaitCanceled
  <2> QED
    BY <1>8, <2>1, <2>2 DEF AwaitCanceled, TypeOK, static, budget, server
<1>9. CASE JitterDone(c)
  <2>1. pc' \in [Calls -> Labels]
    BY <1>pc, <1>9 DEF JitterDone, Goto, Labels
  <2> QED
    BY <1>9, <2>1 DEF JitterDone, TypeOK, static, budget, server
<1>10. CASE BeforeHooks(c)
  <2>1. PICK v \in HookVerdicts(c, cfg[c].before) :
          \/ v = "continue" /\ Goto(c, "send") /\ UNCHANGED <<att, log, ret, inFlight>>
          \/ Finish(c, v, "short_circuit")
    BY <1>10 DEF BeforeHooks
  <2>2. v \in Verdicts
    BY <2>1 DEF HookVerdicts, Verdicts
  <2>3. /\ pc' \in [Calls -> Labels] /\ ret' \in [Calls -> ReturnType] /\ inFlight' \in Int
        /\ att' \in [Calls -> AttemptType] /\ log' \in [Calls -> LogType]
    <3>1. CASE Finish(c, v, "short_circuit")
      BY <2>2, <3>1, FinishTypes DEF Results
    <3>2. CASE Goto(c, "send") /\ UNCHANGED <<att, log, ret, inFlight>>
      BY <3>2 DEF Goto, Labels, TypeOK
    <3> QED
      BY <2>1, <3>1, <3>2
  <2>4. call' \in [Calls -> CallType]
    BY <1>call, <1>10 DEF BeforeHooks, CallType
  <2> QED
    BY <1>10, <2>3, <2>4 DEF BeforeHooks, TypeOK, static, budget, server
<1>11. CASE Send(c)
  <2>1. /\ call' = [call EXCEPT ![c].attempts = @ + 1]
        /\ log' = [log EXCEPT ![c].owned = @ \cup {att[c].n},
                              ![c].leaks = IF cfg[c].gated /\ gate = "unhealthy"
                                           THEN @ + 1 ELSE @]
    BY <1>11 DEF Send
  <2>2. call' \in [Calls -> CallType]
    <3>1. call[c].attempts + 1 \in Nat
      BY <1>call DEF CallType
    <3>2. ASSUME NEW m \in Nat PROVE [call EXCEPT ![c].attempts = m] \in [Calls -> CallType]
      BY <1>call DEF CallType
    <3> QED
      BY <2>1, <3>1, <3>2
  <2>3. log' \in [Calls -> LogType]
    <3> DEFINE own == log[c].owned \cup {att[c].n}
               out == IF cfg[c].gated /\ gate = "unhealthy"
                      THEN log[c].leaks + 1 ELSE log[c].leaks
    <3>1. own \in SUBSET Nat /\ out \in Nat
      BY <1>log, <1>n DEF LogType
    <3>2. log' = [log EXCEPT ![c].owned = own, ![c].leaks = out]
      BY <1>log, <2>1
    <3> HIDE DEF own, out
    <3>3. [log[c] EXCEPT !.owned = own, !.leaks = out] \in LogType
      BY <1>log, <3>1 DEF LogType
    <3>4. log' = [log EXCEPT ![c] = [log[c] EXCEPT !.owned = own, !.leaks = out]]
      BY <1>log, <3>2 DEF LogType
    <3> QED
      BY ONLY <1>log, <3>3, <3>4
  <2>4. pc' \in [Calls -> Labels]
    BY <1>pc, <1>11 DEF Send, Goto, Labels
  <2> QED
    BY <1>11, <2>2, <2>3, <2>4 DEF Send, TypeOK, static, budget, server
<1>12. CASE Abandoned(c)
  <2>1. PICK r \in Replies : \E e \in Effects(r) :
          /\ Perform(c, e)
          /\ att' = [att EXCEPT ![c].reply = r, ![c].outcome = "fatal", ![c].done = TRUE]
    BY <1>12 DEF Abandoned
  <2>2. r \in ReplyType
    BY TransportAssumption
  <2>3. att' \in [Calls -> AttemptType]
    <3>1. att' = [att EXCEPT ![c].reply = r, ![c].outcome = "fatal", ![c].done = TRUE]
      BY <2>1
    <3>2. "fatal" \in Outcome
      BY DEF Outcome
    <3> QED
      BY <1>att, <2>2, <3>1, <3>2 DEF AttemptType
  <2>4. applied' \in [Calls -> SUBSET Nat] /\ late' \in [Calls -> SUBSET Nat]
    BY <2>1, PerformTypes
  <2>5. log' \in [Calls -> LogType]
    BY <1>log, <1>n, <1>12 DEF Abandoned, LogType
  <2>6. pc' \in [Calls -> Labels] /\ ret' \in [Calls -> ReturnType] /\ inFlight' \in Int
    BY <1>12, ReturnTypes DEF Abandoned, Results, Kinds
  <2> QED
    BY <1>12, <2>3, <2>4, <2>5, <2>6 DEF Abandoned, TypeOK, static, budget
<1>13. CASE Classified(c)
  <2>1. PICK r \in Replies : \E e \in Effects(r) :
          /\ Perform(c, e)
          /\ att' = [att EXCEPT ![c].reply = r, ![c].outcome = DefaultClassify(r)]
          /\ gate' \in {gate, "unhealthy"}
    BY <1>13 DEF Classified
  <2>2. r \in ReplyType /\ DefaultClassify(r) \in Outcome
    BY TransportAssumption, ClassifyOutcome
  <2>3. att' \in [Calls -> AttemptType]
    <3>1. att' = [att EXCEPT ![c].reply = r, ![c].outcome = DefaultClassify(r)]
      BY <2>1
    <3> QED
      BY <1>att, <2>2, <3>1 DEF AttemptType
  <2>4. applied' \in [Calls -> SUBSET Nat] /\ late' \in [Calls -> SUBSET Nat]
    BY <2>1, PerformTypes
  <2>5. pc' \in [Calls -> Labels]
    BY <1>pc, <1>13 DEF Classified, Goto, Labels
  <2>6. gate' \in {"healthy", "unhealthy"}
    BY <2>1 DEF TypeOK
  <2> QED
    BY <1>13, <1>log, <2>3, <2>4, <2>5, <2>6, OutageKeeps DEF Classified, TypeOK, static, budget
<1>14. CASE AfterHooks(c)
  <2>1. PICK o \in AfterOutcomes(c), v \in HookVerdicts(c, cfg[c].after = "custom") :
          /\ att' = [att EXCEPT ![c].outcome = o, ![c].verdict = v]
          /\ call' = [call EXCEPT ![c].history = Append(@, o)]
    BY <1>14 DEF AfterHooks
  <2>2. o \in Outcome /\ v \in Verdicts
    BY <1>att, <2>1 DEF AfterOutcomes, AttemptType, HookVerdicts, Verdicts
  <2>3. att' \in [Calls -> AttemptType]
    BY <1>att, <2>1, <2>2 DEF AttemptType
  <2>4. Append(call[c].history, o) \in Seq(Outcome)
    BY <1>call, <2>2 DEF CallType
  <2>5. call' \in [Calls -> CallType]
    BY <1>call, <2>1, <2>4 DEF CallType
  <2>6. log' \in [Calls -> LogType]
    <3>1. log' = [log EXCEPT ![c].events = @ + 1]
      BY <1>14 DEF AfterHooks
    <3> QED
      BY <1>log, <3>1 DEF LogType
  <2>7. pc' \in [Calls -> Labels]
    BY <1>pc, <1>14 DEF AfterHooks, Goto, Labels
  <2> QED
    BY <1>14, <2>3, <2>5, <2>6, <2>7 DEF AfterHooks, TypeOK, static, budget, server
<1>15. CASE ShortCircuit(c)
  <2>1. att[c].verdict \in Verdicts
    BY <1>att DEF AttemptType
  <2>2. Finish(c, att[c].verdict, "short_circuit")
    BY <1>15 DEF ShortCircuit
  <2>3. /\ pc' \in [Calls -> Labels] /\ ret' \in [Calls -> ReturnType] /\ inFlight' \in Int
        /\ att' \in [Calls -> AttemptType] /\ log' \in [Calls -> LogType]
    BY <2>1, <2>2, FinishTypes DEF Results
  <2> QED
    BY <1>15, <2>3 DEF ShortCircuit, TypeOK, static, budget, server
<1>16. CASE DeliverSuccess(c)
  <2>1. /\ pc' \in [Calls -> Labels] /\ ret' \in [Calls -> ReturnType] /\ inFlight' \in Int
        /\ att' \in [Calls -> AttemptType] /\ log' \in [Calls -> LogType]
    BY <1>16, DeliverTypes DEF DeliverSuccess, Results
  <2>2. tokens' \in Nat /\ spent' \in Nat /\ refunds' \in Nat
    BY <1>16, <1>counts, TransportAssumption DEF DeliverSuccess, Refund, Least, budget
  <2> QED
    BY <1>16, <2>1, <2>2 DEF DeliverSuccess, TypeOK, static, budget, server
<1>17. CASE DeliverFatal(c)
  <2>1. /\ pc' \in [Calls -> Labels] /\ ret' \in [Calls -> ReturnType] /\ inFlight' \in Int
        /\ att' \in [Calls -> AttemptType] /\ log' \in [Calls -> LogType]
    BY <1>17, DeliverTypes DEF DeliverFatal, Results
  <2> QED
    BY <1>17, <2>1 DEF DeliverFatal, TypeOK, static, budget, server
<1>18. CASE RefuseRetry(c)
  <2>1. pc' \in [Calls -> Labels]
    BY <1>pc, <1>18 DEF RefuseRetry, Goto, Labels
  <2>2. ret' \in [Calls -> ReturnType]
    <3> DEFINE x == IF Refusal(c) # "none" THEN Refusal(c) ELSE "budget"
    <3>1. x \in Reasons
      BY DEF Refusal, Reasons
    <3>2. ret' = [ret EXCEPT ![c].reason = x]
      BY <1>18 DEF RefuseRetry
    <3> HIDE DEF x
    <3> QED
      BY <1>ret, <3>1, <3>2 DEF ReturnType
  <2> QED
    BY <1>18, <2>1, <2>2 DEF RefuseRetry, TypeOK, static, budget, server
<1>19. CASE SpendToken(c)
  <2>1. pc' \in [Calls -> Labels]
    BY <1>pc, <1>19 DEF SpendToken, Goto, Labels
  <2>2. log' \in [Calls -> LogType]
    BY <1>log, <1>n, <1>19 DEF SpendToken, LogType
  <2>3. tokens' \in Nat /\ spent' \in Nat
    BY <1>counts, <1>19, TransportAssumption DEF SpendToken, Affordable
  <2> QED
    BY <1>19, <2>1, <2>2, <2>3 DEF SpendToken, TypeOK, static, budget, server
<1>20. CASE RetryAfterTooLong(c)
  <2>1. pc' \in [Calls -> Labels]
    BY <1>pc, <1>20 DEF RetryAfterTooLong, Goto, Labels
  <2>2. ret' \in [Calls -> ReturnType]
    BY <1>ret, <1>20 DEF RetryAfterTooLong, ReturnType, Reasons
  <2> QED
    BY <1>20, <2>1, <2>2 DEF RetryAfterTooLong, TypeOK, static, budget, server
<1>21. CASE ChooseDelay(c)
  <2>1. PICK b \in Backoffs : \E r \in {b, RetryAfter(att[c].reply.retryAfter)} :
          \E s \in {"backoff", "retry_after"} :
            wait' = [wait EXCEPT ![c] = [at |-> "retry", delay |-> r, source |-> s]]
    BY <1>21 DEF ChooseDelay
  <2>2. b \in Int /\ RetryAfter(att[c].reply.retryAfter) \in Int
    BY <1>att, TransportAssumption, RetryAfterInt DEF AttemptType, ReplyType
  <2>3. wait' \in [Calls -> WaitType]
    BY <1>wait, <2>1, <2>2 DEF WaitType
  <2>4. att' \in [Calls -> AttemptType] /\ log' \in [Calls -> LogType]
    BY <1>21, DiscardTypes DEF ChooseDelay
  <2>5. pc' \in [Calls -> Labels]
    BY <1>pc, <1>21 DEF ChooseDelay, Goto, Labels
  <2> QED
    BY <1>21, <2>3, <2>4, <2>5 DEF ChooseDelay, TypeOK, static, budget, server
<1>22. CASE PauseCheck(c)
  <2>1. pc' \in [Calls -> Labels]
    BY <1>pc, <1>22 DEF PauseCheck, Goto, Labels, AwaitOrReject
  <2>2. ret' \in [Calls -> ReturnType]
    BY <1>ret, <1>22 DEF PauseCheck, ReturnType, AwaitOrReject, Reasons
  <2>3. wait' \in [Calls -> WaitType]
    BY <1>wait, <1>22 DEF PauseCheck, WaitType, AwaitOrReject
  <2>4. log' \in [Calls -> LogType]
    <3>1. ASSUME NEW f \in BOOLEAN
          PROVE  [log EXCEPT ![c].fresh = f, ![c].slept = FALSE] \in [Calls -> LogType]
      BY <1>log DEF LogType
    <3>2. (~Tripped(c)) \in BOOLEAN
      OBVIOUS
    <3>3. log' = [log EXCEPT ![c].fresh = ~Tripped(c), ![c].slept = FALSE]
      BY <1>22 DEF PauseCheck
    <3> QED
      BY <3>1, <3>2, <3>3
  <2> QED
    BY <1>22, <2>1, <2>2, <2>3, <2>4 DEF PauseCheck, TypeOK, static, budget, server
<1>23. CASE Sleep(c)
  <2>1. pc' \in [Calls -> Labels]
    BY <1>pc, <1>23 DEF Sleep, Goto, Labels
  <2>2. log' \in [Calls -> LogType]
    BY <1>log, <1>n, <1>23 DEF Sleep, LogType
  <2>3. applied' \in [Calls -> SUBSET Nat]
    BY <1>effects, <1>23 DEF Sleep, server
  <2>4. late' \in [Calls -> SUBSET Nat]
    BY <1>effects, <1>23 DEF Sleep, server
  <2> QED
    BY <1>23, <2>1, <2>2, <2>3, <2>4 DEF Sleep, TypeOK, static, budget, server
<1>24. CASE SleepCanceled(c)
  <2>1. pc' \in [Calls -> Labels] /\ ret' \in [Calls -> ReturnType] /\ inFlight' \in Int
    BY <1>24, ReturnTypes DEF SleepCanceled, Results, Kinds
  <2> QED
    BY <1>24, <2>1 DEF SleepCanceled, TypeOK, static, budget, server
<1>25. CASE Recheck(c)
  <2>1. log' = log \/ log' = [log EXCEPT ![c].fresh = TRUE]
    BY <1>25 DEF Recheck, SeenHealthy
  <2>2. log' \in [Calls -> LogType]
    <3>1. [log EXCEPT ![c].fresh = TRUE] \in [Calls -> LogType]
      BY <1>log DEF LogType
    <3> QED
      BY <1>log, <2>1, <3>1
  <2>3. pc' \in [Calls -> Labels]
    BY <1>pc, <1>25 DEF Recheck, AwaitOrReject, Goto, Labels
  <2>4. ret' \in [Calls -> ReturnType]
    BY <1>ret, <1>25 DEF Recheck, AwaitOrReject, ReturnType, Reasons
  <2>5. wait' \in [Calls -> WaitType]
    BY <1>wait, <1>25 DEF Recheck, AwaitOrReject, WaitType
  <2> QED
    BY <1>25, <2>2, <2>3, <2>4, <2>5 DEF Recheck, TypeOK, static, budget, server
<1>26. CASE ReconcileHooks(c)
  <2>1. /\ pc' \in [Calls -> Labels] /\ ret' \in [Calls -> ReturnType] /\ inFlight' \in Int
        /\ att' \in [Calls -> AttemptType] /\ log' \in [Calls -> LogType]
    <3>1. ASSUME NEW v \in Verdicts, Finish(c, v, "reconciled")
          PROVE  <2>1!:
      BY <3>1, FinishTypes DEF Results
    <3>2. CASE /\ Goto(c, "attempt")
               /\ \/ log' = log
                  \/ log' = [log EXCEPT ![c].probed = @ \cup {att[c].n}]
                  \/ log' = [log EXCEPT ![c].probed = @]
               /\ UNCHANGED <<att, ret, inFlight>>
      <4>1. pc' \in [Calls -> Labels]
        BY <3>2 DEF Goto, Labels, TypeOK
      <4>3. log' \in [Calls -> LogType]
        BY <1>log, <1>n, <3>2 DEF LogType
      <4> QED
        BY <3>2, <4>1, <4>3 DEF TypeOK
    <3>3. \A end \in ReconcileEnds(c) : end.verdict \in Verdicts
      BY DEF ReconcileEnds, ReconcilerVerdict, HookVerdicts, Verdicts
    <3> QED
      BY <1>26, <3>1, <3>2, <3>3 DEF ReconcileHooks
  <2> QED
    BY <1>26, <2>1 DEF ReconcileHooks, TypeOK, static, budget, server
<1>27. CASE GiveUpHooks(c)
  <2>1. PICK v \in HookVerdicts(c, cfg[c].giveUp) : Finish(c, v, "fallback")
    BY <1>27 DEF GiveUpHooks
  <2>2. v \in Verdicts
    BY <2>1 DEF HookVerdicts, Verdicts
  <2>3. /\ pc' \in [Calls -> Labels] /\ ret' \in [Calls -> ReturnType] /\ inFlight' \in Int
        /\ att' \in [Calls -> AttemptType] /\ log' \in [Calls -> LogType]
    BY <2>1, <2>2, FinishTypes DEF Results
  <2> QED
    BY <1>27, <2>3 DEF GiveUpHooks, TypeOK, static, budget, server
<1>28. CASE GiveUp(c)
  <2>1. ResultForReason(ret[c].reason) \in Results
    BY <1>ret, ReasonResult DEF ReturnType
  <2>2. /\ pc' \in [Calls -> Labels] /\ ret' \in [Calls -> ReturnType] /\ inFlight' \in Int
        /\ att' \in [Calls -> AttemptType] /\ log' \in [Calls -> LogType]
    BY <1>28, <2>1, DeliverTypes, DiscardTypes, ReturnTypes DEF GiveUp, Kinds
  <2> QED
    BY <1>28, <2>2 DEF GiveUp, TypeOK, static, budget, server
<1>29. CASE Panic(c)
  <2>1. pc' \in [Calls -> Labels] /\ ret' \in [Calls -> ReturnType] /\ inFlight' \in Int
    BY <1>29, ReturnTypes DEF Panic, Results, Kinds
  <2> QED
    BY <1>29, <2>1 DEF Panic, TypeOK, static, budget, server
<1>30. CASE CancelCtx(c)
  <2>1. canceled' \in [Calls -> BOOLEAN]
    BY TypeOK, <1>30 DEF CancelCtx, TypeOK
  <2> QED
    BY <1>30, <2>1 DEF CancelCtx, TypeOK, static, budget, server
<1>31. CASE LateCommit(c)
  <2>1. applied' \in [Calls -> SUBSET Nat]
    BY <1>effects, <1>31 DEF LateCommit
  <2>2. late' \in [Calls -> SUBSET Nat]
    BY <1>effects, <1>31 DEF LateCommit
  <2> QED
    BY <1>31, <2>1, <2>2 DEF LateCommit, TypeOK, static, budget, server, control
<1> QED
  BY <1>1, <1>2, <1>3, <1>4, <1>5, <1>6, <1>7, <1>8, <1>9, <1>10, <1>11, <1>12,
     <1>13, <1>14, <1>15, <1>16, <1>17, <1>18, <1>19, <1>20, <1>21, <1>22, <1>23,
     <1>24, <1>25, <1>26, <1>27, <1>28, <1>29, <1>30, <1>31
     DEF Step

\* Every variable of the engine keeps its type, and the budget never goes below
\* zero however the calls interleave.
THEOREM TypeCorrect == Spec => []TypeOK
<1>1. Init => TypeOK
  <2> SUFFICES ASSUME Init PROVE TypeOK
    OBVIOUS
  <2>1. cfg \in [Calls -> OptionType] /\ req \in [Calls -> RequestType]
    BY NewConfig, TransportAssumption DEF Init, Configs
  <2>2. call \in [Calls -> CallType] /\ wait \in [Calls -> WaitType]
    BY DEF Init, CallType, NewCall, WaitType, NoWait
  <2>3. NewAttempt(0) \in AttemptType
    BY DEF NewAttempt, AttemptType, NoReply, NoHeader, ReplyType, HeaderType, HeaderForms,
           ErrTraits, Outcome, Verdicts
  <2>4. ret \in [Calls -> ReturnType] /\ log \in [Calls -> LogType]
    BY DEF Init, ReturnType, NoReturn, Reasons, Results, LogType, NewLog
  <2> QED
    BY <2>1, <2>2, <2>3, <2>4, TransportAssumption DEF Init, TypeOK, Labels
<1>2. TypeOK /\ [Next]_vars => TypeOK'
  <2>1. ASSUME TypeOK, GateFlips PROVE TypeOK'
    <3>1. log' \in [Calls -> LogType]
      BY <2>1, OutageKeeps DEF GateFlips, TypeOK
    <3> QED
      BY <2>1, <3>1 DEF GateFlips, TypeOK, static, budget, server
  <2>2. ASSUME TypeOK, UNCHANGED vars PROVE TypeOK'
    BY <2>2 DEF vars, TypeOK
  <2> QED
    BY <2>1, <2>2, StepTypes DEF Next
<1> QED
  BY <1>1, <1>2, PTL DEF Spec
-----------------------------------------------------------------------------
(* The retry budget.  RetriesFunded is not inductive: that a call sends at   *)
(* most one request more than it has paid for needs to know that a call      *)
(* which is about to send owes nothing.                                      *)

\* Where a call is between paying (or starting) and sending.
Ahead == {"idle", "body", "attempt", "gate", "await", "jitter", "before", "send",
          "backoff", "pause", "sleep", "recheck", "reconcile"}

BudgetInv ==
  /\ RetriesFunded
  /\ \A c \in Calls : cfg[c].budgeted /\ pc[c] \in Ahead => call[c].attempts <= log[c].paid

\* A step keeps the invariant if it leaves the bucket, the attempts and the
\* payments alone and brings no call back in front of its next request.
LEMMA BudgetFrame ==
  ASSUME BudgetInv, UNCHANGED <<cfg, tokens, spent, refunds>>,
         \A d \in Calls : /\ call'[d].attempts = call[d].attempts
                          /\ log'[d].paid = log[d].paid
                          /\ pc'[d] \in Ahead => pc[d] \in Ahead
  PROVE  BudgetInv'
BY DEF BudgetInv, RetriesFunded

\* discard does not touch what a call has paid.
LEMMA DiscardKeepsPaid ==
  ASSUME TypeOK, NEW c \in Calls, Discard(c)
  PROVE  \A d \in Calls : log'[d].paid = log[d].paid
BY DEF TypeOK, Discard, LogType

\* A call that returns is not in front of a next request.
LEMMA ReturnLeaves ==
  ASSUME TypeOK, NEW c \in Calls, NEW result, NEW kind, Return(c, result, kind)
  PROVE  \A d \in Calls : pc'[d] \in Ahead => pc[d] \in Ahead
BY DEF TypeOK, Return, Goto, Ahead

\* deliver touches neither payments nor attempts, and leaves the loop.
LEMMA DeliverKeeps ==
  ASSUME TypeOK, NEW c \in Calls, NEW result, Deliver(c, result)
  PROVE  \A d \in Calls : /\ log'[d].paid = log[d].paid
                          /\ pc'[d] \in Ahead => pc[d] \in Ahead
<1>1. CASE HasErr(att[c].reply)
  BY <1>1, DiscardKeepsPaid, ReturnLeaves DEF Deliver
<1>2. CASE ~HasErr(att[c].reply)
  <2>1. log' = [log EXCEPT ![c].owned = @ \ {att[c].n}] /\ Return(c, result, "response")
    BY <1>2 DEF Deliver
  <2>2. \A d \in Calls : log'[d].paid = log[d].paid
    BY <2>1 DEF TypeOK, LogType
  <2> QED
    BY <2>1, <2>2, ReturnLeaves
<1> QED
  BY <1>1, <1>2

\* finish touches neither payments nor attempts, and leaves the loop.
LEMMA FinishKeeps ==
  ASSUME TypeOK, NEW c \in Calls, NEW v, NEW okResult, Finish(c, v, okResult)
  PROVE  \A d \in Calls : /\ log'[d].paid = log[d].paid
                          /\ pc'[d] \in Ahead => pc[d] \in Ahead
<1>1. CASE Deliver(c, okResult)
  BY <1>1, DeliverKeeps
<1>2. CASE Discard(c) /\ Return(c, okResult, "hook")
  BY <1>2, DiscardKeepsPaid, ReturnLeaves
<1>3. CASE Discard(c) /\ Return(c, "hook_aborted", "error")
  BY <1>3, DiscardKeepsPaid, ReturnLeaves
<1> QED
  BY <1>1, <1>2, <1>3 DEF Finish

\* Each step of a call keeps the budget invariant.
LEMMA StepBudget ==
  ASSUME TypeOK, BudgetInv, NEW c \in Calls,
         Step(c) \/ Panic(c) \/ CancelCtx(c) \/ LateCommit(c)
  PROVE  BudgetInv'
<1>pc. pc \in [Calls -> Labels]
  BY DEF TypeOK
<1>call. call \in [Calls -> CallType]
  BY DEF TypeOK
<1>log. log \in [Calls -> LogType]
  BY DEF TypeOK
<1>counts. tokens \in Nat /\ spent \in Nat /\ refunds \in Nat
  BY DEF TypeOK
<1>1. CASE Start(c)
  <2>1. \A d \in Calls : pc'[d] \in Ahead => pc[d] \in Ahead
    BY <1>pc, <1>1 DEF Start, Goto, Ahead
  <2> QED
    BY <1>1, <2>1, BudgetFrame DEF Start, static, budget
<1>2. CASE PrepareBody(c)
  <2>1. \A d \in Calls : pc'[d] \in Ahead => pc[d] \in Ahead
    BY <1>pc, <1>2 DEF PrepareBody, Return, Goto, Ahead
  <2>2. \A d \in Calls : call'[d].attempts = call[d].attempts
    BY <1>call, <1>2 DEF PrepareBody, CallType
  <2> QED
    BY <1>2, <2>1, <2>2, BudgetFrame DEF PrepareBody, static, budget
<1>3. CASE BeginAttempt(c)
  <2>1. \A d \in Calls : pc'[d] \in Ahead => pc[d] \in Ahead
    BY <1>pc, <1>3 DEF BeginAttempt, Goto, Ahead
  <2> QED
    BY <1>3, <2>1, BudgetFrame DEF BeginAttempt, static, budget
<1>4. CASE GetBodyFails(c)
  <2>1. \A d \in Calls : pc'[d] \in Ahead => pc[d] \in Ahead
    BY <1>4, ReturnLeaves DEF GetBodyFails
  <2> QED
    BY <1>4, <2>1, BudgetFrame DEF GetBodyFails, static, budget
<1>5. CASE GateAtStart(c)
  <2>1. \A d \in Calls : pc'[d] \in Ahead => pc[d] \in Ahead
    BY <1>pc, <1>5 DEF GateAtStart, Goto, Ahead, AwaitOrReject
  <2>2. \A d \in Calls : log'[d].paid = log[d].paid
    BY <1>log, <1>5 DEF GateAtStart, LogType, SeenHealthy
  <2> QED
    BY <1>5, <2>1, <2>2, BudgetFrame DEF GateAtStart, static, budget
<1>6. CASE AwaitRecovered(c)
  <2>1. \A d \in Calls : pc'[d] \in Ahead => pc[d] \in Ahead
    BY <1>pc, <1>6 DEF AwaitRecovered, Goto, Ahead
  <2>2. \A d \in Calls : log'[d].paid = log[d].paid
    BY <1>log, <1>6 DEF AwaitRecovered, LogType, SeenHealthy
  <2> QED
    BY <1>6, <2>1, <2>2, BudgetFrame DEF AwaitRecovered, static, budget
<1>7. CASE AwaitTimeout(c)
  <2>1. \A d \in Calls : pc'[d] \in Ahead => pc[d] \in Ahead
    BY <1>pc, <1>7 DEF AwaitTimeout, Goto, Ahead
  <2> QED
    BY <1>7, <2>1, BudgetFrame DEF AwaitTimeout, static, budget
<1>8. CASE AwaitCanceled(c)
  <2>1. \A d \in Calls : pc'[d] \in Ahead => pc[d] \in Ahead
    BY <1>8, ReturnLeaves DEF AwaitCanceled
  <2>2. \A d \in Calls : log'[d].paid = log[d].paid
    BY <1>8, DiscardKeepsPaid DEF AwaitCanceled
  <2> QED
    BY <1>8, <2>1, <2>2, BudgetFrame DEF AwaitCanceled, static, budget
<1>9. CASE JitterDone(c)
  <2>1. \A d \in Calls : pc'[d] \in Ahead => pc[d] \in Ahead
    BY <1>pc, <1>9 DEF JitterDone, Goto, Ahead
  <2> QED
    BY <1>9, <2>1, BudgetFrame DEF JitterDone, static, budget
<1>10. CASE BeforeHooks(c)
  <2>1. \A d \in Calls : call'[d].attempts = call[d].attempts
    BY <1>call, <1>10 DEF BeforeHooks, CallType
  <2>2. \A d \in Calls : /\ log'[d].paid = log[d].paid
                         /\ pc'[d] \in Ahead => pc[d] \in Ahead
    <3>1. CASE pc[c] = "before" /\ Goto(c, "send") /\ UNCHANGED log
      BY <1>pc, <3>1 DEF Goto, Ahead
    <3>2. CASE \E v : Finish(c, v, "short_circuit")
      BY <3>2, FinishKeeps
    <3> QED
      BY <1>10, <3>1, <3>2 DEF BeforeHooks
  <2> QED
    BY <1>10, <2>1, <2>2, BudgetFrame DEF BeforeHooks, static, budget
<1>11. CASE Send(c)
  <2>1. \A d \in Calls : log'[d].paid = log[d].paid
    BY <1>log, <1>11 DEF Send, LogType
  <2>2. /\ pc[c] = "send" /\ pc'[c] = "inflight"
        /\ call'[c].attempts = call[c].attempts + 1
    BY <1>pc, <1>call, <1>11 DEF Send, Goto, CallType
  <2>3. \A d \in Calls : d # c => pc'[d] = pc[d] /\ call'[d].attempts = call[d].attempts
    BY <1>pc, <1>call, <1>11 DEF Send, Goto
  <2>4. UNCHANGED <<cfg, tokens, spent, refunds>>
    BY <1>11 DEF Send, static, budget
  <2>5. call[c].attempts \in Nat /\ log[c].paid \in Nat
    BY <1>call, <1>log DEF CallType, LogType
  <2>6. "send" \in Ahead /\ "inflight" \notin Ahead
    BY DEF Ahead
  <2>7. cfg[c].budgeted => call'[c].attempts <= log'[c].paid + 1
    BY <2>1, <2>2, <2>5, <2>6 DEF BudgetInv
  <2> QED
    BY <2>1, <2>2, <2>3, <2>4, <2>6, <2>7 DEF BudgetInv, RetriesFunded
<1>12. CASE Abandoned(c)
  <2>1. \A d \in Calls : pc'[d] \in Ahead => pc[d] \in Ahead
    BY <1>12, ReturnLeaves DEF Abandoned
  <2>2. \A d \in Calls : log'[d].paid = log[d].paid
    BY <1>log, <1>12 DEF Abandoned, LogType
  <2> QED
    BY <1>12, <2>1, <2>2, BudgetFrame DEF Abandoned, static, budget
<1>13. CASE Classified(c)
  <2>1. \A d \in Calls : pc'[d] \in Ahead => pc[d] \in Ahead
    BY <1>pc, <1>13 DEF Classified, Goto, Ahead
  <2> QED
    BY <1>13, <1>log, <2>1, BudgetFrame, OutageKeeps DEF Classified, static, budget
<1>14. CASE AfterHooks(c)
  <2>1. \A d \in Calls : pc'[d] \in Ahead => pc[d] \in Ahead
    BY <1>pc, <1>14 DEF AfterHooks, Goto, Ahead
  <2>2. \A d \in Calls : log'[d].paid = log[d].paid
    BY <1>log, <1>14 DEF AfterHooks, LogType
  <2>3. \E o : call' = [call EXCEPT ![c].history = Append(@, o)]
    BY <1>14 DEF AfterHooks
  <2>4. \A d \in Calls : call'[d].attempts = call[d].attempts
    BY <1>call, <2>3 DEF CallType
  <2> QED
    BY <1>14, <2>1, <2>2, <2>4, BudgetFrame DEF AfterHooks, static, budget
<1>15. CASE ShortCircuit(c)
  <2>1. \A d \in Calls : /\ log'[d].paid = log[d].paid
                         /\ pc'[d] \in Ahead => pc[d] \in Ahead
    BY <1>15, FinishKeeps DEF ShortCircuit
  <2> QED
    BY <1>15, <2>1, BudgetFrame DEF ShortCircuit, static, budget
<1>16. CASE DeliverSuccess(c)
  <2>1. \A d \in Calls : /\ log'[d].paid = log[d].paid
                         /\ pc'[d] \in Ahead => pc[d] \in Ahead
    BY <1>16, DeliverKeeps DEF DeliverSuccess
  <2>2. CASE UNCHANGED budget
    BY <1>16, <2>1, <2>2, BudgetFrame DEF DeliverSuccess, static, budget
  <2>3. CASE ~UNCHANGED budget
    <3>1. /\ tokens' = Least(MaxTokens, tokens + Ratio)
          /\ refunds' = refunds + 1
          /\ spent' = spent
      BY <1>16, <2>3 DEF DeliverSuccess, Refund
    <3>2. tokens' <= MaxTokens /\ tokens' <= tokens + Ratio
      BY <1>counts, <3>1, TransportAssumption DEF Least
    <3>3. Ratio * refunds' = Ratio * refunds + Ratio
      BY <1>counts, <3>1, TransportAssumption
    <3>4. TokenUnit * spent \in Nat /\ Ratio * refunds \in Nat /\ tokens' \in Nat
      BY <1>counts, <3>1, TransportAssumption DEF Least
    <3>5. tokens' + TokenUnit * spent' <= MaxTokens + Ratio * refunds'
      BY <1>counts, <3>1, <3>2, <3>3, <3>4, TransportAssumption DEF BudgetInv, RetriesFunded
    <3>6. UNCHANGED <<cfg, call>>
      BY <1>16 DEF DeliverSuccess, static
    <3> QED
      BY <2>1, <3>2, <3>5, <3>6 DEF BudgetInv, RetriesFunded
  <2> QED
    BY <2>2, <2>3
<1>17. CASE DeliverFatal(c)
  <2>1. \A d \in Calls : /\ log'[d].paid = log[d].paid
                         /\ pc'[d] \in Ahead => pc[d] \in Ahead
    BY <1>17, DeliverKeeps DEF DeliverFatal
  <2> QED
    BY <1>17, <2>1, BudgetFrame DEF DeliverFatal, static, budget
<1>18. CASE RefuseRetry(c)
  <2>1. \A d \in Calls : pc'[d] \in Ahead => pc[d] \in Ahead
    BY <1>pc, <1>18 DEF RefuseRetry, Goto, Ahead
  <2> QED
    BY <1>18, <2>1, BudgetFrame DEF RefuseRetry, static, budget
<1>19. CASE SpendToken(c)
  <2>1. pc' = [pc EXCEPT ![c] = "backoff"]
    BY <1>19 DEF SpendToken, Goto
  <2>2. UNCHANGED <<cfg, call, refunds>>
    BY <1>19 DEF SpendToken, static
  <2>3. CASE cfg[c].budgeted
    <3>1. /\ tokens' = tokens - TokenUnit /\ spent' = spent + 1
          /\ log' = [log EXCEPT ![c].paid = @ + 1]
      BY <1>19, <2>3 DEF SpendToken
    <3>2. TokenUnit * spent' = TokenUnit * spent + TokenUnit
      BY <1>counts, <3>1, TransportAssumption
    <3>3. TokenUnit * spent \in Nat /\ Ratio * refunds \in Nat
      BY <1>counts, TransportAssumption
    <3>4. /\ tokens' <= MaxTokens
          /\ tokens' + TokenUnit * spent' <= MaxTokens + Ratio * refunds'
      BY <1>counts, <2>2, <3>1, <3>2, <3>3, TransportAssumption DEF BudgetInv, RetriesFunded
    <3>5. \A d \in Calls : d # c => log'[d].paid = log[d].paid
      BY <1>log, <3>1
    <3>6. log'[c].paid = log[c].paid + 1 /\ log[c].paid \in Nat /\ call[c].attempts \in Nat
      BY <1>log, <1>call, <3>1 DEF LogType, CallType
    <3>7. call[c].attempts <= log[c].paid + 1
      BY <2>3 DEF BudgetInv, RetriesFunded
    <3>8. \A d \in Calls : d # c => pc'[d] = pc[d]
      BY <1>pc, <2>1
    <3>9. call'[c].attempts <= log'[c].paid /\ call'[c].attempts <= log'[c].paid + 1
      BY <2>2, <3>6, <3>7
    <3> QED
      BY <2>2, <3>4, <3>5, <3>8, <3>9 DEF BudgetInv, RetriesFunded
  <2>4. CASE ~cfg[c].budgeted
    <3>1. UNCHANGED <<tokens, spent, log>>
      BY <1>19, <2>4 DEF SpendToken
    <3>2. \A d \in Calls : d # c => pc'[d] = pc[d]
      BY <1>pc, <2>1
    <3> QED
      BY <2>2, <2>4, <3>1, <3>2 DEF BudgetInv, RetriesFunded
  <2> QED
    BY <2>3, <2>4
<1>20. CASE RetryAfterTooLong(c)
  <2>1. \A d \in Calls : pc'[d] \in Ahead => pc[d] \in Ahead
    BY <1>pc, <1>20 DEF RetryAfterTooLong, Goto, Ahead
  <2> QED
    BY <1>20, <2>1, BudgetFrame DEF RetryAfterTooLong, static, budget
<1>21. CASE ChooseDelay(c)
  <2>1. \A d \in Calls : pc'[d] \in Ahead => pc[d] \in Ahead
    BY <1>pc, <1>21 DEF ChooseDelay, Goto, Ahead
  <2>2. \A d \in Calls : log'[d].paid = log[d].paid
    BY <1>21, DiscardKeepsPaid DEF ChooseDelay
  <2> QED
    BY <1>21, <2>1, <2>2, BudgetFrame DEF ChooseDelay, static, budget
<1>22. CASE PauseCheck(c)
  <2>1. \A d \in Calls : pc'[d] \in Ahead => pc[d] \in Ahead
    BY <1>pc, <1>22 DEF PauseCheck, Goto, Ahead, AwaitOrReject
  <2>2. \A d \in Calls : log'[d].paid = log[d].paid
    BY <1>log, <1>22 DEF PauseCheck, LogType
  <2> QED
    BY <1>22, <2>1, <2>2, BudgetFrame DEF PauseCheck, static, budget
<1>23. CASE Sleep(c)
  <2>1. \A d \in Calls : pc'[d] \in Ahead => pc[d] \in Ahead
    BY <1>pc, <1>23 DEF Sleep, Goto, Ahead
  <2>2. \A d \in Calls : log'[d].paid = log[d].paid
    BY <1>log, <1>23 DEF Sleep, LogType
  <2> QED
    BY <1>23, <2>1, <2>2, BudgetFrame DEF Sleep, static, budget
<1>24. CASE SleepCanceled(c)
  <2>1. \A d \in Calls : pc'[d] \in Ahead => pc[d] \in Ahead
    BY <1>24, ReturnLeaves DEF SleepCanceled
  <2> QED
    BY <1>24, <2>1, BudgetFrame DEF SleepCanceled, static, budget
<1>25. CASE Recheck(c)
  <2>1. \A d \in Calls : pc'[d] \in Ahead => pc[d] \in Ahead
    BY <1>pc, <1>25 DEF Recheck, Goto, Ahead, AwaitOrReject
  <2>2. \A d \in Calls : log'[d].paid = log[d].paid
    BY <1>log, <1>25 DEF Recheck, LogType, SeenHealthy
  <2> QED
    BY <1>25, <2>1, <2>2, BudgetFrame DEF Recheck, static, budget
<1>26. CASE ReconcileHooks(c)
  <2>1. \A d \in Calls : /\ log'[d].paid = log[d].paid
                         /\ pc'[d] \in Ahead => pc[d] \in Ahead
    <3>1. CASE \E v : Finish(c, v, "reconciled")
      BY <3>1, FinishKeeps
    <3>2. CASE /\ pc[c] = "reconcile" /\ Goto(c, "attempt")
               /\ \/ UNCHANGED log
                  \/ \E x : log' = [log EXCEPT ![c].probed = x]
      <4>1. \A d \in Calls : log'[d].paid = log[d].paid
        BY <1>log, <3>2 DEF LogType
      <4>2. \A d \in Calls : pc'[d] \in Ahead => pc[d] \in Ahead
        BY <1>pc, <3>2 DEF Goto, Ahead
      <4> QED
        BY <4>1, <4>2
    <3> QED
      BY <1>26, <3>1, <3>2 DEF ReconcileHooks
  <2> QED
    BY <1>26, <2>1, BudgetFrame DEF ReconcileHooks, static, budget
<1>27. CASE GiveUpHooks(c)
  <2>1. \A d \in Calls : /\ log'[d].paid = log[d].paid
                         /\ pc'[d] \in Ahead => pc[d] \in Ahead
    BY <1>27, FinishKeeps DEF GiveUpHooks
  <2> QED
    BY <1>27, <2>1, BudgetFrame DEF GiveUpHooks, static, budget
<1>28. CASE GiveUp(c)
  <2>1. \A d \in Calls : /\ log'[d].paid = log[d].paid
                         /\ pc'[d] \in Ahead => pc[d] \in Ahead
    BY <1>28, DeliverKeeps, DiscardKeepsPaid, ReturnLeaves DEF GiveUp
  <2> QED
    BY <1>28, <2>1, BudgetFrame DEF GiveUp, static, budget
<1>29. CASE Panic(c)
  <2>1. \A d \in Calls : pc'[d] \in Ahead => pc[d] \in Ahead
    BY <1>29, ReturnLeaves DEF Panic
  <2> QED
    BY <1>29, <2>1, BudgetFrame DEF Panic, static, budget
<1>30. CASE CancelCtx(c)
  BY <1>30, BudgetFrame DEF CancelCtx, static, budget
<1>31. CASE LateCommit(c)
  BY <1>31, BudgetFrame DEF LateCommit, static, budget, control
<1> QED
  BY <1>1, <1>2, <1>3, <1>4, <1>5, <1>6, <1>7, <1>8, <1>9, <1>10, <1>11, <1>12,
     <1>13, <1>14, <1>15, <1>16, <1>17, <1>18, <1>19, <1>20, <1>21, <1>22, <1>23,
     <1>24, <1>25, <1>26, <1>27, <1>28, <1>29, <1>30, <1>31
     DEF Step

\* The budget bounds the retries of all calls together, whatever the interleaving:
\* every resend of a budgeted call has been paid for, and payments never exceed
\* the bucket plus the refunds.
THEOREM BudgetSafety == Spec => []RetriesFunded
<1>1. Init => BudgetInv
  <2> SUFFICES ASSUME Init PROVE BudgetInv
    OBVIOUS
  <2>1. \A c \in Calls : call[c].attempts = 0 /\ log[c].paid = 0
    BY DEF Init, NewCall, NewLog
  <2> QED
    BY <2>1, TransportAssumption DEF Init, BudgetInv, RetriesFunded
<1>2. TypeOK /\ BudgetInv /\ [Next]_vars => BudgetInv'
  <2>1. ASSUME TypeOK, BudgetInv, GateFlips PROVE BudgetInv'
    <3>1. \A d \in Calls : log'[d].paid = log[d].paid
      BY <2>1, OutageKeeps DEF GateFlips, TypeOK
    <3> QED
      BY <2>1, <3>1, BudgetFrame DEF GateFlips, static, budget
  <2>2. ASSUME BudgetInv, UNCHANGED vars PROVE BudgetInv'
    BY <2>2, BudgetFrame DEF vars
  <2> QED
    BY <2>1, <2>2, StepBudget DEF Next
<1>3. BudgetInv => RetriesFunded
  BY DEF BudgetInv
<1> QED
  BY <1>1, <1>2, <1>3, TypeCorrect, PTL DEF Spec
===============================================================================
