------------------------------- MODULE Observers -------------------------------
(***************************************************************************)
(* The observer layer: the events the engine and the probe loop emit, the   *)
(* fan-out of Multi (observer.go), and what the Recorder and the adapters    *)
(* promobs, otelobs and slogobs make of them.                               *)
(*                                                                          *)
(* The calls are those of CallProtocol, which Transport is shown to         *)
(* implement.  Observers run inline on the goroutine that emits: a call     *)
(* takes no further step while one of its events is being handed out, and   *)
(* other goroutines may run between two observers of one event.             *)
(***************************************************************************)
EXTENDS Outcomes, Integers, SequencesExt, FiniteSets

CONSTANTS
  Calls,      \* the calls of a transport
  Installed,  \* the arguments of each WithObserver, in order
  Setups      \* the calls made (and their WithMaxAttempts), whether every phase has
              \* hooks, and, as a bound, how many probes the health loop reports

VARIABLES
  stage, limit, sent, told, last, result,  \* see CallProtocol
  setup,    \* the member of Setups
  queue,    \* the events each goroutine has still to hand out
  pos,      \* the observer that gets the first of them next
  probes,   \* probes still to be reported
  emitted,  \* history: everything each goroutine has emitted
  tape,     \* Recorder.events, per goroutine that emitted them
  prom,     \* promobs: the collectors
  otel,     \* otelobs: the instruments
  slog      \* slogobs: the highest level each goroutine has logged at

callVars == <<stage, limit, sent, told, last, result>>
meters == <<tape, prom, otel, slog>>
vars == <<setup, callVars, queue, pos, probes, emitted, meters>>

P == INSTANCE CallProtocol

Emitters == Calls \cup {"loop"}

-----------------------------------------------------------------------------
(* Events: what carries the outcome, the result, the gate's answer, the      *)
(* hook phase, the probe's or the new state; n carries Attempts.             *)

Event(kind, what, n) == [kind |-> kind, what |-> what, n |-> n]

CallStart == Event("call_start", "", 0)
AttemptEvent(o) == Event("attempt", o, 0)
WaitEvent == Event("wait", "", 0)
GateEvent(answer) == Event("gate", answer, 0)
CallDone(r, n) == Event("call_done", r, n)

\* runPhase reports a phase that has hooks.
HookEvents(phase) == IF setup.hooked THEN <<Event("hook", phase, 0)>> ELSE <<>>

\* The wait before a retry is announced before the gate is asked again.
Announced(c) == IF sent[c] > 0 THEN <<WaitEvent>> ELSE <<>>

\* The events of a call that is turned away by the gate, that gets past it, and
\* that the Reconcile phase, which follows an Unknown outcome, lets go on as well.
Refused(c) == {Announced(c) \o <<GateEvent(answer)>> : answer \in {"rejected", "timeout"}}
Passed(c) == {Announced(c), Announced(c) \o <<GateEvent("waited")>>}
Cleared(c) ==
  {w \o IF last[c] = "unknown" THEN HookEvents("reconcile") ELSE <<>> : w \in Passed(c)}

\* The results only hooks bring about, and the one they rule out.
HookResults == {"short_circuit", "hook_aborted", "fallback", "reconciled"}
Possible(r) == IF setup.hooked THEN r # "unsafe_to_retry" ELSE r \notin HookResults

\* What may be emitted between the last EventAttempt, or the start, and the end.
Closing(c, r) ==
  LET given == HookEvents("give_up")
      afterAttempt == IF last[c] = "none" THEN {} ELSE {<<>>}
      afterGiveUp == IF last[c] \in Retryable THEN {given} ELSE {}
      afterRefusal == IF P!MaySend(c) THEN {w \o given : w \in Refused(c)} ELSE {}
      beforeNext == IF P!MaySend(c) THEN {w \o HookEvents("before") : w \in Cleared(c)} ELSE {}
      afterReconcile == IF P!MaySend(c) /\ last[c] = "unknown" THEN Cleared(c) ELSE {} IN
  CASE r \in {"success", "non_retryable"} -> {<<>>}
    [] r = "downstream_unhealthy" -> afterRefusal
    [] r \in GiveUpResults \ {"downstream_unhealthy"} -> {given}
    [] r = "fallback" -> afterGiveUp \cup afterRefusal
    [] r = "canceled" -> {Announced(c)}
    [] r = "body_error" -> IF sent[c] > 0 THEN Cleared(c) ELSE {<<>>}
    [] r = "reconciled" -> afterReconcile
    [] r = "short_circuit" -> afterAttempt \cup beforeNext
    [] r = "hook_aborted" ->
         afterAttempt \cup afterGiveUp \cup afterRefusal \cup beforeNext \cup afterReconcile

-----------------------------------------------------------------------------
(* The fan-out.                                                             *)

\* Multi drops nil observers.
Multi(observers) == SelectSeq(observers, LAMBDA o : o # "nil")

\* WithObserver, used repeatedly, appends.
Chain == FoldLeft(LAMBDA all, o : all \o Multi(o), <<>>, Installed)

\* The observers of the library are installed once each, before, between or behind
\* any number of the user's own.
Adapters == {"recorder", "prom", "otel", "slog"}

ASSUME ObserversAssumption ==
  /\ "loop" \notin Calls
  /\ Len(Chain) \in Nat /\ DOMAIN Chain = 1 .. Len(Chain)
  /\ \A o \in Adapters : \E k \in DOMAIN Chain : \A j \in DOMAIN Chain : Chain[j] = o <=> j = k

Quiet(e) == queue[e] = <<>>

\* emit: the goroutine e hands out the events es before it goes on.
Emit(e, es) ==
  /\ Quiet(e)
  /\ queue' = [queue EXCEPT ![e] = es]
  /\ emitted' = [emitted EXCEPT ![e] = @ \o es]
  /\ UNCHANGED <<pos, meters>>

\* Goroutine e is done with the k-th observer: the next one, or the next event.
Passes(e, k) ==
  IF k < Len(Chain)
  THEN pos' = [pos EXCEPT ![e] = k + 1] /\ UNCHANGED queue
  ELSE pos' = [pos EXCEPT ![e] = 1] /\ queue' = [queue EXCEPT ![e] = Tail(@)]

\* The collectors promobs and otelobs have in common.
NoMeasure == [inFlight |-> 0, calls |-> 0, attempts |-> 0, waits |-> 0, hooks |-> 0,
              gates |-> 0, gateWaits |-> 0, probes |-> 0, changes |-> 0, own |-> 0]

\* Mutated form: the gauge is not taken back for a call that panicked.
GaugeStepLeaky(e) ==
  CASE e.kind = "call_start" -> 1
    [] e.kind = "call_done" /\ e.what # "panic" -> -1
    [] OTHER -> 0

\* calls_in_flight goes up with EventCallStart and down with EventCallDone.
GaugeStep(e) ==
  CASE e.kind = "call_start" -> 1
    [] e.kind = "call_done" -> -1
    [] OTHER -> 0

Tick(e, kind) == IF e.kind = kind THEN 1 ELSE 0

Measure(m, e) ==
  [m EXCEPT !.inFlight = @ + GaugeStep(e), !.calls = @ + Tick(e, "call_done"),
            !.attempts = @ + Tick(e, "attempt"), !.waits = @ + Tick(e, "wait"),
            !.hooks = @ + Tick(e, "hook"), !.gates = @ + Tick(e, "gate"),
            !.gateWaits = IF e.what = "rejected" THEN @ ELSE @ + Tick(e, "gate"),
            !.probes = @ + Tick(e, "probe"), !.changes = @ + Tick(e, "health")]

\* promobs.Observe; own is the sum of the call_attempts histogram.
PromObserve(m, e) ==
  [Measure(m, e) EXCEPT !.own = IF e.kind = "call_done" THEN @ + e.n ELSE @]

\* otelobs.Observe; own counts the attempt spans marked as errors.
OtelObserve(m, e) ==
  [Measure(m, e) EXCEPT !.own = IF e.kind = "attempt" /\ e.what # "success" THEN @ + 1 ELSE @]

\* The levels of slog, and 0 for silence.
Debug == 1
Info == 2
Warn == 3
Error == 4

\* The level of EventCallDone.
DoneLevel(e) ==
  CASE e.what = "success" -> IF e.n > 1 THEN Info ELSE Debug
    [] e.what \in {"reconciled", "fallback", "non_retryable", "canceled"} -> Info
    [] e.what = "downstream_unhealthy" -> Warn
    [] OTHER -> Error

\* Mutated form: what the gate does is always noise.
GateLevelDebug(e) == Debug

\* One line per rejected call would flood the logs during an outage.
GateLevel(e) == IF e.what = "rejected" THEN Debug ELSE Info

\* slogobs.Observe: the level an event is logged at.
SlogLevel(e) ==
  CASE e.kind = "call_start" -> 0
    [] e.kind = "attempt" -> IF e.what = "success" THEN Debug ELSE Warn
    [] e.kind = "wait" -> Info
    [] e.kind = "hook" -> Debug
    [] e.kind = "probe" -> IF e.what = "ok" THEN Debug ELSE Info
    [] e.kind = "health" -> IF e.what = "unhealthy" THEN Warn ELSE Info
    [] e.kind = "gate" -> GateLevel(e)
    [] e.kind = "call_done" -> DoneLevel(e)

Louder(x, y) == IF x > y THEN x ELSE y

\* The next observer of the event takes it in and returns.
Observe(e) ==
  LET o == Chain[pos[e]]
      event == Head(queue[e]) IN
  /\ ~Quiet(e)
  /\ tape' = IF o = "recorder" THEN [tape EXCEPT ![e] = Append(@, event)] ELSE tape
  /\ prom' = IF o = "prom" THEN PromObserve(prom, event) ELSE prom
  /\ otel' = IF o = "otel" THEN OtelObserve(otel, event) ELSE otel
  /\ slog' = IF o = "slog" THEN [slog EXCEPT ![e] = Louder(@, SlogLevel(event))] ELSE slog
  /\ Passes(e, pos[e])
  /\ UNCHANGED <<setup, callVars, probes, emitted>>

\* Mutated form: only emit recovers, so a panic ends the fan-out of the event.
RecoverInEmit(e) == Passes(e, Len(Chain))

\* multi.Observe recovers around each observer.
RecoverPerObserver(e) == Passes(e, pos[e])

\* A user's observer panics.
ObserverPanics(e) ==
  /\ ~Quiet(e)
  /\ Chain[pos[e]] = "user"
  /\ RecoverPerObserver(e)
  /\ UNCHANGED <<setup, callVars, probes, emitted, meters>>

-----------------------------------------------------------------------------
(* The emitters: RoundTrip and do, at the points where they emit, and the    *)
(* probe loop.                                                               *)

Init ==
  /\ setup \in Setups
  /\ limit = [c \in Calls |-> IF c \in DOMAIN setup.limits THEN setup.limits[c] ELSE 1]
  /\ P!Init
  /\ queue = [e \in Emitters |-> <<>>]
  /\ pos = [e \in Emitters |-> 1]
  /\ probes = setup.probes
  /\ emitted = [e \in Emitters |-> <<>>]
  /\ tape = [e \in Emitters |-> <<>>]
  /\ prom = NoMeasure /\ otel = NoMeasure
  /\ slog = [e \in Emitters |-> 0]

Begin(c) ==
  /\ c \in DOMAIN setup.limits
  /\ P!Begin(c)
  /\ Emit(c, <<CallStart>>)
  /\ UNCHANGED <<setup, probes>>

Transmit(c) ==
  /\ P!Transmit(c)
  /\ \E w \in Cleared(c) : Emit(c, w \o HookEvents("before"))
  /\ UNCHANGED <<setup, probes>>

\* emitAttempt, after the After hooks.
Tell(c) ==
  /\ \E o \in Outcome : P!Tell(c, o) /\ Emit(c, HookEvents("after") \o <<AttemptEvent(o)>>)
  /\ UNCHANGED <<setup, probes>>

Abandon(c) ==
  /\ P!Abandon(c)
  /\ Emit(c, <<AttemptEvent("fatal"), CallDone("canceled", sent[c])>>)
  /\ UNCHANGED <<setup, probes>>

End(c) ==
  /\ \E r \in {x \in Results : Possible(x)} :
       /\ P!End(c, r)
       /\ \E w \in Closing(c, r) : Emit(c, w \o <<CallDone(r, sent[c])>>)
  /\ UNCHANGED <<setup, probes>>

\* The deferred function of RoundTrip; a hook that panics is not reported itself.
Crash(c) ==
  /\ P!Crash(c)
  /\ \E w \in {<<>>} \cup (IF stage[c] = "open" /\ P!MaySend(c)
                          THEN Passed(c) \cup Cleared(c) \cup Refused(c) ELSE {}) :
       Emit(c, w \o <<CallDone("panic", sent[c])>>)
  /\ UNCHANGED <<setup, probes>>

\* Health.probe emits EventProbe, and EventHealth when the state changed.
ProbeEnds ==
  /\ probes > 0
  /\ probes' = probes - 1
  /\ \E ok \in BOOLEAN, changed \in BOOLEAN :
       Emit("loop", <<Event("probe", IF ok THEN "ok" ELSE "fail", 0)>>
                      \o IF changed THEN <<Event("health", IF ok THEN "healthy" ELSE "unhealthy", 0)>>
                         ELSE <<>>)
  /\ UNCHANGED <<setup, callVars>>

Next ==
  \/ \E c \in Calls : Begin(c) \/ Transmit(c) \/ Tell(c) \/ Abandon(c) \/ End(c) \/ Crash(c)
  \/ \E e \in Emitters : Observe(e) \/ ObserverPanics(e)
  \/ ProbeEnds

Spec == Init /\ [][Next]_vars

-----------------------------------------------------------------------------
(* Properties                                                               *)

AllQuiet == \A e \in Emitters : Quiet(e)

\* Whatever a user's observer panics on, the other observers get every event of
\* every goroutine once, in the order in which it was emitted: the Recorder has
\* all of them, and the metrics of an adapter installed in front of the panicking
\* observer equal those of one installed behind it.
NothingMissed ==
  AllQuiet =>
    /\ tape = emitted
    /\ \A name \in DOMAIN NoMeasure \ {"own"} : prom[name] = otel[name]

Unfinished == {c \in Calls : stage[c] \in {"open", "flying"}}
Panicked == {c \in Calls : stage[c] = "done" /\ result[c] = "panic"}
Untold == {c \in Calls : stage[c] = "done" /\ told[c] = 0}

\* The attempts told of that were not the first of their call.
Retries == UNION {{c} \X (2 .. told[c]) : c \in Calls}

\* The metrics agree with the calls they are about. The gauge counts the calls in
\* progress, also after panics. Once these are over, call_attempts exceeds
\* attempts_total by the requests that were out when a call panicked (at most one
\* each), and attempts_total - calls_total, on which the documented retry ratio
\* rests, is the number of retries less the calls counted without any attempt.
MetersTruthful ==
  AllQuiet =>
    /\ prom.inFlight = Cardinality(Unfinished)
    /\ Unfinished = {} =>
         /\ prom.own - prom.attempts \in 0 .. Cardinality(Panicked)
         /\ prom.attempts - prom.calls = Cardinality(Retries) - Cardinality(Untold)

\* slogobs' noise policy: a call is heard above Debug exactly when it did not
\* simply succeed at once, and a give-up is heard at Warn at least.
NoisePolicy ==
  \A c \in Calls : Quiet(c) /\ stage[c] = "done" =>
    /\ slog[c] = Debug <=>
         /\ result[c] = "success" /\ sent[c] = 1
         /\ GateEvent("waited") \notin ToSet(emitted[c])
    /\ result[c] \in GiveUpResults => slog[c] >= Warn
===============================================================================
