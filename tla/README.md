# A TLA+ model of retryx

retryx is an `http.RoundTripper` for Go that retries requests without creating
duplicate side effects. This directory models its retry engine, its health gate,
the gate per host and its observers, and checks them with TLC on small instances.
Every safety property that a passing run checks, and that the engine and the gate
implement their abstract specifications, is also proved with TLAPS for every value
of the constants; liveness is model-checked only. `PROJECT.json` lists the runs, the
mutants that show each property can fail, the source lines of every definition,
the findings and the hazards.

## 1. Inventory

| Component | State it keeps | Operations | What makes it correct |
|---|---|---|---|
| Retry engine (`retryx.go`: `RoundTrip`, `do`, `giveUp`, `finish`, `newAttempt`, `bodyReplayer`) | per call: `Call` (history, idempotent, attempts), the current `Attempt` (reply, outcome, done), the goroutine's position | one call of `RoundTrip` | nothing resent blindly; responses and contexts released; labels and counters tell the truth; every call returns |
| Classification (`DefaultClassify`, `ReplaySafe`, `DefaultIsFailure`, `resultForReason`) | none | pure functions | decide what may be resent |
| Delays (`ExponentialJitter`, `retryAfter`, `normalized`, `sleep`) | none | pure functions | bounded, no overflow |
| Budget | `tokens`, under a mutex, shared by calls and transports | `allow`, `onSuccess` | retries of all calls together stay within bucket plus refunds |
| Gate, engine side (`awaitHealth`, `pause`) | the wait of one call | gate at start, between attempts, release jitter | acts on a fresh reading; never waits for ever |
| `Health` (`health.go`) | `unhealthy`, counters, `probeWait`, `since`, `ready`, `kick`, the loop's context | `Start`, `Stop`, `Report`, `WaitHealthy`, the probe loop | no lost wakeup, earned recovery, paced probes, reopening, clean shutdown |
| Hooks (`hooks.go`) | per-call values | `IdempotencyKey`, `Reconciler`, `RetryOnBody`, small header hooks | decide replay safety and reconciliation |
| `HealthByHost`, `HTTPCheck`, `FailoverHosts` | a map of gates, under a mutex | gate selection, creation by the user's `newGate`; a probe; the host of an attempt | one gate per host, whatever `newGate` does; failures held against the right gate; nobody stuck at the mutex |
| Observer layer (`observer.go`: `Event`, `Multi`, `Recorder`) | the recorded events | `Observe`, called inline by calls and by the probe loop | no observer misses an event because another panics |
| Adapters (`obs/promobs`, `obs/otelobs`, `obs/slogobs`) | collectors, instruments, log lines | `Observe` | metrics agree with the calls; the log keeps its noise policy |

How they interact: every call runs in its own goroutine, *calls* its hooks, the
next transport and the observer, *reads* the gate's state at up to three places,
*reports* each finished attempt to it, and *shares* the budget with all other
calls. The gate is shared state under one mutex; its probe loop is a goroutine
woken by a timer or by the `kick` channel; calls that wait block on the `ready`
channel, which a recovery closes and a trip replaces. Events are emitted after
the mutex is released.

What is hard to test: several calls against one bucket; a gate that changes
between a reading and the request it permits; a trip and a recovery between a
waiter's reading of `ready` and its `select`; probes that began before a trip;
shutdown during a probe; replies that were lost while the request took effect;
panicking user code; durations that wrap; first calls to a host racing for its
gate; an observer that panics between others. The `hazards` of `PROJECT.json` give
the line for each and the properties aimed at it.

## 2. Modules

| Module | Models |
|---|---|
| `Outcomes` | replies, `DefaultClassify`, `DefaultIsFailure`, `ReplaySafe`, reasons and result labels |
| `Delays` | wrapping durations, `Retry-After`, `ExponentialJitter`, `GatePolicy.normalized` |
| `Transport` | the engine, its wait helpers, the budget, the built-in hooks, the in-flight gauge |
| `Health` | the health gate with its goroutines |
| `CallProtocol` | abstract: what a call promises its caller and its observers |
| `GateRules`, `Gate` | abstract: how a gate changes, and what it promises those who ask it |
| `Hosts` | `HealthByHost` and the calls that share its gates, over `GateRules` |
| `Observers` | events, fan-out, recorder and adapters, over `CallProtocol` |
| `MCTransport`, `MCHealth`, `MCDelays`, `MCHosts`, `MCObservers` | instances for TLC |
| `TransportProofs` | theorems: types and budget of the engine |
| `TransportSteps` | lemmas: what each action of `Transport` does to its call, and that it leaves the others alone |
| `EngineProofs` | theorems: resources, tokens, gate readings, leaks, the in-flight gauge |
| `DecisionProofs` | theorems: resends and results; a guarded request takes effect at most once; `Transport` implements `CallProtocol` |
| `HealthProofs` | theorems about `Health`, and that it implements `Gate` |
| `HostsProofs` | theorems about `Hosts` |
| `DelaysProofs` | theorems: the bounds of `ExponentialJitter` |
| `ObserversProofs` | theorems: fan-out, metrics and log |

**Transport.** `pc[c]` is the place of call `c` in `do()`. One action is one
stretch of code between two points where another goroutine or the environment
can be noticed, so a gate reading, the mutex of the budget, the round trip, a
timer and each hook phase are separate actions, and straight-line code between
them is not split. Every `return` of `do` is a `Return`, which also emits
`EventCallDone`; `Discard`, `Deliver` and `Finish` are the functions of the same
names. Position by position: `body` (`PrepareBody`), `attempt` (`BeginAttempt`,
`GetBodyFails`), `gate`/`await`/`jitter` (`awaitHealth`), `before`, `send`,
`inflight` (`Abandoned`, `Classified`), `after`, `decide` (delivery, the safety
gates, the budget), `backoff`, `pause`/`sleep`/`recheck` (`pause`), `reconcile`,
`giveup`, `done`.

Abstractions: a request is its method, the kind and size of its body and whether
reading it may fail; a reply is a status or a set of error traits, with its
`Retry-After`. User hooks may return every verdict their phase can produce; in the
Reconcile phase a transport has the library's `Reconciler` (fail closed or open) or a
hook of the user's own (`custom`), whose permission to resend is taken as given.
`panics` marks transports whose user code may panic. The gate is a value that
may flip at any time; a call's own report may only trip it. An observer is
configured and the classifier is the default one. The downstream is external: it
deduplicates by idempotency key (`OpId`), answers truthfully, and performs a
request whose answer was lost at once, later (`late`, `LateCommit`) or never.
`Settles` says whether such a write becomes visible within a backoff sleep of
positive length, the assumption the code's comment on reconciliation makes.
Tokens are fixed-point: `TokenUnit` units are one token. `log`, `spent` and
`refunds` are history variables; no action reads them.

**Health.** One action is one critical section of `h.mu`, one channel operation,
the return of `Check`, or one emission of an event. `ready` holds the identity
of the current channel; `make(chan)` picks an identity no waiter holds, so that a
bounded set of identities suffices (one more than there are waiters). Time is
abstract: `timer` is the delay the loop rests for, with its 10% of jitter, but it may
fire at any moment; `hold` is "`HoldDown` has not elapsed since the trip", `mature` is
the comparison made with the time that `recordProbe` reads before it takes the lock. Counters that are only compared with a threshold
stop at it. `up` (external) is whether a probe would pass.

**Gate and GateRules.** What the engine may rely on in a gate: `shut`, the streak
of reported failures, whether a probe loop is still to come, runs or is over, and
for each goroutine whether its `WaitHealthy` is open or how it ended. `Health`
implements `Gate` (`ImplementsGate`) under the mapping `Seen`, `Answers`: all
channels, kicks, counters of the loop and pending events are hidden, so the
refinement says that no interleaving of them can be observed as anything but a
report, a decision of a running loop, or an answer given while the gate is open.

**CallProtocol.** A call is idle, deciding, has a request out, or is done. The
engine implements it (`ImplementsProtocol`) under the mapping `Stage`, `Last`:
bodies, hooks, gates, budgets and waits disappear, and every path through `do()`
must still tell each request once, send only after an outcome that permits it and
within the limit, and end with a label that the last outcome and the number of
attempts justify.

**Hosts.** The two meet here: calls that choose their gate once, under the mutex
of `HealthByHost`, and whose reports really shut the gate that holds back other
calls. `newGate` makes and starts a gate, returns nil, or panics. Gates follow
`GateRules`; a probe and the decision it leads to are one step (the thresholds and
stale probes are in `Health`), and calls fail fast (the waiting policies are in
`Transport`). `blame` is a history variable: the hosts whose failures make up
the present streak, or the present outage, of a gate.

**Observers.** Observers run inline, so a goroutine takes no step of its call
until the events it has emitted are handed out, while other goroutines run
between any two observers of one event. A step of a call emits the events of
the stretch of `do()` it stands for: `Announced`, `Refused`, `Passed`, `Cleared` and
`Closing` list what can come between two attempts and at the end. The adapters
are reduced to what they count: one number per collector, summed over labels;
a histogram is the number of its observations (for `call_attempts` also their
sum). The `EventHealth` of a passive trip, which `Report` emits to the gate's own
observer, is left to `Health` (`TransitionsAnnounced`).

**Delays.** A `Duration` is a two's complement word of a size given by
`MaxDuration`; `Wrap` is its arithmetic.

## 3. Runs

| Run | Instance | Shows |
|---|---|---|
| `paths` | 1 call, 11 option sets, 4 requests, 8 replies | `TypeOK`; `NoBlindResend`; `ResourcesReleased`; `FreshReading`; `ResultTruthful`; `AtMostOneLeak`; `ImplementsProtocol`; `CallsReturn` |
| `effects` | 1 POST, 12 combinations of key, reconciler and gate | `EffectOnce` |
| `shared` | 2 calls, symmetric, 3 option sets (gated, panicking, at most two attempts), one bucket of 1.5 tokens refilled by halves | `RetriesFunded`, `InFlightGauge`, `TokensAccounted` |
| `gate` | 2 waiters, 2 reporters, 1 stopper, 3 settings | the type invariant, four invariants and three action properties of `Health`, and `ImplementsGate` |
| `gate_live` | 1 waiter, 1 reporter, 1 stopper, 2 settings | `Reopens`, `WaitersReleased`, `StopCompletes` |
| `jitter` | 8-bit durations; bases 0 to 20 and those around half the range; every max up to half the range; attempts 1 to 9 | `JitterWithinReference` |
| `hosts` | 2 callers, 2 hosts, 2 attempts, threshold 2, with and without failover | `OneGatePerHost`, `OutageIsolated`, `SteadyHostServed`, `SelectorAnswers` |
| `observers` | one call with hooks and two attempts beside a probing loop; two calls without hooks, one with a retry | `NothingMissed`, `MetersTruthful`, `NoisePolicy` |
| `retry_after_ceiling` | `Retry-After` up to the wrapping value | violation: the ceiling is passed by overflow |
| `wait_before_reconcile` | as `effects` | violation: the probe can run without the wait |
| `release_jitter` | as `effects` | violation: release on a gate that tripped again |
| `give_up_hook` | as `paths` | violation: cancellation skips `OnGiveUp` |

The four violations are statements of the repository's documentation that the
code does not keep; `findings` quotes each. The first is a defect (an unchecked
multiplication), the others are differences between wording and behaviour.

What a property says about the less comfortable behaviour of the code:

- `TokensAccounted`: a retry token taken before the `Retry-After` test, the gate or
  the reconcile hooks is lost when one of these ends the call; it is at most one
  per call, and the result label tells when it may have happened.
- `ResourcesReleased`: the one request body obtained from `GetBody` for an attempt
  that is never sent is closed by nobody. A stream of the caller's that is not
  buffered is in the same position when the call ends before its only attempt is
  sent (the gate rejects it, say); no response body or context is left.
- `AtMostOneLeak`: the stale reading that `release_jitter` shows costs at most one
  request per call and outage.
- `ImplementsGate`: a gate that is shut, by `Report` or otherwise, once its probe
  loop is over stays shut.
- `OutageIsolated`: with `FailoverHosts`, a gate of `HealthByHost` is held
  responsible for every host its calls fail over to, and for no other.
- `MetersTruthful`: `attempts_total - calls_total` is the number of retries less the
  calls without any attempt (rejected by the gate, cancelled or failed before the
  wire). The retry ratio in the comment of `promobs` is therefore too small while
  a gate rejects calls.
- The label `downstream_unhealthy` is used for calls rejected at the start and for
  calls that have sent requests (`Justified` allows both), although
  `docs/HEALTH.md:165` reads it as "calls that sent nothing because of the gate".

**Bounds.** Up to three attempts: the loop body depends on the attempt number
only through `n = 1` and `n >= maxAttempts`, so first, middle and last attempts
all occur. Two calls suffice for the pairwise races on the bucket and the gauge;
the theorems lift these, and the limit on attempts, to any number. A bucket of 1.5 tokens with refunds of a
half reaches empty, fractional and full. Replies have one representative per
branch of the classifier that the engine treats differently, and `Retry-After`
values below, at and above the limit and past the overflow. Two waiters and three
channels make one waiter hold an old channel while another holds the new one;
thresholds of one and two cover both "trips at once" and "counts first". In
`MCTransport` a second is 1000 units and a `Duration` has 25 bits, so 16778 s
overflows as 9223372037 s does in nanoseconds. In `MCHealth` a second is two units;
the probe periods of `gate` are long enough for a tenth of them to be a unit or two, so
the jitter is real there, and those of `gate_live` are too short for it, since no
liveness property depends on it. In
`Hosts`, two callers race for the first gate of a host and for each other's streak
of failures, and a threshold of two makes a streak of one caller end in a report
of the other; the replies are one that passes every test, one that fails every
test, and a failed dial. In `Observers` the observer that may panic
stands behind `promobs` and in front of the others, so that a fan-out cut short
shows as a difference between adapters. Runs of `Transport` and of `Observers` do
not check for deadlock: the state in which every call has returned has no
successor.

**Fairness.** `Transport`: `WF(Step(c))`. The Go scheduler runs runnable
goroutines and timers fire; hooks and `next.RoundTrip` are assumed to return,
which the engine cannot enforce (`WithAttemptTimeout` is off by default). No
fairness is assumed of cancellation, panics, the gate or the downstream.
`Health`: `WF(Loop)`, since timers fire and `Check` is bounded by its timeout;
`SF(LoopExits)`, since Go's `select` chooses among ready cases at random and so
does not ignore a finished context for ever; `WF` of the hold-down clock and of
the steps of `Stop` and `WaitHealthy`. Waiters are not assumed to give up, and
reporters are not assumed to report. `Hosts`: `WF` of a goroutine inside the
selector, which assumes that `newGate` returns or panics; `SF(Lock(c))`, since a
`sync.Mutex` in starvation mode is handed to the goroutine that has waited
longest; `WF` of the probes of each gate. Nothing is assumed of the hosts or of
callers outside the selector. `Observers` and the abstract modules state safety
only.

## 4. Proofs

The assumptions are those the modules state about their constants:
`TransportAssumption` and `DurationAssumption` (types; a round trip returns a response
or an error, never both), `HealthAssumption` and `HostsAssumption` (types, that a
second has a positive number of units, and that `Nobody` is not a caller), `BasesAssumption` (a base is a non-negative `Duration`) and
`ObserversAssumption` (the probe loop is not a call, and the flattened chain of
observers has every adapter of the library once, beside any observers of the user;
an adapter installed twice would count twice). None bounds the number of calls,
attempts, waiters, reporters, hosts or channels. Every invariant below was checked
by TLC on the instances of section 3 before it was proved.

### The retry engine

`TransportProofs`:

- `TypeCorrect`: `Spec => []TypeOK`. `TypeOK` is inductive. The part with content
  is `tokens \in Nat`: `allow` tests and takes within one critical section.
- `BudgetSafety`: `Spec => []RetriesFunded`. The statement is not inductive, since
  a call that has sent `paid + 1` requests must not be about to send another.
  `BudgetInv` adds that a call between paying (or starting) and sending
  (`Ahead`) has sent at most `paid` requests. `BudgetFrame` disposes of the steps
  that touch neither bucket nor counters; `Send`, `SpendToken` and
  `DeliverSuccess` are the three that do.

`Transport` has 30 actions on eight functions of records. `TransportSteps` proves,
once for each action, what it does to the fields of the call that takes it (the
lemmas named for the actions) and that it leaves every other call alone
(`StepEffect`, `QuietMove`). All further proofs use these lemmas instead of the
actions, so that each case is about scalars of one call, and an invariant of a
call needs one lemma for the call that moves and one for the others.

`EngineProofs`: `EngineInvariant` proves the conjunction, for every call, of

- `CountInv`, `HistoryInv`: how the attempt's number, `Call.attempts`, the history
  and the limit are related at each position of `do()` (equal, or one ahead
  between `newAttempt` and the round trip);
- `TokenInv`: payments are one behind the requests, level with them once the next
  request is paid for;
- `HoldInv`: which responses and contexts are open at each position, which ones
  have been drained, and that `giveUp` knows which of the two it was handed;
- `GateInv`: a call cleared by the gate has a fresh reading, and no leak on its
  account while the gate is unhealthy. That is what makes `AtMostOneLeak` inductive:
  a second leak would need a second clearance within the same outage.

`ResourceSafety`, `TokenSafety`, `GateSafety` (`FreshReading`) and `LeakSafety`
(`AtMostOneLeak`) follow from it. `GaugeSafety` is an induction of its own, over the
cardinality of the set of running calls: each step adds a call to the set, takes
one out, or leaves it, and the gauge follows, a panic included.

`DecisionProofs`: `DecisionInvariant` adds `GrantInv` (a retry is granted after a
retryable outcome only, and after an Unknown one only if the request is safe or a
probe is still to run), `PastInv` (every outcome but that of the current attempt
permitted another), `ReasonInv` (the reason to give up is true when it is given) and
`ResultInv`. `ResendSafety` is `NoBlindResend`: it is about the whole history, and
needs `GrantInv` to carry the permission from the decision through the waits and
the reconcile hooks to the next attempt. `ResultSafety` is `ResultTruthful`.

`EffectSafety` is `Spec => []EffectOnce`. With a key per call the
downstream sees one operation (`KeyedInv`). Otherwise (`OnceInv`) only the current
attempt may have taken effect, and whenever another request is ahead nothing has:
the outcome was `not_applied`, or (`ProbeInv`) a fail-closed probe ran after the
wait in which lost writes settle and found nothing.

`ProtocolImplemented` is `Spec => ImplementsProtocol`. `StepSeen`
shows that every action is seen of its call as one of the six steps `Begins`,
`Transmits`, `Tells`, `Abandons`, `Ends`, `Crashes`, or not at all; the invariants above
supply that the label is one that the protocol allows. `ViewUpdated` and
`SeenSimulated` turn that into a step of `CallProtocol` under the mapping.

### The gate

`HealthProofs`:

- `TypeCorrect`: `Spec => []TypeOK`, from `NewHealthRepairs` (every `HealthConfig`
  becomes one with positive periods and thresholds and a cap not below the first
  step) and `FlagsPreserved`.
- `WakeupSafety`: `Spec => []NoLostWakeup`. A trip may only replace the channel
  while healthy, when the old channel is closed and every holder can wake; a
  recovery closes the channel all remaining blocked calls hold.
- `LoopSafety`: `Spec => [](ShutdownProbesIgnored /\ KickPending)`, with the
  invariant that an aborted verdict exists only after the context has ended.
- `GateImplemented`: `Spec => ImplementsGate`. The type invariant suffices, because
  each critical section changes `unhealthy` and `callFails` exactly as `Reported`,
  `Shut` and `Opened` say: `Report` maps to `Report`, `RecordOK` and `RecordFailure` to
  `ProbeDecides` or a stutter (they run only while the loop does), `Start` and
  `LoopExits` to `ProbingChanges`, the steps of `WaitHealthy` to `Ask`,
  `AnswerHealthy`, `AnswerExpired` or a stutter, and all others stutter.
- `PacingSafety`, `BackoffGrows`: `ProbePacing` and the action property
  `ProbeBackoffGrows`. `PaceInv` (the backoff is zero, or within its bounds and the
  gate unhealthy) gives the bounds of `NextInterval`, which `SpreadWithin` carries over
  the jitter: a rest is at most a tenth longer than `maxRecheck` and at most a tenth
  shorter than `recheck`. `TimerInv` says that a loop at rest without a kick pending has
  a timer that the present state asks for: only a trip changes that state behind the
  loop's back, and it leaves a kick. That `NextProbeWait` grows needs the bounds: above
  `maxRecheck` the cap would shorten it.
- `RecoverySafety`: `Spec => RecoveryEarned`. `RecoveryInv` says that the hold-down
  found elapsed before the lock is still elapsed under it, and that the counted
  OK probes exceed those begun since the trip by at most one, by none while that
  stale probe is still under way.
- `TripSafety`: `Spec => TripEarned`, from `EvidenceInv` (the counters never run ahead
  of what really failed) and `LoopSafety`, which excludes probes cut short.
- `EventSafety`: `Spec => []TransitionsAnnounced`, from `EventInv`: the loop owes an
  event only on its way to emit it, so that `recordProbe` overwrites none, and the
  reporters that owe one form a finite set that changes by one.

### The gate per host

`HostsProofs`: `HostsInvariant` is the inductive invariant: whoever is between
`Lock` and the deferred `Unlock` holds the mutex, and a slot about to be filled is
empty (`LockInv`); the map and the gates name each other (`MapInv`); a call past the
selector holds what the map has for its host (`ChoiceInv`). `GateMapSafety`
(`OneGatePerHost`) follows: without `LockInv` two callers could both fill the slot.
`IsolationSafety` (`OutageIsolated`) needs `MapInv` and `ChoiceInv`, so that the gate a
call reports to is the one of its host, and `TargetKnown`, that `FailoverHosts` never
leaves the route.

### Delays

`DelaysProofs`: `JitterBounds` says of the operator `ExponentialJitter`, for any word
size, base and attempt and any max up to half the range of `Duration`, that there is
a delay to return, at most min(base * 2^(n-1), max) and at least half of that, rounded
down. `JitterSafety` is `Spec => []JitterWithinReference`. The induction over the
attempts is done by hand: `LeastNatural` gives the least member of a set of naturals,
`DoublingExists` that the function recursion of `Doubling` has a value, and
`LoopMatchesReference` that there is no first attempt at which the loop, which stops
when it reaches max, and the reference, which does not, could differ; up to there the
product fits in the word (`WrapIdentity`). `PowerDoubles` (`2 ^ (n + 1) = 2 * 2 ^ n`), which
the provers do not know, is obtained by counting the subsets of an interval.

### The observers

`ObserversProofs`: `ObserversInvariant` is the inductive invariant, the conjunction of

- `FanInv`: what an emitter has still to hand out is the tail of what it has emitted.
  With the position in the chain this gives `Got(e, o)`, the number of events of `e`
  that the observer `o` has been given, also in the middle of a fan-out;
- `TapeInv`, `SlogInv`: the Recorder has the first `Got` events of each emitter, and
  slogobs has reached the highest level among those it was given;
- `MeterInv`: each counter of promobs and otelobs is the size of the set of events
  given to that adapter which move it up, less the size of the set which move it
  down. Counting events instead of summing over calls is what makes a step change
  one cardinality by one;
- `CallInv`, `HistoryInv`, `LoopInv`, `AttemptInv`: what the calls have told is related
  to what has been emitted: `EventCallStart` first, `EventCallDone` last with the
  result and the number of requests, one `EventAttempt` for each attempt told, none
  of them from the probe loop;
- `LoudInv`: an event above Debug, other than a wait for the gate, comes only from a
  call that can no longer have succeeded at once.

A panic of the user's observer moves the position as a return does, and no adapter
stands at that position; `FanoutSafety` (`NothingMissed`) follows since every `Got` of a
quiet emitter is all it has emitted. `MeterSafety` (`MetersTruthful`) counts: calls
started and not done, requests reported against attempts told, and `Retries` as the
attempts told without the first of each call. `NoiseSafety` (`NoisePolicy`) combines
`SlogInv` with `LoudInv` for the silent calls and with `HistoryInv` for the loud ones.

### Only model-checked

- Liveness: `CallsReturn`, `Reopens`, `WaitersReleased`, `StopCompletes`,
  `SteadyHostServed`, `SelectorAnswers`. Fairness and `ENABLED` are outside this
  prover's reach.
- The four violations, which are counterexamples.

## 5. Not modelled

`NewResponse`, `PeekBody`, `RandomKey` and `AttemptHeader` build or read HTTP
messages, as does the GET of `HTTPCheck` (which answers pass is modelled). The
strings of labels, `statusClass` and `ErrorClass`, the registration of collectors
and instruments, the budget and health gauges that are read at scrape time, and
the Recorder's `Events` and `Reset` have no state that a property could relate to
another. A labeler that panics does so before `EventCallStart`, outside every
guarantee. The examples use the library and add no behaviour. A custom classifier
is subsumed by a custom `After` hook except for its effect on the report to the
gate. `Stop` called from `Check`, or from an observer of the probe loop, waits for
the goroutine it runs on; the code does not defend against it and the model does
not call it there. The text of errors, elapsed times, and the doubling of a probe
backoff beyond half the range of `Duration` are left out.

## 6. Plan

1. (done) `Outcomes`, `Delays`, `Transport`, `Health`; their runs; types, budget,
   wakeups and loop proved.
2. (done) The abstract gate, refined by `Health`; one gate per host with
   `HealthByHost` and `FailoverHosts`; the abstract call, refined by `Transport`; the
   observers and adapters over it.
3. (done) Proofs of every safety and action property of `Transport`, `Health` and
   `Hosts`, and of both refinements.
4. (done) Proofs of the bounds of `ExponentialJitter` and of the three properties of
   `Observers`.
