-------------------------------- MODULE Health --------------------------------
(***************************************************************************)
(* The Health gate of health.go: a probe loop, passive reports from real   *)
(* traffic, calls blocked in WaitHealthy, and Start/Stop.  One action is    *)
(* one critical section of h.mu, one channel operation, or the return of    *)
(* the user's Check; events are emitted after the mutex is released, so     *)
(* each emission is an action of its own.                                   *)
(*                                                                          *)
(* ready is the identity of the current ready channel.  make(chan) yields a *)
(* channel nobody refers to; an identity is used again only when no         *)
(* goroutine holds it.                                                      *)
(***************************************************************************)
EXTENDS Integers, FiniteSets

CONSTANTS
  Second,     \* time.Second, in the unit of the model
  Settings,   \* the HealthConfigs a Health may be built from
  Waiters,    \* goroutines that may call WaitHealthy
  Reporters,  \* goroutines that may call Report
  Stoppers,   \* goroutines that may call Stop
  Channels,   \* identities of ready channels
  NoChannel   \* a waiter that waits for none

SettingsType ==
  [interval : Int, recheck : Int, maxRecheck : Int, failureThreshold : Int,
   successThreshold : Int, passiveThreshold : Int, holdDown : BOOLEAN]

ASSUME HealthAssumption ==
  /\ Second \in Nat \ {0}
  /\ Settings \subseteq SettingsType
  /\ NoChannel \notin Channels

VARIABLES
  cfg,                                       \* the configuration NewHealth kept
  unhealthy, probeFails, probeOKs, callFails, probeWait,
  hold,       \* time since h.since is still below HoldDown
  ready,      \* h.ready
  closed,     \* the closed channels
  kick,       \* tokens in the kick channel, of capacity one
  ctx,        \* the loop's context: not made yet, live, or done
  loop,       \* where the probe loop is
  verdict,    \* what Check returned
  mature,     \* the comparison with h.since, from recordProbe's early time.Now()
  change,     \* EventHealth still to be emitted by the loop
  timer,      \* the delay the loop's timer is armed with
  waiter,     \* the calls inside WaitHealthy
  stopper,    \* the calls of Stop
  reporter,   \* the calls of Report: have they an event to emit?
  net,        \* EventHealths to Unhealthy minus those to Healthy, as observed
  up,         \* would the downstream pass a probe? (external)
  stale,      \* history: the probe under way began before the last trip
  freshOKs,   \* history: consecutive OK probes begun since the last trip
  unprobed,   \* history: tripped passively and no probe begun since
  badProbes,  \* history: recorded probes in a row that the downstream really failed
  badCalls    \* history: reports of failures in a row, while healthy

state == <<unhealthy, probeFails, probeOKs, callFails, probeWait, hold, ready, closed>>
probing == <<loop, verdict, mature, change, timer>>
clients == <<waiter, stopper, reporter>>
evidence == <<badProbes, badCalls>>
history == <<stale, freshOKs, unprobed, evidence>>
vars == <<cfg, state, kick, ctx, probing, clients, net, up, history>>

-----------------------------------------------------------------------------
Default(v, d) == IF v <= 0 THEN d ELSE v
AtLeast(v, d) == IF v < d THEN d ELSE v

\* Mutated form: no defaults are filled in.
NewHealthRaw(s) == s

\* NewHealth: the defaults, and the cap of the probe backoff.
NewHealth(s) ==
  LET r == Default(s.recheck, 2 * Second) IN
  [interval         |-> Default(s.interval, 10 * Second),
   recheck          |-> r,
   maxRecheck       |-> AtLeast(Default(s.maxRecheck, 30 * Second), r),
   failureThreshold |-> Default(s.failureThreshold, 3),
   successThreshold |-> Default(s.successThreshold, 2),
   passiveThreshold |-> s.passiveThreshold,
   holdDown         |-> s.holdDown]

Init ==
  /\ cfg \in {NewHealth(s) : s \in Settings}
  /\ unhealthy = FALSE
  /\ probeFails = 0 /\ probeOKs = 0 /\ callFails = 0 /\ probeWait = 0
  /\ hold = FALSE
  /\ ready \in Channels /\ closed = {ready}
  /\ kick = 0
  /\ ctx = "none"
  /\ loop = "off" /\ verdict = "none" /\ mature = FALSE /\ change = 0 /\ timer = 0
  /\ waiter = [w \in Waiters |-> [at |-> "idle", ch |-> NoChannel]]
  /\ stopper = [s \in Stoppers |-> "idle"]
  /\ reporter = [r \in Reporters |-> 0]
  /\ net = 0
  /\ up \in BOOLEAN
  /\ stale = FALSE /\ freshOKs = 0 /\ unprobed = FALSE
  /\ badProbes = 0 /\ badCalls = 0

\* Counters that only ever meet a threshold stop counting there.
Count(x, cap) == IF x < cap THEN x + 1 ELSE x

Held(ch) == \E w \in Waiters : waiter[w].ch = ch

\* Mutated form: OK probes counted before the trip still count after it.
TripKeepsOKs ==
  /\ unhealthy' = TRUE
  /\ hold' = cfg.holdDown
  /\ callFails' = 0
  /\ ready' \in {ch \in Channels : ~Held(ch)}
  /\ closed' = {ch \in closed : Held(ch)}
  /\ freshOKs' = 0 /\ badCalls' = 0
  /\ UNCHANGED probeOKs

\* tripLocked; probeWait is left to its callers, as recordProbe goes on to change it.
Trip ==
  /\ unhealthy' = TRUE
  /\ hold' = cfg.holdDown
  /\ callFails' = 0
  /\ probeOKs' = 0
  /\ ready' \in {ch \in Channels : ~Held(ch)}
  /\ closed' = {ch \in closed : Held(ch)}
  /\ freshOKs' = 0 /\ badCalls' = 0

\* Mutated form: the ready channel is not closed.
RecoverSilently ==
  /\ unhealthy' = FALSE
  /\ hold' = FALSE
  /\ probeFails' = 0 /\ probeOKs' = 0 /\ callFails' = 0
  /\ probeWait' = 0
  /\ UNCHANGED <<ready, closed>>

\* recoverLocked
Recover ==
  /\ unhealthy' = FALSE
  /\ hold' = FALSE
  /\ probeFails' = 0 /\ probeOKs' = 0 /\ callFails' = 0
  /\ probeWait' = 0
  /\ closed' = closed \cup {ready}
  /\ UNCHANGED ready

-----------------------------------------------------------------------------
(* Start, Stop and the life of the loop.                                    *)

\* The first probe is due at once.
Start ==
  /\ ctx = "none"
  /\ ctx' = "live"
  /\ loop' = "select" /\ timer' = 0
  /\ UNCHANGED <<cfg, state, kick, verdict, mature, change, clients, net, up, history>>

\* The context handed to Start ends.
ParentDone ==
  /\ ctx = "live"
  /\ ctx' = "done"
  /\ UNCHANGED <<cfg, state, kick, probing, clients, net, up, history>>

\* Stop before Start returns at once; otherwise it cancels and waits for done.
Stop(s) ==
  /\ stopper[s] = "idle"
  /\ IF ctx = "none"
     THEN stopper' = [stopper EXCEPT ![s] = "returned"] /\ UNCHANGED ctx
     ELSE stopper' = [stopper EXCEPT ![s] = "waiting"] /\ ctx' = "done"
  /\ UNCHANGED <<cfg, state, kick, probing, waiter, reporter, net, up, history>>

StopReturns(s) ==
  /\ stopper[s] = "waiting"
  /\ loop = "exited"
  /\ stopper' = [stopper EXCEPT ![s] = "returned"]
  /\ UNCHANGED <<cfg, state, kick, ctx, probing, waiter, reporter, net, up, history>>

\* Mutated form: the loop notices its context only when it is kicked.
LoopExitsOnKick ==
  /\ loop = "select"
  /\ ctx = "done" /\ kick = 1
  /\ loop' = "exited" /\ timer' = 0
  /\ UNCHANGED <<cfg, state, kick, ctx, verdict, mature, change, clients, net, up, history>>

\* loop returns.
LoopExits ==
  /\ loop = "select"
  /\ ctx = "done"
  /\ loop' = "exited" /\ timer' = 0
  /\ UNCHANGED <<cfg, state, kick, ctx, verdict, mature, change, clients, net, up, history>>

-----------------------------------------------------------------------------
(* One round of the loop.                                                   *)

\* Mutated form: while unhealthy the loop waits for a kick only.
ProbeBeginsOnKick ==
  /\ loop = "select"
  /\ unhealthy => kick = 1
  /\ kick' \in {kick, 0}
  /\ loop' = "check" /\ timer' = 0
  /\ stale' = FALSE /\ unprobed' = FALSE
  /\ UNCHANGED <<cfg, state, ctx, verdict, mature, change, clients, net, up, freshOKs, evidence>>

\* The select ends on a kick, which is consumed, or on the timer, which leaves a
\* kick in its channel; the timer is stopped and Check is called.
ProbeBegins ==
  /\ loop = "select"
  /\ kick' \in {kick, 0}
  /\ loop' = "check" /\ timer' = 0
  /\ stale' = FALSE /\ unprobed' = FALSE
  /\ UNCHANGED <<cfg, state, ctx, verdict, mature, change, clients, net, up, freshOKs, evidence>>

\* A probe cut short by the end of the loop's context fails whatever is up.
CheckReturns ==
  /\ loop = "check"
  /\ verdict' \in {IF up THEN "ok" ELSE "fail"}
                    \cup (IF ctx = "done" THEN {"aborted"} ELSE {})
  /\ loop' = "returned"
  /\ UNCHANGED <<cfg, state, kick, ctx, mature, change, timer, clients, net, up, history>>

\* A probe that ends during shutdown is not recorded.
ProbeDropped ==
  /\ loop = "returned"
  /\ ctx = "done"
  /\ loop' = "interval"
  /\ verdict' = "none"
  /\ UNCHANGED <<cfg, state, kick, ctx, mature, change, timer, clients, net, up, history>>

\* Mutated form: the loop's context is not looked at after Check.
ProbeAcceptedAlways ==
  /\ loop = "returned"
  /\ mature' = (unhealthy /\ ~hold)
  /\ loop' = "record"
  /\ UNCHANGED <<cfg, state, kick, ctx, verdict, change, timer, clients, net, up, history>>

\* recordProbe takes the time before it takes the lock.
ProbeAccepted ==
  /\ loop = "returned"
  /\ ctx = "live"
  /\ mature' = (unhealthy /\ ~hold)
  /\ loop' = "record"
  /\ UNCHANGED <<cfg, state, kick, ctx, verdict, change, timer, clients, net, up, history>>

\* recordProbe on success.
RecordOK ==
  LET oks == Count(probeOKs, cfg.successThreshold) IN
  /\ loop = "record"
  /\ verdict = "ok"
  /\ IF unhealthy /\ oks >= cfg.successThreshold /\ mature
     THEN Recover /\ change' = -1
     ELSE /\ probeFails' = 0
          /\ probeOKs' = oks
          /\ change' = 0
          /\ UNCHANGED <<unhealthy, callFails, probeWait, hold, ready, closed>>
  /\ freshOKs' = IF stale THEN freshOKs ELSE Count(freshOKs, cfg.successThreshold)
  /\ badProbes' = 0 /\ UNCHANGED badCalls
  /\ loop' = "emit"
  /\ verdict' = "none" /\ mature' = FALSE
  /\ UNCHANGED <<cfg, kick, ctx, timer, clients, net, up, stale, unprobed>>

\* Mutated form: the backoff starts over when it meets its cap.
NextProbeWaitRestarts(w) ==
  IF w = 0 \/ 2 * w > cfg.maxRecheck THEN cfg.recheck ELSE 2 * w

\* The exponential backoff of the probes while unhealthy.
NextProbeWait(w) ==
  IF w = 0 THEN cfg.recheck
  ELSE IF 2 * w > cfg.maxRecheck THEN cfg.maxRecheck ELSE 2 * w

\* recordProbe on failure: it may trip the gate, and backs off while unhealthy.
RecordFailure ==
  LET fails == Count(probeFails, cfg.failureThreshold)
      trips == ~unhealthy /\ fails >= cfg.failureThreshold IN
  /\ loop = "record"
  /\ verdict # "ok"
  /\ probeFails' = fails
  /\ badProbes' = IF verdict = "fail" THEN Count(badProbes, cfg.failureThreshold) ELSE badProbes
  /\ IF trips
     THEN /\ Trip
          /\ probeWait' = NextProbeWait(0)
          /\ change' = 1
     ELSE /\ probeOKs' = 0
          /\ UNCHANGED badCalls
          /\ probeWait' = IF unhealthy THEN NextProbeWait(probeWait) ELSE probeWait
          /\ change' = 0
          /\ freshOKs' = 0
          /\ UNCHANGED <<unhealthy, callFails, hold, ready, closed>>
  /\ loop' = "emit"
  /\ verdict' = "none" /\ mature' = FALSE
  /\ UNCHANGED <<cfg, kick, ctx, timer, clients, net, up, stale, unprobed>>

\* emitChange, with the mutex released.
LoopEmits ==
  /\ loop = "emit"
  /\ net' = net + change
  /\ change' = 0
  /\ loop' = "interval"
  /\ UNCHANGED <<cfg, state, kick, ctx, verdict, mature, timer, clients, up, history>>

\* The delays from lo to hi, with a tenth less or more.
Spread(lo, hi) == lo - lo \div 10 .. hi + hi \div 10

\* Mutated form: a backoff that has not begun is taken as it is.
NextIntervalUnbegun ==
  LET d == CASE unhealthy /\ probeOKs > 0 -> cfg.recheck
             [] unhealthy /\ probeOKs = 0 -> probeWait
             [] ~unhealthy /\ probeFails > 0 -> cfg.recheck
             [] OTHER -> cfg.interval
  IN Spread(d, d)

\* nextInterval: what it may return, with its 10% of jitter either way.
NextInterval ==
  LET d == CASE unhealthy /\ probeOKs > 0 -> cfg.recheck
             [] unhealthy /\ probeOKs = 0 -> IF probeWait <= 0 THEN cfg.recheck ELSE probeWait
             [] ~unhealthy /\ probeFails > 0 -> cfg.recheck
             [] OTHER -> cfg.interval
  IN Spread(d, d)

\* The loop arms its timer with the next interval. Time is abstract: the timer
\* may fire at any later moment.
LoopRests ==
  /\ loop = "interval"
  /\ timer' \in NextInterval
  /\ loop' = "select"
  /\ UNCHANGED <<cfg, state, kick, ctx, verdict, mature, change, clients, net, up, history>>

-----------------------------------------------------------------------------
(* Report                                                                   *)

\* Mutated form: a success does not end the streak of failures.
ReportOKIgnored(r) ==
  /\ reporter[r] = 0
  /\ cfg.passiveThreshold > 0
  /\ ~unhealthy
  /\ badCalls' = 0
  /\ UNCHANGED <<cfg, state, kick, ctx, probing, clients, net, up, stale, freshOKs,
                 unprobed, badProbes>>

\* The attempt did not fail: the streak of failures is over.
ReportOK(r) ==
  /\ reporter[r] = 0
  /\ cfg.passiveThreshold > 0
  /\ ~unhealthy
  /\ callFails' = 0 /\ badCalls' = 0
  /\ UNCHANGED <<cfg, unhealthy, probeFails, probeOKs, probeWait, hold, ready, closed,
                 kick, ctx, probing, clients, net, up, stale, freshOKs, unprobed, badProbes>>

\* Mutated form: a passive trip does not wake the loop.
KickForgotten == UNCHANGED kick

\* The non-blocking send on the kick channel: a full channel is left alone.
Kick == kick' = 1

\* The attempt failed: count it, and trip the gate and kick the loop when the
\* threshold is met.
ReportFailure(r) ==
  /\ reporter[r] = 0
  /\ cfg.passiveThreshold > 0
  /\ ~unhealthy
  /\ IF callFails + 1 >= cfg.passiveThreshold
     THEN /\ Trip
          /\ probeWait' = 0
          /\ Kick
          /\ reporter' = [reporter EXCEPT ![r] = 1]
          /\ stale' = (loop \in {"check", "returned", "record"})
          /\ mature' = FALSE
          /\ unprobed' = TRUE
     ELSE /\ callFails' = callFails + 1 /\ badCalls' = badCalls + 1
          /\ UNCHANGED <<unhealthy, probeOKs, probeWait, hold, ready, closed, kick,
                         reporter, mature, stale, freshOKs, unprobed>>
  /\ UNCHANGED <<cfg, badProbes, probeFails, ctx, loop, verdict, change, timer, waiter, stopper,
                 net, up>>

\* Mutated form: Report does not announce the trip.
ReportStaysSilent(r) ==
  /\ reporter[r] = 1
  /\ reporter' = [reporter EXCEPT ![r] = 0]
  /\ UNCHANGED <<cfg, state, kick, ctx, probing, waiter, stopper, net, up, history>>

\* emitChange at the end of Report, with the mutex released.
ReportEmits(r) ==
  /\ reporter[r] = 1
  /\ net' = net + 1
  /\ reporter' = [reporter EXCEPT ![r] = 0]
  /\ UNCHANGED <<cfg, state, kick, ctx, probing, waiter, stopper, up, history>>

-----------------------------------------------------------------------------
(* WaitHealthy                                                              *)

WaitBegins(w) ==
  /\ waiter[w].at \in {"idle", "expired"}
  /\ waiter' = [waiter EXCEPT ![w].at = "reading"]
  /\ UNCHANGED <<cfg, state, kick, ctx, probing, stopper, reporter, net, up, history>>

\* Read ready and unhealthy under the lock; return, or block on that channel.
WaitReads(w) ==
  /\ waiter[w].at = "reading"
  /\ waiter' = [waiter EXCEPT ![w] =
       IF unhealthy THEN [at |-> "blocked", ch |-> ready] ELSE [at |-> "idle", ch |-> NoChannel]]
  /\ UNCHANGED <<cfg, state, kick, ctx, probing, stopper, reporter, net, up, history>>

\* Mutated form: a closed channel is taken for a healthy gate.
WaitWakesUp(w) ==
  /\ waiter[w].at = "blocked"
  /\ waiter[w].ch \in closed
  /\ waiter' = [waiter EXCEPT ![w] = [at |-> "idle", ch |-> NoChannel]]
  /\ UNCHANGED <<cfg, state, kick, ctx, probing, stopper, reporter, net, up, history>>

\* The channel is closed: read the state again.
WaitWakes(w) ==
  /\ waiter[w].at = "blocked"
  /\ waiter[w].ch \in closed
  /\ waiter' = [waiter EXCEPT ![w] = [at |-> "reading", ch |-> NoChannel]]
  /\ UNCHANGED <<cfg, state, kick, ctx, probing, stopper, reporter, net, up, history>>

\* The waiter's context ends first: ctx.Err() is returned.
WaitGivesUp(w) ==
  /\ waiter[w].at = "blocked"
  /\ waiter' = [waiter EXCEPT ![w] = [at |-> "expired", ch |-> NoChannel]]
  /\ UNCHANGED <<cfg, state, kick, ctx, probing, stopper, reporter, net, up, history>>

-----------------------------------------------------------------------------
(* The environment.                                                         *)

HoldElapses ==
  /\ hold
  /\ hold' = FALSE
  /\ UNCHANGED <<cfg, unhealthy, probeFails, probeOKs, callFails, probeWait, ready, closed,
                 kick, ctx, probing, clients, net, up, history>>

DownstreamChanges ==
  /\ up' = ~up
  /\ UNCHANGED <<cfg, state, kick, ctx, probing, clients, net, history>>

Loop ==
  \/ ProbeBegins \/ CheckReturns \/ ProbeDropped \/ ProbeAccepted
  \/ RecordOK \/ RecordFailure \/ LoopEmits \/ LoopRests

Next ==
  \/ Start \/ ParentDone \/ LoopExits \/ Loop \/ HoldElapses \/ DownstreamChanges
  \/ \E s \in Stoppers : Stop(s) \/ StopReturns(s)
  \/ \E r \in Reporters : ReportOK(r) \/ ReportFailure(r) \/ ReportEmits(r)
  \/ \E w \in Waiters : WaitBegins(w) \/ WaitReads(w) \/ WaitWakes(w) \/ WaitGivesUp(w)

\* The loop runs as long as it can (timers fire, Check is bounded by its Timeout),
\* and select, which picks a ready case at random, does not pass over a context
\* that is done forever. Waiters do not give up by fairness.
Fairness ==
  /\ WF_vars(Loop)
  /\ SF_vars(LoopExits)
  /\ WF_vars(HoldElapses)
  /\ \A s \in Stoppers : WF_vars(StopReturns(s))
  /\ \A w \in Waiters : WF_vars(WaitReads(w)) /\ WF_vars(WaitWakes(w))

Spec == Init /\ [][Next]_vars /\ Fairness

-----------------------------------------------------------------------------
(* Properties                                                               *)

\* What a caller sees of the gate; the loop may decide until it has exited.
Seen ==
  [shut |-> unhealthy, fails |-> callFails, threshold |-> cfg.passiveThreshold,
   probing |-> CASE loop = "off" -> "off" [] loop = "exited" -> "over" [] OTHER -> "on"]
Answers ==
  [w \in Waiters |-> CASE waiter[w].at = "idle" -> "free"
                      [] waiter[w].at = "expired" -> "expired"
                      [] OTHER -> "waiting"]

Abstract == INSTANCE Gate WITH gate <- Seen, answer <- Answers

\* Health implements Gate: however the loop, reports, waiters and Stop interleave,
\* a streak of reported failures alone or a probe shuts the gate, only a loop that
\* still runs opens it, a gate shut after its loop has ended stays shut, and
\* WaitHealthy answers nil only at a moment when the gate is open.
ImplementsGate == Abstract!Spec

ConfigType ==
  {c \in SettingsType : /\ c.interval > 0 /\ c.recheck > 0
                        /\ c.maxRecheck >= c.recheck
                        /\ c.failureThreshold > 0 /\ c.successThreshold > 0}

WaiterType == [at : {"idle", "reading", "blocked", "expired"}, ch : Channels \cup {NoChannel}]

FlagsOK ==
  /\ unhealthy \in BOOLEAN /\ hold \in BOOLEAN /\ mature \in BOOLEAN /\ up \in BOOLEAN
  /\ stale \in BOOLEAN /\ unprobed \in BOOLEAN

\* Every variable keeps its type; the kick channel never holds more than one token.
TypeOK ==
  /\ FlagsOK
  /\ cfg \in ConfigType
  /\ probeFails \in Nat /\ probeOKs \in Nat /\ callFails \in Nat /\ freshOKs \in Nat
  /\ badProbes \in Nat /\ badCalls \in Nat
  /\ probeWait \in Nat
  /\ ready \in Channels /\ closed \in SUBSET Channels
  /\ kick \in {0, 1}
  /\ ctx \in {"none", "live", "done"}
  /\ loop \in {"off", "select", "check", "returned", "record", "emit", "interval", "exited"}
  /\ verdict \in {"none", "ok", "fail", "aborted"}
  /\ change \in {-1, 0, 1}
  /\ timer \in Nat
  /\ waiter \in [Waiters -> WaiterType]
  /\ stopper \in [Stoppers -> {"idle", "waiting", "returned"}]
  /\ reporter \in [Reporters -> {0, 1}]
  /\ net \in Int

\* h.ready is closed exactly while the gate is healthy, so recoverLocked never
\* closes a channel twice (which would panic), and a call blocked in WaitHealthy
\* holds a channel that is closed or that the next recovery will close, however
\* often the gate trips and recovers after the call read it: no wakeup is lost.
NoLostWakeup ==
  /\ ready \in closed <=> ~unhealthy
  /\ \A w \in Waiters :
       waiter[w].at = "blocked" => waiter[w].ch = ready \/ waiter[w].ch \in closed

\* A passive trip is followed by a probe at once: as long as none has begun, a
\* kick is in the channel, also when a kick was dropped because it was full.
KickPending == unprobed => kick = 1

\* Recovery is decided by probes alone. The gate opens only in recordProbe, after
\* the hold-down, and on successThreshold consecutive OK probes, of which at most
\* one (already under way when a passive trip happened) began before the trip.
RecoveryEarned ==
  [][unhealthy /\ ~unhealthy' =>
       /\ RecordOK
       /\ ~hold
       /\ freshOKs' >= cfg.successThreshold - 1]_vars

\* The gate shuts on evidence alone: in recordProbe after failureThreshold recorded
\* probes in a row that the downstream really failed (probes cut short by Stop do
\* not count), or in Report after passiveThreshold reported failures in a row, none
\* of them from before the last trip or the last recovery.
TripEarned ==
  [][~unhealthy /\ unhealthy' =>
       \/ RecordFailure /\ badProbes' >= cfg.failureThreshold
       \/ /\ \E r \in Reporters : ReportFailure(r)
          /\ badCalls + 1 >= cfg.passiveThreshold]_vars

\* The reports that have an EventHealth still to emit.
PendingEvents == {r \in Reporters : reporter[r] = 1}

\* Every change of state is announced by exactly one EventHealth: the events seen
\* and those still to be emitted add up to the present state.
TransitionsAnnounced ==
  net + change + Cardinality(PendingEvents) = IF unhealthy THEN 1 ELSE 0

\* A probe cancelled by Stop, or by the end of Start's context, says nothing
\* about the downstream and is never recorded.
ShutdownProbesIgnored == loop = "record" => verdict # "aborted"

\* How long the loop rests between probes. Whatever trips the gate between a probe
\* and the reading of the state after it, nextInterval returns, give or take the
\* jitter, at least recheck and at most maxRecheck while the gate is unhealthy, and
\* recheck or the probe period while it is healthy: the loop never spins. And the
\* timer never outlives the reading it was armed from: as long as the loop rests
\* without a kick pending, the delay is one that the present state asks for, so
\* that a trip is not followed by a rest of a whole probe period. (The delay is
\* zero before the first probe.)
ProbePacing ==
  /\ unhealthy => NextInterval \subseteq Spread(cfg.recheck, cfg.maxRecheck)
  /\ ~unhealthy => NextInterval \in {Spread(cfg.recheck, cfg.recheck),
                                    Spread(cfg.interval, cfg.interval)}
  /\ loop = "select" /\ kick = 0 => timer = 0 \/ timer \in NextInterval

\* A probe that leaves the gate unhealthy never shortens the backoff.
ProbeBackoffGrows == [][unhealthy /\ unhealthy' => probeWait <= probeWait']_vars

\* If the downstream stays up and the loop keeps running, the gate reopens.
Reopens == <>[](up /\ ctx = "live") => [](unhealthy => <>~unhealthy)

\* When the gate stays healthy, no call stays blocked in WaitHealthy.
WaitersReleased ==
  <>[]~unhealthy =>
    \A w \in Waiters :
      [](waiter[w].at = "blocked" => <>(waiter[w].at \in {"idle", "expired"}))

\* Stop returns, even when it finds the loop inside a probe.
StopCompletes == \A s \in Stoppers : stopper[s] = "waiting" ~> stopper[s] = "returned"
===============================================================================
