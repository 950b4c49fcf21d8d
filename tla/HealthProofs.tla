----------------------------- MODULE HealthProofs -----------------------------
(***************************************************************************)
(* Proofs about Health, for every configuration, every number of waiters,  *)
(* reporters and stoppers, and every supply of channels.                    *)
(***************************************************************************)
EXTENDS Health, TLAPS, FiniteSetTheorems

\* NewHealth repairs every HealthConfig: thresholds and periods become positive
\* and the cap of the probe backoff is not below its first step.
LEMMA NewHealthRepairs == \A s \in Settings : NewHealth(s) \in ConfigType
<1>1. TAKE s \in Settings
<1>2. s \in SettingsType /\ Second \in Int /\ Second > 0
  BY HealthAssumption
<1>3. NewHealth(s) \in SettingsType
  BY <1>2 DEF NewHealth, SettingsType, Default, AtLeast
<1>4. /\ NewHealth(s).interval > 0 /\ NewHealth(s).recheck > 0
      /\ NewHealth(s).maxRecheck >= NewHealth(s).recheck
      /\ NewHealth(s).failureThreshold > 0 /\ NewHealth(s).successThreshold > 0
  BY <1>2 DEF NewHealth, SettingsType, Default, AtLeast
<1> QED
  BY <1>3, <1>4 DEF ConfigType

\* The fields of a configuration the steps of the proofs use.
LEMMA ConfigFields ==
  ASSUME NEW c \in ConfigType
  PROVE  /\ c.recheck \in Nat /\ c.maxRecheck \in Nat /\ c.holdDown \in BOOLEAN
         /\ c.failureThreshold \in Nat /\ c.successThreshold \in Nat
         /\ c.passiveThreshold \in Int /\ c.interval \in Nat
         /\ c.recheck > 0 /\ c.recheck <= c.maxRecheck /\ c.interval > 0
BY DEF ConfigType, SettingsType

\* A delay with its jitter is never negative.
LEMMA SpreadNatural ==
  ASSUME NEW d \in Nat
  PROVE  Spread(d, d) \subseteq Nat
BY DEF Spread

\* Delays that lie between two others do so with their jitter.
LEMMA SpreadWithin ==
  ASSUME NEW lo \in Nat, NEW d \in Nat, NEW hi \in Nat, lo <= d, d <= hi
  PROVE  Spread(d, d) \subseteq Spread(lo, hi)
<1>1. lo - lo \div 10 <= d - d \div 10 /\ d + d \div 10 <= hi + hi \div 10
  OBVIOUS
<1> QED
  BY <1>1 DEF Spread

-----------------------------------------------------------------------------
\* The Boolean variables stay Boolean.
LEMMA FlagsPreserved == TypeOK /\ [Next]_vars => FlagsOK'
<1> SUFFICES ASSUME FlagsOK, cfg.holdDown \in BOOLEAN, [Next]_vars PROVE FlagsOK'
  BY ConfigFields DEF TypeOK
<1> USE DEF FlagsOK
<1>1. CASE Start
  BY <1>1 DEF Start, state, clients, history, evidence
<1>2. CASE ParentDone
  BY <1>2 DEF ParentDone, state, probing, clients, history, evidence
<1>3. CASE LoopExits
  BY <1>3 DEF LoopExits, state, clients, history, evidence
<1>4. CASE ProbeBegins
  BY <1>4 DEF ProbeBegins, state, clients, evidence
<1>5. CASE CheckReturns
  BY <1>5 DEF CheckReturns, state, clients, history, evidence
<1>6. CASE ProbeDropped
  BY <1>6 DEF ProbeDropped, state, clients, history, evidence
<1>7. CASE ProbeAccepted
  BY <1>7 DEF ProbeAccepted, state, clients, history, evidence
<1>8. CASE RecordOK
  BY <1>8 DEF RecordOK, Recover, Count, clients
<1>9. CASE RecordFailure
  BY <1>9 DEF RecordFailure, Trip, Count, NextProbeWait, clients
<1>10. CASE LoopEmits
  BY <1>10 DEF LoopEmits, state, clients, history, evidence
<1>11. CASE LoopRests
  BY <1>11 DEF LoopRests, state, clients, history, evidence
<1>12. CASE HoldElapses
  BY <1>12 DEF HoldElapses, probing, clients, history, evidence
<1>13. CASE DownstreamChanges
  BY <1>13 DEF DownstreamChanges, state, probing, clients, history, evidence
<1>14. ASSUME NEW s \in Stoppers, Stop(s) PROVE FlagsOK'
  BY <1>14 DEF Stop, state, probing, history, evidence
<1>15. ASSUME NEW s \in Stoppers, StopReturns(s) PROVE FlagsOK'
  BY <1>15 DEF StopReturns, state, probing, history, evidence
<1>16. ASSUME NEW r \in Reporters, ReportOK(r) PROVE FlagsOK'
  BY <1>16 DEF ReportOK, probing, clients, history, evidence
<1>17. ASSUME NEW r \in Reporters, ReportFailure(r) PROVE FlagsOK'
  <2>1. CASE callFails + 1 >= cfg.passiveThreshold
    <3>1. /\ unhealthy' = TRUE /\ hold' = cfg.holdDown /\ mature' = FALSE
          /\ unprobed' = TRUE /\ up' = up
      BY <1>17, <2>1 DEF ReportFailure, Trip
    <3>2. stale' = (loop \in {"check", "returned", "record"})
      BY <1>17, <2>1 DEF ReportFailure
    <3>3. stale' \in BOOLEAN
      BY <3>2
    <3> QED
      BY <3>1, <3>3, Zenon
  <2>2. CASE ~(callFails + 1 >= cfg.passiveThreshold)
    BY <1>17, <2>2 DEF ReportFailure, history, evidence
  <2> QED
    BY <2>1, <2>2
<1>18. ASSUME NEW r \in Reporters, ReportEmits(r) PROVE FlagsOK'
  BY <1>18 DEF ReportEmits, state, probing, history, evidence
<1>19. ASSUME NEW w \in Waiters, WaitBegins(w) PROVE FlagsOK'
  BY <1>19 DEF WaitBegins, state, probing, history, evidence
<1>20. ASSUME NEW w \in Waiters, WaitReads(w) PROVE FlagsOK'
  BY <1>20 DEF WaitReads, state, probing, history, evidence
<1>21. ASSUME NEW w \in Waiters, WaitWakes(w) PROVE FlagsOK'
  BY <1>21 DEF WaitWakes, state, probing, history, evidence
<1>22. ASSUME NEW w \in Waiters, WaitGivesUp(w) PROVE FlagsOK'
  BY <1>22 DEF WaitGivesUp, state, probing, history, evidence
<1>23. CASE UNCHANGED vars
  BY <1>23 DEF vars, state, probing, clients, history, evidence
<1> QED
  BY <1>1, <1>2, <1>3, <1>4, <1>5, <1>6, <1>7, <1>8, <1>9, <1>10, <1>11, <1>12,
     <1>13, <1>14, <1>15, <1>16, <1>17, <1>18, <1>19, <1>20, <1>21, <1>22, <1>23
     DEF Next, Loop

\* Every variable of the gate keeps its type, whatever the goroutines do.
THEOREM TypeCorrect == Spec => []TypeOK
<1>1. Init => TypeOK
  <2> SUFFICES ASSUME Init PROVE TypeOK
    OBVIOUS
  <2>1. cfg \in ConfigType
    BY NewHealthRepairs DEF Init
  <2>2. waiter \in [Waiters -> WaiterType]
    BY DEF Init, WaiterType
  <2>3. FlagsOK
    BY Zenon DEF Init, FlagsOK
  <2> QED
    BY <2>1, <2>2, <2>3 DEF Init, TypeOK
<1>2. TypeOK /\ [Next]_vars => TypeOK'
  <2> SUFFICES ASSUME TypeOK, [Next]_vars PROVE TypeOK'
    OBVIOUS
  <2>0. FlagsOK'
    BY FlagsPreserved
  <2> USE <2>0, ConfigFields DEF TypeOK, WaiterType
  <2>1. CASE Start
    BY <2>1 DEF Start, state, clients, history, evidence
  <2>2. CASE ParentDone
    BY <2>2 DEF ParentDone, state, probing, clients, history, evidence
  <2>3. CASE LoopExits
    BY <2>3 DEF LoopExits, state, clients, history, evidence
  <2>4. CASE ProbeBegins
    BY <2>4 DEF ProbeBegins, state, clients, evidence
  <2>5. CASE CheckReturns
    BY <2>5 DEF CheckReturns, state, clients, history, evidence
  <2>6. CASE ProbeDropped
    BY <2>6 DEF ProbeDropped, state, clients, history, evidence
  <2>7. CASE ProbeAccepted
    BY <2>7 DEF ProbeAccepted, state, clients, history, evidence
  <2>8. CASE RecordOK
    BY <2>8 DEF RecordOK, Recover, Count, clients
  <2>9. CASE RecordFailure
    BY <2>9 DEF RecordFailure, Trip, Count, NextProbeWait, clients
  <2>10. CASE LoopEmits
    BY <2>10 DEF LoopEmits, state, clients, history, evidence
  <2>11. CASE LoopRests
    <3>1. timer' \in Nat
      <4>1. PICK d \in Nat : NextInterval = Spread(d, d)
        BY DEF NextInterval
      <4> QED
        BY <2>11, <4>1, SpreadNatural DEF LoopRests
    <3> QED
      BY <2>11, <3>1 DEF LoopRests, state, clients, history, evidence
  <2>12. CASE HoldElapses
    BY <2>12 DEF HoldElapses, probing, clients, history, evidence
  <2>13. CASE DownstreamChanges
    BY <2>13 DEF DownstreamChanges, state, probing, clients, history, evidence
  <2>14. ASSUME NEW s \in Stoppers, Stop(s) PROVE TypeOK'
    BY <2>14 DEF Stop, state, probing, history, evidence
  <2>15. ASSUME NEW s \in Stoppers, StopReturns(s) PROVE TypeOK'
    BY <2>15 DEF StopReturns, state, probing, history, evidence
  <2>16. ASSUME NEW r \in Reporters, ReportOK(r) PROVE TypeOK'
    BY <2>16 DEF ReportOK, probing, clients, history, evidence
  <2>17. ASSUME NEW r \in Reporters, ReportFailure(r) PROVE TypeOK'
    BY <2>17 DEF ReportFailure, Trip, Kick, history, evidence
  <2>18. ASSUME NEW r \in Reporters, ReportEmits(r) PROVE TypeOK'
    BY <2>18 DEF ReportEmits, state, probing, history, evidence
  <2>19. ASSUME NEW w \in Waiters, WaitBegins(w) PROVE TypeOK'
    BY <2>19 DEF WaitBegins, state, probing, history, evidence
  <2>20. ASSUME NEW w \in Waiters, WaitReads(w) PROVE TypeOK'
    BY <2>20 DEF WaitReads, state, probing, history, evidence
  <2>21. ASSUME NEW w \in Waiters, WaitWakes(w) PROVE TypeOK'
    BY <2>21 DEF WaitWakes, state, probing, history, evidence
  <2>22. ASSUME NEW w \in Waiters, WaitGivesUp(w) PROVE TypeOK'
    BY <2>22 DEF WaitGivesUp, state, probing, history, evidence
  <2>23. CASE UNCHANGED vars
    BY <2>23 DEF vars, state, probing, clients, history, evidence
  <2> QED
    BY <2>1, <2>2, <2>3, <2>4, <2>5, <2>6, <2>7, <2>8, <2>9, <2>10, <2>11, <2>12,
       <2>13, <2>14, <2>15, <2>16, <2>17, <2>18, <2>19, <2>20, <2>21, <2>22, <2>23
       DEF Next, Loop
<1> QED
  BY <1>1, <1>2, PTL DEF Spec
-----------------------------------------------------------------------------
(* No lost wakeup.  The invariant is inductive given the types.  A trip      *)
(* replaces h.ready: it happens only while healthy, when the old channel is  *)
(* closed, so calls still blocked on it hold a closed channel; and the new   *)
(* channel is one nobody holds, hence open.                                  *)

\* tripLocked, entered while healthy, keeps every blocked call wakeable.
LEMMA TripKeepsWakeups ==
  ASSUME TypeOK, NoLostWakeup, ~unhealthy, Trip, UNCHANGED waiter
  PROVE  NoLostWakeup'
<1>1. unhealthy' = TRUE
  BY DEF Trip
<1>2. ready' \notin closed'
  BY DEF Trip
<1>3. ASSUME NEW w \in Waiters, waiter'[w].at = "blocked"
      PROVE  waiter'[w].ch \in closed'
  <2>1. waiter[w].ch \in closed
    BY <1>3 DEF NoLostWakeup
  <2>2. Held(waiter[w].ch)
    BY DEF Held
  <2> QED
    BY <2>1, <2>2 DEF Trip
<1> QED
  BY <1>1, <1>2, <1>3 DEF NoLostWakeup

\* recoverLocked closes the channel every remaining blocked call waits for.
LEMMA RecoverKeepsWakeups ==
  ASSUME TypeOK, NoLostWakeup, Recover, UNCHANGED waiter
  PROVE  NoLostWakeup'
BY DEF NoLostWakeup, Recover

\* Steps that leave the gate's state alone and move at most one call of
\* WaitHealthy, which blocks only on the channel it has just read.
LEMMA WaitKeepsWakeups ==
  ASSUME TypeOK, NoLostWakeup, UNCHANGED <<unhealthy, ready, closed>>,
         NEW w \in Waiters, NEW r \in WaiterType,
         waiter' = [waiter EXCEPT ![w] = r],
         r.at = "blocked" => r.ch = ready
  PROVE  NoLostWakeup'
BY DEF NoLostWakeup, TypeOK

\* A step that touches neither the channels nor the waiters keeps the invariant.
LEMMA StillKeepsWakeups ==
  ASSUME NoLostWakeup, UNCHANGED <<unhealthy, ready, closed, waiter>>
  PROVE  NoLostWakeup'
BY DEF NoLostWakeup

\* The ready channel is closed exactly while healthy, and no call stays blocked on
\* a channel nobody will close.
THEOREM WakeupSafety == Spec => []NoLostWakeup
<1>1. Init => NoLostWakeup
  BY DEF Init, NoLostWakeup
<1>2. TypeOK /\ NoLostWakeup /\ [Next]_vars => NoLostWakeup'
  <2> SUFFICES ASSUME TypeOK, NoLostWakeup, [Next]_vars PROVE NoLostWakeup'
    OBVIOUS
  <2>1. CASE RecordOK
    <3>1. CASE Recover
      BY <2>1, <3>1, RecoverKeepsWakeups DEF RecordOK, clients
    <3>2. CASE UNCHANGED <<unhealthy, ready, closed>>
      BY <2>1, <3>2, StillKeepsWakeups DEF RecordOK, clients
    <3> QED
      BY <2>1, <3>1, <3>2 DEF RecordOK
  <2>2. CASE RecordFailure
    <3>1. CASE ~unhealthy /\ Trip
      BY <2>2, <3>1, TripKeepsWakeups DEF RecordFailure, clients
    <3>2. CASE UNCHANGED <<unhealthy, ready, closed>>
      BY <2>2, <3>2, StillKeepsWakeups DEF RecordFailure, clients
    <3> QED
      BY <2>2, <3>1, <3>2 DEF RecordFailure
  <2>3. ASSUME NEW r \in Reporters, ReportFailure(r) PROVE NoLostWakeup'
    <3>1. CASE Trip
      BY <2>3, <3>1, TripKeepsWakeups DEF ReportFailure
    <3>2. CASE UNCHANGED <<unhealthy, ready, closed>>
      BY <2>3, <3>2, StillKeepsWakeups DEF ReportFailure
    <3> QED
      BY <2>3, <3>1, <3>2 DEF ReportFailure
  <2>4. ASSUME NEW w \in Waiters, WaitBegins(w) PROVE NoLostWakeup'
    BY <2>4 DEF WaitBegins, NoLostWakeup, TypeOK, WaiterType, state
  <2>5. ASSUME NEW w \in Waiters, WaitReads(w) PROVE NoLostWakeup'
    BY <2>5, WaitKeepsWakeups DEF WaitReads, TypeOK, WaiterType, state
  <2>6. ASSUME NEW w \in Waiters, WaitWakes(w) PROVE NoLostWakeup'
    BY <2>6, WaitKeepsWakeups DEF WaitWakes, TypeOK, WaiterType, state
  <2>7. ASSUME NEW w \in Waiters, WaitGivesUp(w) PROVE NoLostWakeup'
    BY <2>7, WaitKeepsWakeups DEF WaitGivesUp, TypeOK, WaiterType, state
  <2>8. CASE Start
    BY <2>8, StillKeepsWakeups DEF Start, state, clients
  <2>9. CASE ParentDone
    BY <2>9, StillKeepsWakeups DEF ParentDone, state, clients
  <2>10. CASE LoopExits
    BY <2>10, StillKeepsWakeups DEF LoopExits, state, clients
  <2>11. CASE ProbeBegins
    BY <2>11, StillKeepsWakeups DEF ProbeBegins, state, clients, evidence
  <2>12. CASE CheckReturns
    BY <2>12, StillKeepsWakeups DEF CheckReturns, state, clients
  <2>13. CASE ProbeDropped
    BY <2>13, StillKeepsWakeups DEF ProbeDropped, state, clients
  <2>14. CASE ProbeAccepted
    BY <2>14, StillKeepsWakeups DEF ProbeAccepted, state, clients
  <2>15. CASE LoopEmits
    BY <2>15, StillKeepsWakeups DEF LoopEmits, state, clients
  <2>16. CASE LoopRests
    BY <2>16, StillKeepsWakeups DEF LoopRests, state, clients
  <2>17. CASE HoldElapses
    BY <2>17, StillKeepsWakeups DEF HoldElapses, clients
  <2>18. CASE DownstreamChanges
    BY <2>18, StillKeepsWakeups DEF DownstreamChanges, state, clients
  <2>19. ASSUME NEW s \in Stoppers, Stop(s) PROVE NoLostWakeup'
    BY <2>19, StillKeepsWakeups DEF Stop, state
  <2>20. ASSUME NEW s \in Stoppers, StopReturns(s) PROVE NoLostWakeup'
    BY <2>20, StillKeepsWakeups DEF StopReturns, state
  <2>21. ASSUME NEW r \in Reporters, ReportOK(r) PROVE NoLostWakeup'
    BY <2>21, StillKeepsWakeups DEF ReportOK, clients
  <2>22. ASSUME NEW r \in Reporters, ReportEmits(r) PROVE NoLostWakeup'
    BY <2>22, StillKeepsWakeups DEF ReportEmits, state
  <2>23. CASE UNCHANGED vars
    BY <2>23, StillKeepsWakeups DEF vars, state, clients
  <2> QED
    BY <2>1, <2>2, <2>3, <2>4, <2>5, <2>6, <2>7, <2>8, <2>9, <2>10, <2>11, <2>12,
       <2>13, <2>14, <2>15, <2>16, <2>17, <2>18, <2>19, <2>20, <2>21, <2>22, <2>23
       DEF Next, Loop
<1> QED
  BY <1>1, <1>2, TypeCorrect, PTL DEF Spec

-----------------------------------------------------------------------------
(* Shutdown and the kick.                                                    *)

\* A probe fails by cancellation only after the loop's context has ended, and
\* such a result exists only between Check's return and the look at the context.
AbortedInShutdown == verdict = "aborted" => ctx = "done" /\ loop = "returned"

LoopInv == AbortedInShutdown /\ KickPending

\* A cancelled probe is never recorded, and a passive trip that no probe has
\* followed yet has left a kick for the loop.
THEOREM LoopSafety == Spec => [](ShutdownProbesIgnored /\ KickPending)
<1>1. Init => LoopInv
  BY DEF Init, LoopInv, AbortedInShutdown, KickPending
<1>2. LoopInv /\ [Next]_vars => LoopInv'
  <2> SUFFICES ASSUME LoopInv, [Next]_vars PROVE LoopInv'
    OBVIOUS
  <2> USE DEF LoopInv, AbortedInShutdown, KickPending
  <2>1. CASE Start
    BY <2>1 DEF Start, history, evidence
  <2>2. CASE ParentDone
    BY <2>2 DEF ParentDone, probing, history, evidence
  <2>3. CASE LoopExits
    BY <2>3 DEF LoopExits, history, evidence
  <2>4. CASE ProbeBegins
    BY <2>4 DEF ProbeBegins
  <2>5. CASE CheckReturns
    BY <2>5 DEF CheckReturns, history, evidence
  <2>6. CASE ProbeDropped
    BY <2>6 DEF ProbeDropped, history, evidence
  <2>7. CASE ProbeAccepted
    BY <2>7 DEF ProbeAccepted, history, evidence
  <2>8. CASE RecordOK
    BY <2>8 DEF RecordOK
  <2>9. CASE RecordFailure
    BY <2>9 DEF RecordFailure
  <2>10. CASE LoopEmits
    BY <2>10 DEF LoopEmits, history, evidence
  <2>11. CASE LoopRests
    BY <2>11 DEF LoopRests, history, evidence
  <2>12. CASE HoldElapses
    BY <2>12 DEF HoldElapses, probing, history, evidence
  <2>13. CASE DownstreamChanges
    BY <2>13 DEF DownstreamChanges, probing, history, evidence
  <2>14. ASSUME NEW s \in Stoppers, Stop(s) PROVE LoopInv'
    BY <2>14 DEF Stop, probing, history, evidence
  <2>15. ASSUME NEW s \in Stoppers, StopReturns(s) PROVE LoopInv'
    BY <2>15 DEF StopReturns, probing, history, evidence
  <2>16. ASSUME NEW r \in Reporters, ReportOK(r) PROVE LoopInv'
    BY <2>16 DEF ReportOK, probing, history, evidence
  <2>17. ASSUME NEW r \in Reporters, ReportFailure(r) PROVE LoopInv'
    BY <2>17 DEF ReportFailure, Kick, history, evidence
  <2>18. ASSUME NEW r \in Reporters, ReportEmits(r) PROVE LoopInv'
    BY <2>18 DEF ReportEmits, probing, history, evidence
  <2>19. ASSUME NEW w \in Waiters, WaitBegins(w) PROVE LoopInv'
    BY <2>19 DEF WaitBegins, probing, history, evidence
  <2>20. ASSUME NEW w \in Waiters, WaitReads(w) PROVE LoopInv'
    BY <2>20 DEF WaitReads, probing, history, evidence
  <2>21. ASSUME NEW w \in Waiters, WaitWakes(w) PROVE LoopInv'
    BY <2>21 DEF WaitWakes, probing, history, evidence
  <2>22. ASSUME NEW w \in Waiters, WaitGivesUp(w) PROVE LoopInv'
    BY <2>22 DEF WaitGivesUp, probing, history, evidence
  <2>23. CASE UNCHANGED vars
    BY <2>23 DEF vars, probing, history, evidence
  <2> QED
    BY <2>1, <2>2, <2>3, <2>4, <2>5, <2>6, <2>7, <2>8, <2>9, <2>10, <2>11, <2>12,
       <2>13, <2>14, <2>15, <2>16, <2>17, <2>18, <2>19, <2>20, <2>21, <2>22, <2>23
       DEF Next, Loop
<1>3. LoopInv => ShutdownProbesIgnored /\ KickPending
  BY DEF LoopInv, AbortedInShutdown, ShutdownProbesIgnored
<1> QED
  BY <1>1, <1>2, <1>3, PTL DEF Spec
-----------------------------------------------------------------------------
(* Health implements Gate.  The mapping forgets the probe counters, the      *)
(* channels and the events; what it needs beyond the types is that the loop  *)
(* exists exactly when Start has run.                                        *)

LoopStarted == ctx = "none" <=> loop = "off"

\* Start alone creates the loop, and it never goes back.
LEMMA LoopStartedInvariant == Spec => []LoopStarted
<1>1. Init => LoopStarted
  BY DEF Init, LoopStarted
<1>2. LoopStarted /\ [Next]_vars => LoopStarted'
  BY DEF LoopStarted, Next, Loop, Start, ParentDone, LoopExits, ProbeBegins, CheckReturns,
         ProbeDropped, ProbeAccepted, RecordOK, RecordFailure, LoopEmits, LoopRests,
         HoldElapses, DownstreamChanges, Stop, StopReturns, ReportOK, ReportFailure,
         ReportEmits, WaitBegins, WaitReads, WaitWakes, WaitGivesUp, vars, probing
<1> QED
  BY <1>1, <1>2, PTL DEF Spec

\* What a step must keep for the abstract gate not to notice it.
Unnoticed == UNCHANGED <<Seen, Answers>>

\* A step that keeps the state callers see, and the loop's being started or over.
LEMMA InternalStep ==
  ASSUME UNCHANGED <<unhealthy, callFails, cfg, waiter>>,
         (loop \notin {"off", "exited"} /\ loop' \notin {"off", "exited"}) \/ UNCHANGED loop
  PROVE  Unnoticed
BY DEF Unnoticed, Seen, Answers

\* A call of WaitHealthy moves and nothing else a caller can see does.
LEMMA WaiterStep ==
  ASSUME TypeOK, UNCHANGED <<unhealthy, callFails, cfg, loop>>,
         NEW w \in Waiters, NEW at \in {"idle", "reading", "blocked", "expired"},
         waiter' = [waiter EXCEPT ![w] = waiter'[w]], waiter'[w].at = at
  PROVE  /\ UNCHANGED Seen
         /\ Answers' = [Answers EXCEPT ![w] =
              CASE at = "idle" -> "free" [] at = "expired" -> "expired" [] OTHER -> "waiting"]
<1>1. UNCHANGED Seen
  BY DEF Seen
<1>2. \A v \in Waiters : v # w => waiter'[v] = waiter[v]
  BY DEF TypeOK
<1>3. Answers' = [v \in Waiters |-> CASE waiter'[v].at = "idle" -> "free"
                                     [] waiter'[v].at = "expired" -> "expired"
                                     [] OTHER -> "waiting"]
  BY DEF Answers
<1> QED
  BY <1>1, <1>2, <1>3 DEF Answers

\* Every step of Health is a step of the gate its callers see, or one they miss.
LEMMA StepSimulated ==
  ASSUME TypeOK, LoopStarted, [Next]_vars
  PROVE  [Abstract!Next]_<<Seen, Answers>>
<1> DEFINE Goal == Abstract!Next \/ Unnoticed
<1> SUFFICES Goal
  BY DEF Unnoticed
<1> HIDE DEF Goal
<1>0. Unnoticed => Goal
  BY DEF Goal
<1>1. CASE ParentDone
  BY <1>1, <1>0, InternalStep DEF ParentDone, state, probing, clients
<1>2. CASE ProbeBegins
  BY <1>2, <1>0, InternalStep DEF ProbeBegins, state, clients
<1>3. CASE CheckReturns
  BY <1>3, <1>0, InternalStep DEF CheckReturns, state, clients
<1>4. CASE ProbeDropped
  BY <1>4, <1>0, InternalStep DEF ProbeDropped, state, clients
<1>5. CASE ProbeAccepted
  BY <1>5, <1>0, InternalStep DEF ProbeAccepted, state, clients
<1>6. CASE LoopEmits
  BY <1>6, <1>0, InternalStep DEF LoopEmits, state, clients
<1>7. CASE LoopRests
  BY <1>7, <1>0, InternalStep DEF LoopRests, state, clients
<1>8. CASE HoldElapses
  BY <1>8, <1>0, InternalStep DEF HoldElapses, probing, clients
<1>9. CASE DownstreamChanges
  BY <1>9, <1>0, InternalStep DEF DownstreamChanges, state, probing, clients
<1>10. ASSUME NEW s \in Stoppers, Stop(s) PROVE Goal
  BY <1>10, <1>0, InternalStep DEF Stop, state, probing
<1>11. ASSUME NEW s \in Stoppers, StopReturns(s) PROVE Goal
  BY <1>11, <1>0, InternalStep DEF StopReturns, state, probing
<1>12. ASSUME NEW r \in Reporters, ReportEmits(r) PROVE Goal
  BY <1>12, <1>0, InternalStep DEF ReportEmits, state, probing
<1>13. CASE UNCHANGED vars
  BY <1>13, <1>0, InternalStep DEF vars, state, probing, clients
<1>14. CASE Start
  <2>1. Seen.probing = "off" /\ Seen' = [Seen EXCEPT !.probing = "on"] /\ UNCHANGED Answers
    BY <1>14 DEF Start, Seen, Answers, LoopStarted, state, clients
  <2>2. Abstract!ProbingChanges
    BY <2>1 DEF Abstract!ProbingChanges
  <2> QED
    BY <2>2 DEF Goal, Abstract!Next
<1>15. CASE LoopExits
  <2>1. Seen.probing = "on" /\ Seen' = [Seen EXCEPT !.probing = "over"] /\ UNCHANGED Answers
    BY <1>15 DEF LoopExits, Seen, Answers, LoopStarted, state, clients
  <2>2. Abstract!ProbingChanges
    BY <2>1 DEF Abstract!ProbingChanges
  <2> QED
    BY <2>2 DEF Goal, Abstract!Next
<1>16. CASE RecordOK
  <2>1. CASE unhealthy /\ Recover
    <3>1. Seen.probing = "on" /\ Seen.shut /\ UNCHANGED Answers
      BY <1>16, <2>1 DEF RecordOK, Seen, Answers, clients
    <3>2. Seen' = Abstract!Opened(Seen)
      <4>1. unhealthy' = FALSE /\ callFails' = 0
        BY <2>1 DEF Recover
      <4>2. loop = "record" /\ loop' = "emit" /\ cfg' = cfg
        BY <1>16 DEF RecordOK
      <4>3. Seen' = [shut |-> FALSE, fails |-> 0,
                     threshold |-> cfg.passiveThreshold, probing |-> "on"]
        BY <4>1, <4>2 DEF Seen
      <4>4. Seen = [shut |-> unhealthy, fails |-> callFails,
                    threshold |-> cfg.passiveThreshold, probing |-> "on"]
        BY <4>2 DEF Seen
      <4> QED
        BY <4>3, <4>4 DEF Abstract!Opened, Abstract!Turned
    <3>3. Abstract!ProbeDecides
      BY <3>1, <3>2 DEF Abstract!ProbeDecides
    <3> QED
      BY <3>3 DEF Goal, Abstract!Next
  <2>2. CASE UNCHANGED <<unhealthy, callFails>>
    BY <1>16, <2>2, <1>0, InternalStep DEF RecordOK, clients
  <2> QED
    BY <1>16, <2>1, <2>2 DEF RecordOK
<1>17. CASE RecordFailure
  <2>1. CASE ~unhealthy /\ Trip
    <3>1. Seen.probing = "on" /\ ~Seen.shut /\ UNCHANGED Answers
      BY <1>17, <2>1 DEF RecordFailure, Seen, Answers, clients
    <3>2. Seen' = Abstract!Shut(Seen)
      <4>1. unhealthy' = TRUE /\ callFails' = 0
        BY <2>1 DEF Trip
      <4>2. loop = "record" /\ loop' = "emit" /\ cfg' = cfg
        BY <1>17 DEF RecordFailure
      <4>3. Seen' = [shut |-> TRUE, fails |-> 0,
                     threshold |-> cfg.passiveThreshold, probing |-> "on"]
        BY <4>1, <4>2 DEF Seen
      <4>4. Seen = [shut |-> unhealthy, fails |-> callFails,
                    threshold |-> cfg.passiveThreshold, probing |-> "on"]
        BY <4>2 DEF Seen
      <4> QED
        BY <4>3, <4>4 DEF Abstract!Shut, Abstract!Turned
    <3>3. Abstract!ProbeDecides
      BY <3>1, <3>2 DEF Abstract!ProbeDecides
    <3> QED
      BY <3>3 DEF Goal, Abstract!Next
  <2>2. CASE UNCHANGED <<unhealthy, callFails>>
    BY <1>17, <2>2, <1>0, InternalStep DEF RecordFailure, clients
  <2> QED
    BY <1>17, <2>1, <2>2 DEF RecordFailure
<1>18. ASSUME NEW r \in Reporters, ReportOK(r) PROVE Goal
  <2>1. Seen' = [Seen EXCEPT !.fails = 0] /\ UNCHANGED Answers
    BY <1>18 DEF ReportOK, Seen, Answers, probing, clients
  <2>2. Seen.threshold > 0 /\ ~Seen.shut
    BY <1>18 DEF ReportOK, Seen
  <2>3. cfg.passiveThreshold \in Int
    BY ConfigFields DEF TypeOK
  <2>4. Seen' = Abstract!Reported(Seen, FALSE)
    BY <2>1, <2>2, <2>3 DEF Abstract!Reported, Seen
  <2>5. Abstract!Report
    BY <2>1, <2>4 DEF Abstract!Report
  <2> QED
    BY <2>5 DEF Goal, Abstract!Next
<1>19. ASSUME NEW r \in Reporters, ReportFailure(r) PROVE Goal
  <2>1. Seen.threshold > 0 /\ ~Seen.shut /\ UNCHANGED Answers
    BY <1>19 DEF ReportFailure, Seen, Answers
  <2>2. Seen' = IF Seen.fails + 1 >= Seen.threshold
                THEN Abstract!Shut(Seen)
                ELSE [Seen EXCEPT !.fails = @ + 1]
    BY <1>19 DEF ReportFailure, Trip, Seen, Abstract!Shut, Abstract!Turned
  <2>3. cfg.passiveThreshold \in Int
    BY ConfigFields DEF TypeOK
  <2>4. Seen' = Abstract!Reported(Seen, TRUE)
    BY <2>1, <2>2, <2>3 DEF Abstract!Reported, Seen
  <2>5. Abstract!Report
    BY <2>1, <2>4 DEF Abstract!Report
  <2> QED
    BY <2>5 DEF Goal, Abstract!Next
<1>20. ASSUME NEW w \in Waiters, WaitBegins(w) PROVE Goal
  <2>1. waiter'[w].at = "reading" /\ waiter' = [waiter EXCEPT ![w] = waiter'[w]]
    BY <1>20 DEF WaitBegins, TypeOK, WaiterType
  <2>2. UNCHANGED Seen /\ Answers' = [Answers EXCEPT ![w] = "waiting"]
    BY <1>20, <2>1, WaiterStep DEF WaitBegins, state, probing
  <2>3. Answers[w] \in {"free", "expired"}
    BY <1>20 DEF WaitBegins, Answers
  <2>4. Abstract!Ask(w)
    BY <2>2, <2>3 DEF Abstract!Ask, Abstract!Answer
  <2> QED
    BY <2>4 DEF Goal, Abstract!Next
<1>21. ASSUME NEW w \in Waiters, WaitGivesUp(w) PROVE Goal
  <2>1. waiter'[w].at = "expired" /\ waiter' = [waiter EXCEPT ![w] = waiter'[w]]
    BY <1>21 DEF WaitGivesUp, TypeOK, WaiterType
  <2>2. UNCHANGED Seen /\ Answers' = [Answers EXCEPT ![w] = "expired"]
    BY <1>21, <2>1, WaiterStep DEF WaitGivesUp, state, probing
  <2>3. Answers[w] \in {"waiting"}
    BY <1>21 DEF WaitGivesUp, Answers
  <2>4. Abstract!AnswerExpired(w)
    BY <2>2, <2>3 DEF Abstract!AnswerExpired, Abstract!Answer
  <2> QED
    BY <2>4 DEF Goal, Abstract!Next
<1>22. ASSUME NEW w \in Waiters, WaitReads(w) PROVE Goal
  <2>1. CASE unhealthy
    <3>1. waiter'[w].at = "blocked" /\ waiter' = [waiter EXCEPT ![w] = waiter'[w]]
      BY <1>22, <2>1 DEF WaitReads, TypeOK, WaiterType
    <3>2. UNCHANGED Seen /\ Answers' = [Answers EXCEPT ![w] = "waiting"]
      BY <1>22, <3>1, WaiterStep DEF WaitReads, state, probing
    <3>3. Answers[w] = "waiting"
      BY <1>22 DEF WaitReads, Answers
    <3>4. UNCHANGED Answers
      BY <3>2, <3>3 DEF Answers
    <3> QED
      BY <3>2, <3>4, <1>0 DEF Unnoticed
  <2>2. CASE ~unhealthy
    <3>1. waiter'[w].at = "idle" /\ waiter' = [waiter EXCEPT ![w] = waiter'[w]]
      BY <1>22, <2>2 DEF WaitReads, TypeOK, WaiterType
    <3>2. UNCHANGED Seen /\ Answers' = [Answers EXCEPT ![w] = "free"]
      BY <1>22, <3>1, WaiterStep DEF WaitReads, state, probing
    <3>3. Answers[w] \in {"waiting"} /\ ~Seen.shut
      BY <1>22, <2>2 DEF WaitReads, Answers, Seen
    <3>4. Abstract!AnswerHealthy(w)
      BY <3>2, <3>3 DEF Abstract!AnswerHealthy, Abstract!Answer
    <3> QED
      BY <3>4 DEF Goal, Abstract!Next
  <2> QED
    BY <2>1, <2>2
<1>23. ASSUME NEW w \in Waiters, WaitWakes(w) PROVE Goal
  <2>1. waiter'[w].at = "reading" /\ waiter' = [waiter EXCEPT ![w] = waiter'[w]]
    BY <1>23 DEF WaitWakes, TypeOK, WaiterType
  <2>2. UNCHANGED Seen /\ Answers' = [Answers EXCEPT ![w] = "waiting"]
    BY <1>23, <2>1, WaiterStep DEF WaitWakes, state, probing
  <2>3. Answers[w] = "waiting"
    BY <1>23 DEF WaitWakes, Answers
  <2>4. UNCHANGED Answers
    BY <2>2, <2>3 DEF Answers
  <2> QED
    BY <2>2, <2>4, <1>0 DEF Unnoticed
<1> QED
  BY <1>1, <1>2, <1>3, <1>4, <1>5, <1>6, <1>7, <1>8, <1>9, <1>10, <1>11, <1>12,
     <1>13, <1>14, <1>15, <1>16, <1>17, <1>18, <1>19, <1>20, <1>21, <1>22, <1>23
     DEF Next, Loop

\* The initial states of Health are open gates without probing or waiters.
LEMMA InitSimulated == Init => Abstract!Init
<1> SUFFICES ASSUME Init PROVE Abstract!Init
  OBVIOUS
<1>1. cfg.passiveThreshold \in Int
  BY NewHealthRepairs, ConfigFields DEF Init
<1>2. Seen = Abstract!NewGate(cfg.passiveThreshold)
  BY DEF Init, Seen, Abstract!NewGate
<1>3. Answers = [w \in Waiters |-> "free"]
  BY DEF Init, Answers
<1>4. Seen.threshold = cfg.passiveThreshold
  BY DEF Seen
<1> QED
  BY <1>1, <1>2, <1>3, <1>4 DEF Abstract!Init

\* Health implements the abstract gate, for every configuration and any number of
\* waiters, reporters and stoppers: what Transport and Hosts assume of a gate is
\* what the goroutines of health.go provide.
THEOREM GateImplemented == Spec => ImplementsGate
<1>1. Init => Abstract!Init
  BY InitSimulated
<1>2. TypeOK /\ LoopStarted /\ [Next]_vars => [Abstract!Next]_<<Seen, Answers>>
  BY StepSimulated
<1> QED
  BY <1>1, <1>2, TypeCorrect, LoopStartedInvariant, PTL DEF Spec, ImplementsGate, Abstract!Spec

-----------------------------------------------------------------------------
(* Probe backoff, evidence and events.  Eight actions write what these are   *)
(* about; every other one leaves it alone.                                   *)

\* A step that changes no counter, no decision and no event.
Quiet ==
  /\ UNCHANGED <<cfg, unhealthy, probeFails, probeOKs, callFails, probeWait, mature, change,
                 net, reporter, stale, freshOKs, badProbes, badCalls>>
  /\ hold' => hold
  /\ \/ loop' = loop /\ verdict' = verdict
     \/ loop \notin {"record", "emit"} /\ loop' \in {"select", "exited", "interval"}

\* Which steps are not quiet.
LEMMA StepKinds ==
  ASSUME LoopStarted, [Next]_vars
  PROVE  \/ RecordOK \/ RecordFailure \/ ProbeBegins \/ CheckReturns \/ ProbeAccepted \/ LoopEmits
         \/ \E r \in Reporters : ReportOK(r) \/ ReportFailure(r) \/ ReportEmits(r)
         \/ Quiet
<1>1. Start => Quiet
  BY DEF Quiet, Start, state, clients, history, evidence, LoopStarted
<1>2. ParentDone => Quiet
  BY DEF Quiet, ParentDone, state, probing, clients, history, evidence
<1>3. LoopExits => Quiet
  BY DEF Quiet, LoopExits, state, clients, history, evidence
<1>4. ProbeDropped => Quiet
  BY DEF Quiet, ProbeDropped, state, clients, history, evidence
<1>5. LoopRests => Quiet
  BY DEF Quiet, LoopRests, state, clients, history, evidence
<1>6. HoldElapses => Quiet
  BY DEF Quiet, HoldElapses, probing, clients, history, evidence
<1>7. DownstreamChanges => Quiet
  BY DEF Quiet, DownstreamChanges, state, probing, clients, history, evidence
<1>8. \A s \in Stoppers : Stop(s) => Quiet
  BY DEF Quiet, Stop, state, probing, history, evidence
<1>9. \A s \in Stoppers : StopReturns(s) => Quiet
  BY DEF Quiet, StopReturns, state, probing, history, evidence
<1>10. \A w \in Waiters : WaitBegins(w) => Quiet
  BY DEF Quiet, WaitBegins, state, probing, history, evidence
<1>11. \A w \in Waiters : WaitReads(w) => Quiet
  BY DEF Quiet, WaitReads, state, probing, history, evidence
<1>12. \A w \in Waiters : WaitWakes(w) => Quiet
  BY DEF Quiet, WaitWakes, state, probing, history, evidence
<1>13. \A w \in Waiters : WaitGivesUp(w) => Quiet
  BY DEF Quiet, WaitGivesUp, state, probing, history, evidence
<1>14. UNCHANGED vars => Quiet
  BY DEF Quiet, vars, state, probing, clients, history, evidence
<1> QED
  BY <1>1, <1>2, <1>3, <1>4, <1>5, <1>6, <1>7, <1>8, <1>9, <1>10, <1>11, <1>12,
     <1>13, <1>14
     DEF Next, Loop

\* The probe backoff is zero while healthy and within its bounds while not.
PaceInv ==
  probeWait # 0 => unhealthy /\ cfg.recheck <= probeWait /\ probeWait <= cfg.maxRecheck

\* The next backoff is within its bounds, and no shorter.
LEMMA NextProbeWaitGrows ==
  ASSUME cfg \in ConfigType, NEW w \in Nat, w <= cfg.maxRecheck,
         w # 0 => cfg.recheck <= w
  PROVE  /\ w <= NextProbeWait(w)
         /\ cfg.recheck <= NextProbeWait(w) /\ NextProbeWait(w) <= cfg.maxRecheck
BY ConfigFields DEF NextProbeWait

\* recordProbe and Report keep the backoff within its bounds and, while the gate
\* stays unhealthy, never shorten it.
LEMMA StepPace ==
  ASSUME TypeOK, LoopStarted, PaceInv, [Next]_vars
  PROVE  PaceInv' /\ (unhealthy /\ unhealthy' => probeWait <= probeWait')
<1> USE DEF PaceInv
<1>t. /\ cfg \in ConfigType /\ probeWait \in Nat /\ cfg.recheck \in Nat /\ cfg.maxRecheck \in Nat
      /\ cfg.recheck <= cfg.maxRecheck /\ unhealthy \in BOOLEAN
  BY ConfigFields DEF TypeOK, FlagsOK
<1>1. CASE RecordOK
  BY <1>t, <1>1 DEF RecordOK, Recover
<1>2. CASE RecordFailure
  <2>1. /\ cfg' = cfg
        /\ \/ ~unhealthy /\ unhealthy' /\ probeWait' = NextProbeWait(0)
           \/ unhealthy' = unhealthy /\ unhealthy /\ probeWait' = NextProbeWait(probeWait)
           \/ unhealthy' = unhealthy /\ ~unhealthy /\ probeWait' = probeWait
    BY <1>2 DEF RecordFailure, Trip
  <2>2. 0 \in Nat /\ 0 <= cfg.maxRecheck
    BY <1>t
  <2>3. cfg.recheck <= NextProbeWait(0) /\ NextProbeWait(0) <= cfg.maxRecheck
    BY <1>t, <2>2, NextProbeWaitGrows
  <2>4. /\ probeWait <= NextProbeWait(probeWait)
        /\ cfg.recheck <= NextProbeWait(probeWait)
        /\ NextProbeWait(probeWait) <= cfg.maxRecheck
    BY <1>t, <2>2, NextProbeWaitGrows
  <2> QED
    BY <1>t, <2>1, <2>3, <2>4
<1>3. ASSUME NEW r \in Reporters, ReportFailure(r)
      PROVE  PaceInv' /\ (unhealthy /\ unhealthy' => probeWait <= probeWait')
  BY <1>t, <1>3 DEF ReportFailure, Trip
<1>4. CASE UNCHANGED <<cfg, unhealthy, probeWait>>
  BY <1>t, <1>4
<1>5. ProbeBegins \/ CheckReturns \/ ProbeAccepted \/ LoopEmits => UNCHANGED <<cfg, unhealthy, probeWait>>
  BY DEF ProbeBegins, CheckReturns, ProbeAccepted, LoopEmits, state
<1>6. \A r \in Reporters : ReportOK(r) \/ ReportEmits(r) => UNCHANGED <<cfg, unhealthy, probeWait>>
  BY DEF ReportOK, ReportEmits, state
<1> QED
  BY <1>1, <1>2, <1>3, <1>4, <1>5, <1>6, StepKinds DEF Quiet

\* The backoff stays within its bounds.
LEMMA PaceInvariant == Spec => []PaceInv
<1>1. Init => PaceInv
  BY DEF Init, PaceInv
<1>2. TypeOK /\ LoopStarted /\ PaceInv /\ [Next]_vars => PaceInv'
  BY StepPace
<1> QED
  BY <1>1, <1>2, TypeCorrect, LoopStartedInvariant, PTL DEF Spec

\* As long as the loop rests without a kick pending, its timer agrees with the state.
TimerInv == loop = "select" /\ kick = 0 => timer = 0 \/ timer \in NextInterval

\* A trip leaves a kick; whatever else nextInterval reads changes outside the rest only.
LEMMA StepTimer ==
  ASSUME TypeOK, TimerInv, [Next]_vars
  PROVE  TimerInv'
<1>1. CASE loop' # "select"
  BY <1>1 DEF TimerInv
<1>2. CASE UNCHANGED <<loop, kick, timer, cfg, unhealthy, probeOKs, probeFails, probeWait>>
  BY <1>2 DEF TimerInv, NextInterval
<1>3. CASE Start
  BY <1>3 DEF Start, TimerInv
<1>4. CASE LoopRests
  BY <1>4 DEF LoopRests, TimerInv, NextInterval, state
<1>5. ASSUME NEW r \in Reporters, ReportFailure(r) PROVE TimerInv'
  <2>1. \/ kick' = 1
        \/ UNCHANGED <<loop, kick, timer, cfg, unhealthy, probeOKs, probeFails, probeWait>>
    BY <1>5 DEF ReportFailure, Kick
  <2> QED
    BY <1>2, <2>1 DEF TimerInv
<1>6. \/ LoopExits \/ ProbeBegins \/ CheckReturns \/ ProbeDropped \/ ProbeAccepted
      \/ RecordOK \/ RecordFailure \/ LoopEmits
      => loop' # "select"
  BY DEF LoopExits, ProbeBegins, CheckReturns, ProbeDropped, ProbeAccepted, RecordOK,
         RecordFailure, LoopEmits
<1>7. \/ ParentDone \/ HoldElapses \/ DownstreamChanges \/ UNCHANGED vars
      \/ \E s \in Stoppers : Stop(s) \/ StopReturns(s)
      \/ \E r \in Reporters : ReportOK(r) \/ ReportEmits(r)
      \/ \E w \in Waiters : WaitBegins(w) \/ WaitReads(w) \/ WaitWakes(w) \/ WaitGivesUp(w)
      => UNCHANGED <<loop, kick, timer, cfg, unhealthy, probeOKs, probeFails, probeWait>>
  BY DEF ParentDone, HoldElapses, DownstreamChanges, vars, Stop, StopReturns, ReportOK,
         ReportEmits, WaitBegins, WaitReads, WaitWakes, WaitGivesUp, state, probing
<1> QED
  BY <1>1, <1>2, <1>3, <1>4, <1>5, <1>6, <1>7 DEF Next, Loop

\* The timer agrees with the state.
LEMMA TimerInvariant == Spec => []TimerInv
<1>1. Init => TimerInv
  BY DEF Init, TimerInv
<1>2. TypeOK /\ TimerInv /\ [Next]_vars => TimerInv'
  BY StepTimer
<1> QED
  BY <1>1, <1>2, TypeCorrect, PTL DEF Spec

\* The loop never spins, never rests for more than a tenth beyond what is configured,
\* and is never left resting on a reading of the state that a trip has overtaken,
\* for every configuration NewHealth makes of what it is given.
THEOREM PacingSafety == Spec => []ProbePacing
<1>1. TypeOK /\ PaceInv /\ TimerInv => ProbePacing
  <2> SUFFICES ASSUME TypeOK, PaceInv, TimerInv PROVE ProbePacing
    OBVIOUS
  <2>1. /\ probeWait \in Nat /\ probeOKs \in Nat /\ probeFails \in Nat
        /\ cfg.recheck \in Nat /\ cfg.maxRecheck \in Nat /\ cfg.interval \in Nat
        /\ cfg.recheck <= cfg.maxRecheck /\ unhealthy \in BOOLEAN
    BY ConfigFields DEF TypeOK, FlagsOK
  <2>2. ASSUME unhealthy PROVE NextInterval \subseteq Spread(cfg.recheck, cfg.maxRecheck)
    <3>1. PICK d \in Nat : NextInterval = Spread(d, d) /\ cfg.recheck <= d /\ d <= cfg.maxRecheck
      BY <2>1, <2>2 DEF PaceInv, NextInterval
    <3> QED
      BY <2>1, <3>1, SpreadWithin
  <2>3. ~unhealthy => NextInterval \in {Spread(cfg.recheck, cfg.recheck),
                                       Spread(cfg.interval, cfg.interval)}
    BY <2>1 DEF NextInterval
  <2> QED
    BY <2>2, <2>3 DEF ProbePacing, TimerInv
<1> QED
  BY <1>1, TypeCorrect, PaceInvariant, TimerInvariant, PTL

\* A probe that leaves the gate unhealthy never shortens the backoff.
THEOREM BackoffGrows == Spec => ProbeBackoffGrows
<1>1. TypeOK /\ LoopStarted /\ PaceInv /\ [Next]_vars
        => [unhealthy /\ unhealthy' => probeWait <= probeWait']_vars
  BY StepPace
<1> QED
  BY <1>1, TypeCorrect, LoopStartedInvariant, PaceInvariant, PTL DEF Spec, ProbeBackoffGrows

-----------------------------------------------------------------------------
(* The gate opens and shuts on evidence.                                     *)

\* A probe that has returned has a verdict, and the counters that trip the gate
\* never run ahead of what really failed.
EvidenceInv ==
  /\ loop \in {"returned", "record"} => verdict # "none"
  /\ probeFails <= badProbes
  /\ callFails <= badCalls

\* recordProbe found the hold-down over only if it still is when it takes the lock;
\* of the OK probes it counts, at most one began before the trip, and none has been
\* counted yet while that one is under way.
RecoveryInv ==
  /\ mature => unhealthy /\ ~hold /\ loop = "record"
  /\ probeOKs <= cfg.successThreshold
  /\ unhealthy => probeOKs <= freshOKs + 1
  /\ unhealthy /\ stale /\ loop \in {"check", "returned", "record"} => probeOKs <= freshOKs

\* Counting up to a cap is monotone.
LEMMA CountBounds ==
  ASSUME NEW x \in Nat, NEW y \in Nat, NEW cap \in Nat
  PROVE  /\ Count(x, cap) \in Nat /\ x <= Count(x, cap) /\ Count(x, cap) <= x + 1
         /\ x <= y => Count(x, cap) <= Count(y, cap)
         /\ x <= cap => Count(x, cap) <= cap
         /\ x <= cap /\ x <= y + 1 => Count(x, cap) <= Count(y, cap) + 1
BY DEF Count

\* Every step keeps the evidence.
LEMMA StepEvidence ==
  ASSUME TypeOK, LoopStarted, ShutdownProbesIgnored, EvidenceInv, [Next]_vars
  PROVE  EvidenceInv'
<1> USE DEF EvidenceInv
<1>t. /\ probeFails \in Nat /\ badProbes \in Nat /\ callFails \in Nat /\ badCalls \in Nat
      /\ cfg.failureThreshold \in Nat /\ verdict \in {"none", "ok", "fail", "aborted"}
  BY ConfigFields DEF TypeOK
<1>1. CASE RecordOK
  BY <1>t, <1>1 DEF RecordOK, Recover
<1>2. CASE RecordFailure
  <2>1. verdict = "fail"
    BY <1>t, <1>2 DEF RecordFailure, ShutdownProbesIgnored
  <2>2. /\ probeFails' = Count(probeFails, cfg.failureThreshold)
        /\ badProbes' = Count(badProbes, cfg.failureThreshold) /\ loop' = "emit"
        /\ \/ callFails' = 0 /\ badCalls' = 0
           \/ callFails' = callFails /\ badCalls' = badCalls
    BY <1>2, <2>1 DEF RecordFailure, Trip
  <2>3. Count(probeFails, cfg.failureThreshold) <= Count(badProbes, cfg.failureThreshold)
    BY <1>t, CountBounds
  <2> QED
    BY <1>t, <2>2, <2>3
<1>3. ASSUME NEW r \in Reporters, ReportFailure(r) PROVE EvidenceInv'
  BY <1>t, <1>3 DEF ReportFailure, Trip
<1>4. ASSUME NEW r \in Reporters, ReportOK(r) PROVE EvidenceInv'
  BY <1>t, <1>4 DEF ReportOK, probing
<1>5. ASSUME NEW r \in Reporters, ReportEmits(r) PROVE EvidenceInv'
  BY <1>t, <1>5 DEF ReportEmits, state, probing, history, evidence
<1>6. CASE ProbeBegins
  BY <1>6 DEF ProbeBegins, state, evidence
<1>7. CASE CheckReturns
  BY <1>7 DEF CheckReturns, state, history, evidence
<1>8. CASE ProbeAccepted
  BY <1>8 DEF ProbeAccepted, state, history, evidence
<1>9. CASE LoopEmits
  BY <1>9 DEF LoopEmits, state, history, evidence
<1>10. CASE Quiet
  BY <1>10 DEF Quiet
<1> QED
  BY <1>1, <1>2, <1>3, <1>4, <1>5, <1>6, <1>7, <1>8, <1>9, <1>10, StepKinds

\* Every step keeps the count of the probes that speak for recovery.
LEMMA StepRecovery ==
  ASSUME TypeOK, LoopStarted, RecoveryInv, [Next]_vars
  PROVE  RecoveryInv'
<1> USE DEF RecoveryInv
<1>t. /\ probeOKs \in Nat /\ freshOKs \in Nat /\ cfg.successThreshold \in Nat
      /\ stale \in BOOLEAN /\ unhealthy \in BOOLEAN /\ mature \in BOOLEAN /\ hold \in BOOLEAN
  BY ConfigFields DEF TypeOK, FlagsOK
<1>1. CASE RecordOK
  <2> DEFINE cap == cfg.successThreshold
  <2>1. /\ loop = "record" /\ loop' = "emit" /\ mature' = FALSE /\ cfg' = cfg
        /\ freshOKs' = IF stale THEN freshOKs ELSE Count(freshOKs, cap)
        /\ \/ unhealthy' = FALSE /\ probeOKs' = 0
           \/ unhealthy' = unhealthy /\ probeOKs' = Count(probeOKs, cap)
    BY <1>1 DEF RecordOK, Recover
  <2>2. /\ Count(probeOKs, cap) <= cap /\ Count(probeOKs, cap) <= probeOKs + 1
        /\ Count(probeOKs, cap) \in Nat /\ Count(freshOKs, cap) \in Nat
        /\ probeOKs <= freshOKs + 1 => Count(probeOKs, cap) <= Count(freshOKs, cap) + 1
    BY <1>t, CountBounds
  <2>3. probeOKs' <= cfg'.successThreshold
    BY <1>t, <2>1, <2>2
  <2>4. ASSUME unhealthy' PROVE probeOKs' <= freshOKs' + 1
    <3>1. unhealthy /\ probeOKs' = Count(probeOKs, cap)
      BY <2>1, <2>4
    <3>2. probeOKs <= freshOKs + 1 /\ (stale => probeOKs <= freshOKs)
      BY <2>1, <3>1
    <3>3. CASE stale
      <4>1. freshOKs' = freshOKs
        BY <2>1, <3>3
      <4> QED
        BY <1>t, <2>2, <3>1, <3>2, <3>3, <4>1
    <3>4. CASE ~stale
      <4>1. freshOKs' = Count(freshOKs, cap)
        BY <2>1, <3>4
      <4> QED
        BY <1>t, <2>2, <3>1, <3>2, <4>1
    <3> QED
      BY <3>3, <3>4
  <2> QED
    BY <2>1, <2>3, <2>4
<1>2. CASE RecordFailure
  <2>1. /\ loop' = "emit" /\ mature' = FALSE /\ cfg' = cfg /\ probeOKs' = 0 /\ freshOKs' = 0
    BY <1>2 DEF RecordFailure, Trip
  <2> QED
    BY <1>t, <2>1
<1>3. ASSUME NEW r \in Reporters, ReportFailure(r) PROVE RecoveryInv'
  <2>1. CASE callFails + 1 >= cfg.passiveThreshold
    <3>1. mature' = FALSE /\ cfg' = cfg /\ probeOKs' = 0 /\ freshOKs' = 0
      BY <1>3, <2>1 DEF ReportFailure, Trip
    <3> QED
      BY <1>t, <3>1
  <2>2. CASE ~(callFails + 1 >= cfg.passiveThreshold)
    BY <1>t, <1>3, <2>2 DEF ReportFailure
  <2> QED
    BY <2>1, <2>2
<1>4. ASSUME NEW r \in Reporters, ReportOK(r) PROVE RecoveryInv'
  BY <1>4 DEF ReportOK, probing
<1>5. ASSUME NEW r \in Reporters, ReportEmits(r) PROVE RecoveryInv'
  BY <1>5 DEF ReportEmits, state, probing, history
<1>6. CASE ProbeBegins
  BY <1>6 DEF ProbeBegins, state
<1>7. CASE CheckReturns
  BY <1>7 DEF CheckReturns, state, history
<1>8. CASE ProbeAccepted
  BY <1>t, <1>8 DEF ProbeAccepted, state, history
<1>9. CASE LoopEmits
  BY <1>9 DEF LoopEmits, state, history
<1>10. CASE Quiet
  BY <1>t, <1>10 DEF Quiet
<1> QED
  BY <1>1, <1>2, <1>3, <1>4, <1>5, <1>6, <1>7, <1>8, <1>9, <1>10, StepKinds

\* In every state the counters are backed by evidence.
LEMMA EvidenceInvariant == Spec => [](EvidenceInv /\ RecoveryInv)
<1>1. Init => EvidenceInv /\ RecoveryInv
  <2> SUFFICES ASSUME Init PROVE EvidenceInv /\ RecoveryInv
    OBVIOUS
  <2>1. cfg.successThreshold \in Nat
    BY NewHealthRepairs, ConfigFields DEF Init
  <2> QED
    BY <2>1 DEF Init, EvidenceInv, RecoveryInv
<1>2. TypeOK /\ LoopStarted /\ ShutdownProbesIgnored /\ EvidenceInv /\ RecoveryInv /\ [Next]_vars
        => EvidenceInv' /\ RecoveryInv'
  BY StepEvidence, StepRecovery
<1> QED
  BY <1>1, <1>2, TypeCorrect, LoopStartedInvariant, LoopSafety, PTL DEF Spec

\* Only recordProbe opens the gate, with the hold-down over and on OK probes that
\* began since the trip, at most one excepted.
THEOREM RecoverySafety == Spec => RecoveryEarned
<1> DEFINE A == unhealthy /\ ~unhealthy' =>
                  RecordOK /\ ~hold /\ freshOKs' >= cfg.successThreshold - 1
<1>1. TypeOK /\ LoopStarted /\ RecoveryInv /\ [Next]_vars => A
  <2> SUFFICES ASSUME TypeOK, LoopStarted, RecoveryInv, [Next]_vars, unhealthy, ~unhealthy'
               PROVE  RecordOK /\ ~hold /\ freshOKs' >= cfg.successThreshold - 1
    OBVIOUS
  <2>1. RecordOK
    BY StepKinds DEF Quiet, RecordFailure, Trip, ProbeBegins, CheckReturns, ProbeAccepted,
       LoopEmits, ReportOK, ReportFailure, ReportEmits, state
  <2>2. mature /\ Count(probeOKs, cfg.successThreshold) >= cfg.successThreshold
    BY <2>1 DEF RecordOK
  <2>3. /\ probeOKs \in Nat /\ freshOKs \in Nat /\ cfg.successThreshold \in Nat
        /\ stale \in BOOLEAN
    BY ConfigFields DEF TypeOK, FlagsOK
  <2>4. freshOKs' = IF stale THEN freshOKs ELSE Count(freshOKs, cfg.successThreshold)
    BY <2>1 DEF RecordOK
  <2>5. CASE stale
    <3>1. probeOKs <= freshOKs
      BY <2>1, <2>5 DEF RecoveryInv, RecordOK
    <3> QED
      BY <2>1, <2>2, <2>3, <2>4, <2>5, <3>1 DEF RecoveryInv, Count
  <2>6. CASE ~stale
    <3>1. probeOKs <= freshOKs + 1
      BY DEF RecoveryInv
    <3> QED
      BY <2>1, <2>2, <2>3, <2>4, <2>6, <3>1 DEF RecoveryInv, Count
  <2> QED
    BY <2>3, <2>5, <2>6
<1>2. TypeOK /\ LoopStarted /\ RecoveryInv /\ [Next]_vars => [A]_vars
  BY <1>1
<1> QED
  BY <1>2, TypeCorrect, LoopStartedInvariant, EvidenceInvariant, PTL DEF Spec, RecoveryEarned

\* Only recordProbe and Report shut the gate, each on a streak of real failures.
THEOREM TripSafety == Spec => TripEarned
<1> DEFINE A == ~unhealthy /\ unhealthy' =>
                  \/ RecordFailure /\ badProbes' >= cfg.failureThreshold
                  \/ /\ \E r \in Reporters : ReportFailure(r)
                     /\ badCalls + 1 >= cfg.passiveThreshold
<1>1. TypeOK /\ LoopStarted /\ ShutdownProbesIgnored /\ EvidenceInv /\ [Next]_vars => A
  <2> SUFFICES ASSUME TypeOK, LoopStarted, ShutdownProbesIgnored, EvidenceInv, [Next]_vars,
                      ~unhealthy, unhealthy'
               PROVE  \/ RecordFailure /\ badProbes' >= cfg.failureThreshold
                      \/ /\ \E r \in Reporters : ReportFailure(r)
                         /\ badCalls + 1 >= cfg.passiveThreshold
    OBVIOUS
  <2>t. /\ probeFails \in Nat /\ badProbes \in Nat /\ callFails \in Nat /\ badCalls \in Nat
        /\ cfg.failureThreshold \in Nat /\ cfg.passiveThreshold \in Int
        /\ verdict \in {"none", "ok", "fail", "aborted"}
    BY ConfigFields DEF TypeOK
  <2>1. RecordFailure \/ \E r \in Reporters : ReportFailure(r)
    BY StepKinds DEF Quiet, RecordOK, Recover, ProbeBegins, CheckReturns, ProbeAccepted,
       LoopEmits, ReportOK, ReportEmits, state
  <2>2. CASE RecordFailure
    <3>1. verdict = "fail"
      BY <2>t, <2>2 DEF RecordFailure, ShutdownProbesIgnored, EvidenceInv
    <3>2. /\ Count(probeFails, cfg.failureThreshold) >= cfg.failureThreshold
          /\ badProbes' = Count(badProbes, cfg.failureThreshold)
      BY <2>2, <3>1 DEF RecordFailure
    <3> QED
      BY <2>t, <2>2, <3>2 DEF EvidenceInv, Count
  <2>3. ASSUME NEW r \in Reporters, ReportFailure(r)
        PROVE  badCalls + 1 >= cfg.passiveThreshold
    <3>1. callFails + 1 >= cfg.passiveThreshold
      BY <2>3 DEF ReportFailure
    <3> QED
      BY <2>t, <3>1 DEF EvidenceInv
  <2> QED
    BY <2>1, <2>2, <2>3
<1>2. TypeOK /\ LoopStarted /\ ShutdownProbesIgnored /\ EvidenceInv /\ [Next]_vars => [A]_vars
  BY <1>1
<1> QED
  BY <1>2, TypeCorrect, LoopStartedInvariant, LoopSafety, EvidenceInvariant, PTL
     DEF Spec, TripEarned

-----------------------------------------------------------------------------
(* Every change of state is announced once.  The loop has an event to emit   *)
(* only on its way to emit it, so recordProbe never overwrites one.          *)

EventInv ==
  /\ loop # "emit" => change = 0
  /\ IsFiniteSet(PendingEvents)
  /\ TransitionsAnnounced

\* A report that trips the gate owes one event more, and one that emits, one less.
LEMMA PendingMoves ==
  ASSUME TypeOK, IsFiniteSet(PendingEvents), NEW r \in Reporters
  PROVE  /\ Cardinality(PendingEvents) \in Nat
         /\ reporter[r] = 0 /\ reporter' = [reporter EXCEPT ![r] = 1] =>
              IsFiniteSet(PendingEvents') /\ Cardinality(PendingEvents') = Cardinality(PendingEvents) + 1
         /\ reporter[r] = 1 /\ reporter' = [reporter EXCEPT ![r] = 0] =>
              IsFiniteSet(PendingEvents') /\ Cardinality(PendingEvents') = Cardinality(PendingEvents) - 1
<1>1. Cardinality(PendingEvents) \in Nat
  BY FS_CardinalityType
<1>2. ASSUME reporter[r] = 0, reporter' = [reporter EXCEPT ![r] = 1]
      PROVE  IsFiniteSet(PendingEvents') /\ Cardinality(PendingEvents') = Cardinality(PendingEvents) + 1
  <2>1. PendingEvents' = PendingEvents \cup {r} /\ r \notin PendingEvents
    BY <1>2 DEF PendingEvents, TypeOK
  <2> QED
    BY <2>1, FS_AddElement
<1>3. ASSUME reporter[r] = 1, reporter' = [reporter EXCEPT ![r] = 0]
      PROVE  IsFiniteSet(PendingEvents') /\ Cardinality(PendingEvents') = Cardinality(PendingEvents) - 1
  <2>1. PendingEvents' = PendingEvents \ {r} /\ r \in PendingEvents
    BY <1>3 DEF PendingEvents, TypeOK
  <2> QED
    BY <2>1, FS_RemoveElement
<1> QED
  BY <1>1, <1>2, <1>3

\* A step that leaves the reports alone keeps the events they owe.
LEMMA PendingStays ==
  ASSUME IsFiniteSet(PendingEvents), UNCHANGED reporter
  PROVE  /\ IsFiniteSet(PendingEvents') /\ Cardinality(PendingEvents') = Cardinality(PendingEvents)
         /\ Cardinality(PendingEvents) \in Nat
BY FS_CardinalityType DEF PendingEvents

\* The events observers have seen and those still owed add up to the present state,
\* for any number of goroutines in Report.
THEOREM EventSafety == Spec => []TransitionsAnnounced
<1>1. Init => EventInv
  <2> SUFFICES ASSUME Init PROVE EventInv
    OBVIOUS
  <2>1. PendingEvents = {}
    BY DEF Init, PendingEvents
  <2>2. IsFiniteSet(PendingEvents) /\ Cardinality(PendingEvents) = 0
    BY <2>1, FS_EmptySet
  <2> QED
    BY <2>2 DEF Init, EventInv, TransitionsAnnounced
<1>2. TypeOK /\ LoopStarted /\ EventInv /\ [Next]_vars => EventInv'
  <2> SUFFICES ASSUME TypeOK, LoopStarted, EventInv, [Next]_vars PROVE EventInv'
    OBVIOUS
  <2> DEFINE n == Cardinality(PendingEvents)
  <2>t. net \in Int /\ change \in {-1, 0, 1} /\ unhealthy \in BOOLEAN
    BY DEF TypeOK, FlagsOK
  <2>i. /\ loop # "emit" => change = 0
        /\ IsFiniteSet(PendingEvents) /\ net + change + n = IF unhealthy THEN 1 ELSE 0
    BY DEF EventInv, TransitionsAnnounced
  <2>p. UNCHANGED reporter => IsFiniteSet(PendingEvents') /\ n' = n /\ n \in Nat
    BY <2>i, PendingStays
  <2>g. ASSUME loop' # "emit" => change' = 0, IsFiniteSet(PendingEvents'),
               net' + change' + n' = IF unhealthy' THEN 1 ELSE 0
        PROVE  EventInv'
    BY <2>g DEF EventInv, TransitionsAnnounced
  <2> HIDE DEF n
  <2>1. CASE RecordOK
    <3>1. /\ loop = "record" /\ loop' = "emit" /\ UNCHANGED reporter /\ net' = net
          /\ \/ unhealthy /\ ~unhealthy' /\ change' = -1
             \/ unhealthy' = unhealthy /\ change' = 0
      BY <2>1 DEF RecordOK, Recover, clients
    <3> QED
      BY <2>t, <2>i, <2>p, <2>g, <3>1
  <2>2. CASE RecordFailure
    <3>1. /\ loop = "record" /\ loop' = "emit" /\ UNCHANGED reporter /\ net' = net
          /\ \/ ~unhealthy /\ unhealthy' /\ change' = 1
             \/ unhealthy' = unhealthy /\ change' = 0
      BY <2>2 DEF RecordFailure, Trip, clients
    <3> QED
      BY <2>t, <2>i, <2>p, <2>g, <3>1
  <2>3. CASE LoopEmits
    <3>1. /\ net' = net + change /\ change' = 0 /\ UNCHANGED <<reporter, unhealthy>>
      BY <2>3 DEF LoopEmits, clients, state
    <3> QED
      BY <2>t, <2>i, <2>p, <2>g, <3>1
  <2>4. ASSUME NEW r \in Reporters, ReportFailure(r) PROVE EventInv'
    <3>1. reporter[r] = 0 /\ ~unhealthy /\ UNCHANGED <<net, change, loop>>
      BY <2>4 DEF ReportFailure
    <3>2. CASE callFails + 1 >= cfg.passiveThreshold
      <4>1. unhealthy' /\ reporter' = [reporter EXCEPT ![r] = 1]
        BY <2>4, <3>2 DEF ReportFailure, Trip
      <4>2. IsFiniteSet(PendingEvents') /\ n' = n + 1 /\ n \in Nat
        BY <2>i, <3>1, <4>1, PendingMoves DEF n
      <4> QED
        BY <2>t, <2>i, <2>g, <3>1, <4>1, <4>2
    <3>3. CASE ~(callFails + 1 >= cfg.passiveThreshold)
      <4>1. UNCHANGED <<unhealthy, reporter>>
        BY <2>4, <3>3 DEF ReportFailure
      <4> QED
        BY <2>t, <2>i, <2>p, <2>g, <3>1, <4>1
    <3> QED
      BY <3>2, <3>3
  <2>5. ASSUME NEW r \in Reporters, ReportEmits(r) PROVE EventInv'
    <3>1. /\ reporter[r] = 1 /\ reporter' = [reporter EXCEPT ![r] = 0]
          /\ net' = net + 1 /\ UNCHANGED <<unhealthy, change, loop>>
      BY <2>5 DEF ReportEmits, state, probing
    <3>2. IsFiniteSet(PendingEvents') /\ n' = n - 1 /\ n \in Nat
      BY <2>i, <3>1, PendingMoves DEF n
    <3> QED
      BY <2>t, <2>i, <2>g, <3>1, <3>2
  <2>6. ASSUME UNCHANGED <<net, change, unhealthy, reporter>>,
               loop # "emit" \/ loop' = loop
        PROVE  EventInv'
    BY <2>t, <2>i, <2>p, <2>g, <2>6
  <2>7. CASE ProbeBegins
    BY <2>6, <2>7 DEF ProbeBegins, state, clients
  <2>8. CASE CheckReturns
    BY <2>6, <2>8 DEF CheckReturns, state, clients
  <2>9. CASE ProbeAccepted
    BY <2>6, <2>9 DEF ProbeAccepted, state, clients
  <2>10. ASSUME NEW r \in Reporters, ReportOK(r) PROVE EventInv'
    BY <2>6, <2>10 DEF ReportOK, probing, clients
  <2>11. CASE Quiet
    BY <2>6, <2>11 DEF Quiet
  <2> QED
    BY <2>1, <2>2, <2>3, <2>4, <2>5, <2>7, <2>8, <2>9, <2>10, <2>11, StepKinds
<1>3. EventInv => TransitionsAnnounced
  BY DEF EventInv
<1> QED
  BY <1>1, <1>2, <1>3, TypeCorrect, LoopStartedInvariant, PTL DEF Spec
=============================================================================
