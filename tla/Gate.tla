--------------------------------- MODULE Gate ---------------------------------
(***************************************************************************)
(* What a health gate promises the engine (HealthGate and HealthWaiter of   *)
(* health.go), without goroutines, channels or probe bookkeeping: failures  *)
(* reported in a row shut it, nothing but a running probe loop opens it     *)
(* again, and WaitHealthy answers nil only at a moment when it is open.     *)
(* Health implements this module; Hosts keeps one such gate per host.       *)
(***************************************************************************)
EXTENDS GateRules

CONSTANT Waiters  \* goroutines that may call WaitHealthy

VARIABLES
  gate,    \* a GateType record
  answer   \* of each waiter: none or nil ("free"), none yet, or ctx.Err()

Init ==
  /\ gate.threshold \in Int
  /\ gate = NewGate(gate.threshold)
  /\ answer = [w \in Waiters |-> "free"]

Report ==
  /\ \E failed \in BOOLEAN : gate' = Reported(gate, failed)
  /\ UNCHANGED answer

\* Probes decide: enough failures shut the gate, enough successes open it.
ProbeDecides ==
  /\ gate.probing = "on"
  /\ gate' = IF gate.shut THEN Opened(gate) ELSE Shut(gate)
  /\ UNCHANGED answer

\* Start; and the end of the probe loop, after which a shut gate stays shut.
ProbingChanges ==
  /\ \/ gate.probing = "off" /\ gate' = [gate EXCEPT !.probing = "on"]
     \/ gate.probing = "on" /\ gate' = [gate EXCEPT !.probing = "over"]
  /\ UNCHANGED answer

Answer(w, from, to) ==
  /\ answer[w] \in from
  /\ answer' = [answer EXCEPT ![w] = to]
  /\ UNCHANGED gate

Ask(w) == Answer(w, {"free", "expired"}, "waiting")
AnswerHealthy(w) == ~gate.shut /\ Answer(w, {"waiting"}, "free")
AnswerExpired(w) == Answer(w, {"waiting"}, "expired")

Next ==
  \/ Report \/ ProbeDecides \/ ProbingChanges
  \/ \E w \in Waiters : Ask(w) \/ AnswerHealthy(w) \/ AnswerExpired(w)

Spec == Init /\ [][Next]_<<gate, answer>>
===============================================================================
