------------------------------- MODULE GateRules -------------------------------
(***************************************************************************)
(* How one health gate changes: its state as a record, and what a report    *)
(* or a decision of the probe loop makes of it.  Gate gives these rules to  *)
(* one gate and the goroutines that wait for it, Hosts to a gate per host.  *)
(***************************************************************************)
EXTENDS Integers

GateType ==
  [shut : BOOLEAN, fails : Nat, threshold : Int, probing : {"off", "on", "over"}]

\* An open gate that is not probed yet.
NewGate(threshold) ==
  [shut |-> FALSE, fails |-> 0, threshold |-> threshold, probing |-> "off"]

Turned(g, shut) ==
  [shut |-> shut, fails |-> 0, threshold |-> g.threshold, probing |-> g.probing]
Shut(g) == Turned(g, TRUE)
Opened(g) == Turned(g, FALSE)

\* Report: a shut gate, or one without a passive threshold, ignores it.
Reported(g, failed) ==
  CASE g.threshold <= 0 \/ g.shut -> g
    [] g.threshold > 0 /\ ~g.shut /\ ~failed -> [g EXCEPT !.fails = 0]
    [] OTHER -> IF g.fails + 1 >= g.threshold THEN Shut(g) ELSE [g EXCEPT !.fails = @ + 1]
================================================================================
