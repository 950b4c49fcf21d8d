------------------------------- MODULE MCHealth -------------------------------
(***************************************************************************)
(* Small instances of Health.  Settings cover both ways to trip, thresholds *)
(* of one and two, and configurations NewHealth has to repair.              *)
(***************************************************************************)
EXTENDS Health, TLC

Base ==
  [interval |-> 20, recheck |-> 10, maxRecheck |-> 15, failureThreshold |-> 2,
   successThreshold |-> 2, passiveThreshold |-> 2, holdDown |-> FALSE]

GateSettings ==
  { Base,
    [Base EXCEPT !.passiveThreshold = 1, !.failureThreshold = 1, !.holdDown = TRUE,
                 !.maxRecheck = 25],
    [Base EXCEPT !.passiveThreshold = 0, !.recheck = 16, !.interval = 0, !.successThreshold = 1] }

\* Short periods, whose jitter is nothing: liveness does not depend on the delays.
Brisk == [Base EXCEPT !.interval = 4, !.recheck = 2, !.maxRecheck = 3]
LiveSettings ==
  { Brisk,
    [Brisk EXCEPT !.passiveThreshold = 1, !.failureThreshold = 1, !.holdDown = TRUE] }

CONSTANTS w1, w2, r1, r2, h1, h2, h3
Interchangeable ==
  Permutations({w1, w2}) \cup Permutations({r1, r2}) \cup Permutations({h1, h2, h3})
===============================================================================
