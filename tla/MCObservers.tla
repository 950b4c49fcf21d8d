----------------------------- MODULE MCObservers -----------------------------
(***************************************************************************)
(* Small instances of Observers.  A user's observer that may panic sits      *)
(* between promobs and the rest, and a nil observer is among the arguments.  *)
(* One call with hooks and a retry beside a probing health loop, and two     *)
(* concurrent calls.                                                         *)
(***************************************************************************)
EXTENDS Observers, TLC

CONSTANTS c1, c2

MCInstalled == << <<"prom", "nil", "user">>, <<"recorder", "otel", "slog">> >>

MCSetups ==
  { [limits |-> c1 :> 2, hooked |-> TRUE, probes |-> 1],
    [limits |-> c1 :> 2 @@ c2 :> 1, hooked |-> FALSE, probes |-> 0] }
===============================================================================
