------------------------------- MODULE MCHosts -------------------------------
(***************************************************************************)
(* A small instance of Hosts: two callers and two hosts, without failover   *)
(* and failing over from the second host to the first.                      *)
(***************************************************************************)
EXTENDS Hosts, TLC

CONSTANTS a, b, c1, c2

MCRoutes == {<<>>, <<b, a>>}
MCReplies ==
  {[status |-> 204, err |-> {}], [status |-> 500, err |-> {}], [status |-> 0, err |-> {"dial"}]}
===============================================================================
