-------------------------------- MODULE Hosts --------------------------------
(***************************************************************************)
(* HealthByHost of health.go with the transports that use it: a map from    *)
(* host to gate behind one mutex, filled by the user's newGate while the    *)
(* mutex is held, and calls that choose their gate once, from the original  *)
(* request, report every attempt to it, and may be sent to other hosts by   *)
(* FailoverHosts of hooks.go.                                               *)
(*                                                                          *)
(* A gate follows GateRules, which Health is shown to implement (Gate).  A  *)
(* probe and the decision it leads to are one step here; the policy is to   *)
(* fail fast.  Transport has the waiting policies, Health stale probes.     *)
(***************************************************************************)
EXTENDS GateRules, Outcomes, Sequences, FiniteSets

CONSTANTS
  HostNames,   \* the hosts requests are made to
  Callers,     \* goroutines that make one call after the other
  Routes,      \* what FailoverHosts may be given; <<>> when it is not installed
  Replies,     \* what a host may answer, to calls and to probes
  MaxAttempts, \* WithMaxAttempts
  Threshold,   \* PassiveThreshold of the gates newGate makes
  Nobody       \* the mutex is free

\* In the map: no entry, and an entry for a host newGate does not want gated.
Absent == -1
NilGate == 0

ASSUME HostsAssumption ==
  /\ Nobody \notin Callers
  /\ MaxAttempts \in Nat \ {0}
  /\ Threshold \in Int
  /\ \A f \in Routes : f \in Seq(HostNames)

VARIABLES
  route,    \* the hosts FailoverHosts was built with
  holder,   \* who holds the mutex
  table,    \* the map from host to gate
  gates,    \* the gates newGate has made, with the hosts they are held against
  caller,   \* the call each caller is making
  answers   \* what each host answers at present (external)

vars == <<route, holder, table, gates, caller, answers>>

NewCall(h) == [at |-> "select", host |-> h, gate |-> NilGate, n |-> 1]

Init ==
  /\ route \in Routes
  /\ holder = Nobody
  /\ table = [h \in HostNames |-> Absent]
  /\ gates = <<>>
  /\ \E h \in HostNames : caller = [c \in Callers |-> [NewCall(h) EXCEPT !.at = "done"]]
  /\ answers \in [HostNames -> Replies]

Goto(c, label) == caller' = [caller EXCEPT ![c].at = label]

-----------------------------------------------------------------------------
(* The gate selector.                                                       *)

\* A new call asks for the gate of its original request.
Enter(c) ==
  /\ caller[c].at = "done"
  /\ \E h \in HostNames : caller' = [caller EXCEPT ![c] = NewCall(h)]
  /\ UNCHANGED <<route, holder, table, gates, answers>>

Lock(c) ==
  /\ caller[c].at = "select"
  /\ holder = Nobody
  /\ holder' = c
  /\ Goto(c, "locked")
  /\ UNCHANGED <<route, table, gates, answers>>

\* r.URL.Host
Key(c) == caller[c].host

\* The selector returns gate g and its deferred Unlock runs.
Select(c, g) ==
  /\ caller' = [caller EXCEPT ![c].gate = g, ![c].at = "start"]
  /\ holder' = Nobody

\* Mutated form: newGate is called without the mutex.
LookUpUnlocked(c) ==
  /\ caller[c].at = "locked"
  /\ IF table[Key(c)] # Absent
     THEN Select(c, table[Key(c)])
     ELSE Goto(c, "create") /\ holder' = Nobody
  /\ UNCHANGED <<route, table, gates, answers>>

LookUp(c) ==
  /\ caller[c].at = "locked"
  /\ IF table[Key(c)] # Absent
     THEN Select(c, table[Key(c)])
     ELSE Goto(c, "create") /\ UNCHANGED holder
  /\ UNCHANGED <<route, table, gates, answers>>

\* newGate makes a gate and starts it, or returns nil, which is remembered too.
CreateGate(c) ==
  /\ caller[c].at = "create"
  /\ \/ /\ gates' = Append(gates, [host |-> Key(c), blame |-> {},
                           state |-> [NewGate(Threshold) EXCEPT !.probing = "on"]])
        /\ table' = [table EXCEPT ![Key(c)] = Len(gates) + 1]
        /\ Select(c, Len(gates) + 1)
     \/ /\ table' = [table EXCEPT ![Key(c)] = NilGate]
        /\ Select(c, NilGate)
        /\ UNCHANGED gates
  /\ UNCHANGED <<route, answers>>

\* Mutated form: the mutex is not released by a deferred call.
CreatePanicsLocked(c) ==
  /\ caller[c].at = "create"
  /\ Goto(c, "done")
  /\ UNCHANGED <<route, holder, table, gates, answers>>

\* newGate panics: the call ends, nothing is stored, the deferred Unlock runs.
CreatePanics(c) ==
  /\ caller[c].at = "create"
  /\ Goto(c, "done")
  /\ holder' = Nobody
  /\ UNCHANGED <<route, table, gates, answers>>

-----------------------------------------------------------------------------
(* The call, as far as its gate sees it.                                    *)

\* Mutated form: all calls keep their gate in one variable.
GateOfLast(c) == Len(gates)

\* The local variable gate of do().
GateOf(c) == caller[c].gate

Open(c) == GateOf(c) # NilGate => ~gates[GateOf(c)].state.shut

StartGate(c) ==
  /\ caller[c].at = "start"
  /\ Goto(c, IF Open(c) THEN "send" ELSE "done")
  /\ UNCHANGED <<route, holder, table, gates, answers>>

\* FailoverHosts: where attempt n of the call goes.
Target(c) ==
  IF route = <<>> THEN caller[c].host ELSE route[((caller[c].n - 1) % Len(route)) + 1]

\* The round trip and Report, to the gate chosen at the start; then retry or end.
Attempt(c) ==
  LET reply == answers[Target(c)]
      failed == DefaultIsFailure(reply)
      again == DefaultClassify(reply) \in Retryable /\ caller[c].n < MaxAttempts IN
  /\ caller[c].at = "send"
  /\ IF Open(c) /\ GateOf(c) # NilGate
     THEN gates' = [gates EXCEPT ![GateOf(c)].state = Reported(@, failed),
                                 ![GateOf(c)].blame =
                                    IF failed THEN @ \cup {Target(c)} ELSE {}]
     ELSE UNCHANGED gates
  /\ Goto(c, IF again THEN "pause" ELSE "done")
  /\ UNCHANGED <<route, holder, table, answers>>

\* pause, with a gate that is not waited for.
Pause(c) ==
  /\ caller[c].at = "pause"
  /\ caller' = [caller EXCEPT ![c].at = IF Open(c) THEN "send" ELSE "done",
                              ![c].n = IF Open(c) THEN @ + 1 ELSE @]
  /\ UNCHANGED <<route, holder, table, gates, answers>>

-----------------------------------------------------------------------------
(* Probes and the hosts.                                                    *)

\* Mutated form: only 200 counts as healthy.
HTTPCheckStrict(reply) == ~HasErr(reply) /\ reply.status = 200

\* HTTPCheck: did the probe get a 2xx answer?
HTTPCheck(reply) == ~HasErr(reply) /\ reply.status >= 200 /\ reply.status <= 299

\* The probe loop of gate i decides.
Probe(i) ==
  LET ok == HTTPCheck(answers[gates[i].host]) IN
  /\ ok <=> gates[i].state.shut
  /\ gates' = [gates EXCEPT ![i].state = IF ok THEN Opened(@) ELSE Shut(@),
                            ![i].blame = IF ok THEN {} ELSE {gates[i].host}]
  /\ UNCHANGED <<route, holder, table, caller, answers>>

HostChanges ==
  /\ \E h \in HostNames, r \in Replies : answers' = [answers EXCEPT ![h] = r]
  /\ UNCHANGED <<route, holder, table, gates, caller>>

Selector(c) == LookUp(c) \/ CreateGate(c) \/ CreatePanics(c)

Next ==
  \/ \E c \in Callers : Enter(c) \/ Lock(c) \/ Selector(c) \/ StartGate(c)
                          \/ Attempt(c) \/ Pause(c)
  \/ \E i \in DOMAIN gates : Probe(i)
  \/ HostChanges

\* A goroutine in the selector runs on and newGate returns; sync.Mutex hands itself
\* to a goroutine that has waited long enough; the loops of the gates keep probing.
Fairness ==
  /\ \A c \in Callers : WF_vars(Selector(c)) /\ SF_vars(Lock(c))
  /\ \A i \in 1 .. Cardinality(HostNames) : WF_vars(i \in DOMAIN gates /\ Probe(i))

Spec == Init /\ [][Next]_vars /\ Fairness

-----------------------------------------------------------------------------
(* Properties                                                               *)

\* However calls race for the first gate of a host, and whether newGate panics or
\* returns nil before, a host gets one gate, and every call to the host that has
\* passed the selector holds the one in the map.
OneGatePerHost ==
  /\ \A i, j \in DOMAIN gates : gates[i].host = gates[j].host => i = j
  /\ \A c \in Callers : caller[c].at \in {"start", "send", "pause"} =>
       caller[c].gate = table[caller[c].host]

\* The failures held against a gate, by reports or by its probes, were failures of
\* its own host or, since attempts are reported to the gate of the original
\* request wherever they were sent, of the hosts its calls fail over to. A gate
\* that is shut has some.
OutageIsolated ==
  \A i \in DOMAIN gates :
    /\ gates[i].blame \subseteq {gates[i].host} \cup {route[k] : k \in DOMAIN route}
    /\ gates[i].state.shut => gates[i].blame # {}

\* Without failover, the gate of a host that answers 2xx from some moment on opens
\* and stays open, whatever the other hosts do.
SteadyHostServed ==
  \A h \in HostNames :
    route = <<>> /\ <>[](answers[h].status \in 200 .. 299)
      => <>[](\A i \in DOMAIN gates : gates[i].host = h => ~gates[i].state.shut)

\* A call that asks for its gate gets past the selector (or ends there, with a
\* panic of newGate), also when another call panicked inside newGate.
SelectorAnswers ==
  \A c \in Callers :
    caller[c].at \in {"select", "locked", "create"} ~> caller[c].at \in {"start", "done"}
===============================================================================
