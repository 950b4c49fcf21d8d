----------------------------- MODULE HostsProofs -----------------------------
(***************************************************************************)
(* Proofs about Hosts, for any number of hosts, callers and routes: the     *)
(* mutex makes the map from host to gate a one-to-one correspondence, and   *)
(* so the failures of a host are held against its own gate only.            *)
(***************************************************************************)
EXTENDS Hosts, SequenceTheorems, TLAPS

CallerType ==
  [at : {"done", "select", "locked", "create", "start", "send", "pause"},
   host : HostNames, gate : Int, n : Nat \ {0}]
EntryType == [host : HostNames, blame : SUBSET HostNames, state : GateType]

TypeInv ==
  /\ route \in Seq(HostNames)
  /\ holder \in Callers \cup {Nobody}
  /\ table \in [HostNames -> Int]
  /\ gates \in Seq(EntryType)
  /\ caller \in [Callers -> CallerType]

\* A caller inside the selector holds the mutex, and fills only an empty slot.
LockInv ==
  \A c \in Callers :
    /\ caller[c].at \in {"locked", "create"} => holder = c
    /\ caller[c].at = "create" => table[caller[c].host] = Absent

\* The map and the gates made so far name each other.
MapInv ==
  /\ \A i \in DOMAIN gates : table[gates[i].host] = i
  /\ \A h \in HostNames :
       \/ table[h] \in {Absent, NilGate}
       \/ table[h] \in DOMAIN gates /\ gates[table[h]].host = h

\* A caller past the selector holds what the map has for its host.
ChoiceInv ==
  \A c \in Callers : caller[c].at \in {"start", "send", "pause"} =>
    caller[c].gate = table[caller[c].host] /\ caller[c].gate # Absent

HostsInv == TypeInv /\ LockInv /\ MapInv /\ ChoiceInv /\ OutageIsolated

-----------------------------------------------------------------------------
(* Steps of one caller.                                                     *)

\* The caller's record becomes this, and all others stay.
Becomes(c, at, host, gate, n) ==
  /\ caller' \in [Callers -> CallerType]
  /\ caller'[c].at = at /\ caller'[c].host = host /\ caller'[c].gate = gate /\ caller'[c].n = n
  /\ \A d \in Callers : d # c => caller'[d] = caller[d]

\* The record of a caller has the fields of its type.
LEMMA CallerFields ==
  ASSUME TypeInv, NEW c \in Callers
  PROVE  /\ caller[c] \in CallerType
         /\ caller[c].host \in HostNames /\ caller[c].gate \in Int /\ caller[c].n \in Nat \ {0}
BY DEF TypeInv, CallerType

\* So has the entry of a gate.
LEMMA GateFields ==
  ASSUME TypeInv, NEW i \in DOMAIN gates
  PROVE  /\ gates[i] \in EntryType /\ gates[i].host \in HostNames
         /\ gates[i].blame \in SUBSET HostNames /\ gates[i].state \in GateType
<1>1. gates[i] \in EntryType
  BY DEF TypeInv
<1> QED
  BY <1>1 DEF EntryType

\* Moving a caller changes its label only.
LEMMA GotoMoves ==
  ASSUME TypeInv, NEW c \in Callers, NEW label, Goto(c, label),
         label \in {"done", "select", "locked", "create", "start", "send", "pause"}
  PROVE  Becomes(c, label, caller[c].host, caller[c].gate, caller[c].n)
BY DEF TypeInv, CallerType, Goto, Becomes

\* The selector's answer is kept for the rest of the call.
LEMMA SelectMoves ==
  ASSUME TypeInv, NEW c \in Callers, NEW g \in Int, Select(c, g)
  PROVE  Becomes(c, "start", caller[c].host, g, caller[c].n) /\ holder' = Nobody
BY DEF TypeInv, CallerType, Select, Becomes

\* A gate in use is one of the map, made for the host of the call.
LEMMA GateInUse ==
  ASSUME HostsInv, NEW c \in Callers, caller[c].at \in {"start", "send", "pause"},
         GateOf(c) # NilGate
  PROVE  /\ GateOf(c) \in DOMAIN gates /\ gates[GateOf(c)] \in EntryType
         /\ gates[GateOf(c)].host = caller[c].host
<1>1. caller[c].gate = table[caller[c].host] /\ caller[c].gate # Absent
  BY DEF HostsInv, ChoiceInv
<1>2. caller[c].host \in HostNames
  BY CallerFields DEF HostsInv
<1>3. caller[c].gate \in DOMAIN gates /\ gates[caller[c].gate].host = caller[c].host
  BY <1>1, <1>2 DEF HostsInv, MapInv, GateOf
<1> QED
  BY <1>3 DEF HostsInv, TypeInv, GateOf

\* FailoverHosts sends an attempt to the call's own host or to one of the route.
LEMMA TargetKnown ==
  ASSUME TypeInv, NEW c \in Callers
  PROVE  /\ Target(c) \in HostNames
         /\ Target(c) \in {caller[c].host} \cup {route[k] : k \in DOMAIN route}
<1>1. CASE route = <<>>
  BY <1>1, CallerFields DEF Target
<1>2. CASE route # <<>>
  <2>1. route \in Seq(HostNames) /\ Len(route) \in Nat /\ Len(route) > 0
    BY <1>2 DEF TypeInv
  <2>2. caller[c].n - 1 \in Nat
    BY CallerFields
  <2>3. (caller[c].n - 1) % Len(route) \in 0 .. (Len(route) - 1)
    BY <2>1, <2>2
  <2>4. ((caller[c].n - 1) % Len(route)) + 1 \in DOMAIN route
    BY <2>1, <2>3
  <2> QED
    BY <1>2, <2>1, <2>4 DEF Target
<1> QED
  BY <1>1, <1>2

\* Report keeps a gate a gate, and shuts an open one on a failure only.
LEMMA ReportedRules ==
  ASSUME NEW g \in GateType, NEW failed \in BOOLEAN
  PROVE  /\ Reported(g, failed) \in GateType
         /\ ~g.shut /\ ~failed => ~Reported(g, failed).shut
<1>1. g.fails \in Nat /\ g.threshold \in Int /\ g.shut \in BOOLEAN
  BY DEF GateType
<1>2. Shut(g) \in GateType
  BY DEF GateType, Shut, Turned
<1>3. [g EXCEPT !.fails = 0] \in GateType /\ [g EXCEPT !.fails = @ + 1] \in GateType
  BY <1>1 DEF GateType
<1>4. [g EXCEPT !.fails = 0].shut = g.shut
  BY DEF GateType
<1> QED
  BY <1>1, <1>2, <1>3, <1>4 DEF Reported

\* A probe's decision keeps a gate a gate.
LEMMA TurnedRules ==
  ASSUME NEW g \in GateType
  PROVE  /\ Opened(g) \in GateType /\ ~Opened(g).shut
         /\ Shut(g) \in GateType
BY DEF GateType, Opened, Shut, Turned

-----------------------------------------------------------------------------
(* Each step keeps the invariant.                                           *)

\* A caller that is outside the selector before and after the step, and past it only
\* with the gate it already had.
LEMMA CallerKeeps ==
  ASSUME HostsInv, NEW c \in Callers, NEW at, NEW h, NEW g, NEW n, Becomes(c, at, h, g, n),
         UNCHANGED <<route, holder, table, gates>>,
         \/ at \in {"done", "select"}
         \/ /\ at \in {"send", "pause"} /\ caller[c].at \in {"start", "send", "pause"}
            /\ h = caller[c].host /\ g = caller[c].gate
  PROVE  HostsInv'
<1>1. TypeInv'
  BY DEF HostsInv, TypeInv, Becomes
<1>2. LockInv'
  BY DEF HostsInv, LockInv, Becomes
<1>3. MapInv' /\ OutageIsolated'
  BY DEF HostsInv, MapInv, OutageIsolated
<1>4. ChoiceInv'
  BY DEF HostsInv, ChoiceInv, Becomes
<1> QED
  BY <1>1, <1>2, <1>3, <1>4 DEF HostsInv

\* A gate's state and blame change, within what OutageIsolated allows.
LEMMA GateKeeps ==
  ASSUME HostsInv, NEW i \in DOMAIN gates, NEW s \in GateType, NEW b \in SUBSET HostNames,
         gates' = [gates EXCEPT ![i].state = s, ![i].blame = b],
         b \subseteq {gates[i].host} \cup {route[k] : k \in DOMAIN route},
         s.shut => b # {}, UNCHANGED <<route, table>>
  PROVE  gates' \in Seq(EntryType) /\ MapInv' /\ OutageIsolated'
<1>1. gates \in Seq(EntryType)
  BY DEF HostsInv, TypeInv
<1>2. gates[i] \in EntryType
  BY <1>1
<1>3. [gates[i] EXCEPT !.state = s, !.blame = b] \in EntryType
  BY <1>2 DEF EntryType
<1>4. gates' = [gates EXCEPT ![i] = [gates[i] EXCEPT !.state = s, !.blame = b]]
  BY <1>1, <1>2 DEF EntryType
<1>5. gates' \in Seq(EntryType) /\ DOMAIN gates' = DOMAIN gates
  <2>1. i \in 1 .. Len(gates)
    BY <1>1
  <2>2. gates' \in Seq(EntryType) /\ Len(gates') = Len(gates)
    BY ONLY <1>1, <1>3, <1>4, <2>1, ExceptSeq
  <2> QED
    BY <1>1, <2>2
<1>6. gates'[i].host = gates[i].host /\ gates'[i].state = s /\ gates'[i].blame = b
  BY <1>1, <1>2, <1>4 DEF EntryType
<1>7. \A j \in DOMAIN gates : j # i => gates'[j] = gates[j]
  BY <1>1, <1>4
<1>8. MapInv'
  BY <1>5, <1>6, <1>7 DEF HostsInv, MapInv
<1>9. OutageIsolated'
  BY <1>5, <1>6, <1>7 DEF HostsInv, OutageIsolated
<1> QED
  BY <1>5, <1>8, <1>9

\* Lock takes the mutex only when nobody is inside the selector.
LEMMA LockKeeps ==
  ASSUME HostsInv, NEW c \in Callers, Lock(c)
  PROVE  HostsInv'
<1>1. /\ holder = Nobody /\ holder' = c /\ UNCHANGED <<route, table, gates>>
      /\ Becomes(c, "locked", caller[c].host, caller[c].gate, caller[c].n)
  BY GotoMoves DEF Lock, HostsInv
<1>2. \A d \in Callers : caller[d].at \notin {"locked", "create"}
  BY <1>1, HostsAssumption DEF HostsInv, LockInv
<1>3. TypeInv' /\ MapInv' /\ OutageIsolated'
  BY <1>1 DEF HostsInv, TypeInv, MapInv, OutageIsolated, Becomes
<1>4. LockInv'
  BY <1>1, <1>2 DEF LockInv, Becomes
<1>5. ChoiceInv'
  BY <1>1 DEF HostsInv, ChoiceInv, Becomes
<1> QED
  BY <1>3, <1>4, <1>5 DEF HostsInv

\* While one caller is inside the selector no other is.
LEMMA Exclusive ==
  ASSUME HostsInv, NEW c \in Callers, caller[c].at \in {"locked", "create"}
  PROVE  holder = c /\ \A d \in Callers : d # c => caller[d].at \notin {"locked", "create"}
BY DEF HostsInv, LockInv

\* The selector finds the slot filled, or goes on to fill it with the mutex held.
LEMMA LookUpKeeps ==
  ASSUME HostsInv, NEW c \in Callers, LookUp(c)
  PROVE  HostsInv'
<1>1. caller[c].at = "locked" /\ UNCHANGED <<route, table, gates>>
  BY DEF LookUp
<1>2. holder = c /\ \A d \in Callers : d # c => caller[d].at \notin {"locked", "create"}
  BY <1>1, Exclusive
<1>3. TypeInv
  BY DEF HostsInv
<1>4. CASE table[Key(c)] # Absent
  <2>1. table[Key(c)] \in Int
    BY <1>3, CallerFields DEF TypeInv, Key
  <2>2. /\ Becomes(c, "start", caller[c].host, table[caller[c].host], caller[c].n)
        /\ holder' = Nobody
    BY <1>3, <1>4, <2>1, SelectMoves DEF LookUp, Key
  <2>3. TypeInv' /\ MapInv' /\ OutageIsolated'
    BY <1>1, <2>2 DEF HostsInv, TypeInv, MapInv, OutageIsolated, Becomes
  <2>4. LockInv'
    BY <1>2, <2>2 DEF LockInv, Becomes
  <2>5. ChoiceInv'
    BY <1>1, <1>4, <2>2 DEF HostsInv, ChoiceInv, Becomes, Key
  <2> QED
    BY <2>3, <2>4, <2>5 DEF HostsInv
<1>5. CASE table[Key(c)] = Absent
  <2>1. /\ Becomes(c, "create", caller[c].host, caller[c].gate, caller[c].n)
        /\ holder' = holder
    BY <1>3, <1>5, GotoMoves DEF LookUp
  <2>2. TypeInv' /\ MapInv' /\ OutageIsolated'
    BY <1>1, <2>1 DEF HostsInv, TypeInv, MapInv, OutageIsolated, Becomes
  <2>3. LockInv'
    BY <1>1, <1>2, <1>5, <2>1 DEF LockInv, Becomes, Key
  <2>4. ChoiceInv'
    BY <1>1, <2>1 DEF HostsInv, ChoiceInv, Becomes
  <2> QED
    BY <2>2, <2>3, <2>4 DEF HostsInv
<1> QED
  BY <1>4, <1>5

\* newGate's answer, a gate or none, fills a slot no other caller is looking at.
LEMMA CreateKeeps ==
  ASSUME HostsInv, NEW c \in Callers, CreateGate(c)
  PROVE  HostsInv'
<1> DEFINE h == caller[c].host
           m == Len(gates) + 1
           new == [host |-> h, blame |-> {}, state |-> [NewGate(Threshold) EXCEPT !.probing = "on"]]
<1>1. caller[c].at = "create" /\ UNCHANGED route
  BY DEF CreateGate
<1>2. holder = c /\ \A d \in Callers : d # c => caller[d].at \notin {"locked", "create"}
  BY <1>1, Exclusive
<1>3. /\ TypeInv /\ table[h] = Absent /\ h \in HostNames /\ table \in [HostNames -> Int]
      /\ gates \in Seq(EntryType) /\ Len(gates) \in Nat
  BY <1>1, CallerFields DEF HostsInv, LockInv, TypeInv
<1>4. \A i \in DOMAIN gates : gates[i].host # h
  BY <1>3 DEF HostsInv, MapInv, Absent
<1>5. \A d \in Callers : caller[d].at \in {"start", "send", "pause"} => caller[d].host # h
  BY <1>3 DEF HostsInv, ChoiceInv
<1>6. new \in EntryType
  BY <1>3, HostsAssumption DEF EntryType, GateType, NewGate
<1>7. ~new.state.shut
  BY DEF NewGate
<1> HIDE DEF new
<1>8. ASSUME NEW g \in Int, g # Absent, table' = [table EXCEPT ![h] = g], Select(c, g),
             gates' \in Seq(EntryType)
      PROVE  TypeInv' /\ LockInv' /\ ChoiceInv'
  <2>1. Becomes(c, "start", h, g, caller[c].n) /\ holder' = Nobody
    BY <1>3, <1>8, SelectMoves
  <2>2. table' \in [HostNames -> Int] /\ table'[h] = g
        /\ \A k \in HostNames : k # h => table'[k] = table[k]
    BY <1>3, <1>8
  <2>3. TypeInv'
    BY <1>1, <1>8, <2>1, <2>2 DEF TypeInv, HostsInv, Becomes
  <2>4. LockInv'
    BY <1>2, <2>1 DEF LockInv, Becomes
  <2>5. ASSUME NEW d \in Callers, d # c, caller'[d].at \in {"start", "send", "pause"}
        PROVE  caller'[d].gate = table'[caller'[d].host] /\ caller'[d].gate # Absent
    <3>1. caller'[d] = caller[d] /\ caller[d].host \in HostNames
      BY <1>3, <2>1, <2>5, CallerFields DEF Becomes
    <3> QED
      BY <1>5, <2>2, <2>5, <3>1 DEF HostsInv, ChoiceInv
  <2>6. ChoiceInv'
    BY <1>8, <2>1, <2>2, <2>5 DEF ChoiceInv, Becomes
  <2> QED
    BY <2>3, <2>4, <2>6
<1>9. CASE /\ gates' = Append(gates, new)
           /\ table' = [table EXCEPT ![h] = m] /\ Select(c, m)
  <2>1. /\ gates' \in Seq(EntryType) /\ Len(gates') = m /\ gates'[m] = new
        /\ \A i \in DOMAIN gates : gates'[i] = gates[i]
        /\ DOMAIN gates' = DOMAIN gates \cup {m} /\ m \notin DOMAIN gates
    BY <1>3, <1>6, <1>9
  <2>2. m \in Int /\ m # Absent
    BY <1>3 DEF Absent
  <2>3. TypeInv' /\ LockInv' /\ ChoiceInv'
    BY <1>8, <1>9, <2>1, <2>2
  <2>4. new.host = h /\ new.blame = {}
    BY DEF new
  <2>5. table'[h] = m /\ \A k \in HostNames : k # h => table'[k] = table[k]
    BY <1>3, <1>9
  <2>6. \A i \in DOMAIN gates : gates[i].host \in HostNames
    BY <1>3, GateFields
  <2>7. \A i \in DOMAIN gates' : table'[gates'[i].host] = i
    BY <1>4, <2>1, <2>4, <2>5, <2>6 DEF HostsInv, MapInv
  <2>8. ASSUME NEW k \in HostNames
        PROVE  \/ table'[k] \in {Absent, NilGate}
               \/ table'[k] \in DOMAIN gates' /\ gates'[table'[k]].host = k
    BY <2>1, <2>4, <2>5 DEF HostsInv, MapInv
  <2>9. OutageIsolated'
    BY <1>1, <1>7, <2>1, <2>4 DEF HostsInv, OutageIsolated
  <2> QED
    BY <2>3, <2>7, <2>8, <2>9 DEF HostsInv, MapInv
<1>10. CASE /\ table' = [table EXCEPT ![h] = NilGate] /\ Select(c, NilGate)
            /\ UNCHANGED gates
  <2>1. NilGate \in Int /\ NilGate # Absent
    BY DEF NilGate, Absent
  <2>2. TypeInv' /\ LockInv' /\ ChoiceInv'
    BY <1>3, <1>8, <1>10, <2>1
  <2>3. table'[h] = NilGate /\ \A k \in HostNames : k # h => table'[k] = table[k]
    BY <1>3, <1>10
  <2>4. \A i \in DOMAIN gates : gates[i].host \in HostNames
    BY <1>3, GateFields
  <2>5. MapInv'
    BY <1>4, <1>10, <2>3, <2>4 DEF HostsInv, MapInv
  <2>6. OutageIsolated'
    BY <1>1, <1>10 DEF HostsInv, OutageIsolated
  <2> QED
    BY <2>2, <2>5, <2>6 DEF HostsInv
<1> QED
  BY <1>9, <1>10 DEF CreateGate, Key, new

\* A panic of newGate ends the call with the mutex released and nothing stored.
LEMMA PanicKeeps ==
  ASSUME HostsInv, NEW c \in Callers, CreatePanics(c)
  PROVE  HostsInv'
<1>1. /\ caller[c].at = "create" /\ holder' = Nobody /\ UNCHANGED <<route, table, gates>>
      /\ Becomes(c, "done", caller[c].host, caller[c].gate, caller[c].n)
  BY GotoMoves DEF CreatePanics, HostsInv
<1>2. \A d \in Callers : d # c => caller[d].at \notin {"locked", "create"}
  BY <1>1, Exclusive
<1>3. TypeInv' /\ MapInv' /\ OutageIsolated'
  BY <1>1 DEF HostsInv, TypeInv, MapInv, OutageIsolated, Becomes
<1>4. LockInv'
  BY <1>1, <1>2 DEF LockInv, Becomes
<1>5. ChoiceInv'
  BY <1>1 DEF HostsInv, ChoiceInv, Becomes
<1> QED
  BY <1>3, <1>4, <1>5 DEF HostsInv

\* A call starts, passes or fails its gate at the start, and waits for its next attempt.
LEMMA CallKeeps ==
  ASSUME HostsInv, NEW c \in Callers, Enter(c) \/ StartGate(c) \/ Pause(c)
  PROVE  HostsInv'
<1>1. TypeInv /\ caller[c].n + 1 \in Nat \ {0}
  BY CallerFields DEF HostsInv
<1>2. CASE Enter(c)
  <2>1. PICK h \in HostNames : caller' = [caller EXCEPT ![c] = NewCall(h)]
    BY <1>2 DEF Enter
  <2>2. Becomes(c, "select", h, NilGate, 1)
    BY <1>1, <2>1 DEF TypeInv, CallerType, NewCall, NilGate, Becomes
  <2> QED
    BY <1>2, <2>2, CallerKeeps DEF Enter
<1>3. CASE StartGate(c)
  <2>1. \/ Becomes(c, "send", caller[c].host, caller[c].gate, caller[c].n)
        \/ Becomes(c, "done", caller[c].host, caller[c].gate, caller[c].n)
    BY <1>1, <1>3, GotoMoves DEF StartGate
  <2> QED
    BY <1>3, <2>1, CallerKeeps DEF StartGate
<1>4. CASE Pause(c)
  <2>1. \/ Becomes(c, "send", caller[c].host, caller[c].gate, caller[c].n + 1)
        \/ Becomes(c, "done", caller[c].host, caller[c].gate, caller[c].n)
    <3> DEFINE next == [caller[c] EXCEPT !.at = IF Open(c) THEN "send" ELSE "done",
                                         !.n = IF Open(c) THEN @ + 1 ELSE @]
    <3>1. caller \in [Callers -> CallerType] /\ caller[c] \in CallerType
      BY <1>1 DEF TypeInv
    <3>2. caller' = [caller EXCEPT ![c] = next]
      BY <1>4, <3>1 DEF Pause, CallerType
    <3>3. /\ next \in CallerType
          /\ next.host = caller[c].host /\ next.gate = caller[c].gate
          /\ \/ next.at = "send" /\ next.n = caller[c].n + 1
             \/ next.at = "done" /\ next.n = caller[c].n
      BY <1>1, <3>1 DEF CallerType
    <3> HIDE DEF next
    <3> QED
      BY <3>1, <3>2, <3>3 DEF Becomes
  <2> QED
    BY <1>4, <2>1, CallerKeeps DEF Pause
<1> QED
  BY <1>2, <1>3, <1>4

\* An attempt's outcome is reported to the gate of the call: a failure blames the host
\* the attempt was sent to, which is the gate's own or one of the route.
LEMMA AttemptKeeps ==
  ASSUME HostsInv, NEW c \in Callers, Attempt(c)
  PROVE  HostsInv'
<1> DEFINE i == GateOf(c)
           failed == DefaultIsFailure(answers[Target(c)])
           s == Reported(gates[i].state, failed)
           b == IF failed THEN gates[i].blame \cup {Target(c)} ELSE {}
<1>1. TypeInv /\ caller[c].at = "send" /\ UNCHANGED <<route, holder, table>>
  BY DEF Attempt, HostsInv
<1>2. gates' \in Seq(EntryType) /\ MapInv' /\ OutageIsolated'
  <2>1. CASE Open(c) /\ i # NilGate
    <3>1. /\ i \in DOMAIN gates /\ gates[i] \in EntryType
          /\ gates[i].host = caller[c].host /\ ~gates[i].state.shut
      BY <1>1, <2>1, GateInUse DEF Open
    <3>2. /\ gates[i].blame \in SUBSET HostNames /\ gates[i].state \in GateType
          /\ gates \in Seq(EntryType)
      BY <1>1, <3>1, GateFields DEF TypeInv
    <3>3. failed \in BOOLEAN
      <4>1. CASE HasErr(answers[Target(c)])
        BY <4>1 DEF DefaultIsFailure
      <4>2. CASE ~HasErr(answers[Target(c)])
        BY <4>2 DEF DefaultIsFailure
      <4> QED
        BY <4>1, <4>2
    <3>4. s \in GateType /\ (s.shut => failed)
      BY <3>1, <3>2, <3>3, ReportedRules
    <3>5. /\ b \in SUBSET HostNames /\ (failed => b # {})
          /\ b \subseteq {gates[i].host} \cup {route[k] : k \in DOMAIN route}
      BY <1>1, <3>1, <3>2, TargetKnown DEF HostsInv, OutageIsolated
    <3>6. gates' = [gates EXCEPT ![i].state = s, ![i].blame = b]
      BY <2>1, <3>1, <3>2 DEF Attempt, EntryType
    <3> HIDE DEF s, b, failed, i
    <3> QED
      BY <1>1, <3>1, <3>4, <3>5, <3>6, GateKeeps
  <2>2. CASE ~(Open(c) /\ i # NilGate)
    <3>1. gates' = gates
      BY <2>2 DEF Attempt
    <3> QED
      BY <1>1, <3>1 DEF HostsInv, TypeInv, MapInv, OutageIsolated
  <2> QED
    BY <2>1, <2>2
<1>3. \/ Becomes(c, "pause", caller[c].host, caller[c].gate, caller[c].n)
      \/ Becomes(c, "done", caller[c].host, caller[c].gate, caller[c].n)
  BY <1>1, GotoMoves DEF Attempt
<1>4. TypeInv'
  BY <1>1, <1>2, <1>3 DEF TypeInv, Becomes
<1>5. LockInv'
  BY <1>1, <1>3 DEF HostsInv, LockInv, Becomes
<1>6. ChoiceInv'
  BY <1>1, <1>3 DEF HostsInv, ChoiceInv, Becomes
<1> QED
  BY <1>2, <1>4, <1>5, <1>6 DEF HostsInv

\* A probe opens the gate and clears the blame, or shuts it and blames its own host.
LEMMA ProbeKeeps ==
  ASSUME HostsInv, NEW i \in DOMAIN gates, Probe(i)
  PROVE  HostsInv'
<1> DEFINE ok == HTTPCheck(answers[gates[i].host])
           s == IF ok THEN Opened(gates[i].state) ELSE Shut(gates[i].state)
           b == IF ok THEN {} ELSE {gates[i].host}
<1>1. TypeInv /\ UNCHANGED <<route, holder, table, caller>>
  BY DEF Probe, HostsInv
<1>2. /\ gates[i] \in EntryType /\ gates[i].host \in HostNames
      /\ gates[i].state \in GateType /\ gates \in Seq(EntryType)
  BY <1>1, GateFields DEF TypeInv
<1>3. s \in GateType /\ (s.shut => ~ok)
  BY <1>2, TurnedRules
<1>4. b \in SUBSET HostNames /\ (~ok => b # {}) /\ b \subseteq {gates[i].host}
  BY <1>2
<1>5. gates' = [gates EXCEPT ![i].state = s, ![i].blame = b]
  BY <1>2 DEF Probe, EntryType
<1> HIDE DEF s, b, ok
<1>6. gates' \in Seq(EntryType) /\ MapInv' /\ OutageIsolated'
  BY <1>1, <1>3, <1>4, <1>5, GateKeeps
<1>7. TypeInv' /\ LockInv' /\ ChoiceInv'
  BY <1>1, <1>6 DEF HostsInv, TypeInv, LockInv, ChoiceInv
<1> QED
  BY <1>6, <1>7 DEF HostsInv

-----------------------------------------------------------------------------
(* The invariant and what follows from it.                                  *)

\* HealthByHost's map, the mutex around it and the gates calls hold stay consistent,
\* for any hosts, callers, failover routes, answers and interleaving.
THEOREM HostsInvariant == Spec => []HostsInv
<1>1. Init => HostsInv
  <2> SUFFICES ASSUME Init PROVE HostsInv
    OBVIOUS
  <2>1. PICK h \in HostNames : caller = [c \in Callers |-> [NewCall(h) EXCEPT !.at = "done"]]
    BY DEF Init
  <2>2. TypeInv
    BY <2>1, HostsAssumption DEF Init, TypeInv, CallerType, NewCall, NilGate, Absent
  <2>3. \A c \in Callers : caller[c].at = "done"
    BY <2>1 DEF NewCall
  <2>4. LockInv /\ ChoiceInv
    BY <2>3 DEF LockInv, ChoiceInv
  <2>5. DOMAIN gates = {} /\ \A k \in HostNames : table[k] = Absent
    BY DEF Init
  <2>6. MapInv /\ OutageIsolated
    BY <2>5 DEF MapInv, OutageIsolated
  <2> QED
    BY <2>2, <2>4, <2>6 DEF HostsInv
<1>2. HostsInv /\ [Next]_vars => HostsInv'
  <2> SUFFICES ASSUME HostsInv, [Next]_vars PROVE HostsInv'
    OBVIOUS
  <2>1. ASSUME NEW c \in Callers, Enter(c) \/ StartGate(c) \/ Pause(c) PROVE HostsInv'
    BY <2>1, CallKeeps
  <2>2. ASSUME NEW c \in Callers, Lock(c) PROVE HostsInv'
    BY <2>2, LockKeeps
  <2>3. ASSUME NEW c \in Callers, Selector(c) PROVE HostsInv'
    BY <2>3, LookUpKeeps, CreateKeeps, PanicKeeps DEF Selector
  <2>4. ASSUME NEW c \in Callers, Attempt(c) PROVE HostsInv'
    BY <2>4, AttemptKeeps
  <2>5. ASSUME NEW i \in DOMAIN gates, Probe(i) PROVE HostsInv'
    BY <2>5, ProbeKeeps
  <2>6. CASE HostChanges \/ UNCHANGED vars
    <3>1. UNCHANGED <<route, holder, table, gates, caller>>
      BY <2>6 DEF HostChanges, vars
    <3> QED
      BY <3>1 DEF HostsInv, TypeInv, LockInv, MapInv, ChoiceInv, OutageIsolated
  <2> QED
    BY <2>1, <2>2, <2>3, <2>4, <2>5, <2>6 DEF Next
<1> QED
  BY <1>1, <1>2, PTL DEF Spec

\* However calls race for the first gate of a host, and whether newGate panics or returns
\* nil, HealthByHost gives a host one gate, and all calls to the host hold that one.
THEOREM GateMapSafety == Spec => []OneGatePerHost
<1>1. HostsInv => OneGatePerHost
  <2> SUFFICES ASSUME HostsInv PROVE OneGatePerHost
    OBVIOUS
  <2>1. \A i, j \in DOMAIN gates : gates[i].host = gates[j].host => i = j
    BY DEF HostsInv, MapInv
  <2> QED
    BY <2>1 DEF HostsInv, ChoiceInv, OneGatePerHost
<1> QED
  BY <1>1, HostsInvariant, PTL

\* A gate is shut only over failures of its own host, or of the hosts that calls made
\* to it fail over to: an outage of any other host never shuts it.
THEOREM IsolationSafety == Spec => []OutageIsolated
<1>1. HostsInv => OutageIsolated
  BY DEF HostsInv
<1> QED
  BY <1>1, HostsInvariant, PTL
=============================================================================
