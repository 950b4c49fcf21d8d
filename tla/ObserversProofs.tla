--------------------------- MODULE ObserversProofs ---------------------------
(***************************************************************************)
(* Proofs about Observers, for any number of calls, any setups and any      *)
(* chain in which each observer of the library occurs once: whatever the    *)
(* user's observers do, the others get every event once and in order, the   *)
(* metrics agree with the calls they are about, and slogobs keeps its noise *)
(* policy.                                                                  *)
(***************************************************************************)
EXTENDS Observers, SequenceTheorems, FiniteSetTheorems, TLAPS

Kinds == {"call_start", "attempt", "wait", "hook", "gate", "call_done", "probe", "health"}
Phases == {"before", "after", "reconcile", "give_up"}
Labels == Outcome \cup Results \cup Phases
            \cup {"", "rejected", "timeout", "waited", "ok", "fail", "healthy", "unhealthy"}
EventType == [kind : Kinds, what : Labels, n : Nat]

\* The number of observers, and the position of one of the library.
Width == Len(Chain)
At(o) == CHOOSE k \in DOMAIN Chain : \A j \in DOMAIN Chain : Chain[j] = o <=> j = k

\* How many events e has emitted, and has still to hand out.
Out(e) == Len(emitted[e])
Left(e) == Len(queue[e])

\* How many of the events that e has emitted the observer o has been given: those
\* handed out to all, and the one underway once o has had it.
Past(e, o) == IF pos[e] > At(o) THEN 1 ELSE 0
Got(e, o) == Out(e) - Left(e) + Past(e, o)

\* What is still to be handed out are the latest events emitted.
FanInv ==
  /\ queue \in [Emitters -> Seq(EventType)]
  /\ emitted \in [Emitters -> Seq(EventType)]
  /\ pos \in [Emitters -> 1 .. Width]
  /\ \A e \in Emitters :
       /\ queue[e] = <<>> => pos[e] = 1
       /\ Left(e) <= Out(e)
       /\ \A i \in 1 .. Left(e) : queue[e][i] = emitted[e][Out(e) - Left(e) + i]

\* The events o has been given, each known by its emitter and its place.
Seen(o) == {x \in Emitters \X Nat : x[2] \in 1 .. Got(x[1], o)}
EventAt(x) == emitted[x[1]][x[2]]

\* The Recorder has the events it has been given.
TapeInv ==
  /\ tape \in [Emitters -> Seq(EventType)]
  /\ \A e \in Emitters :
       /\ Len(tape[e]) = Got(e, "recorder")
       /\ \A i \in 1 .. Len(tape[e]) : tape[e][i] = emitted[e][i]

\* slogobs has reached the highest level of the events it has been given.
SlogInv ==
  /\ slog \in [Emitters -> 0 .. 4]
  /\ \A e \in Emitters :
       /\ \A i \in 1 .. Got(e, "slog") : SlogLevel(emitted[e][i]) <= slog[e]
       /\ slog[e] = 0 \/ \E i \in 1 .. Got(e, "slog") : SlogLevel(emitted[e][i]) = slog[e]

\* What an event does to a collector that promobs and otelobs have in common.
Names == {"inFlight", "calls", "attempts", "waits", "hooks", "gates", "gateWaits", "probes",
          "changes"}
Weight(name, e) ==
  CASE name = "inFlight" -> GaugeStep(e)
    [] name = "calls" -> Tick(e, "call_done")
    [] name = "attempts" -> Tick(e, "attempt")
    [] name = "waits" -> Tick(e, "wait")
    [] name = "hooks" -> Tick(e, "hook")
    [] name = "gates" -> Tick(e, "gate")
    [] name = "gateWaits" -> IF e.what = "rejected" THEN 0 ELSE Tick(e, "gate")
    [] name = "probes" -> Tick(e, "probe")
    [] name = "changes" -> Tick(e, "health")

Ups(o, name) == {x \in Seen(o) : Weight(name, EventAt(x)) = 1}
Downs(o, name) == {x \in Seen(o) : Weight(name, EventAt(x)) = -1}

Meter == [Names \cup {"own"} -> Int]

\* A collector of the adapter o, whose collectors are m, has counted its events.
Counted(o, m) ==
  /\ m \in Meter
  /\ \A name \in Names :
       /\ IsFiniteSet(Ups(o, name)) /\ IsFiniteSet(Downs(o, name))
       /\ m[name] = Cardinality(Ups(o, name)) - Cardinality(Downs(o, name))

\* The requests of the calls whose EventCallDone promobs has been given.
Reported ==
  {y \in Seen("prom") \X Nat :
     EventAt(y[1]).kind = "call_done" /\ y[2] \in 1 .. EventAt(y[1]).n}

MeterInv ==
  /\ Counted("prom", prom) /\ Counted("otel", otel)
  /\ IsFiniteSet(Reported) /\ prom["own"] = Cardinality(Reported)

\* The events a call emits between its first and its last.
Between == {e \in EventType : e.kind \notin {"call_start", "call_done"}}
Mid == {e \in EventType : e.kind \in {"wait", "gate", "hook"}}

\* An event that slogobs logs above Debug, short of a wait for the gate and the end.
Loud(e) == e.kind # "call_done" /\ e # GateEvent("waited") /\ SlogLevel(e) > Debug
Calm == {e \in Mid : ~Loud(e)}

\* The calls keep to their protocol.
CallType ==
  /\ stage \in [Calls -> {"idle", "open", "flying", "done"}]
  /\ sent \in [Calls -> Nat] /\ told \in [Calls -> Nat]
  /\ last \in [Calls -> Outcome \cup {"none"}] /\ result \in [Calls -> Results]

CallRule(c) ==
  /\ stage[c] = "idle" => sent[c] = 0
  /\ stage[c] \in {"idle", "open"} => sent[c] = told[c]
  /\ stage[c] = "flying" => sent[c] = told[c] + 1
  /\ stage[c] = "done" => \/ sent[c] = told[c]
                          \/ sent[c] = told[c] + 1 /\ result[c] = "panic"
  /\ last[c] = "success" => told[c] >= 1
  /\ stage[c] = "done" /\ result[c] = "success" => last[c] = "success"

Started == {c \in Calls : stage[c] # "idle"}

CallInv == CallType /\ (\A c \in Calls : CallRule(c)) /\ IsFiniteSet(Started)

\* A call starts its events with EventCallStart and closes them with EventCallDone.
HistoryInv ==
  \A c \in Calls :
    /\ Out(c) = 0 <=> stage[c] = "idle"
    /\ \A i \in 1 .. Out(c) :
         /\ emitted[c][i].kind = "call_start" <=> i = 1
         /\ emitted[c][i].kind = "call_done" <=> stage[c] = "done" /\ i = Out(c)
    /\ stage[c] = "done" => emitted[c][Out(c)] = CallDone(result[c], sent[c])

\* The probe loop emits neither; nor does it report attempts.
LoopInv ==
  \A i \in 1 .. Out("loop") : emitted["loop"][i].kind \in {"probe", "health"}

\* There is one EventAttempt for each attempt told.
Attempts == {x \in Calls \X Nat : x[2] \in 1 .. Out(x[1]) /\ EventAt(x).kind = "attempt"}
Told == {x \in Calls \X Nat : x[2] \in 1 .. told[x[1]]}
AttemptInv ==
  IsFiniteSet(Attempts) /\ IsFiniteSet(Told) /\ Cardinality(Attempts) = Cardinality(Told)

\* What makes a call loud rules out that it simply succeeds at once.
Troubled(c) ==
  \/ sent[c] >= 2
  \/ told[c] = 1 /\ last[c] # "success"
  \/ stage[c] = "done" /\ result[c] # "success"
LoudInv ==
  \A c \in Calls : (\E i \in 1 .. Out(c) : Loud(emitted[c][i])) => Troubled(c)

ObserversInv ==
  /\ FanInv /\ TapeInv /\ SlogInv /\ MeterInv
  /\ CallInv /\ HistoryInv /\ LoopInv /\ AttemptInv /\ LoudInv

-----------------------------------------------------------------------------
(* The fan-out.                                                             *)

\* The chain has a place for each observer of the library, and only one.
LEMMA Places ==
  ASSUME NEW o \in Adapters
  PROVE  /\ At(o) \in 1 .. Width
         /\ \A j \in 1 .. Width : Chain[j] = o <=> j = At(o)
         /\ Width \in Nat
<1>1. Width \in Nat /\ DOMAIN Chain = 1 .. Width
  BY ObserversAssumption DEF Width
<1>2. \E k \in DOMAIN Chain : \A j \in DOMAIN Chain : Chain[j] = o <=> j = k
  BY ObserversAssumption
<1> QED
  BY <1>1, <1>2 DEF At

\* The numbers of events emitted and waiting.
LEMMA Lengths ==
  ASSUME FanInv, NEW e \in Emitters
  PROVE  /\ Left(e) \in Nat /\ Out(e) \in Nat /\ Left(e) <= Out(e)
         /\ queue[e] = <<>> <=> Left(e) = 0
         /\ queue[e] = <<>> => pos[e] = 1
         /\ pos[e] \in 1 .. Width /\ Width \in Nat
<1>1. /\ queue[e] \in Seq(EventType) /\ emitted[e] \in Seq(EventType)
      /\ pos[e] \in 1 .. Width
  BY DEF FanInv
<1>2. Len(queue[e]) \in Nat /\ Len(emitted[e]) \in Nat /\ (queue[e] = <<>> <=> Len(queue[e]) = 0)
  BY <1>1
<1>3. Width \in Nat
  BY ObserversAssumption DEF Width
<1>4. (queue[e] = <<>> => pos[e] = 1) /\ Left(e) <= Out(e)
  BY DEF FanInv
<1> QED
  BY <1>1, <1>2, <1>3, <1>4 DEF Left, Out

\* No observer has been given more than was emitted, and at rest each has been
\* given everything.
LEMMA GotBounds ==
  ASSUME FanInv, NEW e \in Emitters, NEW o \in Adapters
  PROVE  /\ Got(e, o) \in 0 .. Out(e) /\ Out(e) \in Nat
         /\ Quiet(e) => Got(e, o) = Out(e)
<1>1. /\ Left(e) \in Nat /\ Out(e) \in Nat /\ Left(e) <= Out(e)
      /\ Quiet(e) <=> Left(e) = 0
      /\ Quiet(e) => pos[e] = 1
      /\ pos[e] \in 1 .. Width /\ Width \in Nat
  BY Lengths DEF Quiet
<1>2. At(o) \in 1 .. Width
  BY Places
<1>3. Past(e, o) \in {0, 1} /\ (Quiet(e) => Past(e, o) = 0)
  BY <1>1, <1>2 DEF Past
<1> QED
  BY <1>1, <1>3 DEF Got

\* Emitting hands nothing out yet and leaves the earlier events as they are.
LEMMA EmitKeepsFan ==
  ASSUME FanInv, NEW e \in Emitters, NEW es \in Seq(EventType), Emit(e, es)
  PROVE  /\ FanInv'
         /\ \A x \in Emitters, o \in Adapters : Got(x, o)' = Got(x, o)
         /\ \A x \in Emitters : x # e => emitted'[x] = emitted[x] /\ Out(x)' = Out(x)
         /\ Out(e)' = Out(e) + Len(es)
         /\ \A x \in Emitters : \A i \in 1 .. Out(x) : emitted'[x][i] = emitted[x][i]
         /\ \A i \in 1 .. Len(es) : emitted'[e][Out(e) + i] = es[i]
<1>1. /\ queue[e] = <<>> /\ queue' = [queue EXCEPT ![e] = es]
      /\ emitted' = [emitted EXCEPT ![e] = emitted[e] \o es] /\ pos' = pos
  BY DEF Emit, Quiet
<1>2. /\ queue \in [Emitters -> Seq(EventType)] /\ emitted \in [Emitters -> Seq(EventType)]
      /\ pos \in [Emitters -> 1 .. Width] /\ pos[e] = 1
  BY <1>1 DEF FanInv
<1>3. /\ emitted[e] \o es \in Seq(EventType)
      /\ Len(emitted[e] \o es) = Out(e) + Len(es)
      /\ \A i \in 1 .. Out(e) + Len(es) :
           (emitted[e] \o es)[i] = IF i <= Out(e) THEN emitted[e][i] ELSE es[i - Out(e)]
  <2>1. emitted[e] \in Seq(EventType)
    BY <1>2
  <2> QED
    BY <2>1, ConcatProperties, Zenon DEF Out
<1>4. /\ emitted'[e] = emitted[e] \o es /\ queue'[e] = es
      /\ \A x \in Emitters : x # e => emitted'[x] = emitted[x] /\ queue'[x] = queue[x]
  BY <1>1, <1>2
<1>5. /\ Out(e)' = Out(e) + Len(es) /\ Left(e)' = Len(es)
      /\ \A x \in Emitters : x # e => Out(x)' = Out(x) /\ Left(x)' = Left(x)
  BY <1>3, <1>4 DEF Out, Left
<1> DEFINE n == Len(es)
<1>6. n \in Nat /\ (es = <<>> <=> n = 0)
  OBVIOUS
<1>7. Out(e) \in Nat /\ Left(e) = 0
  BY <1>1, Lengths
<1> HIDE DEF n
<1>8. \A i \in 1 .. Out(e) : emitted'[e][i] = emitted[e][i]
  <2>1. TAKE i \in 1 .. Out(e)
  <2>2. i \in 1 .. Out(e) + n /\ i <= Out(e)
    BY <1>6, <1>7
  <2> QED
    BY <1>3, <1>4, <2>2 DEF n
<1>9. \A i \in 1 .. n : emitted'[e][Out(e) + i] = es[i]
  <2>1. TAKE i \in 1 .. n
  <2>2. Out(e) + i \in 1 .. Out(e) + n /\ ~(Out(e) + i <= Out(e)) /\ (Out(e) + i) - Out(e) = i
    BY <1>6, <1>7
  <2> QED
    BY <1>3, <1>4, <2>2 DEF n
<1>10. \A x \in Emitters, o \in Adapters : Got(x, o)' = Got(x, o)
  <2>1. TAKE x \in Emitters, o \in Adapters
  <2>2. Past(x, o)' = Past(x, o) /\ Past(x, o) \in {0, 1}
    BY <1>1 DEF Past, At
  <2>3. CASE x = e
    BY <2>2, <2>3, <1>5, <1>6, <1>7 DEF Got, n
  <2>4. CASE x # e
    BY <2>2, <2>4, <1>5 DEF Got
  <2> QED
    BY <2>3, <2>4
<1>11. FanInv'
  <2>1. /\ queue' \in [Emitters -> Seq(EventType)] /\ emitted' \in [Emitters -> Seq(EventType)]
        /\ pos' \in [Emitters -> 1 .. Width']
    BY <1>1, <1>2, <1>3 DEF Width
  <2>2. ASSUME NEW x \in Emitters
        PROVE  /\ queue'[x] = <<>> => pos'[x] = 1
               /\ Left(x)' <= Out(x)'
               /\ \A i \in 1 .. Left(x)' : queue'[x][i] = emitted'[x][Out(x)' - Left(x)' + i]
    <3>1. CASE x = e
      <4>1. Out(e)' - Left(e)' = Out(e) /\ Left(e)' <= Out(e)'
        BY <1>5, <1>6, <1>7 DEF n
      <4>2. queue'[e] = <<>> => pos'[e] = 1
        BY <1>1, <1>2, <1>4, <1>5, <1>9 DEF n
      <4>3. \A i \in 1 .. Left(e)' : queue'[e][i] = emitted'[e][Out(e)' - Left(e)' + i]
        BY <4>1, <1>1, <1>2, <1>4, <1>5, <1>9 DEF n
      <4> QED
        BY <3>1, <4>1, <4>2, <4>3
    <3>2. CASE x # e
      BY <3>2, <1>1, <1>4, <1>5 DEF FanInv
    <3> QED
      BY <3>1, <3>2
  <2> QED
    BY <2>1, <2>2 DEF FanInv
<1> QED
  BY <1>4, <1>5, <1>8, <1>9, <1>10, <1>11 DEF n

\* Handing an event on gives it to one observer, in turn.
LEMMA HandKeepsFan ==
  ASSUME FanInv, NEW e \in Emitters, ~Quiet(e), Passes(e, pos[e]), emitted' = emitted
  PROVE  /\ FanInv'
         /\ Head(queue[e]) \in EventType
         /\ \A x \in Emitters, o \in Adapters :
              IF x = e /\ Chain[pos[e]] = o
              THEN /\ Got(x, o)' = Got(x, o) + 1
                   /\ emitted[x][Got(x, o) + 1] = Head(queue[e])
              ELSE Got(x, o)' = Got(x, o)
<1>1. /\ queue \in [Emitters -> Seq(EventType)] /\ emitted \in [Emitters -> Seq(EventType)]
      /\ pos \in [Emitters -> 1 .. Width]
      /\ queue[e] \in Seq(EventType) /\ queue[e] # <<>> /\ emitted[e] \in Seq(EventType)
      /\ \A i \in 1 .. Left(e) : queue[e][i] = emitted[e][Out(e) - Left(e) + i]
  BY DEF FanInv, Quiet
<1>2. /\ Left(e) \in Nat /\ Left(e) > 0 /\ Out(e) \in Nat /\ Left(e) <= Out(e)
      /\ Width \in Nat /\ pos[e] \in 1 .. Width
  BY <1>1, Lengths
<1>3. Head(queue[e]) = queue[e][1] /\ Head(queue[e]) \in EventType
  BY <1>1
<1>4. /\ Tail(queue[e]) \in Seq(EventType) /\ Len(Tail(queue[e])) = Left(e) - 1
      /\ \A i \in 1 .. Left(e) - 1 : Tail(queue[e])[i] = queue[e][i + 1]
  <2>1. /\ Tail(queue[e]) \in Seq(EventType) /\ Len(Tail(queue[e])) = Len(queue[e]) - 1
        /\ \A i \in 1 .. Len(Tail(queue[e])) : Tail(queue[e])[i] = queue[e][i + 1]
    BY <1>1, HeadTailProperties, Zenon
  <2> QED
    BY <2>1 DEF Left
<1>5. \A x \in Emitters : x # e =>
        queue'[x] = queue[x] /\ pos'[x] = pos[x] /\ Left(x)' = Left(x)
  BY <1>1 DEF Passes, Left
<1>6. /\ pos[e] < Width => queue'[e] = queue[e] /\ pos'[e] = pos[e] + 1 /\ Left(e)' = Left(e)
      /\ ~(pos[e] < Width) =>
           queue'[e] = Tail(queue[e]) /\ pos'[e] = 1 /\ Left(e)' = Left(e) - 1
  BY <1>1, <1>4 DEF Passes, Width, Left
<1>7. (\A x \in Emitters : Out(x)' = Out(x)) /\ Width' = Width
  BY DEF Out, Width
<1>8. FanInv'
  <2>1. queue' \in [Emitters -> Seq(EventType)]
    BY <1>1, <1>4 DEF Passes
  <2>2. pos' \in [Emitters -> 1 .. Width]
    <3>1. pos[e] < Width => pos[e] + 1 \in 1 .. Width
      BY <1>2
    <3>2. 1 \in 1 .. Width
      BY <1>2
    <3> QED
      BY <1>1, <3>1, <3>2 DEF Passes, Width
  <2>3. ASSUME NEW x \in Emitters
        PROVE  /\ queue'[x] = <<>> => pos'[x] = 1
               /\ Left(x)' <= Out(x)
               /\ \A i \in 1 .. Left(x)' : queue'[x][i] = emitted[x][Out(x) - Left(x)' + i]
    <3>1. CASE x # e
      BY <3>1, <1>5 DEF FanInv
    <3>2. CASE x = e /\ pos[e] < Width
      BY <3>2, <1>1, <1>2, <1>6
    <3>3. CASE x = e /\ ~(pos[e] < Width)
      <4>1. queue'[e] = Tail(queue[e]) /\ pos'[e] = 1 /\ Left(e)' = Left(e) - 1
        BY <3>3, <1>6
      <4>2. ASSUME NEW i \in 1 .. Left(e) - 1
            PROVE  Tail(queue[e])[i] = emitted[e][Out(e) - (Left(e) - 1) + i]
        <5>1. i + 1 \in 1 .. Left(e) /\ Out(e) - Left(e) + (i + 1) = Out(e) - (Left(e) - 1) + i
          BY <1>2
        <5>2. queue[e][i + 1] = emitted[e][Out(e) - Left(e) + (i + 1)]
          BY <5>1, <1>1
        <5> QED
          BY <5>1, <5>2, <1>4
      <4>3. Left(e) - 1 <= Out(e)
        BY <1>2
      <4> QED
        BY <3>3, <4>1, <4>2, <4>3
    <3> QED
      BY <3>1, <3>2, <3>3
  <2> QED
    BY <1>1, <1>7, <2>1, <2>2, <2>3 DEF FanInv
<1>9. ASSUME NEW x \in Emitters, NEW o \in Adapters
      PROVE  IF x = e /\ Chain[pos[e]] = o
             THEN /\ Got(x, o)' = Got(x, o) + 1
                  /\ emitted[x][Got(x, o) + 1] = Head(queue[e])
             ELSE Got(x, o)' = Got(x, o)
  <2>1. /\ Got(x, o)' = Out(x) - Left(x)' + Past(x, o)'
        /\ Past(x, o)' = IF pos'[x] > At(o) THEN 1 ELSE 0
    BY <1>7 DEF Got, Past, At
  <2>2. CASE x # e
    BY <2>1, <2>2, <1>5 DEF Got, Past
  <2>3. CASE x = e
    <3>1. At(o) \in 1 .. Width /\ (Chain[pos[e]] = o <=> pos[e] = At(o))
      BY <1>2, Places
    <3>2. CASE Chain[pos[e]] = o
      <4>1. Past(e, o) = 0 /\ Got(e, o) = Out(e) - Left(e)
        BY <3>1, <3>2, <1>2 DEF Got, Past
      <4>2. Got(e, o)' = Got(e, o) + 1
        BY <2>1, <2>3, <3>1, <3>2, <4>1, <1>2, <1>6
      <4>3. queue[e][1] = emitted[e][Out(e) - Left(e) + 1]
        BY <1>1, <1>2
      <4> QED
        BY <2>3, <3>2, <4>1, <4>2, <4>3, <1>3
    <3>3. CASE Chain[pos[e]] # o
      <4>1. CASE pos[e] < Width
        BY <2>1, <2>3, <3>1, <3>3, <4>1, <1>2, <1>6 DEF Got, Past
      <4>2. CASE ~(pos[e] < Width)
        <5>1. Past(e, o) = 1 /\ Past(e, o)' = 0
          BY <2>1, <2>3, <3>1, <3>3, <4>2, <1>2, <1>6 DEF Past
        <5> QED
          BY <2>1, <2>3, <3>3, <4>2, <5>1, <1>2, <1>6 DEF Got
      <4> QED
        BY <4>1, <4>2
    <3> QED
      BY <3>2, <3>3
  <2> QED
    BY <2>2, <2>3
<1> QED
  BY <1>3, <1>8, <1>9

LEMMA NoMeasureType ==
  /\ NoMeasure \in Meter /\ DOMAIN NoMeasure = Names \cup {"own"}
  /\ \A name \in Names : NoMeasure[name] = 0
BY DEF NoMeasure, Meter, Names

LEMMA WeightRange ==
  ASSUME NEW name \in Names, NEW e \in EventType
  PROVE  Weight(name, e) \in {-1, 0, 1} /\ (name # "inFlight" => Weight(name, e) # -1)
BY DEF Weight, GaugeStep, Tick, Names

LEMMA MeasureAdds ==
  ASSUME NEW m \in Meter, NEW e \in EventType
  PROVE  /\ Measure(m, e) \in Meter
         /\ \A name \in Names : Measure(m, e)[name] = m[name] + Weight(name, e)
         /\ Measure(m, e).own = m.own
<1>1. \A x, y : Tick(x, y) \in Int
  BY DEF Tick
<1>2. GaugeStep(e) \in Int
  BY DEF GaugeStep
<1>3. \A name \in Names \cup {"own"} : m[name] \in Int
  BY DEF Meter
<1>4. Measure(m, e)["inFlight"] = m["inFlight"] + Weight("inFlight", e)
  BY <1>1, <1>2, <1>3 DEF Names, Meter, Measure, Weight
<1>5. Measure(m, e)["calls"] = m["calls"] + Weight("calls", e)
  BY <1>1, <1>2, <1>3 DEF Names, Meter, Measure, Weight
<1>6. Measure(m, e)["attempts"] = m["attempts"] + Weight("attempts", e)
  BY <1>1, <1>2, <1>3 DEF Names, Meter, Measure, Weight
<1>7. Measure(m, e)["waits"] = m["waits"] + Weight("waits", e)
  BY <1>1, <1>2, <1>3 DEF Names, Meter, Measure, Weight
<1>8. Measure(m, e)["hooks"] = m["hooks"] + Weight("hooks", e)
  BY <1>1, <1>2, <1>3 DEF Names, Meter, Measure, Weight
<1>9. Measure(m, e)["gates"] = m["gates"] + Weight("gates", e)
  BY <1>1, <1>2, <1>3 DEF Names, Meter, Measure, Weight
<1>10. Measure(m, e)["gateWaits"] = m["gateWaits"] + Weight("gateWaits", e)
  BY <1>1, <1>2, <1>3 DEF Names, Meter, Measure, Weight
<1>11. Measure(m, e)["probes"] = m["probes"] + Weight("probes", e)
  BY <1>1, <1>2, <1>3 DEF Names, Meter, Measure, Weight
<1>12. Measure(m, e)["changes"] = m["changes"] + Weight("changes", e)
  BY <1>1, <1>2, <1>3 DEF Names, Meter, Measure, Weight
<1>13. Measure(m, e)["own"] = m["own"]
  BY DEF Names, Meter, Measure
<1>14. ASSUME NEW name \in Names PROVE Measure(m, e)[name] = m[name] + Weight(name, e)
  BY <1>4, <1>5, <1>6, <1>7, <1>8, <1>9, <1>10, <1>11, <1>12 DEF Names
<1>15. Measure(m, e) \in [Names \cup {"own"} -> {Measure(m, e)[x] : x \in Names \cup {"own"}}]
  BY DEF Measure, Meter
<1>16. \A x \in Names \cup {"own"} : Measure(m, e)[x] \in Int
  BY <1>3, <1>13, <1>14, WeightRange
<1> QED
  BY <1>13, <1>14, <1>15, <1>16 DEF Meter

\* promobs and otelobs count an event alike; promobs adds up Attempts besides.
LEMMA AdaptersCount ==
  ASSUME NEW m \in Meter, NEW e \in EventType
  PROVE  /\ PromObserve(m, e) \in Meter /\ OtelObserve(m, e) \in Meter
         /\ \A name \in Names :
              /\ PromObserve(m, e)[name] = m[name] + Weight(name, e)
              /\ OtelObserve(m, e)[name] = m[name] + Weight(name, e)
         /\ PromObserve(m, e)["own"] = m["own"] + (IF e.kind = "call_done" THEN e.n ELSE 0)
<1> DEFINE d == Measure(m, e)
<1>1. d \in Meter /\ d["own"] = m["own"] /\ m["own"] \in Int /\ e.n \in Int
  <2>1. e.n \in Int
    BY DEF EventType
  <2> QED
    BY <2>1, MeasureAdds DEF Meter
<1>2. \A name \in Names : d[name] = m[name] + Weight(name, e)
  BY MeasureAdds
<1>3. PromObserve(m, e) = [d EXCEPT !["own"] = IF e.kind = "call_done" THEN d["own"] + e.n
                                               ELSE d["own"]]
  BY DEF PromObserve
<1>4. OtelObserve(m, e) = [d EXCEPT !["own"] = IF e.kind = "attempt" /\ e.what # "success"
                                               THEN d["own"] + 1 ELSE d["own"]]
  BY DEF OtelObserve
<1> HIDE DEF d
<1>5. PromObserve(m, e) \in Meter /\ OtelObserve(m, e) \in Meter
  BY <1>1, <1>3, <1>4 DEF Meter
<1>6. \A name \in Names : PromObserve(m, e)[name] = d[name] /\ OtelObserve(m, e)[name] = d[name]
  BY <1>1, <1>3, <1>4 DEF Meter, Names
<1>7. PromObserve(m, e)["own"] = m["own"] + (IF e.kind = "call_done" THEN e.n ELSE 0)
  BY <1>1, <1>3 DEF Meter
<1> QED
  BY <1>2, <1>5, <1>6, <1>7

\* An observer that panics changes no more than one that returns.
LEMMA PanicIsObserve ==
  ASSUME NEW e, ObserverPanics(e)
  PROVE  Observe(e)
BY DEF ObserverPanics, Observe, RecoverPerObserver, meters

\* The step of an observer, in terms of the observer whose turn it is.
LEMMA ObserveHands ==
  ASSUME FanInv, NEW e \in Emitters, Observe(e)
  PROVE  /\ ~Quiet(e) /\ Passes(e, pos[e]) /\ emitted' = emitted
         /\ UNCHANGED <<setup, callVars, probes>>
BY DEF Observe

-----------------------------------------------------------------------------
(* What the observers make of the events they are given.                    *)

\* Emitting gives no observer anything.
LEMMA EmitKeepsSeen ==
  ASSUME FanInv, NEW e \in Emitters, NEW es \in Seq(EventType), Emit(e, es), NEW o \in Adapters
  PROVE  Seen(o)' = Seen(o) /\ \A x \in Seen(o) : EventAt(x)' = EventAt(x)
<1>1. Seen(o)' = Seen(o)
  BY EmitKeepsFan DEF Seen
<1>2. ASSUME NEW x \in Seen(o) PROVE EventAt(x)' = EventAt(x)
  <2>1. x[1] \in Emitters /\ x[2] \in 1 .. Got(x[1], o)
    BY DEF Seen
  <2>2. Got(x[1], o) \in 0 .. Out(x[1]) /\ Out(x[1]) \in Nat
    BY <2>1, GotBounds
  <2>3. x[2] \in 1 .. Out(x[1])
    BY <2>1, <2>2
  <2> QED
    BY <2>1, <2>3, EmitKeepsFan DEF EventAt
<1> QED
  BY <1>1, <1>2

\* The observer whose turn it is is given one event more, and no other observer is.
LEMMA HandKeepsSeen ==
  ASSUME FanInv, NEW e \in Emitters, Observe(e), NEW o \in Adapters
  PROVE  /\ \A x : EventAt(x)' = EventAt(x)
         /\ Chain[pos[e]] # o => Seen(o)' = Seen(o)
         /\ Chain[pos[e]] = o =>
              /\ Seen(o)' = Seen(o) \cup {<<e, Got(e, o) + 1>>}
              /\ <<e, Got(e, o) + 1>> \notin Seen(o)
              /\ EventAt(<<e, Got(e, o) + 1>>) = Head(queue[e])
<1>1. /\ ~Quiet(e) /\ Passes(e, pos[e]) /\ emitted' = emitted
  BY ObserveHands
<1>2. \A x \in Emitters :
        IF x = e /\ Chain[pos[e]] = o
        THEN /\ Got(x, o)' = Got(x, o) + 1
             /\ emitted[x][Got(x, o) + 1] = Head(queue[e])
        ELSE Got(x, o)' = Got(x, o)
  BY <1>1, HandKeepsFan
<1>3. \A x \in Emitters : Got(x, o) \in Nat
  BY GotBounds
<1>4. CASE Chain[pos[e]] # o
  BY <1>1, <1>2, <1>4 DEF Seen, EventAt
<1>5. CASE Chain[pos[e]] = o
  <2>1. /\ Got(e, o)' = Got(e, o) + 1 /\ emitted[e][Got(e, o) + 1] = Head(queue[e])
        /\ \A x \in Emitters : x # e => Got(x, o)' = Got(x, o)
    BY <1>2, <1>5
  <2>2. <<e, Got(e, o) + 1>> \notin Seen(o)
    BY <1>3 DEF Seen
  <2>3. Seen(o)' = Seen(o) \cup {<<e, Got(e, o) + 1>>}
    <3>1. Got(e, o) \in Nat
      BY <1>3
    <3>2. 1 .. (Got(e, o) + 1) = (1 .. Got(e, o)) \cup {Got(e, o) + 1}
      BY <3>1
    <3>3. ASSUME NEW x \in Emitters \X Nat
          PROVE  x \in Seen(o)' <=> x \in Seen(o) \cup {<<e, Got(e, o) + 1>>}
      <4>1. x = <<x[1], x[2]>> /\ x[1] \in Emitters /\ x[2] \in Nat
        OBVIOUS
      <4>2. x \in Seen(o)' <=> x[2] \in 1 .. Got(x[1], o)'
        BY DEF Seen
      <4>3. x \in Seen(o) <=> x[2] \in 1 .. Got(x[1], o)
        BY DEF Seen
      <4>4. CASE x[1] = e
        BY <4>1, <4>2, <4>3, <4>4, <2>1, <3>2
      <4>5. CASE x[1] # e
        BY <4>1, <4>2, <4>3, <4>5, <2>1
      <4> QED
        BY <4>4, <4>5
    <3>4. Seen(o)' \subseteq Emitters \X Nat /\ Seen(o) \subseteq Emitters \X Nat
      BY DEF Seen
    <3>5. <<e, Got(e, o) + 1>> \in Emitters \X Nat
      BY <3>1
    <3> QED
      BY <3>3, <3>4, <3>5
  <2> QED
    BY <1>1, <1>5, <2>1, <2>2, <2>3 DEF EventAt
<1> QED
  BY <1>4, <1>5

\* So the collectors of an adapter change only when it is given an event, and then
\* by the weight of this event.
LEMMA EmitKeepsCounts ==
  ASSUME FanInv, NEW e \in Emitters, NEW es \in Seq(EventType), Emit(e, es), NEW o \in Adapters,
         NEW name \in Names
  PROVE  Ups(o, name)' = Ups(o, name) /\ Downs(o, name)' = Downs(o, name)
BY EmitKeepsSeen DEF Ups, Downs, Weight, GaugeStep, Tick

LEMMA HandCounts ==
  ASSUME FanInv, NEW e \in Emitters, Observe(e), NEW o \in Adapters, NEW name \in Names,
         IsFiniteSet(Ups(o, name)), IsFiniteSet(Downs(o, name))
  PROVE  /\ IsFiniteSet(Ups(o, name)') /\ IsFiniteSet(Downs(o, name)')
         /\ Cardinality(Ups(o, name)') - Cardinality(Downs(o, name)')
              = Cardinality(Ups(o, name)) - Cardinality(Downs(o, name))
                + (IF Chain[pos[e]] = o THEN Weight(name, Head(queue[e])) ELSE 0)
<1> DEFINE new == <<e, Got(e, o) + 1>>
           w == Weight(name, Head(queue[e]))
<1>1. Cardinality(Ups(o, name)) \in Nat /\ Cardinality(Downs(o, name)) \in Nat
  BY FS_CardinalityType
<1>2. CASE Chain[pos[e]] # o
  <2>1. Seen(o)' = Seen(o) /\ \A x : EventAt(x)' = EventAt(x)
    BY <1>2, HandKeepsSeen
  <2>2. Ups(o, name)' = Ups(o, name) /\ Downs(o, name)' = Downs(o, name)
    BY <2>1 DEF Ups, Downs, Weight, GaugeStep, Tick
  <2> QED
    BY <1>1, <1>2, <2>2
<1>3. CASE Chain[pos[e]] = o
  <2>1. /\ Seen(o)' = Seen(o) \cup {new} /\ new \notin Seen(o) /\ EventAt(new) = Head(queue[e])
        /\ \A x : EventAt(x)' = EventAt(x)
    BY <1>3, HandKeepsSeen
  <2>2. w \in {-1, 0, 1}
    <3>1. Head(queue[e]) \in EventType
      BY ObserveHands, HandKeepsFan
    <3> QED
      BY <3>1, WeightRange
  <2>3. new \notin Ups(o, name) /\ new \notin Downs(o, name)
    BY <2>1 DEF Ups, Downs
  <2>4. \A x : Weight(name, EventAt(x))' = Weight(name, EventAt(x))
    BY <2>1 DEF Weight, GaugeStep, Tick
  <2>5. Ups(o, name)' = {x \in Seen(o) \cup {new} : Weight(name, EventAt(x)) = 1}
    BY <2>1, <2>4 DEF Ups
  <2>6. Downs(o, name)' = {x \in Seen(o) \cup {new} : Weight(name, EventAt(x)) = -1}
    BY <2>1, <2>4 DEF Downs
  <2> HIDE DEF new, w
  <2>7. Weight(name, EventAt(new)) = w
    BY <2>1 DEF w
  <2>8. Ups(o, name)' = IF w = 1 THEN Ups(o, name) \cup {new} ELSE Ups(o, name)
    BY <2>2, <2>5, <2>7 DEF Ups
  <2>9. Downs(o, name)' = IF w = -1 THEN Downs(o, name) \cup {new} ELSE Downs(o, name)
    BY <2>2, <2>6, <2>7 DEF Downs
  <2>10. /\ IsFiniteSet(Ups(o, name)')
         /\ Cardinality(Ups(o, name)') = Cardinality(Ups(o, name)) + (IF w = 1 THEN 1 ELSE 0)
    <3>1. /\ IsFiniteSet(Ups(o, name) \cup {new})
          /\ Cardinality(Ups(o, name) \cup {new}) = Cardinality(Ups(o, name)) + 1
      BY <2>3, FS_AddElement
    <3> QED
      BY <1>1, <2>8, <3>1
  <2>11. /\ IsFiniteSet(Downs(o, name)')
         /\ Cardinality(Downs(o, name)')
              = Cardinality(Downs(o, name)) + (IF w = -1 THEN 1 ELSE 0)
    <3>1. /\ IsFiniteSet(Downs(o, name) \cup {new})
          /\ Cardinality(Downs(o, name) \cup {new}) = Cardinality(Downs(o, name)) + 1
      BY <2>3, FS_AddElement
    <3> QED
      BY <1>1, <2>9, <3>1
  <2>12. Cardinality(Ups(o, name)') - Cardinality(Downs(o, name)')
           = Cardinality(Ups(o, name)) - Cardinality(Downs(o, name)) + w
    BY <1>1, <2>2, <2>10, <2>11
  <2> QED
    BY <1>3, <2>10, <2>11, <2>12 DEF w
<1> QED
  BY <1>2, <1>3

\* What an observer has been given are events.
LEMMA GivenTyped ==
  ASSUME FanInv, NEW e \in Emitters, NEW o \in Adapters, NEW i \in 1 .. Got(e, o)
  PROVE  i \in 1 .. Out(e) /\ emitted[e][i] \in EventType
<1>1. i \in 1 .. Out(e)
  BY GotBounds
<1>2. emitted[e] \in Seq(EventType)
  BY DEF FanInv
<1> QED
  BY <1>1, <1>2 DEF Out

\* The levels slogobs logs at.
LEMMA LevelRange ==
  ASSUME NEW e \in EventType
  PROVE  SlogLevel(e) \in 0 .. 4
<1>1. e.kind \in Kinds
  BY DEF EventType
<1>2. DoneLevel(e) \in 0 .. 4 /\ GateLevel(e) \in 0 .. 4
  BY DEF DoneLevel, GateLevel, Debug, Info, Warn, Error
<1> QED
  BY <1>1, <1>2 DEF SlogLevel, Kinds, Debug, Info, Warn

\* Emitting leaves what the observers hold as true as it was.
LEMMA EmitKeepsHeld ==
  ASSUME FanInv, TapeInv, SlogInv, MeterInv,
         NEW e \in Emitters, NEW es \in Seq(EventType), Emit(e, es)
  PROVE  FanInv' /\ TapeInv' /\ SlogInv' /\ MeterInv'
<1>1. /\ FanInv'
      /\ \A x \in Emitters, o \in Adapters : Got(x, o)' = Got(x, o)
      /\ \A x \in Emitters : \A i \in 1 .. Out(x) : emitted'[x][i] = emitted[x][i]
  BY EmitKeepsFan
<1>2. tape' = tape /\ prom' = prom /\ otel' = otel /\ slog' = slog
  BY DEF Emit, meters
<1>3. \A x \in Emitters, o \in Adapters : \A i \in 1 .. Got(x, o) : emitted'[x][i] = emitted[x][i]
  <2>1. TAKE x \in Emitters, o \in Adapters
  <2>2. Got(x, o) \in 0 .. Out(x) /\ Out(x) \in Nat
    BY GotBounds
  <2>3. \A i \in 1 .. Got(x, o) : i \in 1 .. Out(x)
    BY <2>2
  <2> QED
    BY <1>1, <2>3
<1>4. "recorder" \in Adapters /\ "slog" \in Adapters /\ "prom" \in Adapters /\ "otel" \in Adapters
  BY DEF Adapters
<1>5. TapeInv'
  BY <1>1, <1>2, <1>3, <1>4 DEF TapeInv
<1>6. SlogInv'
  <2>1. \A x \in Emitters : \A i \in 1 .. Got(x, "slog") :
          SlogLevel(emitted[x][i])' = SlogLevel(emitted[x][i])
    <3>1. ASSUME NEW x \in Emitters, NEW i \in 1 .. Got(x, "slog")
          PROVE  SlogLevel(emitted[x][i])' = SlogLevel(emitted[x][i])
      <4>1. emitted'[x][i] = emitted[x][i]
        BY <1>3, <1>4
      <4> QED
        BY <4>1 DEF SlogLevel, DoneLevel, GateLevel, Debug, Info, Warn, Error
    <3> QED
      BY <3>1
  <2> QED
    BY <1>1, <1>2, <1>4, <2>1 DEF SlogInv
<1>7. MeterInv'
  <2>1. \A o \in Adapters, name \in Names :
          Ups(o, name)' = Ups(o, name) /\ Downs(o, name)' = Downs(o, name)
    BY EmitKeepsCounts
  <2>2. /\ Seen("prom")' = Seen("prom")
        /\ \A x \in Seen("prom") : EventAt(x)' = EventAt(x)
    BY <1>4, EmitKeepsSeen
  <2>3. Reported' = Reported
    BY <2>2 DEF Reported
  <2> QED
    BY <1>2, <1>4, <2>1, <2>3 DEF MeterInv, Counted
<1> QED
  BY <1>1, <1>5, <1>6, <1>7

\* The Recorder takes in the event it is given as its latest.
LEMMA ObserveKeepsTape ==
  ASSUME FanInv, TapeInv, NEW e \in Emitters, Observe(e)
  PROVE  TapeInv'
<1> DEFINE o == "recorder"
           event == Head(queue[e])
<1>1. o \in Adapters /\ ~Quiet(e) /\ Passes(e, pos[e]) /\ emitted' = emitted
  BY ObserveHands DEF Adapters
<1>2. /\ event \in EventType
      /\ \A x \in Emitters :
           IF x = e /\ Chain[pos[e]] = o
           THEN Got(x, o)' = Got(x, o) + 1 /\ emitted[x][Got(x, o) + 1] = event
           ELSE Got(x, o)' = Got(x, o)
  BY <1>1, HandKeepsFan
<1>3. /\ tape \in [Emitters -> Seq(EventType)]
      /\ \A x \in Emitters :
           Len(tape[x]) = Got(x, o) /\ \A i \in 1 .. Got(x, o) : tape[x][i] = emitted[x][i]
  BY DEF TapeInv
<1>4. tape' = IF Chain[pos[e]] = o THEN [tape EXCEPT ![e] = Append(tape[e], event)] ELSE tape
  BY DEF Observe
<1> HIDE DEF event
<1>5. CASE Chain[pos[e]] # o
  BY <1>1, <1>2, <1>3, <1>4, <1>5 DEF TapeInv
<1>6. CASE Chain[pos[e]] = o
  <2> DEFINE g == Got(e, o)
  <2>1. g \in Nat
    BY <1>1, GotBounds
  <2>2. tape[e] \in Seq(EventType) /\ Len(tape[e]) = g
    BY <1>3
  <2>3. /\ Append(tape[e], event) \in Seq(EventType) /\ Len(Append(tape[e], event)) = g + 1
        /\ \A i \in 1 .. g : Append(tape[e], event)[i] = tape[e][i]
        /\ Append(tape[e], event)[g + 1] = event
    BY <1>2, <2>2, AppendProperties
  <2>4. Got(e, o)' = g + 1 /\ emitted[e][g + 1] = event
    BY <1>2, <1>6
  <2>5. /\ tape'[e] = Append(tape[e], event)
        /\ \A x \in Emitters : x # e => tape'[x] = tape[x] /\ Got(x, o)' = Got(x, o)
        /\ tape' \in [Emitters -> Seq(EventType)]
    BY <1>2, <1>3, <1>4, <1>6, <2>3
  <2>6. \A i \in 1 .. g + 1 : tape'[e][i] = emitted[e][i]
    <3>1. \A i \in 1 .. g + 1 : i \in 1 .. g \/ i = g + 1
      BY <2>1
    <3>2. \A i \in 1 .. g : tape[e][i] = emitted[e][i]
      BY <1>3
    <3> QED
      BY <2>3, <2>4, <2>5, <3>1, <3>2
  <2>7. Len(tape'[e]) = g + 1
    BY <2>3, <2>5
  <2> HIDE DEF g
  <2>8. ASSUME NEW x \in Emitters
        PROVE  /\ Len(tape'[x]) = Got(x, o)'
               /\ \A i \in 1 .. Len(tape'[x]) : tape'[x][i] = emitted'[x][i]
    <3>1. CASE x = e
      BY <1>1, <2>4, <2>6, <2>7, <3>1
    <3>2. CASE x # e
      BY <1>1, <1>3, <2>5, <3>2
    <3> QED
      BY <3>1, <3>2
  <2> QED
    BY <2>5, <2>8 DEF TapeInv
<1> QED
  BY <1>5, <1>6

\* slogobs logs the event it is given.
LEMMA ObserveKeepsSlog ==
  ASSUME FanInv, SlogInv, NEW e \in Emitters, Observe(e)
  PROVE  SlogInv'
<1> DEFINE o == "slog"
           event == Head(queue[e])
           level == SlogLevel(event)
<1>1. o \in Adapters /\ ~Quiet(e) /\ Passes(e, pos[e]) /\ emitted' = emitted
  BY ObserveHands DEF Adapters
<1>2. /\ event \in EventType
      /\ \A x \in Emitters :
           IF x = e /\ Chain[pos[e]] = o
           THEN Got(x, o)' = Got(x, o) + 1 /\ emitted[x][Got(x, o) + 1] = event
           ELSE Got(x, o)' = Got(x, o)
  BY <1>1, HandKeepsFan
<1>3. slog' = IF Chain[pos[e]] = o THEN [slog EXCEPT ![e] = Louder(slog[e], level)] ELSE slog
  BY DEF Observe
<1>4. level \in 0 .. 4
  BY <1>2, LevelRange
<1>5. \A x, i : SlogLevel(emitted[x][i])' = SlogLevel(emitted[x][i])
  BY <1>1 DEF SlogLevel, DoneLevel, GateLevel, Debug, Info, Warn, Error
<1> HIDE DEF event
<1>6. CASE Chain[pos[e]] # o
  BY <1>2, <1>3, <1>5, <1>6 DEF SlogInv
<1>7. CASE Chain[pos[e]] = o
  <2>1. \A x \in Emitters : Got(x, o) \in Nat
    BY <1>1, GotBounds
  <2>2. Got(e, o)' = Got(e, o) + 1 /\ SlogLevel(emitted[e][Got(e, o) + 1]) = level
    BY <1>2, <1>7
  <2> HIDE DEF level
  <2>3. /\ slog[e] \in 0 .. 4 /\ slog \in [Emitters -> 0 .. 4]
        /\ \A i \in 1 .. Got(e, o) : SlogLevel(emitted[e][i]) <= slog[e]
        /\ slog[e] = 0 \/ \E i \in 1 .. Got(e, o) : SlogLevel(emitted[e][i]) = slog[e]
    BY DEF SlogInv
  <2>4. /\ slog'[e] = Louder(slog[e], level) /\ slog' \in [Emitters -> 0 .. 4]
        /\ \A x \in Emitters : x # e => slog'[x] = slog[x] /\ Got(x, o)' = Got(x, o)
    <3>1. Louder(slog[e], level) \in 0 .. 4
      BY <1>4, <2>3 DEF Louder
    <3> QED
      BY <1>2, <1>3, <1>7, <2>3, <3>1
  <2>5. \A i \in 1 .. Got(e, o) + 1 : i \in 1 .. Got(e, o) \/ i = Got(e, o) + 1
    BY <2>1
  <2>6. (1 .. Got(e, o)) \cup {Got(e, o) + 1} \subseteq 1 .. Got(e, o) + 1
    BY <2>1
  <2>7. ASSUME NEW i \in 1 .. Got(e, o) + 1 PROVE SlogLevel(emitted[e][i]) <= slog'[e]
    <3>1. SlogLevel(emitted[e][i]) \in 0 .. 4
      <4>1. CASE i \in 1 .. Got(e, o)
        BY <1>1, <4>1, GivenTyped, LevelRange
      <4>2. CASE i = Got(e, o) + 1
        BY <1>4, <2>2, <4>2
      <4> QED
        BY <2>5, <4>1, <4>2
    <3> QED
      BY <1>4, <2>2, <2>3, <2>4, <2>5, <3>1 DEF Louder
  <2>8. slog'[e] = 0 \/ \E i \in 1 .. Got(e, o) + 1 : SlogLevel(emitted[e][i]) = slog'[e]
    <3>1. CASE slog[e] > level
      BY <2>3, <2>4, <2>6, <3>1 DEF Louder
    <3>2. CASE ~(slog[e] > level)
      BY <2>2, <2>4, <2>6, <3>2 DEF Louder
    <3> QED
      BY <3>1, <3>2
  <2>9. ASSUME NEW x \in Emitters
        PROVE  /\ \A i \in 1 .. Got(x, o)' : SlogLevel(emitted[x][i])' <= slog'[x]
               /\ slog'[x] = 0 \/ \E i \in 1 .. Got(x, o)' : SlogLevel(emitted[x][i])' = slog'[x]
    <3>1. CASE x = e
      BY <1>5, <2>2, <2>7, <2>8, <3>1
    <3>2. CASE x # e
      BY <1>5, <2>4, <3>2 DEF SlogInv
    <3> QED
      BY <3>1, <3>2
  <2> QED
    BY <2>4, <2>9 DEF SlogInv
<1> QED
  BY <1>6, <1>7

\* The size of a row of pairs.
LEMMA RowSize ==
  ASSUME NEW a, NEW n \in Nat
  PROVE  IsFiniteSet({a} \X (1 .. n)) /\ Cardinality({a} \X (1 .. n)) = n
<1>1. IsFiniteSet({a}) /\ Cardinality({a}) = 1
  BY FS_Singleton
<1>2. IsFiniteSet(1 .. n) /\ Cardinality(1 .. n) = n
  BY FS_Interval
<1>3. \A S, T : IsFiniteSet(S) /\ IsFiniteSet(T) =>
               /\ IsFiniteSet(S \X T)
               /\ Cardinality(S \X T) = Cardinality(S) * Cardinality(T)
  BY FS_Product
<1>4. /\ IsFiniteSet({a} \X (1 .. n))
      /\ Cardinality({a} \X (1 .. n)) = Cardinality({a}) * Cardinality(1 .. n)
  BY <1>1, <1>2, <1>3, Zenon
<1> QED
  BY <1>1, <1>2, <1>4

\* promobs and otelobs count the event they are given.
LEMMA ObserveKeepsMeters ==
  ASSUME FanInv, MeterInv, NEW e \in Emitters, Observe(e)
  PROVE  MeterInv'
<1> DEFINE event == Head(queue[e])
<1>1. "prom" \in Adapters /\ "otel" \in Adapters
  BY DEF Adapters
<1>2. event \in EventType
  BY ObserveHands, HandKeepsFan
<1>3. /\ prom' = IF Chain[pos[e]] = "prom" THEN PromObserve(prom, event) ELSE prom
      /\ otel' = IF Chain[pos[e]] = "otel" THEN OtelObserve(otel, event) ELSE otel
  BY DEF Observe
<1> HIDE DEF event
<1>4. prom \in Meter /\ otel \in Meter
  BY DEF MeterInv, Counted
<1>5. \A name \in Names : Weight(name, event) \in Int /\ prom[name] \in Int /\ otel[name] \in Int
  BY <1>2, <1>4, WeightRange DEF Meter
<1>6. /\ prom' \in Meter
      /\ \A name \in Names :
           prom'[name] = prom[name] + (IF Chain[pos[e]] = "prom" THEN Weight(name, event) ELSE 0)
  BY <1>2, <1>3, <1>4, <1>5, AdaptersCount
<1>7. /\ otel' \in Meter
      /\ \A name \in Names :
           otel'[name] = otel[name] + (IF Chain[pos[e]] = "otel" THEN Weight(name, event) ELSE 0)
  BY <1>2, <1>3, <1>4, <1>5, AdaptersCount
<1>8. Counted("prom", prom)'
  BY <1>1, <1>6, HandCounts DEF MeterInv, Counted, event
<1>9. Counted("otel", otel)'
  BY <1>1, <1>7, HandCounts DEF MeterInv, Counted, event
<1>10. IsFiniteSet(Reported)' /\ (prom["own"] = Cardinality(Reported))'
  <2> DEFINE new == <<e, Got(e, "prom") + 1>>
  <2>1. IsFiniteSet(Reported) /\ prom["own"] = Cardinality(Reported) /\ prom["own"] \in Int
    BY <1>4 DEF MeterInv, Meter
  <2>2. CASE Chain[pos[e]] # "prom"
    <3>1. Seen("prom")' = Seen("prom") /\ \A x : EventAt(x)' = EventAt(x)
      BY <1>1, <2>2, HandKeepsSeen
    <3> QED
      BY <1>3, <2>1, <2>2, <3>1 DEF Reported
  <2>3. CASE Chain[pos[e]] = "prom"
    <3>1. /\ Seen("prom")' = Seen("prom") \cup {new} /\ new \notin Seen("prom")
          /\ EventAt(new) = event /\ \A x : EventAt(x)' = EventAt(x)
      BY <1>1, <2>3, HandKeepsSeen DEF event
    <3>2. prom'["own"] = prom["own"] + (IF event.kind = "call_done" THEN event.n ELSE 0)
      BY <1>2, <1>3, <1>4, <2>3, AdaptersCount
    <3> DEFINE added == IF event.kind = "call_done" THEN {new} \X (1 .. event.n) ELSE {}
    <3> HIDE DEF new
    <3>3. event.n \in Nat
      BY <1>2 DEF EventType
    <3>4. Reported' = Reported \cup added /\ Reported \cap added = {}
      <4>1. Reported' = {y \in (Seen("prom") \cup {new}) \X Nat :
                           EventAt(y[1]).kind = "call_done" /\ y[2] \in 1 .. EventAt(y[1]).n}
        BY <3>1 DEF Reported
      <4>2. \A k \in 1 .. event.n : k \in Nat
        BY <3>3
      <4>3. Reported \subseteq Seen("prom") \X Nat
        BY DEF Reported
      <4>4. \A y \in added : y[1] = new
        OBVIOUS
      <4> QED
        BY <3>1, <4>1, <4>2, <4>3, <4>4 DEF Reported
    <3>5. IsFiniteSet(added) /\ Cardinality(added) = IF event.kind = "call_done" THEN event.n ELSE 0
      <4>1. /\ IsFiniteSet({new} \X (1 .. event.n))
            /\ Cardinality({new} \X (1 .. event.n)) = event.n
        BY <3>3, RowSize
      <4> QED
        BY <4>1, FS_EmptySet
    <3> HIDE DEF added
    <3>6. /\ IsFiniteSet(Reported \cup added)
          /\ Cardinality(Reported \cup added)
               = Cardinality(Reported) + Cardinality(added) - Cardinality(Reported \cap added)
      BY <2>1, <3>5, FS_Union
    <3>7. Cardinality(Reported \cap added) = 0
      BY <3>4, FS_EmptySet
    <3>8. Cardinality(Reported \cup added) = prom'["own"]
      BY <2>1, <3>2, <3>3, <3>5, <3>6, <3>7
    <3> QED
      BY <3>4, <3>6, <3>8
  <2> QED
    BY <2>2, <2>3
<1> QED
  BY <1>8, <1>9, <1>10 DEF MeterInv

-----------------------------------------------------------------------------
(* What the calls emit.                                                     *)

\* The events of a call are events, and the reports of hooks are calm.
LEMMA EventsTyped ==
  /\ CallStart \in EventType /\ WaitEvent \in Mid
  /\ \A o \in Outcome : AttemptEvent(o) \in Between /\ AttemptEvent(o).kind = "attempt"
  /\ \A o \in Outcome : Loud(AttemptEvent(o)) => o # "success"
  /\ \A a \in {"rejected", "timeout", "waited"} : GateEvent(a) \in Mid
  /\ GateEvent("waited") \in Calm
  /\ \A p \in Phases : Event("hook", p, 0) \in Calm
  /\ \A r \in Results, n \in Nat : CallDone(r, n) \in EventType
  /\ \A e \in Mid : e \in Between /\ e.kind # "attempt"
  /\ ~Loud(CallStart) /\ \A r, n : ~Loud(CallDone(r, n))
<1> USE DEF Event, EventType, Kinds, Labels
<1>1. CallStart \in EventType /\ WaitEvent \in Mid /\ ~Loud(CallStart)
  <2>1. CallStart \in EventType /\ CallStart.kind = "call_start"
    BY DEF CallStart
  <2>2. WaitEvent \in Mid
    BY DEF WaitEvent, Mid
  <2>3. SlogLevel(CallStart) = 0
    BY <2>1 DEF SlogLevel, Debug, Info, Warn
  <2>4. ~Loud(CallStart)
    BY <2>3 DEF Loud, Debug
  <2> QED
    BY <2>1, <2>2, <2>4
<1>2. \A o \in Outcome : AttemptEvent(o) \in Between /\ AttemptEvent(o).kind = "attempt"
  BY DEF AttemptEvent, Between
<1>3. \A o \in Outcome : Loud(AttemptEvent(o)) => o # "success"
  BY DEF AttemptEvent, Outcome, Loud, SlogLevel, Debug
<1>4. \A a \in {"rejected", "timeout", "waited"} : GateEvent(a) \in Mid
  BY DEF GateEvent, Mid
<1>5. GateEvent("waited") \in Calm
  BY <1>4 DEF Calm, Loud
<1>6. ASSUME NEW p \in Phases PROVE Event("hook", p, 0) \in Calm
  <2>1. Event("hook", p, 0) \in Mid /\ Event("hook", p, 0).kind = "hook"
    BY DEF Mid
  <2>2. SlogLevel(Event("hook", p, 0)) = Debug
    BY <2>1 DEF SlogLevel
  <2> QED
    BY <2>1, <2>2 DEF Calm, Loud, Debug
<1>7. \A r \in Results, n \in Nat : CallDone(r, n) \in EventType
  BY DEF CallDone
<1>8. \A e \in Mid : e \in Between /\ e.kind # "attempt"
  BY DEF Mid, Between
<1>9. \A r, n : ~Loud(CallDone(r, n))
  BY DEF CallDone, Loud
<1> QED
  BY <1>1, <1>2, <1>3, <1>4, <1>5, <1>6, <1>7, <1>8, <1>9

\* One event is a sequence, and so are two that are put together.
LEMMA Joined ==
  ASSUME NEW S
  PROVE  /\ <<>> \in Seq(S)
         /\ \A e \in S : <<e>> \in Seq(S)
         /\ \A s, t \in Seq(S) : s \o t \in Seq(S)
BY ConcatProperties

\* What is emitted on the way to a request or to the end: no attempts, and nothing
\* loud before the first request.
LEMMA WayEvents ==
  ASSUME NEW c \in Calls, sent[c] \in Nat
  PROVE  /\ \A p \in Phases : HookEvents(p) \in Seq(Mid) /\ HookEvents(p) \in Seq(Calm)
         /\ Announced(c) \in Seq(Mid)
         /\ Refused(c) \subseteq Seq(Mid) /\ Passed(c) \subseteq Seq(Mid)
         /\ Cleared(c) \subseteq Seq(Mid)
         /\ sent[c] = 0 => Cleared(c) \subseteq Seq(Calm)
<1>1. Calm \subseteq Mid
  BY DEF Calm
<1>2. \A s \in Seq(Calm) : s \in Seq(Mid)
  BY <1>1, SeqMonotonic
<1>3. ASSUME NEW p \in Phases PROVE HookEvents(p) \in Seq(Calm)
  <2>1. <<Event("hook", p, 0)>> \in Seq(Calm) /\ <<>> \in Seq(Calm)
    BY EventsTyped, Joined
  <2> QED
    BY <2>1 DEF HookEvents
<1>4. Announced(c) \in Seq(Mid) /\ (sent[c] = 0 => Announced(c) \in Seq(Calm))
  <2>1. <<WaitEvent>> \in Seq(Mid) /\ <<>> \in Seq(Mid) /\ <<>> \in Seq(Calm)
    BY EventsTyped, Joined
  <2> QED
    BY <2>1 DEF Announced
<1>5. /\ \A a \in {"rejected", "timeout", "waited"} : <<GateEvent(a)>> \in Seq(Mid)
      /\ <<GateEvent("waited")>> \in Seq(Calm)
  BY EventsTyped, Joined
<1>6. Refused(c) \subseteq Seq(Mid)
  <2>1. \A a \in {"rejected", "timeout"} : Announced(c) \o <<GateEvent(a)>> \in Seq(Mid)
    BY <1>4, <1>5, Joined
  <2> QED
    BY <2>1 DEF Refused
<1>7. Passed(c) \subseteq Seq(Mid) /\ (sent[c] = 0 => Passed(c) \subseteq Seq(Calm))
  <2>1. Announced(c) \o <<GateEvent("waited")>> \in Seq(Mid)
    BY <1>4, <1>5, Joined
  <2>2. sent[c] = 0 => Announced(c) \o <<GateEvent("waited")>> \in Seq(Calm)
    BY <1>4, <1>5, Joined
  <2> QED
    BY <1>4, <2>1, <2>2 DEF Passed
<1>8. Cleared(c) \subseteq Seq(Mid) /\ (sent[c] = 0 => Cleared(c) \subseteq Seq(Calm))
  <2> DEFINE h == IF last[c] = "unknown" THEN HookEvents("reconcile") ELSE <<>>
  <2>1. h \in Seq(Calm) /\ h \in Seq(Mid)
    BY <1>2, <1>3, Joined DEF Phases
  <2>2. Cleared(c) = {w \o h : w \in Passed(c)}
    BY DEF Cleared
  <2> HIDE DEF h
  <2>3. \A w \in Passed(c) : w \o h \in Seq(Mid) /\ (sent[c] = 0 => w \o h \in Seq(Calm))
    BY <1>7, <2>1, Joined
  <2> QED
    BY <2>2, <2>3
<1> QED
  BY <1>2, <1>3, <1>4, <1>6, <1>7, <1>8

\* So are the events before the end, none when the call succeeds.
LEMMA ClosingEvents ==
  ASSUME NEW c \in Calls, sent[c] \in Nat, NEW r \in P!Justified(c)
  PROVE  /\ r \in Results \ {"panic", "none"}
         /\ Closing(c, r) \subseteq Seq(Mid)
         /\ r = "success" => Closing(c, r) \subseteq {<<>>} /\ last[c] = "success"
<1> DEFINE given == HookEvents("give_up")
           before == HookEvents("before")
           afterAttempt == IF last[c] = "none" THEN {} ELSE {<<>>}
           afterGiveUp == IF last[c] \in Retryable THEN {given} ELSE {}
           afterRefusal == IF P!MaySend(c) THEN {w \o given : w \in Refused(c)} ELSE {}
           beforeNext == IF P!MaySend(c) THEN {w \o before : w \in Cleared(c)} ELSE {}
           afterReconcile == IF P!MaySend(c) /\ last[c] = "unknown" THEN Cleared(c) ELSE {}
<1>1. /\ r \in Results \ {"panic", "none"}
      /\ r = "success" => last[c] = "success"
  BY DEF P!Justified, Results, GiveUpResults
<1>2. /\ given \in Seq(Mid) /\ before \in Seq(Mid) /\ <<>> \in Seq(Mid)
      /\ Announced(c) \in Seq(Mid) /\ Cleared(c) \subseteq Seq(Mid) /\ Refused(c) \subseteq Seq(Mid)
  BY WayEvents, Joined DEF Phases
<1>3. Closing(c, r) =
        CASE r \in {"success", "non_retryable"} -> {<<>>}
          [] r = "downstream_unhealthy" -> afterRefusal
          [] r \in GiveUpResults \ {"downstream_unhealthy"} -> {given}
          [] r = "fallback" -> afterGiveUp \cup afterRefusal
          [] r = "canceled" -> {Announced(c)}
          [] r = "body_error" -> IF sent[c] > 0 THEN Cleared(c) ELSE {<<>>}
          [] r = "reconciled" -> afterReconcile
          [] r = "short_circuit" -> afterAttempt \cup beforeNext
          [] r = "hook_aborted" ->
               afterAttempt \cup afterGiveUp \cup afterRefusal \cup beforeNext \cup afterReconcile
  BY DEF Closing
<1> HIDE DEF given, before
<1>4. /\ \A w \in Refused(c) : w \o given \in Seq(Mid)
      /\ \A w \in Cleared(c) : w \o before \in Seq(Mid)
  BY <1>2, Joined
<1>5. /\ afterAttempt \subseteq Seq(Mid) /\ afterGiveUp \subseteq Seq(Mid)
      /\ afterRefusal \subseteq Seq(Mid) /\ beforeNext \subseteq Seq(Mid)
      /\ afterReconcile \subseteq Seq(Mid)
  BY <1>2, <1>4
<1> HIDE DEF afterAttempt, afterGiveUp, afterRefusal, beforeNext, afterReconcile
<1>6. Closing(c, "success") \subseteq {<<>>}
  BY DEF Closing, GiveUpResults
<1>7. Closing(c, r) \subseteq Seq(Mid)
  <2>1. CASE r \in {"success", "non_retryable"}
    BY <1>2, <1>3, <2>1
  <2>2. CASE r = "downstream_unhealthy"
    BY <1>3, <1>5, <2>2
  <2>3. CASE r \in GiveUpResults \ {"downstream_unhealthy"}
    BY <1>2, <1>3, <2>3 DEF GiveUpResults
  <2>4. CASE r = "fallback"
    BY <1>3, <1>5, <2>4 DEF GiveUpResults
  <2>5. CASE r = "canceled"
    BY <1>2, <1>3, <2>5 DEF GiveUpResults
  <2>6. CASE r = "body_error"
    BY <1>2, <1>3, <2>6 DEF GiveUpResults
  <2>7. CASE r = "reconciled"
    BY <1>3, <1>5, <2>7 DEF GiveUpResults
  <2>8. CASE r = "short_circuit"
    BY <1>3, <1>5, <2>8 DEF GiveUpResults
  <2>9. CASE r = "hook_aborted"
    BY <1>3, <1>5, <2>9 DEF GiveUpResults
  <2> QED
    BY <1>1, <2>1, <2>2, <2>3, <2>4, <2>5, <2>6, <2>7, <2>8, <2>9 DEF Results
<1> QED
  BY <1>1, <1>6, <1>7

-----------------------------------------------------------------------------
(* The steps of the calls.                                                  *)

\* One call changes, to these values.
Changes(c, st, s, t, l, r) ==
  /\ CallType'
  /\ stage'[c] = st /\ sent'[c] = s /\ told'[c] = t /\ last'[c] = l /\ result'[c] = r
  /\ \A d \in Calls : d # c =>
       /\ stage'[d] = stage[d] /\ sent'[d] = sent[d] /\ told'[d] = told[d]
       /\ last'[d] = last[d] /\ result'[d] = result[d]

\* What the actions of the protocol do to it.
LEMMA ProtocolSteps ==
  ASSUME CallType, NEW c \in Calls
  PROVE  /\ P!Begin(c) => /\ stage[c] = "idle"
                          /\ Changes(c, "open", sent[c], told[c], last[c], result[c])
         /\ P!Transmit(c) => /\ stage[c] = "open"
                             /\ Changes(c, "flying", sent[c] + 1, told[c], last[c], result[c])
         /\ \A o \in Outcome : P!Tell(c, o) =>
              /\ stage[c] = "flying"
              /\ Changes(c, "open", sent[c], told[c] + 1, o, result[c])
         /\ P!Abandon(c) => /\ stage[c] = "flying"
                            /\ Changes(c, "done", sent[c], told[c] + 1, last[c], "canceled")
         /\ \A r \in Results : P!End(c, r) =>
              /\ stage[c] = "open" /\ r \in P!Justified(c)
              /\ Changes(c, "done", sent[c], told[c], last[c], r)
         /\ P!Crash(c) => /\ stage[c] \in {"open", "flying"}
                          /\ Changes(c, "done", sent[c], told[c], last[c], "panic")
<1> USE DEF CallType, Changes
<1>1. P!Begin(c) => /\ stage[c] = "idle"
                    /\ Changes(c, "open", sent[c], told[c], last[c], result[c])
  BY DEF P!Begin
<1>2. P!Transmit(c) => /\ stage[c] = "open"
                       /\ Changes(c, "flying", sent[c] + 1, told[c], last[c], result[c])
  BY DEF P!Transmit
<1>3. ASSUME NEW o \in Outcome, P!Tell(c, o)
      PROVE  stage[c] = "flying" /\ Changes(c, "open", sent[c], told[c] + 1, o, result[c])
  BY <1>3 DEF P!Tell
<1>4. "canceled" \in Results /\ "panic" \in Results
  BY DEF Results
<1>5. P!Abandon(c) => /\ stage[c] = "flying"
                      /\ Changes(c, "done", sent[c], told[c] + 1, last[c], "canceled")
  BY <1>4 DEF P!Abandon
<1>6. ASSUME NEW r \in Results, P!End(c, r)
      PROVE  /\ stage[c] = "open" /\ r \in P!Justified(c)
             /\ Changes(c, "done", sent[c], told[c], last[c], r)
  BY <1>6 DEF P!End
<1>7. P!Crash(c) => /\ stage[c] \in {"open", "flying"}
                    /\ Changes(c, "done", sent[c], told[c], last[c], "panic")
  BY <1>4 DEF P!Crash
<1> QED
  BY <1>1, <1>2, <1>3, <1>5, <1>6, <1>7

\* A call that keeps to the rule of its new stage keeps the invariant of all calls.
LEMMA CallKeeps ==
  ASSUME CallInv, NEW c \in Calls, NEW st, NEW s, NEW t, NEW l, NEW r,
         Changes(c, st, s, t, l, r), CallRule(c)'
  PROVE  CallInv'
<1>1. \A d \in Calls : CallRule(d)'
  BY DEF CallInv, Changes, CallRule
<1>2. IsFiniteSet(Started \cup {c})
  BY FS_AddElement DEF CallInv
<1>3. Started' \in SUBSET (Started \cup {c})
  BY DEF Started, Changes
<1>4. IsFiniteSet(Started')
  BY <1>2, <1>3, FS_Subset
<1> QED
  BY <1>1, <1>4 DEF CallInv, Changes

\* What a step of call c emits begins its history if the call is new and ends it if the
\* step takes the call to its end.
Framed(c, es, st, s, r) ==
  /\ stage[c] = "idle" => Len(es) > 0
  /\ \A i \in 1 .. Len(es) : es[i].kind = "call_start" <=> stage[c] = "idle" /\ i = 1
  /\ \A i \in 1 .. Len(es) : es[i].kind = "call_done" <=> st = "done" /\ i = Len(es)
  /\ st = "done" => Len(es) > 0 /\ es[Len(es)] = CallDone(r, s)

\* A call that is not over emits its start first and its end last.
LEMMA HistoryKeeps ==
  ASSUME FanInv, HistoryInv, NEW c \in Calls, NEW es \in Seq(EventType), Emit(c, es),
         NEW st, NEW s, NEW t, NEW l, NEW r, Changes(c, st, s, t, l, r),
         stage[c] # "done", st # "idle", Framed(c, es, st, s, r)
  PROVE  HistoryInv' /\ (LoopInv => LoopInv')
<1>0. PICK n \in Nat : /\ Len(es) = n /\ (stage[c] = "idle" => n > 0)
                       /\ \A i \in 1 .. n : es[i].kind = "call_start" <=> stage[c] = "idle" /\ i = 1
                       /\ \A i \in 1 .. n : es[i].kind = "call_done" <=> st = "done" /\ i = n
                       /\ st = "done" => n > 0 /\ es[n] = CallDone(r, s)
  BY LenProperties DEF Framed
<1>1. /\ c \in Emitters /\ "loop" \in Emitters /\ c # "loop"
      /\ \A d \in Calls : d \in Emitters
  BY ObserversAssumption DEF Emitters
<1>2. /\ \A x \in Emitters : x # c => emitted'[x] = emitted[x] /\ Out(x)' = Out(x)
      /\ Out(c)' = Out(c) + n
      /\ \A i \in 1 .. Out(c) : emitted'[c][i] = emitted[c][i]
      /\ \A i \in 1 .. n : emitted'[c][Out(c) + i] = es[i]
  BY <1>0, <1>1, EmitKeepsFan
<1>3. LoopInv => LoopInv'
  BY <1>1, <1>2 DEF LoopInv
<1>4. Out(c) \in Nat /\ (Out(c) = 0 <=> stage[c] = "idle")
  BY <1>1, Lengths DEF HistoryInv
<1>5. stage'[c] = st /\ sent'[c] = s /\ result'[c] = r
  BY DEF Changes
<1>6. ASSUME NEW i \in 1 .. Out(c)'
      PROVE  /\ emitted'[c][i].kind = "call_start" <=> i = 1
             /\ emitted'[c][i].kind = "call_done" <=> st = "done" /\ i = Out(c)'
  <2>1. CASE i \in 1 .. Out(c)
    <3>1. emitted'[c][i] = emitted[c][i]
      BY <1>2, <2>1
    <3>2. /\ emitted[c][i].kind = "call_start" <=> i = 1
          /\ emitted[c][i].kind = "call_done" <=> stage[c] = "done" /\ i = Out(c)
      BY <2>1 DEF HistoryInv
    <3>3. st = "done" => i # Out(c)'
      BY <1>0, <1>2, <1>4, <2>1
    <3> QED
      BY <3>1, <3>2, <3>3
  <2>2. CASE i \notin 1 .. Out(c)
    <3>1. PICK k \in 1 .. n : i = Out(c) + k
      <4>1. i - Out(c) \in 1 .. n /\ i = Out(c) + (i - Out(c))
        BY <1>2, <1>4, <2>2
      <4> QED
        BY <4>1
    <3>2. emitted'[c][i] = es[k]
      BY <1>2, <3>1
    <3>3. (i = 1 <=> stage[c] = "idle" /\ k = 1) /\ (i = Out(c)' <=> k = n)
      BY <1>2, <1>4, <3>1
    <3> QED
      BY <1>0, <3>2, <3>3
  <2> QED
    BY <2>1, <2>2
<1>7. ASSUME st = "done" PROVE emitted'[c][Out(c)'] = CallDone(r, s)
  <2>1. n \in 1 .. n
    BY <1>0, <1>7
  <2> QED
    BY <1>0, <1>2, <1>7, <2>1
<1>8. Out(c)' = 0 <=> st = "idle"
  BY <1>0, <1>2, <1>4
<1>9. ASSUME NEW d \in Calls
      PROVE  /\ Out(d)' = 0 <=> stage'[d] = "idle"
             /\ \A i \in 1 .. Out(d)' :
                  /\ emitted'[d][i].kind = "call_start" <=> i = 1
                  /\ emitted'[d][i].kind = "call_done" <=> stage'[d] = "done" /\ i = Out(d)'
             /\ stage'[d] = "done" => emitted'[d][Out(d)'] = CallDone(result'[d], sent'[d])
  <2>1. CASE d = c
    BY <1>5, <1>6, <1>7, <1>8, <2>1
  <2>2. CASE d # c
    <3>1. /\ emitted'[d] = emitted[d] /\ Out(d)' = Out(d) /\ stage'[d] = stage[d]
          /\ sent'[d] = sent[d] /\ result'[d] = result[d]
      BY <1>1, <1>2, <2>2 DEF Changes
    <3> QED
      BY <3>1 DEF HistoryInv
  <2> QED
    BY <2>1, <2>2
<1>10. \A d \in Calls : CallDone(result[d], sent[d])' = CallDone(result'[d], sent'[d])
  BY DEF CallDone, Event
<1> QED
  BY <1>3, <1>9, <1>10 DEF HistoryInv

\* A call becomes loud only when it is in trouble.
LEMMA LoudKeeps ==
  ASSUME FanInv, LoudInv, NEW c \in Calls, NEW es \in Seq(EventType), Emit(c, es),
         NEW st, NEW s, NEW t, NEW l, NEW r, Changes(c, st, s, t, l, r), NEW n \in Nat, Len(es) = n,
         Troubled(c) => Troubled(c)',
         (\E i \in 1 .. n : Loud(es[i])) => Troubled(c)'
  PROVE  LoudInv'
<1>1. c \in Emitters /\ \A d \in Calls : d \in Emitters
  BY DEF Emitters
<1>2. /\ \A x \in Emitters : x # c => emitted'[x] = emitted[x] /\ Out(x)' = Out(x)
      /\ Out(c)' = Out(c) + n
      /\ \A i \in 1 .. Out(c) : emitted'[c][i] = emitted[c][i]
      /\ \A i \in 1 .. n : emitted'[c][Out(c) + i] = es[i]
  BY <1>1, EmitKeepsFan
<1>3. Out(c) \in Nat
  BY <1>1, Lengths
<1>4. \A d, i : Loud(emitted[d][i])' <=> Loud(emitted'[d][i])
  BY DEF Loud, SlogLevel, DoneLevel, GateLevel, GateEvent, Event, Debug, Info, Warn, Error
<1>5. ASSUME NEW i \in 1 .. Out(c)', Loud(emitted'[c][i]) PROVE Troubled(c)'
  <2>1. CASE i \in 1 .. Out(c)
    BY <1>2, <1>5, <2>1 DEF LoudInv
  <2>2. CASE i \notin 1 .. Out(c)
    <3>1. i - Out(c) \in 1 .. n /\ i = Out(c) + (i - Out(c))
      BY <1>2, <1>3, <2>2
    <3>2. emitted'[c][i] = es[i - Out(c)]
      BY <1>2, <3>1
    <3> QED
      BY <1>5, <3>1, <3>2
  <2> QED
    BY <2>1, <2>2
<1>6. ASSUME NEW d \in Calls, d # c, NEW i \in 1 .. Out(d)', Loud(emitted'[d][i])
      PROVE  Troubled(d)'
  <2>1. i \in 1 .. Out(d) /\ Loud(emitted[d][i])
    BY <1>1, <1>2, <1>6
  <2>2. Troubled(d)
    BY <2>1 DEF LoudInv
  <2> QED
    BY <1>6, <2>2 DEF Troubled, Changes
<1> QED
  BY <1>4, <1>5, <1>6 DEF LoudInv

\* The attempts reported after a step of a call.
LEMMA AttemptsGrow ==
  ASSUME FanInv, NEW c \in Calls, NEW es \in Seq(EventType), Emit(c, es),
         NEW n \in Nat, Len(es) = n
  PROVE  /\ Attempts \subseteq Attempts'
         /\ \A x \in Attempts' \ Attempts : \E k \in 1 .. n :
              x = <<c, Out(c) + k>> /\ es[k].kind = "attempt"
         /\ \A k \in 1 .. n : /\ <<c, Out(c) + k>> \notin Attempts
                              /\ es[k].kind = "attempt" => <<c, Out(c) + k>> \in Attempts'
<1>1. c \in Emitters /\ \A d \in Calls : d \in Emitters
  BY DEF Emitters
<1>2. /\ \A x \in Emitters : x # c => emitted'[x] = emitted[x] /\ Out(x)' = Out(x)
      /\ Out(c)' = Out(c) + n
      /\ \A x \in Emitters : \A i \in 1 .. Out(x) : emitted'[x][i] = emitted[x][i]
      /\ \A i \in 1 .. n : emitted'[c][Out(c) + i] = es[i]
  BY <1>1, EmitKeepsFan
<1>3. \A d \in Calls : Out(d) \in Nat
  BY <1>1, Lengths
<1>4. \A d \in Calls : 1 .. Out(d) \subseteq 1 .. Out(d)'
  BY <1>1, <1>2, <1>3
<1>5. ASSUME NEW x \in Attempts PROVE x \in Attempts'
  <2>1. x \in Calls \X Nat /\ x[1] \in Calls /\ x[2] \in 1 .. Out(x[1])
    BY DEF Attempts
  <2>2. EventAt(x)' = EventAt(x)
    BY <1>1, <1>2, <2>1 DEF EventAt
  <2> QED
    BY <1>4, <2>1, <2>2 DEF Attempts
<1>6. ASSUME NEW x \in Attempts', x \notin Attempts
      PROVE  \E k \in 1 .. n : x = <<c, Out(c) + k>> /\ es[k].kind = "attempt"
  <2>1. /\ x \in Calls \X Nat /\ x[1] \in Calls /\ x[2] \in Nat /\ x = <<x[1], x[2]>>
        /\ x[2] \in 1 .. Out(x[1])' /\ emitted'[x[1]][x[2]].kind = "attempt"
    BY DEF Attempts, EventAt
  <2>2. x[2] \in 1 .. Out(x[1]) => emitted'[x[1]][x[2]] = emitted[x[1]][x[2]]
    BY <1>1, <1>2, <2>1
  <2>3. x[2] \notin 1 .. Out(x[1])
    BY <1>6, <2>1, <2>2 DEF Attempts, EventAt
  <2>4. x[1] = c
    BY <1>1, <1>2, <2>1, <2>3
  <2>5. x[2] - Out(c) \in 1 .. n /\ x[2] = Out(c) + (x[2] - Out(c))
    BY <1>2, <1>3, <2>1, <2>3, <2>4
  <2>6. emitted'[c][x[2]] = es[x[2] - Out(c)]
    BY <1>2, <2>5
  <2> QED
    BY <2>1, <2>4, <2>5, <2>6
<1>7. ASSUME NEW k \in 1 .. n
      PROVE  /\ <<c, Out(c) + k>> \notin Attempts
             /\ es[k].kind = "attempt" => <<c, Out(c) + k>> \in Attempts'
  <2>1. /\ Out(c) + k \in Nat /\ Out(c) + k \in 1 .. Out(c)' /\ Out(c) + k \notin 1 .. Out(c)
    BY <1>2, <1>3
  <2>2. emitted'[c][Out(c) + k] = es[k]
    BY <1>2
  <2> QED
    BY <2>1, <2>2 DEF Attempts, EventAt
<1> QED
  BY <1>5, <1>6, <1>7

\* A step of a call that tells of no attempt reports none.
LEMMA AttemptKeeps ==
  ASSUME FanInv, CallType, AttemptInv, NEW c \in Calls, NEW es \in Seq(EventType), Emit(c, es),
         NEW st, NEW s, NEW l, NEW r, Changes(c, st, s, told[c], l, r), NEW n \in Nat, Len(es) = n,
         \A i \in 1 .. n : es[i].kind # "attempt"
  PROVE  AttemptInv'
<1>1. Attempts' = Attempts
  <2>1. /\ Attempts \subseteq Attempts'
        /\ \A x \in Attempts' \ Attempts : \E k \in 1 .. n : es[k].kind = "attempt"
    BY AttemptsGrow
  <2> QED
    BY <2>1
<1>2. Told' = Told
  BY DEF Told, Changes
<1> QED
  BY <1>1, <1>2 DEF AttemptInv

\* A step that tells of an attempt reports one.
LEMMA AttemptAdds ==
  ASSUME FanInv, CallType, AttemptInv, NEW c \in Calls, NEW es \in Seq(EventType), Emit(c, es),
         NEW st, NEW s, NEW l, NEW r, Changes(c, st, s, told[c] + 1, l, r),
         NEW n \in Nat, Len(es) = n, NEW k \in 1 .. n,
         \A i \in 1 .. n : es[i].kind = "attempt" <=> i = k
  PROVE  AttemptInv'
<1> DEFINE x == <<c, Out(c) + k>>
           y == <<c, told[c] + 1>>
<1>1. Attempts' = Attempts \cup {x} /\ x \notin Attempts
  BY AttemptsGrow
<1>2. Told' = Told \cup {y} /\ y \notin Told
  <2>1. told[c] \in Nat /\ told'[c] = told[c] + 1 /\ \A d \in Calls : d # c => told'[d] = told[d]
    BY DEF CallType, Changes
  <2>2. 1 .. (told[c] + 1) = (1 .. told[c]) \cup {told[c] + 1} /\ told[c] + 1 \notin 1 .. told[c]
    BY <2>1
  <2>3. y \notin Told /\ y \in Calls \X Nat
    BY <2>1, <2>2 DEF Told
  <2>4. ASSUME NEW z \in Calls \X Nat PROVE z \in Told' <=> z \in Told \cup {y}
    <3>1. z = <<z[1], z[2]>> /\ z[1] \in Calls
      OBVIOUS
    <3>2. (z \in Told' <=> z[2] \in 1 .. told'[z[1]]) /\ (z \in Told <=> z[2] \in 1 .. told[z[1]])
      BY DEF Told
    <3>3. CASE z[1] = c
      BY <2>1, <2>2, <3>1, <3>2, <3>3
    <3>4. CASE z[1] # c
      BY <2>1, <3>1, <3>2, <3>4
    <3> QED
      BY <3>3, <3>4
  <2>5. Told \subseteq Calls \X Nat /\ Told' \subseteq Calls \X Nat
    BY DEF Told
  <2> HIDE DEF y
  <2> QED
    BY <2>3, <2>4, <2>5
<1> HIDE DEF x, y
<1>3. IsFiniteSet(Attempts') /\ Cardinality(Attempts') = Cardinality(Attempts) + 1
  BY <1>1, FS_AddElement DEF AttemptInv
<1>4. IsFiniteSet(Told') /\ Cardinality(Told') = Cardinality(Told) + 1
  BY <1>2, FS_AddElement DEF AttemptInv
<1> QED
  BY <1>3, <1>4 DEF AttemptInv

\* Events followed by one more.
LEMMA Ended ==
  ASSUME NEW S \in SUBSET EventType, NEW w \in Seq(S), NEW z \in EventType
  PROVE  /\ w \o <<z>> \in Seq(EventType)
         /\ \E m \in Nat : /\ Len(w \o <<z>>) = m + 1
                           /\ \A i \in 1 .. m : (w \o <<z>>)[i] \in S
                           /\ (w \o <<z>>)[m + 1] = z
<1>1. w \in Seq(EventType) /\ <<z>> \in Seq(EventType) /\ Len(w) \in Nat
  BY SeqMonotonic, Joined
<1>2. Len(<<z>>) = 1 /\ <<z>>[1] = z
  OBVIOUS
<1>3. /\ w \o <<z>> \in Seq(EventType)
      /\ Len(w \o <<z>>) = Len(w) + Len(<<z>>)
      /\ \A i \in 1 .. Len(w) + Len(<<z>>) :
           (w \o <<z>>)[i] = IF i <= Len(w) THEN w[i] ELSE <<z>>[i - Len(w)]
  BY <1>1, ConcatProperties, Zenon
<1>4. \A i \in 1 .. Len(w) : w[i] \in S
  BY ElementOfSeq
<1> DEFINE m == Len(w)
<1>5. m \in Nat
  BY <1>1
<1>6. \A i \in 1 .. m + 1 : (w \o <<z>>)[i] = IF i <= m THEN w[i] ELSE <<z>>[i - m]
  BY <1>2, <1>3
<1>7. Len(w \o <<z>>) = m + 1 /\ \A i \in 1 .. m : w[i] \in S
  BY <1>2, <1>3, <1>4
<1> HIDE DEF m
<1>8. \A i \in 1 .. m : i \in 1 .. m + 1 /\ i <= m
  BY <1>5
<1>9. m + 1 \in 1 .. m + 1 /\ ~(m + 1 <= m) /\ (m + 1) - m = 1
  BY <1>5
<1>10. (w \o <<z>>)[m + 1] = z
  BY <1>2, <1>6, <1>9
<1>11. \A i \in 1 .. m : (w \o <<z>>)[i] \in S
  BY <1>6, <1>7, <1>8
<1> QED
  BY <1>3, <1>5, <1>7, <1>10, <1>11

\* RoundTrip starts the call.
LEMMA BeginKeeps ==
  ASSUME ObserversInv, NEW c \in Calls, Begin(c)
  PROVE  ObserversInv'
<1> DEFINE es == <<CallStart>>
<1>1. P!Begin(c) /\ Emit(c, es)
  BY DEF Begin
<1>2. es \in Seq(EventType) /\ Len(es) = 1 /\ es[1] = CallStart
  BY EventsTyped, Joined
<1>3. c \in Emitters
  BY DEF Emitters
<1> HIDE DEF es
<1>4. FanInv' /\ TapeInv' /\ SlogInv' /\ MeterInv'
  BY <1>1, <1>2, <1>3, EmitKeepsHeld DEF ObserversInv
<1>5. /\ FanInv /\ CallInv /\ HistoryInv /\ LoopInv /\ AttemptInv /\ LoudInv
      /\ CallType /\ CallRule(c) /\ sent[c] \in Nat /\ told[c] \in Nat
  BY DEF ObserversInv, CallInv, CallType
<1>6. stage[c] = "idle" /\ Changes(c, "open", sent[c], told[c], last[c], result[c])
  BY <1>1, <1>5, ProtocolSteps
<1>7. CallInv'
  <2>1. CallRule(c)'
    BY <1>5, <1>6 DEF CallRule, Changes
  <2> QED
    BY <1>5, <1>6, <2>1, CallKeeps
<1>8. \A i \in 1 .. 1 : i = 1 /\ es[i] = CallStart
  BY <1>2
<1>9. CallStart.kind = "call_start" /\ ~Loud(CallStart)
  BY EventsTyped DEF CallStart, Event
<1>10. HistoryInv' /\ LoopInv'
  <2>1. Framed(c, es, "open", sent[c], result[c])
    BY <1>2, <1>6, <1>8, <1>9 DEF Framed
  <2> QED
    BY <1>1, <1>2, <1>5, <1>6, <2>1, HistoryKeeps
<1>11. AttemptInv'
  BY <1>1, <1>2, <1>5, <1>6, <1>8, <1>9, AttemptKeeps
<1>12. Troubled(c) => Troubled(c)'
  BY <1>6 DEF Troubled, Changes
<1>13. LoudInv'
  BY <1>1, <1>2, <1>5, <1>6, <1>8, <1>9, <1>12, LoudKeeps
<1> QED
  BY <1>4, <1>7, <1>10, <1>11, <1>13 DEF ObserversInv

\* A request goes out, after the way there.
LEMMA TransmitKeeps ==
  ASSUME ObserversInv, NEW c \in Calls, Transmit(c)
  PROVE  ObserversInv'
<1>1. /\ FanInv /\ CallInv /\ HistoryInv /\ LoopInv /\ AttemptInv /\ LoudInv
      /\ CallType /\ CallRule(c) /\ sent[c] \in Nat /\ told[c] \in Nat
  BY DEF ObserversInv, CallInv, CallType
<1>2. PICK w \in Cleared(c) : Emit(c, w \o HookEvents("before"))
  BY DEF Transmit
<1> DEFINE es == w \o HookEvents("before")
<1>3. /\ es \in Seq(Mid) /\ (sent[c] = 0 => es \in Seq(Calm))
  BY <1>1, WayEvents, Joined DEF Phases
<1>4. Emit(c, es) /\ c \in Emitters
  BY <1>2 DEF Emitters
<1> HIDE DEF es
<1>5. Mid \subseteq EventType
  BY DEF Mid
<1>6. es \in Seq(EventType)
  BY <1>3, <1>5, SeqMonotonic
<1>7. PICK n \in Nat : n = Len(es)
  BY <1>6
<1>8. \A i \in 1 .. n : es[i] \in Mid /\ (sent[c] = 0 => ~Loud(es[i]))
  BY <1>3, <1>7, ElementOfSeq DEF Calm
<1>9. \A i \in 1 .. n : /\ es[i].kind # "call_start" /\ es[i].kind # "call_done"
                        /\ es[i].kind # "attempt"
  BY <1>8 DEF Mid
<1>10. FanInv' /\ TapeInv' /\ SlogInv' /\ MeterInv'
  BY <1>4, <1>6, EmitKeepsHeld DEF ObserversInv
<1>11. /\ stage[c] = "open"
       /\ Changes(c, "flying", sent[c] + 1, told[c], last[c], result[c])
  BY <1>1, ProtocolSteps DEF Transmit
<1>12. CallInv'
  <2>1. CallRule(c)'
    BY <1>1, <1>11 DEF CallRule, Changes
  <2> QED
    BY <1>1, <1>11, <2>1, CallKeeps
<1>13. HistoryInv' /\ LoopInv'
  <2>1. Framed(c, es, "flying", sent[c] + 1, result[c])
    BY <1>7, <1>9, <1>11 DEF Framed
  <2> QED
    BY <1>1, <1>4, <1>6, <1>11, <2>1, HistoryKeeps
<1>14. AttemptInv'
  BY <1>1, <1>4, <1>6, <1>7, <1>9, <1>11, AttemptKeeps
<1>15. Troubled(c) => Troubled(c)'
  BY <1>1, <1>11 DEF Troubled, Changes
<1>16. (\E i \in 1 .. n : Loud(es[i])) => Troubled(c)'
  BY <1>1, <1>8, <1>11 DEF Troubled, Changes
<1>17. LoudInv'
  BY <1>1, <1>4, <1>6, <1>7, <1>11, <1>15, <1>16, LoudKeeps
<1> QED
  BY <1>10, <1>12, <1>13, <1>14, <1>17 DEF ObserversInv

\* An attempt is told of, after the After hooks.
LEMMA TellKeeps ==
  ASSUME ObserversInv, NEW c \in Calls, Tell(c)
  PROVE  ObserversInv'
<1>1. /\ FanInv /\ CallInv /\ HistoryInv /\ LoopInv /\ AttemptInv /\ LoudInv
      /\ CallType /\ CallRule(c) /\ sent[c] \in Nat /\ told[c] \in Nat
  BY DEF ObserversInv, CallInv, CallType
<1>2. PICK o \in Outcome : P!Tell(c, o) /\ Emit(c, HookEvents("after") \o <<AttemptEvent(o)>>)
  BY DEF Tell
<1> DEFINE es == HookEvents("after") \o <<AttemptEvent(o)>>
<1>3. HookEvents("after") \in Seq(Calm)
  BY <1>1, WayEvents DEF Phases
<1>4. /\ AttemptEvent(o) \in EventType /\ AttemptEvent(o).kind = "attempt"
      /\ Loud(AttemptEvent(o)) => o # "success"
      /\ Calm \in SUBSET EventType
  BY EventsTyped DEF Between, Calm, Mid
<1>5. /\ es \in Seq(EventType)
      /\ \E m \in Nat : /\ Len(es) = m + 1 /\ es[m + 1] = AttemptEvent(o)
                        /\ \A i \in 1 .. m : es[i] \in Calm
  BY <1>3, <1>4, Ended
<1>6. Emit(c, es) /\ c \in Emitters
  BY <1>2 DEF Emitters
<1> HIDE DEF es
<1>7. PICK m \in Nat : /\ Len(es) = m + 1 /\ es[m + 1] = AttemptEvent(o)
                       /\ \A i \in 1 .. m : es[i] \in Calm
  BY <1>5
<1>8. m + 1 \in Nat /\ m + 1 \in 1 .. m + 1 /\ \A i \in 1 .. m + 1 : i \in 1 .. m \/ i = m + 1
  OBVIOUS
<1>9. \A i \in 1 .. m + 1 : /\ es[i].kind # "call_start" /\ es[i].kind # "call_done"
                            /\ Loud(es[i]) => o # "success"
  BY <1>4, <1>7, <1>8 DEF Calm, Mid
<1>10. \A i \in 1 .. m + 1 : es[i].kind = "attempt" <=> i = m + 1
  BY <1>4, <1>7, <1>8 DEF Calm, Mid
<1>11. FanInv' /\ TapeInv' /\ SlogInv' /\ MeterInv'
  BY <1>5, <1>6, EmitKeepsHeld DEF ObserversInv
<1>12. /\ stage[c] = "flying"
       /\ Changes(c, "open", sent[c], told[c] + 1, o, result[c])
  BY <1>1, <1>2, ProtocolSteps
<1>13. CallInv'
  <2>1. CallRule(c)'
    BY <1>1, <1>12 DEF CallRule, Changes
  <2> QED
    BY <1>1, <1>12, <2>1, CallKeeps
<1>14. HistoryInv' /\ LoopInv'
  <2>1. Framed(c, es, "open", sent[c], result[c])
    BY <1>7, <1>9, <1>12 DEF Framed
  <2> QED
    BY <1>1, <1>5, <1>6, <1>12, <2>1, HistoryKeeps
<1>15. AttemptInv'
  BY <1>1, <1>5, <1>6, <1>7, <1>8, <1>10, <1>12, AttemptAdds
<1>16. Troubled(c) => Troubled(c)'
  BY <1>1, <1>12 DEF Troubled, Changes, CallRule
<1>17. (\E i \in 1 .. m + 1 : Loud(es[i])) => Troubled(c)'
  BY <1>1, <1>9, <1>12 DEF Troubled, Changes, CallRule
<1>18. LoudInv'
  BY <1>1, <1>5, <1>6, <1>7, <1>8, <1>12, <1>16, <1>17, LoudKeeps
<1> QED
  BY <1>11, <1>13, <1>14, <1>15, <1>18 DEF ObserversInv

\* A call ends, by itself or because of a panic, after the way there.
LEMMA FinishKeeps ==
  ASSUME ObserversInv, NEW c \in Calls, NEW r \in Results, stage[c] \in {"open", "flying"},
         Changes(c, "done", sent[c], told[c], last[c], r), CallRule(c)',
         NEW w \in Seq(Mid), r = "success" => w = <<>>,
         Emit(c, w \o <<CallDone(r, sent[c])>>)
  PROVE  ObserversInv'
<1> DEFINE z == CallDone(r, sent[c])
           es == w \o <<z>>
           S == IF r = "success" THEN Calm ELSE Mid
<1>1. /\ FanInv /\ CallInv /\ HistoryInv /\ LoopInv /\ AttemptInv /\ LoudInv
      /\ CallType /\ CallRule(c) /\ sent[c] \in Nat /\ told[c] \in Nat
  BY DEF ObserversInv, CallInv, CallType
<1>2. w \in Seq(S)
  BY Joined
<1>3. z \in EventType /\ ~Loud(z) /\ z.kind = "call_done"
  <2>1. z.kind = "call_done"
    BY DEF CallDone, Event
  <2> QED
    BY <1>1, <2>1, EventsTyped
<1>4. S \in SUBSET EventType /\ S \subseteq Mid
  BY DEF Mid, Calm
<1>5. r = "success" => \A e \in S : ~Loud(e)
  BY DEF Calm
<1>6. Emit(c, es) /\ c \in Emitters
  BY DEF Emitters
<1> HIDE DEF S, z
<1>7. /\ es \in Seq(EventType)
      /\ \E m \in Nat : /\ Len(es) = m + 1 /\ es[m + 1] = z
                        /\ \A i \in 1 .. m : es[i] \in S
  BY <1>2, <1>3, <1>4, Ended
<1> HIDE DEF es
<1>8. PICK m \in Nat : Len(es) = m + 1 /\ es[m + 1] = z /\ \A i \in 1 .. m : es[i] \in S
  BY <1>7
<1>9. m + 1 \in Nat /\ m + 1 > 0 /\ \A i \in 1 .. m + 1 : i \in 1 .. m \/ i = m + 1
  OBVIOUS
<1>10. \A i \in 1 .. m : i # m + 1 /\ es[i] \in Mid
  BY <1>4, <1>8
<1>11. \A i \in 1 .. m + 1 : /\ es[i].kind # "call_start" /\ es[i].kind # "attempt"
                             /\ es[i].kind = "call_done" <=> i = m + 1
                             /\ r = "success" => ~Loud(es[i])
  BY <1>3, <1>5, <1>8, <1>9, <1>10 DEF Mid
<1>12. FanInv' /\ TapeInv' /\ SlogInv' /\ MeterInv'
  BY <1>6, <1>7, EmitKeepsHeld DEF ObserversInv
<1>13. CallInv'
  BY <1>1, CallKeeps
<1>14. HistoryInv' /\ LoopInv'
  <2>1. es[m + 1] = CallDone(r, sent[c])
    BY <1>8 DEF z
  <2>2. Framed(c, es, "done", sent[c], r)
    BY <1>8, <1>9, <1>11, <2>1 DEF Framed
  <2> QED
    BY <1>1, <1>6, <1>7, <2>2, HistoryKeeps
<1>15. AttemptInv'
  BY <1>1, <1>6, <1>7, <1>8, <1>9, <1>11, AttemptKeeps
<1>16. r # "success" => Troubled(c)'
  BY DEF Troubled, Changes
<1>17. r = "success" => last[c] = "success"
  BY DEF CallRule, Changes
<1>18. Troubled(c) => Troubled(c)'
  BY <1>1, <1>16, <1>17 DEF Troubled, Changes
<1>19. (\E i \in 1 .. m + 1 : Loud(es[i])) => Troubled(c)'
  BY <1>11, <1>16
<1>20. LoudInv'
  BY <1>1, <1>6, <1>7, <1>8, <1>9, <1>18, <1>19, LoudKeeps
<1> QED
  BY <1>12, <1>13, <1>14, <1>15, <1>20 DEF ObserversInv

LEMMA EndKeeps ==
  ASSUME ObserversInv, NEW c \in Calls, End(c)
  PROVE  ObserversInv'
<1>1. CallType /\ CallRule(c) /\ sent[c] \in Nat /\ told[c] \in Nat
  BY DEF ObserversInv, CallInv, CallType
<1>2. PICK r \in Results : /\ P!End(c, r)
                           /\ \E w \in Closing(c, r) : Emit(c, w \o <<CallDone(r, sent[c])>>)
  BY DEF End
<1>3. PICK w \in Closing(c, r) : Emit(c, w \o <<CallDone(r, sent[c])>>)
  BY <1>2
<1>4. /\ stage[c] = "open" /\ r \in P!Justified(c)
      /\ Changes(c, "done", sent[c], told[c], last[c], r)
  BY <1>1, <1>2, ProtocolSteps
<1>5. /\ Closing(c, r) \subseteq Seq(Mid) /\ r # "panic"
      /\ r = "success" => Closing(c, r) \subseteq {<<>>} /\ last[c] = "success"
  BY <1>1, <1>4, ClosingEvents
<1>6. w \in Seq(Mid) /\ (r = "success" => w = <<>>)
  BY <1>5
<1>7. CallRule(c)'
  BY <1>1, <1>4, <1>5 DEF CallRule, Changes
<1> QED
  BY <1>3, <1>4, <1>6, <1>7, FinishKeeps

LEMMA CrashKeeps ==
  ASSUME ObserversInv, NEW c \in Calls, Crash(c)
  PROVE  ObserversInv'
<1>1. CallType /\ CallRule(c) /\ sent[c] \in Nat /\ told[c] \in Nat
  BY DEF ObserversInv, CallInv, CallType
<1>2. PICK w \in {<<>>} \cup Passed(c) \cup Cleared(c) \cup Refused(c) :
        Emit(c, w \o <<CallDone("panic", sent[c])>>)
  BY DEF Crash
<1>3. w \in Seq(Mid)
  BY <1>1, WayEvents, Joined
<1>4. /\ stage[c] \in {"open", "flying"}
      /\ Changes(c, "done", sent[c], told[c], last[c], "panic")
  BY <1>1, ProtocolSteps DEF Crash
<1>5. CallRule(c)' /\ "panic" \in Results
  BY <1>1, <1>4 DEF CallRule, Changes, Results
<1> QED
  BY <1>2, <1>3, <1>4, <1>5, FinishKeeps

\* The caller has gone: the attempt is told of, and the call is over.
LEMMA AbandonKeeps ==
  ASSUME ObserversInv, NEW c \in Calls, Abandon(c)
  PROVE  ObserversInv'
<1> DEFINE a == AttemptEvent("fatal")
           z == CallDone("canceled", sent[c])
           es == <<a, z>>
<1>1. /\ FanInv /\ CallInv /\ HistoryInv /\ LoopInv /\ AttemptInv /\ LoudInv
      /\ CallType /\ CallRule(c) /\ sent[c] \in Nat /\ told[c] \in Nat
  BY DEF ObserversInv, CallInv, CallType
<1>2. /\ a \in EventType /\ z \in EventType /\ a.kind = "attempt" /\ z.kind = "call_done"
  <2>1. "fatal" \in Outcome /\ "canceled" \in Results
    BY DEF Outcome, Results
  <2>2. a.kind = "attempt" /\ z.kind = "call_done"
    BY DEF AttemptEvent, CallDone, Event
  <2> QED
    BY <1>1, <2>1, <2>2, EventsTyped DEF Between
<1>3. P!Abandon(c) /\ Emit(c, es) /\ c \in Emitters
  BY DEF Abandon, Emitters
<1> HIDE DEF a, z
<1>4. es \in Seq(EventType) /\ Len(es) = 2 /\ es[1] = a /\ es[2] = z
  BY <1>2
<1> HIDE DEF es
<1>5. \A i \in 1 .. 2 : i = 1 \/ i = 2
  OBVIOUS
<1>6. \A i \in 1 .. 2 : /\ es[i].kind # "call_start"
                        /\ es[i].kind = "call_done" <=> i = 2
                        /\ es[i].kind = "attempt" <=> i = 1
  BY <1>2, <1>4, <1>5
<1>7. FanInv' /\ TapeInv' /\ SlogInv' /\ MeterInv'
  BY <1>3, <1>4, EmitKeepsHeld DEF ObserversInv
<1>8. /\ stage[c] = "flying"
      /\ Changes(c, "done", sent[c], told[c] + 1, last[c], "canceled")
  BY <1>1, <1>3, ProtocolSteps
<1>9. CallInv'
  <2>1. CallRule(c)'
    BY <1>1, <1>8 DEF CallRule, Changes
  <2> QED
    BY <1>1, <1>8, <2>1, CallKeeps
<1>10. HistoryInv' /\ LoopInv'
  <2>1. Framed(c, es, "done", sent[c], "canceled")
    BY <1>4, <1>6, <1>8 DEF Framed, z
  <2> QED
    BY <1>1, <1>3, <1>4, <1>8, <2>1, HistoryKeeps
<1>11. AttemptInv'
  <2>1. 1 \in 1 .. 2 /\ 2 \in Nat
    OBVIOUS
  <2>2. \A i \in 1 .. 2 : es[i].kind = "attempt" <=> i = 1
    BY <1>6
  <2> QED
    BY <1>1, <1>3, <1>4, <1>8, <2>1, <2>2, AttemptAdds
<1>12. Troubled(c)'
  BY <1>8 DEF Troubled, Changes
<1>13. LoudInv'
  BY <1>1, <1>3, <1>4, <1>8, <1>12, LoudKeeps
<1> QED
  BY <1>7, <1>9, <1>10, <1>11, <1>13 DEF ObserversInv

\* The probe loop reports a probe, and a change of the state it brought about.
LEMMA ProbeKeeps ==
  ASSUME ObserversInv, ProbeEnds
  PROVE  ObserversInv'
<1> DEFINE Reports == {e \in EventType : e.kind \in {"probe", "health"}}
           First(ok) == <<Event("probe", IF ok THEN "ok" ELSE "fail", 0)>>
           Second(ok, changed) ==
             IF changed THEN <<Event("health", IF ok THEN "healthy" ELSE "unhealthy", 0)>> ELSE <<>>
<1>1. PICK ok \in BOOLEAN, changed \in BOOLEAN :
        Emit("loop", First(ok) \o Second(ok, changed))
  BY DEF ProbeEnds
<1>2. /\ Event("probe", IF ok THEN "ok" ELSE "fail", 0) \in Reports
      /\ Event("health", IF ok THEN "healthy" ELSE "unhealthy", 0) \in Reports
  BY DEF Event, EventType, Kinds, Labels
<1> HIDE DEF Reports
<1>3. First(ok) \in Seq(Reports) /\ Second(ok, changed) \in Seq(Reports)
  BY <1>2, Joined
<1> DEFINE es == First(ok) \o Second(ok, changed)
<1> HIDE DEF First, Second
<1>4. es \in Seq(Reports) /\ Emit("loop", es)
  BY <1>1, <1>3, Joined
<1> HIDE DEF es
<1>5. /\ "loop" \in Emitters /\ \A c \in Calls : c \in Emitters /\ c # "loop"
  BY ObserversAssumption DEF Emitters
<1>6. es \in Seq(EventType)
  <2>1. Reports \subseteq EventType
    BY DEF Reports
  <2> QED
    BY <1>4, <2>1, SeqMonotonic
<1>7. PICK n \in Nat : n = Len(es)
  BY <1>6
<1>8. \A i \in 1 .. n : es[i].kind \in {"probe", "health"}
  BY <1>4, <1>7, ElementOfSeq DEF Reports
<1>9. FanInv' /\ TapeInv' /\ SlogInv' /\ MeterInv'
  BY <1>4, <1>5, <1>6, EmitKeepsHeld DEF ObserversInv
<1>10. FanInv
  BY DEF ObserversInv
<1>11. /\ \A x \in Emitters : x # "loop" => emitted'[x] = emitted[x] /\ Out(x)' = Out(x)
       /\ Out("loop")' = Out("loop") + n
       /\ \A i \in 1 .. Out("loop") : emitted'["loop"][i] = emitted["loop"][i]
       /\ \A i \in 1 .. n : emitted'["loop"][Out("loop") + i] = es[i]
  BY <1>4, <1>5, <1>6, <1>7, <1>10, EmitKeepsFan
<1>12. \A c \in Calls : emitted'[c] = emitted[c] /\ Out(c)' = Out(c)
  BY <1>5, <1>11
<1>13. /\ stage' = stage /\ sent' = sent /\ told' = told /\ last' = last /\ result' = result
  BY DEF ProbeEnds, callVars
<1>14. CallInv'
  BY <1>13 DEF ObserversInv, CallInv, CallType, CallRule, Started
<1>15. HistoryInv'
  BY <1>12, <1>13 DEF ObserversInv, HistoryInv, CallDone, Event
<1>16. LoopInv'
  <2>1. Out("loop") \in Nat
    BY <1>5, <1>10, Lengths
  <2>2. ASSUME NEW i \in 1 .. Out("loop")' PROVE emitted'["loop"][i].kind \in {"probe", "health"}
    <3>1. CASE i \in 1 .. Out("loop")
      BY <1>11, <3>1 DEF ObserversInv, LoopInv
    <3>2. CASE i \notin 1 .. Out("loop")
      <4>1. i - Out("loop") \in 1 .. n /\ i = Out("loop") + (i - Out("loop"))
        BY <1>11, <2>1, <3>2
      <4> QED
        BY <1>8, <1>11, <4>1
    <3> QED
      BY <3>1, <3>2
  <2> QED
    BY <2>2 DEF LoopInv
<1>17. AttemptInv'
  <2>1. Attempts' = Attempts
    BY <1>12 DEF Attempts, EventAt
  <2>2. Told' = Told
    BY <1>13 DEF Told
  <2> QED
    BY <2>1, <2>2 DEF ObserversInv, AttemptInv
<1>18. LoudInv'
  <2>1. \A c \in Calls : \A i : Loud(emitted[c][i])' <=> Loud(emitted[c][i])
    <3>1. \A c \in Calls : \A i : Loud(emitted[c][i])' <=> Loud(emitted'[c][i])
      BY DEF Loud, SlogLevel, DoneLevel, GateLevel, GateEvent, Event, Debug, Info, Warn, Error
    <3> QED
      BY <1>12, <3>1
  <2>2. \A c \in Calls : Troubled(c)' <=> Troubled(c)
    BY <1>13 DEF Troubled
  <2> QED
    BY <1>12, <2>1, <2>2 DEF ObserversInv, LoudInv
<1> QED
  BY <1>9, <1>14, <1>15, <1>16, <1>17, <1>18 DEF ObserversInv

\* The calls do not depend on their observers.
LEMMA QuietStep ==
  ASSUME ObserversInv, emitted' = emitted, UNCHANGED callVars
  PROVE  CallInv' /\ HistoryInv' /\ LoopInv' /\ AttemptInv' /\ LoudInv'
<1>1. stage' = stage /\ sent' = sent /\ told' = told /\ last' = last /\ result' = result
  BY DEF callVars
<1>2. \A x : Out(x)' = Out(x)
  BY DEF Out
<1>3. CallInv'
  BY <1>1 DEF ObserversInv, CallInv, CallType, CallRule, Started
<1>4. HistoryInv' /\ LoopInv'
  BY <1>1, <1>2 DEF ObserversInv, HistoryInv, LoopInv, CallDone, Event
<1>5. AttemptInv'
  <2>1. Attempts' = Attempts
    BY <1>2 DEF Attempts, EventAt
  <2>2. Told' = Told
    BY <1>1 DEF Told
  <2> QED
    BY <2>1, <2>2 DEF ObserversInv, AttemptInv
<1>6. LoudInv'
  <2>1. \A d, i : Loud(emitted[d][i])' <=> Loud(emitted[d][i])
    BY DEF Loud, SlogLevel, DoneLevel, GateLevel, GateEvent, Event, Debug, Info, Warn, Error
  <2>2. \A d : Troubled(d)' <=> Troubled(d)
    BY <1>1 DEF Troubled
  <2> QED
    BY <1>1, <1>2, <2>1, <2>2 DEF ObserversInv, LoudInv
<1> QED
  BY <1>3, <1>4, <1>5, <1>6

LEMMA ObserveKeeps ==
  ASSUME ObserversInv, NEW e \in Emitters, Observe(e)
  PROVE  ObserversInv'
<1>1. FanInv /\ TapeInv /\ SlogInv /\ MeterInv
  BY DEF ObserversInv
<1>2. /\ ~Quiet(e) /\ Passes(e, pos[e]) /\ emitted' = emitted /\ UNCHANGED callVars
  BY <1>1, ObserveHands
<1>3. FanInv'
  BY <1>1, <1>2, HandKeepsFan
<1>4. TapeInv' /\ SlogInv' /\ MeterInv'
  BY <1>1, ObserveKeepsTape, ObserveKeepsSlog, ObserveKeepsMeters
<1>5. CallInv' /\ HistoryInv' /\ LoopInv' /\ AttemptInv' /\ LoudInv'
  BY <1>2, QuietStep
<1> QED
  BY <1>3, <1>4, <1>5 DEF ObserversInv

LEMMA StutterKeeps ==
  ASSUME ObserversInv, UNCHANGED vars
  PROVE  ObserversInv'
<1>1. /\ emitted' = emitted /\ queue' = queue /\ pos' = pos /\ tape' = tape /\ prom' = prom
      /\ otel' = otel /\ slog' = slog /\ UNCHANGED callVars
  BY DEF vars, meters
<1>2. \A x, o : Got(x, o)' = Got(x, o) /\ Out(x)' = Out(x) /\ Left(x)' = Left(x)
  BY <1>1 DEF Got, Out, Left, Past, At
<1>3. FanInv' /\ TapeInv'
  <2>1. Width' = Width
    BY DEF Width
  <2> QED
    BY <1>1, <1>2, <2>1 DEF ObserversInv, FanInv, TapeInv
<1>4. SlogInv'
  <2>1. \A x, i : SlogLevel(emitted[x][i])' = SlogLevel(emitted[x][i])
    BY <1>1 DEF SlogLevel, DoneLevel, GateLevel, Debug, Info, Warn, Error
  <2> QED
    BY <1>1, <1>2, <2>1 DEF ObserversInv, SlogInv
<1>5. (\A o : Seen(o)' = Seen(o)) /\ (\A x : EventAt(x)' = EventAt(x))
  BY <1>1, <1>2 DEF Seen, EventAt
<1>6. ASSUME NEW o, NEW name
      PROVE  Ups(o, name)' = Ups(o, name) /\ Downs(o, name)' = Downs(o, name)
  <2>1. \A x : Weight(name, EventAt(x))' = Weight(name, EventAt(x))
    BY <1>5 DEF Weight, GaugeStep, Tick
  <2> QED
    BY <1>5, <2>1 DEF Ups, Downs
<1>7. Reported' = Reported
  BY <1>5 DEF Reported
<1>8. MeterInv'
  BY <1>1, <1>6, <1>7 DEF ObserversInv, MeterInv, Counted
<1> QED
  BY <1>1, <1>3, <1>4, <1>8, QuietStep DEF ObserversInv

\* At first nothing has been emitted, given or counted.
LEMMA InitEstablishes == Init => ObserversInv
<1> SUFFICES ASSUME Init PROVE ObserversInv
  OBVIOUS
<1>1. /\ queue = [e \in Emitters |-> <<>>] /\ pos = [e \in Emitters |-> 1]
      /\ emitted = [e \in Emitters |-> <<>>] /\ tape = [e \in Emitters |-> <<>>]
      /\ prom = NoMeasure /\ otel = NoMeasure /\ slog = [e \in Emitters |-> 0]
  BY DEF Init
<1>2. /\ stage = [c \in Calls |-> "idle"]
      /\ sent = [c \in Calls |-> 0] /\ told = [c \in Calls |-> 0]
      /\ last = [c \in Calls |-> "none"] /\ result = [c \in Calls |-> "none"]
  BY DEF Init, P!Init
<1>3. \A e \in Emitters : Out(e) = 0 /\ Left(e) = 0
  BY <1>1 DEF Out, Left
<1>4. FanInv
  <2>1. <<>> \in Seq(EventType)
    BY Joined
  <2>2. 1 \in 1 .. Width
    <3>1. "prom" \in Adapters
      BY DEF Adapters
    <3>2. At("prom") \in 1 .. Width /\ Width \in Nat
      BY <3>1, Places
    <3> QED
      BY <3>2
  <2> QED
    BY <1>1, <1>3, <2>1, <2>2 DEF FanInv
<1>5. \A e \in Emitters, o \in Adapters : Got(e, o) = 0
  BY <1>1, <1>3, <1>4, GotBounds DEF Quiet
<1>6. "recorder" \in Adapters /\ "slog" \in Adapters /\ "prom" \in Adapters /\ "otel" \in Adapters
  BY DEF Adapters
<1>7. TapeInv
  <2>1. <<>> \in Seq(EventType) /\ Len(<<>>) = 0
    BY EmptySeq
  <2> QED
    BY <1>1, <1>5, <1>6, <2>1 DEF TapeInv
<1>8. SlogInv
  BY <1>1, <1>5, <1>6 DEF SlogInv
<1>9. \A o \in Adapters : Seen(o) = {}
  BY <1>5 DEF Seen
<1>10. MeterInv
  <2>1. \A o \in Adapters, name \in Names : Ups(o, name) = {} /\ Downs(o, name) = {}
    BY <1>9 DEF Ups, Downs
  <2>2. Reported = {}
    BY <1>6, <1>9 DEF Reported
  <2>3. NoMeasure["own"] = 0
    BY DEF NoMeasure
  <2>4. IsFiniteSet({}) /\ Cardinality({}) = 0 /\ 0 - 0 = 0
    BY FS_EmptySet
  <2>5. ASSUME NEW o \in Adapters PROVE Counted(o, NoMeasure)
    BY <2>1, <2>4, NoMeasureType DEF Counted
  <2> QED
    BY <1>1, <1>6, <2>2, <2>3, <2>4, <2>5 DEF MeterInv
<1>11. CallInv
  <2>1. Started = {}
    BY <1>2 DEF Started
  <2>2. CallType
    BY <1>2 DEF CallType, Results
  <2>3. \A c \in Calls : CallRule(c)
    BY <1>2 DEF CallRule
  <2> QED
    BY <2>1, <2>2, <2>3, FS_EmptySet DEF CallInv
<1>12. HistoryInv /\ LoopInv /\ LoudInv
  <2>1. "loop" \in Emitters /\ \A c \in Calls : c \in Emitters
    BY DEF Emitters
  <2> QED
    BY <1>2, <1>3, <2>1 DEF HistoryInv, LoopInv, LoudInv
<1>13. AttemptInv
  <2>1. Attempts = {}
    BY <1>3 DEF Attempts, Emitters
  <2>2. Told = {}
    BY <1>2 DEF Told
  <2> QED
    BY <2>1, <2>2, FS_EmptySet DEF AttemptInv
<1> QED
  BY <1>4, <1>7, <1>8, <1>10, <1>11, <1>12, <1>13 DEF ObserversInv

\* Whatever the calls, the probe loop and the observers do, the observers hold what
\* has been handed to them, and what has been emitted follows the calls.
THEOREM ObserversInvariant == Spec => []ObserversInv
<1>1. Init => ObserversInv
  BY InitEstablishes
<1>2. ObserversInv /\ [Next]_vars => ObserversInv'
  <2> SUFFICES ASSUME ObserversInv, [Next]_vars PROVE ObserversInv'
    OBVIOUS
  <2>1. CASE \E c \in Calls :
               Begin(c) \/ Transmit(c) \/ Tell(c) \/ Abandon(c) \/ End(c) \/ Crash(c)
    BY <2>1, BeginKeeps, TransmitKeeps, TellKeeps, AbandonKeeps, EndKeeps, CrashKeeps
  <2>2. CASE \E e \in Emitters : Observe(e) \/ ObserverPanics(e)
    BY <2>2, ObserveKeeps, PanicIsObserve
  <2>3. CASE ProbeEnds
    BY <2>3, ProbeKeeps
  <2>4. CASE UNCHANGED vars
    BY <2>4, StutterKeeps
  <2> QED
    BY <2>1, <2>2, <2>3, <2>4 DEF Next
<1> QED
  BY <1>1, <1>2, PTL DEF Spec

-----------------------------------------------------------------------------
(* What the observers promise.                                              *)

\* Nothing is missed, by the Recorder or by an adapter in front of or behind an
\* observer that panics: recover in multi.Observe is around each observer.
THEOREM FanoutSafety == Spec => []NothingMissed
<1>1. ASSUME ObserversInv PROVE NothingMissed
  <2> SUFFICES ASSUME AllQuiet
               PROVE  /\ tape = emitted
                      /\ \A name \in DOMAIN NoMeasure \ {"own"} : prom[name] = otel[name]
    BY DEF NothingMissed
  <2>1. FanInv /\ TapeInv /\ MeterInv
    BY <1>1 DEF ObserversInv
  <2>2. "recorder" \in Adapters /\ "prom" \in Adapters /\ "otel" \in Adapters
    BY DEF Adapters
  <2>3. \A e \in Emitters, o \in Adapters : Got(e, o) = Out(e)
    BY <2>1, GotBounds DEF AllQuiet
  <2>4. \A e \in Emitters : tape[e] = emitted[e]
    <3>1. TAKE e \in Emitters
    <3>2. /\ tape[e] \in Seq(EventType) /\ emitted[e] \in Seq(EventType)
          /\ Len(tape[e]) = Len(emitted[e])
          /\ \A i \in 1 .. Len(tape[e]) : tape[e][i] = emitted[e][i]
      BY <2>1, <2>2, <2>3 DEF FanInv, TapeInv, Out
    <3> QED
      BY <3>2, SeqEqual
  <2>5. tape = emitted
    BY <2>1, <2>4 DEF FanInv, TapeInv
  <2>6. Seen("prom") = Seen("otel")
    BY <2>2, <2>3 DEF Seen
  <2>7. ASSUME NEW name \in Names PROVE prom[name] = otel[name]
    <3>1. Ups("prom", name) = Ups("otel", name) /\ Downs("prom", name) = Downs("otel", name)
      BY <2>6 DEF Ups, Downs
    <3> QED
      BY <2>1, <3>1 DEF MeterInv, Counted
  <2>8. DOMAIN NoMeasure \ {"own"} \subseteq Names
    BY NoMeasureType
  <2> QED
    BY <2>5, <2>7, <2>8
<1> QED
  BY <1>1, ObserversInvariant, PTL

\* The level at which the end of a call is logged.
LEMMA DoneLevels ==
  ASSUME NEW r \in Results, NEW n \in Nat
  PROVE  /\ SlogLevel(CallDone(r, n)) \in 1 .. 4
         /\ SlogLevel(CallDone(r, n)) = 1 <=> r = "success" /\ n <= 1
         /\ r \in GiveUpResults => SlogLevel(CallDone(r, n)) >= 3
<1> DEFINE z == CallDone(r, n)
<1>1. z.kind = "call_done" /\ z.what = r /\ z.n = n
  BY DEF CallDone, Event
<1> HIDE DEF z
<1>2. SlogLevel(z) = DoneLevel(z)
  BY <1>1 DEF SlogLevel
<1>3. CASE r = "success"
  <2>1. DoneLevel(z) = IF n > 1 THEN 2 ELSE 1
    BY <1>1, <1>3 DEF DoneLevel, Debug, Info
  <2>2. r \notin GiveUpResults
    BY <1>3 DEF GiveUpResults
  <2> QED
    BY <1>2, <1>3, <2>1, <2>2 DEF z
<1>4. CASE r \in {"reconciled", "fallback", "non_retryable", "canceled"}
  <2>1. DoneLevel(z) = 2
    BY <1>1, <1>4 DEF DoneLevel, Info
  <2>2. r \notin GiveUpResults /\ r # "success"
    BY <1>4 DEF GiveUpResults
  <2> QED
    BY <1>2, <2>1, <2>2 DEF z
<1>5. CASE r \notin {"success", "reconciled", "fallback", "non_retryable", "canceled"}
  <2>1. DoneLevel(z) \in {3, 4}
    BY <1>1, <1>5 DEF DoneLevel, Warn, Error
  <2> QED
    BY <1>2, <1>5, <2>1 DEF z
<1> QED
  BY <1>3, <1>4, <1>5

\* slogobs is silent above Debug about the calls that simply succeed at once, and
\* about no others; a give-up is heard at Warn.
THEOREM NoiseSafety == Spec => []NoisePolicy
<1>1. ASSUME ObserversInv PROVE NoisePolicy
  <2> SUFFICES ASSUME NEW c \in Calls, Quiet(c), stage[c] = "done"
               PROVE  /\ slog[c] = Debug <=>
                           /\ result[c] = "success" /\ sent[c] = 1
                           /\ GateEvent("waited") \notin ToSet(emitted[c])
                      /\ result[c] \in GiveUpResults => slog[c] >= Warn
    BY DEF NoisePolicy
  <2> DEFINE d == SlogLevel(CallDone(result[c], sent[c]))
  <2>1. /\ FanInv /\ SlogInv /\ HistoryInv /\ LoudInv /\ CallRule(c)
        /\ sent[c] \in Nat /\ told[c] \in Nat /\ result[c] \in Results
    BY <1>1 DEF ObserversInv, CallInv, CallType
  <2>2. c \in Emitters /\ "slog" \in Adapters
    BY DEF Emitters, Adapters
  <2>3. Out(c) \in Nat /\ Got(c, "slog") = Out(c) /\ Out(c) > 0
    BY <2>1, <2>2, GotBounds DEF HistoryInv
  <2>4. /\ d \in 1 .. 4
        /\ d = 1 <=> result[c] = "success" /\ sent[c] <= 1
        /\ result[c] \in GiveUpResults => d >= 3
    BY <2>1, DoneLevels
  <2>5. Out(c) \in 1 .. Out(c) /\ SlogLevel(emitted[c][Out(c)]) = d
    BY <2>1, <2>3 DEF HistoryInv
  <2> HIDE DEF d
  <2>6. /\ slog[c] \in 0 .. 4 /\ \A i \in 1 .. Out(c) : SlogLevel(emitted[c][i]) <= slog[c]
        /\ slog[c] = 0 \/ \E i \in 1 .. Out(c) : SlogLevel(emitted[c][i]) = slog[c]
    BY <2>1, <2>2, <2>3 DEF SlogInv
  <2>7. d <= slog[c]
    BY <2>5, <2>6
  <2>8. result[c] = "success" => last[c] = "success" /\ sent[c] >= 1
    BY <2>1 DEF CallRule
  <2>9. DOMAIN emitted[c] = 1 .. Out(c)
    BY <2>1, <2>2 DEF FanInv, Out
  <2>10. ASSUME slog[c] = 1
         PROVE  /\ result[c] = "success" /\ sent[c] = 1
                /\ GateEvent("waited") \notin ToSet(emitted[c])
    <3>1. result[c] = "success" /\ sent[c] = 1
      BY <2>1, <2>4, <2>7, <2>8, <2>10
    <3>2. SlogLevel(GateEvent("waited")) = 2
      <4>1. GateEvent("waited").kind = "gate" /\ GateEvent("waited").what = "waited"
        BY DEF GateEvent, Event
      <4> QED
        BY <4>1 DEF SlogLevel, GateLevel, Info
    <3>3. \A i \in 1 .. Out(c) : emitted[c][i] # GateEvent("waited")
      BY <2>6, <2>10, <3>2
    <3> QED
      BY <2>9, <3>1, <3>3 DEF ToSet
  <2>11. ASSUME result[c] = "success", sent[c] = 1, GateEvent("waited") \notin ToSet(emitted[c])
         PROVE  slog[c] = 1
    <3>1. d = 1
      BY <2>4, <2>11
    <3>2. ~Troubled(c)
      BY <2>8, <2>11 DEF Troubled
    <3>3. ASSUME NEW i \in 1 .. Out(c) PROVE ~(SlogLevel(emitted[c][i]) > 1)
      <4>1. CASE i = Out(c)
        BY <2>5, <3>1, <4>1
      <4>2. CASE i # Out(c)
        <5>1. emitted[c][i].kind # "call_done"
          BY <2>1, <4>2 DEF HistoryInv
        <5>2. emitted[c][i] # GateEvent("waited")
          BY <2>9, <2>11 DEF ToSet
        <5>3. ~Loud(emitted[c][i])
          BY <2>1, <3>2 DEF LoudInv
        <5> QED
          BY <5>1, <5>2, <5>3 DEF Loud, Debug
      <4> QED
        BY <4>1, <4>2
    <3> QED
      BY <2>6, <2>7, <3>1, <3>3
  <2>12. result[c] \in GiveUpResults => slog[c] >= 3
    BY <2>4, <2>6, <2>7
  <2> QED
    BY <2>10, <2>11, <2>12 DEF Debug, Warn
<1> QED
  BY <1>1, ObserversInvariant, PTL

\* One event for each call of a set.
LEMMA Tagged ==
  ASSUME NEW S, IsFiniteSet(S), NEW f
  PROVE  /\ IsFiniteSet({<<c, f[c]>> : c \in S})
         /\ Cardinality({<<c, f[c]>> : c \in S}) = Cardinality(S)
<1> DEFINE T == {<<c, f[c]>> : c \in S}
           g == [c \in S |-> <<c, f[c]>>]
<1>1. g \in [S -> T]
  OBVIOUS
<1>2. \A c, d \in S : g[c] = g[d] => c = d
  OBVIOUS
<1>3. \A t \in T : \E c \in S : g[c] = t
  OBVIOUS
<1> HIDE DEF g, T
<1>4. g \in Bijection(S, T)
  BY <1>1, <1>2, <1>3 DEF Bijection, Injection, Surjection, IsInjective
<1>5. ExistsBijection(S, T)
  BY <1>4 DEF ExistsBijection
<1>6. IsFiniteSet(T) /\ Cardinality(T) = Cardinality(S)
  BY <1>5, FS_Bijection
<1> QED
  BY <1>6 DEF T

Done == {c \in Calls : stage[c] = "done"}
Requests == {x \in Calls \X Nat : x[2] \in 1 .. sent[x[1]]}

\* At rest, promobs has counted the calls started and over, and the attempts told.
LEMMA RestCounts ==
  ASSUME ObserversInv, AllQuiet
  PROVE  /\ IsFiniteSet(Started) /\ IsFiniteSet(Done) /\ Done \subseteq Started
         /\ prom.inFlight = Cardinality(Started) - Cardinality(Done)
         /\ prom.calls = Cardinality(Done)
         /\ prom.attempts = Cardinality(Told)
<1>1. FanInv /\ MeterInv /\ HistoryInv /\ LoopInv /\ AttemptInv /\ IsFiniteSet(Started)
  BY DEF ObserversInv, CallInv
<1>2. "prom" \in Adapters /\ "loop" \notin Calls /\ \A c \in Calls : c \in Emitters
  BY ObserversAssumption DEF Adapters, Emitters
<1>3. \A e \in Emitters : Got(e, "prom") = Out(e) /\ Out(e) \in Nat
  BY <1>1, <1>2, GotBounds DEF AllQuiet
<1>4. Done \subseteq Started
  BY DEF Done, Started
<1>5. IsFiniteSet(Done)
  BY <1>1, <1>4, FS_Subset
<1>6. Seen("prom") = {x \in Emitters \X Nat : x[2] \in 1 .. Out(x[1])}
  BY <1>3 DEF Seen
<1>7. ASSUME NEW x \in Seen("prom")
      PROVE  /\ x = <<x[1], x[2]>> /\ x[1] \in Emitters /\ x[2] \in 1 .. Out(x[1])
             /\ x[1] \notin Calls => EventAt(x).kind \in {"probe", "health"}
  <2>1. x = <<x[1], x[2]>> /\ x[1] \in Emitters /\ x[2] \in 1 .. Out(x[1])
    BY <1>6
  <2>2. x[1] \notin Calls => x[1] = "loop"
    BY <2>1 DEF Emitters
  <2> QED
    BY <1>1, <2>1, <2>2 DEF LoopInv, EventAt
<1>8. \A x \in Calls \X Nat : x \in Seen("prom") <=> x[2] \in 1 .. Out(x[1])
  BY <1>2, <1>6
<1> DEFINE first == [c \in Calls |-> 1]
           final == [c \in Calls |-> Out(c)]
           Starts == {<<c, first[c]>> : c \in Started}
           Ends == {<<c, final[c]>> : c \in Done}
<1>9. {x \in Seen("prom") : EventAt(x).kind = "call_start"} = Starts
  <2>1. ASSUME NEW x \in Seen("prom"), EventAt(x).kind = "call_start" PROVE x \in Starts
    <3>1. x[1] \in Calls /\ x = <<x[1], x[2]>> /\ x[2] \in 1 .. Out(x[1])
      BY <1>7, <2>1
    <3>2. x[2] = 1
      BY <1>1, <2>1, <3>1 DEF HistoryInv, EventAt
    <3>3. Out(x[1]) # 0
      BY <1>2, <1>3, <3>1
    <3>4. x[1] \in Started
      BY <1>1, <3>1, <3>3 DEF HistoryInv, Started
    <3> QED
      BY <3>1, <3>2, <3>4 DEF Started
  <2>2. ASSUME NEW c \in Started
        PROVE  <<c, 1>> \in Seen("prom") /\ EventAt(<<c, 1>>).kind = "call_start"
    <3>1. c \in Calls /\ Out(c) # 0 /\ Out(c) \in Nat
      BY <1>1, <1>2, <1>3 DEF HistoryInv, Started
    <3>2. 1 \in 1 .. Out(c)
      BY <3>1
    <3> QED
      BY <1>1, <1>8, <3>1, <3>2 DEF HistoryInv, EventAt
  <2>3. \A c \in Started : c \in Calls
    BY DEF Started
  <2> QED
    BY <2>1, <2>2, <2>3
<1>10. {x \in Seen("prom") : EventAt(x).kind = "call_done"} = Ends
  <2>1. ASSUME NEW x \in Seen("prom"), EventAt(x).kind = "call_done" PROVE x \in Ends
    <3>1. x[1] \in Calls /\ x = <<x[1], x[2]>> /\ x[2] \in 1 .. Out(x[1])
      BY <1>7, <2>1
    <3>2. stage[x[1]] = "done" /\ x[2] = Out(x[1])
      BY <1>1, <2>1, <3>1 DEF HistoryInv, EventAt
    <3> QED
      BY <3>1, <3>2 DEF Done
  <2>2. ASSUME NEW c \in Done
        PROVE  <<c, Out(c)>> \in Seen("prom") /\ EventAt(<<c, Out(c)>>).kind = "call_done"
    <3>1. c \in Calls /\ stage[c] = "done" /\ Out(c) # 0 /\ Out(c) \in Nat
      BY <1>1, <1>2, <1>3 DEF HistoryInv, Done
    <3>2. Out(c) \in 1 .. Out(c)
      BY <3>1
    <3> QED
      BY <1>1, <1>8, <3>1, <3>2 DEF HistoryInv, EventAt
  <2>3. \A c \in Done : c \in Calls
    BY DEF Done
  <2> QED
    BY <2>1, <2>2, <2>3
<1>11. {x \in Seen("prom") : EventAt(x).kind = "attempt"} = Attempts
  <2>1. \A x \in Attempts : x \in Calls \X Nat /\ x[2] \in 1 .. Out(x[1])
    BY DEF Attempts
  <2>2. ASSUME NEW x \in Seen("prom"), EventAt(x).kind = "attempt" PROVE x \in Attempts
    BY <1>6, <1>7, <2>2 DEF Attempts
  <2> QED
    BY <1>8, <2>1, <2>2 DEF Attempts
<1> HIDE DEF first, final
<1>12. Cardinality(Starts) = Cardinality(Started) /\ Cardinality(Ends) = Cardinality(Done)
  BY <1>1, <1>5, Tagged
<1> HIDE DEF Starts, Ends
<1>13. /\ Ups("prom", "inFlight") = Starts /\ Downs("prom", "inFlight") = Ends
  BY <1>9, <1>10 DEF Ups, Downs, Weight, GaugeStep
<1>14. Ups("prom", "calls") = Ends /\ Downs("prom", "calls") = {}
  BY <1>10 DEF Ups, Downs, Weight, Tick
<1>15. Ups("prom", "attempts") = Attempts /\ Downs("prom", "attempts") = {}
  BY <1>11 DEF Ups, Downs, Weight, Tick
<1>16. \A name \in {"inFlight", "calls", "attempts"} :
         prom[name] = Cardinality(Ups("prom", name)) - Cardinality(Downs("prom", name))
  BY <1>1 DEF MeterInv, Counted, Names
<1>17. /\ Cardinality({}) = 0 /\ Cardinality(Started) \in Nat /\ Cardinality(Done) \in Nat
       /\ Cardinality(Attempts) = Cardinality(Told) /\ Cardinality(Told) \in Nat
  BY <1>1, <1>5, FS_EmptySet, FS_CardinalityType DEF AttemptInv
<1> QED
  BY <1>1, <1>4, <1>5, <1>12, <1>13, <1>14, <1>15, <1>16, <1>17

\* Once the calls in progress are over, promobs has added up the requests sent.
LEMMA RestRequests ==
  ASSUME ObserversInv, AllQuiet, Unfinished = {}
  PROVE  IsFiniteSet(Requests) /\ prom.own = Cardinality(Requests)
<1>1. /\ FanInv /\ MeterInv /\ HistoryInv /\ LoopInv /\ CallType
      /\ \A c \in Calls : CallRule(c)
  BY DEF ObserversInv, CallInv
<1>2. "prom" \in Adapters /\ \A c \in Calls : c \in Emitters
  BY DEF Adapters, Emitters
<1>3. \A e \in Emitters : Got(e, "prom") = Out(e) /\ Out(e) \in Nat
  BY <1>1, <1>2, GotBounds DEF AllQuiet
<1>4. ASSUME NEW y \in Reported
      PROVE  /\ y[1][1] \in Calls /\ y[1] = <<y[1][1], Out(y[1][1])>> /\ y = <<y[1], y[2]>>
             /\ y[2] \in Nat /\ y[2] \in 1 .. sent[y[1][1]]
  <2>1. /\ y[1] \in Seen("prom") /\ y = <<y[1], y[2]>> /\ y[2] \in Nat
        /\ EventAt(y[1]).kind = "call_done" /\ y[2] \in 1 .. EventAt(y[1]).n
    BY DEF Reported
  <2>2. PICK x \in Seen("prom") : x = y[1]
    BY <2>1
  <2>3. x = <<x[1], x[2]>> /\ x[1] \in Emitters /\ x[2] \in 1 .. Out(x[1])
    BY <1>3 DEF Seen
  <2>4. x[1] \in Calls
    BY <1>1, <2>1, <2>2, <2>3 DEF Emitters, LoopInv, EventAt
  <2>5. stage[x[1]] = "done" /\ x[2] = Out(x[1])
    BY <1>1, <2>1, <2>2, <2>3, <2>4 DEF HistoryInv, EventAt
  <2>6. EventAt(x) = CallDone(result[x[1]], sent[x[1]])
    BY <1>1, <2>4, <2>5 DEF HistoryInv, EventAt
  <2>7. EventAt(x).n = sent[x[1]]
    BY <2>6 DEF CallDone, Event
  <2> QED
    BY <2>1, <2>2, <2>3, <2>4, <2>5, <2>7
<1>5. ASSUME NEW x \in Requests PROVE <<<<x[1], Out(x[1])>>, x[2]>> \in Reported
  <2>1. x[1] \in Calls /\ x[2] \in Nat /\ x[2] \in 1 .. sent[x[1]] /\ sent[x[1]] \in Nat
    BY <1>1 DEF Requests, CallType
  <2>2. stage[x[1]] # "idle"
    BY <1>1, <2>1 DEF CallRule
  <2>3. stage[x[1]] = "done"
    BY <1>1, <2>1, <2>2 DEF Unfinished, CallType
  <2>4. Out(x[1]) \in Nat /\ Out(x[1]) \in 1 .. Out(x[1])
    BY <1>1, <1>2, <1>3, <2>1, <2>2 DEF HistoryInv
  <2>5. <<x[1], Out(x[1])>> \in Seen("prom")
    BY <1>2, <1>3, <2>1, <2>4 DEF Seen
  <2>6. EventAt(<<x[1], Out(x[1])>>) = CallDone(result[x[1]], sent[x[1]])
    BY <1>1, <2>1, <2>3 DEF HistoryInv, EventAt
  <2>7. /\ EventAt(<<x[1], Out(x[1])>>).kind = "call_done"
        /\ EventAt(<<x[1], Out(x[1])>>).n = sent[x[1]]
    BY <2>6 DEF CallDone, Event
  <2> QED
    BY <2>1, <2>5, <2>7 DEF Reported
<1> DEFINE g == [y \in Reported |-> <<y[1][1], y[2]>>]
<1>6. g \in [Reported -> Requests]
  BY <1>4 DEF Requests
<1>7. ASSUME NEW y \in Reported, NEW z \in Reported, g[y] = g[z] PROVE y = z
  <2>1. <<y[1][1], y[2]>> = <<z[1][1], z[2]>>
    BY <1>7
  <2>2. y[1][1] = z[1][1] /\ y[2] = z[2]
    BY <2>1
  <2> QED
    BY <1>4, <2>2
<1>8. ASSUME NEW x \in Requests PROVE \E y \in Reported : g[y] = x
  <2>1. x = <<x[1], x[2]>>
    BY DEF Requests
  <2> QED
    BY <1>5, <2>1
<1> HIDE DEF g
<1>9. g \in Bijection(Reported, Requests)
  BY <1>6, <1>7, <1>8 DEF Bijection, Injection, Surjection, IsInjective
<1>10. ExistsBijection(Reported, Requests)
  BY <1>9 DEF ExistsBijection
<1>11. IsFiniteSet(Reported) /\ prom["own"] = Cardinality(Reported)
  BY <1>1 DEF MeterInv
<1> QED
  BY <1>10, <1>11, FS_Bijection

\* Of the requests sent, at most one of each call that panicked was not told.
LEMMA LostRequests ==
  ASSUME ObserversInv, Unfinished = {}, IsFiniteSet(Requests)
  PROVE  Cardinality(Requests) - Cardinality(Told) \in 0 .. Cardinality(Panicked)
<1> DEFINE Lost == Requests \ Told
           g == [x \in Lost |-> x[1]]
<1>1. /\ CallType /\ AttemptInv /\ IsFiniteSet(Started) /\ \A c \in Calls : CallRule(c)
  BY DEF ObserversInv, CallInv
<1>2. \A c \in Calls : sent[c] \in Nat /\ told[c] \in Nat /\ stage[c] \in {"idle", "done"}
  BY <1>1 DEF CallType, Unfinished
<1>3. Told \subseteq Requests
  <2>1. \A c \in Calls : 1 .. told[c] \subseteq 1 .. sent[c]
    BY <1>1, <1>2 DEF CallRule
  <2> QED
    BY <2>1 DEF Told, Requests
<1>4. ASSUME NEW x \in Lost
      PROVE  x = <<x[1], x[2]>> /\ x[1] \in Panicked /\ x[2] = told[x[1]] + 1
  <2>1. /\ x = <<x[1], x[2]>> /\ x[1] \in Calls /\ x[2] \in 1 .. sent[x[1]]
        /\ x[2] \notin 1 .. told[x[1]]
    BY DEF Requests, Told
  <2>2. sent[x[1]] # told[x[1]]
    BY <2>1
  <2>3. sent[x[1]] = told[x[1]] + 1 /\ stage[x[1]] = "done" /\ result[x[1]] = "panic"
    BY <1>1, <1>2, <2>1, <2>2 DEF CallRule
  <2> QED
    BY <1>2, <2>1, <2>3 DEF Panicked
<1>5. g \in Injection(Lost, Panicked)
  <2>1. g \in [Lost -> Panicked]
    BY <1>4
  <2>2. ASSUME NEW x \in Lost, NEW y \in Lost, g[x] = g[y] PROVE x = y
    <3>1. x[1] = y[1]
      BY <2>2
    <3> QED
      BY <1>4, <3>1
  <2> QED
    BY <2>1, <2>2 DEF Injection, IsInjective
<1> HIDE DEF g
<1>6. IsFiniteSet(Panicked)
  <2>1. Panicked \subseteq Started
    BY DEF Panicked, Started
  <2> QED
    BY <1>1, <2>1, FS_Subset
<1>7. Cardinality(Lost) <= Cardinality(Panicked)
  BY <1>5, <1>6, FS_Injection
<1>8. Requests \cap Told = Told
  BY <1>3
<1>9. IsFiniteSet(Lost) /\ Cardinality(Lost) = Cardinality(Requests) - Cardinality(Told)
  BY <1>8, FS_Difference
<1> HIDE DEF Lost
<1>10. Cardinality(Lost) \in Nat /\ Cardinality(Panicked) \in Nat
  BY <1>6, <1>9, FS_CardinalityType
<1> QED
  BY <1>7, <1>9, <1>10

\* The attempts told and the calls over differ by the retries and the calls that
\* told of no attempt.
LEMMA RetryBalance ==
  ASSUME ObserversInv, Unfinished = {}, IsFiniteSet(Done)
  PROVE  Cardinality(Told) - Cardinality(Done) = Cardinality(Retries) - Cardinality(Untold)
<1> DEFINE Heard == Done \ Untold
           first == [c \in Calls |-> 1]
           Firsts == {<<c, first[c]>> : c \in Heard}
<1>1. /\ CallType /\ AttemptInv /\ \A c \in Calls : CallRule(c)
  BY DEF ObserversInv, CallInv
<1>2. \A c \in Calls : sent[c] \in Nat /\ told[c] \in Nat /\ stage[c] \in {"idle", "done"}
  BY <1>1 DEF CallType, Unfinished
<1>3. Heard = {c \in Calls : told[c] >= 1}
  <2>1. \A c \in Calls : told[c] >= 1 => stage[c] = "done"
    BY <1>1, <1>2 DEF CallRule
  <2>2. \A c \in Calls : told[c] = 0 <=> ~(told[c] >= 1)
    BY <1>2
  <2> QED
    BY <2>1, <2>2 DEF Done, Untold
<1>4. /\ Retries = {x \in Calls \X Nat : x[2] \in 2 .. told[x[1]]}
  <2>1. \A c \in Calls : 2 .. told[c] \subseteq Nat
    BY <1>2
  <2>2. ASSUME NEW x \in Retries PROVE x \in Calls \X Nat /\ x[2] \in 2 .. told[x[1]]
    BY <2>1 DEF Retries
  <2>3. ASSUME NEW x \in Calls \X Nat, x[2] \in 2 .. told[x[1]] PROVE x \in Retries
    <3>1. x = <<x[1], x[2]>> /\ x[1] \in Calls
      OBVIOUS
    <3>2. x \in {x[1]} \X (2 .. told[x[1]])
      BY <2>3, <3>1
    <3> QED
      BY <3>1, <3>2 DEF Retries
  <2> QED
    BY <2>2, <2>3
<1>5. Told = Firsts \cup Retries /\ Firsts \cap Retries = {}
  <2>1. ASSUME NEW x \in Calls \X Nat
        PROVE  /\ x \in Told <=> x \in Firsts \/ x \in Retries
               /\ ~(x \in Firsts /\ x \in Retries)
    <3>1. x = <<x[1], x[2]>> /\ x[1] \in Calls /\ x[2] \in Nat
      OBVIOUS
    <3>2. x \in Firsts <=> x[2] = 1 /\ told[x[1]] >= 1
      BY <1>3, <3>1
    <3>3. x \in Retries <=> x[2] \in 2 .. told[x[1]]
      BY <1>4
    <3>4. x \in Told <=> x[2] \in 1 .. told[x[1]]
      BY DEF Told
    <3> QED
      BY <1>2, <3>1, <3>2, <3>3, <3>4
  <2>2. Firsts \subseteq Calls \X Nat
    BY <1>3
  <2>3. Told \subseteq Calls \X Nat /\ Retries \subseteq Calls \X Nat
    BY <1>4 DEF Told
  <2> HIDE DEF Firsts
  <2> QED
    BY <2>1, <2>2, <2>3
<1>6. Untold \subseteq Done
  BY DEF Untold, Done
<1>7. /\ IsFiniteSet(Heard) /\ Cardinality(Heard) = Cardinality(Done) - Cardinality(Untold)
  <2>1. Done \cap Untold = Untold
    BY <1>6
  <2> QED
    BY <2>1, FS_Difference
<1> HIDE DEF Heard, first
<1>8. IsFiniteSet(Firsts) /\ Cardinality(Firsts) = Cardinality(Heard)
  BY <1>7, Tagged
<1> HIDE DEF Firsts
<1>9. IsFiniteSet(Told) /\ Cardinality(Told) \in Nat
  BY <1>1, FS_CardinalityType DEF AttemptInv
<1>10. Retries \subseteq Told
  BY <1>5
<1>11. IsFiniteSet(Retries)
  BY <1>9, <1>10, FS_Subset
<1>12. Cardinality(Told)
         = Cardinality(Firsts) + Cardinality(Retries) - Cardinality(Firsts \cap Retries)
  BY <1>5, <1>8, <1>11, FS_Union
<1>13. Cardinality(Firsts \cap Retries) = 0
  BY <1>5, FS_EmptySet
<1>14. IsFiniteSet(Untold)
  BY <1>6, FS_Subset
<1>15. /\ Cardinality(Retries) \in Nat /\ Cardinality(Untold) \in Nat /\ Cardinality(Done) \in Nat
  BY <1>11, <1>14, FS_CardinalityType
<1> QED
  BY <1>7, <1>8, <1>12, <1>13, <1>15

\* The metrics of promobs agree with the calls they are about: the gauge, the
\* histogram of attempts and the two counters of the documented retry ratio.
THEOREM MeterSafety == Spec => []MetersTruthful
<1>1. ASSUME ObserversInv PROVE MetersTruthful
  <2> SUFFICES ASSUME AllQuiet
               PROVE  /\ prom.inFlight = Cardinality(Unfinished)
                      /\ Unfinished = {} =>
                           /\ prom.own - prom.attempts \in 0 .. Cardinality(Panicked)
                           /\ prom.attempts - prom.calls
                                = Cardinality(Retries) - Cardinality(Untold)
    BY DEF MetersTruthful
  <2>1. /\ IsFiniteSet(Started) /\ IsFiniteSet(Done) /\ Done \subseteq Started
        /\ prom.inFlight = Cardinality(Started) - Cardinality(Done)
        /\ prom.calls = Cardinality(Done)
        /\ prom.attempts = Cardinality(Told)
    BY <1>1, RestCounts
  <2>2. Unfinished = Started \ Done
    BY <1>1 DEF ObserversInv, CallInv, CallType, Unfinished, Started, Done
  <2>3. Started \cap Done = Done
    BY <2>1
  <2>4. Cardinality(Started \ Done) = Cardinality(Started) - Cardinality(Started \cap Done)
    BY <2>1, FS_Difference
  <2>5. ASSUME Unfinished = {}
        PROVE  /\ prom.own - prom.attempts \in 0 .. Cardinality(Panicked)
               /\ prom.attempts - prom.calls = Cardinality(Retries) - Cardinality(Untold)
    <3>1. IsFiniteSet(Requests) /\ prom.own = Cardinality(Requests)
      BY <1>1, <2>5, RestRequests
    <3>2. Cardinality(Requests) - Cardinality(Told) \in 0 .. Cardinality(Panicked)
      BY <1>1, <2>5, <3>1, LostRequests
    <3>3. Cardinality(Told) - Cardinality(Done) = Cardinality(Retries) - Cardinality(Untold)
      BY <1>1, <2>1, <2>5, RetryBalance
    <3> QED
      BY <2>1, <3>1, <3>2, <3>3
  <2> QED
    BY <2>1, <2>2, <2>3, <2>4, <2>5
<1> QED
  BY <1>1, ObserversInvariant, PTL
===============================================================================
