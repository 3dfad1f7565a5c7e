-------------------------- MODULE LiveFillsProofs ---------------------------
(***************************************************************************)
(* Machine-checked proofs about what a bot and its account count: about    *)
(* LiveFills, for every number of trades, every clock bound and every      *)
(* number of restarts; and about Account, for any set of symbols, any      *)
(* bounds and any faults the theorem does not exclude.                     *)
(*                                                                         *)
(* Two facts about Account's sums rest on where a rotation stands          *)
(* (Standing), which is proved first: no fill is counted twice (Counted)   *)
(* and, as long as nothing dies, none is lost (Kept).                      *)
(***************************************************************************)
EXTENDS LiveFills, Account, TLAPS

\* What the environment must grant: a fill is delivered, and a trade shows up
\* in the history, within the look-back overlap; the bot's clock is not slow.
Timely == MaxDelay <= Lookback /\ RestLag <= Lookback /\ ClockLag = 0

Running == phase \in {"run", "tick"}

\* The websocket path carries each fill once, in the order of execution.
PathOrdered ==
    /\ \A t \in InFlight : t <= last
    /\ \A i, j \in DOMAIN net : i < j => net[i] < net[j]
    /\ \A i, j \in DOMAIN chan : i < j => chan[i] < chan[j]
    /\ \A i \in DOMAIN chan, j \in DOMAIN net : chan[i] < net[j]

\* Clocks: nothing executes in the future, the window is not in the future.
ClocksOK ==
    /\ \A t \in Executed : ts[t] <= now
    /\ Running => from <= now

\* Only executed trades are booked, the dedup set holds booked trades only,
\* and a booked trade the history may still return is in it.
DedupCovers ==
    /\ Booked \subseteq Executed
    /\ Seen \subseteq Booked
    /\ Running => \A t \in Booked : from <= ts[t] => t \in Seen

\* A fill in flight that was booked already is recent enough not to be pruned
\* before it is delivered.
InFlightFresh ==
    /\ Running => \A t \in InFlight : from <= ts[t] => now - ts[t] <= Lookback
    /\ Running => \A t \in InFlight : t \in Booked => from <= ts[t]
    /\ ~Running => InFlight \cap Booked = {}

\* What the seed reflects lies before the window.
SeedBefore ==
    /\ seeded \subseteq Executed
    /\ Running => \A t \in seeded : ts[t] < from
    /\ ~Running => replayed = {}

IInv ==
    /\ TypeOK /\ PathOrdered /\ ClocksOK /\ DedupCovers /\ InFlightFresh /\ SeedBefore
    /\ BookedAtMostOnce /\ NoFillSkipped /\ NoSeededReplay

-----------------------------------------------------------------------------
(* Sequences.                                                              *)

\* Receiving: the head of a queue and what stays in it.
LEMMA TailElements ==
    ASSUME NEW S, NEW s \in Seq(S), s # <<>>
    PROVE  /\ Tail(s) \in Seq(S) /\ Head(s) \in S /\ Head(s) = s[1]
           /\ 1 \in DOMAIN s /\ Head(s) \in ToSet(s)
           /\ \A i \in DOMAIN Tail(s) : i + 1 \in DOMAIN s /\ i \in Nat /\ i > 0 /\ Tail(s)[i] = s[i + 1]
           /\ ToSet(Tail(s)) \subseteq ToSet(s)
  BY DEF ToSet

\* Sending: a queue with one more element at its end.
LEMMA AppendElements ==
    ASSUME NEW S, NEW s \in Seq(S), NEW e \in S
    PROVE  /\ Append(s, e) \in Seq(S)
           /\ ToSet(Append(s, e)) = ToSet(s) \cup {e}
           /\ \A i \in DOMAIN Append(s, e) :
                  \/ i \in DOMAIN s /\ Append(s, e)[i] = s[i]
                  \/ i = Len(s) + 1 /\ Append(s, e)[i] = e
           /\ \A i \in DOMAIN s : i \in Nat /\ i < Len(s) + 1
<1> DEFINE a == Append(s, e)
<1>1. /\ a \in Seq(S) /\ Len(a) = Len(s) + 1 /\ Len(s) \in Nat
      /\ DOMAIN a = 1..Len(s) + 1 /\ DOMAIN s = 1..Len(s)
  OBVIOUS
<1>2. \A i \in 1..Len(s) : a[i] = s[i]
  OBVIOUS
<1>3. a[Len(s) + 1] = e
  OBVIOUS
<1>4. \A i \in DOMAIN a : \/ i \in DOMAIN s /\ a[i] = s[i]
                          \/ i = Len(s) + 1 /\ a[i] = e
  BY <1>1, <1>2, <1>3
<1>5. ToSet(a) = ToSet(s) \cup {e}
  BY <1>1, <1>2, <1>3 DEF ToSet
<1>6. QED
  BY <1>1, <1>4, <1>5

\* The socket and the channel of a fresh runner hold nothing.
LEMMA EmptyElements == ToSet(<<>>) = {}
  BY DEF ToSet

-----------------------------------------------------------------------------
(* Typing.                                                                 *)

\* No step breaks the typing.
LEMMA TypingStep ==
    ASSUME TypeOK, [Next]_vars
    PROVE  TypeOK'
<1> USE LiveFillsAssumption DEF TypeOK
<1> USE DEF venueVars, wsVars, botVars, histVars
<1>1. CASE Tick
  BY <1>1 DEF Tick
<1>2. ASSUME NEW q \in Sizes, Execute(q) PROVE TypeOK'
  <2>1. last + 1 \in Trades
    BY <1>2 DEF Execute, Trades
  <2>2. net' \in Seq(Trades)
    BY <1>2, <2>1, AppendElements DEF Execute
  <2>3. QED
    BY <1>2, <2>1, <2>2 DEF Execute
<1>3. CASE SocketDrop
  BY <1>3 DEF SocketDrop
<1>3a. CASE Reconnect
  BY <1>3a DEF Reconnect
<1>4. CASE Pump
  <2>1. net' \in Seq(Trades) /\ chan' \in Seq(Trades)
    BY <1>4, TailElements, AppendElements DEF Pump
  <2>2. QED
    BY <1>4, <2>1 DEF Pump
<1>5. CASE Subscribe
  BY <1>5 DEF Subscribe
<1>6. CASE SeedOk
  <2>1. Executed \subseteq Trades
    BY DEF Executed, Trades
  <2>2. QED
    BY <1>6, <2>1 DEF SeedOk
<1>6a. CASE SeedErr
  BY <1>6a DEF SeedErr
<1>7. CASE Start
  BY <1>7 DEF Start, StartFrom
<1>8. CASE RunnerEnds
  BY <1>8 DEF RunnerEnds
<1>9. CASE WsFill
  <2>1. chan' \in Seq(Trades) /\ Head(chan) \in Trades
    BY <1>9, TailElements DEF WsFill
  <2>2. CASE Head(chan) \in Seen
    BY <1>9, <2>1, <2>2 DEF WsFill
  <2>3. CASE Head(chan) \notin Seen
    <3> DEFINE h == Head(chan)
    <3>1. /\ bookings' = [t \in Trades |-> IF t \in {h} THEN bookings[t] + 1 ELSE bookings[t]]
          /\ slot' = [slot EXCEPT ![h] = top + 1] /\ top' = top + 1
      BY <1>9, <2>3 DEF WsFill, ApplyFills
    <3> HIDE DEF h
    <3>2a. bookings' \in [Trades -> Nat]
      BY <3>1
    <3>2b. top + 1 \in Nat
      OBVIOUS
    <3>2c. slot' \in [Trades -> Nat]
      BY <3>1, <3>2b, Zenon
    <3>2. bookings' \in [Trades -> Nat] /\ slot' \in [Trades -> Nat] /\ top' \in Nat
      BY <3>1, <3>2a, <3>2b, <3>2c
    <3>3. QED
      BY <1>9, <2>1, <3>2 DEF WsFill
  <2>4. QED
    BY <2>2, <2>3
<1>10. CASE ReconFillsOk
  <2>1. PICK hidden, newest :
           /\ newest \in {from} \cup {ts[t] : t \in Fetched(hidden)}
           /\ ApplyFills(Fetched(hidden) \ Seen)
           /\ replayed' = replayed \cup (Fetched(hidden) \ Seen)
           /\ slot' = Pruned([t \in Trades |-> IF t \in Fetched(hidden) \ Seen
                                               THEN top + t ELSE slot[t]], NewFrom(newest))
           /\ top' = IF Fetched(hidden) \ Seen = {} THEN top ELSE top + last
           /\ from' = NewFrom(newest)
    BY <1>10 DEF ReconFillsOk
  <2>2. Fetched(hidden) \subseteq Trades
    BY DEF Fetched, Executed, Trades
  <2>3. newest \in 0..MaxTime /\ NewFrom(newest) \in 0..MaxTime
    BY <2>1, <2>2 DEF NewFrom
  <2>4. bookings' \in [Trades -> Nat]
    BY <2>1 DEF ApplyFills
  <2>5. replayed' \subseteq Trades
    BY <2>1, <2>2
  <2>6. top' \in Nat
    BY <2>1
  <2>7. slot' \in [Trades -> Nat]
    <3> DEFINE s == [t \in Trades |-> IF t \in Fetched(hidden) \ Seen THEN top + t ELSE slot[t]]
    <3>1. s \in [Trades -> Nat]
      BY DEF Trades
    <3>2. QED
      BY <2>1, <3>1 DEF Pruned
  <2>8. QED
    BY <1>10, <2>1, <2>3, <2>4, <2>5, <2>6, <2>7 DEF ReconFillsOk
<1>11. CASE ReconFillsErr \/ ReconPositionOk \/ ReconPositionErr
  BY <1>11 DEF ReconFillsErr, ReconPositionOk, ReconPositionErr
<1>12. CASE UNCHANGED vars
  BY <1>12 DEF vars
<1>13. QED
  BY <1>1, <1>2, <1>3, <1>3a, <1>4, <1>5, <1>6, <1>6a, <1>7, <1>8, <1>9, <1>10, <1>11, <1>12 DEF Next

\* Every variable keeps its type, for all values of the constants.
THEOREM Typing == Spec => []TypeOK
<1>1. Init => TypeOK
  BY LiveFillsAssumption DEF Init, TypeOK
<1>2. TypeOK /\ [Next]_vars => TypeOK'
  BY TypingStep
<1>3. QED
  BY <1>1, <1>2, PTL DEF Spec

-----------------------------------------------------------------------------
(* The inductive invariant, one lemma per action that can disturb it.      *)

\* The websocket path carries trades.
LEMMA InFlightTrades ==
    ASSUME TypeOK PROVE InFlight \subseteq Trades
<1>1. ToSet(net) \subseteq Trades
  BY DEF TypeOK, ToSet
<1>2. ToSet(chan) \subseteq Trades
  BY DEF TypeOK, ToSet
<1>3. QED
  BY <1>1, <1>2 DEF InFlight

\* Time passes: fills in flight stay within the look-back overlap.
LEMMA TickStep ==
    ASSUME Timely, IInv, Tick PROVE IInv'
<1> USE LiveFillsAssumption DEF TypeOK, venueVars, wsVars, botVars, histVars, Timely, IInv, Tick
<1>0. TypeOK'
  BY TypingStep DEF Next
<1>1. InFlight' = InFlight /\ Booked' = Booked /\ Seen' = Seen /\ Executed' = Executed /\ (Running' <=> Running)
  BY DEF InFlight, Booked, Seen, Executed, Running
<1>5. InFlightFresh'
  <2>1. ASSUME Running, NEW t \in InFlight PROVE now' - ts[t] <= Lookback
    <3>1. ts[t] \in Int
      BY <2>1, InFlightTrades
    <3>2. now - ts[t] < MaxDelay
      BY <2>1 DEF Running
    <3>3. QED
      BY <3>1, <3>2
  <2>2. QED
    BY <2>1, <1>1 DEF InFlightFresh
<1>2. PathOrdered'
  BY <1>1 DEF PathOrdered
<1>3. ClocksOK'
  BY <1>1 DEF ClocksOK, Executed, Running, Trades
<1>4. DedupCovers'
  BY <1>1 DEF DedupCovers
<1>6. SeedBefore'
  BY <1>1 DEF SeedBefore
<1>7. BookedAtMostOnce' /\ NoFillSkipped' /\ NoSeededReplay'
  BY <1>1 DEF BookedAtMostOnce, NoFillSkipped, NoSeededReplay
<1>8. QED
  BY <1>0, <1>2, <1>3, <1>4, <1>5, <1>6, <1>7

\* The venue executes a trade: it is the newest of all, on the path and in time.
LEMMA ExecuteStep ==
    ASSUME Timely, IInv, NEW q \in Sizes, Execute(q) PROVE IInv'
<1> DEFINE t == last + 1
<1> USE LiveFillsAssumption DEF venueVars, wsVars, botVars, histVars
<1>0. TypeOK /\ TypeOK'
  BY TypingStep DEF Next, IInv
<1>1. t \in Trades /\ Executed' = Executed \cup {t} /\ t \notin Executed
  <2>1. last \in Nat /\ last < MaxTrades /\ last' = last + 1 /\ MaxTrades \in Nat
    BY <1>0 DEF Execute, TypeOK
  <2>2. QED
    BY <2>1 DEF Trades, Executed
<1>2. Booked' = Booked /\ Seen' = Seen /\ (Running' <=> Running)
  BY DEF Execute, Booked, Seen, Running
<1>3. /\ ts'[t] = now
      /\ \A u \in Executed : u \in Trades /\ u # t /\ ts'[u] = ts[u] /\ ts[u] \in Nat
  BY <1>0, <1>1 DEF Execute, TypeOK, Trades, Executed
<1>4. InFlight \subseteq Executed
  <2>1. \A u \in InFlight : u \in Trades /\ u <= last
    BY <1>0, InFlightTrades DEF IInv, PathOrdered
  <2>2. QED
    BY <2>1, <1>0 DEF Executed, Trades, TypeOK
<1>5. InFlight' \subseteq InFlight \cup {t}
  BY <1>0, <1>1, AppendElements DEF Execute, InFlight, TypeOK
<1>6. PathOrdered'
  <2>1. CASE net' = net
    <3>1. \A u \in InFlight' : u <= last'
      BY <1>5, <1>4, <1>0 DEF Execute, TypeOK, Executed
    <3>2. QED
      BY <2>1, <3>1 DEF Execute, PathOrdered, IInv
  <2>2. CASE net' = Append(net, t)
    <3>1. /\ \A i \in DOMAIN net' :
                \/ i \in DOMAIN net /\ net'[i] = net[i]
                \/ i = Len(net) + 1 /\ net'[i] = t
          /\ \A i \in DOMAIN net : i \in Nat /\ i < Len(net) + 1
      BY <2>2, <1>0, <1>1, AppendElements DEF TypeOK
    <3>2. (\A i \in DOMAIN net : net[i] < t) /\ (\A i \in DOMAIN chan : chan[i] < t)
      <4>1. (\A i \in DOMAIN net : net[i] \in InFlight) /\ (\A i \in DOMAIN chan : chan[i] \in InFlight)
        BY DEF InFlight, ToSet
      <4>2. \A u \in Executed : u < t
        BY <1>0 DEF TypeOK, Executed
      <4>3. QED
        BY <4>1, <4>2, <1>4
    <3>3. \A u \in InFlight' : u <= last'
      BY <1>5, <1>4, <1>0 DEF Execute, TypeOK, Executed
    <3>4. \A i, j \in DOMAIN net' : i < j => net'[i] < net'[j]
      BY <3>1, <3>2 DEF IInv, PathOrdered
    <3>5. \A i \in DOMAIN chan, j \in DOMAIN net' : chan[i] < net'[j]
      BY <3>1, <3>2 DEF IInv, PathOrdered
    <3>6. QED
      BY <3>3, <3>4, <3>5 DEF Execute, IInv, PathOrdered
  <2>3. QED
    BY <2>1, <2>2 DEF Execute
<1>7. ClocksOK'
  BY <1>0, <1>1, <1>2, <1>3 DEF Execute, IInv, ClocksOK, TypeOK
<1>8. DedupCovers'
  BY <1>1, <1>2, <1>3 DEF Execute, IInv, DedupCovers
<1>9. InFlightFresh'
  BY <1>0, <1>1, <1>2, <1>3, <1>4, <1>5 DEF Execute, IInv, InFlightFresh, DedupCovers, TypeOK
<1>10. SeedBefore'
  BY <1>1, <1>2, <1>3 DEF Execute, IInv, SeedBefore
<1>11. NoFillSkipped'
  BY <1>0, <1>1, <1>2, <1>3 DEF Execute, IInv, NoFillSkipped, ClocksOK, Running, TypeOK
<1>12. BookedAtMostOnce' /\ NoSeededReplay'
  BY DEF Execute, IInv, BookedAtMostOnce, NoSeededReplay
<1>13. QED
  BY <1>0, <1>6, <1>7, <1>8, <1>9, <1>10, <1>11, <1>12 DEF IInv

\* Losing, opening or handing over the path; starting and ending a runner.
LEMMA PathStep ==
    ASSUME Timely, IInv, SocketDrop \/ Reconnect \/ Subscribe \/ ReconFillsErr
                           \/ ReconPositionOk \/ ReconPositionErr
    PROVE  IInv'
<1> USE DEF venueVars, wsVars, botVars, histVars
<1> USE DEF SocketDrop, Reconnect, Subscribe, ReconFillsErr, ReconPositionOk, ReconPositionErr
<1>1. TypeOK /\ TypeOK'
  BY TypingStep DEF Next, IInv
<1>2. /\ Executed' = Executed /\ Booked' = Booked /\ Seen' = Seen
      /\ last' = last /\ now' = now /\ ts' = ts /\ from' = from /\ bootFrom' = bootFrom
      /\ seeded' = seeded /\ replayed' = replayed /\ bookings' = bookings
  BY DEF Executed, Booked, Seen
<1>3. chan' = chan /\ (net' = net \/ net' = <<>>)
  OBVIOUS
<1>4. InFlight' \subseteq InFlight
  BY <1>3, EmptyElements DEF InFlight
<1>5. Running' <=> Running
  BY DEF Running
<1>6. PathOrdered'
  BY <1>2, <1>3, <1>4 DEF IInv, PathOrdered
<1>7. ClocksOK' /\ DedupCovers' /\ InFlightFresh' /\ SeedBefore'
  BY <1>2, <1>4, <1>5 DEF IInv, ClocksOK, DedupCovers, InFlightFresh, SeedBefore
<1>8. BookedAtMostOnce' /\ NoFillSkipped' /\ NoSeededReplay'
  BY <1>2, <1>5 DEF IInv, BookedAtMostOnce, NoFillSkipped, NoSeededReplay, Running
<1>9. QED
  BY <1>1, <1>6, <1>7, <1>8 DEF IInv

\* A fill moves from the socket to the runner's channel.
LEMMA PumpStep ==
    ASSUME Timely, IInv, Pump
    PROVE  IInv'
<1> DEFINE h == Head(net)
<1> USE DEF venueVars, wsVars, botVars, histVars
<1>1. TypeOK /\ TypeOK'
  BY TypingStep DEF Next, IInv
<1>2. /\ Executed' = Executed /\ Booked' = Booked /\ Seen' = Seen
      /\ last' = last /\ now' = now /\ ts' = ts /\ from' = from /\ bootFrom' = bootFrom
      /\ seeded' = seeded /\ replayed' = replayed /\ bookings' = bookings /\ phase' = phase
  BY DEF Pump, Executed, Booked, Seen
<1>3. /\ h \in Trades /\ h \in ToSet(net) /\ h = net[1] /\ 1 \in DOMAIN net
      /\ ToSet(Tail(net)) \subseteq ToSet(net)
      /\ \A i \in DOMAIN Tail(net) :
            i + 1 \in DOMAIN net /\ i \in Nat /\ i > 0 /\ Tail(net)[i] = net[i + 1]
  BY <1>1, TailElements DEF Pump, TypeOK
<1>3a. chan \in Seq(Trades) /\ chan' = Append(chan, h) /\ net' = Tail(net)
  BY <1>1 DEF Pump, TypeOK
<1> HIDE DEF h
<1>4. /\ ToSet(Append(chan, h)) = ToSet(chan) \cup {h}
      /\ \A i \in DOMAIN Append(chan, h) :
            \/ i \in DOMAIN chan /\ Append(chan, h)[i] = chan[i]
            \/ i = Len(chan) + 1 /\ Append(chan, h)[i] = h
      /\ \A i \in DOMAIN chan : i \in Nat /\ i < Len(chan) + 1
  BY <1>3, <1>3a, AppendElements
<1>5. InFlight' \subseteq InFlight
  BY <1>3, <1>3a, <1>4 DEF InFlight
<1>6. PathOrdered'
  <2> USE DEF IInv, PathOrdered
  <2>1. \A u \in InFlight' : u <= last'
    BY <1>2, <1>5
  <2>2. \A i, j \in DOMAIN Tail(net) : i < j => Tail(net)[i] < Tail(net)[j]
    BY <1>3
  <2>3. \A i \in DOMAIN chan : chan[i] < h
    BY <1>3
  <2>4. \A j \in DOMAIN Tail(net) : h < Tail(net)[j]
    BY <1>3
  <2>5. \A i, j \in DOMAIN Append(chan, h) : i < j => Append(chan, h)[i] < Append(chan, h)[j]
    BY <1>4, <2>3
  <2>6. \A i \in DOMAIN Append(chan, h), j \in DOMAIN Tail(net) : Append(chan, h)[i] < Tail(net)[j]
    BY <1>3, <1>4, <2>4
  <2>7. QED
    BY <2>1, <2>2, <2>5, <2>6, <1>3a
<1>7. ClocksOK' /\ DedupCovers' /\ InFlightFresh' /\ SeedBefore'
  BY <1>2, <1>5 DEF IInv, ClocksOK, DedupCovers, InFlightFresh, SeedBefore, Running
<1>8. BookedAtMostOnce' /\ NoFillSkipped' /\ NoSeededReplay'
  BY <1>2 DEF IInv, BookedAtMostOnce, NoFillSkipped, NoSeededReplay
<1>9. QED
  BY <1>1, <1>6, <1>7, <1>8 DEF IInv

\* The supervisor seeds and starts a runner; the runner ends.
LEMMA LifecycleStep ==
    ASSUME Timely, IInv, SeedOk \/ SeedErr \/ Start \/ RunnerEnds
    PROVE  IInv'
<1> USE DEF venueVars, wsVars, botVars, histVars
<1>1. TypeOK /\ TypeOK'
  BY TypingStep DEF Next, IInv
<1>2. /\ Executed' = Executed /\ Booked' = Booked
      /\ last' = last /\ now' = now /\ ts' = ts /\ bookings' = bookings
  BY DEF SeedOk, SeedErr, Start, RunnerEnds, Executed, Booked
<1>3. BookedAtMostOnce'
  BY <1>2 DEF IInv, BookedAtMostOnce
<1>4. CASE SeedOk \/ SeedErr
  <2>1. /\ ~Running /\ ~Running'
        /\ net' = net /\ chan' = chan /\ slot' = slot /\ replayed' = replayed
        /\ seeded' = seeded \/ seeded' = Executed
    BY <1>4 DEF SeedOk, SeedErr, Running
  <2>2. InFlight' = InFlight /\ Seen' = Seen
    BY <2>1 DEF InFlight, Seen
  <2>3. PathOrdered' /\ ClocksOK' /\ DedupCovers' /\ InFlightFresh' /\ SeedBefore'
    BY <1>2, <2>1, <2>2 DEF IInv, PathOrdered, ClocksOK, DedupCovers, InFlightFresh, SeedBefore
  <2>4. NoFillSkipped' /\ NoSeededReplay'
    BY <2>1 DEF IInv, NoFillSkipped, NoSeededReplay, Running, SeedBefore
  <2>5. QED
    BY <1>1, <1>3, <2>3, <2>4 DEF IInv
<1>5. CASE Start
  <2>1. /\ ~Running /\ Running'
        /\ net' = net /\ chan' = chan /\ slot' = slot /\ replayed' = {} /\ seeded' = seeded
    BY <1>5 DEF Start, Running, IInv, SeedBefore
  <2>2. InFlight' = InFlight /\ Seen' = Seen
    BY <2>1 DEF InFlight, Seen
  <2>3. from' = now /\ bootFrom' = now
    BY <1>1, <1>5 DEF Start, StartFrom, Timely, TypeOK
  <2>4. \A t \in seeded \cup Booked : ts[t] < now
    BY <1>5 DEF Start
  <2>5. now \in Int /\ ts \in [Trades -> Int] /\ Lookback \in Nat /\ Booked \subseteq Trades /\ seeded \subseteq Trades
    BY <1>1, LiveFillsAssumption DEF TypeOK, Booked
  <2>6. InFlight \subseteq Executed
    <3>1. \A u \in InFlight : u \in Trades /\ u <= last
      BY <1>1, InFlightTrades DEF IInv, PathOrdered
    <3>2. QED
      BY <3>1, <1>1 DEF Executed, Trades, TypeOK
  <2>7. PathOrdered'
    BY <1>2, <2>1, <2>2 DEF IInv, PathOrdered
  <2>8. ClocksOK' /\ DedupCovers' /\ SeedBefore'
    BY <1>2, <2>1, <2>2, <2>3, <2>4, <2>5 DEF IInv, ClocksOK, DedupCovers, SeedBefore
  <2>9. InFlightFresh'
    BY <1>1, <1>2, <2>1, <2>2, <2>3, <2>5, <2>6, InFlightTrades DEF IInv, ClocksOK, InFlightFresh
  <2>10. NoFillSkipped' /\ NoSeededReplay'
    <3>1. \A t \in Executed : t \in Trades
      BY <1>1, LiveFillsAssumption DEF TypeOK, Executed, Trades
    <3>2. \A t \in Executed : ~(now <= ts[t] /\ ts[t] < now)
      BY <2>5, <3>1
    <3>3. QED
      BY <1>2, <2>1, <2>3, <3>2 DEF NoFillSkipped, NoSeededReplay
  <2>11. QED
    BY <1>1, <1>3, <2>7, <2>8, <2>9, <2>10 DEF IInv
<1>6. CASE RunnerEnds
  <2>1. ~Running' /\ InFlight' = {} /\ net' = <<>> /\ chan' = <<>>
    BY <1>6, EmptyElements DEF RunnerEnds, Running, InFlight
  <2>2. Seen' = {}
    BY <1>6 DEF RunnerEnds, Seen
  <2>3. seeded' = {} /\ replayed' = {}
    BY <1>6 DEF RunnerEnds
  <2>4. PathOrdered' /\ ClocksOK' /\ DedupCovers' /\ InFlightFresh' /\ SeedBefore'
    BY <1>2, <2>1, <2>2, <2>3 DEF IInv, PathOrdered, ClocksOK, DedupCovers, InFlightFresh, SeedBefore
  <2>5. NoFillSkipped' /\ NoSeededReplay'
    BY <2>1, <2>3 DEF NoFillSkipped, NoSeededReplay, Running
  <2>6. QED
    BY <1>1, <1>3, <2>4, <2>5 DEF IInv
<1>7. QED
  BY <1>4, <1>5, <1>6

\* What is in flight has been executed.
LEMMA InFlightExecuted ==
    ASSUME IInv
    PROVE  InFlight \subseteq Executed /\ Executed \subseteq Trades
<1>1. \A u \in InFlight : u \in Trades /\ u <= last
  BY InFlightTrades DEF IInv, PathOrdered
<1>2. QED
  BY <1>1, LiveFillsAssumption DEF IInv, Executed, Trades, TypeOK

\* A fill off the channel: booked unless the dedup set knows it.
LEMMA WsFillStep ==
    ASSUME Timely, IInv, WsFill
    PROVE  IInv'
<1> DEFINE h == Head(chan)
<1> USE DEF venueVars, wsVars, botVars, histVars
<1>1. TypeOK /\ TypeOK'
  BY TypingStep DEF Next, IInv
<1>2. /\ Executed' = Executed /\ last' = last /\ now' = now /\ ts' = ts /\ from' = from
      /\ bootFrom' = bootFrom /\ seeded' = seeded /\ replayed' = replayed
      /\ phase' = phase /\ Running /\ Running' /\ net' = net /\ chan' = Tail(chan)
  BY DEF WsFill, Executed, Running
<1>3. /\ h \in Trades /\ h \in ToSet(chan) /\ h = chan[1] /\ 1 \in DOMAIN chan
      /\ ToSet(Tail(chan)) \subseteq ToSet(chan)
      /\ \A i \in DOMAIN Tail(chan) :
            i + 1 \in DOMAIN chan /\ i \in Nat /\ i > 0 /\ Tail(chan)[i] = chan[i + 1]
  BY <1>1, TailElements DEF WsFill, TypeOK
<1>4. h \in InFlight /\ h \in Executed
  BY <1>3, InFlightExecuted DEF InFlight
<1>5. \/ h \in Seen /\ bookings' = bookings /\ slot' = slot
      \/ /\ h \notin Seen
         /\ bookings' = [t \in Trades |-> IF t = h THEN bookings[t] + 1 ELSE bookings[t]]
         /\ slot' = [slot EXCEPT ![h] = top + 1]
  <2>1. CASE h \in Seen
    BY <2>1 DEF WsFill
  <2>2. CASE h \notin Seen
    BY <2>2 DEF WsFill, ApplyFills
  <2>3. QED
    BY <2>1, <2>2
<1>5a. bookings \in [Trades -> Nat] /\ slot \in [Trades -> Nat] /\ top + 1 \in Nat /\ top + 1 > 0
  BY <1>1 DEF TypeOK
<1> HIDE DEF h
<1>6. h \in Booked => h \in Seen
  BY <1>2, <1>4 DEF IInv, InFlightFresh, DedupCovers
<1>7. Booked' = Booked \cup {h} /\ Seen' = Seen \cup {h}
  <2> USE DEF Booked, Seen
  <2>1. CASE h \in Seen /\ bookings' = bookings /\ slot' = slot
    BY <2>1 DEF IInv, DedupCovers
  <2>2. CASE /\ bookings' = [t \in Trades |-> IF t = h THEN bookings[t] + 1 ELSE bookings[t]]
             /\ slot' = [slot EXCEPT ![h] = top + 1]
    <3>1. \A t \in Trades : bookings'[t] > 0 <=> bookings[t] > 0 \/ t = h
      BY <2>2, <1>5a
    <3>2. \A t \in Trades : slot'[t] > 0 <=> slot[t] > 0 \/ t = h
      BY <2>2, <1>5a
    <3>3. QED
      BY <3>1, <3>2, <1>3
  <2>3. QED
    BY <1>5, <2>1, <2>2
<1>8. BookedAtMostOnce'
  <2>1. CASE bookings' = bookings
    BY <2>1 DEF IInv, BookedAtMostOnce
  <2>2. CASE /\ h \notin Seen
             /\ bookings' = [t \in Trades |-> IF t = h THEN bookings[t] + 1 ELSE bookings[t]]
    <3>1. bookings[h] = 0
      BY <2>2, <1>6, <1>3, <1>5a DEF Booked
    <3>2. \A t \in Trades : bookings[t] <= 1
      BY DEF IInv, BookedAtMostOnce
    <3>3. QED
      BY <2>2, <3>1, <3>2, <1>5a DEF BookedAtMostOnce
  <2>3. QED
    BY <1>5, <2>1, <2>2
<1>9. InFlight' \subseteq InFlight /\ h \notin InFlight'
  <2>1. InFlight' = ToSet(net) \cup ToSet(Tail(chan))
    BY <1>2 DEF InFlight
  <2>2. ToSet(net) \subseteq InFlight /\ ToSet(Tail(chan)) \subseteq InFlight
    BY <1>3 DEF InFlight
  <2>3. \A j \in DOMAIN net : net[j] # h
    <3>1. \A j \in DOMAIN net : chan[1] < net[j]
      BY <1>1, <1>3 DEF IInv, PathOrdered
    <3>2. h \in Int
      BY <1>3 DEF Trades
    <3>3. \A j \in DOMAIN net : h < net[j]
      BY <1>3, <3>1
    <3>4. \A n \in Int : ~(n < n)
      OBVIOUS
    <3>5. QED
      BY <3>2, <3>3, <3>4
  <2>4. \A i \in DOMAIN Tail(chan) : Tail(chan)[i] # h
    <3>1. \A i \in DOMAIN Tail(chan) : chan[1] < chan[i + 1]
      BY <1>3 DEF IInv, PathOrdered
    <3>2. \A i \in DOMAIN chan : chan[i] \in Int
      <4>1. \A i \in DOMAIN chan : chan[i] \in Trades
        BY <1>1 DEF TypeOK
      <4>2. QED
        BY <4>1 DEF Trades
    <3>3. QED
      BY <1>3, <3>1, <3>2
  <2>5. QED
    BY <2>1, <2>2, <2>3, <2>4 DEF ToSet
<1>10. PathOrdered'
  <2> USE DEF IInv, PathOrdered
  <2>1. \A u \in InFlight' : u <= last'
    BY <1>2, <1>9
  <2>2. \A i, j \in DOMAIN Tail(chan) : i < j => Tail(chan)[i] < Tail(chan)[j]
    BY <1>3
  <2>3. \A i \in DOMAIN Tail(chan), j \in DOMAIN net : Tail(chan)[i] < net[j]
    BY <1>3
  <2>4. QED
    BY <1>2, <2>1, <2>2, <2>3
<1>11. ClocksOK' /\ SeedBefore'
  BY <1>2 DEF IInv, ClocksOK, SeedBefore
<1>12. DedupCovers'
  BY <1>2, <1>4, <1>7 DEF IInv, DedupCovers
<1>13. InFlightFresh'
  BY <1>2, <1>7, <1>9 DEF IInv, InFlightFresh
<1>14. NoFillSkipped' /\ NoSeededReplay'
  BY <1>2, <1>7 DEF IInv, NoFillSkipped, NoSeededReplay
<1>15. QED
  BY <1>1, <1>8, <1>10, <1>11, <1>12, <1>13, <1>14 DEF IInv

\* A gap-fill: the missed trades are booked, the window moves, the set is pruned.
LEMMA ReconFillsStep ==
    ASSUME Timely, IInv, ReconFillsOk
    PROVE  IInv'
<1> USE DEF venueVars, wsVars, botVars, histVars
<1>1. TypeOK /\ TypeOK'
  BY TypingStep DEF Next, IInv
<1>2. /\ Executed' = Executed /\ last' = last /\ now' = now /\ ts' = ts
      /\ bootFrom' = bootFrom /\ seeded' = seeded
      /\ Running /\ Running' /\ InFlight' = InFlight /\ net' = net /\ chan' = chan
  BY DEF ReconFillsOk, Executed, Running, InFlight
<1>3. PICK hidden, newest :
         /\ hidden \subseteq {t \in Executed : now - ts[t] < RestLag}
         /\ newest \in {from} \cup {ts[t] : t \in Fetched(hidden)}
         /\ \A t \in Fetched(hidden) : ts[t] <= newest
         /\ ApplyFills(Fetched(hidden) \ Seen)
         /\ replayed' = replayed \cup (Fetched(hidden) \ Seen)
         /\ slot' = Pruned([t \in Trades |-> IF t \in Fetched(hidden) \ Seen
                                             THEN top + t ELSE slot[t]], NewFrom(newest))
         /\ from' = NewFrom(newest)
  BY DEF ReconFillsOk
<1> DEFINE missed == Fetched(hidden) \ Seen
           filled == [t \in Trades |-> IF t \in missed THEN top + t ELSE slot[t]]
<1>4. /\ Fetched(hidden) = {t \in Executed : from <= ts[t]} \ hidden
      /\ missed \subseteq Executed /\ Executed \subseteq Trades
  BY InFlightExecuted, <1>1 DEF Fetched, TypeOK
<1>5. /\ now \in Int /\ from \in Int /\ from' \in Int /\ Lookback \in Nat /\ RestLag \in Nat
      /\ \A t \in Trades : ts[t] \in Int
  BY <1>1, LiveFillsAssumption DEF TypeOK
<1>6. \A t \in Executed : ts[t] <= now
  BY DEF IInv, ClocksOK
<1>7. /\ newest \in Int /\ newest <= now
      /\ from <= from' /\ newest - Lookback <= from' /\ (from' = from \/ from' = newest - Lookback)
  BY <1>2, <1>3, <1>4, <1>5, <1>6 DEF IInv, ClocksOK, NewFrom
<1>8. bookings' = [t \in Trades |-> IF t \in missed THEN bookings[t] + 1 ELSE bookings[t]]
  BY <1>3 DEF ApplyFills
<1>9. \A t \in missed : t \notin Booked /\ from <= ts[t]
  BY <1>2, <1>4 DEF IInv, DedupCovers
<1>9a. bookings \in [Trades -> Nat] /\ slot \in [Trades -> Nat] /\ top \in Nat
  BY <1>1 DEF TypeOK
<1>10. /\ \A t \in Trades : filled[t] > 0 <=> t \in Seen \cup missed
       /\ \A t \in Trades : filled[t] \in Nat
  <2>1. \A t \in Trades : t \in Nat /\ t > 0 /\ top + t > 0 /\ top + t \in Nat
    BY <1>9a DEF Trades
  <2>2. \A t \in Trades : t \in missed => filled[t] = top + t
    OBVIOUS
  <2>3. \A t \in Trades : t \notin missed => filled[t] = slot[t]
    OBVIOUS
  <2> HIDE DEF missed, filled
  <2>4. QED
    BY <1>9a, <2>1, <2>2, <2>3 DEF Seen
<1>11. \A t \in Seen' : t \in Seen \cup missed
  BY <1>3, <1>10 DEF Seen, Pruned
<1>12. \A t \in Seen \cup missed : from' <= ts[t] => t \in Seen'
  BY <1>1, <1>3, <1>4, <1>5, <1>10 DEF Seen, Pruned
<1> HIDE DEF missed, filled
<1>13. Booked' = Booked \cup missed
  <2>1. \A t \in Trades : bookings'[t] > 0 <=> bookings[t] > 0 \/ t \in missed
    BY <1>8, <1>9a
  <2>2. QED
    BY <2>1, <1>4 DEF Booked
<1>14. BookedAtMostOnce'
  <2>1. \A t \in missed : bookings[t] = 0
    BY <1>4, <1>9, <1>9a DEF Booked
  <2>2. \A t \in Trades : bookings[t] <= 1
    BY DEF IInv, BookedAtMostOnce
  <2>3. QED
    BY <2>1, <2>2, <1>8, <1>9a DEF BookedAtMostOnce
<1>15. PathOrdered'
  BY <1>2 DEF IInv, PathOrdered
<1>16. ClocksOK'
  BY <1>2, <1>5, <1>7 DEF IInv, ClocksOK
<1>17. DedupCovers'
  <2>1. Booked' \subseteq Executed'
    BY <1>2, <1>4, <1>13 DEF IInv, DedupCovers
  <2>2. Seen' \subseteq Booked'
    BY <1>11, <1>13 DEF IInv, DedupCovers
  <2>3. \A t \in Booked' : from' <= ts'[t] => t \in Seen'
    <3>1. \A t \in Booked : t \in Trades /\ (from <= ts[t] => t \in Seen)
      BY <1>2 DEF IInv, DedupCovers, Booked
    <3>2. QED
      BY <3>1, <1>2, <1>5, <1>7, <1>12, <1>13
  <2>4. QED
    BY <2>1, <2>2, <2>3 DEF DedupCovers
<1>18. InFlightFresh'
  <2>1. \A t \in InFlight : t \in Executed /\ t \in Trades
    BY InFlightExecuted
  <2>2. \A t \in InFlight : from <= ts[t] => from' <= ts[t]
    BY <2>1, <1>2, <1>5, <1>7 DEF IInv, InFlightFresh
  <2>3. \A t \in InFlight : t \in Booked' => from <= ts[t]
    BY <1>2, <1>9, <1>13 DEF IInv, InFlightFresh
  <2>4. \A t \in InFlight : from' <= ts[t] => now - ts[t] <= Lookback
    BY <2>1, <1>2, <1>5, <1>7 DEF IInv, InFlightFresh
  <2>5. QED
    BY <1>2, <2>2, <2>3, <2>4 DEF InFlightFresh
<1>19. SeedBefore'
  BY <1>1, <1>2, <1>5, <1>7 DEF IInv, SeedBefore, TypeOK
<1>20. NoFillSkipped'
  <2>1. ASSUME NEW t \in Executed, bootFrom <= ts[t], ts[t] < from', t \notin Booked'
        PROVE  FALSE
    <3>1. t \notin Booked /\ t \notin missed
      BY <2>1, <1>13
    <3>2. from <= ts[t]
      BY <2>1, <3>1, <1>2, <1>4, <1>5 DEF IInv, NoFillSkipped, Running
    <3>3. t \in hidden
      BY <2>1, <3>1, <3>2, <1>4 DEF missed, IInv, DedupCovers
    <3>4. now - ts[t] < Lookback
      BY <3>3, <1>3, <1>4, <1>5, LiveFillsAssumption DEF Timely
    <3>5. QED
      BY <2>1, <3>2, <3>4, <1>4, <1>5, <1>7
  <2>2. QED
    BY <2>1, <1>2 DEF NoFillSkipped
<1>21. NoSeededReplay'
  BY <1>1, <1>2, <1>3, <1>4, <1>5, <1>9 DEF IInv, NoSeededReplay, SeedBefore, missed, TypeOK
<1>22. QED
  BY <1>1, <1>14, <1>15, <1>16, <1>17, <1>18, <1>19, <1>20, <1>21 DEF IInv

-----------------------------------------------------------------------------
(* Every step is a step of the ledger, or leaves it alone.                 *)

\* A fill off the channel is charged as a batch of one, or skipped.
LEMMA WsFillCharges ==
    ASSUME Timely, IInv, WsFill
    PROVE  UNCHANGED Ledger!ledgerVars \/ Ledger!LedgerCharge({Head(chan)})
<1> DEFINE h == Head(chan)
<1> USE DEF Ledger!ledgerVars
<1>1. /\ Running /\ Executed' = Executed /\ chan \in Seq(Trades) /\ bookings \in [Trades -> Nat]
  BY DEF WsFill, Running, Executed, venueVars, IInv, TypeOK
<1>2. h \in InFlight /\ h \in Executed /\ h \in Trades
  BY <1>1, TailElements, InFlightExecuted DEF WsFill, InFlight
<1> HIDE DEF h
<1>3. CASE h \in Seen
  BY <1>1, <1>3 DEF WsFill, h
<1>4. CASE h \notin Seen
  <2>1. bookings' = [t \in Trades |-> IF t \in {h} THEN bookings[t] + 1 ELSE bookings[t]]
    BY <1>4 DEF WsFill, ApplyFills, h
  <2>2. bookings[h] = 0
    BY <1>1, <1>2, <1>4 DEF IInv, InFlightFresh, DedupCovers, Booked
  <2>3. bookings' = [t \in Trades |-> IF t \in {h} THEN 1 ELSE bookings[t]]
    BY <2>1, <2>2
  <2>4. QED
    BY <1>1, <1>2, <2>2, <2>3 DEF Ledger!LedgerCharge, h
<1>5. QED
  BY <1>3, <1>4

\* A gap-fill charges the missed trades, all of them executed and uncharged.
LEMMA ReconFillsCharges ==
    ASSUME Timely, IInv, ReconFillsOk
    PROVE  \E S \in SUBSET Trades : Ledger!LedgerCharge(S)
<1>1. PICK hidden : ApplyFills(Fetched(hidden) \ Seen)
  BY DEF ReconFillsOk
<1> DEFINE missed == Fetched(hidden) \ Seen
<1>2. /\ Running /\ Executed' = Executed /\ bookings \in [Trades -> Nat]
      /\ Executed \subseteq Trades
  BY InFlightExecuted DEF ReconFillsOk, Running, Executed, venueVars, IInv, TypeOK
<1>3. \A t \in missed : t \in Executed /\ t \in Trades /\ from <= ts[t] /\ t \notin Seen
  BY <1>2 DEF Fetched, IInv, TypeOK
<1>4. bookings' = [t \in Trades |-> IF t \in missed THEN bookings[t] + 1 ELSE bookings[t]]
  BY <1>1 DEF ApplyFills
<1> HIDE DEF missed
<1>5. \A t \in missed : bookings[t] = 0
  BY <1>2, <1>3 DEF IInv, DedupCovers, Booked
<1>6. bookings' = [t \in Trades |-> IF t \in missed THEN 1 ELSE bookings[t]]
  BY <1>4, <1>5
<1>7. Ledger!LedgerCharge(missed) /\ missed \in SUBSET Trades
  BY <1>2, <1>3, <1>5, <1>6 DEF Ledger!LedgerCharge
<1>8. QED
  BY <1>7

\* A trade executes in the ledger when it does at the venue; all else stutters.
LEMMA LedgerStep ==
    ASSUME Timely, IInv, [Next]_vars
    PROVE  [Ledger!LedgerNext]_(Ledger!ledgerVars)
<1> USE DEF Ledger!ledgerVars
<1>1. ASSUME NEW q \in Sizes, Execute(q) PROVE Ledger!LedgerNext
  <2>1. /\ last \in Nat /\ last < MaxTrades /\ last' = last + 1 /\ bookings' = bookings
    BY <1>1, LiveFillsAssumption DEF Execute, histVars, IInv, TypeOK
  <2>2. /\ last + 1 \in Trades \ Executed /\ Executed' = Executed \cup {last + 1}
    BY <2>1, LiveFillsAssumption DEF Trades, Executed
  <2>3. Ledger!LedgerExecute(last + 1)
    BY <2>1, <2>2 DEF Ledger!LedgerExecute
  <2>4. QED
    BY <2>2, <2>3 DEF Ledger!LedgerNext
<1>2. CASE WsFill
  <2>1. Head(chan) \in Trades
    BY <1>2, TailElements DEF WsFill, IInv, TypeOK
  <2>2. QED
    BY <1>2, <2>1, WsFillCharges DEF Ledger!LedgerNext
<1>3. CASE ReconFillsOk
  BY <1>3, ReconFillsCharges DEF Ledger!LedgerNext
<1>4. CASE \/ Tick \/ SocketDrop \/ Reconnect \/ Pump \/ Subscribe \/ SeedOk \/ SeedErr
           \/ Start \/ RunnerEnds \/ ReconFillsErr \/ ReconPositionOk \/ ReconPositionErr
  <2>1. last' = last /\ bookings' = bookings
    BY <1>4 DEF Tick, SocketDrop, Reconnect, Pump, Subscribe, SeedOk, SeedErr, Start, RunnerEnds,
                ReconFillsErr, ReconPositionOk, ReconPositionErr, venueVars, histVars
  <2>2. QED
    BY <2>1 DEF Executed
<1>5. CASE UNCHANGED vars
  BY <1>5 DEF vars, venueVars, histVars, Executed
<1>6. QED
  BY <1>1, <1>2, <1>3, <1>4, <1>5 DEF Next

-----------------------------------------------------------------------------
(* The theorems.                                                           *)

\* The invariant holds initially.
LEMMA InitIInv == Init => IInv
<1> SUFFICES ASSUME Init PROVE IInv
  OBVIOUS
<1>1. TypeOK
  BY LiveFillsAssumption DEF Init, TypeOK
<1>2. InFlight = {} /\ ~Running /\ seeded = {} /\ replayed = {} /\ net = <<>> /\ chan = <<>>
  BY EmptyElements DEF Init, InFlight, Running
<1>3. Executed = {} /\ Booked = {} /\ Seen = {}
  BY DEF Init, Executed, Booked, Seen
<1>4. BookedAtMostOnce
  BY DEF Init, BookedAtMostOnce
<1>5. PathOrdered /\ ClocksOK /\ DedupCovers /\ InFlightFresh /\ SeedBefore
  BY <1>2, <1>3 DEF PathOrdered, ClocksOK, DedupCovers, InFlightFresh, SeedBefore
<1>6. NoFillSkipped /\ NoSeededReplay
  BY <1>2 DEF NoFillSkipped, NoSeededReplay, Running
<1>7. QED
  BY <1>1, <1>4, <1>5, <1>6 DEF IInv

\* Every step preserves it, when the environment is timely.
LEMMA NextIInv ==
    ASSUME Timely, IInv, [Next]_vars
    PROVE  IInv'
<1>1. CASE Tick
  BY <1>1, TickStep
<1>2. ASSUME NEW q \in Sizes, Execute(q) PROVE IInv'
  BY <1>2, ExecuteStep
<1>3. CASE SocketDrop \/ Reconnect \/ Subscribe \/ ReconFillsErr \/ ReconPositionOk \/ ReconPositionErr
  BY <1>3, PathStep
<1>4. CASE Pump
  BY <1>4, PumpStep
<1>5. CASE SeedOk \/ SeedErr \/ Start \/ RunnerEnds
  BY <1>5, LifecycleStep
<1>6. CASE WsFill
  BY <1>6, WsFillStep
<1>7. CASE ReconFillsOk
  BY <1>7, ReconFillsStep
<1>8. CASE UNCHANGED vars
  <2> USE <1>8 DEF vars, venueVars, wsVars, botVars, histVars
  <2>1. TypeOK'
    BY TypingStep DEF IInv
  <2>2. /\ Executed' = Executed /\ Booked' = Booked /\ Seen' = Seen /\ InFlight' = InFlight
        /\ (Running' <=> Running)
    BY DEF Executed, Booked, Seen, InFlight, Running
  <2>3. PathOrdered' /\ ClocksOK' /\ DedupCovers' /\ InFlightFresh' /\ SeedBefore'
    BY <2>2 DEF IInv, PathOrdered, ClocksOK, DedupCovers, InFlightFresh, SeedBefore
  <2>4. BookedAtMostOnce' /\ NoFillSkipped' /\ NoSeededReplay'
    BY <2>2 DEF IInv, BookedAtMostOnce, NoFillSkipped, NoSeededReplay
  <2>5. QED
    BY <2>1, <2>3, <2>4 DEF IInv
<1>9. QED
  BY <1>1, <1>2, <1>3, <1>4, <1>5, <1>6, <1>7, <1>8 DEF Next

\* The inductive invariant is an invariant.
THEOREM Invariance == ASSUME Timely PROVE Spec => []IInv
<1>1. IInv /\ [Next]_vars => IInv'
  BY NextIInv
<1>2. QED
  BY InitIInv, <1>1, PTL DEF Spec

\* apply_fill never runs twice on a trade, whichever channels deliver it and
\* however often the runner is restarted (TradeDedup::insert and ::prune).
THEOREM ExactlyOnce == ASSUME Timely PROVE Spec => []BookedAtMostOnce
<1>1. IInv => BookedAtMostOnce
  BY DEF IInv
<1>2. QED
  BY Invariance, <1>1, PTL

\* Moving the look-back window never steps over a trade that is not booked.
THEOREM NothingSkipped == ASSUME Timely PROVE Spec => []NoFillSkipped
<1>1. IInv => NoFillSkipped
  BY DEF IInv
<1>2. QED
  BY Invariance, <1>1, PTL

\* The gap-fill replays nothing the seed position already contains.
THEOREM SeedNotReplayed == ASSUME Timely PROVE Spec => []NoSeededReplay
<1>1. IInv => NoSeededReplay
  BY DEF IInv
<1>2. QED
  BY Invariance, <1>1, PTL

\* The two channels, their races and the restarts implement the ledger that
\* charges each executed trade once (FillLedger; apply_fill under TradeDedup).
THEOREM Refinement == ASSUME Timely PROVE Spec => ImplementsLedger
<1>1. Init => Ledger!LedgerInit
  BY DEF Init, Ledger!LedgerInit, Executed
<1>2. IInv /\ [Next]_vars => [Ledger!LedgerNext]_(Ledger!ledgerVars)
  BY LedgerStep
<1>3. QED
  BY Invariance, <1>1, <1>2, PTL DEF Spec, ImplementsLedger, Ledger!LedgerSpec

-----------------------------------------------------------------------------
(* The types of Account.                                                   *)

\* A rotation under way is of some symbol.
Placed == leaving \in Symbols <=> manager \in {"flatten", "bank", "delete"}

\* What a tap contributes is a count.
LEMMA WorthTypes ==
    ASSUME NEW n \in Nat \cup {None}
    PROVE  Worth(n) \in Nat
  BY DEF Worth, None

\* The totals stay totals when a view is folded in.
LEMMA FoldTypes ==
    ASSUME AccountTypeOK, NEW s \in Symbols
    PROVE  Fold(s) \in [Symbols -> Nat]
  <1>1. Worth(tap[s]) \in Nat /\ retired[s] \in Nat /\ retired \in [Symbols -> Nat]
    BY WorthTypes DEF AccountTypeOK
  <1> QED
    BY <1>1 DEF Fold

\* The steps taken with one symbol.
SymbolStep(s) ==
    \/ SpawnRunner(s) \/ Book(s) \/ Publish(s) \/ Snapshot(s)
    \/ RunnerExits(s) \/ RunnerPanics(s)
    \/ Spawn(s) \/ Rotate(s) \/ Retire(s)

\* Every variable keeps its type: the steps of one symbol.
LEMMA SymbolStepTypes ==
    ASSUME AccountTypeOK, NEW s \in Symbols, SymbolStep(s)
    PROVE  AccountTypeOK'
  <1> USE AccountAssumption, NobodyAssumption DEF AccountTypeOK
  <1>1. CASE SpawnRunner(s)
    BY <1>1 DEF SpawnRunner, None, stateVars, managerVars, saverVars, historyVars
  <1>2. CASE Book(s)
    BY <1>2 DEF Book, None, stateVars, managerVars, saverVars
  <1>3. CASE Publish(s)
    BY <1>3 DEF Publish, Show, stateVars, managerVars, saverVars, historyVars
  <1>4. CASE Snapshot(s)
    BY <1>4 DEF Snapshot, Show, stateVars, managerVars, saverVars, historyVars
  <1>5. CASE RunnerExits(s)
    BY <1>5 DEF RunnerExits, Epilogue, stateVars, managerVars, saverVars, historyVars
  <1>6. CASE RunnerPanics(s)
    BY <1>6 DEF RunnerPanics, stateVars, managerVars, saverVars
  <1>7. CASE Spawn(s)
    BY <1>7 DEF Spawn, None, managerVars, saverVars, historyVars
  <1>8. CASE Rotate(s)
    BY <1>8 DEF Rotate, Epilogue, Busy, stateVars, saverVars, historyVars
  <1>9. CASE Retire(s)
    <2>1. Fold(s) \in [Symbols -> Nat]
      BY FoldTypes
    <2> QED
      BY <1>9, <2>1 DEF Retire, None, managerVars, saverVars, historyVars
  <1> QED
    BY <1>1, <1>2, <1>3, <1>4, <1>5, <1>6, <1>7, <1>8, <1>9 DEF SymbolStep

\* Every variable keeps its type, under any step.
LEMMA NextTypes ==
    ASSUME AccountTypeOK, Placed, [AccountNext]_accountVars
    PROVE  AccountTypeOK'
  <1>1. ASSUME NEW s \in Symbols, SymbolStep(s) PROVE AccountTypeOK'
    BY <1>1, SymbolStepTypes
  <1> USE AccountAssumption, NobodyAssumption DEF AccountTypeOK
  <1>2. CASE FlattenErr
    BY <1>2 DEF FlattenErr, None, saverVars, historyVars
  <1>3. CASE FlattenOk
    BY <1>3 DEF FlattenOk, runnerVars, saverVars, historyVars
  <1>4. CASE Bank
    <2>1. retired' \in [Symbols -> Nat]
      BY <1>4, FoldTypes DEF Bank, Placed
    <2> QED
      BY <1>4, <2>1 DEF Bank, runnerVars, saverVars, historyVars
  <1>5. CASE DeleteSnapshot
    BY <1>5 DEF DeleteSnapshot, stateVars, saverVars, historyVars
  <1>6. CASE SaveReadsRetired
    BY <1>6 DEF SaveReadsRetired, runnerVars, stateVars, managerVars, historyVars
  <1>7. ASSUME NEW s \in Symbols PROVE Pending(s) \in Nat
    BY DEF Pending, Worth, None
  <1>8. CASE SaveReadsViews
    BY <1>7, <1>8 DEF SaveReadsViews, runnerVars, stateVars, managerVars, historyVars
  <1>9. CASE SaveWrites
    BY <1>9 DEF SaveWrites, Zero, runnerVars, stateVars, managerVars, historyVars
  <1>10. CASE Shutdown
    BY <1>10 DEF Shutdown, runnerVars, stateVars, managerVars, saverVars, historyVars
  <1>11. CASE StopAll
    BY <1>11 DEF StopAll, Epilogue, Busy, stateVars, saverVars, historyVars
  <1>12. CASE FinalSave
    BY <1>7, <1>12 DEF FinalSave, stateVars, managerVars, saverVars, historyVars
  <1>13. CASE Exit
    BY <1>13 DEF Exit, Gone, Zero, None, Placed
  <1>14. ASSUME NEW torn \in SUBSET Symbols, Kill(torn) PROVE AccountTypeOK'
    BY <1>14 DEF Kill, Gone, Zero, None, Placed
  <1>15. CASE Restart
    BY <1>15 DEF Restart, runnerVars, managerVars, saverVars, historyVars
  <1>16. CASE UNCHANGED accountVars
    BY <1>16 DEF accountVars, runnerVars, stateVars, managerVars, saverVars, historyVars
  <1> QED
    BY <1>1, <1>2, <1>3, <1>4, <1>5, <1>6, <1>8, <1>9, <1>10, <1>11, <1>12, <1>13, <1>14,
       <1>15, <1>16 DEF AccountNext, SymbolStep

-----------------------------------------------------------------------------
(* Where a rotation stands.                                                *)

\* What the steps of a rotation have done so far to a symbol.
Stands(s) ==
    /\ leaving = s =>
          \/ manager = "flatten" /\ status[s] = "on"
          \/ manager = "bank" /\ status[s] = "rotated" /\ banked[s] = "no"
          \/ manager = "delete" /\ status[s] = "rotated" /\ banked[s] = "yes"
    /\ runner[s] = "on" => status[s] = "on" /\ leaving # s
    /\ banked[s] = "yes" => status[s] = "rotated"
    /\ leaving # s /\ status[s] = "rotated" => banked[s] = "yes" /\ disk[s] = 0
    /\ process = "down" => status[s] = "none" /\ tap[s] = None
    /\ lag[s] = "tap" => leaving = s /\ manager \in {"flatten", "bank"}

Standing ==
    /\ Placed
    /\ process = "down" => manager = "idle" /\ saver = "idle"
    /\ \A s \in Symbols : Stands(s)

\* A rotation goes through its steps in order: the steps of one symbol.
LEMMA SymbolStepStands ==
    ASSUME AccountTypeOK, Standing, NEW s \in Symbols, SymbolStep(s)
    PROVE  Standing'
  <1> USE AccountAssumption, NobodyAssumption
      DEF AccountTypeOK, Standing, Placed, Stands
  <1>1. CASE SpawnRunner(s)
    BY <1>1 DEF SpawnRunner, None, stateVars, managerVars, saverVars, historyVars
  <1>2. CASE Book(s)
    BY <1>2 DEF Book, None, stateVars, managerVars, saverVars
  <1>3. CASE Publish(s)
    BY <1>3 DEF Publish, Show, stateVars, managerVars, saverVars, historyVars
  <1>4. CASE Snapshot(s)
    BY <1>4 DEF Snapshot, Show, stateVars, managerVars, saverVars, historyVars
  <1>5. CASE RunnerExits(s)
    BY <1>5 DEF RunnerExits, Epilogue, stateVars, managerVars, saverVars, historyVars
  <1>6. CASE RunnerPanics(s)
    BY <1>6 DEF RunnerPanics, stateVars, managerVars, saverVars
  <1>7. CASE Spawn(s)
    BY <1>7 DEF Spawn, None, managerVars, saverVars, historyVars
  <1>8. CASE Rotate(s)
    BY <1>8 DEF Rotate, Epilogue, Busy, stateVars, saverVars, historyVars
  <1>9. CASE Retire(s)
    BY <1>9 DEF Retire, None, managerVars, saverVars, historyVars
  <1> QED
    BY <1>1, <1>2, <1>3, <1>4, <1>5, <1>6, <1>7, <1>8, <1>9 DEF SymbolStep

\* A rotation goes through its steps in order, under any step.
LEMMA NextStands ==
    ASSUME AccountTypeOK, Standing, [AccountNext]_accountVars
    PROVE  Standing'
  <1>1. ASSUME NEW s \in Symbols, SymbolStep(s) PROVE Standing'
    BY <1>1, SymbolStepStands
  <1> USE AccountAssumption, NobodyAssumption DEF AccountTypeOK, Standing, Placed, Stands
  <1>2. CASE FlattenErr
    BY <1>2 DEF FlattenErr, None, saverVars, historyVars
  <1>3. CASE FlattenOk
    BY <1>3 DEF FlattenOk, runnerVars, saverVars, historyVars
  <1>4. CASE Bank
    BY <1>4 DEF Bank, runnerVars, saverVars, historyVars
  <1>5. CASE DeleteSnapshot
    BY <1>5 DEF DeleteSnapshot, stateVars, saverVars, historyVars
  <1>6. CASE SaveReadsRetired
    BY <1>6 DEF SaveReadsRetired, runnerVars, stateVars, managerVars, historyVars
  <1>8. CASE SaveReadsViews
    BY <1>8 DEF SaveReadsViews, runnerVars, stateVars, managerVars, historyVars
  <1>9. CASE SaveWrites
    BY <1>9 DEF SaveWrites, Zero, runnerVars, stateVars, managerVars, historyVars
  <1>10. CASE Shutdown
    BY <1>10 DEF Shutdown, runnerVars, stateVars, managerVars, saverVars, historyVars
  <1>11. CASE StopAll
    BY <1>11 DEF StopAll, Epilogue, Busy, stateVars, saverVars, historyVars
  <1>12. CASE FinalSave
    BY <1>12 DEF FinalSave, stateVars, managerVars, saverVars, historyVars
  <1>13. CASE Exit
    BY <1>13 DEF Exit, Gone, Zero
  <1>14. ASSUME NEW torn \in SUBSET Symbols, Kill(torn) PROVE Standing'
    BY <1>14 DEF Kill, Gone, Zero
  <1>15. CASE Restart
    BY <1>15 DEF Restart, runnerVars, managerVars, saverVars, historyVars
  <1>16. CASE UNCHANGED accountVars
    BY <1>16 DEF accountVars, runnerVars, stateVars, managerVars, saverVars, historyVars
  <1> QED
    BY <1>1, <1>2, <1>3, <1>4, <1>5, <1>6, <1>8, <1>9, <1>10, <1>11, <1>12, <1>13, <1>14,
       <1>15, <1>16 DEF AccountNext, SymbolStep

-----------------------------------------------------------------------------
(* No fill is counted twice.                                               *)

\* What the retired totals of a symbol are once the bank under way is done.
Owed(s) == retired[s] + (IF manager = "bank" /\ leaving = s THEN Worth(tap[s]) ELSE 0)

\* Each place a count can be resumed or added up from stays within what was
\* booked; the manifest never runs ahead of the totals.
Bounded(s) ==
    /\ process # "down" => session[s] <= Owed(s) /\ draft[s] <= Owed(s)
    /\ saver = "retired" => draft[s] <= retired[s]
    /\ saver = "idle" => draft[s] = 0
    /\ s \notin unlucky /\ process # "down" =>
          /\ Shown(s) <= booked[s]
          /\ runner[s] = "on" => retired[s] + fills[s] <= booked[s]
          /\ ~(manager = "delete" /\ leaving = s) => retired[s] + disk[s] <= booked[s]
    /\ s \notin unlucky /\ process = "down" => session[s] + disk[s] <= booked[s]

Counted == \A s \in Symbols : Bounded(s)

\* No count exceeds what was booked: the steps of one symbol.
LEMMA SymbolStepCounts ==
    ASSUME AccountTypeOK, Standing, Counted, NEW s \in Symbols, SymbolStep(s)
    PROVE  Counted'
  <1> USE AccountAssumption, NobodyAssumption
      DEF AccountTypeOK, Standing, Placed, Stands, Counted, Bounded, Owed, Shown, Worth
  <1>1. CASE SpawnRunner(s)
    BY <1>1 DEF SpawnRunner, None, stateVars, managerVars, saverVars, historyVars
  <1>2. CASE Book(s)
    BY <1>2 DEF Book, None, stateVars, managerVars, saverVars
  <1>3. CASE Publish(s)
    BY <1>3 DEF Publish, Show, None, stateVars, managerVars, saverVars, historyVars
  <1>4. CASE Snapshot(s)
    BY <1>4 DEF Snapshot, Show, None, stateVars, managerVars, saverVars, historyVars
  <1>5. CASE RunnerExits(s)
    BY <1>5 DEF RunnerExits, Epilogue, None, stateVars, managerVars, saverVars, historyVars
  <1>6. CASE RunnerPanics(s)
    BY <1>6 DEF RunnerPanics, stateVars, managerVars, saverVars
  <1>7. CASE Spawn(s)
    BY <1>7 DEF Spawn, None, managerVars, saverVars, historyVars
  <1>8. CASE Rotate(s)
    BY <1>8 DEF Rotate, Epilogue, Busy, MayRotate, None, stateVars, saverVars, historyVars
  <1>9. CASE Retire(s)
    BY <1>9 DEF Retire, Fold, None, managerVars, saverVars, historyVars
  <1> QED
    BY <1>1, <1>2, <1>3, <1>4, <1>5, <1>6, <1>7, <1>8, <1>9 DEF SymbolStep

\* No count exceeds what was booked, under any step.
LEMMA NextCounts ==
    ASSUME AccountTypeOK, Standing, Counted, [AccountNext]_accountVars
    PROVE  Counted'
  <1>1. ASSUME NEW s \in Symbols, SymbolStep(s) PROVE Counted'
    BY <1>1, SymbolStepCounts
  <1> USE AccountAssumption, NobodyAssumption
      DEF AccountTypeOK, Standing, Placed, Stands, Counted, Bounded, Owed, Shown, Worth
  <1>2. CASE FlattenErr
    BY <1>2 DEF FlattenErr, None, saverVars, historyVars
  <1>3. CASE FlattenOk
    BY <1>3 DEF FlattenOk, runnerVars, saverVars, historyVars
  <1>4. CASE Bank
    BY <1>4 DEF Bank, Fold, runnerVars, saverVars, historyVars
  <1>5. CASE DeleteSnapshot
    BY <1>5 DEF DeleteSnapshot, stateVars, saverVars, historyVars
  <1>6. CASE SaveReadsRetired
    BY <1>6 DEF SaveReadsRetired, runnerVars, stateVars, managerVars, historyVars
  <1>7. CASE SaveReadsViews
    BY <1>7 DEF SaveReadsViews, Pending, runnerVars, stateVars, managerVars, historyVars
  <1>8. CASE SaveWrites
    BY <1>8 DEF SaveWrites, Zero, runnerVars, stateVars, managerVars, historyVars
  <1>9. CASE Shutdown
    BY <1>9 DEF Shutdown, runnerVars, stateVars, managerVars, saverVars, historyVars
  <1>10. CASE StopAll
    BY <1>10 DEF StopAll, Epilogue, Busy, None, stateVars, saverVars, historyVars
  <1>11. CASE FinalSave
    BY <1>11 DEF FinalSave, Pending, stateVars, managerVars, saverVars, historyVars
  <1>12. CASE Exit
    BY <1>12 DEF Exit, Gone, Zero
  <1>13. ASSUME NEW torn \in SUBSET Symbols, Kill(torn) PROVE Counted'
    <2>1. process' = "down" /\ saver' = "idle" /\ draft' = Zero
      BY <1>13 DEF Kill, Gone
    <2>2. ASSUME NEW s \in Symbols, s \notin unlucky' PROVE session'[s] + disk'[s] <= booked'[s]
      <3>1. s \notin unlucky /\ ~(manager \in {"bank", "delete"} /\ leaving = s)
        BY <1>13, <2>2 DEF Kill, Gone
      <3>2. session[s] <= retired[s] /\ retired[s] + disk[s] <= booked[s]
        BY <1>13, <3>1 DEF Kill
      <3>3. disk'[s] <= disk[s] /\ session' = session /\ booked' = booked
        BY <1>13 DEF Kill
      <3>4. disk'[s] \in Nat
        BY <1>13 DEF Kill
      <3> QED
        BY <3>2, <3>3, <3>4
    <2> QED
      BY <2>1, <2>2 DEF Zero
  <1>14. CASE Restart
    BY <1>14 DEF Restart, None, runnerVars, managerVars, saverVars, historyVars
  <1>15. CASE UNCHANGED accountVars
    BY <1>15 DEF accountVars, runnerVars, stateVars, managerVars, saverVars, historyVars
  <1> QED
    BY <1>1, <1>2, <1>3, <1>4, <1>5, <1>6, <1>7, <1>8, <1>9, <1>10, <1>11, <1>12, <1>13,
       <1>14, <1>15 DEF AccountNext, SymbolStep

-----------------------------------------------------------------------------
(* No fill is lost, as long as nothing dies.                               *)

\* Where the count of a symbol is: with its runner, in its snapshot, or in the
\* totals; and in the files once the process has saved for the last time.
Held(s) ==
    /\ process # "down" =>
          /\ runner[s] = "on" => retired[s] + fills[s] = booked[s]
          /\ runner[s] = "off" /\ banked[s] = "no" =>
                /\ retired[s] + disk[s] = booked[s]
                /\ tap[s] \in {None, disk[s]} \/ lag[s] = "tap" \/ manager = "done"
          /\ leaving = s => tap[s] # None
          /\ banked[s] = "yes" => retired[s] = booked[s]
    /\ process \in {"exiting", "down"} => session[s] + disk[s] = booked[s]

Kept ==
    mishap = "no" =>
        /\ manager = "done" => process \in {"stopping", "exiting"}
        /\ manager = "done" => \A s \in Symbols : runner[s] = "off"
        /\ process = "exiting" => manager = "done" /\ saver = "idle"
        /\ \A s \in Symbols : lag[s] # "banked" => Held(s)

\* No count goes missing: the steps of one symbol.
LEMMA SymbolStepKeeps ==
    ASSUME AccountTypeOK, Standing, Kept, DeferUnderwater = "on",
           NEW s \in Symbols, SymbolStep(s)
    PROVE  Kept'
  <1> USE AccountAssumption, NobodyAssumption
      DEF AccountTypeOK, Standing, Placed, Stands, Kept, Held, Worth
  <1>1. CASE SpawnRunner(s)
    BY <1>1 DEF SpawnRunner, None, stateVars, managerVars, saverVars, historyVars
  <1>2. CASE Book(s)
    BY <1>2 DEF Book, None, stateVars, managerVars, saverVars
  <1>3. CASE Publish(s)
    BY <1>3 DEF Publish, Show, None, stateVars, managerVars, saverVars, historyVars
  <1>4. CASE Snapshot(s)
    BY <1>4 DEF Snapshot, Show, None, stateVars, managerVars, saverVars, historyVars
  <1>5. CASE RunnerExits(s)
    BY <1>5 DEF RunnerExits, Epilogue, None, stateVars, managerVars, saverVars, historyVars
  <1>6. CASE RunnerPanics(s)
    BY <1>6 DEF RunnerPanics, stateVars, managerVars, saverVars
  <1>7. CASE Spawn(s)
    BY <1>7 DEF Spawn, None, managerVars, saverVars, historyVars
  <1>8. CASE Rotate(s)
    BY <1>8 DEF Rotate, Epilogue, Busy, MayRotate, None, stateVars, saverVars, historyVars
  <1>9. CASE Retire(s)
    BY <1>9 DEF Retire, Fold, None, managerVars, saverVars, historyVars
  <1> QED
    BY <1>1, <1>2, <1>3, <1>4, <1>5, <1>6, <1>7, <1>8, <1>9 DEF SymbolStep

\* No count goes missing, under any step.
LEMMA NextKeeps ==
    ASSUME AccountTypeOK, Standing, Kept, DeferUnderwater = "on",
           [AccountNext]_accountVars
    PROVE  Kept'
  <1>1. ASSUME NEW s \in Symbols, SymbolStep(s) PROVE Kept'
    BY <1>1, SymbolStepKeeps
  <1> USE AccountAssumption, NobodyAssumption
      DEF AccountTypeOK, Standing, Placed, Stands, Kept, Held, Worth
  <1>2. CASE FlattenErr
    BY <1>2 DEF FlattenErr, None, saverVars, historyVars
  <1>3. CASE FlattenOk
    BY <1>3 DEF FlattenOk, runnerVars, saverVars, historyVars
  <1>4. CASE Bank
    BY <1>4 DEF Bank, Fold, runnerVars, saverVars, historyVars
  <1>5. CASE DeleteSnapshot
    BY <1>5 DEF DeleteSnapshot, stateVars, saverVars, historyVars
  <1>6. CASE SaveReadsRetired
    BY <1>6 DEF SaveReadsRetired, runnerVars, stateVars, managerVars, historyVars
  <1>7. CASE SaveReadsViews
    BY <1>7 DEF SaveReadsViews, Pending, runnerVars, stateVars, managerVars, historyVars
  <1>8. CASE SaveWrites
    BY <1>8 DEF SaveWrites, Zero, runnerVars, stateVars, managerVars, historyVars
  <1>9. CASE Shutdown
    BY <1>9 DEF Shutdown, runnerVars, stateVars, managerVars, saverVars, historyVars
  <1>10. CASE StopAll
    <2>1. mishap = "no" => process = "stopping"
      BY <1>10 DEF StopAll
    <2>2. \A s \in Symbols : runner'[s] = "off"
      BY <1>10 DEF StopAll, Epilogue
    <2>3. ASSUME mishap = "no", NEW s \in Symbols, lag[s] # "banked" PROVE Held(s)'
      <3>1. disk'[s] = IF runner[s] = "on" THEN fills[s] ELSE disk[s]
        BY <1>10 DEF StopAll, Epilogue
      <3>2. tap'[s] \in {tap[s], disk'[s]} /\ (runner[s] = "off" => tap'[s] = tap[s])
        BY <1>10, <3>1 DEF StopAll, Epilogue, Busy
      <3> QED
        BY <1>10, <2>1, <2>2, <2>3, <3>1, <3>2 DEF StopAll, stateVars, saverVars, historyVars
    <2> QED
      BY <1>10, <2>1, <2>2, <2>3 DEF StopAll, stateVars, saverVars, historyVars
  <1>11. CASE FinalSave
    BY <1>11 DEF FinalSave, Pending, stateVars, managerVars, saverVars, historyVars
  <1>12. CASE Exit
    BY <1>12 DEF Exit, Gone, Zero
  <1>13. ASSUME NEW torn \in SUBSET Symbols, Kill(torn) PROVE Kept'
    BY <1>13 DEF Kill, Gone, Zero
  <1>14. CASE Restart
    BY <1>14 DEF Restart, None, runnerVars, managerVars, saverVars, historyVars
  <1>15. CASE UNCHANGED accountVars
    BY <1>15 DEF accountVars, runnerVars, stateVars, managerVars, saverVars, historyVars
  <1> QED
    BY <1>1, <1>2, <1>3, <1>4, <1>5, <1>6, <1>7, <1>8, <1>9, <1>10, <1>11, <1>12, <1>13,
       <1>14, <1>15 DEF AccountNext, SymbolStep

-----------------------------------------------------------------------------
(* The theorems.                                                           *)

\* Every variable keeps its type, and a rotation goes through its steps in the
\* order the manager takes them.
THEOREM AccountTyping == AccountSpec => []AccountTypeOK /\ []Standing
  <1>1. AccountInit => AccountTypeOK /\ Standing
    BY NobodyAssumption DEF AccountInit, AccountTypeOK, Standing, Placed, Stands, Zero, None
  <1>2. AccountTypeOK /\ Standing /\ [AccountNext]_accountVars => AccountTypeOK' /\ Standing'
    BY NextTypes, NextStands DEF Standing
  <1> QED
    BY <1>1, <1>2, PTL DEF AccountSpec

\* No fill is counted twice in the account's total, whatever faults there are
\* and however the rotations, the saves and the restarts interleave.
THEOREM CountedOnce == AccountSpec => []NoDoubleCount
  <1>1. ASSUME AccountInit, NEW s \in Symbols PROVE Bounded(s)
    <2>1. session[s] = 0 /\ draft[s] = 0 /\ retired[s] = 0 /\ disk[s] = 0 /\ booked[s] = 0
      BY <1>1 DEF AccountInit, Zero
    <2>2. runner[s] = "off" /\ saver = "idle" /\ process = "up" /\ manager = "idle"
      BY <1>1 DEF AccountInit
    <2>3. Worth(tap[s]) = 0
      BY <1>1 DEF AccountInit, Worth
    <2> QED
      BY <2>1, <2>2, <2>3 DEF Bounded, Owed, Shown
  <1>2. AccountTypeOK /\ Standing /\ Counted /\ [AccountNext]_accountVars => Counted'
    BY NextCounts
  <1>3. Counted => NoDoubleCount
    BY DEF Counted, Bounded, NoDoubleCount
  <1>4. AccountInit => Counted
    BY <1>1 DEF Counted
  <1> QED
    BY <1>2, <1>3, <1>4, AccountTyping, PTL DEF AccountSpec

\* When underwater bots are held, the files a process leaves behind hold every
\* fill exactly once, unless a runner died or main did not wait for the rest,
\* for every symbol that was not banked from a tap left behind by a reader.
THEOREM NothingLost ==
    ASSUME DeferUnderwater = "on"
    PROVE  AccountSpec => []RestartKeepsAll
  <1>1. AccountInit => Kept
    BY NobodyAssumption DEF AccountInit, Kept, Held, Zero, None
  <1>2. AccountTypeOK /\ Standing /\ Kept /\ [AccountNext]_accountVars => Kept'
    BY NextKeeps
  <1>3. Kept => RestartKeepsAll
    BY DEF Kept, Held, RestartKeepsAll
  <1> QED
    BY <1>1, <1>2, <1>3, AccountTyping, PTL DEF AccountSpec
=============================================================================
