-------------------------- MODULE LifecycleProofs --------------------------
(***************************************************************************)
(* Proofs about the tasks that start and stop around the bots, for any     *)
(* interleaving of them: the websocket feeds (Feeds, for any stream,       *)
(* levels, bounds and room) and the rotation of the bots (Rotation, for    *)
(* any symbols, slots and number of faults).                               *)
(*                                                                         *)
(* The books handed on are the venue's because the frames in the socket    *)
(* tell its books from the pump's copy on without a gap (Chain).  A        *)
(* consumer that has taken everything has the newest event because that    *)
(* event is never behind it: it is the last one of what is on its way      *)
(* (Newest).  The key of the socket is the key the keepalive renews, and   *)
(* has seen as many periods as renewals of it have failed or hung over the *)
(* next one (Renewals).                                                    *)
(*                                                                         *)
(* Of the rotation, Tasks says which tasks may be alive; it is what makes  *)
(* the symbol that leaves the manager's own.  Clean follows the flatten    *)
(* call by call: as long as nothing has gone wrong, what it knows of the   *)
(* symbol is true.                                                         *)
(***************************************************************************)
EXTENDS Feeds, Rotation, TLAPS

-----------------------------------------------------------------------------
(* The feeds.                                                                *)

FrameType == [v : 1..MaxMoves, full : BOOLEAN, book : SUBSET Levels, gone : SUBSET Levels]

\* The types, and which channels a stream has.
Typing ==
    /\ TypeOK
    /\ wire \in Seq(FrameType)
    /\ Len(market) <= MaxMoves /\ (stream \in Books => Len(market) >= 1)
    /\ \A i \in DOMAIN wire : wire[i].v <= Len(market)
    /\ (~Adapted => tail = <<>>) /\ (Adapted /\ ~gone => relay)
    /\ (stream = "futures" => keys >= 1 /\ sock >= 1)

\* An event shows a book the venue had.
Honest(m, ev) == ev = Nothing \/ (ev.v \in 1..Len(m) /\ ev.book = m[ev.v])

AllHonest == stream \in Books =>
    /\ Honest(market, held) /\ Honest(market, seen)
    /\ \A i \in DOMAIN queue : Honest(market, queue[i])
    /\ \A i \in DOMAIN tail : Honest(market, tail[i])

\* A frame shows a book, or what changed from the one before.
FrameTrue(m, f) ==
    IF f.full THEN f.book = m[f.v] /\ f.gone = {}
    ELSE f.v > 1 /\ f.book = m[f.v] \ m[f.v - 1] /\ f.gone = m[f.v - 1] \ m[f.v]

FramesTrue == stream \in Books => \A i \in DOMAIN wire :
    FrameTrue(market, wire[i]) /\ (stream = "bybitDepth" \/ wire[i].full)

\* Bybit's frames follow one another without a gap: the first is a whole book
\* or changes what the pump's copy holds, the last one is the venue's newest.
Chain == stream = "bybitDepth" =>
    /\ \A i \in DOMAIN wire : i > 1 => wire[i].v = wire[i - 1].v + 1
    /\ wire # <<>> => wire[1].full \/ book = market[wire[1].v - 1]
    /\ up => IF wire = <<>> THEN book = market[Len(market)] ELSE wire[Len(wire)].v = Len(market)

\* Only Hyperliquid's stream has heartbeats.
Beats == stream # "hyper" =>
    /\ \A i \in DOMAIN queue : queue[i] # Nothing
    /\ pump = "send" => held # Nothing

Behind(s) == \A i \in DOMAIN s : s[i] = Nothing
EndsWithLast(s) == last # Nothing /\ \E i \in DOMAIN s : s[i] = last /\ \A j \in DOMAIN s : j > i => s[j] = Nothing

\* The newest event is being sent, or is the last one of what is on its way,
\* heartbeats apart, or has been taken.
Newest == stream # "trades" /\ ~gone =>
    \/ pump = "send" /\ held = last /\ last # Nothing
    \/ /\ pump = "send" => held = Nothing
       /\ \/ EndsWithLast(queue)
          \/ Behind(queue) /\ EndsWithLast(tail)
          \/ Behind(queue) /\ Behind(tail) /\ seen = last

\* The keepalive, the pump and the socket agree on the key unless a new one
\* was minted and its socket is not open yet, and a period of the key
\* without a renewal is one whose PUT failed, began with a PUT still open, or
\* is under way.
Renewals == stream = "futures" =>
    /\ shared = keys /\ (pump \in {"sleep", "open"} => ~up) /\ (up => sock = keys)
    /\ putting = 0 => age[keys] <= missed
    /\ putting = keys => age[keys] <= missed + 1
    /\ putting > 0 /\ putting # keys => age[keys] <= missed

-----------------------------------------------------------------------------
(* Sequences and the shapes of the steps.                                  *)

\* Taking the first of a sequence.
LEMMA Rest ==
    ASSUME NEW S, NEW s \in Seq(S), s # <<>>
    PROVE  /\ Tail(s) \in Seq(S) /\ Head(s) \in S /\ Head(s) = s[1] /\ 1 \in DOMAIN s
           /\ Len(s) \in Nat /\ Len(s) > 0 /\ Len(Tail(s)) = Len(s) - 1
           /\ \A i \in DOMAIN Tail(s) : i \in Nat /\ i > 0 /\ i + 1 \in DOMAIN s /\ Tail(s)[i] = s[i + 1]
           /\ \A i \in DOMAIN s : i \in Nat /\ i > 0 /\ (i > 1 => i - 1 \in DOMAIN Tail(s))
  OBVIOUS

\* What the tail of a sequence holds, position by position.
LEMMA Shifted ==
    ASSUME NEW S, NEW s \in Seq(S), s # <<>>
    PROVE  /\ Tail(s) = <<>> => Len(s) = 1
           /\ Tail(s) # <<>> => 1 \in DOMAIN Tail(s) /\ 2 \in DOMAIN s /\ Tail(s)[1] = s[2]
           /\ \A i \in DOMAIN Tail(s) : i > 1 => i - 1 \in DOMAIN Tail(s) /\ i \in DOMAIN s /\ Tail(s)[i - 1] = s[i]
  <1> DEFINE t == Tail(s)
  <1>1. /\ t \in Seq(S) /\ Len(s) \in Nat /\ Len(s) > 0 /\ Len(t) = Len(s) - 1
        /\ DOMAIN t = 1..Len(s) - 1 /\ DOMAIN s = 1..Len(s)
    OBVIOUS
  <1>2. \A i \in 1..Len(s) - 1 : t[i] = s[i + 1]
    OBVIOUS
  <1>3. t = <<>> => Len(t) = 0
    <2>1. Len(<<>>) = 0
      OBVIOUS
    <2> HIDE DEF t
    <2> QED
      BY <2>1
  <1>4. t # <<>> => Len(t) > 0
    BY <1>1
  <1> HIDE DEF t
  <1>5. t # <<>> => 1 \in DOMAIN t /\ 2 \in DOMAIN s /\ t[1] = s[2]
    BY <1>1, <1>2, <1>4
  <1>6. ASSUME NEW i \in DOMAIN t, i > 1 PROVE i - 1 \in DOMAIN t /\ i \in DOMAIN s /\ t[i - 1] = s[i]
    <2>1. i - 1 \in 1..Len(s) - 1 /\ i - 1 + 1 = i /\ i \in 1..Len(s)
      BY <1>1, <1>6
    <2> QED
      BY <1>1, <1>2, <2>1
  <1>7. t = <<>> => Len(s) = 1
    BY <1>1, <1>3
  <1> QED
    BY <1>5, <1>6, <1>7 DEF t

\* Adding one at the end.
LEMMA Longer ==
    ASSUME NEW S, NEW s \in Seq(S), NEW e \in S
    PROVE  /\ Append(s, e) \in Seq(S) /\ Append(s, e) # <<>>
           /\ Len(s) \in Nat /\ Len(Append(s, e)) = Len(s) + 1 /\ Append(s, e)[Len(s) + 1] = e
           /\ \A i \in DOMAIN s : i \in DOMAIN Append(s, e) /\ i \in Nat /\ i > 0 /\ i < Len(s) + 1 /\ Append(s, e)[i] = s[i]
           /\ \A i \in DOMAIN Append(s, e) : i \in Nat /\ i > 0 /\ (i \in DOMAIN s \/ i = Len(s) + 1)
  OBVIOUS

\* What already arrived is a part of what was sent.
LEMMA Part ==
    ASSUME NEW S, NEW s \in Seq(S), NEW n \in 0..Len(s)
    PROVE  /\ SubSeq(s, 1, n) \in Seq(S)
           /\ Len(SubSeq(s, 1, n)) = n
           /\ \A i \in DOMAIN SubSeq(s, 1, n) : i \in Nat /\ i > 0 /\ i \in DOMAIN s /\ SubSeq(s, 1, n)[i] = s[i]
  OBVIOUS

\* A frame that is handed on as it came; a connection that opens again; a task
\* of the futures stream's key.
Passes == stream # "bybitDepth" /\ pump = "read" /\ wire # <<>> /\ Whole
Fills_ == \E s \in Fills : Filled(s)
Reopens_ == \E s \in Streams : s # "futures" /\ Reopens(s)
Leases == KeepAlive \/ PutHangs \/ Renew \/ Miss \/ Shutdown \/ KeepAliveStops

\* Every action has one of these shapes.
LEMMA Shapes ==
    ASSUME stream \in Streams, Next
    PROVE  \/ Move \/ Disconnect \/ Passes \/ ReadBybit \/ FirstData \/ Beat \/ Fills_
           \/ Sent \/ Lost \/ Reopens_ \/ Mint \/ ReopenFills \/ Leases
           \/ SpawnFails \/ PumpStops \/ CoalesceBook \/ DropNewest \/ ForwardLiquidation \/ RelayEnds
           \/ Consume \/ Leave
  <1>1. ReadDepth \/ ReadTrade \/ ReadMark \/ ReadLiquidation \/ ReadBybitTrade \/ ReadHyper => Passes
    BY DEF ReadDepth, ReadTrade, ReadMark, ReadLiquidation, ReadBybitTrade, ReadHyper, Reading, Passes
  <1>2. ReadFill \/ ReadSpotFill \/ ReadHyperFill => Fills_
    BY DEF ReadFill, ReadSpotFill, ReadHyperFill, Fills_, Fills
  <1>3. ReopenDepth \/ ReopenTrade \/ ReopenMark \/ ReopenLiquidation \/ ReopenBybit \/ ReopenBybitTrade
        \/ ReopenHyper \/ ReopenHyperFills \/ ReopenSpot => Reopens_
    BY DEF ReopenDepth, ReopenTrade, ReopenMark, ReopenLiquidation, ReopenBybit, ReopenBybitTrade,
       ReopenHyper, ReopenHyperFills, ReopenSpot, Reopens, Reopens_
  <1> QED
    BY <1>1, <1>2, <1>3 DEF Next, Leases

-----------------------------------------------------------------------------
(* The types.                                                              *)

\* What a subscription starts with is a book the venue has now.
LEMMA Greets ==
    ASSUME Typing
    PROVE  /\ Greeting \in Seq(FrameType) /\ Len(Greeting) \in {0, 1}
           /\ stream \in Books <=> Len(Greeting) = 1
           /\ \A i \in DOMAIN Greeting :
                 i = 1 /\ Greeting[i].v = Len(market) /\ Len(market) >= 1 /\ Greeting[i].full
                 /\ Greeting[i].book = market[Len(market)] /\ Greeting[i].gone = {}
  <1>1. market \in Seq(SUBSET Levels) /\ Len(market) \in Nat /\ Len(market) <= MaxMoves
        /\ (stream \in Books => Len(market) >= 1)
    BY DEF Typing, TypeOK
  <1>2. CASE stream \in Books
    <2>1. market[Len(market)] \in SUBSET Levels
      BY <1>1, <1>2
    <2> DEFINE g == Frame(Len(market), TRUE, market[Len(market)], {})
    <2>2. g \in FrameType /\ g.v = Len(market) /\ g.full /\ g.book = market[Len(market)] /\ g.gone = {}
      BY <1>1, <1>2, <2>1 DEF Frame, FrameType
    <2>3. Greeting = <<g>>
      BY <1>2 DEF Greeting, Last
    <2> HIDE DEF g
    <2> QED
      BY <1>1, <1>2, <2>2, <2>3
  <1>3. CASE stream \notin Books
    BY <1>3 DEF Greeting
  <1> QED
    BY <1>2, <1>3

LEMMA TypingInit ==
    ASSUME Init
    PROVE  Typing
  <1>1. /\ market \in Seq(SUBSET Levels) /\ Len(market) <= MaxMoves /\ (stream \in Books => Len(market) = 1)
        /\ (stream \notin Books => market = <<>>)
    <2>1. CASE stream \in Books
      <3>1. PICK b \in SUBSET Levels : market = <<b>>
        BY <2>1 DEF Init
      <3> QED
        BY <2>1, <3>1, FeedAssumption
    <2>2. CASE stream \notin Books
      BY <2>2, FeedAssumption DEF Init
    <2> QED
      BY <2>1, <2>2
  <1>2. Greeting \in Seq(FrameType) /\ \A i \in DOMAIN Greeting : Greeting[i].v <= Len(market)
    <2>1. CASE stream \in Books
      <3>1. Last(market) \in SUBSET Levels /\ Len(market) \in 1..MaxMoves
        BY <1>1, <2>1, FeedAssumption DEF Last
      <3> DEFINE g == Frame(Len(market), TRUE, Last(market), {})
      <3>2. g \in FrameType /\ g.v = Len(market) /\ Greeting = <<g>>
        BY <2>1, <3>1 DEF Frame, FrameType, Greeting
      <3> HIDE DEF g
      <3> QED
        BY <3>1, <3>2
    <2>2. CASE stream \notin Books
      BY <2>2 DEF Greeting
    <2> QED
      BY <2>1, <2>2
  <1>3. Nothing \in Event /\ <<>> \in Seq(Event)
    BY FeedAssumption DEF Nothing, Event
  <1>4. /\ keys \in 0..MaxKeys /\ shared \in 0..keys /\ sock \in 0..keys
        /\ age \in [1..MaxKeys -> 0..Hour] /\ putting \in -1..keys /\ missed \in 0..Hour
    BY FeedAssumption DEF Init, Hour
  <1>5. relay \in BOOLEAN /\ (Adapted => relay)
    <2>1. relay = Adapted
      BY Zenon DEF Init
    <2>2. Adapted \in BOOLEAN
      BY DEF Adapted
    <2> QED
      BY <2>1, <2>2
  <1>6. /\ stream \in Streams /\ wire = Greeting /\ up = TRUE /\ book = {} /\ held = Nothing /\ last = Nothing
        /\ queue = <<>> /\ tail = <<>> /\ gone = FALSE /\ seen = Nothing
        /\ pump \in {"gate", "read"} /\ signal \in {"none", "live"}
        /\ (stream = "futures" => keys = 1 /\ sock = 1) /\ late = FALSE
    BY DEF Init
  <1> QED
    <2>1. TypeOK
      BY <1>1, <1>3, <1>4, <1>5, <1>6 DEF TypeOK
    <2>2. wire \in Seq(FrameType) /\ \A i \in DOMAIN wire : wire[i].v <= Len(market)
      BY <1>2, <1>6
    <2>3. Len(market) <= MaxMoves /\ (stream \in Books => Len(market) >= 1) /\ (stream = "futures" => keys >= 1 /\ sock >= 1)
      BY <1>1, <1>6
    <2> QED
      BY <1>5, <1>6, <2>1, <2>2, <2>3 DEF Typing

\* The first frame in the socket.
LEMMA Arrived ==
    ASSUME Typing, wire # <<>>
    PROVE  /\ Head(wire) \in FrameType /\ Head(wire) = wire[1] /\ 1 \in DOMAIN wire
           /\ Head(wire).book \in SUBSET Levels /\ Head(wire).gone \in SUBSET Levels
           /\ Head(wire).v \in 1..Len(market) /\ Head(wire).v \in 1..MaxMoves
           /\ Tail(wire) \in Seq(FrameType)
           /\ \A i \in DOMAIN Tail(wire) : Tail(wire)[i].v <= Len(market)
  <1>1. wire \in Seq(FrameType) /\ \A i \in DOMAIN wire : wire[i].v <= Len(market)
    BY DEF Typing
  <1>2. Head(wire) \in FrameType /\ Head(wire) = wire[1] /\ 1 \in DOMAIN wire /\ Tail(wire) \in Seq(FrameType)
        /\ \A i \in DOMAIN Tail(wire) : i + 1 \in DOMAIN wire /\ Tail(wire)[i] = wire[i + 1]
    BY <1>1, Rest
  <1>3. Head(wire).v \in 1..MaxMoves /\ Head(wire).v <= Len(market) /\ Len(market) <= MaxMoves /\ Len(market) \in Nat
    BY <1>1, <1>2 DEF FrameType, Typing, TypeOK
  <1> QED
    BY <1>1, <1>2, <1>3, FeedAssumption DEF FrameType

\* What a pump hands on for a frame.
LEMMA Emitted ==
    ASSUME Typing, wire # <<>>, NEW b \in SUBSET Levels
    PROVE  /\ [v |-> Head(wire).v, book |-> b] \in Event
           /\ [v |-> Head(wire).v, book |-> b] # Nothing
  BY Arrived, FeedAssumption DEF Event, Nothing

LEMMA TypingNext ==
    ASSUME Typing, [Next]_vars
    PROVE  Typing'
  <1> USE DEF hand, lease, pipe
  <1>0. /\ stream \in Streams /\ market \in Seq(SUBSET Levels) /\ wire \in Seq(FrameType)
        /\ queue \in Seq(Event) /\ tail \in Seq(Event) /\ held \in Event /\ last \in Event /\ seen \in Event
        /\ keys \in 0..MaxKeys /\ shared \in 0..keys /\ sock \in 0..keys
        /\ age \in [1..MaxKeys -> 0..Hour] /\ putting \in -1..keys /\ missed \in 0..Hour /\ late \in BOOLEAN
        /\ Hour = 3
    BY DEF Typing, TypeOK, Hour
  <1>1. CASE Move
    <2> DEFINE v == Len(market) + 1
    <2>1. PICK b \in SUBSET Levels, full \in BOOLEAN :
            /\ market' = Append(market, b)
            /\ wire' = IF ~Speaks THEN wire
                       ELSE Append(wire, IF full THEN Frame(v, TRUE, b, {})
                                         ELSE Frame(v, FALSE, b \ Last(market), Last(market) \ b))
            /\ ~full => stream \in Books
      BY <1>1 DEF Move, Books
    <2>2. v \in 1..MaxMoves /\ market' \in Seq(SUBSET Levels) /\ Len(market') = v
      BY <1>0, <1>1, <2>1, FeedAssumption DEF Move
    <2>3. stream \in Books => Last(market) \in SUBSET Levels
      BY <1>0 DEF Last, Typing
    <2>4. Frame(v, TRUE, b, {}) \in FrameType /\ Frame(v, TRUE, b, {}).v = v
          /\ (~full => Frame(v, FALSE, b \ Last(market), Last(market) \ b) \in FrameType
                       /\ Frame(v, FALSE, b \ Last(market), Last(market) \ b).v = v)
      BY <2>1, <2>2, <2>3 DEF Frame, FrameType
    <2>5. wire' = wire \/ \E f \in FrameType : f.v = v /\ wire' = Append(wire, f)
      BY <2>1, <2>4
    <2>6. \A i \in DOMAIN wire : wire[i].v <= v
      <3>1. \A i \in DOMAIN wire : wire[i] \in FrameType /\ wire[i].v <= Len(market)
        BY <1>0 DEF Typing
      <3> QED
        BY <1>0, <3>1, FeedAssumption DEF FrameType
    <2> HIDE DEF v
    <2>7. wire' \in Seq(FrameType) /\ \A i \in DOMAIN wire' : wire'[i].v <= v
      <3>1. ASSUME NEW f \in FrameType, f.v = v, wire' = Append(wire, f)
            PROVE  wire' \in Seq(FrameType) /\ \A i \in DOMAIN wire' : wire'[i].v <= v
        BY <1>0, <2>2, <2>6, <3>1, Longer
      <3> QED
        BY <1>0, <2>5, <2>6, <3>1
    <2> QED
      <3>1. UNCHANGED <<stream, up, drops, pump, book, held, last, queue, hand, lease, signal>>
        BY <1>1 DEF Move
      <3> QED
        BY <2>2, <2>7, <3>1 DEF Adapted, Typing, TypeOK
  <1>2. CASE Disconnect
    <2>1. PICK n \in 0..Len(wire) : wire' = SubSeq(wire, 1, n)
      BY <1>2 DEF Disconnect
    <2>2. wire' \in Seq(FrameType) /\ \A i \in DOMAIN wire' : wire'[i].v <= Len(market)
      BY <1>0, <2>1, Part DEF Typing
    <2> QED
      BY <1>2, <2>2 DEF Disconnect, Adapted, Typing, TypeOK
  <1>3. CASE Passes
    BY <1>3, Emitted, Arrived DEF Passes, Whole, Emit, Adapted, Typing, TypeOK
  <1>4. CASE ReadBybit
    <2>1. book' \in SUBSET Levels
      BY <1>4, Arrived DEF ReadBybit, Reading, Applied, Typing, TypeOK
    <2> QED
      BY <1>4, <2>1, Emitted, Arrived DEF ReadBybit, Reading, Emit, Adapted, Typing, TypeOK
  <1>5. CASE FirstData
    <2>1. last' \in Event /\ queue' = Append(queue, last')
      BY <1>5, Emitted, Arrived DEF FirstData
    <2>2. queue' \in Seq(Event)
      BY <1>0, <2>1
    <2> QED
      BY <1>5, <2>1, <2>2, Arrived DEF FirstData, Adapted, Typing, TypeOK
  <1>6. CASE Beat
    <2>1. Nothing \in Event
      BY FeedAssumption DEF Nothing, Event
    <2> QED
      BY <1>6, <2>1 DEF Beat, Adapted, Typing, TypeOK
  <1>7. CASE Fills_
    <2>1. PICK s \in Fills : Filled(s)
      BY <1>7 DEF Fills_
    <2>2. last' \in Event /\ (queue' = queue \/ queue' = Append(queue, last'))
      BY <2>1, Emitted DEF Filled, Reading
    <2>3. queue \in Seq(Event)
      BY <1>0
    <2>4. queue' \in Seq(Event)
      BY <2>2, <2>3
    <2> QED
      BY <2>1, <2>2, <2>4, Arrived DEF Filled, Reading, Adapted, Typing, TypeOK
  <1>8. CASE Sent
    <2>1. queue' = queue \/ queue' = Append(queue, held)
      BY <1>8 DEF Sent
    <2>2. queue \in Seq(Event) /\ held \in Event
      BY <1>0
    <2>3. queue' \in Seq(Event)
      BY <2>1, <2>2
    <2> QED
      BY <1>8, <2>3 DEF Sent, Adapted, Typing, TypeOK
  <1>9. CASE Lost
    BY <1>9 DEF Lost, Adapted, Typing, TypeOK
  <1>10. CASE Reopens_
    BY <1>10, Greets DEF Reopens_, Reopens, Opened, Adapted, Typing, TypeOK
  <1>11. CASE Mint
    <2>1. keys' \in 0..MaxKeys /\ shared' \in 0..keys' /\ sock' \in 0..keys' /\ putting' \in -1..keys' /\ keys' >= 1
          /\ age' \in [1..MaxKeys -> 0..Hour]
      BY <1>0, <1>11, FeedAssumption DEF Mint, Shared
    <2> QED
      BY <1>11, <2>1 DEF Mint, Adapted, Typing, TypeOK
  <1>12. CASE ReopenFills
    <2>1. sock' \in 0..keys' /\ (stream = "futures" => sock' >= 1)
      BY <1>0, <1>12 DEF ReopenFills, Opened, Typing
    <2>2. up' \in BOOLEAN /\ pump' \in {"read", "sleep"} /\ (wire' = wire \/ wire' = Greeting)
      BY <1>12 DEF ReopenFills, Opened, Typing, TypeOK
    <2> QED
      <3>1. wire' \in Seq(FrameType) /\ \A i \in DOMAIN wire' : wire'[i].v <= Len(market)
        BY <1>0, <2>2, Greets DEF Typing
      <3>2. UNCHANGED <<stream, market, book, held, last, queue, hand, keys, shared, age, putting, late, missed, signal>>
        BY <1>12 DEF ReopenFills, Opened
      <3> QED
        BY <2>1, <2>2, <3>1, <3>2 DEF Adapted, Typing, TypeOK
  <1>13. CASE Leases
    <2>1. age' \in [1..MaxKeys -> 0..Hour]
      <3>1. CASE KeepAlive \/ PutHangs
        <4>1. Older \in [1..MaxKeys -> 0..Hour]
          BY <1>0 DEF Older
        <4> QED
          BY <1>0, <3>1, <4>1 DEF KeepAlive, PutHangs
      <3>2. CASE Renew
        <4>1. 0 \in 0..Hour
          BY <1>0
        <4> QED
          BY <1>0, <3>2, <4>1, Zenon DEF Renew
      <3> QED
        BY <1>0, <1>13, <3>1, <3>2 DEF Leases, Miss, Shutdown, KeepAliveStops
    <2>a. late' \in {late, TRUE, FALSE}
      BY <1>13 DEF Leases, KeepAlive, PutHangs, Renew, Miss, Shutdown, KeepAliveStops
    <2>b. late' \in BOOLEAN
      BY <1>0, <2>a
    <2>2. putting' \in -1..keys /\ missed' \in 0..Hour
      BY <1>0, <1>13, FeedAssumption DEF More, Leases, KeepAlive, PutHangs, Renew, Miss, Shutdown, KeepAliveStops
    <2>3. UNCHANGED <<stream, market, pipe, hand, keys, shared, sock>> /\ (signal' = signal \/ signal' = "sent")
      BY <1>13 DEF Leases, KeepAlive, PutHangs, Renew, Miss, Shutdown, KeepAliveStops
    <2> QED
      BY <2>1, <2>2, <2>3, <2>b DEF Adapted, Typing, TypeOK
  <1>14. CASE SpawnFails
    BY <1>14 DEF SpawnFails, Adapted, Typing, TypeOK
  <1>15. CASE PumpStops
    BY <1>15 DEF PumpStops, Adapted, Typing, TypeOK
  <1>16. CASE CoalesceBook
    <2>1. tail' \in Seq(Event) /\ queue' \in Seq(Event)
      BY <1>0, <1>16, Rest DEF CoalesceBook, Relaying, Relayed
    <2> QED
      BY <1>16, <2>1 DEF CoalesceBook, Relaying, Relayed, Adapted, Typing, TypeOK
  <1>17. CASE DropNewest
    <2>1. tail' \in Seq(Event) /\ queue' \in Seq(Event)
      BY <1>0, <1>17, Rest, Longer DEF DropNewest, Relaying, Relayed
    <2> QED
      BY <1>17, <2>1 DEF DropNewest, Relaying, Relayed, Adapted, Typing, TypeOK
  <1>18. CASE ForwardLiquidation
    <2>1. tail' \in Seq(Event) /\ queue' \in Seq(Event)
      BY <1>0, <1>18, Rest, Longer DEF ForwardLiquidation, Relaying, Relayed
    <2> QED
      BY <1>18, <2>1 DEF ForwardLiquidation, Relaying, Relayed, Adapted, Typing, TypeOK
  <1>19. CASE RelayEnds
    BY <1>19 DEF RelayEnds, Adapted, Typing, TypeOK
  <1>20. CASE Consume
    <2>1. tail' \in Seq(Event) /\ queue' \in Seq(Event) /\ seen' \in Event
      BY <1>0, <1>20, Rest DEF Consume
    <2> QED
      BY <1>20, <2>1 DEF Consume, Adapted, Typing, TypeOK
  <1>21. CASE Leave
    BY <1>21 DEF Leave, Adapted, Typing, TypeOK
  <1>22. CASE UNCHANGED vars
    BY <1>22 DEF vars, Adapted, Typing, TypeOK
  <1> QED
    BY <1>0, <1>1, <1>2, <1>3, <1>4, <1>5, <1>6, <1>7, <1>8, <1>9, <1>10, <1>11, <1>12, <1>13, <1>14,
       <1>15, <1>16, <1>17, <1>18, <1>19, <1>20, <1>21, <1>22, Shapes

-----------------------------------------------------------------------------
(* The key of the futures stream.                                          *)

LEMMA RenewalsNext ==
    ASSUME Typing, Renewals, [Next]_vars
    PROVE  Renewals'
  <1> USE DEF hand, lease, pipe
  <1> SUFFICES ASSUME stream' = "futures" PROVE Renewals'
    BY DEF Renewals
  <1>0. /\ stream = "futures" /\ stream \in Streams /\ keys \in 1..MaxKeys /\ sock \in 0..keys
        /\ age \in [1..MaxKeys -> 0..Hour] /\ putting \in -1..keys /\ missed \in 0..Hour /\ late \in BOOLEAN
        /\ Hour = 3 /\ keys \in Nat
    <2>1. stream' = stream
      BY DEF Next, vars, Move, Disconnect, ReadDepth, ReadTrade, ReadMark, ReadLiquidation, ReadBybit,
         ReadBybitTrade, ReadHyper, Whole, Emit, FirstData, Beat, ReadFill, ReadSpotFill, ReadHyperFill, Filled,
         Sent, Lost, ReopenDepth, ReopenTrade, ReopenMark, ReopenLiquidation, ReopenBybit, ReopenBybitTrade,
         ReopenHyper, ReopenHyperFills, ReopenSpot, Reopens, Opened, Mint, ReopenFills, KeepAlive, PutHangs, Renew, Miss,
         Shutdown, SpawnFails, PumpStops, KeepAliveStops, CoalesceBook, DropNewest, ForwardLiquidation,
         Relayed, RelayEnds, Consume, Leave
    <2> QED
      BY <2>1, FeedAssumption DEF Typing, TypeOK, Hour
  <1>a. /\ shared = keys /\ (pump \in {"sleep", "open"} => ~up) /\ (up => sock = keys)
        /\ putting = 0 => age[keys] <= missed
        /\ putting = keys => age[keys] <= missed + 1
        /\ putting > 0 /\ putting # keys => age[keys] <= missed
    BY <1>0 DEF Renewals
  <1>1. CASE UNCHANGED lease /\ UNCHANGED up /\ (pump' \in {"sleep", "open"} => pump' = pump \/ ~up)
    BY <1>1, <1>a DEF Renewals
  <1>2. CASE Disconnect
    BY <1>2, <1>a DEF Disconnect, Renewals
  <1>3. CASE Reopens_
    BY <1>0, <1>3 DEF Reopens_, Reopens
  <1>4. CASE Mint
    <2>1. keys' = keys + 1 /\ shared' = keys' /\ putting' = putting /\ missed' = 0 /\ keys' \in 1..MaxKeys
          /\ age' = [age EXCEPT ![keys'] = 0] /\ up' = up /\ ~up
      BY <1>0, <1>4, <1>a, FeedAssumption DEF Mint, Shared
    <2>2. age'[keys'] = 0
      BY <1>0, <2>1
    <2> QED
      BY <1>0, <2>1, <2>2 DEF Renewals
  <1>5. CASE ReopenFills
    BY <1>0, <1>5, <1>a DEF ReopenFills, Opened, Renewals
  <1>6. CASE KeepAlive
    <2>1. /\ age'[keys] <= age[keys] + 1 /\ putting' = keys /\ missed' = missed /\ UNCHANGED <<pump, up, sock, keys, shared>>
          /\ putting = 0 /\ age'[keys] \in 0..Hour
      BY <1>0, <1>6, <1>a DEF KeepAlive, Older
    <2> QED
      BY <1>0, <1>a, <2>1 DEF Renewals
  <1>7. CASE Renew
    <2>0. /\ putting > 0 /\ putting' = 0 /\ UNCHANGED <<pump, up, sock, keys, shared>>
          /\ missed' = IF putting = shared THEN 0 ELSE missed
          /\ age' = [age EXCEPT ![putting] = 0]
      BY <1>7 DEF Renew
    <2>1. age'[putting] = 0 /\ (putting # keys => age'[keys] = age[keys])
      BY <1>0, <2>0, FeedAssumption
    <2> QED
      BY <1>0, <1>a, <2>0, <2>1 DEF Renewals
  <1>8. CASE Miss
    <2>1. /\ putting > 0 /\ putting' = 0 /\ UNCHANGED <<pump, up, sock, keys, shared, age>>
          /\ missed' = IF putting = shared THEN IF missed < Hour THEN missed + 1 ELSE missed ELSE missed
      BY <1>8 DEF Miss, More
    <2>2. age[keys] \in 0..Hour
      BY <1>0
    <2> QED
      BY <1>0, <1>a, <2>1, <2>2 DEF Renewals
  <1>b. CASE PutHangs
    <2>1. /\ age'[keys] = (IF age[keys] < Hour THEN age[keys] + 1 ELSE age[keys]) /\ UNCHANGED <<pump, up, sock, keys, shared, putting>>
          /\ putting > 0 /\ missed' = IF missed < Hour THEN missed + 1 ELSE missed
      BY <1>0, <1>b DEF PutHangs, Older, More
    <2>2. age[keys] \in 0..Hour
      BY <1>0
    <2> QED
      BY <1>0, <1>a, <2>1, <2>2 DEF Renewals
  <1>9. CASE KeepAliveStops
    BY <1>0, <1>9, <1>a DEF KeepAliveStops, Renewals
  <1>10. CASE Lost
    BY <1>10, <1>a DEF Lost, Renewals
  <1> QED
    <2>1. Move \/ Passes \/ ReadBybit \/ FirstData \/ Beat \/ Fills_ \/ Sent \/ Shutdown \/ SpawnFails
          \/ PumpStops \/ CoalesceBook \/ DropNewest \/ ForwardLiquidation \/ RelayEnds \/ Consume \/ Leave
          => UNCHANGED lease /\ UNCHANGED up /\ (pump' \in {"sleep", "open"} => pump' = pump)
      BY DEF Move, Passes, Whole, Emit, ReadBybit, FirstData, Beat, Fills_, Filled, Sent, Shutdown, SpawnFails,
         PumpStops, CoalesceBook, DropNewest, ForwardLiquidation, Relayed, RelayEnds, Consume, Leave
    <2>2. UNCHANGED vars => UNCHANGED lease /\ UNCHANGED up /\ pump' = pump
      BY DEF vars
    <2> QED
      BY <1>0, <1>1, <1>2, <1>3, <1>4, <1>5, <1>6, <1>7, <1>8, <1>9, <1>10, <1>b, <2>1, <2>2, Shapes DEF Leases

\* KeyRenewed: the key the socket is on expires only if two of its periods at
\* least went by without a renewal, each because its PUT failed or because one
\* was still open when the next fell due (the client has no timeout), however
\* reconnect_user_data and the keepalive task interleave.
THEOREM KeyLives == Spec => []KeyRenewed
  <1>1. Init => Typing /\ Renewals
    <2>1. ASSUME Init, stream = "futures"
          PROVE  keys = 1 /\ shared = keys /\ sock = keys /\ age[keys] = 0 /\ missed = 0 /\ putting = 0 /\ pump = "read"
      BY <2>1, FeedAssumption DEF Init
    <2> QED
      BY <2>1, TypingInit DEF Renewals
  <1>2. (Typing /\ Renewals) /\ [Next]_vars => (Typing /\ Renewals)'
    BY TypingNext, RenewalsNext
  <1>3. Typing /\ Renewals => KeyRenewed
    <2> SUFFICES ASSUME Typing, Renewals, stream = "futures", up, putting # -1, age[sock] = Hour
                 PROVE  missed >= 2
      BY DEF KeyRenewed
    <2>1. sock = keys /\ putting \in -1..keys /\ missed \in 0..Hour /\ Hour = 3 /\ keys \in Nat
      BY FeedAssumption DEF Renewals, Typing, TypeOK, Hour
    <2> QED
      BY <2>1 DEF Renewals
  <1> QED
    BY <1>1, <1>2, <1>3, PTL DEF Spec

\* The types of the streams' state, and that only the streams with an adapter
\* have a second channel.
THEOREM FeedsTyped == Spec => []TypeOK
  <1>1. Init => Typing
    BY TypingInit
  <1>2. Typing /\ [Next]_vars => Typing'
    BY TypingNext
  <1>3. Typing => TypeOK
    BY DEF Typing
  <1> QED
    BY <1>1, <1>2, <1>3, PTL DEF Spec

-----------------------------------------------------------------------------
(* The books.                                                              *)

BooksInv == AllHonest /\ FramesTrue /\ Chain

\* The stream is chosen once, and a consumer that left stays away.
LEMMA OneStream ==
    ASSUME [Next]_vars
    PROVE  stream' = stream /\ (gone' = gone \/ gone' = TRUE)
  BY DEF hand, Next, vars, Move, Disconnect, ReadDepth, ReadTrade, ReadMark, ReadLiquidation, ReadBybit,
     ReadBybitTrade, ReadHyper, Whole, Emit, FirstData, Beat, ReadFill, ReadSpotFill, ReadHyperFill, Filled,
     Sent, Lost, ReopenDepth, ReopenTrade, ReopenMark, ReopenLiquidation, ReopenBybit, ReopenBybitTrade,
     ReopenHyper, ReopenHyperFills, ReopenSpot, Reopens, Opened, Mint, ReopenFills, KeepAlive, PutHangs, Renew, Miss,
     Shutdown, SpawnFails, PumpStops, KeepAliveStops, CoalesceBook, DropNewest, ForwardLiquidation,
     Relayed, RelayEnds, Consume, Leave

\* The market moves: what was true of its books stays true, and the frame that
\* goes out follows the last one.
LEMMA BooksMove ==
    ASSUME Typing, BooksInv, Move, stream \in Books
    PROVE  BooksInv'
  <1> DEFINE n == Len(market)
  <1>1. /\ n \in Nat /\ n >= 1 /\ market \in Seq(SUBSET Levels) /\ wire \in Seq(FrameType)
        /\ \A i \in DOMAIN wire : wire[i] \in FrameType /\ wire[i].v \in 1..n
    <2>1. n \in Nat /\ n >= 1 /\ n <= MaxMoves /\ market \in Seq(SUBSET Levels) /\ wire \in Seq(FrameType)
          /\ \A i \in DOMAIN wire : wire[i].v <= n
      BY DEF Typing, TypeOK
    <2>2. \A i \in DOMAIN wire : wire[i] \in FrameType
      BY <2>1
    <2> QED
      BY <2>1, <2>2, FeedAssumption DEF FrameType
  <1>2. PICK b \in SUBSET Levels, full \in BOOLEAN :
          /\ market' = Append(market, b)
          /\ wire' = IF ~Speaks THEN wire
                     ELSE Append(wire, IF full THEN Frame(n + 1, TRUE, b, {})
                                       ELSE Frame(n + 1, FALSE, b \ market[n], market[n] \ b))
          /\ ~full => stream = "bybitDepth"
    BY DEF Move, Last
  <1>3. Speaks <=> up
    BY DEF Speaks, Books
  <1>4. UNCHANGED <<stream, up, book, held, seen, queue, tail>>
    BY DEF Move, hand
  <1>5. market'[n + 1] = b /\ Len(market') = n + 1 /\ \A k \in 1..n : market'[k] = market[k]
    BY <1>1, <1>2
  <1> HIDE DEF n
  <1>6. \A ev : Honest(market, ev) => Honest(market', ev)
    BY <1>1, <1>5 DEF Honest, n
  <1>7. AllHonest'
    BY <1>4, <1>6 DEF AllHonest, BooksInv
  <1>8. \A i \in DOMAIN wire : FrameTrue(market', wire[i]) /\ FrameTrue(market, wire[i])
    <2> TAKE i \in DOMAIN wire
    <2>1. FrameTrue(market, wire[i])
      BY DEF BooksInv, FramesTrue
    <2>2. wire[i].v \in 1..n
      BY <1>1
    <2> QED
      BY <1>1, <1>5, <2>1, <2>2 DEF FrameTrue
  <1> DEFINE f == IF full THEN Frame(n + 1, TRUE, b, {}) ELSE Frame(n + 1, FALSE, b \ market[n], market[n] \ b)
  <1>9. f \in FrameType /\ f.v = n + 1 /\ FrameTrue(market', f)
    <2>1. n + 1 \in 1..MaxMoves /\ market[n] \in SUBSET Levels
      BY <1>1, FeedAssumption DEF Move, n
    <2>2. CASE full
      <3>1. f = [v |-> n + 1, full |-> TRUE, book |-> b, gone |-> {}]
        BY <2>2 DEF Frame
      <3> HIDE DEF f
      <3>2. f \in FrameType
        BY <2>1, <3>1 DEF FrameType
      <3> QED
        BY <1>5, <3>1, <3>2 DEF FrameTrue
    <2>3. CASE ~full
      <3>1. f = [v |-> n + 1, full |-> FALSE, book |-> b \ market[n], gone |-> market[n] \ b]
        BY <2>3 DEF Frame
      <3> HIDE DEF f
      <3>2. f \in FrameType
        BY <2>1, <3>1 DEF FrameType
      <3>3. market'[n] = market[n] /\ n + 1 - 1 = n /\ n + 1 > 1
        BY <1>1, <1>5
      <3> QED
        <4>1. ~f.full /\ f.v = n + 1 /\ f.book = b \ market[n] /\ f.gone = market[n] \ b /\ f.v - 1 = n
          BY <1>1, <3>1
        <4> QED
          BY <1>5, <3>2, <3>3, <4>1 DEF FrameTrue
    <2> QED
      BY <2>2, <2>3
  <1>10. wire' = (IF up THEN Append(wire, f) ELSE wire) /\ (stream = "bybitDepth" \/ f.full)
    BY <1>2, <1>3 DEF Frame
  <1> HIDE DEF f
  <1>11. FramesTrue'
    <2>1. \A i \in DOMAIN wire : FrameTrue(market', wire[i]) /\ (stream = "bybitDepth" \/ wire[i].full)
      BY <1>8 DEF BooksInv, FramesTrue
    <2>2. \A i \in DOMAIN wire' : FrameTrue(market', wire'[i]) /\ (stream = "bybitDepth" \/ wire'[i].full)
      BY <1>1, <1>9, <1>10, <2>1, Longer
    <2> QED
      BY <1>4, <2>2 DEF FramesTrue
  <1>12. Chain'
    <2> SUFFICES ASSUME stream = "bybitDepth" PROVE Chain'
      BY <1>4 DEF Chain
    <2>1. /\ \A i \in DOMAIN wire : i > 1 => wire[i].v = wire[i - 1].v + 1
          /\ wire # <<>> => wire[1].full \/ book = market[wire[1].v - 1]
          /\ up => IF wire = <<>> THEN book = market[n] ELSE wire[Len(wire)].v = n
      BY DEF BooksInv, Chain, n
    <2>2. wire # <<>> => wire[1].full \/ (book = market'[wire[1].v - 1] /\ wire[1].v > 1)
      <3>1. wire # <<>> => 1 \in DOMAIN wire
        BY <1>1
      <3> QED
        BY <1>1, <1>5, <1>8, <2>1, <3>1 DEF FrameTrue
    <2>3. CASE ~up
      BY <1>4, <1>10, <2>1, <2>2, <2>3 DEF Chain
    <2>4. CASE up
      <3>1. wire' = Append(wire, f) /\ wire' # <<>> /\ Len(wire') = Len(wire) + 1 /\ Len(wire) \in Nat
            /\ wire'[Len(wire) + 1] = f /\ \A i \in DOMAIN wire : i \in DOMAIN wire' /\ wire'[i] = wire[i]
        BY <1>1, <1>9, <1>10, <2>4, Longer
      <3>2. \A i \in DOMAIN wire' : i > 1 => wire'[i].v = wire'[i - 1].v + 1
        <4> SUFFICES ASSUME NEW i \in DOMAIN wire', i > 1 PROVE wire'[i].v = wire'[i - 1].v + 1
          OBVIOUS
        <4>1. CASE i \in DOMAIN wire
          BY <1>1, <2>1, <3>1, <4>1
        <4>2. CASE i = Len(wire) + 1
          BY <1>1, <1>9, <2>1, <2>4, <3>1, <4>2
        <4> QED
          BY <1>1, <1>9, <3>1, <4>1, <4>2, Longer
      <3>3. wire'[1].full \/ book = market'[wire'[1].v - 1]
        <4>1. CASE wire = <<>>
          BY <1>1, <1>5, <1>9, <2>1, <2>4, <3>1, <4>1
        <4>2. CASE wire # <<>>
          BY <1>1, <2>2, <3>1, <4>2
        <4> QED
          BY <4>1, <4>2
      <3>4. wire'[Len(wire')].v = Len(market')
        BY <1>5, <1>9, <3>1
      <3> QED
        BY <1>4, <3>1, <3>2, <3>3, <3>4 DEF Chain
    <2> QED
      BY <2>3, <2>4
  <1> QED
    BY <1>7, <1>11, <1>12 DEF BooksInv

\* What is taken from or added to a sequence of honest events leaves it one.
LEMMA HonestSeq ==
    ASSUME NEW m, NEW s \in Seq(Event), \A i \in DOMAIN s : Honest(m, s[i])
    PROVE  /\ s # <<>> => Honest(m, Head(s)) /\ \A i \in DOMAIN Tail(s) : Honest(m, Tail(s)[i])
           /\ \A e \in Event : Honest(m, e) => \A i \in DOMAIN Append(s, e) : Honest(m, Append(s, e)[i])
  <1>1. ASSUME s # <<>>
        PROVE  Honest(m, Head(s)) /\ \A i \in DOMAIN Tail(s) : Honest(m, Tail(s)[i])
    BY <1>1, Rest
  <1>2. ASSUME NEW e \in Event, Honest(m, e)
        PROVE  \A i \in DOMAIN Append(s, e) : Honest(m, Append(s, e)[i])
    BY <1>2, Longer
  <1> QED
    BY <1>1, <1>2

\* A frame is read from the socket.
LEMMA BooksRead ==
    ASSUME Typing, BooksInv, stream \in Books, wire # <<>>, wire' = Tail(wire), UNCHANGED <<stream, market, up>>,
           stream = "bybitDepth" => book' = Applied(book, Head(wire))
    PROVE  /\ FramesTrue' /\ Chain'
           /\ stream # "bybitDepth" => Head(wire).book = market[Head(wire).v]
           /\ stream = "bybitDepth" => book' = market[Head(wire).v]
  <1>1. /\ wire \in Seq(FrameType) /\ Head(wire) = wire[1] /\ 1 \in DOMAIN wire /\ Head(wire).v \in 1..Len(market)
        /\ Len(wire) \in Nat /\ Len(wire) > 0 /\ Len(Tail(wire)) = Len(wire) - 1
        /\ \A i \in DOMAIN Tail(wire) : i \in Nat /\ i > 0 /\ i + 1 \in DOMAIN wire /\ Tail(wire)[i] = wire[i + 1]
    BY Arrived, Rest DEF Typing
  <1>2. \A i \in DOMAIN wire : FrameTrue(market, wire[i]) /\ (stream = "bybitDepth" \/ wire[i].full)
    BY DEF BooksInv, FramesTrue
  <1>3. FramesTrue'
    BY <1>1, <1>2 DEF FramesTrue
  <1>4. stream # "bybitDepth" => Head(wire).book = market[Head(wire).v]
    BY <1>1, <1>2 DEF FrameTrue
  <1>5. ASSUME stream = "bybitDepth" PROVE Chain' /\ book' = market[Head(wire).v]
    <2>1. /\ \A i \in DOMAIN wire : i > 1 => wire[i].v = wire[i - 1].v + 1
          /\ wire[1].full \/ book = market[wire[1].v - 1]
          /\ up => wire[Len(wire)].v = Len(market)
      BY <1>5 DEF BooksInv, Chain
    <2>a. ASSUME NEW i \in DOMAIN wire, i + 1 \in DOMAIN wire PROVE wire[i + 1].v = wire[i].v + 1
      <3>1. i \in Nat /\ i > 0 /\ i + 1 > 1 /\ (i + 1) - 1 = i
        BY <1>1
      <3>2. wire[i + 1].v = wire[(i + 1) - 1].v + 1
        BY <2>1, <2>a, <3>1
      <3> QED
        BY <3>1, <3>2
    <2>2. book' = market[wire[1].v]
      <3>1. book' = ((IF wire[1].full THEN {} ELSE book) \cup wire[1].book) \ wire[1].gone
        BY <1>1, <1>5 DEF Applied
      <3>2. FrameTrue(market, wire[1])
        BY <1>1, <1>2
      <3>3. CASE wire[1].full
        BY <3>1, <3>2, <3>3 DEF FrameTrue
      <3>4. CASE ~wire[1].full
        BY <2>1, <3>1, <3>2, <3>4 DEF FrameTrue
      <3> QED
        BY <3>3, <3>4
    <2>3. \A i \in DOMAIN wire' : i > 1 => wire'[i].v = wire'[i - 1].v + 1
      <3> SUFFICES ASSUME NEW i \in DOMAIN wire', i > 1 PROVE wire'[i].v = wire'[i - 1].v + 1
        OBVIOUS
      <3>1. i \in Nat /\ i + 1 \in DOMAIN wire /\ wire'[i] = wire[i + 1] /\ wire'[i - 1] = wire[i]
        BY <1>1, Shifted
      <3>2. i \in DOMAIN wire
        BY <1>1, Shifted
      <3> QED
        BY <2>a, <3>1, <3>2
    <2>4. ASSUME wire' # <<>> PROVE wire'[1].full \/ book' = market'[wire'[1].v - 1]
      <3>1. 2 \in DOMAIN wire /\ wire'[1] = wire[2]
        BY <1>1, <2>4, Shifted
      <3>2. wire[2].v = wire[1].v + 1 /\ wire[1].v \in Int
        BY <1>1, <2>a, <3>1
      <3> QED
        BY <2>2, <3>1, <3>2
    <2>5. ASSUME up PROVE IF wire' = <<>> THEN book' = market[Len(market)] ELSE wire'[Len(wire')].v = Len(market)
      <3>1. CASE wire' = <<>>
        <4>1. Len(wire) = 1
          BY <1>1, <3>1, Shifted
        <4> QED
          BY <2>1, <2>2, <2>5, <3>1, <4>1
      <3>2. CASE wire' # <<>>
        BY <1>1, <2>1, <2>5, <3>2
      <3> QED
        BY <3>1, <3>2
    <2> QED
      BY <1>1, <2>2, <2>3, <2>4, <2>5 DEF Chain
  <1> QED
    BY <1>3, <1>4, <1>5 DEF Chain

LEMMA BooksNext ==
    ASSUME Typing, Typing', BooksInv, [Next]_vars
    PROVE  BooksInv'
  <1> USE DEF hand, lease, pipe
  <1> SUFFICES ASSUME stream \in Books PROVE BooksInv'
    BY OneStream DEF BooksInv, AllHonest, FramesTrue, Chain, Books
  <1>0. /\ stream \in Streams /\ stream \notin Fills
        /\ wire \in Seq(FrameType) /\ queue \in Seq(Event) /\ tail \in Seq(Event) /\ held \in Event
    BY DEF Typing, TypeOK, Books, Fills
  <1>a. /\ Honest(market, held) /\ Honest(market, seen)
        /\ \A i \in DOMAIN queue : Honest(market, queue[i])
        /\ \A i \in DOMAIN tail : Honest(market, tail[i])
    BY DEF BooksInv, AllHonest
  <1>b. stream' = stream
    BY OneStream
  <1>1. CASE Move
    BY <1>1, BooksMove
  <1>2. CASE Disconnect
    <2>1. PICK n \in 0..Len(wire) : wire' = SubSeq(wire, 1, n)
      BY <1>2 DEF Disconnect
    <2>2. /\ Len(wire') = n
          /\ \A i \in DOMAIN wire' : i \in Nat /\ i > 0 /\ i \in DOMAIN wire /\ wire'[i] = wire[i]
      BY <1>0, <2>1, Part
    <2>3. \A i \in DOMAIN wire' : i > 1 => i - 1 \in DOMAIN wire'
      BY <2>1, <2>2, Part, <1>0
    <2>4. wire' # <<>> => 1 \in DOMAIN wire'
      BY <1>0, <2>1
    <2>5. UNCHANGED <<stream, market, book, held, seen, queue, tail>> /\ ~up'
      BY <1>2 DEF Disconnect
    <2>6. FramesTrue'
      BY <2>2, <2>5 DEF BooksInv, FramesTrue
    <2>7. Chain'
      BY <2>2, <2>3, <2>4, <2>5 DEF BooksInv, Chain
    <2> QED
      BY <2>5, <2>6, <2>7 DEF BooksInv, AllHonest
  <1>3. CASE Passes
    <2>1. UNCHANGED <<stream, market, up, seen, queue, tail>> /\ wire # <<>> /\ wire' = Tail(wire) /\ stream # "bybitDepth"
          /\ held' = [v |-> Head(wire).v, book |-> Head(wire).book]
      BY <1>3 DEF Passes, Whole, Emit
    <2>2. Honest(market, held')
      BY <2>1, BooksRead, Arrived DEF Honest
    <2> QED
      BY <1>a, <2>1, <2>2, BooksRead DEF BooksInv, AllHonest
  <1>4. CASE ReadBybit
    <2>1. UNCHANGED <<stream, market, up, seen, queue, tail>> /\ wire # <<>> /\ wire' = Tail(wire) /\ stream = "bybitDepth"
          /\ held' = [v |-> Head(wire).v, book |-> book'] /\ book' = Applied(book, Head(wire))
      BY <1>4 DEF ReadBybit, Reading, Emit
    <2>2. Honest(market, held')
      BY <2>1, BooksRead, Arrived DEF Honest
    <2> QED
      BY <1>a, <2>1, <2>2, BooksRead DEF BooksInv, AllHonest
  <1>5. CASE FirstData
    <2>1. UNCHANGED <<stream, market, up, seen, held, tail>> /\ wire # <<>> /\ wire' = Tail(wire) /\ stream # "bybitDepth"
          /\ last' = [v |-> Head(wire).v, book |-> Head(wire).book] /\ queue' = Append(queue, last')
      BY <1>5 DEF FirstData
    <2>2. Honest(market, last') /\ last' \in Event
      BY <2>1, BooksRead, Arrived DEF Honest, Typing, TypeOK
    <2>3. \A i \in DOMAIN queue' : Honest(market, queue'[i])
      BY <1>0, <1>a, <2>1, <2>2, HonestSeq
    <2> QED
      BY <1>a, <2>1, <2>3, BooksRead DEF BooksInv, AllHonest
  <1>6. CASE Beat
    BY <1>6 DEF Beat, BooksInv, AllHonest, FramesTrue, Chain, Honest
  <1>7. CASE Fills_
    BY <1>0, <1>7 DEF Fills_, Filled, Reading
  <1>8. CASE Sent
    <2>1. UNCHANGED <<stream, market, up, wire, book, held, seen, tail>> /\ (queue' = queue \/ queue' = Append(queue, held))
      BY <1>8 DEF Sent
    <2>2. \A i \in DOMAIN queue' : Honest(market, queue'[i])
      BY <1>0, <1>a, <2>1, HonestSeq
    <2> QED
      BY <1>a, <2>1, <2>2 DEF BooksInv, AllHonest, FramesTrue, Chain
  <1>9. CASE Lost
    BY <1>9 DEF Lost, BooksInv, AllHonest, FramesTrue, Chain
  <1>10. CASE Reopens_
    <2>1. UNCHANGED <<stream, market, book, held, seen, queue, tail>> /\ wire' = Greeting
      BY <1>10 DEF Reopens_, Reopens, Opened
    <2>2. FramesTrue'
      BY <2>1, Greets DEF FramesTrue, FrameTrue
    <2>3. Chain'
      BY <2>1, Greets DEF Chain
    <2> QED
      BY <1>a, <2>1, <2>2, <2>3 DEF BooksInv, AllHonest
  <1>11. CASE Mint \/ ReopenFills
    BY <1>11 DEF Mint, ReopenFills, Books
  <1>12. CASE CoalesceBook \/ DropNewest \/ ForwardLiquidation
    <2>1. UNCHANGED <<stream, market, up, wire, book, held, seen>> /\ queue # <<>> /\ queue' = Tail(queue)
          /\ (tail' = tail \/ tail' = <<Head(queue)>> \/ tail' = Append(tail, Head(queue)))
      BY <1>12 DEF CoalesceBook, DropNewest, ForwardLiquidation, Relaying, Relayed
    <2>2. Honest(market, Head(queue)) /\ Head(queue) \in Event /\ \A i \in DOMAIN queue' : Honest(market, queue'[i])
      BY <1>0, <1>a, <2>1, HonestSeq, Rest
    <2>3. \A i \in DOMAIN tail' : Honest(market, tail'[i])
      <3>1. CASE tail' = <<Head(queue)>>
        BY <2>2, <3>1
      <3>2. CASE tail' = Append(tail, Head(queue))
        BY <1>0, <1>a, <2>2, <3>2, HonestSeq
      <3> QED
        BY <1>a, <2>1, <3>1, <3>2
    <2> QED
      BY <1>a, <2>1, <2>2, <2>3 DEF BooksInv, AllHonest, FramesTrue, Chain
  <1>13. CASE Consume
    <2>1. UNCHANGED <<stream, market, up, wire, book, held>>
          /\ \/ queue # <<>> /\ queue' = Tail(queue) /\ tail' = tail /\ seen' \in {seen, Head(queue)}
             \/ tail # <<>> /\ tail' = Tail(tail) /\ queue' = queue /\ seen' \in {seen, Head(tail)}
      BY <1>13 DEF Consume
    <2>2. /\ \A i \in DOMAIN queue' : Honest(market, queue'[i])
          /\ \A i \in DOMAIN tail' : Honest(market, tail'[i])
          /\ Honest(market, seen')
      BY <1>0, <1>a, <2>1, HonestSeq
    <2> QED
      BY <1>a, <2>1, <2>2 DEF BooksInv, AllHonest, FramesTrue, Chain
  <1>14. CASE UNCHANGED <<stream, market, up, wire, book, held, seen, queue, tail>>
    BY <1>14 DEF BooksInv, AllHonest, FramesTrue, Chain
  <1> QED
    <2>1. Leases \/ SpawnFails \/ PumpStops \/ RelayEnds \/ Leave \/ UNCHANGED vars
          => UNCHANGED <<stream, market, up, wire, book, held, seen, queue, tail>>
      BY DEF Leases, KeepAlive, PutHangs, Renew, Miss, Shutdown, KeepAliveStops, SpawnFails, PumpStops, RelayEnds, Leave, vars
    <2> QED
      BY <1>0, <1>1, <1>2, <1>3, <1>4, <1>5, <1>6, <1>7, <1>8, <1>9, <1>10, <1>11, <1>12, <1>13, <1>14, <2>1, Shapes

-----------------------------------------------------------------------------
(* The newest event.                                                       *)

\* What taking the first event, or adding one, does to what a sequence ends
\* with.
LEMMA EndsTaken ==
    ASSUME NEW s \in Seq(Event), s # <<>>
    PROVE  /\ Behind(s) => Head(s) = Nothing /\ Behind(Tail(s))
           /\ EndsWithLast(s) => EndsWithLast(Tail(s)) \/ (Head(s) = last /\ last # Nothing /\ Behind(Tail(s)))
  <1>1. /\ Head(s) = s[1] /\ 1 \in DOMAIN s
        /\ \A i \in DOMAIN Tail(s) : i \in Nat /\ i > 0 /\ i + 1 \in DOMAIN s /\ Tail(s)[i] = s[i + 1]
        /\ \A i \in DOMAIN s : i \in Nat /\ i > 0 /\ (i > 1 => i - 1 \in DOMAIN Tail(s))
    BY Rest
  <1>2. Behind(s) => Head(s) = Nothing /\ Behind(Tail(s))
    BY <1>1 DEF Behind
  <1>3. ASSUME EndsWithLast(s)
        PROVE  EndsWithLast(Tail(s)) \/ (Head(s) = last /\ last # Nothing /\ Behind(Tail(s)))
    <2>1. PICK i \in DOMAIN s : s[i] = last /\ \A j \in DOMAIN s : j > i => s[j] = Nothing
      BY <1>3 DEF EndsWithLast
    <2>2. CASE i = 1
      <3>1. \A j \in DOMAIN Tail(s) : j + 1 > i
        BY <1>1, <2>2
      <3> QED
        BY <1>1, <1>3, <2>1, <2>2, <3>1 DEF EndsWithLast, Behind
    <2>3. CASE i > 1
      <3>1. i - 1 \in DOMAIN Tail(s) /\ (i - 1) + 1 = i
        BY <1>1, <2>3
      <3>2. Tail(s)[i - 1] = last
        BY <1>1, <2>1, <3>1
      <3>3. ASSUME NEW j \in DOMAIN Tail(s), j > i - 1 PROVE Tail(s)[j] = Nothing
        <4>1. j + 1 > i /\ j + 1 \in DOMAIN s /\ Tail(s)[j] = s[j + 1]
          BY <1>1, <3>1, <3>3
        <4> QED
          BY <2>1, <4>1
      <3> QED
        BY <1>3, <3>1, <3>2, <3>3 DEF EndsWithLast
    <2> QED
      BY <1>1, <2>2, <2>3
  <1> QED
    BY <1>2, <1>3

LEMMA EndsAdded ==
    ASSUME NEW s \in Seq(Event), NEW e \in Event
    PROVE  /\ Behind(s) /\ e = Nothing => Behind(Append(s, e))
           /\ EndsWithLast(s) /\ e = Nothing => EndsWithLast(Append(s, e))
           /\ e = last /\ last # Nothing => EndsWithLast(Append(s, e))
  <1>1. /\ Len(s) \in Nat /\ Len(Append(s, e)) = Len(s) + 1 /\ Append(s, e)[Len(s) + 1] = e
        /\ \A i \in DOMAIN s : i \in DOMAIN Append(s, e) /\ i \in Nat /\ i < Len(s) + 1 /\ Append(s, e)[i] = s[i]
        /\ \A i \in DOMAIN Append(s, e) : i \in Nat /\ (i \in DOMAIN s \/ i = Len(s) + 1)
        /\ Len(s) + 1 \in DOMAIN Append(s, e)
    BY Longer
  <1> DEFINE t == Append(s, e)
  <1> HIDE DEF t
  <1>2. Behind(s) /\ e = Nothing => Behind(t)
    BY <1>1 DEF Behind, t
  <1>3. ASSUME EndsWithLast(s), e = Nothing PROVE EndsWithLast(t)
    BY <1>1, <1>3 DEF EndsWithLast, t
  <1>4. ASSUME e = last, last # Nothing PROVE EndsWithLast(t)
    <2>1. \A j \in DOMAIN t : ~ (j > Len(s) + 1)
      BY <1>1 DEF t
    <2> QED
      BY <1>1, <1>4, <2>1 DEF EndsWithLast, t
  <1> QED
    BY <1>2, <1>3, <1>4 DEF t

LEMMA BeatsNext ==
    ASSUME Typing, Beats, [Next]_vars
    PROVE  Beats'
  <1> USE DEF hand, lease, pipe
  <1> SUFFICES ASSUME stream # "hyper" PROVE Beats'
    BY OneStream DEF Beats
  <1>0. stream \in Streams /\ queue \in Seq(Event) /\ held \in Event /\ wire \in Seq(FrameType) /\ stream' = stream
    BY OneStream DEF Typing, TypeOK
  <1>a. (\A i \in DOMAIN queue : queue[i] # Nothing) /\ (pump = "send" => held # Nothing)
    BY DEF Beats
  <1>1. CASE UNCHANGED queue /\ (pump' = "send" => UNCHANGED <<pump, held>>)
    BY <1>1, <1>a DEF Beats
  <1>2. CASE Passes \/ ReadBybit
    <2>1. UNCHANGED queue /\ wire # <<>> /\ \E b : held' = [v |-> Head(wire).v, book |-> b]
      BY <1>2 DEF Passes, Whole, ReadBybit, Reading, Emit
    <2>2. held' # Nothing
      BY <2>1, Arrived DEF Nothing
    <2> QED
      BY <1>a, <2>1, <2>2 DEF Beats
  <1>3. CASE Fills_
    <2>1. wire # <<>> /\ (queue' = queue \/ queue' = Append(queue, [v |-> Head(wire).v, book |-> {}])) /\ pump' # "send"
      BY <1>3 DEF Fills_, Filled, Reading
    <2>2. [v |-> Head(wire).v, book |-> {}] \in Event /\ [v |-> Head(wire).v, book |-> {}] # Nothing
      BY <2>1, Emitted
    <2> QED
      BY <1>0, <1>a, <2>1, <2>2, Longer DEF Beats
  <1>4. CASE Sent
    <2>1. (queue' = queue \/ queue' = Append(queue, held)) /\ pump' # "send" /\ held # Nothing
      BY <1>4, <1>a DEF Sent
    <2> QED
      BY <1>0, <1>a, <2>1, Longer DEF Beats
  <1>5. CASE CoalesceBook \/ DropNewest \/ ForwardLiquidation \/ Consume
    <2>1. (queue' = queue \/ (queue # <<>> /\ queue' = Tail(queue))) /\ UNCHANGED <<pump, held>>
      BY <1>5 DEF CoalesceBook, DropNewest, ForwardLiquidation, Consume, Relaying, Relayed
    <2> QED
      <3>1. CASE queue # <<>> /\ queue' = Tail(queue)
        <4>1. \A i \in DOMAIN queue' : i + 1 \in DOMAIN queue /\ queue'[i] = queue[i + 1]
          BY <1>0, <3>1, Rest
        <4> QED
          BY <1>a, <2>1, <4>1 DEF Beats
      <3> QED
        BY <1>a, <2>1, <3>1 DEF Beats
  <1> QED
    <2>1. Move \/ Disconnect \/ Lost \/ Reopens_ \/ Mint \/ ReopenFills \/ Leases \/ SpawnFails \/ PumpStops
          \/ RelayEnds \/ Leave \/ UNCHANGED vars
          => UNCHANGED queue /\ (pump' = "send" => UNCHANGED <<pump, held>>)
      BY DEF Move, Disconnect, Lost, Reopens_, Reopens, Opened, Mint, ReopenFills, Leases, KeepAlive, PutHangs, Renew, Miss,
         Shutdown, KeepAliveStops, SpawnFails, PumpStops, RelayEnds, Leave, vars
    <2>2. ~FirstData /\ ~Beat
      BY DEF FirstData, Beat
    <2> QED
      BY <1>0, <1>1, <1>2, <1>3, <1>4, <1>5, <2>1, <2>2, Shapes

LEMMA NewestNext ==
    ASSUME Typing, Beats, Newest, [Next]_vars
    PROVE  Newest'
  <1> USE DEF hand, lease, pipe
  <1> SUFFICES ASSUME stream # "trades", ~gone' PROVE Newest'
    BY OneStream DEF Newest
  <1>0. /\ stream \in Streams /\ queue \in Seq(Event) /\ tail \in Seq(Event) /\ held \in Event /\ last \in Event
        /\ ~gone /\ stream' = stream /\ (Adapted => relay) /\ (~Adapted => tail = <<>>)
        /\ (stream # "hyper" => (\A i \in DOMAIN queue : queue[i] # Nothing))
    <2> QED
      BY OneStream DEF Typing, TypeOK, Beats
  <1>a. \/ pump = "send" /\ held = last /\ last # Nothing
        \/ /\ pump = "send" => held = Nothing
           /\ \/ EndsWithLast(queue)
              \/ Behind(queue) /\ EndsWithLast(tail)
              \/ Behind(queue) /\ Behind(tail) /\ seen = last
    BY <1>0 DEF Newest
  <1>1. CASE UNCHANGED <<held, last, queue, tail, seen>> /\ (pump' = pump \/ (pump # "send" /\ pump' # "send"))
    BY <1>1, <1>a DEF Newest, EndsWithLast, Behind
  <1>2. CASE Passes \/ ReadBybit
    <2>1. /\ pump' = "send" /\ held' = last' /\ wire # <<>>
          /\ \E b : last' = [v |-> Head(wire).v, book |-> b]
      BY <1>2 DEF Passes, Whole, ReadBybit, Reading, Emit
    <2>2. last' # Nothing
      BY <2>1, Arrived DEF Nothing
    <2> QED
      BY <2>1, <2>2 DEF Newest
  <1>3. CASE FirstData \/ Fills_
    <2>1. \E b : last' = [v |-> Head(wire).v, book |-> b]
      BY <1>3 DEF FirstData, Fills_, Filled
    <2>2. wire # <<>> /\ pump' # "send" /\ queue' = Append(queue, last')
      BY <1>0, <1>3 DEF FirstData, Fills_, Filled, Reading
    <2>3. last' # Nothing
      BY <2>1, <2>2, Arrived DEF Nothing
    <2>4. EndsWithLast(queue)'
      <3>1. /\ Len(queue) + 1 \in DOMAIN queue' /\ queue'[Len(queue) + 1] = last'
            /\ \A j \in DOMAIN queue' : ~ (j > Len(queue) + 1)
        BY <1>0, <2>2
      <3> QED
        BY <2>3, <3>1 DEF EndsWithLast
    <2> QED
      BY <2>2, <2>4 DEF Newest
  <1>4. CASE Beat
    <2>1. pump = "read" /\ held' = Nothing /\ UNCHANGED <<last, queue, tail, seen>>
      BY <1>4 DEF Beat
    <2> QED
      BY <1>a, <2>1 DEF Newest, EndsWithLast, Behind
  <1>5. CASE Sent
    <2>1. pump = "send" /\ queue' = Append(queue, held) /\ pump' # "send" /\ UNCHANGED <<last, tail, seen>>
      BY <1>0, <1>5 DEF Sent, ReceiverGone
    <2>2. EndsWithLast(queue)' <=> EndsWithLast(Append(queue, held))
      BY <2>1 DEF EndsWithLast
    <2>3. Behind(queue)' <=> Behind(Append(queue, held))
      BY <2>1 DEF Behind
    <2>4. (EndsWithLast(tail)' <=> EndsWithLast(tail)) /\ (Behind(tail)' <=> Behind(tail))
      BY <2>1 DEF EndsWithLast, Behind
    <2> QED
      BY <1>0, <1>a, <2>1, <2>2, <2>3, <2>4, EndsAdded DEF Newest
  <1>6. CASE CoalesceBook \/ ForwardLiquidation
    <2>1. /\ queue # <<>> /\ queue' = Tail(queue) /\ stream # "hyper" /\ UNCHANGED <<pump, held, last, seen>>
          /\ tail' = <<Head(queue)>> \/ tail' = Append(tail, Head(queue))
      BY <1>6 DEF CoalesceBook, ForwardLiquidation, Relaying, Relayed
    <2>2. ~Behind(queue) /\ Head(queue) \in Event
      BY <1>0, <2>1, Rest DEF Behind
    <2>3. (EndsWithLast(queue)' <=> EndsWithLast(Tail(queue))) /\ (Behind(queue)' <=> Behind(Tail(queue)))
      BY <2>1 DEF EndsWithLast, Behind
    <2>4. ASSUME Head(queue) = last, last # Nothing PROVE EndsWithLast(tail)'
      <3>1. CASE tail' = <<Head(queue)>>
        BY <2>1, <2>4, <3>1 DEF EndsWithLast
      <3>2. CASE tail' = Append(tail, Head(queue))
        <4>1. EndsWithLast(Append(tail, Head(queue)))
          BY <1>0, <2>2, <2>4, EndsAdded
        <4> QED
          BY <2>1, <3>2, <4>1 DEF EndsWithLast
      <3> QED
        BY <2>1, <3>1, <3>2
    <2> QED
      BY <1>0, <1>a, <2>1, <2>2, <2>3, <2>4, EndsTaken DEF Newest
  <1>7. CASE DropNewest
    BY <1>7 DEF DropNewest, Relaying
  <1>8. CASE Consume /\ Adapted
    <2>1. /\ UNCHANGED <<pump, held, last, queue>> /\ tail # <<>> /\ tail' = Tail(tail)
          /\ seen' = IF Head(tail) = Nothing THEN seen ELSE Head(tail)
      BY <1>8 DEF Consume
    <2>2. (EndsWithLast(tail)' <=> EndsWithLast(Tail(tail))) /\ (Behind(tail)' <=> Behind(Tail(tail)))
          /\ (EndsWithLast(queue)' <=> EndsWithLast(queue)) /\ (Behind(queue)' <=> Behind(queue))
      BY <2>1 DEF EndsWithLast, Behind
    <2> QED
      BY <1>0, <1>a, <2>1, <2>2, EndsTaken DEF Newest
  <1>9. CASE Consume /\ ~Adapted
    <2>1. /\ UNCHANGED <<pump, held, last, tail>> /\ queue # <<>> /\ queue' = Tail(queue)
          /\ seen' = IF Head(queue) = Nothing THEN seen ELSE Head(queue)
      BY <1>9 DEF Consume
    <2>2. (EndsWithLast(queue)' <=> EndsWithLast(Tail(queue))) /\ (Behind(queue)' <=> Behind(Tail(queue)))
          /\ ~EndsWithLast(tail) /\ Behind(tail)'
      BY <1>0, <1>9, <2>1 DEF EndsWithLast, Behind
    <2> QED
      BY <1>0, <1>a, <2>1, <2>2, EndsTaken DEF Newest
  <1> QED
    <2>1. Move \/ Disconnect \/ Lost \/ Reopens_ \/ Mint \/ ReopenFills \/ Leases \/ PumpStops
          \/ RelayEnds \/ UNCHANGED vars
          => UNCHANGED <<held, last, queue, tail, seen>> /\ (pump' = pump \/ (pump # "send" /\ pump' # "send"))
      BY DEF Move, Disconnect, Lost, Reopens_, Reopens, Opened, Mint, ReopenFills, Leases, KeepAlive, PutHangs, Renew, Miss,
         Shutdown, KeepAliveStops, PumpStops, RelayEnds, vars
    <2>2. ~SpawnFails /\ ~Leave
      BY DEF SpawnFails, Leave
    <2> QED
      BY <1>0, <1>1, <1>2, <1>3, <1>4, <1>5, <1>6, <1>7, <1>8, <1>9, <2>1, <2>2, Shapes

\* BookTrue: every book handed on is one the venue had (depth_pump of
\* tikr-bybit, whatever snapshots, deltas and disconnects came in between),
\* and a consumer that has taken everything offered has the newest event the
\* pump read, trades apart.
THEOREM BooksAreTrue == Spec => []BookTrue
  <1> DEFINE FInv == Typing /\ BooksInv /\ Beats /\ Newest
  <1>1. Init => FInv
    <2> SUFFICES ASSUME Init PROVE FInv
      OBVIOUS
    <2>1. Typing
      BY TypingInit
    <2>2. /\ held = Nothing /\ seen = Nothing /\ last = Nothing /\ queue = <<>> /\ tail = <<>> /\ wire = Greeting
          /\ pump \in {"gate", "read"}
      BY DEF Init
    <2>3. AllHonest /\ Beats /\ Newest
      BY <2>2 DEF AllHonest, Honest, Beats, Newest, Behind
    <2>4. FramesTrue
      BY <2>1, <2>2, Greets DEF FramesTrue, FrameTrue
    <2>5. Chain
      <3>1. wire = Greeting
        BY <2>2
      <3> QED
        <4> SUFFICES ASSUME stream = "bybitDepth" PROVE Chain
          BY DEF Chain
        <4>1. Greeting \in Seq(FrameType) /\ Len(Greeting) = 1
          BY <2>1, Greets DEF Books
        <4>2. 1 \in DOMAIN Greeting /\ Greeting # <<>> /\ \A i \in DOMAIN Greeting : ~ (i > 1)
          BY <4>1
        <4>3. Greeting[1].full /\ Greeting[1].v = Len(market)
          BY <2>1, <4>2, Greets
        <4> QED
          BY <3>1, <4>1, <4>2, <4>3 DEF Chain
    <2> QED
      BY <2>1, <2>3, <2>4, <2>5 DEF BooksInv
  <1>2. FInv /\ [Next]_vars => FInv'
    BY TypingNext, BooksNext, BeatsNext, NewestNext
  <1>3. FInv => BookTrue
    <2> SUFFICES ASSUME FInv PROVE BookTrue
      OBVIOUS
    <2>1. ASSUME stream \in Books, NEW ev \in Range(queue) \cup Range(tail) \cup {seen, held}, ev # Nothing
          PROVE  ev.book = market[ev.v]
      BY <2>1 DEF BooksInv, AllHonest, Honest, Range
    <2>2. ASSUME stream # "trades", ~gone, pump # "send", queue = <<>>, tail = <<>>
          PROVE  seen = last
      BY <2>2 DEF Newest, EndsWithLast
    <2> QED
      BY <2>1, <2>2 DEF BookTrue
  <1> QED
    BY <1>1, <1>2, <1>3, PTL DEF Spec

-----------------------------------------------------------------------------
(* The rotation.                                                             *)

Leaving == phase = "stop" \/ phase \in Flattening

\* A supervisor belongs to a bot in the map or to the one being stopped, and a
\* runner that is not detached to a supervisor that waits for it.
Tasks ==
    /\ \A s \in Symbols : /\ sup[s] # "none" => s \in active \/ Told(s)
                          /\ runner[s] # "none" => sup[s] \in {"watch", "stopping"}
    /\ Leaving => target \in Symbols /\ target \notin active

\* What the flatten has found or made of the symbol, at each of its calls.
Closed  == orders[target] = {} /\ pos[target] = 0
Resting == orders[target] = {side} /\ pos[target] = -Sign(side)
Clean ==
    phase \in Flattening /\ ok = "yes" /\ spoiled = "no" =>
        /\ zombie[target] = "none"
        /\ phase \in {"look", "limit", "market"} => orders[target] = {}
        /\ phase = "limit" => pos[target] = -Sign(side)
        /\ phase \in {"wait", "sweep"} => Resting \/ Closed
        /\ phase = "verdict" => Closed

Inv == RotationTypeOK /\ Tasks /\ Clean

-----------------------------------------------------------------------------
(* The steps of the venue and of the bots.                                 *)

\* Updating one symbol of a function keeps its type (EXCEPT in the actions).
LEMMA UpdateTyped ==
    ASSUME NEW S, NEW T, NEW f \in [S -> T], NEW s \in S, NEW e \in T
    PROVE  [f EXCEPT ![s] = e] \in [S -> T]
OBVIOUS

\* What a handler may make of the orders has their type (Finish, ZombieActs).
LEMMA HandledTyped ==
    ASSUME RotationTypeOK, NEW s \in Symbols, NEW o \in Handled(s)
    PROVE  /\ o \in [Symbols -> SUBSET {"bot", "sell", "buy"}]
           /\ \A t \in Symbols \ {s} : o[t] = orders[t]
<1>1. orders \in [Symbols -> SUBSET {"bot", "sell", "buy"}]
  BY DEF RotationTypeOK
<1>2. PICK e \in SUBSET {"bot", "sell", "buy"} : o = [orders EXCEPT ![s] = e]
  <2>1. orders[s] \subseteq {"bot", "sell", "buy"}
    BY <1>1
  <2>2. CASE o = With(orders, s, "bot")
    BY <2>1, <2>2 DEF With
  <2>3. CASE \E e \in SUBSET orders[s] : o = [orders EXCEPT ![s] = e]
    BY <2>1, <2>3
  <2>4. QED
    BY <2>2, <2>3 DEF Handled
<1>3. QED
  BY <1>1, <1>2

\* The steps of the venue and of the account's gate keep the types.
LEMMA TypingVenue ==
    ASSUME RotationTypeOK,
           (\E s \in Symbols : FillBot(s) \/ FillClose(s)) \/ RateLimit \/ GateClears
    PROVE  RotationTypeOK'
<1>1. ASSUME NEW s \in Symbols, FillBot(s)
      PROVE  RotationTypeOK'
  BY <1>1 DEF FillBot, RotationTypeOK, Without, botVars, passVars, flattenVars
<1>2. ASSUME NEW s \in Symbols, FillClose(s)
      PROVE  RotationTypeOK'
  BY <1>2 DEF FillClose, RotationTypeOK, Without, Sign, botVars, passVars, flattenVars
<1>3. CASE RateLimit
  BY <1>3, RotationAssumption
  DEF RateLimit, Fault, RotationTypeOK, venueVars, botVars, passVars, flattenVars
<1>4. CASE GateClears
  BY <1>4 DEF GateClears, RotationTypeOK, venueVars, botVars, passVars, flattenVars
<1>5. QED
  BY <1>1, <1>2, <1>3, <1>4

\* The steps of a supervisor and its runner keep the types.
LEMMA TypingBot ==
    ASSUME RotationTypeOK, NEW s \in Symbols, BotStep(s)
    PROVE  RotationTypeOK'
<1> USE DEF venueVars, botVars, passVars, flattenVars
<1>1. CASE PassGate(s) \/ BootStart(s) \/ Retry(s) \/ Quit(s) \/ PassStop(s) \/ RunnerStops(s)
  BY <1>1 DEF PassGate, BootStart, Retry, Quit, PassStop, RunnerStops, SupervisorMoves,
              RotationTypeOK, Stages
<1>2. CASE BootCancel(s) \/ BootFails(s)
  BY <1>2, RotationAssumption
  DEF BootCancel, BootFails, SupervisorMoves, Fault, Limited, RotationTypeOK, Stages
<1>3. CASE Begin(s) \/ RunnerEnds(s)
  BY <1>3 DEF Begin, RunnerEnds, RotationTypeOK, Stages
<1>4. CASE Finish(s) \/ ZombieActs(s)
  <2>1. orders' \in [Symbols -> SUBSET {"bot", "sell", "buy"}]
    BY <1>4, HandledTyped DEF Finish, ZombieActs
  <2>2. QED
    BY <1>4, <2>1 DEF Finish, ZombieActs, RotationTypeOK
<1>5. CASE RunnerAborted(s)
  BY <1>5 DEF RunnerAborted, SupervisorMoves, With, RotationTypeOK, Stages
<1>6. QED
  BY <1>1, <1>2, <1>3, <1>4, <1>5 DEF BotStep

-----------------------------------------------------------------------------
(* The steps of a pass.                                                    *)

\* Spawning supervisors keeps their type.
LEMMA SpawnedTyped ==
    ASSUME RotationTypeOK, NEW S \in SUBSET Symbols, Spawned(S)
    PROVE  active' \subseteq Symbols /\ sup' \in [Symbols -> Stages]
BY DEF RotationTypeOK, Spawned, Stages

\* The steps of the manager outside a flatten keep the types.
LEMMA TypingPass ==
    ASSUME RotationTypeOK,
           Discover \/ Adopt \/ FillSlots \/ \E s \in Symbols : Defer(s) \/ RotateOut(s)
    PROVE  RotationTypeOK'
<1> USE DEF venueVars, botVars, passVars, flattenVars
<1>1. CASE Discover \/ \E s \in Symbols : Defer(s) \/ RotateOut(s)
  BY <1>1 DEF Discover, Defer, RotateOut, RotationTypeOK
<1>2. CASE Adopt
  <2>1. active' \subseteq Symbols /\ sup' \in [Symbols -> Stages]
    <3>1. PICK S \in {Orphans, {}} : Spawned(S)
      BY <1>2 DEF Adopt
    <3>2. S \in SUBSET Symbols
      BY <3>1 DEF Orphans, RotationTypeOK
    <3>3. QED
      BY <3>1, <3>2, SpawnedTyped
  <2>2. faults' \in 0..MaxFaults
    BY <1>2, RotationAssumption DEF Adopt, Fault, RotationTypeOK
  <2>3. QED
    BY <1>2, <2>1, <2>2 DEF Adopt, RotationTypeOK
<1>3. CASE FillSlots
  <2>1. PICK S \in SUBSET (qualifying \ active) : Spawned(S)
    BY <1>3 DEF FillSlots
  <2>2. active' \subseteq Symbols /\ sup' \in [Symbols -> Stages]
    BY <2>1, SpawnedTyped DEF RotationTypeOK
  <2>3. QED
    BY <1>3, <2>2 DEF FillSlots, RotationTypeOK
<1>4. QED
  BY <1>1, <1>2, <1>3

\* The steps of a rotation keep the types.
LEMMA TypingRotate ==
    ASSUME RotationTypeOK, Tasks, Rotate
    PROVE  RotationTypeOK'
<1> USE DEF venueVars, botVars, passVars, flattenVars
<1>1. CASE Stopped \/ StopTimesOut
  <2>1. target \in Symbols
    BY <1>1 DEF Tasks, Leaving, Stopped, StopTimesOut
  <2>2. QED
    BY <1>1, <2>1 DEF Stopped, StopTimesOut, StartsFlatten, RotationTypeOK, Flattening, Stages
<1>2. CASE Flatten
  <2>1. target \in Symbols
    BY <1>2 DEF Tasks, Leaving, Flattening, Flatten, BuildVenue, CancelAll, Look, PlaceLimit,
                AfterTenSeconds, Sweep, MarketClose, FlattenMoves
  <2>2. faults' \in 0..MaxFaults
    BY <1>2, RotationAssumption
    DEF Flatten, BuildVenue, CancelAll, Look, PlaceLimit, AfterTenSeconds, Sweep, MarketClose,
        Going, Failed, Fault, RotationTypeOK
  <2>3. CASE BuildVenue \/ Look \/ AfterTenSeconds
    BY <2>2, <2>3 DEF BuildVenue, Look, AfterTenSeconds, FlattenMoves, Going, Failed, Limited,
                      Closing, RotationTypeOK, Flattening
  <2>4. CASE CancelAll \/ PlaceLimit \/ Sweep
    BY <2>1, <2>2, <2>4 DEF CancelAll, PlaceLimit, Sweep, FlattenMoves, Going, Failed, With,
                            RotationTypeOK, Flattening
  <2>5. CASE MarketClose
    BY <2>1, <2>2, <2>5 DEF MarketClose, FlattenMoves, Going, Failed, RotationTypeOK, Flattening
  <2>6. QED
    BY <1>2, <2>3, <2>4, <2>5 DEF Flatten
<1>3. CASE Release
  BY <1>3 DEF Release, RotationTypeOK
<1>4. CASE Respawn
  <2>1. target \in Symbols
    BY <1>4 DEF Tasks, Leaving, Flattening, Respawn
  <2>2. active' \subseteq Symbols /\ sup' \in [Symbols -> Stages]
    BY <1>4, <2>1, SpawnedTyped DEF Respawn
  <2>3. QED
    BY <1>4, <2>2 DEF Respawn, RotationTypeOK
<1>5. QED
  BY <1>1, <1>2, <1>3, <1>4 DEF Rotate

-----------------------------------------------------------------------------
(* The invariant.                                                          *)

LeavingVars == <<phase, target, active, ok, side, spoiled>>

\* The venue moves a symbol: an order that rests is what closes it.
LEMMA CleanVenue ==
    ASSUME Inv, NEW s \in Symbols, FillBot(s) \/ FillClose(s)
    PROVE  Clean'
<1>0. UNCHANGED <<LeavingVars, zombie>>
  BY DEF FillBot, FillClose, LeavingVars, botVars, passVars, flattenVars
<1>1. phase \in Flattening => target \in Symbols
  BY DEF Inv, Tasks, Leaving
<1>2. CASE s # target
  <2>1. phase \in Flattening => orders'[target] = orders[target] /\ pos'[target] = pos[target]
    BY <1>1, <1>2 DEF Inv, RotationTypeOK, FillBot, FillClose, Without
  <2>2. QED
    BY <1>0, <2>1 DEF Inv, Clean, Closed, Resting, LeavingVars
<1>3. CASE s = target
  <2> SUFFICES ASSUME phase \in Flattening, ok = "yes", spoiled = "no"
               PROVE  Clean'
    BY <1>0 DEF Clean, LeavingVars
  <2>1. CASE phase \in {"build", "cancel"}
    BY <1>0, <2>1 DEF Inv, Clean, LeavingVars
  <2>2. CASE phase \in {"look", "limit", "market", "verdict"} \/ Closed
    <3>1. orders[s] = {}
      BY <1>3, <2>2 DEF Inv, Clean, Closed
    <3>2. QED
      BY <3>1 DEF FillBot, FillClose
  <2>3. CASE Resting /\ phase \in {"wait", "sweep"}
    <3>1. side \in {"sell", "buy"} /\ side # "bot"
      BY DEF Inv, RotationTypeOK
    <3>2. orders[s] = {side} /\ pos[s] = -Sign(side)
      BY <1>3, <2>3 DEF Resting
    <3>3. FillClose(s) /\ orders' = Without(orders, s, side)
          /\ pos' = [pos EXCEPT ![s] = @ + Sign(side)]
      BY <3>1, <3>2 DEF FillBot, FillClose
    <3>4. orders'[s] = {}
      BY <3>2, <3>3 DEF Without, Inv, RotationTypeOK
    <3>5. pos'[s] = -Sign(side) + Sign(side) /\ Sign(side) \in Int
      BY <3>2, <3>3 DEF Inv, RotationTypeOK, Sign
    <3>6. pos'[s] = 0
      BY <3>5
    <3>7. Closed'
      BY <1>0, <1>3, <3>4, <3>6 DEF Closed, LeavingVars
    <3>8. QED
      BY <1>0, <2>3, <3>7 DEF Clean, Inv, LeavingVars
  <2>4. QED
    BY <2>1, <2>2, <2>3 DEF Inv, Clean, Flattening
<1>4. QED
  BY <1>2, <1>3

\* A step of the tasks of s keeps the rules about which of them live.
LEMMA TasksBot ==
    ASSUME Inv, NEW s \in Symbols, BotStep(s)
    PROVE  Tasks'
<1>1. UNCHANGED <<phase, target, active>>
  BY DEF BotStep, PassGate, BootCancel, BootStart, BootFails, Retry, Quit, PassStop, Begin,
         Finish, RunnerEnds, RunnerStops, RunnerAborted, ZombieActs, SupervisorMoves, passVars
<1>2. /\ \A t \in Symbols \ {s} : sup'[t] = sup[t] /\ runner'[t] = runner[t]
      /\ sup'[s] # "none" => sup[s] # "none"
      /\ runner'[s] # "none" => sup'[s] \in {"watch", "stopping"}
  <2> USE DEF Inv, RotationTypeOK, Tasks, botVars, venueVars
  <2>1. CASE PassGate(s) \/ BootStart(s) \/ Retry(s) \/ Quit(s) \/ PassStop(s) \/ RunnerStops(s)
    BY <2>1 DEF PassGate, BootStart, Retry, Quit, PassStop, RunnerStops, SupervisorMoves
  <2>2. CASE BootCancel(s) \/ BootFails(s) \/ RunnerAborted(s)
    BY <2>2 DEF BootCancel, BootFails, RunnerAborted, SupervisorMoves
  <2>3. CASE Begin(s) \/ RunnerEnds(s) \/ Finish(s) \/ ZombieActs(s)
    BY <2>3 DEF Begin, RunnerEnds, Finish, ZombieActs
  <2>4. QED
    BY <2>1, <2>2, <2>3 DEF BotStep
<1>3. QED
  BY <1>1, <1>2 DEF Inv, Tasks, Told, Leaving

\* It leaves a symbol whose tasks are gone alone.
LEMMA CleanBot ==
    ASSUME Inv, NEW s \in Symbols, BotStep(s)
    PROVE  Clean'
<1>1. UNCHANGED <<LeavingVars, pos>>
  BY DEF BotStep, PassGate, BootCancel, BootStart, BootFails, Retry, Quit, PassStop, Begin,
         Finish, RunnerEnds, RunnerStops, RunnerAborted, ZombieActs, SupervisorMoves,
         passVars, flattenVars, venueVars, LeavingVars
<1>2. SUFFICES ASSUME phase \in Flattening, ok = "yes", spoiled = "no"
               PROVE  orders'[target] = orders[target] /\ zombie'[target] = zombie[target]
  BY <1>1 DEF Inv, Clean, Closed, Resting, LeavingVars
<1>3. target \in Symbols /\ target \notin active /\ ~Told(target)
  BY <1>2 DEF Inv, Tasks, Leaving, Told, Flattening
<1>4. sup[target] = "none" /\ runner[target] = "none" /\ zombie[target] = "none"
  BY <1>2, <1>3 DEF Inv, Tasks, Clean
<1>5. s # target
  BY <1>4 DEF BotStep, PassGate, BootCancel, BootStart, BootFails, Retry, Quit, PassStop, Begin,
              Finish, RunnerEnds, RunnerStops, RunnerAborted, ZombieActs, SupervisorMoves
<1>6. zombie'[target] = zombie[target]
  BY <1>3, <1>5
  DEF BotStep, PassGate, BootCancel, BootStart, BootFails, Retry, Quit, PassStop, Begin,
      Finish, RunnerEnds, RunnerStops, RunnerAborted, ZombieActs, botVars, Inv, RotationTypeOK
<1>7. CASE Finish(s) \/ ZombieActs(s)
  BY <1>3, <1>5, <1>6, <1>7, HandledTyped DEF Finish, ZombieActs, Inv
<1>8. CASE ~(Finish(s) \/ ZombieActs(s))
  BY <1>3, <1>5, <1>6, <1>8
  DEF BotStep, PassGate, BootCancel, BootStart, BootFails, Retry, Quit, PassStop, Begin,
      RunnerEnds, RunnerStops, RunnerAborted, With, venueVars, Inv, RotationTypeOK
<1>9. QED
  BY <1>7, <1>8

\* Outside a rotation nothing is claimed of a symbol but that its tasks belong.
LEMMA InvPass ==
    ASSUME Inv,
           Discover \/ Adopt \/ FillSlots \/ \E s \in Symbols : Defer(s) \/ RotateOut(s)
    PROVE  Tasks' /\ Clean'
<1>1. phase' \notin Flattening
  BY DEF Discover, Adopt, Defer, RotateOut, FillSlots, Flattening
<1>2. Clean'
  BY <1>1 DEF Clean
<1>3. CASE Discover \/ \E s \in Symbols : Defer(s) \/ RotateOut(s)
  <2>1. Tasks'
    BY <1>3 DEF Discover, Defer, RotateOut, Inv, Tasks, Told, Leaving, Flattening, botVars, RotationTypeOK
  <2>2. QED
    BY <1>2, <2>1
<1>4. ASSUME NEW S \in SUBSET (Symbols \ active), Spawned(S), UNCHANGED runner,
             phase \in {"adopt", "teardown"}, phase' \in {"teardown", "idle"}
      PROVE  Tasks'
  <2>1. \A t \in Symbols \ active : sup[t] = "none" /\ runner[t] = "none"
    BY <1>4 DEF Inv, Tasks, Told
  <2>2. \A t \in Symbols : sup'[t] = IF t \in S THEN "gate" ELSE sup[t]
    BY <1>4 DEF Spawned
  <2>3. QED
    BY <1>4, <2>1, <2>2 DEF Spawned, Inv, Tasks, Told, Leaving, Flattening
<1>5. CASE Adopt
  <2>1. PICK S \in {Orphans, {}} : Spawned(S)
    BY <1>5 DEF Adopt
  <2>2. S \in SUBSET (Symbols \ active)
    BY <2>1 DEF Orphans, Inv, RotationTypeOK
  <2>3. Tasks'
    BY <1>4, <1>5, <2>1, <2>2 DEF Adopt
  <2>4. QED
    BY <1>2, <2>3
<1>6. CASE FillSlots
  <2>1. PICK S \in SUBSET (qualifying \ active) : Spawned(S)
    BY <1>6 DEF FillSlots
  <2>2. S \in SUBSET (Symbols \ active)
    BY <2>1 DEF Inv, RotationTypeOK
  <2>3. Tasks'
    BY <1>4, <1>6, <2>1, <2>2 DEF FillSlots
  <2>4. QED
    BY <1>2, <2>3
<1>7. QED
  BY <1>2, <1>3, <1>5, <1>6

\* A rotation stops the bot before it flattens, and learns or does at each call
\* what Clean says, or notes that it did not.
LEMMA InvRotate ==
    ASSUME Inv, Rotate
    PROVE  Tasks' /\ Clean'
<1> USE DEF venueVars, botVars, passVars, flattenVars
<1>1. CASE Stopped \/ StopTimesOut
  <2>1. target \in Symbols /\ target \notin active /\ phase = "stop" /\ phase' = "build"
        /\ UNCHANGED <<target, active>>
    BY <1>1 DEF Stopped, StopTimesOut, StartsFlatten, Inv, Tasks, Leaving
  <2>2. /\ sup'[target] = "none" /\ runner'[target] = "none"
        /\ \A t \in Symbols \ {target} : sup'[t] = sup[t] /\ runner'[t] = runner[t]
    BY <1>1, <2>1 DEF Stopped, StopTimesOut, Inv, RotationTypeOK, Tasks
  <2>3. Tasks'
    BY <2>1, <2>2 DEF Inv, Tasks, Told, Leaving, Flattening
  <2>4. spoiled' = "no" => zombie'[target] = "none"
    BY <1>1, <2>1, TypingRotate DEF Stopped, StopTimesOut, StartsFlatten, Rotate, Inv, RotationTypeOK
  <2>5. QED
    BY <2>1, <2>3, <2>4 DEF Clean
<1>2. CASE Flatten
  <2>1. /\ phase \in Flattening \ {"verdict"} /\ phase' \in Flattening
        /\ UNCHANGED <<target, active, sup, runner, zombie>>
    BY <1>2 DEF Flatten, BuildVenue, CancelAll, Look, PlaceLimit, AfterTenSeconds, Sweep,
                MarketClose, FlattenMoves, Flattening
  <2>2. Tasks'
    BY <2>1 DEF Inv, Tasks, Told, Leaving, Flattening
  <2>3. SUFFICES ASSUME ok' = "yes", spoiled' = "no"
                 PROVE  Clean'
    BY <2>2 DEF Clean
  <2>4. ok = "yes" /\ spoiled = "no"
    BY <1>2, <2>3 DEF Flatten, BuildVenue, CancelAll, Look, PlaceLimit, AfterTenSeconds, Sweep,
                      MarketClose, FlattenMoves, Going, Failed, Fault, Inv, RotationTypeOK
  <2>5. target \in Symbols /\ zombie[target] = "none"
    BY <2>1, <2>4 DEF Inv, Clean, Tasks, Leaving
  <2>6. CASE BuildVenue
    BY <2>1, <2>3, <2>5, <2>6 DEF BuildVenue, FlattenMoves, Failed, Clean
  <2>7. CASE CancelAll
    BY <2>1, <2>3, <2>5, <2>7 DEF CancelAll, FlattenMoves, Failed, Clean, Inv, RotationTypeOK
  <2>8. CASE Look
    <3>1. phase = "look" /\ orders[target] = {} /\ UNCHANGED <<orders, pos>>
      BY <2>1, <2>4, <2>8 DEF Look, FlattenMoves, Inv, Clean
    <3>2. \/ phase' = "verdict" /\ pos[target] = 0
          \/ phase' \in {"limit", "market"} /\ pos[target] # 0 /\ side' = Closing(pos[target])
      BY <2>3, <2>8 DEF Look, FlattenMoves, Failed
    <3>3. pos[target] \in {-1, 0, 1}
      BY <2>5 DEF Inv, RotationTypeOK
    <3>4. phase' \in {"limit", "market"} => pos[target] = -Sign(side')
      BY <3>2, <3>3 DEF Closing, Sign
    <3>5. QED
      BY <2>1, <2>5, <3>1, <3>2, <3>4 DEF Clean, Closed, Sign
  <2>9. CASE PlaceLimit
    <3>1. phase = "limit" /\ orders[target] = {} /\ pos[target] = -Sign(side)
          /\ UNCHANGED <<pos, side>>
      BY <2>1, <2>4, <2>9 DEF PlaceLimit, FlattenMoves, Inv, Clean
    <3>2. \/ phase' = "wait" /\ orders' = With(orders, target, side)
          \/ phase' = "market" /\ orders' = orders
      BY <2>3, <2>9 DEF PlaceLimit, FlattenMoves
    <3>3. phase' = "wait" => orders'[target] = {side}
      BY <2>5, <3>1, <3>2 DEF With, Inv, RotationTypeOK
    <3>4. phase' = "wait" => Resting'
      BY <2>1, <3>1, <3>3 DEF Resting, Sign
    <3>5. QED
      BY <2>1, <2>5, <3>1, <3>2, <3>4 DEF Clean
  <2>10. CASE AfterTenSeconds
    <3>1. phase = "wait" /\ (Resting \/ Closed) /\ UNCHANGED <<pos, orders, side>>
      BY <2>1, <2>4, <2>10 DEF AfterTenSeconds, FlattenMoves, Inv, Clean
    <3>2. \/ phase' = "verdict" /\ pos[target] = 0
          \/ phase' = "sweep"
      BY <2>3, <2>10 DEF AfterTenSeconds, FlattenMoves, Failed
    <3>3. pos[target] = 0 => Closed
      BY <3>1 DEF Resting, Sign
    <3>4. (Resting => Resting') /\ (Closed => Closed')
      BY <2>1, <3>1 DEF Resting, Closed, Sign
    <3>5. QED
      BY <2>1, <2>5, <3>1, <3>2, <3>3, <3>4 DEF Clean
  <2>11. CASE Sweep
    BY <2>1, <2>3, <2>5, <2>11 DEF Sweep, FlattenMoves, Clean, Inv, RotationTypeOK
  <2>12. CASE MarketClose
    <3>1. phase = "market" /\ orders[target] = {} /\ phase' = "verdict" /\ UNCHANGED orders
      BY <2>1, <2>4, <2>12 DEF MarketClose, FlattenMoves, Inv, Clean
    <3>2. pos'[target] = 0
      BY <2>3, <2>5, <2>12 DEF MarketClose, Failed, Inv, RotationTypeOK
    <3>3. QED
      BY <2>1, <2>5, <3>1, <3>2 DEF Clean, Closed
  <2>13. QED
    BY <1>2, <2>6, <2>7, <2>8, <2>9, <2>10, <2>11, <2>12 DEF Flatten
<1>3. CASE Release \/ Respawn
  <2>1. phase = "verdict" /\ phase' = "teardown" /\ UNCHANGED runner
    BY <1>3 DEF Release, Respawn
  <2>2. target \in Symbols /\ target \notin active
    BY <2>1 DEF Inv, Tasks, Leaving, Flattening
  <2>3. \A t \in Symbols : sup[t] # "none" => t \in active
    BY <2>1 DEF Inv, Tasks, Told
  <2>4. CASE Release
    BY <2>1, <2>3, <2>4 DEF Release, Inv, Tasks, Told, Leaving, Flattening, Clean
  <2>5. CASE Respawn
    <3>1. \A t \in Symbols : sup'[t] = IF t = target THEN "gate" ELSE sup[t]
      BY <2>5 DEF Respawn, Spawned
    <3>2. active' = active \cup {target}
      BY <2>5 DEF Respawn, Spawned
    <3>3. QED
      BY <2>1, <2>2, <2>3, <3>1, <3>2 DEF Inv, Tasks, Told, Leaving, Flattening, Clean
  <2>6. QED
    BY <1>3, <2>4, <2>5
<1>4. QED
  BY <1>1, <1>2, <1>3 DEF Rotate

\* Every step keeps the invariant.
LEMMA InvStep ==
    ASSUME Inv, [RotationNext]_rotationVars
    PROVE  Inv'
<1>1. CASE UNCHANGED rotationVars
  BY <1>1 DEF rotationVars, venueVars, botVars, passVars, flattenVars, Inv, RotationTypeOK, Tasks, Told, Leaving,
              Clean, Closed, Resting
<1>2. CASE Rotate
  BY <1>2, TypingRotate, InvRotate DEF Inv
<1>3. CASE RateLimit \/ GateClears
  <2>1. UNCHANGED <<venueVars, botVars, phase, target, passVars, flattenVars>>
    BY <1>3 DEF RateLimit, GateClears
  <2>2. Tasks' /\ Clean'
    BY <2>1 DEF venueVars, botVars, passVars, flattenVars, Inv, Tasks, Told, Leaving, Clean,
                Closed, Resting
  <2>3. QED
    BY <1>3, <2>2, TypingVenue DEF Inv
<1>4. ASSUME NEW s \in Symbols, FillBot(s) \/ FillClose(s)
      PROVE  Inv'
  <2>1. UNCHANGED <<botVars, phase, target, passVars>>
    BY <1>4 DEF FillBot, FillClose
  <2>2. Tasks'
    BY <2>1 DEF botVars, passVars, Inv, Tasks, Told, Leaving
  <2>3. QED
    BY <1>4, <2>2, TypingVenue, CleanVenue DEF Inv
<1>5. ASSUME NEW s \in Symbols, BotStep(s)
      PROVE  Inv'
  BY <1>5, TypingBot, TasksBot, CleanBot DEF Inv
<1>6. CASE Discover \/ Adopt \/ FillSlots \/ \E s \in Symbols : Defer(s) \/ RotateOut(s)
  BY <1>6, TypingPass, InvPass DEF Inv
<1>7. QED
  BY <1>1, <1>2, <1>3, <1>4, <1>5, <1>6 DEF RotationNext, Pass

\* The process starts within it.
LEMMA InvInit == RotationInit => Inv
<1> SUFFICES ASSUME RotationInit PROVE Inv
  OBVIOUS
<1>1. RotationTypeOK
  BY RotationAssumption DEF RotationInit, RotationTypeOK, Stages
<1>2. Tasks /\ Clean
  BY DEF RotationInit, Tasks, Told, Leaving, Clean, Flattening
<1>3. QED
  BY <1>1, <1>2 DEF Inv

-----------------------------------------------------------------------------
(* The theorems.                                                           *)

\* Every state has the types RotationTypeOK states (all of the manager, supervisor and
\* runner handlers).
THEOREM RotationTyping == RotationSpec => []RotationTypeOK
<1>1. Inv => RotationTypeOK
  BY DEF Inv
<1>2. QED
  BY <1>1, InvInit, InvStep, PTL DEF RotationSpec

\* No symbol ever has two supervisors: a bot is put on a symbol only where none
\* lives, whatever made the manager forget the one before (stop_bot aborts and
\* reaps the supervisor of a bot that does not stop in time).
THEOREM NeverTwo == RotationSpec => OneSupervisor
<1>1. Inv /\ [RotationNext]_rotationVars => [\A s \in Symbols : s \in active' \ active => sup[s] = "none"]_rotationVars
  <2> SUFFICES ASSUME Inv, RotationNext, NEW s \in Symbols, s \in active' \ active
               PROVE  sup[s] = "none"
    OBVIOUS
  <2>1. Adopt \/ FillSlots \/ Respawn
    <3>1. ~(\E t \in Symbols : BotStep(t) \/ FillBot(t) \/ FillClose(t))
      BY DEF BotStep, PassGate, BootCancel, BootStart, BootFails, Retry, Quit, PassStop, Begin,
             Finish, RunnerEnds, RunnerStops, RunnerAborted, ZombieActs, SupervisorMoves,
             FillBot, FillClose, passVars
    <3>2. ~(Discover \/ RateLimit \/ GateClears \/ \E t \in Symbols : Defer(t) \/ RotateOut(t))
      BY DEF Discover, RateLimit, GateClears, Defer, RotateOut, passVars
    <3>3. ~(Stopped \/ StopTimesOut \/ Flatten \/ Release)
      BY DEF Stopped, StopTimesOut, StartsFlatten, Flatten, BuildVenue, CancelAll, Look, PlaceLimit,
             AfterTenSeconds, Sweep, MarketClose, FlattenMoves, Release, passVars
    <3>4. QED
      BY <3>1, <3>2, <3>3 DEF RotationNext, Pass, Rotate
  <2>2. phase # "stop"
    BY <2>1 DEF Adopt, FillSlots, Respawn
  <2>3. QED
    BY <2>2 DEF Inv, Tasks, Told
<1>2. QED
  BY <1>1, InvInit, InvStep, PTL DEF RotationSpec, OneSupervisor

\* A flatten that reports success and did not ignore an answer has closed the
\* position and left no order, however many of its calls failed.
THEOREM Clear == RotationSpec => []ReleasedClean
<1>1. Inv => ReleasedClean
  BY DEF Inv, Clean, Closed, Flattening, ReleasedClean
<1>2. QED
  BY <1>1, InvInit, InvStep, PTL DEF RotationSpec
=============================================================================
