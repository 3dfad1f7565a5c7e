------------------------------- MODULE Feeds --------------------------------
(***************************************************************************)
(* The streams a bot lives on: books, prints, marks and liquidations, and  *)
(* the account's own fills.  Each is a pump task that reads a WebSocket,   *)
(* reconnects for ever when it drops, and hands events over a channel; the *)
(* live Binance feeds put an adapter task between the channel and the      *)
(* runner, and the futures fill stream a keepalive task beside the pump.   *)
(* A behaviour follows one stream of one of the Streams.                   *)
(*                                                                         *)
(* The backoff between two attempts, pings and the frames nobody parses    *)
(* change nothing that is said here and are left out.                      *)
(***************************************************************************)
EXTENDS Integers, Sequences, FiniteSets, SequencesExt

CONSTANTS Streams,   \* which streams: a subset of Books \cup Prints \cup Fills
          Levels,    \* price levels a book may have
          MaxMoves,  \* bound on what the venue publishes
          MaxDrops,  \* bound on the disconnects
          MaxKeys,   \* bound on the listenKeys minted
          Room       \* capacity of the bounded channels (256, 512, 1024)

Books == {"depth", "bybitDepth", "hyper"}
Prints == {"trades", "mark", "liquidations", "bybitTrades"}
Fills == {"futures", "spot", "hyperFills"}

ASSUME FeedAssumption ==
    /\ Streams \subseteq Books \cup Prints \cup Fills
    /\ Room \in Nat \ {0} /\ MaxKeys \in Nat \ {0} /\ MaxMoves \in Nat \ {0} /\ MaxDrops \in Nat

VARIABLES stream,
          market,    \* everything the venue published: its books, or one entry per print
          wire, up,  \* the frames in the socket; whether the venue still holds its end
          drops,
          pump,      \* the pump task: "gate", "read", "send", "sleep", "open", "done"
          book,      \* its own copy of the levels (Bybit)
          held,      \* the event whose send is awaited
          last,      \* ghost: the newest event it made
          queue,     \* the channel
          relay,     \* the adapter task runs
          tail,      \* what it passed on: a watch's unseen value, or the second channel
          gone,      \* the consumer dropped its end
          seen,      \* the newest event the consumer took
          keys,      \* listenKeys minted; the newest is the shared key once stored
          shared, sock,   \* the key the keepalive renews, the key the socket is on
          age,       \* per key: keepalive periods since it was minted or renewed
          putting,   \* the key of the PUT in progress, 0: the keepalive waits, -1: it ended
          late,      \* a tick fell due while the PUT was open: the next one comes at once
          missed,    \* ghost, of the shared key since it was last renewed: the PUTs that
                     \* failed, and the periods that began with one still open
          signal     \* the shutdown watch: "none", "live", "sent", "dropped"

pipe == <<wire, up, drops, pump, book, held, last, queue>>
hand == <<relay, tail, gone, seen>>
lease == <<keys, shared, sock, age, putting, late, missed>>
vars == <<stream, market, pipe, hand, lease, signal>>

Hour == 3   \* periods of 20 minutes a listenKey lives without a renewal

Event == [v : 0..MaxMoves, book : SUBSET Levels]
Nothing == [v |-> 0, book |-> {}]

TypeOK ==
    /\ stream \in Streams /\ market \in Seq(SUBSET Levels) /\ up \in BOOLEAN
    /\ pump \in {"gate", "read", "send", "sleep", "open", "done"}
    /\ book \subseteq Levels /\ held \in Event /\ last \in Event /\ seen \in Event
    /\ queue \in Seq(Event) /\ tail \in Seq(Event)
    /\ relay \in BOOLEAN /\ gone \in BOOLEAN
    /\ keys \in 0..MaxKeys /\ shared \in 0..keys /\ sock \in 0..keys
    /\ age \in [1..MaxKeys -> 0..Hour] /\ putting \in -1..keys
    /\ late \in BOOLEAN /\ missed \in 0..Hour
    /\ signal \in {"none", "live", "sent", "dropped"}
-----------------------------------------------------------------------------
(* The venue (external). *)

Frame(v, full, b, gone_) == [v |-> v, full |-> full, book |-> b, gone |-> gone_]

\* What a new subscription starts with: the whole book, for a stream of books.
Greeting == IF stream \in Books THEN <<Frame(Len(market), TRUE, Last(market), {})>> ELSE <<>>

\* A user-data socket whose key expired stays open and says nothing.
Speaks == up /\ (stream = "futures" => age[sock] < Hour)

\* The market moves.  Bybit sends what changed, and now and then the whole
\* book again; the others send whole books; a print has no book.
Move ==
    /\ Len(market) < MaxMoves
    /\ \E b \in (IF stream \in Books THEN (SUBSET Levels) \ {Last(market)} ELSE {{}}),
          full \in (IF stream = "bybitDepth" THEN BOOLEAN ELSE {TRUE}) :
        LET old == Last(market) IN
        /\ market' = Append(market, b)
        /\ wire' = IF ~Speaks THEN wire
                   ELSE Append(wire, IF full THEN Frame(Len(market) + 1, TRUE, b, {})
                                     ELSE Frame(Len(market) + 1, FALSE, b \ old, old \ b))
    /\ UNCHANGED <<stream, up, drops, pump, book, held, last, queue, hand, lease, signal>>

\* The connection drops; what already arrived may still be read.
Disconnect ==
    /\ up /\ drops < MaxDrops /\ pump # "done"
    /\ up' = FALSE /\ drops' = drops + 1
    /\ \E n \in 0..Len(wire) : wire' = SubSeq(wire, 1, n)
    /\ UNCHANGED <<stream, market, pump, book, held, last, queue, hand, lease, signal>>
-----------------------------------------------------------------------------
(* The pumps: one frame read, one event sent. *)

Reading(s) == stream = s /\ pump = "read" /\ wire # <<>>

Emit(b, v) ==
    /\ wire' = Tail(wire)
    /\ held' = [v |-> v, book |-> b] /\ last' = held'
    /\ pump' = "send"
    /\ UNCHANGED <<stream, market, up, drops, queue, hand, lease, signal>>

Whole == Emit(Head(wire).book, Head(wire).v) /\ book' = book

ReadDepth == Reading("depth") /\ Whole
ReadTrade == Reading("trades") /\ Whole
ReadMark == Reading("mark") /\ Whole
ReadLiquidation == Reading("liquidations") /\ Whole
ReadBybitTrade == Reading("bybitTrades") /\ Whole
ReadHyper == Reading("hyper") /\ Whole

\* Bug: a snapshot is applied like a delta, without clearing the book.
AppliedUncleared(b, f) == (b \cup f.book) \ f.gone

\* The Bybit pump keeps the book and sends all of it with every frame.
Applied(b, f) == ((IF f.full THEN {} ELSE b) \cup f.book) \ f.gone

ReadBybit ==
    /\ Reading("bybitDepth")
    /\ book' = Applied(book, Head(wire))
    /\ Emit(book', Head(wire).v)

\* Fills go over an unbounded channel: the send never waits.
Filled(s) ==
    /\ Reading(s)
    /\ IF gone THEN pump' = "done" /\ queue' = queue
       ELSE pump' = pump /\ queue' = Append(queue, [v |-> Head(wire).v, book |-> {}])
    /\ last' = [v |-> Head(wire).v, book |-> {}]
    /\ wire' = Tail(wire)
    /\ UNCHANGED <<stream, market, up, drops, book, held, hand, lease, signal>>

ReadFill == Filled("futures")
ReadSpotFill == Filled("spot")
ReadHyperFill == Filled("hyperFills")

\* Hyperliquid's subscribe returns only after the first frame; it fails if
\* the socket closes before.
FirstData ==
    /\ stream = "hyper" /\ pump = "gate" /\ wire # <<>>
    /\ wire' = Tail(wire)
    /\ last' = [v |-> Head(wire).v, book |-> Head(wire).book]
    /\ queue' = Append(queue, last') /\ pump' = "read"
    /\ UNCHANGED <<stream, market, up, drops, book, held, hand, lease, signal>>

\* Hyperliquid's synthesized heartbeat is an event of its own.
Beat ==
    /\ stream = "hyper" /\ pump = "read"
    /\ held' = Nothing /\ pump' = "send"
    /\ UNCHANGED <<stream, market, wire, up, drops, book, last, queue, hand, lease, signal>>

Adapted == stream \in {"depth", "trades", "liquidations"}
ReceiverGone == IF Adapted THEN ~relay ELSE gone

\* The awaited send: it waits for room, and ends the pump if nobody receives.
Sent ==
    /\ pump = "send"
    /\ IF ReceiverGone THEN pump' = "done" /\ queue' = queue
       ELSE Len(queue) < Room /\ queue' = Append(queue, held) /\ pump' = "read"
    /\ UNCHANGED <<stream, market, wire, up, drops, book, held, last, hand, lease, signal>>

\* The end of the socket's stream; before the first frame, subscribe's error.
Lost ==
    /\ pump \in {"gate", "read"} /\ wire = <<>> /\ ~up
    /\ pump' = IF pump = "gate" THEN "done" ELSE "sleep"
    /\ book' = {}
    /\ UNCHANGED <<stream, market, wire, up, drops, held, last, queue, hand, lease, signal>>

\* An attempt that succeeds; one that fails sleeps again and changes nothing.
Opened ==
    /\ up' = TRUE /\ wire' = Greeting /\ pump' = "read"
    /\ UNCHANGED <<stream, market, drops, book, held, last, queue, hand, signal>>

Reopens(s) == stream = s /\ pump = "sleep" /\ Opened /\ UNCHANGED lease
ReopenDepth == Reopens("depth")
ReopenTrade == Reopens("trades")
ReopenMark == Reopens("mark")
ReopenLiquidation == Reopens("liquidations")
ReopenBybit == Reopens("bybitDepth")
ReopenBybitTrade == Reopens("bybitTrades")
ReopenHyper == Reopens("hyper")
ReopenHyperFills == Reopens("hyperFills")
ReopenSpot == Reopens("spot")
-----------------------------------------------------------------------------
(* The futures fill stream: its listenKey, keepalive task and shutdown. *)

\* Bug: the keepalive task is not told of the new key.
SharedNever(k) == shared' = shared

\* reconnect_user_data stores the key it minted before it opens the socket.
Shared(k) == shared' = k

Mint ==
    /\ stream = "futures" /\ pump = "sleep" /\ keys < MaxKeys
    /\ keys' = keys + 1 /\ Shared(keys + 1)
    /\ age' = [age EXCEPT ![keys + 1] = 0]
    /\ missed' = 0 /\ pump' = "open"
    /\ UNCHANGED <<stream, market, wire, up, drops, book, held, last, queue, hand,
                   sock, putting, late, signal>>

ReopenFills ==
    /\ stream = "futures" /\ pump = "open"
    /\ \/ Opened /\ sock' = keys
       \/ /\ pump' = "sleep"
          /\ UNCHANGED <<stream, market, wire, up, drops, book, held, last, queue, hand, sock, signal>>
    /\ UNCHANGED <<keys, shared, age, putting, late, missed>>

Older == [k \in 1..MaxKeys |-> IF k <= keys /\ age[k] < Hour THEN age[k] + 1 ELSE age[k]]
More(n) == IF n < Hour THEN n + 1 ELSE n

\* Twenty minutes pass: the keepalive reads the shared key and sends a PUT.
\* A tick missed during the PUT before comes at once (MissedTickBehavior::Skip).
KeepAlive ==
    /\ stream = "futures" /\ putting = 0
    /\ age' = IF late THEN age ELSE Older
    /\ putting' = shared /\ late' = FALSE
    /\ UNCHANGED <<stream, market, pipe, hand, keys, shared, sock, missed, signal>>

\* The client has no timeout: twenty minutes may pass inside the PUT, which
\* the select! arm awaits.
PutHangs ==
    /\ putting > 0
    /\ age' = Older /\ missed' = More(missed) /\ late' = TRUE
    /\ UNCHANGED <<stream, market, pipe, hand, keys, shared, sock, putting, signal>>

\* The PUT succeeds on a key that still lives, or fails and is only logged.
\* It may be for a key that a reconnect has replaced since.
Renew ==
    /\ putting > 0 /\ age[putting] < Hour
    /\ age' = [age EXCEPT ![putting] = 0] /\ putting' = 0
    /\ missed' = IF putting = shared THEN 0 ELSE missed
    /\ UNCHANGED <<stream, market, pipe, hand, keys, shared, sock, late, signal>>

Miss ==
    /\ putting > 0
    /\ putting' = 0 /\ missed' = IF putting = shared THEN More(missed) ELSE missed
    /\ UNCHANGED <<stream, market, pipe, hand, keys, shared, sock, age, late, signal>>

\* The supervisor ends the streams of a bot that ended, ...
Shutdown ==
    /\ signal = "live" /\ signal' = "sent"
    /\ UNCHANGED <<stream, market, pipe, hand, lease>>

\* ... but a spawn that fails after subscribing drops sender and receiver.
SpawnFails ==
    /\ signal = "live" /\ ~gone
    /\ signal' = "dropped" /\ gone' = TRUE
    /\ UNCHANGED <<stream, market, pipe, relay, tail, seen, lease>>

\* Bug: a signal raised while the pump reconnects is forgotten.
HeardAwake == signal = "sent" /\ drops = 0

\* select! sees the signal between two frames, never while reconnecting and
\* never inside a PUT.
Heard == signal = "sent"

PumpStops ==
    /\ stream \in {"futures", "spot"} /\ pump = "read" /\ Heard
    /\ pump' = "done"
    /\ UNCHANGED <<stream, market, wire, up, drops, book, held, last, queue, hand, lease, signal>>

KeepAliveStops ==
    /\ stream = "futures" /\ putting = 0 /\ Heard
    /\ putting' = -1
    /\ UNCHANGED <<stream, market, pipe, hand, keys, shared, sock, age, late, missed, signal>>
-----------------------------------------------------------------------------
(* The adapters of the live feeds, and the consumer. *)

Relaying(s) == stream = s /\ relay /\ queue # <<>>

\* Nobody receives any more: the adapter drops its source.
RelayEnds ==
    /\ Adapted /\ relay /\ queue # <<>> /\ gone
    /\ relay' = FALSE
    /\ UNCHANGED <<stream, market, pipe, tail, gone, seen, lease, signal>>

Relayed(t) ==
    /\ ~gone
    /\ tail' = t /\ queue' = Tail(queue)
    /\ UNCHANGED <<stream, market, wire, up, drops, pump, book, held, last, relay, gone, seen, lease, signal>>

\* A watch: the newest book replaces the one the consumer has not seen.
CoalesceBook == Relaying("depth") /\ Relayed(<<Head(queue)>>)

\* Bug: the adapter waits for room, like the pump.
DropNewestWaiting ==
    /\ Relaying("trades") /\ Len(tail) < Room
    /\ Relayed(Append(tail, Head(queue)))

\* A bounded queue: the newest print is dropped when it is full.
DropNewest ==
    /\ Relaying("trades")
    /\ Relayed(IF Len(tail) < Room THEN Append(tail, Head(queue)) ELSE tail)

\* The liquidation feed's forwarder has an unbounded channel.
ForwardLiquidation == Relaying("liquidations") /\ Relayed(Append(tail, Head(queue)))

\* The consumer takes the next event; it ignores heartbeats.
Consume ==
    /\ ~gone
    /\ LET from == IF Adapted THEN tail ELSE queue IN
        /\ from # <<>>
        /\ seen' = IF Head(from) = Nothing THEN seen ELSE Head(from)
        /\ IF Adapted THEN tail' = Tail(tail) /\ queue' = queue
           ELSE queue' = Tail(queue) /\ tail' = tail
    /\ UNCHANGED <<stream, market, wire, up, drops, pump, book, held, last, relay, gone, lease, signal>>

Leave ==
    /\ ~gone /\ signal # "dropped" /\ pump # "gate" /\ gone' = TRUE
    /\ UNCHANGED <<stream, market, pipe, relay, tail, seen, lease, signal>>
-----------------------------------------------------------------------------
Init ==
    /\ stream \in Streams
    /\ market \in (IF stream \in Books THEN {<<b>> : b \in SUBSET Levels} ELSE {<<>>})
    /\ up = TRUE /\ wire = Greeting /\ drops = 0
    /\ pump = IF stream = "hyper" THEN "gate" ELSE "read"
    /\ book = {} /\ held = Nothing /\ last = Nothing /\ queue = <<>>
    /\ relay = Adapted /\ tail = <<>> /\ gone = FALSE /\ seen = Nothing
    /\ keys = IF stream = "futures" THEN 1 ELSE 0
    /\ shared = keys /\ sock = keys
    /\ age = [k \in 1..MaxKeys |-> 0]
    /\ putting = 0 /\ late = FALSE /\ missed = 0
    /\ signal \in IF stream \in {"futures", "spot"} THEN {"none", "live"} ELSE {"none"}

Read ==
    \/ ReadDepth \/ ReadTrade \/ ReadMark \/ ReadLiquidation
    \/ ReadBybit \/ ReadBybitTrade \/ ReadHyper \/ FirstData
    \/ ReadFill \/ ReadSpotFill \/ ReadHyperFill

Next ==
    \/ Move \/ Disconnect
    \/ ReadDepth \/ ReadTrade \/ ReadMark \/ ReadLiquidation
    \/ ReadBybit \/ ReadBybitTrade \/ ReadHyper \/ FirstData \/ Beat
    \/ ReadFill \/ ReadSpotFill \/ ReadHyperFill
    \/ Sent \/ Lost
    \/ ReopenDepth \/ ReopenTrade \/ ReopenMark \/ ReopenLiquidation
    \/ ReopenBybit \/ ReopenBybitTrade \/ ReopenHyper \/ ReopenHyperFills
    \/ ReopenSpot \/ Mint \/ ReopenFills
    \/ KeepAlive \/ PutHangs \/ Renew \/ Miss \/ Shutdown \/ SpawnFails \/ PumpStops \/ KeepAliveStops
    \/ CoalesceBook \/ DropNewest \/ ForwardLiquidation \/ RelayEnds
    \/ Consume \/ Leave

Spec == Init /\ [][Next]_vars

\* The tasks run.  Nothing is assumed of the consumer, the venue, the network
\* or the supervisor, nor that a renewal ever ends: the client that sends it has
\* no timeout.
Fairness ==
    /\ WF_vars(Read) /\ WF_vars(Sent) /\ WF_vars(Lost)
    /\ WF_vars(PumpStops) /\ SF_vars(KeepAliveStops)
    /\ WF_vars(CoalesceBook) /\ WF_vars(DropNewest) /\ WF_vars(ForwardLiquidation)
    /\ WF_vars(RelayEnds)

FairSpec == Spec /\ Fairness
-----------------------------------------------------------------------------
\* Every book handed on, by whichever way it was put together, is a book the
\* venue had: no level outlives a snapshot or a disconnect (depth_pump of
\* tikr-bybit).  And a consumer that has taken everything offered has the newest
\* event the pump read, however far it lagged (coalesce_latest_book; of trades
\* the newest may be dropped, by design).
BookTrue ==
    /\ stream \in Books =>
        \A ev \in Range(queue) \cup Range(tail) \cup {seen, held} :
            ev # Nothing => ev.book = market[ev.v]
    /\ (stream # "trades" /\ ~gone /\ pump # "send" /\ queue = <<>> /\ tail = <<>>)
        => seen = last

\* The key the socket is on expires only if two of its periods in a row, at
\* least, went by without a renewal, each because its PUT failed or because
\* one was still open when the next fell due, however reconnects and keepalives
\* interleave (reconnect_user_data stores the key, the keepalive task reads it).
KeyRenewed ==
    (stream = "futures" /\ pump = "read" /\ up /\ putting # -1 /\ age[sock] = Hour)
        => missed >= 2

\* A consumer that stops consuming never stops the socket's reader: with the
\* adapters in between, a send that waits for room gets it (subscribe, "must
\* never back-pressure all the way to the TCP sockets").
ReaderDrains == (pump = "send" /\ stream \in {"depth", "trades", "liquidations"}) ~> pump # "send"

\* No renewal hangs for ever.
PutsEnd == []<>(putting <= 0)

\* A signal sent at any moment, a reconnect in progress included, ends the
\* pump unless it has no connection, and the keepalive task unless a renewal
\* of it hangs for ever.
StreamsStop ==
    /\ PutsEnd => ((signal = "sent" /\ stream = "futures") ~> putting = -1)
    /\ (signal = "sent" /\ up) ~> (pump = "done" \/ ~up)

\* The tasks of a bot that was never spawned end as well (subscribe_fills:
\* "so they exit cleanly when the bot is being restarted - without this they
\* would leak with every supervisor respawn"), no renewal hanging.
NoLeak == PutsEnd => ((signal \in {"sent", "dropped"} /\ stream = "futures") ~> putting = -1)
=============================================================================
