----------------------------- MODULE LiveFills ------------------------------
(***************************************************************************)
(* How a live bot learns of its own trades.                                *)
(*                                                                         *)
(* The venue executes trades.  Each one travels on the user-data websocket *)
(* (socket, then the pump task, then an unbounded channel to the runner),  *)
(* unless the socket is down, in which case it is lost.  Every 30 s the    *)
(* runner also fetches the trade history over REST from `from` on, books   *)
(* the trades it had not seen, moves `from` forward and prunes its dedup   *)
(* set; it then reads the venue's position and, on any drift, overwrites   *)
(* its own size with it.  A runner may end at any time; the supervisor     *)
(* subscribes, seeds the position from the venue and starts another one.   *)
(*                                                                         *)
(* Trades are numbered in the order of execution, as the venue's trade ids *)
(* are, so that the executed trades are 1..last.  Time is the venue's, in  *)
(* units of at least a millisecond, the resolution of the trade history.   *)
(***************************************************************************)
EXTENDS Integers, Sequences, SequencesExt, FiniteSetsExt

CONSTANTS MaxTrades,    \* bound on the trades executed
          Sizes,        \* signed sizes a trade may have
          MaxTime,      \* bound on the clock
          MaxRespawns,  \* bound on the number of times the runner ends
          Lookback,     \* RECONCILE_LOOKBACK
          MaxDelay,     \* longest time a fill spends on the websocket path
          RestLag,      \* longest time a trade stays absent from the history
          ClockLag      \* how far the bot's clock is behind the venue's

ASSUME LiveFillsAssumption ==
    /\ MaxTrades \in Nat /\ MaxTime \in Nat /\ MaxRespawns \in Nat
    /\ Lookback \in Nat /\ MaxDelay \in Nat /\ RestLag \in Nat /\ ClockLag \in Nat
    /\ Sizes \subseteq Int

Trades == 1..MaxTrades

VARIABLES
    \* the venue
    now,       \* its clock
    last,      \* the last trade executed
    ts,        \* when each trade was executed
    qty,       \* its signed size
    vpos,      \* the position the venue reports
    \* the websocket path
    socket,    \* the user-data socket, "open" or "closed"
    net,       \* fills on the socket
    chan,      \* fills the pump has put on the runner's channel
    \* the bot
    phase,     \* where the supervisor and the runner stand
    pos,       \* PositionTracker.size
    slot,      \* TradeDedup: rank of insertion of each id, 0 when not in it
    top,       \* the highest rank given out
    from,      \* reconcile_from_ns
    respawns,  \* times the runner has ended
    \* history
    bookings,  \* how often apply_fill ran on each trade, over all runners
    seeded,    \* trades the seed position of this runner already reflects
    replayed,  \* trades this runner booked from the REST history
    bootFrom   \* the value `from` started with

venueVars == <<now, last, ts, qty, vpos>>
wsVars    == <<socket, net, chan>>
botVars   == <<phase, pos, slot, top, from, respawns>>
histVars  == <<bookings, seeded, replayed, bootFrom>>
vars      == <<venueVars, wsVars, botVars, histVars>>

Executed == 1..last
Seen     == {t \in Trades : slot[t] > 0}
InFlight == ToSet(net) \cup ToSet(chan)
Booked   == {t \in Trades : bookings[t] > 0}

TypeOK ==
    /\ now \in 0..MaxTime /\ last \in 0..MaxTrades
    /\ ts \in [Trades -> 0..MaxTime] /\ qty \in [Trades -> Sizes \cup {0}]
    /\ vpos \in Int
    /\ socket \in {"open", "closed"} /\ net \in Seq(Trades) /\ chan \in Seq(Trades)
    /\ phase \in {"down", "subscribed", "seeded", "run", "tick"}
    /\ slot \in [Trades -> Nat] /\ top \in Nat
    /\ from \in 0..MaxTime /\ bootFrom \in 0..MaxTime /\ respawns \in 0..MaxRespawns
    /\ bookings \in [Trades -> Nat]
    /\ seeded \subseteq Trades /\ replayed \subseteq Trades

Init ==
    /\ now = 0 /\ last = 0 /\ vpos = 0
    /\ ts = [t \in Trades |-> 0] /\ qty = [t \in Trades |-> 0]
    /\ socket = "closed" /\ net = <<>> /\ chan = <<>>
    /\ phase = "down" /\ pos = 0 /\ from = 0 /\ respawns = 0
    /\ slot = [t \in Trades |-> 0] /\ top = 0
    /\ bookings = [t \in Trades |-> 0]
    /\ seeded = {} /\ replayed = {} /\ bootFrom = 0

-----------------------------------------------------------------------------
(* The venue and the socket.                                               *)

\* Time passes.  While the runner runs, no fill stays on the websocket path
\* longer than MaxDelay; before, fills pile up in the channel unread.
Tick ==
    /\ now < MaxTime
    /\ phase \in {"run", "tick"} => \A t \in InFlight : now - ts[t] < MaxDelay
    /\ now' = now + 1
    /\ UNCHANGED <<last, ts, qty, vpos, wsVars, botVars, histVars>>

\* The venue executes the next trade and emits it on the socket, if it is up.
Execute(q) ==
    /\ last < MaxTrades /\ now + RestLag < MaxTime
    /\ last' = last + 1
    /\ ts' = [ts EXCEPT ![last + 1] = now]
    /\ qty' = [qty EXCEPT ![last + 1] = q]
    /\ vpos' = vpos + q
    /\ net' = IF socket = "open" THEN Append(net, last + 1) ELSE net
    /\ UNCHANGED <<now, socket, chan, botVars, histVars>>

\* The socket closes or errs: what it had not delivered is lost.
SocketDrop ==
    /\ socket = "open" /\ socket' = "closed"
    /\ net' = <<>>
    /\ UNCHANGED <<venueVars, chan, botVars, histVars>>

\* reconnect_user_data: a fresh listen key, a fresh socket; nothing is resent.
Reconnect ==
    /\ socket = "closed" /\ phase # "down"
    /\ socket' = "open"
    /\ UNCHANGED <<venueVars, net, chan, botVars, histVars>>

\* user_data_pump: the next frame is parsed into a fill for the runner.
Pump ==
    /\ net # <<>>
    /\ chan' = Append(chan, Head(net))
    /\ net' = Tail(net)
    /\ UNCHANGED <<venueVars, socket, botVars, histVars>>

-----------------------------------------------------------------------------
(* run_once and the set-up of a runner.                                    *)

\* run_once subscribes to the user-data stream before it reads the position.
Subscribe ==
    /\ phase = "down"
    /\ phase' = "subscribed"
    /\ socket' = "open"
    /\ UNCHANGED <<venueVars, net, chan, pos, slot, top, from, respawns, histVars>>

\* The resume path seeds the tracker with the venue's position.
SeedOk ==
    /\ phase = "subscribed"
    /\ phase' = "seeded"
    /\ pos' = vpos
    /\ seeded' = Executed
    /\ UNCHANGED <<venueVars, wsVars, slot, top, from, respawns, bookings, replayed, bootFrom>>

\* position_risk fails: the tracker starts flat.
SeedErr ==
    /\ phase = "subscribed"
    /\ phase' = "seeded"
    /\ UNCHANGED <<venueVars, wsVars, pos, slot, top, from, respawns, histVars>>

\* Faulty variant: the window opens at the beginning of the trade history.
StartFromOrigin == 0

\* The window of the trade history opens at the bot's wall clock.
StartFrom == IF now > ClockLag THEN now - ClockLag ELSE 0

\* run_inner begins.  The answer to the position request takes a clock unit
\* or more to arrive, and the supervisor's backoff lasts a second or more, so
\* what the seed reflects and what an earlier runner booked is in the past.
Start ==
    /\ phase = "seeded"
    /\ \A t \in seeded \cup Booked : ts[t] < now
    /\ phase' = "run"
    /\ from' = StartFrom /\ bootFrom' = StartFrom
    /\ UNCHANGED <<venueVars, wsVars, pos, slot, top, respawns, bookings, seeded, replayed>>

\* The runner ends: the channel closes, the task panics or is told to stop.
\* Its dedup set, its window and its channel go with it.
RunnerEnds ==
    /\ phase # "down" /\ respawns < MaxRespawns
    /\ phase' = "down"
    /\ respawns' = respawns + 1
    /\ socket' = "closed" /\ net' = <<>> /\ chan' = <<>>
    /\ pos' = 0 /\ from' = 0 /\ bootFrom' = 0
    /\ slot' = [t \in Trades |-> 0] /\ top' = 0
    /\ seeded' = {} /\ replayed' = {}
    /\ UNCHANGED <<venueVars, bookings>>

-----------------------------------------------------------------------------
(* The runner's select loop.                                               *)

\* apply_fill on every trade of S: size and counters.
SizeOf(S) == MapThenSumSet(LAMBDA t : qty[t], S)
ApplyFills(S) ==
    /\ pos' = pos + SizeOf(S)
    /\ bookings' = [t \in Trades |-> IF t \in S THEN bookings[t] + 1 ELSE bookings[t]]

\* The external-fill arm: book the fill unless its id is in the dedup set.
WsFill ==
    /\ phase = "run" /\ chan # <<>>
    /\ chan' = Tail(chan)
    /\ LET t == Head(chan) IN
         IF t \in Seen
         THEN UNCHANGED <<pos, bookings, slot, top>>
         ELSE /\ ApplyFills({t})
              /\ slot' = [slot EXCEPT ![t] = top + 1]
              /\ top' = top + 1
    /\ UNCHANGED <<venueVars, socket, net, phase, from, respawns, seeded, replayed, bootFrom>>

\* Faulty variant: the window is open at `from`.
FetchedAfter(hidden) == {t \in Executed : ts[t] > from} \ hidden

\* What the trade history returns: everything from `from` on, except trades
\* of the last RestLag units that it does not show yet.
Fetched(hidden) == {t \in Executed : ts[t] >= from} \ hidden

\* Faulty variants: the window moves past the newest trade; it may move back.
NewFromPast(newest) == IF from < newest THEN newest + 1 ELSE from
NewFromBack(newest) == newest - Lookback

\* The window moves to the newest trade fetched minus the look-back overlap,
\* and never backwards.
NewFrom(newest) == IF from < newest - Lookback THEN newest - Lookback ELSE from

\* Faulty variants: entries at the cutoff go too; every tick empties the set.
PrunedAtCutoff(slots, cutoff) ==
    [t \in Trades |->
        IF \A u \in Trades : (0 < slots[u] /\ slots[u] <= slots[t]) => ts[u] <= cutoff
        THEN 0 ELSE slots[t]]
PrunedEntirely(slots, cutoff) == [t \in Trades |-> 0]

\* TradeDedup::prune pops entries off the front while they are older than the
\* cutoff: an entry goes when it and all entries inserted before it are.
Pruned(slots, cutoff) ==
    [t \in Trades |->
        IF \A u \in Trades : (0 < slots[u] /\ slots[u] <= slots[t]) => ts[u] < cutoff
        THEN 0 ELSE slots[t]]

\* Step 1 of the reconciliation tick.  select! is biased and the external-fill
\* arm comes first: the tick is taken only when the channel is empty.
ReconFillsOk ==
    /\ phase = "run" /\ chan = <<>>
    /\ \E hidden \in SUBSET {t \in Executed : now - ts[t] < RestLag} :
       LET fetched == Fetched(hidden)
           missed  == fetched \ Seen
       IN  \E newest \in {from} \cup {ts[t] : t \in fetched} :
             /\ \A t \in fetched : ts[t] <= newest
             /\ ApplyFills(missed)
             /\ replayed' = replayed \cup missed
             /\ slot' = Pruned([t \in Trades |-> IF t \in missed THEN top + t ELSE slot[t]],
                               NewFrom(newest))
             /\ top' = IF missed = {} THEN top ELSE top + last
             /\ from' = NewFrom(newest)
    /\ phase' = "tick"
    /\ UNCHANGED <<venueVars, wsVars, respawns, seeded, bootFrom>>

\* fills_since fails: nothing is booked, the window stays.
ReconFillsErr ==
    /\ phase = "run" /\ chan = <<>>
    /\ phase' = "tick"
    /\ UNCHANGED <<venueVars, wsVars, pos, slot, top, from, respawns, histVars>>

\* Faulty variant: only a flat tracker is corrected.
ReconPositionWhenFlat ==
    /\ phase = "tick"
    /\ phase' = "run"
    /\ pos' = IF pos = 0 THEN vpos ELSE pos
    /\ UNCHANGED <<venueVars, wsVars, slot, top, from, respawns, histVars>>

\* Step 2: on drift, force_reconcile overwrites the size with the venue's.
ReconPositionOk ==
    /\ phase = "tick"
    /\ phase' = "run"
    /\ pos' = vpos
    /\ UNCHANGED <<venueVars, wsVars, slot, top, from, respawns, histVars>>

\* venue.position fails: the drift stays until the next tick.
ReconPositionErr ==
    /\ phase = "tick"
    /\ phase' = "run"
    /\ UNCHANGED <<venueVars, wsVars, pos, slot, top, from, respawns, histVars>>

-----------------------------------------------------------------------------
Next ==
    \/ Tick \/ (\E q \in Sizes : Execute(q))
    \/ SocketDrop \/ Reconnect \/ Pump
    \/ Subscribe \/ SeedOk \/ SeedErr \/ Start \/ RunnerEnds
    \/ WsFill \/ ReconFillsOk \/ ReconFillsErr \/ ReconPositionOk \/ ReconPositionErr

Spec == Init /\ [][Next]_vars

\* The supervisor keeps respawning, the runner keeps polling its arms, and a
\* REST call that is retried for ever succeeds again and again.
Fairness ==
    /\ WF_vars(Tick) /\ WF_vars(Pump) /\ WF_vars(WsFill)
    /\ WF_vars(Subscribe) /\ WF_vars(SeedOk \/ SeedErr) /\ WF_vars(Start)
    /\ SF_vars(ReconFillsOk) /\ SF_vars(ReconPositionOk)
    /\ WF_vars(ReconPositionOk \/ ReconPositionErr)

FairSpec == Spec /\ Fairness

-----------------------------------------------------------------------------
(* Properties.                                                             *)

\* A fill that arrives over both channels is booked exactly once, also across
\* runners (TradeDedup; the external-fill arm and the gap-fill loop).  It
\* depends on the dedup entry outliving the websocket copy: MaxDelay is at most
\* Lookback in the run that checks it.
BookedAtMostOnce == \A t \in Trades : bookings[t] <= 1

\* Moving the window forward never steps over an execution the bot has not
\* booked: from the start of the runner to `from`, nothing is missing, however
\* late the history shows a trade (the RECONCILE_LOOKBACK overlap).
NoFillSkipped ==
    phase \in {"run", "tick"} =>
        \A t \in Executed : bootFrom <= ts[t] /\ ts[t] < from => t \in Booked

\* The gap-fill path never replays a trade the seeded position already
\* reflects (the comment on reconcile_from_ns' initial value).
NoSeededReplay == seeded \cap replayed = {}

\* A fill lost by the socket is replayed: what is executed inside the window
\* of a runner is eventually booked, unless that runner ends first.
LostFillReplayed ==
    \A t \in Trades :
        (phase = "run" /\ t \in Executed /\ from <= ts[t]) ~> (t \in Booked \/ phase = "down")

\* Once the venue is quiet the tracker's size settles on the venue's, through
\* every gap, double count and restart on the way.
SizeConverges == <>[](pos = vpos)

\* force_reconcile is for drift "the trade history could NOT explain": when it
\* changes the size, every execution of this runner's window is booked, so that
\* neither the websocket nor a later replay can add it to the new size again.
ForceOnlyUnexplained ==
    [][ (ReconPositionOk /\ pos' # pos) =>
            {t \in Executed : bootFrom < ts[t]} \subseteq Booked ]_vars

\* The abstract ledger: trades 1..last are executed, `bookings` is the charges.
Ledger == INSTANCE FillLedger WITH Trades <- Trades, executed <- Executed, charges <- bookings

\* Every step of the two channels, the ticks and the restarts is a step of the
\* ledger or changes nothing in it: trades are charged to the position once,
\* after they execute, and no charge is ever taken back (apply_fill has no undo).
ImplementsLedger == Ledger!LedgerSpec
=============================================================================
