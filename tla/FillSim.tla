------------------------------ MODULE FillSim -------------------------------
(***************************************************************************)
(* The simulated venue of paper trading and backtests.                     *)
(*                                                                         *)
(* An action of the strategy is an operation that arrives after a latency  *)
(* drawn for it alone, so operations may overtake each other.  Those due   *)
(* are drained on a market event and applied one after the other, each     *)
(* through the gates of the venue; only then the event itself moves the    *)
(* book or trades against the resting quotes.                              *)
(*                                                                         *)
(* Prices are even, so that the middle of the spread is a whole number:    *)
(* the best ask is always the bid plus Tick.  The queue ahead of a quote,  *)
(* which the depth of the book decides, is any of 0..MaxQueue.  Sizes are  *)
(* counted in lots.  The cap by a fraction of the wallet is left out       *)
(* beside the fixed one, and so is spot trading.                           *)
(***************************************************************************)
EXTENDS Integers, Sequences, FiniteSets, FiniteSetsExt

CONSTANTS Bids,        \* prices the best bid takes
          MaxSent,     \* bound on the operations ever sent
          MaxQty,      \* largest size of an order
          MaxQueue,    \* largest queue ahead of a new quote
          SubmitLat,   \* latencies of a Place or a Replace
          CancelLat,   \* latencies of a Cancel or a CancelAll
          MaxOpen,     \* cfg.max_open_orders
          Leverage,    \* cfg.leverage; 0: no margin gate
          PosCap,      \* cfg.max_position_notional_usdt; 0: none
          Tifs,        \* times in force the strategy uses
          Silent       \* BOOLEAN: the venue drops quotes silently

Tick == 2
Prices == Bids \cup {p + Tick : p \in Bids}

ASSUME FillSimAssumption ==
    /\ Bids \subseteq {2 * i : i \in 1..1000} /\ MaxSent \in Nat
    /\ MaxQty \in Nat \ {0} /\ MaxQueue \in Nat
    /\ SubmitLat \subseteq Nat \ {0} /\ CancelLat \subseteq Nat
    /\ MaxOpen \in Nat /\ Leverage \in Nat /\ PosCap \in Nat
    /\ Tifs \subseteq {"post", "ioc"} /\ Silent \in BOOLEAN

VARIABLES
    now,       \* time of the event under way
    simBid,    \* book_state: the best bid the simulator knows, 0 for none
    quotes,    \* live_quotes
    pending,   \* operations not yet arrived
    ready,     \* operations drained by apply_pending, not yet applied
    sent,      \* operations sent so far
    units,     \* position_units
    power,     \* current_wallet * leverage, as set_wallet left it
    rejected,  \* pending_rejections
    fills,     \* fills of this event, not yet applied by the runner
    buried     \* history: for each order, when the cancel that removed it was due,
               \* until it rests again

simVars == <<now, simBid, quotes, pending, ready, sent, units, power, rejected, fills, buried>>

Ids == 1..MaxSent
Order == [id : Ids, side : {"bid", "ask"}, px : Prices, rem : 1..MaxQty, queue : 0..MaxQueue]

Sign(side) == IF side = "bid" THEN 1 ELSE -1
Notional(q) == q.px * q.rem

SimInit ==
    /\ now = 0 /\ simBid = 0 /\ quotes = {} /\ pending = {} /\ ready = <<>> /\ sent = 0
    /\ units = 0 /\ power = 0 /\ rejected = <<>> /\ fills = <<>>
    /\ buried = [i \in Ids |-> 0]

----------------------------------------------------------------------------
\* The requests of the strategy.

\* An operation: `k` orders those due at one time as they were sent; `id` is
\* the order it names, 0 for the nil placeholder of an order still on its way.
Op(kind, id, side, px, qty, tif, lat) ==
    [k |-> sent + 1, due |-> now + lat, kind |-> kind, id |-> id,
     side |-> side, px |-> px, qty |-> qty, tif |-> tif]

\* What a strategy may ask, given the orders open_quotes shows it: those that
\* rest, and those on their way, which bear the nil id.
Requests ==
    {Op("place", sent + 1, s, p, q, t, l) :
        s \in {"bid", "ask"}, p \in Prices, q \in 1..MaxQty, t \in Tifs, l \in SubmitLat}
    \cup {Op("replace", o.id, o.side, p, o.rem, "post", l) : o \in quotes, p \in Prices, l \in SubmitLat}
    \cup {Op("cancel", o.id, o.side, o.px, 1, "post", l) : o \in quotes, l \in CancelLat}
    \cup {Op("cancel", 0, "bid", Min(Prices), 1, "post", l) :
            l \in IF \E o \in pending : o.kind = "place" THEN CancelLat ELSE {}}
    \cup {Op("cancelAll", 0, "bid", Min(Prices), 1, "post", l) : l \in CancelLat}

\* FillSim::on_action, for one action or none.
OnAction(ops) ==
    /\ Cardinality(ops) <= 1 /\ sent + Cardinality(ops) <= MaxSent
    /\ pending' = pending \cup ops
    /\ sent' = sent + Cardinality(ops)

----------------------------------------------------------------------------
\* on_market_event, first half: the operations that have arrived.

InOrder(S) ==
    {f \in [1..Cardinality(S) -> S] :
        \A i, j \in 1..Cardinality(S) : i < j =>
            \/ f[i].due < f[j].due
            \/ f[i].due = f[j].due /\ f[i].k < f[j].k}

\* silent_cancel_tick, decay_queue_ahead and the drain of apply_pending.
Drain ==
    /\ ready = <<>>
    /\ \E lost \in IF Silent THEN SUBSET quotes ELSE {{}} :
         quotes' = quotes \ lost
    /\ LET due == {o \in pending : o.due <= now}
       IN  ready' \in InOrder(due) /\ pending' = pending \ due
    /\ UNCHANGED <<now, simBid, sent, units, power, rejected, fills, buried>>

WouldCross(side, px) ==
    /\ simBid # 0
    /\ IF side = "bid" THEN px >= simBid + Tick ELSE px <= simBid

\* position_notional: the units at the middle of the simulator's own book.
PositionNotional(px) == units * (IF simBid = 0 THEN px ELSE simBid + Tick \div 2)

Committed(S, side) == MapThenSumSet(Notional, {q \in S : q.side = side})

\* The reason place_or_reject gives against the resting quotes S, "" when the
\* operation passes every gate: slots, post-only, margin, position cap.
Refusal(o, S) ==
    LET pos   == PositionNotional(o.px)
        delta == o.px * o.qty
        long  == pos + Committed(S, "bid") + (IF o.side = "bid" THEN delta ELSE 0)
        short == pos - Committed(S, "ask") - (IF o.side = "ask" THEN delta ELSE 0)
        after == pos + Sign(o.side) * delta
    IN  CASE o.tif # "ioc" /\ Cardinality(S) >= MaxOpen -> "full"
          [] o.tif = "post" /\ WouldCross(o.side, o.px) -> "cross"
          [] Leverage > 0 /\ power > 0 /\ (long > power \/ short < -power) -> "margin"
          [] PosCap > 0 /\ (after > PosCap \/ after < -PosCap) -> "cap"
          [] OTHER -> ""

FillOf(id, side, px, qty, full) ==
    [id |-> id, side |-> side, px |-> px, qty |-> qty, full |-> full]

\* place_or_reject, against the quotes S; `restore` is what a refused Replace
\* puts back.  An IOC takes what the touch offers, any part of it, and never
\* rests; it pays the ask, or receives the bid.
PlaceOrReject(o, S, restore) ==
    LET why == Refusal(o, S)
    IN  \/ /\ why # ""
           /\ quotes' = S \cup restore
           /\ rejected' = Append(rejected, [op |-> o, why |-> why])
           /\ UNCHANGED <<units, fills>>
        \/ /\ why = "" /\ o.tif = "post"
           /\ \E queue \in 0..MaxQueue :
                quotes' = S \cup {[id |-> o.id, side |-> o.side, px |-> o.px,
                                   rem |-> o.qty, queue |-> queue]}
           /\ UNCHANGED <<units, fills, rejected>>
        \/ /\ why = "" /\ o.tif = "ioc"
           /\ \E got \in IF WouldCross(o.side, o.px) THEN 0..o.qty ELSE {0} :
                LET px == IF o.side = "bid" THEN simBid + Tick ELSE simBid
                IN  /\ units' = units + Sign(o.side) * got
                    /\ fills' = IF got = 0 THEN fills
                                ELSE Append(fills, FillOf(o.id, o.side, px, got, got = o.qty))
           /\ quotes' = S
           /\ UNCHANGED rejected

\* Mutant: the replacements on their way survive the cancel.
PurgeNot(id) == pending

\* purge_pending_id.  The operations drained beside this one are out of its reach.
Purge(id) == {o \in pending : ~(o.kind = "replace" /\ o.id = id)}

\* The history forgets the cancel of an order that rests again.
Unburied == buried' = [i \in Ids |-> IF \E q \in quotes' : q.id = i THEN 0 ELSE buried[i]]

ApplyPlace ==
    /\ ready # <<>> /\ Head(ready).kind = "place"
    /\ ready' = Tail(ready)
    /\ PlaceOrReject(Head(ready), quotes, {}) /\ Unburied
    /\ UNCHANGED <<now, simBid, pending, sent, power>>

\* The order to be replaced is evicted first, so that the gates see the book
\* without it; when it is gone already the replacement is placed all the same.
ApplyReplace ==
    /\ ready # <<>> /\ Head(ready).kind = "replace"
    /\ ready' = Tail(ready)
    /\ LET o   == Head(ready)
           old == {q \in quotes : q.id = o.id}
       IN  pending' = Purge(o.id) /\ PlaceOrReject(o, quotes \ old, old) /\ Unburied
    /\ UNCHANGED <<now, simBid, sent, power>>

ApplyCancel ==
    /\ ready # <<>> /\ Head(ready).kind = "cancel"
    /\ ready' = Tail(ready)
    /\ LET id == Head(ready).id
       IN  /\ quotes' = {q \in quotes : q.id # id}
           /\ pending' = Purge(id)
           /\ buried' = [i \in Ids |-> IF i = id THEN now ELSE buried[i]]
    /\ UNCHANGED <<now, simBid, sent, units, power, rejected, fills>>

\* Op::CancelAll clears the book and leaves the operations on their way alone.
ApplyCancelAll ==
    /\ ready # <<>> /\ Head(ready).kind = "cancelAll"
    /\ ready' = Tail(ready)
    /\ quotes' = {}
    /\ UNCHANGED <<now, simBid, pending, sent, units, power, rejected, fills, buried>>

Apply == ApplyPlace \/ ApplyReplace \/ ApplyCancel \/ ApplyCancelAll

\* Mutant: only what rests goes.
DropResting == quotes' = {} /\ UNCHANGED pending

\* drop_quotes_for: the quotes and the operations that would make new ones.
DropQuotes ==
    /\ quotes' = {}
    /\ pending' = {o \in pending : o.kind \in {"cancel", "cancelAll"}}

----------------------------------------------------------------------------
\* on_market_event, second half.

\* update_book_state: the simulator learns the new top; where the depth at a
\* quote's level shrank without vanishing, cancels ahead of it are inferred.
UpdateBook(bid) ==
    /\ simBid' = bid
    /\ \E moved \in SUBSET {q \in quotes : q.queue > 0} :
         quotes' = (quotes \ moved) \cup {[q EXCEPT !.queue = @ - 1] : q \in moved}
    /\ UNCHANGED <<now, pending, ready, sent, units, power, rejected, fills, buried>>

\* quote_takes_trade
Takes(q, taker, px) ==
    \/ q.side = "bid" /\ taker = "ask" /\ px <= q.px
    \/ q.side = "ask" /\ taker = "bid" /\ px >= q.px

\* The quotes a trade reaches first: the best price.
Best(S) == {q \in S : \A r \in S : Sign(q.side) * q.px >= Sign(r.side) * r.px}

\* Mutant: an order filled to its last lot stays on the book.
MatchOneStays(q, taker, px, left) ==
    LET got == IF q.rem < left THEN q.rem ELSE left
    IN  /\ quotes' = (quotes \ {q}) \cup {[q EXCEPT !.rem = @ - got]}
        /\ units' = units + Sign(q.side) * got
        /\ fills' = Append(fills, FillOf(q.id, q.side, q.px, got, got = q.rem))
        /\ UNCHANGED <<now, simBid, pending, ready, sent, power, rejected, buried>>

\* One quote of match_trade's loop: the lots of the trade first eat the queue
\* ahead when they printed at the quote's price, or find it swept when they
\* printed through it; what is left fills the quote.
MatchOne(q, taker, px, left) ==
    LET ate == IF px # q.px THEN 0 ELSE IF q.queue < left THEN q.queue ELSE left
        got == IF q.rem < left - ate THEN q.rem ELSE left - ate
        rest == [q EXCEPT !.queue = IF px = q.px THEN @ - ate ELSE 0, !.rem = @ - got]
    IN  /\ quotes' = (quotes \ {q}) \cup (IF rest.rem = 0 THEN {} ELSE {rest})
        /\ units' = units + Sign(q.side) * got
        /\ fills' = IF got = 0 THEN fills
                    ELSE Append(fills, FillOf(q.id, q.side, q.px, got, got = q.rem))
        /\ UNCHANGED <<now, simBid, pending, ready, sent, power, rejected, buried>>
=============================================================================
