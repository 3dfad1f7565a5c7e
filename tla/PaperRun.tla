------------------------------ MODULE PaperRun ------------------------------
(***************************************************************************)
(* The runner in paper mode: the event-stream arm of run_inner, with the   *)
(* simulated venue of FillSim, the P&L tracker, the forced liquidation,    *)
(* the bag flattener, the risk gate and the profit skim.                   *)
(*                                                                         *)
(* A market event passes through the arm's stages in the order of the      *)
(* code; `pc` is the stage.  The strategy is any strategy: it sends what   *)
(* FillSim's Requests allow, at each event, on each full fill and on each  *)
(* rejection.  The position cap of the runner is off (see Gates).          *)
(*                                                                         *)
(* The tracker is the signed size, the signed cost basis of that size, the *)
(* realized wallet (initial + realized - fees; fees are nil but for the    *)
(* liquidation's) and the funding, which the wallet does not include.      *)
(* The maintenance margin rate is 0: a bag is liquidated where the wallet  *)
(* is spent.                                                               *)
(***************************************************************************)
EXTENDS FillSim

CONSTANTS MaxEvents,    \* bound on the market events
          Steps,        \* time between two events
          Wallet0,      \* initial_balance
          FundingRate,  \* what a lot of a long pays per unit of time
          LiqFee,       \* close fee of a liquidation
          BagPause,     \* BAGGER_FLATTEN_COOLDOWN_NS; 0: bagger off
          Drawdown,     \* max_drawdown of the risk gate: halt at or below
          MaxFills,     \* max_fills_per_minute
          Window,       \* the minute
          MaxSize,      \* max_position_size
          Chunk         \* skim threshold

ASSUME PaperRunAssumption ==
    /\ MaxEvents \in Nat /\ Steps \subseteq Nat \ {0} /\ Wallet0 \in Nat \ {0}
    /\ FundingRate \in Nat /\ LiqFee \in Nat /\ BagPause \in Nat
    /\ Drawdown \in Int /\ MaxFills \in Nat /\ Window \in Nat /\ MaxSize \in Nat
    /\ Chunk \in Nat \ {0}

VARIABLES
    pc, seen,     \* stage of the arm; events taken
    event,        \* the event under way
    bid,          \* current_book
    mark,         \* last_mark
    left,         \* lots of the trade not yet matched
    pos, cost, wallet, funding,   \* the tracker
    halted, window,               \* RiskState
    lastBag,                      \* last_bagger_flatten_ns
    profit, lastNet, skims,       \* profit_since_skim, last_net_seen, skim_count
    outside,      \* history: lots closed by the runner itself, behind the simulator
    cleared       \* history: `sent` at the last liquidation

runVars == <<pc, seen, event, bid, mark, left, pos, cost, wallet, funding, halted, window,
             lastBag, profit, lastNet, skims, outside, cleared>>
vars == <<simVars, runVars>>

ledger == <<pos, cost, wallet, funding>>
risk == <<halted, window>>
skim == <<profit, lastNet, skims>>
feed == <<seen, event, bid, mark>>

NoEvent == [kind |-> "none", px |-> 0, side |-> "bid", qty |-> 0]
Events == {[kind |-> "book", px |-> p, side |-> "bid", qty |-> 0] : p \in Bids}
    \cup {[kind |-> "trade", px |-> p, side |-> s, qty |-> q] :
            p \in Prices, s \in {"bid", "ask"}, q \in 1..MaxQty + MaxQueue}

Init ==
    /\ SimInit
    /\ pc = "idle" /\ seen = 0 /\ event = NoEvent /\ bid = 0 /\ mark = 0 /\ left = 0
    /\ pos = 0 /\ cost = 0 /\ wallet = Wallet0 /\ funding = 0
    /\ halted = FALSE /\ window = <<>> /\ lastBag = 0
    /\ profit = 0 /\ lastNet = 0 /\ skims = 0
    /\ outside = 0 /\ cleared = 0

Abs(x) == IF x < 0 THEN -x ELSE x
Smaller(x, y) == IF x < y THEN x ELSE y

----------------------------------------------------------------------------
\* PositionTracker::apply: closing lots are released at the average entry and
\* realize the difference, opening lots enter at their price.
Closing(side, qty) == IF pos * Sign(side) < 0 THEN Smaller(Abs(pos), qty) ELSE 0
Basis(n) == IF pos = 0 THEN 0 ELSE (Abs(cost) * n) \div Abs(pos)

Book(side, qty, px, fee) ==
    LET c == Closing(side, qty)
        s == Sign(side)
    IN  /\ pos' = pos + s * qty
        /\ cost' = cost + s * Basis(c) + s * (qty - c) * px
        /\ wallet' = wallet + s * (Basis(c) - c * px) - fee
        /\ UNCHANGED funding

\* RiskGate::record_fill
Recorded == Append(window, now)

\* PnLReport::net: realized and funding, and the bag at the mark.
Net == wallet - Wallet0 + funding + pos * mark - cost

----------------------------------------------------------------------------
\* The arm takes an event: book, mark, funding, the wallet for the margin gate.
Take ==
    /\ pc = "idle" /\ seen < MaxEvents
    /\ \E e \in Events, dt \in Steps :
         /\ event' = e
         /\ now' = now + dt
         /\ bid' = IF e.kind = "book" THEN e.px ELSE bid
         /\ mark' = IF e.kind = "book" THEN e.px + Tick \div 2 ELSE mark
         /\ funding' = IF mark' = 0 \/ seen = 0 THEN funding
                       ELSE funding - pos * FundingRate * dt
    /\ power' = wallet * Leverage
    /\ seen' = seen + 1
    /\ pc' = "guard"
    /\ UNCHANGED <<simBid, quotes, pending, ready, sent, units, rejected, fills, buried, left,
                   pos, cost, wallet, risk, lastBag, skim, outside, cleared>>

\* LiquidationModel::check.  The close is booked at the liquidation price, so
\* the wallet ends at nothing whatever the mark; the account's orders go too.
Breached == /\ mark > 0
            /\ \/ pos > 0 /\ cost > wallet /\ mark * pos <= cost - wallet
               \/ pos < 0 /\ mark * (-pos) >= wallet - cost
Liquidate ==
    /\ pc = "guard" /\ Breached
    /\ DropQuotes
    /\ pos' = 0 /\ cost' = 0 /\ wallet' = -LiqFee
    /\ window' = Recorded
    /\ outside' = outside - pos
    /\ cleared' = sent
    /\ pc' = "bag"
    /\ UNCHANGED <<now, simBid, ready, sent, units, power, rejected, fills, buried,
                   feed, left, funding, halted, lastBag, skim>>
Spared == pc = "guard" /\ ~Breached /\ pc' = "bag"
          /\ UNCHANGED <<simVars, feed, left, ledger, risk, lastBag, skim, outside, cleared>>

\* The bagger's decision, any it may take (see Bagger): a close of some lots
\* at the touch, at most one per pause; a full one drops the resting grid.
Flatten ==
    /\ pc = "bag" /\ pos # 0 /\ BagPause > 0 /\ mark > 0 /\ now - lastBag >= BagPause
    /\ \E qty \in 1..Abs(pos), taker \in BOOLEAN :
         LET side == IF pos > 0 THEN "ask" ELSE "bid"
             px   == IF (side = "ask") = taker THEN bid ELSE bid + Tick
         IN  /\ Book(side, qty, px, 0)
             /\ outside' = outside + Sign(side) * qty
             /\ IF qty = Abs(pos) THEN DropQuotes ELSE UNCHANGED <<quotes, pending>>
    /\ lastBag' = now
    /\ window' = Recorded
    /\ pc' = "react"
    /\ UNCHANGED <<now, simBid, ready, sent, units, power, rejected, fills, buried,
                   feed, left, halted, skim, cleared>>
Hold == pc = "bag" /\ pc' = "react"
        /\ UNCHANGED <<simVars, feed, left, ledger, risk, lastBag, skim, outside, cleared>>

----------------------------------------------------------------------------
\* The strategy's batch, an action at a time, each through the risk gate.

Fresh == SelectSeq(window, LAMBDA t : t >= now - Window)
After(o) == IF o.kind \in {"place", "replace"} THEN pos + Sign(o.side) * o.qty ELSE 0

\* BasicRiskGate::check: a breach drops the action and halts; halted, every
\* action is dropped, cancels too.
Breach(o) == \/ Net <= Drawdown
             \/ Len(Fresh) > MaxFills
             \/ Abs(After(o)) > MaxSize

Emit ==
    /\ pc = "react" /\ mark > 0
    /\ \E o \in Requests :
         \/ halted /\ UNCHANGED <<pending, sent, risk>>
         \/ ~halted /\ Breach(o) /\ halted' = TRUE /\ window' = Fresh /\ UNCHANGED <<pending, sent>>
         \/ ~halted /\ ~Breach(o) /\ OnAction({o}) /\ window' = Fresh /\ UNCHANGED halted
    /\ UNCHANGED <<now, simBid, quotes, ready, units, power, rejected, fills, buried,
                   pc, feed, left, ledger, lastBag, skim, outside, cleared>>
Sent == pc = "react" /\ pc' = "drain"
        /\ UNCHANGED <<simVars, feed, left, ledger, risk, lastBag, skim, outside, cleared>>

----------------------------------------------------------------------------
\* FillSim::on_market_event.
DrainStep == pc = "drain" /\ Drain /\ pc' = "apply"
             /\ UNCHANGED <<feed, left, ledger, risk, lastBag, skim, outside, cleared>>
ApplyStep == pc = "apply" /\ Apply
             /\ UNCHANGED <<runVars>>

SeeBook == pc = "apply" /\ ready = <<>> /\ event.kind = "book" /\ UpdateBook(event.px)
           /\ pc' = "fills"
           /\ UNCHANGED <<feed, left, ledger, risk, lastBag, skim, outside, cleared>>
SeeTrade == pc = "apply" /\ ready = <<>> /\ event.kind = "trade"
            /\ left' = event.qty /\ pc' = "match"
            /\ UNCHANGED <<simVars, feed, ledger, risk, lastBag, skim, outside, cleared>>

Eligible == {q \in quotes : Takes(q, event.side, event.px)}

\* One turn of match_trade's loop.  A quote the trade has been through once is
\* not reached again: it kept lots only if the trade ran out.
Match == /\ pc = "match" /\ left > 0
         /\ \E q \in Best(Eligible) :
              LET ate == IF event.px # q.px THEN 0 ELSE Smaller(q.queue, left)
              IN  /\ MatchOne(q, event.side, event.px, left)
                  /\ left' = left - ate - Smaller(q.rem, left - ate)
         /\ UNCHANGED <<pc, feed, ledger, risk, lastBag, skim, outside, cleared>>
Matched == /\ pc = "match" /\ (left = 0 \/ Eligible = {})
           /\ left' = 0 /\ pc' = "fills"
           /\ UNCHANGED <<simVars, feed, ledger, risk, lastBag, skim, outside, cleared>>

----------------------------------------------------------------------------
\* Mutant: what is left of a partly filled order is taken for the whole.
DeliverFullOnly ==
    /\ pc = "fills" /\ fills # <<>>
    /\ LET f == Head(fills)
       IN  IF f.full THEN Book(f.side, f.qty, f.px, 0) ELSE UNCHANGED ledger
    /\ fills' = Tail(fills) /\ window' = Recorded
    /\ UNCHANGED <<now, simBid, quotes, pending, ready, sent, units, power, rejected, buried,
                   pc, feed, left, halted, lastBag, skim, outside, cleared>>

\* apply_fill, then, on a full fill, the strategy's reaction, which goes to
\* the simulator without the risk gate (dispatch_post_fill_actions).
Deliver ==
    /\ pc = "fills" /\ fills # <<>>
    /\ LET f == Head(fills)
       IN  /\ Book(f.side, f.qty, f.px, 0)
           /\ fills' = Tail(fills)
           /\ window' = Recorded
           /\ \/ UNCHANGED <<pending, sent>>
              \/ f.full /\ mark > 0 /\ \E o \in Requests : OnAction({o})
    /\ UNCHANGED <<now, simBid, quotes, ready, units, power, rejected, buried,
                   pc, feed, left, halted, lastBag, skim, outside, cleared>>
Delivered == pc = "fills" /\ fills = <<>> /\ pc' = "recover"
             /\ UNCHANGED <<simVars, feed, left, ledger, risk, lastBag, skim, outside, cleared>>

\* The recovery loop: a rejection is handed back to the strategy, unless the
\* margin refused it; what it answers is on its way only at the next event, so
\* the loop never sees a second round.
Recover ==
    /\ pc = "recover" /\ rejected # <<>>
    /\ rejected' = Tail(rejected)
    /\ \/ UNCHANGED <<pending, sent>>
       \/ Head(rejected).why # "margin" /\ \E o \in Requests : OnAction({o})
    /\ UNCHANGED <<now, simBid, quotes, ready, units, power, fills, buried, runVars>>

\* The skim: rises of the net P&L add up, and each whole chunk is banked.
NetBooked == wallet - Wallet0 + funding

Skim ==
    /\ pc = "recover" /\ rejected = <<>>
    /\ LET rise   == IF NetBooked > lastNet THEN NetBooked - lastNet ELSE 0
           chunks == (profit + rise) \div Chunk
       IN  IF bid = 0 THEN UNCHANGED skim
           ELSE /\ profit' = profit + rise - chunks * Chunk
                /\ skims' = skims + chunks
                /\ lastNet' = NetBooked
    /\ pc' = "idle"
    /\ UNCHANGED <<simVars, feed, left, ledger, risk, lastBag, outside, cleared>>

Next == \/ Take \/ Liquidate \/ Spared \/ Flatten \/ Hold \/ Emit \/ Sent
        \/ DrainStep \/ ApplyStep \/ SeeBook \/ SeeTrade \/ Match \/ Matched
        \/ Deliver \/ Delivered \/ Recover \/ Skim

Spec == Init /\ [][Next]_vars

----------------------------------------------------------------------------
Stages == {"idle", "guard", "bag", "react", "drain", "apply", "match", "fills", "recover"}

\* The types of the state (run_inner's locals, FillSim's fields).
TypeOK ==
    /\ pc \in Stages /\ seen \in 0..MaxEvents /\ event \in Events \cup {NoEvent}
    /\ bid \in Bids \cup {0} /\ simBid \in Bids \cup {0} /\ left \in Nat
    /\ quotes \subseteq Order /\ sent \in 0..MaxSent /\ units \in Int
    /\ pos \in Int /\ cost \in Int /\ wallet \in Int /\ funding \in Int
    /\ halted \in BOOLEAN /\ profit \in 0..Chunk - 1 /\ skims \in Nat

FilledLots == LET lots[i \in 0..Len(fills)] ==
                     IF i = 0 THEN 0 ELSE lots[i - 1] + Sign(fills[i].side) * fills[i].qty
              IN  lots[Len(fills)]

\* Every lot the simulator filled reaches the tracker once, through partial
\* fills, IOCs, replacements and liquidations: the simulator's position and the
\* tracker's differ by the fills under way and by what the runner closed itself
\* behind the simulator's back (liquidation, bagger), and by nothing else.
EveryFillBooked == units = pos - outside + FilledLots

\* What rested or was on its way when the account was liquidated never fills:
\* run_inner drops it with drop_quotes_for before it books the close.
NoFillFromBefore == \A i \in 1..Len(fills) : fills[i].id > cleared

\* An order whose cancel has arrived rests again only when a Replace of it was
\* drained in the same event (purge_pending_id does not look there); it never
\* returns at a later event.
OnlyOvertakenReturns ==
    [][\A id \in Ids :
         /\ id \in {q.id : q \in quotes'} \ {q.id : q \in quotes}
         /\ buried[id] # 0
         => buried[id] = now]_vars

\* runner.rs:492-495: every action the strategy emits passes the risk gate
\* before FillSim sees it; halted, the gate rejects all of them.
HaltIsFinal == [][halted => sent' = sent]_vars
=============================================================================
