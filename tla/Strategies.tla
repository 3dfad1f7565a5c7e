----------------------------- MODULE Strategies -----------------------------
(* One bot's strategy against its venue: `which` names the strategy that runs,
   chosen at the start and never changed.  The market moves its book, trades
   and beats; a resting order fills in whole or in part, the innermost of its
   side first; a taker order is on its way until it lands, in whole, in part or
   not at all; the venue refuses a post-only order that would cross, refuses an
   adding order for margin, or loses a whole batch (the runner's cooldown drops
   it without telling the strategy).  Every event is followed by a call of the
   strategy with what the runner shows it, whose answer is applied in order.

   Bounds: Events steps in all, Faults refused or lost batches, MaxFlight the
   longest a taker order stays on its way (shorter than the strategies' retry
   timers, which rely on it).                                                *)
EXTENDS TouchMakers, Grids, Reversion, Lattices, Waves, Scalpers

CONSTANTS Running,      \* the strategies that are run
          Books,        \* the books the market moves between
          Events,       \* the number of steps of each strategy
          Faults, MaxFlight, LiqWindow

\* Prices are positive; a side without one is None, which is zero.
ASSUME BooksAssumption == \A bk \in Books : bk.bid \in Nat /\ bk.ask \in Nat
\* No taker order stays on its way as long as a risk gate waits for it.
ASSUME FlightAssumption ==
  /\ MaxFlight \in Nat
  /\ \A t \in {SG.retry, LG.retry, HK.retry, KL.cooldown, TL.retry, RT.retry, SS.retry} :
       t \in Int /\ t > MaxFlight
\* Ladders have so many levels, and keel's lattice a step.
ASSUME LevelsAssumption ==
  /\ {SG.levels, LG.levels, HK.levels, KL.levels, TL.levels, TL.reduce} \subseteq Nat
  /\ KL.step \in Nat \ {0}

\* Distances are integers; the steps of hawk's ladder and of tide's lattice are not
\* zero, and an order at its very price is near enough for joker.
ASSUME DistancesAssumption ==
  /\ TouchCfg.tolerance \in Nat /\ TouchCfg.offset \in Int
  /\ HK.inner \in Nat /\ HK.step \in Nat \ {0}
  /\ {TD.inner, TD.levels} \subseteq Nat /\ TD.step \in Nat \ {0}
  /\ {KL.ramp, KL.reduce} \subseteq Int
\* wave has a level and a candle at least; its sizes are whole lots.
ASSUME WaveAssumption ==
  /\ {WV.levels, WV.window} \subseteq Nat \ {0}
  /\ {WV.step, WV.fees} \subseteq Nat
  /\ {WV.inner, WV.maxInner, WV.k, WV.ramp} \subseteq Int
  /\ \A n \in 0 .. WV.levels : WV.mult ^ n \in Nat

VARIABLES which, st, event, book, liqs, pos, avg, rest, flight, now, left, spare
market == <<book, liqs, pos, avg, now, left>>
vars == <<which, st, event, market, rest, flight, spare>>

FreshState ==
  [simple_gap |-> SimpleGapInit, ladder_reentry |-> LadderInit, volley |-> TimerInit,
   strangler |-> TimerInit, joker |-> JokerInit, mantis |-> MantisInit,
   top_of_book |-> PairInit, micro_price |-> PairInit,
   avellaneda_stoikov |-> ReserveInit, glft |-> ReserveInit,
   static_grid |-> StaticGridInit, layered_grid |-> LayeredInit, flat_mm |-> FlatInit,
   hydra |-> HydraInit, micro_mean_reversion |-> MmrInit, rsi_mr |-> RsiInit,
   rebalance |-> RebalanceInit, hawk |-> HawkInit, tide |-> TideInit, keel |-> KeelInit,
   tidal |-> TidalInit, wave |-> WaveInit, spread_scalp |-> SpreadInit,
   spread_scalp_old |-> OldInit, liq_fade |-> LiqInit, ratchet |-> RatchetInit]

\* Strategy::on_event
OnEvent(s, c) ==
  CASE which = "simple_gap" -> SimpleGap(s, c)
    [] which = "ladder_reentry" -> LadderReentry(s, c)
    [] which = "volley" -> Volley(s, c)
    [] which = "strangler" -> Strangler(s, c)
    [] which = "joker" -> Joker(s, c)
    [] which = "mantis" -> Mantis(s, c)
    [] which = "top_of_book" -> TopOfBook(s, c)
    [] which = "micro_price" -> MicroPrice(s, c)
    [] which = "avellaneda_stoikov" -> AvellanedaStoikov(s, c)
    [] which = "glft" -> Glft(s, c)
    [] which = "static_grid" -> StaticGrid(s, c)
    [] which = "layered_grid" -> LayeredGrid(s, c)
    [] which = "flat_mm" -> FlatMm(s, c)
    [] which = "hydra" -> Hydra(s, c)
    [] which = "micro_mean_reversion" -> Mmr(s, c)
    [] which = "rsi_mr" -> RsiMr(s, c)
    [] which = "rebalance" -> Rebalance(s, c)
    [] which = "hawk" -> Hawk(s, c)
    [] which = "tide" -> Tide(s, c)
    [] which = "keel" -> Keel(s, c)
    [] which = "tidal" -> Tidal(s, c)
    [] which = "wave" -> Wave(s, c)
    [] which = "spread_scalp" -> SpreadScalp(s, c)
    [] which = "spread_scalp_old" -> SpreadScalpOld(s, c)
    [] which = "liq_fade" -> LiqFade(s, c)
    [] which = "ratchet" -> Ratchet(s, c)

\* Strategy::on_quote_rejected, whose default does nothing
OnQuoteRejected(s, c, q, why) ==
  CASE which = "simple_gap" -> SimpleGapRejected(s, c, q, why)
    [] which = "ladder_reentry" -> LadderRejected(s, c, q, why)
    [] which = "static_grid" -> StaticGridRejected(s, c, q, why)
    [] which = "layered_grid" -> LayeredRejected(s, c, q, why)
    [] which = "flat_mm" -> FlatRejected(s, c, q, why)
    [] which = "micro_mean_reversion" -> MmrRejected(s, c, q, why)
    [] which = "rebalance" -> RebalanceRejected(s, c, q, why)
    [] which = "spread_scalp" -> SpreadRejected(s, c, q, why)
    [] which = "spread_scalp_old" -> OldRejected(s, c, q, why)
    [] which = "liq_fade" -> LiqRejected(s, c, q, why)
    [] which = "ratchet" -> RatchetRejected(s, c, q, why)
    [] OTHER -> Out(s, << >>)

-----------------------------------------------------------------------------
(* The venue's side of a batch of actions: b holds the resting orders, the
   taker orders on their way and the refusals so far.                        *)

FreeId(b) == Min((1 .. 1 + Cardinality(b.rest) + Cardinality(b.flight))
                 \ ({o.id : o \in b.rest} \cup {o.id : o \in b.flight}))
WouldCross(side, px) ==
  (side = "bid" /\ book.ask # None /\ px >= book.ask) \/ (side = "ask" /\ px <= book.bid)

Refusal(a, fault) ==
  CASE WouldCross(a.side, a.px) -> "cross"
    [] fault = "margin" /\ Sgn(a.side) * pos >= 0 -> "margin"
    [] OTHER -> "none"

PlaceOrder(b, a, id, fault) ==
  LET o == [id |-> id, side |-> a.side, px |-> a.px, sz |-> a.sz]
  IN  CASE a.tif = "ioc" ->
             [b EXCEPT !.flight = @ \cup {[id |-> id, side |-> a.side, px |-> a.px, sz |-> a.sz, at |-> now, late |-> FALSE]}]
        [] a.tif # "ioc" /\ Refusal(a, fault) = "none" -> [b EXCEPT !.rest = @ \cup {o}]
        [] OTHER -> [b EXCEPT !.refused = Append(@, [q |-> a, why |-> Refusal(a, fault)])]

ApplyOne(b, a, fault) ==
  LET gone == [b EXCEPT !.rest = {o \in @ : o.id # a.id}]
  IN  CASE a.op = "quote" -> PlaceOrder(b, a, FreeId(b), fault)
        [] a.op = "requote" -> PlaceOrder(gone, a, a.id, fault)
        [] a.op = "cancel" -> gone
        [] a.op = "cancelAll" -> [b EXCEPT !.rest = {}]

\* A batch of actions, one after the other.
Apply(b, acts, fault) ==
  LET after[k \in 0 .. Len(acts)] ==
        IF k = 0 THEN b ELSE ApplyOne(after[k - 1], acts[k], fault)
  IN  after[Len(acts)]

\* The window of liquidations the runner shows: none older than LiqWindow.
Recent(t) == SelectSeq(liqs, LAMBDA x : t - x.ts <= LiqWindow)

NoFill == [side |-> "bid", px |-> 0, sz |-> 0, full |-> FALSE]
NoTrade == [px |-> 0, sz |-> 0]
Event(k) == [k |-> k, fill |-> NoFill, trade |-> NoTrade]
NoEvent == Event("none")

\* In-flight orders are shown among the open ones.
Context ==
  [k |-> event.k, fill |-> event.fill, trade |-> event.trade, liqs |-> Recent(now),
   bid |-> book.bid, ask |-> book.ask, bsz |-> book.bsz, asz |-> book.asz,
   pos |-> pos, avg |-> avg, now |-> now,
   open |-> rest \cup {[id |-> o.id, side |-> o.side, px |-> o.px, sz |-> o.sz] : o \in flight}]

\* The refusals of the batch b, each told to the strategy once, in order.
Recover(x, r, c) ==
  LET Again(out) == [st |-> out.st, b |-> Apply(x.b, out.acts, "none")]
  IN  Again(OnQuoteRejected(x.st, [c EXCEPT !.open = x.b.rest], r.q, r.why))
Settle(s, b, c) ==
  LET after[k \in 0 .. Len(b.refused)] ==
        IF k = 0 THEN [st |-> s, b |-> [b EXCEPT !.refused = << >>]]
        ELSE Recover(after[k - 1], b.refused[k], c)
  IN  after[Len(b.refused)]

Batch == [rest |-> rest, flight |-> flight, refused |-> << >>]
Faulty == IF spare > 0 THEN {"none", "lost", "margin"} ELSE {"none"}

-----------------------------------------------------------------------------
Init ==
  /\ which \in Running
  /\ st = FreshState[which]
  /\ event = NoEvent
  /\ book \in Books
  /\ liqs = << >>
  /\ pos = 0 /\ avg = 0 /\ rest = {} /\ flight = {}
  /\ now = 1 /\ left = Events[which] /\ spare = Faults

Idle == event = NoEvent /\ left > 0
\* Time passes only while no taker order is overdue.
Pass ==
  /\ \A o \in flight : now + 1 - o.at <= MaxFlight
  /\ now' = now + 1

\* The book moves, past none of our orders: those would have filled before.
Reaches(bk) ==
  \A o \in rest : IF o.side = "bid" THEN bk.ask = None \/ o.px < bk.ask ELSE o.px > bk.bid
MoveBook ==
  /\ Idle /\ Pass
  /\ book' \in {bk \in Books : Reaches(bk)}
  /\ event' = Event("book") /\ left' = left - 1
  /\ UNCHANGED <<which, st, liqs, pos, avg, rest, flight, spare>>

\* A heartbeat, or a print: far from the touch for those that read it.
PrintsNow ==
  IF which \in {"micro_mean_reversion", "rsi_mr"}
  THEN {[px |-> book.bid + d * Tick, sz |-> 1] : d \in {-4, 4}}
  ELSE {[px |-> book.bid, sz |-> 1]}
Beat ==
  /\ Idle /\ Pass
  /\ event' \in {Event("tick")} \cup {[Event("trade") EXCEPT !.trade = p] : p \in PrintsNow}
  /\ left' = left - 1
  /\ UNCHANGED <<which, st, book, liqs, pos, avg, rest, flight, spare>>

\* A forced order of another account, which only the window shows.
Forced ==
  /\ Idle /\ which = "liq_fade"
  /\ \E side \in Sides : liqs' = Append(Recent(now), [ts |-> now, side |-> side, n |-> 1])
  /\ left' = left - 1
  /\ UNCHANGED <<which, st, event, book, pos, avg, rest, flight, now, spare>>

\* n lots of side fill at px, of an order of sz; the taker orders still out when
\* the position is flat again are late.
Book(side, px, n, sz, out) ==
  LET p == pos + Sgn(side) * n
  IN  /\ pos' = p
      /\ flight' = IF p = 0 THEN {[o EXCEPT !.late = TRUE] : o \in out} ELSE out
      /\ avg' = CASE p = 0 -> 0
                  [] p # 0 /\ Sgn(side) * pos >= 0 -> (avg * Abs(pos) + px * n) \div Abs(p)
                  [] p # 0 /\ Sgn(side) * pos < 0 /\ p * pos > 0 -> avg
                  [] OTHER -> px
      /\ event' = [Event("fill") EXCEPT !.fill = [side |-> side, px |-> px, sz |-> n, full |-> n = sz]]
      /\ left' = left - 1
      /\ UNCHANGED <<which, st, book, liqs, now, spare>>

\* A trade takes the innermost order of a side, in whole or in part.
TakeResting ==
  /\ Idle
  /\ \E o \in rest : \E n \in {1, o.sz} :
       /\ \A x \in rest : x.side = o.side => ~Farther(o.side, o.px, x.px)
       /\ rest' = (rest \ {o}) \cup (IF n < o.sz THEN {[o EXCEPT !.sz = @ - n]} ELSE {})
       /\ Book(o.side, o.px, n, o.sz, flight)

\* A taker order fills while its limit still reaches the touch, else it is gone.
Marketable(o) ==
  LET t == Touch(book, Opp(o.side)) IN t # None /\ ~Farther(o.side, o.px, t)
Land ==
  /\ Idle
  /\ \E o \in {x \in flight : Marketable(x)} : \E n \in {1, o.sz} :
       Book(o.side, Touch(book, Opp(o.side)), n, o.sz, flight \ {o})
  /\ UNCHANGED rest
Expire ==
  /\ event = NoEvent
  /\ \E o \in flight : ~Marketable(o) /\ flight' = flight \ {o}
  /\ UNCHANGED <<which, st, event, market, rest, spare>>

\* The strategy is called on the event, its answer sent unless the cooldown drops
\* the batch, and what the venue refuses told to it.
Call ==
  /\ event # NoEvent
  /\ \E fault \in Faulty :
     \E out \in {OnEvent(st, Context)} :
     \E placed \in {IF fault = "lost" THEN Batch ELSE Apply(Batch, out.acts, fault)} :
     \E done \in {Settle(out.st, placed, Context)} :
       /\ st' = done.st
       /\ rest' = done.b.rest /\ flight' = done.b.flight
       /\ spare' = IF fault = "none" THEN spare ELSE spare - 1
  /\ event' = NoEvent
  /\ UNCHANGED <<which, market>>

Next == MoveBook \/ Beat \/ Forced \/ TakeResting \/ Land \/ Expire \/ Call
Spec == Init /\ [][Next]_vars

-----------------------------------------------------------------------------
(* What the latches, the reconciliations and the anchors are for.            *)

\* The taker orders on their way that were sent for the bag held now.
Closers == {o \in flight : ~o.late}

\* The strategies whose risk gate keeps a latch (`last_risk_close_ts_ns` and its
\* like): spread_scalp's adverse stop does, its Stage-5 gate does not.
Latched == {"static_grid", "layered_grid", "hawk", "keel", "tidal", "ratchet"}
           \cup (IF SsStageFive THEN {} ELSE {"spread_scalp"})

\* No bag has two closing taker orders on their way at once: the latch guards
\* against the stale position report that would close the same lots twice.
OneClose == which \in Latched => Cardinality(Closers) <= 1

\* The same of spread_scalp, whichever gate sent them: its latch is the
\* "timestamp of the last risk-flatten emission (adverse stop or Stage-5 TP/SL)".
SpreadClosesOnce == which = "spread_scalp" => Cardinality(Closers) <= 1

\* No two orders rest at one price of a side.
Twinless == \A o, x \in rest : o.side = x.side /\ o.px = x.px => o = x

\* The strategies that reconcile against the orders shown, in flight ones
\* included, never rest two orders at one price of a side.
Reconciling == {"joker", "mantis", "top_of_book", "micro_price", "hydra", "hawk", "tide", "keel",
                "wave"}
NoTwins == which \in Reconciling => Twinless

\* The same of liq_fade, which does not look at the orders shown: "one trade per
\* cascade keeps the inventory bounded", and an entry that times out is
\* cancelled on the way back to idle.
FadesOnce == which = "liq_fade" => Twinless

\* When the exits hang off an anchor: hawk's while the spread is too narrow for
\* its ladder, ratchet's while its cycle has the direction of the bag.
Anchored ==
  CASE which \in {"mantis", "hydra", "keel", "liq_fade", "wave"} -> TRUE
    [] which = "hawk" -> ~st'.placed
    [] which = "ratchet" -> st'.phase.long = (pos > 0)
    [] OTHER -> FALSE

\* An exit is never placed inside its anchor: the average entry, or for wave the
\* last fill that grew the bag ("never repriced below the last fill").
ExitAnchor(side) == IF which = "wave" THEN st'.last[Opp(side)] ELSE avg
ExitsPay ==
  [][\A o \in rest' \ rest :
       /\ event # NoEvent /\ Anchored
       /\ pos # 0 /\ o.side = Closing(pos) /\ ExitAnchor(o.side) # None
       => ~Farther(o.side, ExitAnchor(o.side), o.px)]_vars

\* rsi_mr, long only, never sends a taker sell it holds nothing for: "an IOC
\* 'flatten' of a position that doesn't exist opens a naked short".
NoNakedSell ==
  [][\A o \in flight' \ flight : event # NoEvent /\ which = "rsi_mr" => pos > 0]_vars

\* The taker order of ratchet's stop loss is an "IOC flatten": it is of the side
\* that reduces the bag.
StopFlattens ==
  [][\A o \in flight' \ flight :
       event # NoEvent /\ which = "ratchet" => o.side = Closing(pos)]_vars
=============================================================================
