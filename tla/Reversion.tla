------------------------------ MODULE Reversion ------------------------------
(* The strategies that wait for the price to come back: micro_mean_reversion,
   rsi_mr and rebalance.  RevertCfg holds their configurations; c.trade is the
   print [px, sz] of a "trade" event.                                        *)
EXTENDS Market

CONSTANT RevertCfg

-----------------------------------------------------------------------------
(* micro_mean_reversion: an entry against a print far from the mid, one exit
   for the whole position off its average, relaxed towards break-even when the
   position is under water.                                                  *)

MM == RevertCfg.micro
MmrInit == [bid |-> Never, ask |-> Never]

Throttled(s, side, now) == MM.cooldown > 0 /\ s[side] # Never /\ now - s[side] < MM.cooldown
AdverseMove(c) == IF c.pos = 0 \/ c.avg <= 0 THEN 0 ELSE -Drift(c.pos, c.avg, Mid(c))
PosSide(pos) == Adding(pos)

\* entry_quote: inside the touch, or off the mid but never through the book.
MmrEntry(c, side) ==
  LET near == Touch(c, side)
      opp == Touch(c, Opp(side))
      improved == Away(side, near, -MM.entry)
      legacy == Away(side, Mid(c), MM.entry)
      px == IF MM.fromTouch THEN IF Farther(side, improved, opp) THEN improved ELSE near
            ELSE IF Farther(side, legacy, opp) THEN legacy ELSE near
  IN  Post(side, px, Lot)

\* exit_quote, a regular order's worth on the side opposing `side`.
MmrExit(anchor, side) == Post(Opp(side), Away(Opp(side), anchor, MM.exit), Lot)

\* relaxed_exit_price, fixed so that it does not follow the touch.
Relaxed(c) == Away(Closing(c.pos), c.avg, MM.floor)
MmrRelaxes(c) ==
  /\ MM.relax > 0 /\ AdverseMove(c) >= MM.relax /\ MM.floor > 0
  /\ Farther(Closing(c.pos), Relaxed(c), Touch(c, Adding(c.pos)))
  /\ Farther(Closing(c.pos), Touch(c, Closing(c.pos)), Relaxed(c))
  /\ ~\E o \in Shown(c, Closing(c.pos)) : o.px = Relaxed(c)

MmrEnters(s, c, side) ==
  /\ Sgn(Opp(side)) * (c.trade.px - Mid(c)) >= MM.trigger
  /\ MM.confirm => ~Farther(side, c.trade.px, Touch(c, side)) \/ c.trade.px = Touch(c, side)
  /\ ~(/\ MM.addBlock > 0 /\ c.pos # 0 /\ PosSide(c.pos) = side
       /\ AdverseMove(c) >= MM.addBlock)
  /\ ~Throttled(s, side, c.now)
  /\ Cardinality(Shown(c, side)) < MM.maxEntries

Mmr(s, c) ==
  IF TwoSided(c) /\ MmrRelaxes(c)
  THEN Out(s, <<CancelAll, Post(Closing(c.pos), Relaxed(c), Abs(c.pos))>>)
  ELSE CASE c.k = "trade" /\ TwoSided(c) /\ \E side \in Sides : MmrEnters(s, c, side) ->
              LET side == CHOOSE x \in Sides : MmrEnters(s, c, x)
              IN  Out([s EXCEPT ![side] = c.now], <<MmrEntry(c, side)>>)
         [] c.k = "fill" /\ c.fill.full /\ c.pos # 0 ->
              Out(s, <<CancelAll, MmrExit(IF c.avg > 0 THEN c.avg ELSE c.fill.px, c.fill.side)>>)
         [] OTHER -> Out(s, << >>)

\* A crossing order is tried again once per cooldown; an exit stays an exit.
MmrRejected(s0, c, q, why) ==
  LET crossed == why = "cross"
      s == IF crossed THEN [s0 EXCEPT ![q.side] = c.now] ELSE s0
      anchor == IF c.avg > 0 THEN c.avg ELSE q.px
  IN  IF ~TwoSided(c) \/ (crossed /\ (MM.cooldown = 0 \/ Throttled(s0, q.side, c.now)))
      THEN Out(s0, << >>)
      ELSE IF c.pos # 0 /\ q.side = Closing(c.pos)
      THEN Out(s, <<MmrExit(anchor, PosSide(c.pos))>>)
      ELSE Out(s, <<MmrEntry(c, q.side)>>)

-----------------------------------------------------------------------------
(* rsi_mr: bars of the mids and the prints; an oversold close on a quiet,
   heavy bar buys at the bid; a stop or a time-out sells at the bid.         *)

RS == RevertCfg.rsi
NoBar == [hi |-> None, lo |-> None, cl |-> None, vol |-> 0]
RsiInit ==
  [closed |-> << >>, bar |-> NoBar, bucket |-> Never, seen |-> 0,
   entry |-> None, at |-> 0, atr |-> 0, pending |-> Never, pAtr |-> 0]

\* maybe_roll_bar and update_open_bar_price
RsiRoll(s, t, p) ==
  LET bucket == t \div RS.bar
      fresh == [hi |-> p, lo |-> p, cl |-> p, vol |-> 0]
  IN  CASE s.bucket = Never -> [s EXCEPT !.bucket = bucket, !.bar = fresh]
        [] s.bucket = bucket ->
             [s EXCEPT !.bar = [@ EXCEPT !.cl = p, !.hi = Max({@, p}), !.lo = Min({@, p})]]
        [] OTHER -> [s EXCEPT !.closed = LET all == Append(@, s.bar)
                                         IN  SubSeq(all, Max({1, Len(all) - RS.maxBars + 1}), Len(all)),
                              !.seen = @ + 1, !.bucket = bucket, !.bar = fresh]

Ready(s, n) == Len(s.closed) > n
SumOver(S, f(_)) == FoldSet(LAMBDA i, acc : acc + f(i), 0, S)
\* The last n bars, and the change of the close into each.
LastBars(s, n) == (Len(s.closed) - n + 1) .. Len(s.closed)
Change(s, i) == s.closed[i].cl - s.closed[i - 1].cl
Gains(s) == SumOver(LastBars(s, RS.n), LAMBDA i : Max({0, Change(s, i)}))
Losses(s) == SumOver(LastBars(s, RS.n), LAMBDA i : Max({0, -Change(s, i)}))
RsiBelow(s, x) == Losses(s) > 0 /\ 100 * Gains(s) < x * (Gains(s) + Losses(s))
RsiAbove(s, x) == IF Losses(s) = 0 THEN x < 100 ELSE 100 * Gains(s) > x * (Gains(s) + Losses(s))
KerBelow(s, x) ==
  LET path == SumOver(LastBars(s, RS.n), LAMBDA i : Abs(Change(s, i)))
      net == Abs(s.closed[Len(s.closed)].cl - s.closed[Len(s.closed) - RS.n].cl)
  IN  IF path = 0 THEN x > 0 ELSE 100 * net < x * path
TrueRange(s, i) ==
  LET b == s.closed[i]  p == s.closed[i - 1].cl
  IN  Max({b.hi - b.lo, Abs(b.hi - p), Abs(b.lo - p)})
Atr(s) == IF Ready(s, RS.n) THEN SumOver(LastBars(s, RS.n), LAMBDA i : TrueRange(s, i)) \div RS.n ELSE 0
\* The last volume against the n before it, in standard deviations.
VolAbove(s, z) ==
  LET before == (Len(s.closed) - RS.n) .. (Len(s.closed) - 1)
      sum == SumOver(before, LAMBDA i : s.closed[i].vol)
      d == RS.n * s.closed[Len(s.closed)].vol - sum
      var == RS.n * SumOver(before, LAMBDA i : s.closed[i].vol * s.closed[i].vol) - sum * sum
  IN  IF var = 0 THEN 0 > z ELSE d > 0 /\ d * d > z * z * var

\* make_exit_quote: a regular order's worth when there is no position.
RsiExit(c, px, tif) == Order("ask", px, IF c.pos = 0 THEN Lot ELSE Abs(c.pos), tif)
CeilTick(p) == -FloorTick(-p)

RsiMr(s0, c) ==
  LET p == CASE c.k = "book" /\ TwoSided(c) -> Mid(c) [] c.k = "trade" -> c.trade.px [] OTHER -> None
      rolled == IF p = None THEN s0 ELSE RsiRoll(s0, c.now, p)
      s1 == IF c.k = "trade" THEN [rolled EXCEPT !.bar.vol = @ + c.trade.sz] ELSE rolled
      stale == s1.pending # Never /\ s1.entry = None /\ s1.seen > s1.pending
      s == IF stale THEN [s1 EXCEPT !.pending = Never] ELSE s1
      first == When(stale, <<CancelAll>>)
      held == s.entry # None
      out == /\ held /\ TwoSided(c)
             /\ \/ Mid(c) < s.entry - s.atr * RS.sl
                \/ s.seen - s.at >= RS.maxHold
      tired == held /\ TwoSided(c) /\ Ready(s, RS.n) /\ RsiAbove(s, RS.exitAt)
      target == When(tired, <<CancelAll, RsiExit(c, c.ask, "post")>>)
      buys == /\ ~held /\ s.pending = Never /\ c.k = "book" /\ c.bid # None
              /\ Ready(s, RS.n) /\ RsiBelow(s, RS.buy) /\ KerBelow(s, RS.trending)
              /\ VolAbove(s, RS.volz) /\ Atr(s) > 0
      \* the fill of an entry, priced off the volatility the entry saw
      atr == IF s.pending # Never THEN s.pAtr ELSE Atr(s)
      bought == c.k = "fill" /\ c.fill.side = "bid" /\ ~held
      sold == c.k = "fill" /\ c.fill.side = "ask" /\ c.fill.full
      tp == CeilTick(c.fill.px + atr * RS.tp)
  IN  CASE out -> Out([s EXCEPT !.entry = None],
                      first \o <<CancelAll, RsiExit(c, FloorTick(c.bid), "ioc")>>)
        [] ~out /\ buys -> Out([s EXCEPT !.pending = s.seen, !.pAtr = Atr(s)],
                               first \o <<Post("bid", FloorTick(c.bid), Lot)>>)
        [] ~out /\ ~buys /\ bought ->
             Out([s EXCEPT !.entry = c.fill.px, !.atr = atr, !.pending = Never,
                           !.at = IF s.pending # Never THEN s.pending ELSE s.seen],
                 first \o <<CancelAll, RsiExit(c, tp, "post")>>)
        [] OTHER -> Out(IF sold THEN [s EXCEPT !.entry = None] ELSE s, first \o target)

-----------------------------------------------------------------------------
(* rebalance: rungs frozen at the first mid; the opening units bought by taker
   orders, then a ladder whose every fill rests its mirror one rung away.  A
   rung's size is the difference of the target units around it: one Lot.     *)

RB == RevertCfg.rebalance
RebalanceInit == [anchor |-> None, placed |-> FALSE, parked |-> {}]

RungPx(anchor, i) == anchor + RB.band * i
OpenUnits == RB.levels * Lot        \* the units held at the anchor

\* initial_ladder, from the lowest rung up
RbLadder(anchor) ==
  Ladder(-RB.levels, RB.levels, LAMBDA i :
    When(i # 0 /\ RungPx(anchor, i) > 0,
         <<Post(IF i < 0 THEN "bid" ELSE "ask", RungPx(anchor, i), Lot)>>))

\* mirror: a fill at no rung, of the opening or larger than the rung is not one.
RbMirror(s, f) ==
  LET i == CHOOSE n \in -RB.levels .. RB.levels : RungPx(s.anchor, n) = f.px
      there == \E n \in -RB.levels .. RB.levels : RungPx(s.anchor, n) = f.px
      inside == IF f.side = "bid" THEN i < RB.levels ELSE i > -RB.levels
  IN  When(there /\ inside /\ f.sz <= Lot, <<Post(Opp(f.side), RungPx(s.anchor, i + Sgn(f.side)), f.sz)>>)

\* The refused rungs that no longer cross are placed again.
RbAgain(s, c) ==
  LET free == {q \in s.parked : Touch(c, Opp(q.side)) # None
                                /\ Farther(q.side, q.px, Touch(c, Opp(q.side)))}
  IN  Out([s EXCEPT !.parked = @ \ free], SetToSeq(free))

Rebalance(s0, c) ==
  LET s == IF s0.anchor = None THEN [s0 EXCEPT !.anchor = Mid(c)] ELSE s0
  IN  CASE c.k = "fill" /\ s0.placed -> Out(s0, RbMirror(s0, c.fill))
        [] c.k = "book" /\ TwoSided(c) /\ s.placed -> RbAgain(s, c)
        [] c.k = "book" /\ TwoSided(c) /\ ~s.placed /\ OpenUnits > c.pos ->
             Out(s, <<Order("bid", c.ask + RB.slip, OpenUnits - c.pos, "ioc")>>)
        [] c.k = "book" /\ TwoSided(c) /\ ~s.placed /\ OpenUnits <= c.pos ->
             Out([s EXCEPT !.placed = TRUE], RbLadder(s.anchor))
        [] OTHER -> Out(s0, << >>)

RebalanceRejected(s, c, q, why) ==
  Out(IF s.placed THEN [s EXCEPT !.parked = @ \cup {q}] ELSE s, << >>)
=============================================================================
