------------------------------- MODULE Grids -------------------------------
(* The strategies that keep a grid of orders around the mid: static_grid,
   layered_grid, flat_mm and hydra.  GridCfg holds their configurations.     *)
EXTENDS Market

CONSTANT GridCfg

-----------------------------------------------------------------------------
(* static_grid: a batch of levels skewed by the inventory, rebuilt whole when
   a side runs empty, with a risk gate in front.                             *)

SG == GridCfg.static
StaticGridInit ==
  [placed |-> FALSE, bid |-> None, ask |-> None, fills |-> << >>, start |-> Never,
   now |-> 0, refill |-> [bid |-> Never, ask |-> Never], samples |-> << >>,
   closed |-> Never, capped |-> [bid |-> FALSE, ask |-> FALSE]]

SgMid(s) == (s.bid + s.ask) \div 2
AddCapped(pos, cap, side) == cap > 0 /\ Sgn(side) * pos >= cap

(* RegimeTracker: the mids of the window; trending when their net move is a
   large enough part of the path.                                            *)
Observe(samples, now, mid) ==
  Append(SelectSeq(samples, LAMBDA x : x.ts >= now - SG.window), [ts |-> now, mid |-> mid])

Trending(samples) ==
  LET n == Len(samples)
      net == samples[n].mid - samples[1].mid
      path == FoldSeq(LAMBDA x, acc : acc + x, 0,
                [i \in 1 .. n - 1 |-> Abs(samples[i + 1].mid - samples[i].mid)])
  IN  SG.window = 0 \/ n < 2 \/ path = 0 \/ 100 * Abs(net) >= SG.efficiency * path

\* adaptive_scale: fills per unit of time against the target, clamped.
SgScale(s) ==
  LET span == Max({1, Min({s.now - s.start, SG.fillWindow})})
      raw == (Len(s.fills) * 10) \div (span * SG.target)
  IN  IF SG.target = 0 \/ s.fills = << >> \/ s.start = Never THEN 1
      ELSE Max({1, Min({raw, SG.scaleMax})})

\* make_level: the closing side of a skewed grid joins the touch, the others
\* widen from the mid by 1 + |ratio|, but never inside a wide market.
SgLevel(s, pos, side, k) ==
  LET scale == SgScale(s)
      skewed == SG.autoSkew /\ Trending(s.samples)
      weak == skewed /\ pos # 0 /\ side = Closing(pos)
      full == SG.levels * Lot
      bps == (SG.inner + SG.step * k) * scale
      wide == Max({1, bps + IF skewed THEN (bps * Min({Abs(pos), full})) \div full ELSE 0})
      best == IF side = "bid" THEN s.bid ELSE s.ask
      px == CASE weak -> Away(side, best, SG.step * k * scale)
              [] ~weak /\ k = 0 /\ s.ask - s.bid > 2 * SG.inner * scale -> Away(side, best, 1)
              [] OTHER -> Away(side, SgMid(s), wide)
  IN  Post(side, px, Lot)

\* build_batch, the nearest to the mid first, after the actions in front
SgBatch(s, pos, front) ==
  LET capped == [side \in Sides |-> AddCapped(pos, SG.cap, side)]
      quotes == Ladder(0, SG.levels - 1, LAMBDA k :
                  When(~capped["bid"], <<SgLevel(s, pos, "bid", k)>>)
                  \o When(~capped["ask"], <<SgLevel(s, pos, "ask", k)>>))
  IN  Out([s EXCEPT !.capped = capped], front \o NearestFirst(quotes, SgMid(s)))
SgRebuild(s, pos) == SgBatch(s, pos, <<CancelAll>>)

\* rebuild_decision: a side is empty that the cap did not leave empty.
SgBroken(s, c) == \E side \in Sides : Shown(c, side) = {} /\ ~s.capped[side]
SgLast(c) == \A side \in Sides : Cardinality(Shown(c, side)) = 1

SgCooling(s, side, now) ==
  s.refill[side] # Never /\ now - s.refill[side] < SG.cooldown

(* try_risk_close: while a close is on its way nothing else is done; flat
   re-arms it.                                                               *)
SgRiskOn == SG.tp > 0 \/ SG.sl > 0
SgCloses(s, c) == SgRiskOn /\ RiskCloses(c.pos, c.avg, SgMid(s), SG.tp, SG.sl, 0)
SgArmed(s, c) == IF SgRiskOn /\ c.pos = 0 THEN [s EXCEPT !.closed = Never] ELSE s
SgCloseUnlatched(s, c) == Out(s, <<CancelAll, BuildClose(c.pos, s)>>)
SgClose(s, c) ==
  IF s.closed # Never /\ c.now - s.closed < SG.retry THEN Out(s, << >>)
  ELSE Out([s EXCEPT !.closed = c.now],
           <<CancelAll, BuildClose(c.pos, s)>>)

StaticGridBook(s0, c) ==
  LET s == SgArmed([s0 EXCEPT !.bid = c.bid, !.ask = c.ask,
                              !.samples = Observe(@, c.now, Mid(c))], c)
      cooling == \E side \in Sides : SgCooling(s, side, c.now)
  IN  CASE SgCloses(s, c) -> SgClose(s, c)
        [] ~SgCloses(s, c) /\ ~s.placed -> SgBatch([s EXCEPT !.placed = TRUE], c.pos, << >>)
        [] ~SgCloses(s, c) /\ s.placed /\ (~SgBroken(s, c) \/ cooling) -> Out(s, << >>)
        [] OTHER -> SgRebuild([s EXCEPT !.refill = [side \in Sides |-> c.now]], c.pos)

StaticGridFill(s0, c) ==
  LET s1 == [s0 EXCEPT !.fills = SelectSeq(Append(@, c.now), LAMBDA t : t >= c.now - SG.fillWindow),
                       !.refill = [side \in Sides |-> Never]]
      s == SgArmed(s1, c)
  IN  IF ~c.fill.full \/ s1.bid = None THEN Out(s1, << >>)
      ELSE IF SgCloses(s, c) THEN SgClose(s, c)
      ELSE IF SgLast(c) \/ SgBroken(s, c) THEN SgRebuild(s, c.pos)
      ELSE Out(s, << >>)

StaticGrid(s0, c) ==
  LET s == [s0 EXCEPT !.start = IF @ = Never THEN c.now ELSE @, !.now = c.now]
  IN  CASE c.k = "book" /\ TwoSided(c) -> StaticGridBook(s, c)
        [] c.k = "fill" -> StaticGridFill(s, c)
        [] OTHER -> Out(s, << >>)

\* One replacement at the inner level, unless capped or just retried.
StaticGridRejected(s0, c, q, why) ==
  IF ~TwoSided(c) THEN Out(s0, << >>)
  ELSE LET s == [s0 EXCEPT !.bid = c.bid, !.ask = c.ask]
       IN  IF AddCapped(c.pos, SG.cap, q.side) \/ SgCooling(s, q.side, c.now)
           THEN Out(s, << >>)
           ELSE Out([s EXCEPT !.refill[q.side] = c.now], <<SgLevel(s, c.pos, q.side, 0)>>)

-----------------------------------------------------------------------------
(* layered_grid: a mirror of the ladder it believes rests; a full fill takes
   profit on the other side, extends its own, and drops the other side's
   outermost order.                                                          *)

LG == GridCfg.layered
LayeredInit == [placed |-> FALSE, orders |-> << >>, closed |-> Never]

Rung(side, px) == [side |-> side, px |-> px]
RungsOn(orders, side) == {r \in ToSet(orders) : r.side = side}
PostRung(r) == Post(r.side, r.px, Lot)
PostRungs(rs) == [i \in 1 .. Len(rs) |-> PostRung(rs[i])]

\* side_room: how many whole levels the cap still leaves a side, its resting
\* orders reserved.
LgRoom(c, open, side) ==
  LET reserved == FoldSet(LAMBDA o, n : n + o.sz, 0, {o \in open : o.side = side})
      room == LG.cap - Sgn(side) * c.pos - reserved
  IN  IF LG.cap = 0 THEN LG.levels ELSE Clip(room \div Lot, 0, LG.levels)

\* place_initial: level k at k times the spacing from the mid.
LgLadder(c, open) ==
  Ladder(1, LG.levels, LAMBDA k :
    FlattenSeq([i \in 1 .. 2 |->
      LET side == <<"bid", "ask">>[i]
      IN  When(k <= LgRoom(c, open, side), <<Rung(side, Away(side, Mid(c), LG.inner * k))>>)]))

\* Drop the filled order from the mirror: the exact one, or its nearest.
LgFilled(orders, f) ==
  LET same == RungsOn(orders, f.side)
      hit == CHOOSE r \in same : \A q \in same : Abs(r.px - f.px) <= Abs(q.px - f.px)
  IN  IF same = {} THEN orders ELSE RemoveFirst(orders, hit)

LayeredFill(s, c, f) ==
  LET back == Opp(f.side)
      left == LgFilled(s.orders, f)
      there == RungsOn(left, back)
      drop == Rung(back, Outermost(back, Prices(there)))
      tp == Rung(back, Away(back, f.px, LG.inner))
      same == Prices(RungsOn(left, f.side))
      edge == IF same = {} THEN f.px ELSE Outermost(f.side, same)
      more == <<tp>> \o When(~AddCapped(c.pos, LG.cap, f.side),
                             <<Rung(f.side, Away(f.side, edge, LG.inner))>>)
      grown == left \o more
      kept == IF there = {} THEN grown ELSE RemoveFirst(grown, drop)
      shown == {o \in c.open : o.side = drop.side /\ o.px = drop.px}
  IN  Out([s EXCEPT !.orders = kept],
          CASE there = {} -> PostRungs(more)
            [] there # {} /\ shown # {} ->
                 PostRungs(more) \o CancelThose({CHOOSE o \in shown : TRUE})
            [] OTHER -> <<CancelAll>> \o PostRungs(kept))

LgRiskOn == LG.tp > 0 \/ LG.sl > 0

LayeredBook(s0, c) ==
  LET s == IF LgRiskOn /\ c.pos = 0 THEN [s0 EXCEPT !.closed = Never] ELSE s0
      fresh == LgLadder(c, c.open)
  IN  CASE LgRiskOn /\ RiskCloses(c.pos, c.avg, Mid(c), LG.tp, LG.sl, 0) ->
             IF s.closed # Never /\ c.now - s.closed < LG.retry THEN Out(s, << >>)
             ELSE Out([placed |-> FALSE, orders |-> << >>, closed |-> c.now],
                      <<CancelAll, BuildClose(c.pos, c)>>)
        [] s.placed -> Out(s, << >>)
        [] OTHER -> Out([s EXCEPT !.placed = TRUE, !.orders = fresh],
                        PostRungs(fresh) \o CancelThose(c.open))

LayeredGrid(s, c) ==
  CASE c.k = "book" /\ TwoSided(c) -> LayeredBook(s, c)
    [] c.k = "fill" /\ c.fill.full /\ s.placed -> LayeredFill(s, c, c.fill)
    [] OTHER -> Out(s, << >>)

\* Everything is wiped and laid again off the mid of now.
LayeredRejected(s, c, q, why) ==
  IF ~TwoSided(c) THEN Out(s, << >>)
  ELSE LET fresh == LgLadder(c, {})
       IN  Out([s EXCEPT !.placed = TRUE, !.orders = fresh], <<CancelAll>> \o PostRungs(fresh))

-----------------------------------------------------------------------------
(* flat_mm: a ladder around a reservation price, reconciled order by order;
   or, frozen, a lattice fixed at the first mid whose orders never move.
   A slot's size is a number of lots over FM.unit.                           *)

FM == GridCfg.flat
FlatInit == [mid |-> None, origin |-> None]

FlatLots(num) == Max({1, num \div FM.unit})
\* 20 % off: worth a requote
OffSize(sz, num) == 5 * Abs(sz * FM.unit - num) > num
FlatIntent(slot) == Post(slot.side, RoundTick(slot.px), FlatLots(slot.num))

\* The reducing side heavier, the adding side lighter, or heavier too when it
\* chases an underwater bag.
FlatMult(c, side) ==
  LET abs == Min({Abs(c.pos), FM.unit})
      under == c.avg > 0 /\ Drift(c.pos, c.avg, Mid(c)) < 0
  IN  CASE c.pos = 0 -> FM.unit
        [] c.pos # 0 /\ side = Closing(c.pos) -> FM.unit + abs
        [] OTHER -> IF FM.chase > 0 /\ under THEN FM.unit + (FM.chase * abs) \div 100
                    ELSE FM.unit - abs

FlatSlot(c, r, side, k) ==
  LET px == Away(side, r, FM.inner + FM.step * (k - 1))
      loses == c.pos # 0 /\ side = Closing(c.pos) /\ Sgn(side) * (c.avg - px) < 0
      num == Lot * FlatMult(c, side)
  IN  [side |-> side, px |-> px, num |-> IF loses THEN (num * FM.underwater) \div 100 ELSE num]

\* The break-even flush: part of the bag beyond its average, off the touch.
FlatFlush(c) ==
  LET side == Closing(c.pos)
      target == Away(side, c.avg, FM.flush)
      best == Touch(c, side)
  IN  When(FM.flush > 0 /\ c.avg > 0 /\ c.pos # 0,
           <<[side |-> side, px |-> IF Farther(side, best, target) THEN target ELSE best,
              num |-> (Abs(c.pos) * FM.unit * FM.flushFrac) \div 100]>>)

FlatDesired(c) ==
  LET r == Mid(c) - (FM.skew * Clip(c.pos, -FM.unit, FM.unit)) \div FM.unit
           + (FM.imbalance * (c.bsz - c.asz)) \div (c.bsz + c.asz)
      slots == Ladder(1, FM.levels, LAMBDA k : <<FlatSlot(c, r, "bid", k), FlatSlot(c, r, "ask", k)>>)
  IN  SelectSeq(slots \o FlatFlush(c), LAMBDA x : x.px > 0 /\ x.num > 0)

\* reconcile: every slot claims the nearest order of its side within half a
\* gap, requoting it when its size is off; the unclaimed orders go.
FlatReconcile(c, slots) ==
  LET Claim(acc, slot) ==
        LET near == {o \in Shown(c, slot.side) \ acc.used : Abs(o.px - slot.px) <= FM.step \div 2}
            o == CHOOSE x \in near : \A y \in near : Abs(x.px - slot.px) <= Abs(y.px - slot.px)
            q == FlatIntent(slot)
        IN  IF near = {} THEN [acc EXCEPT !.acts = Append(@, q)]
            ELSE [used |-> acc.used \cup {o},
                  acts |-> acc.acts \o When(OffSize(o.sz, slot.num),
                                            <<Requote(o.id, q.side, q.px, q.sz)>>)]
      done == FoldLeft(Claim, [used |-> {}, acts |-> << >>], slots)
  IN  done.acts \o CancelThose(c.open \ done.used)

FlatRequote(c) == FlatReconcile(c, FlatDesired(c))

(* frozen_reconcile *)
FrozenRungs(c, origin) ==
  LET mid == Mid(c)
      kMid == (2 * (mid - origin) + FM.step) \div (2 * FM.step)
      at == {origin + k * FM.step : k \in (kMid - FM.band) .. (kMid + FM.band)}
  IN  {Rung("bid", p) : p \in {x \in at : x > 0 /\ x < mid - FM.inner /\ x < c.ask}}
      \cup {Rung("ask", p) : p \in {x \in at : x > mid + FM.inner /\ x > c.bid}}

FrozenReconcile(s, c) ==
  LET origin == IF s.origin = None THEN Mid(c) ELSE s.origin
      rungs == {[r EXCEPT !.px = RoundTick(@)] : r \in FrozenRungs(c, origin)}
      On(r) == {o \in c.open : o.side = r.side /\ o.px = r.px}
      held == {r \in rungs : On(r) # {}}
      claimed == {CHOOSE o \in On(r) : TRUE : r \in held}
      new == SetToSeq({PostRung(r) : r \in rungs \ held})
      resized == SetToSeq({Requote(o.id, o.side, o.px, Lot) :
                             o \in {x \in claimed : OffSize(x.sz, Lot * FM.unit)}})
      Far(o) == Abs(o.px - Mid(c))
      out == {o \in c.open \ claimed : Far(o) > FM.band * FM.step}
      excess == Cardinality(c.open) + Len(new) - FM.maxOpen
      trimmed == {o \in out : Cardinality({x \in out : Far(x) > Far(o)}) < excess}
  IN  Out([s EXCEPT !.origin = origin], new \o resized \o CancelThose(trimmed))

\* A book move below the quoted spread cannot have touched the ladder.
FlatMm(s, c) ==
  CASE c.k \notin {"book", "fill"} \/ ~TwoSided(c) -> Out(s, << >>)
    [] c.k \in {"book", "fill"} /\ TwoSided(c) /\ FM.frozen -> FrozenReconcile(s, c)
    [] OTHER ->
         IF c.k = "fill" \/ s.mid = None \/ Abs(Mid(c) - s.mid) >= 2 * FM.inner
         THEN Out([s EXCEPT !.mid = Mid(c)], FlatRequote(c))
         ELSE Out(s, << >>)

\* The frozen mode is not asked here.
FlatRejected(s, c, q, why) == Out(s, When(TwoSided(c), FlatRequote(c)))

-----------------------------------------------------------------------------
(* hydra: a straddle while flat; once a leg fills, a take-profit at rest, adds
   by taker orders along the drift, a stop loss off the very first fill.     *)

HY == GridCfg.hydra
HydraInit ==
  [phase |-> "idle", long |-> TRUE, first |-> None, pyramid |-> 0, dca |-> 0,
   lastAdd |-> 0, tp |-> None, bid |-> None, ask |-> None, placed |-> FALSE,
   placedTs |-> 0, anchor |-> None, slTs |-> Never]

HySide(long) == IF long THEN "bid" ELSE "ask"
HyFree(s) == [s EXCEPT !.placed = FALSE, !.placedTs = 0, !.anchor = None]

\* build_straddle
HyStraddle(s) ==
  LET mid == (s.bid + s.ask) \div 2
      b == FloorTick(mid - HY.offset)
      a == FloorTick(mid + HY.offset)
  IN  When(b > 0 /\ b < s.ask, <<Post("bid", b, Lot)>>)
      \o When(a > s.bid, <<Post("ask", a, Lot)>>)

HyTpPx(long, avg) == FloorTick(Away(Opp(HySide(long)), avg, HY.tp))

\* build_tp_intent: at rest, or a taker at the touch when it would cross.
HyTp(s, c, long) ==
  LET side == Opp(HySide(long))
      px == HyTpPx(long, c.avg)
      crosses == Sgn(side) * (px - s[HySide(long)]) >= 0
  IN  CASE HY.tp = 0 \/ c.avg <= 0 \/ c.pos = 0 -> << >>
        [] HY.tp > 0 /\ c.avg > 0 /\ c.pos # 0 /\ crosses -> <<TakerAt(side, Abs(c.pos), s)>>
        [] OTHER -> <<Post(side, px, Abs(c.pos))>>
TpPx(tp, old) == IF tp = << >> THEN old ELSE tp[1].px

\* maybe_add: within the cap, lots scaled by the arm and never rounded to none
\* from half a lot up.
HyAdd(s, c, long, mult) ==
  LET floor == (Lot * mult) \div 100
      lots == IF floor = 0 /\ 2 * Lot * mult > 100 THEN 1 ELSE floor
  IN  When(lots > 0 /\ (HY.cap = 0 \/ Abs(c.pos) + lots <= HY.cap),
           <<TakerAt(HySide(long), lots, s)>>)

HydraEnter(s, c) ==
  LET long == c.pos > 0
      tp == HyTp(s, c, long)
  IN  IF s.slTs # Never /\ c.now - s.slTs < HY.retry THEN Out(s, << >>)
      ELSE Out([HyFree(s) EXCEPT !.phase = "holding", !.long = long, !.first = c.avg,
                  !.pyramid = 0, !.dca = 0, !.lastAdd = c.now, !.tp = TpPx(tp, None)],
               <<CancelAll>> \o tp)

HydraIdle(s0, c) ==
  LET s == [s0 EXCEPT !.slTs = Never]
      mid == (s.bid + s.ask) \div 2
      stale == \/ ~s.placed
               \/ HY.refresh > 0 /\ c.now - s.placedTs >= HY.refresh
               \/ HY.drift > 0 /\ s.anchor # None /\ Abs(mid - s.anchor) >= HY.drift
  IN  IF stale
      THEN Out([s EXCEPT !.placed = TRUE, !.placedTs = c.now, !.anchor = mid],
               <<CancelAll>> \o HyStraddle(s))
      ELSE Out(s, << >>)

HydraHold(s, c) ==
  LET mid == (s.bid + s.ask) \div 2
      drift == IF s.long THEN mid - s.first ELSE s.first - mid
      Bands(d, step, max) == IF step = 0 THEN 0 ELSE Min({max, Max({0, d}) \div step})
      up == Bands(drift, HY.pyramidStep, HY.pyramidMax)
      down == Bands(-drift, HY.dcaStep, HY.dcaMax)
      cool == c.now - s.lastAdd >= HY.cooldown
      pyramid == When(cool /\ up > s.pyramid, HyAdd(s, c, s.long, HY.pyramidMult))
      dca == When(cool /\ down > s.dca /\ pyramid = << >>, HyAdd(s, c, s.long, HY.dcaMult))
      moved == s.tp = None \/ Abs(HyTpPx(s.long, c.avg) - s.tp) > Tick
      tp == When(HY.tp > 0 /\ moved, HyTp(s, c, s.long))
  IN  CASE HY.sl > 0 /\ -drift >= HY.sl ->
             Out([s EXCEPT !.phase = "idle", !.placed = FALSE, !.slTs = c.now],
                 <<CancelAll, TakerAt(Opp(HySide(s.long)), Abs(c.pos), s)>>)
        [] pyramid # << >> -> Out([s EXCEPT !.pyramid = up, !.lastAdd = c.now], pyramid)
        [] pyramid = << >> /\ dca # << >> -> Out([s EXCEPT !.dca = down, !.lastAdd = c.now], dca)
        [] OTHER -> Out([s EXCEPT !.tp = TpPx(tp, @)], When(tp # << >>, <<CancelAll>> \o tp))

\* A fill or a heartbeat works on the last book seen.
Hydra(s0, c) ==
  LET s == IF c.k = "book" THEN [s0 EXCEPT !.bid = c.bid, !.ask = c.ask] ELSE s0
  IN  CASE c.k = "trade" \/ (c.k = "book" /\ ~TwoSided(c)) \/ s.bid = None \/ s.ask <= s.bid ->
             Out(IF c.k = "book" /\ TwoSided(c) THEN s ELSE s0, << >>)
        [] s.phase = "idle" /\ c.pos # 0 -> HydraEnter(s, c)
        [] s.phase = "idle" /\ c.pos = 0 -> HydraIdle(s, c)
        [] s.phase = "holding" /\ c.pos = 0 ->
             Out([HyFree(s) EXCEPT !.phase = "idle", !.slTs = Never], <<CancelAll>>)
        [] OTHER -> HydraHold(s, c)
=============================================================================
