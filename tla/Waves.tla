-------------------------------- MODULE Waves --------------------------------
(* The strategies whose window of active slots slides along a frozen grid:
   tidal and wave.  Slot k of a side is k steps beyond the side's origin, so a
   larger k is farther from the market; a window is a range [lo, hi] of slots.
   A step is a part of the mid (here in hundredths), rounded up to the tick.
   WaveCfg holds the configurations.                                         *)
EXTENDS Market

CONSTANT WaveCfg

CeilDiv(n, d) == -((-n) \div d)
RoundDiv2(n, d) == (2 * n + d) \div (2 * d)
StepOf(mid, pct) == Tick * CeilDiv(mid * pct, 100 * Tick)

\* The origins and the step a lattice is frozen at; step None before that.
NoGrid == [bid |-> None, ask |-> None, step |-> None]
SlotPx(g, side, k) == Away(side, g[side], k * g.step)
SlotAt(g, side, px) == CeilDiv(Sgn(side) * (g[side] - px), g.step)
Window(lo, n) == [lo |-> lo, n |-> n, hi |-> lo + n - 1]

\* top_overrides: an inner dead zone around the mid, never inside the touch.
Tops(c, inner, step) ==
  LET half == inner * step
  IN  [bid |-> Min({FloorTick(Mid(c) - half), c.bid}), ask |-> Max({-FloorTick(-(Mid(c) + half)), c.ask})]

\* The slot at or behind the cross-guarded top of a side.
TopSlot(g, c, top, side) ==
  LET guard == Away(side, Touch(c, Opp(side)), Tick)
  IN  SlotAt(g, side, IF Farther(side, guard, top[side]) THEN guard ELSE top[side])

Slots(g, side, w) == {k \in w.lo .. w.hi : SlotPx(g, side, k) > 0}
PresentAcross(c, side, px) == \E o \in Shown(c, Opp(side)) : o.px = px
Present(c, side, px) == \E o \in Shown(c, side) : o.px = px
Missing(g, c, side, w) == Cardinality({k \in Slots(g, side, w) : ~Present(c, side, SlotPx(g, side, k))})

\* emit_window_slots: the empty slots that do not cross, size[k] lots each.
EmitWindow(g, c, side, w, size) ==
  Ladder(0, w.n - 1, LAMBDA i :
    LET px == SlotPx(g, side, w.lo + i)
    IN  When(px > 0 /\ Farther(side, px, Touch(c, Opp(side))) /\ ~Present(c, side, px),
             <<Post(side, px, size[w.lo + i])>>))

Beyond(g, c, side, w) == {o \in Shown(c, side) : Farther(side, o.px, SlotPx(g, side, w.hi))}
Before(g, c, side, w) == {o \in Shown(c, side) : Farther(side, SlotPx(g, side, w.lo), o.px)}
PruneBand(g, c, side, w, spared) ==
  IF SlotPx(g, side, w.hi) > 0 /\ SlotPx(g, side, w.lo) > 0
  THEN CancelThose((Beyond(g, c, side, w) \cup Before(g, c, side, w)) \ spared) ELSE << >>

-----------------------------------------------------------------------------
(* tidal *)

TL == WaveCfg.tidal
TidalInit == [grid |-> NoGrid, closed |-> Never]

TidalStep(mid) == Max({Tick, StepOf(mid, TL.step)})
CloseLots(pos, pct) == (Abs(pos) * pct) \div 100

\* Take profit at rest, or by a taker order once the mid is through it; a stop
\* by a taker order: one taker order per retry.
TidalTpAt(c) == Away(Closing(c.pos), c.avg, TL.tp)
TidalCloses(s, c) ==
  LET side == Closing(c.pos)
      d == Drift(c.pos, c.avg, Mid(c))
      px == IF side = "ask" THEN -FloorTick(-TidalTpAt(c)) ELSE FloorTick(TidalTpAt(c))
      idle == s.closed = Never \/ c.now - s.closed >= TL.retry
      Taker(pct) == <<TakerAt(side, CloseLots(c.pos, pct), c)>>
      on == c.pos # 0 /\ c.avg > 0
      tpOn == on /\ TL.tp > 0 /\ CloseLots(c.pos, TL.tpPct) > 0 /\ TidalTpAt(c) > 0
      tp == tpOn /\ d >= TL.tp
      rests == tpOn /\ d < TL.tp
      sl == on /\ TL.sl > 0 /\ -d >= TL.sl /\ CloseLots(c.pos, TL.slPct) > 0
  IN  [acts |-> When(tp /\ idle, Taker(TL.tpPct))
                \o When(rests /\ ~Present(c, side, px), <<Post(side, px, CloseLots(c.pos, TL.tpPct))>>)
                \o When(sl /\ idle /\ ~tp, Taker(TL.slPct)),
       spared |-> IF rests THEN {o \in Shown(c, side) : o.px = px} ELSE {},
       closed |-> IF (tp \/ sl) /\ idle THEN c.now ELSE s.closed]

\* The slots the adding side keeps off by, for the inventory it already holds.
TidalSkew(c, side) ==
  IF TL.cap > 0 /\ Sgn(side) * c.pos > 0
  THEN Min({TL.skew, RoundDiv2(Abs(c.pos) * TL.skew, TL.cap)}) ELSE 0

TidalWindow(g, c, side) ==
  LET holds == Sgn(side) * c.pos <= -Lot          \* this side reduces
      top == TopSlot(g, c, Tops(c, TL.inner, TidalStep(Mid(c))), side)
      chase == SlotAt(g, side, Away(side, c.avg, Max({TL.inner, 1}) * g.step))
      k == Max({top, IF holds /\ c.avg > 0 THEN chase ELSE 0})
  IN  Window(k + TidalSkew(c, side), IF holds THEN TL.reduce ELSE TL.levels)

TidalSide(g, c, side, w, drained, spared) ==
  LET n == drained[side]
      flat == Abs(c.pos) < Lot
      banked == \/ \A x \in Sides : drained[x] >= TL.refill
                \/ \E x \in Sides : drained[x] >= TL.levels
      emits == CASE Sgn(side) * c.pos <= -Lot -> TRUE
                 [] flat -> banked
                 [] OTHER -> n >= TL.levels
  IN  When(emits /\ ~(TL.cap > 0 /\ Sgn(side) * c.pos > TL.cap),
           EmitWindow(g, c, side, w, [k \in w.lo .. w.hi |-> Lot]) \o PruneBand(g, c, side, w, spared))

Tidal(s0, c) ==
  LET top == Tops(c, TL.inner, TidalStep(Mid(c)))
      g == IF s0.grid.step # None THEN s0.grid
           ELSE [bid |-> top.bid, ask |-> top.ask, step |-> TidalStep((top.bid + top.ask) \div 2)]
      s == [s0 EXCEPT !.grid = g, !.closed = IF c.pos = 0 THEN Never ELSE @]
      x == TidalCloses(s, c)
      w == [side \in Sides |-> TidalWindow(g, c, side)]
      drained == [side \in Sides |-> Missing(g, c, side, w[side])]
  IN  IF ~TwoSided(c)
      THEN Out(IF s0.grid.step = None THEN s0 ELSE [s0 EXCEPT !.closed = IF c.pos = 0 THEN Never ELSE @], << >>)
      ELSE Out([s EXCEPT !.closed = x.closed],
               x.acts \o TidalSide(g, c, "bid", w["bid"], drained, x.spared)
                      \o TidalSide(g, c, "ask", w["ask"], drained, x.spared))

-----------------------------------------------------------------------------
(* wave *)

WV == WaveCfg.wave
WaveInit ==
  [grid |-> NoGrid, sec |-> Never, hi |-> 0, lo |-> 0, gaps |-> << >>,
   inner |-> 0, dirty |-> FALSE, step |-> WV.step, refill |-> Never,
   last |-> [bid |-> None, ask |-> None]]

WvInner(s) == IF WV.autoInner THEN s.inner ELSE WV.inner
WvStepPct(s) == IF WV.autoStep /\ WV.step > 0 THEN s.step ELSE WV.step
WvStep(s, mid) ==
  LET n == mid * WvStepPct(s)
  IN  IF WvStepPct(s) = 0 THEN Tick ELSE IF n < 100 * Tick THEN 2 * Tick ELSE StepOf(mid, WvStepPct(s))

\* recompute_dyn_step, recompute_dyn_inner: from the average gap of the candles.
SumGaps(gaps) ==
  LET sum[i \in 0 .. Len(gaps)] == IF i = 0 THEN 0 ELSE sum[i - 1] + gaps[i]
  IN  sum[Len(gaps)]
WvRecompute(s) ==
  LET n == Len(s.gaps)
      step == IF WV.autoStep /\ WV.step > 0
              THEN Clip(RoundDiv2(SumGaps(s.gaps) * WV.k, n), WV.fees, Max({WV.step, WV.fees}))
              ELSE s.step
      pct == WvStepPct([s EXCEPT !.step = step])
      inner == IF pct = 0 THEN 0 ELSE Min({WV.maxInner, RoundDiv2(SumGaps(s.gaps), 2 * n * pct)})
  IN  [s EXCEPT !.step = step, !.inner = inner, !.dirty = @ \/ inner # s.inner]

\* update_candles: one candle per second, its range in hundredths of its mid.
WvCandle(s, mid, now) ==
  CASE ~(WV.autoInner \/ WV.autoStep) -> s
    [] (WV.autoInner \/ WV.autoStep) /\ s.sec = now ->
         [s EXCEPT !.hi = Max({@, mid}), !.lo = Min({@, mid})]
    [] OTHER ->
         LET gaps == Append(s.gaps, (200 * (s.hi - s.lo)) \div (s.hi + s.lo))
             kept == SubSeq(gaps, Max({1, Len(gaps) - WV.window + 1}), Len(gaps))
             fresh == [s EXCEPT !.sec = now, !.hi = mid, !.lo = mid]
         IN  IF s.sec = Never THEN fresh ELSE WvRecompute([fresh EXCEPT !.gaps = kept])

\* depth_mult and reduce_size_boost: deeper slots, and the exits of a large
\* bag, are larger.
WvLots(c, side, depth) ==
  LET span == WV.levels - 1
      gain == WV.ramp - 1
      ramped == IF WV.ramp > 1 /\ WV.levels > 1 THEN span + gain * Min({depth, span}) ELSE Max({1, span})
      ladder == Lot * WV.levels
      boosted == IF gain > 0 /\ c.pos # 0 /\ side = Closing(c.pos) THEN ladder + gain * Abs(c.pos) ELSE ladder
  IN  (Lot * WV.mult ^ depth * ramped * boosted) \div (Max({1, span}) * ladder)

\* maybe_relattice
WvDrifted(s, g, top) ==
  LET fresh == WvStep(s, (top.bid + top.ask) \div 2)
  IN  WvStepPct(s) > 0 /\ 100 * Abs(g.step - fresh) > WV.drift * fresh

WvWindowUnanchored(s, g, c, top, side) == Window(TopSlot(g, c, top, side), WV.levels)

\* reduce_anchor_band: the exits never start before the last fill that grew the
\* bag, or the average when none was seen.
WvWindow(s, g, c, top, side) ==
  LET touch == TopSlot(g, c, top, side)
      floor == IF s.last[Opp(side)] # None THEN s.last[Opp(side)] ELSE c.avg
      anchored == c.pos # 0 /\ side = Closing(c.pos) /\ floor > 0
  IN  Window(IF anchored THEN Max({touch, SlotAt(g, side, floor)}) ELSE touch, WV.levels)

WvPlace(s, g, c, top) ==
  LET w == [side \in Sides |-> WvWindow(s, g, c, top, side)]
      drained == [side \in Sides |-> Missing(g, c, side, w[side])]
      Emit(side) == EmitWindow(g, c, side, w[side],
                               [k \in w[side].lo .. w[side].hi |-> WvLots(c, side, k - w[side].lo)])
      Full(side) == PruneBand(g, c, side, w[side], {})
      reduce == Closing(c.pos)
      held == c.pos # 0 /\ (s.last[Opp(reduce)] # None \/ c.avg > 0)
      Prune(side) == IF held /\ side = reduce THEN Full(side)
                     ELSE When(SlotPx(g, side, w[side].hi) > 0, CancelThose(Beyond(g, c, side, w[side])))
      due == \/ \A side \in Sides : drained[side] >= WV.roundTrips
             \/ \E side \in Sides : drained[side] >= WV.levels
             \/ /\ WV.force > 0 /\ \E side \in Sides : drained[side] > 0
                /\ s.refill = Never \/ c.now - s.refill >= WV.force
      relatticed == g # s.grid /\ s.grid.step # None
      clean == [s EXCEPT !.grid = g, !.dirty = FALSE]
      done == [clean EXCEPT !.refill = c.now]
  IN  CASE relatticed -> Out(done, CancelThose(c.open) \o Emit("bid") \o Emit("ask"))
        [] ~relatticed /\ s.dirty -> Out(done, Emit("bid") \o Emit("ask") \o Full("bid") \o Full("ask"))
        [] ~relatticed /\ ~s.dirty /\ due ->
             Out(done, Emit("bid") \o Emit("ask") \o Prune("bid") \o Prune("ask"))
        [] OTHER -> Out(clean, When(WV.reduceToAvg /\ held, Emit(reduce) \o Full(reduce)))

Wave(s0, c) ==
  LET s1 == IF c.k = "fill" THEN [s0 EXCEPT !.last[c.fill.side] = c.fill.px] ELSE s0
      s == WvCandle(s1, Mid(c), c.now)
      top == Tops(c, WvInner(s), WvStep(s, Mid(c)))
      fresh == [bid |-> top.bid, ask |-> top.ask, step |-> WvStep(s, (top.bid + top.ask) \div 2)]
      g == IF s.grid.step = None \/ WvDrifted(s, s.grid, top) THEN fresh ELSE s.grid
  IN  IF ~TwoSided(c) THEN Out(IF s1.grid.step = None THEN s1 ELSE [s1 EXCEPT !.dirty = FALSE], << >>)
      ELSE WvPlace(s, g, c, top)
=============================================================================
