------------------------------ MODULE Lattices ------------------------------
(* The strategies that keep orders on fixed rungs or off the touch and
   reconcile them: hawk, tide and keel.  LatCfg holds their configurations.  *)
EXTENDS Market

CONSTANT LatCfg

\* One of the prices is within tol of px.
Covered(px, prices, tol) == \E p \in prices : Abs(p - px) <= tol

-----------------------------------------------------------------------------
(* hawk: a ladder improving the touch while the spread pays, else one closing
   order at the break-even target.                                           *)

HK == LatCfg.hawk
HawkInit ==
  [bid |-> None, ask |-> None, placed |-> FALSE, ladder |-> [bid |-> None, ask |-> None, ts |-> 0],
   cold |-> None, closed |-> Never]
NoLadder == [bid |-> None, ask |-> None, ts |-> 0]

\* compute_top_targets: there is room for both sides to improve by a tick.
HawkOpen(t) == t.ask > t.bid /\ t.ask - t.bid >= HK.minSpread /\ t.bid + Tick < t.ask - Tick
HawkCapped(pos, side) == HK.cap > 0 /\ Sgn(side) * pos >= HK.cap

HawkLadder(t, pos) ==
  LET mid == (t.bid + t.ask) \div 2
      Level(side, k) ==
        When(~HawkCapped(pos, side),
             <<Post(side, Away(side, t[side], IF k = 0 THEN -Tick ELSE HK.inner + HK.step * k), Lot)>>)
  IN  <<CancelAll>> \o NearestFirst(Ladder(0, HK.levels - 1, LAMBDA k : Level("bid", k) \o Level("ask", k)),
                                    mid)

\* cold_quote: the touch improved, but not short of the target off the entry.
HawkCold(s, c) ==
  LET side == Closing(c.pos)
      goal == Away(side, c.avg, IF HK.target > 0 THEN HK.target ELSE HK.minSpread)
      best == Away(side, s[side], -Tick)
      px == IF Farther(side, best, goal) THEN goal ELSE best
  IN  CASE c.pos = 0 \/ c.avg <= 0 -> Out([s EXCEPT !.cold = None], <<CancelAll>>)
        [] c.pos # 0 /\ c.avg > 0 /\ (~Farther(side, px, s[Opp(side)]) \/ px = s.cold) -> Out(s, << >>)
        [] OTHER -> Out([s EXCEPT !.cold = px], <<CancelAll, Post(side, px, Lot)>>)

HawkQuotes(s, c) ==
  LET due == ~s.placed \/ ShouldRequoteOnTick(s.ladder, s.bid, s.ask, c.now, HK.every)
      hot == [s EXCEPT !.cold = None, !.placed = TRUE]
  IN  CASE HawkOpen(s) /\ due ->
             Out([hot EXCEPT !.ladder = [bid |-> s.bid, ask |-> s.ask, ts |-> c.now]],
                 HawkLadder(s, c.pos))
        [] HawkOpen(s) /\ ~due -> Out(hot, << >>)
        [] OTHER -> HawkCold([s EXCEPT !.placed = FALSE, !.ladder = NoLadder], c)

Hawk(s0, c) ==
  LET seen == IF c.k = "book" /\ TwoSided(c) THEN [s0 EXCEPT !.bid = c.bid, !.ask = c.ask] ELSE s0
      s == IF c.pos = 0 THEN [seen EXCEPT !.closed = Never] ELSE seen
      closes == (HK.tp > 0 \/ HK.sl > 0)
                /\ RiskCloses(c.pos, c.avg, (s.bid + s.ask) \div 2, HK.tp, HK.sl, 0)
  IN  CASE c.k = "trade" \/ (c.k = "book" /\ ~TwoSided(c)) \/ s.bid = None -> Out(s0, << >>)
        [] closes /\ s.closed # Never /\ c.now - s.closed < HK.retry -> Out(s, << >>)
        [] closes /\ ~(s.closed # Never /\ c.now - s.closed < HK.retry) ->
             Out([s EXCEPT !.closed = c.now, !.placed = FALSE, !.ladder = NoLadder, !.cold = None],
                 <<CancelAll, BuildClose(c.pos, s)>>)
        [] OTHER -> HawkQuotes(s, c)

-----------------------------------------------------------------------------
(* tide: a frozen lattice around the last full fill, reconciled on a timer and
   recentred on the market when it leaves the grid.                          *)

TD == LatCfg.tide
TideInit == [origin |-> None, center |-> None, last |-> Never]

RoundDiv(n, d) == (2 * n + d) \div (2 * d)
TideCapped(pos, side) == TD.cap > 0 /\ Sgn(side) * pos >= TD.cap

TideReconcile(s0, c, raw) ==
  LET origin == IF s0.origin = None THEN RoundTick(raw) ELSE s0.origin
      mid == origin + RoundDiv(raw - origin, TD.step) * TD.step
      Rungs(side) == {p \in {Away(side, mid, (TD.inner + 1 + k) * TD.step) : k \in 0 .. TD.levels - 1} : p > 0}
      tol == TD.step \div 2
      New(side) == IF TideCapped(c.pos, side) THEN {}
                   ELSE {Post(side, p, Lot) : p \in {x \in Rungs(side) : ~Covered(x, Prices(Shown(c, side)), tol)}}
      old == {o \in c.open : ~Covered(o.px, Rungs(o.side), tol)}
  IN  Out([s0 EXCEPT !.origin = origin], SetToSeq(New("bid")) \o SetToSeq(New("ask")) \o CancelThose(old))

Tide(s0, c) ==
  LET crossed == ~TwoSided(c) \/ c.ask <= c.bid
      at == IF s0.center = None /\ ~crossed THEN Mid(c) ELSE s0.center
      reach == (TD.inner + TD.levels) * TD.step
      center == IF ~crossed /\ Abs(Mid(c) - at) > reach THEN Mid(c) ELSE at
      due == s0.last = Never \/ c.now - s0.last >= TD.every
  IN  CASE c.k = "fill" /\ c.fill.full -> Out([s0 EXCEPT !.center = c.fill.px], << >>)
        [] ~(c.k = "fill" /\ c.fill.full) /\ at # None /\ due ->
             TideReconcile([s0 EXCEPT !.center = center, !.last = c.now], c, center)
        [] OTHER -> Out([s0 EXCEPT !.center = at], << >>)

-----------------------------------------------------------------------------
(* keel: the adding rungs of a frozen lattice around the mid and, trailing, one
   reducing order off the average; when the bag goes under or the market
   trends against it, twice the bag by a taker order turns it round.         *)

KL == LatCfg.keel
KeelInit == [origin |-> None, mid |-> None, flip |-> Never, hist |-> << >>]

\* record_mid: one sample per unit of time, pruned to the window.
KeelRecord(hist, now, mid) ==
  IF KL.window = 0 \/ (hist # << >> /\ now <= hist[Len(hist)].ts) THEN hist
  ELSE LET all == Append(hist, [ts |-> now, mid |-> mid])
           kept == {i \in 1 .. Len(all) : all[i].ts >= now - KL.window} \cup {Len(all)}
       IN  SubSeq(all, Min(kept), Len(all))

PathOf(hist) == FoldSet(LAMBDA i, n : n + Abs(hist[i].mid - hist[i - 1].mid), 0, 2 .. Len(hist))

\* should_flip: under water from the average, or a straight run against it.
KeelFlips(s, c) ==
  /\ c.pos # 0 /\ c.avg > 0
  /\ \/ KL.sar > 0 /\ -Drift(c.pos, c.avg, Mid(c)) >= KL.sar
     \/ LET net == s.hist[Len(s.hist)].mid - s.hist[1].mid
        IN  /\ KL.window > 0 /\ Len(s.hist) >= 3 /\ PathOf(s.hist) > 0
            /\ 100 * Abs(net) >= KL.ratio * PathOf(s.hist)
            /\ net * c.pos < 0

KeelSize(depth) == (Lot * (100 + KL.ramp * depth)) \div 100
KeelRound(side, px) == IF side = "bid" THEN FloorTick(px) ELSE -FloorTick(-px)
KeelAdds(pos, side) == pos = 0 \/ side = (IF pos >= 0 THEN "bid" ELSE "ask")

\* The rungs of the band outside the dead zone, short of the other touch; of two
\* that round to one price the first, which is the lower.
KeelRungs(c, origin) ==
  LET kMid == RoundDiv(Mid(c) - origin, KL.step)
      capped == KL.cap > 0 /\ Abs(c.pos) >= KL.cap
      Wanted(side) == /\ ~(KL.trailing /\ ~KeelAdds(c.pos, side))
                      /\ ~(KeelAdds(c.pos, side) /\ c.pos # 0 /\ capped)
      Rung(side, p) == [side |-> side, px |-> KeelRound(side, p),
                        sz |-> KeelSize(RoundDiv(Abs(p - Mid(c)), KL.step))]
      at == {p \in {origin + k * KL.step : k \in (kMid - KL.levels) .. (kMid + KL.levels)} : p > 0}
      Band(side) == {p \in at : /\ Farther(side, p, Away(side, Mid(c), KL.inner))
                                /\ Farther(side, p, Touch(c, Opp(side)))}
      Doubled(side, p) == \E x \in Band(side) : x < p /\ KeelRound(side, x) = KeelRound(side, p)
  IN  UNION {IF Wanted(side) THEN {Rung(side, p) : p \in {x \in Band(side) : ~Doubled(side, x)}}
             ELSE {} : side \in Sides}

\* The reducing order, never past the average nor the touch, never larger than
\* the position.
KeelReduce(c) ==
  LET side == Closing(c.pos)
      goal == Away(side, c.avg, KL.reduce)
      px == IF Farther(side, Touch(c, side), goal) THEN Touch(c, side) ELSE goal
  IN  IF KL.trailing /\ c.pos # 0 /\ c.avg > 0 /\ Abs(c.pos) >= KL.minSize
      THEN {[side |-> side, px |-> KeelRound(side, px), sz |-> Abs(c.pos)]} ELSE {}

KeelReconcile(c, want) ==
  LET On(d) == {o \in c.open : o.side = d.side /\ o.px = d.px}
      met == {d \in want : On(d) # {}}
      First(d) == CHOOSE o \in On(d) : TRUE
      claimed == {First(d) : d \in met}
      resized == {Requote(First(d).id, d.side, d.px, d.sz) :
                    d \in {x \in met : 5 * Abs(First(x).sz - x.sz) > x.sz}}
      new == {Post(d.side, d.px, d.sz) : d \in want \ met}
      stale == {o \in c.open \ claimed : KL.trailing /\ c.pos # 0 /\ o.side = Closing(c.pos)}
      far == (c.open \ claimed) \ stale
      excess == Cardinality(c.open) + Cardinality(new) - KL.maxOpen
      Dist(o) == Abs(o.px - Mid(c))
  IN  SetToSeq(resized \cup new) \o CancelThose(stale)
      \o CancelThose({o \in far : Cardinality({x \in far : Dist(x) > Dist(o)}) < excess})

Keel(s0, c) ==
  IF ~TwoSided(c) THEN Out(s0, << >>)
  ELSE
    LET s == [s0 EXCEPT !.hist = KeelRecord(@, c.now, Mid(c))]
        armed == (KL.sar > 0 \/ KL.window > 0) /\ c.pos # 0
        cooling == s.flip # Never /\ c.now - s.flip < KL.cooldown
        quiet == /\ c.k # "fill" /\ c.open # {} /\ s.mid # None
                 /\ Abs(Mid(c) - s.mid) < KL.step
        origin == IF s.origin = None THEN Mid(c) ELSE s.origin
    IN  CASE armed /\ ~cooling /\ KeelFlips(s, c) ->
               Out([s EXCEPT !.flip = c.now], <<TakerAt(Closing(c.pos), 2 * Abs(c.pos), c)>>)
          [] ~(armed /\ ~cooling /\ KeelFlips(s, c)) /\ quiet -> Out(s, << >>)
          [] OTHER -> Out([s EXCEPT !.mid = Mid(c), !.origin = origin],
                          KeelReconcile(c, KeelRungs(c, origin) \cup KeelReduce(c)))
=============================================================================
