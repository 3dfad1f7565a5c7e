------------------------------ MODULE Scalpers ------------------------------
(* The strategies that work a position in cycles: spread_scalp, its older
   version, liq_fade and ratchet.  c.liqs is the window of liquidations the
   runner shows, a sequence of [ts, side, n]; ScalpCfg holds the
   configurations.                                                           *)
EXTENDS Market

CONSTANT ScalpCfg

\* Two steps, the second on the state the first left.
Then(x, step(_)) == LET y == step(x.st) IN Out(y.st, x.acts \o y.acts)
Beyond2(side, p, q) == IF Farther(side, q, p) THEN p ELSE q

-----------------------------------------------------------------------------
(* spread_scalp: a pair around the touch while the spread pays, each side
   replaced only when it differs from the order tracked there.               *)

SS == ScalpCfg.spread
NoRest == [id |-> 0, px |-> None, sz |-> 0]
SpreadInit ==
  [bid |-> None, ask |-> None, ts |-> Never, live |-> FALSE,
   reject |-> [bid |-> Never, ask |-> Never], rest |-> [bid |-> NoRest, ask |-> NoRest],
   fills |-> << >>, ema |-> 0, seeded |-> FALSE, cycle |-> Never, prev |-> 0, closed |-> Never]

(* AdverseTracker: how far the mid moved against each fill after a while,
   averaged; what exceeds the threshold widens the spread asked for.         *)
SsSample(x, f, mid) ==
  LET move == Sgn(f.side) * (f.px - mid)
  IN  [ema |-> IF x.seeded THEN (2 * move + (SS.halfLife - 1) * x.ema) \div (SS.halfLife + 1) ELSE move,
       seeded |-> TRUE]
SsSnapshots(s, now, mid) ==
  LET Ripe(f) == now >= f.due
      first == Cardinality({i \in 1 .. Len(s.fills) : \A j \in 1 .. i : Ripe(s.fills[j])})
      y == FoldLeft(LAMBDA x, f : SsSample(x, f, mid), [ema |-> s.ema, seeded |-> s.seeded],
                    SubSeq(s.fills, 1, first))
  IN  IF SS.snapshot = 0 THEN s
      ELSE [s EXCEPT !.ema = y.ema, !.seeded = y.seeded, !.fills = SubSeq(@, first + 1, Len(@))]
SsRecord(s, f, now) ==
  IF SS.snapshot = 0 THEN s
  ELSE [s EXCEPT !.fills = Append(@, [side |-> f.side, px |-> f.px, due |-> now + SS.snapshot])]
SsWiden(s) == IF s.seeded THEN Clip(s.ema - SS.threshold, 0, SS.maxWiden) ELSE 0

(* RestingOrders: one order tracked a side, its id stamped once it shows up. *)
SsReconcile(s, c) ==
  [s EXCEPT !.rest = [side \in Sides |->
     IF Shown(c, side) = {} THEN NoRest
     ELSE IF @[side] = NoRest THEN NoRest
     ELSE LET o == CHOOSE x \in Shown(c, side) : TRUE
          IN  [@[side] EXCEPT !.id = o.id, !.sz = o.sz]]]
SsDrop(s, side) ==
  IF s.rest[side].id = 0 THEN Out(s, << >>)
  ELSE Out([s EXCEPT !.rest[side] = NoRest], <<Cancel(s.rest[side].id)>>)

\* policy.rs diff and apply: within the tolerance and of the same size, kept.
SsDiff(s, side, px, sz) ==
  LET r == s.rest[side]
      same == r # NoRest /\ Abs(r.px - px) <= SS.tolerance * Tick /\ r.sz = sz
  IN  IF same THEN Out(s, << >>)
      ELSE Out([s EXCEPT !.rest[side] = [id |-> 0, px |-> px, sz |-> sz]],
               When(r.id # 0, <<Cancel(r.id)>>) \o <<Post(side, px, sz)>>)

\* compute_targets
SsPx(c, side) == Away(side, Touch(c, side), SS.offset * Tick)
SsOpen(s, c) == /\ TwoSided(c) /\ c.ask > c.bid /\ c.ask - c.bid >= SS.minSpread + SsWiden(s)
                /\ SsPx(c, "bid") < SsPx(c, "ask")

SsCooling(s, side, now) ==
  SS.cooldown > 0 /\ s.reject[side] # Never /\ now - s.reject[side] < SS.cooldown
SsCapped(c) == SS.cap > 0 /\ Abs(c.pos) >= SS.cap
SsWants(s, c, side) == (~SsCapped(c) \/ Sgn(side) * c.pos <= 0) /\ ~SsCooling(s, side, c.now)

\* apply_tick_mode_close_target: the closing side never inside avg + n ticks.
SsTarget(c, side) ==
  LET n == IF SS.closeTicks > 0 THEN SS.closeTicks ELSE SS.offset + 1
  IN  IF ~SS.strict /\ SS.offset >= 0 /\ c.pos # 0 /\ c.avg > 0 /\ side = Closing(c.pos)
      THEN Beyond2(side, Away(side, c.avg, n * Tick), SsPx(c, side)) ELSE SsPx(c, side)

\* One side of emit_requote: the closing side never larger than the position.
SsSide(s, c, side) ==
  LET closes == c.pos # 0 /\ side = Closing(c.pos)
      sz == IF closes THEN Min({Abs(c.pos), Lot}) ELSE Lot
  IN  CASE ~SsWants(s, c, side) -> SsDrop(s, side)
        [] SsWants(s, c, side) /\ closes /\ sz < SS.minLots -> Out(s, << >>)
        [] OTHER -> SsDiff(s, side, SsTarget(c, side), sz)

SsEmit(s, c) ==
  Then(SsSide([s EXCEPT !.bid = SsTarget(c, "bid"), !.ask = SsTarget(c, "ask"), !.ts = c.now,
                        !.live = TRUE], c, "bid"),
       LAMBDA x : SsSide(x, c, "ask"))

SsCancelIfLive(s) ==
  LET gone == [s EXCEPT !.bid = None, !.ask = None, !.ts = Never]
  IN  IF s.live THEN Out([gone EXCEPT !.live = FALSE, !.rest = [side \in Sides |-> NoRest]], <<CancelAll>>)
      ELSE Out(gone, << >>)

(* try_keep_close_side: too narrow to enter, but the exit stays, its target
   decaying with the time the position is held.                              *)
SsKeeps(c) == SS.keepClose /\ c.pos # 0 /\ TwoSided(c) /\ c.avg > 0
SsDecayed(s, now) ==
  LET Held(after) == s.cycle # Never /\ after > 0 /\ now - s.cycle >= after
  IN  (SS.minSpread * (IF Held(SS.decay2) THEN SS.factor2 ELSE IF Held(SS.decay1) THEN SS.factor1 ELSE 100))
      \div 100
SsKeep(s, c) ==
  LET side == Closing(c.pos)
      px == Beyond2(side, Away(side, c.avg, SsDecayed(s, c.now)), Away(side, Touch(c, side), -Tick))
      Kept(x) == LET y == SsDiff([x EXCEPT ![Opp(side)] = None], side, px, Lot)
                 IN  Out([y.st EXCEPT !.ts = c.now, ![side] = px, !.live = y.st.rest[side] # NoRest], y.acts)
  IN  IF ~Farther(side, px, Touch(c, Opp(side))) THEN Out(s, << >>)
      ELSE Then(SsDrop(s, Opp(side)), Kept)
SsClosed(s, c) == IF SsKeeps(c) THEN SsKeep(s, c) ELSE SsCancelIfLive(s)

SsDue(s, c) ==
  ~(s.bid = SsPx(c, "bid") /\ s.ask = SsPx(c, "ask") /\ s.bid # None)
  /\ (s.ts = Never \/ c.now - s.ts >= SS.every)

\* The head of on_event: the tracker, the snapshots, the cycle.
SsObserve(s0, c) ==
  LET s1 == SsReconcile(s0, c)
      s2 == IF TwoSided(c) THEN SsSnapshots(s1, c.now, Mid(c)) ELSE s1
      s3 == IF c.k = "fill" THEN SsRecord(s2, c.fill, c.now) ELSE s2
      opened == s3.prev = 0 /\ c.pos # 0
      ended == s3.prev # 0 /\ c.pos = 0
  IN  [s3 EXCEPT !.prev = c.pos,
                 !.cycle = IF opened THEN c.now ELSE IF ended THEN Never ELSE @,
                 !.closed = IF ended THEN Never ELSE @]

\* The Stage-5 gate is configured: it reads the latch and never sets it.
SsStageFive == SS.tp > 0 \/ SS.sl > 0 \/ SS.usdt > 0
SsInFlight(s, now) == s.closed # Never /\ now - s.closed < SS.retry
SsStops(s, c) ==
  /\ SS.stopDrift > 0 /\ SS.stopAfter > 0 /\ c.pos # 0 /\ c.avg > 0 /\ TwoSided(c)
  /\ ~SsInFlight(s, c.now) /\ s.cycle # Never /\ c.now - s.cycle >= SS.stopAfter
  /\ -Drift(c.pos, c.avg, Mid(c)) >= SS.stopDrift

\* Over the cap, the order that adds goes, whatever the event.
SsCapCancel(s, c) ==
  IF TwoSided(c) /\ SsCapped(c) /\ c.pos # 0 THEN SsDrop(s, Adding(c.pos)) ELSE Out(s, << >>)

SsFill(x, c) ==
  LET s == [x.st EXCEPT !.reject[c.fill.side] = Never, !.rest[c.fill.side] = NoRest]
  IN  IF SsOpen(s, c) THEN Then(Out(s, x.acts), LAMBDA y : SsEmit(y, c)) ELSE SsClosed(s, c)
SsBook(x, c) ==
  CASE ~SsOpen(x.st, c) -> Then(x, LAMBDA y : SsClosed(y, c))
    [] SsOpen(x.st, c) /\ ~SsDue(x.st, c) -> x
    [] OTHER -> Then(x, LAMBDA y : SsEmit(y, c))

SpreadScalp(s0, c) ==
  LET s == SsObserve(s0, c)
      stop == Then(Then(SsDrop(s, "bid"), LAMBDA x : SsDrop(x, "ask")),
                   LAMBDA x : Out([x EXCEPT !.closed = c.now], <<BuildClose(c.pos, c)>>))
      gated == /\ TwoSided(c) /\ ~SsInFlight(s, c.now)
               /\ RiskCloses(c.pos, c.avg, Mid(c), SS.tp, SS.sl, SS.usdt)
      capped == SsCapCancel(s, c)
  IN  CASE SsStops(s, c) -> stop
        [] ~SsStops(s, c) /\ gated ->
             Out([s EXCEPT !.rest = [side \in Sides |-> NoRest], !.live = FALSE, !.bid = None, !.ask = None],
                 <<CancelAll, BuildClose(c.pos, c)>>)
        [] ~SsStops(s, c) /\ ~gated /\ c.k = "fill" -> SsFill(capped, c)
        [] ~SsStops(s, c) /\ ~gated /\ c.k \in {"book", "tick"} -> SsBook(capped, c)
        [] OTHER -> Out(capped.st, << >>)

SpreadRejected(s0, c, q, why) ==
  LET s == [s0 EXCEPT !.reject[q.side] = IF why = "cross" THEN @ ELSE c.now,
                      !.bid = None, !.ask = None, !.ts = Never]
  IN  IF SsOpen(s, c) THEN SsEmit(s, c) ELSE SsClosed(s, c)

-----------------------------------------------------------------------------
(* spread_scalp_old: both sides replaced whole, a tick inside the touch.     *)

SO == ScalpCfg.old
OldInit == [bid |-> None, ask |-> None, ts |-> Never, live |-> FALSE,
            reject |-> [bid |-> Never, ask |-> Never]]

OldPx(c, side) == Away(side, Touch(c, side), -Tick)
OldOpen(c) == TwoSided(c) /\ c.ask - c.bid >= SO.minSpread /\ OldPx(c, "bid") < OldPx(c, "ask")
OldCooling(s, side, now) ==
  SO.cooldown > 0 /\ s.reject[side] # Never /\ now - s.reject[side] < SO.cooldown
OldWants(s, c, side) ==
  (~(SO.cap > 0 /\ Abs(c.pos) >= SO.cap) \/ Sgn(side) * c.pos <= 0) /\ ~OldCooling(s, side, c.now)
\* The side that reduces is twice as large.
OldLots(c, side) == IF c.pos # 0 /\ side = Closing(c.pos) THEN 2 * Lot ELSE Lot
OldQuote(s, c, side) == When(OldWants(s, c, side), <<Post(side, OldPx(c, side), OldLots(c, side))>>)
OldNoted(s, c) == [s EXCEPT !.bid = OldPx(c, "bid"), !.ask = OldPx(c, "ask"), !.ts = c.now, !.live = TRUE]

OldEmit(s, c) ==
  LET tp == SO.usdt > 0 /\ c.pos # 0 /\ c.avg > 0 /\ Drift(c.pos, c.avg, Mid(c)) * Abs(c.pos) >= SO.usdt
  IN  Out(OldNoted(s, c),
          <<CancelAll>> \o IF tp THEN <<BuildClose(c.pos, c)>>
                           ELSE OldQuote(s, c, "bid") \o OldQuote(s, c, "ask"))
OldCancelIfLive(s) ==
  Out([s EXCEPT !.bid = None, !.ask = None, !.ts = Never, !.live = FALSE], When(s.live, <<CancelAll>>))

\* A fill replaces its own side and tops the other up to its size.
OldFill(s0, c) ==
  LET s == [s0 EXCEPT !.reject[c.fill.side] = Never]
      back == Opp(c.fill.side)
      rests == FoldSet(LAMBDA o, n : n + o.sz, 0, Shown(c, back))
      more == OldLots(c, back) - rests
  IN  IF ~OldOpen(c) THEN OldCancelIfLive(s)
      ELSE Out(OldNoted(s, c),
               OldQuote(s, c, c.fill.side)
               \o When(OldWants(s, c, back) /\ more > 0, <<Post(back, OldPx(c, back), more)>>))

SpreadScalpOld(s, c) ==
  LET same == s.bid # None /\ s.bid = OldPx(c, "bid") /\ s.ask = OldPx(c, "ask")
      due == ~same /\ (s.ts = Never \/ c.now - s.ts >= SO.every)
  IN  CASE c.k = "trade" -> Out(s, << >>)
        [] c.k = "fill" -> OldFill(s, c)
        [] c.k \in {"book", "tick"} /\ ~OldOpen(c) -> OldCancelIfLive(s)
        [] OTHER -> IF due THEN OldEmit(s, c) ELSE Out(s, << >>)

OldRejected(s0, c, q, why) ==
  LET s == [s0 EXCEPT !.reject[q.side] = c.now, !.bid = None, !.ask = None, !.ts = Never]
  IN  IF OldOpen(c) THEN OldEmit(s, c) ELSE OldCancelIfLive(s)

-----------------------------------------------------------------------------
(* liq_fade: forced orders of one side arm it, an overshoot of the mid posts an
   order against them, its fill rests an exit at the old mid; a stop or a
   time-out closes by a taker order.                                         *)

LF == ScalpCfg.liq
LiqInit == [phase |-> "idle", pre |-> None, heavy |-> "bid", entry |-> "bid", ts |-> 0,
            seenTs |-> 0, seenN |-> 0, sums |-> << >>]
LiqIdle(s) == [s EXCEPT !.phase = "idle", !.pre = None, !.ts = 0]

\* ingest_liqs: each event once, those of one instant told apart by their count.
LiqIngest(s, c) ==
  LET recent == SelectSeq(s.sums, LAMBDA x : x.ts >= c.now - LF.window)
      Take(acc, e) ==
        LET n == IF e.ts = acc.seenTs THEN acc.at + 1 ELSE IF e.ts > acc.seenTs THEN 1 ELSE acc.at
            new == e.ts > acc.seenTs \/ (e.ts = acc.seenTs /\ n > acc.seenN)
        IN  IF new THEN [acc EXCEPT !.at = n, !.seenTs = e.ts, !.seenN = n,
                                    !.sums = Append(SelectSeq(@, LAMBDA x : x.ts >= e.ts - LF.window), e)]
            ELSE [acc EXCEPT !.at = n]
      done == FoldLeft(Take, [at |-> 0, seenTs |-> s.seenTs, seenN |-> s.seenN, sums |-> recent], c.liqs)
  IN  [s EXCEPT !.seenTs = done.seenTs, !.seenN = done.seenN, !.sums = done.sums]

LiqSum(s, side) == FoldSeq(LAMBDA x, n : n + (IF x.side = side THEN x.n ELSE 0), 0, s.sums)
LiqHeavy(s, side) ==
  LiqSum(s, side) >= LF.arm /\ 100 * LiqSum(s, Opp(side)) <= LF.dominance * LiqSum(s, side)

LiqTp(s, c, sz) ==
  <<CancelAll, Post(Opp(s.entry), FloorTick(s.pre - Sgn(s.entry) * LF.revert)
                                  + (IF s.entry = "bid" /\ (s.pre - LF.revert) % Tick # 0 THEN Tick ELSE 0), sz)>>

LiqFill(s, c) ==
  CASE s.phase = "capitulation" /\ c.fill.side = s.entry ->
         Out([s EXCEPT !.phase = "holding", !.ts = c.now],
             LiqTp(s, c, IF c.pos # 0 THEN Abs(c.pos) ELSE c.fill.sz))
    [] s.phase = "holding" /\ c.pos = 0 -> Out(LiqIdle(s), << >>)
    [] s.phase = "holding" /\ c.pos # 0 /\ c.fill.side = s.entry -> Out(s, LiqTp(s, c, Abs(c.pos)))
    [] OTHER -> Out(s, << >>)

LiqArmed(s, c) ==
  LET entry == Opp(s.heavy)
      deepens == LF.cap > 0 /\ Sgn(entry) * c.pos >= LF.cap
      overshot == Sgn(s.heavy) * (Mid(c) - s.pre) >= LF.overshoot
      raw == Away(entry, Touch(c, entry), LF.fade)
      px == IF entry = "bid" THEN FloorTick(raw) ELSE -FloorTick(-raw)
  IN  CASE c.now - s.ts >= LF.entryTimeout -> Out(LiqIdle(s), << >>)
        [] c.now - s.ts < LF.entryTimeout /\ ~overshot -> Out(s, << >>)
        [] c.now - s.ts < LF.entryTimeout /\ overshot /\ deepens -> Out(LiqIdle(s), << >>)
        [] OTHER -> Out([s EXCEPT !.phase = "capitulation", !.entry = entry, !.ts = c.now],
                        <<Post(entry, px, Lot)>>)

LiqHolding(s, c) ==
  LET late == c.now - s.ts >= LF.holdTimeout
      stopped == LF.sl > 0 /\ RiskCloses(c.pos, c.avg, Mid(c), 0, LF.sl, 0)
  IN  CASE c.pos = 0 -> IF c.now - s.ts >= LF.grace THEN Out(LiqIdle(s), <<CancelAll>>) ELSE Out(s, << >>)
        [] c.pos # 0 /\ (late \/ stopped) -> Out(LiqIdle(s), <<CancelAll, BuildClose(c.pos, c)>>)
        [] OTHER -> Out(s, << >>)

LiqFade(s0, c) ==
  LET s == LiqIngest(s0, c)
      heavy == {side \in Sides : LiqHeavy(s, side)}
      book == c.k = "book" /\ TwoSided(c)
  IN  CASE c.k = "fill" -> LiqFill(s, c)
        [] book /\ s.phase = "idle" /\ heavy # {} ->
             Out([s EXCEPT !.phase = "armed", !.pre = Mid(c), !.ts = c.now,
                           !.heavy = IF "bid" \in heavy THEN "bid" ELSE "ask"], << >>)
        [] book /\ s.phase = "armed" -> LiqArmed(s, c)
        [] book /\ s.phase = "capitulation" /\ c.now - s.ts >= LF.entryTimeout ->
             Out(LiqIdle(s), <<CancelAll>>)
        [] book /\ s.phase = "holding" -> LiqHolding(s, c)
        [] OTHER -> Out(s, << >>)

LiqRejected(s, c, q, why) ==
  IF s.phase = "capitulation" THEN Out(LiqIdle(s), <<CancelAll>>) ELSE Out(s, << >>)

-----------------------------------------------------------------------------
(* ratchet: each side hangs off the last fill of the other; while holding, a
   pyramid of adds and one exit off the average.                             *)

RT == ScalpCfg.ratchet
Flat == [holding |-> FALSE, long |-> TRUE, first |-> None, adds |-> 0, lastAdd |-> None, prev |-> 0]
RatchetInit ==
  [phase |-> Flat, buy |-> None, sell |-> None, samples |-> << >>, bid |-> None, ask |-> None,
   ts |-> Never, sig |-> << >>, closed |-> Never]

RtFill(s, f) == IF f.side = "bid" THEN [s EXCEPT !.buy = f.px] ELSE [s EXCEPT !.sell = f.px]
RtMid(s) == (s.bid + s.ask) \div 2

\* observe_mid, trend_suppress, cap_suppress
RtObserve(s, now) ==
  LET all == Append(s.samples, [ts |-> now, mid |-> RtMid(s)])
  IN  [s EXCEPT !.samples = IF RT.window = 0 THEN <<all[Len(all)]>>
                            ELSE SelectSeq(all, LAMBDA x : x.ts >= now - RT.window)]
RtTrend(s, side) ==
  /\ RT.window > 0 /\ RT.filter > 0 /\ s.samples # << >>
  /\ Sgn(side) * (s.samples[1].mid - RtMid(s)) > RT.filter
RtCapped(c, side) == RT.cap > 0 /\ Sgn(side) * c.pos >= RT.cap
RtFree(s, c, side) == ~RtTrend(s, side) /\ ~RtCapped(c, side)

RtSafe(s, side, px) == px > 0 /\ Farther(side, px, s[Opp(side)])
RtLeg(s, c, side, px, sz, free) ==
  When(RtSafe(s, side, FloorTick(px)) /\ free /\ sz >= RT.minLots, <<Post(side, FloorTick(px), sz)>>)
\* The last fill on the other side, None before any.
RtAnchor(s, side) == IF side = "bid" THEN s.sell ELSE s.buy

RtOrders(s, c) ==
  LET Px(side) == IF RtAnchor(s, side) # None THEN Away(side, RtAnchor(s, side), RT.tp)
                  ELSE Away(side, RtMid(s), RT.offset)
  IN  RtLeg(s, c, "bid", Px("bid"), Lot, RtFree(s, c, "bid"))
      \o RtLeg(s, c, "ask", Px("ask"), Lot, RtFree(s, c, "ask"))

RtPyramid(s, c) ==
  LET side == IF s.phase.long THEN "bid" ELSE "ask"
      out == Opp(side)
      tp == IF RT.tpAvg > 0 THEN RT.tpAvg ELSE RT.tp
      size == (Lot * RT.mult ^ (s.phase.adds + 1)) \div 100 ^ (s.phase.adds + 1)
  IN  RtLeg(s, c, out, Away(out, c.avg, tp), Abs(c.pos), TRUE)
      \o When(RtAnchor(s, side) # None,
              RtLeg(s, c, side, Away(side, RtAnchor(s, side), RT.tp), Lot, RtFree(s, c, side)))
      \o RtLeg(s, c, side, Away(side, s.phase.lastAdd, RT.step), size,
               s.phase.adds < RT.maxAdds /\ RtFree(s, c, side))

\* The phase follows the position; the side is the one the cycle began with.
RtPhase(s, c) ==
  LET abs == Abs(c.pos)
      recent == IF s.phase.long THEN s.buy ELSE s.sell
      p == s.phase
  IN  CASE ~p.holding /\ c.pos # 0 ->
             [s EXCEPT !.phase = [holding |-> TRUE, long |-> c.pos > 0, first |-> c.avg, adds |-> 0,
                                  lastAdd |-> c.avg, prev |-> abs]]
        [] p.holding /\ c.pos = 0 -> [s EXCEPT !.phase = Flat, !.closed = Never]
        [] p.holding /\ c.pos # 0 /\ abs > p.prev ->
             [s EXCEPT !.phase = [p EXCEPT !.adds = @ + 1, !.prev = abs,
                                  !.lastAdd = IF recent = None THEN @ ELSE recent]]
        [] p.holding /\ c.pos # 0 /\ abs <= p.prev -> [s EXCEPT !.phase.prev = abs]
        [] OTHER -> s

Ratchet(s0, c) ==
  LET seen == IF c.k = "book" THEN [s0 EXCEPT !.bid = c.bid, !.ask = c.ask] ELSE s0
      s == RtPhase(IF c.k = "book" THEN RtObserve(seen, c.now) ELSE seen, c)
      side == IF s.phase.long THEN "bid" ELSE "ask"
      stopped == /\ s.phase.holding /\ RT.sl > 0 /\ s.phase.first > 0
                 /\ Sgn(side) * (s.phase.first - RtMid(s)) >= RT.sl
      cooling == s.ts # Never /\ c.now - s.ts < RT.cooldown
      acts == IF s.phase.holding /\ RT.maxAdds > 0 THEN RtPyramid(s, c) ELSE RtOrders(s, c)
      sig == {[side |-> a.side, px |-> a.px] : a \in ToSet(acts)}
  IN  CASE c.k = "fill" -> Out(RtFill(s0, c.fill), << >>)
        [] c.k # "fill" /\ (seen.bid = None \/ seen.ask = None) -> Out(s0, << >>)
        [] c.k # "fill" /\ stopped ->
             IF s.closed # Never /\ c.now - s.closed < RT.retry THEN Out(s, << >>)
             ELSE Out([s EXCEPT !.closed = c.now, !.sig = << >>],
                      <<CancelAll, TakerAt(Opp(side), Abs(c.pos), s)>>)
        [] c.k # "fill" /\ ~stopped /\ (cooling \/ sig = ToSet(s.sig)) -> Out(s, << >>)
        [] OTHER -> Out([s EXCEPT !.sig = SetToSeq(sig), !.ts = c.now], <<CancelAll>> \o acts)

RatchetRejected(s, c, q, why) == Out([s EXCEPT !.sig = << >>], << >>)
=============================================================================
