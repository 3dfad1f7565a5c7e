---------------------------- MODULE TouchMakers ----------------------------
(* The strategies that hang their orders off the touch or the mid:
   simple_gap, ladder_reentry, volley, strangler, joker, mantis, top_of_book,
   micro_price, avellaneda_stoikov and glft.

   A strategy is a record of its struct's fields; its handler takes the record
   and a context and gives the record and the actions it returns.  TouchCfg
   holds the configuration each is run with.                                 *)
EXTENDS Market

CONSTANT TouchCfg

-----------------------------------------------------------------------------
(* simple_gap: one pair off the first mid, then a pair after every fill.     *)

SimpleGapInit == [seeded |-> FALSE]
SimpleGapSide(c, side) == Post(side, Away(side, Mid(c), TouchCfg.gap), Lot)

SimpleGap(s, c) ==
  IF TwoSided(c) /\ (c.k = "fill" \/ (c.k = "book" /\ ~s.seeded))
  THEN Out([seeded |-> s.seeded \/ c.k = "book"],
           <<SimpleGapSide(c, "bid"), SimpleGapSide(c, "ask")>>)
  ELSE Out(s, << >>)

SimpleGapRejected(s, c, q, why) ==
  Out(s, When(TwoSided(c), <<SimpleGapSide(c, q.side)>>))

-----------------------------------------------------------------------------
(* ladder_reentry: a seeded ladder; a full fill continues its own side, opens
   the way back on the other and drops the other side's outermost order.     *)

LadderInit == [seeded |-> FALSE]
LadderSide(c, side, d) == Post(side, Away(side, Mid(c), d), Lot)

LadderSeed(c) ==
  Ladder(0, TouchCfg.levels - 1, LAMBDA k :
    <<LadderSide(c, "bid", TouchCfg.inner + TouchCfg.step * k),
      LadderSide(c, "ask", TouchCfg.inner + TouchCfg.step * k)>>)

LadderReentries(c, f) ==
  LET back == Opp(f.side)
      there == Shown(c, back)
      last == {CHOOSE o \in there : o.px = Outermost(back, Prices(there))}
  IN  <<Post(f.side, Away(f.side, f.px, TouchCfg.step), Lot),
        Post(back, Away(back, f.px, TouchCfg.inner), Lot)>>
      \o When(there # {}, CancelThose(last))

LadderReentry(s, c) ==
  IF c.k = "book" /\ ~s.seeded /\ TwoSided(c)
  THEN Out([seeded |-> TRUE], LadderSeed(c))
  ELSE Out(s, When(c.k = "fill" /\ c.fill.full, LadderReentries(c, c.fill)))

\* Out of margin: an order at the touch that reduces the position; any other
\* reason: the inner level again, off the mid of now.
LadderRejected(s, c, q, why) ==
  Out(s,
      IF why = "margin"
      THEN LET side == Closing(c.pos)
           IN  When(c.pos # 0 /\ Touch(c, side) # None,
                    <<Post(side, Touch(c, side), Min({Abs(c.pos), Lot}))>>)
      ELSE When(TwoSided(c), <<LadderSide(c, q.side, TouchCfg.inner)>>))

-----------------------------------------------------------------------------
(* volley and strangler: the whole grid again at every interval, never a
   cancel; volley off the touch at any event, strangler off the mid snapped to
   the tick and only at a book or a heartbeat.                               *)

TimerInit == [last |-> Never]
Due(s, now, every) == s.last = Never \/ now - s.last >= every

Guarded(c, side, px) ==
  When(px > 0 /\ (side = "bid" => px < c.ask) /\ (side = "ask" => px > c.bid),
       <<Post(side, px, Lot)>>)

Grid(c, base) ==
  Ladder(0, TouchCfg.levels - 1, LAMBDA k :
    LET d == TouchCfg.inner + TouchCfg.step * k
    IN  Guarded(c, "bid", Away("bid", base["bid"], d))
        \o Guarded(c, "ask", Away("ask", base["ask"], d)))

Volley(s, c) ==
  IF Due(s, c.now, TouchCfg.every) /\ TwoSided(c) /\ c.ask > c.bid
  THEN Out([last |-> c.now], Grid(c, [side \in Sides |-> Touch(c, side)]))
  ELSE Out(s, << >>)

Strangler(s, c) ==
  IF c.k \in {"book", "tick"} /\ Due(s, c.now, TouchCfg.every)
  THEN Out([last |-> c.now],
           When(TwoSided(c) /\ c.ask > c.bid, Grid(c, [side \in Sides |-> RoundTick(Mid(c))])))
  ELSE Out(s, << >>)

-----------------------------------------------------------------------------
(* joker: one order at an offset from the touch on each side, remembering what
   it sent until the order shows up or the grace is over.                    *)

JokerInit == [placed |-> {}]

JokerAt(c, placed, side, px) ==
  \/ \E o \in Shown(c, side) : Abs(o.px - px) <= TouchCfg.tolerance
  \/ \E p \in placed : /\ p.side = side /\ Abs(p.px - px) <= TouchCfg.tolerance
                       /\ c.now - p.ts < TouchCfg.grace

\* best - offset, one tick short of the other touch
JokerPx(c, side) ==
  LET px == Away(side, Touch(c, side), TouchCfg.offset)
      guard == Away(side, Touch(c, Opp(side)), Tick)
  IN  IF Touch(c, Opp(side)) # None /\ Farther(side, guard, px) THEN guard ELSE px

JokerQuotes(c, placed, side) ==
  When(Touch(c, side) # None /\ JokerPx(c, side) > 0
         /\ ~JokerAt(c, placed, side, JokerPx(c, side)),
       <<Post(side, JokerPx(c, side), Lot)>>)

Joker(s, c) ==
  LET Rests(p) == \E o \in c.open : o.side = p.side /\ o.px = p.px
      kept == {p \in s.placed : Rests(p) \/ c.now - p.ts < TouchCfg.grace}
      old == {p \in kept : Rests(p) /\ c.now - p.ts > TouchCfg.maxAge}
      swept == {CHOOSE o \in c.open : o.side = p.side /\ o.px = p.px : p \in old}
      quotes == JokerQuotes(c, kept \ old, "bid") \o JokerQuotes(c, kept \ old, "ask")
      new == {[side |-> q.side, px |-> q.px, ts |-> c.now] : q \in ToSet(quotes)}
      over == {p \in kept \ old : \E q \in new : q.side = p.side /\ q.px = p.px}
  IN  Out([placed |-> ((kept \ old) \ over) \cup new], CancelThose(swept) \o quotes)

-----------------------------------------------------------------------------
(* mantis: a pair at the touch while flat, the closing leg alone while
   holding, nothing near the last fill.                                      *)

MantisInit == [pair |-> [bid |-> None, ask |-> None], anchor |-> None]

\* Keep one resting order per desired one, cancel the rest, place the missing.
MantisReconcile(c, want) ==
  LET Same(o, d) == o.side = d.side /\ o.px = d.px /\ o.sz = d.sz
      met == {d \in want : \E o \in c.open : Same(o, d)}
      kept == {CHOOSE o \in c.open : Same(o, d) : d \in met}
  IN  CancelThose(c.open \ kept)
      \o SetToSeq({Post(d.side, d.px, d.sz) : d \in want \ met})

Want(side, px, sz) == [side |-> side, px |-> px, sz |-> sz]

MantisClose(s, c) ==
  LET side == Closing(c.pos)
      px == IF s.pair[side] # None THEN s.pair[side]
            ELSE Away(side, Touch(c, side), TouchCfg.join)
  IN  MantisReconcile(c, {Want(side, px, Abs(c.pos))})

Mantis(s0, c) ==
  IF ~TwoSided(c) \/ c.ask <= c.bid THEN Out(s0, << >>)
  ELSE
    LET s == IF c.k = "fill" THEN [s0 EXCEPT !.anchor = c.fill.px] ELSE s0
        b == c.bid - TouchCfg.join
        a == c.ask + TouchCfg.join
        near == s.anchor # None /\ Abs(Mid(c) - s.anchor) < TouchCfg.reopen
        free == [s EXCEPT !.anchor = None]
        open == c.ask - c.bid >= TouchCfg.minSpread /\ b < c.ask /\ a > c.bid /\ b < a /\ b > 0
    IN  CASE c.pos # 0 -> Out(s, MantisClose(s, c))
          [] c.pos = 0 /\ near -> Out(s, MantisReconcile(c, {}))
          [] c.pos = 0 /\ ~near /\ ~open -> Out(free, MantisReconcile(c, {}))
          [] OTHER -> Out([free EXCEPT !.pair = [bid |-> b, ask |-> a]],
                          MantisReconcile(c, {Want("bid", b, Lot), Want("ask", a, Lot)}))

-----------------------------------------------------------------------------
(* top_of_book and micro_price: a pair around the touch or the size-weighted
   mid, skewed by the inventory, replaced whole on a drift or a timer.       *)

PairInit == [bid |-> None, ask |-> None, ts |-> 0]

\* The shift of the book's imbalance, floored towards zero.
ImbalanceSkew(c) ==
  LET num == Abs(c.bsz - c.asz) * TouchCfg.imbalance
      shift == num \div (c.bsz + c.asz)
  IN  Tick * (IF c.bsz >= c.asz THEN shift ELSE -shift)

\* Clamp a pair off the other side's touch.
Clamp(c, p) ==
  [bid |-> IF p.bid >= c.ask THEN c.ask - Tick ELSE p.bid,
   ask |-> IF p.ask <= c.bid THEN c.bid + Tick ELSE p.ask]

TopOfBookTargets(c) ==
  LET in == IF (c.ask - c.bid) \div Tick > TouchCfg.improve THEN Tick ELSE 0
      skew == InventorySkew(c.pos, TouchCfg.maxSkew, TouchCfg.skewUnit) + ImbalanceSkew(c)
      p == Clamp(c, [bid |-> c.bid + in + skew, ask |-> c.ask - in + skew])
  IN  IF p.bid >= p.ask THEN [bid |-> c.bid, ask |-> c.ask] ELSE p

MicroPriceTargets(c) ==
  LET total == c.bsz + c.asz
      micro == c.bsz * c.ask + c.asz * c.bid      \* times total
      skew == InventorySkew(c.pos, TouchCfg.maxSkew, TouchCfg.skewUnit)
      low == Tick * ((micro - TouchCfg.half * total) \div (Tick * total))
      high == -Tick * ((-micro - TouchCfg.half * total) \div (Tick * total))
      p == Clamp(c, [bid |-> low + skew, ask |-> high + skew])
  IN  IF p.bid >= p.ask THEN [p EXCEPT !.bid = p.ask - Tick] ELSE p

Repair(s, c, p) ==
  IF ShouldRequoteOnTick(s, p.bid, p.ask, c.now, TouchCfg.every)
  THEN Out([bid |-> p.bid, ask |-> p.ask, ts |-> c.now], PostOnlyPair(p.bid, p.ask))
  ELSE Out(s, << >>)

TopOfBook(s, c) ==
  IF c.k \in {"book", "tick"} /\ TwoSided(c) THEN Repair(s, c, TopOfBookTargets(c))
  ELSE Out(s, << >>)

MicroPrice(s, c) ==
  IF c.k \in {"book", "tick"} /\ TwoSided(c) THEN Repair(s, c, MicroPriceTargets(c))
  ELSE Out(s, << >>)

-----------------------------------------------------------------------------
(* avellaneda_stoikov and glft: a pair around a reservation price that leans
   against the inventory by the variance of the mid.  The estimator halves the
   old variance at every sample (one half-life) and is kept below VarCap; the
   two differ in the factor of the lean, their horizon.                      *)

VarCap == 2
ReserveInit == [mid |-> None, ts |-> 0, var |-> 0, seen |-> 0, qMid |-> None, qTs |-> 0]

\* EwmaVolatility::on_book_update: a clock that did not advance moves only the
\* seed, and the first call only seeds.
EwmaUpdate(s, mid, now) ==
  IF s.mid = None \/ now <= s.ts THEN [s EXCEPT !.mid = mid, !.ts = now]
  ELSE [s EXCEPT !.mid = mid, !.ts = now,
                 !.var = Min({VarCap, (@ + Abs(mid - s.mid)) \div 2}),
                 !.seen = Min({@ + 1, TouchCfg.warmup})]

Reserve(s0, c, horizon) ==
  IF c.k # "book" \/ ~TwoSided(c) THEN Out(s0, << >>)
  ELSE
    LET s == EwmaUpdate(s0, Mid(c), c.now)
        r == Mid(c) - c.pos * s.var * horizon
    IN  IF /\ s.seen >= TouchCfg.warmup
           /\ ShouldRequoteDrift(s.qTs, s.qMid, Mid(c), c.now, TouchCfg.every, TouchCfg.step)
        THEN Out([s EXCEPT !.qMid = Mid(c), !.qTs = c.now],
                 PostOnlyPair(r - TouchCfg.gap, r + TouchCfg.gap))
        ELSE Out(s, << >>)

AvellanedaStoikov(s, c) == Reserve(s, c, TouchCfg.horizon)
Glft(s, c) == Reserve(s, c, 1)
=============================================================================
