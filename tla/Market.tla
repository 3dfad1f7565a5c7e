------------------------------- MODULE Market -------------------------------
(* What every strategy of crates/tikr-strategy sees and says: the context it
   is called with, the actions it answers, and the helpers of lib.rs they
   share.

   A context c is a record [k, bid, ask, bsz, asz, pos, avg, open, now, fill]:
     k       the event: "book", "fill", "trade" or "tick" (a heartbeat);
     bid, ask, bsz, asz   the touch and its sizes, None for an empty side;
     pos, avg             the signed position in lots and its average entry;
     open                 the orders shown to the strategy, a set of records
                          [id, side, px, sz];
     now                  the clock;
     fill, trade          the last fill [side, px, sz, full] and print [px, sz];
     liqs                 the recent liquidations, a sequence of [ts, side, n].
   Prices are integers and a tick is two of them, so a mid is an integer too.
   A distance the code keeps in basis points is a number of these half ticks,
   and notional / price, floored to the lot, is a constant number of lots.   *)
EXTENDS Integers, Sequences, FiniteSets, SequencesExt, FiniteSetsExt

CONSTANT Lot          \* lots of one regular order
ASSUME LotAssumption == Lot \in Nat \ {0}

None == 0             \* an absent price
Never == -1           \* an absent time
Tick == 2
Sides == {"bid", "ask"}

Opp(side) == IF side = "bid" THEN "ask" ELSE "bid"
Sgn(side) == IF side = "bid" THEN 1 ELSE -1
Abs(n) == IF n < 0 THEN -n ELSE n
Closing(pos) == IF pos > 0 THEN "ask" ELSE "bid"
Adding(pos) == Opp(Closing(pos))

Touch(c, side) == IF side = "bid" THEN c.bid ELSE c.ask
\* d further from the market than p, on a side
Away(side, p, d) == p - Sgn(side) * d
TwoSided(c) == c.bid # None /\ c.ask # None
Mid(c) == (c.bid + c.ask) \div 2
Shown(c, side) == {o \in c.open : o.side = side}
Prices(orders) == {o.px : o \in orders}
\* The price farthest from, and nearest to, the market on a side.
Farther(side, p, q) == Sgn(side) * p < Sgn(side) * q
Outermost(side, ps) == CHOOSE p \in ps : \A q \in ps : ~Farther(side, q, p)
Innermost(side, ps) == CHOOSE p \in ps : \A q \in ps : ~Farther(side, p, q)

Order(side, px, sz, tif) ==
  [op |-> "quote", id |-> 0, side |-> side, px |-> px, sz |-> sz, tif |-> tif]
Post(side, px, sz) == Order(side, px, sz, "post")
Cancel(id) == [op |-> "cancel", id |-> id, side |-> "bid", px |-> 0, sz |-> 0, tif |-> "post"]
Requote(id, side, px, sz) ==
  [op |-> "requote", id |-> id, side |-> side, px |-> px, sz |-> sz, tif |-> "post"]
CancelAll == [Cancel(0) EXCEPT !.op = "cancelAll"]
CancelThose(orders) == SetToSeq({Cancel(o.id) : o \in orders})

\* Rounded to the tick, a half to the even one, as Decimal::round does.
RoundTick(p) ==
  LET low == p \div Tick
  IN  Tick * (IF p % Tick = 0 \/ low % 2 = 0 THEN low ELSE low + 1)
FloorTick(p) == Tick * (p \div Tick)
Clip(n, lo, hi) == Max({lo, Min({hi, n})})

Out(s, acts) == [st |-> s, acts |-> acts]
When(b, acts) == IF b THEN acts ELSE << >>
\* f over lo .. hi, concatenated: the quotes of a ladder.
Ladder(lo, hi, f(_)) == FlattenSeq([k \in 1 .. (hi - lo + 1) |-> f(lo + k - 1)])

\* The orders of acts, the nearest to p first, equally near ones in their order.
Arrangements(n) == {f \in [1 .. n -> 1 .. n] : IsInjective(f)}
NearestFirst(acts, p) ==
  LET all == Arrangements(Len(acts))
      Dist(k) == Abs(acts[k].px - p)
      Sorted(f) == \A i, j \in 1 .. Len(acts) :
                     i < j => \/ Dist(f[i]) < Dist(f[j])
                              \/ Dist(f[i]) = Dist(f[j]) /\ f[i] < f[j]
      best == CHOOSE f \in all : (\E g \in all : Sorted(g)) => Sorted(f)
  IN  [i \in 1 .. Len(acts) |-> acts[best[i]]]

-----------------------------------------------------------------------------
(* lib.rs *)

PostOnlyPair(bid, ask) == <<CancelAll, Post("bid", bid, Lot), Post("ask", ask, Lot)>>

\* should_requote_drift: the first time, every `every`, or on a drift above
\* half the level step.
ShouldRequoteDrift(ts, last, mid, now, every, step) ==
  \/ last = None
  \/ now - ts >= every
  \/ 2 * Abs(mid - last) > step

\* should_requote_on_tick_drift
ShouldRequoteOnTick(s, bid, ask, now, every) ==
  \/ s.bid = None \/ s.ask = None
  \/ now - s.ts >= every
  \/ Abs(bid - s.bid) >= Tick \/ Abs(ask - s.ask) >= Tick

\* -sign(pos) * floor(min(|pos| / unit, 1) * max) ticks
InventorySkew(pos, max, unit) ==
  LET shift == (Min({Abs(pos), unit}) * max) \div unit
  IN  IF pos > 0 THEN -shift * Tick ELSE shift * Tick

-----------------------------------------------------------------------------
(* risk.rs: take profit and stop loss on the drift of the mid from the average
   entry, and the taker order that closes the whole position.  usdt is the
   absolute profit that counts when no drift is configured.                  *)

Drift(pos, avg, mid) == IF pos > 0 THEN mid - avg ELSE avg - mid

RiskCloses(pos, avg, mid, tp, sl, usdt) ==
  /\ pos # 0 /\ avg > 0
  /\ LET d == Drift(pos, avg, mid)
     IN  \/ tp > 0 /\ d >= tp
         \/ tp = 0 /\ usdt > 0 /\ d * Abs(pos) >= usdt
         \/ sl > 0 /\ -d >= sl

\* A taker order at the opposing touch of t, a record [bid, ask].
TakerAt(side, sz, t) == Order(side, t[Opp(side)], sz, "ioc")
BuildClose(pos, t) == TakerAt(Closing(pos), Abs(pos), t)
=============================================================================
