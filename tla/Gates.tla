------------------------------- MODULE Gates --------------------------------
(***************************************************************************)
(* What stands between a strategy's actions and the live venue in          *)
(* run_inner: the inventory boost, the inventory cap, the rate-limit       *)
(* cooldown and the per-side failure gate, on both dispatch paths, "event" *)
(* (after a market event) and "post" (after a full fill, or a resize).     *)
(*                                                                         *)
(* The mirror is exact here (OrderMirror models where it is not): `orders` *)
(* holds what rests or is on its way, as committed_notional_by_side counts *)
(* it.  Time is counted in units of which SideReset make                   *)
(* SIDE_FAILS_RESET_AFTER and Cooldown a Retry-After; it may pass between  *)
(* any two steps, awaited calls included.  Sizes are in lots, and the      *)
(* curve of the boost is any enlargement up to MaxQty.  The cap follows    *)
(* the wallet or its channel and may be another with every batch; after a  *)
(* fill a book with an empty side has no mid, and nothing is boosted or    *)
(* capped.  The minimum notional, which drops an order before it is sent,  *)
(* is left out.                                                            *)
(***************************************************************************)
EXTENDS Integers, Sequences, FiniteSets, FiniteSetsExt

CONSTANTS GatePrices,  \* prices of orders
          MaxQty,      \* largest size, boost included
          MaxOrders,   \* bound on the orders ever sent
          MaxBatch,    \* bound on the actions of a batch
          MaxGain,     \* bound on what requotes and uncapped batches may add
          Kinds,       \* kinds of action the strategy uses
          Boosts,      \* of "off", "reduce", "chase", "profit"
          Seeds,       \* the position the run starts from: <<size, cost>>
          CapValues,   \* what current_max_position may be; 0: no cap
          MaxFails,    \* MAX_FAILS_PER_SIDE
          SideReset, Cooldown

ASSUME GatesAssumption ==
    /\ GatePrices \subseteq Nat \ {0} /\ MaxQty \in Nat \ {0}
    /\ MaxOrders \in Nat /\ MaxBatch \in Nat /\ MaxGain \in Nat
    /\ Kinds \subseteq {"quote", "cancel", "requote", "cancelAll"}
    /\ Boosts \subseteq {"off", "reduce", "chase", "profit"}
    /\ Seeds \subseteq Int \X Int
    /\ CapValues \subseteq Nat /\ MaxFails \in Nat \ {0} /\ SideReset \in Nat \ {0} /\ Cooldown \in Nat

VARIABLES
    boost,        \* inventory_boost, fixed for a run
    pos, cost,    \* the tracker: signed size, signed cost basis (size * avg_entry)
    orders,       \* mirror entries
    sent,         \* orders sent so far
    path,         \* dispatch path of the batch in hand, "idle" for none
    batch,        \* actions not yet dispatched
    flight,       \* the gathered run: calls made and not yet answered
    fails, age,   \* side_fails; time since side_fails_last, SideReset when longer or never
    cool,         \* what is left of rate_limited_until
    widest,       \* history: the largest cap so far
    gained        \* history: what the seed is over the cap, what buying back
                  \* realized, growth by requotes, bids that met no cap

gateVars == <<boost, pos, cost, orders, sent, path, batch, flight, fails, age, cool,
              widest, gained>>

Sides == {"bid", "ask"}
Other(side) == IF side = "bid" THEN "ask" ELSE "bid"
Sign(side) == IF side = "bid" THEN 1 ELSE -1
Abs(x) == IF x < 0 THEN -x ELSE x
Smaller(x, y) == IF x < y THEN x ELSE y

GatesInit ==
    /\ boost \in Boosts
    /\ \E s \in Seeds : pos = s[1] /\ cost = s[2]
    /\ orders = {} /\ sent = 0
    /\ path = "idle" /\ batch = <<>> /\ flight = <<>>
    /\ fails = [s \in Sides |-> 0] /\ age = SideReset /\ cool = 0
    /\ widest \in CapValues
    /\ gained = IF cost > widest THEN cost - widest ELSE 0

----------------------------------------------------------------------------
\* apply_inventory_size_boost: which quotes it may enlarge.  By default those
\* that reduce the bag, with "chase" those that add to it; with "profit" those
\* on the right side of the average entry: a close at a gain, an add that
\* improves the average.  Nothing is ever made smaller.  The cap is c.
MayGrow(a, c) ==
    LET reducing == IF pos > 0 THEN "ask" ELSE "bid"
        past == Sign(a.side) * (Abs(cost) - a.px * Abs(pos))   \* distance past avg
    IN  /\ a.kind = "quote" /\ pos # 0
        /\ CASE boost = "off"    -> FALSE
             [] boost = "reduce" -> a.side = reducing /\ c > 0
             [] boost = "chase"  -> a.side = Other(reducing) /\ c > 0
             [] boost = "profit" -> past > 0

Grown(a, c) == IF MayGrow(a, c) THEN {[a EXCEPT !.n = k] : k \in a.n..MaxQty} ELSE {a}

Boosted(b, c) == {d \in [DOMAIN b -> UNION {Grown(b[i], c) : i \in DOMAIN b}] :
                     \A i \in DOMAIN b : d[i] \in Grown(b[i], c)}

Committed(side) == MapThenSumSet(LAMBDA o : o.px * o.n, {o \in orders : o.side = side})

\* Mutant: what the batch itself has placed already is not counted.
CappedAlone(b, c) ==
    SelectSeq(b, LAMBDA a : \/ a.kind # "quote"
                            \/ Sign(a.side) * cost + Committed(a.side) + a.px * a.n <= c)

\* apply_bot_inventory_cap with a cap c: a quote passes when the position at its
\* cost, the committed orders of its side, the batch's earlier ones and it stay
\* within.
Capped(b, c) ==
    LET accepted[i \in 0..Len(b)] ==
            IF i = 0 THEN [out |-> <<>>, used |-> [s \in Sides |-> Committed(s)]]
            ELSE LET r == accepted[i - 1]
                     a == b[i]
                 IN  IF a.kind # "quote"
                     THEN [out |-> Append(r.out, a), used |-> r.used]
                     ELSE IF Sign(a.side) * cost + r.used[a.side] + a.px * a.n > c THEN r
                     ELSE [out |-> Append(r.out, a), used |-> [r.used EXCEPT ![a.side] = @ + a.px * a.n]]
    IN  accepted[Len(b)].out

\* The notional the bids of a batch ask for.
Ask(a) == IF a.kind = "quote" /\ a.side = "bid" THEN a.px * a.n ELSE 0
Asked(s) == LET sum[i \in 0..Len(s)] == IF i = 0 THEN 0 ELSE sum[i - 1] + Ask(s[i])
            IN  sum[Len(s)]

----------------------------------------------------------------------------
\* What the strategy may answer with.
Actions ==
    {[kind |-> "quote", id |-> 0, side |-> s, px |-> p, n |-> 1] : s \in Sides, p \in GatePrices}
    \cup {[kind |-> "cancel", id |-> o.id, side |-> o.side, px |-> o.px, n |-> o.n] : o \in orders}
    \cup {[kind |-> "requote", id |-> o.id, side |-> o.side, px |-> p, n |-> o.n] :
            o \in IF gained < MaxGain THEN orders ELSE {}, p \in GatePrices}
    \cup {[kind |-> "cancelAll", id |-> 0, side |-> "bid", px |-> 0, n |-> 0]}

Batches == UNION {[1..k -> {a \in Actions : a.kind \in Kinds}] : k \in 1..MaxBatch}

\* The batch of one arm of the loop, under the cap of the moment: boosted and
\* capped, or not capped because there is no cap, or, on the post path, neither
\* because the book has no mid.  While the cooldown lasts it is dropped.
Begin(by) ==
    /\ path = "idle"
    /\ \E c \in CapValues, wish \in Batches :
         /\ widest' = IF c > widest THEN c ELSE widest
         /\ \/ /\ c > 0 /\ UNCHANGED gained
               /\ \E b \in Boosted(wish, c) : batch' = IF cool > 0 THEN <<>> ELSE Capped(b, c)
            \/ /\ (c = 0 \/ by = "post") /\ gained < MaxGain
               /\ \E b \in IF c = 0 THEN Boosted(wish, 0) ELSE {wish} :
                    batch' = IF cool > 0 THEN <<>> ELSE b
               /\ gained' = gained + Asked(batch')
    /\ path' = IF batch' = <<>> THEN "idle" ELSE by
    /\ UNCHANGED <<boost, pos, cost, orders, sent, flight, fails, age, cool>>

\* A run of like actions is one call.  Quotes of a side that failed too often
\* are left out of it; on the event path alone the lockout expires first.
Run == LET n == CHOOSE n \in 1..Len(batch) :
                   /\ \A i \in 1..n : batch[i].kind = batch[1].kind
                   /\ n = Len(batch) \/ batch[n + 1].kind # batch[1].kind \/ batch[1].kind = "cancelAll"
                   /\ batch[1].kind = "cancelAll" => n = 1
       IN  SubSeq(batch, 1, n)

\* Those of a run that are called, with failures f.
Open(run, f) ==
    LET called[i \in 0..Len(run)] ==
            IF i = 0 THEN <<>>
            ELSE IF run[i].kind = "quote" /\ f[run[i].side] >= MaxFails THEN called[i - 1]
            ELSE Append(called[i - 1], run[i])
    IN  called[Len(run)]

Expired == path = "event" /\ age >= SideReset

Healthy == [s \in Sides |-> 0]

\* Mutant: a quote left out counts as a rejection and renews the timestamp.
GatherStamping ==
    /\ path # "idle" /\ flight = <<>> /\ batch # <<>>
    /\ LET kind  == Head(batch).kind
           lifts == kind = "cancelAll" \/ (kind = "quote" /\ Expired)
       IN  /\ fails' = IF lifts THEN Healthy ELSE fails
           /\ flight' = Open(Run, fails')
           /\ batch' = SubSeq(batch, Len(Run) + 1, Len(batch))
    /\ age' = IF Len(flight') < Len(Run) THEN 0 ELSE age
    /\ UNCHANGED <<boost, pos, cost, orders, sent, path, cool, widest, gained>>

Gather ==
    /\ path # "idle" /\ flight = <<>> /\ batch # <<>>
    /\ LET kind  == Head(batch).kind
           lifts == kind = "cancelAll" \/ (kind = "quote" /\ Expired)
       IN  /\ fails' = IF lifts THEN Healthy ELSE fails
           /\ flight' = Open(Run, fails')
           /\ batch' = SubSeq(batch, Len(Run) + 1, Len(batch))
    /\ UNCHANGED <<boost, pos, cost, orders, sent, path, age, cool, widest, gained>>

Rest == UNCHANGED <<boost, pos, cost, path, batch, age, widest>>

\* The answers, one by one: accepted, refused for a passing reason (post-only,
\* quantitative rules), rate limited, or refused for good.
Accepted ==
    /\ flight # <<>> /\ flight' = Tail(flight) /\ Rest /\ UNCHANGED cool
    /\ LET a == Head(flight)
       IN  CASE a.kind = "quote" ->
                  /\ sent < MaxOrders /\ sent' = sent + 1
                  /\ orders' = orders \cup {[id |-> sent + 1, side |-> a.side, px |-> a.px, n |-> a.n]}
                  /\ fails' = [fails EXCEPT ![a.side] = 0]
                  /\ UNCHANGED gained
             [] a.kind = "cancel" ->
                  orders' = {o \in orders : o.id # a.id} /\ UNCHANGED <<sent, fails, gained>>
             [] a.kind = "requote" ->
                  LET old == {o \in orders : o.id = a.id}
                      up  == {o \in old : o.side = "bid" /\ a.px > o.px}
                  IN  /\ orders' = (orders \ old) \cup {[o EXCEPT !.px = a.px] : o \in old}
                      /\ gained' = gained + MapThenSumSet(LAMBDA o : (a.px - o.px) * o.n, up)
                      /\ UNCHANGED <<sent, fails>>
             [] a.kind = "cancelAll" -> orders' = {} /\ UNCHANGED <<sent, fails, gained>>

Passing == /\ flight # <<>> /\ flight' = Tail(flight) /\ Rest
           /\ UNCHANGED <<orders, sent, fails, cool, gained>>

\* After a fill, a cancel_all that is limited does not arm the cooldown.
Limited ==
    /\ flight # <<>> /\ flight' = Tail(flight) /\ Rest
    /\ cool' = IF path = "post" /\ Head(flight).kind = "cancelAll" THEN cool ELSE Cooldown
    /\ UNCHANGED <<orders, sent, fails, gained>>

\* record_side_failure: one timestamp for both sides.
Refused ==
    /\ flight # <<>> /\ Head(flight).kind = "quote" /\ flight' = Tail(flight)
    /\ fails' = [fails EXCEPT ![Head(flight).side] = Smaller(@ + 1, MaxFails)]
    /\ age' = 0
    /\ UNCHANGED <<boost, pos, cost, orders, sent, path, batch, cool, widest, gained>>

Finish == /\ path # "idle" /\ flight = <<>> /\ batch = <<>> /\ path' = "idle"
          /\ UNCHANGED <<boost, pos, cost, orders, sent, batch, flight, fails, age, cool, widest, gained>>

\* The external-fill arm: the tracker moves, the mirror forgets the order, the
\* failures are forgiven, and the strategy's reaction goes out on the post path.
Filled ==
    /\ path = "idle"
    /\ \E o \in orders :
         LET c     == IF pos * Sign(o.side) < 0 THEN Smaller(Abs(pos), o.n) ELSE 0
             basis == IF pos = 0 THEN 0 ELSE (Abs(cost) * c) \div Abs(pos)
         IN  /\ orders' = orders \ {o}
             /\ pos' = pos + Sign(o.side) * o.n
             /\ cost' = cost + Sign(o.side) * (basis + (o.n - c) * o.px)
             /\ gained' = gained + IF o.side = "bid" /\ basis > c * o.px THEN basis - c * o.px ELSE 0
    /\ fails' = Healthy
    /\ UNCHANGED <<boost, sent, path, batch, flight, age, cool, widest>>

Tick == /\ age < SideReset \/ cool > 0
        /\ age' = Smaller(age + 1, SideReset)
        /\ cool' = IF cool > 0 THEN cool - 1 ELSE 0
        /\ UNCHANGED <<boost, pos, cost, orders, sent, path, batch, flight, fails, widest, gained>>

GatesNext == \/ Begin("event") \/ Begin("post") \/ Gather \/ Accepted \/ Passing \/ Limited
             \/ Refused \/ Finish \/ Filled \/ Tick

\* Time passes; nothing else is owed.
GatesSpec == GatesInit /\ [][GatesNext]_gateVars /\ WF_gateVars(Tick)

----------------------------------------------------------------------------
GateOrder == [id : 1..MaxOrders, side : Sides, px : GatePrices, n : 1..MaxQty]

GatesTypeOK ==
    /\ orders \subseteq GateOrder /\ sent \in 0..MaxOrders /\ path \in {"idle", "event", "post"}
    /\ fails \in [Sides -> 0..MaxFails] /\ age \in 0..SideReset /\ cool \in 0..Cooldown

\* The worst case of apply_bot_inventory_cap, all bids filled, stays within the
\* largest cap there was but for what the position the run started with exceeds
\* it, what buying back a short realized (resting bids are netted at their own
\* price against a short at its entry), what requotes, which the cap lets
\* through, have added, and the bids dispatched without a cap.
OvershootIsRealized == cost + Committed("bid") <= widest + gained

\* MAX_FAILS_PER_SIDE and SIDE_FAILS_RESET_AFTER: the two sides are never both
\* locked for good.  One may be, as long as the other goes on failing.
Locked(side) == fails[side] >= MaxFails /\ age < SideReset
NeverBothLocked == [](Locked("bid") /\ Locked("ask") => <>(~Locked("bid") \/ ~Locked("ask")))

\* runner.rs:3017-3022: the worst case bounds the peak of the inventory.
PeakBounded == widest > 0 => cost <= widest

\* runner.rs:3283-3291: a 429 on the post path drops the rest of the orders.
RestDropped == [][path = "post" /\ flight = <<>> /\ flight' # <<>> => cool = 0]_gateVars
=============================================================================
