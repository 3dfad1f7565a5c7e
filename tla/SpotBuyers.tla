----------------------------- MODULE SpotBuyers -----------------------------
(***************************************************************************)
(* The two tasks of the application that buy a coin to keep it: bagboy,    *)
(* which rests a ladder of bids on MEXC until a budget is used up and      *)
(* detects its fills by the growth of a balance; and the refill that       *)
(* converts margin into the BNB that pays the fees.  Between any two calls *)
(* of theirs orders fill, the market moves, and the process may be killed  *)
(* and started again; only bagboy's two counters are on disk: the refill   *)
(* starts over with no memory of its last conversion.                      *)
(***************************************************************************)
EXTENDS Integers, FiniteSetsExt

CONSTANTS MaxBid,       \* prices are ticks, 1 .. MaxBid; a bid of 0 is an empty book
          Levels, Step, \* ladder_levels, and ladder_step_bps in ticks
          PerOrder,     \* usdt_per_order
          MinQty, MinNotional,    \* the symbol's filters (the step size is 1)
          CapBase, CapQuote,      \* max_total_base, max_total_usdt
          Funds,        \* what the quote wallet starts with
          MaxBoots,     \* bound on the starts of the process
          Low, Target, Fees,      \* min_, target_balance_usdt; bound on the fees
          Cooldown, Settle        \* CONVERT_COOLDOWN; minutes a conversion takes to show

ASSUME BuyersAssumption ==
    /\ {MaxBid, Levels, Step, PerOrder, Target} \subseteq Nat \ {0}
    /\ {MinQty, MinNotional, CapBase, CapQuote, Funds, MaxBoots, Low, Fees} \subseteq Nat
    /\ {Cooldown, Settle} \subseteq Nat /\ Settle < Cooldown

VARIABLES at,        \* where bagboy is: the call it makes next
          boots,
          bid,       \* the market's best bid
          rest,      \* per price: bids of ours that rest
          wallet, quote,   \* base held; quote held, what the bids lock included
          seen,      \* last_seen_base
          acquired, spent, lastBid,
          disk,      \* bagboy_state.json
          failed,    \* persist_failed
          capDone,   \* cap_cancel_done
          stale, plan, budget,  \* of the cycle: bids to cancel, levels to place, quote left
          missed,    \* ghost: units bought that no balance delta can show
          mishap     \* ghost: the file could not be written or read

VARIABLES refill,    \* where the refill is
          bnb, due,  \* BNB by its value: held, and converted but not yet shown
          adrift,    \* of that, what an earlier process converted
          restarts,
          reading,   \* the balance it read
          cool,      \* minutes until it may convert again
          fees,
          forgot     \* ghost: what was on its way whenever the process restarted

bagboyVars == <<at, boots, bid, rest, wallet, quote, seen, acquired, spent, lastBid,
                disk, failed, capDone, stale, plan, budget, missed, mishap>>
refillVars == <<refill, bnb, due, adrift, restarts, reading, cool, fees, forgot>>
buyVars == <<bagboyVars, refillVars>>

Prices == 1 .. MaxBid
CeilDiv(a, b) == (a + b - 1) \div b

\* compute_quantity: what an order at a price buys.
Quantity(p) ==
    LET stepped == PerOrder \div p
        bumped == IF stepped < MinQty THEN MinQty ELSE stepped
    IN  IF bumped * p < MinNotional THEN CeilDiv(MinNotional, p) ELSE bumped

Cost(p) == Quantity(p) * p
Locked == FoldSet(LAMBDA p, sum : sum + rest[p] * Cost(p), 0, Prices)
FreeQuote == quote - Locked
Resters == {p \in Prices : rest[p] > 0}

\* The ladder from a bid downward, and what rests outside its window.
Ladder(b) == {l \in {b - i * Step : i \in 0 .. Levels - 1} : l > 0}
Outside(b) == {p \in Resters : (\A l \in Ladder(b) : p > l) \/ \A l \in Ladder(b) : p < l}

Capped(base, usdt, fault) == fault \/ base >= CapBase \/ usdt >= CapQuote

BagboyInit ==
    /\ at = "down" /\ boots = 0 /\ bid \in Prices
    /\ rest = [p \in Prices |-> 0] /\ wallet = 0 /\ quote = Funds
    /\ seen = 0 /\ acquired = 0 /\ spent = 0 /\ lastBid = 0
    /\ disk = [base |-> 0, usdt |-> 0] /\ failed = FALSE /\ capDone = FALSE
    /\ stale = {} /\ plan = {} /\ budget = 0 /\ missed = 0 /\ mishap = FALSE
-----------------------------------------------------------------------------
(* The exchange (external). *)

Ticker ==
    /\ \E b \in 0..MaxBid : b # bid /\ bid' = b
    /\ UNCHANGED <<at, boots, rest, wallet, quote, seen, acquired, spent, lastBid, disk,
                   failed, capDone, stale, plan, budget, missed, mishap>>

\* An order fills.  With nobody to have seen the balance before, it is missed.
BidFills(p) ==
    /\ rest[p] > 0
    /\ rest' = [rest EXCEPT ![p] = @ - 1]
    /\ wallet' = wallet + Quantity(p) /\ quote' = quote - Cost(p)
    /\ missed' = IF at \in {"down", "seed"} THEN missed + Quantity(p) ELSE missed
    /\ UNCHANGED <<at, boots, bid, seen, acquired, spent, lastBid, disk, failed,
                   capDone, stale, plan, budget, mishap>>
-----------------------------------------------------------------------------
(* Bagboy. *)

\* A process starts: the counters come from the file; unreadable, they start
\* at nothing and nothing will be placed.
LoadState(readable) ==
    /\ at = "down" /\ boots < MaxBoots
    /\ boots' = boots + 1 /\ at' = "seed"
    /\ acquired' = IF readable THEN disk.base ELSE 0
    /\ spent' = IF readable THEN disk.usdt ELSE 0
    /\ mishap' = (mishap \/ ~readable)
    /\ failed' = ~readable /\ capDone' = FALSE
    /\ UNCHANGED <<bid, rest, wallet, quote, seen, lastBid, disk, stale, plan, budget, missed>>

\* The balance found is not a fill; asked again until it is answered.
SeedBalance ==
    /\ at = "seed" /\ at' = "bid" /\ seen' = wallet
    /\ UNCHANGED <<boots, bid, rest, wallet, quote, acquired, spent, lastBid, disk,
                   failed, capDone, stale, plan, budget, missed, mishap>>

SeedBid ==
    /\ at = "bid" /\ bid > 0 /\ lastBid' = bid /\ at' = "balance"
    /\ UNCHANGED <<boots, bid, rest, wallet, quote, seen, acquired, spent, disk,
                   failed, capDone, stale, plan, budget, missed, mishap>>

\* Shut down between two cycles, or killed anywhere: the orders rest on, and
\* what has filled since the last look at the balance will not be noticed.
Ends ==
    /\ at # "down" /\ at' = "down" /\ stale' = {} /\ plan' = {} /\ budget' = 0
    /\ missed' = IF at = "seed" THEN missed ELSE missed + (wallet - seen)
    /\ UNCHANGED <<boots, bid, rest, wallet, quote, seen, acquired, spent, lastBid,
                   disk, failed, capDone, mishap>>

\* Bug: the counters are saved only while something may still be placed.
SavedUncapped(base, usdt, ok) ==
    IF ok /\ ~Capped(base, usdt, failed) THEN [base |-> base, usdt |-> usdt] ELSE disk

Saved(base, usdt, ok) == IF ok THEN [base |-> base, usdt |-> usdt] ELSE disk

\* A cycle: a grown balance is a fill at the last known bid, counted and saved;
\* then the caps, a count that could not be saved among them.
Balance(ok) ==
    /\ at = "balance"
    /\ LET delta == wallet - seen
           base == acquired + delta
           usdt == spent + delta * lastBid
           fault == failed \/ (delta > 0 /\ ~ok)
       IN  /\ seen' = wallet /\ acquired' = base /\ spent' = usdt /\ failed' = fault
           /\ disk' = IF delta > 0 THEN Saved(base, usdt, ok) ELSE disk
           /\ mishap' = (mishap \/ (delta > 0 /\ ~ok))
           /\ IF Capped(base, usdt, fault)
              THEN at' = (IF capDone THEN "balance" ELSE "cancelAll") /\ capDone' = capDone
              ELSE at' = "book" /\ capDone' = FALSE
    /\ UNCHANGED <<boots, bid, rest, wallet, quote, lastBid, stale, plan, budget, missed>>

\* Its answer is ignored, and it is not sent a second time.
CancelAllBids(obeyed) ==
    /\ at = "cancelAll" /\ at' = "balance" /\ capDone' = TRUE
    /\ rest' = IF obeyed THEN [p \in Prices |-> 0] ELSE rest
    /\ UNCHANGED <<boots, bid, wallet, quote, seen, acquired, spent, lastBid, disk,
                   failed, stale, plan, budget, missed, mishap>>

Book ==
    /\ at = "book"
    /\ IF bid > 0 THEN lastBid' = bid /\ at' = "funds"
       ELSE lastBid' = lastBid /\ at' = "balance"
    /\ UNCHANGED <<boots, bid, rest, wallet, quote, seen, acquired, spent, disk,
                   failed, capDone, stale, plan, budget, missed, mishap>>

\* An order must be affordable.
QuoteBalance ==
    /\ at = "funds"
    /\ IF FreeQuote < (IF PerOrder > MinNotional THEN PerOrder ELSE MinNotional)
       THEN at' = "balance" /\ budget' = 0
       ELSE at' = "orders" /\ budget' = FreeQuote
    /\ UNCHANGED <<boots, bid, rest, wallet, quote, seen, acquired, spent, lastBid, disk,
                   failed, capDone, stale, plan, missed, mishap>>

\* Bug: every level of the ladder is missing, whatever rests.
MissingAll(b) == Ladder(b)

\* The levels of the ladder that no order of ours holds.
Missing(b) == Ladder(b) \ Resters

OpenBids ==
    /\ at = "orders" /\ at' = "work"
    /\ stale' = Outside(lastBid) /\ plan' = Missing(lastBid)
    /\ UNCHANGED <<boots, bid, rest, wallet, quote, seen, acquired, spent, lastBid, disk,
                   failed, capDone, budget, missed, mishap>>

\* A call of the cycle fails: the next cycle starts over.
CycleFails ==
    /\ at \in {"book", "funds", "orders"} /\ at' = "balance" /\ budget' = 0
    /\ UNCHANGED <<boots, bid, rest, wallet, quote, seen, acquired, spent, lastBid, disk,
                   failed, capDone, stale, plan, missed, mishap>>

CancelBid(p, obeyed) ==
    /\ at = "work" /\ p \in stale
    /\ stale' = stale \ {p}
    /\ rest' = IF obeyed /\ rest[p] > 0 THEN [rest EXCEPT ![p] = @ - 1] ELSE rest
    /\ UNCHANGED <<at, boots, bid, wallet, quote, seen, acquired, spent, lastBid, disk,
                   failed, capDone, plan, budget, missed, mishap>>

\* The level whose turn it is: the highest not yet tried.
Turn(p) == p \in plan /\ \A q \in plan : q <= p

\* The next missing level, while the budget lasts.  The exchange accepts it,
\* heard or not, if the wallet covers it, or refuses it.
PlaceBid(p, rests, heard) ==
    /\ at = "work" /\ stale = {} /\ Turn(p) /\ Cost(p) <= budget
    /\ heard => rests
    /\ rests => FreeQuote >= Cost(p)
    /\ rest' = IF rests THEN [rest EXCEPT ![p] = @ + 1] ELSE rest
    /\ budget' = IF heard THEN budget - Cost(p) ELSE budget
    /\ plan' = plan \ {p}
    /\ UNCHANGED <<at, boots, bid, wallet, quote, seen, acquired, spent, lastBid, disk,
                   failed, capDone, stale, missed, mishap>>

CycleEnds ==
    /\ at = "work" /\ stale = {} /\ \A p \in plan : Turn(p) => Cost(p) > budget
    /\ at' = "balance" /\ plan' = {} /\ budget' = 0
    /\ UNCHANGED <<boots, bid, rest, wallet, quote, seen, acquired, spent, lastBid, disk,
                   failed, capDone, stale, missed, mishap>>
-----------------------------------------------------------------------------
(* The refill of BNB.  A minute passes with each turn of its loop. *)

RefillInit ==
    /\ refill = "wait" /\ bnb \in 0..Target /\ due = {} /\ reading = 0 /\ cool = 0 /\ fees = 0
    /\ adrift = 0 /\ restarts = 0 /\ forgot = 0

\* live_bnb_value, the balance; gated, cooling or unanswered the turn is skipped.
ReadBnb ==
    /\ refill = "wait" /\ cool = 0
    /\ reading' = bnb /\ refill' = "read"
    /\ UNCHANGED <<bnb, due, adrift, restarts, cool, fees, forgot>>

\* The amount: up to the target, at most the target, at least 1.
Needed(value) == IF value < Target THEN Target - value ELSE 0

Decide ==
    /\ refill = "read"
    /\ refill' = IF reading < Low /\ Needed(reading) >= 1 THEN "convert" ELSE "turn"
    /\ UNCHANGED <<bnb, due, adrift, restarts, reading, cool, fees, forgot>>

\* Bug: only a conversion that succeeded starts the cooldown.
CoolsHeard(heard) == IF heard THEN Cooldown ELSE 0

\* Success, refusal and failure all start it.
Cools(heard) == Cooldown

\* convert_futures, quote and accept: done or not, heard or not.
Convert(done, heard) ==
    /\ refill = "convert" /\ (heard => done)
    /\ due' = IF done THEN due \cup {[amt |-> Needed(reading), age |-> 0]} ELSE due
    /\ cool' = Cools(heard) /\ refill' = "turn"
    /\ UNCHANGED <<bnb, adrift, restarts, reading, fees, forgot>>

Owed == FoldSet(LAMBDA d, sum : sum + d.amt, 0, due)

\* What was converted shows in the balance within Settle minutes, what an
\* earlier process converted at some time.
Settles ==
    /\ \/ \E d \in due : bnb' = bnb + d.amt /\ due' = due \ {d} /\ UNCHANGED adrift
       \/ \E k \in 1..adrift : bnb' = bnb + k /\ adrift' = adrift - k /\ UNCHANGED due
    /\ UNCHANGED <<refill, restarts, reading, cool, fees, forgot>>

\* Shut down or killed, and started again: last_convert is in memory only.
Restart ==
    /\ restarts < MaxBoots /\ restarts' = restarts + 1
    /\ refill' = "wait" /\ reading' = 0 /\ cool' = 0
    /\ due' = {} /\ adrift' = adrift + Owed /\ forgot' = forgot + Owed
    /\ UNCHANGED <<bnb, fees>>

PayFee ==
    /\ bnb > 0 /\ fees < Fees
    /\ bnb' = bnb - 1 /\ fees' = fees + 1
    /\ UNCHANGED <<refill, due, adrift, restarts, reading, cool, forgot>>

Minute ==
    /\ refill \in {"wait", "turn"} /\ \A d \in due : d.age < Settle
    /\ refill' = "wait"
    /\ cool' = IF cool > 0 THEN cool - 1 ELSE 0
    /\ due' = {[d EXCEPT !.age = @ + 1] : d \in due}
    /\ UNCHANGED <<bnb, adrift, restarts, reading, fees, forgot>>
-----------------------------------------------------------------------------
BuyInit == BagboyInit /\ RefillInit

BagboyNext ==
    \/ Ticker \/ \E p \in Prices : BidFills(p)
    \/ \E readable \in BOOLEAN : LoadState(readable)
    \/ SeedBalance \/ SeedBid \/ Ends
    \/ \E ok \in BOOLEAN : Balance(ok)
    \/ \E obeyed \in BOOLEAN : CancelAllBids(obeyed)
    \/ Book \/ QuoteBalance \/ OpenBids \/ CycleFails
    \/ \E p \in Prices, obeyed \in BOOLEAN : CancelBid(p, obeyed)
    \/ \E p \in Prices, rests, heard \in BOOLEAN : PlaceBid(p, rests, heard)
    \/ CycleEnds

RefillNext ==
    \/ ReadBnb \/ Decide \/ \E done, heard \in BOOLEAN : Convert(done, heard)
    \/ Settles \/ Restart \/ PayFee \/ Minute

\* Each task by itself; they share nothing.
BagboySpec == BagboyInit /\ [][BagboyNext]_bagboyVars
RefillSpec == RefillInit /\ [][RefillNext]_refillVars
-----------------------------------------------------------------------------
\* Every unit the balance has grown by is in the count the caps read, once,
\* unless it filled while bagboy did not run (missed): a kill at any point and
\* the restart after it neither drop nor repeat a fill, as long as the file can
\* be written and read (spawn_bagboy, "so a restart does not reset the hard-cap
\* budget").
EveryUnitCounted == at \notin {"down", "seed"} /\ ~mishap => acquired + missed = seen

\* The ladder rests once: no price holds two bids, whatever answers were lost,
\* cancels failed, prices moved or restarts came in between (spawn_bagboy,
\* step 5).
LadderOnce == \A p \in Prices : rest[p] <= 1

\* The refill never buys past its target, though a conversion may have gone
\* through unheard and shows only minutes later (CONVERT_COOLDOWN), by more than
\* what was on its way when the process restarted.
NeverOverfilled == bnb + Owed + adrift <= Target + forgot

\* bnb_refill.rs:45-47: "Don't convert again within this window of a prior
\* convert ...; this is a second backstop against a re-buy."  Stated without the
\* restarts, which forget the prior convert.
TargetHolds == bnb + Owed + adrift <= Target
=============================================================================
