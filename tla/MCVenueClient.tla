--------------------------- MODULE MCVenueClient ---------------------------
(***************************************************************************)
(* Instances of VenueClient and SpotBuyers for TLC, in one run: a          *)
(* behaviour is one of the venue client (two concurrent callers, two       *)
(* orders, one batch whose asks span two requests), one of bagboy or one   *)
(* of the refill; the others rest.                                         *)
(***************************************************************************)
EXTENDS VenueClient, SpotBuyers, TLC

\* Callers are interchangeable: no action tells one from another.
CallerSymmetry == Permutations(Callers)

VARIABLE part   \* the component that runs

Intent(s, p) == [side |-> s, price |-> p]
MCBatches == {<<Intent("ask", 3), Intent("bid", 1), Intent("ask", 2)>>}

MCInit ==
    /\ Init /\ BuyInit /\ part \in {"client", "bagboy", "refill"}
    /\ part # "client" => venue = CHOOSE v \in Venues : TRUE
    /\ part # "bagboy" => bid = 1
    /\ part # "refill" => bnb = 0

OfClient == part = "client" /\ UNCHANGED <<part, buyVars>>
OfBagboy == part = "bagboy" /\ UNCHANGED <<part, vars, refillVars>>
OfRefill == part = "refill" /\ UNCHANGED <<part, vars, bagboyVars>>

\* Next, BagboyNext and RefillNext, action by action.
MCNext ==
    \/ \E c \in Callers : Request(c) /\ OfClient
    \/ \E c \in Callers : Quiet /\ Call(c) /\ OfClient
    \/ \E b \in Batches : \E good \in SUBSET DOMAIN b : Quiet /\ BatchQuote(b, good) /\ OfClient
    \/ Quiet /\ BatchDone /\ OfClient
    \/ \E c \in Callers : Quiet /\ Answer(c) /\ OfClient
    \/ \E c \in Callers : Quiet /\ Refuse(c) /\ OfClient
    \/ \E c \in Callers : Quiet /\ Disconnect(c) /\ OfClient
    \/ \E c \in Callers : Quiet /\ Timeout(c) /\ OfClient
    \/ \E k \in Slots : Quiet /\ Execute(k) /\ OfClient
    \/ \E k \in Slots : Quiet /\ Vanish(k) /\ OfClient
    \/ \E i \in OrderIds : Quiet /\ Fill(i) /\ OfClient
    \/ Quiet /\ Send /\ OfClient
    \/ Quiet /\ Drop /\ OfClient
    \/ Quiet /\ Reconnect /\ OfClient
    \/ Quiet /\ Tick /\ OfClient
    \/ Ticker /\ OfBagboy
    \/ \E p \in Prices : BidFills(p) /\ OfBagboy
    \/ \E readable \in BOOLEAN : LoadState(readable) /\ OfBagboy
    \/ SeedBalance /\ OfBagboy
    \/ SeedBid /\ OfBagboy
    \/ Ends /\ OfBagboy
    \/ \E ok \in BOOLEAN : Balance(ok) /\ OfBagboy
    \/ \E obeyed \in BOOLEAN : CancelAllBids(obeyed) /\ OfBagboy
    \/ Book /\ OfBagboy
    \/ QuoteBalance /\ OfBagboy
    \/ OpenBids /\ OfBagboy
    \/ CycleFails /\ OfBagboy
    \/ \E p \in Prices, obeyed \in BOOLEAN : CancelBid(p, obeyed) /\ OfBagboy
    \/ \E p \in Prices, rests, heard \in BOOLEAN : PlaceBid(p, rests, heard) /\ OfBagboy
    \/ CycleEnds /\ OfBagboy
    \/ ReadBnb /\ OfRefill
    \/ Decide /\ OfRefill
    \/ \E done, heard \in BOOLEAN : Convert(done, heard) /\ OfRefill
    \/ Settles /\ OfRefill
    \/ Restart /\ OfRefill
    \/ PayFee /\ OfRefill
    \/ Minute /\ OfRefill

MCSpec == MCInit /\ [][MCNext]_<<part, vars, buyVars>>
=============================================================================
