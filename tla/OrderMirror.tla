---------------------------- MODULE OrderMirror -----------------------------
(***************************************************************************)
(* The live runner's picture of its own resting orders.                    *)
(*                                                                         *)
(* In live mode FillSim is a mirror: it matches nothing, it only registers *)
(* the orders the venue accepted, so that the strategy, which sees nothing *)
(* else, does not quote a slot twice.  The mirror is fed by the answers to *)
(* the runner's own REST calls, by the fills of the websocket and by a     *)
(* reconciliation with venue.open_orders every 30 s.  The runner also      *)
(* rests a reduce-only take-profit of its own, hidden from the strategy,   *)
(* and infers from its absence in the mirror that it filled.  Its bagger   *)
(* may rest a reduce-only limit as well, of which it keeps no id: only the *)
(* next reconciliation tells the mirror, and the strategy, of that order.  *)
(*                                                                         *)
(* The runner is one task.  A handler is cut into steps where it awaits    *)
(* the venue, as the venue goes on filling and dropping orders meanwhile;  *)
(* `pc` says where in a handler it is and `todo` holds the actions of the  *)
(* strategy not yet dispatched.  Prices, sizes and risk checks are data: a *)
(* slot is a (side, price) the strategy wants at most one order in.        *)
(***************************************************************************)
EXTENDS Integers, Sequences, SequencesExt, FiniteSets

CONSTANTS MaxOrders,    \* bound on the orders ever accepted
          Aliens,       \* at most so many orders of an earlier run rest at start-up
          Slots,        \* slots the strategy quotes
          Bags,         \* signs the position may have; {0}: no take-profit
          MaxExpected,  \* max_expected_open_orders; 0: no orphan sweep
          MaxPlan,      \* bound on the actions a strategy emits at once
          Kinds,        \* kinds of action the strategy emits
          Bagger,       \* is the bagger "on" or "off"?
          Faults        \* what goes wrong at the venue or on the way

ASSUME OrderMirrorAssumption ==
    /\ MaxOrders \in Nat /\ Aliens \in 0..MaxOrders
    /\ MaxExpected \in Nat /\ MaxPlan \in Nat
    /\ 0 \in Bags /\ Bags \subseteq {-1, 0, 1}
    /\ Kinds \subseteq {"quote", "cancel", "requote", "cancelAll"}
    /\ Faults \subseteq {"lostAnswer", "lostFill", "silentCancel", "staleBook"}
    /\ Bagger \in {"on", "off"}
    /\ Slots \cap {"tp", "bagger", "alien", "none"} = {}

Orders == 1..MaxOrders

VARIABLES
    \* the venue
    last,      \* the last order accepted
    slotOf,    \* the slot of each order; "tp", "bagger", "alien" are no slots
    open,      \* orders resting at the venue
    wire,      \* full fills on their way to the runner
    \* the mirror
    live,      \* FillSim.live_quotes
    placing,   \* FillSim.pending, Op::Place
    replacing, \* FillSim.pending, Op::Replace
    manager,   \* FillSim.manager_ids
    \* the runner
    pc, todo,
    bag,       \* sign of the tracker's position
    replayed,  \* fills on the wire that the REST gap-fill booked first
    orders,    \* the answer of venue.open_orders
    tp,        \* tp_quote_id, 0 for None
    latch,     \* tp_taken: "armed" or "taken"
    tpSign,    \* tp_last_sign
    \* history
    untold,    \* resting orders whose acceptance or survival the runner was not told,
               \*   or whose id it threw away
    kept,      \* resting orders that a failed cancel_all of the strategy left
    cashed     \* has the take-profit filled for this bag?  "no" or "yes"

venueVars   == <<last, slotOf, open, wire>>
mirrorVars  == <<live, placing, replacing, manager>>
runnerVars  == <<pc, todo, bag, replayed, orders>>
tpVars      == <<tp, latch, tpSign>>
historyVars == <<untold, kept, cashed>>
vars == <<venueVars, mirrorVars, runnerVars, tpVars, historyVars>>

Action == ({"quote"} \X Slots) \cup ({"cancel", "requote"} \X Orders) \cup {<<"cancelAll", 0>>}

TypeOK ==
    /\ last \in 0..MaxOrders
    /\ slotOf \in [Orders -> Slots \cup {"tp", "bagger", "alien", "none"}]
    /\ open \subseteq Orders /\ wire \in Seq(Orders)
    /\ live \subseteq Orders /\ placing \subseteq Orders /\ replacing \subseteq Orders
    /\ manager \subseteq Orders
    /\ pc \in {"boot", "bootCancel", "idle", "event", "main", "post",
               "tpCancel", "tpPlace", "recon", "list", "sync"}
    /\ todo \in Seq(Action)
    /\ bag \in Bags /\ tpSign \in Bags
    /\ replayed \subseteq Orders /\ orders \subseteq Orders
    /\ tp \in 0..MaxOrders /\ latch \in {"armed", "taken"}
    /\ untold \subseteq Orders /\ kept \subseteq Orders
    /\ cashed \in {"no", "yes"}

Init ==
    /\ last \in 0..Aliens /\ open = 1..last /\ wire = <<>>
    /\ slotOf = [o \in Orders |-> IF o <= last THEN "alien" ELSE "none"]
    /\ live = {} /\ placing = {} /\ replacing = {} /\ manager = {}
    /\ pc = "boot" /\ todo = <<>> /\ bag = 0 /\ replayed = {} /\ orders = {}
    /\ tp = 0 /\ latch = "armed" /\ tpSign = 0
    /\ untold = 1..last /\ kept = {} /\ cashed = "no"

-----------------------------------------------------------------------------
(* The mirror (FillSim in live-mirror mode).                               *)

\* Faulty variant: a placed order counts once it rests.
TrackedResting == live \cup replacing

\* is_tracked.
Tracked == live \cup placing \cup replacing

\* Faulty variant: operations in flight are left out.
ViewResting == live \ manager

\* live_quotes_for: what the strategy sees, in-flight operations included.
View == ((live \cup placing) \ manager) \cup replacing

\* drop_quote.
DropQuote(o) == /\ live' = live \ {o}
                /\ placing' = placing \ {o}
                /\ replacing' = replacing \ {o}

\* drop_quotes_for: every order of the strategy goes, the manager's stay.
Survivors == [live      |-> live \cap manager,
              placing   |-> placing \cap manager,
              replacing |-> {}]

\* Faulty variants: nothing resting goes; nothing listed comes in.
ReconciledKeeping(resting, inFlight, listed) == resting \cup (listed \ inFlight)
ReconciledBlind(resting, inFlight, listed) == resting \cap listed

\* reconcile_quotes_for: resting orders the venue does not list go, listed
\* orders neither resting nor being placed come in.
Reconciled(resting, inFlight, listed) == (resting \cap listed) \cup (listed \ inFlight)

-----------------------------------------------------------------------------
(* The venue.                                                              *)

\* The venue accepts an order in slot s.
Accept(s) ==
    /\ last < MaxOrders
    /\ last' = last + 1
    /\ slotOf' = [slotOf EXCEPT ![last + 1] = s]
    /\ open' = open \cup {last + 1}
    /\ UNCHANGED wire

\* Orders S no longer rest.
Leave(S) ==
    /\ open' = open \ S
    /\ untold' = untold \ S
    /\ kept' = kept \ S

\* An order fills; its last fill goes out on the websocket, or is lost there.
VenueFill(o) ==
    /\ o \in open
    /\ Leave({o})
    /\ cashed' = IF o = tp THEN "yes" ELSE cashed
    /\ wire' \in {Append(wire, o)} \cup (IF "lostFill" \in Faults THEN {wire} ELSE {})
    /\ UNCHANGED <<last, slotOf, mirrorVars, runnerVars, tpVars>>

\* The venue drops an order (expiry, reduce-only that no longer reduces).
SilentCancel(o) ==
    /\ "silentCancel" \in Faults /\ o \in open
    /\ Leave({o})
    /\ UNCHANGED <<last, slotOf, wire, mirrorVars, runnerVars, tpVars, cashed>>

-----------------------------------------------------------------------------
(* Start-up: cancel what an earlier run left behind.                       *)

BootList ==
    /\ pc = "boot"
    /\ pc' \in IF open = {} THEN {"idle"} ELSE {"bootCancel", "idle"}
    /\ UNCHANGED <<venueVars, mirrorVars, todo, bag, replayed, orders, tpVars, historyVars>>

BootCancel ==
    /\ pc = "bootCancel"
    /\ pc' = "idle"
    /\ Leave({}) \/ Leave(open)
    /\ UNCHANGED <<last, slotOf, wire, mirrorVars, todo, bag, replayed, orders, tpVars, cashed>>

-----------------------------------------------------------------------------
(* The arms that ask the strategy.                                         *)

\* What a strategy emits given what it sees: cancels and requotes of orders in
\* view, and quotes for slots that are empty or emptied by a CancelAll before.
Sensible(plan, view) ==
    /\ \A i \in DOMAIN plan :
        /\ plan[i][1] = "quote" =>
              \/ \A o \in view : slotOf[o] # plan[i][2]
              \/ \E j \in 1..i-1 : plan[j][1] = "cancelAll"
        /\ plan[i][1] \in {"cancel", "requote"} => plan[i][2] \in view
    /\ \A i, j \in DOMAIN plan : plan[i] = plan[j] => i = j

Plans(view) ==
    {plan \in BoundedSeq({a \in Action : a[1] \in Kinds}, MaxPlan) : Sensible(plan, view)}

\* The event arm begins with the bagger.  A cut of the bag that is not a taker's
\* rests a reduce-only limit, and its id is thrown away: the mirror is not told.
\* (A taker's close rests nothing; its fill is one that moves the position.)
BaggerRests ==
    /\ Bagger = "on" /\ pc = "idle" /\ bag # 0
    /\ pc' = "event"
    /\ Accept("bagger")
    /\ untold' = untold \cup {last + 1}
    /\ UNCHANGED <<mirrorVars, todo, bag, replayed, orders, tpVars, kept, cashed>>

\* The event arm asks the strategy, after the bagger or without it.
MarketEvent ==
    /\ pc \in {"idle", "event"}
    /\ pc' = "main" /\ todo' \in Plans(View)
    /\ UNCHANGED <<venueVars, mirrorVars, bag, replayed, orders, tpVars, historyVars>>

\* The notional and max-position arms do too, and dispatch as after a fill.
WatchUpdate ==
    /\ pc = "idle"
    /\ pc' = "post" /\ todo' \in Plans(View)
    /\ UNCHANGED <<venueVars, mirrorVars, bag, replayed, orders, tpVars, historyVars>>

\* The external-fill arm: an order is gone, the strategy reacts.  A fill the
\* REST gap-fill booked first is skipped, mirror and strategy included.
FillArrives ==
    /\ pc = "idle" /\ wire # <<>>
    /\ wire' = Tail(wire)
    /\ LET o == Head(wire) IN
         IF o \in replayed
         THEN /\ replayed' = replayed \ {o}
              /\ UNCHANGED <<live, placing, replacing, pc, todo, bag>>
         ELSE /\ DropQuote(o)
              /\ bag' \in Bags
              /\ pc' = "post" /\ todo' \in Plans(View \ {o})
              /\ UNCHANGED replayed
    /\ UNCHANGED <<last, slotOf, open, manager, orders, tpVars, historyVars>>

\* A partial fill moves the position and leaves the mirror alone.
PartialFill ==
    /\ pc = "idle" /\ open # {}
    /\ bag' \in Bags
    /\ UNCHANGED <<venueVars, mirrorVars, pc, todo, replayed, orders, tpVars, historyVars>>

-----------------------------------------------------------------------------
(* Dispatch: one answer of the venue at a time.                            *)

Dispatching == pc \in {"main", "post"} /\ todo # <<>>
Doing(op)   == Dispatching /\ Head(todo)[1] = op /\ todo' = Tail(todo)
Subject     == Head(todo)[2]

\* Faulty variant: the id is read after the next one was given out.
QuoteOkNextId ==
    /\ Doing("quote")
    /\ Accept(Subject)
    /\ placing' = placing \cup {last' + 1}
    /\ UNCHANGED <<live, replacing, manager, pc, bag, replayed, orders, tpVars, historyVars>>

\* Accepted: the mirror is told the venue's id (enqueue_place_with_id).
QuoteOk ==
    /\ Doing("quote")
    /\ Accept(Subject)
    /\ placing' = placing \cup {last + 1}
    /\ UNCHANGED <<live, replacing, manager, pc, bag, replayed, orders, tpVars, historyVars>>

\* Refused, or never sent: the slot stays empty, nothing is retried.
QuoteRefused ==
    /\ Doing("quote")
    /\ UNCHANGED <<venueVars, mirrorVars, pc, bag, replayed, orders, tpVars, historyVars>>

\* Accepted, but the answer is an error (a timeout, a gateway error).
QuoteLost ==
    /\ Doing("quote") /\ "lostAnswer" \in Faults
    /\ Accept(Subject)
    /\ untold' = untold \cup {last + 1}
    /\ UNCHANGED <<mirrorVars, pc, bag, replayed, orders, tpVars, kept, cashed>>

\* Cancelled, or already gone (UnknownQuote): the mirror drops it.
CancelOk ==
    /\ Doing("cancel")
    /\ Leave({Subject})
    /\ DropQuote(Subject)
    /\ UNCHANGED <<last, slotOf, wire, manager, pc, bag, replayed, orders, tpVars, cashed>>

\* The call fails: the mirror keeps the order, whatever became of it.
CancelErr ==
    /\ Doing("cancel")
    /\ Leave({}) \/ ("lostAnswer" \in Faults /\ Leave({Subject}))
    /\ UNCHANGED <<last, slotOf, wire, mirrorVars, pc, bag, replayed, orders, tpVars, cashed>>

\* The event arm replays a requote on the mirror whatever the venue answered;
\* the post-fill path leaves the mirror alone.  The venue keeps the order's id.
Requote ==
    /\ Doing("requote")
    /\ replacing' = IF pc = "main" THEN replacing \cup {Subject} ELSE replacing
    /\ UNCHANGED <<venueVars, live, placing, manager, pc, bag, replayed, orders,
                   tpVars, historyVars>>

\* Everything on the symbol is cancelled, the take-profit too; the mirror
\* drops the strategy's orders only.
CancelAllOk ==
    /\ Doing("cancelAll")
    /\ Leave(open)
    /\ live' = Survivors.live /\ placing' = Survivors.placing
    /\ replacing' = Survivors.replacing
    /\ UNCHANGED <<last, slotOf, wire, manager, pc, bag, replayed, orders, tpVars, cashed>>

\* Faulty variant: the mirror is wiped although nothing was cancelled.
CancelAllErrWiping ==
    /\ Doing("cancelAll")
    /\ kept' = open
    /\ live' = Survivors.live /\ placing' = Survivors.placing
    /\ replacing' = Survivors.replacing
    /\ UNCHANGED <<venueVars, manager, pc, bag, replayed, orders, tpVars, untold, cashed>>

\* The call fails and the rest of the strategy's actions go out all the same.
CancelAllErr ==
    /\ Doing("cancelAll")
    /\ \/ kept' = open /\ UNCHANGED <<open, untold>>
       \/ "lostAnswer" \in Faults /\ Leave(open)
    /\ UNCHANGED <<last, slotOf, wire, mirrorVars, pc, bag, replayed, orders, tpVars, cashed>>

PostDone ==
    /\ pc = "post" /\ todo = <<>>
    /\ pc' = "idle"
    /\ UNCHANGED <<venueVars, mirrorVars, todo, bag, replayed, orders, tpVars, historyVars>>

\* The event arm ends with on_market_event: pending operations that are due are
\* applied, and a place that would cross the mirror's book is rejected there,
\* although the venue has accepted it.  A replace keeps the id; one for an
\* order that no longer rests in the mirror puts it back.
Promote(due, crossed) ==
    /\ pc = "main" /\ todo = <<>>
    /\ pc' = "idle"
    /\ due \subseteq placing \cup replacing
    /\ crossed \subseteq due /\ (crossed # {} => "staleBook" \in Faults)
    /\ live' = live \cup (due \ crossed)
    /\ placing' = placing \ due
    /\ replacing' = replacing \ due
    /\ untold' = untold \cup (open \cap (crossed \ live))
    /\ UNCHANGED <<venueVars, manager, todo, bag, replayed, orders, tpVars, kept, cashed>>

-----------------------------------------------------------------------------
(* The status tick: the runner's own take-profit.                          *)

\* The latch opens when the bag changes sign; an order the mirror no longer
\* tracks must have filled, which closes it.  Then the tick may find the resting
\* order under the threshold or off the touch, or see a profit to take.
StatusTick ==
    /\ pc = "idle"
    /\ tpSign' = bag
    /\ LET gone == tp # 0 /\ tp \notin Tracked IN
         /\ tp' = IF gone THEN 0 ELSE tp
         /\ manager' = IF gone THEN manager \ {tp} ELSE manager
         /\ latch' = IF gone THEN "taken" ELSE IF bag # tpSign THEN "armed" ELSE latch
    /\ cashed' = IF bag # tpSign THEN "no" ELSE cashed
    /\ pc' \in {"idle"} \cup (IF tp' # 0 THEN {"tpCancel"} ELSE {})
                        \cup (IF tp' = 0 /\ latch' = "armed" /\ bag # 0 THEN {"tpPlace"} ELSE {})
    /\ UNCHANGED <<venueVars, live, placing, replacing, todo, bag, replayed, orders, untold, kept>>

\* The move reversed, or the touch drifted: cancel, ignoring the answer, and
\* forget the order; re-peg on this same tick if the profit is still there.
TpCancel ==
    /\ pc = "tpCancel"
    /\ \/ Leave({tp})
       \/ untold' = untold \cup (open \cap {tp}) /\ UNCHANGED <<open, kept>>
    /\ DropQuote(tp)
    /\ manager' = manager \ {tp}
    /\ tp' = 0
    /\ pc' \in IF latch = "armed" /\ bag # 0 THEN {"idle", "tpPlace"} ELSE {"idle"}
    /\ UNCHANGED <<last, slotOf, wire, todo, bag, replayed, orders,
                   latch, tpSign, cashed>>

\* Faulty variant: the mirror is not told.
TpPlaceOkUnheard ==
    /\ pc = "tpPlace"
    /\ Accept("tp")
    /\ manager' = manager \cup {last + 1}
    /\ tp' = last + 1
    /\ pc' = "idle"
    /\ UNCHANGED <<live, placing, replacing, todo, bag, replayed, orders, latch, tpSign,
                   historyVars>>

\* Rest a reduce-only limit at the touch and hide it from the strategy.
TpPlaceOk ==
    /\ pc = "tpPlace"
    /\ Accept("tp")
    /\ placing' = placing \cup {last + 1}
    /\ manager' = manager \cup {last + 1}
    /\ tp' = last + 1
    /\ pc' = "idle"
    /\ UNCHANGED <<live, replacing, todo, bag, replayed, orders, latch, tpSign, historyVars>>

TpPlaceErr ==
    /\ pc = "tpPlace"
    /\ pc' = "idle"
    /\ \/ UNCHANGED <<venueVars, untold>>
       \/ /\ "lostAnswer" \in Faults
          /\ Accept("tp")
          /\ untold' = untold \cup {last + 1}
    /\ UNCHANGED <<mirrorVars, todo, bag, replayed, orders, tpVars, kept, cashed>>

-----------------------------------------------------------------------------
(* The reconciliation tick.                                                *)

\* Steps 1 and 2, fills and position: nothing of it reaches the mirror, but
\* fills booked here are skipped when the websocket delivers them.
ReconFills ==
    /\ pc = "idle"
    /\ pc' = "list"
    /\ \/ replayed' = ToSet(wire) /\ bag' \in Bags
       \/ UNCHANGED <<replayed, bag>>
    /\ UNCHANGED <<venueVars, mirrorVars, todo, orders, tpVars, historyVars>>

\* The venue answers open_orders; the answer ages until the runner acts on it.
ReconList ==
    /\ pc = "list"
    /\ pc' = "sync" /\ orders' = open
    /\ UNCHANGED <<venueVars, mirrorVars, todo, bag, replayed, tpVars, historyVars>>

ReconListErr ==
    /\ pc = "list"
    /\ pc' = "idle"
    /\ UNCHANGED <<venueVars, mirrorVars, todo, bag, replayed, orders, tpVars, historyVars>>

\* Faulty variant: headroom for a second take-profit.
SweepDueLate ==
    /\ MaxExpected > 0
    /\ Cardinality(orders) > MaxExpected + 2

\* More orders rest than the strategy and the take-profit account for.
SweepDue ==
    /\ MaxExpected > 0
    /\ Cardinality(orders) > MaxExpected + (IF tp # 0 THEN 1 ELSE 0)

\* The end of the tick: the mirror is synced to the answer.
Sync(resting, inFlight) ==
    /\ pc' = "idle"
    /\ live' = Reconciled(resting, inFlight, orders)
    /\ orders' = {}
    /\ UNCHANGED <<last, slotOf, wire, manager, todo, bag, replayed, tpVars, cashed>>

ReconSync ==
    /\ pc = "sync" /\ ~SweepDue
    /\ Sync(live, placing)
    /\ UNCHANGED <<open, placing, replacing, untold, kept>>

\* The orphan sweep cancels everything, wipes the mirror, and then syncs it to
\* the answer of before.
SweepOk ==
    /\ pc = "sync" /\ SweepDue
    /\ Leave(open)
    /\ placing' = Survivors.placing /\ replacing' = Survivors.replacing
    /\ Sync(Survivors.live, placing')

SweepErr ==
    /\ pc = "sync" /\ SweepDue
    /\ Leave({}) \/ ("lostAnswer" \in Faults /\ Leave(open))
    /\ Sync(live, placing)
    /\ UNCHANGED <<placing, replacing>>

-----------------------------------------------------------------------------
\* The venue's own doings, the arms that start a handler, the rest of a handler.
Venue == \E o \in Orders : VenueFill(o) \/ SilentCancel(o)

Arms == \/ BaggerRests \/ MarketEvent \/ WatchUpdate \/ FillArrives \/ PartialFill
        \/ StatusTick \/ ReconFills

Handler ==
    \/ BootList \/ BootCancel
    \/ QuoteOk \/ QuoteRefused \/ QuoteLost
    \/ CancelOk \/ CancelErr \/ Requote \/ CancelAllOk \/ CancelAllErr \/ PostDone
    \/ \E due, crossed \in SUBSET Orders : Promote(due, crossed)
    \/ TpCancel \/ TpPlaceOk \/ TpPlaceErr
    \/ ReconList \/ ReconListErr \/ ReconSync \/ SweepOk \/ SweepErr

Next == Venue \/ Arms \/ Handler

Spec == Init /\ [][Next]_vars

\* Every handler ends.  Fills are received, market events keep coming and bring
\* the pending operations to term, and a reconciliation that is tried again and
\* again succeeds again and again.
Fairness ==
    /\ WF_vars(Handler)
    /\ SF_vars(FillArrives) /\ SF_vars(MarketEvent) /\ SF_vars(ReconFills)
    /\ SF_vars(Promote(placing \cup replacing, {}))
    /\ SF_vars(ReconList) /\ SF_vars(SweepOk)

FairSpec == Spec /\ Fairness

-----------------------------------------------------------------------------
(* Properties.                                                             *)

\* The mirror loses no order that rests at the venue, unless the venue's answer
\* was lost, its own gate turned the order away, the take-profit's cancel was
\* ignored, or the bagger threw the id away: no race of fills, cancels, sweeps
\* and reconciliations does it.
NoSilentLoss == open \subseteq Tracked \cup untold

\* A slot never holds two resting orders the runner placed with its eyes open:
\* in-flight orders are in the strategy's view, and a fill frees its slot once.
OnePerSlot ==
    \A o, p \in open \ (untold \cup kept) :
        slotOf[o] \in Slots /\ slotOf[o] = slotOf[p] => o = p

\* tp_taken is latched for an order that no longer rests at the venue, unless the
\* gate of the mirror's own, stale book had turned it away: then the mirror has
\* lost it and the latch is taken while it rests.
LatchedWhenGone ==
    [][ (latch = "armed" /\ latch' = "taken") => tp \notin open \/ tp \in untold ]_vars

\* The same without the exception: "Clear a resolved order (gone from the mirror).
\* If we still held its id [...], it FILLED -> latch `tp_taken`".
TakenMeansGone ==
    [][ (latch = "armed" /\ latch' = "taken") => tp \notin open ]_vars

\* "once the half-bag take-profit FILLS we must NOT re-arm and sell the next
\* half": no take-profit is rested for a bag whose take-profit has filled.
OncePerBag == [][ TpPlaceOk => cashed = "no" ]_vars

\* The orphan sweep is to "wipe + let strategy re-emit": once it has cancelled
\* everything, the strategy is shown no order that does not rest.
SweepWipes == [][ SweepOk => View' \subseteq open' ]_vars

\* An order that is gone from the venue leaves the mirror in the end, by its
\* fill, by a cancel's UnknownQuote or by a reconciliation.
GhostsExpire ==
    \A o \in Orders : (o \in Tracked \ open) ~> (o \notin Tracked)

\* An order the mirror does not know is taken up in the end, unless it goes.
LostOrdersReturn ==
    \A o \in Orders : (o \in open \ Tracked) ~> (o \notin open \/ o \in Tracked)
=============================================================================
