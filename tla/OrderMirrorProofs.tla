------------------------- MODULE OrderMirrorProofs --------------------------
(***************************************************************************)
(* Proofs about OrderMirror, for any number of orders, any slots, any      *)
(* plans of the strategy and any faults.                                   *)
(*                                                                         *)
(* No order is lost silently because an answer of open_orders only ages by *)
(* losing orders (Listing), and a fill on its way is of an order that left *)
(* (Ids).  A slot holds one order because what a plan was made from is     *)
(* still true when its quotes go out (Vacant): between the two only the    *)
(* plan itself adds an order that the strategy can see.                    *)
(***************************************************************************)
EXTENDS OrderMirror, TLAPS

\* The orders the runner placed with its eyes open and that still count.
Counted == open \ (untold \cup kept)

\* An order is known by its id: fills on their way are of orders that left the
\* book, and the manager's orders are the take-profits.
Ids ==
    /\ open \subseteq 1..last
    /\ \A i \in DOMAIN wire : wire[i] \in 1..last /\ wire[i] \notin open
    /\ manager \subseteq 1..last
    /\ \A o \in manager : slotOf[o] = "tp"

\* No order is accepted between the answer of open_orders and the sync to it.
Listing == pc = "sync" => open \subseteq orders

\* A quote still to be sent is for a slot that is empty, or that a CancelAll
\* before it empties; no two of them are the same.
Vacant ==
    /\ \A i \in DOMAIN todo : todo[i][1] = "quote" =>
          \/ \A o \in Counted : slotOf[o] # todo[i][2]
          \/ \E j \in DOMAIN todo : j < i /\ todo[j][1] = "cancelAll"
    /\ \A i, j \in DOMAIN todo : todo[i] = todo[j] => i = j

IInv == TypeOK /\ Ids /\ Listing /\ Vacant /\ NoSilentLoss /\ OnePerSlot

-----------------------------------------------------------------------------
(* Sequences.                                                              *)

\* The fill that is received, and the action dispatched next: what stays.
LEMMA Rest ==
    ASSUME NEW S, NEW s \in Seq(S), s # <<>>
    PROVE  /\ Tail(s) \in Seq(S) /\ Head(s) \in S /\ Head(s) = s[1] /\ 1 \in DOMAIN s
           /\ \A i \in DOMAIN Tail(s) : i \in Nat /\ i > 0 /\ i + 1 \in DOMAIN s /\ Tail(s)[i] = s[i + 1]
           /\ \A i \in DOMAIN s : i \in Nat /\ i > 0 /\ (i > 1 => i - 1 \in DOMAIN Tail(s))
  OBVIOUS

\* The fill that goes out.
LEMMA Longer ==
    ASSUME NEW S, NEW s \in Seq(S), NEW e \in S
    PROVE  /\ Append(s, e) \in Seq(S)
           /\ \A i \in DOMAIN Append(s, e) :
                 (i \in DOMAIN s /\ Append(s, e)[i] = s[i]) \/ Append(s, e)[i] = e
  OBVIOUS

\* A plan is a sequence of actions that make sense for what the strategy sees.
LEMMA PlanTypes ==
    ASSUME NEW view, NEW plan \in Plans(view)
    PROVE  plan \in Seq(Action) /\ Sensible(plan, view)
<1>1. plan \in BoundedSeq({a \in Action : a[1] \in Kinds}, MaxPlan) /\ Sensible(plan, view)
  BY DEF Plans
<1>2. PICK n \in 0..MaxPlan : plan \in [1..n -> {a \in Action : a[1] \in Kinds}]
  BY <1>1 DEF BoundedSeq, SeqOf
<1>3. plan \in [1..n -> Action] /\ n \in Nat
  BY <1>2, OrderMirrorAssumption
<1>4. plan \in Seq(Action)
  BY <1>3
<1>5. QED
  BY <1>1, <1>4

\* What an action is about.
LEMMA Subjects ==
    ASSUME NEW a \in Action
    PROVE  /\ a[1] = "quote" => a[2] \in Slots /\ a = <<"quote", a[2]>>
           /\ a[1] \in {"cancel", "requote"} => a[2] \in Orders
  BY DEF Action

\* The action at hand and the ones after it.
LEMMA Doings ==
    ASSUME TypeOK, NEW op, Doing(op)
    PROVE  /\ todo # <<>> /\ todo' = Tail(todo) /\ todo' \in Seq(Action)
           /\ Head(todo) \in Action /\ Head(todo) = todo[1] /\ Head(todo)[1] = op
           /\ pc \in {"main", "post"}
           /\ op = "quote" => Subject \in Slots /\ Head(todo) = <<"quote", Subject>>
           /\ op \in {"cancel", "requote"} => Subject \in Orders
<1>1. todo # <<>> /\ todo' = Tail(todo) /\ Head(todo)[1] = op /\ todo \in Seq(Action) /\ pc \in {"main", "post"}
  BY DEF Doing, Dispatching, TypeOK
<1>2. Head(todo) \in Action /\ Head(todo) = todo[1] /\ Tail(todo) \in Seq(Action)
  BY <1>1, Rest
<1>3. QED
  BY <1>1, <1>2, Subjects DEF Subject

\* A new order bears an id nobody has used.
LEMMA NewOrder ==
    ASSUME TypeOK, NEW s \in Slots \cup {"tp", "bagger"}, Accept(s)
    PROVE  /\ last \in Nat /\ last' = last + 1 /\ last + 1 \in Orders /\ last' \in 0..MaxOrders
           /\ open' = open \cup {last + 1} /\ open' \subseteq Orders
           /\ slotOf' \in [Orders -> Slots \cup {"tp", "bagger", "alien", "none"}]
           /\ slotOf'[last + 1] = s /\ \A o \in 1..last : slotOf'[o] = slotOf[o] /\ o # last + 1
           /\ wire' = wire
  BY OrderMirrorAssumption DEF TypeOK, Accept, Orders

-----------------------------------------------------------------------------
(* Types.                                                                  *)

\* The steps of the venue, of start-up and of the arms.
LEMMA ArmTypes ==
    ASSUME TypeOK, Venue \/ Arms \/ BootList \/ BootCancel
    PROVE  TypeOK'
<1> USE OrderMirrorAssumption DEF TypeOK, venueVars, mirrorVars, runnerVars, tpVars, historyVars
<1>1. ASSUME NEW o \in Orders, VenueFill(o) PROVE TypeOK'
  <2>1. Append(wire, o) \in Seq(Orders)
    OBVIOUS
  <2>2. wire' \in Seq(Orders)
    BY <1>1, <2>1 DEF VenueFill
  <2>3. QED
    BY <1>1, <2>2 DEF VenueFill, Leave
<1>2. ASSUME NEW o \in Orders, SilentCancel(o) PROVE TypeOK'
  BY <1>2 DEF SilentCancel, Leave
<1>3. CASE MarketEvent
  BY <1>3, PlanTypes DEF MarketEvent
<1>4. CASE WatchUpdate
  BY <1>4, PlanTypes DEF WatchUpdate
<1>5. CASE FillArrives
  <2>1. Tail(wire) \in Seq(Orders)
    BY <1>5, Rest DEF FillArrives
  <2>2. QED
    BY <1>5, <2>1, PlanTypes DEF FillArrives, DropQuote
<1>6. CASE PartialFill
  BY <1>6 DEF PartialFill
<1>7. CASE StatusTick
  BY <1>7 DEF StatusTick
<1>8. CASE ReconFills
  <2>1. ToSet(wire) \subseteq Orders
    BY DEF ToSet
  <2>2. QED
    BY <1>8, <2>1 DEF ReconFills
<1>9. CASE BootList
  BY <1>9 DEF BootList
<1>10. CASE BootCancel
  BY <1>10 DEF BootCancel, Leave
<1>11. CASE BaggerRests
  BY <1>11, NewOrder DEF BaggerRests
<1>12. QED
  BY <1>1, <1>2, <1>3, <1>4, <1>5, <1>6, <1>7, <1>8, <1>9, <1>10, <1>11 DEF Venue, Arms

\* The steps that dispatch a plan.
Dispatch ==
    \/ QuoteOk \/ QuoteRefused \/ QuoteLost
    \/ CancelOk \/ CancelErr \/ Requote \/ CancelAllOk \/ CancelAllErr \/ PostDone
    \/ \E due, crossed \in SUBSET Orders : Promote(due, crossed)

LEMMA DispatchTypes ==
    ASSUME TypeOK, Dispatch
    PROVE  TypeOK'
<1> USE OrderMirrorAssumption DEF TypeOK, venueVars, mirrorVars, runnerVars, tpVars, historyVars
<1>1. CASE QuoteOk
  BY <1>1, Doings, NewOrder DEF QuoteOk
<1>2. CASE QuoteRefused
  BY <1>2, Doings DEF QuoteRefused
<1>3. CASE QuoteLost
  BY <1>3, Doings, NewOrder DEF QuoteLost
<1>4. CASE CancelOk
  BY <1>4, Doings DEF CancelOk, Leave, DropQuote
<1>5. CASE CancelErr
  BY <1>5, Doings DEF CancelErr, Leave
<1>6. CASE Requote
  BY <1>6, Doings DEF Requote
<1>7. CASE CancelAllOk
  BY <1>7, Doings DEF CancelAllOk, Leave, Survivors
<1>8. CASE CancelAllErr
  BY <1>8, Doings DEF CancelAllErr, Leave
<1>9. CASE PostDone
  BY <1>9 DEF PostDone
<1>10. ASSUME NEW due \in SUBSET Orders, NEW crossed \in SUBSET Orders, Promote(due, crossed)
       PROVE  TypeOK'
  BY <1>10 DEF Promote
<1>11. QED
  BY <1>1, <1>2, <1>3, <1>4, <1>5, <1>6, <1>7, <1>8, <1>9, <1>10 DEF Dispatch

\* The steps of the take-profit and of the reconciliation.
Ticks ==
    \/ TpCancel \/ TpPlaceOk \/ TpPlaceErr
    \/ ReconList \/ ReconListErr \/ ReconSync \/ SweepOk \/ SweepErr

LEMMA TickTypes ==
    ASSUME TypeOK, Ticks
    PROVE  TypeOK'
<1> USE OrderMirrorAssumption DEF TypeOK, venueVars, mirrorVars, runnerVars, tpVars, historyVars
<1>1. CASE TpCancel
  BY <1>1 DEF TpCancel, Leave, DropQuote
<1>2. CASE TpPlaceOk
  BY <1>2, NewOrder DEF TpPlaceOk
<1>3. CASE TpPlaceErr
  BY <1>3, NewOrder DEF TpPlaceErr
<1>4. CASE ReconList
  BY <1>4 DEF ReconList
<1>5. CASE ReconListErr
  BY <1>5 DEF ReconListErr
<1>6. CASE ReconSync
  BY <1>6 DEF ReconSync, Sync, Reconciled
<1>7. CASE SweepOk
  BY <1>7 DEF SweepOk, Sync, Reconciled, Survivors, Leave
<1>8. CASE SweepErr
  BY <1>8 DEF SweepErr, Sync, Reconciled, Leave
<1>9. QED
  BY <1>1, <1>2, <1>3, <1>4, <1>5, <1>6, <1>7, <1>8 DEF Ticks

\* A step of the runner or of the venue is one of these.
LEMMA Steps == Next => Venue \/ Arms \/ BootList \/ BootCancel \/ Dispatch \/ Ticks
  BY DEF Next, Handler, Dispatch, Ticks

-----------------------------------------------------------------------------
(* What the steps do to the slots.                                         *)

\* Nothing is dispatched: the orders that count can only become fewer.
LEMMA NothingSent ==
    ASSUME IInv, todo' = todo, slotOf' = slotOf, Counted' \subseteq Counted
    PROVE  Vacant' /\ OnePerSlot'
  BY DEF IInv, Vacant, OnePerSlot, Counted

\* An action is taken off the plan and adds no order that counts; a CancelAll
\* leaves none.
LEMMA ActionTaken ==
    ASSUME IInv, todo # <<>>, todo' = Tail(todo),
           Counted' \subseteq Counted, \A o \in Counted' : slotOf'[o] = slotOf[o],
           Head(todo)[1] = "cancelAll" => Counted' = {}
    PROVE  Vacant' /\ OnePerSlot'
<1> USE DEF IInv
<1>1. todo \in Seq(Action)
  BY DEF TypeOK
<1>2. /\ \A i \in DOMAIN todo' : i \in Nat /\ i > 0 /\ i + 1 \in DOMAIN todo /\ todo'[i] = todo[i + 1]
      /\ \A i \in DOMAIN todo : i \in Nat /\ i > 0 /\ (i > 1 => i - 1 \in DOMAIN todo')
      /\ Head(todo) = todo[1]
  BY <1>1, Rest
<1>3. OnePerSlot'
  BY DEF OnePerSlot, Counted
<1>4. ASSUME NEW i \in DOMAIN todo', NEW j \in DOMAIN todo', todo'[i] = todo'[j]
      PROVE  i = j
  BY <1>2, <1>4 DEF Vacant
<1>5. ASSUME NEW i \in DOMAIN todo', todo'[i][1] = "quote"
      PROVE  \/ \A o \in Counted' : slotOf'[o] # todo'[i][2]
             \/ \E j \in DOMAIN todo' : j < i /\ todo'[j][1] = "cancelAll"
  <2>1. i + 1 \in DOMAIN todo /\ todo[i + 1][1] = "quote"
    BY <1>2, <1>5
  <2>2. CASE \A o \in Counted : slotOf[o] # todo[i + 1][2]
    BY <1>2, <2>2
  <2>3. ASSUME NEW j \in DOMAIN todo, j < i + 1, todo[j][1] = "cancelAll"
        PROVE  \/ Counted' = {}
               \/ \E k \in DOMAIN todo' : k < i /\ todo'[k][1] = "cancelAll"
    <3>1. CASE j = 1
      BY <1>2, <2>3, <3>1
    <3>2. CASE j # 1
      <4>1. j \in Nat /\ j > 1 /\ j - 1 \in DOMAIN todo'
        BY <1>2, <3>2
      <4>2. j - 1 < i /\ todo'[j - 1] = todo[(j - 1) + 1] /\ (j - 1) + 1 = j
        BY <1>2, <4>1, <2>3
      <4>3. QED
        BY <4>1, <4>2, <2>3
    <3>3. QED
      BY <3>1, <3>2
  <2>4. QED
    BY <2>1, <2>2, <2>3 DEF Vacant
<1>6. QED
  BY <1>3, <1>4, <1>5 DEF Vacant

\* The strategy makes a plan from what it sees, all that counts in its slots.
LEMMA PlanMade ==
    ASSUME IInv, NEW view, todo' \in Plans(view), slotOf' = slotOf, Counted' \subseteq Counted,
           \A o \in Counted' : slotOf[o] \in Slots => o \in view
    PROVE  Vacant' /\ OnePerSlot'
<1> USE DEF IInv
<1>1. todo' \in Seq(Action) /\ Sensible(todo', view)
  BY PlanTypes
<1>2. OnePerSlot'
  BY DEF OnePerSlot, Counted
<1>3. ASSUME NEW i \in DOMAIN todo', todo'[i][1] = "quote"
      PROVE  \/ \A o \in Counted' : slotOf'[o] # todo'[i][2]
             \/ \E j \in DOMAIN todo' : j < i /\ todo'[j][1] = "cancelAll"
  <2>1. todo'[i][2] \in Slots
    BY <1>1, <1>3, Subjects
  <2>2. CASE \A o \in view : slotOf[o] # todo'[i][2]
    BY <2>1, <2>2
  <2>3. CASE \E j \in 1..i-1 : todo'[j][1] = "cancelAll"
    <3>1. PICK j \in 1..i-1 : todo'[j][1] = "cancelAll"
      BY <2>3
    <3>2. i \in 1..Len(todo') /\ Len(todo') \in Nat
      BY <1>1
    <3>3. j \in DOMAIN todo' /\ j < i
      BY <1>1, <3>1, <3>2
    <3>4. QED
      BY <3>1, <3>3
  <2>4. QED
    BY <1>1, <1>3, <2>2, <2>3 DEF Sensible
<1>4. QED
  BY <1>1, <1>2, <1>3 DEF Vacant, Sensible

\* Of the orders that count, the strategy sees all that are in its slots.
LEMMA InView ==
    ASSUME IInv, NEW o \in Counted, slotOf[o] \in Slots
    PROVE  o \in View
<1>1. o \in Tracked /\ o \notin manager
  BY OrderMirrorAssumption DEF IInv, NoSilentLoss, Counted, Ids
<1>2. QED
  BY <1>1 DEF Tracked, View

-----------------------------------------------------------------------------
(* The steps.                                                              *)

\* Everything but the types.
Core == Ids /\ Listing /\ Vacant /\ NoSilentLoss /\ OnePerSlot

\* The runner's own orders rest in no slot of the strategy's.
LEMMA OwnAccepted ==
    ASSUME IInv, NEW s \in {"tp", "bagger"}, Accept(s), todo' = todo, untold \subseteq untold', kept' = kept
    PROVE  Vacant' /\ OnePerSlot'
<1>1. /\ last' = last + 1 /\ last \in Nat /\ open' = open \cup {last + 1} /\ slotOf'[last + 1] = s
      /\ \A o \in 1..last : slotOf'[o] = slotOf[o]
  BY NewOrder DEF IInv
<1>2. /\ Counted' \subseteq Counted \cup {last + 1} /\ Counted \subseteq 1..last
      /\ \A o \in Counted' : slotOf'[o] = s \/ (o \in Counted /\ slotOf'[o] = slotOf[o])
  BY <1>1 DEF Counted, IInv, Ids
<1>3. \A i \in DOMAIN todo : todo[i][1] = "quote" => todo[i][2] \in Slots /\ todo[i][2] # s
  BY Subjects, OrderMirrorAssumption DEF IInv, TypeOK
<1>4. OnePerSlot'
  BY <1>1, <1>2, OrderMirrorAssumption DEF OnePerSlot, Counted, IInv
<1>5. Vacant'
  BY <1>2, <1>3 DEF Vacant, IInv
<1>6. QED
  BY <1>4, <1>5

\* The venue, start-up and the arms: a plan is made of what the strategy sees.
LEMMA ArmSteps ==
    ASSUME IInv, Venue \/ Arms \/ BootList \/ BootCancel
    PROVE  Core'
<1> USE OrderMirrorAssumption DEF venueVars, mirrorVars, runnerVars, tpVars, historyVars
<1>1. ASSUME NEW o \in Orders, VenueFill(o) PROVE Core'
  <2>1. Vacant' /\ OnePerSlot'
    BY <1>1, NothingSent DEF VenueFill, Leave, Counted
  <2>2. wire \in Seq(Orders) /\ open' = open \ {o} /\ untold' = untold \ {o} /\ o \in 1..last
    BY <1>1 DEF VenueFill, Leave, IInv, TypeOK, Ids
  <2>3. \A i \in DOMAIN Append(wire, o) :
          (i \in DOMAIN wire /\ Append(wire, o)[i] = wire[i]) \/ Append(wire, o)[i] = o
    BY <2>2, Longer
  <2>4. Ids'
    <3>1. CASE wire' = Append(wire, o)
      BY <1>1, <2>2, <2>3, <3>1 DEF VenueFill, IInv, Ids
    <3>2. CASE wire' = wire
      BY <1>1, <2>2, <3>2 DEF VenueFill, IInv, Ids
    <3>3. QED
      BY <1>1, <3>1, <3>2 DEF VenueFill
  <2>5. Listing' /\ NoSilentLoss'
    BY <1>1, <2>2 DEF VenueFill, IInv, Listing, NoSilentLoss, Tracked
  <2>6. QED
    BY <2>1, <2>4, <2>5 DEF Core
<1>2. ASSUME NEW o \in Orders, SilentCancel(o) PROVE Core'
  <2>1. Vacant' /\ OnePerSlot'
    BY <1>2, NothingSent DEF SilentCancel, Leave, Counted
  <2>2. Ids' /\ Listing' /\ NoSilentLoss'
    BY <1>2 DEF SilentCancel, Leave, IInv, Ids, Listing, NoSilentLoss, Tracked
  <2>3. QED
    BY <2>1, <2>2 DEF Core
<1>3. CASE MarketEvent
  <2>1. Vacant' /\ OnePerSlot'
    <3>1. todo' \in Plans(View) /\ slotOf' = slotOf /\ Counted' = Counted
      BY <1>3 DEF MarketEvent, Counted
    <3>2. QED
      BY <3>1, PlanMade, InView
  <2>2. Ids' /\ Listing' /\ NoSilentLoss'
    BY <1>3 DEF MarketEvent, IInv, Ids, Listing, NoSilentLoss, Tracked
  <2>3. QED
    BY <2>1, <2>2 DEF Core
<1>4. CASE WatchUpdate
  <2>1. Vacant' /\ OnePerSlot'
    <3>1. todo' \in Plans(View) /\ slotOf' = slotOf /\ Counted' = Counted
      BY <1>4 DEF WatchUpdate, Counted
    <3>2. QED
      BY <3>1, PlanMade, InView
  <2>2. Ids' /\ Listing' /\ NoSilentLoss'
    BY <1>4 DEF WatchUpdate, IInv, Ids, Listing, NoSilentLoss, Tracked
  <2>3. QED
    BY <2>1, <2>2 DEF Core
<1>5. CASE FillArrives
  <2> DEFINE o == Head(wire)
  <2>1. wire \in Seq(Orders) /\ wire # <<>> /\ wire' = Tail(wire) /\ open' = open /\ slotOf' = slotOf
        /\ last' = last /\ manager' = manager /\ untold' = untold /\ kept' = kept /\ Counted' = Counted
        /\ orders' = orders /\ pc = "idle"
    BY <1>5 DEF FillArrives, IInv, TypeOK, Counted
  <2>2. /\ o = wire[1] /\ 1 \in DOMAIN wire
        /\ \A i \in DOMAIN wire' : i + 1 \in DOMAIN wire /\ wire'[i] = wire[i + 1]
    BY <2>1, Rest
  <2>3. o \notin open
    BY <2>2 DEF IInv, Ids
  <2>4. Ids'
    BY <2>1, <2>2 DEF IInv, Ids
  <2>5. CASE o \in replayed
    <3>1. live' = live /\ placing' = placing /\ replacing' = replacing /\ pc' = pc /\ todo' = todo
      BY <1>5, <2>5 DEF FillArrives
    <3>2. Vacant' /\ OnePerSlot'
      BY <2>1, <3>1, NothingSent
    <3>3. Listing' /\ NoSilentLoss'
      BY <2>1, <3>1 DEF IInv, Listing, NoSilentLoss, Tracked
    <3>4. QED
      BY <2>4, <3>2, <3>3 DEF Core
  <2>6. CASE o \notin replayed
    <3>1. DropQuote(o) /\ pc' = "post" /\ todo' \in Plans(View \ {o})
      BY <1>5, <2>6 DEF FillArrives
    <3>2. Vacant' /\ OnePerSlot'
      <4>1. \A p \in Counted : slotOf[p] \in Slots => p \in View \ {o}
        BY <2>3, InView DEF Counted
      <4>2. QED
        BY <2>1, <3>1, <4>1, PlanMade
    <3>3. Listing' /\ NoSilentLoss'
      BY <2>1, <2>3, <3>1 DEF DropQuote, IInv, Listing, NoSilentLoss, Tracked
    <3>4. QED
      BY <2>4, <3>2, <3>3 DEF Core
  <2>7. QED
    BY <2>5, <2>6
<1>6. CASE PartialFill
  <2>1. Vacant' /\ OnePerSlot'
    BY <1>6, NothingSent DEF PartialFill, Counted
  <2>2. Ids' /\ Listing' /\ NoSilentLoss'
    BY <1>6 DEF PartialFill, IInv, Ids, Listing, NoSilentLoss, Tracked
  <2>3. QED
    BY <2>1, <2>2 DEF Core
<1>7. CASE StatusTick
  <2>1. Vacant' /\ OnePerSlot'
    BY <1>7, NothingSent DEF StatusTick, Counted
  <2>2. Ids' /\ Listing' /\ NoSilentLoss'
    BY <1>7 DEF StatusTick, IInv, Ids, Listing, NoSilentLoss, Tracked
  <2>3. QED
    BY <2>1, <2>2 DEF Core
<1>8. CASE ReconFills
  <2>1. Vacant' /\ OnePerSlot'
    BY <1>8, NothingSent DEF ReconFills, Counted
  <2>2. Ids' /\ Listing' /\ NoSilentLoss'
    BY <1>8 DEF ReconFills, IInv, Ids, Listing, NoSilentLoss, Tracked
  <2>3. QED
    BY <2>1, <2>2 DEF Core
<1>9. CASE BootList
  <2>1. Vacant' /\ OnePerSlot'
    BY <1>9, NothingSent DEF BootList, Counted
  <2>2. Ids' /\ Listing' /\ NoSilentLoss'
    BY <1>9 DEF BootList, IInv, Ids, Listing, NoSilentLoss, Tracked
  <2>3. QED
    BY <2>1, <2>2 DEF Core
<1>10. CASE BootCancel
  <2>1. Vacant' /\ OnePerSlot'
    BY <1>10, NothingSent DEF BootCancel, Leave, Counted
  <2>2. Ids' /\ Listing' /\ NoSilentLoss'
    BY <1>10 DEF BootCancel, Leave, IInv, Ids, Listing, NoSilentLoss, Tracked
  <2>3. QED
    BY <2>1, <2>2 DEF Core
<1>11. CASE BaggerRests
  <2>1. Vacant' /\ OnePerSlot'
    BY <1>11, OwnAccepted DEF BaggerRests
  <2>2. /\ last' = last + 1 /\ last \in Nat /\ open' = open \cup {last + 1}
        /\ wire' = wire /\ \A o \in 1..last : slotOf'[o] = slotOf[o] /\ o # last + 1
    BY <1>11, NewOrder DEF BaggerRests, IInv
  <2>3. Ids' /\ Listing' /\ NoSilentLoss'
    BY <1>11, <2>2 DEF BaggerRests, IInv, Ids, Listing, NoSilentLoss, Tracked
  <2>4. QED
    BY <2>1, <2>3 DEF Core
<1>12. QED
  BY <1>1, <1>2, <1>3, <1>4, <1>5, <1>6, <1>7, <1>8, <1>9, <1>10, <1>11 DEF Venue, Arms

\* One action of a plan after the other; only QuoteOk adds an order that counts.
LEMMA DispatchSteps ==
    ASSUME IInv, Dispatch
    PROVE  Core'
<1> USE OrderMirrorAssumption DEF venueVars, mirrorVars, runnerVars, tpVars, historyVars
<1>1. CASE QuoteOk
  <2> DEFINE s == Subject
             n == last + 1
  <2>1. /\ todo # <<>> /\ todo' = Tail(todo) /\ todo \in Seq(Action)
        /\ Head(todo) = todo[1] /\ Head(todo) = <<"quote", s>> /\ s \in Slots
        /\ pc \in {"main", "post"} /\ pc' = pc
    BY <1>1, Doings DEF QuoteOk, IInv, TypeOK
  <2>2. /\ last' = n /\ last \in Nat /\ open' = open \cup {n} /\ wire' = wire
        /\ slotOf'[n] = s /\ \A o \in 1..last : slotOf'[o] = slotOf[o] /\ o # n
    BY <1>1, <2>1, NewOrder DEF QuoteOk, IInv
  <2>3. /\ placing' = placing \cup {n} /\ live' = live /\ replacing' = replacing /\ manager' = manager
        /\ untold' = untold /\ kept' = kept /\ orders' = orders
    BY <1>1 DEF QuoteOk
  <2>4. Ids' /\ Listing' /\ NoSilentLoss'
    BY <2>1, <2>2, <2>3 DEF IInv, Ids, Listing, NoSilentLoss, Tracked
  <2>5. /\ \A i \in DOMAIN todo' : i \in Nat /\ i > 0 /\ i + 1 \in DOMAIN todo /\ todo'[i] = todo[i + 1]
        /\ \A i \in DOMAIN todo : i \in Nat /\ i > 0 /\ (i > 1 => i - 1 \in DOMAIN todo')
        /\ 1 \in DOMAIN todo /\ todo' \in Seq(Action)
    BY <2>1, Rest
  <2>6. Counted' \subseteq Counted \cup {n} /\ Counted \subseteq 1..last
    BY <2>2, <2>3 DEF Counted, IInv, Ids
  <2>7. \A o \in Counted : slotOf[o] # s
    <3>1. todo[1][1] = "quote" /\ todo[1][2] = s
      BY <2>1
    <3>2. ~ \E j \in DOMAIN todo : j < 1
      BY <2>5
    <3>3. QED
      BY <2>5, <3>1, <3>2 DEF IInv, Vacant
  <2>8. OnePerSlot'
    BY <2>2, <2>3, <2>6, <2>7 DEF OnePerSlot, Counted, IInv
  <2>9. ASSUME NEW i \in DOMAIN todo', NEW j \in DOMAIN todo', todo'[i] = todo'[j]
        PROVE  i = j
    BY <2>5, <2>9 DEF IInv, Vacant
  <2>10. ASSUME NEW i \in DOMAIN todo', todo'[i][1] = "quote"
         PROVE  \/ \A o \in Counted' : slotOf'[o] # todo'[i][2]
                \/ \E j \in DOMAIN todo' : j < i /\ todo'[j][1] = "cancelAll"
    <3>1. i \in Nat /\ i > 0 /\ i + 1 \in DOMAIN todo /\ todo'[i] = todo[i + 1] /\ todo'[i] \in Action
      BY <2>5
    <3>2. todo'[i] = <<"quote", todo'[i][2]>>
      BY <2>10, <3>1, Subjects
    <3>3. todo'[i][2] # s
      <4>1. todo[i + 1] # todo[1]
        BY <2>5, <3>1 DEF IInv, Vacant
      <4>2. QED
        BY <2>1, <3>1, <3>2, <4>1
    <3>4. CASE \A o \in Counted : slotOf[o] # todo[i + 1][2]
      BY <2>2, <2>6, <3>1, <3>3, <3>4
    <3>5. ASSUME NEW j \in DOMAIN todo, j < i + 1, todo[j][1] = "cancelAll"
          PROVE  \E k \in DOMAIN todo' : k < i /\ todo'[k][1] = "cancelAll"
      <4>1. j # 1 /\ j \in Nat /\ j > 1 /\ j - 1 \in DOMAIN todo'
        BY <2>1, <2>5, <3>5
      <4>2. j - 1 < i /\ todo'[j - 1] = todo[(j - 1) + 1] /\ (j - 1) + 1 = j
        BY <2>5, <3>1, <4>1, <3>5
      <4>3. QED
        BY <4>1, <4>2, <3>5
    <3>6. QED
      BY <2>10, <3>1, <3>4, <3>5 DEF IInv, Vacant
  <2>11. QED
    BY <2>4, <2>8, <2>9, <2>10 DEF Core, Vacant
<1>2. CASE QuoteRefused
  <2>1. Vacant' /\ OnePerSlot'
    BY <1>2, Doings, ActionTaken DEF QuoteRefused, Counted, IInv
  <2>2. Ids' /\ Listing' /\ NoSilentLoss'
    BY <1>2 DEF QuoteRefused, IInv, Ids, Listing, NoSilentLoss, Tracked
  <2>3. QED
    BY <2>1, <2>2 DEF Core
<1>3. CASE QuoteLost
  <2>1. /\ todo # <<>> /\ todo' = Tail(todo) /\ Head(todo)[1] = "quote" /\ Subject \in Slots
        /\ pc \in {"main", "post"} /\ pc' = pc
    BY <1>3, Doings DEF QuoteLost, IInv
  <2>2. /\ last' = last + 1 /\ last \in Nat /\ open' = open \cup {last + 1} /\ wire' = wire
        /\ \A o \in 1..last : slotOf'[o] = slotOf[o] /\ o # last + 1
    BY <1>3, <2>1, NewOrder DEF QuoteLost, IInv
  <2>3. /\ untold' = untold \cup {last + 1} /\ UNCHANGED <<mirrorVars, kept, orders>>
    BY <1>3 DEF QuoteLost
  <2>4. Ids' /\ Listing' /\ NoSilentLoss'
    BY <2>1, <2>2, <2>3 DEF IInv, Ids, Listing, NoSilentLoss, Tracked
  <2>5. Counted' \subseteq Counted /\ \A o \in Counted : slotOf'[o] = slotOf[o]
    BY <2>2, <2>3 DEF Counted, IInv, Ids
  <2>6. Vacant' /\ OnePerSlot'
    BY <2>1, <2>5, ActionTaken
  <2>7. QED
    BY <2>4, <2>6 DEF Core
<1>4. CASE CancelOk
  <2>1. Vacant' /\ OnePerSlot'
    BY <1>4, Doings, ActionTaken DEF CancelOk, Leave, Counted, IInv
  <2>2. Ids' /\ Listing' /\ NoSilentLoss'
    BY <1>4 DEF CancelOk, Leave, DropQuote, IInv, Ids, Listing, NoSilentLoss, Tracked
  <2>3. QED
    BY <2>1, <2>2 DEF Core
<1>5. CASE CancelErr
  <2>1. Vacant' /\ OnePerSlot'
    BY <1>5, Doings, ActionTaken DEF CancelErr, Leave, Counted, IInv
  <2>2. Ids' /\ Listing' /\ NoSilentLoss'
    BY <1>5 DEF CancelErr, Leave, IInv, Ids, Listing, NoSilentLoss, Tracked
  <2>3. QED
    BY <2>1, <2>2 DEF Core
<1>6. CASE Requote
  <2>1. Vacant' /\ OnePerSlot'
    BY <1>6, Doings, ActionTaken DEF Requote, Counted, IInv
  <2>2. Ids' /\ Listing' /\ NoSilentLoss'
    BY <1>6 DEF Requote, IInv, Ids, Listing, NoSilentLoss, Tracked
  <2>3. QED
    BY <2>1, <2>2 DEF Core
<1>7. CASE CancelAllOk
  <2>1. Vacant' /\ OnePerSlot'
    BY <1>7, Doings, ActionTaken DEF CancelAllOk, Leave, Counted, IInv
  <2>2. Ids' /\ Listing' /\ NoSilentLoss'
    BY <1>7 DEF CancelAllOk, Leave, IInv, Ids, Listing, NoSilentLoss
  <2>3. QED
    BY <2>1, <2>2 DEF Core
<1>8. CASE CancelAllErr
  <2>1. Counted' = {}
    BY <1>8 DEF CancelAllErr, Leave, Counted
  <2>2. Vacant' /\ OnePerSlot'
    BY <1>8, <2>1, Doings, ActionTaken DEF CancelAllErr, IInv
  <2>3. Ids' /\ Listing' /\ NoSilentLoss'
    BY <1>8 DEF CancelAllErr, Leave, IInv, Ids, Listing, NoSilentLoss, Tracked
  <2>4. QED
    BY <2>2, <2>3 DEF Core
<1>9. CASE PostDone
  <2>1. Vacant' /\ OnePerSlot'
    BY <1>9, NothingSent DEF PostDone, Counted
  <2>2. Ids' /\ Listing' /\ NoSilentLoss'
    BY <1>9 DEF PostDone, IInv, Ids, Listing, NoSilentLoss, Tracked
  <2>3. QED
    BY <2>1, <2>2 DEF Core
<1>10. ASSUME NEW due \in SUBSET Orders, NEW crossed \in SUBSET Orders, Promote(due, crossed)
       PROVE  Core'
  <2>1. Vacant' /\ OnePerSlot'
    BY <1>10, NothingSent DEF Promote, Counted
  <2>2. Ids' /\ Listing' /\ NoSilentLoss'
    BY <1>10 DEF Promote, IInv, Ids, Listing, NoSilentLoss, Tracked
  <2>3. QED
    BY <2>1, <2>2 DEF Core
<1>11. QED
  BY <1>1, <1>2, <1>3, <1>4, <1>5, <1>6, <1>7, <1>8, <1>9, <1>10 DEF Dispatch

\* The take-profit, and the reconciliation from an answer that has aged.
LEMMA TickSteps ==
    ASSUME IInv, Ticks
    PROVE  Core'
<1> USE OrderMirrorAssumption DEF venueVars, mirrorVars, runnerVars, tpVars, historyVars
<1>1. CASE TpCancel
  <2>1. Vacant' /\ OnePerSlot'
    BY <1>1, NothingSent DEF TpCancel, Leave, Counted
  <2>2. Ids' /\ Listing' /\ NoSilentLoss'
    BY <1>1 DEF TpCancel, Leave, DropQuote, IInv, Ids, Listing, NoSilentLoss, Tracked
  <2>3. QED
    BY <2>1, <2>2 DEF Core
<1>2. CASE TpPlaceOk
  <2>1. Vacant' /\ OnePerSlot'
    BY <1>2, OwnAccepted DEF TpPlaceOk
  <2>2. /\ last' = last + 1 /\ last \in Nat /\ open' = open \cup {last + 1} /\ slotOf'[last + 1] = "tp"
        /\ wire' = wire /\ \A o \in 1..last : slotOf'[o] = slotOf[o] /\ o # last + 1
    BY <1>2, NewOrder DEF TpPlaceOk, IInv
  <2>3. Ids' /\ Listing' /\ NoSilentLoss'
    BY <1>2, <2>2 DEF TpPlaceOk, IInv, Ids, Listing, NoSilentLoss, Tracked
  <2>4. QED
    BY <2>1, <2>3 DEF Core
<1>3. CASE TpPlaceErr
  <2>1. CASE UNCHANGED <<venueVars, untold>>
    <3>1. Vacant' /\ OnePerSlot'
      BY <1>3, <2>1, NothingSent DEF TpPlaceErr, Counted
    <3>2. Ids' /\ Listing' /\ NoSilentLoss'
      BY <1>3, <2>1 DEF TpPlaceErr, IInv, Ids, Listing, NoSilentLoss, Tracked
    <3>3. QED
      BY <3>1, <3>2 DEF Core
  <2>2. CASE Accept("tp") /\ untold' = untold \cup {last + 1}
    <3>1. Vacant' /\ OnePerSlot'
      BY <1>3, <2>2, OwnAccepted DEF TpPlaceErr
    <3>2. /\ last' = last + 1 /\ last \in Nat /\ open' = open \cup {last + 1}
          /\ wire' = wire /\ \A o \in 1..last : slotOf'[o] = slotOf[o] /\ o # last + 1
      BY <2>2, NewOrder DEF IInv
    <3>3. Ids' /\ Listing' /\ NoSilentLoss'
      BY <1>3, <2>2, <3>2 DEF TpPlaceErr, IInv, Ids, Listing, NoSilentLoss, Tracked
    <3>4. QED
      BY <3>1, <3>3 DEF Core
  <2>3. QED
    BY <1>3, <2>1, <2>2 DEF TpPlaceErr
<1>4. CASE ReconList
  <2>1. Vacant' /\ OnePerSlot'
    BY <1>4, NothingSent DEF ReconList, Counted
  <2>2. Ids' /\ Listing' /\ NoSilentLoss'
    BY <1>4 DEF ReconList, IInv, Ids, Listing, NoSilentLoss, Tracked
  <2>3. QED
    BY <2>1, <2>2 DEF Core
<1>5. CASE ReconListErr
  <2>1. Vacant' /\ OnePerSlot'
    BY <1>5, NothingSent DEF ReconListErr, Counted
  <2>2. Ids' /\ Listing' /\ NoSilentLoss'
    BY <1>5 DEF ReconListErr, IInv, Ids, Listing, NoSilentLoss, Tracked
  <2>3. QED
    BY <2>1, <2>2 DEF Core
<1>6. CASE ReconSync
  <2>1. Vacant' /\ OnePerSlot'
    BY <1>6, NothingSent DEF ReconSync, Sync, Counted
  <2>2. Ids' /\ Listing' /\ NoSilentLoss'
    BY <1>6 DEF ReconSync, Sync, Reconciled, IInv, Ids, Listing, NoSilentLoss, Tracked
  <2>3. QED
    BY <2>1, <2>2 DEF Core
<1>7. CASE SweepOk
  <2>1. Vacant' /\ OnePerSlot'
    BY <1>7, NothingSent DEF SweepOk, Sync, Leave, Counted
  <2>2. Ids' /\ Listing' /\ NoSilentLoss'
    BY <1>7 DEF SweepOk, Sync, Leave, IInv, Ids, Listing, NoSilentLoss
  <2>3. QED
    BY <2>1, <2>2 DEF Core
<1>8. CASE SweepErr
  <2>1. Vacant' /\ OnePerSlot'
    BY <1>8, NothingSent DEF SweepErr, Sync, Leave, Counted
  <2>2. Ids' /\ Listing' /\ NoSilentLoss'
    BY <1>8 DEF SweepErr, Sync, Leave, Reconciled, IInv, Ids, Listing, NoSilentLoss, Tracked
  <2>3. QED
    BY <2>1, <2>2 DEF Core
<1>9. QED
  BY <1>1, <1>2, <1>3, <1>4, <1>5, <1>6, <1>7, <1>8 DEF Ticks

-----------------------------------------------------------------------------
(* The theorems.                                                           *)

\* An earlier run's orders are untold, and nothing is planned.
LEMMA InitInv == Init => IInv
<1> SUFFICES ASSUME Init PROVE IInv
  OBVIOUS
<1>1. TypeOK
  BY OrderMirrorAssumption DEF Init, TypeOK, Orders
<1>2. Core
  BY DEF Init, Core, Ids, Listing, Vacant, NoSilentLoss, OnePerSlot
<1>3. QED
  BY <1>1, <1>2 DEF IInv, Core

\* Every step of the runner and of the venue keeps the invariant.
LEMMA NextInv ==
    ASSUME IInv, [Next]_vars
    PROVE  IInv'
<1>1. CASE Venue \/ Arms \/ BootList \/ BootCancel
  BY <1>1, ArmTypes, ArmSteps DEF IInv, Core
<1>2. CASE Dispatch
  BY <1>2, DispatchTypes, DispatchSteps DEF IInv, Core
<1>3. CASE Ticks
  BY <1>3, TickTypes, TickSteps DEF IInv, Core
<1>4. CASE UNCHANGED vars
  <2>1. /\ UNCHANGED <<last, slotOf, open, wire, live, placing, replacing, manager, pc, todo>>
        /\ UNCHANGED <<bag, replayed, orders, tp, latch, tpSign, untold, kept, cashed>>
    BY <1>4 DEF vars, venueVars, mirrorVars, runnerVars, tpVars, historyVars
  <2>2. TypeOK'
    BY <2>1 DEF IInv, TypeOK
  <2>3. Core'
    BY <2>1, NothingSent DEF Counted, IInv, Core, Ids, Listing, NoSilentLoss, Tracked
  <2>4. QED
    BY <2>2, <2>3 DEF IInv, Core
<1>5. QED
  BY <1>1, <1>2, <1>3, <1>4, Steps

\* The runner's mirror, its take-profit and the venue's book keep their types.
THEOREM Typed == Spec => []TypeOK
<1>1. IInv => TypeOK
  BY DEF IInv
<1>2. QED
  BY <1>1, InitInv, NextInv, PTL DEF Spec

\* Every order that rests at the venue is in the mirror, unless the runner was
\* not told of it or, as with the bagger's, threw its id away: fills, cancels,
\* failed calls, the orphan sweep and reconciliation from an aged answer drop no
\* order that still rests.
THEOREM NothingDropped == Spec => []NoSilentLoss
<1>1. IInv => NoSilentLoss
  BY DEF IInv
<1>2. QED
  BY <1>1, InitInv, NextInv, PTL DEF Spec

\* The strategy never has two orders in a slot, whatever it plans from what it
\* is shown and however its plan is answered.
THEOREM SlotsHoldOne == Spec => []OnePerSlot
<1>1. IInv => OnePerSlot
  BY DEF IInv
<1>2. QED
  BY <1>1, InitInv, NextInv, PTL DEF Spec

\* Only the status tick takes the latch, and only for an order the mirror lost:
\* by NoSilentLoss it no longer rests, unless the mirror's own gate turned it away.
THEOREM TakenWhenGone == Spec => LatchedWhenGone
<1> DEFINE Gone == (latch = "armed" /\ latch' = "taken") => tp \notin open \/ tp \in untold
<1>1. IInv /\ [Next]_vars => [Gone]_vars
  <2> SUFFICES ASSUME IInv, Next, latch = "armed", latch' = "taken"
               PROVE  tp \notin open \/ tp \in untold
    BY DEF vars
  <2>1. CASE StatusTick
    BY <2>1 DEF StatusTick, IInv, NoSilentLoss
  <2>2. CASE Venue
    BY <2>2 DEF Venue, VenueFill, SilentCancel, tpVars
  <2>3. CASE BaggerRests \/ MarketEvent \/ WatchUpdate \/ FillArrives \/ PartialFill \/ ReconFills \/ BootList \/ BootCancel
    BY <2>3 DEF BaggerRests, MarketEvent, WatchUpdate, FillArrives, PartialFill, ReconFills, BootList, BootCancel, tpVars
  <2>4. CASE Dispatch
    BY <2>4 DEF Dispatch, QuoteOk, QuoteRefused, QuoteLost, CancelOk, CancelErr, Requote, CancelAllOk,
                CancelAllErr, PostDone, Promote, tpVars
  <2>5. CASE Ticks
    BY <2>5 DEF Ticks, TpCancel, TpPlaceOk, TpPlaceErr, ReconList, ReconListErr, ReconSync, SweepOk,
                SweepErr, Sync, tpVars
  <2>6. QED
    BY <2>1, <2>2, <2>3, <2>4, <2>5, Steps DEF Arms
<1>2. QED
  BY <1>1, InitInv, NextInv, PTL DEF Spec, LatchedWhenGone
=============================================================================
