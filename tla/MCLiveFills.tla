---------------------------- MODULE MCLiveFills -----------------------------
(***************************************************************************)
(* Instances of LiveFills and OrderMirror for TLC, in one run: a behaviour *)
(* is one of the fills or one of the mirror, the other component rests.    *)
(***************************************************************************)
EXTENDS LiveFills

CONSTANTS bid,    \* a slot
          MaxOrders, Aliens, Slots, Bags, MaxExpected, MaxPlan, Kinds, Bagger, Faults

\* The variables of OrderMirror; `issued` and `caughtUp` are its `last` and `replayed`.
VARIABLES issued, slotOf, open, wire, live, placing, replacing, manager,
          pc, todo, bag, caughtUp, orders, tp, latch, tpSign, untold, kept, cashed

VARIABLE which    \* the component that runs, "fills" or "mirror"

Mirror == INSTANCE OrderMirror WITH last <- issued, replayed <- caughtUp

\* A single size, so that no trade booked twice or missed is hidden by another
\* of the opposite sign.
MCSizes == {2}
MCSlots == {bid}

mirror == <<issued, slotOf, open, wire, live, placing, replacing, manager,
            pc, todo, bag, caughtUp, orders, tp, latch, tpSign, untold, kept, cashed>>

OfFills == which = "fills" /\ UNCHANGED <<which, mirror>>
OfMirror == which = "mirror" /\ UNCHANGED <<which, vars>>
allVars == <<which, vars, mirror>>

\* Every order of an earlier run that may rest at start-up does.
EitherInit == which \in {"fills", "mirror"} /\ Init /\ Mirror!Init /\ issued = Aliens

\* LiveFills!Next and OrderMirror!Next, the former action by action.
EitherNext ==
    \/ \E q \in Sizes : OfFills /\ Execute(q)
    \/ OfFills /\ Tick
    \/ OfFills /\ SocketDrop
    \/ OfFills /\ Reconnect
    \/ OfFills /\ Pump
    \/ OfFills /\ Subscribe
    \/ OfFills /\ SeedOk
    \/ OfFills /\ SeedErr
    \/ OfFills /\ Start
    \/ OfFills /\ RunnerEnds
    \/ OfFills /\ WsFill
    \/ OfFills /\ ReconFillsOk
    \/ OfFills /\ ReconFillsErr
    \/ OfFills /\ ReconPositionOk
    \/ OfFills /\ ReconPositionErr
    \/ OfMirror /\ Mirror!Venue
    \/ OfMirror /\ Mirror!Arms
    \/ OfMirror /\ Mirror!Handler

\* The fairness of both, where each condition names an action of either: as only
\* one of them ever runs, that is the conjunction of what the two modules assume.
EitherSpec ==
    /\ EitherInit /\ [][EitherNext]_allVars
    /\ WF_allVars((OfFills /\ Tick) \/ (OfMirror /\ Mirror!Handler))
    /\ WF_allVars(OfFills /\ Pump) /\ WF_allVars(OfFills /\ WsFill)
    /\ WF_allVars(OfFills /\ Subscribe) /\ WF_allVars(OfFills /\ (SeedOk \/ SeedErr))
    /\ WF_allVars(OfFills /\ Start)
    /\ WF_allVars(OfFills /\ (ReconPositionOk \/ ReconPositionErr))
    /\ SF_allVars((OfFills /\ ReconFillsOk) \/ (OfMirror /\ Mirror!FillArrives))
    /\ SF_allVars((OfFills /\ ReconPositionOk) \/ (OfMirror /\ Mirror!MarketEvent))
    /\ SF_allVars(OfMirror /\ Mirror!ReconFills)
    /\ SF_allVars(OfMirror /\ Mirror!Promote(placing \cup replacing, {}))
    /\ SF_allVars(OfMirror /\ Mirror!ReconList) /\ SF_allVars(OfMirror /\ Mirror!SweepOk)

\* An order that is gone from the venue leaves the mirror in the end, by its fill,
\* by a cancel's UnknownQuote or by a reconciliation (reconcile_quotes_for).
GhostsExpire == which = "mirror" => Mirror!GhostsExpire

\* An order the mirror does not know is taken up in the end, unless it goes
\* (reconcile_quotes_for re-imports it).
LostOrdersReturn == which = "mirror" => Mirror!LostOrdersReturn
=============================================================================
