--------------------------- MODULE MCOrderMirror ----------------------------
(* Instances of OrderMirror for TLC. *)
EXTENDS OrderMirror

CONSTANT bid    \* a slot

MCSlots == {bid}
MCBags == {0, 1}

\* Bounds the instance: while there is a bag or a take-profit the strategy
\* quotes and cancels all, and requotes or cancels one order only without.
\* The bagger rests its limits in behaviours without take-profits, and beside an
\* order of an earlier run there is one other.
Apart ==
    /\ \/ bag = 0 /\ tpSign = 0 /\ tp = 0
       \/ replacing = {} /\ \A i \in DOMAIN todo : todo[i][1] \in {"quote", "cancelAll"}
    /\ (\E o \in 1..last : slotOf[o] = "bagger") =>
          replacing = {} /\ \A o \in 1..last : slotOf[o] # "tp"
    /\ slotOf[1] = "alien" => last <= 2
=============================================================================
