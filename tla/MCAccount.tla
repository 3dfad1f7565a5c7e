----------------------------- MODULE MCAccount ------------------------------
(* Instances of Account for TLC. *)
EXTENDS Account

CONSTANTS btc, eth    \* symbols

MCSymbols == {btc, eth}
MCMaxFills == [s \in MCSymbols |-> 1]
=============================================================================
