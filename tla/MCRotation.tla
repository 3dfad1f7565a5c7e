----------------------------- MODULE MCRotation -----------------------------
(* Instances of Rotation for TLC. *)
EXTENDS Rotation

CONSTANTS btc, eth    \* symbols

MCSymbols == {btc, eth}
MCOneSymbol == {btc}
=============================================================================
