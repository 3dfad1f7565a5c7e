----------------------------- MODULE FillLedger -----------------------------
(***************************************************************************)
(* What the live runner promises about fills, with no channel, no REST     *)
(* poll, no dedup set and no restart in sight: the venue executes trades,  *)
(* and each executed trade is charged to the position (apply_fill) at most *)
(* once, never before it was executed.  LiveFills implements this module.  *)
(***************************************************************************)
EXTENDS Naturals

CONSTANT Trades       \* every trade the venue may execute for the bot

VARIABLES executed,   \* trades the venue has executed
          charges     \* how often each trade was charged to the position

ledgerVars == <<executed, charges>>

LedgerInit == /\ executed = {}
              /\ charges = [t \in Trades |-> 0]

\* The venue executes a trade.
LedgerExecute(t) == /\ t \in Trades \ executed
                    /\ executed' = executed \cup {t}
                    /\ UNCHANGED charges

\* A batch of executed trades, none of them charged before, is charged; a
\* websocket fill is a batch of one, a REST gap-fill a batch of any size.
LedgerCharge(S) ==
    /\ \A t \in S : t \in executed /\ charges[t] = 0
    /\ charges' = [t \in Trades |-> IF t \in S THEN 1 ELSE charges[t]]
    /\ UNCHANGED executed

LedgerNext == \/ \E t \in Trades : LedgerExecute(t)
              \/ \E S \in SUBSET Trades : LedgerCharge(S)

LedgerSpec == LedgerInit /\ [][LedgerNext]_ledgerVars
=============================================================================
