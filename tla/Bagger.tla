------------------------------- MODULE Bagger -------------------------------
(***************************************************************************)
(* The inventory-risk layer: BaggerState::evaluate and commit, and the     *)
(* part of run_inner's event arm that calls them and executes a decision.  *)
(*                                                                         *)
(* Prices and balances are whole numbers and every threshold is a          *)
(* percentage of the balance, except those of the giveback (of the highest *)
(* equity), the locks (of the snapshot), the trail (of the peak) and the   *)
(* average take-profit, which fires as soon as the mark is past the entry. *)
(* A fraction of the bag is one half, rounded up to a lot.  Times are      *)
(* counted in events since, and stop counting at MaxAge.                   *)
(***************************************************************************)
EXTENDS Integers, Sequences, FiniteSets, FiniteSetsExt

CONSTANTS Marks,        \* marks
          MaxPos,       \* largest bag the grid builds
          Balance0,     \* equity the run starts from
          MaxMoves,     \* bound on the events and grid fills
          MechSets,     \* sets of mechanisms that are switched on together
          Pct,          \* their thresholds: [mechanism -> percentage]
          SizeGate,     \* size_gate_pct
          Leverage,
          Interval,     \* periodic_flatten_secs
          Trend,        \* deteriorate_secs, 0: a bare stop
          Pause,        \* BAGGER_FLATTEN_COOLDOWN_NS
          OrderSize     \* order_notional

\* In the order of evaluate; those after "profitLock" are behind the size gate.
Priority == <<"periodic", "invFlat", "bpCut", "avgTp", "pnlFlat", "walletTp", "walletSl",
              "giveback", "lossLock", "profitLock", "cap", "stop", "trail", "fixedTp">>
Mechanisms == {Priority[i] : i \in DOMAIN Priority}
Gated == {"cap", "stop", "trail", "fixedTp"}

ASSUME BaggerAssumption ==
    /\ Marks \subseteq Nat \ {0} /\ MaxPos \in Nat /\ Balance0 \in Nat \ {0} /\ MaxMoves \in Nat
    /\ MechSets \subseteq SUBSET Mechanisms /\ Pct \in [Mechanisms -> 0..100]
    /\ SizeGate \in Nat /\ Leverage \in Nat \ {0} /\ Interval \in Nat \ {0}
    /\ Trend \in Nat /\ Pause \in Nat /\ OrderSize \in Nat

VARIABLES
    on,         \* the mechanisms switched on, fixed for a run
    moves,      \* events so far
    size, basis, balance, mark,   \* the tracker: signed size and cost, settled equity; last_mark
    peak, trough, lastSign, high, snapshot,   \* BaggerState
    timer,      \* events since last_periodic_flatten_ns, -1: not yet initialized
    troughAge,  \* events since last_new_trough_ns
    rested,     \* events since the last flatten was executed
    best,       \* history: highest unrealized P&L an evaluation has seen of this bag
    top,        \* history: highest equity evaluated since the last giveback
    cutAge,     \* history: events since the last periodic flatten, or the first evaluation
    last        \* history: the decision of the last event: [why, equity, top, due]

bagVars == <<on, moves, size, basis, balance, mark, peak, trough, lastSign, high, snapshot,
             timer, troughAge, rested, best, top, cutAge, last>>

MaxAge == Pause + Interval + Trend + 1
Older(age) == IF age < 0 \/ age >= MaxAge THEN age ELSE age + 1
Larger(x, y) == IF x > y THEN x ELSE y
Magnitude(x) == IF x < 0 THEN -x ELSE x
SignOf(x) == IF x > 0 THEN 1 ELSE IF x < 0 THEN -1 ELSE 0

NoDecision == [why |-> "none", equity |-> 0, top |-> 0, due |-> FALSE, done |-> FALSE]

BagInit ==
    /\ on \in MechSets /\ moves = 0
    /\ size = 0 /\ basis = 0 /\ balance = Balance0 /\ mark \in Marks
    /\ peak = 0 /\ trough = 0 /\ lastSign = 0 /\ high = 0 /\ snapshot = 0
    /\ timer = -1 /\ troughAge = 0 /\ rested = MaxAge
    /\ best = 0 /\ top = 0 /\ cutAge = -1 /\ last = NoDecision

----------------------------------------------------------------------------
\* The grid's own fills, one lot at the mark, between two events.
Release(n) == IF size = 0 THEN 0 ELSE (Magnitude(basis) * n) \div Magnitude(size)

GridFill ==
    /\ moves < MaxMoves /\ moves' = moves + 1
    /\ \E s \in {1, -1} :
         /\ Magnitude(size + s) <= MaxPos
         /\ size' = size + s
         /\ IF s * size < 0
            THEN /\ basis' = basis + s * Release(1)
                 /\ balance' = balance + s * (Release(1) - mark)
            ELSE basis' = basis + s * mark /\ UNCHANGED balance
    /\ best' = IF size' = 0 THEN 0 ELSE best
    /\ UNCHANGED <<on, mark, peak, trough, lastSign, high, snapshot, timer, troughAge,
                   rested, top, cutAge, last>>

----------------------------------------------------------------------------
\* evaluate.  `u` is the unrealized P&L and `p`, `t`, `h`, `b` the peak, the
\* trough's age, the high-water mark and the snapshot as updated on the way.
Share(x, of, m) == x * 100 >= of * Pct[m]

\* The mechanisms that look at the bag as it stands, whatever its size.
PlainFires(m, mk, u) ==
    CASE m = "periodic" -> timer >= Interval
      [] m = "invFlat"  -> balance > 0 /\ Share(Magnitude(size) * mk, balance, m)
      [] m = "bpCut"    -> balance > 0 /\ Share(Magnitude(size) * mk, balance * Leverage, m)
      [] m = "avgTp"    -> u > 0
      [] m = "pnlFlat"  -> OrderSize > 0 /\ Share(Magnitude(u), OrderSize, m)
      [] m = "walletTp" -> balance > 0 /\ Share(u, balance, m)
      [] m = "walletSl" -> balance > 0 /\ Share(-u, balance, m)

\* Those that compare the equity with what it was.
EquityFires(m, equity, h, b) ==
    CASE m = "giveback"   -> h > 0 /\ equity * 100 <= h * (100 - Pct[m])
      [] m = "lossLock"   -> b > 0 /\ equity * 100 <= b * (100 - Pct[m])
      [] m = "profitLock" -> b > 0 /\ equity * 100 >= b * (100 + Pct[m])

\* Those behind the size gate.
GatedFires(m, mk, u, p, t) ==
    CASE m = "cap"     -> Magnitude(size) * mk * 100 > balance * Pct[m]
      [] m = "stop"    -> Share(-u, balance, m) /\ (Trend = 0 \/ t <= Trend)
      [] m = "trail"   -> p > 0 /\ u * 100 <= p * (100 - Pct[m])
      [] m = "fixedTp" -> Share(u, balance, m)

Fires(m, mk, u, p, t, h, b) ==
    CASE m \in Gated -> GatedFires(m, mk, u, p, t)
      [] m \in {"giveback", "lossLock", "profitLock"} -> EquityFires(m, balance + u, h, b)
      [] OTHER -> PlainFires(m, mk, u)

Armed(m, mk) == m \in on /\ (m \in Gated => SizeGate > 0 /\ Magnitude(size) * mk * 100 >= balance * SizeGate)

FirstOf(S) == IF S = {} THEN "none" ELSE Priority[Min({i \in DOMAIN Priority : Priority[i] \in S})]

\* The lots a decision closes: the excess over the cap, half the bag for the
\* cuts, all of it otherwise.
Close(why, mk) ==
    CASE why \in {"periodic", "bpCut", "avgTp", "walletTp", "walletSl"} -> {(Magnitude(size) + 1) \div 2}
      [] why = "cap" -> {((Magnitude(size) * mk - (balance * Pct["cap"]) \div 100) + mk - 1) \div mk}
      [] why \in {"trail", "fixedTp"} -> {Magnitude(size), (Magnitude(size) + 1) \div 2}
      [] OTHER -> {Magnitude(size)}

\* Mutant: the giveback leaves the high-water mark where it was.
CommitNoRebase(why, equity, h, b, tm) ==
    [high |-> h, snapshot |-> IF why \in {"lossLock", "profitLock"} THEN equity ELSE b,
     timer |-> IF why = "periodic" THEN 0 ELSE tm]

\* commit: what an executed decision stamps.
Commit(why, equity, h, b, tm) ==
    [high     |-> IF why = "giveback" THEN equity ELSE h,
     snapshot |-> IF why \in {"lossLock", "profitLock"} THEN equity ELSE b,
     timer    |-> IF why = "periodic" THEN 0 ELSE tm]

\* Mutant: the decision, not its execution, consumes the interval.
StampsEarly(why, done, c, h, b, tm) ==
    IF done \/ why = "periodic" THEN c ELSE [high |-> h, snapshot |-> b, timer |-> tm]

Stamps(why, done, c, h, b, tm) == IF done THEN c ELSE [high |-> h, snapshot |-> b, timer |-> tm]

\* One market event while a bag is open: the runner does not evaluate when the
\* position is flat.  A decision is dropped in the pause after a flatten, with
\* an empty side of the book, or when the venue refuses; in live mode an
\* accepted order closes the bag later (by a fill), otherwise at once.
Evaluate ==
    /\ moves < MaxMoves /\ size # 0 /\ moves' = moves + 1
    /\ \E mk \in Marks :
       LET new    == SignOf(size) # lastSign
           u      == size * mk - basis
           equity == balance + u
           h  == Larger(high, equity)
           b  == IF on \cap {"lossLock", "profitLock"} # {} /\ snapshot = 0 /\ equity > 0
                 THEN equity ELSE snapshot
           cut == Armed("periodic", mk) /\ Fires("periodic", mk, u, 0, 0, h, b)
           p0 == IF new THEN 0 ELSE peak
           t0 == IF new THEN 0 ELSE trough
           p  == IF cut THEN p0 ELSE Larger(p0, u)
           t  == IF cut \/ u >= t0 THEN t0 ELSE u
           ta == IF new \/ (~cut /\ u < t0) THEN 0 ELSE Older(troughAge)
           tm == IF "periodic" \notin on THEN -1 ELSE IF timer = -1 THEN 0 ELSE Older(timer)
           why == FirstOf({m \in Mechanisms : Armed(m, mk) /\ Fires(m, mk, u, p, ta, h, b)})
       IN /\ mark' = mk /\ peak' = p /\ trough' = t /\ troughAge' = ta /\ lastSign' = SignOf(size)
          /\ \E done, later \in BOOLEAN :
               /\ done => why # "none" /\ rested >= Pause
               /\ LET st == Stamps(why, done, Commit(why, equity, h, b, tm), h, b, tm)
                  IN  high' = st.high /\ snapshot' = st.snapshot /\ timer' = st.timer
               /\ rested' = IF done THEN 0 ELSE Older(rested)
               /\ IF done /\ ~later
                  THEN \E n \in Close(why, mk) :
                         LET q == IF n < Magnitude(size) THEN n ELSE Magnitude(size)
                             s == SignOf(size)
                         IN  /\ size' = size - s * q
                             /\ basis' = basis - s * Release(q)
                             /\ balance' = balance + s * (q * mk) - s * Release(q)
                  ELSE UNCHANGED <<size, basis, balance>>
               /\ best' = IF size' = 0 THEN 0 ELSE Larger(best, u)
               /\ top' = IF done /\ why = "giveback" THEN equity ELSE Larger(top, equity)
               /\ cutAge' = IF "periodic" \notin on THEN -1
                            ELSE IF cutAge = -1 \/ (done /\ why = "periodic") THEN 0 ELSE Older(cutAge)
               /\ last' = [why |-> why, equity |-> equity, top |-> Larger(top, equity),
                           due |-> cutAge >= Interval, done |-> done]
    /\ UNCHANGED on

\* Time passes without a bag.
Idle == /\ moves < MaxMoves /\ size = 0 /\ moves' = moves + 1
        /\ mark' \in Marks
        /\ timer' = Older(timer) /\ cutAge' = Older(cutAge)
        /\ troughAge' = Older(troughAge) /\ rested' = Older(rested)
        /\ UNCHANGED <<on, size, basis, balance, peak, trough, lastSign, high, snapshot, best, top, last>>

BagNext == GridFill \/ Evaluate \/ Idle
BagSpec == BagInit /\ [][BagNext]_bagVars

----------------------------------------------------------------------------
BagTypeOK ==
    /\ Magnitude(size) <= MaxPos /\ (size = 0 => basis = 0) /\ lastSign \in {-1, 0, 1}
    /\ trough <= 0 /\ 0 <= peak /\ timer \in -1..MaxAge /\ rested \in 0..MaxAge

\* A giveback fires for a fall of its percentage from an equity reached since
\* the last executed giveback, never again for the same fall (GivebackRebase).
GivebackOnce == last.why = "giveback" => last.equity * 100 <= last.top * (100 - Pct["giveback"])

\* A periodic cut that falls due is decided at every event until one executes:
\* a decision that is dropped (pause, empty book, refused) does not consume
\* the interval (FlattenCommit).
DueUntilCut == "periodic" \in on /\ last.due => last.why = "periodic"

\* bagger.rs:355-357: the peak is the highest unrealized of the current bag.
PeakOfThisBag == lastSign # 0 /\ size # 0 => peak <= best
=============================================================================
