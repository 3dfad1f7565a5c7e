---------------------------- MODULE GuardProofs -----------------------------
(***************************************************************************)
(* Proofs about the guards in front of a live session, for any prices,     *)
(* balances, thresholds and sets of mechanisms: the bagger (Bagger) and    *)
(* the gates of the dispatch paths (Gates).                                *)
(*                                                                         *)
(* A giveback is not decided twice for one fall because the bagger's       *)
(* high-water mark is never above the highest equity since the last one,   *)
(* and a due cut is not forgotten because the timer it is decided from     *)
(* counts from the last cut that was executed (Tracked).                   *)
(*                                                                         *)
(* The cap holds because a batch is capped against everything that may     *)
(* still become inventory: the position at its cost, the resting bids, the *)
(* calls that wait for their answer and the actions not yet called         *)
(* (WithinCap).  Each is a sum, so most of what follows is about sums: of  *)
(* the notional of a set, whichever order its recursive function takes     *)
(* first, and of what a sequence of actions asks.                          *)
(***************************************************************************)
EXTENDS Gates, Bagger, FiniteSetTheorems, WellFoundedInduction, TLAPS

\* What each variable holds; the age counters hold what Older makes of them.
Numbers ==
    /\ on \subseteq Mechanisms /\ mark \in Marks /\ moves \in Nat
    /\ size \in Int /\ basis \in Int /\ balance \in Int
    /\ peak \in Int /\ trough \in Int /\ lastSign \in Int
    /\ high \in Int /\ snapshot \in Int /\ best \in Int /\ top \in Int
    /\ timer \in Int /\ troughAge \in Int /\ rested \in Int
    /\ last \in [why : Mechanisms \cup {"none"}, equity : Int, top : Int, due : BOOLEAN, done : BOOLEAN]

\* The cost of a bag has its sign.
Signed == (size >= 0 => basis >= 0) /\ (size <= 0 => basis <= 0)

\* The bagger's own state against the history of what it did.
Tracked == high <= top /\ timer = cutAge

BagInv == Numbers /\ Signed /\ Tracked /\ BagTypeOK /\ GivebackOnce /\ DueUntilCut

-----------------------------------------------------------------------------
(* Arithmetic.                                                             *)

\* Releasing some of a bag's lots releases some of its cost, and all of them
\* all of it.
LEMMA ShareOf ==
    ASSUME NEW a \in Nat, NEW b \in Nat \ {0}, NEW n \in 0..b
    PROVE  /\ (a * n) \div b \in 0..a
           /\ n = b => (a * n) \div b = a
  <1>1. a * n \in Nat /\ a * n <= a * b
    OBVIOUS
  <1>2. (a * n) \div b \in Nat
    BY <1>1
  <1>3. b * ((a * n) \div b) <= a * n
    BY <1>1
  <1>4. b * ((a * n) \div b) <= b * a
    BY <1>1, <1>2, <1>3
  <1>5. (a * n) \div b <= a
    BY <1>2, <1>4
  <1>6. ASSUME n = b PROVE (a * n) \div b = a
    <2>1. a * b = b * a + 0 /\ b > 0
      OBVIOUS
    <2>2. b * ((a * b) \div b) <= a * b /\ a * b < b * ((a * b) \div b) + b /\ (a * b) \div b \in Int
      BY <1>1
    <2> DEFINE q == (a * b) \div b
    <2>3. q \in Int /\ b * q <= b * a /\ b * a < b * (q + 1)
      BY <2>2
    <2> HIDE DEF q
    <2>4. \A x, y \in Int : x < y => b * x + b <= b * y
      <3> TAKE x, y \in Int
      <3>1. ASSUME x < y PROVE b * (y - x - 1) >= 0
        BY <3>1
      <3> QED
        BY <3>1
    <2>5. q <= a /\ a < q + 1
      BY <2>3, <2>4
    <2> QED
      BY <2>3, <2>5, <1>6 DEF q
  <1> QED
    BY <1>2, <1>5, <1>6

\* A quotient of a whole number is a whole number.
LEMMA Whole == ASSUME NEW a \in Nat, NEW b \in Nat \ {0} PROVE a \div b \in Nat
  OBVIOUS

\* The larger fall of two equities is measured from the larger of them.
LEMMA Falls ==
    ASSUME NEW h \in Int, NEW t \in Int, h <= t, NEW k \in Nat
    PROVE  h * k <= t * k
  OBVIOUS

\* A set of positions in evaluate's order has a first one.
LEMMA Least ==
    ASSUME NEW T \in SUBSET Nat, T # {}
    PROVE  Min(T) \in T /\ \A y \in T : Min(T) <= y
  <1> DEFINE Less == {ss \in Nat \X Nat : ss[1] < ss[2]}
  <1>1. IsWellFoundedOn(Less, Nat)
    BY NatLessThanWellFounded DEF OpToRel
  <1>2. \E x \in T : \A y \in T : <<y, x>> \notin Less
    BY <1>1, WFMin
  <1>3. \A x, y \in Nat : <<y, x>> \in Less <=> y < x
    OBVIOUS
  <1> HIDE DEF Less
  <1>4. PICK x \in T : \A y \in T : <<y, x>> \notin Less
    BY <1>2
  <1>5. ASSUME NEW y \in T PROVE x <= y
    <2>1. x \in Nat /\ y \in Nat
      OBVIOUS
    <2>2. ~ (y < x)
      BY <2>1, <1>3, <1>4
    <2> QED
      BY <2>1, <2>2
  <1> QED
    BY <1>5 DEF Min

\* evaluate returns one of the mechanisms that fire, and the periodic cut
\* before any other.
LEMMA FirstFires ==
    ASSUME NEW S \in SUBSET Mechanisms
    PROVE  /\ S = {} => FirstOf(S) = "none"
           /\ S # {} => FirstOf(S) \in S
           /\ "periodic" \in S => FirstOf(S) = "periodic"
  <1> DEFINE T == {i \in DOMAIN Priority : Priority[i] \in S}
  <1>1. T \in SUBSET Nat /\ DOMAIN Priority = 1..14 /\ Priority[1] = "periodic"
    BY DEF Priority
  <1>2. CASE S = {}
    BY <1>2 DEF FirstOf
  <1>3. CASE S # {}
    <2>1. T # {}
      BY <1>3 DEF Mechanisms
    <2>2. Min(T) \in T /\ \A y \in T : Min(T) <= y
      BY <2>1, <1>1, Least
    <2>3. FirstOf(S) = Priority[Min(T)]
      BY <1>3 DEF FirstOf
    <2>4. ASSUME "periodic" \in S PROVE Min(T) = 1
      BY <2>2, <2>4, <1>1
    <2> QED
      BY <1>1, <1>3, <2>2, <2>3, <2>4
  <1> QED
    BY <1>2, <1>3

\* Age counters stay between their bounds.
LEMMA OlderIs ==
    ASSUME NEW a \in -1..MaxAge
    PROVE  /\ Older(a) \in -1..MaxAge
           /\ a >= 0 => Older(a) >= 0
           /\ MaxAge \in Nat
  BY BaggerAssumption DEF Older, MaxAge

-----------------------------------------------------------------------------
(* The bagger.                                                             *)

\* What the release of `n` of the bag's lots leaves.
LEMMA Released ==
    ASSUME size \in Int, basis \in Int, Signed, size # 0, NEW n \in 0..Magnitude(size)
    PROVE  /\ Release(n) \in 0..Magnitude(basis)
           /\ n = Magnitude(size) => Release(n) = Magnitude(basis)
           /\ Magnitude(size) \in Nat \ {0} /\ Magnitude(basis) \in Nat
  <1>1. Magnitude(size) \in Nat \ {0} /\ Magnitude(basis) \in Nat
    BY DEF Magnitude
  <1>2. Release(n) = (Magnitude(basis) * n) \div Magnitude(size)
    BY DEF Release
  <1> QED
    BY <1>1, <1>2, ShareOf

\* A decision that fires closes a number of lots.
LEMMA Closes ==
    ASSUME Numbers, NEW mk \in Marks, NEW why \in Mechanisms \cup {"none"}, NEW n \in Close(why, mk),
           why = "cap" => Magnitude(size) * mk * 100 > balance * Pct["cap"]
    PROVE  n \in Nat
  <1>1. Magnitude(size) \in Nat /\ (Magnitude(size) + 1) \div 2 \in Nat /\ mk \in Nat \ {0}
    BY BaggerAssumption DEF Numbers, Magnitude
  <1>2. CASE why = "cap"
    <2> DEFINE e == (Magnitude(size) * mk - (balance * Pct["cap"]) \div 100) + mk - 1
    <2>1. Pct["cap"] \in Nat
      BY BaggerAssumption DEF Mechanisms, Priority
    <2>2. \A x, y \in Int : x * 100 > y => x - (y \div 100) \in Nat
      OBVIOUS
    <2>3. Magnitude(size) * mk \in Int /\ balance * Pct["cap"] \in Int
      BY <1>1, <2>1 DEF Numbers
    <2>4. e \in Nat
      BY <1>1, <1>2, <2>2, <2>3
    <2>5. n = e \div mk
      BY <1>2 DEF Close
    <2> HIDE DEF e
    <2> QED
      BY <1>1, <2>4, <2>5, Whole
  <1>3. CASE why # "cap"
    BY <1>1, <1>3 DEF Close
  <1> QED
    BY <1>2, <1>3

\* The grid's own fills.
LEMMA GridFillKeeps ==
    ASSUME BagInv, GridFill
    PROVE  BagInv'
  <1> USE DEF BagInv
  <1>1. PICK s \in {1, -1} :
            /\ Magnitude(size + s) <= MaxPos
            /\ size' = size + s
            /\ IF s * size < 0
               THEN /\ basis' = basis + s * Release(1)
                    /\ balance' = balance + s * (Release(1) - mark)
               ELSE basis' = basis + s * mark /\ UNCHANGED balance
    BY DEF GridFill
  <1>2. mark \in Nat \ {0}
    BY BaggerAssumption DEF Numbers
  <1>3. CASE s * size < 0
    <2>1. size \in Int /\ basis \in Int /\ size # 0 /\ 1 \in 0..Magnitude(size)
      BY <1>1, <1>3 DEF Numbers, Magnitude
    <2>2. /\ Release(1) \in 0..Magnitude(basis)
          /\ 1 = Magnitude(size) => Release(1) = Magnitude(basis)
      BY <2>1, Released
    <2>3. size' \in Int /\ basis' \in Int /\ balance' \in Int /\ Signed'
      BY <1>1, <1>2, <1>3, <2>1, <2>2 DEF Signed, Numbers, Magnitude
    <2> QED
      BY <1>1, <2>3 DEF GridFill, Numbers, Tracked, BagTypeOK, GivebackOnce, DueUntilCut, Magnitude, Signed
  <1>4. CASE ~ (s * size < 0)
    <2>1. size' \in Int /\ basis' \in Int /\ balance' \in Int /\ Signed'
      BY <1>1, <1>2, <1>4 DEF Signed, Numbers
    <2> QED
      BY <1>1, <2>1 DEF GridFill, Numbers, Tracked, BagTypeOK, GivebackOnce, DueUntilCut, Magnitude, Signed
  <1> QED
    BY <1>3, <1>4

\* Time without a bag.
LEMMA IdleKeeps ==
    ASSUME BagInv, Idle
    PROVE  BagInv'
  <1>1. /\ Older(timer) \in -1..MaxAge /\ Older(rested) \in 0..MaxAge
        /\ Older(troughAge) \in Int
    BY BaggerAssumption, OlderIs DEF BagInv, Numbers, BagTypeOK, Older, MaxAge
  <1> QED
    BY <1>1 DEF BagInv, Idle, Numbers, Signed, Tracked, BagTypeOK, GivebackOnce, DueUntilCut, Magnitude

\* An evaluation.  `h`, `b`, `p`, `t`, `ta` and `tm` are the values evaluate
\* computes on the way, `fires` the mechanisms that want to close.
LEMMA EvaluateKeeps ==
    ASSUME BagInv, Evaluate
    PROVE  BagInv'
  <1> USE DEF BagInv
  <1>0. PICK mk \in Marks :
        LET new    == SignOf(size) # lastSign
            u      == size * mk - basis
            equity == balance + u
            h  == Larger(high, equity)
            b  == IF on \cap {"lossLock", "profitLock"} # {} /\ snapshot = 0 /\ equity > 0
                  THEN equity ELSE snapshot
            cut == Armed("periodic", mk) /\ Fires("periodic", mk, u, 0, 0, h, b)
            p0 == IF new THEN 0 ELSE peak
            t0 == IF new THEN 0 ELSE trough
            p  == IF cut THEN p0 ELSE Larger(p0, u)
            t  == IF cut \/ u >= t0 THEN t0 ELSE u
            ta == IF new \/ (~cut /\ u < t0) THEN 0 ELSE Older(troughAge)
            tm == IF "periodic" \notin on THEN -1 ELSE IF timer = -1 THEN 0 ELSE Older(timer)
            why == FirstOf({m \in Mechanisms : Armed(m, mk) /\ Fires(m, mk, u, p, ta, h, b)})
        IN /\ mark' = mk /\ peak' = p /\ trough' = t /\ troughAge' = ta /\ lastSign' = SignOf(size)
           /\ \E done, later \in BOOLEAN :
                /\ done => why # "none" /\ rested >= Pause
                /\ LET st == Stamps(why, done, Commit(why, equity, h, b, tm), h, b, tm)
                   IN  high' = st.high /\ snapshot' = st.snapshot /\ timer' = st.timer
                /\ rested' = IF done THEN 0 ELSE Older(rested)
                /\ IF done /\ ~later
                   THEN \E n \in Close(why, mk) :
                          LET q == IF n < Magnitude(size) THEN n ELSE Magnitude(size)
                              s == SignOf(size)
                          IN  /\ size' = size - s * q
                              /\ basis' = basis - s * Release(q)
                              /\ balance' = balance + s * (q * mk) - s * Release(q)
                   ELSE UNCHANGED <<size, basis, balance>>
                /\ best' = IF size' = 0 THEN 0 ELSE Larger(best, u)
                /\ top' = IF done /\ why = "giveback" THEN equity ELSE Larger(top, equity)
                /\ cutAge' = IF "periodic" \notin on THEN -1
                             ELSE IF cutAge = -1 \/ (done /\ why = "periodic") THEN 0 ELSE Older(cutAge)
                /\ last' = [why |-> why, equity |-> equity, top |-> Larger(top, equity),
                            due |-> cutAge >= Interval, done |-> done]
    BY Zenon DEF Evaluate
  <1> DEFINE new    == SignOf(size) # lastSign
             u      == size * mk - basis
             equity == balance + u
             h  == Larger(high, equity)
             b  == IF on \cap {"lossLock", "profitLock"} # {} /\ snapshot = 0 /\ equity > 0
                   THEN equity ELSE snapshot
             cut == Armed("periodic", mk) /\ Fires("periodic", mk, u, 0, 0, h, b)
             p0 == IF new THEN 0 ELSE peak
             t0 == IF new THEN 0 ELSE trough
             p  == IF cut THEN p0 ELSE Larger(p0, u)
             t  == IF cut \/ u >= t0 THEN t0 ELSE u
             ta == IF new \/ (~cut /\ u < t0) THEN 0 ELSE Older(troughAge)
             tm == IF "periodic" \notin on THEN -1 ELSE IF timer = -1 THEN 0 ELSE Older(timer)
             fires == {m \in Mechanisms : Armed(m, mk) /\ Fires(m, mk, u, p, ta, h, b)}
             why == FirstOf(fires)
             st(done) == Stamps(why, done, Commit(why, equity, h, b, tm), h, b, tm)
             Done(done, later) ==
               /\ done => why # "none" /\ rested >= Pause
               /\ high' = st(done).high /\ snapshot' = st(done).snapshot /\ timer' = st(done).timer
               /\ rested' = IF done THEN 0 ELSE Older(rested)
               /\ IF done /\ ~later
                  THEN \E n \in Close(why, mk) :
                         LET q == IF n < Magnitude(size) THEN n ELSE Magnitude(size)
                             s == SignOf(size)
                         IN  /\ size' = size - s * q
                             /\ basis' = basis - s * Release(q)
                             /\ balance' = balance + s * (q * mk) - s * Release(q)
                  ELSE UNCHANGED <<size, basis, balance>>
               /\ best' = IF size' = 0 THEN 0 ELSE Larger(best, u)
               /\ top' = IF done /\ why = "giveback" THEN equity ELSE Larger(top, equity)
               /\ cutAge' = IF "periodic" \notin on THEN -1
                            ELSE IF cutAge = -1 \/ (done /\ why = "periodic") THEN 0 ELSE Older(cutAge)
               /\ last' = [why |-> why, equity |-> equity, top |-> Larger(top, equity),
                           due |-> cutAge >= Interval, done |-> done]
  <1>01. /\ mark' = mk /\ peak' = p /\ trough' = t /\ troughAge' = ta /\ lastSign' = SignOf(size)
         /\ \E done, later \in BOOLEAN : Done(done, later)
    BY <1>0, Zenon
  <1> HIDE DEF Done
  <1>02. PICK done \in BOOLEAN, later \in BOOLEAN : Done(done, later)
    BY <1>01
  <1>1. Done(done, later)
    BY <1>02
  <1> USE DEF Done
  <1>2. mk \in Nat \ {0} /\ size # 0 /\ on' = on /\ moves' = moves + 1
    BY BaggerAssumption DEF Evaluate
  <1>3. /\ u \in Int /\ equity \in Int /\ h \in Int /\ b \in Int
        /\ p \in Int /\ p >= 0 /\ t \in Int /\ t <= 0
        /\ ta \in Int /\ tm \in -1..MaxAge
    <2>1. u \in Int /\ equity \in Int
      BY <1>2 DEF Numbers
    <2>2. Older(timer) \in -1..MaxAge /\ MaxAge \in Nat
      BY OlderIs DEF BagTypeOK
    <2>3. Older(troughAge) \in Int
      BY <2>2 DEF Numbers, Older
    <2> HIDE DEF u, equity
    <2> QED
      BY <2>1, <2>2, <2>3 DEF Numbers, BagTypeOK, Larger, u, equity
  <1> HIDE DEF u, equity, h, b, p, t, ta, tm
  <1>4. /\ fires \in SUBSET Mechanisms /\ why \in Mechanisms \cup {"none"}
        /\ why # "none" => why \in fires
        /\ "periodic" \in fires => why = "periodic"
    <2> HIDE DEF fires
    <2>1. fires \in SUBSET Mechanisms
      BY DEF fires
    <2> QED
      BY <2>1, FirstFires
  <1>5. h <= Larger(top, equity)
    BY <1>3 DEF h, Tracked, Larger, Numbers
  <1>6. why = "giveback" => equity * 100 <= h * (100 - Pct["giveback"])
    BY <1>4 DEF Fires, EquityFires, Gated, equity
  <1>7. "periodic" \in on /\ timer >= Interval => why = "periodic"
    <2>1. "periodic" \in Mechanisms
      BY DEF Mechanisms, Priority
    <2> QED
      BY <1>4, <2>1 DEF Fires, PlainFires, Gated, Armed
  <1>8. why = "cap" => Magnitude(size) * mk * 100 > balance * Pct["cap"]
    BY <1>4 DEF Fires, GatedFires, Gated
  <1>9. why = "periodic" => "periodic" \in on
    BY <1>4 DEF Armed
  <1> HIDE DEF fires, why
  <1>10. /\ size' \in Int /\ basis' \in Int /\ balance' \in Int
         /\ Signed' /\ Magnitude(size') <= MaxPos
    <2>1. CASE done /\ ~later
      <3>1. PICK n \in Close(why, mk) :
              LET q == IF n < Magnitude(size) THEN n ELSE Magnitude(size)
                  s == SignOf(size)
              IN  /\ size' = size - s * q
                  /\ basis' = basis - s * Release(q)
                  /\ balance' = balance + s * (q * mk) - s * Release(q)
        BY <1>1, <2>1
      <3>2. n \in Nat
        BY <1>4, <1>8, Closes
      <3> DEFINE q == IF n < Magnitude(size) THEN n ELSE Magnitude(size)
      <3>3. q \in 0..Magnitude(size) /\ q * mk \in Nat
        BY <1>2, <3>2 DEF Numbers, Magnitude
      <3>4. /\ size' = size - SignOf(size) * q
            /\ basis' = basis - SignOf(size) * Release(q)
            /\ balance' = balance + SignOf(size) * (q * mk) - SignOf(size) * Release(q)
        BY <3>1
      <3> HIDE DEF q
      <3>5. /\ Release(q) \in 0..Magnitude(basis)
            /\ q = Magnitude(size) => Release(q) = Magnitude(basis)
        BY <1>2, <3>3, Released DEF Numbers
      <3>6. Release(q) \in Int /\ MaxPos \in Nat /\ q \in Int /\ size \in Int /\ basis \in Int /\ balance \in Int
        BY <3>3, <3>5, BaggerAssumption DEF Numbers, Magnitude
      <3>7. CASE size > 0
        <4>1. size' = size - q /\ basis' = basis - Release(q) /\ balance' = balance + q * mk - Release(q)
          BY <3>3, <3>4, <3>6, <3>7 DEF SignOf
        <4> QED
          BY <3>3, <3>5, <3>6, <3>7, <4>1 DEF Signed, Magnitude, BagTypeOK
      <3>8. CASE size < 0
        <4>1. size' = size + q /\ basis' = basis + Release(q) /\ balance' = balance - q * mk + Release(q)
          BY <3>3, <3>4, <3>6, <3>8 DEF SignOf
        <4> QED
          BY <3>3, <3>5, <3>6, <3>8, <4>1 DEF Signed, Magnitude, BagTypeOK
      <3> QED
        BY <1>2, <3>6, <3>7, <3>8
    <2>2. CASE ~ (done /\ ~later)
      BY <1>1, <2>2 DEF Numbers, Signed, BagTypeOK, Magnitude
    <2> QED
      BY <2>1, <2>2
  <1>11. /\ high' = IF done /\ why = "giveback" THEN equity ELSE h
         /\ timer' = IF done /\ why = "periodic" THEN 0 ELSE tm
         /\ snapshot' \in Int
    BY <1>1, <1>3 DEF Stamps, Commit
  <1> HIDE DEF st
  <1>12. Older(rested) \in 0..MaxAge /\ 0 \in 0..MaxAge
    BY OlderIs DEF BagTypeOK
  <1>13. Numbers'
    BY <1>01, <1>1, <1>2, <1>3, <1>4, <1>10, <1>11, <1>12 DEF Numbers, Larger, SignOf
  <1>14. Tracked'
    <2>1. high' <= top'
      BY <1>1, <1>3, <1>5, <1>11
    <2>2. timer' = cutAge'
      BY <1>1, <1>9, <1>11 DEF Tracked, tm
    <2> QED
      BY <2>1, <2>2 DEF Tracked
  <1>15. BagTypeOK'
    BY <1>01, <1>1, <1>3, <1>10, <1>11, <1>12 DEF BagTypeOK, Signed, SignOf
  <1>16. GivebackOnce'
    <2>1. 100 - Pct["giveback"] \in Nat
      BY BaggerAssumption DEF Mechanisms, Priority
    <2>2. Larger(top, equity) \in Int
      BY <1>3 DEF Larger, Numbers
    <2>3. h * (100 - Pct["giveback"]) <= Larger(top, equity) * (100 - Pct["giveback"])
      BY <1>3, <1>5, <2>1, <2>2, Falls
    <2> QED
      BY <1>1, <1>3, <1>6, <2>1, <2>2, <2>3 DEF GivebackOnce
  <1>17. DueUntilCut'
    BY <1>1, <1>2, <1>7 DEF DueUntilCut, Tracked
  <1> QED
    BY <1>10, <1>13, <1>14, <1>15, <1>16, <1>17

\* Every bag the bagger can be given is one of the right kind.
LEMMA BagInvInit ==
    ASSUME BagInit
    PROVE  BagInv
  BY BaggerAssumption DEF BagInv, BagInit, Numbers, Signed, Tracked, BagTypeOK, GivebackOnce,
     DueUntilCut, NoDecision, MaxAge, Magnitude

LEMMA BagInvNext ==
    ASSUME BagInv, [BagNext]_bagVars
    PROVE  BagInv'
  <1>1. CASE GridFill
    BY <1>1, GridFillKeeps
  <1>2. CASE Evaluate
    BY <1>2, EvaluateKeeps
  <1>3. CASE Idle
    BY <1>3, IdleKeeps
  <1>4. CASE UNCHANGED bagVars
    BY <1>4 DEF bagVars, BagInv, Numbers, Signed, Tracked, BagTypeOK, GivebackOnce, DueUntilCut, Magnitude
  <1> QED
    BY <1>1, <1>2, <1>3, <1>4 DEF BagNext

\* BaggerState holds sane values: the bag stays within its cap, a flat position
\* has no cost left, and the age counters stay between their bounds.
THEOREM BaggerTyped == BagSpec => []BagTypeOK
  <1>1. BagInit => BagInv
    BY BagInvInit
  <1>2. BagInv /\ [BagNext]_bagVars => BagInv'
    BY BagInvNext
  <1>3. BagInv => BagTypeOK
    BY DEF BagInv
  <1> QED
    BY <1>1, <1>2, <1>3, PTL DEF BagSpec

\* The giveback (evaluate, commit) fires for a fall of its percentage from an
\* equity reached since the last giveback that was executed: never twice for
\* the same fall.
THEOREM OneFallOneGiveback == BagSpec => []GivebackOnce
  <1>1. BagInit => BagInv
    BY BagInvInit
  <1>2. BagInv /\ [BagNext]_bagVars => BagInv'
    BY BagInvNext
  <1>3. BagInv => GivebackOnce
    BY DEF BagInv
  <1> QED
    BY <1>1, <1>2, <1>3, PTL DEF BagSpec

\* A periodic cut that has fallen due is decided at every event until one is
\* executed, whatever made the earlier decisions come to nothing.
THEOREM CutStaysDue == BagSpec => []DueUntilCut
  <1>1. BagInit => BagInv
    BY BagInvInit
  <1>2. BagInv /\ [BagNext]_bagVars => BagInv'
    BY BagInvNext
  <1>3. BagInv => DueUntilCut
    BY DEF BagInv
  <1> QED
    BY <1>1, <1>2, <1>3, PTL DEF BagSpec

-----------------------------------------------------------------------------
(* The gates of the dispatch paths: what is computed step by step.           *)

\* Induction over a set of numbers.
LEMMA Induct ==
    ASSUME NEW T, 0 \in T, \A n \in Nat : n \in T => n + 1 \in T
    PROVE  Nat \subseteq T
  <1> DEFINE Less == {ss \in Nat \X Nat : ss[1] < ss[2]}
             U == Nat \ T
  <1>1. IsWellFoundedOn(Less, Nat)
    BY NatLessThanWellFounded DEF OpToRel
  <1>2. \A x, y \in Nat : <<y, x>> \in Less <=> y < x
    OBVIOUS
  <1>3. U # {} => \E x \in U : \A y \in U : <<y, x>> \notin Less
    <2> HIDE DEF Less
    <2>1. U \subseteq Nat
      OBVIOUS
    <2> HIDE DEF U
    <2> QED
      BY <1>1, <2>1, WFMin
  <1> HIDE DEF Less
  <1>4. ASSUME NEW x \in U, \A y \in U : <<y, x>> \notin Less PROVE FALSE
    <2>1. x \in Nat /\ x # 0
      OBVIOUS
    <2>2. x - 1 \in Nat /\ x - 1 < x /\ (x - 1) + 1 = x
      BY <2>1
    <2>3. x - 1 \in T
      BY <1>2, <1>4, <2>1, <2>2
    <2> QED
      BY <2>2, <2>3
  <1> QED
    BY <1>3, <1>4

\* A function of 0..N that starts at v and goes on by step, within V.
StepsIn(step, N, V) == step \in [(1..N) \X V -> V]
Iterates(f, step, N, v, V) ==
    f \in [0..N -> V] /\ \A i \in 0..N : f[i] = IF i = 0 THEN v ELSE step[<<i, f[i - 1]>>]

\* There is one.
LEMMA Stepwise ==
    ASSUME NEW N \in Nat, NEW V, NEW v \in V, NEW step, StepsIn(step, N, V)
    PROVE  \E f : Iterates(f, step, N, v, V)
  <1> DEFINE Upto(n, f) == /\ f \in [0..n -> V]
                           /\ \A i \in 0..n : f[i] = IF i = 0 THEN v ELSE step[<<i, f[i - 1]>>]
             T == {n \in Nat : n <= N => \E f : Upto(n, f)}
  <1>1. 0 \in T
    <2> DEFINE z == [i \in 0..0 |-> v]
    <2>1. Upto(0, z)
      OBVIOUS
    <2> QED
      BY <2>1
  <1>2. ASSUME NEW n \in Nat, n \in T PROVE n + 1 \in T
    <2> SUFFICES ASSUME n + 1 <= N PROVE \E f : Upto(n + 1, f)
      OBVIOUS
    <2>1. PICK f : Upto(n, f)
      BY <1>2
    <2> DEFINE w == step[<<n + 1, f[n]>>]
               g == [i \in 0..n + 1 |-> IF i = n + 1 THEN w ELSE f[i]]
    <2>2. w \in V
      <3>1. <<n + 1, f[n]>> \in (1..N) \X V
        BY <2>1
      <3> HIDE DEF Upto
      <3> QED
        BY <3>1 DEF StepsIn
    <2>3. g \in [0..n + 1 -> V]
      BY <2>1, <2>2
    <2>4. ASSUME NEW i \in 0..n + 1 PROVE g[i] = IF i = 0 THEN v ELSE step[<<i, g[i - 1]>>]
      <3>1. CASE i = n + 1
        <4>1. g[i] = w /\ i # 0 /\ i - 1 = n /\ g[n] = f[n]
          BY <3>1
        <4> HIDE DEF g
        <4> QED
          BY <3>1, <4>1
      <3>2. CASE i # n + 1
        <4>1. i \in 0..n /\ g[i] = f[i] /\ (i # 0 => i - 1 \in 0..n /\ g[i - 1] = f[i - 1])
          BY <3>2
        <4> HIDE DEF g
        <4> QED
          BY <2>1, <4>1
      <3> QED
        BY <3>1, <3>2
    <2> HIDE DEF g
    <2> QED
      BY <2>3, <2>4
  <1>3. N \in T
    <2>1. Nat \subseteq T
      <3> HIDE DEF T
      <3> QED
        BY <1>1, <1>2, Induct
    <2> QED
      BY <2>1
  <1> QED
    BY <1>3 DEF Iterates

-----------------------------------------------------------------------------
(* The notional of a set of orders.                                          *)

Notional(S) == MapThenSumSet(LAMBDA o : o.px * o.n, S)

\* The orders of one side.
Resting(side) == {o \in orders : o.side = side}

\* Sums the notional of every subset of U.
Weighs(f, U) == f = [s \in SUBSET U |-> IF s = {} THEN 0
                        ELSE LET x == CHOOSE y \in s : TRUE IN x.px * x.n + f[s \ {x}]]

Priced(U) == IsFiniteSet(U) /\ \A o \in U : o.px \in Nat /\ o.n \in Nat

\* Every set of priced orders has such a function.
LEMMA WeighsExists == ASSUME NEW U, Priced(U) PROVE \E f : Weighs(f, U)
  <1> DEFINE D(n) == {s \in SUBSET U : Cardinality(s) <= n}
             One(s) == CHOOSE y \in s : TRUE
             W(x) == x.px * x.n
             Upto(n, f) == f = [s \in D(n) |-> IF s = {} THEN 0 ELSE W(One(s)) + f[s \ {One(s)}]]
             T == {n \in Nat : \E f : Upto(n, f)}
  <1>1. ASSUME NEW s \in SUBSET U, s # {}
        PROVE  /\ One(s) \in s /\ s \ {One(s)} \in SUBSET U
               /\ Cardinality(s) \in Nat /\ Cardinality(s \ {One(s)}) = Cardinality(s) - 1
    <2>1. IsFiniteSet(s)
      BY FS_Subset DEF Priced
    <2>2. One(s) \in s
      BY <1>1
    <2> HIDE DEF One
    <2> QED
      BY <2>1, <2>2, FS_RemoveElement, FS_CardinalityType
  <1>2. Cardinality({}) = 0
    BY FS_EmptySet
  <1>3. 0 \in T
    <2> DEFINE z == [s \in D(0) |-> 0]
    <2>1. ASSUME NEW s \in D(0) PROVE s = {}
      <3>1. s \in SUBSET U /\ Cardinality(s) <= 0
        OBVIOUS
      <3>2. IsFiniteSet(s) /\ Cardinality(s) \in Nat
        BY <3>1, FS_Subset, FS_CardinalityType DEF Priced
      <3> QED
        BY <3>1, <3>2, FS_EmptySet
    <2> HIDE DEF D, One, W
    <2>2. Upto(0, z)
      BY <2>1
    <2> QED
      BY <2>2
  <1>4. ASSUME NEW n \in Nat, n \in T PROVE n + 1 \in T
    <2>1. PICK f : Upto(n, f)
      BY <1>4
    <2> DEFINE F(s) == IF s = {} THEN 0 ELSE W(One(s)) + f[s \ {One(s)}]
               g == [s \in D(n + 1) |-> F(s)]
    <2>2. ASSUME NEW s \in D(n + 1), s # {} PROVE s \ {One(s)} \in D(n) /\ s \ {One(s)} \in D(n + 1)
      <3>1. s \in SUBSET U /\ Cardinality(s) <= n + 1
        OBVIOUS
      <3> HIDE DEF One
      <3> QED
        BY <1>1, <2>2, <3>1
    <2>3. ASSUME NEW s \in D(n) PROVE f[s] = F(s)
      <3> HIDE DEF D, One, W
      <3> QED
        BY <2>1
    <2>4. ASSUME NEW s \in D(n + 1) PROVE g[s] = F(s)
      OBVIOUS
    <2> HIDE DEF D, One, W, g
    <2>5. ASSUME NEW s \in D(n + 1), s # {} PROVE g[s \ {One(s)}] = f[s \ {One(s)}]
      BY <2>2, <2>3, <2>4, <2>5
    <2>6. ASSUME NEW s \in D(n + 1)
          PROVE  g[s] = IF s = {} THEN 0 ELSE W(One(s)) + g[s \ {One(s)}]
      BY <2>4, <2>5
    <2>7. Upto(n + 1, g)
      BY <2>6 DEF g
    <2> HIDE DEF Upto
    <2> QED
      BY <2>7
  <1>5. Cardinality(U) \in T
    <2>1. Cardinality(U) \in Nat
      BY FS_CardinalityType DEF Priced
    <2> HIDE DEF T
    <2> QED
      BY <1>3, <1>4, <2>1, Induct
  <1>6. D(Cardinality(U)) = SUBSET U
    BY FS_Subset DEF Priced
  <1> HIDE DEF D, One, W
  <1>7. PICK f : Upto(Cardinality(U), f)
    BY <1>5
  <1>8. f = [s \in SUBSET U |-> IF s = {} THEN 0 ELSE W(One(s)) + f[s \ {One(s)}]]
    BY <1>6, <1>7
  <1> QED
    BY <1>8 DEF Weighs, W, One

\* Whichever order of a set is taken out first, the rest weighs what is left.
LEMMA AnyFirst ==
    ASSUME NEW U, Priced(U), NEW f, Weighs(f, U)
    PROVE  /\ f[{}] = 0
           /\ \A s \in SUBSET U : f[s] \in Nat
           /\ \A s \in SUBSET U : \A x \in s : f[s] = x.px * x.n + f[s \ {x}]
  <1> DEFINE One(s) == CHOOSE y \in s : TRUE
             W(x) == x.px * x.n
             T == {n \in Nat : \A s \in SUBSET U : Cardinality(s) <= n =>
                                 f[s] \in Nat /\ \A x \in s : f[s] = W(x) + f[s \ {x}]}
  <1>1. \A s \in SUBSET U : f[s] = IF s = {} THEN 0 ELSE W(One(s)) + f[s \ {One(s)}]
    BY DEF Weighs
  <1>2. f[{}] = 0
    BY <1>1
  <1>3. \A x \in U : W(x) \in Nat
    BY DEF Priced
  <1>4. \A s \in SUBSET U : IsFiniteSet(s) /\ Cardinality(s) \in Nat
    BY FS_Subset, FS_CardinalityType DEF Priced
  <1>5. \A s \in SUBSET U : s # {} => One(s) \in s
    OBVIOUS
  <1> HIDE DEF One, W
  <1>6. 0 \in T
    <2>1. ASSUME NEW s \in SUBSET U, Cardinality(s) <= 0 PROVE s = {}
      BY <1>4, <2>1, FS_EmptySet
    <2> QED
      BY <1>2, <2>1
  <1>7. ASSUME NEW n \in Nat, n \in T PROVE n + 1 \in T
    <2> SUFFICES ASSUME NEW s \in SUBSET U, Cardinality(s) <= n + 1
                 PROVE  f[s] \in Nat /\ \A x \in s : f[s] = W(x) + f[s \ {x}]
      OBVIOUS
    <2>1. ASSUME NEW t \in SUBSET U, Cardinality(t) <= n
          PROVE  f[t] \in Nat /\ \A x \in t : f[t] = W(x) + f[t \ {x}]
      BY <1>7, <2>1
    <2>2. ASSUME NEW x \in s PROVE s \ {x} \in SUBSET U /\ Cardinality(s \ {x}) <= n
      <3>1. Cardinality(s \ {x}) = Cardinality(s) - 1
        BY <1>4, FS_RemoveElement
      <3> QED
        BY <1>4, <3>1
    <2> HIDE DEF T
    <2>3. CASE s = {}
      BY <1>2, <2>3
    <2>4. CASE s # {}
      <3> DEFINE c == One(s)
      <3>1. c \in s /\ f[s] = W(c) + f[s \ {c}]
        BY <1>1, <1>5, <2>4
      <3> HIDE DEF c
      <3>2. f[s \ {c}] \in Nat /\ W(c) \in Nat
        BY <1>3, <2>1, <2>2, <3>1
      <3>3. ASSUME NEW x \in s PROVE f[s] = W(x) + f[s \ {x}]
        <4>1. CASE x = c
          BY <3>1, <4>1
        <4>2. CASE x # c
          <5>1. x \in s \ {c} /\ c \in s \ {x} /\ (s \ {c}) \ {x} = (s \ {x}) \ {c}
            BY <3>1, <4>2
          <5>2. f[s \ {c}] = W(x) + f[(s \ {c}) \ {x}] /\ f[s \ {x}] = W(c) + f[(s \ {x}) \ {c}]
            BY <2>1, <2>2, <3>1, <5>1
          <5>3. W(x) \in Nat /\ f[(s \ {x}) \ {c}] \in Nat
            <6>1. (s \ {x}) \ {c} \in SUBSET U /\ Cardinality((s \ {x}) \ {c}) <= n
              <7>1. s \ {x} \in SUBSET U /\ Cardinality(s \ {x}) <= n
                BY <2>2
              <7>2. Cardinality((s \ {x}) \ {c}) = Cardinality(s \ {x}) - 1
                BY <1>4, <5>1, <7>1, FS_RemoveElement
              <7> QED
                BY <1>4, <7>1, <7>2
            <6> QED
              BY <1>3, <2>1, <6>1
          <5>4. f[(s \ {c}) \ {x}] = f[(s \ {x}) \ {c}]
            BY <5>1
          <5> DEFINE r == f[(s \ {x}) \ {c}]
          <5>5. f[s] = W(c) + (W(x) + r) /\ f[s \ {x}] = W(c) + r /\ r \in Nat
            BY <3>1, <5>2, <5>3, <5>4
          <5> HIDE DEF r
          <5> QED
            BY <3>2, <5>3, <5>5
        <4> QED
          BY <4>1, <4>2
      <3> QED
        BY <3>1, <3>2, <3>3
    <2> QED
      BY <2>3, <2>4
  <1>8. ASSUME NEW s \in SUBSET U PROVE f[s] \in Nat /\ \A x \in s : f[s] = W(x) + f[s \ {x}]
    <2>1. Nat \subseteq T
      <3> HIDE DEF T
      <3> QED
        BY <1>6, <1>7, Induct
    <2>2. Cardinality(s) \in T /\ Cardinality(s) <= Cardinality(s)
      BY <1>4, <2>1
    <2> QED
      BY <2>2
  <1> QED
    BY <1>2, <1>8 DEF W

\* The sum of a set, by a function that weighs a larger one.
LEMMA WeighsPart ==
    ASSUME NEW U, Priced(U), NEW V \in SUBSET U, NEW f, Weighs(f, U), NEW g, Weighs(g, V)
    PROVE  f[V] = g[V]
  <1> DEFINE T == {n \in Nat : \A s \in SUBSET V : Cardinality(s) <= n => f[s] = g[s]}
             One(s) == CHOOSE y \in s : TRUE
             W(x) == x.px * x.n
  <1>1. /\ \A s \in SUBSET V : f[s] = IF s = {} THEN 0 ELSE W(One(s)) + f[s \ {One(s)}]
        /\ \A s \in SUBSET V : g[s] = IF s = {} THEN 0 ELSE W(One(s)) + g[s \ {One(s)}]
    BY DEF Weighs
  <1>2. \A s \in SUBSET V : IsFiniteSet(s) /\ Cardinality(s) \in Nat
    BY FS_Subset, FS_CardinalityType DEF Priced
  <1>3. \A s \in SUBSET V : s # {} => One(s) \in s
    OBVIOUS
  <1> HIDE DEF One, W
  <1>4. 0 \in T
    <2>1. ASSUME NEW s \in SUBSET V, Cardinality(s) <= 0 PROVE s = {}
      BY <1>2, <2>1, FS_EmptySet
    <2> QED
      BY <1>1, <2>1
  <1>5. ASSUME NEW n \in Nat, n \in T PROVE n + 1 \in T
    <2> SUFFICES ASSUME NEW s \in SUBSET V, Cardinality(s) <= n + 1 PROVE f[s] = g[s]
      OBVIOUS
    <2>1. CASE s = {}
      BY <1>1, <2>1
    <2>2. CASE s # {}
      <3>1. One(s) \in s /\ s \ {One(s)} \in SUBSET V
        BY <1>3, <2>2
      <3>2. Cardinality(s \ {One(s)}) = Cardinality(s) - 1
        BY <1>2, <3>1, FS_RemoveElement
      <3>3. f[s \ {One(s)}] = g[s \ {One(s)}]
        BY <1>2, <1>5, <3>1, <3>2
      <3> QED
        BY <1>1, <2>2, <3>3
    <2> QED
      BY <2>1, <2>2
  <1>6. Cardinality(V) \in T /\ Cardinality(V) <= Cardinality(V)
    <2>1. Nat \subseteq T
      <3> HIDE DEF T
      <3> QED
        BY <1>4, <1>5, Induct
    <2> QED
      BY <1>2, <2>1
  <1> QED
    BY <1>6

\* The notional of a set, by a function that weighs it.
LEMMA NotionalIs == ASSUME NEW U, Priced(U) PROVE \E f : Weighs(f, U) /\ Notional(U) = f[U]
  <1> DEFINE F(g, s) == IF s = {} THEN 0
                        ELSE LET x == CHOOSE y \in s : TRUE IN x.px * x.n + g[s \ {x}]
             Iter(g) == g = [s \in SUBSET U |-> F(g, s)]
             f == CHOOSE g : Iter(g)
  <1>1. Notional(U) = f[U]
    BY SMT DEF Notional, MapThenSumSet, MapThenFoldSet
  <1>2. \E g : Iter(g)
    BY WeighsExists DEF Weighs
  <1>3. Weighs(f, U)
    BY <1>2 DEF Weighs
  <1> QED
    BY <1>1, <1>3

\* The notional of a set is that of any of its orders and of the others.
LEMMA NotionalLess ==
    ASSUME NEW U, Priced(U)
    PROVE  /\ Notional(U) \in Nat
           /\ U = {} => Notional(U) = 0
           /\ \A x \in U : Priced(U \ {x}) /\ Notional(U) = x.px * x.n + Notional(U \ {x})
  <1>1. PICK f : Weighs(f, U) /\ Notional(U) = f[U]
    BY NotionalIs
  <1>2. Notional(U) \in Nat /\ (U = {} => Notional(U) = 0)
    <2>1. U \in SUBSET U /\ f[U] \in Nat /\ f[{}] = 0
      BY <1>1, AnyFirst
    <2> QED
      BY <1>1, <2>1
  <1>3. ASSUME NEW x \in U PROVE Priced(U \ {x}) /\ Notional(U) = x.px * x.n + Notional(U \ {x})
    <2>1. Priced(U \ {x})
      BY FS_RemoveElement DEF Priced
    <2>2. PICK g : Weighs(g, U \ {x}) /\ Notional(U \ {x}) = g[U \ {x}]
      BY <2>1, NotionalIs
    <2>3. f[U \ {x}] = g[U \ {x}]
      BY <1>1, <2>2, WeighsPart
    <2>4. f[U] = x.px * x.n + f[U \ {x}]
      BY <1>1, AnyFirst
    <2> QED
      BY <1>1, <2>1, <2>2, <2>3, <2>4
  <1> QED
    BY <1>2, <1>3

\* A new order adds its notional.
LEMMA NotionalMore ==
    ASSUME NEW U, Priced(U), NEW x, x \notin U, x.px \in Nat, x.n \in Nat
    PROVE  Priced(U \cup {x}) /\ Notional(U \cup {x}) = x.px * x.n + Notional(U)
  <1>1. Priced(U \cup {x})
    BY FS_AddElement DEF Priced
  <1>2. (U \cup {x}) \ {x} = U /\ x \in U \cup {x}
    OBVIOUS
  <1> QED
    BY <1>1, <1>2, NotionalLess

-----------------------------------------------------------------------------
(* The notional that the quotes of a batch may add to the bids.              *)

Act == {a \in [kind : {"quote", "cancel", "requote", "cancelAll"},
               id : Nat, side : Sides, px : Nat, n : Nat] :
           a.kind \in {"quote", "requote"} => a.px \in GatePrices /\ a.n \in 1..MaxQty}

Asks(f, s) == f = [i \in 0..Len(s) |-> IF i = 0 THEN 0 ELSE f[i - 1] + Ask(s[i])]

\* The sums of what its first actions ask.
Partial(f, s) == \A i \in 0..Len(s) : /\ f[i] = IF i = 0 THEN 0 ELSE f[i - 1] + Ask(s[i])
                                      /\ f[i] \in Nat

\* t follows the first k of s.
Follows(t, k, s) == k + Len(t) <= Len(s) /\ \A i \in 1..Len(t) : t[i] = s[k + i]

\* What an action asks is a notional.
LEMMA AskNumber == \A a \in Act : Ask(a) \in Nat /\ a.px * a.n \in Nat
  BY DEF Act, Ask

\* What a sequence asks is the last of its partial sums.
LEMMA AskedIs ==
    ASSUME NEW s \in Seq(Act)
    PROVE  \E f : Asked(s) = f[Len(s)] /\ Partial(f, s)
  <1> DEFINE N == Len(s)
             V == Nat
             v == 0
             step == [p \in (1..N) \X V |-> p[2] + Ask(s[p[1]])]
  <1>1. N \in Nat /\ \A i \in 1..N : s[i] \in Act
    OBVIOUS
  <1>2. StepsIn(step, N, V) /\ v \in V
    BY <1>1, AskNumber DEF StepsIn
  <1>3. PICK f : Iterates(f, step, N, v, V)
    <2> HIDE DEF step, N, V, v
    <2> QED
      BY <1>1, <1>2, Stepwise
  <1>4. ASSUME NEW i \in 0..N PROVE f[i] = IF i = 0 THEN 0 ELSE f[i - 1] + Ask(s[i])
    <2>1. CASE i = 0
      BY <1>3, <2>1 DEF Iterates
    <2>2. CASE i # 0
      <3>1. i \in 1..N /\ i - 1 \in 0..N /\ f[i - 1] \in V
        BY <1>1, <1>3, <2>2 DEF Iterates
      <3>2. step[<<i, f[i - 1]>>] = f[i - 1] + Ask(s[i])
        BY <3>1
      <3> HIDE DEF step, N
      <3> QED
        BY <1>3, <2>2, <3>2 DEF Iterates
    <2> QED
      BY <2>1, <2>2
  <1>5. Asks(f, s)
    BY <1>3, <1>4 DEF Asks, Iterates
  <1> DEFINE h == CHOOSE g : Asks(g, s)
  <1>6. Asks(h, s) /\ Asked(s) = h[N]
    <2>1. Asks(h, s)
      BY <1>5
    <2>2. Asked(s) = h[N]
      BY DEF Asked, Asks
    <2> QED
      BY <2>1, <2>2
  <1> HIDE DEF h, step
  <1>7. \A i \in 0..N : h[i] = IF i = 0 THEN 0 ELSE h[i - 1] + Ask(s[i])
    BY <1>6 DEF Asks
  <1>8. \A i \in 0..N : h[i] \in Nat
    <2> DEFINE T == {i \in Nat : i <= N => h[i] \in Nat}
    <2>1. 0 \in T
      BY <1>1, <1>7
    <2>2. ASSUME NEW i \in Nat, i \in T PROVE i + 1 \in T
      <3> SUFFICES ASSUME i + 1 <= N PROVE h[i + 1] \in Nat
        OBVIOUS
      <3>1. i + 1 \in 0..N /\ i + 1 # 0 /\ (i + 1) - 1 = i /\ i + 1 \in 1..N /\ h[i] \in Nat
        BY <1>1, <2>2
      <3>2. h[i + 1] = h[i] + Ask(s[i + 1])
        BY <1>7, <3>1
      <3> QED
        BY <1>1, <3>1, <3>2, AskNumber
    <2>3. Nat \subseteq T
      <3> HIDE DEF T
      <3> QED
        BY <2>1, <2>2, Induct
    <2> QED
      BY <1>1, <2>3
  <1> QED
    BY <1>6, <1>7, <1>8 DEF Partial

\* An empty batch asks nothing.
LEMMA AskedNone == Asked(<<>>) = 0
  <1> DEFINE s == <<>>
  <1>1. s \in Seq(Act) /\ Len(s) = 0
    OBVIOUS
  <1> HIDE DEF s
  <1>2. PICK f : Asked(s) = f[Len(s)] /\ Partial(f, s)
    BY <1>1, AskedIs
  <1>3. Asked(s) = 0
    BY <1>1, <1>2 DEF Partial
  <1> QED
    BY <1>3 DEF s

\* What a sequence asks is a notional.
LEMMA AskedNumber == ASSUME NEW s \in Seq(Act) PROVE Asked(s) \in Nat
  <1>1. Len(s) \in 0..Len(s)
    OBVIOUS
  <1> QED
    BY <1>1, AskedIs DEF Partial

\* What a part of a sequence asks, by the sums of the whole.
LEMMA AskedPart ==
    ASSUME NEW s \in Seq(Act), NEW t \in Seq(Act), NEW k \in Nat, Follows(t, k, s),
           NEW f, Partial(f, s), NEW m, m = k + Len(t)
    PROVE  f[m] = f[k] + Asked(t) /\ f[k] \in Nat
  <1> DEFINE M == Len(t)
             N == Len(s)
  <1>1. PICK g : /\ Asked(t) = g[M]
                 /\ \A i \in 0..M : /\ g[i] = IF i = 0 THEN 0 ELSE g[i - 1] + Ask(t[i])
                                    /\ g[i] \in Nat
    BY AskedIs DEF Partial
  <1>2. M \in Nat /\ N \in Nat /\ k + M <= N /\ m = k + M
    BY DEF Follows
  <1>0. /\ \A i \in 0..N : /\ f[i] = IF i = 0 THEN 0 ELSE f[i - 1] + Ask(s[i])
                           /\ f[i] \in Nat
        /\ \A i \in 1..M : t[i] = s[k + i] /\ t[i] \in Act
    BY DEF Partial, Follows
  <1> HIDE DEF M, N
  <1> DEFINE T == {i \in Nat : i <= M => f[k + i] = f[k] + g[i]}
  <1>3. 0 \in T
    <2>1. 0 \in 0..M /\ k \in 0..N /\ k + 0 = k
      BY <1>2
    <2>2. g[0] = 0 /\ f[k] \in Nat
      BY <1>0, <1>1, <2>1
    <2> QED
      BY <2>1, <2>2
  <1>4. ASSUME NEW i \in Nat, i \in T PROVE i + 1 \in T
    <2> SUFFICES ASSUME i + 1 <= M PROVE f[k + (i + 1)] = f[k] + g[i + 1]
      OBVIOUS
    <2>1. /\ i + 1 \in 0..M /\ i + 1 \in 1..M /\ i + 1 # 0 /\ (i + 1) - 1 = i /\ i \in 0..M
          /\ k + (i + 1) \in 0..N /\ k + (i + 1) # 0 /\ (k + (i + 1)) - 1 = k + i /\ k \in 0..N
      BY <1>2
    <2>2. g[i + 1] = g[i] + Ask(t[i + 1]) /\ f[k + i] = f[k] + g[i]
      BY <1>1, <1>4, <2>1
    <2>3. f[k + (i + 1)] = f[k + i] + Ask(s[k + (i + 1)])
      BY <1>0, <2>1
    <2>4. t[i + 1] = s[k + (i + 1)]
      BY <1>0, <2>1
    <2>5. t[i + 1] \in Act
      BY <1>0, <2>1
    <2>6. g[i] \in Nat /\ f[k] \in Nat /\ Ask(t[i + 1]) \in Nat
      BY <1>0, <1>1, <2>1, <2>5, AskNumber
    <2> QED
      BY <2>2, <2>3, <2>4, <2>6
  <1>5. M \in T
    <2>1. Nat \subseteq T
      <3> HIDE DEF T
      <3> QED
        BY <1>3, <1>4, Induct
    <2> QED
      BY <1>2, <2>1
  <1>6. k \in 0..N
    BY <1>2
  <1> QED
    BY <1>0, <1>1, <1>2, <1>5, <1>6 DEF M

\* A sequence asks what its two parts ask.
LEMMA AskedSplit ==
    ASSUME NEW s \in Seq(Act), NEW k \in 0..Len(s)
    PROVE  Asked(s) = Asked(SubSeq(s, 1, k)) + Asked(SubSeq(s, k + 1, Len(s)))
  <1> DEFINE p == SubSeq(s, 1, k)
             q == SubSeq(s, k + 1, Len(s))
  <1>1. /\ p \in Seq(Act) /\ Len(p) = k /\ \A i \in 1..Len(p) : p[i] = s[0 + i]
        /\ q \in Seq(Act) /\ Len(q) = Len(s) - k /\ \A i \in 1..Len(q) : q[i] = s[k + i]
    OBVIOUS
  <1>2. PICK f : Asked(s) = f[Len(s)] /\ Partial(f, s)
    BY AskedIs
  <1> HIDE DEF p, q
  <1>3. f[k] = f[0] + Asked(p)
    <2> DEFINE z == 0
    <2>1. z \in Nat /\ k = z + Len(p) /\ Follows(p, z, s)
      BY <1>1 DEF Follows
    <2> HIDE DEF z
    <2>2. f[k] = f[z] + Asked(p)
      BY <1>1, <1>2, <2>1, AskedPart
    <2> QED
      BY <2>2 DEF z
  <1>4. f[Len(s)] = f[k] + Asked(q) /\ f[k] \in Nat
    <2> DEFINE m == Len(s)
    <2>1. q \in Seq(Act) /\ k \in Nat /\ m = k + Len(q) /\ Follows(q, k, s)
      BY <1>1 DEF Follows
    <2> HIDE DEF m
    <2>2. f[m] = f[k] + Asked(q) /\ f[k] \in Nat
      BY <1>2, <2>1, AskedPart
    <2> QED
      BY <2>2 DEF m
  <1>5. f[0] = 0
    BY <1>1, <1>2 DEF Partial
  <1>6. Asked(p) \in Nat /\ Asked(q) \in Nat
    BY <1>1, AskedNumber
  <1> QED
    BY <1>2, <1>3, <1>4, <1>5, <1>6 DEF p, q

\* An action more asks its own.
LEMMA AskedMore ==
    ASSUME NEW s \in Seq(Act), NEW a \in Act
    PROVE  Append(s, a) \in Seq(Act) /\ Asked(Append(s, a)) = Asked(s) + Ask(a)
  <1> DEFINE t == Append(s, a)
             n == Len(s)
  <1>1. /\ t \in Seq(Act) /\ n \in Nat /\ Len(t) = n + 1 /\ t[n + 1] = a
        /\ \A i \in 1..n : s[i] = t[0 + i]
    OBVIOUS
  <1> HIDE DEF t
  <1>2. PICK f : Asked(t) = f[n + 1] /\ Partial(f, t)
    BY <1>1, AskedIs
  <1>3. f[n] = f[0] + Asked(s)
    <2> DEFINE z == 0
    <2>1. z \in Nat /\ n = z + Len(s) /\ Follows(s, z, t)
      BY <1>1 DEF Follows
    <2> HIDE DEF z, n
    <2>2. f[n] = f[z] + Asked(s)
      BY <1>1, <1>2, <2>1, AskedPart
    <2> QED
      BY <2>2 DEF z
  <1>4. f[0] = 0 /\ f[n + 1] = f[n] + Ask(a)
    <2>1. n + 1 \in 0..Len(t) /\ n + 1 # 0 /\ (n + 1) - 1 = n /\ 0 \in 0..Len(t)
      BY <1>1
    <2> QED
      BY <1>1, <1>2, <2>1 DEF Partial
  <1>5. Asked(s) \in Nat
    BY AskedNumber
  <1> QED
    BY <1>1, <1>2, <1>3, <1>4, <1>5 DEF t

\* The first answer of a run takes what its call asked.
LEMMA AskedRest ==
    ASSUME NEW s \in Seq(Act), s # <<>>
    PROVE  /\ Head(s) \in Act /\ Tail(s) \in Seq(Act)
           /\ Asked(s) = Ask(Head(s)) + Asked(Tail(s))
  <1> DEFINE p == SubSeq(s, 1, 1)
             t == Tail(s)
  <1>1. /\ p \in Seq(Act) /\ Len(p) = 1 /\ p[1] = Head(s) /\ Head(s) \in Act
        /\ t \in Seq(Act) /\ SubSeq(s, 1 + 1, Len(s)) = t /\ 1 \in 0..Len(s)
    OBVIOUS
  <1>2. Asked(s) = Asked(p) + Asked(t)
    BY <1>1, AskedSplit
  <1> HIDE DEF p, t
  <1>3. Asked(p) = 0 + Ask(p[1])
    <2>1. PICK f : Asked(p) = f[Len(p)] /\ Partial(f, p)
      BY <1>1, AskedIs
    <2>2. 1 \in 0..1 /\ 0 \in 0..1 /\ 1 # 0 /\ 1 - 1 = 0
      OBVIOUS
    <2>3. f[0] = 0 /\ f[1] = f[0] + Ask(p[1])
      BY <1>1, <2>1, <2>2 DEF Partial
    <2> QED
      BY <1>1, <2>1, <2>3
  <1>4. Ask(Head(s)) \in Nat /\ Asked(t) \in Nat
    BY <1>1, AskNumber, AskedNumber
  <1> QED
    BY <1>1, <1>2, <1>3, <1>4 DEF t

-----------------------------------------------------------------------------
(* What the cap and the gate of the failures let through.                    *)

Calls(g, run, f) ==
    g = [i \in 0..Len(run) |->
            IF i = 0 THEN <<>>
            ELSE IF run[i].kind = "quote" /\ f[run[i].side] >= MaxFails THEN g[i - 1]
            ELSE Append(g[i - 1], run[i])]

\* The calls made are actions of the run, and ask no more than it.
LEMMA OpenAsks ==
    ASSUME NEW run \in Seq(Act), NEW f
    PROVE  Open(run, f) \in Seq(Act) /\ Asked(Open(run, f)) <= Asked(run)
  <1> DEFINE N == Len(run)
             V == Seq(Act)
             v == <<>>
             Skips(a) == a.kind = "quote" /\ f[a.side] >= MaxFails
             step == [p \in (1..N) \X V |->
                        IF Skips(run[p[1]]) THEN p[2] ELSE Append(p[2], run[p[1]])]
             h == CHOOSE g : Calls(g, run, f)
  <1>1. N \in Nat /\ v \in V /\ \A i \in 1..N : run[i] \in Act
    OBVIOUS
  <1>2. StepsIn(step, N, V)
    <2>1. ASSUME NEW p \in (1..N) \X V
          PROVE  (IF Skips(run[p[1]]) THEN p[2] ELSE Append(p[2], run[p[1]])) \in V
      <3>1. run[p[1]] \in Act /\ p[2] \in Seq(Act)
        BY <1>1
      <3>2. Append(p[2], run[p[1]]) \in V
        BY <3>1
      <3> HIDE DEF Skips
      <3> QED
        BY <3>1, <3>2
    <2> HIDE DEF Skips, V
    <2> QED
      BY <2>1 DEF StepsIn
  <1>3. PICK c : Iterates(c, step, N, v, V)
    <2> HIDE DEF step, N, V, v
    <2> QED
      BY <1>1, <1>2, Stepwise
  <1>4. ASSUME NEW i \in 0..N
        PROVE  c[i] = IF i = 0 THEN v ELSE IF Skips(run[i]) THEN c[i - 1] ELSE Append(c[i - 1], run[i])
    <2>1. CASE i = 0
      BY <1>3, <2>1 DEF Iterates
    <2>2. CASE i # 0
      <3>1. i \in 1..N /\ i - 1 \in 0..N /\ c[i - 1] \in V
        BY <1>1, <1>3, <2>2 DEF Iterates
      <3>2. step[<<i, c[i - 1]>>] = IF Skips(run[i]) THEN c[i - 1] ELSE Append(c[i - 1], run[i])
        <4> HIDE DEF Skips, V
        <4> QED
          BY <3>1
      <3> HIDE DEF step, N, Skips, v
      <3> QED
        BY <1>3, <2>2, <3>2 DEF Iterates
    <2> QED
      BY <2>1, <2>2
  <1>5. Calls(c, run, f)
    <2> HIDE DEF v, step
    <2>1. DOMAIN c = 0..N /\ c = [i \in 0..N |-> c[i]]
      BY <1>3 DEF Iterates
    <2> QED
      BY <1>4, <2>1 DEF Calls, v
  <1>6. Calls(h, run, f)
    BY <1>5
  <1>7. Open(run, f) = h[N]
    BY DEF Open, Calls
  <1> HIDE DEF h, step, v
  <1>8. \A i \in 0..N : h[i] = IF i = 0 THEN v ELSE IF Skips(run[i]) THEN h[i - 1] ELSE Append(h[i - 1], run[i])
    BY <1>6 DEF Calls, v
  <1>9. PICK sum : Asked(run) = sum[N] /\ Partial(sum, run)
    BY AskedIs
  <1> DEFINE T == {i \in Nat : i <= N => h[i] \in Seq(Act) /\ Asked(h[i]) <= sum[i]}
  <1>10. 0 \in T
    <2>1. h[0] = v /\ sum[0] = 0 /\ h[0] \in Seq(Act)
      BY <1>1, <1>8, <1>9 DEF Partial
    <2>2. Asked(h[0]) = 0
      BY <2>1, AskedNone DEF v
    <2> QED
      BY <2>1, <2>2
  <1>11. ASSUME NEW i \in Nat, i \in T PROVE i + 1 \in T
    <2> SUFFICES ASSUME i + 1 <= N PROVE h[i + 1] \in Seq(Act) /\ Asked(h[i + 1]) <= sum[i + 1]
      OBVIOUS
    <2>1. i + 1 \in 0..N /\ i + 1 # 0 /\ (i + 1) - 1 = i /\ i + 1 \in 1..N /\ i \in 0..N
      BY <1>1
    <2>2. h[i] \in Seq(Act) /\ Asked(h[i]) <= sum[i]
      BY <1>1, <1>11
    <2> DEFINE a == run[i + 1]
    <2>3. a \in Act /\ Ask(a) \in Nat
      BY <1>1, <2>1, AskNumber
    <2>4. sum[i + 1] = sum[i] + Ask(a) /\ sum[i] \in Nat
      BY <1>9, <2>1 DEF Partial
    <2>5. Asked(h[i]) \in Nat
      BY <2>2, AskedNumber
    <2>6. CASE Skips(a)
      <3>1. h[i + 1] = h[i]
        BY <1>8, <2>1, <2>6
      <3> HIDE DEF a
      <3> QED
        BY <2>2, <2>3, <2>4, <2>5, <3>1
    <2>7. CASE ~Skips(a)
      <3>1. h[i + 1] = Append(h[i], a)
        <4> HIDE DEF Skips
        <4> QED
          BY <1>8, <2>1, <2>7
      <3> HIDE DEF a
      <3>2. Append(h[i], a) \in Seq(Act) /\ Asked(Append(h[i], a)) = Asked(h[i]) + Ask(a)
        BY <2>2, <2>3, AskedMore
      <3> QED
        BY <2>2, <2>3, <2>4, <2>5, <3>1, <3>2
    <2> QED
      BY <2>6, <2>7
  <1>12. N \in T
    <2>1. Nat \subseteq T
      <3> HIDE DEF T
      <3> QED
        BY <1>10, <1>11, Induct
    <2> QED
      BY <1>1, <2>1
  <1>13. N <= N
    BY <1>1
  <1> QED
    BY <1>7, <1>9, <1>12, <1>13

\* A batch begins with a run of its first kind.
LEMMA RunIs ==
    ASSUME batch \in Seq(Act), batch # <<>>
    PROVE  \E n \in 1..Len(batch) : Run = SubSeq(batch, 1, n)
  <1> DEFINE N == Len(batch)
             Same(n) == \A i \in 1..n : batch[i].kind = batch[1].kind
             Ends(n) == /\ \A i \in 1..n : batch[i].kind = batch[1].kind
                        /\ n = N \/ batch[n + 1].kind # batch[1].kind \/ batch[1].kind = "cancelAll"
                        /\ batch[1].kind = "cancelAll" => n = 1
             m == CHOOSE n \in 1..N : Ends(n)
             T == {n \in Nat : n + 1 <= N => Same(n + 1) \/ \E k \in 1..N : Ends(k)}
  <1>1. N \in Nat /\ 1 \in 1..N
    OBVIOUS
  <1>2. Same(1)
    OBVIOUS
  <1>3. \E k \in 1..N : Ends(k)
    <2>1. CASE batch[1].kind = "cancelAll"
      BY <1>1, <1>2, <2>1
    <2>2. CASE batch[1].kind # "cancelAll"
      <3>1. 0 \in T
        BY <1>2
      <3>2. ASSUME NEW n \in Nat, n \in T PROVE n + 1 \in T
        <4> SUFFICES ASSUME (n + 1) + 1 <= N, ~ \E k \in 1..N : Ends(k)
                     PROVE  Same((n + 1) + 1)
          OBVIOUS
        <4>1. Same(n + 1) /\ n + 1 \in 1..N /\ n + 1 # N
          BY <1>1, <3>2
        <4>2. batch[(n + 1) + 1].kind = batch[1].kind
          BY <2>2, <4>1
        <4>3. \A i \in 1..(n + 1) + 1 : i \in 1..n + 1 \/ i = (n + 1) + 1
          OBVIOUS
        <4> QED
          BY <4>1, <4>2, <4>3
      <3>3. N - 1 \in T /\ (N - 1) + 1 = N
        <4>1. Nat \subseteq T
          <5> HIDE DEF T
          <5> QED
            BY <3>1, <3>2, Induct
        <4>2. N - 1 \in Nat /\ (N - 1) + 1 = N
          BY <1>1
        <4> QED
          BY <4>1, <4>2
      <3>4. Same(N) => Ends(N)
        BY <2>2
      <3>5. N - 1 \in Nat /\ N <= N /\ N \in 1..N
        BY <1>1
      <3> HIDE DEF Same, Ends
      <3> QED
        BY <3>3, <3>4, <3>5
    <2> QED
      BY <2>1, <2>2
  <1>4. m \in 1..N
    <2> HIDE DEF Ends
    <2> QED
      BY <1>3
  <1>5. Run = SubSeq(batch, 1, m)
    BY DEF Run
  <1> QED
    BY <1>4, <1>5

\* The types of the mirror, the batches and the tracker.
GateTypes ==
    /\ GatesTypeOK /\ IsFiniteSet(orders)
    /\ \A o \in orders : o.id <= sent
    /\ \A o, q \in orders : o.id = q.id => o = q
    /\ pos \in Int /\ cost \in Int /\ widest \in Nat /\ gained \in Nat
    /\ batch \in Seq(Act) /\ flight \in Seq(Act)
    /\ path = "idle" => batch = <<>> /\ flight = <<>>

\* The prices and sizes of orders are numbers.
LEMMA OrderIs ==
    \A o \in GateOrder : /\ o.id \in Nat /\ o.side \in Sides /\ o.px \in GatePrices /\ o.px \in Nat
                         /\ o.n \in 1..MaxQty /\ o.n \in Nat /\ o.px * o.n \in Nat
  <1>1. ASSUME NEW p \in GatePrices, NEW n \in 1..MaxQty PROVE p \in Nat /\ n \in Nat /\ p * n \in Nat
    <2>1. p \in Nat /\ n \in Nat
      BY GatesAssumption DEF GatesAssumption
    <2> QED
      BY <2>1
  <1>2. \A k \in 1..MaxOrders : k \in Nat
    BY GatesAssumption DEF GatesAssumption
  <1> QED
    BY <1>1, <1>2 DEF GateOrder

\* What rests on a side has a notional.
LEMMA SideNotional ==
    ASSUME GateTypes, NEW side
    PROVE  Priced(Resting(side)) /\ Committed(side) = Notional(Resting(side)) /\ Committed(side) \in Nat
  <1>1. Resting(side) \in SUBSET orders
    BY DEF Resting
  <1>2. IsFiniteSet(Resting(side))
    BY <1>1, FS_Subset DEF GateTypes
  <1>3. \A o \in orders : o.px \in Nat /\ o.n \in Nat
    BY OrderIs DEF GateTypes, GatesTypeOK
  <1>4. Priced(Resting(side))
    BY <1>1, <1>2, <1>3 DEF Priced
  <1>5. Committed(side) = Notional(Resting(side))
    BY DEF Committed, Notional, Resting
  <1> QED
    BY <1>4, <1>5, NotionalLess

\* One step of apply_bot_inventory_cap.
CapStep(r, a, k) ==
    IF a.kind # "quote"
    THEN [out |-> Append(r.out, a), used |-> r.used]
    ELSE IF Sign(a.side) * cost + r.used[a.side] + a.px * a.n > k THEN r
    ELSE [out |-> Append(r.out, a), used |-> [r.used EXCEPT ![a.side] = @ + a.px * a.n]]

Caps(g, b, k) == g = [i \in 0..Len(b) |->
                    IF i = 0 THEN [out |-> <<>>, used |-> [s \in Sides |-> Committed(s)]]
                    ELSE CapStep(g[i - 1], b[i], k)]

\* What has been let through so far and the notional it uses.
Passed == [out : Seq(Act), used : [Sides -> Nat]]

\* The bids let through fit, when there are any.
Fits(r, k) == /\ r.used["bid"] = Committed("bid") + Asked(r.out)
              /\ Asked(r.out) = 0 \/ cost + r.used["bid"] <= k

\* It keeps the types, and what is let through fits.
LEMMA CapStepKeeps ==
    ASSUME GateTypes, NEW cap \in Nat, NEW r \in Passed, NEW a \in Act
    PROVE  CapStep(r, a, cap) \in Passed /\ (Fits(r, cap) => Fits(CapStep(r, a, cap), cap))
  <1>1. /\ r.out \in Seq(Act) /\ r.used \in [Sides -> Nat] /\ Asked(r.out) \in Nat
        /\ a.side \in Sides /\ a.px * a.n \in Nat /\ Ask(a) \in Nat /\ cost \in Int /\ cap \in Nat
        /\ Committed("bid") \in Nat
    BY AskNumber, AskedNumber, SideNotional
    DEF Passed, GateTypes, Act
  <1> DEFINE w == a.px * a.n
             o == Append(r.out, a)
             u == [r.used EXCEPT ![a.side] = @ + w]
  <1>2. o \in Seq(Act) /\ Asked(o) = Asked(r.out) + Ask(a)
    BY <1>1, AskedMore
  <1>3. u \in [Sides -> Nat] /\ u["bid"] = r.used["bid"] + (IF a.side = "bid" THEN w ELSE 0)
    BY <1>1 DEF Sides
  <1>4. /\ r.used["bid"] \in Nat /\ w \in Nat
        /\ Ask(a) = IF a.kind = "quote" /\ a.side = "bid" THEN w ELSE 0
    BY <1>1 DEF Sides, Ask
  <1>5. CASE a.kind # "quote"
    <2>1. CapStep(r, a, cap) = [out |-> o, used |-> r.used]
      BY <1>5 DEF CapStep
    <2> HIDE DEF o, u, w
    <2>2. CapStep(r, a, cap) \in Passed
      BY <1>1, <1>2, <2>1 DEF Passed
    <2>3. ASSUME Fits(r, cap) PROVE Asked(o) = Asked(r.out)
      BY <1>1, <1>2, <1>4, <1>5, <2>3
    <2> QED
      BY <2>1, <2>2, <2>3 DEF Fits
  <1>6. CASE a.kind = "quote" /\ Sign(a.side) * cost + r.used[a.side] + w > cap
    BY <1>6 DEF CapStep
  <1>7. CASE a.kind = "quote" /\ ~ (Sign(a.side) * cost + r.used[a.side] + w > cap)
    <2>1. CapStep(r, a, cap) = [out |-> o, used |-> u]
      BY <1>7 DEF CapStep
    <2>2. a.side = "bid" => cost + r.used["bid"] + w <= cap
      <3>1. Sign("bid") * cost = cost
        BY <1>1 DEF Sign
      <3> HIDE DEF w
      <3> QED
        BY <1>1, <1>4, <1>7, <3>1
    <2> HIDE DEF o, u, w
    <2>3. CapStep(r, a, cap) \in Passed
      BY <1>2, <1>3, <2>1 DEF Passed
    <2>4. ASSUME Fits(r, cap) PROVE Fits([out |-> o, used |-> u], cap)
      <3> DEFINE C == Committed("bid")
                 k == r.used["bid"]
      <3>1. C \in Nat /\ k \in Nat /\ k = C + Asked(r.out)
        BY <1>1, <1>4, <1>7, <2>4 DEF Fits
      <3>2. Asked(r.out) = 0 \/ cost + k <= cap
        BY <1>1, <1>7, <2>4 DEF Fits
      <3>3. u["bid"] = k + (IF a.side = "bid" THEN w ELSE 0)
        BY <1>3
      <3>4. a.side = "bid" => cost + k + w <= cap
        BY <2>2
      <3> HIDE DEF C, k
      <3>5. u["bid"] = C + Asked(o)
        BY <1>1, <1>2, <1>4, <1>7, <3>1, <3>3
      <3>6. Asked(o) = 0 \/ cost + u["bid"] <= cap
        BY <1>1, <1>2, <1>4, <1>7, <3>1, <3>2, <3>3, <3>4
      <3> QED
        BY <3>5, <3>6 DEF Fits, C
    <2> QED
      BY <2>1, <2>3, <2>4
  <1> QED
    BY <1>5, <1>6, <1>7

\* The capped batch fits, when it asks anything.
LEMMA CappedFits ==
    ASSUME GateTypes, NEW cap \in Nat, NEW b \in Seq(Act)
    PROVE  /\ Capped(b, cap) \in Seq(Act)
           /\ Asked(Capped(b, cap)) = 0 \/ cost + Committed("bid") + Asked(Capped(b, cap)) <= cap
  <1> DEFINE N == Len(b)
             v == [out |-> <<>>, used |-> [s \in Sides |-> Committed(s)]]
             step == [p \in (1..N) \X Passed |-> CapStep(p[2], b[p[1]], cap)]
             h == CHOOSE g : Caps(g, b, cap)
  <1>1. N \in Nat /\ \A i \in 1..N : b[i] \in Act
    OBVIOUS
  <1>2. v \in Passed /\ Fits(v, cap)
    <2> DEFINE e == <<>>
               u == [s \in Sides |-> Committed(s)]
    <2>1. e \in Seq(Act) /\ Asked(e) = 0
      BY AskedNone
    <2>2. u \in [Sides -> Nat] /\ u["bid"] = Committed("bid") /\ Committed("bid") \in Nat
      BY SideNotional DEF Sides
    <2> HIDE DEF e, u
    <2>3. [out |-> e, used |-> u] \in Passed /\ Fits([out |-> e, used |-> u], cap)
      BY <2>1, <2>2 DEF Passed, Fits
    <2> QED
      BY <2>3 DEF e, u
  <1> HIDE DEF v
  <1>3. StepsIn(step, N, Passed)
    <2>1. ASSUME NEW p \in (1..N) \X Passed PROVE CapStep(p[2], b[p[1]], cap) \in Passed
      <3>1. b[p[1]] \in Act /\ p[2] \in Passed
        BY <1>1
      <3> QED
        BY <3>1, CapStepKeeps
    <2> QED
      BY <2>1 DEF StepsIn
  <1>4. PICK c : Iterates(c, step, N, v, Passed)
    <2> HIDE DEF step, N
    <2> QED
      BY <1>1, <1>2, <1>3, Stepwise
  <1>5. ASSUME NEW i \in 0..N PROVE c[i] = IF i = 0 THEN v ELSE CapStep(c[i - 1], b[i], cap)
    <2>1. CASE i = 0
      BY <1>4, <2>1 DEF Iterates
    <2>2. CASE i # 0
      <3>1. i \in 1..N /\ i - 1 \in 0..N /\ c[i - 1] \in Passed
        BY <1>1, <1>4, <2>2 DEF Iterates
      <3>2. step[<<i, c[i - 1]>>] = CapStep(c[i - 1], b[i], cap)
        BY <3>1
      <3> HIDE DEF step, N
      <3> QED
        BY <1>4, <2>2, <3>2 DEF Iterates
    <2> QED
      BY <2>1, <2>2
  <1>6. Caps(c, b, cap)
    <2> HIDE DEF step
    <2>1. c = [i \in 0..N |-> c[i]]
      BY <1>4 DEF Iterates
    <2> QED
      BY <1>5, <2>1 DEF Caps, v
  <1>7. Caps(h, b, cap)
    BY <1>6
  <1>8. Capped(b, cap) = h[N].out
    BY DEF Capped, Caps, CapStep
  <1> HIDE DEF h, step
  <1>9. \A i \in 0..N : h[i] = IF i = 0 THEN v ELSE CapStep(h[i - 1], b[i], cap)
    BY <1>7 DEF Caps, v
  <1> DEFINE T == {i \in Nat : i <= N => h[i] \in Passed /\ Fits(h[i], cap)}
  <1>10. 0 \in T
    BY <1>1, <1>2, <1>9
  <1>11. ASSUME NEW i \in Nat, i \in T PROVE i + 1 \in T
    <2> SUFFICES ASSUME i + 1 <= N PROVE h[i + 1] \in Passed /\ Fits(h[i + 1], cap)
      OBVIOUS
    <2>1. i + 1 \in 0..N /\ i + 1 # 0 /\ (i + 1) - 1 = i /\ i + 1 \in 1..N
      BY <1>1
    <2>2. h[i] \in Passed /\ Fits(h[i], cap)
      BY <1>1, <1>11
    <2>3. h[i + 1] = CapStep(h[i], b[i + 1], cap) /\ b[i + 1] \in Act
      BY <1>1, <1>9, <2>1
    <2> QED
      BY <2>2, <2>3, CapStepKeeps
  <1>12. h[N] \in Passed /\ Fits(h[N], cap)
    <2>1. Nat \subseteq T
      <3> HIDE DEF T
      <3> QED
        BY <1>10, <1>11, Induct
    <2>2. N \in T /\ N <= N
      BY <1>1, <2>1
    <2> QED
      BY <2>2
  <1>13. ASSUME NEW r \in Passed, Fits(r, cap)
         PROVE  /\ r.out \in Seq(Act)
                /\ Asked(r.out) = 0 \/ cost + Committed("bid") + Asked(r.out) <= cap
    <2>1. /\ r.out \in Seq(Act) /\ Asked(r.out) \in Nat
          /\ Committed("bid") \in Nat /\ cost \in Int /\ cap \in Nat
      BY AskedNumber, SideNotional DEF Passed, GateTypes
    <2> DEFINE C == Committed("bid")
               k == r.used["bid"]
    <2>2. k = C + Asked(r.out) /\ (Asked(r.out) = 0 \/ cost + k <= cap)
      BY <1>13 DEF Fits
    <2>3. cost + (C + Asked(r.out)) = cost + C + Asked(r.out)
      BY <2>1
    <2> HIDE DEF C, k
    <2>4. Asked(r.out) = 0 \/ cost + C + Asked(r.out) <= cap
      BY <2>2, <2>3
    <2> QED
      BY <2>1, <2>4 DEF C
  <1> QED
    BY <1>8, <1>12, <1>13

-----------------------------------------------------------------------------
(* The resting bids, and what of the cap is taken.                           *)

Bids(S) == {o \in S : o.side = "bid"}
Due(o) == IF o.side = "bid" THEN o.px * o.n ELSE 0

\* Everything that may still become inventory, the batch in hand included, is
\* within the largest cap, what the run started with beyond it, and what was gained.
WithinCap ==
    cost + Notional(Bids(orders)) + Asked(flight) + Asked(batch) <= widest + gained

GatesInv == GateTypes /\ WithinCap

\* An order that goes takes its notional with it when it was a bid.
LEMMA BidsLess ==
    ASSUME NEW S \in SUBSET GateOrder, IsFiniteSet(S)
    PROVE  /\ Notional(Bids(S)) \in Nat
           /\ Notional(Bids({})) = 0
           /\ \A o \in S : /\ IsFiniteSet(S \ {o}) /\ Due(o) \in Nat
                           /\ Notional(Bids(S)) = Due(o) + Notional(Bids(S \ {o}))
                           /\ Notional(Bids(S \ {o})) \in Nat
  <1>1. ASSUME NEW T \in SUBSET GateOrder, IsFiniteSet(T) PROVE Priced(Bids(T)) /\ Notional(Bids(T)) \in Nat
    <2>1. Bids(T) \in SUBSET T
      BY DEF Bids
    <2>2. IsFiniteSet(Bids(T))
      BY <1>1, <2>1, FS_Subset
    <2>3. Priced(Bids(T))
      BY <2>1, <2>2, OrderIs DEF Priced
    <2> QED
      BY <2>3, NotionalLess
  <1>2. Notional(Bids({})) = 0
    <2>1. Bids({}) = {} /\ Priced(Bids({}))
      BY <1>1, FS_EmptySet DEF Bids
    <2> QED
      BY <2>1, NotionalLess
  <1>3. ASSUME NEW o \in S
        PROVE  /\ IsFiniteSet(S \ {o}) /\ Due(o) \in Nat
               /\ Notional(Bids(S)) = Due(o) + Notional(Bids(S \ {o}))
               /\ Notional(Bids(S \ {o})) \in Nat
    <2>1. IsFiniteSet(S \ {o}) /\ S \ {o} \in SUBSET GateOrder
      BY FS_RemoveElement
    <2>2. Notional(Bids(S \ {o})) \in Nat /\ Priced(Bids(S))
      BY <1>1, <2>1
    <2>3. CASE o.side = "bid"
      <3>1. o \in Bids(S) /\ Bids(S \ {o}) = Bids(S) \ {o} /\ Due(o) = o.px * o.n
        BY <2>3 DEF Bids, Due
      <3>2. Notional(Bids(S)) = o.px * o.n + Notional(Bids(S) \ {o})
        BY <2>2, <3>1, NotionalLess
      <3>3. o.px * o.n \in Nat
        BY OrderIs
      <3> QED
        BY <2>1, <2>2, <3>1, <3>2, <3>3
    <2>4. CASE o.side # "bid"
      <3>1. Bids(S \ {o}) = Bids(S) /\ Due(o) = 0
        BY <2>4 DEF Bids, Due
      <3> QED
        BY <2>1, <2>2, <3>1
    <2> QED
      BY <2>3, <2>4
  <1> QED
    BY <1>1, <1>2, <1>3

\* An order that comes brings its own.
LEMMA BidsMore ==
    ASSUME NEW S \in SUBSET GateOrder, IsFiniteSet(S), NEW x \in GateOrder, x \notin S
    PROVE  /\ IsFiniteSet(S \cup {x}) /\ Due(x) \in Nat
           /\ Notional(Bids(S \cup {x})) = Due(x) + Notional(Bids(S))
  <1> DEFINE T == S \cup {x}
  <1>1. IsFiniteSet(T) /\ T \in SUBSET GateOrder /\ x \in T /\ T \ {x} = S
    BY FS_AddElement
  <1> HIDE DEF T
  <1>2. Due(x) \in Nat /\ Notional(Bids(T)) = Due(x) + Notional(Bids(T \ {x}))
    BY <1>1, BidsLess
  <1> QED
    BY <1>1, <1>2 DEF T

\* What of the sums are numbers.
LEMMA GateNumbers ==
    ASSUME GateTypes
    PROVE  /\ cost \in Int /\ widest \in Nat /\ gained \in Nat
           /\ Notional(Bids(orders)) \in Nat /\ Asked(flight) \in Nat /\ Asked(batch) \in Nat
  BY GatesAssumption, AskedNumber, BidsLess DEF GatesAssumption, GateTypes, GatesTypeOK

\* Nothing is taken while no order, fill or decision changes and what is asked
\* does not grow.
LEMMA NothingTaken ==
    ASSUME GatesInv, UNCHANGED <<cost, orders, widest, gained>>,
           batch' \in Seq(Act), flight' \in Seq(Act),
           Asked(flight') + Asked(batch') <= Asked(flight) + Asked(batch)
    PROVE  WithinCap'
  <1>1. Asked(flight') \in Nat /\ Asked(batch') \in Nat
    BY AskedNumber
  <1> DEFINE C == Notional(Bids(orders))
  <1>2. C' = C
    OBVIOUS
  <1>3. cost + C + Asked(flight) + Asked(batch) <= widest + gained
    BY DEF GatesInv, WithinCap
  <1>4. /\ cost \in Int /\ widest \in Nat /\ gained \in Nat /\ C \in Nat
        /\ Asked(flight) \in Nat /\ Asked(batch) \in Nat
    BY GateNumbers DEF GatesInv
  <1>5. cost + C + Asked(flight') + Asked(batch') <= widest + gained
    <2> HIDE DEF C
    <2> QED
      BY <1>1, <1>3, <1>4
  <1> QED
    BY <1>5 DEF WithinCap

-----------------------------------------------------------------------------
(* A batch, from the strategy to the venue's answers.                        *)

\* What the strategy may answer with is an action.
LEMMA ActionsAre == ASSUME GateTypes, NEW a \in Actions PROVE a \in Act
  <1>1. \A o \in orders : /\ o.id \in Nat /\ o.side \in Sides /\ o.px \in GatePrices /\ o.px \in Nat
                          /\ o.n \in 1..MaxQty /\ o.n \in Nat
    BY OrderIs DEF GateTypes, GatesTypeOK
  <1>2. \A p \in GatePrices : p \in Nat
    BY GatesAssumption DEF GatesAssumption
  <1>3. 1 \in 1..MaxQty /\ "bid" \in Sides
    BY GatesAssumption DEF GatesAssumption, Sides
  <1>4. CASE a \in {[kind |-> "quote", id |-> 0, side |-> s, px |-> p, n |-> 1] : s \in Sides, p \in GatePrices}
    BY <1>2, <1>3, <1>4 DEF Act
  <1>5. CASE a \in {[kind |-> "cancel", id |-> o.id, side |-> o.side, px |-> o.px, n |-> o.n] : o \in orders}
    BY <1>1, <1>5 DEF Act
  <1>6. CASE \E o \in orders, p \in GatePrices :
               a = [kind |-> "requote", id |-> o.id, side |-> o.side, px |-> p, n |-> o.n]
    BY <1>1, <1>2, <1>6 DEF Act
  <1>7. CASE a = [kind |-> "cancelAll", id |-> 0, side |-> "bid", px |-> 0, n |-> 0]
    BY <1>3, <1>7 DEF Act
  <1> QED
    BY <1>4, <1>5, <1>6, <1>7 DEF Actions

\* An enlarged action is one.
LEMMA GrownAre == ASSUME NEW a \in Act, NEW k, NEW g \in Grown(a, k) PROVE g \in Act
  <1>1. CASE MayGrow(a, k)
    <2>1. PICK n \in a.n..MaxQty : g = [a EXCEPT !.n = n]
      BY <1>1 DEF Grown
    <2>2. a.kind = "quote" /\ a.n \in 1..MaxQty
      BY <1>1 DEF MayGrow, Act
    <2>3. n \in 1..MaxQty /\ n \in Nat
      BY <2>2, GatesAssumption DEF GatesAssumption
    <2> QED
      BY <2>1, <2>2, <2>3 DEF Act
  <1>2. CASE ~ MayGrow(a, k)
    BY <1>2 DEF Grown
  <1> QED
    BY <1>1, <1>2

\* So a boosted batch is a sequence of actions.
LEMMA BoostedAre ==
    ASSUME GateTypes, NEW wish \in Batches, NEW c
    PROVE  wish \in Seq(Act) /\ \A b \in Boosted(wish, c) : b \in Seq(Act)
  <1>1. PICK k \in 1..MaxBatch : wish \in [1..k -> {a \in Actions : a.kind \in Kinds}]
    BY DEF Batches
  <1>2. /\ DOMAIN wish = 1..k /\ k \in Nat
        /\ \A i \in 1..k : wish[i] \in Act
    BY <1>1, ActionsAre, GatesAssumption DEF GatesAssumption
  <1>3. wish \in Seq(Act)
    BY <1>1, <1>2
  <1>4. ASSUME NEW b \in Boosted(wish, c) PROVE b \in Seq(Act)
    <2>1. /\ b \in [1..k -> UNION {Grown(wish[i], c) : i \in 1..k}]
          /\ \A i \in 1..k : b[i] \in Grown(wish[i], c)
      BY <1>2 DEF Boosted
    <2>2. \A i \in 1..k : b[i] \in Act
      BY <1>2, <2>1, GrownAre
    <2>3. k \in Nat /\ b \in [1..k -> Act]
      BY <1>2, <2>1, <2>2
    <2> QED
      BY <2>3
  <1> QED
    BY <1>3, <1>4

\* A batch is taken as far as the cap of the moment lets it, or dropped in the
\* cooldown; one that meets no cap is in the history.
LEMMA Begins == ASSUME GatesInv, NEW by \in {"event", "post"}, Begin(by) PROVE GatesInv'
  <1>1. PICK c \in CapValues, wish \in Batches :
          /\ widest' = IF c > widest THEN c ELSE widest
          /\ \/ /\ c > 0 /\ UNCHANGED gained
                /\ \E b \in Boosted(wish, c) : batch' = IF cool > 0 THEN <<>> ELSE Capped(b, c)
             \/ /\ (c = 0 \/ by = "post") /\ gained < MaxGain
                /\ \E b \in IF c = 0 THEN Boosted(wish, 0) ELSE {wish} :
                     batch' = IF cool > 0 THEN <<>> ELSE b
                /\ gained' = gained + Asked(batch')
    BY DEF Begin
  <1>2. /\ path = "idle" /\ flight = <<>> /\ batch = <<>>
        /\ path' = IF batch' = <<>> THEN "idle" ELSE by
        /\ UNCHANGED <<boost, pos, cost, orders, sent, flight, fails, age, cool>>
    BY DEF Begin, GatesInv, GateTypes
  <1> DEFINE C == Notional(Bids(orders))
  <1>3. /\ cost \in Int /\ widest \in Nat /\ gained \in Nat /\ C \in Nat /\ c \in Nat
        /\ cost + C + 0 + 0 <= widest + gained
    <2>1. Asked(flight) = 0 /\ Asked(batch) = 0
      BY <1>2, AskedNone
    <2> QED
      BY <2>1, GateNumbers, GatesAssumption DEF GatesInv, WithinCap, GatesAssumption
  <1>4. widest' \in Nat /\ c <= widest' /\ widest <= widest'
    BY <1>1, <1>3
  <1>5. C = Committed("bid")
    BY DEF Committed, Notional, Bids
  <1>6. /\ batch' \in Seq(Act) /\ Asked(batch') \in Nat /\ gained' \in Nat
        /\ \/ gained' = gained /\ (Asked(batch') = 0 \/ cost + C + Asked(batch') <= c)
           \/ gained' = gained + Asked(batch')
    <2>1. wish \in Seq(Act) /\ \A k : \A b \in Boosted(wish, k) : b \in Seq(Act)
      BY BoostedAre DEF GatesInv
    <2>2. /\ <<>> \in Seq(Act) /\ Asked(<<>>) = 0
          /\ \A b \in Seq(Act) : Asked(b) \in Nat
      BY AskedNone, AskedNumber
    <2>3. ASSUME NEW b \in Seq(Act), batch' = IF cool > 0 THEN <<>> ELSE Capped(b, c)
          PROVE  /\ batch' \in Seq(Act)
                 /\ Asked(batch') = 0 \/ cost + C + Asked(batch') <= c
      <3>1. /\ Capped(b, c) \in Seq(Act)
            /\ Asked(Capped(b, c)) = 0 \/ cost + C + Asked(Capped(b, c)) <= c
        BY <1>3, <1>5, CappedFits DEF GatesInv
      <3> HIDE DEF C
      <3> QED
        BY <2>2, <2>3, <3>1
    <2>4. ASSUME NEW b \in Seq(Act), batch' = IF cool > 0 THEN <<>> ELSE b
          PROVE  batch' \in Seq(Act)
      BY <2>2, <2>4
    <2> HIDE DEF C
    <2>5. CASE gained' = gained /\ \E b \in Boosted(wish, c) : batch' = IF cool > 0 THEN <<>> ELSE Capped(b, c)
      BY <1>3, <2>1, <2>2, <2>3, <2>5
    <2>6. CASE /\ gained' = gained + Asked(batch')
               /\ \E b \in IF c = 0 THEN Boosted(wish, 0) ELSE {wish} : batch' = IF cool > 0 THEN <<>> ELSE b
      <3>1. batch' \in Seq(Act)
        BY <2>1, <2>4, <2>6
      <3> QED
        BY <1>3, <2>2, <2>6, <3>1
    <2> QED
      BY <1>1, <2>5, <2>6
  <1>7. GateTypes'
    BY <1>2, <1>4, <1>6 DEF GatesInv, GateTypes, GatesTypeOK
  <1>8. WithinCap'
    <2>1. Asked(flight') = 0 /\ cost' = cost /\ C' = C
      BY <1>2, AskedNone
    <2>2. cost + C + 0 + Asked(batch') <= widest' + gained'
      <3> HIDE DEF C
      <3> QED
        BY <1>3, <1>4, <1>6
    <2> QED
      BY <2>1, <2>2 DEF WithinCap
  <1> QED
    BY <1>7, <1>8 DEF GatesInv

\* A run is called, but for the quotes of a locked side, which are dropped.
LEMMA Gathers == ASSUME GatesInv, Gather PROVE GatesInv'
  <1>1. /\ path # "idle" /\ flight = <<>> /\ batch # <<>> /\ fails' \in {Healthy, fails}
        /\ flight' = Open(Run, fails') /\ batch' = SubSeq(batch, Len(Run) + 1, Len(batch))
        /\ UNCHANGED <<boost, pos, cost, orders, sent, path, age, cool, widest, gained>>
    BY DEF Gather
  <1>2. batch \in Seq(Act) /\ Len(batch) \in Nat
    BY DEF GatesInv, GateTypes
  <1>3. PICK n \in 1..Len(batch) : Run = SubSeq(batch, 1, n)
    BY <1>1, <1>2, RunIs
  <1>4. Run \in Seq(Act) /\ Len(Run) = n /\ n \in 0..Len(batch) /\ n \in Nat
    BY <1>2, <1>3
  <1>5. batch' \in Seq(Act)
    BY <1>1, <1>2, <1>4
  <1>6. flight' \in Seq(Act) /\ Asked(flight') <= Asked(Run)
    BY <1>1, <1>4, OpenAsks
  <1>7. Asked(batch) = Asked(Run) + Asked(batch')
    <2>1. Asked(batch) = Asked(SubSeq(batch, 1, n)) + Asked(SubSeq(batch, n + 1, Len(batch)))
      BY <1>2, <1>4, AskedSplit
    <2> QED
      BY <1>1, <1>3, <1>4, <2>1
  <1>8. Asked(flight') + Asked(batch') <= Asked(flight) + Asked(batch)
    <2>1. Asked(flight) = 0 /\ Asked(Run) \in Nat /\ Asked(batch') \in Nat /\ Asked(flight') \in Nat
      BY <1>1, <1>4, <1>5, <1>6, AskedNone, AskedNumber
    <2> QED
      BY <1>6, <1>7, <2>1
  <1>9. fails' \in [Sides -> 0..MaxFails]
    BY <1>1, GatesAssumption DEF Healthy, GatesInv, GateTypes, GatesTypeOK, GatesAssumption
  <1>10. GateTypes'
    BY <1>1, <1>5, <1>6, <1>9 DEF GatesInv, GateTypes, GatesTypeOK
  <1> QED
    BY <1>1, <1>5, <1>6, <1>8, <1>10, NothingTaken DEF GatesInv

\* An answer takes the first call of the run.
LEMMA Answered ==
    ASSUME GateTypes, flight # <<>>, flight' = Tail(flight)
    PROVE  /\ Head(flight) \in Act /\ flight' \in Seq(Act) /\ Asked(flight') \in Nat
           /\ Ask(Head(flight)) \in Nat /\ Asked(flight) = Ask(Head(flight)) + Asked(flight')
           /\ path # "idle"
  BY AskedRest, AskedNumber, AskNumber DEF GateTypes

\* An answer that neither accepts nor fills leaves the rest to be done.
LEMMA Unaccepted ==
    ASSUME GatesInv, flight # <<>>, flight' = Tail(flight),
           UNCHANGED <<pos, cost, orders, sent, path, batch, widest, gained>>,
           fails' \in [Sides -> 0..MaxFails], age' \in 0..SideReset, cool' \in 0..Cooldown
    PROVE  GatesInv'
  <1>1. /\ flight' \in Seq(Act) /\ Asked(flight') \in Nat /\ path # "idle"
        /\ Ask(Head(flight)) \in Nat /\ Asked(flight) = Ask(Head(flight)) + Asked(flight')
    BY Answered DEF GatesInv
  <1>2. batch' \in Seq(Act) /\ batch' = batch /\ Asked(batch') \in Nat
    BY AskedNumber DEF GatesInv, GateTypes
  <1>3. Asked(flight') + Asked(batch') <= Asked(flight) + Asked(batch)
    BY <1>1, <1>2
  <1>4. GateTypes'
    BY <1>1, <1>2 DEF GatesInv, GateTypes, GatesTypeOK
  <1> QED
    BY <1>1, <1>2, <1>3, <1>4, NothingTaken DEF GatesInv

\* Nothing rests after a refusal or a rate limit.
LEMMA OtherAnswers == ASSUME GatesInv, Passing \/ Limited \/ Refused PROVE GatesInv'
  <1>1. fails \in [Sides -> 0..MaxFails] /\ age \in 0..SideReset /\ cool \in 0..Cooldown
    BY DEF GatesInv, GateTypes, GatesTypeOK
  <1>2. CASE Passing
    BY <1>1, <1>2, Unaccepted DEF Passing, Rest
  <1>3. CASE Limited
    <2>1. cool' \in 0..Cooldown
      BY <1>1, <1>3, GatesAssumption DEF Limited, GatesAssumption
    <2> QED
      BY <1>1, <1>3, <2>1, Unaccepted DEF Limited, Rest
  <1>4. CASE Refused
    <2>1. Head(flight).side \in Sides
      BY <1>4, Answered DEF Refused, GatesInv, Act
    <2>2. fails' \in [Sides -> 0..MaxFails] /\ age' \in 0..SideReset
      BY <1>1, <1>4, <2>1, GatesAssumption DEF Refused, GatesAssumption, Smaller
    <2> QED
      BY <1>1, <1>4, <2>2, Unaccepted DEF Refused
  <1> QED
    BY <1>2, <1>3, <1>4

\* An accepted quote rests: what it asked, it now commits.
LEMMA Quoted == ASSUME GatesInv, Accepted, Head(flight).kind = "quote" PROVE GatesInv'
  <1> DEFINE a == Head(flight)
             x == [id |-> sent + 1, side |-> a.side, px |-> a.px, n |-> a.n]
  <1>1. /\ flight # <<>> /\ flight' = Tail(flight) /\ sent < MaxOrders /\ sent' = sent + 1
        /\ orders' = orders \cup {x} /\ fails' = [fails EXCEPT ![a.side] = 0]
        /\ UNCHANGED <<boost, pos, cost, path, batch, age, cool, widest, gained>>
    BY DEF Accepted, Rest
  <1>2. /\ a \in Act /\ flight' \in Seq(Act) /\ Asked(flight') \in Nat /\ path # "idle"
        /\ Ask(a) \in Nat /\ Asked(flight) = Ask(a) + Asked(flight')
    BY <1>1, Answered DEF GatesInv
  <1>3. /\ orders \in SUBSET GateOrder /\ IsFiniteSet(orders) /\ sent \in 0..MaxOrders
        /\ \A o \in orders : o.id <= sent
        /\ \A o, q \in orders : o.id = q.id => o = q
    BY DEF GatesInv, GateTypes, GatesTypeOK
  <1>4. x \in GateOrder /\ x \notin orders /\ x.id = sent + 1 /\ Due(x) = Ask(a)
    <2>1. a.side \in Sides /\ a.px \in GatePrices /\ a.n \in 1..MaxQty /\ a.kind = "quote"
      BY <1>2 DEF Act
    <2>2. sent + 1 \in 1..MaxOrders
      BY <1>1, <1>3, GatesAssumption DEF GatesAssumption
    <2>3. x \in GateOrder
      BY <2>1, <2>2 DEF GateOrder
    <2>4. x \notin orders
      BY <1>3
    <2> QED
      BY <2>1, <2>3, <2>4 DEF Due, Ask
  <1> HIDE DEF a, x
  <1>5. IsFiniteSet(orders') /\ Notional(Bids(orders')) = Due(x) + Notional(Bids(orders))
    BY <1>1, <1>3, <1>4, BidsMore
  <1>6. GateTypes'
    <2>1. orders' \subseteq GateOrder /\ sent' \in 0..MaxOrders
      BY <1>1, <1>3, <1>4, GatesAssumption DEF GatesAssumption
    <2>2. \A o \in orders' : o.id <= sent'
      <3>1. sent \in Nat /\ \A o \in orders : o.id \in Nat /\ o.id <= sent
        BY <1>3, OrderIs, GatesAssumption DEF GatesAssumption
      <3> QED
        BY <1>1, <1>4, <3>1
    <2>3. \A o, q \in orders' : o.id = q.id => o = q
      BY <1>1, <1>3, <1>4
    <2>4. fails' \in [Sides -> 0..MaxFails]
      <3>1. fails \in [Sides -> 0..MaxFails] /\ 0 \in 0..MaxFails
        BY GatesAssumption DEF GatesInv, GateTypes, GatesTypeOK, GatesAssumption
      <3> QED
        BY <1>1, <3>1
    <2> QED
      BY <1>1, <1>2, <1>5, <2>1, <2>2, <2>3, <2>4 DEF GatesInv, GateTypes, GatesTypeOK
  <1>7. WithinCap'
    <2> DEFINE C == Notional(Bids(orders))
    <2>1. /\ cost \in Int /\ widest \in Nat /\ gained \in Nat /\ C \in Nat /\ Asked(batch) \in Nat
          /\ cost + C + Asked(flight) + Asked(batch) <= widest + gained
      BY GateNumbers DEF GatesInv, WithinCap
    <2>2. cost + (Due(x) + C) + Asked(flight') + Asked(batch) <= widest + gained
      <3> HIDE DEF C
      <3> QED
        BY <1>2, <1>4, <2>1
    <2>3. cost' = cost /\ widest' = widest /\ gained' = gained /\ Asked(batch') = Asked(batch)
      BY <1>1
    <2> QED
      BY <1>5, <2>2, <2>3 DEF WithinCap
  <1> QED
    BY <1>6, <1>7 DEF GatesInv

\* Orders that leave, at no cost, leave room.
LEMMA Fewer ==
    ASSUME GatesInv, orders' \in {orders, {}} \cup {orders \ {o} : o \in orders},
           flight' \in Seq(Act), Asked(flight') <= Asked(flight), path # "idle",
           UNCHANGED <<pos, cost, sent, path, batch, fails, age, cool, widest, gained>>
    PROVE  GatesInv'
  <1>1. /\ orders \in SUBSET GateOrder /\ IsFiniteSet(orders)
        /\ \A o \in orders : o.id <= sent
        /\ \A o, q \in orders : o.id = q.id => o = q
    BY DEF GatesInv, GateTypes, GatesTypeOK
  <1>2. /\ orders' \subseteq orders /\ IsFiniteSet(orders')
        /\ Notional(Bids(orders')) \in Nat /\ Notional(Bids(orders')) <= Notional(Bids(orders))
    <2>1. CASE orders' = orders
      BY <1>1, <2>1, BidsLess
    <2>2. CASE orders' = {}
      BY <1>1, <2>2, BidsLess, FS_EmptySet
    <2>3. ASSUME NEW o \in orders, orders' = orders \ {o}
          PROVE  /\ orders' \subseteq orders /\ IsFiniteSet(orders')
                 /\ Notional(Bids(orders')) \in Nat /\ Notional(Bids(orders')) <= Notional(Bids(orders))
      <3>1. /\ IsFiniteSet(orders \ {o}) /\ Due(o) \in Nat
            /\ Notional(Bids(orders)) = Due(o) + Notional(Bids(orders \ {o}))
            /\ Notional(Bids(orders \ {o})) \in Nat
        BY <1>1, BidsLess
      <3> QED
        BY <2>3, <3>1
    <2> QED
      BY <2>1, <2>2, <2>3
  <1>3. GateTypes'
    BY <1>1, <1>2 DEF GatesInv, GateTypes, GatesTypeOK
  <1>4. WithinCap'
    <2> DEFINE C == Notional(Bids(orders))
               D == Notional(Bids(orders'))
    <2>1. /\ cost \in Int /\ widest \in Nat /\ gained \in Nat /\ C \in Nat
          /\ Asked(flight) \in Nat /\ Asked(batch) \in Nat /\ Asked(flight') \in Nat
          /\ cost + C + Asked(flight) + Asked(batch) <= widest + gained
      BY GateNumbers, AskedNumber DEF GatesInv, WithinCap
    <2>2. D \in Nat /\ D <= C
      BY <1>2
    <2>3. cost + D + Asked(flight') + Asked(batch) <= widest + gained
      <3> HIDE DEF C, D
      <3> QED
        BY <2>1, <2>2
    <2>4. cost' = cost /\ gained' = gained /\ Asked(batch') = Asked(batch)
      OBVIOUS
    <2> QED
      BY <2>3, <2>4 DEF WithinCap
  <1> QED
    BY <1>3, <1>4 DEF GatesInv

\* A cancel takes its order from the mirror, cancel_all every one.
LEMMA Cancelled ==
    ASSUME GatesInv, Accepted, Head(flight).kind \in {"cancel", "cancelAll"} PROVE GatesInv'
  <1> DEFINE a == Head(flight)
  <1>1. /\ flight # <<>> /\ flight' = Tail(flight)
        /\ orders' = {} \/ orders' = {o \in orders : o.id # a.id}
        /\ UNCHANGED <<boost, pos, cost, sent, path, batch, fails, age, cool, widest, gained>>
    BY DEF Accepted, Rest
  <1>2. /\ flight' \in Seq(Act) /\ path # "idle" /\ Asked(flight') <= Asked(flight)
    BY <1>1, Answered DEF GatesInv
  <1>3. {o \in orders : o.id # a.id} \in {orders} \cup {orders \ {o} : o \in orders}
    <2> HIDE DEF a
    <2>1. CASE \A o \in orders : o.id # a.id
      BY <2>1
    <2>2. CASE \E o \in orders : o.id = a.id
      <3>1. PICK o \in orders : o.id = a.id
        BY <2>2
      <3>2. {q \in orders : q.id # a.id} = orders \ {o}
        BY <3>1 DEF GatesInv, GateTypes
      <3> QED
        BY <3>2
    <2> QED
      BY <2>1, <2>2
  <1> QED
    BY <1>1, <1>2, <1>3, Fewer

\* What moving orders to a price adds to their notional.
Raised(p, S) == MapThenSumSet(LAMBDA o : (p - o.px) * o.n, S)

\* The sum that a requote adds to the history: that of the one order it moves.
LEMMA OneUp ==
    ASSUME NEW p, NEW o, (p - o.px) * o.n \in Int
    PROVE  Raised(p, {o}) = (p - o.px) * o.n /\ Raised(p, {}) = 0
  <1> DEFINE U == {o}
             w == (p - o.px) * o.n
             F(g, s) == IF s = {} THEN 0
                        ELSE LET x == CHOOSE y \in s : TRUE IN (p - x.px) * x.n + g[s \ {x}]
             Iter(g) == g = [s \in SUBSET U |-> F(g, s)]
             h == [s \in SUBSET U |-> IF s = {} THEN 0 ELSE w]
             f == CHOOSE g : Iter(g)
             Zero(g) == g = [s \in SUBSET {} |-> F(g, s)]
             z == [s \in SUBSET {} |-> 0]
             e == CHOOSE g : Zero(g)
  <1>1. Raised(p, {o}) = f[U]
    BY SMT DEF Raised, MapThenSumSet, MapThenFoldSet
  <1>2. Raised(p, {}) = e[{}]
    BY SMT DEF Raised, MapThenSumSet, MapThenFoldSet
  <1>3. (CHOOSE y \in {o} : TRUE) = o
    OBVIOUS
  <1>4. Iter(h)
    <2>1. \A s \in SUBSET U : h[s] = F(h, s)
      <3> TAKE s \in SUBSET U
      <3>1. CASE s = {}
        BY <3>1
      <3>2. CASE s = {o}
        <4>1. s \ {o} = {} /\ {} \in SUBSET U
          BY <3>2
        <4>2. h[{}] = 0 /\ h[s] = w
          BY <3>2
        <4>3. w + 0 = w
          OBVIOUS
        <4> QED
          BY <1>3, <3>2, <4>1, <4>2, <4>3
      <3> QED
        BY <3>1, <3>2
    <2> QED
      BY <2>1
  <1>5. Iter(f)
    BY <1>4
  <1>6. Zero(z)
    OBVIOUS
  <1>7. Zero(e)
    BY <1>6
  <1> HIDE DEF f, e
  <1>8. e[{}] = 0
    <2>1. {} \in SUBSET {}
      OBVIOUS
    <2> QED
      BY <1>7, <2>1
  <1>9. f[{}] = 0 /\ f[U] = w + f[{}]
    <2>1. {} \in SUBSET U /\ {o} \in SUBSET U /\ {o} \ {o} = {} /\ {o} # {}
      OBVIOUS
    <2>2. f[{}] = F(f, {}) /\ f[{o}] = F(f, {o})
      BY <1>5, <2>1
    <2> QED
      BY <1>3, <2>1, <2>2
  <1>10. f[U] = w
    <2>1. w \in Int
      OBVIOUS
    <2> HIDE DEF w, U
    <2> QED
      BY <1>9, <2>1
  <1> QED
    BY <1>1, <1>2, <1>8, <1>10

\* A requote moves its order; what a higher bid adds is in the history.
LEMMA Requoted == ASSUME GatesInv, Accepted, Head(flight).kind = "requote" PROVE GatesInv'
  <1> DEFINE a == Head(flight)
             old == {o \in orders : o.id = a.id}
             up == {o \in old : o.side = "bid" /\ a.px > o.px}
             rise == Raised(a.px, up)
  <1>1. /\ flight # <<>> /\ flight' = Tail(flight) /\ gained' = gained + rise
        /\ orders' = (orders \ old) \cup {[o EXCEPT !.px = a.px] : o \in old}
        /\ UNCHANGED <<boost, pos, cost, sent, path, batch, fails, age, cool, widest>>
    BY DEF Accepted, Rest, Raised
  <1>2. /\ a \in Act /\ flight' \in Seq(Act) /\ Asked(flight') \in Nat /\ path # "idle"
        /\ Ask(a) \in Nat /\ Asked(flight) = Ask(a) + Asked(flight')
    BY <1>1, Answered DEF GatesInv
  <1>3. /\ orders \in SUBSET GateOrder /\ IsFiniteSet(orders)
        /\ \A o \in orders : o.id <= sent
        /\ \A o, q \in orders : o.id = q.id => o = q
    BY DEF GatesInv, GateTypes, GatesTypeOK
  <1>4. a.px \in GatePrices /\ a.px \in Nat /\ a.kind = "requote"
    BY <1>2 DEF Act
  <1>5. Asked(flight') <= Asked(flight)
    BY <1>2
  <1> HIDE DEF a
  <1>6. CASE old = {}
    <2>1. orders' = orders
      BY <1>1, <1>6
    <2>2. up = {}
      BY <1>6
    <2>3. rise = 0
      <3>1. Raised(a.px, {}) = 0
        <4> DEFINE o == [px |-> 0, n |-> 0]
        <4>1. (a.px - o.px) * o.n \in Int
          BY <1>4
        <4> HIDE DEF o
        <4> QED
          BY <4>1, OneUp
      <3> HIDE DEF up
      <3> QED
        BY <2>2, <3>1
    <2> HIDE DEF rise
    <2>4. gained' = gained
      <3>1. gained \in Nat /\ gained' = gained + rise
        BY <1>1 DEF GatesInv, GateTypes
      <3> QED
        BY <2>3, <3>1
    <2> QED
      BY <1>1, <1>2, <1>5, <2>1, <2>4, Fewer
  <1>7. CASE old # {}
    <2>1. PICK o \in orders : old = {o}
      BY <1>3, <1>7
    <2> DEFINE x == [o EXCEPT !.px = a.px]
               S == orders \ {o}
    <2>2. orders' = S \cup {x}
      BY <1>1, <2>1
    <2>3. /\ o \in GateOrder /\ o.px \in Nat /\ o.n \in Nat /\ o.px * o.n \in Nat /\ o.id <= sent
      BY <1>3, OrderIs
    <2>4. /\ x \in GateOrder /\ x.id = o.id /\ x.side = o.side /\ x.px = a.px /\ x.n = o.n
      BY <1>4, <2>3 DEF GateOrder
    <2>5. x \notin S /\ \A q \in S : q.id # x.id
      BY <1>3, <2>4
    <2>6. S \in SUBSET GateOrder /\ IsFiniteSet(S)
      BY <1>3, FS_RemoveElement
    <2> HIDE DEF x
    <2>7. /\ Notional(Bids(orders)) = Due(o) + Notional(Bids(S)) /\ Due(o) \in Nat
          /\ Notional(Bids(S)) \in Nat
      BY <1>3, BidsLess
    <2>8. /\ IsFiniteSet(orders') /\ Due(x) \in Nat
          /\ Notional(Bids(orders')) = Due(x) + Notional(Bids(S))
      BY <2>2, <2>4, <2>5, <2>6, BidsMore
    <2>9. rise \in Nat /\ Due(x) <= Due(o) + rise
      <3>1. (a.px - o.px) * o.n \in Int /\ (a.px - o.px) * o.n = a.px * o.n - o.px * o.n
        BY <1>4, <2>3
      <3>2. Raised(a.px, {o}) = (a.px - o.px) * o.n /\ Raised(a.px, {}) = 0
        BY <3>1, OneUp
      <3>3. CASE o.side = "bid" /\ a.px > o.px
        <4>1. up = {o}
          BY <2>1, <3>3
        <4>2. rise = (a.px - o.px) * o.n
          BY <3>2, <4>1
        <4>3. Due(o) = o.px * o.n /\ Due(x) = a.px * o.n
          BY <2>4, <3>3 DEF Due
        <4>4. (a.px - o.px) * o.n \in Nat
          <5>1. a.px - o.px \in Nat
            BY <1>4, <2>3, <3>3
          <5> QED
            BY <2>3, <5>1
        <4>5. a.px * o.n \in Nat
          BY <1>4, <2>3
        <4> HIDE DEF rise
        <4> QED
          BY <2>3, <3>1, <4>2, <4>3, <4>4, <4>5
      <3>4. CASE ~ (o.side = "bid" /\ a.px > o.px)
        <4>1. up = {}
          BY <2>1, <3>4
        <4>2. rise = 0
          BY <3>2, <4>1
        <4>3. Due(x) <= Due(o)
          <5>1. CASE o.side # "bid"
            BY <2>4, <5>1 DEF Due
          <5>2. CASE o.side = "bid" /\ a.px <= o.px
            <6>1. Due(x) = a.px * o.n /\ Due(o) = o.px * o.n
              BY <2>4, <5>2 DEF Due
            <6>2. a.px * o.n <= o.px * o.n
              <7>1. o.px - a.px \in Nat
                BY <1>4, <2>3, <5>2
              <7>2. (o.px - a.px) * o.n \in Nat /\ (o.px - a.px) * o.n = o.px * o.n - a.px * o.n
                BY <1>4, <2>3, <7>1
              <7>3. a.px * o.n \in Nat
                BY <1>4, <2>3
              <7> QED
                BY <2>3, <7>2, <7>3
            <6> QED
              BY <6>1, <6>2
          <5> QED
            BY <1>4, <2>3, <3>4, <5>1, <5>2
        <4> HIDE DEF rise
        <4> QED
          BY <2>7, <2>8, <4>2, <4>3
      <3> QED
        BY <3>3, <3>4
    <2> HIDE DEF rise, old
    <2>10. GateTypes'
      <3>1. orders' \subseteq GateOrder
        BY <2>2, <2>4, <2>6
      <3>2. \A q \in orders' : q.id <= sent
        BY <1>3, <2>2, <2>3, <2>4
      <3>3. \A q, r \in orders' : q.id = r.id => q = r
        BY <1>3, <2>2, <2>5
      <3>4. gained' \in Nat
        BY <1>1, <2>9 DEF GatesInv, GateTypes
      <3> QED
        BY <1>1, <1>2, <2>8, <3>1, <3>2, <3>3, <3>4 DEF GatesInv, GateTypes, GatesTypeOK
    <2>11. WithinCap'
      <3> DEFINE C == Notional(Bids(orders))
                 D == Notional(Bids(orders'))
                 B == Notional(Bids(S))
      <3>1. /\ cost \in Int /\ widest \in Nat /\ gained \in Nat /\ C \in Nat
            /\ Asked(flight) \in Nat /\ Asked(batch) \in Nat
            /\ cost + C + Asked(flight) + Asked(batch) <= widest + gained
        BY GateNumbers DEF GatesInv, WithinCap
      <3>2. C = Due(o) + B /\ D = Due(x) + B /\ B \in Nat
        BY <2>7, <2>8
      <3>3. Due(x) \in Nat /\ Due(o) \in Nat /\ rise \in Nat /\ Due(x) <= Due(o) + rise
        BY <2>7, <2>8, <2>9
      <3>4. cost + D + Asked(flight') + Asked(batch) <= widest + (gained + rise)
        <4> HIDE DEF C, D, B
        <4>1. D <= C + rise /\ D \in Nat
          BY <3>2, <3>3
        <4> QED
          BY <1>2, <1>5, <3>1, <3>3, <4>1
      <3>5. cost' = cost /\ widest' = widest /\ gained' = gained + rise /\ Asked(batch') = Asked(batch)
        BY <1>1
      <3> QED
        BY <3>4, <3>5 DEF WithinCap
    <2> QED
      BY <2>10, <2>11 DEF GatesInv
  <1> QED
    BY <1>6, <1>7

\* Every accepted call keeps the cap.
LEMMA Accepts == ASSUME GatesInv, Accepted PROVE GatesInv'
  <1>1. Head(flight) \in Act
    BY Answered DEF Accepted, GatesInv
  <1>2. Head(flight).kind \in {"quote", "cancel", "requote", "cancelAll"}
    BY <1>1 DEF Act
  <1> QED
    BY <1>2, Quoted, Cancelled, Requoted

-----------------------------------------------------------------------------
(* Fills.                                                                    *)

\* A fill turns what a bid committed into cost, less what it buys back; the
\* gain on that is in the history.
LEMMA Fills == ASSUME GatesInv, Filled PROVE GatesInv'
  <1>1. PICK o \in orders :
          LET c     == IF pos * Sign(o.side) < 0 THEN Smaller(Abs(pos), o.n) ELSE 0
              paid  == IF pos = 0 THEN 0 ELSE (Abs(cost) * c) \div Abs(pos)
          IN  /\ orders' = orders \ {o}
              /\ pos' = pos + Sign(o.side) * o.n
              /\ cost' = cost + Sign(o.side) * (paid + (o.n - c) * o.px)
              /\ gained' = gained + IF o.side = "bid" /\ paid > c * o.px THEN paid - c * o.px ELSE 0
    BY DEF Filled
  <1> DEFINE c == IF pos * Sign(o.side) < 0 THEN Smaller(Abs(pos), o.n) ELSE 0
             paid == IF pos = 0 THEN 0 ELSE (Abs(cost) * c) \div Abs(pos)
             gain == IF o.side = "bid" /\ paid > c * o.px THEN paid - c * o.px ELSE 0
             S == orders \ {o}
  <1>2. /\ orders' = S /\ pos' = pos + Sign(o.side) * o.n
        /\ cost' = cost + Sign(o.side) * (paid + (o.n - c) * o.px) /\ gained' = gained + gain
    BY <1>1
  <1>3. /\ path = "idle" /\ flight = <<>> /\ batch = <<>> /\ fails' = Healthy
        /\ UNCHANGED <<boost, sent, path, batch, flight, age, cool, widest>>
    BY DEF Filled, GatesInv, GateTypes
  <1>4. /\ orders \in SUBSET GateOrder /\ IsFiniteSet(orders) /\ pos \in Int /\ cost \in Int
        /\ \A q \in orders : q.id <= sent
        /\ \A q, r \in orders : q.id = r.id => q = r
    BY DEF GatesInv, GateTypes, GatesTypeOK
  <1>5. o \in GateOrder /\ o.side \in Sides /\ o.px \in Nat /\ o.n \in Nat /\ o.px * o.n \in Nat
    BY <1>4, OrderIs
  <1>6. c \in Nat /\ c <= o.n
    BY <1>4, <1>5 DEF Smaller, Abs
  <1>7. paid \in Nat
    <2> HIDE DEF c
    <2>1. CASE pos # 0
      <3>1. Abs(pos) \in Nat \ {0} /\ Abs(cost) \in Nat
        BY <1>4, <2>1 DEF Abs
      <3>2. Abs(cost) * c \in Nat
        BY <1>6, <3>1
      <3>3. (Abs(cost) * c) \div Abs(pos) \in Nat
        BY <3>1, <3>2, Whole
      <3> QED
        BY <2>1, <3>3
    <2> QED
      BY <2>1
  <1> HIDE DEF c, paid
  <1>8. /\ c * o.px \in Nat /\ (o.n - c) * o.px \in Nat /\ (o.n - c) * o.px = o.px * o.n - c * o.px
    <2>1. o.n - c \in Nat
      BY <1>5, <1>6
    <2> QED
      BY <1>5, <1>6, <2>1
  <1>9. gain \in Nat /\ (o.side = "bid" => paid - c * o.px <= gain)
    BY <1>7, <1>8
  <1>10. /\ Notional(Bids(orders)) = Due(o) + Notional(Bids(S)) /\ Due(o) \in Nat
         /\ Notional(Bids(S)) \in Nat /\ IsFiniteSet(S)
    BY <1>4, BidsLess
  <1> HIDE DEF gain
  <1>11. /\ pos' \in Int /\ cost' \in Int /\ gained' \in Nat
         /\ cost' + Notional(Bids(S)) <= cost + Notional(Bids(orders)) + gain
    <2> DEFINE C == Notional(Bids(orders))
               B == Notional(Bids(S))
               m == (o.n - c) * o.px
    <2>1. C = Due(o) + B /\ B \in Nat /\ m \in Nat
      BY <1>8, <1>10
    <2>2. gained' \in Nat
      BY <1>2, <1>9 DEF GatesInv, GateTypes
    <2>3. CASE o.side = "bid"
      <3>1. pos' = pos + o.n /\ cost' = cost + (paid + m) /\ Due(o) = o.px * o.n
        <4>1. Sign(o.side) = 1 /\ Due(o) = o.px * o.n
          BY <2>3 DEF Sign, Due
        <4> HIDE DEF m
        <4> QED
          BY <1>2, <1>4, <1>5, <1>7, <2>1, <4>1 DEF m
      <3>2. m = o.px * o.n - c * o.px
        BY <1>8
      <3> HIDE DEF m, C, B
      <3> QED
        BY <1>4, <1>5, <1>7, <1>8, <1>9, <1>10, <2>1, <2>2, <2>3, <3>1, <3>2
    <2>4. CASE o.side = "ask"
      <3>1. pos' = pos - o.n /\ cost' = cost - (paid + m) /\ Due(o) = 0
        <4>1. Sign(o.side) = -1 /\ Due(o) = 0
          BY <2>4 DEF Sign, Due
        <4> QED
          BY <1>2, <1>4, <1>5, <1>7, <2>1, <4>1
      <3> HIDE DEF m, C, B
      <3> QED
        BY <1>4, <1>5, <1>7, <1>9, <1>10, <2>1, <2>2, <3>1
    <2> QED
      BY <1>5, <2>3, <2>4 DEF Sides
  <1>12. GateTypes'
    <2>1. fails' \in [Sides -> 0..MaxFails]
      BY <1>3, GatesAssumption DEF Healthy, GatesAssumption
    <2> QED
      BY <1>2, <1>3, <1>4, <1>10, <1>11, <2>1 DEF GatesInv, GateTypes, GatesTypeOK
  <1>13. WithinCap'
    <2> DEFINE C == Notional(Bids(orders))
               B == Notional(Bids(S))
    <2>1. Asked(flight) = 0 /\ Asked(batch) = 0 /\ Asked(flight') = 0 /\ Asked(batch') = 0
      BY <1>3, AskedNone
    <2>2. /\ cost \in Int /\ widest \in Nat /\ gained \in Nat /\ C \in Nat
          /\ cost + C + 0 + 0 <= widest + gained
      BY <2>1, GateNumbers DEF GatesInv, WithinCap
    <2>3. cost' + B <= cost + C + gain /\ B \in Nat
      BY <1>10, <1>11
    <2>4. cost' + B + 0 + 0 <= widest + (gained + gain)
      <3>1. cost' \in Int /\ gain \in Nat
        BY <1>9, <1>11
      <3>2. ASSUME NEW k \in Int, NEW b \in Nat, NEW l \in Int, NEW d \in Nat, NEW g \in Nat, NEW h \in Nat,
                   NEW x \in Nat, l + d + 0 + 0 <= x + h, k + b <= l + d + g
            PROVE  k + b + 0 + 0 <= x + (h + g)
        BY <3>2
      <3> HIDE DEF C, B
      <3> QED
        BY <2>2, <2>3, <3>1, <3>2
    <2> QED
      BY <1>2, <1>3, <2>1, <2>4 DEF WithinCap
  <1> QED
    BY <1>12, <1>13 DEF GatesInv

-----------------------------------------------------------------------------
\* A run starts with no order, within the cap but for its seed.
LEMMA GatesInvInit == GatesInit => GatesInv
  <1> SUFFICES ASSUME GatesInit PROVE GatesInv
    OBVIOUS
  <1>1. /\ orders = {} /\ sent = 0 /\ path = "idle" /\ batch = <<>> /\ flight = <<>>
        /\ fails = Healthy /\ age = SideReset /\ cool = 0
        /\ gained = IF cost > widest THEN cost - widest ELSE 0
        /\ pos \in Int /\ cost \in Int /\ widest \in Nat
    BY GatesAssumption DEF GatesInit, GatesAssumption, Healthy
  <1>2. /\ fails \in [Sides -> 0..MaxFails] /\ age \in 0..SideReset /\ cool \in 0..Cooldown
        /\ sent \in 0..MaxOrders /\ gained \in Nat
    BY <1>1, GatesAssumption DEF GatesAssumption, Healthy
  <1>3. batch \in Seq(Act) /\ flight \in Seq(Act)
    BY <1>1
  <1>4. GateTypes
    BY <1>1, <1>2, <1>3, FS_EmptySet DEF GateTypes, GatesTypeOK
  <1>5. WithinCap
    <2>1. Notional(Bids(orders)) = 0 /\ Asked(flight) = 0 /\ Asked(batch) = 0
      BY <1>1, BidsLess, AskedNone, FS_EmptySet
    <2>2. cost + 0 + 0 + 0 <= widest + gained
      BY <1>1, GatesAssumption DEF GatesAssumption
    <2> QED
      BY <2>1, <2>2 DEF WithinCap
  <1> QED
    BY <1>4, <1>5 DEF GatesInv

\* Every step keeps the invariant.
LEMMA GatesInvNext == GatesInv /\ [GatesNext]_gateVars => GatesInv'
  <1> SUFFICES ASSUME GatesInv, [GatesNext]_gateVars PROVE GatesInv'
    OBVIOUS
  <1>1. CASE Begin("event") \/ Begin("post")
    BY <1>1, Begins
  <1>2. CASE Gather
    BY <1>2, Gathers
  <1>3. CASE Accepted
    BY <1>3, Accepts
  <1>4. CASE Passing \/ Limited \/ Refused
    BY <1>4, OtherAnswers
  <1>5. CASE Filled
    BY <1>5, Fills
  <1>6. CASE Finish
    <2>1. GateTypes'
      BY <1>6 DEF Finish, GatesInv, GateTypes, GatesTypeOK
    <2>2. WithinCap'
      BY <1>6 DEF Finish, GatesInv, WithinCap
    <2> QED
      BY <2>1, <2>2 DEF GatesInv
  <1>7. CASE Tick
    <2>1. age' \in 0..SideReset /\ cool' \in 0..Cooldown
      BY <1>7, GatesAssumption DEF Tick, Smaller, GatesInv, GateTypes, GatesTypeOK, GatesAssumption
    <2>2. GateTypes'
      BY <1>7, <2>1 DEF Tick, GatesInv, GateTypes, GatesTypeOK
    <2>3. WithinCap'
      BY <1>7 DEF Tick, GatesInv, WithinCap
    <2> QED
      BY <2>2, <2>3 DEF GatesInv
  <1>8. CASE UNCHANGED gateVars
    <2>1. GateTypes'
      BY <1>8 DEF gateVars, GatesInv, GateTypes, GatesTypeOK
    <2>2. WithinCap'
      BY <1>8 DEF gateVars, GatesInv, WithinCap
    <2> QED
      BY <2>1, <2>2 DEF GatesInv
  <1> QED
    BY <1>1, <1>2, <1>3, <1>4, <1>5, <1>6, <1>7, <1>8 DEF GatesNext

\* The failure counts, their age and the cooldown stay within their bounds, and
\* what rests was sent by this run: side_fails, rate_limited_until and the mirror
\* of run_inner.
THEOREM GatesTyped == GatesSpec => []GatesTypeOK
  <1>1. GatesInv => GatesTypeOK
    BY DEF GatesInv, GateTypes
  <1> QED
    BY <1>1, GatesInvInit, GatesInvNext, PTL DEF GatesSpec

\* The worst case of apply_bot_inventory_cap holds at every moment, between the
\* capping of a batch and its answers too: position and committed bids never
\* exceed the largest cap there was but for the seed's excess, what buying back
\* realized, what requotes, which the cap lets through, have added, and the bids
\* of the batches that met no cap.
THEOREM CapHolds == GatesSpec => []OvershootIsRealized
  <1>1. ASSUME GatesInv PROVE OvershootIsRealized
    <2>1. Committed("bid") = Notional(Bids(orders))
      BY DEF Committed, Notional, Bids
    <2> DEFINE C == Notional(Bids(orders))
    <2>2. /\ cost \in Int /\ widest \in Nat /\ gained \in Nat /\ C \in Nat
          /\ Asked(flight) \in Nat /\ Asked(batch) \in Nat
          /\ cost + C + Asked(flight) + Asked(batch) <= widest + gained
      BY <1>1, GateNumbers DEF GatesInv, WithinCap
    <2>3. cost + C <= widest + gained
      <3> HIDE DEF C
      <3> QED
        BY <2>2
    <2> QED
      BY <2>1, <2>3 DEF OvershootIsRealized
  <1> QED
    BY <1>1, GatesInvInit, GatesInvNext, PTL DEF GatesSpec
=============================================================================
