---------------------------- MODULE PaperProofs -----------------------------
(***************************************************************************)
(* Proofs about the paper session (PaperRun with FillSim), for any         *)
(* prices, latencies, times in force, limits, fees and requests; and about *)
(* the recorder and the replay such a session can be fed from (Archive),   *)
(* for any stream, any flushes, kills, failed writes and restarts.         *)
(*                                                                         *)
(* What is wiped does not fill because every order that rests, or whose    *)
(* Place or Replace is under way, was named after the last liquidation     *)
(* (Younger): an operation that makes an order is dropped with the quotes, *)
(* and a request can only name what rests, what is new, or nothing.  What  *)
(* is cancelled does not come back because no replacement outlives the     *)
(* cancel but in `ready` (Graves).  The tracker and the simulator agree    *)
(* because the lots under way are the sum of a sequence that grows at its  *)
(* end and is booked from its head; that sum is a recursive function, so   *)
(* what is proved of it here is proved by well-founded induction.          *)
(*                                                                         *)
(* A hole cannot pass the check of the row numbers because a snapshot      *)
(* leaves its number between those of its neighbours whether or not it is  *)
(* kept (Numbered).  A replay is true because what it has said is what     *)
(* the rows before the cursor show, each instant once (Said), and what it  *)
(* has not said comes after all of it (Ahead); and the rows are those kept *)
(* because a delivery is lost or lies whole in one shelf (Filed).          *)
(***************************************************************************)
EXTENDS PaperRun, Archive, FiniteSetTheorems, WellFoundedInduction, TLAPS

Kinds == {"place", "replace", "cancel", "cancelAll"}
Makers == {"place", "replace"}
Sides == {"bid", "ask"}

\* An operation, and a fill under way.
Operation == [k : Ids, due : Nat, kind : Kinds, id : 0..MaxSent, side : Sides,
              px : Prices \cup {Min(Prices)}, qty : 1..MaxQty, tif : {"post", "ioc"}]
FillMsg == [id : Ids, side : Sides, px : Int, qty : 1..MaxQty, full : BOOLEAN]

\* What each variable of the simulator's orders holds.
Held ==
    /\ now \in Nat /\ quotes \subseteq Order /\ sent \in 0..MaxSent /\ cleared \in 0..sent
    /\ pending \subseteq Operation /\ IsFiniteSet(pending)
    /\ ready \in Seq(Operation) /\ buried \in [Ids -> Nat]

\* An operation was sent; an order it makes is named like the operation that
\* placed it, and is younger than the last liquidation.
Sound(o) ==
    /\ o.k <= sent /\ o.id <= sent
    /\ o.kind \in Makers => o.px \in Prices /\ o.id > cleared
    /\ o.kind = "place" => o.id = o.k
Younger ==
    /\ \A o \in pending : Sound(o)
    /\ \A i \in DOMAIN ready : Sound(ready[i])
    /\ \A q \in quotes : q.id > cleared /\ q.id <= sent

\* An operation waits once.
Once ==
    /\ \A o, p \in pending : o.k = p.k => o = p
    /\ \A i, j \in DOMAIN ready : i # j => ready[i].k # ready[j].k
    /\ \A i \in DOMAIN ready, o \in pending : o.k # ready[i].k

\* Nobody knows an order before it is placed.
Waiting == pending \cup {ready[i] : i \in DOMAIN ready}
Unborn ==
    \A o \in Waiting : o.kind = "place" =>
        /\ buried[o.id] = 0
        /\ \A q \in quotes : q.id # o.id
        /\ \A p \in Waiting : p.id = o.id => p.k = o.k

\* A cancel leaves nothing behind that could bring its order back, but what was
\* drained beside it.
Graves ==
    /\ \A id \in Ids : id > sent => buried[id] = 0
    /\ \A q \in quotes : buried[q.id] = 0
    /\ \A o \in pending : o.kind = "replace" => buried[o.id] = 0
    /\ \A i \in DOMAIN ready : ready[i].kind = "replace" => buried[ready[i].id] \in {0, now}

OrdersInv == Held /\ Younger /\ Once /\ Unborn /\ Graves

\* Operations are drained and matched only where the arm does it.
InStage ==
    /\ ready # <<>> => pc = "apply"
    /\ fills # <<>> => pc \in {"apply", "match", "fills"}

-----------------------------------------------------------------------------
(* The sum of the fills under way, from the function FilledLots is.        *)

Lot(f) == Sign(f.side) * f.qty
LotsOf(s) == LET lots[i \in 0..Len(s)] ==
                   IF i = 0 THEN 0 ELSE lots[i - 1] + Sign(s[i].side) * s[i].qty
             IN  lots[Len(s)]
Adds(f, s) == f = [i \in 0..Len(s) |-> IF i = 0 THEN 0
                                        ELSE f[i - 1] + Sign(s[i].side) * s[i].qty]

\* Induction over a set of numbers.
LEMMA Induct ==
    ASSUME NEW T, 0 \in T, \A n \in Nat : n \in T => n + 1 \in T
    PROVE  Nat \subseteq T
  <1> DEFINE Less == {ss \in Nat \X Nat : ss[1] < ss[2]}
             U == Nat \ T
  <1>1. IsWellFoundedOn(Less, Nat)
    BY NatLessThanWellFounded DEF OpToRel
  <1>2. \A x, y \in Nat : <<y, x>> \in Less <=> y < x
    OBVIOUS
  <1>3. U # {} => \E x \in U : \A y \in U : <<y, x>> \notin Less
    <2> HIDE DEF Less
    <2>1. U \subseteq Nat
      OBVIOUS
    <2> HIDE DEF U
    <2> QED
      BY <1>1, <2>1, WFMin
  <1> HIDE DEF Less
  <1>4. ASSUME NEW x \in U, \A y \in U : <<y, x>> \notin Less PROVE FALSE
    <2>1. x \in Nat /\ x # 0
      OBVIOUS
    <2>2. x - 1 \in Nat /\ x - 1 < x /\ (x - 1) + 1 = x
      BY <2>1
    <2>3. x - 1 \in T
      BY <1>2, <1>4, <2>1, <2>2
    <2> QED
      BY <2>2, <2>3
  <1> QED
    BY <1>3, <1>4

\* Every sequence of fills has such a sum.
LEMMA AddsExists ==
    ASSUME NEW s \in Seq(FillMsg)
    PROVE  \E f : Adds(f, s)
  <1> DEFINE Upto(n, f) == f = [i \in 0..n |-> IF i = 0 THEN 0
                                            ELSE f[i - 1] + Sign(s[i].side) * s[i].qty]
             T == {n \in Nat : \E f : Upto(n, f)}
  <1>1. 0 \in T
    <2> DEFINE z == [i \in 0..0 |-> 0]
    <2>1. Upto(0, z)
      OBVIOUS
    <2> QED
      BY <2>1
  <1>2. ASSUME NEW n \in Nat, n \in T PROVE n + 1 \in T
    <2>1. PICK f : Upto(n, f)
      BY <1>2
    <2> DEFINE w == f[n] + Sign(s[n + 1].side) * s[n + 1].qty
               g == [i \in 0..n + 1 |-> IF i = n + 1 THEN w ELSE f[i]]
    <2>2. \A i \in 0..n : f[i] = IF i = 0 THEN 0 ELSE f[i - 1] + Sign(s[i].side) * s[i].qty
      BY <2>1
    <2>3. ASSUME NEW i \in 0..n + 1
          PROVE  g[i] = IF i = 0 THEN 0 ELSE g[i - 1] + Sign(s[i].side) * s[i].qty
      <3>1. CASE i = n + 1
        <4>1. g[i] = w /\ i # 0 /\ i - 1 = n /\ i - 1 \in 0..n + 1
          BY <3>1
        <4>2. g[n] = f[n]
          OBVIOUS
        <4> HIDE DEF g
        <4> QED
          BY <3>1, <4>1, <4>2
      <3>2. CASE i # n + 1
        <4>1. i \in 0..n /\ g[i] = f[i]
          BY <3>2
        <4>2. i # 0 => i - 1 \in 0..n /\ g[i - 1] = f[i - 1]
          BY <4>1
        <4> HIDE DEF g
        <4> QED
          BY <2>2, <4>1, <4>2
      <3> QED
        BY <3>1, <3>2
    <2>4. Upto(n + 1, g)
      BY <2>3
    <2> HIDE DEF g, Upto
    <2> QED
      BY <2>4
  <1>3. Nat \subseteq T
    <2> HIDE DEF T
    <2> QED
      BY <1>1, <1>2, Induct
  <1>4. Len(s) \in T
    <2>1. Len(s) \in Nat
      OBVIOUS
    <2> HIDE DEF T
    <2> QED
      BY <1>3, <2>1
  <1> QED
    BY <1>4 DEF Adds

\* It is a sum of whole lots.
LEMMA AddsValues ==
    ASSUME NEW s \in Seq(FillMsg), NEW f, Adds(f, s)
    PROVE  \A i \in 0..Len(s) : f[i] \in Int
  <1> DEFINE T == {n \in Nat : n <= Len(s) => f[n] \in Int}
  <1>0. \A i \in 0..Len(s) : f[i] = IF i = 0 THEN 0 ELSE f[i - 1] + Sign(s[i].side) * s[i].qty
    BY DEF Adds
  <1>1. 0 \in T
    BY <1>0
  <1>2. ASSUME NEW n \in Nat, n \in T PROVE n + 1 \in T
    <2> SUFFICES ASSUME n + 1 <= Len(s) PROVE f[n + 1] \in Int
      OBVIOUS
    <2>1. s[n + 1] \in FillMsg /\ n + 1 \in 0..Len(s) /\ (n + 1) - 1 = n /\ n + 1 # 0
      OBVIOUS
    <2>2. Sign(s[n + 1].side) \in Int /\ s[n + 1].qty \in Int
      BY <2>1 DEF Sign, FillMsg
    <2>3. f[n] \in Int
      BY <1>2
    <2> QED
      BY <1>0, <2>1, <2>2, <2>3
  <1>3. Nat \subseteq T
    <2> HIDE DEF T
    <2> QED
      BY <1>1, <1>2, Induct
  <1> QED
    BY <1>3

\* Two sums of sequences that begin alike begin alike.
LEMMA AddsAgree ==
    ASSUME NEW s \in Seq(FillMsg), NEW t \in Seq(FillMsg), NEW f, NEW g, Adds(f, s), Adds(g, t),
           NEW n \in Nat, n <= Len(s), n <= Len(t), \A i \in 1..n : s[i] = t[i]
    PROVE  f[n] = g[n]
  <1> DEFINE T == {m \in Nat : m <= n => f[m] = g[m]}
  <1>0. /\ \A i \in 0..Len(s) : f[i] = IF i = 0 THEN 0 ELSE f[i - 1] + Sign(s[i].side) * s[i].qty
        /\ \A i \in 0..Len(t) : g[i] = IF i = 0 THEN 0 ELSE g[i - 1] + Sign(t[i].side) * t[i].qty
    BY DEF Adds
  <1>1. 0 \in T
    BY <1>0
  <1>2. ASSUME NEW m \in Nat, m \in T PROVE m + 1 \in T
    <2> SUFFICES ASSUME m + 1 <= n PROVE f[m + 1] = g[m + 1]
      OBVIOUS
    <2>1. m + 1 \in 0..Len(s) /\ m + 1 \in 0..Len(t) /\ m + 1 # 0 /\ (m + 1) - 1 = m
      OBVIOUS
    <2>2. s[m + 1] = t[m + 1] /\ f[m] = g[m]
      BY <1>2
    <2> QED
      BY <1>0, <2>1, <2>2
  <1>3. Nat \subseteq T
    <2> HIDE DEF T
    <2> QED
      BY <1>1, <1>2, Induct
  <1> QED
    BY <1>3

\* What the sum of a sequence is, by any function that sums it.
LEMMA LotsAre ==
    ASSUME NEW s \in Seq(FillMsg)
    PROVE  \E f : Adds(f, s) /\ LotsOf(s) = f[Len(s)]
  <1> DEFINE f == CHOOSE g : Adds(g, s)
  <1>1. Adds(f, s)
    BY AddsExists
  <1>2. LotsOf(s) = f[Len(s)]
    BY DEF LotsOf, Adds
  <1> QED
    BY <1>1, <1>2

\* The sum of a sequence of fills is a number of lots.
LEMMA LotsNumber == ASSUME NEW s \in Seq(FillMsg) PROVE LotsOf(s) \in Int
  <1>1. PICK f : Adds(f, s) /\ LotsOf(s) = f[Len(s)]
    BY LotsAre
  <1>2. Len(s) \in 0..Len(s)
    OBVIOUS
  <1> QED
    BY <1>1, <1>2, AddsValues

\* No fills, no lots.
LEMMA LotsNone == LotsOf(<<>>) = 0
  <1>1. <<>> \in Seq(FillMsg) /\ Len(<<>>) = 0
    OBVIOUS
  <1>2. PICK f : Adds(f, <<>>) /\ LotsOf(<<>>) = f[0]
    BY <1>1, LotsAre
  <1> QED
    BY <1>2 DEF Adds

\* A fill more adds its lots.
LEMMA LotsAppended ==
    ASSUME NEW s \in Seq(FillMsg), NEW e \in FillMsg
    PROVE  LotsOf(Append(s, e)) = LotsOf(s) + Lot(e)
  <1> DEFINE t == Append(s, e)
             n == Len(s)
  <1>1. /\ t \in Seq(FillMsg) /\ n \in Nat /\ Len(t) = n + 1 /\ t[n + 1] = e
        /\ \A i \in 1..n : s[i] = t[i]
    OBVIOUS
  <1> HIDE DEF t
  <1>2. PICK f : Adds(f, s) /\ LotsOf(s) = f[n]
    BY LotsAre
  <1>3. PICK g : Adds(g, t) /\ LotsOf(t) = g[n + 1]
    BY <1>1, LotsAre
  <1> HIDE DEF n
  <1>4. f[n] = g[n]
    BY <1>1, <1>2, <1>3, AddsAgree DEF n
  <1>5. g[n + 1] = g[n] + Sign(e.side) * e.qty
    <2>1. n + 1 \in 0..Len(t) /\ n + 1 # 0 /\ (n + 1) - 1 = n
      BY <1>1
    <2> QED
      BY <1>1, <1>3, <2>1 DEF Adds
  <1> QED
    BY <1>2, <1>3, <1>4, <1>5 DEF Lot, t

\* The lots of the first fill and those of the rest.
LEMMA LotsPopped ==
    ASSUME NEW s \in Seq(FillMsg), s # <<>>
    PROVE  LotsOf(s) = Lot(Head(s)) + LotsOf(Tail(s))
  <1> DEFINE t == Tail(s)
             e == Head(s)
             m == Len(t)
  <1>1. /\ t \in Seq(FillMsg) /\ m \in Nat /\ Len(s) = m + 1 /\ s[1] = e /\ e \in FillMsg
        /\ \A i \in 1..m : s[i + 1] = t[i] /\ t[i] \in FillMsg
    OBVIOUS
  <1> HIDE DEF t, e
  <1>2. PICK f : Adds(f, s) /\ LotsOf(s) = f[m + 1]
    BY <1>1, LotsAre
  <1>3. PICK g : Adds(g, t) /\ LotsOf(t) = g[m]
    BY LotsAre, <1>1
  <1>4. Lot(e) \in Int /\ \A i \in 1..m : Sign(t[i].side) * t[i].qty \in Int
    <2>1. \A x \in FillMsg : Sign(x.side) \in Int /\ x.qty \in Int
      BY DEF Sign, FillMsg
    <2>2. \A x \in FillMsg : Sign(x.side) * x.qty \in Int
      BY <2>1
    <2> QED
      BY <1>1, <2>2 DEF Lot
  <1>5. /\ \A i \in 0..m + 1 : f[i] = IF i = 0 THEN 0 ELSE f[i - 1] + Sign(s[i].side) * s[i].qty
        /\ \A i \in 0..m : g[i] = IF i = 0 THEN 0 ELSE g[i - 1] + Sign(t[i].side) * t[i].qty
        /\ \A i \in 0..m : g[i] \in Int
    BY <1>1, <1>2, <1>3, AddsValues DEF Adds
  <1> HIDE DEF m
  <1> DEFINE T == {i \in Nat : i <= m => f[i + 1] = Lot(e) + g[i]}
  <1>6. 0 \in T
    <2>1. f[1] = f[0] + Lot(e) /\ f[0] = 0 /\ g[0] = 0
      <3>1. 1 \in 0..m + 1 /\ 0 \in 0..m + 1 /\ 0 \in 0..m /\ 1 - 1 = 0 /\ 1 # 0
        BY <1>1
      <3> QED
        BY <1>1, <1>5, <3>1 DEF Lot
    <2> QED
      BY <1>4, <2>1
  <1>7. ASSUME NEW i \in Nat, i \in T PROVE i + 1 \in T
    <2> SUFFICES ASSUME i + 1 <= m PROVE f[(i + 1) + 1] = Lot(e) + g[i + 1]
      OBVIOUS
    <2> DEFINE x == Sign(t[i + 1].side) * t[i + 1].qty
    <2>1. /\ i + 1 \in 1..m /\ i + 1 \in 0..m /\ i \in 0..m
          /\ (i + 1) + 1 \in 0..m + 1 /\ ((i + 1) + 1) - 1 = i + 1 /\ (i + 1) + 1 # 0
          /\ (i + 1) - 1 = i /\ i + 1 # 0
      BY <1>1
    <2>2. f[i + 1] = Lot(e) + g[i]
      BY <1>1, <1>7
    <2>3. s[(i + 1) + 1] = t[i + 1]
      BY <1>1, <2>1
    <2>4. f[(i + 1) + 1] = f[i + 1] + x
      BY <1>5, <2>1, <2>3
    <2>5. g[i + 1] = g[i] + x
      BY <1>5, <2>1
    <2>6. x \in Int /\ g[i] \in Int
      BY <1>4, <1>5, <2>1
    <2> HIDE DEF x
    <2> QED
      BY <1>4, <2>2, <2>4, <2>5, <2>6
  <1>8. Nat \subseteq T
    <2> HIDE DEF T
    <2> QED
      BY <1>6, <1>7, Induct
  <1>9. f[m + 1] = Lot(e) + g[m]
    BY <1>1, <1>8
  <1> QED
    BY <1>2, <1>3, <1>9 DEF e, t

-----------------------------------------------------------------------------
(* The orders.                                                             *)

ordersVars == <<now, quotes, sent, cleared, pending, ready, buried>>

\* The assumptions on the simulator's constants.
LEMMA SimFacts ==
    /\ MaxSent \in Nat /\ MaxQty \in Nat /\ MaxQty > 0 /\ MaxQueue \in Nat
    /\ SubmitLat \subseteq Nat /\ CancelLat \subseteq Nat /\ Tifs \subseteq {"post", "ioc"}
    /\ Prices \subseteq Int /\ Bids \subseteq Int
  <1>1. \A i \in 1..1000 : 2 * i \in Int
    OBVIOUS
  <1>2. Bids \subseteq Int
    BY <1>1, FillSimAssumption
  <1>3. \A p \in Bids : p + Tick \in Int
    BY <1>2 DEF Tick
  <1>4. Prices \subseteq Int
    BY <1>2, <1>3 DEF Prices
  <1>5. /\ MaxSent \in Nat /\ MaxQty \in Nat \ {0} /\ MaxQueue \in Nat
        /\ SubmitLat \subseteq Nat \ {0} /\ CancelLat \subseteq Nat /\ Tifs \subseteq {"post", "ioc"}
    BY FillSimAssumption
  <1> QED
    BY <1>2, <1>4, <1>5

\* What a sequence holds after its head.
LEMMA Rest ==
    ASSUME NEW S, NEW s \in Seq(S), s # <<>>
    PROVE  /\ Tail(s) \in Seq(S) /\ Head(s) \in S /\ Head(s) = s[1] /\ 1 \in DOMAIN s
           /\ \A i \in DOMAIN Tail(s) : i + 1 \in DOMAIN s /\ Tail(s)[i] = s[i + 1] /\ i + 1 # 1
           /\ \A i, j \in DOMAIN Tail(s) : i # j => i + 1 # j + 1
  OBVIOUS

\* What the strategy asks for names an order that rests, a new one, or none.
LEMMA Asked ==
    ASSUME Held, sent < MaxSent, NEW o \in Requests
    PROVE  /\ o \in Operation /\ o.k = sent + 1
           /\ o.kind \in Makers => o.px \in Prices
           /\ o.kind = "place" => o.id = sent + 1
           /\ o.kind = "replace" => \E q \in quotes : q.id = o.id
           /\ o.kind \in {"cancel", "cancelAll"} => o.id = 0 \/ \E q \in quotes : q.id = o.id
  <1> USE SimFacts
  <1>1. sent + 1 \in Ids /\ sent + 1 \in 0..MaxSent /\ \A l \in SubmitLat \cup CancelLat : now + l \in Nat
    BY DEF Held, Ids
  <1>2. \A q \in quotes : /\ q.id \in Ids /\ q.id \in 0..MaxSent /\ q.side \in Sides /\ q.px \in Prices
                          /\ q.rem \in 1..MaxQty
    BY DEF Held, Order, Ids, Sides
  <1>3. 1 \in 1..MaxQty /\ 0 \in 0..MaxSent
    OBVIOUS
  <1>4. ASSUME NEW kind \in Kinds, NEW id \in 0..MaxSent, NEW side \in Sides,
               NEW px \in Prices \cup {Min(Prices)}, NEW qty \in 1..MaxQty, NEW tif \in {"post", "ioc"},
               NEW lat \in SubmitLat \cup CancelLat
        PROVE  Op(kind, id, side, px, qty, tif, lat) \in Operation
    BY <1>1, <1>4 DEF Op, Operation
  <1>5. ASSUME NEW side \in Sides, NEW px \in Prices, NEW qty \in 1..MaxQty, NEW tif \in Tifs,
               NEW lat \in SubmitLat, o = Op("place", sent + 1, side, px, qty, tif, lat)
        PROVE  o \in Operation /\ o.k = sent + 1 /\ o.kind = "place" /\ o.id = sent + 1 /\ o.px \in Prices
    <2>1. o \in Operation
      BY <1>1, <1>4, <1>5 DEF Kinds
    <2> QED
      BY <2>1, <1>5 DEF Op
  <1>6. ASSUME NEW q \in quotes, NEW px \in Prices, NEW lat \in SubmitLat,
               o = Op("replace", q.id, q.side, px, q.rem, "post", lat)
        PROVE  o \in Operation /\ o.k = sent + 1 /\ o.kind = "replace" /\ o.id = q.id /\ o.px \in Prices
    <2>1. o \in Operation
      BY <1>1, <1>2, <1>4, <1>6 DEF Kinds
    <2> QED
      BY <2>1, <1>6 DEF Op
  <1>7. ASSUME NEW q \in quotes, NEW lat \in CancelLat,
               o = Op("cancel", q.id, q.side, q.px, 1, "post", lat)
        PROVE  o \in Operation /\ o.k = sent + 1 /\ o.kind = "cancel" /\ o.id = q.id
    <2>1. o \in Operation
      BY <1>1, <1>2, <1>3, <1>4, <1>7 DEF Kinds
    <2> QED
      BY <2>1, <1>7 DEF Op
  <1>8. ASSUME NEW kind \in {"cancel", "cancelAll"}, NEW lat \in CancelLat,
               o = Op(kind, 0, "bid", Min(Prices), 1, "post", lat)
        PROVE  o \in Operation /\ o.k = sent + 1 /\ o.kind = kind /\ o.id = 0
    <2>1. o \in Operation
      BY <1>1, <1>3, <1>4, <1>8 DEF Kinds, Sides
    <2> QED
      BY <2>1, <1>8 DEF Op
  <1>9. \/ \E side \in Sides, px \in Prices, qty \in 1..MaxQty, tif \in Tifs, lat \in SubmitLat :
              o = Op("place", sent + 1, side, px, qty, tif, lat)
        \/ \E q \in quotes, px \in Prices, lat \in SubmitLat :
              o = Op("replace", q.id, q.side, px, q.rem, "post", lat)
        \/ \E q \in quotes, lat \in CancelLat : o = Op("cancel", q.id, q.side, q.px, 1, "post", lat)
        \/ \E kind \in {"cancel", "cancelAll"}, lat \in CancelLat :
              o = Op(kind, 0, "bid", Min(Prices), 1, "post", lat)
    BY DEF Requests, Sides
  <1>10. CASE \E side \in Sides, px \in Prices, qty \in 1..MaxQty, tif \in Tifs, lat \in SubmitLat :
                o = Op("place", sent + 1, side, px, qty, tif, lat)
    BY <1>5, <1>10
  <1>11. CASE \E q \in quotes, px \in Prices, lat \in SubmitLat :
                o = Op("replace", q.id, q.side, px, q.rem, "post", lat)
    BY <1>6, <1>11
  <1>12. CASE \E q \in quotes, lat \in CancelLat : o = Op("cancel", q.id, q.side, q.px, 1, "post", lat)
    BY <1>7, <1>12 DEF Makers
  <1>13. CASE \E kind \in {"cancel", "cancelAll"}, lat \in CancelLat :
                o = Op(kind, 0, "bid", Min(Prices), 1, "post", lat)
    BY <1>8, <1>13 DEF Makers
  <1> QED
    BY <1>9, <1>10, <1>11, <1>12, <1>13

\* What the invariant says of an operation that waits, and of an order.
LEMMA WaitingOnes ==
    ASSUME OrdersInv
    PROVE  \A p \in Waiting : /\ p \in Operation /\ p.k \in Nat /\ p.id \in Nat /\ Sound(p)
                              /\ p.k # sent + 1 /\ p.id # sent + 1
  <1>1. \A i \in DOMAIN ready : ready[i] \in Operation
    BY DEF OrdersInv, Held
  <1>2. \A p \in Waiting : p \in Operation /\ Sound(p)
    BY <1>1 DEF OrdersInv, Held, Younger, Waiting
  <1>3. \A p \in Operation : p.k \in Nat /\ p.id \in Nat
    BY SimFacts DEF Operation, Ids
  <1>4. sent \in Nat
    BY SimFacts DEF OrdersInv, Held
  <1> QED
    BY <1>2, <1>3, <1>4 DEF Sound

\* What rests has a name that was given after the last liquidation.
LEMMA QuoteIds ==
    ASSUME OrdersInv
    PROVE  /\ sent \in Nat /\ cleared \in Nat /\ cleared <= sent
           /\ \A q \in quotes : /\ q \in Order /\ q.id \in Nat /\ q.id \in Ids
                                /\ q.id > cleared /\ q.id <= sent
  <1>1. sent \in Nat /\ cleared \in Nat /\ cleared <= sent /\ quotes \subseteq Order
    BY SimFacts DEF OrdersInv, Held
  <1>2. \A q \in Order : q.id \in Ids /\ q.id \in Nat
    BY SimFacts DEF Order, Ids
  <1> QED
    BY <1>1, <1>2 DEF OrdersInv, Younger

\* A request on its way.
LEMMA Sends ==
    ASSUME OrdersInv, NEW o \in Requests, OnAction({o}), UNCHANGED <<now, quotes, cleared, ready, buried>>
    PROVE  OrdersInv'
  <1>1. Cardinality({o}) = 1 /\ IsFiniteSet({o})
    BY FS_Singleton
  <1>2. sent < MaxSent /\ sent' = sent + 1 /\ pending' = pending \cup {o} /\ sent \in Nat
    BY <1>1, SimFacts DEF OnAction, OrdersInv, Held
  <1>3. /\ o \in Operation /\ o.k = sent + 1
        /\ o.kind \in Makers => o.px \in Prices
        /\ o.kind = "place" => o.id = sent + 1
        /\ o.kind = "replace" => \E q \in quotes : q.id = o.id
        /\ o.kind \in {"cancel", "cancelAll"} => o.id = 0 \/ \E q \in quotes : q.id = o.id
    BY <1>2, Asked DEF OrdersInv
  <1>4. Held'
    <2>1. IsFiniteSet(pending')
      BY <1>1, <1>2, FS_Union DEF OrdersInv, Held
    <2> QED
      BY <1>2, <1>3, <2>1, SimFacts DEF OrdersInv, Held
  <1>5. \A p \in Waiting : p \in Operation /\ p.k \in Nat /\ p.id \in Nat /\ Sound(p) /\ p.k # o.k /\ p.id # sent + 1
    BY <1>2, <1>3, WaitingOnes
  <1>6. Sound(o)' /\ \A p \in Waiting : Sound(p)'
    <2>1. cleared \in Nat /\ cleared <= sent
      BY <1>2 DEF OrdersInv, Held
    <2>2. \A q \in quotes : q.id \in Nat /\ q.id > cleared /\ q.id <= sent
      BY QuoteIds
    <2>3. Sound(o)'
      BY <1>2, <1>3, <2>1, <2>2 DEF Sound, Makers, Operation, Kinds
    <2>4. \A p \in Waiting : Sound(p)'
      BY <1>2, <1>5 DEF Sound
    <2> QED
      BY <2>3, <2>4
  <1>7. Waiting' = Waiting \cup {o}
    BY <1>2 DEF Waiting
  <1>8. Younger'
    <2>1. \A q \in quotes : q.id \in Nat /\ q.id > cleared /\ q.id <= sent
      BY QuoteIds
    <2>2. (\A q \in quotes : q.id > cleared /\ q.id <= sent)'
      BY <1>2, <2>1
    <2> QED
      BY <1>2, <1>6, <2>2 DEF Younger, Waiting
  <1>9. Once'
    <2>1. \A p \in pending : p.k # o.k
      BY <1>5 DEF Waiting
    <2>2. \A i \in DOMAIN ready : ready[i].k # o.k
      BY <1>5 DEF Waiting
    <2> QED
      BY <1>2, <2>1, <2>2 DEF OrdersInv, Once
  <1>10. \A q \in quotes : buried[q.id] = 0 /\ q.id \in Nat /\ q.id <= sent
    BY QuoteIds DEF OrdersInv, Graves
  <1>11. Graves'
    <2>1. \A id \in Ids : id > sent' => buried[id] = 0
      BY <1>2 DEF OrdersInv, Graves, Ids
    <2>2. o.kind = "replace" => buried[o.id] = 0
      BY <1>3, <1>10
    <2> QED
      BY <1>2, <2>1, <2>2 DEF OrdersInv, Graves
  <1>12. Unborn'
    <2> SUFFICES ASSUME NEW p \in Waiting', p.kind = "place"
                 PROVE  /\ buried[p.id] = 0
                        /\ \A q \in quotes : q.id # p.id
                        /\ \A r \in Waiting' : r.id = p.id => r.k = p.k
      BY DEF Unborn
    <2>1. CASE p = o
      <3>1. buried[sent + 1] = 0
        BY <1>2, SimFacts DEF OrdersInv, Graves, Ids
      <3>2. \A q \in quotes : q.id # sent + 1
        BY <1>2, <1>10
      <3> QED
        BY <1>3, <1>5, <1>7, <2>1, <3>1, <3>2
    <2>2. CASE p \in Waiting
      <3>1. p.k \in Nat /\ p.id \in Nat /\ p.id <= sent /\ p.k <= sent /\ p.id = p.k
        BY <1>5, <2>2 DEF Sound
      <3>2. o.id # p.id
        <4>1. o.kind \in Kinds
          BY <1>3 DEF Operation
        <4>2. CASE o.kind = "place"
          BY <1>2, <1>3, <3>1, <4>2
        <4>3. CASE o.kind # "place"
          <5>1. o.id = 0 \/ \E q \in quotes : q.id = o.id
            BY <1>3, <4>1, <4>3 DEF Kinds
          <5>2. \A q \in quotes : q.id # p.id
            BY <2>2 DEF OrdersInv, Unborn
          <5>3. p.id # 0
            BY <1>5, <2>2, <3>1 DEF Operation, Ids
          <5> QED
            BY <5>1, <5>2, <5>3
        <4> QED
          BY <4>2, <4>3
      <3> QED
        BY <1>7, <2>2, <3>2 DEF OrdersInv, Unborn
    <2> QED
      BY <1>7, <2>1, <2>2
  <1> QED
    BY <1>4, <1>8, <1>9, <1>11, <1>12 DEF OrdersInv

\* Nothing happens to the orders.
LEMMA Kept == OrdersInv /\ UNCHANGED ordersVars => OrdersInv'
  BY DEF OrdersInv, Held, Younger, Sound, Once, Unborn, Waiting, Graves, ordersVars

\* Orders change on the book, or leave it; none appears.
LEMMA Thinned ==
    ASSUME OrdersInv, UNCHANGED <<now, sent, cleared, pending, ready, buried>>,
           quotes' \subseteq Order, \A q \in quotes' : \E r \in quotes : r.id = q.id
    PROVE  OrdersInv'
  <1>1. Held'
    BY DEF OrdersInv, Held
  <1>2. Younger'
    BY DEF OrdersInv, Younger, Sound
  <1>3. Once'
    BY DEF OrdersInv, Once
  <1>4. Unborn'
    BY DEF OrdersInv, Unborn, Waiting
  <1>5. Graves'
    BY DEF OrdersInv, Graves
  <1> QED
    BY <1>1, <1>2, <1>3, <1>4, <1>5 DEF OrdersInv

\* The next event, with everything drained applied.
LEMMA Later ==
    ASSUME OrdersInv, ready = <<>>, now' \in Nat,
           UNCHANGED <<quotes, sent, cleared, pending, ready, buried>>
    PROVE  OrdersInv'
  <1>1. DOMAIN ready = {}
    OBVIOUS
  <1>2. Held'
    BY DEF OrdersInv, Held
  <1>3. Younger' /\ Once' /\ Unborn'
    BY DEF OrdersInv, Younger, Sound, Once, Unborn, Waiting
  <1>4. Graves'
    BY <1>1 DEF OrdersInv, Graves
  <1> QED
    BY <1>2, <1>3, <1>4 DEF OrdersInv

\* The account's quotes and the operations that would make new ones are dropped,
\* with or without a liquidation.
LEMMA Dropped ==
    ASSUME OrdersInv, ready = <<>>, DropQuotes, cleared' \in {cleared, sent},
           UNCHANGED <<now, sent, ready, buried>>
    PROVE  OrdersInv'
  <1>1. /\ DOMAIN ready = {} /\ quotes' = {} /\ pending' \subseteq pending
        /\ \A o \in pending' : o.kind \in {"cancel", "cancelAll"}
    BY DEF DropQuotes
  <1>2. IsFiniteSet(pending')
    BY <1>1, FS_Subset DEF OrdersInv, Held
  <1>3. Held'
    BY <1>1, <1>2, QuoteIds DEF OrdersInv, Held
  <1>4. Younger'
    BY <1>1 DEF OrdersInv, Younger, Sound, Makers
  <1>5. Once'
    BY <1>1 DEF OrdersInv, Once
  <1>6. Unborn'
    BY <1>1 DEF Unborn, Waiting
  <1>7. Graves'
    BY <1>1 DEF OrdersInv, Graves
  <1> QED
    BY <1>3, <1>4, <1>5, <1>6, <1>7 DEF OrdersInv

\* The operations that are due are drained, in their order.
LEMMA Drained ==
    ASSUME OrdersInv, Drain, UNCHANGED cleared
    PROVE  OrdersInv'
  <1> DEFINE due == {o \in pending : o.due <= now}
             n == Cardinality(due)
  <1>1. /\ ready = <<>> /\ ready' \in InOrder(due) /\ pending' = pending \ due
        /\ quotes' \subseteq quotes /\ UNCHANGED <<now, sent, buried>>
    BY DEF Drain
  <1>2. due \subseteq pending /\ due \subseteq Operation /\ n \in Nat /\ IsFiniteSet(pending')
    <2>1. IsFiniteSet(pending)
      BY DEF OrdersInv, Held
    <2>2. due \subseteq pending
      OBVIOUS
    <2>3. IsFiniteSet(due)
      BY <2>1, <2>2, FS_Subset
    <2>4. pending' \subseteq pending
      BY <1>1
    <2> QED
      BY <2>1, <2>2, <2>3, <2>4, FS_Subset, FS_CardinalityType DEF OrdersInv, Held
  <1> HIDE DEF due
  <1>3. /\ ready' \in [1..n -> due]
        /\ \A i, j \in 1..n : i < j =>
              (ready'[i].due < ready'[j].due \/ (ready'[i].due = ready'[j].due /\ ready'[i].k < ready'[j].k))
    BY <1>1 DEF InOrder
  <1> HIDE DEF n
  <1>4. ready' \in Seq(Operation) /\ DOMAIN ready' = 1..n /\ \A i \in 1..n : ready'[i] \in due
    BY <1>2, <1>3
  <1>5. Held'
    BY <1>1, <1>2, <1>4 DEF OrdersInv, Held
  <1>6. Waiting' \subseteq Waiting
    BY <1>1, <1>2, <1>4 DEF Waiting
  <1>7. Younger'
    <2>1. \A p \in Waiting : Sound(p)'
      BY <1>1, WaitingOnes DEF Sound
    <2> QED
      BY <1>1, <1>4, <1>6, <2>1 DEF OrdersInv, Younger, Waiting
  <1>8. Once'
    <2>1. ASSUME NEW i \in 1..n, NEW j \in 1..n, i < j PROVE ready'[i].k # ready'[j].k
      <3>1. ready'[i] \in pending /\ ready'[j] \in pending
        BY <1>2, <1>4
      <3>2. ready'[i] \in Operation /\ ready'[j] \in Operation
        BY <1>2, <1>4
      <3>3. ready'[i].k \in Nat /\ ready'[i].due \in Nat
        BY <3>2, SimFacts DEF Operation, Ids
      <3>4. ready'[i] # ready'[j]
        BY <1>3, <2>1, <3>3
      <3> QED
        BY <3>1, <3>4 DEF OrdersInv, Once
    <2>2. \A i, j \in 1..n : i # j => ready'[i].k # ready'[j].k
      <3> TAKE i, j \in 1..n
      <3>1. i # j => i < j \/ j < i
        BY <1>2
      <3> QED
        BY <2>1, <3>1
    <2>3. ASSUME NEW i \in 1..n, NEW o \in pending' PROVE o.k # ready'[i].k
      BY <1>1, <1>2, <1>4 DEF OrdersInv, Once
    <2>4. \A o, p \in pending' : o.k = p.k => o = p
      BY <1>1 DEF OrdersInv, Once
    <2> QED
      BY <1>4, <2>2, <2>3, <2>4 DEF Once
  <1>9. Unborn'
    BY <1>1, <1>6 DEF OrdersInv, Unborn
  <1>10. Graves'
    BY <1>1, <1>2, <1>4 DEF OrdersInv, Graves
  <1> QED
    BY <1>5, <1>7, <1>8, <1>9, <1>10 DEF OrdersInv

\* The operation that is applied next, and those that stay.
LEMMA NextOp ==
    ASSUME OrdersInv, ready # <<>>, ready' = Tail(ready), pending' \subseteq pending
    PROVE  /\ Head(ready) \in Operation /\ Head(ready) \in Waiting /\ Sound(Head(ready))
           /\ Head(ready) = ready[1] /\ 1 \in DOMAIN ready
           /\ ready' \in Seq(Operation) /\ Waiting' \subseteq Waiting
           /\ \A i \in DOMAIN ready' : i + 1 \in DOMAIN ready /\ ready'[i] = ready[i + 1]
           /\ \A i, j \in DOMAIN ready' : i # j => i + 1 # j + 1
           /\ \A p \in Waiting' : p.k # Head(ready).k
  <1>1. ready \in Seq(Operation)
    BY DEF OrdersInv, Held
  <1>2. /\ ready' \in Seq(Operation) /\ Head(ready) \in Operation /\ Head(ready) = ready[1] /\ 1 \in DOMAIN ready
        /\ \A i \in DOMAIN ready' : i + 1 \in DOMAIN ready /\ ready'[i] = ready[i + 1] /\ i + 1 # 1
        /\ \A i, j \in DOMAIN ready' : i # j => i + 1 # j + 1
    BY <1>1, Rest
  <1>3. Head(ready) \in Waiting /\ Waiting' \subseteq Waiting
    BY <1>2 DEF Waiting
  <1>4. \A p \in Waiting' : p.k # Head(ready).k
    BY <1>2 DEF OrdersInv, Once, Waiting
  <1> QED
    BY <1>2, <1>3, <1>4, WaitingOnes

\* An operation is applied: what it leaves waiting, and what its order's name
\* may then be on the book.
LEMMA Consumed ==
    ASSUME OrdersInv, ready # <<>>, ready' = Tail(ready), pending' \subseteq pending,
           UNCHANGED <<now, sent, cleared>>, quotes' \subseteq Order,
           \A q \in quotes' : (\E r \in quotes : r.id = q.id) \/ (Head(ready).kind \in Makers /\ q.id = Head(ready).id),
           buried' \in [Ids -> Nat], Graves',
           \A p \in Waiting' : p.kind = "place" => buried'[p.id] = 0
    PROVE  OrdersInv'
  <1> DEFINE o == Head(ready)
  <1>1. /\ o \in Operation /\ o \in Waiting /\ Sound(o)
        /\ ready' \in Seq(Operation) /\ Waiting' \subseteq Waiting
        /\ \A i \in DOMAIN ready' : i + 1 \in DOMAIN ready /\ ready'[i] = ready[i + 1]
        /\ \A i, j \in DOMAIN ready' : i # j => i + 1 # j + 1
        /\ \A p \in Waiting' : p.k # o.k
    BY NextOp
  <1>2. \A q \in quotes' : (\E r \in quotes : r.id = q.id) \/ (o.kind \in Makers /\ q.id = o.id)
    OBVIOUS
  <1> HIDE DEF o
  <1>3. Held'
    <2>1. IsFiniteSet(pending')
      BY FS_Subset DEF OrdersInv, Held
    <2> QED
      BY <1>1, <2>1 DEF OrdersInv, Held
  <1>4. Younger'
    <2>1. \A p \in Waiting' : Sound(p)'
      BY <1>1, WaitingOnes DEF Sound
    <2>2. \A q \in quotes' : q.id > cleared /\ q.id <= sent
      BY <1>1, <1>2 DEF OrdersInv, Younger, Sound
    <2> QED
      BY <2>1, <2>2 DEF Younger, Waiting
  <1>5. Once'
    BY <1>1 DEF OrdersInv, Once
  <1>6. Unborn'
    <2> SUFFICES ASSUME NEW p \in Waiting', p.kind = "place"
                 PROVE  /\ buried'[p.id] = 0
                        /\ \A q \in quotes' : q.id # p.id
                        /\ \A r \in Waiting' : r.id = p.id => r.k = p.k
      BY DEF Unborn
    <2>1. /\ p \in Waiting /\ \A q \in quotes : q.id # p.id
          /\ \A r \in Waiting : r.id = p.id => r.k = p.k
      BY <1>1 DEF OrdersInv, Unborn
    <2>2. o.id # p.id
      BY <1>1, <2>1
    <2> QED
      BY <1>1, <1>2, <2>1, <2>2
  <1> QED
    BY <1>3, <1>4, <1>5, <1>6 DEF OrdersInv

\* A cancel removes its order, its replacements on the way, and nothing comes
\* back for it but what is drained already.
LEMMA Cancels == ASSUME OrdersInv, ApplyCancel, UNCHANGED cleared PROVE OrdersInv'
  <1> DEFINE o == Head(ready)
  <1>1. /\ ready # <<>> /\ o.kind = "cancel" /\ ready' = Tail(ready)
        /\ quotes' = {q \in quotes : q.id # o.id}
        /\ pending' = {p \in pending : ~(p.kind = "replace" /\ p.id = o.id)}
        /\ buried' = [i \in Ids |-> IF i = o.id THEN now ELSE buried[i]]
        /\ UNCHANGED <<now, sent>>
    BY DEF ApplyCancel, Purge
  <1>2. pending' \subseteq pending /\ quotes' \subseteq quotes
    BY <1>1
  <1>3. /\ o \in Waiting /\ Sound(o) /\ Waiting' \subseteq Waiting
        /\ \A i \in DOMAIN ready' : i + 1 \in DOMAIN ready /\ ready'[i] = ready[i + 1]
        /\ \A p \in Waiting' : p.k # o.k
    BY <1>1, <1>2, NextOp
  <1> HIDE DEF o
  <1>4. now \in Nat /\ buried \in [Ids -> Nat] /\ quotes \subseteq Order /\ sent \in Nat
    BY QuoteIds DEF OrdersInv, Held
  <1>5. \A p \in Waiting' : p.kind \in Makers => p.id \in Ids
    BY <1>3, WaitingOnes, QuoteIds, SimFacts DEF Sound, Operation, Ids
  <1>6. buried' \in [Ids -> Nat]
    BY <1>1, <1>4
  <1>7. Graves'
    <2>1. \A id \in Ids : id > sent => buried'[id] = 0
      BY <1>1, <1>3, <1>4, SimFacts DEF OrdersInv, Graves, Sound, Ids
    <2>2. \A q \in quotes' : buried'[q.id] = 0
      BY <1>1, QuoteIds DEF OrdersInv, Graves
    <2>3. \A p \in pending' : p.kind = "replace" => buried'[p.id] = 0
      BY <1>1, <1>5 DEF OrdersInv, Graves, Waiting, Makers
    <2>4. \A i \in DOMAIN ready' : ready'[i].kind = "replace" => buried'[ready'[i].id] \in {0, now}
      BY <1>1, <1>3, <1>5 DEF OrdersInv, Graves, Waiting, Makers
    <2> QED
      BY <1>1, <2>1, <2>2, <2>3, <2>4 DEF Graves
  <1>8. ASSUME NEW p \in Waiting', p.kind = "place" PROVE buried'[p.id] = 0
    <2>1. buried[p.id] = 0 /\ p.id # o.id
      BY <1>3, <1>8 DEF OrdersInv, Unborn
    <2>2. p.id \in Ids
      BY <1>5, <1>8 DEF Makers
    <2> QED
      BY <1>1, <2>1, <2>2
  <1>9. \A q \in quotes' : (\E r \in quotes : r.id = q.id) \/ (Head(ready).kind \in Makers /\ q.id = Head(ready).id)
    BY <1>2
  <1>10. quotes' \subseteq Order /\ UNCHANGED <<now, sent, cleared>>
    BY <1>1, <1>2, <1>4
  <1>11. \A p \in Waiting' : p.kind = "place" => buried'[p.id] = 0
    BY <1>8
  <1> QED
    BY <1>1, <1>2, <1>6, <1>7, <1>9, <1>10, <1>11, Consumed

\* A CancelAll removes what rests.
LEMMA CancelsAll == ASSUME OrdersInv, ApplyCancelAll, UNCHANGED cleared PROVE OrdersInv'
  <1>1. /\ ready # <<>> /\ ready' = Tail(ready) /\ quotes' = {} /\ pending' \subseteq pending
        /\ UNCHANGED <<now, sent, pending, buried>>
    BY DEF ApplyCancelAll
  <1>2. /\ Waiting' \subseteq Waiting
        /\ \A i \in DOMAIN ready' : i + 1 \in DOMAIN ready /\ ready'[i] = ready[i + 1]
    BY <1>1, NextOp
  <1>3. Graves'
    BY <1>1, <1>2 DEF OrdersInv, Graves
  <1>4. buried' \in [Ids -> Nat] /\ \A p \in Waiting' : p.kind = "place" => buried'[p.id] = 0
    BY <1>1, <1>2 DEF OrdersInv, Held, Unborn
  <1> QED
    BY <1>1, <1>3, <1>4, Consumed

\* A Place or a Replace, whatever the gates make of it: the history forgets the
\* cancels of what rests then.
LEMMA Makes ==
    ASSUME OrdersInv, ready # <<>>, ready' = Tail(ready), pending' \subseteq pending,
           UNCHANGED <<now, sent, cleared>>, quotes' \subseteq Order,
           Head(ready).kind \in Makers, Unburied,
           \A q \in quotes' : q.id = Head(ready).id \/ \E r \in quotes : r.id = q.id
    PROVE  OrdersInv'
  <1> DEFINE o == Head(ready)
  <1>1. /\ o \in Waiting /\ Sound(o) /\ Waiting' \subseteq Waiting
        /\ \A i \in DOMAIN ready' : i + 1 \in DOMAIN ready /\ ready'[i] = ready[i + 1]
        /\ \A p \in Waiting' : p.k # o.k
    BY NextOp
  <1> HIDE DEF o
  <1>2. now \in Nat /\ buried \in [Ids -> Nat] /\ sent \in Nat
    BY QuoteIds DEF OrdersInv, Held
  <1>3. buried' = [i \in Ids |-> IF \E q \in quotes' : q.id = i THEN 0 ELSE buried[i]]
    BY DEF Unburied
  <1>4. buried' \in [Ids -> Nat] /\ \A i \in Ids : buried'[i] \in {0, buried[i]}
    BY <1>2, <1>3
  <1>5. \A p \in Waiting' : p.kind \in Makers => p.id \in Ids
    BY <1>1, WaitingOnes, QuoteIds, SimFacts DEF Sound, Operation, Ids
  <1>6. Graves'
    <2>1. \A id \in Ids : id > sent => buried'[id] = 0
      BY <1>4 DEF OrdersInv, Graves
    <2>2. \A q \in quotes' : q.id \in Ids
      BY DEF Order
    <2>3. \A q \in quotes' : buried'[q.id] = 0
      BY <1>3, <2>2
    <2>4. \A p \in pending' : p.kind = "replace" => buried'[p.id] = 0
      BY <1>4, <1>5 DEF OrdersInv, Graves, Waiting, Makers
    <2>5. \A i \in DOMAIN ready' : ready'[i].kind = "replace" => buried'[ready'[i].id] \in {0, now}
      BY <1>1, <1>4, <1>5 DEF OrdersInv, Graves, Waiting, Makers
    <2> QED
      BY <2>1, <2>3, <2>4, <2>5 DEF Graves
  <1>7. \A p \in Waiting' : p.kind = "place" => buried'[p.id] = 0
    BY <1>1, <1>4, <1>5 DEF OrdersInv, Unborn, Makers
  <1>8. \A q \in quotes' : (\E r \in quotes : r.id = q.id) \/ (Head(ready).kind \in Makers /\ q.id = Head(ready).id)
    OBVIOUS
  <1>9. buried' \in [Ids -> Nat]
    BY <1>4
  <1> QED
    BY <1>6, <1>7, <1>8, <1>9, Consumed

-----------------------------------------------------------------------------
(* The fills.                                                              *)

\* What the remaining variables hold that the proofs need typed.
BooksHeld == fills \in Seq(FillMsg) /\ outside \in Int /\ lastNet \in Int

SessionInv == OrdersInv /\ InStage /\ BooksHeld /\ NoFillFromBefore /\ TypeOK /\ EveryFillBooked

\* The fills of an event with one more.
LEMMA Longer ==
    ASSUME NEW S, NEW s \in Seq(S), NEW e \in S
    PROVE  /\ Append(s, e) \in Seq(S) /\ Append(s, e) # <<>>
           /\ \A i \in 1..Len(Append(s, e)) : Append(s, e)[i] = e \/ (i \in 1..Len(s) /\ Append(s, e)[i] = s[i])
  OBVIOUS

\* A fill is a message to the tracker.
LEMMA FillTyped ==
    ASSUME NEW id \in Ids, NEW side \in Sides, NEW px \in Int, NEW qty \in 1..MaxQty, NEW full \in BOOLEAN
    PROVE  /\ FillOf(id, side, px, qty, full) \in FillMsg
           /\ FillOf(id, side, px, qty, full).id = id
           /\ Lot(FillOf(id, side, px, qty, full)) = Sign(side) * qty
  BY DEF FillOf, FillMsg, Lot

\* What happened to the simulator's position and to the fills under way: both
\* grew by the same fill of an order that bears this name, or neither.
Filled(id) ==
    \/ units' = units /\ fills' = fills
    \/ \E e \in FillMsg : e.id = id /\ units' = units + Lot(e) /\ fills' = Append(fills, e)

\* A Place or a Replace goes through the gates.
LEMMA Gated ==
    ASSUME SessionInv, NEW o \in Operation, o.px \in Prices, o.id \in Ids,
           NEW S \in SUBSET Order, NEW restore \in SUBSET Order, PlaceOrReject(o, S, restore)
    PROVE  /\ quotes' \subseteq Order /\ \A q \in quotes' : q \in S \cup restore \/ q.id = o.id
           /\ Filled(o.id)
  <1> USE SimFacts
  <1>1. o.side \in Sides /\ o.qty \in 1..MaxQty
    BY DEF Operation
  <1>2. simBid \in Int /\ units \in Int
    BY DEF SessionInv, TypeOK
  <1> DEFINE why == Refusal(o, S)
  <1>3. CASE quotes' = S \cup restore /\ UNCHANGED <<units, fills>>
    BY <1>3 DEF Filled
  <1>4. ASSUME NEW queue \in 0..MaxQueue, UNCHANGED <<units, fills>>,
               quotes' = S \cup {[id |-> o.id, side |-> o.side, px |-> o.px, rem |-> o.qty, queue |-> queue]}
        PROVE  /\ quotes' \subseteq Order /\ \A q \in quotes' : q \in S \cup restore \/ q.id = o.id
               /\ Filled(o.id)
    <2>1. [id |-> o.id, side |-> o.side, px |-> o.px, rem |-> o.qty, queue |-> queue] \in Order
      BY <1>1 DEF Order, Sides
    <2> QED
      BY <1>4, <2>1 DEF Filled
  <1>5. ASSUME NEW got \in Nat, got <= o.qty, NEW px \in Int, quotes' = S,
               units' = units + Sign(o.side) * got,
               fills' = IF got = 0 THEN fills
                        ELSE Append(fills, FillOf(o.id, o.side, px, got, got = o.qty))
        PROVE  /\ quotes' \subseteq Order /\ \A q \in quotes' : q \in S \cup restore \/ q.id = o.id
               /\ Filled(o.id)
    <2>1. CASE got = 0
      BY <1>2, <1>5, <2>1 DEF Filled, Sign
    <2>2. CASE got # 0
      <3>1. got \in 1..MaxQty
        BY <1>1, <1>5, <2>2
      <3> DEFINE full == got = o.qty
                 e == FillOf(o.id, o.side, px, got, full)
      <3>2. full \in BOOLEAN
        OBVIOUS
      <3>3. fills' = Append(fills, e)
        BY <1>5, <2>2
      <3> HIDE DEF full
      <3>4. e \in FillMsg /\ e.id = o.id /\ Lot(e) = Sign(o.side) * got
        BY <1>1, <3>1, <3>2, FillTyped
      <3> QED
        BY <1>5, <3>3, <3>4 DEF Filled
    <2> QED
      BY <2>1, <2>2
  <1>6. \/ quotes' = S \cup restore /\ UNCHANGED <<units, fills>>
        \/ \E queue \in 0..MaxQueue :
              /\ UNCHANGED <<units, fills>>
              /\ quotes' = S \cup {[id |-> o.id, side |-> o.side, px |-> o.px, rem |-> o.qty, queue |-> queue]}
        \/ \E got \in 0..o.qty \cup {0} :
              /\ quotes' = S
              /\ units' = units + Sign(o.side) * got
              /\ fills' = IF got = 0 THEN fills
                          ELSE Append(fills, FillOf(o.id, o.side, IF o.side = "bid" THEN simBid + Tick ELSE simBid,
                                                    got, got = o.qty))
    <2> HIDE DEF why
    <2>1. CASE why # "" /\ quotes' = S \cup restore /\ UNCHANGED <<units, fills>>
      BY <2>1
    <2>2. CASE \E queue \in 0..MaxQueue :
                  quotes' = S \cup {[id |-> o.id, side |-> o.side, px |-> o.px, rem |-> o.qty, queue |-> queue]}
                  /\ UNCHANGED <<units, fills>>
      BY <2>2
    <2>3. CASE /\ quotes' = S
               /\ \E got \in IF WouldCross(o.side, o.px) THEN 0..o.qty ELSE {0} :
                     LET px == IF o.side = "bid" THEN simBid + Tick ELSE simBid
                     IN  /\ units' = units + Sign(o.side) * got
                         /\ fills' = IF got = 0 THEN fills
                                     ELSE Append(fills, FillOf(o.id, o.side, px, got, got = o.qty))
      BY <2>3
    <2> QED
      BY <2>1, <2>2, <2>3 DEF PlaceOrReject, why
  <1>8. \A got \in 0..o.qty \cup {0} : got \in Nat /\ got <= o.qty
    BY <1>1
  <1>p. (IF o.side = "bid" THEN simBid + Tick ELSE simBid) \in Int
    BY <1>2 DEF Tick
  <1> QED
    BY <1>3, <1>4, <1>5, <1>6, <1>8, <1>p

\* A trade reaches a quote: it fills what it does not leave to the queue ahead.
LEMMA Matches ==
    ASSUME SessionInv, NEW q \in quotes, MatchOne(q, event.side, event.px, left), left > 0
    PROVE  /\ quotes' \subseteq Order /\ \A r \in quotes' : \E p \in quotes : p.id = r.id
           /\ Filled(q.id)
  <1> USE SimFacts
  <1>1. /\ q \in Order /\ quotes \subseteq Order /\ units \in Int /\ left \in Nat
    BY DEF SessionInv, TypeOK
  <1>2. q.id \in Ids /\ q.side \in Sides /\ q.px \in Prices /\ q.px \in Int /\ q.rem \in 1..MaxQty /\ q.queue \in 0..MaxQueue
    BY <1>1 DEF Order, Sides
  <1> DEFINE ate == IF event.px # q.px THEN 0 ELSE IF q.queue < left THEN q.queue ELSE left
             got == IF q.rem < left - ate THEN q.rem ELSE left - ate
             rest == [q EXCEPT !.queue = IF event.px = q.px THEN @ - ate ELSE 0, !.rem = @ - got]
  <1>3. ate \in 0..left /\ (event.px = q.px => q.queue - ate \in 0..MaxQueue)
    BY <1>1, <1>2
  <1>4. /\ quotes' = (quotes \ {q}) \cup (IF rest.rem = 0 THEN {} ELSE {rest})
        /\ units' = units + Sign(q.side) * got
        /\ fills' = IF got = 0 THEN fills ELSE Append(fills, FillOf(q.id, q.side, q.px, got, got = q.rem))
    BY DEF MatchOne
  <1>5. rest.id = q.id /\ rest.side = q.side /\ rest.px = q.px /\ rest.rem = q.rem - got
        /\ rest.queue = (IF event.px = q.px THEN q.queue - ate ELSE 0)
        /\ rest = [id |-> rest.id, side |-> rest.side, px |-> rest.px, rem |-> rest.rem, queue |-> rest.queue]
    <2> DEFINE x == IF event.px = q.px THEN q.queue - ate ELSE 0
               y == q.rem - got
    <2>1. rest = [q EXCEPT !.queue = x, !.rem = y]
      OBVIOUS
    <2> HIDE DEF ate, got, x, y, rest
    <2>2. rest = [id |-> q.id, side |-> q.side, px |-> q.px, rem |-> y, queue |-> x]
      BY <1>1, <2>1 DEF Order
    <2> QED
      BY <2>2 DEF x, y
  <1> HIDE DEF rest, ate
  <1>6. got \in 0..q.rem /\ got \in 0..MaxQty
    BY <1>1, <1>2, <1>3
  <1> HIDE DEF got
  <1>7. rest.rem # 0 => rest \in Order
    <2> SUFFICES ASSUME rest.rem # 0 PROVE rest \in Order
      OBVIOUS
    <2>1. rest.rem \in 1..MaxQty
      BY <1>2, <1>5, <1>6
    <2>2. rest.queue \in 0..MaxQueue
      BY <1>3, <1>5
    <2> QED
      BY <1>2, <1>5, <2>1, <2>2 DEF Order, Sides
  <1>8. quotes' \subseteq Order /\ \A r \in quotes' : \E p \in quotes : p.id = r.id
    BY <1>1, <1>4, <1>5, <1>7
  <1>9. Filled(q.id)
    <2>1. CASE got = 0
      BY <1>1, <1>4, <2>1 DEF Filled, Sign
    <2>2. CASE got # 0
      <3>1. got \in 1..MaxQty
        BY <1>6, <2>2
      <3> DEFINE full == got = q.rem
                 e == FillOf(q.id, q.side, q.px, got, full)
      <3>2. full \in BOOLEAN
        OBVIOUS
      <3>3. fills' = Append(fills, e)
        BY <1>4, <2>2
      <3> HIDE DEF full
      <3>4. e \in FillMsg /\ e.id = q.id /\ Lot(e) = Sign(q.side) * got
        BY <1>2, <3>1, <3>2, FillTyped
      <3> QED
        BY <1>4, <3>3, <3>4 DEF Filled
    <2> QED
      BY <2>1, <2>2
  <1> QED
    BY <1>8, <1>9

\* An operation that makes an order is applied.
LEMMA MakerApplied ==
    ASSUME SessionInv, ApplyPlace \/ ApplyReplace
    PROVE  /\ ready # <<>> /\ ready' = Tail(ready) /\ pending' \subseteq pending
           /\ UNCHANGED <<now, simBid, sent, power>> /\ Unburied
           /\ Head(ready).kind \in Makers /\ Head(ready).id \in Ids /\ Head(ready).id > cleared
           /\ quotes' \subseteq Order /\ \A q \in quotes' : q.id = Head(ready).id \/ \E r \in quotes : r.id = q.id
           /\ Filled(Head(ready).id)
  <1> DEFINE o == Head(ready)
             old == {q \in quotes : q.id = o.id}
  <1>1. /\ ready # <<>> /\ ready' = Tail(ready) /\ pending' \subseteq pending
        /\ UNCHANGED <<now, simBid, sent, power>> /\ Unburied /\ o.kind \in Makers
    BY DEF ApplyPlace, ApplyReplace, Purge, Makers
  <1>2. PlaceOrReject(o, quotes, {}) \/ PlaceOrReject(o, quotes \ old, old)
    BY DEF ApplyPlace, ApplyReplace
  <1>3. o \in Operation /\ Sound(o)
    BY <1>1, NextOp DEF SessionInv
  <1> HIDE DEF o
  <1>4. o.px \in Prices /\ o.id \in Ids /\ o.id > cleared
    BY <1>1, <1>3, QuoteIds, SimFacts DEF Sound, Operation, Ids, SessionInv
  <1>5. quotes \in SUBSET Order /\ quotes \ old \in SUBSET Order /\ old \in SUBSET Order /\ {} \in SUBSET Order
    BY DEF SessionInv, TypeOK
  <1>6. CASE PlaceOrReject(o, quotes, {})
    <2>1. /\ quotes' \subseteq Order /\ \A q \in quotes' : q \in quotes \cup {} \/ q.id = o.id
          /\ Filled(o.id)
      BY <1>3, <1>4, <1>5, <1>6, Gated
    <2> QED
      BY <1>1, <1>4, <2>1 DEF o
  <1>7. CASE PlaceOrReject(o, quotes \ old, old)
    <2>1. /\ quotes' \subseteq Order /\ \A q \in quotes' : q \in (quotes \ old) \cup old \/ q.id = o.id
          /\ Filled(o.id)
      BY <1>3, <1>4, <1>5, <1>7, Gated
    <2> QED
      BY <1>1, <1>4, <2>1 DEF o
  <1> QED
    BY <1>2, <1>6, <1>7

-----------------------------------------------------------------------------
(* The steps of the arm.                                                   *)

\* The orders.
LEMMA OrdersKeep == SessionInv /\ Next => OrdersInv'
  <1> SUFFICES ASSUME SessionInv, Next PROVE OrdersInv'
    OBVIOUS
  <1>i. OrdersInv /\ InStage /\ quotes \subseteq Order
    BY DEF SessionInv, TypeOK
  <1>1. CASE Take
    <2>1. PICK dt \in Steps : now' = now + dt
      BY <1>1 DEF Take
    <2>2. now' \in Nat
      BY <1>i, <2>1, PaperRunAssumption DEF OrdersInv, Held
    <2>3. ready = <<>> /\ UNCHANGED <<quotes, sent, cleared, pending, ready, buried>>
      BY <1>1, <1>i DEF Take, InStage
    <2> QED
      BY <1>i, <2>2, <2>3, Later
  <1>2. CASE Liquidate
    BY <1>2, <1>i, Dropped DEF Liquidate, InStage
  <1>3. CASE Spared \/ Hold \/ Sent \/ SeeTrade \/ Matched \/ Delivered \/ Skim
    <2>1. UNCHANGED ordersVars
      BY <1>3 DEF Spared, Hold, Sent, SeeTrade, Matched, Delivered, Skim, simVars, ordersVars
    <2> QED
      BY <1>i, <2>1, Kept
  <1>4. CASE Flatten
    <2>1. /\ ready = <<>> /\ UNCHANGED <<now, sent, cleared, ready, buried>>
          /\ DropQuotes \/ UNCHANGED <<quotes, pending>>
      BY <1>4, <1>i DEF Flatten, InStage
    <2>2. CASE DropQuotes
      BY <1>i, <2>1, <2>2, Dropped
    <2>3. CASE UNCHANGED <<quotes, pending>>
      BY <1>i, <2>1, <2>3, Kept DEF ordersVars
    <2> QED
      BY <2>1, <2>2, <2>3
  <1>5. CASE Emit \/ Deliver \/ Recover
    <2>1. /\ UNCHANGED <<now, quotes, cleared, ready, buried>>
          /\ UNCHANGED <<pending, sent>> \/ \E o \in Requests : OnAction({o})
      BY <1>5 DEF Emit, Deliver, Recover, runVars
    <2>2. CASE UNCHANGED <<pending, sent>>
      BY <1>i, <2>1, <2>2, Kept DEF ordersVars
    <2>3. CASE \E o \in Requests : OnAction({o})
      BY <1>i, <2>1, <2>3, Sends
    <2> QED
      BY <2>1, <2>2, <2>3
  <1>6. CASE DrainStep
    BY <1>6, <1>i, Drained DEF DrainStep
  <1>7. CASE ApplyStep
    <2>1. UNCHANGED cleared /\ Apply
      BY <1>7 DEF ApplyStep, runVars
    <2>2. CASE ApplyPlace \/ ApplyReplace
      BY <1>i, <2>1, <2>2, MakerApplied, Makes
    <2>3. CASE ApplyCancel \/ ApplyCancelAll
      BY <1>i, <2>1, <2>3, Cancels, CancelsAll
    <2> QED
      BY <2>1, <2>2, <2>3 DEF Apply
  <1>8. CASE SeeBook
    <2>1. /\ UNCHANGED <<now, sent, cleared, pending, ready, buried>>
          /\ \E moved \in SUBSET {q \in quotes : q.queue > 0} :
                quotes' = (quotes \ moved) \cup {[q EXCEPT !.queue = @ - 1] : q \in moved}
      BY <1>8 DEF SeeBook, UpdateBook
    <2>2. ASSUME NEW q \in quotes, q.queue > 0
          PROVE  [q EXCEPT !.queue = @ - 1] \in Order /\ [q EXCEPT !.queue = @ - 1].id = q.id
      BY <1>i, <2>2, SimFacts DEF Order
    <2>3. quotes' \subseteq Order /\ \A q \in quotes' : \E r \in quotes : r.id = q.id
      BY <1>i, <2>1, <2>2
    <2> QED
      BY <1>i, <2>1, <2>3, Thinned
  <1>9. CASE Match
    <2>1. PICK q \in Best(Eligible) : MatchOne(q, event.side, event.px, left)
      BY <1>9 DEF Match
    <2>2. q \in quotes /\ left > 0 /\ UNCHANGED <<now, sent, cleared, pending, ready, buried>>
      BY <1>9, <2>1 DEF Match, Best, Eligible, MatchOne
    <2> QED
      BY <1>i, <2>1, <2>2, Matches, Thinned
  <1> QED
    BY <1>1, <1>2, <1>3, <1>4, <1>5, <1>6, <1>7, <1>8, <1>9 DEF Next

\* Where operations and fills are under way.
LEMMA StageKeep == SessionInv /\ Next => InStage'
  <1> SUFFICES ASSUME SessionInv, Next PROVE InStage'
    OBVIOUS
  <1> USE DEF InStage
  <1>i. InStage
    BY DEF SessionInv
  <1>1. CASE Take \/ Liquidate \/ Spared \/ Flatten \/ Hold \/ Emit \/ Sent \/ Delivered \/ Recover \/ Skim
    <2>1. ready = <<>> /\ fills = <<>> /\ UNCHANGED <<ready, fills>>
      BY <1>1, <1>i DEF Take, Liquidate, Spared, Flatten, Hold, Emit, Sent, Delivered, Recover, Skim, simVars
    <2> QED
      BY <2>1
  <1>2. CASE DrainStep
    BY <1>2, <1>i DEF DrainStep, Drain
  <1>3. CASE ApplyStep
    <2>1. pc = "apply" /\ UNCHANGED pc
      BY <1>3 DEF ApplyStep, runVars
    <2> QED
      BY <2>1
  <1>4. CASE SeeBook \/ SeeTrade
    BY <1>4, <1>i DEF SeeBook, SeeTrade, UpdateBook, simVars
  <1>5. CASE Match \/ Matched
    <2>1. ready = <<>> /\ UNCHANGED ready /\ pc' \in {"match", "fills"}
      BY <1>5, <1>i DEF Match, Matched, MatchOne, simVars
    <2> QED
      BY <2>1
  <1>6. CASE Deliver
    BY <1>6, <1>i DEF Deliver
  <1> QED
    BY <1>1, <1>2, <1>3, <1>4, <1>5, <1>6 DEF Next

\* The sum of the fills under way is a number of lots, and FilledLots is it.
LEMMA UnderWay == ASSUME BooksHeld PROVE FilledLots = LotsOf(fills) /\ LotsOf(fills) \in Int
  <1>1. FilledLots = LotsOf(fills)
    BY DEF FilledLots, LotsOf
  <1> QED
    BY <1>1, LotsNumber DEF BooksHeld

\* A fill of an order younger than the liquidation joins those under way.
LEMMA Fills ==
    ASSUME SessionInv, NEW id \in Ids, id > cleared, Filled(id), UNCHANGED cleared
    PROVE  /\ fills' \in Seq(FillMsg) /\ NoFillFromBefore'
           /\ units' \in Int /\ units' - LotsOf(fills') = units - LotsOf(fills)
  <1>1. /\ fills \in Seq(FillMsg) /\ units \in Int /\ LotsOf(fills) \in Int
        /\ \A i \in 1..Len(fills) : fills[i].id > cleared
    BY UnderWay DEF SessionInv, BooksHeld, TypeOK, NoFillFromBefore
  <1>2. CASE UNCHANGED <<units, fills>>
    BY <1>1, <1>2 DEF NoFillFromBefore
  <1>3. ASSUME NEW e \in FillMsg, e.id = id, units' = units + Lot(e), fills' = Append(fills, e)
        PROVE  /\ fills' \in Seq(FillMsg) /\ NoFillFromBefore'
               /\ units' \in Int /\ units' - LotsOf(fills') = units - LotsOf(fills)
    <2>1. LotsOf(fills') = LotsOf(fills) + Lot(e)
      BY <1>1, <1>3, LotsAppended
    <2>2. Lot(e) \in Int
      <3>1. Sign(e.side) \in Int /\ e.qty \in Int
        BY DEF Sign, FillMsg
      <3> QED
        BY <3>1 DEF Lot
    <2>3. fills' \in Seq(FillMsg)
      BY <1>1, <1>3, Longer
    <2>4. \A i \in 1..Len(fills') : fills'[i] = e \/ (i \in 1..Len(fills) /\ fills'[i] = fills[i])
      BY <1>1, <1>3, Longer
    <2>5. NoFillFromBefore'
      BY <1>1, <1>3, <2>4 DEF NoFillFromBefore
    <2> QED
      BY <1>1, <1>3, <2>1, <2>2, <2>3, <2>5
  <1> QED
    BY <1>2, <1>3 DEF Filled

\* What a step that fills no order does to the fills and the ages.
LEMMA FillsStay ==
    ASSUME SessionInv, UNCHANGED <<fills, cleared>>
    PROVE  fills' \in Seq(FillMsg) /\ NoFillFromBefore'
  BY DEF SessionInv, BooksHeld, NoFillFromBefore

\* The tracker books a fill: its size moves by the lots of the fill.
LEMMA Books ==
    ASSUME pos \in Int, cost \in Int, wallet \in Int, NEW side \in Sides, NEW qty \in Nat,
           NEW px \in Int, Book(side, qty, px, 0)
    PROVE  pos' = pos + Sign(side) * qty /\ pos' \in Int /\ cost' \in Int /\ wallet' \in Int /\ UNCHANGED funding
  <1> DEFINE c == Closing(side, qty)
             s == Sign(side)
             b == Basis(c)
  <1>1. s \in Int /\ c \in Int
    BY DEF Sign, Closing, Smaller, Abs
  <1>2. b \in Int
    <2>1. CASE pos = 0
      BY <2>1 DEF Basis
    <2>2. CASE pos # 0
      <3> DEFINE d == Abs(pos)
                 m == Abs(cost) * c
      <3>1. d \in Nat /\ d > 0 /\ Abs(cost) \in Int
        BY <2>2 DEF Abs
      <3>2. m \in Int
        BY <1>1, <3>1
      <3>3. b = m \div d
        BY <2>2 DEF Basis
      <3> HIDE DEF d, m, b, c
      <3> QED
        BY <3>1, <3>2, <3>3
    <2> QED
      BY <2>1, <2>2
  <1>3. /\ pos' = pos + s * qty
        /\ cost' = cost + s * b + s * (qty - c) * px
        /\ wallet' = wallet + s * (b - c * px) - 0
        /\ UNCHANGED funding
    BY DEF Book
  <1> HIDE DEF b, c, s
  <1>4. s * b \in Int /\ s * (qty - c) * px \in Int /\ s * (b - c * px) \in Int /\ s * qty \in Int
    <2>1. c * px \in Int /\ qty - c \in Int
      BY <1>1
    <2>2. s * (qty - c) \in Int /\ b - c * px \in Int
      BY <1>1, <1>2, <2>1
    <2> QED
      BY <1>1, <1>2, <2>2
  <1> QED
    BY <1>3, <1>4 DEF s
\* The account is square where the lots under way are what the simulator is
\* ahead of the tracker.
LEMMA Square ==
    ASSUME fills' \in Seq(FillMsg), units' \in Int, pos' \in Int, outside' \in Int,
           units' - LotsOf(fills') = pos' - outside'
    PROVE  EveryFillBooked'
  <1>1. FilledLots' = LotsOf(fills')
    BY DEF FilledLots, LotsOf
  <1>2. LotsOf(fills') \in Int
    BY LotsNumber
  <1> QED
    BY <1>1, <1>2 DEF EveryFillBooked

\* The numbers of the account.
LEMMA Numbers ==
    ASSUME SessionInv
    PROVE  /\ fills \in Seq(FillMsg) /\ LotsOf(fills) \in Int
           /\ units \in Int /\ pos \in Int /\ cost \in Int /\ wallet \in Int /\ funding \in Int
           /\ outside \in Int /\ lastNet \in Int /\ units - LotsOf(fills) = pos - outside
  <1>1. FilledLots = LotsOf(fills) /\ LotsOf(fills) \in Int
    BY UnderWay DEF SessionInv
  <1> QED
    BY <1>1 DEF SessionInv, BooksHeld, TypeOK, EveryFillBooked

\* The bagger closes lots at the touch, and the simulator is none the wiser.
LEMMA Flattens ==
    ASSUME SessionInv, Flatten
    PROVE  /\ fills' = fills /\ units' = units /\ cleared' = cleared
           /\ pos' \in Int /\ cost' \in Int /\ wallet' \in Int /\ funding' = funding
           /\ outside' \in Int /\ pos' - outside' = pos - outside
  <1>1. PICK qty \in 1..Abs(pos), taker \in BOOLEAN :
           LET side == IF pos > 0 THEN "ask" ELSE "bid"
               px   == IF (side = "ask") = taker THEN bid ELSE bid + Tick
           IN  /\ Book(side, qty, px, 0)
               /\ outside' = outside + Sign(side) * qty
    BY DEF Flatten
  <1> DEFINE side == IF pos > 0 THEN "ask" ELSE "bid"
             px == IF (side = "ask") = taker THEN bid ELSE bid + Tick
  <1>2. pos \in Int /\ cost \in Int /\ wallet \in Int /\ outside \in Int
    BY Numbers
  <1>3. side \in Sides /\ qty \in Nat
    BY <1>2 DEF Sides, Abs
  <1>4. bid \in Int
    BY SimFacts DEF SessionInv, TypeOK
  <1>5. px \in Int
    BY <1>4 DEF Tick
  <1>6. Book(side, qty, px, 0) /\ outside' = outside + Sign(side) * qty
    BY <1>1
  <1> HIDE DEF side, px
  <1>7. pos' = pos + Sign(side) * qty /\ pos' \in Int /\ cost' \in Int /\ wallet' \in Int /\ UNCHANGED funding
    BY <1>2, <1>3, <1>5, <1>6, Books
  <1>8. Sign(side) * qty \in Int
    <2>1. Sign(side) \in Int
      BY DEF Sign
    <2> QED
      BY <1>3, <2>1
  <1> QED
    BY <1>2, <1>6, <1>7, <1>8 DEF Flatten

\* The first fill under way reaches the tracker.
LEMMA Delivers ==
    ASSUME SessionInv, Deliver
    PROVE  /\ fills # <<>> /\ fills' = Tail(fills) /\ units' = units
           /\ UNCHANGED <<outside, cleared>>
           /\ pos' \in Int /\ cost' \in Int /\ wallet' \in Int /\ funding' = funding
           /\ pos' = pos + Lot(Head(fills)) /\ Lot(Head(fills)) \in Int
  <1> DEFINE f == Head(fills)
  <1>1. fills # <<>> /\ fills' = Tail(fills) /\ units' = units /\ UNCHANGED <<outside, cleared>>
        /\ Book(f.side, f.qty, f.px, 0)
    BY DEF Deliver
  <1>2. f \in FillMsg
    BY <1>1, Numbers, Rest
  <1> HIDE DEF f
  <1>3. f.side \in Sides /\ f.qty \in Nat /\ f.px \in Int
    BY <1>2, SimFacts DEF FillMsg, Sides
  <1>4. /\ pos' = pos + Sign(f.side) * f.qty /\ pos' \in Int /\ cost' \in Int
        /\ wallet' \in Int /\ UNCHANGED funding
    BY <1>1, <1>3, Numbers, Books
  <1>5. Sign(f.side) * f.qty \in Int
    <2>1. Sign(f.side) \in Int
      BY DEF Sign
    <2> QED
      BY <1>3, <2>1
  <1> QED
    BY <1>1, <1>4, <1>5 DEF Lot, f

\* Every fill reaches the tracker once, and none is older than the liquidation.
LEMMA BooksKeep == SessionInv /\ Next => BooksHeld' /\ NoFillFromBefore' /\ EveryFillBooked'
  <1> SUFFICES ASSUME SessionInv, Next PROVE BooksHeld' /\ NoFillFromBefore' /\ EveryFillBooked'
    OBVIOUS
  <1>n. /\ fills \in Seq(FillMsg) /\ LotsOf(fills) \in Int
        /\ units \in Int /\ pos \in Int /\ cost \in Int /\ wallet \in Int /\ funding \in Int
        /\ outside \in Int /\ lastNet \in Int /\ units - LotsOf(fills) = pos - outside
    BY Numbers
  <1>i. InStage
    BY DEF SessionInv
  <1>1. CASE /\ UNCHANGED <<fills, cleared, units, lastNet>>
             /\ pos' \in Int /\ outside' \in Int /\ pos' - outside' = pos - outside
    <2>1. fills' \in Seq(FillMsg) /\ NoFillFromBefore'
      BY <1>1, FillsStay
    <2>2. EveryFillBooked'
      BY <1>n, <1>1, <2>1, Square
    <2> QED
      BY <1>n, <1>1, <2>1, <2>2 DEF BooksHeld
  <1>2. CASE Take \/ Spared \/ Hold \/ Emit \/ Sent \/ DrainStep \/ SeeBook \/ SeeTrade \/ Matched
             \/ Delivered \/ Recover
    <2>1. UNCHANGED <<fills, cleared, units, lastNet, pos, outside>>
      <3>1. CASE Take \/ Spared \/ Hold \/ Emit \/ Sent
        BY <3>1 DEF Take, Spared, Hold, Emit, Sent, simVars, ledger, skim
      <3>2. CASE DrainStep \/ SeeBook \/ SeeTrade \/ Matched
        BY <3>2 DEF DrainStep, Drain, SeeBook, UpdateBook, SeeTrade, Matched, simVars, ledger, skim
      <3>3. CASE Delivered \/ Recover
        BY <3>3 DEF Delivered, Recover, simVars, ledger, skim, runVars
      <3> QED
        BY <1>2, <3>1, <3>2, <3>3
    <2> QED
      BY <1>1, <1>n, <2>1
  <1>3. CASE Liquidate
    <2>1. /\ fills = <<>> /\ fills' = <<>> /\ units' = units /\ lastNet' = lastNet
          /\ pos' = 0 /\ outside' = outside - pos
      BY <1>3, <1>i DEF Liquidate, InStage, skim
    <2>2. fills' \in Seq(FillMsg) /\ Len(fills') = 0
      BY <2>1
    <2>3. NoFillFromBefore'
      BY <2>2 DEF NoFillFromBefore
    <2>4. EveryFillBooked'
      BY <1>n, <2>1, <2>2, Square
    <2> QED
      BY <1>n, <2>1, <2>2, <2>3, <2>4 DEF BooksHeld
  <1>4. CASE Flatten
    <2>1. lastNet' = lastNet
      BY <1>4 DEF Flatten, skim
    <2> QED
      BY <1>1, <1>4, <2>1, Flattens
  <1>5. ASSUME NEW id \in Ids, id > cleared, Filled(id), UNCHANGED <<cleared, lastNet, pos, outside>>
        PROVE  BooksHeld' /\ NoFillFromBefore' /\ EveryFillBooked'
    <2>1. /\ fills' \in Seq(FillMsg) /\ NoFillFromBefore'
          /\ units' \in Int /\ units' - LotsOf(fills') = units - LotsOf(fills)
      BY <1>5, Fills
    <2>2. EveryFillBooked'
      BY <1>n, <1>5, <2>1, Square
    <2> QED
      BY <1>n, <1>5, <2>1, <2>2 DEF BooksHeld
  <1>6. CASE ApplyStep
    <2>1. Apply /\ UNCHANGED <<cleared, lastNet, pos, outside>>
      BY <1>6 DEF ApplyStep, runVars
    <2>2. CASE ApplyPlace \/ ApplyReplace
      BY <1>5, <2>1, <2>2, MakerApplied
    <2>3. CASE ApplyCancel \/ ApplyCancelAll
      <3>1. UNCHANGED <<fills, units>>
        BY <2>3 DEF ApplyCancel, ApplyCancelAll
      <3> QED
        BY <1>1, <1>n, <2>1, <3>1
    <2> QED
      BY <2>1, <2>2, <2>3 DEF Apply
  <1>7. CASE Match
    <2>1. PICK q \in Best(Eligible) : MatchOne(q, event.side, event.px, left)
      BY <1>7 DEF Match
    <2>2. q \in quotes /\ left > 0 /\ UNCHANGED <<cleared, lastNet, pos, outside>>
      BY <1>7, <2>1 DEF Match, Best, Eligible, ledger, skim
    <2>3. Filled(q.id)
      BY <2>1, <2>2, Matches
    <2>4. q.id \in Ids /\ q.id > cleared
      BY <2>2, QuoteIds DEF SessionInv
    <2> QED
      BY <1>5, <2>2, <2>3, <2>4
  <1>8. CASE Deliver
    <2>1. /\ fills # <<>> /\ fills' = Tail(fills) /\ units' = units
          /\ UNCHANGED <<outside, cleared>>
          /\ pos' \in Int /\ pos' = pos + Lot(Head(fills)) /\ Lot(Head(fills)) \in Int
      BY <1>8, Delivers
    <2>2. lastNet' = lastNet
      BY <1>8 DEF Deliver, skim
    <2>3. /\ fills' \in Seq(FillMsg) /\ \A i \in DOMAIN fills' : i + 1 \in DOMAIN fills /\ fills'[i] = fills[i + 1]
      BY <1>n, <2>1, Rest
    <2>4. NoFillFromBefore'
      <3>1. \A i \in DOMAIN fills : fills[i].id > cleared
        BY <1>n DEF SessionInv, NoFillFromBefore
      <3>2. \A i \in DOMAIN fills' : fills'[i].id > cleared'
        BY <2>1, <2>3, <3>1
      <3> QED
        BY <2>3, <3>2 DEF NoFillFromBefore
    <2>5. LotsOf(fills) = Lot(Head(fills)) + LotsOf(fills') /\ LotsOf(fills') \in Int
      BY <1>n, <2>1, <2>3, LotsPopped, LotsNumber
    <2>6. units' \in Int /\ outside' \in Int /\ units' - LotsOf(fills') = pos' - outside'
      BY <1>n, <2>1, <2>5
    <2>7. EveryFillBooked'
      BY <2>1, <2>3, <2>6, Square
    <2> QED
      BY <1>n, <2>2, <2>3, <2>4, <2>6, <2>7 DEF BooksHeld
  <1>9. CASE Skim
    <2>1. UNCHANGED <<fills, cleared, units, pos, outside>>
      BY <1>9 DEF Skim, simVars, ledger
    <2>2. lastNet' \in {lastNet, NetBooked}
      BY <1>9 DEF Skim, skim
    <2>3. NetBooked \in Int
      BY <1>n, PaperRunAssumption DEF NetBooked
    <2>4. fills' \in Seq(FillMsg) /\ NoFillFromBefore'
      BY <2>1, FillsStay
    <2>5. EveryFillBooked'
      BY <1>n, <2>1, <2>4, Square
    <2> QED
      BY <1>n, <2>1, <2>2, <2>3, <2>4, <2>5 DEF BooksHeld
  <1> QED
    BY <1>2, <1>3, <1>4, <1>6, <1>7, <1>8, <1>9 DEF Next

\* What the skim leaves uncollected is less than a chunk.
LEMMA Skims ==
    ASSUME SessionInv, Skim
    PROVE  profit' \in 0..Chunk - 1 /\ skims' \in Nat
  <1> DEFINE rise == IF NetBooked > lastNet THEN NetBooked - lastNet ELSE 0
             x == profit + rise
             chunks == x \div Chunk
  <1>1. NetBooked \in Int /\ lastNet \in Int
    BY Numbers, PaperRunAssumption DEF NetBooked
  <1>2. Chunk \in Nat /\ Chunk > 0 /\ profit \in 0..Chunk - 1 /\ skims \in Nat
    BY PaperRunAssumption DEF SessionInv, TypeOK
  <1>3. rise \in Nat
    BY <1>1
  <1>4. (profit' = profit /\ skims' = skims) \/ (profit' = profit + rise - chunks * Chunk /\ skims' = skims + chunks)
    <2>1. CASE bid = 0
      BY <2>1 DEF Skim, skim
    <2>2. CASE bid # 0
      BY <2>2, Zenon DEF Skim
    <2> QED
      BY <2>1, <2>2
  <1> HIDE DEF rise
  <1>5. x \in Nat
    BY <1>2, <1>3
  <1>e. x = profit + rise
    OBVIOUS
  <1> HIDE DEF x
  <1>6. x \div Chunk \in Nat /\ x - (x \div Chunk) * Chunk \in 0..Chunk - 1
    <2>1. x = Chunk * (x \div Chunk) + (x % Chunk) /\ x % Chunk \in 0..Chunk - 1 /\ x \div Chunk \in Nat
      BY <1>2, <1>5
    <2> QED
      BY <1>2, <1>5, <2>1
  <1>7. CASE profit' = profit /\ skims' = skims
    BY <1>2, <1>7
  <1>8. CASE profit' = profit + rise - chunks * Chunk /\ skims' = skims + chunks
    <2> DEFINE banked == chunks * Chunk
    <2>1. banked \in Int /\ profit' = profit + rise - banked
      BY <1>2, <1>6, <1>8
    <2>2. x - banked \in 0..Chunk - 1
      BY <1>6
    <2> HIDE DEF banked
    <2>3. profit' = x - banked
      BY <1>2, <1>3, <1>e, <2>1
    <2> QED
      BY <1>2, <1>6, <1>8, <2>2, <2>3
  <1> QED
    BY <1>4, <1>7, <1>8

\* The tracker's numbers stay numbers.
LEMMA LedgerKeeps ==
    SessionInv /\ Next =>
        /\ units' \in Int /\ pos' \in Int /\ cost' \in Int /\ wallet' \in Int /\ funding' \in Int
        /\ profit' \in 0..Chunk - 1 /\ skims' \in Nat
  <1> SUFFICES ASSUME SessionInv, Next
               PROVE  /\ units' \in Int /\ pos' \in Int /\ cost' \in Int /\ wallet' \in Int /\ funding' \in Int
                      /\ profit' \in 0..Chunk - 1 /\ skims' \in Nat
    OBVIOUS
  <1>n. units \in Int /\ pos \in Int /\ cost \in Int /\ wallet \in Int /\ funding \in Int
    BY Numbers
  <1>s. profit \in 0..Chunk - 1 /\ skims \in Nat
    BY DEF SessionInv, TypeOK
  <1>1. CASE Take
    <2>1. UNCHANGED <<units, pos, cost, wallet, skim>>
      BY <1>1 DEF Take
    <2>2. PICK dt \in Steps : funding' = funding \/ funding' = funding - pos * FundingRate * dt
      BY <1>1 DEF Take
    <2>3. dt \in Int /\ FundingRate \in Int
      BY PaperRunAssumption
    <2>4. pos * FundingRate \in Int
      BY <1>n, <2>3
    <2>5. (pos * FundingRate) * dt \in Int
      BY <2>3, <2>4
    <2> QED
      BY <1>n, <1>s, <2>1, <2>2, <2>5 DEF skim
  <1>2. CASE Liquidate
    <2>1. pos' = 0 /\ cost' = 0 /\ wallet' = -LiqFee /\ UNCHANGED <<units, funding, skim>>
      BY <1>2 DEF Liquidate
    <2> QED
      BY <1>n, <1>s, <2>1, PaperRunAssumption DEF skim
  <1>3. CASE Spared \/ Hold \/ Emit \/ Sent \/ DrainStep \/ SeeBook \/ SeeTrade \/ Matched \/ Delivered \/ Recover
    <2>1. UNCHANGED <<units, ledger, skim>>
      <3>1. CASE Spared \/ Hold \/ Emit \/ Sent
        BY <3>1 DEF Spared, Hold, Emit, Sent, simVars
      <3>2. CASE DrainStep \/ SeeBook \/ SeeTrade \/ Matched
        BY <3>2 DEF DrainStep, Drain, SeeBook, UpdateBook, SeeTrade, Matched, simVars
      <3>3. CASE Delivered \/ Recover
        BY <3>3 DEF Delivered, Recover, simVars, ledger, skim, runVars
      <3> QED
        BY <1>3, <3>1, <3>2, <3>3
    <2> QED
      BY <1>n, <1>s, <2>1 DEF ledger, skim
  <1>4. CASE Flatten
    <2>1. UNCHANGED <<units, skim>>
      BY <1>4 DEF Flatten
    <2> QED
      BY <1>n, <1>s, <1>4, <2>1, Flattens DEF skim
  <1>5. CASE Deliver
    <2>1. UNCHANGED skim
      BY <1>5 DEF Deliver
    <2> QED
      BY <1>n, <1>s, <1>5, <2>1, Delivers DEF skim
  <1>6. CASE ApplyStep \/ Match
    <2>1. UNCHANGED <<ledger, skim, cleared>>
      BY <1>6 DEF ApplyStep, Match, runVars, ledger, skim
    <2>2. UNCHANGED units \/ \E id \in Ids : id > cleared /\ Filled(id)
      <3>1. CASE ApplyStep
        <4>1. CASE ApplyPlace \/ ApplyReplace
          BY <4>1, MakerApplied
        <4>2. CASE ApplyCancel \/ ApplyCancelAll
          BY <4>2 DEF ApplyCancel, ApplyCancelAll
        <4> QED
          BY <3>1, <4>1, <4>2 DEF ApplyStep, Apply
      <3>2. CASE Match
        <4>1. PICK q \in Best(Eligible) : MatchOne(q, event.side, event.px, left)
          BY <3>2 DEF Match
        <4>2. q \in quotes /\ left > 0
          BY <3>2, <4>1 DEF Match, Best, Eligible
        <4> QED
          BY <4>1, <4>2, Matches, QuoteIds DEF SessionInv
      <3> QED
        BY <1>6, <3>1, <3>2
    <2>3. units' \in Int
      BY <1>n, <2>1, <2>2, Fills
    <2> QED
      BY <1>n, <1>s, <2>1, <2>3 DEF ledger, skim
  <1>7. CASE Skim
    <2>1. UNCHANGED <<units, ledger>>
      BY <1>7 DEF Skim, simVars
    <2> QED
      BY <1>n, <1>7, <2>1, Skims DEF ledger
  <1> QED
    BY <1>1, <1>2, <1>3, <1>4, <1>5, <1>6, <1>7 DEF Next

\* The arm's own state.
LEMMA ArmKeeps ==
    SessionInv /\ Next =>
        /\ pc' \in Stages /\ seen' \in 0..MaxEvents /\ event' \in Events \cup {NoEvent}
        /\ bid' \in Bids \cup {0} /\ simBid' \in Bids \cup {0} /\ left' \in Nat /\ halted' \in BOOLEAN
  <1> SUFFICES ASSUME SessionInv, Next
               PROVE  /\ pc' \in Stages /\ seen' \in 0..MaxEvents /\ event' \in Events \cup {NoEvent}
                      /\ bid' \in Bids \cup {0} /\ simBid' \in Bids \cup {0} /\ left' \in Nat
                      /\ halted' \in BOOLEAN
    OBVIOUS
  <1>t. /\ pc \in Stages /\ seen \in 0..MaxEvents /\ event \in Events \cup {NoEvent}
        /\ bid \in Bids \cup {0} /\ simBid \in Bids \cup {0} /\ left \in Nat /\ halted \in BOOLEAN
    BY DEF SessionInv, TypeOK
  <1>e. \A e \in Events : /\ e.kind = "book" => e.px \in Bids
                          /\ e.kind = "trade" => e.qty \in Nat
    BY SimFacts DEF Events
  <1>f. event.kind = "book" => event.px \in Bids
    BY <1>t, <1>e DEF NoEvent
  <1>g. event.kind = "trade" => event.qty \in Nat
    BY <1>t, <1>e DEF NoEvent
  <1>1. CASE Take
    <2>1. /\ seen < MaxEvents /\ seen' = seen + 1 /\ pc' = "guard" /\ UNCHANGED <<simBid, left, halted>>
          /\ \E e \in Events : event' = e /\ bid' = IF e.kind = "book" THEN e.px ELSE bid
      BY <1>1 DEF Take, risk
    <2>2. seen' \in 0..MaxEvents
      BY <1>t, <2>1, PaperRunAssumption
    <2>3. event' \in Events /\ bid' \in Bids \cup {0}
      BY <1>t, <1>e, <2>1
    <2> QED
      BY <1>t, <2>1, <2>2, <2>3 DEF Stages
  <1>2. CASE Liquidate \/ Spared \/ Flatten \/ Hold \/ Sent
    <2>1. pc' \in {"bag", "react", "drain"} /\ UNCHANGED <<feed, simBid, left, halted>>
      BY <1>2 DEF Liquidate, Spared, Flatten, Hold, Sent, simVars, risk
    <2> QED
      BY <1>t, <2>1 DEF Stages, feed
  <1>3. CASE Emit
    <2>1. UNCHANGED <<pc, feed, simBid, left>> /\ (halted' = halted \/ halted' = TRUE)
      BY <1>3 DEF Emit, risk
    <2>2. halted' \in BOOLEAN
      BY <1>t, <2>1, Zenon
    <2> QED
      BY <1>t, <2>1, <2>2 DEF feed
  <1>4. CASE DrainStep \/ ApplyStep \/ Deliver \/ Recover
    <2>1. pc' \in {pc, "apply"} /\ UNCHANGED <<feed, simBid, left, halted>>
      <3>1. CASE DrainStep \/ Deliver \/ Recover
        BY <3>1 DEF DrainStep, Drain, Deliver, Recover, runVars, risk, feed
      <3>2. CASE ApplyStep
        <4>1. UNCHANGED <<pc, feed, left, halted>>
          BY <3>2 DEF ApplyStep, runVars, feed
        <4>2. UNCHANGED simBid
          BY <3>2 DEF ApplyStep, Apply, ApplyPlace, ApplyReplace, ApplyCancel, ApplyCancelAll
        <4> QED
          BY <4>1, <4>2
      <3> QED
        BY <1>4, <3>1, <3>2
    <2> QED
      BY <1>t, <2>1 DEF Stages, feed
  <1>5. CASE SeeBook
    <2>1. pc' = "fills" /\ simBid' = event.px /\ event.kind = "book" /\ UNCHANGED <<feed, left, halted>>
      BY <1>5 DEF SeeBook, UpdateBook, risk
    <2> QED
      BY <1>t, <1>f, <2>1 DEF Stages, feed
  <1>6. CASE SeeTrade
    <2>1. pc' = "match" /\ left' = event.qty /\ event.kind = "trade" /\ UNCHANGED <<feed, simBid, halted>>
      BY <1>6 DEF SeeTrade, simVars, risk
    <2> QED
      BY <1>t, <1>g, <2>1 DEF Stages, feed
  <1>7. CASE Match
    <2>1. PICK q \in Best(Eligible) :
             LET ate == IF event.px # q.px THEN 0 ELSE Smaller(q.queue, left)
             IN  /\ MatchOne(q, event.side, event.px, left)
                 /\ left' = left - ate - Smaller(q.rem, left - ate)
      BY <1>7 DEF Match
    <2>2. UNCHANGED <<pc, feed, simBid, halted>>
      BY <1>7, <2>1 DEF Match, MatchOne, risk
    <2>3. q.queue \in Nat /\ q.rem \in Nat
      <3>1. q \in Order
        BY <2>1, QuoteIds DEF Best, Eligible, SessionInv
      <3> QED
        BY <3>1, SimFacts DEF Order
    <2>4. left' \in Nat
      BY <1>t, <2>1, <2>3 DEF Smaller
    <2> QED
      BY <1>t, <2>2, <2>4 DEF feed
  <1>8. CASE Matched \/ Delivered \/ Skim
    <2>1. pc' \in {"fills", "recover", "idle"} /\ left' \in {0, left} /\ UNCHANGED <<feed, simBid, halted>>
      BY <1>8 DEF Matched, Delivered, Skim, simVars, risk
    <2> QED
      BY <1>t, <2>1 DEF Stages, feed
  <1> QED
    BY <1>1, <1>2, <1>3, <1>4, <1>5, <1>6, <1>7, <1>8 DEF Next

-----------------------------------------------------------------------------
(* The session.                                                            *)

\* The session starts with no order, no fill and a square account.
LEMMA Starts == Init => SessionInv
  <1> SUFFICES ASSUME Init PROVE SessionInv
    OBVIOUS
  <1>1. /\ now = 0 /\ simBid = 0 /\ quotes = {} /\ pending = {} /\ ready = <<>> /\ sent = 0
        /\ units = 0 /\ rejected = <<>> /\ fills = <<>> /\ buried = [i \in Ids |-> 0]
    BY DEF Init, SimInit
  <1>2. /\ pc = "idle" /\ seen = 0 /\ event = NoEvent /\ bid = 0 /\ left = 0
        /\ pos = 0 /\ cost = 0 /\ wallet = Wallet0 /\ funding = 0
        /\ halted = FALSE /\ profit = 0 /\ lastNet = 0 /\ skims = 0 /\ outside = 0 /\ cleared = 0
    BY DEF Init
  <1>3. DOMAIN ready = {} /\ ready \in Seq(Operation) /\ fills \in Seq(FillMsg) /\ Len(fills) = 0
    BY <1>1
  <1>4. Held
    <2>1. IsFiniteSet(pending)
      BY <1>1, FS_EmptySet
    <2> QED
      BY <1>1, <1>2, <1>3, <2>1, SimFacts DEF Held
  <1>5. Younger /\ Once /\ Unborn /\ Graves
    BY <1>1, <1>3 DEF Younger, Once, Unborn, Waiting, Graves
  <1>6. InStage /\ BooksHeld /\ NoFillFromBefore
    BY <1>1, <1>2, <1>3 DEF InStage, BooksHeld, NoFillFromBefore
  <1>7. TypeOK
    <2>1. 0 \in 0..MaxEvents /\ 0 \in 0..MaxSent /\ 0 \in 0..Chunk - 1 /\ Wallet0 \in Int
      BY SimFacts, PaperRunAssumption
    <2>2. /\ pc \in Stages /\ seen \in 0..MaxEvents /\ event \in Events \cup {NoEvent}
          /\ bid \in Bids \cup {0} /\ simBid \in Bids \cup {0} /\ left \in Nat /\ halted \in BOOLEAN
      BY <1>1, <1>2, <2>1 DEF Stages
    <2>3. /\ quotes \subseteq Order /\ sent \in 0..MaxSent /\ units \in Int
          /\ pos \in Int /\ cost \in Int /\ wallet \in Int /\ funding \in Int
          /\ profit \in 0..Chunk - 1 /\ skims \in Nat
      BY <1>1, <1>2, <2>1
    <2> QED
      BY <2>2, <2>3 DEF TypeOK
  <1>8. EveryFillBooked
    <2>1. FilledLots = LotsOf(<<>>)
      BY <1>1 DEF FilledLots, LotsOf
    <2> QED
      BY <1>1, <1>2, <2>1, LotsNone DEF EveryFillBooked
  <1> QED
    BY <1>4, <1>5, <1>6, <1>7, <1>8 DEF SessionInv, OrdersInv

\* Every step of the arm keeps the invariant.
LEMMA SessionKeeps == SessionInv /\ [Next]_vars => SessionInv'
  <1> SUFFICES ASSUME SessionInv, [Next]_vars PROVE SessionInv'
    OBVIOUS
  <1>1. CASE Next
    <2>1. OrdersInv' /\ InStage' /\ BooksHeld' /\ NoFillFromBefore' /\ EveryFillBooked'
      BY <1>1, OrdersKeep, StageKeep, BooksKeep
    <2>2. TypeOK'
      <3>1. quotes' \subseteq Order /\ sent' \in 0..MaxSent
        BY <2>1 DEF OrdersInv, Held
      <3> QED
        BY <1>1, <3>1, LedgerKeeps, ArmKeeps DEF TypeOK
    <2> QED
      BY <2>1, <2>2 DEF SessionInv
  <1>2. CASE UNCHANGED vars
    <2>1. UNCHANGED ordersVars /\ UNCHANGED <<pc, fills, outside, lastNet, units, pos>>
      BY <1>2 DEF vars, simVars, runVars, ordersVars
    <2>2. OrdersInv'
      BY <2>1, Kept DEF SessionInv
    <2>3. InStage' /\ BooksHeld' /\ NoFillFromBefore'
      BY <2>1 DEF SessionInv, InStage, BooksHeld, NoFillFromBefore, ordersVars
    <2>4. EveryFillBooked'
      BY <2>1 DEF SessionInv, EveryFillBooked, FilledLots
    <2>5. TypeOK'
      BY <1>2 DEF SessionInv, TypeOK, vars, simVars, runVars
    <2> QED
      BY <2>2, <2>3, <2>4, <2>5 DEF SessionInv
  <1> QED
    BY <1>1, <1>2

\* The invariant holds of every behaviour of the session.
LEMMA SessionHolds == Spec => []SessionInv
  BY Starts, SessionKeeps, PTL DEF Spec

\* The state of run_inner's paper arm and of its simulator keeps its types:
\* what is left to skim stays under a chunk, an order keeps lots to fill, and
\* what a trade has left is never negative.
THEOREM PaperTyped == Spec => []TypeOK
  <1>1. SessionInv => TypeOK
    BY DEF SessionInv
  <1> QED
    BY <1>1, SessionHolds, PTL

\* Every lot FillSim fills reaches the tracker once (apply_fill), through
\* partial fills, IOCs, replacements and liquidations.
THEOREM FillsBooked == Spec => []EveryFillBooked
  <1>1. SessionInv => EveryFillBooked
    BY DEF SessionInv
  <1> QED
    BY <1>1, SessionHolds, PTL

\* What rested or was on its way when the account was liquidated never fills
\* (drop_quotes_for).
THEOREM NothingFromBefore == Spec => []NoFillFromBefore
  <1>1. SessionInv => NoFillFromBefore
    BY DEF SessionInv
  <1> QED
    BY <1>1, SessionHolds, PTL

\* A name appears on the book only where a Place or a Replace of it is applied.
LEMMA Appears ==
    ASSUME SessionInv, Next, NEW id, id \in {q.id : q \in quotes'} \ {q.id : q \in quotes}
    PROVE  /\ ready # <<>> /\ Head(ready).kind \in Makers /\ Head(ready).id = id
  <1>1. PICK q \in quotes' : q.id = id
    OBVIOUS
  <1>2. \A r \in quotes : r.id # id
    OBVIOUS
  <1>3. CASE \A r \in quotes' : \E p \in quotes : p.id = r.id
    BY <1>1, <1>2, <1>3
  <1>4. CASE Take \/ Spared \/ Hold \/ Emit \/ Sent \/ SeeTrade \/ Matched \/ Deliver \/ Delivered \/ Recover \/ Skim
    <2>1. UNCHANGED quotes
      BY <1>4 DEF Take, Spared, Hold, Emit, Sent, SeeTrade, Matched, Deliver, Delivered, Recover, Skim, simVars
    <2> QED
      BY <1>3, <2>1
  <1>5. CASE Liquidate \/ Flatten \/ DrainStep
    <2>1. quotes' \subseteq quotes
      BY <1>5 DEF Liquidate, Flatten, DropQuotes, DrainStep, Drain
    <2> QED
      BY <1>3, <2>1
  <1>6. CASE ApplyStep
    <2>1. CASE ApplyCancel \/ ApplyCancelAll
      BY <1>3, <2>1 DEF ApplyCancel, ApplyCancelAll
    <2>2. CASE ApplyPlace \/ ApplyReplace
      <3>1. /\ ready # <<>> /\ Head(ready).kind \in Makers
            /\ \A r \in quotes' : r.id = Head(ready).id \/ \E p \in quotes : p.id = r.id
        BY <2>2, MakerApplied
      <3> QED
        BY <1>1, <1>2, <3>1
    <2> QED
      BY <1>6, <2>1, <2>2 DEF ApplyStep, Apply
  <1>7. CASE SeeBook
    <2>1. \E moved \in SUBSET {r \in quotes : r.queue > 0} :
             quotes' = (quotes \ moved) \cup {[r EXCEPT !.queue = @ - 1] : r \in moved}
      BY <1>7 DEF SeeBook, UpdateBook
    <2>2. \A r \in quotes : [r EXCEPT !.queue = @ - 1].id = r.id
      BY QuoteIds DEF SessionInv, Order
    <2> QED
      BY <1>3, <2>1, <2>2
  <1>8. CASE Match
    <2>1. PICK r \in Best(Eligible) : MatchOne(r, event.side, event.px, left)
      BY <1>8 DEF Match
    <2>2. r \in quotes /\ left > 0
      BY <1>8, <2>1 DEF Match, Best, Eligible
    <2> QED
      BY <1>3, <2>1, <2>2, Matches
  <1> QED
    BY <1>4, <1>5, <1>6, <1>7, <1>8 DEF Next

\* An order whose cancel has arrived rests again only in the event in which the
\* cancel was drained: purge_pending_id reaches every replacement but those
\* that were drained beside the cancel.
THEOREM OnlyOvertaken == Spec => OnlyOvertakenReturns
  <1> DEFINE Returns == \A id \in Ids :
                /\ id \in {q.id : q \in quotes'} \ {q.id : q \in quotes}
                /\ buried[id] # 0
                => buried[id] = now
  <1>1. ASSUME SessionInv, Next, NEW id \in Ids,
               id \in {q.id : q \in quotes'} \ {q.id : q \in quotes}, buried[id] # 0
        PROVE  buried[id] = now
    <2> DEFINE o == Head(ready)
    <2>1. ready # <<>> /\ o.kind \in Makers /\ o.id = id
      BY <1>1, Appears
    <2>2. 1 \in DOMAIN ready /\ o = ready[1]
      BY <1>1, <2>1, Rest DEF SessionInv, OrdersInv, Held
    <2>3. o \in Waiting
      BY <2>2 DEF Waiting
    <2> HIDE DEF o
    <2>4. CASE o.kind = "place"
      BY <1>1, <2>1, <2>3, <2>4 DEF SessionInv, OrdersInv, Unborn
    <2>5. CASE o.kind = "replace"
      BY <1>1, <2>1, <2>2, <2>5 DEF SessionInv, OrdersInv, Graves
    <2> QED
      BY <2>1, <2>4, <2>5 DEF Makers
  <1>2. SessionInv /\ [Next]_vars => [Returns]_vars
    BY <1>1
  <1> QED
    BY <1>2, SessionHolds, PTL DEF Spec, OnlyOvertakenReturns

-----------------------------------------------------------------------------
(* The archive: what the recorder keeps.                                   *)

\* What a delivery of a kind is, and a row of it.
Delivery(k) == [kind : {k}, ts : Nat \ {0}, run : Nat,
                val : IF k = "book" THEN [bids : SUBSET Nat, asks : SUBSET Nat] ELSE Nat]
RowOf(k) ==
    IF k = "book" THEN [item : Delivery(k), ts : Nat \ {0}, side : {0, 1}, price : Nat \ {0}, seq : Nat]
    ELSE [item : Delivery(k), ts : Nat \ {0}, price : Nat]

\* Where rows lie: of each kind the buffer, and the shards.
Shelves == (Kind \X {-1}) \cup DOMAIN files
Shelf(n) == IF n[2] = -1 THEN buf[n[1]] ELSE files[n].rows
BookRows == UNION {{Shelf(n)[p] : p \in DOMAIN Shelf(n)} : n \in {m \in Shelves : m[1] = "book"}}

Sharded ==
    /\ IsFiniteSet(DOMAIN files) /\ DOMAIN files \subseteq Kind \X Nat
    /\ \A n \in DOMAIN files : files[n].whole \/ files[n].rows = <<>>
Typed ==
    /\ rec \in {"off", "run"} \cup Kind /\ clock \in 1..LastInstant
    /\ recordings \in Nat /\ seq \in Nat /\ stamp \in Nat
    /\ buf = [k \in Kind |-> buf[k]] /\ Sharded
    /\ taken \subseteq UNION {Delivery(k) : k \in Kind}

\* The kinds a flush has written wait for nothing.
Emptied ==
    /\ rec \in {"trades", "mark", "off"} => buf["book"] = <<>>
    /\ rec \in {"mark", "off"} => buf["trades"] = <<>>
    /\ rec = "off" => buf["mark"] = <<>>

\* The sequences of rows of a kind that stand for whole deliveries.
Faithful(k, rows) ==
    /\ rows \in Seq(RowOf(k))
    /\ \A p \in DOMAIN rows : rows[p].ts = rows[p].item.ts
    /\ k # "book" => /\ \A p \in DOMAIN rows : rows[p].price = rows[p].item.val
                     /\ \A p, q \in DOMAIN rows : rows[p].item = rows[q].item => p = q
    /\ k = "book" => \A p \in DOMAIN rows :
            LET of(side) == {rows[q].price : q \in {x \in DOMAIN rows : rows[x].item = rows[p].item
                                                                        /\ rows[x].side = side}}
            IN  rows[p].item.val = [bids |-> of(0), asks |-> of(1)]

\* One snapshot, trade or mark an instant; recordings come one after another.
Timeline ==
    /\ \A i, j \in taken : i.kind = j.kind /\ i.ts = j.ts => i = j
    /\ \A i \in taken : i.kind = "book" =>
        /\ i.ts <= clock /\ i.run <= recordings
        /\ \A j \in taken : j.kind = "book" /\ i.ts <= j.ts => i.run <= j.run

\* A delivery is lost or lies in one place.
Filed ==
    /\ \A n \in Shelves : Faithful(n[1], Shelf(n)) /\ Items(Shelf(n)) \subseteq taken \ gone
    /\ \A n, m \in Shelves : n # m => Items(Shelf(n)) \cap Items(Shelf(m)) = {}
    /\ gone \subseteq taken
    /\ \A i \in taken \ gone : \E n \in Shelves : i \in Items(Shelf(n))

\* A snapshot between two others of a recording leaves its number between theirs.
Numbered ==
    \A r \in BookRows :
        /\ r.item.run = recordings => r.seq <= seq
        /\ \A c \in taken : c.kind = "book" /\ c.run = r.item.run /\ r.ts < c.ts =>
            /\ c.run = recordings => r.seq + 1 <= seq
            /\ \A s \in BookRows : s.item.run = c.run /\ c.ts < s.ts => r.seq + 2 <= s.seq
RecorderInv == Typed /\ Emptied /\ Timeline /\ Filed /\ Numbered

\* The kinds, named.
LEMMA KindsAre == Kind = {"book", "trades", "mark"}
<1>1. DOMAIN KindsOf = 1..3  BY DEF KindsOf
<1> QED  BY <1>1 DEF Kind, Range, KindsOf

\* An empty buffer or shard holds nothing.
LEMMA EmptyIs == ASSUME NEW k \in Kind
                 PROVE Faithful(k, <<>>) /\ Items(<<>>) = {} /\ DOMAIN <<>> = {}
BY DEF Faithful, Items

\* Rows of one new delivery behind others make whole deliveries with them.
LEMMA Joined ==
    ASSUME NEW k \in Kind, NEW rows, NEW more, Faithful(k, rows), Faithful(k, more),
           Items(rows) \cap Items(more) = {}
    PROVE  /\ Faithful(k, rows \o more) /\ Items(rows \o more) = Items(rows) \cup Items(more)
           /\ \A p \in DOMAIN (rows \o more) :
                 \/ \E q \in DOMAIN rows : (rows \o more)[p] = rows[q]
                 \/ \E q \in DOMAIN more : (rows \o more)[p] = more[q]
<1> DEFINE all == rows \o more
<1>1. /\ rows \in Seq(RowOf(k)) /\ more \in Seq(RowOf(k)) /\ all \in Seq(RowOf(k))
      /\ Len(all) = Len(rows) + Len(more) /\ DOMAIN all = 1..Len(all)
      /\ DOMAIN rows = 1..Len(rows) /\ DOMAIN more = 1..Len(more)
      /\ Len(rows) \in Nat /\ Len(more) \in Nat
      /\ \A p \in DOMAIN rows : all[p] = rows[p]
      /\ \A p \in DOMAIN more : all[Len(rows) + p] = more[p]
  BY DEF Faithful
<1> HIDE DEF all
<1>2. \A p \in DOMAIN all : p \in DOMAIN rows \/ (p - Len(rows) \in DOMAIN more /\ p = Len(rows) + (p - Len(rows)))
  BY <1>1
<1>2a. \A p \in DOMAIN rows : p \in DOMAIN all
  BY <1>1
<1>2b. \A p \in DOMAIN more : Len(rows) + p \in DOMAIN all
  BY <1>1
<1>3. \A p \in DOMAIN all :
        \/ p \in DOMAIN rows /\ all[p] = rows[p]
        \/ \E q \in DOMAIN more : p = Len(rows) + q /\ all[p] = more[q]
  BY <1>1, <1>2
<1>4. Items(all) = Items(rows) \cup Items(more)
  <2>1. Items(all) \subseteq Items(rows) \cup Items(more)  BY <1>3 DEF Items
  <2>2. Items(rows) \subseteq Items(all)  BY <1>1, <1>2a DEF Items
  <2>3. Items(more) \subseteq Items(all)
    <3> SUFFICES ASSUME NEW p \in DOMAIN more PROVE more[p].item \in Items(all)  BY DEF Items
    <3> QED  BY <1>1, <1>2b DEF Items
  <2> QED  BY <2>1, <2>2, <2>3
<1>5. \A p \in DOMAIN rows, q \in DOMAIN more : rows[p].item # more[q].item
  BY DEF Items
<1>6. \A p \in DOMAIN all : all[p].ts = all[p].item.ts
  BY <1>3 DEF Faithful
<1>7. ASSUME k # "book"
      PROVE  /\ \A p \in DOMAIN all : all[p].price = all[p].item.val
             /\ \A p, q \in DOMAIN all : all[p].item = all[q].item => p = q
  <2>1. \A p \in DOMAIN all : all[p].price = all[p].item.val
    BY <1>3, <1>7 DEF Faithful
  <2>2. ASSUME NEW p \in DOMAIN all, NEW q \in DOMAIN all, all[p].item = all[q].item PROVE p = q
    BY <1>3, <1>5, <1>7, <2>2 DEF Faithful
  <2> QED  BY <2>1, <2>2
<1>8. ASSUME k = "book", NEW p \in DOMAIN all
      PROVE  LET of(side) == {all[q].price : q \in {x \in DOMAIN all : all[x].item = all[p].item
                                                                       /\ all[x].side = side}}
             IN  all[p].item.val = [bids |-> of(0), asks |-> of(1)]
  <2> DEFINE of(side) == {all[q].price : q \in {x \in DOMAIN all : all[x].item = all[p].item
                                                                   /\ all[x].side = side}}
  <2>1. ASSUME p \in DOMAIN rows, all[p] = rows[p], NEW side
        PROVE  of(side) = {rows[q].price : q \in {x \in DOMAIN rows : rows[x].item = rows[p].item
                                                                       /\ rows[x].side = side}}
    BY <1>1, <1>2a, <1>3, <1>5, <2>1
  <2>2. ASSUME NEW m \in DOMAIN more, all[p] = more[m], NEW side
        PROVE  of(side) = {more[q].price : q \in {x \in DOMAIN more : more[x].item = more[m].item
                                                                       /\ more[x].side = side}}
    <3>1. ASSUME NEW q \in DOMAIN more, more[q].item = more[m].item, more[q].side = side
          PROVE  more[q].price \in of(side)
      <4>1. Len(rows) + q \in DOMAIN all /\ all[Len(rows) + q] = more[q]
        BY <1>1, <1>2b
      <4> QED  BY <2>2, <3>1, <4>1
    <3>2. ASSUME NEW q \in DOMAIN all, all[q].item = all[p].item, all[q].side = side
          PROVE  \E x \in DOMAIN more : all[q] = more[x] /\ more[x].item = more[m].item /\ more[x].side = side
      BY <1>3, <1>5, <2>2, <3>2
    <3> QED  BY <3>1, <3>2
  <2>3. CASE p \in DOMAIN rows /\ all[p] = rows[p]
    <3>1. rows[p].item.val = [bids |-> {rows[q].price : q \in {x \in DOMAIN rows : rows[x].item = rows[p].item
                                                                       /\ rows[x].side = 0}},
                              asks |-> {rows[q].price : q \in {x \in DOMAIN rows : rows[x].item = rows[p].item
                                                                       /\ rows[x].side = 1}}]
      BY <1>8, <2>3 DEF Faithful
    <3> QED  BY <2>1, <2>3, <3>1
  <2>4. ASSUME NEW m \in DOMAIN more, all[p] = more[m]
        PROVE  all[p].item.val = [bids |-> of(0), asks |-> of(1)]
    <3>1. more[m].item.val = [bids |-> {more[q].price : q \in {x \in DOMAIN more : more[x].item = more[m].item
                                                                       /\ more[x].side = 0}},
                              asks |-> {more[q].price : q \in {x \in DOMAIN more : more[x].item = more[m].item
                                                                       /\ more[x].side = 1}}]
      BY <1>8 DEF Faithful
    <3> QED  BY <2>2, <2>4, <3>1
  <2> QED  BY <1>3, <2>3, <2>4
<1>9. Faithful(k, all)
  BY <1>1, <1>6, <1>7, <1>8 DEF Faithful
<1> QED  BY <1>3, <1>4, <1>9 DEF all

\* Where some shelves are cleared and no row moves, what was cleared is gone.
LEMMA Cleared ==
    ASSUME Typed, Filed, taken' = taken, gone \subseteq gone', gone' \subseteq taken,
           \A n \in Shelves' : n[1] \in Kind /\ (Shelf(n)' = <<>> \/ (n \in Shelves /\ Shelf(n)' = Shelf(n))),
           \A n \in Shelves : n \in Shelves' /\ (Shelf(n)' = Shelf(n) \/ Items(Shelf(n)) \subseteq gone'),
           \A n \in Shelves : Shelf(n)' = <<>> \/ Items(Shelf(n)) \cap gone' \subseteq gone
    PROVE  Filed' /\ BookRows' \subseteq BookRows
<1> USE EmptyIs
<1>1. \A n \in Shelves' : Faithful(n[1], Shelf(n)')
  BY DEF Filed
<1>2. \A n \in Shelves' : Items(Shelf(n)') \subseteq taken' \ gone'
  BY DEF Filed
<1>3. \A n, m \in Shelves' : n # m => Items(Shelf(n)') \cap Items(Shelf(m)') = {}
  BY DEF Filed
<1>4. \A i \in taken' \ gone' : \E n \in Shelves' : i \in Items(Shelf(n)')
  BY DEF Filed
<1>5. BookRows' \subseteq BookRows
  <2> SUFFICES ASSUME NEW n \in Shelves', n[1] = "book", NEW p \in DOMAIN (Shelf(n)')
               PROVE  Shelf(n)'[p] \in BookRows
    BY DEF BookRows
  <2>1. n \in Shelves /\ Shelf(n)' = Shelf(n)  BY KindsAre
  <2> QED  BY <2>1 DEF BookRows
<1>6. \A n \in Shelves' : /\ Faithful(n[1], Shelf(n))' = Faithful(n[1], Shelf(n)')
                          /\ Items(Shelf(n))' = Items(Shelf(n)')
  BY DEF Faithful, Items
<1> QED  BY <1>1, <1>2, <1>3, <1>4, <1>5 DEF Filed, Faithful, Items

\* A delivery joins the buffer of its kind.
LEMMA Buffers ==
    ASSUME Typed, Timeline, Filed, NEW k \in Kind, NEW rows, NEW item, Buffer(k, rows),
           Faithful(k, rows), Items(rows) = {item}, item \in Delivery(k),
           \A i \in taken : i.kind = k => i.ts # item.ts
    PROVE  /\ taken' = taken \cup {item} /\ item \notin taken
           /\ Typed' \/ ~(seq' \in Nat)
           /\ Filed'
           /\ k # "book" => BookRows' \subseteq BookRows
           /\ k = "book" => BookRows' \subseteq BookRows \cup {rows[p] : p \in DOMAIN rows}
<1>1. item.kind = k /\ item \notin taken
  BY DEF Delivery
<1>2. taken' = taken \cup {item} /\ gone' = gone /\ files' = files
  BY DEF Buffer
<1>3. Shelves' = Shelves /\ \A n \in Shelves : n[1] \in Kind
  BY <1>2 DEF Shelves, Typed, Sharded
<1> DEFINE top == <<k, -1>>
<1>4. top \in Shelves /\ Shelf(top) = buf[k] /\ Shelf(top)' = buf[k] \o rows
  BY DEF Shelves, Shelf, Buffer, Typed, Sharded
<1>5. \A n \in Shelves : n # top => Shelf(n)' = Shelf(n)
  <2> SUFFICES ASSUME NEW n \in Shelves, n # top PROVE Shelf(n)' = Shelf(n)
    OBVIOUS
  <2>1. CASE n[2] = -1
    <3>1. n \in Kind \X {-1}  BY <2>1 DEF Shelves, Typed, Sharded
    <3>2. n[1] # k  BY <3>1
    <3> QED  BY <2>1, <3>1, <3>2 DEF Shelf, Buffer, Typed, Sharded
  <2>2. CASE n[2] # -1  BY <1>2, <2>2 DEF Shelf
  <2> QED  BY <2>1, <2>2
<1>6. \A n \in Shelves : Items(Shelf(n)) \subseteq taken \ gone /\ Faithful(n[1], Shelf(n))
  BY DEF Filed
<1>7. /\ Faithful(k, Shelf(top)') /\ Items(Shelf(top)') = Items(Shelf(top)) \cup {item}
      /\ \A p \in DOMAIN (Shelf(top)') : \/ \E q \in DOMAIN Shelf(top) : Shelf(top)'[p] = Shelf(top)[q]
                                         \/ \E q \in DOMAIN rows : Shelf(top)'[p] = rows[q]
  <2>1. Faithful(k, Shelf(top)) /\ Items(Shelf(top)) \cap Items(rows) = {}
    BY <1>1, <1>4, <1>6
  <2>2. ASSUME NEW under, Faithful(k, under), Items(under) \cap Items(rows) = {}
        PROVE  /\ Faithful(k, under \o rows) /\ Items(under \o rows) = Items(under) \cup Items(rows)
               /\ \A p \in DOMAIN (under \o rows) :
                    \/ \E q \in DOMAIN under : (under \o rows)[p] = under[q]
                    \/ \E q \in DOMAIN rows : (under \o rows)[p] = rows[q]
    BY <2>2, Joined
  <2>3. Items(Shelf(top)) \cap Items(rows) = {} => 
          /\ Faithful(k, Shelf(top) \o rows) /\ Items(Shelf(top) \o rows) = Items(Shelf(top)) \cup Items(rows)
          /\ \A p \in DOMAIN (Shelf(top) \o rows) :
               \/ \E q \in DOMAIN Shelf(top) : (Shelf(top) \o rows)[p] = Shelf(top)[q]
               \/ \E q \in DOMAIN rows : (Shelf(top) \o rows)[p] = rows[q]
    BY <2>1, <2>2
  <2> QED  BY <1>4, <2>1, <2>3
<1> HIDE DEF top
<1>8. Typed' \/ ~(seq' \in Nat)
  <2>1. clock \in Nat /\ Second \in Nat \ {0} => clock \div Second \in Nat
    OBVIOUS
  <2>2. rec' \in {"off", "run"} \cup Kind /\ stamp' \in Nat
    BY <2>1, ArchiveAssumption, KindsAre DEF Typed, Sharded, Buffer, ArchiveAssumption
  <2>3. taken' \subseteq UNION {Delivery(x) : x \in Kind}
    BY <1>2 DEF Typed, Sharded
  <2> QED  BY <2>2, <2>3 DEF Typed, Sharded, Buffer
<1>9a. item \notin gone /\ gone \subseteq taken
  BY <1>1 DEF Filed
<1>9. Filed'
  <2>1. \A n \in Shelves' : Faithful(n[1], Shelf(n)') /\ Items(Shelf(n)') \subseteq taken' \ gone'
    <3> SUFFICES ASSUME NEW n \in Shelves
                 PROVE  Faithful(n[1], Shelf(n)') /\ Items(Shelf(n)') \subseteq taken' \ gone'
      BY <1>3
    <3>1. CASE n # top  BY <1>2, <1>5, <1>6, <3>1
    <3>2. CASE n = top
      <4>1. n[1] = k  BY <3>2 DEF top
      <4> QED  BY <1>2, <1>4, <1>6, <1>7, <1>9a, <3>2, <4>1
    <3> QED  BY <3>1, <3>2
  <2>2. \A n, m \in Shelves' : n # m => Items(Shelf(n)') \cap Items(Shelf(m)') = {}
    BY <1>1, <1>3, <1>5, <1>6, <1>7 DEF Filed
  <2>3. \A i \in taken' \ gone' : \E n \in Shelves' : i \in Items(Shelf(n)')
    <3> SUFFICES ASSUME NEW i \in taken' \ gone' PROVE \E n \in Shelves : i \in Items(Shelf(n)')
      BY <1>3
    <3>1. CASE i = item  BY <1>4, <1>7, <3>1
    <3>2. CASE i \in taken \ gone
      <4>1. PICK n \in Shelves : i \in Items(Shelf(n))  BY <3>2 DEF Filed
      <4> QED  BY <1>4, <1>5, <1>7, <4>1
    <3> QED  BY <1>2, <3>1, <3>2
  <2> QED  BY <1>2, <1>9a, <2>1, <2>2, <2>3 DEF Filed, Faithful, Items
<1>10. \A n \in Shelves' : \A p \in DOMAIN (Shelf(n)') :
         n[1] = "book" => \/ Shelf(n)'[p] \in BookRows
                          \/ k = "book" /\ Shelf(n)'[p] \in {rows[x] : x \in DOMAIN rows}
  <2> SUFFICES ASSUME NEW n \in Shelves', NEW p \in DOMAIN (Shelf(n)'), n[1] = "book"
               PROVE  \/ Shelf(n)'[p] \in BookRows
                      \/ k = "book" /\ Shelf(n)'[p] \in {rows[x] : x \in DOMAIN rows}
    OBVIOUS
  <2>1. CASE n # top  BY <1>3, <1>5, <2>1 DEF BookRows
  <2>2. CASE n = top
    <3>1. k = "book"  BY <2>2 DEF top
    <3> QED  BY <1>3, <1>7, <2>2, <3>1 DEF BookRows
  <2> QED  BY <2>1, <2>2
<1>11. BookRows' \subseteq BookRows \cup (IF k = "book" THEN {rows[p] : p \in DOMAIN rows} ELSE {})
  BY <1>10 DEF BookRows
<1> QED  BY <1>1, <1>2, <1>8, <1>9, <1>11

\* The recorder's next actions but those that add a row: what was numbered stays
\* so where rows only go and no recording starts.
LEMMA StillNumbered ==
    ASSUME Numbered, BookRows' \subseteq BookRows, taken' = taken,
           recordings' = recordings, seq' = seq
    PROVE  Numbered'
BY DEF Numbered

\* Time and the count of recordings only grow.
LEMMA StillInTime ==
    ASSUME Timeline, Typed, taken' = taken, clock' \in Nat, recordings' \in Nat,
           clock' >= clock, recordings' >= recordings
    PROVE  Timeline'
<1>1. \A i \in taken : i.kind = "book" => i.ts \in Nat /\ i.run \in Nat
  BY DEF Typed, Sharded, Delivery
<1>2. clock \in Nat /\ recordings \in Nat
  BY ArchiveAssumption DEF Typed, Sharded, ArchiveAssumption
<1> QED  BY <1>1, <1>2 DEF Timeline

\* A row of a book shelf is of a snapshot that was taken.
LEMMA RowsKnown ==
    ASSUME Filed
    PROVE  \A r \in BookRows : r \in RowOf("book") /\ r.ts = r.item.ts /\ r.item \in taken /\ r.item.kind = "book"
<1> SUFFICES ASSUME NEW n \in Shelves, n[1] = "book", NEW p \in DOMAIN Shelf(n)
             PROVE  LET r == Shelf(n)[p]
                    IN  r \in RowOf("book") /\ r.ts = r.item.ts /\ r.item \in taken /\ r.item.kind = "book"
  BY DEF BookRows
<1>1. Faithful("book", Shelf(n)) /\ Items(Shelf(n)) \subseteq taken  BY DEF Filed
<1>2. Shelf(n) \in Seq(RowOf("book")) /\ Shelf(n)[p].ts = Shelf(n)[p].item.ts
  BY <1>1 DEF Faithful
<1>3. Shelf(n)[p] \in RowOf("book")  BY <1>2
<1>4. Shelf(n)[p].item.kind = "book"  BY <1>3 DEF RowOf, Delivery
<1>5. Shelf(n)[p].item \in taken  BY <1>1 DEF Items
<1> QED  BY <1>2, <1>3, <1>4, <1>5

\* The rows a snapshot brings are numbered after all of its recording.
LEMMA BookNumbered ==
    ASSUME Typed, Timeline, Filed, Numbered, NEW rows, NEW item \in Delivery("book"), Faithful("book", rows),
           Items(rows) = {item}, item.ts = clock, item.run = recordings,
           \A p \in DOMAIN rows : rows[p].seq = seq + p, seq' = seq + Len(rows),
           taken' = taken \cup {item}, \A i \in taken : i.kind = "book" => i.ts # clock,
           BookRows' \subseteq BookRows \cup {rows[p] : p \in DOMAIN rows},
           UNCHANGED <<clock, recordings>>
    PROVE  Timeline' /\ Numbered' /\ seq' \in Nat
<1>1. /\ rows \in Seq(RowOf("book")) /\ Len(rows) \in Nat \ {0} /\ DOMAIN rows = 1..Len(rows)
      /\ seq \in Nat /\ clock \in Nat /\ recordings \in Nat
  <2>1. rows \in Seq(RowOf("book")) /\ DOMAIN rows # {}  BY DEF Faithful, Items
  <2> QED  BY <2>1, ArchiveAssumption DEF Typed, Sharded, ArchiveAssumption
<1>2. \A c \in taken : c.kind = "book" => c.ts \in Nat /\ c.run \in Nat /\ c.ts < clock /\ c.run <= recordings
  BY <1>1 DEF Typed, Sharded, Delivery, Timeline
<1>3. \A r \in BookRows : /\ r \in RowOf("book") /\ r.ts = r.item.ts /\ r.item \in taken /\ r.item.kind = "book"
                          /\ r.ts < clock
  BY <1>2, RowsKnown
<1>4. \A p \in DOMAIN rows : rows[p].ts = clock /\ rows[p].item = item /\ rows[p].seq = seq + p
  <2>1. \A p \in DOMAIN rows : rows[p].item = item  BY DEF Items
  <2>2. \A p \in DOMAIN rows : rows[p].ts = rows[p].item.ts  BY DEF Faithful
  <2> QED  BY <2>1, <2>2
<1>5. \A r \in BookRows : r.seq \in Nat /\ r.ts \in Nat /\ r.item.run \in Nat
  BY <1>3 DEF RowOf, Delivery
<1>6. Timeline'
  <2>1. item.kind = "book"  BY DEF Delivery
  <2>2. \A i, j \in taken' : i.kind = j.kind /\ i.ts = j.ts => i = j
    BY <2>1 DEF Timeline
  <2>3. \A i \in taken' : i.kind = "book" => i.ts <= clock /\ i.run <= recordings
    BY <1>1, <1>2
  <2>4. ASSUME NEW i \in taken', NEW j \in taken', i.kind = "book", j.kind = "book", i.ts <= j.ts
        PROVE  i.run <= j.run
    <3>1. CASE j = item  BY <2>3, <2>4, <3>1
    <3>2. CASE i = item /\ j # item  BY <1>1, <1>2, <2>4, <3>2
    <3>3. CASE i # item /\ j # item  BY <2>4, <3>3 DEF Timeline
    <3> QED  BY <3>1, <3>2, <3>3
  <2> QED  BY <2>2, <2>3, <2>4 DEF Timeline
<1>7. ASSUME NEW r \in BookRows' PROVE r.item.run = recordings => r.seq <= seq'
  <2>1. CASE r \in BookRows  BY <1>1, <1>5, <2>1 DEF Numbered
  <2>2. CASE r \in {rows[p] : p \in DOMAIN rows}  BY <1>1, <1>4, <2>2
  <2> QED  BY <2>1, <2>2
<1>8. ASSUME NEW r \in BookRows', NEW c \in taken', c.kind = "book", c.run = r.item.run, r.ts < c.ts
      PROVE  /\ c.run = recordings => r.seq + 1 <= seq'
             /\ \A s \in BookRows' : s.item.run = c.run /\ c.ts < s.ts => r.seq + 2 <= s.seq
  <2>1. r \in BookRows
    <3>1. ASSUME r \in {rows[p] : p \in DOMAIN rows} PROVE FALSE
      BY <1>1, <1>2, <1>4, <1>8, <3>1
    <3> QED  BY <3>1
  <2>2. c.run = recordings => r.seq + 1 <= seq'
    <3>1. r.item.run = recordings => r.seq <= seq  BY <2>1 DEF Numbered
    <3> QED  BY <1>1, <1>5, <1>8, <2>1, <3>1
  <2>3. ASSUME NEW s \in BookRows', s.item.run = c.run, c.ts < s.ts PROVE r.seq + 2 <= s.seq
    <3>1. c # item
      <4>1. \A p \in DOMAIN rows : rows[p].ts = clock  BY <1>4
      <4>2. s.ts <= clock /\ s.ts \in Nat  BY <1>1, <1>3, <1>5, <4>1
      <4> QED  BY <1>1, <2>3, <4>2
    <3>2. CASE s \in BookRows  BY <1>8, <2>1, <2>3, <3>1, <3>2 DEF Numbered
    <3>3. CASE s \in {rows[p] : p \in DOMAIN rows}
      <4>1. PICK p \in DOMAIN rows : s = rows[p]  BY <3>3
      <4>2. s.seq = seq + p /\ p >= 1 /\ p \in Nat /\ c.run = recordings  BY <1>1, <1>4, <2>3, <4>1
      <4>3. r.seq + 1 <= seq  BY <1>8, <2>1, <3>1, <4>2 DEF Numbered
      <4> QED  BY <1>1, <1>5, <2>1, <4>2, <4>3
    <3> QED  BY <3>2, <3>3
  <2> QED  BY <2>2, <2>3
<1> QED  BY <1>1, <1>6, <1>7, <1>8 DEF Numbered

\* A shard is written over, or put beside the others.
LEMMA Puts ==
    ASSUME Typed, NEW k \in Kind, NEW name, name = <<k, stamp>>, NEW new, new.whole \/ new.rows = <<>>,
           files' = Put(name, new)
    PROVE  /\ Shelves' = Shelves \cup {name} /\ Shelf(name)' = new.rows
           /\ \A n \in Shelves : n[2] # -1 /\ n # name => Shelf(n)' = Shelf(n)
           /\ \A n \in Shelves : n[2] = -1 => Shelf(n)' = buf'[n[1]]
           /\ name \in Shelves => Truncated(name) = Items(Shelf(name))
           /\ name \notin Shelves => Truncated(name) = {}
           /\ Sharded'
<1>1. name \in Kind \X Nat /\ name[2] \in Nat /\ name[2] # -1 /\ name[1] = k
  BY DEF Typed, Sharded
<1>3. /\ DOMAIN files' = DOMAIN files \cup {name} /\ files'[name] = new
      /\ \A n \in DOMAIN files : n # name => files'[n] = files[n]
  BY DEF Put
<1>4. Shelves' = Shelves \cup {name}
  BY <1>3 DEF Shelves
<1>5. Shelf(name)' = new.rows
  BY <1>1, <1>3 DEF Shelf
<1>6. \A n \in Shelves : n[2] # -1 /\ n # name => Shelf(n)' = Shelf(n)
  <2> SUFFICES ASSUME NEW n \in Shelves, n[2] # -1, n # name PROVE Shelf(n)' = Shelf(n)
    OBVIOUS
  <2>1. n \in DOMAIN files  BY DEF Shelves
  <2> QED  BY <1>3, <2>1 DEF Shelf
<1>7. \A n \in Shelves : n[2] = -1 => Shelf(n)' = buf'[n[1]]
  BY DEF Shelf
<1>8. name \in Shelves <=> name \in DOMAIN files
  BY <1>1 DEF Shelves
<1>9. Truncated(name) = IF name \in Shelves THEN Items(Shelf(name)) ELSE {}
  BY <1>1, <1>8 DEF Truncated, Shelf
<1>10. IsFiniteSet(DOMAIN files')
  <2>1. IsFiniteSet(DOMAIN files)  BY DEF Typed, Sharded
  <2>2. IsFiniteSet(DOMAIN files \cup {name})  BY <2>1, FS_AddElement
  <2> QED  BY <1>3, <2>2
<1>11. DOMAIN files' \subseteq Kind \X Nat
  BY <1>1, <1>3 DEF Typed, Sharded
<1>12. \A n \in DOMAIN files' : files'[n].whole \/ files'[n].rows = <<>>
  <2> SUFFICES ASSUME NEW n \in DOMAIN files' PROVE files'[n].whole \/ files'[n].rows = <<>>
    OBVIOUS
  <2>1. CASE n = name  BY <1>3, <2>1
  <2>2. CASE n # name  BY <1>3, <2>2 DEF Typed, Sharded
  <2> QED  BY <2>1, <2>2
<1> QED  BY <1>4, <1>5, <1>6, <1>7, <1>9, <1>10, <1>11, <1>12 DEF Sharded

\* A shelf is of a kind (the buffers of the Recorder, its shards).
LEMMA ShelfTyped == ASSUME Typed PROVE \A n \in Shelves : n[1] \in Kind
BY DEF Shelves, Typed, Sharded

\* The rows of a buffer become a shard.
LEMMA Moves ==
    ASSUME Typed, Filed, NEW k \in Kind, NEW name, name = <<k, stamp>>,
           NEW new, new.whole \/ new.rows = <<>>, new.rows = buf[k],
           files' = Put(name, new),
           gone' = gone \cup Truncated(name), buf' = [buf EXCEPT ![k] = <<>>], taken' = taken
    PROVE  Filed' /\ BookRows' \subseteq BookRows
<1> DEFINE top == <<k, -1>>
<1>1. /\ Shelves' = Shelves \cup {name} /\ Shelf(name)' = buf[k]
      /\ \A n \in Shelves : n[2] # -1 /\ n # name => Shelf(n)' = Shelf(n)
      /\ \A n \in Shelves : n[2] = -1 => Shelf(n)' = buf'[n[1]]
      /\ name \in Shelves => Truncated(name) = Items(Shelf(name))
      /\ name \notin Shelves => Truncated(name) = {}
  BY Puts
<1>2. name # top /\ top \in Shelves /\ top[1] = k /\ name[1] = k /\ top[2] = -1 /\ Shelf(top) = buf[k]
  BY DEF Typed, Sharded, Shelves, Shelf
<1>3. Shelf(top)' = <<>>
  BY <1>1, <1>2 DEF Typed, Sharded
<1>4. \A n \in Shelves : n # top /\ n # name => Shelf(n)' = Shelf(n)
  <2> SUFFICES ASSUME NEW n \in Shelves, n # top, n # name PROVE Shelf(n)' = Shelf(n)
    OBVIOUS
  <2>1. CASE n[2] = -1
    <3>1. n \in Kind \X {-1}  BY <2>1 DEF Shelves, Typed, Sharded
    <3>2. n[1] # k  BY <3>1
    <3> QED  BY <1>1, <2>1, <3>1, <3>2 DEF Shelf, Typed, Sharded
  <2> QED  BY <1>1, <2>1
<1> DEFINE lost == Truncated(name)
<1>5. /\ Shelves' = Shelves \cup {name} /\ Shelf(name)' = Shelf(top) /\ Shelf(top)' = <<>>
      /\ lost = IF name \in Shelves THEN Items(Shelf(name)) ELSE {}
      /\ gone' = gone \cup lost
  BY <1>1, <1>2, <1>3
<1>6. /\ \A n \in Shelves : n[1] \in Kind /\ Faithful(n[1], Shelf(n)) /\ Items(Shelf(n)) \subseteq taken \ gone
      /\ \A n, m \in Shelves : n # m => Items(Shelf(n)) \cap Items(Shelf(m)) = {}
      /\ gone \subseteq taken
      /\ \A i \in taken \ gone : \E n \in Shelves : i \in Items(Shelf(n))
  BY ShelfTyped DEF Filed
<1> HIDE DEF top, lost
<1>7. lost \cap Items(Shelf(top)) = {} /\ lost \subseteq taken
      /\ \A n \in Shelves : n # name => lost \cap Items(Shelf(n)) = {}
  BY <1>2, <1>5, <1>6
<1>8. \A n \in Shelves' : Faithful(n[1], Shelf(n)') /\ Items(Shelf(n)') \subseteq taken' \ gone'
  <2> SUFFICES ASSUME NEW n \in Shelves'
               PROVE  Faithful(n[1], Shelf(n)') /\ Items(Shelf(n)') \subseteq taken' \ gone'
    OBVIOUS
  <2>1. CASE n = name  BY <1>2, <1>5, <1>6, <1>7, <2>1
  <2>2. CASE n = top  BY <1>2, <1>5, <2>2, EmptyIs
  <2>3. CASE n # name /\ n # top
    <3>1. n \in Shelves /\ Shelf(n)' = Shelf(n)  BY <1>4, <1>5, <2>3
    <3> QED  BY <1>5, <1>6, <1>7, <2>3, <3>1
  <2> QED  BY <2>1, <2>2, <2>3
<1>9. \A n, m \in Shelves' : n # m => Items(Shelf(n)') \cap Items(Shelf(m)') = {}
  <2>1. \A n \in Shelves' : \/ Items(Shelf(n)') = {}
                            \/ n = name /\ Items(Shelf(n)') = Items(Shelf(top))
                            \/ n \in Shelves /\ n # top /\ n # name /\ Items(Shelf(n)') = Items(Shelf(n))
    BY <1>2, <1>4, <1>5, EmptyIs
  <2> QED  BY <1>2, <1>6, <2>1
<1>10. \A i \in taken' \ gone' : \E n \in Shelves' : i \in Items(Shelf(n)')
  <2> SUFFICES ASSUME NEW i \in taken \ gone, i \notin lost PROVE \E n \in Shelves' : i \in Items(Shelf(n)')
    BY <1>5
  <2>1. PICK n \in Shelves : i \in Items(Shelf(n))  BY <1>6
  <2>2. n # name  BY <1>5, <2>1
  <2> QED  BY <1>4, <1>5, <2>1, <2>2
<1>11. ASSUME NEW n \in Shelves', n[1] = "book", NEW p \in DOMAIN (Shelf(n)') PROVE Shelf(n)'[p] \in BookRows
  <2>1. CASE n = name  BY <1>2, <1>5, <1>11, <2>1 DEF BookRows
  <2>2. CASE n = top  BY <1>5, <1>11, <2>2, EmptyIs, KindsAre
  <2>3. CASE n # name /\ n # top  BY <1>4, <1>5, <1>11, <2>3 DEF BookRows
  <2> QED  BY <2>1, <2>2, <2>3
<1>12. BookRows' \subseteq BookRows
  BY <1>11 DEF BookRows
<1> QED  BY <1>5, <1>6, <1>7, <1>8, <1>9, <1>10, <1>12 DEF Filed, Faithful, Items

\* A torso clears a shard, a kill or a last flush the buffers.
LEMMA Fails ==
    ASSUME Typed, Filed, taken' = taken, NEW k \in Kind, NEW name, name = <<k, stamp>>,
           NEW new, new.rows = <<>>, NEW torn, NEW spilt, gone' = gone \cup torn \cup spilt,
           \/ files' = files /\ torn = {}
           \/ /\ files' = Put(name, new)
              /\ torn = Truncated(name),
           (buf' = buf /\ spilt = {}) \/ (buf' = NoRows /\ spilt = Pending)
    PROVE  /\ Filed' /\ BookRows' \subseteq BookRows
           /\ Sharded'
<1>1. /\ \A n \in Shelves : n[1] \in Kind /\ Items(Shelf(n)) \subseteq taken \ gone
      /\ \A n, m \in Shelves : n # m => Items(Shelf(n)) \cap Items(Shelf(m)) = {}
      /\ gone \subseteq taken
  BY ShelfTyped DEF Filed
<1>2. \A x \in Kind : <<x, -1>> \in Shelves /\ Shelf(<<x, -1>>) = buf[x]
  BY DEF Shelves, Shelf
<1>3. \A n \in Shelves : n[2] = -1 => n = <<n[1], -1>> /\ n[1] \in Kind
  <2> SUFFICES ASSUME NEW n \in Shelves, n[2] = -1 PROVE n = <<n[1], -1>> /\ n[1] \in Kind
    OBVIOUS
  <2>1. n \in Kind \X {-1}  BY DEF Shelves, Typed, Sharded
  <2> QED  BY <2>1
<1>4. Pending \subseteq taken \ gone /\ \A n \in Shelves : n[2] # -1 => Items(Shelf(n)) \cap Pending = {}
  <2>1. \A i \in Pending : \E x \in Kind : i \in Items(Shelf(<<x, -1>>))
    BY <1>2 DEF Pending
  <2>2. \A x \in Kind, n \in Shelves : n[2] # -1 => n # <<x, -1>>
    OBVIOUS
  <2> QED  BY <1>1, <1>2, <2>1, <2>2
<1>5. \A n \in Shelves : n[2] = -1 =>
        /\ buf' = buf => Shelf(n)' = Shelf(n)
        /\ buf' = NoRows => Shelf(n)' = <<>> /\ Items(Shelf(n)) \subseteq Pending
  <2> SUFFICES ASSUME NEW n \in Shelves, n[2] = -1
               PROVE  /\ buf' = buf => Shelf(n)' = Shelf(n)
                      /\ buf' = NoRows => Shelf(n)' = <<>> /\ Items(Shelf(n)) \subseteq Pending
    OBVIOUS
  <2>1. n[1] \in Kind  BY <1>3
  <2>2. Shelf(n) = buf[n[1]] /\ Shelf(n)' = buf'[n[1]]  BY DEF Shelf
  <2>3. Items(buf[n[1]]) \subseteq Pending  BY <2>1 DEF Pending
  <2> QED  BY <2>1, <2>2, <2>3 DEF NoRows
<1>6. CASE files' = files /\ torn = {}
  <2>1. Shelves' = Shelves  BY <1>6 DEF Shelves
  <2>2. \A n \in Shelves : n[2] # -1 => Shelf(n)' = Shelf(n)  BY <1>6 DEF Shelf
  <2>3. Sharded'  BY <1>6 DEF Typed, Sharded
  <2>4. gone \subseteq gone' /\ gone' \subseteq taken /\ gone' = gone \cup spilt
    BY <1>1, <1>4, <1>6
  <2>5. \A n \in Shelves : \/ Shelf(n)' = Shelf(n) /\ Items(Shelf(n)) \cap gone' \subseteq gone
                           \/ Shelf(n)' = <<>> /\ Items(Shelf(n)) \subseteq gone'
    <3> SUFFICES ASSUME NEW n \in Shelves
                 PROVE \/ Shelf(n)' = Shelf(n) /\ Items(Shelf(n)) \cap gone' \subseteq gone
                       \/ Shelf(n)' = <<>> /\ Items(Shelf(n)) \subseteq gone'
      OBVIOUS
    <3>1. CASE n[2] # -1  BY <1>4, <2>2, <2>4, <3>1
    <3>2. CASE n[2] = -1 /\ buf' = buf /\ spilt = {}  BY <1>5, <2>4, <3>2
    <3>3. CASE n[2] = -1 /\ buf' = NoRows /\ spilt = Pending  BY <1>4, <1>5, <2>4, <3>3
    <3> QED  BY <3>1, <3>2, <3>3
  <2>6. Filed' /\ BookRows' \subseteq BookRows  BY <1>1, <2>1, <2>4, <2>5, Cleared
  <2> QED  BY <2>3, <2>6
<1>7. CASE /\ files' = Put(name, new)
           /\ torn = Truncated(name)
  <2>0. new.whole \/ new.rows = <<>>  OBVIOUS
  <2>1. Shelves' = Shelves \cup {name}  BY <1>7, <2>0, Puts
  <2>2. Shelf(name)' = <<>>  BY <1>7, <2>0, Puts
  <2>3. \A n \in Shelves : n[2] # -1 /\ n # name => Shelf(n)' = Shelf(n)  BY <1>7, <2>0, Puts
  <2>4. name \in Shelves => torn = Items(Shelf(name))  BY <1>7, <2>0, Puts
  <2>5. name \notin Shelves => torn = {}  BY <1>7, <2>0, Puts
  <2>6. Sharded'  BY <1>7, <2>0, Puts
  <2>9. name[1] \in Kind /\ name[2] # -1  BY DEF Typed, Sharded
  <2>10. gone \subseteq gone' /\ gone' \subseteq taken /\ gone' = gone \cup torn \cup spilt
    BY <1>1, <1>4, <2>4, <2>5
  <2>11. \A n \in Shelves : n # name => Items(Shelf(n)) \cap torn = {}
    BY <1>1, <2>4, <2>5
  <2>12. \A n \in Shelves : \/ Shelf(n)' = Shelf(n) /\ Items(Shelf(n)) \cap gone' \subseteq gone
                            \/ Shelf(n)' = <<>> /\ Items(Shelf(n)) \subseteq gone'
    <3> SUFFICES ASSUME NEW n \in Shelves
                 PROVE \/ Shelf(n)' = Shelf(n) /\ Items(Shelf(n)) \cap gone' \subseteq gone
                       \/ Shelf(n)' = <<>> /\ Items(Shelf(n)) \subseteq gone'
      OBVIOUS
    <3>0. CASE n = name  BY <2>2, <2>4, <2>10, <3>0
    <3>1. CASE n # name /\ n[2] # -1  BY <1>4, <2>3, <2>10, <2>11, <3>1
    <3>2. CASE n[2] = -1 /\ buf' = buf /\ spilt = {}  BY <1>5, <2>9, <2>10, <2>11, <3>2
    <3>3. CASE n[2] = -1 /\ buf' = NoRows /\ spilt = Pending  BY <1>4, <1>5, <2>10, <3>3
    <3> QED  BY <3>0, <3>1, <3>2, <3>3
  <2>13. \A n \in Shelves' : n[1] \in Kind /\ (Shelf(n)' = <<>> \/ (n \in Shelves /\ Shelf(n)' = Shelf(n)))
    BY <1>1, <2>1, <2>2, <2>9, <2>12
  <2>14. \A n \in Shelves : n \in Shelves' /\ (Shelf(n)' = Shelf(n) \/ Items(Shelf(n)) \subseteq gone')
    BY <2>1, <2>12
  <2>15. \A n \in Shelves : Shelf(n)' = <<>> \/ Items(Shelf(n)) \cap gone' \subseteq gone
    BY <2>12
  <2>16. Filed' /\ BookRows' \subseteq BookRows  BY <2>10, <2>13, <2>14, <2>15, Cleared
  <2> QED  BY <2>6, <2>16
<1> QED  BY <1>6, <1>7

\* A stamp is a number (Recorder::flush).
LEMMA StampTyped == ASSUME Typed PROVE clock \in Nat /\ clock \div Second \in Nat
<1>1. clock \in Nat /\ Second \in Nat \ {0}  BY ArchiveAssumption DEF Typed, ArchiveAssumption
<1> QED  BY <1>1

\* Nothing on the shelves moves.
LEMMA Shelved ==
    ASSUME Filed, UNCHANGED <<buf, files, taken, gone>>
    PROVE  Filed' /\ BookRows' = BookRows
<1>1. Shelves' = Shelves /\ \A n \in Shelves : Shelf(n)' = Shelf(n)
  BY DEF Shelves, Shelf
<1>2. BookRows' = BookRows  BY <1>1 DEF BookRows
<1>3. /\ \A n \in Shelves : Faithful(n[1], Shelf(n)') /\ Items(Shelf(n)') \subseteq taken' \ gone'
      /\ \A n, m \in Shelves : n # m => Items(Shelf(n)') \cap Items(Shelf(m)') = {}
      /\ gone' \subseteq taken'
      /\ \A i \in taken' \ gone' : \E n \in Shelves : i \in Items(Shelf(n)')
  BY <1>1 DEF Filed
<1> QED  BY <1>1, <1>2, <1>3 DEF Filed, Items, Faithful

\* The passing of time disturbs nothing.
LEMMA InstantKeeps == RecorderInv /\ Instant => RecorderInv'
<1> SUFFICES ASSUME RecorderInv, Instant PROVE RecorderInv'
  OBVIOUS
<1>1. Typed'
  <2>1. clock' \in 1..LastInstant  BY ArchiveAssumption DEF Instant, RecorderInv, Typed, ArchiveAssumption
  <2> QED  BY <2>1 DEF RecorderInv, Instant, Typed, Sharded
<1>2. clock' \in Nat /\ clock' >= clock
  BY StampTyped DEF Instant, RecorderInv
<1>3. Filed' /\ BookRows' = BookRows  BY Shelved DEF RecorderInv, Instant
<1>4. Timeline'  BY <1>2, StillInTime DEF RecorderInv, Instant, Typed
<1>5. Numbered'  BY <1>3, StillNumbered DEF RecorderInv, Instant
<1>6. Emptied'  BY DEF RecorderInv, Emptied, Instant
<1> QED  BY <1>1, <1>3, <1>4, <1>5, <1>6 DEF RecorderInv

\* A recording that starts finds nothing of its own.
LEMMA StartKeeps == RecorderInv /\ StartRecorder => RecorderInv'
<1> SUFFICES ASSUME RecorderInv, StartRecorder PROVE RecorderInv'
  OBVIOUS
<1>1. buf' = buf
  <2>1. \A k \in Kind : buf[k] = <<>>  BY KindsAre DEF RecorderInv, Emptied, StartRecorder
  <2>2. buf' = [k \in Kind |-> <<>>]  BY DEF StartRecorder, NoRows
  <2>3. buf = [k \in Kind |-> buf[k]]  BY DEF RecorderInv, Typed
  <2> QED  BY <2>1, <2>2, <2>3
<1>2. Typed'  BY <1>1 DEF RecorderInv, Typed, Sharded, StartRecorder
<1>3. Filed' /\ BookRows' = BookRows  BY <1>1, Shelved DEF RecorderInv, StartRecorder
<1>4. Timeline'  BY StillInTime, StampTyped DEF RecorderInv, StartRecorder, Typed
<1>5. Emptied'  BY <1>1 DEF Emptied, StartRecorder
<1>6. Numbered'
  <2>1. \A c \in taken : c.kind = "book" => c.run # recordings'
    BY DEF RecorderInv, StartRecorder, Timeline, Typed, Delivery
  <2>2. \A r \in BookRows : r.item \in taken /\ r.item.kind = "book"  BY RowsKnown DEF RecorderInv
  <2> QED  BY <1>3, <2>1, <2>2 DEF Numbered, RecorderInv, StartRecorder
<1> QED  BY <1>2, <1>3, <1>4, <1>5, <1>6 DEF RecorderInv

\* What one delivery brings to the buffers.
LEMMA BookBrings ==
    ASSUME Typed, NEW d \in Depths[clock], RecordBook(d)
    PROVE  \E rows, item :
             /\ Buffer("book", rows) /\ Faithful("book", rows) /\ Items(rows) = {item}
             /\ item \in Delivery("book") /\ item.ts = clock /\ item.run = recordings
             /\ \A p \in DOMAIN rows : rows[p].seq = seq + p
             /\ seq' = seq + Len(rows)
<1> DEFINE of(side) == {d[i][2] : i \in {j \in DOMAIN d : d[j][1] = side}}
           thing == [kind |-> "book", ts |-> clock, run |-> recordings, val |-> [bids |-> of(0), asks |-> of(1)]]
           lines == [i \in DOMAIN d |-> [item |-> thing, ts |-> clock, side |-> d[i][1],
                                         price |-> d[i][2], seq |-> seq + i]]
<1>1. d \in Seq({0, 1} \X (Nat \ {0})) /\ d # <<>>
  <2>1. clock \in DOMAIN Depths  BY ArchiveAssumption DEF Typed, ArchiveAssumption
  <2>2. d \in UNION Range(Depths)  BY <2>1 DEF Range
  <2> QED  BY <2>2, ArchiveAssumption DEF ArchiveAssumption
<1>2. /\ Len(d) \in Nat \ {0} /\ DOMAIN d = 1..Len(d)
      /\ \A i \in DOMAIN d : d[i] \in {0, 1} \X (Nat \ {0}) /\ d[i][1] \in {0, 1} /\ d[i][2] \in Nat \ {0}
  <2>1. Len(d) \in Nat \ {0} /\ DOMAIN d = 1..Len(d)  BY <1>1
  <2>2. \A i \in DOMAIN d : d[i] \in {0, 1} \X (Nat \ {0})  BY <1>1
  <2> QED  BY <2>1, <2>2
<1>3. clock \in Nat \ {0} /\ recordings \in Nat /\ seq \in Nat
  BY ArchiveAssumption DEF Typed, ArchiveAssumption
<1>4. of(0) \in SUBSET Nat /\ of(1) \in SUBSET Nat
  BY <1>2
<1>5. thing \in Delivery("book")
  BY <1>3, <1>4 DEF Delivery
<1> HIDE DEF of
<1>6. \A i \in DOMAIN d : lines[i] \in RowOf("book")
  BY <1>2, <1>3, <1>5 DEF RowOf
<1>7. lines \in Seq(RowOf("book")) /\ Len(lines) = Len(d) /\ DOMAIN lines = 1..Len(d)
  <2>1. DOMAIN lines = 1..Len(d)  BY <1>2
  <2>2. lines \in [1..Len(d) -> RowOf("book")]  BY <1>2, <1>6
  <2> QED  BY <1>2, <2>1, <2>2
<1>8. \A i \in DOMAIN lines : /\ lines[i].item = thing /\ lines[i].ts = clock /\ lines[i].seq = seq + i
                              /\ lines[i].side = d[i][1] /\ lines[i].price = d[i][2]
  BY <1>2, <1>7
<1>9. Buffer("book", lines) /\ seq' = seq + Len(lines)
  BY <1>7 DEF RecordBook, of
<1>10. thing.val = [bids |-> of(0), asks |-> of(1)] /\ thing.ts = clock /\ thing.run = recordings
  OBVIOUS
<1> HIDE DEF thing, lines
<1>11. Items(lines) = {thing}
  BY <1>2, <1>7, <1>8 DEF Items
<1>12. ASSUME NEW side
       PROVE of(side) = {lines[q].price : q \in {x \in DOMAIN lines : lines[x].item = thing /\ lines[x].side = side}}
  BY <1>2, <1>7, <1>8 DEF of
<1>13. Faithful("book", lines)
  <2>1. \A p \in DOMAIN lines : lines[p].ts = lines[p].item.ts  BY <1>8, <1>10
  <2>2. ASSUME NEW p \in DOMAIN lines
        PROVE LET on(side) == {lines[q].price : q \in {x \in DOMAIN lines : lines[x].item = lines[p].item
                                                                            /\ lines[x].side = side}}
              IN  lines[p].item.val = [bids |-> on(0), asks |-> on(1)]
    BY <1>8, <1>10, <1>12
  <2> QED  BY <1>7, <2>1, <2>2 DEF Faithful
<1> QED  BY <1>5, <1>8, <1>9, <1>10, <1>11, <1>13

\* A trade or a mark is a row of its own (record_trade, record_mark).
LEMMA RowBrings ==
    ASSUME NEW k \in Kind \ {"book"}, NEW ts \in Nat \ {0}, NEW p \in Nat, recordings \in Nat
    PROVE  LET item == [kind |-> k, ts |-> ts, val |-> p, run |-> recordings]
               rows == <<[item |-> item, ts |-> ts, price |-> p]>>
           IN  /\ Faithful(k, rows) /\ Items(rows) = {item}
               /\ item \in Delivery(k) /\ item.ts = ts
<1> DEFINE item == [kind |-> k, ts |-> ts, val |-> p, run |-> recordings]
           row == [item |-> item, ts |-> ts, price |-> p]
           rows == <<row>>
<1>1. item \in Delivery(k) /\ item.ts = ts /\ item.val = p
  BY DEF Delivery
<1> HIDE DEF item
<1>2. row \in RowOf(k) /\ row.ts = row.item.ts /\ row.price = row.item.val /\ row.item = item
  BY <1>1 DEF RowOf
<1> HIDE DEF row
<1>3. rows \in Seq(RowOf(k)) /\ DOMAIN rows = {1} /\ rows[1] = row
  BY <1>2
<1> HIDE DEF rows
<1>4. Faithful(k, rows)
  BY <1>2, <1>3 DEF Faithful
<1>5. Items(rows) = {item}
  BY <1>2, <1>3 DEF Items
<1> QED  BY <1>1, <1>4, <1>5 DEF item, row, rows

\* What is buffered joins no flush under way (record_*: the loop is between two awaits).
LEMMA BufferedEmptied == ASSUME NEW k \in Kind, NEW rows, Buffer(k, rows), rec = "run" PROVE Emptied'
BY KindsAre DEF Buffer, Emptied

\* A snapshot is buffered row by row, numbered (record_book).
LEMMA BookKeeps == ASSUME RecorderInv, NEW d \in Depths[clock], RecordBook(d) PROVE RecorderInv'
<1>1. PICK rows, item :
             /\ Buffer("book", rows) /\ Faithful("book", rows) /\ Items(rows) = {item}
             /\ item \in Delivery("book") /\ item.ts = clock /\ item.run = recordings
             /\ \A p \in DOMAIN rows : rows[p].seq = seq + p
             /\ seq' = seq + Len(rows)
  BY BookBrings DEF RecorderInv
<1>2. \A i \in taken : i.kind = "book" => i.ts # item.ts
  BY <1>1 DEF RecordBook, New
<1>3. "book" \in Kind  BY KindsAre
<1>4. taken' = taken \cup {item}  BY <1>1, <1>2, <1>3, Buffers DEF RecorderInv
<1>5. Typed' \/ ~(seq' \in Nat)  BY <1>1, <1>2, <1>3, Buffers DEF RecorderInv
<1>6. Filed'  BY <1>1, <1>2, <1>3, Buffers DEF RecorderInv
<1>7. BookRows' \subseteq BookRows \cup {rows[p] : p \in DOMAIN rows}
  BY <1>1, <1>2, <1>3, Buffers DEF RecorderInv
<1>8. UNCHANGED <<clock, recordings>>  BY <1>1 DEF Buffer
<1>9. Timeline' /\ Numbered' /\ seq' \in Nat
  BY <1>1, <1>2, <1>4, <1>7, <1>8, BookNumbered DEF RecorderInv
<1>10. Emptied'  BY <1>1, <1>3, BufferedEmptied DEF RecordBook
<1> QED  BY <1>5, <1>6, <1>9, <1>10 DEF RecorderInv

\* A trade or a mark leaves the numbers alone.
LEMMA RowKeeps ==
    ASSUME RecorderInv, NEW k \in Kind \ {"book"}, NEW ts \in Nat \ {0}, NEW p \in Nat, New(k, ts), rec = "run",
           Buffer(k, <<[item |-> [kind |-> k, ts |-> ts, val |-> p, run |-> recordings], ts |-> ts, price |-> p]>>),
           seq' = seq
    PROVE  RecorderInv'
<1> DEFINE item == [kind |-> k, ts |-> ts, val |-> p, run |-> recordings]
           rows == <<[item |-> item, ts |-> ts, price |-> p]>>
<1>1. Faithful(k, rows) /\ Items(rows) = {item} /\ item \in Delivery(k) /\ item.ts = ts
  BY RowBrings DEF RecorderInv, Typed
<1>2. Buffer(k, rows)  OBVIOUS
<1>3. item.kind = k  OBVIOUS
<1> HIDE DEF item, rows
<1>4. \A i \in taken : i.kind = k => i.ts # item.ts  BY <1>1 DEF New
<1>5. taken' = taken \cup {item}  BY <1>1, <1>2, <1>4, Buffers DEF RecorderInv
<1>6. Typed' \/ ~(seq' \in Nat)  BY <1>1, <1>2, <1>4, Buffers DEF RecorderInv
<1>7. Filed'  BY <1>1, <1>2, <1>4, Buffers DEF RecorderInv
<1>8. BookRows' \subseteq BookRows  BY <1>1, <1>2, <1>4, Buffers DEF RecorderInv
<1>9. seq' \in Nat  BY DEF RecorderInv, Typed
<1>10. UNCHANGED <<clock, recordings>>  BY <1>2 DEF Buffer
<1>11. Timeline'
  BY <1>3, <1>4, <1>1, <1>5, <1>10 DEF RecorderInv, Timeline
<1>12. Numbered'
  <2>1. item.kind # "book"  BY <1>3
  <2> QED  BY <1>5, <1>8, <1>10, <2>1 DEF RecorderInv, Numbered
<1>13. Emptied'  BY <1>2, BufferedEmptied
<1> QED  BY <1>6, <1>7, <1>9, <1>11, <1>12, <1>13 DEF RecorderInv

\* A mark is buffered (record_mark).
LEMMA MarkKeeps == RecorderInv /\ RecordMark => RecorderInv'
<1> SUFFICES ASSUME RecorderInv, RecordMark PROVE RecorderInv'
  OBVIOUS
<1>1. clock \in Nat \ {0} /\ "mark" \in Kind \ {"book"}
  BY ArchiveAssumption, KindsAre DEF RecorderInv, Typed, ArchiveAssumption
<1>2. /\ New("mark", clock) /\ rec = "run" /\ seq' = seq
      /\ Buffer("mark", <<[item |-> [kind |-> "mark", ts |-> clock, val |-> clock, run |-> recordings],
                           ts |-> clock, price |-> clock]>>)
  BY DEF RecordMark
<1> QED  BY <1>1, <1>2, RowKeeps

\* A trade is buffered, however late (record_trade).
LEMMA TradeKeeps ==
    ASSUME RecorderInv, NEW ts \in Nat \ {0}, NEW p \in Deals, RecordTrade(ts, p) PROVE RecorderInv'
<1>1. p \in Nat /\ "trades" \in Kind \ {"book"}
  BY ArchiveAssumption, KindsAre DEF ArchiveAssumption
<1>2. /\ New("trades", ts) /\ rec = "run" /\ seq' = seq
      /\ Buffer("trades", <<[item |-> [kind |-> "trades", ts |-> ts, val |-> p, run |-> recordings],
                             ts |-> ts, price |-> p]>>)
  BY DEF RecordTrade
<1> QED  BY <1>1, <1>2, RowKeeps

\* What leaves the rows where they lie.
LEMMA IdleKeeps ==
    ASSUME RecorderInv, UNCHANGED <<clock, recordings, buf, seq, files, taken, gone>>,
           rec' \in {"off", "run"} \cup Kind, stamp' \in Nat, Emptied'
    PROVE  RecorderInv'
<1>1. Typed'  BY DEF RecorderInv, Typed, Sharded
<1>2. Filed' /\ BookRows' = BookRows  BY Shelved DEF RecorderInv
<1>3. Timeline'  BY DEF RecorderInv, Timeline
<1>4. Numbered'  BY <1>2, StillNumbered DEF RecorderInv
<1> QED  BY <1>1, <1>2, <1>3, <1>4 DEF RecorderInv

\* A flush that starts has written nothing yet (flush_if_stale).
LEMMA StartFlushKeeps == ASSUME RecorderInv, NEW last, StartFlush(last) PROVE RecorderInv'
<1>1. Emptied'  BY DEF Emptied, StartFlush
<1>2. rec' \in {"off", "run"} \cup Kind /\ stamp' \in Nat
  BY StampTyped, KindsAre DEF StartFlush, RecorderInv
<1> QED  BY <1>1, <1>2, IdleKeeps DEF StartFlush

\* A recorder stops with nothing in its buffers (run_recorder: the end).
LEMMA StopKeeps == RecorderInv /\ StopRecorder => RecorderInv'
<1> SUFFICES ASSUME RecorderInv, StopRecorder PROVE RecorderInv'
  OBVIOUS
<1>1. \A k \in Kind : buf[k] \in Seq(RowOf(k))
  <2> SUFFICES ASSUME NEW k \in Kind PROVE buf[k] \in Seq(RowOf(k))
    OBVIOUS
  <2>1. <<k, -1>> \in Shelves /\ Shelf(<<k, -1>>) = buf[k] /\ <<k, -1>>[1] = k  BY DEF Shelves, Shelf
  <2>2. Faithful(k, buf[k])  BY <2>1 DEF RecorderInv, Filed
  <2> QED  BY <2>2 DEF Faithful
<1>2. buf["book"] = <<>> /\ buf["trades"] = <<>> /\ buf["mark"] = <<>>
  <2>1. \A k \in Kind : Len(buf[k]) \in Nat /\ (Len(buf[k]) = 0 => buf[k] = <<>>)  BY <1>1
  <2>2. Len(buf["book"]) + Len(buf["trades"]) + Len(buf["mark"]) = 0  BY DEF StopRecorder, Buffered
  <2>3. /\ Len(buf["book"]) \in Nat /\ Len(buf["trades"]) \in Nat /\ Len(buf["mark"]) \in Nat
    BY <2>1, KindsAre
  <2>4. Len(buf["book"]) = 0 /\ Len(buf["trades"]) = 0 /\ Len(buf["mark"]) = 0
    <3>1. \A x, y, z \in Nat : x + y + z = 0 => x = 0 /\ y = 0 /\ z = 0  OBVIOUS
    <3> QED  BY <2>2, <2>3, <3>1
  <2> QED  BY <2>1, <2>4, KindsAre
<1>3. Emptied'  BY <1>2 DEF Emptied, StopRecorder
<1>4. rec' \in {"off", "run"} \cup Kind /\ stamp' \in Nat
  BY DEF StopRecorder, RecorderInv, Typed
<1> QED  BY <1>3, <1>4, IdleKeeps DEF StopRecorder

\* What a flush writes moves from the buffer to a shard, and what lay under its name is lost
\* (Recorder::flush).
LEMMA WriteKeeps == RecorderInv /\ WriteShard => RecorderInv'
<1> SUFFICES ASSUME RecorderInv, WriteShard PROVE RecorderInv'
  OBVIOUS
<1>1. /\ rec \in Kind /\ rec' = NextKind(rec) /\ stamp' = (IF rec = "mark" THEN 0 ELSE stamp)
      /\ UNCHANGED <<clock, recordings, seq, taken>>
  BY DEF WriteShard
<1>2. rec' \in {"off", "run"} \cup Kind /\ stamp' \in Nat
  BY <1>1, KindsAre DEF NextKind, RecorderInv, Typed
<1>3. Emptied'
  <2>1. (buf' = buf /\ buf[rec] = <<>>) \/ buf' = [buf EXCEPT ![rec] = <<>>]
    BY DEF WriteShard
  <2>2. buf'[rec] = <<>> /\ \A k \in Kind : k # rec => buf'[k] = buf[k]
    BY <1>1, <2>1 DEF RecorderInv, Typed
  <2> QED  BY <1>1, <2>2, KindsAre DEF NextKind, RecorderInv, Emptied
<1>4. CASE buf[rec] = <<>>
  <2>1. UNCHANGED <<files, gone, buf>>  BY <1>4 DEF WriteShard
  <2> QED  BY <1>1, <1>2, <1>3, <2>1, IdleKeeps
<1>5. CASE buf[rec] # <<>>
  <2>1. PICK k, name, new : k = rec /\ name = <<rec, stamp>> /\ new = [whole |-> TRUE, rows |-> buf[rec]]
    OBVIOUS
  <2>2. files' = Put(name, new)
    BY <1>5, <2>1 DEF WriteShard
  <2>3. new.whole \/ new.rows = <<>>  BY <2>1
  <2>4. new.rows = buf[k]  BY <2>1
  <2>5. gone' = gone \cup Truncated(name) /\ buf' = [buf EXCEPT ![k] = <<>>]
    BY <1>5, <2>1 DEF WriteShard
  <2>6. k \in Kind /\ name = <<k, stamp>>  BY <1>1, <2>1
  <2>7. Filed' /\ BookRows' \subseteq BookRows
    BY <1>1, <2>2, <2>3, <2>4, <2>5, <2>6, Moves DEF RecorderInv
  <2>8. Sharded'  BY <2>2, <2>3, <2>6, Puts DEF RecorderInv
  <2>9. buf' = [x \in Kind |-> buf'[x]]  BY <2>5 DEF RecorderInv, Typed
  <2>10. Typed'  BY <1>1, <1>2, <2>8, <2>9 DEF RecorderInv, Typed
  <2>11. Timeline'  BY <1>1 DEF RecorderInv, Timeline
  <2>12. Numbered'  BY <1>1, <2>7, StillNumbered DEF RecorderInv
  <2> QED  BY <1>3, <2>7, <2>10, <2>11, <2>12 DEF RecorderInv
<1> QED  BY <1>4, <1>5

\* What a failed write and a kill have in common.
LEMMA FailKeeps ==
    ASSUME RecorderInv, NEW k \in Kind, NEW name, name = <<k, stamp>>, NEW new, new.rows = <<>>,
           NEW torn, NEW spilt, gone' = gone \cup torn \cup spilt,
           \/ files' = files /\ torn = {}
           \/ /\ files' = Put(name, new)
              /\ torn = Truncated(name),
           \/ buf' = buf /\ spilt = {} /\ rec' = "run"
           \/ buf' = NoRows /\ spilt = Pending /\ rec' = "off",
           stamp' = 0, UNCHANGED <<clock, recordings, seq, taken>>
    PROVE  RecorderInv'
<1>1. Typed /\ Filed  BY DEF RecorderInv
<1>2. (buf' = buf /\ spilt = {}) \/ (buf' = NoRows /\ spilt = Pending)  OBVIOUS
<1>3. Filed'  BY <1>1, <1>2, Fails
<1>4. BookRows' \subseteq BookRows  BY <1>1, <1>2, Fails
<1>5. Sharded'  BY <1>1, <1>2, Fails
<1>6. buf' = [x \in Kind |-> buf'[x]]  BY <1>1, <1>2 DEF Typed, NoRows
<1>7. Typed'  BY <1>1, <1>5, <1>6 DEF Typed
<1>8. Emptied'  BY KindsAre DEF RecorderInv, Emptied, NoRows
<1>9. Timeline'  BY DEF RecorderInv, Timeline
<1>10. Numbered'  BY <1>4, StillNumbered DEF RecorderInv
<1> QED  BY <1>3, <1>7, <1>8, <1>9, <1>10 DEF RecorderInv

\* A write that fails leaves the rows where they were, or loses them at the end (Recorder::flush).
LEMMA ShardFailsKeeps == ASSUME RecorderInv, NEW torso \in BOOLEAN, ShardFails(torso) PROVE RecorderInv'
<1>1. PICK k, name, new, torn, spilt :
        /\ k = rec /\ name = <<k, stamp>> /\ new = Torso
        /\ torn = (IF torso THEN Truncated(<<rec, stamp>>) ELSE {})
        /\ spilt = (IF closing THEN Pending ELSE {})
  OBVIOUS
<1>2. k \in Kind /\ stamp' = 0 /\ UNCHANGED <<clock, recordings, seq, taken>>
  BY <1>1 DEF ShardFails
<1>3. gone' = gone \cup torn \cup spilt  BY <1>1 DEF ShardFails
<1>4. \/ files' = files /\ torn = {}
      \/ /\ files' = Put(name, new)
         /\ torn = Truncated(name)
  <2>1. CASE torso
    <3>1. files' = Put(<<rec, stamp>>, Torso) /\ torn = Truncated(<<rec, stamp>>)
      BY <1>1, <2>1 DEF ShardFails
    <3> QED  BY <1>1, <3>1
  <2>2. CASE ~torso  BY <1>1, <2>2 DEF ShardFails
  <2> QED  BY <2>1, <2>2
<1>5. \/ buf' = buf /\ spilt = {} /\ rec' = "run"
      \/ buf' = NoRows /\ spilt = Pending /\ rec' = "off"
  <2>1. CASE closing  BY <1>1, <2>1 DEF ShardFails
  <2>2. CASE ~closing  BY <1>1, <2>2 DEF ShardFails
  <2> QED  BY <2>1, <2>2
<1>6. name = <<k, stamp>> /\ new.rows = <<>>  BY <1>1 DEF Torso
<1> QED  BY <1>2, <1>3, <1>4, <1>5, <1>6, FailKeeps

\* A kill loses the buffers, and the shard that was begun.
LEMMA KillKeeps == ASSUME RecorderInv, NEW torso \in BOOLEAN, Kill(torso) PROVE RecorderInv'
<1>1. PICK k, name, new, torn, spilt :
        /\ k \in Kind /\ (torso => k = rec)
        /\ name = <<k, stamp>> /\ new = Torso
        /\ torn = (IF torso THEN Truncated(<<rec, stamp>>) ELSE {}) /\ spilt = Pending
  <2>1. CASE torso
    <3>1. rec \in Kind  BY <2>1 DEF Kill
    <3> QED  BY <3>1
  <2>2. CASE ~torso  BY <2>2, KindsAre
  <2> QED  BY <2>1, <2>2
<1>2. /\ stamp' = 0 /\ UNCHANGED <<clock, recordings, seq, taken>>
      /\ buf' = NoRows /\ rec' = "off" /\ spilt = Pending
  BY <1>1 DEF Kill
<1>3. gone' = gone \cup torn \cup spilt  BY <1>1 DEF Kill
<1>4. \/ files' = files /\ torn = {}
      \/ /\ files' = Put(name, new)
         /\ torn = Truncated(name)
  <2>1. CASE torso
    <3>1. k = rec  BY <1>1, <2>1
    <3>2. files' = Put(<<rec, stamp>>, Torso) /\ torn = Truncated(<<rec, stamp>>)
      BY <1>1, <2>1 DEF Kill
    <3> QED  BY <1>1, <3>1, <3>2
  <2>2. CASE ~torso  BY <1>1, <2>2 DEF Kill
  <2> QED  BY <2>1, <2>2
<1>5. k \in Kind /\ name = <<k, stamp>> /\ new.rows = <<>>  BY <1>1 DEF Torso
<1> QED  BY <1>2, <1>3, <1>4, <1>5, FailKeeps

\* Nothing is recorded yet.
LEMMA RecorderStarts == ArchiveInit => RecorderInv
<1> SUFFICES ASSUME ArchiveInit PROVE RecorderInv
  OBVIOUS
<1>1. DOMAIN files = {} /\ files = <<>>
  BY DEF ArchiveInit, RecorderInit
<1>2. Sharded  BY <1>1, FS_EmptySet DEF Sharded
<1>3. Typed
  BY <1>2, ArchiveAssumption DEF Typed, ArchiveInit, RecorderInit, NoRows, ArchiveAssumption
<1>4. \A n \in Shelves : n[1] \in Kind /\ Shelf(n) = <<>>
  BY <1>1 DEF Shelves, Shelf, ArchiveInit, RecorderInit, NoRows
<1>5. Filed
  <2>1. \A n \in Shelves : Faithful(n[1], Shelf(n)) /\ Items(Shelf(n)) = {}  BY <1>4, EmptyIs
  <2> QED  BY <2>1 DEF Filed, ArchiveInit, RecorderInit
<1>6. BookRows = {}
  <2>1. \A n \in Shelves : DOMAIN Shelf(n) = {}  BY <1>4, EmptyIs
  <2> QED  BY <2>1 DEF BookRows
<1>7. Emptied /\ Timeline /\ Numbered
  BY <1>6, KindsAre DEF Emptied, Timeline, Numbered, ArchiveInit, RecorderInit, NoRows
<1> QED  BY <1>3, <1>5, <1>7 DEF RecorderInv

\* The recorder, and a replay beside it, keep its invariant.
LEMMA RecorderKeeps == RecorderInv /\ [RecorderNext \/ ReplayNext]_archiveVars => RecorderInv'
<1> SUFFICES ASSUME RecorderInv, [RecorderNext \/ ReplayNext]_archiveVars PROVE RecorderInv'
  OBVIOUS
<1>1. CASE UNCHANGED recorderVars
  <2>1. UNCHANGED <<clock, recordings, buf, seq, files, taken, gone, rec, stamp>>  BY <1>1 DEF recorderVars
  <2>2. rec' \in {"off", "run"} \cup Kind /\ stamp' \in Nat /\ Emptied'
    BY <2>1 DEF RecorderInv, Typed, Emptied
  <2> QED  BY <2>1, <2>2, IdleKeeps
<1>2. CASE ReplayNext
  <2>1. UNCHANGED recorderVars
    BY <1>2 DEF ReplayNext, Load, Heartbeat, BookUpdate, Deal, Emitted, EndOfData
  <2> QED  BY <1>1, <2>1
<1>3. CASE RecorderNext
  <2>1. CASE Instant  BY <2>1, InstantKeeps
  <2>2. CASE StartRecorder  BY <2>2, StartKeeps
  <2>3. CASE StopRecorder  BY <2>3, StopKeeps
  <2>4. ASSUME NEW d \in Depths[clock], RecordBook(d) PROVE RecorderInv'  BY <2>4, BookKeeps
  <2>5. ASSUME NEW ts \in {clock - l : l \in Lags} \cap (Nat \ {0}), NEW p \in Deals, RecordTrade(ts, p)
        PROVE RecorderInv'
    BY <2>5, TradeKeeps
  <2>6. CASE RecordMark  BY <2>6, MarkKeeps
  <2>7. ASSUME NEW last \in BOOLEAN, StartFlush(last) PROVE RecorderInv'  BY <2>7, StartFlushKeeps
  <2>8. CASE WriteShard  BY <2>8, WriteKeeps
  <2>9. ASSUME NEW torso \in BOOLEAN, ShardFails(torso) PROVE RecorderInv'  BY <2>9, ShardFailsKeeps
  <2>10. ASSUME NEW torso \in BOOLEAN, Kill(torso) PROVE RecorderInv'  BY <2>10, KillKeeps
  <2> QED  BY <1>3, <2>1, <2>2, <2>3, <2>4, <2>5, <2>6, <2>7, <2>8, <2>9, <2>10 DEF RecorderNext
<1> QED  BY <1>1, <1>2, <1>3 DEF archiveVars

(* What a load puts in order.                                              *)

\* Rows that can be put in order.
Orderable(S) ==
    /\ IsFiniteSet(S)
    /\ \A e \in S : /\ e.kind \in {"book", "trades"} /\ e.ts \in Nat
                    /\ e.src[1] \in Nat /\ e.src[2] \in Nat
    /\ \A e, f \in S : e.kind = f.kind /\ e.src[1] = f.src[1] /\ e.src[2] = f.src[2] => e = f

\* The order of loaded rows is total and strict (the sort key of LoadedReplayData::load).
LEMMA BeforeIsStrict ==
    ASSUME NEW S, Orderable(S)
    PROVE  /\ \A e \in S : ~Before(e, e)
           /\ \A e, f \in S : e = f \/ Before(e, f) \/ Before(f, e)
           /\ \A e, f, g \in S : Before(e, f) /\ Before(f, g) => Before(e, g)
<1>1. \A e \in S : ~Before(e, e)  BY DEF Orderable, Before
<1>2. \A e, f \in S : e = f \/ Before(e, f) \/ Before(f, e)
  <2> SUFFICES ASSUME NEW e \in S, NEW f \in S, ~Before(e, f), ~Before(f, e) PROVE e = f
    OBVIOUS
  <2>1. /\ e.ts \in Nat /\ f.ts \in Nat /\ e.src[1] \in Nat /\ f.src[1] \in Nat
        /\ e.src[2] \in Nat /\ f.src[2] \in Nat
        /\ e.kind \in {"book", "trades"} /\ f.kind \in {"book", "trades"}
    BY DEF Orderable
  <2>2. e.ts = f.ts  BY <2>1 DEF Before
  <2>3. e.kind = f.kind  BY <2>1, <2>2 DEF Before
  <2>4. e.src[1] = f.src[1]  BY <2>1, <2>2, <2>3 DEF Before
  <2>5. e.src[2] = f.src[2]  BY <2>1, <2>2, <2>3, <2>4 DEF Before
  <2> QED  BY <2>3, <2>4, <2>5 DEF Orderable
<1>3. ASSUME NEW e \in S, NEW f \in S, NEW g \in S, Before(e, f), Before(f, g) PROVE Before(e, g)
  <2>1. /\ e.ts \in Nat /\ f.ts \in Nat /\ g.ts \in Nat
        /\ e.src[1] \in Nat /\ f.src[1] \in Nat /\ g.src[1] \in Nat
        /\ e.src[2] \in Nat /\ f.src[2] \in Nat /\ g.src[2] \in Nat
    BY DEF Orderable
  <2>2. e.ts <= f.ts /\ f.ts <= g.ts  BY <1>3, <2>1 DEF Before
  <2>3. CASE e.ts < g.ts  BY <2>3 DEF Before
  <2>4. CASE e.ts = f.ts /\ f.ts = g.ts
    BY <1>3, <2>1, <2>4 DEF Before
  <2> QED  BY <2>1, <2>2, <2>3, <2>4
<1> QED  BY <1>1, <1>2, <1>3

\* Every row has a place, and its place says what is before it.
LEMMA Ordered ==
    ASSUME NEW S, Orderable(S)
    PROVE  /\ Ranking(S) \in [1..Cardinality(S) -> S] /\ Cardinality(S) \in Nat
           /\ \A e \in S : \E k \in 1..Cardinality(S) : Ranking(S)[k] = e
           /\ \A i, j \in 1..Cardinality(S) : i < j => Before(Ranking(S)[i], Ranking(S)[j])
           /\ \A i, j \in 1..Cardinality(S) : i # j => Ranking(S)[i] # Ranking(S)[j]
<1> DEFINE n == Cardinality(S)
           below(e) == {x \in S : Before(x, e)}
           rank == [e \in S |-> Cardinality(below(e))]
<1>1. IsFiniteSet(S) /\ n \in Nat  BY FS_CardinalityType DEF Orderable
<1>2. \A e \in S : IsFiniteSet(below(e)) /\ rank[e] = Cardinality(below(e)) /\ rank[e] \in Nat
  BY <1>1, FS_Subset, FS_CardinalityType
<1>2a. rank \in [S -> Nat]  BY <1>2
<1>3. ASSUME NEW e \in S PROVE rank[e] < n
  <2>1. below(e) \subseteq S /\ below(e) # S  BY BeforeIsStrict
  <2>2. Cardinality(below(e)) <= n /\ (n = Cardinality(below(e)) => S = below(e))
    BY <1>1, <2>1, FS_Subset
  <2> QED  BY <1>1, <1>2, <2>1, <2>2
<1>4. ASSUME NEW e \in S, NEW f \in S, Before(e, f) PROVE rank[e] < rank[f]
  <2>1. below(e) \subseteq below(f)  BY <1>4, BeforeIsStrict
  <2>2. e \in below(f) /\ e \notin below(e)  BY <1>4, BeforeIsStrict
  <2>3. Cardinality(below(e)) <= Cardinality(below(f))
        /\ (Cardinality(below(f)) = Cardinality(below(e)) => below(f) = below(e))
    BY <1>2, <2>1, FS_Subset
  <2> QED  BY <1>2, <2>2, <2>3
<1> HIDE DEF rank
<1>5. \A e, f \in S : rank[e] = rank[f] => e = f
  BY <1>2a, <1>4, BeforeIsStrict
<1>6. \A k \in 1..n : \E e \in S : rank[e] = k - 1
  <2>1. rank \in Injection(S, 0..(n - 1))
    <3>1. rank \in [S -> 0..(n - 1)]  BY <1>1, <1>2a, <1>3
    <3> QED  BY <1>5, <3>1 DEF Injection, IsInjective
  <2>2. IsFiniteSet(0..(n - 1)) /\ Cardinality(0..(n - 1)) = n
    BY <1>1, FS_Interval
  <2>3. rank \in Surjection(S, 0..(n - 1))
    BY <2>1, <2>2, FS_Injection
  <2>4. \A k \in 1..n : k - 1 \in 0..(n - 1)  BY <1>1
  <2> QED  BY <2>3, <2>4 DEF Surjection
<1>7. \A k \in 1..n : Ranking(S)[k] \in S /\ rank[Ranking(S)[k]] = k - 1
  <2> SUFFICES ASSUME NEW k \in 1..n PROVE Ranking(S)[k] \in S /\ rank[Ranking(S)[k]] = k - 1
    OBVIOUS
  <2>1. Ranking(S)[k] = CHOOSE e \in S : Cardinality(below(e)) = k - 1  BY DEF Ranking
  <2>2. \E e \in S : Cardinality(below(e)) = k - 1  BY <1>2, <1>6
  <2>3. Ranking(S)[k] \in S /\ Cardinality(below(Ranking(S)[k])) = k - 1  BY <2>1, <2>2
  <2> QED  BY <1>2, <2>3
<1>8. Ranking(S) \in [1..n -> S]
  BY <1>7 DEF Ranking
<1>9. \A e \in S : \E k \in 1..n : Ranking(S)[k] = e
  <2> SUFFICES ASSUME NEW e \in S PROVE \E k \in 1..n : Ranking(S)[k] = e
    OBVIOUS
  <2>1. rank[e] + 1 \in 1..n  BY <1>1, <1>2a, <1>3
  <2>2. rank[Ranking(S)[rank[e] + 1]] = rank[e] /\ Ranking(S)[rank[e] + 1] \in S
    BY <1>2a, <1>7, <2>1
  <2> QED  BY <1>5, <2>1, <2>2
<1>10. ASSUME NEW i \in 1..n, NEW j \in 1..n, i < j
       PROVE  Before(Ranking(S)[i], Ranking(S)[j]) /\ Ranking(S)[i] # Ranking(S)[j]
  <2>1. rank[Ranking(S)[i]] < rank[Ranking(S)[j]]  BY <1>7, <1>10
  <2>2. Ranking(S)[i] \in S /\ Ranking(S)[j] \in S  BY <1>7
  <2>3. ~Before(Ranking(S)[j], Ranking(S)[i]) /\ Ranking(S)[i] # Ranking(S)[j]
    BY <1>2a, <1>4, <2>1, <2>2
  <2> QED  BY <2>2, <2>3, BeforeIsStrict
<1>11. \A i, j \in 1..n : i < j \/ i = j \/ j < i  BY <1>1
<1> QED  BY <1>1, <1>8, <1>9, <1>10, <1>11

\* Of some numbers one is the least.
LEMMA Least == ASSUME NEW S \in SUBSET Nat, S # {} PROVE \E i \in S : \A j \in S : i <= j
<1> DEFINE Less == {ss \in Nat \X Nat : ss[1] < ss[2]}
<1>1. IsWellFoundedOn(Less, Nat)  BY NatLessThanWellFounded DEF OpToRel
<1>2. \A x, y \in Nat : <<y, x>> \in Less <=> y < x  OBVIOUS
<1> HIDE DEF Less
<1>3. PICK x \in S : \A y \in S : <<y, x>> \notin Less  BY <1>1, WFMin
<1>4. ASSUME NEW y \in S PROVE x <= y
  <2>1. x \in Nat /\ y \in Nat /\ ~(y < x)  BY <1>2, <1>3
  <2> QED  BY <2>1
<1> QED  BY <1>4

\* A finite set of numbers has a greatest and a least.
LEMMA Extremes ==
    ASSUME NEW S, IsFiniteSet(S), S \subseteq Int, S # {}
    PROVE  (\E x \in S : \A y \in S : y <= x) /\ (\E x \in S : \A y \in S : x <= y)
<1> DEFINE Good(U) == (\E x \in U : \A y \in U : y <= x) /\ (\E x \in U : \A y \in U : x <= y)
           Bad == {U \in SUBSET S : U # {} /\ ~Good(U)}
           Sizes == {Cardinality(U) : U \in Bad}
<1>1. \A U \in SUBSET S : IsFiniteSet(U) /\ Cardinality(U) \in Nat
  BY FS_Subset, FS_CardinalityType
<1>2. SUFFICES ASSUME Bad # {} PROVE FALSE
  OBVIOUS
<1>3. PICK m \in Sizes : \A y \in Sizes : m <= y
  <2>1. Sizes # {} /\ Sizes \in SUBSET Nat  BY <1>1, <1>2
  <2> HIDE DEF Sizes
  <2> QED  BY <2>1, Least
<1>4. PICK U \in Bad : m = Cardinality(U)
  BY <1>3
<1>5. PICK x : x \in U
  OBVIOUS
<1>6. /\ U \ {x} \in SUBSET S /\ Cardinality(U \ {x}) = m - 1 /\ m \in Nat
  <2>1. Cardinality(U \ {x}) = Cardinality(U) - 1  BY <1>1, <1>5, FS_RemoveElement
  <2>2. m \in Nat /\ m - 1 \in Nat  BY <1>1, <1>4, <2>1
  <2> QED  BY <1>4, <2>1, <2>2
<1>7. U \ {x} \notin Bad
  BY <1>3, <1>6
<1>8. CASE U \ {x} = {}
  <2>1. U = {x} /\ x \in Int  BY <1>5, <1>8
  <2> QED  BY <2>1
<1>9. CASE U \ {x} # {}
  <2>1. Good(U \ {x})  BY <1>6, <1>7, <1>9
  <2>2. PICK t \in U \ {x} : \A y \in U \ {x} : y <= t  BY <2>1
  <2>3. PICK b \in U \ {x} : \A y \in U \ {x} : b <= y  BY <2>1
  <2>4. x \in Int /\ t \in Int /\ b \in Int /\ U \subseteq Int  BY <1>5
  <2>5. \E z \in U : \A y \in U : y <= z
    <3>1. CASE x <= t  BY <2>2, <2>4, <3>1
    <3>2. CASE t <= x
      <4>1. \A y \in U : y <= x  BY <2>2, <2>4, <3>2
      <4> QED  BY <1>5, <4>1
    <3> QED  BY <2>4, <3>1, <3>2
  <2>6. \E z \in U : \A y \in U : z <= y
    <3>1. CASE b <= x  BY <2>3, <2>4, <3>1
    <3>2. CASE x <= b
      <4>1. \A y \in U : x <= y  BY <2>3, <2>4, <3>2
      <4> QED  BY <1>5, <4>1
    <3> QED  BY <2>4, <3>1, <3>2
  <2> QED  BY <2>5, <2>6
<1> QED  BY <1>8, <1>9

\* The greatest of some integers is the greatest.
LEMMA MaxIs ==
    ASSUME NEW S, IsFiniteSet(S), S \subseteq Int, S # {}
    PROVE  Max(S) \in S /\ \A y \in S : y <= Max(S)
<1>1. PICK x \in S : \A y \in S : y <= x  BY Extremes
<1>2. \A y \in S : x >= y  BY <1>1
<1>3. Max(S) \in S /\ \A y \in S : Max(S) >= y  BY <1>2 DEF Max
<1> QED  BY <1>3

\* The least is the least.
LEMMA MinIs ==
    ASSUME NEW S, IsFiniteSet(S), S \subseteq Int, S # {}
    PROVE  Min(S) \in S /\ \A y \in S : Min(S) <= y
<1>1. PICK x \in S : \A y \in S : x <= y  BY Extremes
<1> QED  BY <1>1 DEF Min

\* What a read row is: it lies in a complete shard, and stands for a delivery kept.
ReadRow(e, k) ==
    /\ e.kind = k /\ e.row \in RowOf(k) /\ e.ts = e.row.ts /\ e.ts = e.row.item.ts /\ e.ts \in Nat \ {0}
    /\ e.row.price \in Nat \ {0}
    /\ e.row.item \in taken /\ e.row.item \notin gone /\ e.row.item \notin Pending
    /\ e.row.item.kind = k

\* A row of a kind, its shard and its place there.
LEMMA RowRead ==
    ASSUME Typed, Filed, NEW k \in Kind, NEW e \in Rows(k)
    PROVE  \E n \in DOMAIN files : \E i \in DOMAIN files[n].rows :
              /\ n \in Shelves /\ Shelf(n) = files[n].rows /\ n = <<k, n[2]>> /\ n[2] \in Nat
              /\ e = [kind |-> k, ts |-> files[n].rows[i].ts, row |-> files[n].rows[i], src |-> <<n[2], i>>]
              /\ i \in Nat
<1>1. e.row.price > 0 /\ \E n \in DOMAIN files : n[1] = k /\ files[n].whole /\ e \in Shard(n)
  BY DEF Rows
<1>2. PICK n \in DOMAIN files : n[1] = k /\ files[n].whole /\ e \in Shard(n)  BY <1>1
<1>3. PICK i \in DOMAIN files[n].rows :
        e = [kind |-> n[1], ts |-> files[n].rows[i].ts, row |-> files[n].rows[i], src |-> <<n[2], i>>]
  BY <1>2 DEF Shard
<1>4. n \in Kind \X Nat  BY DEF Typed, Sharded
<1>5. n \in Shelves /\ Shelf(n) = files[n].rows  BY <1>4 DEF Shelves, Shelf
<1>6. files[n].rows \in Seq(RowOf(k))  BY <1>2, <1>5 DEF Filed, Faithful
<1>7. n = <<k, n[2]>> /\ n[2] \in Nat  BY <1>2, <1>4
<1>8. i \in Nat  BY <1>6
<1>9. e = [kind |-> k, ts |-> files[n].rows[i].ts, row |-> files[n].rows[i], src |-> <<n[2], i>>]
  BY <1>2, <1>3
<1> QED  BY <1>5, <1>7, <1>8, <1>9

\* What a loaded row says (load_book_parquet, load_trades_parquet).
LEMMA RowFacts ==
    ASSUME Typed, Filed, NEW k \in Kind, NEW e \in Rows(k)
    PROVE  ReadRow(e, k) /\ e.src[1] \in Nat /\ e.src[2] \in Nat
<1>0. PICK n \in DOMAIN files : \E i \in DOMAIN files[n].rows :
        /\ n \in Shelves /\ Shelf(n) = files[n].rows /\ n = <<k, n[2]>> /\ n[2] \in Nat
        /\ e = [kind |-> k, ts |-> files[n].rows[i].ts, row |-> files[n].rows[i], src |-> <<n[2], i>>]
        /\ i \in Nat
  BY RowRead
<1>1. PICK i \in DOMAIN files[n].rows :
        /\ n \in Shelves /\ Shelf(n) = files[n].rows /\ n = <<k, n[2]>> /\ n[2] \in Nat
        /\ e = [kind |-> k, ts |-> files[n].rows[i].ts, row |-> files[n].rows[i], src |-> <<n[2], i>>]
        /\ i \in Nat
  BY <1>0
<1> DEFINE row == files[n].rows[i]
<1>2. Faithful(k, files[n].rows) /\ Items(files[n].rows) \subseteq taken \ gone
  <2>1. n[1] = k  BY <1>1
  <2> QED  BY <1>1, <2>1 DEF Filed
<1>3. row \in RowOf(k) /\ row.ts = row.item.ts /\ row.item \in taken /\ row.item \notin gone
  BY <1>2 DEF Faithful, Items
<1>4. row.item \notin Pending
  <2> SUFFICES ASSUME NEW x \in Kind, row.item \in Items(buf[x]) PROVE FALSE  BY DEF Pending
  <2> DEFINE m == <<x, -1>>
  <2>1. m \in Shelves /\ Shelf(m) = buf[x] /\ m # n  BY <1>1 DEF Shelves, Shelf
  <2>2. Items(Shelf(n)) \cap Items(Shelf(m)) = {}  BY <1>1, <2>1 DEF Filed
  <2>3. row.item \in Items(Shelf(n))  BY <1>1 DEF Items
  <2> QED  BY <2>1, <2>2, <2>3
<1>5. row.ts \in Nat \ {0} /\ row.item \in Delivery(k) /\ row.price \in Nat
  BY <1>3, KindsAre DEF RowOf
<1>6. row.price > 0  BY <1>1 DEF Rows
<1>7. row.item.kind = k  BY <1>5 DEF Delivery
<1> QED  BY <1>1, <1>3, <1>4, <1>5, <1>6, <1>7 DEF ReadRow

\* What was kept and can be shown is read.
LEMMA KeptIsRead ==
    ASSUME Typed, Filed, NEW x \in taken, x \notin gone, x \notin Pending, x.kind = "book" \/ x.val > 0
    PROVE  \E e \in Rows(x.kind) : e.row.item = x
<1>1. PICK n \in Shelves : x \in Items(Shelf(n))  BY DEF Filed
<1>2. PICK i \in DOMAIN Shelf(n) : x = Shelf(n)[i].item  BY <1>1 DEF Items
<1>3. n \in DOMAIN files
  <2>1. n[2] = -1 => x \in Pending
    <3> SUFFICES ASSUME n[2] = -1 PROVE x \in Pending
      OBVIOUS
    <3>1. n[1] \in Kind /\ Shelf(n) = buf[n[1]]  BY ShelfTyped DEF Shelf
    <3> QED  BY <1>1, <3>1 DEF Pending
  <2> QED  BY <2>1 DEF Shelves
<1>4. n \in Kind \X Nat /\ n[2] \in Nat  BY <1>3 DEF Typed, Sharded
<1>5. Shelf(n) = files[n].rows  BY <1>4 DEF Shelf
<1>6. files[n].whole  BY <1>2, <1>3, <1>5 DEF Typed, Sharded
<1>7. Faithful(n[1], Shelf(n))  BY DEF Filed
<1>8. Shelf(n)[i] \in RowOf(n[1])  BY <1>2, <1>7 DEF Faithful
<1>9. x \in Delivery(n[1])  BY <1>2, <1>4, <1>8, KindsAre DEF RowOf
<1>10. n[1] = x.kind  BY <1>9 DEF Delivery
<1>11. Shelf(n)[i].price > 0
  <2>1. CASE n[1] = "book"  BY <1>8, <2>1 DEF RowOf
  <2>2. CASE n[1] # "book"
    <3>1. Shelf(n)[i].price = x.val  BY <1>2, <1>7, <2>2 DEF Faithful
    <3> QED  BY <1>10, <2>2, <3>1
  <2> QED  BY <2>1, <2>2
<1> DEFINE e == [kind |-> n[1], ts |-> files[n].rows[i].ts, row |-> files[n].rows[i], src |-> <<n[2], i>>]
<1>12. e \in Shard(n) /\ e.row = Shelf(n)[i]  BY <1>2, <1>5 DEF Shard
<1>13. e \in Rows(x.kind)  BY <1>3, <1>6, <1>10, <1>11, <1>12 DEF Rows
<1> QED  BY <1>2, <1>12, <1>13

\* What a load puts in order.
Feed == Rows("book") \cup Rows("trades")

\* The image of a finite set is finite.
LEMMA ImageFinite ==
    ASSUME NEW S, IsFiniteSet(S), NEW f, f = [x \in S |-> f[x]] PROVE IsFiniteSet({f[x] : x \in S})
<1> DEFINE T == {f[x] : x \in S}
<1>1. f \in Surjection(S, T)  BY DEF Surjection
<1> QED  BY <1>1, FS_Surjection

\* Finitely many rows are loaded.
LEMMA RowsFinite == ASSUME Typed, Filed, NEW k \in Kind PROVE IsFiniteSet(Rows(k))
<1> DEFINE N == {m \in DOMAIN files : m[1] = k /\ files[m].whole}
           shard == [n \in N |-> Shard(n)]
<1>1. ASSUME NEW n \in N PROVE IsFiniteSet(Shard(n))
  <2> DEFINE S == DOMAIN files[n].rows
             f == [i \in S |-> [kind |-> n[1], ts |-> files[n].rows[i].ts, row |-> files[n].rows[i],
                                src |-> <<n[2], i>>]]
  <2>1. n \in Kind \X Nat  BY DEF Typed, Sharded
  <2>2. n \in Shelves /\ Shelf(n) = files[n].rows  BY <2>1 DEF Shelves, Shelf
  <2>3. files[n].rows \in Seq(RowOf(n[1]))  BY <2>2 DEF Filed, Faithful
  <2>4. S = 1..Len(files[n].rows) /\ Len(files[n].rows) \in Nat  BY <2>3
  <2>5. IsFiniteSet(S)  BY <2>4, FS_Interval
  <2>6. Shard(n) = {f[i] : i \in S}  BY DEF Shard
  <2>7. f = [i \in S |-> f[i]]  OBVIOUS
  <2> HIDE DEF f, S
  <2>8. IsFiniteSet({f[i] : i \in S})  BY <2>5, <2>7, ImageFinite
  <2> QED  BY <2>6, <2>8
<1>2. IsFiniteSet(N)
  <2>1. N \subseteq DOMAIN files /\ IsFiniteSet(DOMAIN files)  BY DEF Typed, Sharded
  <2> HIDE DEF N
  <2> QED  BY <2>1, FS_Subset
<1>3. shard = [n \in N |-> shard[n]] /\ \A n \in N : shard[n] = Shard(n)  OBVIOUS
<1>4. Rows(k) \subseteq UNION {shard[n] : n \in N}
  BY <1>3 DEF Rows
<1> HIDE DEF shard, N
<1>5. IsFiniteSet({shard[n] : n \in N})  BY <1>2, <1>3, ImageFinite
<1>6. \A T \in {shard[n] : n \in N} : IsFiniteSet(T)  BY <1>1, <1>3
<1>7. IsFiniteSet(UNION {shard[n] : n \in N})  BY <1>5, <1>6, FS_UNION
<1> QED  BY <1>4, <1>7, FS_Subset

\* They can be ordered.
LEMMA FeedOrderable == ASSUME Typed, Filed PROVE Orderable(Feed)
<1>1. IsFiniteSet(Feed)
  <2>1. IsFiniteSet(Rows("book")) /\ IsFiniteSet(Rows("trades"))  BY RowsFinite, KindsAre
  <2> QED  BY <2>1, FS_Union DEF Feed
<1>2. ASSUME NEW e \in Feed
      PROVE  /\ e.kind \in {"book", "trades"} /\ e \in Rows(e.kind) /\ e.ts \in Nat
             /\ e.src[1] \in Nat /\ e.src[2] \in Nat
  <2>1. CASE e \in Rows("book")  BY <2>1, RowFacts, KindsAre DEF ReadRow
  <2>2. CASE e \in Rows("trades")  BY <2>2, RowFacts, KindsAre DEF ReadRow
  <2> QED  BY <2>1, <2>2 DEF Feed
<1>3. ASSUME NEW e \in Feed, NEW f \in Feed, e.kind = f.kind, e.src[1] = f.src[1], e.src[2] = f.src[2]
      PROVE  e = f
  <2>1. PICK k \in Kind : k = e.kind /\ e \in Rows(k) /\ f \in Rows(k)  BY <1>2, <1>3, KindsAre
  <2>2. PICK n \in DOMAIN files : \E i \in DOMAIN files[n].rows : n = <<k, n[2]>> /\
          e = [kind |-> k, ts |-> files[n].rows[i].ts, row |-> files[n].rows[i], src |-> <<n[2], i>>]
    BY <2>1, RowRead
  <2>3. PICK i \in DOMAIN files[n].rows :
          e = [kind |-> k, ts |-> files[n].rows[i].ts, row |-> files[n].rows[i], src |-> <<n[2], i>>]
    BY <2>2
  <2>4. PICK m \in DOMAIN files : \E j \in DOMAIN files[m].rows : m = <<k, m[2]>> /\
          f = [kind |-> k, ts |-> files[m].rows[j].ts, row |-> files[m].rows[j], src |-> <<m[2], j>>]
    BY <2>1, RowRead
  <2>5. PICK j \in DOMAIN files[m].rows :
          f = [kind |-> k, ts |-> files[m].rows[j].ts, row |-> files[m].rows[j], src |-> <<m[2], j>>]
    BY <2>4
  <2>6. n[2] = m[2] /\ i = j  BY <1>3, <2>3, <2>5
  <2>7. n = m  BY <2>2, <2>4, <2>6
  <2> QED  BY <2>3, <2>5, <2>6, <2>7
<1> QED  BY <1>1, <1>2, <1>3 DEF Orderable

\* The order of a load: by instant, books first, each row once.
LEMMA SortedFacts ==
    ASSUME Typed, Filed
    PROVE  /\ DOMAIN Sorted = 1..Cardinality(Feed) /\ Cardinality(Feed) \in Nat
           /\ \A i \in DOMAIN Sorted : /\ Sorted[i] \in Feed
                                       /\ Sorted[i].kind \in {"book", "trades"}
                                       /\ Sorted[i] \in Rows(Sorted[i].kind)
                                       /\ ReadRow(Sorted[i], Sorted[i].kind)
           /\ \A e \in Feed : \E i \in DOMAIN Sorted : Sorted[i] = e
           /\ \A i, j \in DOMAIN Sorted : i < j =>
                 /\ Sorted[i] # Sorted[j] /\ Sorted[i].ts <= Sorted[j].ts
                 /\ Sorted[i].ts = Sorted[j].ts /\ Sorted[j].kind = "book" => Sorted[i].kind = "book"
<1>1. Sorted = Ranking(Feed)  BY DEF Sorted, Feed
<1>2. /\ Sorted \in [1..Cardinality(Feed) -> Feed] /\ Cardinality(Feed) \in Nat
      /\ \A e \in Feed : \E k \in 1..Cardinality(Feed) : Sorted[k] = e
      /\ \A i, j \in 1..Cardinality(Feed) : i < j => Before(Sorted[i], Sorted[j])
      /\ \A i, j \in 1..Cardinality(Feed) : i # j => Sorted[i] # Sorted[j]
  BY <1>1, FeedOrderable, Ordered
<1>3. DOMAIN Sorted = 1..Cardinality(Feed) /\ \A i \in DOMAIN Sorted : Sorted[i] \in Feed  BY <1>2
<1>4. ASSUME NEW e \in Feed
      PROVE  e.kind \in {"book", "trades"} /\ e \in Rows(e.kind) /\ ReadRow(e, e.kind) /\ e.ts \in Nat
  <2>1. CASE e \in Rows("book")
    <3>1. ReadRow(e, "book")  BY <2>1, RowFacts, KindsAre
    <3>2. e.kind = "book" /\ e.ts \in Nat  BY <3>1 DEF ReadRow
    <3> QED  BY <2>1, <3>1, <3>2
  <2>2. CASE e \in Rows("trades")
    <3>1. ReadRow(e, "trades")  BY <2>2, RowFacts, KindsAre
    <3>2. e.kind = "trades" /\ e.ts \in Nat  BY <3>1 DEF ReadRow
    <3> QED  BY <2>2, <3>1, <3>2
  <2> QED  BY <2>1, <2>2 DEF Feed
<1>5. ASSUME NEW i \in DOMAIN Sorted, NEW j \in DOMAIN Sorted, i < j
      PROVE  /\ Sorted[i] # Sorted[j] /\ Sorted[i].ts <= Sorted[j].ts
             /\ Sorted[i].ts = Sorted[j].ts /\ Sorted[j].kind = "book" => Sorted[i].kind = "book"
  <2>1. Before(Sorted[i], Sorted[j]) /\ Sorted[i].ts \in Nat /\ Sorted[j].ts \in Nat
        /\ Sorted[i].kind \in {"book", "trades"} /\ Sorted[j].kind \in {"book", "trades"}
    BY <1>2, <1>3, <1>4, <1>5
  <2>2. Sorted[i] # Sorted[j]  BY <1>2, <1>3, <1>5
  <2> QED  BY <2>1, <2>2 DEF Before
<1>6. \A e \in Feed : \E i \in DOMAIN Sorted : Sorted[i] = e  BY <1>2, <1>3
<1> QED  BY <1>2, <1>3, <1>4, <1>5, <1>6

\* What was loaded stays what the shards hold.
Shown == {i \in taken \ (gone \cup Pending) : i.kind = "book" \/ i.val > 0}
Loaded ==
    stage # "none" =>
        /\ owed = Shown
        /\ stage \in {"play", "done"} /\ ~gaps => Contiguous(Sorted)
        /\ \/ evs = Sorted /\ boundary = 0
           \/ evs = Sorted \o WayBack(Sorted) /\ boundary = Last(Sorted).ts /\ Retraceable(Sorted)

\* What a replay has loaded stays what lies in the shards (LoadedReplayData::load).
LEMMA LoadedKeeps == Loaded /\ [RecorderNext \/ ReplayNext]_archiveVars => Loaded'
<1> SUFFICES ASSUME Loaded, [RecorderNext \/ ReplayNext]_archiveVars PROVE Loaded'
  OBVIOUS
<1>1. ASSUME UNCHANGED recorderVars PROVE Shown' = Shown /\ Sorted' = Sorted
  <2>1. UNCHANGED <<buf, files, taken, gone>>  BY <1>1 DEF recorderVars
  <2>2. Pending' = Pending  BY <2>1 DEF Pending, Items
  <2>3. \A k : Rows(k)' = Rows(k)  BY <2>1 DEF Rows, Shard
  <2>4. Sorted' = Sorted  BY <2>3 DEF Sorted
  <2> QED  BY <2>1, <2>2, <2>4 DEF Shown
<1>2. ASSUME UNCHANGED recorderVars, UNCHANGED <<owed, gaps, evs, boundary>>,
             stage' = stage \/ (stage = "play" /\ stage' = "done")
      PROVE  Loaded'
  <2>1. Shown' = Shown /\ Sorted' = Sorted  BY <1>1, <1>2
  <2> QED  BY <1>2, <2>1 DEF Loaded
<1>3. CASE RecorderNext
  <2>1. stage = "none" /\ stage' = stage
    BY <1>3 DEF RecorderNext, Instant, StartRecorder, StopRecorder, RecordBook, RecordTrade, RecordMark,
                StartFlush, WriteShard, ShardFails, Kill, Buffer, replayVars
  <2> QED  BY <2>1 DEF Loaded
<1>4. ASSUME NEW g \in BOOLEAN, NEW retrace \in BOOLEAN, Load(g, retrace) PROVE Loaded'
  <2>1. UNCHANGED recorderVars  BY <1>4 DEF Load
  <2>2. Shown' = Shown /\ Sorted' = Sorted  BY <1>1, <2>1
  <2>3. owed' = Shown'  BY <1>4, <2>2 DEF Load, Shown
  <2>4. stage' \in {"play", "done"} /\ ~gaps' => Contiguous(Sorted)
    BY <1>4 DEF Load
  <2>5. \/ evs' = Sorted /\ boundary' = 0
        \/ evs' = Sorted \o WayBack(Sorted) /\ boundary' = Last(Sorted).ts /\ Retraceable(Sorted)
    BY <1>4 DEF Load
  <2> QED  BY <2>2, <2>3, <2>4, <2>5 DEF Loaded
<1>5. CASE Heartbeat \/ BookUpdate \/ Deal \/ EndOfData \/ UNCHANGED archiveVars
  <2>1. UNCHANGED recorderVars /\ UNCHANGED <<owed, gaps, evs, boundary>>
        /\ (stage' = stage \/ (stage = "play" /\ stage' = "done"))
    BY <1>5 DEF Heartbeat, BookUpdate, Deal, EndOfData, Emitted, archiveVars, replayVars
  <2> QED  BY <1>2, <2>1
<1> QED  BY <1>3, <1>4, <1>5 DEF ReplayNext

\* Between two snapshots of a recording that were kept, all were, or the numbers
\* of the rows show it.
LEMMA HoleShows == RecorderInv /\ Loaded => NoHole
<1> SUFFICES ASSUME RecorderInv, Loaded, stage \in {"play", "done"}, ~gaps,
                    NEW a \in owed, a.kind = "book", NEW b \in owed, b.kind = "book", a.run = b.run,
                    NEW c \in taken, c.kind = "book", c.run = a.run, a.ts < c.ts, c.ts < b.ts,
                    c \notin owed
             PROVE  FALSE
  BY DEF NoHole
<1>1. Typed /\ Filed /\ Timeline /\ Numbered /\ owed = Shown /\ Contiguous(Sorted)
  BY DEF RecorderInv, Loaded
<1> DEFINE s == Sorted
           Snaps == {i \in DOMAIN s : s[i].kind = "book"}
<1>2. DOMAIN s = 1..Cardinality(Feed) /\ Cardinality(Feed) \in Nat
  BY <1>1, SortedFacts
<1>3. \A i \in Snaps : /\ s[i] \in Rows("book") /\ ReadRow(s[i], "book")
  BY <1>1, SortedFacts
<1>4. \A i, j \in Snaps : i < j => s[i].ts <= s[j].ts
  BY <1>1, SortedFacts
<1>5. \A i \in Snaps : s[i].row \in BookRows
  <2> SUFFICES ASSUME NEW i \in Snaps PROVE s[i].row \in BookRows
    OBVIOUS
  <2>1. PICK n \in DOMAIN files : \E p \in DOMAIN files[n].rows :
          /\ n \in Shelves /\ Shelf(n) = files[n].rows /\ n = <<"book", n[2]>>
          /\ s[i] = [kind |-> "book", ts |-> files[n].rows[p].ts, row |-> files[n].rows[p],
                     src |-> <<n[2], p>>]
    BY <1>1, <1>3, KindsAre, RowRead
  <2>2. n[1] = "book"  BY <2>1
  <2> QED  BY <2>1, <2>2 DEF BookRows
<1>6. \A x \in owed : x.kind = "book" => \E i \in Snaps : s[i].row.item = x
  <2> SUFFICES ASSUME NEW x \in owed, x.kind = "book" PROVE \E i \in Snaps : s[i].row.item = x
    OBVIOUS
  <2>1. PICK e \in Rows("book") : e.row.item = x  BY <1>1, KeptIsRead DEF Shown
  <2>2. e \in Feed /\ ReadRow(e, "book")  BY <1>1, <2>1, KindsAre, RowFacts DEF Feed
  <2>3. PICK i \in DOMAIN s : s[i] = e  BY <1>1, <2>2, SortedFacts
  <2> QED  BY <2>1, <2>2, <2>3 DEF ReadRow
<1>7. \A i \in Snaps : /\ s[i].row.item \in taken /\ s[i].row.item.kind = "book"
                        /\ s[i].ts = s[i].row.item.ts /\ s[i].row.ts = s[i].ts /\ s[i].ts \in Nat
                        /\ s[i].row.item # c /\ s[i].row.seq \in Nat
  <2> SUFFICES ASSUME NEW i \in Snaps
               PROVE  /\ s[i].row.item \in taken /\ s[i].row.item.kind = "book"
                      /\ s[i].ts = s[i].row.item.ts /\ s[i].row.ts = s[i].ts /\ s[i].ts \in Nat
                      /\ s[i].row.item # c /\ s[i].row.seq \in Nat
    OBVIOUS
  <2>1. ReadRow(s[i], "book")  BY <1>3
  <2>2. s[i].row.item # c
    BY <1>1, <2>1 DEF ReadRow, Shown
  <2> QED  BY <2>1, <2>2 DEF ReadRow, RowOf
<1> HIDE DEF s
<1>8. PICK pa \in Snaps : s[pa].row.item = a  BY <1>6
<1>9. PICK pb \in Snaps : s[pb].row.item = b  BY <1>6
<1>10. c.ts \in Nat /\ Snaps \subseteq 1..Cardinality(Feed) /\ Snaps \subseteq Nat
  <2>1. c.ts \in Nat  BY <1>1 DEF Typed, Delivery
  <2> QED  BY <1>2, <2>1
<1>11. PICK k \in Snaps : s[k].ts < c.ts /\ \A i \in Snaps : s[i].ts < c.ts => i <= k
  <2> DEFINE K == {i \in Snaps : s[i].ts < c.ts}
  <2>1. pa \in K  BY <1>7, <1>8
  <2>2. IsFiniteSet(K) /\ K \subseteq Int
    <3>1. 1 \in Int /\ Cardinality(Feed) \in Int  BY <1>2
    <3>2. IsFiniteSet(1..Cardinality(Feed))  BY <3>1, FS_Interval
    <3>3. K \subseteq 1..Cardinality(Feed)  BY <1>10
    <3>4. IsFiniteSet(K)  BY <3>2, <3>3, FS_Subset
    <3> QED  BY <1>10, <3>4
  <2>3. PICK k \in K : \A y \in K : y <= k  BY <2>1, <2>2, Extremes
  <2> QED  BY <2>3
<1>12. k < pb /\ pa <= k
  <2>1. k # pb /\ ~(pb < k)
    BY <1>4, <1>7, <1>9, <1>10, <1>11
  <2>2. pa <= k  BY <1>7, <1>8, <1>11
  <2> QED  BY <1>10, <2>1, <2>2
<1>13. PICK m \in Snaps : k < m /\ \A i \in Snaps : k < i => m <= i
  <2> DEFINE M == {i \in Snaps : k < i}
  <2>1. pb \in M /\ M \in SUBSET Nat  BY <1>10, <1>12
  <2>2. PICK m \in M : \A y \in M : m <= y  BY <2>1, Least
  <2> QED  BY <2>2
<1>14. Successive(s, k, m)
  <2>1. \A x \in (k + 1)..(m - 1) : x \in DOMAIN s /\ k < x /\ ~(m <= x)
    BY <1>2, <1>10, <1>13
  <2>2. \A x \in (k + 1)..(m - 1) : s[x].kind # "book"  BY <1>13, <2>1
  <2> QED  BY <1>13, <2>2 DEF Successive
<1>15. s[m].row.seq = s[k].row.seq + 1
  BY <1>1, <1>14 DEF Contiguous, s
<1>16. c.ts < s[m].ts
  <2>1. ~(s[m].ts < c.ts)  BY <1>10, <1>11, <1>13
  <2>2. s[m].ts # c.ts  BY <1>1, <1>7 DEF Timeline
  <2> QED  BY <1>7, <1>10, <2>1, <2>2
<1>17. s[k].row.item.run = c.run /\ s[m].row.item.run = c.run
  <2>1. \A i, j \in taken : i.kind = "book" /\ j.kind = "book" /\ i.ts <= j.ts => i.run <= j.run
    BY <1>1 DEF Timeline
  <2>2. \A i \in taken : i.kind = "book" => i.run \in Nat /\ i.ts \in Nat
    BY <1>1 DEF Typed, Delivery
  <2>3. s[pa].ts <= s[k].ts /\ s[m].ts <= s[pb].ts
    BY <1>4, <1>7, <1>10, <1>12, <1>13
  <2>4. a.run <= s[k].row.item.run /\ s[k].row.item.run <= c.run
    BY <1>7, <1>8, <1>10, <1>11, <2>1, <2>3
  <2>5. c.run <= s[m].row.item.run /\ s[m].row.item.run <= b.run
    BY <1>7, <1>9, <1>10, <1>16, <2>1, <2>3
  <2> QED  BY <1>7, <2>2, <2>4, <2>5
<1>18. s[k].row.seq + 2 <= s[m].row.seq
  BY <1>1, <1>5, <1>7, <1>11, <1>16, <1>17 DEF Numbered
<1> QED  BY <1>7, <1>15, <1>18

\* Nothing is recorded, nothing loaded.
LEMMA ArchiveStarts == ArchiveInit => RecorderInv /\ Loaded
BY RecorderStarts DEF Loaded, ArchiveInit, ReplayInit

\* Where gaps are refused, a replay that starts has no hole inside a recording
\* (LoadedReplayData::load on the seq that record_book gives).
THEOREM NoHoles == ArchiveSpec => []NoHole
<1>1. ArchiveInit => RecorderInv /\ Loaded  BY ArchiveStarts
<1>2. (RecorderInv /\ Loaded) /\ [RecorderNext \/ ReplayNext]_archiveVars => (RecorderInv /\ Loaded)'
  BY RecorderKeeps, LoadedKeeps
<1>3. RecorderInv /\ Loaded => NoHole  BY HoleShows
<1> QED  BY <1>1, <1>2, <1>3, PTL DEF ArchiveSpec

(* What a replay says.                                                     *)

\* One event comes before another, and rows are laid out like that, but for the
\* rows of one snapshot.
Prior(a, b) == a.ts < b.ts \/ (a.ts = b.ts /\ a.kind = "book" /\ b.kind = "trades")
OneBook(a, b) == a.ts = b.ts /\ a.kind = "book" /\ b.kind = "book"
Tidy(E) ==
    /\ Len(E) \in Nat /\ DOMAIN E = 1..Len(E)
    /\ \A i \in DOMAIN E : E[i].kind \in {"book", "trades"} /\ E[i].ts \in Nat \ {0}
    /\ \A i, j \in DOMAIN E : i < j => Prior(E[i], E[j]) \/ OneBook(E[i], E[j])

\* What the event that a row belongs to says.
Shows(E, j) ==
    IF E[j].kind = "book" THEN [bids |-> BookAt(E, E[j].ts).bids, asks |-> BookAt(E, E[j].ts).asks]
    ELSE E[j].row.price
Says(e, E, j) == e.kind = E[j].kind /\ e.ts = E[j].ts /\ e.val = Shows(E, j)

Spoken == {i \in DOMAIN out : out[i].kind # "heartbeat"}
Placed ==
    /\ cursor \in 1..(Len(evs) + 1) /\ (stage = "done" => cursor = Len(evs) + 1)
    /\ lastTs \in Nat /\ book.ts \in Nat
    /\ (\E T : out \in Seq(T)) /\ Len(out) \in Nat /\ DOMAIN out = 1..Len(out)
    /\ \A i \in DOMAIN out : out[i].ts \in Nat \ {0} /\ out[i].kind \in {"book", "trades", "heartbeat"}
Said ==
    /\ \A i \in Spoken : \E j \in 1..(cursor - 1) : Says(out[i], evs, j)
    /\ \A j \in 1..(cursor - 1) : \E i \in Spoken : out[i].kind = evs[j].kind /\ out[i].ts = evs[j].ts
    /\ \A i, j \in Spoken : i < j => Prior(out[i], out[j])
Ahead ==
    cursor <= Len(evs) =>
        /\ \A j \in 1..(cursor - 1) : Prior(evs[j], evs[cursor])
        /\ \A i \in Spoken : Prior(out[i], evs[cursor])
        /\ lastTs <= evs[cursor].ts /\ book.ts <= evs[cursor].ts
        /\ evs[cursor].kind = "book" => book.ts < evs[cursor].ts
Paced ==
    /\ Len(out) = 0 => lastTs = 0
    /\ Len(out) > 0 => lastTs = out[Len(out)].ts
    /\ InTime
MarkedSo == \A i \in DOMAIN out : out[i].mark = Advanced(out[i].ts)
Played == Placed /\ Said /\ Ahead /\ Paced /\ MarkedSo

Blank == cursor = 1 /\ lastTs = 0 /\ book.ts = 0 /\ out = <<>>

\* A sequence that grows at its end.
LEMMA Appended ==
    ASSUME NEW T, NEW s \in Seq(T), NEW e
    PROVE  /\ Append(s, e) \in Seq(T \cup {e}) /\ Len(Append(s, e)) = Len(s) + 1
           /\ DOMAIN Append(s, e) = 1..(Len(s) + 1) /\ Append(s, e)[Len(s) + 1] = e
           /\ \A i \in 1..Len(s) : Append(s, e)[i] = s[i]
<1>1. s \in Seq(T \cup {e}) /\ e \in T \cup {e}  OBVIOUS
<1> QED  BY <1>1

\* An event joins the others.
LEMMA Joins ==
    ASSUME Placed, NEW e, out' = Append(out, e), e.ts \in Nat \ {0},
           e.kind \in {"book", "trades", "heartbeat"}
    PROVE  /\ (\E T : out' \in Seq(T)) /\ Len(out') = Len(out) + 1 /\ DOMAIN out' = 1..(Len(out) + 1)
           /\ Len(out) \in Nat /\ out'[Len(out) + 1] = e
           /\ \A i \in 1..Len(out) : out'[i] = out[i]
           /\ \A i \in DOMAIN out' : out'[i].ts \in Nat \ {0} /\ out'[i].kind \in {"book", "trades", "heartbeat"}
           /\ Spoken' = Spoken \cup (IF e.kind = "heartbeat" THEN {} ELSE {Len(out) + 1})
           /\ \A i \in Spoken : i \in 1..Len(out)
<1>1. PICK T : out \in Seq(T)  BY DEF Placed
<1>2. /\ out' \in Seq(T \cup {e}) /\ Len(out') = Len(out) + 1 /\ DOMAIN out' = 1..(Len(out) + 1)
      /\ out'[Len(out) + 1] = e /\ \A i \in 1..Len(out) : out'[i] = out[i]
  BY <1>1, Appended
<1>3. Len(out) \in Nat /\ DOMAIN out = 1..Len(out)  BY DEF Placed
<1>4. \A i \in DOMAIN out' : (i \in 1..Len(out) /\ out'[i] = out[i]) \/ (i = Len(out) + 1 /\ out'[i] = e)
  BY <1>2, <1>3
<1>5. \A i \in DOMAIN out' : out'[i].ts \in Nat \ {0} /\ out'[i].kind \in {"book", "trades", "heartbeat"}
  BY <1>3, <1>4 DEF Placed
<1>6. Spoken' = Spoken \cup (IF e.kind = "heartbeat" THEN {} ELSE {Len(out) + 1})
  <2>1. \A i \in 1..Len(out) : i \in DOMAIN out' /\ i \in DOMAIN out  BY <1>2, <1>3
  <2>2. Len(out) + 1 \in DOMAIN out'  BY <1>2, <1>3
  <2> QED  BY <1>2, <1>3, <1>4, <2>1, <2>2 DEF Spoken
<1>7. \A i \in Spoken : i \in 1..Len(out)  BY <1>3 DEF Spoken
<1> QED  BY <1>2, <1>3, <1>5, <1>6, <1>7

\* An event in time keeps the pace (ParquetReplay::next: the heartbeat).
LEMMA PacedKeeps ==
    ASSUME Placed, Paced, NEW e, out' = Append(out, e), lastTs' = e.ts, e.ts \in Nat \ {0},
           e.kind \in {"book", "trades", "heartbeat"},
           lastTs <= e.ts, lastTs > 0 => e.ts - lastTs <= Beat,
           Len(out) > 0 /\ out[Len(out)].ts = e.ts => ~(out[Len(out)].kind = "trades" /\ e.kind = "book")
    PROVE  Paced'
<1>1. /\ Len(out') = Len(out) + 1 /\ Len(out) \in Nat /\ out'[Len(out) + 1] = e
      /\ \A i \in 1..Len(out) : out'[i] = out[i]
  BY Joins
<1>2. InTime'
  <2> SUFFICES ASSUME NEW i \in 1..(Len(out') - 1)
               PROVE  /\ out'[i].ts <= out'[i + 1].ts /\ out'[i + 1].ts - out'[i].ts <= Beat
                      /\ out'[i].ts = out'[i + 1].ts => ~(out'[i].kind = "trades" /\ out'[i + 1].kind = "book")
    BY DEF InTime
  <2>1. i \in 1..Len(out)  BY <1>1
  <2>2. CASE i < Len(out)
    <3>1. i \in 1..(Len(out) - 1) /\ i + 1 \in 1..Len(out)  BY <1>1, <2>1, <2>2
    <3> QED  BY <1>1, <2>1, <3>1 DEF Paced, InTime
  <2>3. CASE i = Len(out)
    <3>1. Len(out) > 0 /\ lastTs = out[i].ts  BY <2>1, <2>3 DEF Paced
    <3>2. out'[i] = out[i] /\ out'[i + 1] = e  BY <1>1, <2>1, <2>3
    <3>3. out[i].ts \in Nat \ {0}  BY <2>1 DEF Placed
    <3> QED  BY <2>3, <3>1, <3>2, <3>3
  <2> QED  BY <1>1, <2>1, <2>2, <2>3
<1> QED  BY <1>1, <1>2 DEF Paced

\* An event beside the mark of its instant keeps them right (MarkSeries::advance).
LEMMA MarksKeep ==
    ASSUME Placed, MarkedSo, NEW e, out' = Append(out, e), e.ts \in Nat \ {0},
           e.kind \in {"book", "trades", "heartbeat"}, e.mark = Advanced(e.ts), files' = files
    PROVE  MarkedSo'
<1>1. /\ DOMAIN out' = 1..(Len(out) + 1) /\ Len(out) \in Nat /\ out'[Len(out) + 1] = e
      /\ \A i \in 1..Len(out) : out'[i] = out[i]
  BY Joins
<1>2. DOMAIN out = 1..Len(out)  BY DEF Placed
<1>3. \A i \in DOMAIN out' : out'[i].mark = Advanced(out'[i].ts)
  <2> SUFFICES ASSUME NEW i \in DOMAIN out' PROVE out'[i].mark = Advanced(out'[i].ts)
    OBVIOUS
  <2>1. CASE i \in 1..Len(out)  BY <1>1, <1>2, <2>1 DEF MarkedSo
  <2>2. CASE i = Len(out) + 1  BY <1>1, <2>2
  <2> QED  BY <1>1, <2>1, <2>2
<1>4. ASSUME NEW t PROVE Advanced(t)' = Advanced(t)
  BY DEF Advanced, Rows, Shard
<1>5. ASSUME NEW i \in DOMAIN out' PROVE out'[i].mark = Advanced(out[i].ts)'
  <2>1. PICK t : t = out'[i].ts  OBVIOUS
  <2>2. out'[i].mark = Advanced(t)'  BY <1>3, <1>4, <2>1
  <2> QED  BY <2>1, <2>2 DEF Advanced, Rows, Shard
<1> QED  BY <1>5 DEF MarkedSo

\* A heartbeat is said where nothing else is due (ParquetReplay::next).
LEMMA HeartbeatPlays == ASSUME Tidy(evs), Played, Heartbeat PROVE Played'
<1> DEFINE e == [kind |-> "heartbeat", ts |-> lastTs + Beat, val |-> 0, mark |-> current']
<1>1. /\ cursor <= Len(evs) /\ lastTs > 0 /\ lastTs + Beat < evs[cursor].ts
      /\ out' = Append(out, e) /\ lastTs' = e.ts /\ e.mark = Advanced(e.ts)
      /\ UNCHANGED <<evs, cursor, book, stage, files>>
  BY DEF Heartbeat, BeatDue, Emitted, recorderVars
<1>2. /\ lastTs \in Nat /\ Beat \in Nat \ {0} /\ cursor \in 1..Len(evs) /\ evs[cursor].ts \in Nat \ {0}
      /\ e.ts \in Nat \ {0} /\ e.ts = lastTs + Beat /\ e.kind = "heartbeat"
  <2>1. lastTs \in Nat /\ Beat \in Nat \ {0} /\ Len(evs) \in Nat /\ DOMAIN evs = 1..Len(evs)
    BY ArchiveAssumption DEF Played, Placed, Tidy, ArchiveAssumption
  <2>2. cursor \in 1..Len(evs)  BY <1>1, <2>1 DEF Played, Placed
  <2>3. evs[cursor].ts \in Nat \ {0}  BY <2>1, <2>2 DEF Tidy
  <2> QED  BY <2>1, <2>2, <2>3
<1> HIDE DEF e
<1>3. Placed /\ Said /\ Ahead /\ Paced /\ MarkedSo  BY DEF Played
<1>4. /\ (\E T : out' \in Seq(T)) /\ Len(out') = Len(out) + 1 /\ DOMAIN out' = 1..(Len(out) + 1)
      /\ Len(out) \in Nat /\ out'[Len(out) + 1] = e
      /\ \A i \in 1..Len(out) : out'[i] = out[i]
      /\ \A i \in DOMAIN out' : out'[i].ts \in Nat \ {0} /\ out'[i].kind \in {"book", "trades", "heartbeat"}
      /\ Spoken' = Spoken /\ \A i \in Spoken : i \in 1..Len(out)
  BY <1>1, <1>2, <1>3, Joins
<1>5. Placed'  BY <1>1, <1>2, <1>3, <1>4 DEF Placed
<1>6. Said'  BY <1>1, <1>3, <1>4 DEF Said, Says, Shows
<1>7. Ahead'  BY <1>1, <1>2, <1>3, <1>4 DEF Ahead, Prior
<1>8. Paced'
  <2>1. Len(out) > 0 /\ out[Len(out)].ts = e.ts => ~(out[Len(out)].kind = "trades" /\ e.kind = "book")
    BY <1>2
  <2>2. lastTs <= e.ts /\ (lastTs > 0 => e.ts - lastTs <= Beat)  BY <1>2
  <2> QED  BY <1>1, <1>2, <1>3, <2>1, <2>2, PacedKeeps
<1>9. MarkedSo'  BY <1>1, <1>2, <1>3, MarksKeep
<1> QED  BY <1>5, <1>6, <1>7, <1>8, <1>9 DEF Played

\* Some rows under the cursor become an event.
LEMMA EventPlays ==
    ASSUME Tidy(evs), Played, cursor <= Len(evs), ~BeatDue,
           NEW w \in Nat \ {0}, cursor + w <= Len(evs) + 1,
           \A j \in cursor..(cursor + w - 1) : evs[j].kind = evs[cursor].kind /\ evs[j].ts = evs[cursor].ts,
           cursor + w <= Len(evs) => ~OneBook(evs[cursor], evs[cursor + w]),
           NEW e, Says(e, evs, cursor), out' = Append(out, e), lastTs' = e.ts, e.mark = Advanced(e.ts),
           cursor' = cursor + w, stage # "done",
           book'.ts = IF e.kind = "book" THEN e.ts ELSE book.ts,
           UNCHANGED <<evs, stage, files>>
    PROVE  Played'
<1>1. Placed /\ Said /\ Ahead /\ Paced /\ MarkedSo  BY DEF Played
<1>2. /\ cursor \in 1..Len(evs) /\ cursor \in Nat /\ Len(evs) \in Nat /\ DOMAIN evs = 1..Len(evs)
      /\ e.ts = evs[cursor].ts /\ e.kind = evs[cursor].kind
      /\ e.ts \in Nat \ {0} /\ e.kind \in {"book", "trades"} /\ lastTs \in Nat /\ Beat \in Nat
  BY <1>1, ArchiveAssumption DEF Placed, Tidy, Says, ArchiveAssumption
<1>3. /\ (\E T : out' \in Seq(T)) /\ Len(out') = Len(out) + 1 /\ DOMAIN out' = 1..(Len(out) + 1)
      /\ Len(out) \in Nat /\ out'[Len(out) + 1] = e
      /\ \A i \in 1..Len(out) : out'[i] = out[i]
      /\ \A i \in DOMAIN out' : out'[i].ts \in Nat \ {0} /\ out'[i].kind \in {"book", "trades", "heartbeat"}
      /\ Spoken' = Spoken \cup {Len(out) + 1} /\ \A i \in Spoken : i \in 1..Len(out)
  BY <1>1, <1>2, Joins
<1>4. cursor' \in 1..(Len(evs) + 1) /\ \A j \in 1..(cursor' - 1) :
        j \in 1..(cursor - 1) \/ j \in cursor..(cursor + w - 1)
  BY <1>2
<1>5. \A j \in 1..(cursor - 1) : j \in 1..(cursor' - 1)  BY <1>2
<1>5a. cursor \in 1..(cursor' - 1)  BY <1>2
<1>6. Placed'
  <2>1. book'.ts \in Nat  BY <1>1, <1>2 DEF Placed
  <2> QED  BY <1>1, <1>2, <1>3, <1>4, <2>1 DEF Placed
<1>7. Said'
  <2>1. ASSUME NEW i \in Spoken' PROVE \E j \in 1..(cursor' - 1) : Says(out'[i], evs, j)
    <3>1. CASE i \in Spoken
      <4>1. PICK j \in 1..(cursor - 1) : Says(out[i], evs, j)  BY <1>1, <3>1 DEF Said
      <4> QED  BY <1>3, <1>5, <3>1, <4>1
    <3>2. CASE i = Len(out) + 1  BY <1>3, <1>5a, <3>2
    <3> QED  BY <1>3, <3>1, <3>2
  <2>2. ASSUME NEW j \in 1..(cursor' - 1)
        PROVE  \E i \in Spoken' : out'[i].kind = evs[j].kind /\ out'[i].ts = evs[j].ts
    <3>1. CASE j \in 1..(cursor - 1)
      <4>1. PICK i \in Spoken : out[i].kind = evs[j].kind /\ out[i].ts = evs[j].ts  BY <1>1, <3>1 DEF Said
      <4> QED  BY <1>3, <4>1
    <3>2. CASE j \in cursor..(cursor + w - 1)
      <4>1. e.kind = evs[j].kind /\ e.ts = evs[j].ts  BY <1>2, <3>2
      <4> QED  BY <1>3, <4>1
    <3> QED  BY <1>4, <3>1, <3>2
  <2>3. ASSUME NEW i \in Spoken', NEW j \in Spoken', i < j PROVE Prior(out'[i], out'[j])
    <3>1. i \in Spoken  BY <1>3, <2>3
    <3>2. CASE j \in Spoken  BY <1>1, <1>3, <2>3, <3>1, <3>2 DEF Said
    <3>3. CASE j = Len(out) + 1
      <4>1. Prior(out[i], evs[cursor])  BY <1>1, <3>1 DEF Ahead
      <4>2. Prior(out[i], e)  BY <1>2, <4>1 DEF Prior
      <4> QED  BY <1>3, <3>1, <3>3, <4>2
    <3> QED  BY <1>3, <3>2, <3>3
  <2>4. \A i \in Spoken' : \E j \in 1..(cursor' - 1) : Says(out'[i], evs', j)  BY <2>1
  <2>5. \A j \in 1..(cursor' - 1) : \E i \in Spoken' : out'[i].kind = evs'[j].kind /\ out'[i].ts = evs'[j].ts
    BY <2>2
  <2> QED  BY <2>3, <2>4, <2>5 DEF Said, Says, Shows
<1>8. Ahead'
  <2> DEFINE next == evs[cursor + w]
  <2> SUFFICES ASSUME cursor + w <= Len(evs)
               PROVE  /\ \A j \in 1..(cursor' - 1) : Prior(evs[j], next)
                      /\ \A i \in Spoken' : Prior(out'[i], next)
                      /\ e.ts <= next.ts /\ book'.ts <= next.ts
                      /\ next.kind = "book" => book'.ts < next.ts
    BY DEF Ahead
  <2>1. cursor + w \in DOMAIN evs /\ cursor \in DOMAIN evs /\ cursor < cursor + w  BY <1>2
  <2>2. next.ts \in Nat \ {0} /\ next.kind \in {"book", "trades"}  BY <2>1 DEF Tidy
  <2>3. Prior(evs[cursor], next)  BY <2>1 DEF Tidy
  <2>4. ASSUME NEW a, Prior(a, evs[cursor]), a.ts \in Nat PROVE Prior(a, next)
    BY <1>2, <2>2, <2>3, <2>4 DEF Prior
  <2>5. ASSUME NEW j \in 1..(cursor' - 1) PROVE Prior(evs[j], next)
    <3>1. CASE j \in 1..(cursor - 1)
      <4>1. Prior(evs[j], evs[cursor])  BY <1>1, <3>1 DEF Ahead
      <4>2. evs[j].ts \in Nat  BY <1>2, <3>1 DEF Tidy
      <4> QED  BY <2>4, <4>1, <4>2
    <3>2. CASE j \in cursor..(cursor + w - 1)
      BY <2>3, <3>2 DEF Prior
    <3> QED  BY <1>4, <3>1, <3>2
  <2>6. ASSUME NEW i \in Spoken' PROVE Prior(out'[i], next)
    <3>1. CASE i \in Spoken
      <4>1. Prior(out[i], evs[cursor])  BY <1>1, <3>1 DEF Ahead
      <4>2. out[i].ts \in Nat  BY <3>1 DEF Spoken, Placed, Played
      <4> QED  BY <1>3, <2>4, <3>1, <4>1, <4>2
    <3>2. CASE i = Len(out) + 1
      BY <1>2, <1>3, <2>3, <3>2 DEF Prior
    <3> QED  BY <1>3, <3>1, <3>2
  <2>7. e.ts <= next.ts  BY <1>2, <2>2, <2>3 DEF Prior
  <2>8. book'.ts \in Nat /\ book'.ts <= evs[cursor].ts
    <3>1. book.ts \in Nat  BY <1>1 DEF Placed
    <3>2. book.ts <= evs[cursor].ts
      BY <1>1, <1>2 DEF Ahead
    <3> QED  BY <1>2, <3>1, <3>2
  <2>9. book'.ts <= next.ts  BY <1>2, <2>2, <2>7, <2>8
  <2>10. ASSUME next.kind = "book" PROVE book'.ts < next.ts
    <3>1. evs[cursor].ts < next.ts  BY <2>3, <2>10 DEF Prior
    <3> QED  BY <1>2, <2>2, <2>8, <3>1
  <2> QED  BY <2>5, <2>6, <2>7, <2>9, <2>10
<1>9. Paced'
  <2>1. lastTs <= e.ts /\ (lastTs > 0 => e.ts - lastTs <= Beat)
    BY <1>1, <1>2 DEF Ahead, BeatDue
  <2>2. Len(out) > 0 /\ out[Len(out)].ts = e.ts => ~(out[Len(out)].kind = "trades" /\ e.kind = "book")
    <3> SUFFICES ASSUME Len(out) > 0, out[Len(out)].ts = e.ts, out[Len(out)].kind = "trades", e.kind = "book"
                 PROVE  FALSE
      OBVIOUS
    <3>1. Len(out) \in Spoken  BY <1>1, <1>3 DEF Placed, Spoken
    <3>2. Prior(out[Len(out)], evs[cursor])  BY <1>1, <3>1 DEF Ahead
    <3> QED  BY <1>2, <3>2 DEF Prior
  <2> QED  BY <1>1, <1>2, <2>1, <2>2, PacedKeeps
<1>10. MarkedSo'  BY <1>1, <1>2, MarksKeep
<1> QED  BY <1>6, <1>7, <1>8, <1>9, <1>10 DEF Played

\* The rows taken together are those of the snapshot.
LEMMA GroupIs ==
    ASSUME Tidy(evs), cursor \in 1..Len(evs), evs[cursor].kind = "book",
           \A j \in 1..(cursor - 1) : Prior(evs[j], evs[cursor])
    PROVE  \E w \in Nat \ {0} :
             /\ Group = cursor..(cursor + w - 1) /\ Cardinality(Group) = w /\ cursor + w <= Len(evs) + 1
             /\ cursor + w <= Len(evs) => ~OneBook(evs[cursor], evs[cursor + w])
             /\ \A j \in DOMAIN evs : j \in Group <=> evs[j].kind = "book" /\ evs[j].ts = evs[cursor].ts
             /\ \A j \in Group : j \in DOMAIN evs
<1> DEFINE ends == {j \in cursor..Len(evs) : evs[j].kind # "book" \/ evs[j].ts # evs[cursor].ts}
           g == IF ends = {} THEN Len(evs) + 1 ELSE Min(ends)
<1>1. Len(evs) \in Nat /\ DOMAIN evs = 1..Len(evs) /\ cursor \in Nat /\ cursor >= 1 /\ cursor <= Len(evs)
  BY DEF Tidy
<1>2. Group = cursor..(g - 1)  BY DEF Group
<1>3. ends # {} => Min(ends) \in ends /\ \A y \in ends : Min(ends) <= y
  <2>1. IsFiniteSet(cursor..Len(evs))
    <3> HIDE DEF ends, g
    <3>1. cursor \in Int /\ Len(evs) \in Int  BY <1>1
    <3> QED  BY <3>1, FS_Interval
  <2>2. ends \subseteq cursor..Len(evs) /\ ends \subseteq Int  BY <1>1
  <2> HIDE DEF ends
  <2>3. IsFiniteSet(ends)  BY <2>1, <2>2, FS_Subset
  <2> QED  BY <2>2, <2>3, MinIs
<1>4. g \in Nat /\ cursor < g /\ g <= Len(evs) + 1
  <2>1. cursor \notin ends  OBVIOUS
  <2>2. CASE ends = {}  BY <1>1, <2>2
  <2>3. CASE ends # {}
    <3>1. g \in ends  BY <1>3, <2>3
    <3>2. g \in cursor..Len(evs) /\ g # cursor  BY <2>1, <3>1
    <3> HIDE DEF g
    <3> QED  BY <1>1, <3>2
  <2> QED  BY <2>2, <2>3
<1>5. \A j \in cursor..(g - 1) : j \notin ends
  BY <1>1, <1>3, <1>4
<1>6. g <= Len(evs) => g \in ends
  <2>1. CASE ends = {}  BY <1>1, <2>1
  <2>2. CASE ends # {}  BY <1>3, <2>2
  <2> QED  BY <2>1, <2>2
<1> HIDE DEF g
<1>7. g <= Len(evs) => /\ g \in DOMAIN evs /\ ~OneBook(evs[cursor], evs[g])
                       /\ Prior(evs[cursor], evs[g])
  <2> SUFFICES ASSUME g <= Len(evs)
               PROVE  g \in DOMAIN evs /\ ~OneBook(evs[cursor], evs[g]) /\ Prior(evs[cursor], evs[g])
    OBVIOUS
  <2>1. g \in DOMAIN evs /\ cursor \in DOMAIN evs  BY <1>1, <1>4
  <2>2. ~OneBook(evs[cursor], evs[g])  BY <1>6 DEF OneBook
  <2> QED  BY <1>4, <2>1, <2>2 DEF Tidy
<1>8. ASSUME NEW j \in cursor..(g - 1) PROVE evs[j].kind = "book" /\ evs[j].ts = evs[cursor].ts /\ j \in DOMAIN evs
  <2>1. j \in cursor..Len(evs) /\ j \in DOMAIN evs  BY <1>1, <1>4
  <2> QED  BY <1>5, <2>1
<1>9. ASSUME NEW j \in DOMAIN evs, evs[j].kind = "book", evs[j].ts = evs[cursor].ts
      PROVE  j \in cursor..(g - 1)
  <2>1. j \in Nat /\ j >= 1 /\ j <= Len(evs) /\ evs[j].ts \in Nat  BY <1>1 DEF Tidy
  <2>2. ~(j < cursor)
    <3> SUFFICES ASSUME j < cursor PROVE FALSE
      OBVIOUS
    <3>1. j \in 1..(cursor - 1)  BY <1>1, <2>1
    <3>2. Prior(evs[j], evs[cursor])  BY <3>1
    <3> QED  BY <1>9, <2>1, <3>2 DEF Prior
  <2>3. ~(g <= j)
    <3> SUFFICES ASSUME g <= j PROVE FALSE
      OBVIOUS
    <3>1. g <= Len(evs)  BY <1>1, <1>4, <2>1
    <3>2. /\ g \in DOMAIN evs /\ ~OneBook(evs[cursor], evs[g]) /\ Prior(evs[cursor], evs[g])
          /\ evs[g].ts \in Nat
      BY <1>7, <3>1 DEF Tidy
    <3>3. CASE g = j  BY <1>9, <3>2, <3>3 DEF OneBook
    <3>4. CASE g < j
      <4>1. Prior(evs[g], evs[j]) \/ OneBook(evs[g], evs[j])  BY <3>2, <3>4 DEF Tidy
      <4> QED  BY <1>9, <2>1, <3>2, <4>1 DEF Prior, OneBook
    <3> QED  BY <1>4, <2>1, <3>3, <3>4
  <2> QED  BY <1>1, <1>4, <2>1, <2>2, <2>3
<1> DEFINE w == g - cursor
<1>10. w \in Nat \ {0} /\ cursor + w = g /\ cursor + w - 1 = g - 1  BY <1>1, <1>4
<1>11. Cardinality(Group) = w
  <2>1. cursor \in Int /\ g - 1 \in Int /\ ~(cursor > g - 1) /\ (g - 1) - cursor + 1 = w  BY <1>1, <1>4
  <2>2. Cardinality(cursor..(g - 1)) = (g - 1) - cursor + 1  BY <2>1, FS_Interval
  <2> QED  BY <1>2, <2>1, <2>2
<1>12. cursor + w <= Len(evs) => ~OneBook(evs[cursor], evs[cursor + w])  BY <1>7, <1>10
<1>13. Group = cursor..(cursor + w - 1) /\ cursor + w <= Len(evs) + 1  BY <1>2, <1>4, <1>10
<1>14. \A j \in DOMAIN evs : j \in Group <=> evs[j].kind = "book" /\ evs[j].ts = evs[cursor].ts
  BY <1>2, <1>8, <1>9
<1>15. \A j \in Group : j \in DOMAIN evs  BY <1>2, <1>8
<1> HIDE DEF w
<1> QED  BY <1>10, <1>11, <1>12, <1>13, <1>14, <1>15

\* The rows of a snapshot are said as one book (ParquetReplay::next, apply_delta_row).
LEMMA BookPlays == ASSUME Tidy(evs), Played, BookUpdate PROVE Played'
<1> DEFINE T == evs[cursor].ts
           after == Applied(book, T, {evs[j].row : j \in Group})
           e == [kind |-> "book", ts |-> T, val |-> [bids |-> after.bids, asks |-> after.asks],
                 mark |-> current']
<1>1. Placed /\ Said /\ Ahead  BY DEF Played
<1>2. /\ cursor <= Len(evs) /\ ~BeatDue /\ evs[cursor].kind = "book" /\ stage = "play"
      /\ book' = after /\ out' = Append(out, e) /\ lastTs' = T /\ e.mark = Advanced(T)
      /\ cursor' = cursor + Cardinality(Group) /\ UNCHANGED <<evs, stage, files>>
  BY DEF BookUpdate, Emitted, recorderVars
<1>3. cursor \in 1..Len(evs) /\ cursor \in Nat
  BY <1>1, <1>2 DEF Placed, Tidy
<1>4. \A j \in 1..(cursor - 1) : Prior(evs[j], evs[cursor])  BY <1>1, <1>2 DEF Ahead
<1>5. PICK w \in Nat \ {0} :
        /\ Group = cursor..(cursor + w - 1) /\ Cardinality(Group) = w /\ cursor + w <= Len(evs) + 1
        /\ cursor + w <= Len(evs) => ~OneBook(evs[cursor], evs[cursor + w])
        /\ \A j \in DOMAIN evs : j \in Group <=> evs[j].kind = "book" /\ evs[j].ts = evs[cursor].ts
        /\ \A j \in Group : j \in DOMAIN evs
  BY <1>2, <1>3, <1>4, GroupIs
<1>6. /\ after.ts = T
      /\ after.bids = {r.price : r \in {x \in {evs[j].row : j \in Group} : x.side = 0}}
      /\ after.asks = {r.price : r \in {x \in {evs[j].row : j \in Group} : x.side = 1}}
  <2>1. T # book.ts
    <3>1. book.ts < T /\ book.ts \in Nat  BY <1>1, <1>2 DEF Ahead, Placed
    <3>2. T \in Nat  BY <1>3 DEF Tidy
    <3> QED  BY <3>1, <3>2
  <2> QED  BY <2>1 DEF Applied
<1>7. \A side : {r.price : r \in {x \in {evs[j].row : j \in Group} : x.side = side}}
                = {evs[i].row.price : i \in {j \in DOMAIN evs : evs[j].kind = "book" /\ evs[j].ts = T
                                                                 /\ evs[j].row.side = side}}
  BY <1>5
<1>8. after.bids = BookAt(evs, T).bids /\ after.asks = BookAt(evs, T).asks
  BY <1>6, <1>7 DEF BookAt
<1>9. Says(e, evs, cursor)
  BY <1>2, <1>8 DEF Says, Shows
<1>10. e.ts = T /\ e.kind = "book" /\ book'.ts = T  BY <1>2, <1>6
<1> HIDE DEF after, e, T
<1>11. lastTs' = e.ts /\ e.mark = Advanced(e.ts)  BY <1>2, <1>10
<1>12. book'.ts = IF e.kind = "book" THEN e.ts ELSE book.ts  BY <1>10
<1>13. \A j \in cursor..(cursor + w - 1) : evs[j].kind = evs[cursor].kind /\ evs[j].ts = evs[cursor].ts
  BY <1>2, <1>5
<1>14. stage # "done" /\ cursor' = cursor + w  BY <1>2, <1>5
<1> QED  BY <1>2, <1>5, <1>9, <1>11, <1>12, <1>13, <1>14, EventPlays

\* A trade is said when its row is reached (ParquetReplay::next).
LEMMA DealPlays == ASSUME Tidy(evs), Played, Deal PROVE Played'
<1> DEFINE e == [kind |-> "trades", ts |-> evs[cursor].ts, val |-> evs[cursor].row.price, mark |-> current']
<1>1. /\ cursor <= Len(evs) /\ ~BeatDue /\ evs[cursor].kind = "trades" /\ stage = "play"
      /\ out' = Append(out, e) /\ lastTs' = e.ts /\ e.mark = Advanced(e.ts)
      /\ cursor' = cursor + 1 /\ UNCHANGED <<evs, stage, files, book>>
  BY DEF Deal, Emitted, recorderVars
<1>2. Says(e, evs, cursor) /\ e.kind = "trades"  BY <1>1 DEF Says, Shows
<1> HIDE DEF e
<1>3. cursor \in Nat /\ Len(evs) \in Nat  BY DEF Played, Placed, Tidy
<1>4. \A j \in cursor..(cursor + 1 - 1) : evs[j].kind = evs[cursor].kind /\ evs[j].ts = evs[cursor].ts
  BY <1>3
<1>5. ~OneBook(evs[cursor], evs[cursor + 1])  BY <1>1 DEF OneBook
<1>6. book'.ts = (IF e.kind = "book" THEN e.ts ELSE book.ts) /\ stage # "done" /\ 1 \in Nat \ {0}
      /\ cursor + 1 <= Len(evs) + 1
  BY <1>1, <1>2, <1>3
<1> QED  BY <1>1, <1>2, <1>4, <1>5, <1>6, EventPlays

\* A trade is read once.
LEMMA TradeOnce ==
    ASSUME Typed, Filed, NEW e \in Rows("trades"), NEW f \in Rows("trades"), e.row.item = f.row.item
    PROVE  e = f
<1>0. "trades" \in Kind /\ "trades" # "book"  BY KindsAre
<1>1. PICK n \in DOMAIN files : \E i \in DOMAIN files[n].rows :
        /\ n \in Shelves /\ Shelf(n) = files[n].rows /\ n = <<"trades", n[2]>>
        /\ e = [kind |-> "trades", ts |-> files[n].rows[i].ts, row |-> files[n].rows[i], src |-> <<n[2], i>>]
  BY <1>0, RowRead
<1>2. PICK i \in DOMAIN files[n].rows :
        e = [kind |-> "trades", ts |-> files[n].rows[i].ts, row |-> files[n].rows[i], src |-> <<n[2], i>>]
  BY <1>1
<1>3. PICK m \in DOMAIN files : \E j \in DOMAIN files[m].rows :
        /\ m \in Shelves /\ Shelf(m) = files[m].rows /\ m = <<"trades", m[2]>>
        /\ f = [kind |-> "trades", ts |-> files[m].rows[j].ts, row |-> files[m].rows[j], src |-> <<m[2], j>>]
  BY <1>0, RowRead
<1>4. PICK j \in DOMAIN files[m].rows :
        f = [kind |-> "trades", ts |-> files[m].rows[j].ts, row |-> files[m].rows[j], src |-> <<m[2], j>>]
  BY <1>3
<1>5. files[n].rows[i].item = files[m].rows[j].item  BY <1>2, <1>4
<1>6. n = m
  <2>1. files[n].rows[i].item \in Items(Shelf(n)) /\ files[m].rows[j].item \in Items(Shelf(m))
    BY <1>1, <1>3 DEF Items
  <2> QED  BY <1>1, <1>3, <1>5, <2>1 DEF Filed
<1>7. i = j
  <2>1. n[1] = "trades"  BY <1>1
  <2>2. Faithful("trades", files[n].rows)  BY <1>1, <2>1 DEF Filed
  <2> QED  BY <1>0, <1>5, <1>6, <2>2 DEF Faithful
<1> QED  BY <1>2, <1>4, <1>6, <1>7

\* The sorted rows are laid out in time, books first.
LEMMA SortedTidy == ASSUME RecorderInv PROVE Tidy(Sorted) /\ Sorted \in Seq(Feed)
<1>1. Typed /\ Filed /\ Timeline  BY DEF RecorderInv
<1>2. Sorted \in Seq(Feed)
  <2>1. Sorted \in [1..Cardinality(Feed) -> Feed] /\ Cardinality(Feed) \in Nat
    BY <1>1, FeedOrderable, Ordered DEF Sorted, Feed
  <2> QED  BY <2>1
<1>3. Len(Sorted) \in Nat /\ DOMAIN Sorted = 1..Len(Sorted)  BY <1>2
<1>4. \A i \in DOMAIN Sorted : /\ Sorted[i].kind \in {"book", "trades"}
                               /\ Sorted[i] \in Rows(Sorted[i].kind)
                               /\ ReadRow(Sorted[i], Sorted[i].kind)
  BY <1>1, SortedFacts
<1>5. \A i \in DOMAIN Sorted : Sorted[i].ts \in Nat \ {0}  BY <1>4 DEF ReadRow
<1>6. ASSUME NEW i \in DOMAIN Sorted, NEW j \in DOMAIN Sorted, i < j
      PROVE  Prior(Sorted[i], Sorted[j]) \/ OneBook(Sorted[i], Sorted[j])
  <2> DEFINE e == Sorted[i]  f == Sorted[j]
  <2>1. /\ e # f /\ e.ts <= f.ts
        /\ e.ts = f.ts /\ f.kind = "book" => e.kind = "book"
    BY <1>1, <1>6, SortedFacts
  <2>2. /\ e.kind \in {"book", "trades"} /\ f.kind \in {"book", "trades"} /\ e.ts \in Nat /\ f.ts \in Nat
        /\ e \in Rows(e.kind) /\ f \in Rows(f.kind) /\ ReadRow(e, e.kind) /\ ReadRow(f, f.kind)
    BY <1>4, <1>5
  <2> HIDE DEF e, f
  <2>3. CASE e.ts = f.ts /\ e.kind = "trades" /\ f.kind = "trades"
    <3>1. /\ e.row.item \in taken /\ f.row.item \in taken /\ e.row.item.ts = f.row.item.ts
          /\ e.row.item.kind = f.row.item.kind
      BY <2>2, <2>3 DEF ReadRow
    <3>2. e.row.item = f.row.item  BY <1>1, <3>1 DEF Timeline
    <3> QED  BY <1>1, <2>1, <2>2, <2>3, <3>2, TradeOnce
  <2>4. CASE ~(e.ts = f.ts /\ e.kind = "trades" /\ f.kind = "trades")
    <3>1. Prior(e, f) \/ OneBook(e, f)  BY <2>1, <2>2, <2>4 DEF Prior, OneBook
    <3> QED  BY <3>1 DEF e, f
  <2> QED  BY <2>3, <2>4
<1> QED  BY <1>2, <1>3, <1>4, <1>5, <1>6 DEF Tidy

\* A row of a complete shard is put in order with the others.
LEMMA RowSorted ==
    ASSUME RecorderInv, NEW n \in DOMAIN files, n[1] = "book", NEW q \in DOMAIN files[n].rows
    PROVE  \E i \in DOMAIN Sorted : /\ Sorted[i].kind = "book" /\ Sorted[i].row = files[n].rows[q]
                                    /\ Sorted[i].ts = files[n].rows[q].ts
<1> DEFINE e == [kind |-> n[1], ts |-> files[n].rows[q].ts, row |-> files[n].rows[q], src |-> <<n[2], q>>]
<1>1. Typed /\ Filed  BY DEF RecorderInv
<1>2. n \in Kind \X Nat /\ n \in Shelves  BY <1>1 DEF Typed, Sharded, Shelves
<1>3. Shelf(n) = files[n].rows  BY <1>2 DEF Shelf
<1>4. files[n].rows \in Seq(RowOf("book"))  BY <1>1, <1>2, <1>3 DEF Filed, Faithful
<1>5. files[n].whole  BY <1>1, <1>4 DEF Typed, Sharded
<1>6. files[n].rows[q] \in RowOf("book")  BY <1>4
<1>7. e.row.price > 0  BY <1>6 DEF RowOf
<1>8. e \in Shard(n)  BY DEF Shard
<1>9. e \in Feed  BY <1>5, <1>7, <1>8 DEF Rows, Feed
<1>10. PICK i \in DOMAIN Sorted : Sorted[i] = e  BY <1>1, <1>9, SortedFacts
<1> QED  BY <1>10

\* An event of a load says what its delivery said.
LEMMA ShowsItem ==
    ASSUME RecorderInv, NEW p \in DOMAIN Sorted PROVE Shows(Sorted, p) = Sorted[p].row.item.val
<1>1. Typed /\ Filed /\ Timeline  BY DEF RecorderInv
<1>2. \A i \in DOMAIN Sorted : /\ Sorted[i].kind \in {"book", "trades"}
                               /\ Sorted[i] \in Rows(Sorted[i].kind)
                               /\ ReadRow(Sorted[i], Sorted[i].kind)
  BY <1>1, SortedFacts
<1>3. ASSUME NEW k \in Kind, NEW i \in DOMAIN Sorted, Sorted[i].kind = k
      PROVE  \E n \in DOMAIN files : \E q \in DOMAIN files[n].rows :
               n \in Shelves /\ n[1] = k /\ Shelf(n) = files[n].rows /\ Sorted[i].row = files[n].rows[q]
  <2>1. Sorted[i] \in Rows(k)  BY <1>2, <1>3
  <2>2. PICK n \in DOMAIN files : \E q \in DOMAIN files[n].rows :
          /\ n \in Shelves /\ Shelf(n) = files[n].rows /\ n = <<k, n[2]>>
          /\ Sorted[i] = [kind |-> k, ts |-> files[n].rows[q].ts, row |-> files[n].rows[q],
                          src |-> <<n[2], q>>]
    BY <1>1, <2>1, RowRead
  <2>3. n[1] = k  BY <2>2
  <2>4. PICK q \in DOMAIN files[n].rows :
          Sorted[i] = [kind |-> k, ts |-> files[n].rows[q].ts, row |-> files[n].rows[q],
                       src |-> <<n[2], q>>]
    BY <2>2
  <2>5. Sorted[i].row = files[n].rows[q]  BY <2>4
  <2> QED  BY <2>2, <2>3, <2>5
<1>4. CASE Sorted[p].kind = "trades"
  <2>1. PICK n \in DOMAIN files : \E q \in DOMAIN files[n].rows :
          n \in Shelves /\ n[1] = "trades" /\ Shelf(n) = files[n].rows /\ Sorted[p].row = files[n].rows[q]
    BY <1>3, <1>4, KindsAre
  <2>2. Faithful("trades", files[n].rows)  BY <1>1, <2>1 DEF Filed
  <2>3. \A q \in DOMAIN files[n].rows : files[n].rows[q].price = files[n].rows[q].item.val
    BY <2>2 DEF Faithful
  <2>4. Sorted[p].row.price = Sorted[p].row.item.val  BY <2>1, <2>3
  <2> QED  BY <1>4, <2>4 DEF Shows
<1>5. CASE Sorted[p].kind = "book"
  <2> DEFINE T == Sorted[p].ts
             x == Sorted[p].row.item
  <2>1. PICK n \in DOMAIN files : \E q \in DOMAIN files[n].rows :
          n \in Shelves /\ n[1] = "book" /\ Shelf(n) = files[n].rows /\ Sorted[p].row = files[n].rows[q]
    BY <1>3, <1>5, KindsAre
  <2>2. PICK o \in DOMAIN files[n].rows : Sorted[p].row = files[n].rows[o]  BY <2>1
  <2> DEFINE rows == files[n].rows
             of(side) == {rows[q].price : q \in {y \in DOMAIN rows : rows[y].item = rows[o].item
                                                                      /\ rows[y].side = side}}
             at(side) == {Sorted[i].row.price : i \in {j \in DOMAIN Sorted :
                            Sorted[j].kind = "book" /\ Sorted[j].ts = T /\ Sorted[j].row.side = side}}
  <2>3. Faithful("book", rows)  BY <1>1, <2>1 DEF Filed
  <2>4. rows[o].item.val = [bids |-> of(0), asks |-> of(1)]
    BY <2>3 DEF Faithful
  <2>5. rows[o].item = x  BY <2>2
  <2>6. /\ T = x.ts /\ x \in taken /\ x.kind = "book"  BY <1>2, <1>5 DEF ReadRow
  <2>7. \A y \in DOMAIN rows : rows[y].ts = rows[y].item.ts  BY <2>3 DEF Faithful
  <2>8. ASSUME NEW side, NEW i \in DOMAIN Sorted, Sorted[i].kind = "book", Sorted[i].ts = T,
               Sorted[i].row.side = side
        PROVE  Sorted[i].row.price \in of(side)
    <3>1. Sorted[i].row.item \in taken /\ Sorted[i].row.item.ts = T /\ Sorted[i].row.item.kind = "book"
      BY <1>2, <2>8 DEF ReadRow
    <3>2. Sorted[i].row.item = x  BY <1>1, <2>6, <3>1 DEF Timeline
    <3>3. PICK m \in DOMAIN files : \E q \in DOMAIN files[m].rows :
            m \in Shelves /\ m[1] = "book" /\ Shelf(m) = files[m].rows /\ Sorted[i].row = files[m].rows[q]
      BY <1>3, <2>8, KindsAre
    <3>4. PICK q \in DOMAIN files[m].rows : Sorted[i].row = files[m].rows[q]  BY <3>3
    <3>5. m = n
      <4>1. x \in Items(Shelf(m))  BY <3>2, <3>3, <3>4 DEF Items
      <4>2. x \in Items(Shelf(n))  BY <2>1, <2>2 DEF Items
      <4> QED  BY <1>1, <2>1, <3>3, <4>1, <4>2 DEF Filed
    <3>6. q \in DOMAIN rows /\ rows[q].item = rows[o].item /\ rows[q].side = side
      BY <2>5, <2>8, <3>2, <3>4, <3>5
    <3> QED  BY <3>4, <3>5, <3>6
  <2>9. ASSUME NEW side, NEW q \in DOMAIN rows, rows[q].item = rows[o].item, rows[q].side = side
        PROVE  rows[q].price \in at(side)
    <3>1. PICK i \in DOMAIN Sorted : /\ Sorted[i].kind = "book" /\ Sorted[i].row = files[n].rows[q]
                                     /\ Sorted[i].ts = files[n].rows[q].ts
      BY <2>1, RowSorted
    <3>2. Sorted[i].ts = T  BY <2>5, <2>6, <2>7, <2>9, <3>1
    <3> QED  BY <2>9, <3>1, <3>2
  <2>10. \A side : at(side) = of(side)  BY <2>8, <2>9
  <2>11. BookAt(Sorted, T).bids = at(0) /\ BookAt(Sorted, T).asks = at(1)  BY DEF BookAt
  <2>12. Shows(Sorted, p) = [bids |-> at(0), asks |-> at(1)]  BY <1>5, <2>11 DEF Shows
  <2>13. x.val = [bids |-> of(0), asks |-> of(1)]  BY <2>4, <2>5
  <2> HIDE DEF at, of
  <2> QED  BY <2>10, <2>12, <2>13
<1> QED  BY <1>2, <1>4, <1>5

(* The walk back.                                                          *)

LEMMA Divided ==
    ASSUME NEW x \in Nat, NEW y \in Nat \ {0}
    PROVE  x \div y \in Nat /\ y * (x \div y) <= x /\ x < y * (x \div y) + y
OBVIOUS

\* A walk ends where it is to end, and stays on the way.
LEMMA WalkIs ==
    ASSUME NEW from \in Int, NEW to \in Int, from # to, NEW step \in Nat \ {0}
    PROVE  \E m \in Nat \ {0} :
             /\ Walk(from, to, step) \in Seq(Int) /\ Len(Walk(from, to, step)) = m
             /\ Walk(from, to, step)[m] = to
             /\ \A i \in 1..m : Walk(from, to, step)[i] \in (from..to) \cup (to..from)
             /\ (m - 1) * step < Between(to, from)
<1> DEFINE span == IF to > from THEN to - from ELSE from - to
           way(i) == IF i * step > span THEN span ELSE i * step
           m == (span + step - 1) \div step
<1>1. span \in Nat \ {0} /\ span = Between(to, from)  BY DEF Between
<1> HIDE DEF span
<1>2. m \in Nat \ {0} /\ m * step >= span /\ (m - 1) * step < span
  <2>1. span + step - 1 \in Nat  BY <1>1
  <2>2. m \in Nat /\ step * m <= span + step - 1 /\ span + step - 1 < step * m + step
    BY <2>1, Divided
  <2> HIDE DEF m
  <2>3. m # 0  BY <1>1, <2>2
  <2> QED  BY <1>1, <2>2, <2>3
<1>3. \A i \in 1..m : way(i) \in 0..span
  <2> SUFFICES ASSUME NEW i \in 1..m PROVE way(i) \in 0..span
    OBVIOUS
  <2>1. i * step \in Nat  BY <1>2
  <2> QED  BY <1>1, <2>1
<1>4. way(m) = span
  BY <1>1, <1>2
<1>5. Walk(from, to, step) = [i \in 1..m |-> IF to > from THEN from + way(i) ELSE from - way(i)]
  BY DEF Walk, span
<1> HIDE DEF way, m
<1>6. \A i \in 1..m : IF to > from THEN from + way(i) \in from..to ELSE from - way(i) \in to..from
  BY <1>3 DEF span
<1>7. Walk(from, to, step) \in [1..m -> Int]
  BY <1>5, <1>6
<1>8. Walk(from, to, step) \in Seq(Int) /\ Len(Walk(from, to, step)) = m
  BY <1>2, <1>7
<1>9. m \in 1..m  BY <1>2
<1>10. Walk(from, to, step)[m] = to
  BY <1>4, <1>5, <1>9 DEF span
<1>11. \A i \in 1..m : Walk(from, to, step)[i] \in (from..to) \cup (to..from)
  BY <1>5, <1>6
<1> QED  BY <1>1, <1>2, <1>8, <1>10, <1>11

\* Steps so wide are not more than MaxSteps.
LEMMA FewSteps ==
    ASSUME NEW span \in Nat, NEW step \in Nat \ {0}, step >= span \div MaxSteps + 1,
           NEW m \in Nat, (m - 1) * step < span
    PROVE  m <= MaxSteps
<1>1. MaxSteps \in Nat \ {0}  BY ArchiveAssumption DEF ArchiveAssumption
<1> DEFINE q == span \div MaxSteps
<1>2. q \in Nat /\ span < MaxSteps * q + MaxSteps  BY <1>1, Divided
<1> HIDE DEF q
<1>3. step >= q + 1  BY DEF q
<1>4. MaxSteps * (q + 1) <= MaxSteps * step  BY <1>1, <1>2, <1>3
<1>5. span < MaxSteps * step  BY <1>1, <1>2, <1>4
<1>6. ASSUME m > MaxSteps PROVE FALSE
  <2>1. MaxSteps * step <= (m - 1) * step  BY <1>1, <1>6
  <2> QED  BY <1>1, <1>5, <2>1
<1> QED  BY <1>1, <1>6

\* Rows with prices.
Priced(s) == \A i \in DOMAIN s : s[i].kind = "book" => s[i].row.price \in Nat

\* A book has finitely many levels.
LEMMA BookFinite ==
    ASSUME NEW s, Tidy(s), Priced(s), NEW T
    PROVE  LET b == BookAt(s, T) IN /\ IsFiniteSet(b.bids) /\ b.bids \subseteq Int
                                    /\ IsFiniteSet(b.asks) /\ b.asks \subseteq Int
<1> DEFINE at(side) == {j \in DOMAIN s : s[j].kind = "book" /\ s[j].ts = T /\ s[j].row.side = side}
           of(side) == {s[i].row.price : i \in at(side)}
<1>1. ASSUME NEW side PROVE IsFiniteSet(of(side)) /\ of(side) \subseteq Int
  <2> DEFINE S == at(side)
             f == [i \in S |-> s[i].row.price]
  <2>1. IsFiniteSet(DOMAIN s)
    <3>1. DOMAIN s = 1..Len(s) /\ 1 \in Int /\ Len(s) \in Int  BY DEF Tidy
    <3> QED  BY <3>1, FS_Interval
  <2>2. IsFiniteSet(S)
    <3>1. S \subseteq DOMAIN s  OBVIOUS
    <3> HIDE DEF S
    <3> QED  BY <2>1, <3>1, FS_Subset
  <2>3. f = [i \in S |-> f[i]] /\ of(side) = {f[i] : i \in S}  OBVIOUS
  <2>4. IsFiniteSet({f[i] : i \in S})
    <3> HIDE DEF f, S
    <3> QED  BY <2>2, <2>3, ImageFinite
  <2>5. of(side) \subseteq Int  BY DEF Priced
  <2> QED  BY <2>3, <2>4, <2>5
<1>2. BookAt(s, T).bids = of(0) /\ BookAt(s, T).asks = of(1)  BY DEF BookAt
<1> HIDE DEF of
<1> QED  BY <1>1, <1>2

\* The mid of a book is a tick (mid_of, to_ticks).
LEMMA MidIs ==
    ASSUME NEW b, IsFiniteSet(b.bids), b.bids \subseteq Int, IsFiniteSet(b.asks), b.asks \subseteq Int,
           Crossable(b)
    PROVE  Mid(b) \in Int
<1>1. Max(b.bids) \in Int /\ Min(b.asks) \in Int
  BY MaxIs, MinIs DEF Crossable
<1>2. Touch(b).bid \in Int /\ Touch(b).ask \in Int  BY <1>1 DEF Touch
<1>3. \A x \in Int : HalfEven(x) \in Int  BY DEF HalfEven
<1>4. Touch(b).bid + Touch(b).ask \in Int  BY <1>2
<1> QED  BY <1>3, <1>4 DEF Mid

\* The instants of the books, and where they can be crossed.
LEMMA TimesAre ==
    ASSUME NEW s, Tidy(s), Priced(s)
    PROVE  /\ IsFiniteSet(BookTimes(s)) /\ BookTimes(s) \subseteq Nat \ {0}
           /\ IsFiniteSet(Crossings(s)) /\ Crossings(s) \subseteq BookTimes(s)
           /\ \A ts \in Crossings(s) : MidAt(s, ts) \in Int
<1> DEFINE S == {j \in DOMAIN s : s[j].kind = "book"}
           f == [i \in S |-> s[i].ts]
<1>1. IsFiniteSet(BookTimes(s))
  <2>1. IsFiniteSet(DOMAIN s)
    <3>1. DOMAIN s = 1..Len(s) /\ 1 \in Int /\ Len(s) \in Int  BY DEF Tidy
    <3> QED  BY <3>1, FS_Interval
  <2>2. IsFiniteSet(S)
    <3>1. S \subseteq DOMAIN s  OBVIOUS
    <3> HIDE DEF S
    <3> QED  BY <2>1, <3>1, FS_Subset
  <2>3. f = [i \in S |-> f[i]] /\ BookTimes(s) = {f[i] : i \in S}  BY DEF BookTimes
  <2> HIDE DEF f, S
  <2> QED  BY <2>2, <2>3, ImageFinite
<1>2. BookTimes(s) \subseteq Nat \ {0}  BY DEF BookTimes, Tidy
<1>3. Crossings(s) \subseteq BookTimes(s)  BY DEF Crossings
<1>4. IsFiniteSet(Crossings(s))  BY <1>1, <1>3, FS_Subset
<1>5. ASSUME NEW ts \in Crossings(s) PROVE MidAt(s, ts) \in Int
  <2>1. Crossable(BookAt(s, ts))  BY DEF Crossings
  <2> QED  BY <2>1, BookFinite, MidIs DEF MidAt
<1> QED  BY <1>1, <1>2, <1>3, <1>4, <1>5

\* The stride of a walk is at least one tick (with_retrace_tail: the median move).
LEMMA StrideIs == ASSUME NEW s, Tidy(s), Priced(s) PROVE Stride(s) \in Nat \ {0}
<1> DEFINE full == Crossings(s) \ {Max(BookTimes(s))}
           move(ts) == Between(MidAt(s, ts), MidAt(s, Max({x \in full : x < ts})))
           moved == {ts \in full : (\E x \in full : x < ts) /\ move(ts) > 0}
           most(m) == Cardinality({ts \in moved : move(ts) <= m}) > Cardinality(moved) \div 2
           moves == {move(ts) : ts \in moved}
           often == {m \in moves : most(m)}
<1>1. Stride(s) = IF moved = {} THEN 1 ELSE Min(often)  BY DEF Stride
<1>2. full \subseteq Crossings(s) /\ IsFiniteSet(full) /\ full \subseteq Int
  <2>1. IsFiniteSet(Crossings(s)) /\ Crossings(s) \subseteq Nat  BY TimesAre
  <2>2. full \subseteq Crossings(s)  OBVIOUS
  <2> HIDE DEF full
  <2> QED  BY <2>1, <2>2, FS_Subset
<1>3. moved \subseteq full  OBVIOUS
<1> HIDE DEF full
<1>4. ASSUME NEW ts \in moved PROVE move(ts) \in Nat \ {0}
  <2> DEFINE past == {x \in full : x < ts}
  <2>1. past # {} /\ past \subseteq full /\ past \subseteq Int  BY <1>2
  <2>2. IsFiniteSet(past)  BY <1>2, <2>1, FS_Subset
  <2> HIDE DEF past
  <2>3. Max(past) \in full  BY <2>1, <2>2, MaxIs
  <2>4. MidAt(s, ts) \in Int /\ MidAt(s, Max(past)) \in Int  BY <1>2, <1>3, <2>3, TimesAre
  <2>5. Between(MidAt(s, ts), MidAt(s, Max(past))) \in Nat  BY <2>4 DEF Between
  <2>6. move(ts) = Between(MidAt(s, ts), MidAt(s, Max(past)))  BY DEF past
  <2>7. move(ts) > 0  OBVIOUS
  <2> HIDE DEF move
  <2> QED  BY <2>5, <2>6, <2>7
<1>5. IsFiniteSet(moved)  BY <1>2, <1>3, FS_Subset
<1>6. IsFiniteSet(moves)
  <2> DEFINE f == [ts \in moved |-> move(ts)]
  <2>1. f = [ts \in moved |-> f[ts]] /\ moves = {f[ts] : ts \in moved}  OBVIOUS
  <2> HIDE DEF f, moved, moves
  <2> QED  BY <1>5, <2>1, ImageFinite
<1>7. moves \subseteq Nat \ {0}  BY <1>4
<1>8. often \subseteq moves  OBVIOUS
<1>9. ASSUME moved # {} PROVE often # {}
  <2>1. moves # {} /\ moves \subseteq Int
    <3>1. PICK ts \in moved : TRUE  BY <1>9
    <3>2. move(ts) \in moves  BY <3>1
    <3> HIDE DEF moves
    <3> QED  BY <1>7, <3>2
  <2>2. PICK top \in moves : \A y \in moves : y <= top
    <3> HIDE DEF moves
    <3> QED  BY <1>6, <2>1, Extremes
  <2>3. {ts \in moved : move(ts) <= top} = moved  BY <2>2
  <2>4. Cardinality(moved) \in Nat \ {0}
    <3> HIDE DEF moved
    <3> QED  BY <1>5, <1>9, FS_CardinalityType, FS_EmptySet
  <2>5. Cardinality(moved) > Cardinality(moved) \div 2
    <3> HIDE DEF moved
    <3> QED  BY <2>4
  <2>6. most(top)  BY <2>3, <2>5
  <2> QED  BY <2>2, <2>6
<1>10. CASE moved = {}  BY <1>1, <1>10
<1>11. CASE moved # {}
  <2>1. often # {} /\ often \subseteq Int
    <3> HIDE DEF often, moves
    <3> QED  BY <1>7, <1>8, <1>9, <1>11
  <2>2. IsFiniteSet(often)
    <3> HIDE DEF often, moves
    <3> QED  BY <1>6, <1>8, FS_Subset
  <2>3. Min(often) \in often
    <3> HIDE DEF often
    <3> QED  BY <2>1, <2>2, MinIs
  <2>4. Min(often) \in Nat \ {0}
    <3> HIDE DEF often, moves
    <3> QED  BY <1>7, <1>8, <2>3
  <2> HIDE DEF moved, often
  <2> QED  BY <1>1, <1>11, <2>4
<1> QED  BY <1>10, <1>11

\* The walk back: a book and a trade per step, after all else, the last trade at
\* the first price.
WalkBack(s, W, m, path) ==
    /\ m \in 1..MaxSteps /\ path \in [1..m -> Int] /\ Len(W) = 3 * m /\ DOMAIN W = 1..(3 * m)
    /\ path[m] = Origin(s)
    /\ \A i \in 1..m : path[i] \in (End(s)..Origin(s)) \cup (Origin(s)..End(s))
    /\ \A k \in 1..(3 * m) : LET i == (k + 2) \div 3 IN
         /\ i \in 1..m
         /\ k = 3 * i => /\ W[k].kind = "trades" /\ W[k].ts = Last(s).ts + Second * (2 * i)
                         /\ W[k].row.price = path[i]
         /\ k # 3 * i => W[k].kind = "book" /\ W[k].ts = Last(s).ts + Second * (2 * i - 1)

\* A walk leads from one tick to another (with_retrace_tail: first_mid, last_mid).
LEMMA OriginIs ==
    ASSUME NEW s, Tidy(s), Priced(s), Retraceable(s)
    PROVE  Origin(s) \in Int /\ End(s) \in Int /\ Origin(s) # End(s)
<1>1. /\ IsFiniteSet(Crossings(s)) /\ Crossings(s) \subseteq Int /\ Crossings(s) # {}
  BY TimesAre DEF Retraceable
<1>2. Min(Crossings(s)) \in Crossings(s) /\ Max(Crossings(s)) \in Crossings(s)
  BY <1>1, MinIs, MaxIs
<1> QED  BY <1>2, TimesAre DEF Origin, End, Retraceable

\* A function on 1..n is a sequence of its values.
LEMMA Listed ==
    ASSUME NEW n \in Nat, NEW f, f = [k \in 1..n |-> f[k]]
    PROVE  f \in Seq({f[k] : k \in 1..n}) /\ Len(f) = n
<1> DEFINE T == {f[k] : k \in 1..n}
<1>1. \A k \in 1..n : f[k] \in T  OBVIOUS
<1> HIDE DEF T
<1>2. f \in [1..n -> T]  BY <1>1
<1>3. f \in Seq(T)  BY <1>2
<1>4. DOMAIN f = 1..n  BY <1>2
<1>5. Len(f) = n  BY <1>3, <1>4
<1> QED  BY <1>3, <1>5 DEF T

\* The rows of the way back, step by step: it is short, stays between its ends and arrives
\* (with_retrace_tail).
LEMMA WayBackIs ==
    ASSUME NEW s, Tidy(s), Priced(s), Retraceable(s)
    PROVE  \E m, path : WalkBack(s, WayBack(s), m, path) /\ \E T : WayBack(s) \in Seq(T)
<1> DEFINE span == Between(Origin(s), End(s))
           wide == span \div MaxSteps + 1
           step == Max({Stride(s), wide})
           path == Walk(End(s), Origin(s), step)
           at(i, half) == Last(s).ts + Second * (2 * i - half)
           level(i, side, p) == [kind |-> "book", ts |-> at(i, 1), row |-> [side |-> side, price |-> p]]
           row(i, which) == CASE which = 1 -> level(i, 0, path[i] - 1)
                              [] which = 2 -> level(i, 1, path[i] + 1)
                              [] which = 0 -> [kind |-> "trades", ts |-> at(i, 0), row |-> [price |-> path[i]]]
<1>1. Origin(s) \in Int /\ End(s) \in Int /\ Origin(s) # End(s)  BY OriginIs
<1>2. MaxSteps \in Nat \ {0} /\ Second \in Nat \ {0}  BY ArchiveAssumption DEF ArchiveAssumption
<1>3. span \in Nat \ {0}  BY <1>1 DEF Between
<1> HIDE DEF span
<1>4. wide \in Nat \ {0}
  <2>1. span \div MaxSteps \in Nat  BY <1>2, <1>3, Divided
  <2> QED  BY <2>1
<1>5. step \in Nat \ {0} /\ step >= wide
  <2>1. Stride(s) \in Nat \ {0}  BY StrideIs
  <2>2. IsFiniteSet({Stride(s), wide})
    <3>1. IsFiniteSet({Stride(s)})  BY FS_Singleton
    <3>2. IsFiniteSet({Stride(s)} \cup {wide})  BY <3>1, FS_AddElement
    <3>3. {Stride(s)} \cup {wide} = {Stride(s), wide}  OBVIOUS
    <3> QED  BY <3>2, <3>3
  <2> HIDE DEF wide
  <2>3. {Stride(s), wide} \subseteq Int /\ {Stride(s), wide} # {}  BY <1>4, <2>1
  <2>4. Max({Stride(s), wide}) \in {Stride(s), wide} /\ \A y \in {Stride(s), wide} : y <= Max({Stride(s), wide})
    BY <2>2, <2>3, MaxIs
  <2> HIDE DEF step
  <2>5. step \in {Stride(s), wide} /\ wide <= step  BY <2>4 DEF step
  <2> QED  BY <1>4, <2>1, <2>5
<1> HIDE DEF step
<1>6. PICK m \in Nat \ {0} :
        /\ path \in Seq(Int) /\ Len(path) = m /\ path[m] = Origin(s)
        /\ \A i \in 1..m : path[i] \in (End(s)..Origin(s)) \cup (Origin(s)..End(s))
        /\ (m - 1) * step < Between(Origin(s), End(s))
  BY <1>1, <1>5, WalkIs
<1>7. m \in 1..MaxSteps
  <2>1. m <= MaxSteps  BY <1>3, <1>5, <1>6, FewSteps DEF span, wide
  <2> QED  BY <1>2, <2>1
<1>8. WayBack(s) = [k \in 1..(3 * Len(path)) |-> row((k + 2) \div 3, k % 3)]
  BY DEF WayBack, path, step, wide, span
<1> HIDE DEF path
<1>9. path \in [1..m -> Int]  BY <1>6
<1> DEFINE W == WayBack(s)
<1>10. W = [k \in 1..(3 * m) |-> row((k + 2) \div 3, k % 3)]  BY <1>6, <1>8
<1>11. DOMAIN W = 1..(3 * m) /\ \A k \in 1..(3 * m) : W[k] = row((k + 2) \div 3, k % 3)  BY <1>10
<1>12. W \in Seq({W[k] : k \in 1..(3 * m)}) /\ Len(W) = 3 * m
  <2>1. 3 * m \in Nat  OBVIOUS
  <2>2. DOMAIN W = 1..(3 * m) /\ W = [k \in 1..(3 * m) |-> W[k]]
    <3> HIDE DEF row
    <3> QED  BY <1>10, <1>11
  <2> HIDE DEF W
  <2> QED  BY <2>1, <2>2, Listed
<1>13. ASSUME NEW k \in 1..(3 * m)
       PROVE  LET i == (k + 2) \div 3 IN
              /\ i \in 1..m
              /\ k = 3 * i => /\ W[k].kind = "trades" /\ W[k].ts = Last(s).ts + Second * (2 * i)
                              /\ W[k].row.price = path[i]
              /\ k # 3 * i => W[k].kind = "book" /\ W[k].ts = Last(s).ts + Second * (2 * i - 1)
  <2> DEFINE i == (k + 2) \div 3
  <2>1. /\ i \in 1..m /\ k % 3 \in {0, 1, 2}
        /\ k % 3 = 0 => k = 3 * i
        /\ k % 3 # 0 => k # 3 * i
    BY <1>6
  <2>2. W[k] = row(i, k % 3)  BY <1>11
  <2> HIDE DEF i, W
  <2>3. CASE k % 3 = 0
    <3>1. row(i, 0) = [kind |-> "trades", ts |-> at(i, 0), row |-> [price |-> path[i]]]  OBVIOUS
    <3>2. W[k].kind = "trades" /\ W[k].ts = at(i, 0) /\ W[k].row.price = path[i]  BY <2>2, <2>3, <3>1
    <3>3. 2 * i - 0 = 2 * i  BY <2>1
    <3> QED  BY <2>1, <2>3, <3>2, <3>3 DEF i
  <2>4. CASE k % 3 # 0
    <3>1. row(i, 1).kind = "book" /\ row(i, 1).ts = at(i, 1)  OBVIOUS
    <3>2. row(i, 2).kind = "book" /\ row(i, 2).ts = at(i, 1)  OBVIOUS
    <3>3. W[k].kind = "book" /\ W[k].ts = at(i, 1)  BY <2>1, <2>2, <2>4, <3>1, <3>2
    <3> QED  BY <2>1, <2>4, <3>3 DEF i
  <2> QED  BY <2>3, <2>4
<1>14. WalkBack(s, W, m, path)
  <2> HIDE DEF W
  <2> QED  BY <1>6, <1>7, <1>9, <1>11, <1>12, <1>13 DEF WalkBack
<1> QED  BY <1>12, <1>14

\* Seconds are in the order of their numbers.
LEMMA Scaled ==
    ASSUME NEW x \in Nat, NEW y \in Nat, x < y
    PROVE  Second * x \in Nat /\ Second * y \in Nat /\ Second * x < Second * y
<1>1. Second \in Nat \ {0}  BY ArchiveAssumption DEF ArchiveAssumption
<1> QED  BY <1>1

\* The walk comes after all else, in order.
LEMMA WayTidy ==
    ASSUME NEW s, Tidy(s), Len(s) > 0, NEW W, NEW m, NEW path, WalkBack(s, W, m, path)
    PROVE  Tidy(W) /\ \A k \in DOMAIN W : Last(s).ts < W[k].ts
<1> DEFINE L == Last(s).ts
           step(k) == (k + 2) \div 3
<1>1. L \in Nat \ {0}  BY DEF Last, Tidy
<1>2. m \in Nat \ {0} /\ Len(W) = 3 * m /\ DOMAIN W = 1..(3 * m)
  BY ArchiveAssumption DEF WalkBack, ArchiveAssumption
<1>3. ASSUME NEW k \in 1..(3 * m)
      PROVE  /\ step(k) \in Nat \ {0}
             /\ k = 3 * step(k) => W[k].kind = "trades" /\ W[k].ts = L + Second * (2 * step(k))
             /\ k # 3 * step(k) => W[k].kind = "book" /\ W[k].ts = L + Second * (2 * step(k) - 1)
  <2>1. step(k) \in 1..m  BY DEF WalkBack
  <2>2. step(k) \in Nat \ {0}  BY <1>2, <2>1
  <2> QED  BY <2>2 DEF WalkBack
<1> HIDE DEF L
<1>4. ASSUME NEW k \in 1..(3 * m)
      PROVE  /\ W[k].kind \in {"book", "trades"} /\ W[k].ts \in Nat /\ L < W[k].ts
             /\ L + Second * (2 * step(k) - 1) <= W[k].ts /\ W[k].ts <= L + Second * (2 * step(k))
  <2> DEFINE i == step(k)
  <2>1. i \in Nat \ {0}  BY <1>3
  <2> HIDE DEF i
  <2>2. 2 * i - 1 \in Nat /\ 2 * i \in Nat /\ 0 < 2 * i - 1 /\ 2 * i - 1 < 2 * i /\ 0 \in Nat  BY <2>1
  <2>3. /\ Second * (2 * i - 1) \in Nat /\ Second * (2 * i) \in Nat
        /\ Second * 0 < Second * (2 * i - 1) /\ Second * (2 * i - 1) < Second * (2 * i)
    BY <2>2, Scaled
  <2>4. Second * 0 = 0  BY ArchiveAssumption DEF ArchiveAssumption
  <2>5. k = 3 * i => W[k].kind = "trades" /\ W[k].ts = L + Second * (2 * i)  BY <1>3 DEF i
  <2>6. k # 3 * i => W[k].kind = "book" /\ W[k].ts = L + Second * (2 * i - 1)  BY <1>3 DEF i
  <2>7. /\ W[k].kind \in {"book", "trades"} /\ W[k].ts \in Nat /\ L < W[k].ts
        /\ L + Second * (2 * i - 1) <= W[k].ts /\ W[k].ts <= L + Second * (2 * i)
    BY <1>1, <2>3, <2>4, <2>5, <2>6
  <2> QED  BY <2>7 DEF i
<1>5. ASSUME NEW k \in 1..(3 * m), NEW l \in 1..(3 * m), k < l PROVE Prior(W[k], W[l]) \/ OneBook(W[k], W[l])
  <2> DEFINE i == step(k)  j == step(l)
  <2>1. i <= j /\ i \in Nat \ {0} /\ j \in Nat \ {0} /\ (i = j => k # 3 * i)  BY <1>2, <1>5
  <2>2. /\ W[k].ts \in Nat /\ W[l].ts \in Nat
        /\ W[k].ts <= L + Second * (2 * i) /\ L + Second * (2 * j - 1) <= W[l].ts
    BY <1>4
  <2>3. /\ k = 3 * i => W[k].kind = "trades" /\ W[k].ts = L + Second * (2 * i)
        /\ k # 3 * i => W[k].kind = "book" /\ W[k].ts = L + Second * (2 * i - 1)
        /\ l = 3 * j => W[l].kind = "trades" /\ W[l].ts = L + Second * (2 * j)
        /\ l # 3 * j => W[l].kind = "book" /\ W[l].ts = L + Second * (2 * j - 1)
    BY <1>3
  <2> HIDE DEF i, j, step
  <2>4. CASE i < j
    <3>1. 2 * i \in Nat /\ 2 * j - 1 \in Nat /\ 2 * i < 2 * j - 1  BY <2>1, <2>4
    <3>2. Second * (2 * i) \in Nat /\ Second * (2 * j - 1) \in Nat /\ Second * (2 * i) < Second * (2 * j - 1)
      BY <3>1, Scaled
    <3> QED  BY <1>1, <2>2, <3>2 DEF Prior
  <2>5. CASE i = j
    <3>1. W[k].kind = "book" /\ W[k].ts = L + Second * (2 * i - 1)  BY <2>1, <2>3, <2>5
    <3>2. CASE l = 3 * j
      <4>1. 2 * i - 1 \in Nat /\ 2 * i \in Nat /\ 2 * i - 1 < 2 * i  BY <2>1
      <4>2. Second * (2 * i - 1) \in Nat /\ Second * (2 * i) \in Nat /\ Second * (2 * i - 1) < Second * (2 * i)
        BY <4>1, Scaled
      <4> QED  BY <1>1, <2>3, <2>5, <3>1, <3>2, <4>2 DEF Prior
    <3>3. CASE l # 3 * j  BY <2>3, <2>5, <3>1, <3>3 DEF OneBook
    <3> QED  BY <3>2, <3>3
  <2> QED  BY <2>1, <2>4, <2>5
<1>6. Len(W) \in Nat  BY <1>2
<1>7. \A k \in DOMAIN W : W[k].kind \in {"book", "trades"} /\ W[k].ts \in Nat \ {0} /\ L < W[k].ts
  BY <1>1, <1>2, <1>4
<1>8. \A k, l \in DOMAIN W : k < l => Prior(W[k], W[l]) \/ OneBook(W[k], W[l])  BY <1>2, <1>5
<1> QED  BY <1>2, <1>6, <1>7, <1>8 DEF Tidy, L

\* What follows everything leaves it as it was.
LEMMA Followed ==
    ASSUME NEW S, NEW s \in Seq(S), Tidy(s), Len(s) > 0, NEW T, NEW W \in Seq(T), Tidy(W),
           \A k \in DOMAIN W : Last(s).ts < W[k].ts
    PROVE  LET E == s \o W IN
           /\ Tidy(E)
           /\ \A j \in DOMAIN s : j \in DOMAIN E /\ E[j] = s[j] /\ E[j].ts <= Last(s).ts
           /\ \A k \in DOMAIN W : Len(s) + k \in DOMAIN E /\ E[Len(s) + k] = W[k]
           /\ \A j \in DOMAIN E : E[j].ts <= Last(s).ts => j \in DOMAIN s
           /\ \A j \in DOMAIN E : j \in DOMAIN s \/ j - Len(s) \in DOMAIN W
           /\ \A j \in DOMAIN s : Shows(E, j) = Shows(s, j)
<1> DEFINE E == s \o W
           n == Len(s)
<1>1. /\ n \in Nat /\ DOMAIN s = 1..n /\ Len(W) \in Nat /\ DOMAIN W = 1..Len(W)
      /\ Len(E) = n + Len(W) /\ DOMAIN E = 1..(n + Len(W))
      /\ \A j \in 1..n : E[j] = s[j]
      /\ \A k \in 1..Len(W) : E[n + k] = W[k]
  <2>1. E \in Seq(S \cup T)  OBVIOUS
  <2> QED  BY <2>1
<1> HIDE DEF E
<1>2. n \in DOMAIN s /\ Last(s) = s[n]  BY <1>1 DEF Last
<1> HIDE DEF n
<1>3. \A j \in DOMAIN E : (j \in DOMAIN s /\ E[j] = s[j]) \/ (j - n \in DOMAIN W /\ E[j] = W[j - n])
  BY <1>1
<1>4. \A j \in DOMAIN s : s[j].ts <= Last(s).ts /\ s[j].ts \in Nat \ {0} /\ s[j].kind \in {"book", "trades"}
  <2> SUFFICES ASSUME NEW j \in DOMAIN s
               PROVE  s[j].ts <= Last(s).ts /\ s[j].ts \in Nat \ {0} /\ s[j].kind \in {"book", "trades"}
    OBVIOUS
  <2>1. s[j].ts \in Nat \ {0} /\ s[j].kind \in {"book", "trades"} /\ s[n].ts \in Nat  BY <1>2 DEF Tidy
  <2>2. CASE j = n  BY <1>2, <2>1, <2>2
  <2>3. CASE j < n
    <3>1. Prior(s[j], s[n]) \/ OneBook(s[j], s[n])  BY <1>2, <2>3 DEF Tidy
    <3> QED  BY <1>2, <2>1, <3>1 DEF Prior, OneBook
  <2> QED  BY <1>1, <2>2, <2>3
<1>5. \A k \in DOMAIN W : W[k].ts \in Nat \ {0} /\ W[k].kind \in {"book", "trades"} /\ ~(W[k].ts <= Last(s).ts)
  BY <1>2, <1>4 DEF Tidy
<1>6. \A j \in DOMAIN E : E[j].kind \in {"book", "trades"} /\ E[j].ts \in Nat \ {0}
  BY <1>3, <1>4, <1>5
<1>7. ASSUME NEW i \in DOMAIN E, NEW j \in DOMAIN E, i < j
      PROVE  Prior(E[i], E[j]) \/ OneBook(E[i], E[j])
  <2>1. CASE i \in DOMAIN s /\ j \in DOMAIN s  BY <1>1, <1>7, <2>1 DEF Tidy
  <2>2. CASE i \in DOMAIN s /\ j \notin DOMAIN s
    <3>1. E[i] = s[i] /\ j - n \in DOMAIN W /\ E[j] = W[j - n]  BY <1>1, <1>3, <2>2
    <3>2. E[i].ts < E[j].ts  BY <1>2, <1>4, <1>5, <2>2, <3>1
    <3> QED  BY <3>2 DEF Prior
  <2>3. CASE i \notin DOMAIN s
    <3>1. j \notin DOMAIN s  BY <1>1, <1>7, <2>3
    <3>2. i - n \in DOMAIN W /\ E[i] = W[i - n] /\ j - n \in DOMAIN W /\ E[j] = W[j - n] /\ i - n < j - n
      BY <1>1, <1>3, <1>7, <2>3, <3>1
    <3> QED  BY <3>2 DEF Tidy
  <2> QED  BY <2>1, <2>2, <2>3
<1>8. Tidy(E)
  <2>1. Len(E) \in Nat /\ DOMAIN E = 1..Len(E)  BY <1>1
  <2> QED  BY <1>6, <1>7, <2>1 DEF Tidy
<1>9. \A j \in DOMAIN s : j \in DOMAIN E /\ E[j] = s[j] /\ E[j].ts <= Last(s).ts  BY <1>1, <1>4
<1>10. \A k \in DOMAIN W : n + k \in DOMAIN E /\ E[n + k] = W[k]  BY <1>1
<1>11. \A j \in DOMAIN E : E[j].ts <= Last(s).ts => j \in DOMAIN s  BY <1>3, <1>5
<1>12. ASSUME NEW j \in DOMAIN s PROVE Shows(E, j) = Shows(s, j)
  <2>1. E[j] = s[j]  BY <1>9
  <2>2. \A i \in DOMAIN E : E[i].ts = E[j].ts => i \in DOMAIN s /\ E[i] = s[i]  BY <1>9, <1>11
  <2>3. \A i \in DOMAIN s : i \in DOMAIN E /\ E[i] = s[i]  BY <1>9
  <2>4. BookAt(E, E[j].ts) = BookAt(s, s[j].ts)
    <3>1. ASSUME NEW side
          PROVE {E[i].row.price : i \in {k \in DOMAIN E : E[k].kind = "book" /\ E[k].ts = E[j].ts
                                                            /\ E[k].row.side = side}}
              = {s[i].row.price : i \in {k \in DOMAIN s : s[k].kind = "book" /\ s[k].ts = s[j].ts
                                                            /\ s[k].row.side = side}}
      BY <2>1, <2>2, <2>3
    <3> QED  BY <2>1, <3>1 DEF BookAt
  <2> QED  BY <2>1, <2>4 DEF Shows
<1>13. \A j \in DOMAIN E : j \in DOMAIN s \/ j - n \in DOMAIN W  BY <1>3
<1> QED  BY <1>8, <1>9, <1>10, <1>11, <1>12, <1>13 DEF E, n

\* Loaded rows have prices; where there is a way back there are rows.
LEMMA SortedPriced ==
    ASSUME RecorderInv PROVE Priced(Sorted) /\ (Retraceable(Sorted) => Len(Sorted) > 0)
<1>1. Typed /\ Filed  BY DEF RecorderInv
<1>2. \A i \in DOMAIN Sorted : ReadRow(Sorted[i], Sorted[i].kind)  BY <1>1, SortedFacts
<1>3. Priced(Sorted)  BY <1>2 DEF Priced, ReadRow
<1>4. ASSUME Retraceable(Sorted) PROVE Len(Sorted) > 0
  <2>1. PICK ts : ts \in BookTimes(Sorted)  BY <1>4 DEF Retraceable, Crossings
  <2>2. PICK i : i \in DOMAIN Sorted  BY <2>1 DEF BookTimes
  <2>3. DOMAIN Sorted = 1..Len(Sorted) /\ Len(Sorted) \in Nat  BY SortedTidy DEF Tidy
  <2> QED  BY <2>2, <2>3
<1> QED  BY <1>3, <1>4

\* The walk added to a load, and where its rows are.
LEMMA WalkAdded ==
    ASSUME RecorderInv, Retraceable(Sorted)
    PROVE  LET E == Sorted \o WayBack(Sorted)  L == Last(Sorted).ts IN
           /\ Tidy(E) /\ L \in Nat \ {0}
           /\ \A j \in DOMAIN Sorted : /\ j \in DOMAIN E /\ E[j] = Sorted[j] /\ E[j].ts <= L
                                       /\ Shows(E, j) = Shows(Sorted, j)
           /\ \A j \in DOMAIN E : E[j].ts <= L => j \in DOMAIN Sorted
           /\ \A k \in DOMAIN WayBack(Sorted) : /\ Len(Sorted) + k \in DOMAIN E
                                                /\ E[Len(Sorted) + k] = WayBack(Sorted)[k]
                                                /\ L < WayBack(Sorted)[k].ts
           /\ \A j \in DOMAIN E : j \in DOMAIN Sorted \/ j - Len(Sorted) \in DOMAIN WayBack(Sorted)
<1> DEFINE s == Sorted
           W == WayBack(Sorted)
<1>1. Tidy(s) /\ s \in Seq(Feed) /\ Priced(s) /\ Len(s) > 0  BY SortedTidy, SortedPriced
<1>2. PICK m, path : WalkBack(s, W, m, path)  BY <1>1, WayBackIs
<1>3. PICK T : W \in Seq(T)  BY <1>1, WayBackIs
<1> HIDE DEF s, W
<1>4. Tidy(W) /\ \A k \in DOMAIN W : Last(s).ts < W[k].ts  BY <1>1, <1>2, WayTidy
<1>5. Last(s).ts \in Nat \ {0}  BY <1>1 DEF Last, Tidy
<1> DEFINE E == s \o W
<1>6. /\ Tidy(E)
      /\ \A j \in DOMAIN s : j \in DOMAIN E /\ E[j] = s[j] /\ E[j].ts <= Last(s).ts
      /\ \A k \in DOMAIN W : Len(s) + k \in DOMAIN E /\ E[Len(s) + k] = W[k]
      /\ \A j \in DOMAIN E : E[j].ts <= Last(s).ts => j \in DOMAIN s
      /\ \A j \in DOMAIN E : j \in DOMAIN s \/ j - Len(s) \in DOMAIN W
      /\ \A j \in DOMAIN s : Shows(E, j) = Shows(s, j)
  BY <1>1, <1>3, <1>4, Followed
<1> HIDE DEF E
<1> QED  BY <1>4, <1>5, <1>6 DEF E, s, W

\* What is played is what was loaded, and maybe the walk.
LEMMA LoadedEvs ==
    ASSUME RecorderInv, Loaded, stage # "none"
    PROVE  /\ Tidy(evs) /\ boundary \in Nat
           /\ \A j \in DOMAIN Sorted : /\ j \in DOMAIN evs /\ evs[j] = Sorted[j]
                                       /\ Shows(evs, j) = Shows(Sorted, j)
                                       /\ boundary = 0 \/ evs[j].ts <= boundary
           /\ \A j \in DOMAIN evs : boundary = 0 \/ evs[j].ts <= boundary => j \in DOMAIN Sorted
<1>1. CASE evs = Sorted /\ boundary = 0  BY <1>1, SortedTidy
<1>2. CASE evs = Sorted \o WayBack(Sorted) /\ boundary = Last(Sorted).ts /\ Retraceable(Sorted)
  BY <1>2, WalkAdded
<1> QED  BY <1>1, <1>2 DEF Loaded

PlayInv == /\ stage \in {"none", "refused"} => Blank
           /\ stage # "none" => Played
           /\ stage \in {"none", "play", "done", "refused"}
ArchiveInv == RecorderInv /\ Loaded /\ PlayInv

\* A replay that has said nothing.
LEMMA BlankPlays ==
    ASSUME Tidy(evs)', Blank', stage' # "done" PROVE Played'
<1>1. /\ cursor' = 1 /\ lastTs' = 0 /\ book'.ts = 0 /\ out' = <<>>
  BY DEF Blank
<1>2. out' \in Seq({}) /\ Len(out') = 0 /\ DOMAIN out' = {}  BY <1>1
<1>3. Len(evs') \in Nat /\ DOMAIN evs' = 1..Len(evs') /\ \A i \in DOMAIN evs' : evs'[i].ts \in Nat \ {0}
  BY DEF Tidy
<1>4. Placed'  BY <1>1, <1>2, <1>3 DEF Placed
<1>5. Said'  BY <1>1, <1>2 DEF Said, Spoken
<1>6. Ahead'
  <2>1. 1 <= Len(evs') => evs'[1].ts \in Nat \ {0}  BY <1>3
  <2>2. 1..(1 - 1) = {}  OBVIOUS
  <2> QED  BY <1>1, <1>2, <2>1, <2>2 DEF Ahead, Spoken
<1>7. InTime'
  <2>1. 1..(Len(out') - 1) = {}  BY <1>2
  <2> QED  BY <2>1 DEF InTime
<1>8. Paced'  BY <1>1, <1>2, <1>7 DEF Paced
<1>9. MarkedSo'  BY <1>2 DEF MarkedSo
<1> QED  BY <1>4, <1>5, <1>6, <1>8, <1>9 DEF Played

\* Every step of a replay keeps its invariant, and the recorder does not touch it.
LEMMA PlayKeeps == ArchiveInv /\ [RecorderNext \/ ReplayNext]_archiveVars => PlayInv'
<1> SUFFICES ASSUME ArchiveInv, [RecorderNext \/ ReplayNext]_archiveVars PROVE PlayInv'
  OBVIOUS
<1>1. RecorderInv /\ Loaded /\ PlayInv  BY DEF ArchiveInv
<1>2. CASE RecorderNext
  <2>1. stage = "none" /\ stage' = stage /\ UNCHANGED <<cursor, lastTs, book, out>>
    BY <1>2 DEF RecorderNext, Instant, StartRecorder, StopRecorder, RecordBook, RecordTrade, RecordMark,
                StartFlush, WriteShard, ShardFails, Kill, Buffer, replayVars
  <2> QED  BY <1>1, <2>1 DEF PlayInv, Blank
<1>3. ASSUME NEW g \in BOOLEAN, NEW retrace \in BOOLEAN, Load(g, retrace) PROVE PlayInv'
  <2>1. /\ stage = "none" /\ stage' \in {"play", "refused"}
        /\ UNCHANGED <<cursor, lastTs, book, out>>
    BY <1>3 DEF Load
  <2>2. Blank'  BY <1>1, <2>1 DEF PlayInv, Blank
  <2>3. \/ evs' = Sorted
        \/ evs' = Sorted \o WayBack(Sorted) /\ Retraceable(Sorted)
    BY <1>3 DEF Load
  <2>4. Tidy(evs')  BY <1>1, <2>3, SortedTidy, WalkAdded
  <2>5. Tidy(evs)'  BY <2>4 DEF Tidy
  <2>6. Played'  BY <2>1, <2>2, <2>5, BlankPlays
  <2> QED  BY <2>1, <2>2, <2>6 DEF PlayInv
<1>4. ASSUME stage = "play", stage' = "play", Played' PROVE PlayInv'
  BY <1>4 DEF PlayInv
<1>5. CASE Heartbeat
  <2>1. stage = "play" /\ stage' = "play"  BY <1>5 DEF Heartbeat, Emitted
  <2>2. Tidy(evs) /\ Played  BY <1>1, <2>1, LoadedEvs DEF PlayInv
  <2> QED  BY <1>4, <1>5, <2>1, <2>2, HeartbeatPlays
<1>6. CASE BookUpdate
  <2>1. stage = "play" /\ stage' = "play"  BY <1>6 DEF BookUpdate, Emitted
  <2>2. Tidy(evs) /\ Played  BY <1>1, <2>1, LoadedEvs DEF PlayInv
  <2> QED  BY <1>4, <1>6, <2>1, <2>2, BookPlays
<1>7. CASE Deal
  <2>1. stage = "play" /\ stage' = "play"  BY <1>7 DEF Deal, Emitted
  <2>2. Tidy(evs) /\ Played  BY <1>1, <2>1, LoadedEvs DEF PlayInv
  <2> QED  BY <1>4, <1>7, <2>1, <2>2, DealPlays
<1>8. ASSUME UNCHANGED <<evs, cursor, book, lastTs, out, files>>, Played,
             stage' = "done" => cursor = Len(evs) + 1
      PROVE  Played'
  <2>1. Placed' /\ Said' /\ Ahead' /\ Paced'
    BY <1>8 DEF Played, Placed, Said, Ahead, Paced, InTime, Spoken
  <2>2. MarkedSo'
    BY <1>8 DEF Played, MarkedSo, Advanced, Rows, Shard
  <2> QED  BY <2>1, <2>2 DEF Played
<1>9. CASE EndOfData
  <2>1. /\ stage = "play" /\ stage' = "done" /\ cursor > Len(evs)
        /\ UNCHANGED <<evs, cursor, book, lastTs, out, files>>
    BY <1>9 DEF EndOfData, recorderVars
  <2>2. Tidy(evs) /\ Played  BY <1>1, <2>1, LoadedEvs DEF PlayInv
  <2>3. cursor = Len(evs) + 1  BY <2>1, <2>2 DEF Tidy, Played, Placed
  <2> QED  BY <1>8, <2>1, <2>2, <2>3 DEF PlayInv
<1>10. CASE UNCHANGED archiveVars
  <2>1. UNCHANGED <<stage, evs, cursor, book, lastTs, out, files>>
    BY <1>10 DEF archiveVars, replayVars, recorderVars
  <2>2. Blank' = Blank  BY <2>1 DEF Blank
  <2>3. Played => (stage' = "done" => cursor = Len(evs) + 1)  BY <2>1 DEF Played, Placed
  <2> QED  BY <1>1, <1>8, <2>1, <2>2, <2>3 DEF PlayInv
<1> QED  BY <1>2, <1>3, <1>5, <1>6, <1>7, <1>9, <1>10 DEF ReplayNext

(* What a replay has said when it is done.                                 *)

\* A read row that is no level says its delivery's number.
LEMMA ReadVal ==
    ASSUME Typed, Filed, NEW k \in Kind \ {"book"}, NEW e \in Rows(k)
    PROVE  e.row.price = e.row.item.val
<1>1. PICK n \in DOMAIN files : \E i \in DOMAIN files[n].rows :
        /\ n \in Shelves /\ Shelf(n) = files[n].rows /\ n = <<k, n[2]>>
        /\ e = [kind |-> k, ts |-> files[n].rows[i].ts, row |-> files[n].rows[i], src |-> <<n[2], i>>]
  BY RowRead
<1>2. n[1] = k  BY <1>1
<1>3. Faithful(k, files[n].rows)  BY <1>1, <1>2 DEF Filed
<1>4. \A i \in DOMAIN files[n].rows : files[n].rows[i].price = files[n].rows[i].item.val
  BY <1>3 DEF Faithful
<1> QED  BY <1>1, <1>4

\* A loaded row is of a delivery that was kept.
LEMMA ReadShown ==
    ASSUME Typed, Filed, NEW k \in Kind, NEW e \in Rows(k) PROVE e.row.item \in Shown /\ e.row.item.kind = k
<1>1. ReadRow(e, k)  BY RowFacts
<1>2. k # "book" => e.row.item.val > 0
  <2> SUFFICES ASSUME k # "book" PROVE e.row.item.val > 0
    OBVIOUS
  <2>1. e.row.price = e.row.item.val  BY ReadVal
  <2> QED  BY <1>1, <2>1 DEF ReadRow
<1> QED  BY <1>1, <1>2 DEF ReadRow, Shown

\* At the end every event is beside its mark (MarkSeries::advance).
LEMMA MarkedHolds == ASSUME ArchiveInv, stage = "done" PROVE Marked
<1>1. Typed /\ Filed /\ owed = Shown /\ MarkedSo
  BY DEF ArchiveInv, RecorderInv, Loaded, PlayInv, Played
<1>2. "mark" \in Kind  BY KindsAre
<1>3. ASSUME NEW t
      PROVE  {r.ts : r \in {m \in Rows("mark") : m.ts <= t}}
             = {x.ts : x \in {y \in owed : y.kind = "mark" /\ y.ts <= t}}
  <2>1. ASSUME NEW r \in Rows("mark"), r.ts <= t
        PROVE  \E x \in owed : x.kind = "mark" /\ x.ts <= t /\ x.ts = r.ts
    <3>1. r.row.item \in owed /\ r.row.item.kind = "mark"  BY <1>1, <1>2, ReadShown
    <3>2. r.row.item.ts = r.ts  BY <1>1, <1>2, RowFacts DEF ReadRow
    <3> QED  BY <2>1, <3>1, <3>2
  <2>2. ASSUME NEW x \in owed, x.kind = "mark", x.ts <= t
        PROVE  \E r \in Rows("mark") : r.ts <= t /\ x.ts = r.ts
    <3>1. PICK r \in Rows("mark") : r.row.item = x  BY <1>1, <2>2, KeptIsRead DEF Shown
    <3>2. r.row.item.ts = r.ts  BY <1>1, <1>2, RowFacts DEF ReadRow
    <3> QED  BY <2>2, <3>1, <3>2
  <2> QED  BY <2>1, <2>2
<1>4. ASSUME NEW i \in DOMAIN out
      PROVE  out[i].mark = Max({0} \cup {x.ts : x \in {y \in owed : y.kind = "mark" /\ y.ts <= out[i].ts}})
  <2>1. out[i].mark = Max({0} \cup {r.ts : r \in {m \in Rows("mark") : m.ts <= out[i].ts}})
    BY <1>1 DEF MarkedSo, Advanced
  <2>2. PICK t : t = out[i].ts  OBVIOUS
  <2>3. {r.ts : r \in {m \in Rows("mark") : m.ts <= t}}
        = {x.ts : x \in {y \in owed : y.kind = "mark" /\ y.ts <= t}}  BY <1>3
  <2> QED  BY <2>1, <2>2, <2>3
<1> QED  BY <1>4 DEF Marked

\* Of the rows put in order, what the events that tell of them say.
LEMMA OfSorted ==
    ASSUME ArchiveInv, stage = "done"
    PROVE  /\ \A i \in Real : \E j \in DOMAIN Sorted :
                /\ out[i].kind = Sorted[j].kind /\ out[i].ts = Sorted[j].ts
                /\ out[i].val = Shows(Sorted, j)
           /\ \A j \in DOMAIN Sorted : \E i \in Real :
                out[i].kind = Sorted[j].kind /\ out[i].ts = Sorted[j].ts
<1>1. /\ RecorderInv /\ Loaded /\ Placed /\ Said
  BY DEF ArchiveInv, PlayInv, Played
<1>2. /\ Tidy(evs) /\ boundary \in Nat
      /\ \A j \in DOMAIN Sorted : /\ j \in DOMAIN evs /\ evs[j] = Sorted[j]
                                  /\ Shows(evs, j) = Shows(Sorted, j)
                                  /\ boundary = 0 \/ evs[j].ts <= boundary
      /\ \A j \in DOMAIN evs : boundary = 0 \/ evs[j].ts <= boundary => j \in DOMAIN Sorted
  BY <1>1, LoadedEvs
<1>3. 1..(cursor - 1) = DOMAIN evs  BY <1>1, <1>2 DEF Placed, Tidy
<1>4. ASSUME NEW i \in Real
      PROVE  \E j \in DOMAIN Sorted : /\ out[i].kind = Sorted[j].kind /\ out[i].ts = Sorted[j].ts
                                      /\ out[i].val = Shows(Sorted, j)
  <2>1. i \in Spoken  BY DEF Real, Spoken
  <2>2. PICK j \in DOMAIN evs : Says(out[i], evs, j)  BY <1>1, <1>3, <2>1 DEF Said
  <2>3. j \in DOMAIN Sorted  BY <1>2, <2>2 DEF Says, Real
  <2> QED  BY <1>2, <2>2, <2>3 DEF Says
<1>5. ASSUME NEW j \in DOMAIN Sorted
      PROVE  \E i \in Real : out[i].kind = Sorted[j].kind /\ out[i].ts = Sorted[j].ts
  <2>1. j \in DOMAIN evs /\ evs[j] = Sorted[j] /\ (boundary = 0 \/ evs[j].ts <= boundary)  BY <1>2
  <2>2. PICK i \in Spoken : out[i].kind = evs[j].kind /\ out[i].ts = evs[j].ts
    BY <1>1, <1>3, <2>1 DEF Said
  <2>3. i \in Real  BY <2>1, <2>2 DEF Real, Spoken
  <2> QED  BY <2>1, <2>2, <2>3
<1> QED  BY <1>4, <1>5

\* At the end what was kept has been said, once, and nothing else (ParquetReplay::next).
LEMMA KeptOnceHolds == ASSUME ArchiveInv, stage = "done" PROVE KeptOnce
<1>1. /\ RecorderInv /\ Typed /\ Filed /\ Timeline /\ owed = Shown /\ Placed /\ Said
  BY DEF ArchiveInv, RecorderInv, Loaded, PlayInv, Played
<1>2. \A j \in DOMAIN Sorted : /\ Sorted[j].kind \in {"book", "trades"}
                               /\ Sorted[j] \in Rows(Sorted[j].kind)
                               /\ ReadRow(Sorted[j], Sorted[j].kind)
                               /\ Shows(Sorted, j) = Sorted[j].row.item.val
  BY <1>1, SortedFacts, ShowsItem
<1>3. ASSUME NEW i \in Real
      PROVE  \E x \in owed : x.kind # "mark" /\ Told(out[i]) = Told(x)
  <2>1. PICK j \in DOMAIN Sorted : /\ out[i].kind = Sorted[j].kind /\ out[i].ts = Sorted[j].ts
                                   /\ out[i].val = Shows(Sorted, j)
    BY OfSorted
  <2> DEFINE x == Sorted[j].row.item
  <2>2. Sorted[j].kind \in Kind  BY <1>2, KindsAre
  <2>3. x \in owed /\ x.kind = Sorted[j].kind  BY <1>1, <1>2, <2>2, ReadShown
  <2>4. x.ts = Sorted[j].ts  BY <1>2 DEF ReadRow
  <2>5. Told(out[i]) = Told(x)  BY <1>2, <2>1, <2>3, <2>4 DEF Told
  <2>6. x.kind # "mark"  BY <1>2, <2>3
  <2> QED  BY <2>3, <2>5, <2>6
<1>4. ASSUME NEW x \in owed, x.kind # "mark" PROVE \E i \in Real : Told(out[i]) = Told(x)
  <2>1. x.kind \in {"book", "trades"}
    <3>1. x \in UNION {Delivery(k) : k \in Kind}  BY <1>1 DEF Shown, Typed
    <3> QED  BY <1>4, <3>1, KindsAre DEF Delivery
  <2>2. PICK e \in Rows(x.kind) : e.row.item = x  BY <1>1, KeptIsRead DEF Shown
  <2>3. e \in Feed  BY <2>1, <2>2 DEF Feed
  <2>4. PICK j \in DOMAIN Sorted : Sorted[j] = e  BY <1>1, <2>3, SortedFacts
  <2>5. PICK i \in Real : out[i].kind = Sorted[j].kind /\ out[i].ts = Sorted[j].ts  BY OfSorted
  <2>6. PICK q \in DOMAIN Sorted : /\ out[i].kind = Sorted[q].kind /\ out[i].ts = Sorted[q].ts
                                   /\ out[i].val = Shows(Sorted, q)
    BY OfSorted
  <2>7. Sorted[q].row.item = x
    <3>1. /\ Sorted[q].row.item \in taken /\ Sorted[q].row.item.kind = Sorted[q].kind
          /\ Sorted[q].row.item.ts = Sorted[q].ts
      BY <1>2 DEF ReadRow
    <3>2. x \in taken /\ x.kind = Sorted[j].kind /\ x.ts = Sorted[j].ts
      BY <1>2, <2>2, <2>4 DEF ReadRow
    <3> QED  BY <1>1, <2>5, <2>6, <3>1, <3>2 DEF Timeline
  <2>8. out[i].kind = x.kind /\ out[i].ts = x.ts /\ out[i].val = x.val
    BY <1>2, <2>6, <2>7 DEF ReadRow
  <2> QED  BY <2>8 DEF Told
<1>5. ASSUME NEW i \in Real, NEW j \in Real, Told(out[i]) = Told(out[j]) PROVE i = j
  <2>1. out[i].kind = out[j].kind /\ out[i].ts = out[j].ts  BY <1>5 DEF Told
  <2>2. i \in Spoken /\ j \in Spoken /\ i \in Nat /\ j \in Nat /\ out[i].ts \in Nat /\ out[j].ts \in Nat
    BY <1>1 DEF Real, Spoken, Placed
  <2>3. ~(i < j) /\ ~(j < i)  BY <1>1, <2>1, <2>2 DEF Said, Prior
  <2> QED  BY <2>2, <2>3
<1> QED  BY <1>3, <1>4, <1>5 DEF KeptOnce

\* Two books with the same prices.
LEMMA SamePrices ==
    ASSUME NEW v, NEW b, v.bids = b.bids, v.asks = b.asks
    PROVE  (Crossable(v) <=> Crossable(b)) /\ Mid(v) = Mid(b)
<1>1. Touch(v) = Touch(b)  BY DEF Touch
<1> QED  BY <1>1 DEF Crossable, Mid

\* The books that can be crossed, as they came out, are those of the data.
LEMMA CrossedOut ==
    ASSUME ArchiveInv, stage = "done", boundary > 0
    PROVE  LET books == {i \in DOMAIN out : /\ out[i].kind = "book" /\ out[i].ts <= boundary
                                            /\ Crossable(out[i].val)}
           IN  /\ \A i \in books : out[i].ts \in Crossings(Sorted) /\ Mid(out[i].val) = MidAt(Sorted, out[i].ts)
               /\ \A ts \in Crossings(Sorted) : \E i \in books : out[i].ts = ts
               /\ \A i, j \in books : i < j => out[i].ts < out[j].ts
<1> DEFINE books == {i \in DOMAIN out : /\ out[i].kind = "book" /\ out[i].ts <= boundary
                                        /\ Crossable(out[i].val)}
<1>1. Placed /\ Said  BY DEF ArchiveInv, PlayInv, Played
<1>2. ASSUME NEW i \in DOMAIN out, i \in Real, out[i].kind = "book"
      PROVE  /\ (Crossable(out[i].val) <=> Crossable(BookAt(Sorted, out[i].ts)))
             /\ Mid(out[i].val) = MidAt(Sorted, out[i].ts) /\ out[i].ts \in BookTimes(Sorted)
  <2>1. PICK j \in DOMAIN Sorted : /\ out[i].kind = Sorted[j].kind /\ out[i].ts = Sorted[j].ts
                                   /\ out[i].val = Shows(Sorted, j)
    BY <1>2, OfSorted
  <2>2. out[i].val = [bids |-> BookAt(Sorted, out[i].ts).bids, asks |-> BookAt(Sorted, out[i].ts).asks]
    BY <1>2, <2>1 DEF Shows
  <2>3. out[i].val.bids = BookAt(Sorted, out[i].ts).bids /\ out[i].val.asks = BookAt(Sorted, out[i].ts).asks
    BY <2>2
  <2>4. out[i].ts \in BookTimes(Sorted)  BY <1>2, <2>1 DEF BookTimes
  <2> QED  BY <2>3, <2>4, SamePrices DEF MidAt
<1>3. ASSUME NEW i \in books
      PROVE  i \in Real /\ out[i].ts \in Crossings(Sorted) /\ Mid(out[i].val) = MidAt(Sorted, out[i].ts)
  <2>1. i \in DOMAIN out /\ i \in Real /\ out[i].kind = "book" /\ Crossable(out[i].val)  BY DEF Real
  <2> QED  BY <1>2, <2>1 DEF Crossings
<1>4. ASSUME NEW ts \in Crossings(Sorted) PROVE \E i \in books : out[i].ts = ts
  <2>1. PICK j \in DOMAIN Sorted : Sorted[j].kind = "book" /\ Sorted[j].ts = ts
    BY DEF Crossings, BookTimes
  <2>2. PICK i \in Real : out[i].kind = "book" /\ out[i].ts = ts  BY <2>1, OfSorted
  <2>3. i \in DOMAIN out /\ out[i].ts <= boundary  BY DEF Real
  <2>4. Crossable(out[i].val)  BY <1>2, <2>2, <2>3 DEF Crossings
  <2> QED  BY <2>2, <2>3, <2>4
<1>5. ASSUME NEW i \in books, NEW j \in books, i < j PROVE out[i].ts < out[j].ts
  <2>1. i \in Spoken /\ j \in Spoken /\ out[i].kind = "book" /\ out[j].kind = "book"  BY DEF Spoken
  <2> QED  BY <1>1, <1>5, <2>1 DEF Said, Prior
<1> QED  BY <1>3, <1>4, <1>5

\* So the first and the last of them show where the walk is to go, and from where.
LEMMA WalkEnds ==
    ASSUME ArchiveInv, stage = "done", boundary > 0
    PROVE  LET books == {i \in DOMAIN out : /\ out[i].kind = "book" /\ out[i].ts <= boundary
                                            /\ Crossable(out[i].val)}
           IN  Mid(out[Min(books)].val) = Origin(Sorted) /\ Mid(out[Max(books)].val) = End(Sorted)
<1> DEFINE books == {i \in DOMAIN out : /\ out[i].kind = "book" /\ out[i].ts <= boundary
                                        /\ Crossable(out[i].val)}
           C == Crossings(Sorted)
<1>1. RecorderInv /\ Retraceable(Sorted) /\ Placed
  BY DEF ArchiveInv, Loaded, PlayInv, Played
<1>2. Tidy(Sorted) /\ Priced(Sorted)  BY <1>1, SortedTidy, SortedPriced
<1>3. IsFiniteSet(C) /\ C \subseteq Int /\ C # {}  BY <1>1, <1>2, TimesAre DEF Retraceable
<1>4. IsFiniteSet(books) /\ books \subseteq Int
  <2>1. DOMAIN out = 1..Len(out) /\ 1 \in Int /\ Len(out) \in Int  BY <1>1 DEF Placed
  <2>2. IsFiniteSet(DOMAIN out) /\ books \subseteq DOMAIN out /\ books \subseteq Int  BY <2>1, FS_Interval
  <2> HIDE DEF books
  <2> QED  BY <2>2, FS_Subset
<1>5. /\ \A i \in books : out[i].ts \in C /\ Mid(out[i].val) = MidAt(Sorted, out[i].ts)
      /\ \A ts \in C : \E i \in books : out[i].ts = ts
      /\ \A i, j \in books : i < j => out[i].ts < out[j].ts
  BY CrossedOut
<1> HIDE DEF books, C
<1>6. books # {}  BY <1>3, <1>5
<1>7. Min(books) \in books /\ \A i \in books : Min(books) <= i  BY <1>4, <1>6, MinIs
<1>8. Max(books) \in books /\ \A i \in books : i <= Max(books)  BY <1>4, <1>6, MaxIs
<1>9. Min(C) \in C /\ \A ts \in C : Min(C) <= ts  BY <1>3, MinIs
<1>10. Max(C) \in C /\ \A ts \in C : ts <= Max(C)  BY <1>3, MaxIs
<1>11. out[Min(books)].ts = Min(C)
  <2>1. PICK i \in books : out[i].ts = Min(C)  BY <1>5, <1>9
  <2>2. Min(books) <= i /\ Min(books) \in Int /\ i \in Int  BY <1>4, <1>7
  <2>3. out[Min(books)].ts \in Int /\ Min(C) \in Int  BY <1>3, <1>5, <1>7, <1>9
  <2>4. out[Min(books)].ts <= Min(C)  BY <1>5, <1>7, <2>1, <2>2, <2>3
  <2>5. Min(C) <= out[Min(books)].ts  BY <1>5, <1>7, <1>9
  <2> QED  BY <2>3, <2>4, <2>5
<1>12. out[Max(books)].ts = Max(C)
  <2>1. PICK i \in books : out[i].ts = Max(C)  BY <1>5, <1>10
  <2>2. i <= Max(books) /\ Max(books) \in Int /\ i \in Int  BY <1>4, <1>8
  <2>3. out[Max(books)].ts \in Int /\ Max(C) \in Int  BY <1>3, <1>5, <1>8, <1>10
  <2>4. Max(C) <= out[Max(books)].ts  BY <1>5, <1>8, <2>1, <2>2, <2>3
  <2>5. out[Max(books)].ts <= Max(C)  BY <1>5, <1>8, <1>10
  <2> QED  BY <2>3, <2>4, <2>5
<1>13. Mid(out[Min(books)].val) = Origin(Sorted)  BY <1>5, <1>7, <1>11 DEF Origin, C
<1>14. Mid(out[Max(books)].val) = End(Sorted)  BY <1>5, <1>8, <1>12 DEF End, C
<1> QED  BY <1>13, <1>14 DEF books

\* The fat trades are the steps of the walk, in order.
LEMMA FatTrades ==
    ASSUME ArchiveInv, stage = "done", boundary > 0
    PROVE  \E m \in 1..MaxSteps : \E path \in [1..m -> Int] : \E step \in [DOMAIN out -> Nat] :
             LET fat == {i \in DOMAIN out : out[i].kind = "trades" /\ out[i].ts > boundary} IN
             /\ path[m] = Origin(Sorted)
             /\ \A i \in 1..m : path[i] \in (End(Sorted)..Origin(Sorted)) \cup (Origin(Sorted)..End(Sorted))
             /\ \A i \in fat : step[i] \in 1..m /\ out[i].val = path[step[i]]
             /\ \A x \in 1..m : \E i \in fat : step[i] = x
             /\ \A i, j \in fat : i < j => step[i] < step[j]
<1> DEFINE fat == {i \in DOMAIN out : out[i].kind = "trades" /\ out[i].ts > boundary}
           s == Sorted
           W == WayBack(s)
           n == Len(s)
           L == Last(s).ts
<1>1. /\ RecorderInv /\ Retraceable(s) /\ Placed /\ Said /\ Tidy(evs)
      /\ evs = s \o W /\ boundary = L
  BY LoadedEvs DEF ArchiveInv, Loaded, PlayInv, Played
<1>2. Tidy(s) /\ Priced(s)  BY <1>1, SortedTidy, SortedPriced
<1>3. PICK m, path : WalkBack(s, W, m, path)  BY <1>1, <1>2, WayBackIs
<1>4. /\ L \in Nat \ {0}
      /\ \A j \in DOMAIN s : evs[j].ts <= L
      /\ \A k \in DOMAIN W : n + k \in DOMAIN evs /\ evs[n + k] = W[k] /\ L < W[k].ts
      /\ \A j \in DOMAIN evs : j \in DOMAIN s \/ j - n \in DOMAIN W
  BY <1>1, WalkAdded
<1> HIDE DEF s, W
<1>5. n \in Nat /\ DOMAIN evs = 1..Len(evs) /\ Len(evs) \in Nat  BY <1>1, <1>2 DEF Tidy
<1> HIDE DEF n, L
<1>6. 1..(cursor - 1) = DOMAIN evs  BY <1>1, <1>5 DEF Placed
<1>7. /\ m \in 1..MaxSteps /\ path \in [1..m -> Int] /\ DOMAIN W = 1..(3 * m) /\ path[m] = Origin(s)
      /\ \A i \in 1..m : path[i] \in (End(s)..Origin(s)) \cup (Origin(s)..End(s))
  BY <1>3 DEF WalkBack
<1>8. m \in Nat \ {0}  BY <1>7
<1>9. ASSUME NEW k \in 1..(3 * m), W[k].kind = "trades"
      PROVE  \E x \in 1..m : k = 3 * x /\ W[k].ts = L + Second * (2 * x) /\ W[k].row.price = path[x]
  <2> DEFINE x == (k + 2) \div 3
  <2>1. /\ x \in 1..m
        /\ k = 3 * x => W[k].ts = L + Second * (2 * x) /\ W[k].row.price = path[x]
        /\ k # 3 * x => W[k].kind = "book"
    BY <1>3 DEF WalkBack, L
  <2> HIDE DEF x
  <2> QED  BY <1>9, <2>1
<1>10. ASSUME NEW x \in 1..m
       PROVE  3 * x \in DOMAIN W /\ W[3 * x].kind = "trades" /\ W[3 * x].ts = L + Second * (2 * x)
  <2>1. 3 * x \in 1..(3 * m) /\ (3 * x + 2) \div 3 = x  BY <1>8
  <2> QED  BY <1>3, <1>7, <2>1 DEF WalkBack, L
<1>11. ASSUME NEW x \in 1..m, NEW y \in 1..m
       PROVE  x < y <=> L + Second * (2 * x) < L + Second * (2 * y)
  <2>1. 2 * x \in Nat /\ 2 * y \in Nat  BY <1>8
  <2>2. Second * (2 * x) \in Nat /\ Second * (2 * y) \in Nat
    BY <2>1, ArchiveAssumption DEF ArchiveAssumption
  <2>3. x < y => Second * (2 * x) < Second * (2 * y)
    <3>1. x < y => 2 * x < 2 * y  BY <1>8
    <3> QED  BY <2>1, <3>1, Scaled
  <2>4. y < x => Second * (2 * y) < Second * (2 * x)
    <3>1. y < x => 2 * y < 2 * x  BY <1>8
    <3> QED  BY <2>1, <3>1, Scaled
  <2>5. x \in Nat /\ y \in Nat /\ (x = y => Second * (2 * x) = Second * (2 * y))  BY <1>8
  <2> QED  BY <1>4, <2>2, <2>3, <2>4, <2>5
<1> DEFINE At(i, x) == out[i].ts = L + Second * (2 * x) /\ out[i].val = path[x]
<1>12. ASSUME NEW i \in fat PROVE \E x \in 1..m : At(i, x)
  <2>1. i \in Spoken  BY DEF Spoken
  <2>2. PICK j \in DOMAIN evs : Says(out[i], evs, j)  BY <1>1, <1>6, <2>1 DEF Said
  <2>3. evs[j].kind = "trades" /\ evs[j].ts = out[i].ts /\ out[i].val = evs[j].row.price
    BY <2>2 DEF Says, Shows
  <2>4. j \notin DOMAIN s
    <3>1. ~(out[i].ts <= L)  BY <1>1, <1>4 DEF Placed
    <3> QED  BY <1>4, <2>3, <3>1
  <2>5. j - n \in DOMAIN W  BY <1>4, <2>4
  <2>6. j \in Nat /\ n + (j - n) = j  BY <1>5
  <2>7. evs[j] = W[j - n]  BY <1>4, <2>5, <2>6
  <2>8. PICK x \in 1..m : W[j - n].ts = L + Second * (2 * x) /\ W[j - n].row.price = path[x]
    BY <1>7, <1>9, <2>3, <2>5, <2>7
  <2> QED  BY <2>3, <2>7, <2>8
<1>13. ASSUME NEW x \in 1..m PROVE \E i \in fat : out[i].ts = L + Second * (2 * x)
  <2>1. 3 * x \in DOMAIN W /\ W[3 * x].kind = "trades" /\ W[3 * x].ts = L + Second * (2 * x)  BY <1>10
  <2>2. n + 3 * x \in DOMAIN evs /\ evs[n + 3 * x] = W[3 * x] /\ L < W[3 * x].ts  BY <1>4, <2>1
  <2> HIDE DEF At
  <2>3. PICK i \in Spoken : out[i].kind = "trades" /\ out[i].ts = W[3 * x].ts
    <3> DEFINE j == n + 3 * x
    <3>1. j \in 1..(cursor - 1) /\ evs[j].kind = "trades" /\ evs[j].ts = W[3 * x].ts
      BY <1>6, <2>1, <2>2
    <3> HIDE DEF j
    <3>2. \E i \in Spoken : out[i].kind = evs[j].kind /\ out[i].ts = evs[j].ts
      BY <1>1, <3>1 DEF Said
    <3> QED  BY <3>1, <3>2
  <2>4. i \in fat  BY <1>1, <2>2, <2>3 DEF Spoken
  <2> QED  BY <2>1, <2>3, <2>4
<1> DEFINE step == [i \in DOMAIN out |-> IF i \in fat THEN CHOOSE x \in 1..m : At(i, x) ELSE 0]
<1>14. ASSUME NEW i \in fat PROVE step[i] \in 1..m /\ At(i, step[i])
  <2>1. step[i] = CHOOSE x \in 1..m : At(i, x)  OBVIOUS
  <2>2. \E x \in 1..m : At(i, x)  BY <1>12
  <2> HIDE DEF At, step
  <2> QED  BY <2>1, <2>2
<1>15. step \in [DOMAIN out -> Nat]
  <2>1. \A i \in DOMAIN out : step[i] \in Nat
    <3> SUFFICES ASSUME NEW i \in DOMAIN out PROVE step[i] \in Nat
      OBVIOUS
    <3>1. CASE i \in fat
      <4>1. step[i] \in 1..m  BY <1>14, <3>1
      <4> HIDE DEF step
      <4> QED  BY <1>8, <4>1
    <3>2. CASE i \notin fat  BY <3>2
    <3> QED  BY <3>1, <3>2
  <2>2. step = [i \in DOMAIN out |-> step[i]]  OBVIOUS
  <2> HIDE DEF step
  <2> QED  BY <2>1, <2>2
<1> HIDE DEF step
<1>16. \A i \in fat : step[i] \in 1..m /\ out[i].val = path[step[i]] /\ out[i].ts = L + Second * (2 * step[i])
  BY <1>14
<1> HIDE DEF At
<1>17. ASSUME NEW x \in 1..m PROVE \E i \in fat : step[i] = x
  <2>1. PICK i \in fat : out[i].ts = L + Second * (2 * x)  BY <1>13
  <2>2. step[i] \in 1..m /\ out[i].ts = L + Second * (2 * step[i])  BY <1>16
  <2> HIDE DEF fat
  <2>3. ~(x < step[i]) /\ ~(step[i] < x)
    <3>1. out[i].ts \in Nat  BY <1>1, <2>1 DEF Placed, fat
    <3>2. x < step[i] <=> out[i].ts < out[i].ts  BY <1>11, <2>1, <2>2
    <3>3. step[i] < x <=> out[i].ts < out[i].ts  BY <1>11, <2>1, <2>2
    <3> QED  BY <3>1, <3>2, <3>3
  <2>4. x = step[i]  BY <1>8, <2>2, <2>3
  <2> QED  BY <2>4
<1>18. ASSUME NEW i \in fat, NEW j \in fat, i < j PROVE step[i] < step[j]
  <2>1. i \in Spoken /\ j \in Spoken /\ out[i].kind = "trades" /\ out[j].kind = "trades"  BY DEF Spoken
  <2>2. out[i].ts < out[j].ts  BY <1>1, <1>18, <2>1 DEF Said, Prior
  <2> QED  BY <1>11, <1>16, <2>2
<1> HIDE DEF fat
<1>19. /\ path[m] = Origin(Sorted)
       /\ \A i \in 1..m : path[i] \in (End(Sorted)..Origin(Sorted)) \cup (Origin(Sorted)..End(Sorted))
       /\ \A i \in fat : step[i] \in 1..m /\ out[i].val = path[step[i]]
       /\ \A x \in 1..m : \E i \in fat : step[i] = x
       /\ \A i, j \in fat : i < j => step[i] < step[j]
  BY <1>7, <1>16, <1>17, <1>18 DEF s
<1> SUFFICES \E mm \in 1..MaxSteps : \E pp \in [1..mm -> Int] : \E st \in [DOMAIN out -> Nat] :
        /\ pp[mm] = Origin(Sorted)
        /\ \A i \in 1..mm : pp[i] \in (End(Sorted)..Origin(Sorted)) \cup (Origin(Sorted)..End(Sorted))
        /\ \A i \in fat : st[i] \in 1..mm /\ out[i].val = pp[st[i]]
        /\ \A x \in 1..mm : \E i \in fat : st[i] = x
        /\ \A i, j \in fat : i < j => st[i] < st[j]
  BY Zenon DEF fat
<1>20. m \in 1..MaxSteps /\ path \in [1..m -> Int]  BY <1>7
<1> QED  BY <1>15, <1>19, <1>20, Zenon

\* At the end a walk that was added has returned (with_retrace_tail).
LEMMA WalkReturnsHolds == ASSUME ArchiveInv, stage = "done" PROVE WalkReturns
<1> SUFFICES ASSUME boundary > 0 PROVE WalkReturns
  BY DEF WalkReturns
<1> DEFINE fat == {i \in DOMAIN out : out[i].kind = "trades" /\ out[i].ts > boundary}
           books == {i \in DOMAIN out : /\ out[i].kind = "book" /\ out[i].ts <= boundary
                                        /\ Crossable(out[i].val)}
<1>1. PICK m \in 1..MaxSteps : \E path \in [1..m -> Int] : \E step \in [DOMAIN out -> Nat] :
        /\ path[m] = Origin(Sorted)
        /\ \A i \in 1..m : path[i] \in (End(Sorted)..Origin(Sorted)) \cup (Origin(Sorted)..End(Sorted))
        /\ \A i \in fat : step[i] \in 1..m /\ out[i].val = path[step[i]]
        /\ \A x \in 1..m : \E i \in fat : step[i] = x
        /\ \A i, j \in fat : i < j => step[i] < step[j]
  BY FatTrades
<1>2. PICK path \in [1..m -> Int], step \in [DOMAIN out -> Nat] :
        /\ path[m] = Origin(Sorted)
        /\ \A i \in 1..m : path[i] \in (End(Sorted)..Origin(Sorted)) \cup (Origin(Sorted)..End(Sorted))
        /\ \A i \in fat : step[i] \in 1..m /\ out[i].val = path[step[i]]
        /\ \A x \in 1..m : \E i \in fat : step[i] = x
        /\ \A i, j \in fat : i < j => step[i] < step[j]
  BY <1>1
<1>3. MaxSteps \in Nat /\ m \in Nat \ {0} /\ m <= MaxSteps  BY ArchiveAssumption DEF ArchiveAssumption
<1>4. Mid(out[Min(books)].val) = Origin(Sorted) /\ Mid(out[Max(books)].val) = End(Sorted)
  BY WalkEnds
<1>5. IsFiniteSet(fat) /\ fat \subseteq Nat /\ fat \subseteq DOMAIN out
  <2>1. DOMAIN out = 1..Len(out) /\ 1 \in Int /\ Len(out) \in Int
    BY DEF ArchiveInv, PlayInv, Played, Placed
  <2>2. fat \subseteq DOMAIN out  OBVIOUS
  <2> HIDE DEF fat
  <2>3. IsFiniteSet(DOMAIN out)  BY <2>1, FS_Interval
  <2>4. DOMAIN out \subseteq Nat  BY <2>1
  <2> QED  BY <2>2, <2>3, <2>4, FS_Subset
<1> HIDE DEF fat, books
<1>6. fat # {}
  <2>1. m \in 1..m  BY <1>3
  <2> QED  BY <1>2, <2>1
<1>7. out[Max(fat)].val = Origin(Sorted)
  <2>1. Max(fat) \in fat /\ \A i \in fat : i <= Max(fat)
    <3>1. fat \subseteq Int  BY <1>5
    <3> QED  BY <1>5, <1>6, <3>1, MaxIs
  <2>2. PICK i \in fat : step[i] = m
    <3>1. m \in 1..m  BY <1>3
    <3> QED  BY <1>2, <3>1
  <2>3. i = Max(fat)
    <3>1. ~(i < Max(fat))
      <4>1. step[Max(fat)] \in 1..m  BY <1>2, <2>1
      <4>2. ~(m < step[Max(fat)])  BY <1>3, <4>1
      <4> QED  BY <1>2, <2>1, <2>2, <4>2
    <3>2. i \in Nat /\ Max(fat) \in Nat /\ i <= Max(fat)  BY <1>5, <2>1
    <3> QED  BY <3>1, <3>2
  <2>4. out[i].val = path[m]  BY <1>2, <2>2
  <2> QED  BY <1>2, <2>3, <2>4
<1>8. Cardinality(fat) <= MaxSteps
  <2> DEFINE f == [i \in fat |-> step[i]]
  <2>1. f \in [fat -> 1..m]  BY <1>2
  <2>2. \A i, j \in fat : f[i] = f[j] => i = j
    <3> SUFFICES ASSUME NEW i \in fat, NEW j \in fat, step[i] = step[j] PROVE i = j
      OBVIOUS
    <3>1. step[i] \in Nat /\ i \in Nat /\ j \in Nat  BY <1>2, <1>5
    <3>2. ~(i < j) /\ ~(j < i)  BY <1>2, <3>1
    <3> QED  BY <3>1, <3>2
  <2> HIDE DEF f
  <2>3. f \in Injection(fat, 1..m)  BY <2>1, <2>2 DEF Injection, IsInjective
  <2>4. IsFiniteSet(1..m) /\ Cardinality(1..m) = m
    <3>1. 1 \in Int /\ m \in Int /\ ~(1 > m) /\ m - 1 + 1 = m  BY <1>3
    <3> QED  BY <3>1, FS_Interval
  <2>5. Cardinality(fat) <= Cardinality(1..m)  BY <2>3, <2>4, FS_Injection
  <2>6. Cardinality(fat) \in Nat  BY <1>5, FS_CardinalityType
  <2> QED  BY <1>3, <2>4, <2>5, <2>6
<1>9. \A i \in fat : out[i].val \in (Origin(Sorted)..End(Sorted)) \cup (End(Sorted)..Origin(Sorted))
  BY <1>2
<1> QED  BY <1>4, <1>6, <1>7, <1>8, <1>9 DEF WalkReturns, fat, books

\* A replay gives what was kept and nothing else, once, whole, in order and beside
\* the right mark, and a walk added to it returns (LoadedReplayData::load,
\* ParquetReplay::next, MarkSeries::advance, with_retrace_tail).
THEOREM ReplaysTrue == ArchiveSpec => []ReplayTrue
<1>1. ArchiveInit => ArchiveInv
  <2>1. ArchiveInit => PlayInv  BY DEF ArchiveInit, ReplayInit, PlayInv, Blank
  <2> QED  BY <2>1, ArchiveStarts DEF ArchiveInv
<1>2. ArchiveInv /\ [RecorderNext \/ ReplayNext]_archiveVars => ArchiveInv'
  BY RecorderKeeps, LoadedKeeps, PlayKeeps DEF ArchiveInv
<1>3. ArchiveInv => ReplayTrue
  <2> SUFFICES ASSUME ArchiveInv, stage = "done" PROVE KeptOnce /\ InTime /\ Marked /\ WalkReturns
    BY DEF ReplayTrue
  <2>1. InTime  BY DEF ArchiveInv, PlayInv, Played, Paced
  <2> QED  BY <2>1, KeptOnceHolds, MarkedHolds, WalkReturnsHolds
<1> QED  BY <1>1, <1>2, <1>3, PTL DEF ArchiveSpec
=============================================================================
