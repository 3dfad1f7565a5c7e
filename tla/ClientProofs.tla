---------------------------- MODULE ClientProofs ----------------------------
(***************************************************************************)
(* Proofs about the venue clients (VenueClient) and the two buying tasks   *)
(* that use one (SpotBuyers).                                              *)
(*                                                                         *)
(* The client's properties rest on one invariant, ClientInv.  A request is *)
(* built from ids the venue has given out (Fit), the venue's answer is     *)
(* true of the book that gave it and stays true as the book ages           *)
(* (AnswerTrue, Ages), and what the caller makes of a true answer is true  *)
(* (Good): the ids it drops and acknowledges are of orders that are gone,  *)
(* the ids it hands on are of orders that were placed, and the requests it *)
(* sends next fit again.                                                   *)
(***************************************************************************)
EXTENDS VenueClient, SpotBuyers, FiniteSetTheorems, SequenceTheorems,
        WellFoundedInduction, TLAPS

-----------------------------------------------------------------------------
\* What a request's element, an order and the venue's answer are.
Ids == 0..MaxOrders
Kinds == {"place", "modify", "cancel", "swap", "cancelAll", "list", "find", "findAll"}
Element == [kind : Kinds, slot : Nat, id : Ids, price : Nat, own : BOOLEAN, repl : Ids]
Order == [st : {"none", "open", "gone"}, price : Nat, twin : Ids]
Reply == [ok : BOOLEAN, id : Ids] \cup [ok : {TRUE}, rows : SUBSET OrderIds]
Operations == {"idle", "quote", "requote", "requotes", "cancel", "cancels", "cancelAll",
               "list", "batch"}
CallRec == [op : Operations, plan : Seq(Seq(Element)), req : Slots \cup {0},
            before : SUBSET OrderIds]
Cmd == [by : Callers \cup {""}, els : Seq(Element),
        st : {"free", "queued", "wire", "answered", "lost"},
        age : Nat, stamp : Nat, ans : Seq(Reply)]

ClientTyped ==
    /\ venue \in {"spot", "rest", "ws", "hyper"}
    /\ orders \in [OrderIds -> Order]
    /\ calls \in [Callers -> CallRec]
    /\ cmds \in [Slots -> Cmd]
    /\ queue \in Seq(Slots)
    /\ batch \in Seq([side : {"bid", "ask"}, price : Nat])
    /\ DOMAIN slots = DOMAIN batch /\ \A s \in DOMAIN slots : slots[s] \in Ids

\* The ids a book has given out, and what one book knows of an older one.
Accepted(book) == {i \in OrderIds : book[i].st # "none"}
Ages(old, new) == \A i \in OrderIds :
    /\ old[i].st = "gone" => new[i].st = "gone"
    /\ old[i].st # "none" => new[i].st # "none" /\ new[i].price = old[i].price

\* An element names an order the venue accepted, and replaces none that may rest.
Fit(book) == {e \in Element :
    /\ e.id # 0 => e.id \in Accepted(book)
    /\ e.kind \in {"modify", "cancel", "swap", "find"} => e.id # 0
    /\ e.kind = "place" /\ e.repl # 0 /\ venue # "spot" =>
           e.repl \in OrderIds /\ book[e.repl].st = "gone"}

\* What fits the book, and what it has given out.
Fitting == Fit(orders)
Taken == Accepted(orders)

\* An element places an intent of the batch.
Intended == {e \in Element :
    e.kind = "place" /\ e.slot \in DOMAIN batch /\ e.price = batch[e.slot].price}

\* What an answer says is so.
AnswerTrue(e, a, book, shown) ==
    /\ e.kind = "place" /\ a.ok => a.id \in Accepted(book) /\ book[a.id].price = e.price
    /\ e.kind \in {"modify", "cancel", "swap"} /\ ~a.ok /\ a.id = e.id => book[e.id].st = "gone"
    /\ e.kind \in {"cancel", "swap"} /\ a.ok => book[e.id].st = "gone"
    /\ e.kind \in {"find", "findAll", "list"} /\ a.ok => a.rows \subseteq Accepted(book)
    /\ e.kind = "find" /\ a.ok /\ e.id \notin a.rows => book[e.id].st = "gone"
    /\ e.kind = "list" /\ a.ok => \A i \in shown \ a.rows : book[i].st = "gone"

\* A request has an age: the time since the call that built it.
Stamped == \A k \in Slots : cmds[k].stamp = cmds[k].age

\* A caller's request is its own, and is under way; what is on the wire or
\* answered has a caller.
Linked ==
    /\ \A c \in Callers : calls[c].req # 0 =>
          /\ cmds[calls[c].req].st \in {"queued", "wire", "answered"}
          /\ \A d \in Callers : calls[d].req = calls[c].req => d = c
    /\ \A k \in Slots : cmds[k].st \in {"wire", "answered"} => Waited(k)

\* What a caller has still to send fits the book; a batch's places intents.
CallsFit == \A c \in Callers :
    /\ calls[c].plan \in Seq(Seq(Fitting))
    /\ calls[c].before \subseteq Taken
    /\ calls[c].op = "batch" => calls[c].plan \in Seq(Seq(Intended))

\* So does every request in flight.
CmdsFit ==
    /\ \A k \in Slots : cmds[k].els \in Seq(Fitting)
    /\ \A c \in Callers : calls[c].op = "batch" /\ calls[c].req # 0 =>
          cmds[calls[c].req].els \in Seq(Intended)

\* An answer on its way to its caller is true when it is read, not only when
\* it was given.
Answered == \A c \in Callers :
    calls[c].req # 0 /\ cmds[calls[c].req].st = "answered" =>
        /\ Len(cmds[calls[c].req].ans) = Len(cmds[calls[c].req].els)
        /\ \A n \in DOMAIN cmds[calls[c].req].els :
              AnswerTrue(cmds[calls[c].req].els[n], cmds[calls[c].req].ans[n], orders,
                         calls[c].before)

\* The client's books name orders of the venue; an order the runner was told of
\* stays in the map while it rests.
Registered ==
    /\ tracked \subseteq Taken /\ told \subseteq Taken
    /\ listed \subseteq Taken
    /\ Mapped => \A i \in told : orders[i].st = "open" => i \in tracked

\* No order rests beside the one it replaces.
Untwinned == venue # "spot" => \A i \in OrderIds : orders[i].twin = 0

\* A filled result slot holds an order for its intent.
SlotsFilled == \A s \in DOMAIN slots : slots[s] # 0 =>
    slots[s] \in Taken /\ orders[slots[s]].price = batch[s].price

\* The four properties need each other: what a result says is true because the
\* requests name the right orders, and they do because the results were true.
ClientInv ==
    /\ ClientTyped /\ Stamped /\ Linked /\ CallsFit /\ CmdsFit /\ Answered
    /\ Registered /\ Untwinned /\ SlotsFilled /\ AckedIsGone

-----------------------------------------------------------------------------
\* The assumptions on the client's constants.
LEMMA ClientFacts ==
    /\ Venues \subseteq {"spot", "rest", "ws", "hyper"}
    /\ Chunk \in Nat /\ Chunk >= 1 /\ Window \in Nat /\ MaxOrders \in Nat
    /\ Slots \subseteq Nat /\ 0 \notin Slots
    /\ Batches \subseteq Seq([side : {"bid", "ask"}, price : Nat])
  BY ClientAssumption

\* Of some numbers one is the least.
LEMMA Least ==
    ASSUME NEW S \in SUBSET Nat, S # {}
    PROVE  \E i \in S : \A j \in S : i <= j
  <1> DEFINE Less == {ss \in Nat \X Nat : ss[1] < ss[2]}
  <1>1. IsWellFoundedOn(Less, Nat)
    BY NatLessThanWellFounded DEF OpToRel
  <1>2. \A x, y \in Nat : <<y, x>> \in Less <=> y < x
    OBVIOUS
  <1> HIDE DEF Less
  <1>3. PICK x \in S : \A y \in S : <<y, x>> \notin Less
    BY <1>1, WFMin
  <1>4. ASSUME NEW y \in S PROVE x <= y
    <2>1. x \in Nat /\ y \in Nat /\ <<y, x>> \notin Less
      BY <1>3
    <2>2. ~(y < x)
      BY <1>2, <2>1
    <2> QED
      BY <2>1, <2>2
  <1> QED
    BY <1>4

\* Induction over a set of numbers.
LEMMA Induct ==
    ASSUME NEW T, 0 \in T, \A n \in Nat : n \in T => n + 1 \in T
    PROVE  Nat \subseteq T
  <1> DEFINE Less == {ss \in Nat \X Nat : ss[1] < ss[2]}
             U == Nat \ T
  <1>1. IsWellFoundedOn(Less, Nat)
    BY NatLessThanWellFounded DEF OpToRel
  <1>2. \A x, y \in Nat : <<y, x>> \in Less <=> y < x
    OBVIOUS
  <1>3. U # {} => \E x \in U : \A y \in U : <<y, x>> \notin Less
    <2> HIDE DEF Less
    <2>1. U \subseteq Nat
      OBVIOUS
    <2> HIDE DEF U
    <2> QED
      BY <1>1, <2>1, WFMin
  <1> HIDE DEF Less
  <1>4. ASSUME NEW x \in U, \A y \in U : <<y, x>> \notin Less PROVE FALSE
    <2>1. x \in Nat /\ x # 0
      OBVIOUS
    <2>2. x - 1 \in Nat /\ x - 1 < x /\ (x - 1) + 1 = x
      BY <2>1
    <2>3. x - 1 \in T
      BY <1>2, <1>4, <2>1, <2>2
    <2> QED
      BY <2>2, <2>3
  <1> QED
    BY <1>3, <1>4

\* A set of ids, listed, is a sequence of them.
LEMMA Lists ==
    ASSUME NEW S \in SUBSET OrderIds
    PROVE  /\ Cardinality(S) \in Nat
           /\ \A n \in 1..Cardinality(S) : Listing(S)[n] \in S
  <1>1. IsFiniteSet(S)
    <2>1. 1 \in Int /\ MaxOrders \in Int
      BY ClientFacts
    <2>2. IsFiniteSet(1..MaxOrders)
      BY <2>1, FS_Interval
    <2> QED
      BY <2>2, FS_Subset DEF OrderIds
  <1>2. Cardinality(S) \in Nat /\ ExistsBijection(1..Cardinality(S), S)
    BY <1>1, FS_CardinalityType
  <1>3. \E f : f \in Bijection(1..Cardinality(S), S)
    BY <1>2 DEF ExistsBijection
  <1>4. Listing(S) \in Bijection(1..Cardinality(S), S)
    BY <1>3 DEF Listing
  <1>5. Listing(S) \in [1..Cardinality(S) -> S]
    BY <1>4 DEF Bijection, Injection
  <1> QED
    BY <1>2, <1>5

\* A fold of what to send next is a list of requests if its parts are.
LEMMA MoreIn ==
    ASSUME NEW S, NEW N \in Nat, NEW res, DOMAIN res = 1..N, Len(res) = N,
           \A n \in 1..N : res[n].more \in Seq(S)
    PROVE  More(res) \in Seq(S)
  <1> DEFINE Upto(n, f) == f = [i \in 0..n |-> IF i = 0 THEN <<>> ELSE f[i - 1] \o res[i].more]
             Has(n) == \E f : Upto(n, f) /\ f[n] \in Seq(S)
             T == {n \in Nat : n <= N => Has(n)}
  <1>1. 0 \in T
    <2> DEFINE z == [i \in 0..0 |-> <<>>]
    <2>1. Upto(0, z)
      OBVIOUS
    <2>2. z[0] = <<>> /\ <<>> \in Seq(S)
      OBVIOUS
    <2> HIDE DEF z, Upto
    <2>3. Has(0)
      BY <2>1, <2>2
    <2> HIDE DEF Has
    <2> QED
      BY <2>3
  <1>2. ASSUME NEW n \in Nat, n \in T PROVE n + 1 \in T
    <2> HIDE DEF Has
    <2> SUFFICES ASSUME n + 1 <= N PROVE Has(n + 1)
      OBVIOUS
    <2>1. Has(n)
      BY <1>2
    <2> USE DEF Has
    <2>2. PICK f : Upto(n, f) /\ f[n] \in Seq(S)
      BY <2>1
    <2> DEFINE w == f[n] \o res[n + 1].more
               g == [i \in 0..n + 1 |-> IF i = n + 1 THEN w ELSE f[i]]
    <2>3. \A i \in 0..n : f[i] = IF i = 0 THEN <<>> ELSE f[i - 1] \o res[i].more
      BY <2>2
    <2>4. w \in Seq(S)
      BY <2>2, ConcatProperties
    <2> HIDE DEF w
    <2>5. ASSUME NEW i \in 0..n + 1
          PROVE  g[i] = IF i = 0 THEN <<>> ELSE g[i - 1] \o res[i].more
      <3>1. CASE i = n + 1
        <4>1. g[i] = w /\ i # 0 /\ i - 1 = n /\ i - 1 \in 0..n + 1
          BY <3>1
        <4>2. g[n] = f[n]
          OBVIOUS
        <4> HIDE DEF g
        <4> QED
          BY <3>1, <4>1, <4>2 DEF w
      <3>2. CASE i # n + 1
        <4>1. i \in 0..n /\ g[i] = f[i]
          BY <3>2
        <4>2. i # 0 => i - 1 \in 0..n /\ g[i - 1] = f[i - 1]
          BY <4>1
        <4> HIDE DEF g
        <4> QED
          BY <2>3, <4>1, <4>2
      <3> QED
        BY <3>1, <3>2
    <2>6. Upto(n + 1, g) /\ g[n + 1] = w
      BY <2>5
    <2> HIDE DEF g, Upto
    <2> QED
      BY <2>4, <2>6
  <1>3. Nat \subseteq T
    <2> HIDE DEF T
    <2> QED
      BY <1>1, <1>2, Induct
  <1>4. \E f : Upto(N, f) /\ f[N] \in Seq(S)
    <2>1. Has(N)
      <3> HIDE DEF Has
      <3> QED
        BY <1>3
    <2> QED
      BY <2>1
  <1>5. \A f, g : Upto(N, f) /\ Upto(N, g) => f[N] = g[N]
    <2> SUFFICES ASSUME NEW f, NEW g, Upto(N, f), Upto(N, g) PROVE f[N] = g[N]
      OBVIOUS
    <2> DEFINE U == {n \in Nat : n <= N => f[n] = g[n]}
    <2>1. \A i \in 0..N : /\ f[i] = IF i = 0 THEN <<>> ELSE f[i - 1] \o res[i].more
                          /\ g[i] = IF i = 0 THEN <<>> ELSE g[i - 1] \o res[i].more
      OBVIOUS
    <2> HIDE DEF Upto
    <2>2. 0 \in U
      BY <2>1
    <2>3. ASSUME NEW n \in Nat, n \in U PROVE n + 1 \in U
      BY <2>1, <2>3
    <2>4. Nat \subseteq U
      <3> HIDE DEF U
      <3> QED
        BY <2>2, <2>3, Induct
    <2> QED
      BY <2>4
  <1> DEFINE f == CHOOSE g : Upto(N, g)
  <1>6. Upto(N, f)
    <2> HIDE DEF Upto
    <2> QED
      BY <1>4
  <1>7. More(res) = f[N]
    BY DEF More
  <1> HIDE DEF f, Upto
  <1> QED
    BY <1>4, <1>5, <1>6, <1>7

\* A book ages step by step.
LEMMA AgesOn ==
    ASSUME NEW a, NEW b, NEW c, Ages(a, b), Ages(b, c)
    PROVE  Ages(a, c)
  BY DEF Ages

\* What fits a book fits it when it is older.
LEMMA FitsOn ==
    ASSUME NEW old, NEW new, Ages(old, new)
    PROVE  Fit(old) \subseteq Fit(new) /\ Accepted(old) \subseteq Accepted(new)
  BY DEF Ages, Fit, Accepted

\* What an answer says stays so.
LEMMA TrueOn ==
    ASSUME NEW old, NEW new, Ages(old, new), NEW e \in Fit(old), NEW a,
           NEW shown \in SUBSET OrderIds, NEW part \in SUBSET shown, AnswerTrue(e, a, old, shown)
    PROVE  AnswerTrue(e, a, new, part)
  <1>1. e.kind \in {"modify", "cancel", "swap", "find"} => e.id \in OrderIds
    BY DEF Fit, Accepted
  <1> QED
    BY <1>1 DEF AnswerTrue, Ages, Accepted

\* The book and the answers in the midst of a request.
Midway == [orders : [OrderIds -> Order], ans : Seq(Reply)]
TwinFree(book) == venue # "spot" => \A i \in OrderIds : book[i].twin = 0

\* What the venue does with one element: the book ages, the answer is true.
LEMMA ExecutesOne ==
    ASSUME NEW s \in Midway, NEW e \in Fit(s.orders), NEW yes \in BOOLEAN, TwinFree(s.orders)
    PROVE  \E a \in Reply, b \in [OrderIds -> Order] :
              /\ Execute1(s, e, yes) = [orders |-> b, ans |-> Append(s.ans, a)]
              /\ Ages(s.orders, b) /\ TwinFree(b)
              /\ AnswerTrue(e, a, b, Accepted(s.orders))
  <1> DEFINE free == {i \in OrderIds : s.orders[i].st = "none"}
             new == CHOOSE i \in free : \A j \in free : i <= j
             open == e.id \in OrderIds /\ s.orders[e.id].st = "open"
             rows == {i \in OrderIds : s.orders[i].st = "open"}
             res == Execute1(s, e, yes)
             Fine(a, b) == /\ res = [orders |-> b, ans |-> Append(s.ans, a)]
                           /\ Ages(s.orders, b) /\ TwinFree(b)
                           /\ AnswerTrue(e, a, b, Accepted(s.orders))
  <1> SUFFICES \E a \in Reply, b \in [OrderIds -> Order] : Fine(a, b)
    OBVIOUS
  <1>1. /\ s.orders \in [OrderIds -> Order] /\ s.ans \in Seq(Reply) /\ e \in Element
        /\ \A a : [s EXCEPT !.ans = Append(@, a)] = [orders |-> s.orders, ans |-> Append(s.ans, a)]
    BY DEF Midway, Fit
  <1>2. Ages(s.orders, s.orders)
    BY DEF Ages
  <1>3. OrderIds \subseteq Ids /\ 0 \in Ids
    BY ClientFacts DEF OrderIds, Ids
  <1>4. e.kind \in {"modify", "cancel", "swap", "find"} => e.id \in Accepted(s.orders)
    BY DEF Fit
  <1>5. CASE e.kind = "place" /\ yes /\ free # {}
    <2>1. new \in free
      <3>1. free \in SUBSET Nat
        BY DEF OrderIds
      <3>2. \E i \in free : \A j \in free : i <= j
        <4> HIDE DEF free
        <4> QED
          BY <1>5, <3>1, Least
      <3> HIDE DEF free
      <3> QED
        BY <3>2
    <2> DEFINE t == IF e.repl \in rows THEN e.repl ELSE 0
               a == [ok |-> TRUE, id |-> new]
               o == [st |-> "open", price |-> e.price, twin |-> t]
               b == [s.orders EXCEPT ![new] = o]
    <2>2. res = [orders |-> b, ans |-> Append(s.ans, a)]
      BY <1>5 DEF Execute1
    <2> HIDE DEF new, res
    <2>3. venue # "spot" => t = 0
      BY <1>5 DEF Fit
    <2>4. t \in Ids /\ e.price \in Nat
      BY <1>1, <1>3 DEF Element
    <2> HIDE DEF t
    <2>5. new \in OrderIds /\ s.orders[new].st = "none"
      BY <2>1
    <2>6. o \in Order
      BY <2>4 DEF Order
    <2>7. b \in [OrderIds -> Order] /\ b[new] = o /\ \A i \in OrderIds \ {new} : b[i] = s.orders[i]
      BY <1>1, <2>5, <2>6
    <2>8. o.twin = t /\ o.st = "open" /\ o.price = e.price
      OBVIOUS
    <2> HIDE DEF b, o
    <2>9. Ages(s.orders, b)
      BY <2>5, <2>7 DEF Ages
    <2>10. TwinFree(b)
      BY <2>3, <2>7, <2>8 DEF TwinFree
    <2>11. AnswerTrue(e, a, b, Accepted(s.orders))
      BY <1>5, <2>5, <2>7, <2>8 DEF AnswerTrue, Accepted
    <2>12. a \in Reply
      BY <1>3, <2>5 DEF Reply
    <2> HIDE DEF a, res
    <2>13. Fine(a, b)
      BY <2>2, <2>9, <2>10, <2>11
    <2> HIDE DEF Fine
    <2> QED
      BY <2>7, <2>12, <2>13
  <1>6. ASSUME NEW a \in Reply, res = [s EXCEPT !.ans = Append(@, a)],
               AnswerTrue(e, a, s.orders, Accepted(s.orders))
        PROVE  \E x \in Reply, b \in [OrderIds -> Order] : Fine(x, b)
    <2>1. Fine(a, s.orders)
      BY <1>1, <1>6, <1>2
    <2> HIDE DEF Fine
    <2> QED
      BY <1>1, <2>1
  <1>7. CASE e.kind = "modify" /\ open /\ yes
    <2> DEFINE a == [ok |-> TRUE, id |-> e.id]
    <2>1. res = [s EXCEPT !.ans = Append(@, a)]
      BY <1>7 DEF Execute1
    <2>2. a \in Reply
      BY <1>3, <1>7 DEF Reply
    <2>3. AnswerTrue(e, a, s.orders, Accepted(s.orders))
      BY <1>7 DEF AnswerTrue
    <2> HIDE DEF a, res, Fine
    <2> QED
      BY <1>6, <2>1, <2>2, <2>3
  <1>8. CASE e.kind \in {"cancel", "swap"} /\ open /\ yes
    <2> DEFINE a == [ok |-> TRUE, id |-> e.id]
               o == Ended(s.orders[e.id])
               b == [s.orders EXCEPT ![e.id] = o]
    <2>1. res = [orders |-> b, ans |-> Append(s.ans, a)]
      BY <1>8 DEF Execute1
    <2>2. a \in Reply
      BY <1>3, <1>8 DEF Reply
    <2>3. /\ o \in Order /\ o.st = "gone" /\ o.price = s.orders[e.id].price /\ o.twin = 0
      BY <1>1, <1>8, <1>3 DEF Order, Ended
    <2> HIDE DEF o
    <2>4. b \in [OrderIds -> Order] /\ b[e.id] = o /\ \A i \in OrderIds \ {e.id} : b[i] = s.orders[i]
      BY <1>1, <1>8, <2>3
    <2> HIDE DEF b
    <2>5. Ages(s.orders, b) /\ TwinFree(b)
      BY <1>8, <2>3, <2>4 DEF Ages, TwinFree
    <2>6. AnswerTrue(e, a, b, Accepted(s.orders))
      BY <1>8, <2>3, <2>4 DEF AnswerTrue
    <2> HIDE DEF a, res
    <2>7. Fine(a, b)
      BY <2>1, <2>5, <2>6
    <2> HIDE DEF Fine
    <2> QED
      BY <2>2, <2>4, <2>7
  <1>9. CASE e.kind \in {"modify", "cancel", "swap"} /\ ~open
    <2> DEFINE a == [ok |-> FALSE, id |-> e.id]
    <2>1. res = [s EXCEPT !.ans = Append(@, a)]
      BY <1>9 DEF Execute1
    <2>2. a \in Reply
      BY <1>1 DEF Reply, Element
    <2>3. s.orders[e.id].st = "gone"
      BY <1>1, <1>9, <1>4 DEF Accepted, Order
    <2>4. AnswerTrue(e, a, s.orders, Accepted(s.orders))
      BY <1>9, <2>3 DEF AnswerTrue
    <2> HIDE DEF a, res, Fine
    <2> QED
      BY <1>6, <2>1, <2>2, <2>4
  <1>10. CASE e.kind = "cancelAll" /\ yes
    <2> DEFINE a == [ok |-> TRUE, id |-> 0]
               b == [i \in OrderIds |-> IF s.orders[i].st = "open"
                                        THEN Ended(s.orders[i]) ELSE s.orders[i]]
    <2>1. res = [orders |-> b, ans |-> Append(s.ans, a)]
      BY <1>10 DEF Execute1
    <2>2. a \in Reply
      BY <1>3 DEF Reply
    <2>3. \A i \in OrderIds : LET o == Ended(s.orders[i]) IN
              o \in Order /\ o.st = "gone" /\ o.price = s.orders[i].price /\ o.twin = 0
      BY <1>1, <1>3 DEF Order, Ended
    <2>4. /\ b \in [OrderIds -> Order]
          /\ \A i \in OrderIds : b[i] = IF s.orders[i].st = "open"
                                        THEN Ended(s.orders[i]) ELSE s.orders[i]
      BY <1>1, <2>3
    <2> HIDE DEF b
    <2>5. Ages(s.orders, b) /\ TwinFree(b)
      BY <2>3, <2>4 DEF Ages, TwinFree
    <2>6. AnswerTrue(e, a, b, Accepted(s.orders))
      BY <1>10 DEF AnswerTrue
    <2> HIDE DEF a, res
    <2>7. Fine(a, b)
      BY <2>1, <2>5, <2>6
    <2> HIDE DEF Fine
    <2> QED
      BY <2>2, <2>4, <2>7
  <1>11. CASE e.kind \in {"list", "find", "findAll"}
    <2> DEFINE a == [ok |-> TRUE, rows |-> rows]
    <2>1. res = [s EXCEPT !.ans = Append(@, a)]
      BY <1>11 DEF Execute1
    <2>2. a \in Reply
      BY DEF Reply
    <2>3. \A i \in Accepted(s.orders) \ rows : s.orders[i].st = "gone"
      BY <1>1 DEF Accepted, Order
    <2>4. rows \subseteq Accepted(s.orders)
      BY DEF Accepted
    <2>5. AnswerTrue(e, a, s.orders, Accepted(s.orders))
      BY <1>11, <1>4, <2>3, <2>4 DEF AnswerTrue
    <2> HIDE DEF a, res, Fine
    <2> QED
      BY <1>6, <2>1, <2>2, <2>5
  <1>12. CASE ~(\/ e.kind = "place" /\ yes /\ free # {}
                \/ e.kind = "modify" /\ open /\ yes
                \/ e.kind \in {"cancel", "swap"} /\ open /\ yes
                \/ e.kind \in {"modify", "cancel", "swap"} /\ ~open
                \/ e.kind = "cancelAll" /\ yes
                \/ e.kind \in {"list", "find", "findAll"})
    <2> DEFINE a == [ok |-> FALSE, id |-> 0]
    <2>1. res = [s EXCEPT !.ans = Append(@, a)]
      BY <1>12 DEF Execute1
    <2>2. a \in Reply
      BY <1>3 DEF Reply
    <2>3. e.id # 0 \/ e.kind \notin {"modify", "cancel", "swap"}
      BY DEF Fit
    <2>4. AnswerTrue(e, a, s.orders, Accepted(s.orders))
      BY <1>12, <2>3 DEF AnswerTrue
    <2> HIDE DEF a, res, Fine
    <2> QED
      BY <1>6, <2>1, <2>2, <2>4
  <1> HIDE DEF free, open, Fine
  <1> QED
    BY <1>5, <1>7, <1>8, <1>9, <1>10, <1>11, <1>12

\* What the venue does with a request: the book ages, the answers are true.
Sound(els, n, s) ==
    /\ s \in Midway /\ Ages(orders, s.orders) /\ TwinFree(s.orders) /\ Len(s.ans) = n
    /\ \A i \in 1..n : AnswerTrue(els[i], s.ans[i], s.orders, Accepted(orders))

\* One more element leaves what was answered true.
LEMMA SoundOn ==
    ASSUME NEW els \in Seq(Fit(orders)), NEW n \in Nat, n + 1 \in 1..Len(els),
           NEW s, Sound(els, n, s), NEW yes \in BOOLEAN
    PROVE  Sound(els, n + 1, Execute1(s, els[n + 1], yes))
  <1> DEFINE e == els[n + 1]
             res == Execute1(s, e, yes)
  <1>1. s \in Midway /\ Ages(orders, s.orders) /\ TwinFree(s.orders) /\ Len(s.ans) = n
    BY DEF Sound
  <1>2. \A i \in 1..Len(els) : els[i] \in Fit(orders)
    OBVIOUS
  <1>3. Fit(orders) \subseteq Fit(s.orders) /\ Accepted(orders) \subseteq Accepted(s.orders)
    BY <1>1, FitsOn
  <1>4. e \in Fit(s.orders)
    BY <1>2, <1>3
  <1> HIDE DEF e
  <1>5. PICK a \in Reply, b \in [OrderIds -> Order] :
            /\ res = [orders |-> b, ans |-> Append(s.ans, a)]
            /\ Ages(s.orders, b) /\ TwinFree(b) /\ AnswerTrue(e, a, b, Accepted(s.orders))
    BY <1>1, <1>4, ExecutesOne
  <1> HIDE DEF res
  <1>6. res.orders = b /\ res.ans = Append(s.ans, a)
    BY <1>5
  <1>7. Ages(orders, b)
    BY <1>1, <1>5, AgesOn
  <1>8. s.ans \in Seq(Reply) /\ Append(s.ans, a) \in Seq(Reply) /\ Len(Append(s.ans, a)) = n + 1
    BY <1>1 DEF Midway
  <1>9. res \in Midway
    BY <1>5, <1>8 DEF Midway
  <1>10. Accepted(s.orders) \in SUBSET OrderIds /\ Accepted(orders) \in SUBSET OrderIds
    BY DEF Accepted
  <1>11. ASSUME NEW i \in 1..n + 1
         PROVE  AnswerTrue(els[i], res.ans[i], b, Accepted(orders))
    <2>1. CASE i = n + 1
      <3>1. res.ans[i] = a
        BY <1>1, <1>6, <1>8, <2>1
      <3>2. Ages(b, b)
        BY DEF Ages
      <3>3. e \in Fit(b)
        BY <1>4, <1>5, FitsOn
      <3>4. AnswerTrue(e, a, b, Accepted(orders))
        BY <1>3, <1>5, <1>10, <3>2, <3>3, TrueOn
      <3> QED
        BY <2>1, <3>1, <3>4 DEF e
    <2>2. CASE i # n + 1
      <3>1. i \in 1..n /\ i \in 1..Len(els) /\ res.ans[i] = s.ans[i]
        BY <1>1, <1>6, <1>8, <2>2
      <3>2. AnswerTrue(els[i], s.ans[i], s.orders, Accepted(orders))
        BY <3>1 DEF Sound
      <3>3. els[i] \in Fit(s.orders)
        BY <1>2, <1>3, <3>1
      <3>4. AnswerTrue(els[i], s.ans[i], b, Accepted(orders))
        BY <1>5, <1>10, <3>2, <3>3, TrueOn
      <3> QED
        BY <3>1, <3>4
    <2> QED
      BY <2>1, <2>2
  <1>12. Sound(els, n + 1, res)
    BY <1>5, <1>6, <1>7, <1>8, <1>9, <1>11 DEF Sound
  <1> QED
    BY <1>12 DEF res, e

\* By induction over its elements: some function is the one Executed means, and
\* each of its values is sound.
LEMMA ExecutesAll ==
    ASSUME ClientTyped, TwinFree(orders), NEW els \in Seq(Fit(orders)),
           NEW yes \in [DOMAIN els -> BOOLEAN]
    PROVE  Sound(els, Len(els), Executed(els, yes))
  <1> DEFINE N == Len(els)
             start == [orders |-> orders, ans |-> <<>>]
             Upto(n, f) == f = [i \in 0..n |-> IF i = 0 THEN start
                                               ELSE Execute1(f[i - 1], els[i], yes[i])]
             Has(n) == \E f : Upto(n, f) /\ Sound(els, n, f[n])
             T == {n \in Nat : n <= N => Has(n)}
  <1>1. N \in Nat /\ DOMAIN els = 1..N
    OBVIOUS
  <1>2. Sound(els, 0, start)
    <2>1. start \in Midway
      <3>1. orders \in [OrderIds -> Order]
        BY DEF ClientTyped
      <3>2. <<>> \in Seq(Reply)
        BY EmptySeq
      <3> QED
        BY <3>1, <3>2 DEF Midway
    <2>2. start.orders = orders /\ Len(start.ans) = 0
      OBVIOUS
    <2>3. Ages(orders, orders)
      BY DEF Ages
    <2> HIDE DEF start
    <2> QED
      BY <2>1, <2>2, <2>3 DEF Sound
  <1> HIDE DEF N, start
  <1>3. 0 \in T
    <2> DEFINE z == [i \in 0..0 |-> start]
    <2>1. Upto(0, z)
      OBVIOUS
    <2>2. z[0] = start
      OBVIOUS
    <2> HIDE DEF z, Upto
    <2>3. Has(0)
      BY <1>2, <2>1, <2>2
    <2> HIDE DEF Has
    <2> QED
      BY <2>3
  <1>4. ASSUME NEW n \in Nat, n \in T PROVE n + 1 \in T
    <2> HIDE DEF Has
    <2> SUFFICES ASSUME n + 1 <= N PROVE Has(n + 1)
      OBVIOUS
    <2>1. Has(n)
      BY <1>1, <1>4
    <2> USE DEF Has
    <2>2. PICK f : Upto(n, f) /\ Sound(els, n, f[n])
      BY <2>1
    <2> DEFINE w == Execute1(f[n], els[n + 1], yes[n + 1])
               g == [i \in 0..n + 1 |-> IF i = n + 1 THEN w ELSE f[i]]
    <2>3. \A i \in 0..n : f[i] = IF i = 0 THEN start ELSE Execute1(f[i - 1], els[i], yes[i])
      BY <2>2
    <2>4. Sound(els, n + 1, w)
      <3>1. yes[n + 1] \in BOOLEAN /\ n + 1 \in 1..Len(els)
        BY <1>1 DEF N
      <3> QED
        BY <2>2, <3>1, SoundOn
    <2> HIDE DEF w
    <2>5. ASSUME NEW i \in 0..n + 1
          PROVE  g[i] = IF i = 0 THEN start ELSE Execute1(g[i - 1], els[i], yes[i])
      <3>1. CASE i = n + 1
        <4>1. g[i] = w /\ i # 0 /\ i - 1 = n /\ i - 1 \in 0..n + 1
          BY <3>1
        <4>2. g[n] = f[n]
          OBVIOUS
        <4> HIDE DEF g
        <4> QED
          BY <3>1, <4>1, <4>2 DEF w
      <3>2. CASE i # n + 1
        <4>1. i \in 0..n /\ g[i] = f[i]
          BY <3>2
        <4>2. i # 0 => i - 1 \in 0..n /\ g[i - 1] = f[i - 1]
          BY <4>1
        <4> HIDE DEF g
        <4> QED
          BY <2>3, <4>1, <4>2
      <3> QED
        BY <3>1, <3>2
    <2>6. Upto(n + 1, g) /\ g[n + 1] = w
      BY <2>5
    <2> HIDE DEF g, Upto
    <2> QED
      BY <2>4, <2>6
  <1>5. Nat \subseteq T
    <2> HIDE DEF T
    <2> QED
      BY <1>3, <1>4, Induct
  <1>6. Has(N)
    <2> HIDE DEF Has
    <2> QED
      BY <1>1, <1>5
  <1>7. \A f, g : Upto(N, f) /\ Upto(N, g) => f[N] = g[N]
    <2> SUFFICES ASSUME NEW f, NEW g, Upto(N, f), Upto(N, g) PROVE f[N] = g[N]
      OBVIOUS
    <2> DEFINE U == {n \in Nat : n <= N => f[n] = g[n]}
    <2>1. \A i \in 0..N :
             /\ f[i] = IF i = 0 THEN start ELSE Execute1(f[i - 1], els[i], yes[i])
             /\ g[i] = IF i = 0 THEN start ELSE Execute1(g[i - 1], els[i], yes[i])
      OBVIOUS
    <2> HIDE DEF Upto
    <2>2. 0 \in U
      BY <1>1, <2>1
    <2>3. ASSUME NEW n \in Nat, n \in U PROVE n + 1 \in U
      <3> SUFFICES ASSUME n + 1 <= N PROVE f[n + 1] = g[n + 1]
        OBVIOUS
      <3>1. n + 1 \in 0..N /\ (n + 1) - 1 = n /\ n + 1 # 0 /\ f[n] = g[n]
        BY <1>1, <2>3
      <3> QED
        BY <2>1, <3>1
    <2>4. Nat \subseteq U
      <3> HIDE DEF U
      <3> QED
        BY <2>2, <2>3, Induct
    <2> QED
      BY <1>1, <2>4
  <1> DEFINE f == CHOOSE g : Upto(N, g)
  <1>8. Upto(N, f)
    <2> HIDE DEF Upto
    <2> QED
      BY <1>6
  <1>9. Executed(els, yes) = f[N]
    BY DEF Executed, N, start
  <1> HIDE DEF f, Upto
  <1>10. Sound(els, N, f[N])
    BY <1>6, <1>7, <1>8
  <1> QED
    BY <1>9, <1>10 DEF N

\* As the book ages, what fits it and what it has given out grow.
LEMMA Aging ==
    ASSUME Ages(orders, orders'), venue' = venue
    PROVE  Fitting \subseteq Fitting' /\ Taken \subseteq Taken'
  BY DEF Ages, Fitting, Taken, Fit, Accepted

\* It may grow by nothing.
LEMMA Stays ==
    ASSUME orders' = orders, venue' = venue
    PROVE  Fitting' = Fitting /\ Taken' = Taken
  BY DEF Fitting, Taken, Fit, Accepted

\* The part of the invariant about the book and the caller's requests holds on
\* as the book ages.
LEMMA BookAges ==
    ASSUME ClientInv, Ages(orders, orders'), orders' \in [OrderIds -> Order],
           TwinFree(orders)',
           UNCHANGED <<venue, tracked, told, listed, calls, slots, batch, queue>>,
           acked' \subseteq acked
    PROVE  CallsFit' /\ Registered' /\ Untwinned' /\ SlotsFilled' /\ AckedIsGone'
  <1>1. Fitting \subseteq Fitting' /\ Taken \subseteq Taken'
    BY Aging
  <1>2. Intended' = Intended
    BY DEF Intended
  <1>3. CallsFit'
    <2> SUFFICES ASSUME NEW c \in Callers
                 PROVE  /\ calls[c].plan \in Seq(Seq(Fitting'))
                        /\ calls[c].before \subseteq Taken'
                        /\ calls[c].op = "batch" => calls[c].plan \in Seq(Seq(Intended))
      BY <1>2 DEF CallsFit
    <2>1. /\ calls[c].plan \in Seq(Seq(Fitting)) /\ calls[c].before \subseteq Taken
          /\ calls[c].op = "batch" => calls[c].plan \in Seq(Seq(Intended))
      BY DEF ClientInv, CallsFit
    <2>2. Seq(Fitting) \subseteq Seq(Fitting')
      BY <1>1, SeqMonotonic
    <2>3. Seq(Seq(Fitting)) \subseteq Seq(Seq(Fitting'))
      BY <2>2, SeqMonotonic
    <2> QED
      BY <1>1, <2>1, <2>3
  <1>4. Registered'
    <2>1. /\ tracked \subseteq Taken /\ told \subseteq Taken /\ listed \subseteq Taken
          /\ Mapped => \A i \in told : orders[i].st = "open" => i \in tracked
      BY DEF ClientInv, Registered
    <2>2. \A i \in told : orders'[i].st = "open" => orders[i].st = "open"
      <3> SUFFICES ASSUME NEW i \in told, orders'[i].st = "open" PROVE orders[i].st = "open"
        OBVIOUS
      <3>1. i \in OrderIds /\ orders[i].st # "none"
        BY <2>1 DEF Taken, Accepted
      <3>2. orders[i] \in Order
        BY <3>1 DEF ClientInv, ClientTyped
      <3>3. orders[i].st # "gone"
        BY <3>1 DEF Ages
      <3> QED
        BY <3>1, <3>2, <3>3 DEF Order
    <2> QED
      BY <1>1, <2>1, <2>2 DEF Registered, Mapped
  <1>5. Untwinned'
    BY DEF TwinFree, Untwinned
  <1>6. SlotsFilled'
    BY <1>1 DEF ClientInv, SlotsFilled, Ages, Taken, Accepted
  <1>7. AckedIsGone'
    BY DEF ClientInv, AckedIsGone
  <1> QED
    BY <1>3, <1>4, <1>5, <1>6, <1>7

\* The venue's execution of a request.
LEMMA ExecuteKeeps ==
    ASSUME ClientInv, NEW k \in Slots, Execute(k)
    PROVE  ClientInv'
  <1> DEFINE cmd == cmds[k]
  <1>1. /\ cmds \in [Slots -> Cmd] /\ cmd \in Cmd /\ cmd.els \in Seq(Fitting)
        /\ cmd.st \in {"wire", "lost"} /\ cmd.stamp = cmd.age
        /\ calls \in [Callers -> CallRec]
    BY DEF Execute, ClientInv, ClientTyped, CmdsFit, Stamped
  <1>2. PICK yes \in [DOMAIN cmd.els -> BOOLEAN] :
            /\ orders' = Executed(cmd.els, yes).orders
            /\ acked' = Resting(acked, Executed(cmd.els, yes).orders)
            /\ cmds' = [cmds EXCEPT ![k] =
                     IF cmd.st = "lost" THEN Free
                     ELSE [@ EXCEPT !.st = "answered", !.ans = Executed(cmd.els, yes).ans]]
    BY DEF Execute
  <1>3. UNCHANGED <<venue, tracked, told, listed, calls, slots, batch, queue, link>>
    BY DEF Execute
  <1> DEFINE end == Executed(cmd.els, yes)
             N == Len(cmd.els)
  <1>4. Sound(cmd.els, N, end)
    <2>1. ClientTyped /\ TwinFree(orders)
      BY DEF ClientInv, Untwinned, TwinFree
    <2>2. cmd.els \in Seq(Fit(orders))
      BY <1>1 DEF Fitting
    <2> HIDE DEF cmd
    <2> QED
      BY <2>1, <2>2, ExecutesAll
  <1>5. N \in Nat /\ DOMAIN cmd.els = 1..N
    BY <1>1
  <1> HIDE DEF end, N
  <1>6. /\ end.orders \in [OrderIds -> Order] /\ end.ans \in Seq(Reply)
        /\ Ages(orders, end.orders) /\ TwinFree(end.orders) /\ Len(end.ans) = N
        /\ \A i \in 1..N : AnswerTrue(cmd.els[i], end.ans[i], end.orders, Accepted(orders))
    BY <1>4 DEF Sound, Midway
  <1> DEFINE after == IF cmd.st = "lost" THEN Free
                      ELSE [cmd EXCEPT !.st = "answered", !.ans = end.ans]
  <1>7. orders' = end.orders /\ acked' \subseteq acked /\ cmds' = [cmds EXCEPT ![k] = after]
    BY <1>2 DEF end, Resting
  <1>8. after \in Cmd /\ after.els \in Seq(Fitting) /\ after.stamp = after.age
    <2>1. CASE cmd.st = "lost"
      <3>1. after = Free /\ <<>> \in Seq(Element) /\ <<>> \in Seq(Reply) /\ <<>> \in Seq(Fitting)
        BY <2>1, EmptySeq
      <3> QED
        BY <3>1 DEF Free, Cmd
    <2>2. CASE cmd.st # "lost"
      BY <1>1, <1>6, <2>2 DEF Cmd
    <2> QED
      BY <2>1, <2>2
  <1>9. /\ cmd.st = "lost" => after.st = "free"
        /\ cmd.st # "lost" => after.st = "answered" /\ after.els = cmd.els /\ after.ans = end.ans
    BY <1>1 DEF Cmd, Free
  <1> HIDE DEF after
  <1>10. cmds'[k] = after /\ cmds' \in [Slots -> Cmd] /\ \A n \in Slots \ {k} : cmds'[n] = cmds[n]
    BY <1>1, <1>7, <1>8
  <1>11. TwinFree(orders)'
    BY <1>3, <1>6, <1>7 DEF TwinFree
  <1>12. CallsFit' /\ Registered' /\ Untwinned' /\ SlotsFilled' /\ AckedIsGone'
    BY <1>3, <1>6, <1>7, <1>11, BookAges
  <1>13. ClientTyped'
    BY <1>3, <1>6, <1>7, <1>10 DEF ClientInv, ClientTyped
  <1>14. Stamped'
    BY <1>8, <1>10 DEF ClientInv, Stamped
  <1>15. Linked'
    <2>1. \A c \in Callers : calls[c].req = k => cmd.st # "lost"
      BY ClientFacts DEF ClientInv, Linked
    <2>2. cmd.st # "lost" => cmd.st = "wire"
      BY <1>1
    <2> QED
      BY <1>3, <1>9, <1>10, <2>1, <2>2 DEF ClientInv, Linked, Waited, Waits, ClientTyped, CallRec
  <1>16. CmdsFit'
    <2>1. Fitting \subseteq Fitting' /\ Seq(Fitting) \subseteq Seq(Fitting')
      BY <1>3, <1>6, <1>7, Aging, SeqMonotonic
    <2>2. Intended' = Intended
      BY <1>3 DEF Intended
    <2>3. \A n \in Slots : cmds'[n].els \in Seq(Fitting')
      BY <1>8, <1>10, <2>1 DEF ClientInv, CmdsFit
    <2>4. ASSUME NEW c \in Callers, calls[c].op = "batch", calls[c].req # 0
          PROVE  cmds'[calls[c].req].els \in Seq(Intended)
      <3>1. cmds[calls[c].req].els \in Seq(Intended) /\ calls[c].req \in Slots
        BY <1>1, <2>4 DEF ClientInv, CmdsFit, CallRec
      <3>2. cmds'[calls[c].req].els = cmds[calls[c].req].els
        <4>1. CASE calls[c].req = k
          <5>1. cmd.st # "lost"
            BY <2>4, <4>1 DEF ClientInv, Linked
          <5> QED
            BY <1>9, <1>10, <4>1, <5>1
        <4> QED
          BY <1>10, <3>1, <4>1
      <3> QED
        BY <3>1, <3>2
    <2> QED
      BY <1>3, <2>2, <2>3, <2>4 DEF CmdsFit
  <1>17. Answered'
    <2> SUFFICES ASSUME NEW c \in Callers, calls[c].req # 0,
                        cmds'[calls[c].req].st = "answered"
                 PROVE  /\ Len(cmds'[calls[c].req].ans) = Len(cmds'[calls[c].req].els)
                        /\ \A n \in DOMAIN cmds'[calls[c].req].els :
                              AnswerTrue(cmds'[calls[c].req].els[n],
                                         cmds'[calls[c].req].ans[n], orders', calls[c].before)
      BY <1>3 DEF Answered
    <2>1. calls[c].req \in Slots /\ calls[c].before \subseteq Taken /\ Taken \subseteq OrderIds
      BY <1>1 DEF ClientInv, CallsFit, CallRec, Taken, Accepted
    <2>2. CASE calls[c].req = k
      <3>1. cmds'[k].els = cmd.els /\ cmds'[k].ans = end.ans
        BY <1>1, <1>9, <1>10, <2>2
      <3>2. ASSUME NEW n \in 1..N
            PROVE  AnswerTrue(cmd.els[n], end.ans[n], orders', calls[c].before)
        <4>1. AnswerTrue(cmd.els[n], end.ans[n], orders', Taken)
          BY <1>6, <1>7 DEF Taken
        <4>2. cmd.els[n] \in Fit(orders')
          <5>1. cmd.els[n] \in Fitting
            BY <1>1, <1>5
          <5> QED
            BY <1>6, <1>7, <5>1, FitsOn DEF Fitting
        <4>3. Ages(orders', orders')
          BY DEF Ages
        <4> QED
          BY <2>1, <4>1, <4>2, <4>3, TrueOn
      <3> QED
        BY <1>5, <1>6, <2>2, <3>1, <3>2 DEF N
    <2>3. CASE calls[c].req # k
      <3>1. cmds'[calls[c].req] = cmds[calls[c].req]
        BY <1>10, <2>1, <2>3
      <3> DEFINE r == cmds[calls[c].req]
      <3>2. /\ Len(r.ans) = Len(r.els)
            /\ \A n \in DOMAIN r.els : AnswerTrue(r.els[n], r.ans[n], orders, calls[c].before)
        BY <3>1 DEF ClientInv, Answered
      <3>3. r.els \in Seq(Fitting)
        BY <2>1 DEF ClientInv, CmdsFit
      <3> HIDE DEF r
      <3>4. ASSUME NEW n \in DOMAIN r.els
            PROVE  AnswerTrue(r.els[n], r.ans[n], orders', calls[c].before)
        <4>1. r.els[n] \in Fit(orders)
          BY <3>3 DEF Fitting
        <4> QED
          BY <1>6, <1>7, <2>1, <3>2, <4>1, TrueOn
      <3> QED
        BY <3>1, <3>2, <3>4 DEF r
    <2> QED
      BY <2>2, <2>3
  <1> QED
    BY <1>12, <1>13, <1>14, <1>15, <1>16, <1>17 DEF ClientInv

\* An order fills.
LEMMA FillKeeps ==
    ASSUME ClientInv, NEW i \in OrderIds, Fill(i)
    PROVE  ClientInv'
  <1>1. /\ orders[i].st = "open" /\ orders' = [orders EXCEPT ![i] = Ended(@)]
        /\ acked' = Resting(acked, orders')
        /\ UNCHANGED <<venue, tracked, told, listed, calls, slots, batch, cmds, queue, link>>
    BY DEF Fill, Open
  <1>2. orders \in [OrderIds -> Order]
    BY DEF ClientInv, ClientTyped
  <1> DEFINE o == Ended(orders[i])
  <1>3. o \in Order /\ o.st = "gone" /\ o.price = orders[i].price /\ o.twin = 0
    <2>1. orders[i] \in Order /\ 0 \in Ids
      BY <1>2, ClientFacts DEF Ids
    <2> QED
      BY <2>1 DEF Order, Ended
  <1>4. orders' = [orders EXCEPT ![i] = o]
    BY <1>1
  <1> HIDE DEF o
  <1>5. /\ orders' \in [OrderIds -> Order] /\ orders'[i] = o
        /\ \A j \in OrderIds \ {i} : orders'[j] = orders[j]
    BY <1>2, <1>3, <1>4
  <1>6. Ages(orders, orders')
    BY <1>1, <1>3, <1>5 DEF Ages
  <1>7. TwinFree(orders)'
    BY <1>1, <1>3, <1>5 DEF TwinFree, ClientInv, Untwinned
  <1>8. acked' \subseteq acked
    BY <1>1 DEF Resting
  <1>9. CallsFit' /\ Registered' /\ Untwinned' /\ SlotsFilled' /\ AckedIsGone'
    BY <1>1, <1>5, <1>6, <1>7, <1>8, BookAges
  <1>10. ClientTyped' /\ Stamped' /\ Linked'
    BY <1>1, <1>5 DEF ClientInv, ClientTyped, Stamped, Linked, Waited, Waits
  <1>11. CmdsFit'
    <2>1. Fitting \subseteq Fitting' /\ Seq(Fitting) \subseteq Seq(Fitting')
      BY <1>1, <1>6, Aging, SeqMonotonic
    <2>2. Intended' = Intended
      BY <1>1 DEF Intended
    <2> QED
      BY <1>1, <2>1, <2>2 DEF ClientInv, CmdsFit
  <1>12. Answered'
    <2> SUFFICES ASSUME NEW c \in Callers, calls[c].req # 0, cmds[calls[c].req].st = "answered"
                 PROVE  LET r == cmds[calls[c].req] IN
                        /\ Len(r.ans) = Len(r.els)
                        /\ \A n \in DOMAIN r.els :
                              AnswerTrue(r.els[n], r.ans[n], orders', calls[c].before)
      BY <1>1 DEF Answered
    <2> DEFINE r == cmds[calls[c].req]
    <2>1. /\ Len(r.ans) = Len(r.els)
          /\ \A n \in DOMAIN r.els : AnswerTrue(r.els[n], r.ans[n], orders, calls[c].before)
      BY DEF ClientInv, Answered
    <2>2. calls[c].req \in Slots /\ calls[c].before \in SUBSET OrderIds
      BY DEF ClientInv, ClientTyped, CallRec
    <2>3. r.els \in Seq(Fit(orders))
      BY <2>2 DEF ClientInv, CmdsFit, Fitting
    <2> HIDE DEF r
    <2>4. ASSUME NEW n \in DOMAIN r.els
          PROVE  AnswerTrue(r.els[n], r.ans[n], orders', calls[c].before)
      <3>1. r.els[n] \in Fit(orders)
        BY <2>3
      <3> QED
        BY <1>6, <2>1, <2>2, <3>1, TrueOn
    <2> QED
      BY <2>1, <2>4 DEF r
  <1> QED
    BY <1>9, <1>10, <1>11, <1>12 DEF ClientInv

-----------------------------------------------------------------------------
\* What a lost, orphaned or freed request still is.
Kept(cmd) == cmd \in Cmd /\ cmd.els \in Seq(Fitting) /\ cmd.stamp = cmd.age

\* A freed slot is a kept request of no elements.
LEMMA FreeKept == Kept(Free) /\ Free.st = "free"
  <1>1. <<>> \in Seq(Element) /\ <<>> \in Seq(Reply) /\ <<>> \in Seq(Fitting)
    BY EmptySeq
  <1> QED
    BY <1>1 DEF Kept, Free, Cmd

\* A request whose caller is gone (Orphan) is the request without what only the
\* caller would use.
LEMMA OrphanKept ==
    ASSUME NEW cmd, Kept(cmd)
    PROVE  Kept(Orphan(cmd)) /\ Orphan(cmd).st = cmd.st
  <1> DEFINE E(e) == [e EXCEPT !.slot = 0, !.own = FALSE, !.price = 0]
             els == [n \in DOMAIN cmd.els |-> E(cmd.els[n])]
  <1>1. \A n \in DOMAIN cmd.els : cmd.els[n] \in Fitting
    BY DEF Kept
  <1>2. ASSUME NEW e \in Fitting PROVE E(e) \in Fitting
    <2>1. e \in Element
      BY DEF Fitting, Fit
    <2>2. /\ E(e) \in Element /\ E(e).id = e.id /\ E(e).kind = e.kind /\ E(e).repl = e.repl
      BY <2>1 DEF Element
    <2> HIDE DEF E
    <2> QED
      BY <2>2 DEF Fitting, Fit
  <1>3. DOMAIN cmd.els = 1..Len(cmd.els) /\ Len(cmd.els) \in Nat
    BY DEF Kept
  <1> HIDE DEF E
  <1>4. els \in Seq(Fitting)
    BY <1>1, <1>2, <1>3, IsASeq
  <1>5. els \in Seq(Element)
    <2>1. Fitting \subseteq Element
      BY DEF Fitting, Fit
    <2> QED
      BY <1>4, <2>1, SeqMonotonic
  <1>6. Orphan(cmd) = [cmd EXCEPT !.by = "", !.els = els]
    BY DEF Orphan, E
  <1> HIDE DEF els
  <1> QED
    BY <1>4, <1>5, <1>6 DEF Kept, Cmd

\* A request lost on the wire may still reach the venue (Lost).
LEMMA LostKept ==
    ASSUME NEW cmd, Kept(cmd)
    PROVE  Kept(Lost(cmd)) /\ Lost(cmd).st \in {"free", "lost"}
  <1> DEFINE lost == [cmd EXCEPT !.st = "lost"]
  <1>1. Kept(lost) /\ lost.st = "lost"
    BY DEF Kept, Cmd
  <1>2. Lost(cmd) = Free \/ Lost(cmd) = Orphan(lost)
    BY DEF Lost
  <1> HIDE DEF lost
  <1> QED
    BY <1>1, <1>2, FreeKept, OrphanKept

\* What a caller that gives up leaves behind nobody waits for (Abandon).
LEMMA AbandonKept ==
    ASSUME NEW cmd, Kept(cmd)
    PROVE  Kept(Abandon(cmd)) /\ Abandon(cmd).st \notin {"wire", "answered"}
  <1>1. CASE cmd.st = "answered"
    BY <1>1, FreeKept DEF Abandon
  <1>2. CASE cmd.st = "wire"
    BY <1>2, LostKept DEF Abandon
  <1>3. CASE cmd.st \notin {"answered", "wire"}
    BY <1>3, OrphanKept DEF Abandon
  <1> QED
    BY <1>1, <1>2, <1>3

\* The requests in flight are kept, and what is in them is the invariant's.
LEMMA InFlight ==
    ASSUME ClientInv
    PROVE  /\ cmds \in [Slots -> Cmd] /\ \A k \in Slots : Kept(cmds[k])
           /\ \A k \in Slots : ~Waited(k) => cmds[k].st \notin {"wire", "answered"}
  BY DEF ClientInv, ClientTyped, CmdsFit, Stamped, Linked, Kept

\* What moves requests along and nothing else.
LEMMA Transport ==
    ASSUME ClientInv, cmds' \in [Slots -> Cmd], queue' \in Seq(Slots),
           UNCHANGED <<venue, orders, tracked, told, listed, acked, calls, slots, batch>>,
           \A k \in Slots : Kept(cmds'[k]),
           \A k \in Slots : Waited(k) =>
              /\ cmds'[k].els = cmds[k].els /\ cmds'[k].ans = cmds[k].ans
              /\ cmds'[k].st \in {"queued", "wire"} \/ cmds'[k].st = cmds[k].st,
           \A k \in Slots : ~Waited(k) => cmds'[k].st \notin {"wire", "answered"}
    PROVE  ClientInv'
  <1>1. Fitting' = Fitting /\ Taken' = Taken /\ Intended' = Intended
    BY Stays DEF Intended
  <1>2. ClientTyped'
    BY DEF ClientInv, ClientTyped
  <1>3. Stamped'
    BY DEF Stamped, Kept
  <1>4. \A c \in Callers : calls[c].req # 0 => calls[c].req \in Slots /\ Waited(calls[c].req)
    BY DEF ClientInv, ClientTyped, CallRec, Waited, Waits
  <1>5. Linked'
    <2>1. \A k \in Slots : Waited(k)' <=> Waited(k)
      BY DEF Waited, Waits
    <2> QED
      BY <1>4, <2>1 DEF ClientInv, Linked
  <1>6. CallsFit' /\ Registered' /\ Untwinned' /\ SlotsFilled' /\ AckedIsGone'
    BY <1>1 DEF ClientInv, CallsFit, Registered, Mapped, Untwinned, SlotsFilled, AckedIsGone
  <1>7. CmdsFit'
    BY <1>1, <1>4 DEF ClientInv, CmdsFit, Kept
  <1>8. Answered'
    BY <1>4 DEF ClientInv, Answered
  <1> QED
    BY <1>2, <1>3, <1>5, <1>6, <1>7, <1>8 DEF ClientInv

\* A lost request never arrives after all.
LEMMA VanishKeeps == ASSUME ClientInv, NEW k \in Slots, Vanish(k) PROVE ClientInv'
  <1>1. cmds \in [Slots -> Cmd] /\ \A n \in Slots : Kept(cmds[n])
    BY InFlight
  <1>2. cmds' = [cmds EXCEPT ![k] = Free] /\ cmds[k].st = "lost"
    BY DEF Vanish
  <1>3. ~Waited(k)
    BY <1>2, ClientFacts DEF ClientInv, Linked, Waited, Waits
  <1>4. /\ cmds' \in [Slots -> Cmd] /\ cmds'[k] = Free
        /\ \A n \in Slots \ {k} : cmds'[n] = cmds[n]
    BY <1>1, <1>2, FreeKept DEF Kept
  <1>5. UNCHANGED <<venue, orders, tracked, told, listed, acked, calls, slots, batch, queue>>
    BY DEF Vanish
  <1>6. queue' \in Seq(Slots)
    BY <1>5 DEF ClientInv, ClientTyped
  <1>7. \A n \in Slots : Kept(cmds'[n])
    BY <1>1, <1>4, FreeKept
  <1> QED
    BY <1>3, <1>4, <1>5, <1>6, <1>7, InFlight, FreeKept, Transport

\* The actor sends the next request of the channel (ws_order's loop).
LEMMA SendKeeps == ASSUME ClientInv, Send PROVE ClientInv'
  <1> DEFINE k == Head(queue)
             after == IF Waited(k) THEN [cmds[k] EXCEPT !.st = "wire"] ELSE Lost(cmds[k])
  <1>1. cmds \in [Slots -> Cmd] /\ \A n \in Slots : Kept(cmds[n])
    BY InFlight
  <1>2. queue \in Seq(Slots) /\ queue # <<>>
    BY DEF Send, ClientInv, ClientTyped
  <1>3. k \in Slots /\ queue' \in Seq(Slots)
    BY <1>2 DEF Send
  <1>4. cmds' = [cmds EXCEPT ![k] = after]
    BY DEF Send
  <1>5. UNCHANGED <<venue, orders, tracked, told, listed, acked, calls, slots, batch>>
    BY DEF Send
  <1> HIDE DEF k
  <1>6. CASE Waited(k)
    <2>1. /\ Kept(after) /\ after.els = cmds[k].els /\ after.ans = cmds[k].ans
          /\ after.st = "wire"
      BY <1>1, <1>3, <1>6 DEF Kept, Cmd
    <2> HIDE DEF after
    <2>2. /\ cmds' \in [Slots -> Cmd] /\ cmds'[k] = after
          /\ \A n \in Slots \ {k} : cmds'[n] = cmds[n]
      BY <1>1, <1>3, <1>4, <2>1 DEF Kept
    <2>3. \A n \in Slots : Kept(cmds'[n])
      BY <1>1, <2>1, <2>2
    <2> QED
      BY <1>3, <1>5, <1>6, <2>1, <2>2, <2>3, InFlight, Transport
  <1>7. CASE ~Waited(k)
    <2>1. Kept(after) /\ after.st \in {"free", "lost"}
      BY <1>1, <1>3, <1>7, LostKept
    <2> HIDE DEF after
    <2>2. /\ cmds' \in [Slots -> Cmd] /\ cmds'[k] = after
          /\ \A n \in Slots \ {k} : cmds'[n] = cmds[n]
      BY <1>1, <1>3, <1>4, <2>1 DEF Kept
    <2>3. \A n \in Slots : Kept(cmds'[n])
      BY <1>1, <2>1, <2>2
    <2> QED
      BY <1>3, <1>5, <1>7, <2>1, <2>2, <2>3, InFlight, Transport
  <1> QED
    BY <1>6, <1>7

\* Time passes: every request ages with its stamp, and a lost one past
\* recvWindow is refused by the venue.
LEMMA TickKeeps == ASSUME ClientInv, Tick PROVE ClientInv'
  <1>1. cmds \in [Slots -> Cmd] /\ \A n \in Slots : Kept(cmds[n])
    BY InFlight
  <1>2. cmds' = [k \in Slots |->
            IF cmds[k].st = "free" \/ (cmds[k].st = "lost" /\ cmds[k].stamp >= Window)
            THEN Free ELSE [cmds[k] EXCEPT !.age = Older(@), !.stamp = Older(@)]]
    BY DEF Tick
  <1>3. ASSUME NEW k \in Slots
        PROVE  /\ Kept(cmds'[k])
               /\ \/ cmds'[k] = Free /\ cmds[k].st \in {"free", "lost"}
                  \/ /\ cmds'[k].st = cmds[k].st /\ cmds'[k].els = cmds[k].els
                     /\ cmds'[k].ans = cmds[k].ans
    <2>1. CASE cmds'[k] = Free /\ cmds[k].st \in {"free", "lost"}
      BY <2>1, FreeKept
    <2>2. CASE cmds'[k] = [cmds[k] EXCEPT !.age = Older(@), !.stamp = Older(@)]
      <3>1. Kept(cmds[k])
        BY <1>1
      <3>2. Older(cmds[k].age) \in Nat /\ Older(cmds[k].stamp) = Older(cmds[k].age)
        <4>1. cmds[k].age \in Nat /\ cmds[k].stamp = cmds[k].age
          BY <3>1 DEF Kept, Cmd
        <4> QED
          BY <4>1 DEF Older
      <3> DEFINE n == Older(cmds[k].age)
      <3>3. cmds'[k] = [cmds[k] EXCEPT !.age = n, !.stamp = n]
        BY <2>2, <3>2
      <3> HIDE DEF n
      <3>4. n \in Nat
        BY <3>2 DEF n
      <3> QED
        BY <3>1, <3>3, <3>4 DEF Kept, Cmd
    <2> QED
      BY <1>2, <2>1, <2>2
  <1>4. cmds' \in [Slots -> Cmd]
    <2>1. \A k \in Slots : cmds'[k] \in Cmd
      BY <1>3 DEF Kept
    <2> QED
      BY <1>2, <2>1
  <1>5. /\ UNCHANGED <<venue, orders, tracked, told, listed, acked, calls, slots, batch, queue>>
    BY DEF Tick
  <1>6. queue' \in Seq(Slots)
    BY <1>5 DEF ClientInv, ClientTyped
  <1>7. \A k \in Slots : Waited(k) => cmds[k].st \notin {"free", "lost"}
    BY ClientFacts DEF ClientInv, Linked, Waited, Waits
  <1> QED
    BY <1>3, <1>4, <1>5, <1>6, <1>7, InFlight, FreeKept, Transport

\* Nothing but the link changes.
LEMMA RestKeeps ==
    ASSUME ClientInv,
           UNCHANGED <<venue, orders, tracked, told, listed, acked, calls, slots, batch,
                       cmds, queue>>
    PROVE  ClientInv'
  <1>1. cmds' \in [Slots -> Cmd] /\ queue' \in Seq(Slots)
    BY DEF ClientInv, ClientTyped
  <1>2. \A k \in Slots : Kept(cmds'[k])
    BY InFlight
  <1> QED
    BY <1>1, <1>2, InFlight, Transport

-----------------------------------------------------------------------------
\* What a caller's call is, with what it still has to send.
CallFine(call) ==
    /\ call \in CallRec /\ call.plan \in Seq(Seq(Fitting)) /\ call.before \subseteq Taken
    /\ call.op = "batch" => call.plan \in Seq(Seq(Intended))

\* Every caller's call is fine by the invariant.
LEMMA CallsFine ==
    ASSUME ClientInv
    PROVE  calls \in [Callers -> CallRec] /\ \A c \in Callers : CallFine(calls[c])
  BY DEF ClientInv, ClientTyped, CallsFit, CallFine

\* So is that of an idle caller.
LEMMA IdleFine == CallFine(Idle) /\ Idle.req = 0 /\ Idle.op = "idle"
  <1>1. <<>> \in Seq(Seq(Element)) /\ <<>> \in Seq(Seq(Fitting))
    BY EmptySeq
  <1> QED
    BY <1>1 DEF CallFine, Idle, CallRec, Operations

\* Callers begin, go on or give up; nobody waits for anything new.
LEMMA Calling ==
    ASSUME ClientInv, ClientTyped', UNCHANGED <<venue, orders, batch>>,
           \A c \in Callers : CallFine(calls'[c]),
           \A k \in Slots : Kept(cmds'[k]),
           \A c \in Callers :
              \/ calls'[c].req = 0
              \/ /\ calls'[c].req = calls[c].req /\ calls'[c].op = calls[c].op
                 /\ calls'[c].before = calls[c].before
                 /\ cmds'[calls[c].req] = cmds[calls[c].req],
           \A k \in Slots : cmds'[k].st \in {"wire", "answered"} => Waited(k)'
    PROVE  Stamped' /\ Linked' /\ CallsFit' /\ CmdsFit' /\ Answered' /\ Untwinned'
  <1>1. Fitting' = Fitting /\ Taken' = Taken /\ Intended' = Intended
    BY Stays DEF Intended
  <1>2. Stamped'
    BY DEF Stamped, Kept
  <1>3. Linked'
    BY DEF ClientInv, Linked
  <1>4. CallsFit'
    BY <1>1 DEF CallsFit, CallFine
  <1>5. CmdsFit'
    BY <1>1 DEF ClientInv, CmdsFit, Kept
  <1>6. Answered'
    BY DEF ClientInv, Answered
  <1>7. Untwinned'
    BY DEF ClientInv, Untwinned
  <1> QED
    BY <1>2, <1>3, <1>4, <1>5, <1>6, <1>7

\* A call begins.
LEMMA Begins ==
    ASSUME ClientInv, NEW c \in Callers, NEW op \in Operations, op # "batch",
           NEW todo \in Seq(Seq(Fitting)), NEW before \in SUBSET Taken, Begin(c, op, todo, before),
           UNCHANGED <<venue, orders, tracked, told, listed, slots, batch, cmds, queue, link>>,
           AckedIsGone'
    PROVE  ClientInv'
  <1> DEFINE call == [op |-> op, plan |-> todo, req |-> 0, before |-> before]
  <1>1. calls' = [calls EXCEPT ![c] = call] /\ calls[c] = Idle
    BY DEF Begin, MayBegin
  <1>2. CallFine(call)
    <2>1. Fitting \subseteq Element /\ Taken \subseteq OrderIds
      BY DEF Fitting, Fit, Taken, Accepted
    <2>2. todo \in Seq(Seq(Element))
      BY <2>1, SeqMonotonic
    <2> QED
      BY <2>1, <2>2 DEF CallFine, CallRec
  <1>3. call.req = 0
    OBVIOUS
  <1> HIDE DEF call
  <1>4. /\ calls' \in [Callers -> CallRec] /\ calls'[c] = call
        /\ \A d \in Callers \ {c} : calls'[d] = calls[d]
    BY <1>1, <1>2, CallsFine DEF CallFine
  <1>5. \A d \in Callers : CallFine(calls'[d])
    BY <1>2, <1>4, CallsFine
  <1>6. ClientTyped'
    BY <1>4 DEF ClientInv, ClientTyped
  <1>7. \A k \in Slots : Waited(k) => Waited(k)'
    BY <1>1, <1>4, IdleFine, ClientFacts DEF Waited, Waits
  <1>8. \A k \in Slots : Kept(cmds'[k]) /\ (cmds'[k].st \in {"wire", "answered"} => Waited(k)')
    BY <1>7, InFlight
  <1>9. Stamped' /\ Linked' /\ CallsFit' /\ CmdsFit' /\ Answered' /\ Untwinned'
    BY <1>3, <1>4, <1>5, <1>6, <1>8, Calling
  <1>10. Taken' = Taken
    BY Stays
  <1>11. Registered' /\ SlotsFilled'
    BY <1>10 DEF ClientInv, Registered, Mapped, SlotsFilled
  <1> QED
    BY <1>6, <1>9, <1>11 DEF ClientInv

\* The ids the runner has are ids the venue gave out.
LEMMA KnownTaken == ASSUME ClientInv PROVE Known \subseteq Taken /\ tracked \subseteq Taken
  BY DEF ClientInv, Registered, Known

\* An id outside the map is not that of a resting order the runner was told of.
LEMMA AcksFine ==
    ASSUME ClientInv, Mapped, NEW ids, ids \cap tracked = {}, acked' = acked \cup Acks(ids)
    PROVE  AckedIsGone'
  <1>1. ASSUME NEW m \in Acks(ids) PROVE ~m.told
    <2>1. PICK i \in ids \cap OpenIds : m = [id |-> i, told |-> i \in told]
      BY DEF Acks
    <2>2. i \notin told
      BY <2>1 DEF ClientInv, Registered, OpenIds, Open
    <2>3. m.told = (i \in told)
      BY <2>1
    <2> QED
      BY <2>2, <2>3
  <1> QED
    BY <1>1 DEF ClientInv, AckedIsGone

\* Single elements that fit.
LEMMA ActFits ==
    ASSUME NEW kind \in Kinds, kind # "place", NEW slot \in Nat, NEW i \in Taken
    PROVE  Act(kind, slot, i) \in Fitting
  <1>1. i \in OrderIds /\ i \in Ids /\ i # 0
    BY ClientFacts DEF Taken, Accepted, OrderIds, Ids
  <1> QED
    BY <1>1 DEF Act, Fitting, Fit, Element, Taken

\* A placement that replaces nothing, or an order that is gone.
LEMMA PlaceFits ==
    ASSUME NEW slot \in Nat, NEW price \in Nat, NEW own \in BOOLEAN, NEW repl \in Ids,
           repl # 0 /\ venue # "spot" => repl \in OrderIds /\ orders[repl].st = "gone"
    PROVE  Place(slot, price, own, repl) \in Fitting
  <1>1. 0 \in Ids
    BY ClientFacts DEF Ids
  <1> QED
    BY <1>1 DEF Place, Fitting, Fit, Element, Kinds

\* A request about all orders.
LEMMA AllFits ==
    ASSUME NEW kind \in {"cancelAll", "findAll", "list"}
    PROVE  Act(kind, 0, 0) \in Fitting
  <1>1. 0 \in Ids
    BY ClientFacts DEF Ids
  <1> QED
    BY <1>1 DEF Act, Fitting, Fit, Element, Kinds

\* One request of one element.
LEMMA OneFits == ASSUME NEW S, NEW e \in S PROVE << <<e>> >> \in Seq(Seq(S))
  <1>1. <<e>> \in Seq(S)
    OBVIOUS
  <1> DEFINE r == <<e>>
  <1> HIDE DEF r
  <1>2. r \in Seq(S)
    BY <1>1 DEF r
  <1>3. <<r>> \in Seq(Seq(S))
    BY <1>2
  <1> QED
    BY <1>3 DEF r

\* What a requote sends for an order it was told of: a modify on the
\* futures clients, a cancel (the first half of a swap) elsewhere, and only the
\* fresh order on spot for an id outside the map (requote).
LEMMA RequoteFits ==
    ASSUME NEW slot \in Nat, NEW i \in Taken
    PROVE  RequotePlan(slot, i) \in Seq(Seq(Fitting))
  <1>1. CASE Futures
    <2>1. RequotePlan(slot, i) = << <<Act("modify", slot, i)>> >>
      BY <1>1 DEF RequotePlan, Futures
    <2> QED
      BY <2>1, ActFits, OneFits DEF Kinds
  <1>2. CASE ~Futures /\ venue = "spot" /\ i \notin tracked
    <2>1. RequotePlan(slot, i) = << <<Place(slot, 0, FALSE, 0)>> >>
      BY <1>2 DEF RequotePlan
    <2>2. 0 \in Ids
      BY ClientFacts DEF Ids
    <2> QED
      BY <2>1, <2>2, PlaceFits, OneFits
  <1>3. CASE ~Futures /\ ~(venue = "spot" /\ i \notin tracked)
    <2>1. RequotePlan(slot, i) = << <<Act("swap", slot, i)>> >>
      BY <1>3 DEF RequotePlan
    <2> QED
      BY <2>1, ActFits, OneFits DEF Kinds
  <1> QED
    BY <1>1, <1>2, <1>3

\* A request for each of some ids.
LEMMA ListFits ==
    ASSUME NEW S \in SUBSET Taken, NEW kind \in Kinds, kind # "place", NEW els,
           \/ els = [n \in 1..Cardinality(S) |-> Act(kind, n, Listing(S)[n])]
           \/ els = [n \in 1..Cardinality(S) |-> Act(kind, 0, Listing(S)[n])]
    PROVE  <<els>> \in Seq(Seq(Fitting))
  <1>1. S \in SUBSET OrderIds
    BY DEF Taken, Accepted
  <1>2. Cardinality(S) \in Nat /\ \A n \in 1..Cardinality(S) : Listing(S)[n] \in Taken
    BY <1>1, Lists
  <1> DEFINE N == Cardinality(S)
  <1> HIDE DEF N
  <1>3. \A n \in 1..N : Act(kind, n, Listing(S)[n]) \in Fitting /\ Act(kind, 0, Listing(S)[n]) \in Fitting
    BY <1>2, ActFits DEF N
  <1>4. N \in Nat /\ DOMAIN els = 1..N /\ \A n \in 1..N : els[n] \in Fitting
    BY <1>2, <1>3 DEF N
  <1>5. els \in [1..N -> Fitting]
    BY <1>4 DEF N
  <1>6. els \in Seq(Fitting)
    BY <1>4, <1>5
  <1> QED
    BY <1>6

\* Each operation of the clients begins with requests that fit.
LEMMA CallKeeps ==
    ASSUME ClientInv, NEW c \in Callers, Call(c)
    PROVE  ClientInv'
  <1>1. {} \in SUBSET Taken /\ AckedIsGone
    BY DEF ClientInv
  <1>2. CASE Quote(c)
    <2> DEFINE todo == << <<Place(0, 0, TRUE, 0)>> >>
    <2>1. todo \in Seq(Seq(Fitting))
      <3>1. 0 \in Ids
        BY ClientFacts DEF Ids
      <3>2. Place(0, 0, TRUE, 0) \in Fitting
        BY <3>1, PlaceFits
      <3> QED
        BY <3>2, OneFits
    <2>2. Begin(c, "quote", todo, {})
      BY <1>2 DEF Quote
    <2>3. UNCHANGED <<venue, orders, tracked, told, listed, acked, slots, batch, cmds, queue, link>>
      BY <1>2 DEF Quote
    <2> HIDE DEF todo
    <2> QED
      BY <1>1, <2>1, <2>2, <2>3, Begins DEF Operations, AckedIsGone
  <1>3. ASSUME NEW i \in Known, Requote(c, i) PROVE ClientInv'
    <2>1. RequotePlan(0, i) \in Seq(Seq(Fitting))
      BY KnownTaken, RequoteFits
    <2>2. Begin(c, "requote", RequotePlan(0, i), {})
      BY <1>3 DEF Requote
    <2>3. UNCHANGED <<venue, orders, tracked, told, listed, acked, slots, batch, cmds, queue, link>>
      BY <1>3 DEF Requote
    <2> QED
      BY <1>1, <2>1, <2>2, <2>3, Begins DEF Operations, AckedIsGone
  <1>4. ASSUME NEW i \in Known, Cancel(c, i) PROVE ClientInv'
    <2>1. UNCHANGED <<venue, orders, tracked, told, listed, slots, batch, cmds, queue, link>>
      BY <1>4 DEF Cancel
    <2>2. CASE Mapped /\ i \notin tracked /\ acked' = acked \cup Acks({i}) /\ UNCHANGED calls
      <3>1. AckedIsGone'
        BY <2>2, AcksFine
      <3>2. Fitting' = Fitting /\ Taken' = Taken /\ Intended' = Intended
        BY <2>1, Stays DEF Intended
      <3> QED
        BY <2>1, <2>2, <3>1, <3>2 DEF ClientInv, ClientTyped, Stamped, Linked, Waited, Waits,
           CallsFit, CmdsFit, Answered, Registered, Mapped, Untwinned, SlotsFilled
    <2>3. ASSUME NEW kind \in {"cancel", "find"}, Begin(c, "cancel", << <<Act(kind, 0, i)>> >>, {}),
                 UNCHANGED acked
          PROVE  ClientInv'
      <3> DEFINE todo == << <<Act(kind, 0, i)>> >>
      <3>1. todo \in Seq(Seq(Fitting))
        BY KnownTaken, ActFits, OneFits DEF Kinds
      <3>2. Begin(c, "cancel", todo, {})
        BY <2>3
      <3> HIDE DEF todo
      <3> QED
        BY <1>1, <2>1, <2>3, <3>1, <3>2, Begins DEF Operations, AckedIsGone
    <2> QED
      BY <1>4, <2>2, <2>3 DEF Cancel
  <1>5. ASSUME NEW ids \in SUBSET Known, BatchRequote(c, ids) PROVE ClientInv'
    <2> DEFINE els == [n \in 1..Cardinality(ids) |-> Act("modify", n, Listing(ids)[n])]
    <2>1. <<els>> \in Seq(Seq(Fitting))
      <3>1. ids \in SUBSET Taken
        BY KnownTaken
      <3> QED
        BY <3>1, ListFits DEF Kinds
    <2>2. Begin(c, "requotes", <<els>>, {})
      BY <1>5 DEF BatchRequote
    <2>3. UNCHANGED <<venue, orders, tracked, told, listed, acked, slots, batch, cmds, queue, link>>
      BY <1>5 DEF BatchRequote
    <2> HIDE DEF els
    <2> QED
      BY <1>1, <2>1, <2>2, <2>3, Begins DEF Operations, AckedIsGone
  <1>6. ASSUME NEW ids \in SUBSET Known, BatchCancel(c, ids) PROVE ClientInv'
    <2> DEFINE known == ids \cap tracked
               els == [n \in 1..Cardinality(known) |-> Act("cancel", n, Listing(known)[n])]
    <2>1. /\ UNCHANGED <<venue, orders, tracked, told, listed, slots, batch, cmds, queue, link>>
          /\ venue = "rest" /\ acked' = acked \cup Acks(ids \ tracked)
      BY <1>6 DEF BatchCancel
    <2>2. AckedIsGone'
      BY <2>1, AcksFine DEF Mapped
    <2>3. CASE UNCHANGED calls
      <3>1. Fitting' = Fitting /\ Taken' = Taken /\ Intended' = Intended
        BY <2>1, Stays DEF Intended
      <3> QED
        BY <2>1, <2>2, <2>3, <3>1 DEF ClientInv, ClientTyped, Stamped, Linked, Waited, Waits,
           CallsFit, CmdsFit, Answered, Registered, Mapped, Untwinned, SlotsFilled
    <2>4. CASE Begin(c, "cancels", <<els>>, {})
      <3>1. <<els>> \in Seq(Seq(Fitting))
        <4>1. known \in SUBSET Taken
          BY KnownTaken
        <4> QED
          BY <4>1, ListFits DEF Kinds
      <3> HIDE DEF els
      <3> QED
        BY <1>1, <2>1, <2>2, <2>4, <3>1, Begins DEF Operations
    <2> QED
      BY <1>6, <2>3, <2>4 DEF BatchCancel
  <1>7. CASE CancelAll(c)
    <2>1. PICK kind \in {"cancelAll", "findAll"} : Begin(c, "cancelAll", << <<Act(kind, 0, 0)>> >>, {})
      BY <1>7 DEF CancelAll
    <2> DEFINE todo == << <<Act(kind, 0, 0)>> >>
    <2>2. todo \in Seq(Seq(Fitting))
      BY AllFits, OneFits
    <2>3. Begin(c, "cancelAll", todo, {})
      BY <2>1
    <2>4. UNCHANGED <<venue, orders, tracked, told, listed, acked, slots, batch, cmds, queue, link>>
      BY <1>7 DEF CancelAll
    <2> HIDE DEF todo
    <2> QED
      BY <1>1, <2>2, <2>3, <2>4, Begins DEF Operations, AckedIsGone
  <1>8. CASE OpenOrders(c)
    <2> DEFINE todo == << <<Act("list", 0, 0)>> >>
    <2>1. todo \in Seq(Seq(Fitting))
      BY AllFits, OneFits
    <2>2. Begin(c, "list", todo, tracked)
      BY <1>8 DEF OpenOrders
    <2>3. UNCHANGED <<venue, orders, tracked, told, listed, acked, slots, batch, cmds, queue, link>>
      BY <1>8 DEF OpenOrders
    <2>4. tracked \in SUBSET Taken
      BY KnownTaken
    <2> HIDE DEF todo
    <2> QED
      BY <1>1, <2>1, <2>2, <2>3, <2>4, Begins DEF Operations, AckedIsGone
  <1> QED
    BY <1>2, <1>3, <1>4, <1>5, <1>6, <1>7, <1>8 DEF Call

-----------------------------------------------------------------------------
\* The first free slot.
LEMMA SlotFree ==
    ASSUME FreeSlots # {}
    PROVE  \E k \in FreeSlots : \A m \in FreeSlots : k <= m
  <1>1. FreeSlots \in SUBSET Nat
    BY ClientFacts DEF FreeSlots
  <1> QED
    BY <1>1, Least

\* A caller's next request goes out.
LEMMA RequestKeeps == ASSUME ClientInv, NEW c \in Callers, Request(c) PROVE ClientInv'
  <1> DEFINE k == CHOOSE n \in FreeSlots : \A m \in FreeSlots : n <= m
             els == Head(calls[c].plan)
             cmd == [by |-> c, els |-> els, st |-> IF OverWs(els) THEN "queued" ELSE "wire",
                     age |-> 0, stamp |-> 0, ans |-> <<>>]
             call == [calls[c] EXCEPT !.plan = Tail(calls[c].plan), !.req = k]
  <1>1. /\ calls[c].plan # <<>> /\ calls[c].req = 0 /\ FreeSlots # {}
        /\ UNCHANGED <<venue, orders, tracked, told, listed, acked, slots, batch, link>>
    BY DEF Request, Ready
  <1>2. /\ cmds' = [cmds EXCEPT ![k] = cmd]
        /\ calls' = [calls EXCEPT ![c].plan = Tail(@), ![c].req = k]
        /\ queue' = IF OverWs(els) THEN Append(queue, k) ELSE queue
    BY DEF Request
  <1>3. k \in Slots /\ cmds[k].st = "free" /\ k # 0
    <2>1. k \in FreeSlots
      BY <1>1, SlotFree
    <2> HIDE DEF k
    <2> QED
      BY <2>1, ClientFacts DEF FreeSlots
  <1> HIDE DEF k
  <1>4. calls \in [Callers -> CallRec] /\ CallFine(calls[c])
    BY CallsFine
  <1>5. cmds \in [Slots -> Cmd] /\ \A n \in Slots : Kept(cmds[n])
    BY InFlight
  <1>6. /\ els \in Seq(Element) /\ els \in Seq(Fitting)
        /\ calls[c].op = "batch" => els \in Seq(Intended)
    <2>1. calls[c].plan \in Seq(Seq(Element))
      BY <1>4 DEF CallRec
    <2> QED
      BY <1>1, <1>4, <2>1 DEF CallFine
  <1>7. cmd \in Cmd /\ Kept(cmd)
    <2>1. <<>> \in Seq(Reply)
      BY EmptySeq
    <2> HIDE DEF els
    <2> QED
      BY <1>6, <2>1 DEF Kept, Cmd
  <1>8. cmd.st \in {"queued", "wire"} /\ cmd.els = els
    OBVIOUS
  <1>9. CallFine(call) /\ call.req = k /\ call.op = calls[c].op /\ call.before = calls[c].before
    <2> DEFINE tail == Tail(calls[c].plan)
    <2>1. /\ tail \in Seq(Seq(Element)) /\ tail \in Seq(Seq(Fitting))
          /\ calls[c].op = "batch" => tail \in Seq(Seq(Intended))
      <3>1. calls[c].plan \in Seq(Seq(Element))
        BY <1>4 DEF CallRec
      <3> QED
        BY <1>1, <1>4, <3>1 DEF CallFine
    <2>2. call = [calls[c] EXCEPT !.plan = tail, !.req = k]
      OBVIOUS
    <2> HIDE DEF tail, call
    <2> QED
      BY <1>3, <1>4, <2>1, <2>2 DEF CallFine, CallRec
  <1> HIDE DEF cmd, els, call
  <1>10. /\ cmds' \in [Slots -> Cmd] /\ cmds'[k] = cmd
         /\ \A n \in Slots \ {k} : cmds'[n] = cmds[n]
    BY <1>2, <1>3, <1>5, <1>7
  <1>11. /\ calls' \in [Callers -> CallRec] /\ calls'[c] = call
         /\ \A d \in Callers \ {c} : calls'[d] = calls[d]
    <2> DEFINE half == [calls[c] EXCEPT !.plan = Tail(calls[c].plan)]
               a == [calls EXCEPT ![c] = half]
    <2>1. calls' = [a EXCEPT ![c].req = k]
      BY <1>2
    <2>2. a[c] = half /\ c \in DOMAIN a /\ DOMAIN a = Callers
          /\ \A d \in Callers \ {c} : a[d] = calls[d]
      BY <1>4
    <2>3. call = [half EXCEPT !.req = k]
      BY DEF call
    <2> HIDE DEF a, half
    <2>4. calls' = [a EXCEPT ![c] = call]
      BY <2>1, <2>2, <2>3
    <2>5. DOMAIN calls' = Callers /\ calls'[c] = call
          /\ \A d \in Callers \ {c} : calls'[d] = calls[d]
      BY <2>2, <2>4
    <2>6. calls' = [d \in Callers |-> calls'[d]]
      BY <2>2, <2>4
    <2>7. \A d \in Callers : calls'[d] \in CallRec
      BY <1>4, <1>9, <2>5 DEF CallFine
    <2> QED
      BY <2>5, <2>6, <2>7
  <1>12. queue' \in Seq(Slots)
    <2>1. queue \in Seq(Slots)
      BY DEF ClientInv, ClientTyped
    <2> QED
      BY <1>2, <1>3, <2>1
  <1>13. \A d \in Callers : calls[d].req # k
    BY <1>3 DEF ClientInv, Linked
  <1>14. Fitting' = Fitting /\ Taken' = Taken /\ Intended' = Intended
    BY <1>1, Stays DEF Intended
  <1>15. ClientTyped'
    BY <1>1, <1>10, <1>11, <1>12 DEF ClientInv, ClientTyped
  <1>16. Stamped'
    BY <1>5, <1>7, <1>10 DEF Stamped, Kept
  <1>17. Linked'
    <2>1. ASSUME NEW d \in Callers, calls'[d].req # 0
          PROVE  /\ cmds'[calls'[d].req].st \in {"queued", "wire", "answered"}
                 /\ \A x \in Callers : calls'[x].req = calls'[d].req => x = d
      <3>1. CASE d = c
        BY <1>8, <1>9, <1>10, <1>11, <1>13, <3>1
      <3>2. CASE d # c
        <4>1. calls'[d] = calls[d] /\ calls[d].req # k /\ calls[d].req \in Slots
          BY <1>4, <1>11, <1>13, <2>1, <3>2 DEF CallRec
        <4> QED
          BY <1>9, <1>10, <1>11, <2>1, <4>1 DEF ClientInv, Linked
      <3> QED
        BY <3>1, <3>2
    <2>2. ASSUME NEW n \in Slots, cmds'[n].st \in {"wire", "answered"}
          PROVE  \E d \in Callers : calls'[d].req = n
      <3>1. CASE n = k
        BY <1>9, <1>11, <3>1
      <3>2. CASE n # k
        <4>1. PICK d \in Callers : calls[d].req = n
          BY <1>10, <2>2, <3>2 DEF ClientInv, Linked, Waited, Waits
        <4>2. d # c
          BY <1>1, <4>1, ClientFacts
        <4> QED
          BY <1>11, <4>1, <4>2
      <3> QED
        BY <3>1, <3>2
    <2> QED
      BY <2>1, <2>2 DEF Linked, Waited, Waits
  <1>18. CallsFit'
    BY <1>9, <1>11, <1>14, CallsFine DEF CallsFit, CallFine
  <1>19. CmdsFit'
    <2>1. \A n \in Slots : cmds'[n].els \in Seq(Fitting)
      BY <1>5, <1>7, <1>10 DEF Kept
    <2>2. ASSUME NEW d \in Callers, calls'[d].op = "batch", calls'[d].req # 0
          PROVE  cmds'[calls'[d].req].els \in Seq(Intended)
      <3>1. CASE d = c
        BY <1>6, <1>8, <1>9, <1>10, <1>11, <2>2, <3>1
      <3>2. CASE d # c
        <4>1. calls'[d] = calls[d] /\ calls[d].req # k /\ calls[d].req \in Slots
          BY <1>4, <1>11, <1>13, <2>2, <3>2 DEF CallRec
        <4> QED
          BY <1>10, <2>2, <4>1 DEF ClientInv, CmdsFit
      <3> QED
        BY <3>1, <3>2
    <2> QED
      BY <1>14, <2>1, <2>2 DEF CmdsFit
  <1>20. Answered'
    <2> SUFFICES ASSUME NEW d \in Callers, calls'[d].req # 0, cmds'[calls'[d].req].st = "answered"
                 PROVE  LET r == cmds'[calls'[d].req] IN
                        /\ Len(r.ans) = Len(r.els)
                        /\ \A n \in DOMAIN r.els :
                              AnswerTrue(r.els[n], r.ans[n], orders, calls'[d].before)
      BY <1>1 DEF Answered
    <2>1. d # c
      BY <1>8, <1>9, <1>10, <1>11
    <2>2. calls'[d] = calls[d] /\ calls[d].req # k /\ calls[d].req \in Slots
      BY <1>4, <1>11, <1>13, <2>1 DEF CallRec
    <2>3. cmds'[calls'[d].req] = cmds[calls[d].req]
      BY <1>10, <2>2
    <2> QED
      BY <2>2, <2>3 DEF ClientInv, Answered
  <1>21. Registered' /\ Untwinned' /\ SlotsFilled' /\ AckedIsGone'
    BY <1>1, <1>14 DEF ClientInv, Registered, Mapped, Untwinned, SlotsFilled, AckedIsGone
  <1> QED
    BY <1>15, <1>16, <1>17, <1>18, <1>19, <1>20, <1>21 DEF ClientInv

\* Cutting a list of elements into requests.
LEMMA Cuts ==
    ASSUME NEW S, NEW sq \in Seq(S)
    PROVE  Chunks(sq) \in Seq(Seq(S))
  <1> DEFINE q == (Len(sq) + Chunk - 1) \div Chunk
             lo(j) == (j - 1) * Chunk + 1
             hi(j) == IF j * Chunk < Len(sq) THEN j * Chunk ELSE Len(sq)
             parts == [j \in 1..q |-> SubSeq(sq, lo(j), hi(j))]
  <1>1. Len(sq) \in Nat /\ Chunk \in Nat /\ Chunk >= 1
    BY ClientFacts
  <1>2. q \in Nat /\ q * Chunk <= Len(sq) + Chunk - 1
    BY <1>1
  <1> HIDE DEF q
  <1>3. ASSUME NEW j \in 1..q PROVE SubSeq(sq, lo(j), hi(j)) \in Seq(S)
    <2>1. j \in Nat /\ j >= 1 /\ j <= q
      BY <1>2
    <2>2. j * Chunk \in Nat /\ (j - 1) * Chunk \in Nat /\ (j - 1) * Chunk = j * Chunk - Chunk
      BY <1>1, <2>1
    <2>3. j * Chunk <= q * Chunk
      BY <1>1, <1>2, <2>1
    <2>4. (j - 1) * Chunk + 1 <= Len(sq)
      BY <1>1, <1>2, <2>2, <2>3
    <2> DEFINE a == (j - 1) * Chunk
               b == j * Chunk
    <2>5. a \in Nat /\ b \in Nat /\ b = a + Chunk /\ a + 1 <= Len(sq)
      BY <1>1, <2>2, <2>4
    <2> HIDE DEF a, b
    <2>6. lo(j) = a + 1 /\ hi(j) = IF b < Len(sq) THEN b ELSE Len(sq)
      BY DEF a, b
    <2> HIDE DEF lo, hi
    <2>7. lo(j) \in 1..Len(sq) + 1 /\ hi(j) \in lo(j) - 1..Len(sq)
      BY <1>1, <2>5, <2>6
    <2> QED
      BY <2>7, SubSeqProperties
  <1>4. Chunks(sq) = parts
    BY DEF Chunks, q
  <1> HIDE DEF lo, hi
  <1>5. parts \in Seq(Seq(S))
    BY <1>2, <1>3
  <1> QED
    BY <1>4, <1>5

\* A batch of intents becomes calls that place them, each in its own slot.
LEMMA BatchQuoteKeeps ==
    ASSUME ClientInv, NEW b \in Batches, NEW good \in SUBSET DOMAIN b, BatchQuote(b, good)
    PROVE  ClientInv'
  <1>1. /\ \A c \in Callers : calls[c] = Idle
        /\ batch' = b /\ slots' = [n \in DOMAIN b |-> 0]
        /\ UNCHANGED <<venue, orders, tracked, told, listed, acked, cmds, queue, link>>
    BY DEF BatchQuote
  <1>2. b \in Seq([side : {"bid", "ask"}, price : Nat])
    BY ClientFacts
  <1>3. Fitting' = Fitting /\ Taken' = Taken
    BY <1>1, Stays
  <1> DEFINE Mine == {e \in Fitting :
                 e.kind = "place" /\ e.slot \in DOMAIN b /\ e.price = b[e.slot].price}
  <1>4. Mine \subseteq Fitting /\ Mine \subseteq Element /\ Mine \subseteq Intended'
    BY <1>1 DEF Fitting, Fit, Intended
  <1>5. ASSUME NEW n \in DOMAIN b PROVE Place(n, b[n].price, TRUE, 0) \in Mine
    <2> DEFINE I == [side : {"bid", "ask"}, price : Nat]
    <2>1. b \in Seq(I)
      BY <1>2
    <2> HIDE DEF I
    <2>2. n \in 1..Len(b) /\ n \in Nat
      BY <2>1
    <2>3. b[n] \in I
      BY <2>1, <2>2
    <2>4. n \in Nat /\ b[n] \in [side : {"bid", "ask"}, price : Nat]
      BY <2>2, <2>3 DEF I
    <2>5. n \in Nat /\ b[n].price \in Nat /\ 0 \in Ids
      BY <2>4, ClientFacts DEF Ids
    <2>6. Place(n, b[n].price, TRUE, 0) \in Fitting
      BY <2>5, PlaceFits
    <2> QED
      BY <2>6 DEF Place
  <1> HIDE DEF Mine
  <1>6. ASSUME NEW s \in {"bid", "ask"}, NEW run \in SideSlots(b, good, s)
        PROVE  /\ SideBatches(b, run) \in Seq(Seq(Mine))
               /\ [m \in DOMAIN run |-> <<Place(run[m], b[run[m]].price, TRUE, 0)>>] \in Seq(Seq(Mine))
    <2> DEFINE mine == {n \in good : b[n].side = s}
               N == Cardinality(mine)
    <2>1. run \in [1..N -> mine]
      BY DEF SideSlots
    <2>2. N \in Nat
      <3>1. IsFiniteSet(1..Len(b))
        BY <1>2, FS_Interval
      <3>2. mine \in SUBSET (1..Len(b))
        BY <1>2
      <3>3. IsFiniteSet(mine)
        BY <3>1, <3>2, FS_Subset
      <3> QED
        BY <3>3, FS_CardinalityType
    <2> HIDE DEF N
    <2>3. \A m \in 1..N : run[m] \in DOMAIN b
      BY <2>1
    <2> DEFINE e(m) == Place(run[m], b[run[m]].price, TRUE, 0)
    <2>4. \A m \in 1..N : e(m) \in Mine
      BY <1>5, <2>3
    <2>5. DOMAIN run = 1..N
      BY <2>1
    <2>6. SideBatches(b, run) = Chunks([m \in 1..N |-> e(m)])
      BY <2>5 DEF SideBatches
    <2>7. [m \in DOMAIN run |-> <<Place(run[m], b[run[m]].price, TRUE, 0)>>] = [m \in 1..N |-> <<e(m)>>]
      BY <2>5
    <2> HIDE DEF e
    <2>8. [m \in 1..N |-> e(m)] \in Seq(Mine)
      BY <2>2, <2>4
    <2>9. [m \in 1..N |-> <<e(m)>>] \in Seq(Seq(Mine))
      <3>1. \A m \in 1..N : <<e(m)>> \in Seq(Mine)
        BY <2>4
      <3> QED
        BY <2>2, <3>1
    <2> QED
      BY <2>6, <2>7, <2>8, <2>9, Cuts
  <1>7. ASSUME NEW c \in Callers
        PROVE  calls'[c] = Idle \/ \E todo \in Seq(Seq(Mine)) :
                  calls'[c] = [op |-> "batch", plan |-> todo, req |-> 0, before |-> {}]
    <2>1. PICK legs \in [Callers -> {"bid", "ask"}],
               bids \in SideSlots(b, good, "bid"), asks \in SideSlots(b, good, "ask") :
          /\ \A x, y \in Callers : x # y => legs[x] # legs[y]
          /\ calls' = [d \in Callers |->
                LET run  == IF legs[d] = "bid" THEN bids ELSE asks
                    todo == IF venue = "rest" THEN SideBatches(b, run)
                            ELSE [m \in DOMAIN run |->
                                    <<Place(run[m], b[run[m]].price, TRUE, 0)>>]
                IN IF todo = <<>> THEN Idle
                   ELSE [op |-> "batch", plan |-> todo, req |-> 0, before |-> {}]]
      BY Zenon DEF BatchQuote
    <2> DEFINE run == IF legs[c] = "bid" THEN bids ELSE asks
               one == [m \in DOMAIN run |-> <<Place(run[m], b[run[m]].price, TRUE, 0)>>]
               todo == IF venue = "rest" THEN SideBatches(b, run) ELSE one
    <2>2. SideBatches(b, run) \in Seq(Seq(Mine)) /\ one \in Seq(Seq(Mine))
      <3>1. CASE legs[c] = "bid"
        BY <1>6, <3>1
      <3>2. CASE legs[c] # "bid"
        BY <1>6, <3>2
      <3> QED
        BY <3>1, <3>2
    <2>3. todo \in Seq(Seq(Mine))
      <3> HIDE DEF one, run
      <3> QED
        BY <2>2
    <2>4. calls'[c] = IF todo = <<>> THEN Idle
                      ELSE [op |-> "batch", plan |-> todo, req |-> 0, before |-> {}]
      BY <2>1
    <2> HIDE DEF todo
    <2> QED
      BY <2>3, <2>4
  <1>8. ASSUME NEW c \in Callers
        PROVE  /\ calls'[c] \in CallRec /\ calls'[c].req = 0
               /\ calls'[c].plan \in Seq(Seq(Fitting)) /\ calls'[c].before \subseteq Taken
               /\ calls'[c].op = "batch" => calls'[c].plan \in Seq(Seq(Intended'))
    <2>1. CASE calls'[c] = Idle
      BY <2>1, IdleFine DEF CallFine
    <2>2. ASSUME NEW todo \in Seq(Seq(Mine)),
                 calls'[c] = [op |-> "batch", plan |-> todo, req |-> 0, before |-> {}]
          PROVE  /\ calls'[c] \in CallRec /\ calls'[c].req = 0
                 /\ calls'[c].plan \in Seq(Seq(Fitting)) /\ calls'[c].before \subseteq Taken
                 /\ calls'[c].op = "batch" => calls'[c].plan \in Seq(Seq(Intended'))
      <3>1. /\ todo \in Seq(Seq(Fitting)) /\ todo \in Seq(Seq(Element))
            /\ todo \in Seq(Seq(Intended'))
        BY <1>4, SeqMonotonic
      <3> QED
        BY <2>2, <3>1 DEF CallRec, Operations
    <2> QED
      BY <1>7, <2>1, <2>2
  <1>9. calls' \in [Callers -> CallRec]
    <2>1. \E f : calls' = [c \in Callers |-> f[c]]
      BY DEF BatchQuote
    <2> QED
      BY <1>8, <2>1
  <1>10. ClientTyped'
    <2>1. 0 \in Ids
      BY ClientFacts DEF Ids
    <2> QED
      BY <1>1, <1>2, <1>9, <2>1 DEF ClientInv, ClientTyped
  <1>11. Stamped' /\ AckedIsGone'
    BY <1>1 DEF ClientInv, Stamped, AckedIsGone
  <1>12. Linked'
    <2>1. \A k \in Slots : ~Waited(k)
      BY <1>1, IdleFine, ClientFacts DEF Waited, Waits
    <2>2. \A k \in Slots : cmds'[k].st \notin {"wire", "answered"}
      BY <1>1, <2>1, InFlight
    <2> QED
      BY <1>8, <2>2 DEF Linked
  <1>13. CallsFit' /\ CmdsFit' /\ Answered'
    BY <1>1, <1>3, <1>8 DEF ClientInv, CallsFit, CmdsFit, Answered
  <1>14. Registered' /\ Untwinned'
    BY <1>1, <1>3 DEF ClientInv, Registered, Mapped, Untwinned
  <1>15. SlotsFilled'
    BY <1>1 DEF SlotsFilled
  <1> QED
    BY <1>10, <1>11, <1>12, <1>13, <1>14, <1>15 DEF ClientInv

\* The results of a batch have been handed over.
LEMMA BatchDoneKeeps == ASSUME ClientInv, BatchDone PROVE ClientInv'
  <1>1. /\ \A c \in Callers : calls[c] = Idle
        /\ batch' = <<>> /\ slots' = <<>>
        /\ orders' = [i \in OrderIds |-> [orders[i] EXCEPT !.price = 0]]
        /\ UNCHANGED <<venue, tracked, told, listed, acked, calls, cmds, queue, link>>
    BY DEF BatchDone
  <1>2. orders \in [OrderIds -> Order]
    BY DEF ClientInv, ClientTyped
  <1>3. \A i \in OrderIds : /\ orders'[i] \in Order /\ orders'[i].st = orders[i].st
                            /\ orders'[i].twin = orders[i].twin
    BY <1>1, <1>2 DEF Order
  <1>4. orders' \in [OrderIds -> Order]
    BY <1>1, <1>3
  <1>5. Taken' = Taken
    BY <1>3 DEF Taken, Accepted
  <1>6. Fitting' = Fitting
    BY <1>1, <1>3, <1>5 DEF Fitting, Fit, Taken
  <1>7. \A c \in Callers : calls[c].req = 0 /\ calls[c].op = "idle"
    BY <1>1, IdleFine
  <1>8. ClientTyped'
    BY <1>1, <1>4, EmptySeq DEF ClientInv, ClientTyped
  <1>9. Stamped' /\ Linked' /\ AckedIsGone'
    BY <1>1 DEF ClientInv, Stamped, Linked, Waited, Waits, AckedIsGone
  <1>10. CallsFit' /\ CmdsFit' /\ Answered'
    BY <1>1, <1>5, <1>6, <1>7 DEF ClientInv, CallsFit, CmdsFit, Answered
  <1>11. Registered' /\ Untwinned'
    BY <1>1, <1>3, <1>5 DEF ClientInv, Registered, Mapped, Untwinned, Taken, Accepted
  <1>12. SlotsFilled'
    BY <1>1 DEF SlotsFilled
  <1> QED
    BY <1>8, <1>9, <1>10, <1>11, <1>12 DEF ClientInv

-----------------------------------------------------------------------------
\* What the result of an element may say: only true things, and no more to
\* send than fits.
Good(c, e, r) ==
    /\ r.more \in Seq(Seq(Fitting)) /\ (calls[c].op = "batch" => r.more = <<>>)
    /\ r.add \subseteq Taken /\ r.tell \subseteq Taken /\ r.list \subseteq Taken
    /\ Mapped => r.tell \subseteq r.add
    /\ \A i \in r.drop \cup r.ack : i \in OrderIds /\ orders[i].st = "gone"
    /\ r.slot \in Ids
    /\ calls[c].op = "batch" /\ r.slot # 0 =>
          r.slot \in Taken /\ orders[r.slot].price = batch[e.slot].price

\* A result that says which orders are gone and, perhaps, what to send next.
LEMMA Says ==
    ASSUME NEW c \in Callers, NEW e, NEW r,
           r.add = {}, r.tell = {}, r.list = {}, r.slot = 0,
           r.more \in Seq(Seq(Fitting)), calls[c].op = "batch" => r.more = <<>>,
           \A i \in r.drop \cup r.ack : i \in OrderIds /\ orders[i].st = "gone"
    PROVE  Good(c, e, r)
  <1>1. 0 \in Ids
    BY ClientFacts DEF Ids
  <1> QED
    BY <1>1 DEF Good

\* A result that says nothing,
LEMMA SaysNothing == ASSUME NEW c \in Callers, NEW e PROVE Good(c, e, Nothing)
  <1>1. <<>> \in Seq(Seq(Fitting))
    BY EmptySeq
  <1>2. /\ Nothing.add = {} /\ Nothing.tell = {} /\ Nothing.list = {} /\ Nothing.slot = 0
        /\ Nothing.more = <<>> /\ Nothing.drop = {} /\ Nothing.ack = {}
    BY DEF Nothing
  <1> QED
    BY <1>1, <1>2, Says

\* one that only says what to send next,
LEMMA SaysMore ==
    ASSUME NEW c \in Callers, NEW e, NEW todo \in Seq(Seq(Fitting)),
           calls[c].op = "batch" => todo = <<>>
    PROVE  Good(c, e, [Nothing EXCEPT !.more = todo])
  <1> DEFINE r == [Nothing EXCEPT !.more = todo]
  <1>1. /\ r.add = {} /\ r.tell = {} /\ r.list = {} /\ r.slot = 0
        /\ r.more = todo /\ r.drop = {} /\ r.ack = {}
    BY DEF Nothing
  <1> HIDE DEF r
  <1>2. Good(c, e, r)
    BY <1>1, Says
  <1> QED
    BY <1>2 DEF r

\* and one that says which orders are gone.
LEMMA SaysGone ==
    ASSUME NEW c \in Callers, NEW e, NEW todo \in Seq(Seq(Fitting)),
           calls[c].op = "batch" => todo = <<>>,
           NEW gone \in SUBSET OrderIds, \A i \in gone : orders[i].st = "gone"
    PROVE  /\ Good(c, e, [Nothing EXCEPT !.drop = gone, !.more = todo])
           /\ Good(c, e, [Nothing EXCEPT !.drop = gone, !.ack = gone])
           /\ Good(c, e, [Nothing EXCEPT !.ack = gone])
  <1> DEFINE r == [Nothing EXCEPT !.drop = gone, !.more = todo]
             s == [Nothing EXCEPT !.drop = gone, !.ack = gone]
             t == [Nothing EXCEPT !.ack = gone]
  <1>1. <<>> \in Seq(Seq(Fitting))
    BY EmptySeq
  <1>2. /\ r.add = {} /\ r.tell = {} /\ r.list = {} /\ r.slot = 0
        /\ r.more = todo /\ r.drop = gone /\ r.ack = {}
    BY DEF Nothing
  <1>3. /\ s.add = {} /\ s.tell = {} /\ s.list = {} /\ s.slot = 0
        /\ s.more = <<>> /\ s.drop = gone /\ s.ack = gone
    BY DEF Nothing
  <1>4. /\ t.add = {} /\ t.tell = {} /\ t.list = {} /\ t.slot = 0
        /\ t.more = <<>> /\ t.drop = {} /\ t.ack = gone
    BY DEF Nothing
  <1> HIDE DEF r, s, t
  <1>5. Good(c, e, r)
    BY <1>2, Says
  <1>6. Good(c, e, s)
    BY <1>1, <1>3, Says
  <1>7. Good(c, e, t)
    BY <1>1, <1>4, Says
  <1> QED
    BY <1>5, <1>6, <1>7 DEF r, s, t

\* An answer that is true has a result that is.
LEMMA HandledGood ==
    ASSUME ClientInv, NEW c \in Callers, NEW e \in Fitting, NEW a \in Reply,
           AnswerTrue(e, a, orders, calls[c].before),
           calls[c].op = "batch" => e \in Intended
    PROVE  Good(c, e, Handle(calls[c], e, a))
  <1>1. /\ e \in Element /\ e.slot \in Nat /\ e.kind \in Kinds /\ e.id \in Ids
        /\ e.id # 0 => e.id \in Taken
        /\ e.kind \in {"modify", "cancel", "swap", "find"} => e.id # 0
    BY DEF Fitting, Fit, Element, Taken
  <1>2. Good(c, e, Nothing)
    BY SaysNothing
  <1>3. calls[c].op = "batch" => e.kind = "place"
    BY DEF Intended
  <1>4. Taken \subseteq OrderIds /\ OrderIds \subseteq Ids /\ 0 \in Ids /\ 0 \notin Taken
    BY ClientFacts DEF Taken, Accepted, OrderIds, Ids
  <1>5. CASE e.kind = "place"
    <2>1. Handle(calls[c], e, a) = Placed(e, a)
      BY <1>5 DEF Handle
    <2>2. CASE a.ok
      <3>1. a.id \in Taken /\ orders[a.id].price = e.price
        BY <1>5, <2>2 DEF AnswerTrue, Taken
      <3> DEFINE add == IF Mapped THEN {a.id} ELSE {}
                 tell == IF e.own THEN {a.id} ELSE {}
                 r == [add |-> add, drop |-> {}, tell |-> tell, list |-> {}, ack |-> {},
                       slot |-> a.id, more |-> <<>>]
      <3>2. Placed(e, a) = r
        BY <2>2 DEF Placed, Nothing
      <3>3. /\ add \subseteq Taken /\ tell \subseteq Taken /\ (Mapped => tell \subseteq add)
        BY <3>1
      <3>4. calls[c].op = "batch" => e.price = batch[e.slot].price
        BY DEF Intended
      <3>5. <<>> \in Seq(Seq(Fitting)) /\ a.id \in Ids
        BY <1>4, <3>1, EmptySeq
      <3> HIDE DEF add, tell
      <3>6. Good(c, e, r)
        BY <3>1, <3>3, <3>4, <3>5 DEF Good
      <3> QED
        BY <2>1, <3>2, <3>6
    <2>3. CASE ~a.ok
      BY <1>2, <2>1, <2>3 DEF Placed
    <2> QED
      BY <2>2, <2>3
  <1>6. CASE e.kind = "modify"
    <2>1. Handle(calls[c], e, a) = Modified(e, a)
      BY <1>6 DEF Handle
    <2>2. CASE ~a.ok /\ a.id = e.id
      <3>1. orders[e.id].st = "gone" /\ e.id \in OrderIds /\ calls[c].op # "batch"
        BY <1>1, <1>3, <1>4, <1>6, <2>2 DEF AnswerTrue
      <3> DEFINE todo == << <<Place(e.slot, 0, FALSE, e.id)>> >>
      <3>2. todo \in Seq(Seq(Fitting))
        <4>1. Place(e.slot, 0, FALSE, e.id) \in Fitting
          BY <1>1, <3>1, PlaceFits
        <4> QED
          BY <4>1, OneFits
      <3>3. Modified(e, a) = [Nothing EXCEPT !.drop = {e.id}, !.more = todo]
        BY <2>2 DEF Modified
      <3> HIDE DEF todo
      <3>4. Good(c, e, [Nothing EXCEPT !.drop = {e.id}, !.more = todo])
        BY <3>1, <3>2, SaysGone
      <3> QED
        BY <2>1, <3>3, <3>4
    <2>3. CASE ~(~a.ok /\ a.id = e.id)
      BY <1>2, <2>1, <2>3 DEF Modified
    <2> QED
      BY <2>2, <2>3
  <1>7. CASE e.kind = "cancel"
    <2>1. Handle(calls[c], e, a) = Cancelled(e, a)
      BY <1>7 DEF Handle
    <2>2. CASE Gone(e, a)
      <3>1. orders[e.id].st = "gone" /\ e.id \in OrderIds
        BY <1>1, <1>4, <1>7, <2>2 DEF AnswerTrue, Gone
      <3>2. Cancelled(e, a) = [Nothing EXCEPT !.drop = {e.id}, !.ack = {e.id}]
        BY <2>2 DEF Cancelled
      <3>3. Good(c, e, [Nothing EXCEPT !.drop = {e.id}, !.ack = {e.id}])
        BY <3>1, SaysGone, EmptySeq
      <3> QED
        BY <2>1, <3>2, <3>3
    <2>3. CASE ~Gone(e, a)
      BY <1>2, <2>1, <2>3 DEF Cancelled
    <2> QED
      BY <2>2, <2>3
  <1>8. CASE e.kind = "swap"
    <2>1. Handle(calls[c], e, a) = Swapped(e, a)
      BY <1>8 DEF Handle
    <2> DEFINE gone == IF Gone(e, a) THEN {e.id} ELSE {}
               next == << <<Place(e.slot, 0, FALSE, e.id)>> >>
               todo == IF Gone(e, a) \/ venue = "spot" THEN next ELSE <<>>
    <2>2. Swapped(e, a) = [Nothing EXCEPT !.drop = gone, !.more = todo]
      BY DEF Swapped
    <2>3. e.id \in OrderIds /\ calls[c].op # "batch" /\ (Gone(e, a) => orders[e.id].st = "gone")
      BY <1>1, <1>3, <1>4, <1>8 DEF AnswerTrue, Gone
    <2>4. todo \in Seq(Seq(Fitting))
      <3>1. CASE Gone(e, a) \/ venue = "spot"
        <4>1. Place(e.slot, 0, FALSE, e.id) \in Fitting
          BY <1>1, <2>3, <3>1, PlaceFits
        <4>2. next \in Seq(Seq(Fitting))
          BY <4>1, OneFits
        <4> HIDE DEF next
        <4> QED
          BY <3>1, <4>2
      <3>2. CASE ~(Gone(e, a) \/ venue = "spot")
        BY <3>2, EmptySeq
      <3> QED
        BY <3>1, <3>2
    <2>5. gone \in SUBSET OrderIds /\ \A i \in gone : orders[i].st = "gone"
      BY <2>3
    <2> HIDE DEF todo, gone
    <2>6. Good(c, e, [Nothing EXCEPT !.drop = gone, !.more = todo])
      BY <2>3, <2>4, <2>5, SaysGone
    <2> QED
      BY <2>1, <2>2, <2>6
  <1>9. CASE e.kind = "find" /\ a.ok
    <2>1. Handle(calls[c], e, a) = Found(e, a)
      BY <1>9 DEF Handle
    <2>2. e.id \in OrderIds /\ e.id \in Taken /\ calls[c].op # "batch"
      BY <1>1, <1>3, <1>4, <1>9
    <2>3. CASE e.id \in a.rows
      <3> DEFINE todo == << <<Act("cancel", 0, e.id)>> >>
      <3>1. todo \in Seq(Seq(Fitting))
        BY <2>2, ActFits, OneFits DEF Kinds
      <3>2. Found(e, a) = [Nothing EXCEPT !.more = todo]
        BY <2>3 DEF Found
      <3> HIDE DEF todo
      <3>3. Good(c, e, [Nothing EXCEPT !.more = todo])
        BY <2>2, <3>1, SaysMore
      <3> QED
        BY <2>1, <3>2, <3>3
    <2>4. CASE e.id \notin a.rows
      <3>1. orders[e.id].st = "gone"
        BY <1>9, <2>4 DEF AnswerTrue
      <3>2. Found(e, a) = [Nothing EXCEPT !.ack = {e.id}]
        BY <2>4 DEF Found
      <3>3. Good(c, e, [Nothing EXCEPT !.ack = {e.id}])
        BY <2>2, <3>1, SaysGone, EmptySeq
      <3> QED
        BY <2>1, <3>2, <3>3
    <2> QED
      BY <2>3, <2>4
  <1>10. CASE e.kind = "findAll" /\ a.ok
    <2>1. Handle(calls[c], e, a) = FoundAll(a)
      BY <1>10 DEF Handle
    <2>2. a.rows \in SUBSET Taken /\ calls[c].op # "batch"
      BY <1>3, <1>10 DEF AnswerTrue, Taken
    <2>3. CASE a.rows = {}
      BY <1>2, <2>1, <2>3 DEF FoundAll
    <2>4. CASE a.rows # {}
      <3> DEFINE els == [n \in 1..Cardinality(a.rows) |-> Act("cancel", 0, Listing(a.rows)[n])]
      <3>1. <<els>> \in Seq(Seq(Fitting))
        BY <2>2, ListFits DEF Kinds
      <3>2. FoundAll(a) = [Nothing EXCEPT !.more = <<els>>]
        BY <2>4 DEF FoundAll
      <3> HIDE DEF els
      <3>3. Good(c, e, [Nothing EXCEPT !.more = <<els>>])
        BY <2>2, <3>1, SaysMore
      <3> QED
        BY <2>1, <3>2, <3>3
    <2> QED
      BY <2>3, <2>4
  <1>11. CASE e.kind = "list" /\ a.ok
    <2>1. Handle(calls[c], e, a) = Listed(calls[c].before, a)
      BY <1>11 DEF Handle
    <2> DEFINE drop == IF Mapped THEN Pruned(calls[c].before, a.rows) ELSE {}
               r == [Nothing EXCEPT !.drop = drop, !.list = a.rows]
    <2>2. Listed(calls[c].before, a) = r
      BY DEF Listed
    <2>3. /\ r.add = {} /\ r.tell = {} /\ r.list = a.rows /\ r.slot = 0
          /\ r.more = <<>> /\ r.drop = drop /\ r.ack = {}
      BY DEF Nothing
    <2>4. a.rows \subseteq Taken /\ \A i \in calls[c].before \ a.rows : orders[i].st = "gone"
      BY <1>11 DEF AnswerTrue, Taken
    <2>5. \A i \in drop : i \in OrderIds /\ orders[i].st = "gone"
      BY <1>4, <2>4 DEF Pruned, ClientInv, CallsFit
    <2>6. <<>> \in Seq(Seq(Fitting))
      BY EmptySeq
    <2> HIDE DEF drop, r
    <2>7. Good(c, e, r)
      BY <1>4, <2>4, <2>5, <2>6, <2>3 DEF Good
    <2> QED
      BY <2>1, <2>2, <2>7
  <1>12. CASE e.kind = "cancelAll" \/ (e.kind \in {"find", "findAll", "list"} /\ ~a.ok)
    <2>1. Handle(calls[c], e, a) = Nothing
      BY <1>12 DEF Handle
    <2> QED
      BY <1>2, <2>1
  <1> QED
    BY <1>1, <1>5, <1>6, <1>7, <1>8, <1>9, <1>10, <1>11, <1>12 DEF Kinds

\* A failed request says nothing, and leads to requests that fit.
LEMMA FailedGood ==
    ASSUME ClientInv, NEW c \in Callers, NEW e \in Fitting,
           calls[c].op = "batch" => e \in Intended
    PROVE  Good(c, e, Failed(calls[c], e))
  <1>1. /\ e.slot \in Nat /\ e.id \in Ids
        /\ e.kind \in {"modify", "swap"} => e.id \in Taken
    BY DEF Fitting, Fit, Element, Taken
  <1>2. calls[c].op = "batch" => e.kind = "place"
    BY DEF Intended
  <1>3. CASE e.kind = "swap" /\ venue = "spot"
    <2> DEFINE todo == << <<Place(e.slot, 0, FALSE, e.id)>> >>
    <2>1. todo \in Seq(Seq(Fitting))
      <3>1. Place(e.slot, 0, FALSE, e.id) \in Fitting
        BY <1>1, <1>3, PlaceFits
      <3> QED
        BY <3>1, OneFits
    <2>2. Failed(calls[c], e) = [Nothing EXCEPT !.more = todo]
      BY <1>3 DEF Failed
    <2> HIDE DEF todo
    <2> QED
      BY <1>2, <1>3, <2>1, <2>2, SaysMore
  <1>4. CASE e.kind = "modify" /\ calls[c].op = "requotes"
    <2>1. RequotePlan(e.slot, e.id) \in Seq(Seq(Fitting))
      BY <1>1, <1>4, RequoteFits
    <2>2. Failed(calls[c], e) = [Nothing EXCEPT !.more = RequotePlan(e.slot, e.id)]
      BY <1>4 DEF Failed
    <2> QED
      BY <1>4, <2>1, <2>2, SaysMore
  <1>5. CASE ~(e.kind = "swap" /\ venue = "spot") /\ ~(e.kind = "modify" /\ calls[c].op = "requotes")
    <2>1. Failed(calls[c], e) = Nothing
      BY <1>5 DEF Failed
    <2> QED
      BY <2>1, SaysNothing
  <1> QED
    BY <1>3, <1>4, <1>5

\* The caller goes on with true results.
LEMMA Resumes ==
    ASSUME ClientInv, NEW c \in Callers, calls[c].req # 0, NEW over \in BOOLEAN, NEW res,
           Resume(c, res, over), UNCHANGED <<venue, orders, batch, queue>>,
           cmds' \in [Slots -> Cmd],
           DOMAIN res = 1..Len(cmds[calls[c].req].els), Len(res) = Len(cmds[calls[c].req].els),
           \A n \in DOMAIN res : Good(c, cmds[calls[c].req].els[n], res[n])
    PROVE  /\ ClientTyped' /\ Registered' /\ SlotsFilled' /\ AckedIsGone'
           /\ \A d \in Callers : CallFine(calls'[d])
           /\ calls'[c].req = 0 /\ \A d \in Callers \ {c} : calls'[d] = calls[d]
  <1> DEFINE els == cmds[calls[c].req].els
             N == Len(els)
             todo == More(res) \o calls[c].plan
             next == IF todo = <<>> THEN Idle
                     ELSE [calls[c] EXCEPT !.req = 0, !.plan = todo,
                             !.op = IF over /\ calls[c].op = "requotes" THEN "requote" ELSE calls[c].op]
             drops == UNION {res[n].drop : n \in DOMAIN res}
             adds == UNION {res[n].add : n \in DOMAIN res}
             tells == UNION {res[n].tell : n \in DOMAIN res}
             lists == UNION {res[n].list : n \in DOMAIN res}
             acks == UNION {res[n].ack : n \in DOMAIN res}
  <1>1. /\ tracked' = (tracked \ drops) \cup adds
        /\ told' = told \cup tells
        /\ listed' = (listed \cup lists) \ told'
        /\ acked' = acked \cup Acks(acks)
        /\ slots' = [s \in DOMAIN slots |->
              IF calls[c].op = "batch" /\ \E n \in DOMAIN res : els[n].slot = s
              THEN res[CHOOSE n \in DOMAIN res : els[n].slot = s].slot ELSE slots[s]]
        /\ calls' = [calls EXCEPT ![c] = next]
    BY DEF Resume
  <1>2. /\ calls \in [Callers -> CallRec] /\ CallFine(calls[c])
        /\ calls[c].req \in Slots
    <2>1. calls \in [Callers -> CallRec] /\ CallFine(calls[c])
      BY CallsFine
    <2> QED
      BY <2>1 DEF CallRec
  <1>3. els \in Seq(Element) /\ els \in Seq(Fitting) /\ N \in Nat
    <2>1. Kept(cmds[calls[c].req]) /\ cmds[calls[c].req] \in Cmd
      BY <1>2, InFlight
    <2>2. els \in Seq(Element) /\ els \in Seq(Fitting)
      BY <2>1 DEF Kept, Cmd
    <2> HIDE DEF els
    <2>3. Len(els) \in Nat
      BY <2>2
    <2> QED
      BY <2>2, <2>3
  <1>4. calls[c].op = "batch" => els \in Seq(Intended)
    BY DEF ClientInv, CmdsFit
  <1>5. DOMAIN res = 1..N /\ Len(res) = N /\ \A n \in 1..N : Good(c, els[n], res[n])
    OBVIOUS
  <1> HIDE DEF els, N
  <1>6. /\ todo \in Seq(Seq(Fitting))
        /\ calls[c].op = "batch" => todo \in Seq(Seq(Intended))
    <2>1. \A n \in 1..N : res[n].more \in Seq(Seq(Fitting))
      BY <1>5 DEF Good
    <2>2. More(res) \in Seq(Seq(Fitting))
      BY <1>3, <1>5, <2>1, MoreIn
    <2>3. calls[c].plan \in Seq(Seq(Fitting))
      BY <1>2 DEF CallFine
    <2>4. todo \in Seq(Seq(Fitting))
      BY <2>2, <2>3, ConcatProperties
    <2>5. CASE calls[c].op = "batch"
      <3>1. \A n \in 1..N : res[n].more \in Seq(Seq(Intended))
        BY <1>5, <2>5, EmptySeq DEF Good
      <3>2. More(res) \in Seq(Seq(Intended))
        BY <1>3, <1>5, <3>1, MoreIn
      <3>3. calls[c].plan \in Seq(Seq(Intended))
        BY <1>2, <2>5 DEF CallFine
      <3> QED
        BY <2>4, <3>2, <3>3, ConcatProperties
    <2> QED
      BY <2>4, <2>5
  <1>7. CallFine(next) /\ next.req = 0
    <2>1. CASE todo = <<>>
      BY <2>1, IdleFine
    <2>2. CASE todo # <<>>
      <3> DEFINE op == IF over /\ calls[c].op = "requotes" THEN "requote" ELSE calls[c].op
      <3>1. next = [calls[c] EXCEPT !.req = 0, !.plan = todo, !.op = op]
        BY <2>2
      <3>2. op \in Operations /\ (op = "batch" => calls[c].op = "batch")
        BY <1>2 DEF CallFine, CallRec, Operations
      <3>3. todo \in Seq(Seq(Element))
        <4>1. Fitting \subseteq Element
          BY DEF Fitting, Fit
        <4> QED
          BY <1>6, <4>1, SeqMonotonic
      <3> HIDE DEF todo, op, next
      <3> QED
        BY <1>2, <1>6, <3>1, <3>2, <3>3 DEF CallFine, CallRec
    <2> QED
      BY <2>1, <2>2
  <1> HIDE DEF next, todo
  <1>8. /\ calls' \in [Callers -> CallRec] /\ calls'[c] = next
        /\ \A d \in Callers \ {c} : calls'[d] = calls[d]
    BY <1>1, <1>2, <1>7 DEF CallFine
  <1>9. \A d \in Callers : CallFine(calls'[d])
    BY <1>7, <1>8, CallsFine
  <1>10. /\ adds \subseteq Taken /\ tells \subseteq Taken /\ lists \subseteq Taken
         /\ Mapped => tells \subseteq adds
         /\ \A i \in drops \cup acks : orders[i].st = "gone"
    BY <1>5 DEF Good
  <1> HIDE DEF drops, adds, tells, lists, acks
  <1>11. Taken' = Taken /\ Fitting' = Fitting
    BY Stays
  <1>12. Registered'
    BY <1>1, <1>10, <1>11 DEF ClientInv, Registered, Mapped
  <1>13. AckedIsGone'
    <2>1. Acks(acks) = {}
      BY <1>10 DEF Acks, OpenIds, Open
    <2> QED
      BY <1>1, <2>1 DEF ClientInv, AckedIsGone
  <1>14. ASSUME NEW s \in DOMAIN slots
         PROVE  slots'[s] \in Ids /\ (slots'[s] # 0 =>
                   slots'[s] \in Taken /\ orders[slots'[s]].price = batch[s].price)
    <2>1. CASE calls[c].op = "batch" /\ \E n \in DOMAIN res : els[n].slot = s
      <3> DEFINE n == CHOOSE x \in DOMAIN res : els[x].slot = s
      <3>1. n \in DOMAIN res /\ els[n].slot = s
        BY <2>1
      <3>2. slots'[s] = res[n].slot
        BY <1>1, <2>1
      <3> HIDE DEF n
      <3>3. Good(c, els[n], res[n])
        BY <1>5, <3>1
      <3> QED
        BY <2>1, <3>1, <3>2, <3>3 DEF Good
    <2>2. CASE ~(calls[c].op = "batch" /\ \E n \in DOMAIN res : els[n].slot = s)
      <3>1. slots'[s] = slots[s]
        BY <1>1, <2>2
      <3> QED
        BY <3>1 DEF ClientInv, ClientTyped, SlotsFilled
    <2> QED
      BY <2>1, <2>2
  <1>15. DOMAIN slots' = DOMAIN slots
    BY <1>1
  <1>16. SlotsFilled'
    BY <1>11, <1>14, <1>15 DEF SlotsFilled
  <1>17. ClientTyped'
    BY <1>8, <1>14, <1>15 DEF ClientInv, ClientTyped
  <1> QED
    BY <1>7, <1>8, <1>9, <1>12, <1>13, <1>16, <1>17

\* A caller goes on, and its request is over.
LEMMA Ending ==
    ASSUME ClientInv, NEW c \in Callers, calls[c].req # 0, NEW over \in BOOLEAN, NEW res,
           Resume(c, res, over), UNCHANGED <<venue, orders, batch, queue, link>>,
           NEW after, Kept(after), after.st \notin {"wire", "answered"},
           cmds' = [cmds EXCEPT ![calls[c].req] = after],
           DOMAIN res = 1..Len(cmds[calls[c].req].els), Len(res) = Len(cmds[calls[c].req].els),
           \A n \in DOMAIN res : Good(c, cmds[calls[c].req].els[n], res[n])
    PROVE  ClientInv'
  <1> DEFINE k == calls[c].req
  <1>1. calls \in [Callers -> CallRec] /\ k \in Slots
    <2>1. calls \in [Callers -> CallRec]
      BY CallsFine
    <2> QED
      BY <2>1 DEF CallRec
  <1>2. cmds \in [Slots -> Cmd] /\ \A n \in Slots : Kept(cmds[n])
    BY InFlight
  <1>3. /\ cmds' \in [Slots -> Cmd] /\ cmds'[k] = after
        /\ \A n \in Slots \ {k} : cmds'[n] = cmds[n]
    BY <1>1, <1>2 DEF Kept
  <1>4. /\ ClientTyped' /\ Registered' /\ SlotsFilled' /\ AckedIsGone'
        /\ \A d \in Callers : CallFine(calls'[d])
        /\ calls'[c].req = 0 /\ \A d \in Callers \ {c} : calls'[d] = calls[d]
    BY <1>3, Resumes
  <1>5. \A n \in Slots : Kept(cmds'[n])
    BY <1>2, <1>3
  <1>6. ASSUME NEW d \in Callers
        PROVE  \/ calls'[d].req = 0
               \/ /\ calls'[d].req = calls[d].req /\ calls'[d].op = calls[d].op
                  /\ calls'[d].before = calls[d].before
                  /\ cmds'[calls[d].req] = cmds[calls[d].req]
    <2>1. CASE d = c \/ calls[d].req = 0
      BY <1>4, <2>1
    <2>2. CASE d # c /\ calls[d].req # 0
      <3>1. calls'[d] = calls[d]
        BY <1>4, <2>2
      <3>2. calls[d].req # k
        BY <2>2 DEF ClientInv, Linked
      <3>3. calls[d].req \in Slots
        BY <1>1, <2>2 DEF CallRec
      <3> QED
        BY <1>3, <3>1, <3>2, <3>3
    <2> QED
      BY <2>1, <2>2
  <1>7. ASSUME NEW n \in Slots, cmds'[n].st \in {"wire", "answered"} PROVE Waited(n)'
    <2>1. n # k
      BY <1>3, <1>7
    <2>2. PICK d \in Callers : calls[d].req = n
      BY <1>3, <1>7, <2>1 DEF ClientInv, Linked, Waited, Waits
    <2>3. calls'[d] = calls[d]
      BY <1>4, <2>1, <2>2
    <2> QED
      BY <2>2, <2>3 DEF Waited, Waits
  <1>8. Stamped' /\ Linked' /\ CallsFit' /\ CmdsFit' /\ Answered' /\ Untwinned'
    BY <1>4, <1>5, <1>6, <1>7, Calling
  <1> QED
    BY <1>4, <1>8 DEF ClientInv

\* An element of a caller's request fits; for a batch it places an intent.
LEMMA Elements ==
    ASSUME ClientInv, NEW c \in Callers, calls[c].req # 0
    PROVE  /\ calls[c].req \in Slots /\ cmds[calls[c].req].els \in Seq(Fitting)
           /\ \A n \in DOMAIN cmds[calls[c].req].els :
                 /\ cmds[calls[c].req].els[n] \in Fitting
                 /\ calls[c].op = "batch" => cmds[calls[c].req].els[n] \in Intended
  <1>1. calls[c].req \in Slots
    BY CallsFine DEF CallRec
  <1>2. cmds[calls[c].req].els \in Seq(Fitting)
    BY <1>1 DEF ClientInv, CmdsFit
  <1>3. calls[c].op = "batch" => cmds[calls[c].req].els \in Seq(Intended)
    BY DEF ClientInv, CmdsFit
  <1> QED
    BY <1>1, <1>2, <1>3

\* What comes of a failed request is good.
LEMMA FailuresGood ==
    ASSUME ClientInv, NEW c \in Callers, calls[c].req # 0, NEW res,
           res = Failures(calls[c], cmds[calls[c].req].els)
    PROVE  /\ DOMAIN res = 1..Len(cmds[calls[c].req].els) /\ Len(res) = Len(cmds[calls[c].req].els)
           /\ \A n \in DOMAIN res : Good(c, cmds[calls[c].req].els[n], res[n])
  <1> DEFINE els == cmds[calls[c].req].els
  <1>1. /\ els \in Seq(Fitting)
        /\ \A n \in DOMAIN els : els[n] \in Fitting /\ (calls[c].op = "batch" => els[n] \in Intended)
    BY Elements
  <1> HIDE DEF els
  <1>2. DOMAIN els = 1..Len(els) /\ Len(els) \in Nat
    BY <1>1
  <1>3. res = [n \in 1..Len(els) |-> Failed(calls[c], els[n])]
    BY <1>2 DEF Failures, els
  <1>4. \A n \in 1..Len(els) : Good(c, els[n], res[n])
    BY <1>1, <1>2, <1>3, FailedGood
  <1>5. DOMAIN res = 1..Len(els) /\ Len(res) = Len(els)
    BY <1>2, <1>3
  <1> QED
    BY <1>4, <1>5 DEF els

\* An answer arrives.
LEMMA AnswerKeeps == ASSUME ClientInv, NEW c \in Callers, Answer(c) PROVE ClientInv'
  <1> DEFINE r == cmds[calls[c].req]
             res == Results(calls[c], r)
  <1>1. /\ calls[c].req # 0 /\ r.st = "answered" /\ Resume(c, res, FALSE)
        /\ cmds' = [cmds EXCEPT ![calls[c].req] = Free]
        /\ UNCHANGED <<venue, orders, batch, queue, link>>
    BY DEF Answer
  <1>2. /\ calls[c].req \in Slots /\ r.els \in Seq(Fitting)
        /\ \A n \in DOMAIN r.els :
              r.els[n] \in Fitting /\ (calls[c].op = "batch" => r.els[n] \in Intended)
    BY <1>1, Elements
  <1>3. /\ Len(r.ans) = Len(r.els)
        /\ \A n \in DOMAIN r.els : AnswerTrue(r.els[n], r.ans[n], orders, calls[c].before)
    BY <1>1 DEF ClientInv, Answered
  <1>4. r.ans \in Seq(Reply)
    BY <1>2, InFlight DEF Cmd
  <1> HIDE DEF r
  <1>5. DOMAIN r.els = 1..Len(r.els) /\ Len(r.els) \in Nat
    BY <1>2
  <1>6. \A n \in 1..Len(r.els) : r.ans[n] \in Reply
    BY <1>3, <1>4, <1>5
  <1>7. res = [n \in 1..Len(r.els) |-> Handle(calls[c], r.els[n], r.ans[n])]
    BY <1>5 DEF Results
  <1>8. \A n \in 1..Len(r.els) : Good(c, r.els[n], Handle(calls[c], r.els[n], r.ans[n]))
    BY <1>2, <1>3, <1>5, <1>6, HandledGood
  <1>9. DOMAIN res = 1..Len(r.els) /\ Len(res) = Len(r.els)
    BY <1>5, <1>7
  <1>10. \A n \in DOMAIN res : Good(c, r.els[n], res[n])
    BY <1>7, <1>8
  <1> HIDE DEF res
  <1> QED
    BY <1>1, <1>9, <1>10, FreeKept, Ending DEF r

\* The venue refuses the request as a whole.
LEMMA RefuseKeeps == ASSUME ClientInv, NEW c \in Callers, Refuse(c) PROVE ClientInv'
  <1> DEFINE res == Failures(calls[c], cmds[calls[c].req].els)
  <1>1. /\ calls[c].req # 0 /\ Resume(c, res, TRUE)
        /\ cmds' = [cmds EXCEPT ![calls[c].req] = Free]
        /\ UNCHANGED <<venue, orders, batch, queue, link>>
    BY DEF Refuse
  <1>2. /\ DOMAIN res = 1..Len(cmds[calls[c].req].els) /\ Len(res) = Len(cmds[calls[c].req].els)
        /\ \A n \in DOMAIN res : Good(c, cmds[calls[c].req].els[n], res[n])
    BY <1>1, FailuresGood
  <1> HIDE DEF res
  <1> QED
    BY <1>1, <1>2, FreeKept, Ending

\* The caller gives up on its request: the socket closed, or it timed out.
LEMMA GiveUpKeeps ==
    ASSUME ClientInv, NEW c \in Callers, calls[c].req # 0, GiveUp(c)
    PROVE  ClientInv'
  <1> DEFINE res == Failures(calls[c], cmds[calls[c].req].els)
             after == Abandon(cmds[calls[c].req])
  <1>1. /\ Resume(c, res, TRUE)
        /\ cmds' = [cmds EXCEPT ![calls[c].req] = after]
        /\ UNCHANGED <<venue, orders, batch, queue, link>>
    BY DEF GiveUp
  <1>2. /\ DOMAIN res = 1..Len(cmds[calls[c].req].els) /\ Len(res) = Len(cmds[calls[c].req].els)
        /\ \A n \in DOMAIN res : Good(c, cmds[calls[c].req].els[n], res[n])
    BY FailuresGood
  <1>3. Kept(after) /\ after.st \notin {"wire", "answered"}
    BY Elements, InFlight, AbandonKept
  <1> HIDE DEF res, after
  <1> QED
    BY <1>1, <1>2, <1>3, Ending

\* The socket closes: its callers go on, its requests are lost.
LEMMA DropKeeps == ASSUME ClientInv, Drop PROVE ClientInv'
  <1>1. /\ cmds' = [k \in Slots |-> IF k \in Written THEN Abandon(cmds[k]) ELSE cmds[k]]
        /\ calls' = [c \in Callers |->
              IF calls[c].req \in Written
              THEN IF calls[c].plan = <<>> THEN Idle ELSE [calls[c] EXCEPT !.req = 0]
              ELSE calls[c]]
        /\ UNCHANGED <<venue, orders, tracked, told, listed, acked, slots, batch, queue>>
    BY DEF Drop
  <1>2. /\ calls \in [Callers -> CallRec] /\ \A c \in Callers : CallFine(calls[c])
    BY CallsFine
  <1>3. cmds \in [Slots -> Cmd] /\ \A k \in Slots : Kept(cmds[k])
    BY InFlight
  <1>4. ASSUME NEW k \in Slots
        PROVE  /\ Kept(cmds'[k])
               /\ k \in Written => cmds'[k].st \notin {"wire", "answered"}
               /\ k \notin Written => cmds'[k] = cmds[k]
    BY <1>1, <1>3, AbandonKept
  <1>5. cmds' \in [Slots -> Cmd]
    BY <1>1, <1>4 DEF Kept
  <1>6. ASSUME NEW c \in Callers
        PROVE  /\ CallFine(calls'[c])
               /\ calls'[c].req = 0 \/ (calls'[c] = calls[c] /\ calls[c].req \notin Written)
               /\ calls[c].req \notin Written => calls'[c] = calls[c]
    <2>1. CASE calls[c].req \notin Written
      BY <1>1, <1>2, <2>1
    <2>2. CASE calls[c].req \in Written /\ calls[c].plan = <<>>
      BY <1>1, <2>2, IdleFine
    <2>3. CASE calls[c].req \in Written /\ calls[c].plan # <<>>
      <3>1. calls'[c] = [calls[c] EXCEPT !.req = 0]
        BY <1>1, <2>3
      <3> QED
        BY <1>2, <2>3, <3>1 DEF CallFine, CallRec
    <2> QED
      BY <2>1, <2>2, <2>3
  <1>7. calls' \in [Callers -> CallRec]
    BY <1>1, <1>6 DEF CallFine
  <1>8. ClientTyped'
    BY <1>1, <1>5, <1>7 DEF ClientInv, ClientTyped
  <1>9. ASSUME NEW c \in Callers
        PROVE  \/ calls'[c].req = 0
               \/ /\ calls'[c].req = calls[c].req /\ calls'[c].op = calls[c].op
                  /\ calls'[c].before = calls[c].before
                  /\ cmds'[calls[c].req] = cmds[calls[c].req]
    <2>1. CASE calls'[c] = calls[c] /\ calls[c].req \notin Written /\ calls[c].req # 0
      <3>1. calls[c].req \in Slots
        BY <1>2, <2>1 DEF CallRec
      <3> QED
        BY <1>4, <2>1, <3>1
    <2> QED
      BY <1>6, <2>1
  <1>10. ASSUME NEW k \in Slots, cmds'[k].st \in {"wire", "answered"} PROVE Waited(k)'
    <2>1. k \notin Written /\ cmds'[k] = cmds[k]
      BY <1>4, <1>10
    <2>2. PICK c \in Callers : calls[c].req = k
      BY <1>10, <2>1 DEF ClientInv, Linked, Waited, Waits
    <2>3. calls'[c] = calls[c]
      BY <1>6, <2>1, <2>2
    <2> QED
      BY <2>2, <2>3 DEF Waited, Waits
  <1>11. Stamped' /\ Linked' /\ CallsFit' /\ CmdsFit' /\ Answered' /\ Untwinned'
    BY <1>1, <1>4, <1>6, <1>8, <1>9, <1>10, Calling
  <1>12. Registered' /\ SlotsFilled' /\ AckedIsGone'
    <2>1. Taken' = Taken
      BY <1>1, Stays
    <2> QED
      BY <1>1, <2>1 DEF ClientInv, Registered, Mapped, SlotsFilled, AckedIsGone
  <1> QED
    BY <1>8, <1>11, <1>12 DEF ClientInv

-----------------------------------------------------------------------------
\* The clients start with nothing placed and nothing asked.
LEMMA ClientStarts == Init => ClientInv
  <1> SUFFICES ASSUME Init PROVE ClientInv
    OBVIOUS
  <1>1. /\ venue \in {"spot", "rest", "ws", "hyper"}
        /\ orders = [i \in OrderIds |-> [st |-> "none", price |-> 0, twin |-> 0]]
        /\ tracked = {} /\ told = {} /\ listed = {} /\ acked = {}
        /\ calls = [c \in Callers |-> Idle]
        /\ slots = <<>> /\ batch = <<>>
        /\ cmds = [k \in Slots |-> Free] /\ queue = <<>>
    BY ClientFacts DEF Init
  <1>2. /\ \A c \in Callers : calls[c] = Idle /\ calls[c].req = 0 /\ calls[c].op = "idle"
                              /\ CallFine(calls[c])
        /\ \A k \in Slots : cmds[k] = Free /\ cmds[k].st = "free" /\ Kept(cmds[k])
    BY <1>1, IdleFine, FreeKept
  <1>3. ClientTyped
    <2>1. 0 \in Ids
      BY ClientFacts DEF Ids
    <2>2. orders \in [OrderIds -> Order]
      BY <1>1, <2>1 DEF Order
    <2>3. calls \in [Callers -> CallRec] /\ cmds \in [Slots -> Cmd]
      BY <1>1, IdleFine, FreeKept DEF CallFine, Kept
    <2>4. /\ queue \in Seq(Slots) /\ batch \in Seq([side : {"bid", "ask"}, price : Nat])
          /\ DOMAIN slots = DOMAIN batch /\ \A s \in DOMAIN slots : slots[s] \in Ids
      BY <1>1, EmptySeq
    <2> QED
      BY <1>1, <2>2, <2>3, <2>4 DEF ClientTyped
  <1>4. Stamped /\ Linked /\ CallsFit /\ CmdsFit /\ Answered
    BY <1>2 DEF Stamped, Linked, CallsFit, CmdsFit, Answered, CallFine, Kept
  <1>5. Registered /\ Untwinned /\ SlotsFilled /\ AckedIsGone
    BY <1>1 DEF Registered, Untwinned, SlotsFilled, AckedIsGone
  <1> QED
    BY <1>3, <1>4, <1>5 DEF ClientInv

\* Every step of the client, of the actor and of the venue keeps the invariant.
LEMMA ClientKeeps == ClientInv /\ [Next]_vars => ClientInv'
  <1> SUFFICES ASSUME ClientInv, [Next]_vars PROVE ClientInv'
    OBVIOUS
  <1>1. CASE UNCHANGED vars
    BY <1>1, RestKeeps DEF vars
  <1>2. CASE Reconnect
    BY <1>2, RestKeeps DEF Reconnect
  <1>3. ASSUME NEW c \in Callers, Disconnect(c) \/ Timeout(c) PROVE ClientInv'
    BY <1>3, GiveUpKeeps DEF Disconnect, Timeout, Expired
  <1> QED
    BY <1>1, <1>2, <1>3, RequestKeeps, CallKeeps, BatchQuoteKeeps, BatchDoneKeeps, AnswerKeeps,
       RefuseKeeps, ExecuteKeeps, VanishKeeps, FillKeeps, SendKeeps, DropKeeps, TickKeeps DEF Next

\* The invariant holds throughout.
LEMMA ClientInvariant == Spec => []ClientInv
  BY ClientStarts, ClientKeeps, PTL DEF Spec

\* An order whose id a quote returned and whose cancel returned Ok does not
\* rest (cancel, open_orders' prune, requote), for any callers and any order of
\* requests, answers, refusals and lost connections.
THEOREM CancelsHold == Spec => []AckedIsGone
  <1>1. ClientInv => AckedIsGone
    BY DEF ClientInv
  <1> QED
    BY <1>1, ClientInvariant, PTL

\* A requote leaves one of the two orders (requote, batch_requote), spot apart.
THEOREM RequotesReplace == Spec => []OneReplaces
  <1>1. ClientInv => OneReplaces
    BY DEF ClientInv, Untwinned, OneReplaces
  <1> QED
    BY <1>1, ClientInvariant, PTL

\* The id in a batch's result slot is that of an order for that slot's intent
\* (batch_quote), for batches of any length, cut into requests of any size.
THEOREM ResultsInPlace == Spec => []SlotsOwn
  <1>1. ClientInv => SlotsOwn
    BY DEF ClientInv, SlotsFilled, SlotsOwn
  <1> QED
    BY <1>1, ClientInvariant, PTL

\* No request takes effect later than recvWindow after its call, however long
\* it waited in the actor's channel (ws_order, stamp_and_sign).
THEOREM LateIsRefused == Spec => StaleNeverLands
  <1> DEFINE Late == \A k \in Slots :
          /\ cmds[k].age > Window /\ venue # "hyper"
          /\ cmds'[k] # cmds[k]
          => orders' = orders
  <1>1. ClientInv /\ [Next]_vars => [Late]_vars
    <2> SUFFICES ASSUME ClientInv, [Next]_vars, NEW k \in Slots, cmds[k].age > Window,
                        venue # "hyper", cmds'[k] # cmds[k]
                 PROVE  orders' = orders
      OBVIOUS
    <2>1. ASSUME NEW n \in Slots, Execute(n) PROVE FALSE
      <3>1. cmds[n].stamp <= Window /\ \E x : cmds' = [cmds EXCEPT ![n] = x]
        BY <2>1 DEF Execute
      <3>2. cmds \in [Slots -> Cmd] /\ Kept(cmds[n])
        BY InFlight
      <3>3. n = k
        BY <3>1, <3>2
      <3>4. cmds[n].stamp \in Nat /\ cmds[n].stamp = cmds[n].age
        BY <3>2 DEF Kept, Cmd
      <3> QED
        BY <3>1, <3>3, <3>4, ClientFacts
    <2>2. ASSUME NEW c \in Callers, Call(c) PROVE orders' = orders
      BY <2>2 DEF Call, Quote, Requote, Cancel, BatchRequote, BatchCancel, CancelAll, OpenOrders
    <2>3. ASSUME NEW c \in Callers,
                 Request(c) \/ Answer(c) \/ Refuse(c) \/ Disconnect(c) \/ Timeout(c)
          PROVE  orders' = orders
      BY <2>3 DEF Request, Answer, Refuse, Disconnect, Timeout, GiveUp
    <2>4. ASSUME NEW n \in Slots, Vanish(n) PROVE orders' = orders
      BY <2>4 DEF Vanish
    <2>5. CASE Send \/ Drop \/ Reconnect \/ Tick \/ UNCHANGED vars
      BY <2>5 DEF Send, Drop, Reconnect, Tick, vars
    <2>6. ASSUME NEW b \in Batches, NEW good \in SUBSET DOMAIN b, BatchQuote(b, good)
          PROVE  orders' = orders
      BY <2>6 DEF BatchQuote
    <2>7. CASE BatchDone \/ \E i \in OrderIds : Fill(i)
      BY <2>7 DEF BatchDone, Fill
    <2> QED
      BY <2>1, <2>2, <2>3, <2>4, <2>5, <2>6, <2>7 DEF Next
  <1> QED
    BY <1>1, ClientInvariant, PTL DEF Spec, StaleNeverLands

-----------------------------------------------------------------------------
\* A conversion that has gone through and does not show yet.
Dues == [amt : Nat, age : 0..Settle]

\* With nothing outstanding, nothing is on its way to the balance.
LEMMA NothingDue == ASSUME due = {} PROVE Owed = 0
  <1>1. SUBSET due = {{}}
    OBVIOUS
  <1> QED
    BY <1>1 DEF Owed, FoldSet, MapThenFoldSet

\* With one conversion outstanding, its amount is: the fold over a single
\* conversion, from the function it is defined by.
LEMMA OneDue == ASSUME NEW d, d.amt \in Int, due = {d} PROVE Owed = d.amt
  <1> DEFINE F(g, s) == IF s = {} THEN 0
                        ELSE LET x == CHOOSE y \in s : TRUE IN g[s \ {x}] + x.amt
             Iter(g) == g = [s \in SUBSET due |-> F(g, s)]
             h == [s \in SUBSET due |-> IF s = {} THEN 0 ELSE d.amt]
             f == CHOOSE g : Iter(g)
  <1>1. Owed = f[due]
    BY SMT DEF Owed, FoldSet, MapThenFoldSet
  <1>2. (CHOOSE y \in {d} : TRUE) = d
    OBVIOUS
  <1>3. Iter(h)
    <2>1. \A s \in SUBSET due : h[s] = F(h, s)
      <3> TAKE s \in SUBSET due
      <3>1. CASE s = {}
        BY <3>1
      <3>2. CASE s = {d}
        <4>1. s \ {d} = {} /\ {} \in SUBSET due
          BY <3>2
        <4>2. h[{}] = 0 /\ h[s] = d.amt
          BY <3>2
        <4> QED
          BY <1>2, <3>2, <4>1, <4>2
      <3> QED
        BY <3>1, <3>2
    <2> QED
      BY <2>1
  <1>4. Iter(f)
    BY <1>3
  <1> HIDE DEF f
  <1>5. f[{}] = 0 /\ f[due] = f[{}] + d.amt
    <2>1. {} \in SUBSET due /\ {d} \in SUBSET due /\ {d} \ {d} = {} /\ {d} # {}
      OBVIOUS
    <2>2. f[{}] = F(f, {}) /\ f[{d}] = F(f, {d})
      BY <1>4, <2>1
    <2> QED
      BY <1>2, <2>1, <2>2
  <1> QED
    BY <1>1, <1>5

-----------------------------------------------------------------------------
\* What each variable of the refill holds.
RefillTypes ==
    /\ refill \in {"wait", "read", "convert", "turn"}
    /\ bnb \in Nat /\ reading \in Nat /\ cool \in Nat /\ fees \in Nat
    /\ adrift \in Nat /\ forgot \in Nat /\ restarts \in Nat

\* At most one conversion of this process is outstanding; the cooldown outlasts
\* it, and until it shows nothing is read.
Outstanding ==
    \/ due = {} /\ bnb + adrift <= Target + forgot
    \/ \E d \in Dues : /\ due = {d} /\ cool + d.age = Cooldown
                       /\ refill \in {"wait", "turn"} /\ bnb + d.amt + adrift <= Target + forgot

\* What was read is not less than what is held, but for what a restart forgot.
Fresh ==
    /\ adrift <= forgot
    /\ refill \in {"read", "convert"} => due = {} /\ bnb + adrift <= reading + forgot
    /\ refill = "convert" => reading < Target

RefillInv == RefillTypes /\ Outstanding /\ Fresh

\* The assumptions on the refill's constants, one by one.
LEMMA BuyersFacts ==
    /\ Target \in Nat /\ Low \in Nat /\ Fees \in Nat
    /\ Cooldown \in Nat /\ Settle \in Nat /\ Settle < Cooldown
  BY BuyersAssumption

\* The refill starts with nothing outstanding.
LEMMA RefillStarts == RefillInit => RefillInv
  BY BuyersFacts DEF RefillInit, RefillInv, RefillTypes, Outstanding, Fresh

\* What is outstanding, with what is held, exceeds the target by no more than a
\* restart forgot.
LEMMA OwedIs ==
    ASSUME RefillInv
    PROVE  Owed \in Nat /\ bnb + Owed + adrift <= Target + forgot
  <1> USE BuyersFacts DEF RefillInv, RefillTypes
  <1>1. CASE due = {} /\ bnb + adrift <= Target + forgot
    <2>1. Owed = 0
      BY <1>1, NothingDue
    <2> QED
      BY <1>1, <2>1
  <1>2. ASSUME NEW d \in Dues, due = {d}, bnb + d.amt + adrift <= Target + forgot
        PROVE  Owed \in Nat /\ bnb + Owed + adrift <= Target + forgot
    <2>1. d.amt \in Nat
      BY DEF Dues
    <2>2. Owed = d.amt
      BY <1>2, <2>1, OneDue
    <2> QED
      BY <1>2, <2>1, <2>2
  <1> QED
    BY <1>1, <1>2 DEF Outstanding

\* What an earlier process converted moves to the balance.
LEMMA Ashore ==
    ASSUME RefillInv, NEW k \in 1..adrift, bnb' = bnb + k, adrift' = adrift - k,
           UNCHANGED <<refill, due, restarts, reading, cool, fees, forgot>>
    PROVE  RefillInv'
  <1>1. bnb \in Nat /\ adrift \in Nat /\ forgot \in Nat /\ reading \in Nat /\ Target \in Nat
    BY BuyersFacts DEF RefillInv, RefillTypes
  <1>2. bnb' \in Nat /\ adrift' \in Nat /\ bnb' + adrift' = bnb + adrift /\ adrift' <= adrift
    BY <1>1
  <1>3. RefillTypes'
    BY <1>2 DEF RefillInv, RefillTypes
  <1>4. Fresh'
    BY <1>1, <1>2 DEF RefillInv, Fresh
  <1>5. ASSUME NEW d \in Dues, bnb + d.amt + adrift <= Target + forgot
        PROVE  bnb' + d.amt + adrift' <= Target + forgot
    <2>1. d.amt \in Nat
      BY DEF Dues
    <2> DEFINE m == d.amt
    <2>2. m \in Nat /\ bnb + m + adrift <= Target + forgot
      BY <1>5, <2>1
    <2> HIDE DEF m
    <2>3. bnb' + m + adrift' <= Target + forgot
      BY <1>1, <1>2, <2>2
    <2> QED
      BY <2>3 DEF m
  <1>6. Outstanding'
    <2>1. CASE due = {} /\ bnb + adrift <= Target + forgot
      BY <1>2, <2>1 DEF Outstanding
    <2>2. CASE \E d \in Dues : /\ due = {d} /\ cool + d.age = Cooldown
                               /\ refill \in {"wait", "turn"} /\ bnb + d.amt + adrift <= Target + forgot
      BY <1>5, <2>2 DEF Outstanding
    <2> QED
      BY <2>1, <2>2 DEF RefillInv, Outstanding
  <1> QED
    BY <1>3, <1>4, <1>6 DEF RefillInv

\* Every step of the refill, of the settlement and of the fees keeps the
\* refill's invariant.
LEMMA RefillKeeps == RefillInv /\ RefillNext => RefillInv'
  <1> SUFFICES ASSUME RefillInv, RefillNext PROVE RefillInv'
    OBVIOUS
  <1> USE BuyersFacts DEF RefillInv, RefillTypes
  <1>1. CASE ReadBnb
    <2>1. due = {} /\ bnb + adrift <= Target + forgot
      BY <1>1 DEF ReadBnb, Outstanding, Dues
    <2>2. UNCHANGED <<bnb, due, adrift, restarts, cool, fees, forgot>> /\ reading' = bnb /\ refill' = "read"
      BY <1>1 DEF ReadBnb
    <2> QED
      BY <2>1, <2>2 DEF Outstanding, Fresh
  <1>2. CASE Decide
    <2>1. /\ due = {} /\ bnb + adrift <= reading + forgot
          /\ UNCHANGED <<bnb, due, adrift, restarts, reading, cool, fees, forgot>>
      BY <1>2 DEF Decide, Fresh
    <2>2. refill' = "turn" \/ (refill' = "convert" /\ reading < Target)
      BY <1>2 DEF Decide, Needed
    <2> QED
      BY <2>1, <2>2 DEF Outstanding, Fresh, Dues
  <1>3. ASSUME NEW done \in BOOLEAN, NEW heard \in BOOLEAN, Convert(done, heard) PROVE RefillInv'
    <2>1. /\ due = {} /\ bnb + adrift <= reading + forgot /\ adrift <= forgot
          /\ reading < Target /\ cool' = Cooldown /\ refill' = "turn"
      BY <1>3 DEF Convert, Cools, Fresh
    <2>2. UNCHANGED <<bnb, adrift, restarts, reading, fees, forgot>>
      BY <1>3 DEF Convert
    <2> DEFINE d == [amt |-> Target - reading, age |-> 0]
    <2>3. d \in Dues /\ d.age = 0 /\ bnb + d.amt + adrift <= Target + forgot
      BY <2>1 DEF Dues
    <2>4. due' = {} \/ due' = {d}
      BY <1>3, <2>1 DEF Convert, Needed
    <2> HIDE DEF d
    <2>5. Outstanding'
      BY <2>1, <2>2, <2>3, <2>4 DEF Outstanding
    <2> QED
      BY <2>1, <2>2, <2>5 DEF Fresh
  <1>4. CASE Settles
    <2>1. UNCHANGED <<refill, restarts, reading, cool, fees, forgot>>
      BY <1>4 DEF Settles
    <2>2. CASE \E d \in due : bnb' = bnb + d.amt /\ due' = due \ {d} /\ UNCHANGED adrift
      <3>1. PICK d \in due : bnb' = bnb + d.amt /\ due' = due \ {d} /\ UNCHANGED adrift
        BY <2>2
      <3>2. /\ d \in Dues /\ due = {d} /\ bnb + d.amt + adrift <= Target + forgot
            /\ refill \in {"wait", "turn"}
        BY <3>1 DEF Outstanding
      <3>3. due' = {} /\ bnb' \in Nat
        BY <3>1, <3>2 DEF Dues
      <3> QED
        BY <2>1, <3>1, <3>2, <3>3 DEF Outstanding, Fresh
    <2>3. CASE \E k \in 1..adrift : bnb' = bnb + k /\ adrift' = adrift - k /\ UNCHANGED due
      BY <2>1, <2>3, Ashore
    <2> QED
      BY <1>4, <2>2, <2>3 DEF Settles
  <1>5. CASE PayFee
    <2>1. /\ bnb' = bnb - 1 /\ bnb > 0 /\ fees' = fees + 1
          /\ UNCHANGED <<refill, due, adrift, restarts, reading, cool, forgot>>
      BY <1>5 DEF PayFee
    <2>2. Outstanding'
      BY <2>1 DEF Outstanding, Dues
    <2> QED
      BY <2>1, <2>2 DEF Fresh
  <1>6. CASE Minute
    <2>1. /\ refill' = "wait" /\ refill \in {"wait", "turn"}
          /\ UNCHANGED <<bnb, adrift, restarts, reading, fees, forgot>>
      BY <1>6 DEF Minute
    <2>2. cool' = IF cool > 0 THEN cool - 1 ELSE 0
      BY <1>6 DEF Minute
    <2>3. Outstanding'
      <3>1. CASE due = {} /\ bnb + adrift <= Target + forgot
        BY <1>6, <2>1, <3>1 DEF Minute, Outstanding
      <3>2. ASSUME NEW d \in Dues, due = {d}, cool + d.age = Cooldown,
                   bnb + d.amt + adrift <= Target + forgot
            PROVE  Outstanding'
        <4>1. d.age < Settle /\ due' = {[d EXCEPT !.age = @ + 1]}
          BY <1>6, <3>2 DEF Minute
        <4> DEFINE e == [d EXCEPT !.age = @ + 1]
        <4>2. e \in Dues /\ e.age = d.age + 1 /\ e.amt = d.amt
          BY <4>1 DEF Dues
        <4> HIDE DEF e
        <4>3. cool' + e.age = Cooldown
          <5>1. /\ d.age \in Nat /\ cool \in Nat /\ Cooldown \in Nat /\ Settle \in Nat
                /\ d.age < Settle /\ Settle < Cooldown /\ cool + d.age = Cooldown
            BY <3>2, <4>1 DEF Dues
          <5> HIDE DEF RefillInv
          <5>2. cool > 0 /\ cool' = cool - 1
            BY <2>2, <5>1
          <5> QED
            BY <4>2, <5>1, <5>2
        <4>4. due' = {e}
          BY <4>1 DEF e
        <4> QED
          BY <2>1, <3>2, <4>2, <4>3, <4>4 DEF Outstanding
      <3> QED
        BY <3>1, <3>2 DEF Outstanding
    <2> QED
      BY <2>1, <2>2, <2>3 DEF Fresh
  <1>7. CASE Restart
    <2>1. /\ restarts' = restarts + 1 /\ refill' = "wait" /\ reading' = 0 /\ cool' = 0 /\ due' = {}
          /\ adrift' = adrift + Owed /\ forgot' = forgot + Owed /\ UNCHANGED <<bnb, fees>>
      BY <1>7 DEF Restart
    <2>2. Owed \in Nat /\ bnb + Owed + adrift <= Target + forgot
      BY OwedIs DEF RefillInv
    <2>3. adrift' \in Nat /\ forgot' \in Nat /\ bnb' + adrift' <= Target + forgot' /\ adrift' <= forgot'
      <3>1. /\ adrift <= forgot /\ adrift \in Nat /\ forgot \in Nat /\ bnb \in Nat /\ Target \in Nat
            /\ Owed \in Nat /\ bnb + Owed + adrift <= Target + forgot
        BY <2>2 DEF Fresh
      <3>2. \A a, b, f, o, t \in Nat :
               a <= f /\ b + o + a <= t + f => b + (a + o) <= t + (f + o) /\ a + o <= f + o
        OBVIOUS
      <3>3. adrift' = adrift + Owed /\ forgot' = forgot + Owed /\ bnb' = bnb
        BY <2>1
      <3> HIDE DEF RefillInv, RefillTypes
      <3>4. adrift + Owed \in Nat /\ forgot + Owed \in Nat
        BY <3>1
      <3>5. bnb + (adrift + Owed) <= Target + (forgot + Owed) /\ adrift + Owed <= forgot + Owed
        BY <3>1, <3>2
      <3> QED
        BY <3>3, <3>4, <3>5
    <2> QED
      BY <2>1, <2>3 DEF Outstanding, Fresh
  <1> QED
    BY <1>1, <1>2, <1>3, <1>4, <1>5, <1>6, <1>7 DEF RefillNext

\* What the invariant says of the sum that is held and outstanding.
LEMMA NothingTooMuch == RefillInv => NeverOverfilled
  BY OwedIs DEF NeverOverfilled

\* The refill never buys past its target (spawn_bnb_monitor) by more than what a
\* restart forgot, for any target, threshold and fees, any number of restarts and
\* any settlement faster than the cooldown.
THEOREM RefillStops == RefillSpec => []NeverOverfilled
  <1>1. RefillInv /\ UNCHANGED refillVars => RefillInv'
    BY DEF RefillInv, RefillTypes, Outstanding, Fresh, refillVars
  <1> QED
    BY <1>1, RefillStarts, RefillKeeps, NothingTooMuch, PTL DEF RefillSpec

-----------------------------------------------------------------------------
\* Where bagboy can be, and what each of its variables holds.
Places == {"down", "seed", "bid", "balance", "cancelAll", "book", "funds", "orders", "work"}

BagboyTypes ==
    /\ at \in Places /\ bid \in 0..MaxBid /\ lastBid \in 0..MaxBid
    /\ rest \in [Prices -> Nat] /\ stale \subseteq Prices /\ plan \subseteq Prices
    /\ wallet \in Nat /\ seen \in Nat /\ missed \in Nat
    /\ acquired \in Nat /\ spent \in Nat /\ disk \in [base : Nat, usdt : Nat]
    /\ mishap \in BOOLEAN

\* Where no process looks at the balance, the file accounts for it.
Counted ==
    /\ at \notin {"down", "seed"} => seen <= wallet
    /\ ~mishap /\ at # "down" => disk.base = acquired
    /\ ~mishap /\ at \in {"down", "seed"} => disk.base + missed = wallet
    /\ EveryUnitCounted

\* What is still to be placed does not rest.
Planned ==
    /\ at # "work" => plan = {}
    /\ plan \cap Resters = {}
    /\ LadderOnce

BagboyInv == BagboyTypes /\ Counted /\ Planned

\* compute_quantity returns a number of units.
LEMMA QuantityType == ASSUME NEW p \in Prices PROVE Quantity(p) \in Nat
  <1>1. p \in Nat /\ p > 0 /\ PerOrder \in Nat /\ MinQty \in Nat /\ MinNotional \in Nat
    BY BuyersAssumption DEF Prices
  <1>2. \A n \in Nat : n \div p \in Nat
    BY <1>1
  <1>3. CeilDiv(MinNotional, p) \in Nat
    BY <1>1, <1>2 DEF CeilDiv
  <1> QED
    BY <1>1, <1>2, <1>3 DEF Quantity

\* The ladder from any bid lies on the market's prices.
LEMMA LadderPrices == ASSUME NEW b \in 0..MaxBid PROVE Ladder(b) \subseteq Prices
  <1>1. MaxBid \in Nat /\ Levels \in Nat /\ Step \in Nat
    BY BuyersAssumption
  <1>2. ASSUME NEW i \in 0 .. Levels - 1 PROVE b - i * Step \in Int /\ b - i * Step <= MaxBid
    <2>1. i \in Nat /\ i * Step \in Nat
      BY <1>1
    <2> QED
      BY <1>1, <2>1
  <1> QED
    BY <1>1, <1>2 DEF Ladder, Prices

\* Bagboy starts with nothing bought, saved or planned.
LEMMA BagboyStarts == BagboyInit => BagboyInv
  <1>1. MaxBid \in Nat
    BY BuyersAssumption
  <1> SUFFICES ASSUME BagboyInit PROVE BagboyInv
    OBVIOUS
  <1>2. BagboyTypes
    <2>1. bid \in 0..MaxBid
      BY <1>1 DEF BagboyInit, Prices
    <2>2. lastBid \in 0..MaxBid /\ at \in Places
      BY <1>1 DEF BagboyInit, Places
    <2>3. rest \in [Prices -> Nat]
      BY DEF BagboyInit
    <2>4. disk \in [base : Nat, usdt : Nat]
      BY DEF BagboyInit
    <2> QED
      BY <2>1, <2>2, <2>3, <2>4 DEF BagboyInit, BagboyTypes
  <1>3. Counted
    BY DEF BagboyInit, Counted, EveryUnitCounted
  <1>4. Planned
    BY DEF BagboyInit, Planned, Resters, LadderOnce
  <1> QED
    BY <1>2, <1>3, <1>4 DEF BagboyInv

\* Every step of bagboy and of its market keeps the types and the count.
LEMMA CountedKeeps == BagboyInv /\ BagboyNext => BagboyTypes' /\ Counted'
  <1> SUFFICES ASSUME BagboyInv, BagboyNext PROVE BagboyTypes' /\ Counted'
    OBVIOUS
  <1>m. MaxBid \in Nat
    BY BuyersAssumption
  <1> USE DEF BagboyInv, BagboyTypes, Places
  <1>1. CASE Ticker
    BY <1>1, <1>m DEF Ticker, Counted, EveryUnitCounted
  <1>2. ASSUME NEW p \in Prices, BidFills(p) PROVE BagboyTypes' /\ Counted'
    <2>1. Quantity(p) \in Nat
      BY QuantityType
    <2>2. /\ rest' \in [Prices -> Nat] /\ wallet' = wallet + Quantity(p)
          /\ missed' = IF at \in {"down", "seed"} THEN missed + Quantity(p) ELSE missed
          /\ UNCHANGED <<at, bid, seen, acquired, spent, lastBid, disk, stale, plan, mishap>>
      BY <1>2 DEF BidFills
    <2> QED
      BY <2>1, <2>2 DEF Counted, EveryUnitCounted
  <1>3. ASSUME NEW readable \in BOOLEAN, LoadState(readable) PROVE BagboyTypes' /\ Counted'
    BY <1>3 DEF LoadState, Counted, EveryUnitCounted
  <1>4. CASE SeedBalance
    BY <1>4 DEF SeedBalance, Counted, EveryUnitCounted
  <1>5. CASE SeedBid
    BY <1>5 DEF SeedBid, Counted, EveryUnitCounted
  <1>6. CASE Ends
    BY <1>6 DEF Ends, Counted, EveryUnitCounted
  <1>7. ASSUME NEW ok \in BOOLEAN, Balance(ok) PROVE BagboyTypes' /\ Counted'
    <2> DEFINE delta == wallet - seen
               base == acquired + delta
               usdt == spent + delta * lastBid
    <2>1. delta \in Nat /\ base \in Nat /\ usdt \in Nat
      <3>1. delta \in Nat /\ lastBid \in Nat
        BY <1>7, <1>m DEF Balance, Counted
      <3>2. delta * lastBid \in Nat
        BY <3>1
      <3> QED
        BY <3>1, <3>2
    <2>2. /\ seen' = wallet /\ acquired' = base /\ spent' = usdt
          /\ disk' = IF delta > 0 THEN Saved(base, usdt, ok) ELSE disk
          /\ mishap' = (mishap \/ (delta > 0 /\ ~ok))
          /\ at' \in {"balance", "cancelAll", "book"} /\ at = "balance"
          /\ UNCHANGED <<bid, rest, wallet, lastBid, stale, plan, missed>>
      BY <1>7 DEF Balance
    <2>3. delta = 0 => base = acquired
      OBVIOUS
    <2> HIDE DEF usdt
    <2>a. mishap' = (mishap \/ (delta > 0 /\ ~ok))
      BY <2>2
    <2>4. mishap' \in BOOLEAN
      BY ONLY <2>a, Zenon
    <2>5. disk' \in [base : Nat, usdt : Nat] /\ (~mishap' => ~mishap /\ disk'.base = base)
      <3>1. at = "balance" /\ (~mishap => disk.base = acquired) /\ disk \in [base : Nat, usdt : Nat]
        BY <2>2 DEF Counted
      <3>2. disk' = IF delta > 0 THEN Saved(base, usdt, ok) ELSE disk
        BY <2>2
      <3> HIDE DEF base, delta, BagboyInv, BagboyTypes
      <3>3. CASE ~(delta > 0)
        <4>1. ~mishap' => ~mishap
          BY ONLY <2>a, Zenon
        <4>2. base = acquired /\ disk' = disk
          BY <2>1, <2>3, <3>2, <3>3
        <4> QED
          BY <3>1, <4>1, <4>2
      <3>4. CASE delta > 0 /\ ok
        BY <2>1, <2>a, <3>2, <3>4 DEF Saved
      <3>5. CASE delta > 0 /\ ~ok
        BY <2>a, <3>1, <3>2, <3>5 DEF Saved
      <3> QED
        BY <3>3, <3>4, <3>5
    <2>6. base + missed = wallet \/ mishap
      BY <2>2 DEF Counted, EveryUnitCounted
    <2> HIDE DEF base, delta
    <2>7. BagboyTypes'
      BY <2>1, <2>2, <2>4, <2>5
    <2> QED
      BY <2>2, <2>5, <2>6, <2>7 DEF Counted, EveryUnitCounted
  <1>8. ASSUME NEW obeyed \in BOOLEAN, CancelAllBids(obeyed) PROVE BagboyTypes' /\ Counted'
    BY <1>8 DEF CancelAllBids, Counted, EveryUnitCounted
  <1>9. CASE Book
    BY <1>9 DEF Book, Counted, EveryUnitCounted
  <1>10. CASE QuoteBalance
    BY <1>10 DEF QuoteBalance, Counted, EveryUnitCounted
  <1>11. CASE OpenBids
    <2>1. stale' \subseteq Prices /\ plan' \subseteq Prices
      BY <1>11, LadderPrices DEF OpenBids, Outside, Resters, Missing
    <2> QED
      BY <1>11, <2>1 DEF OpenBids, Counted, EveryUnitCounted
  <1>12. CASE CycleFails
    BY <1>12 DEF CycleFails, Counted, EveryUnitCounted
  <1>13. ASSUME NEW p \in Prices, NEW obeyed \in BOOLEAN, CancelBid(p, obeyed)
         PROVE  BagboyTypes' /\ Counted'
    <2>1. rest' \in [Prices -> Nat]
      BY <1>13 DEF CancelBid
    <2> QED
      BY <1>13, <2>1 DEF CancelBid, Counted, EveryUnitCounted
  <1>14. ASSUME NEW p \in Prices, NEW rests \in BOOLEAN, NEW heard \in BOOLEAN,
                PlaceBid(p, rests, heard)
         PROVE  BagboyTypes' /\ Counted'
    <2>1. rest' \in [Prices -> Nat]
      BY <1>14 DEF PlaceBid
    <2> QED
      BY <1>14, <2>1 DEF PlaceBid, Counted, EveryUnitCounted
  <1>15. CASE CycleEnds
    BY <1>15 DEF CycleEnds, Counted, EveryUnitCounted
  <1> QED
    BY <1>1, <1>2, <1>3, <1>4, <1>5, <1>6, <1>7, <1>8, <1>9, <1>10, <1>11, <1>12, <1>13,
       <1>14, <1>15 DEF BagboyNext

\* Every step of bagboy and of its market keeps the plan off the levels that rest.
LEMMA PlannedKeeps == BagboyInv /\ BagboyNext => Planned'
  <1> SUFFICES ASSUME BagboyInv, BagboyNext PROVE Planned'
    OBVIOUS
  <1>t. rest \in [Prices -> Nat] /\ plan \subseteq Prices /\ lastBid \in 0..MaxBid
    BY DEF BagboyInv, BagboyTypes
  <1>p. Planned
    BY DEF BagboyInv
  <1> USE DEF Planned, Resters, LadderOnce
  <1>0. CASE UNCHANGED <<rest, plan>> /\ (plan = {} \/ UNCHANGED at)
    BY <1>0, <1>p
  <1>1. ASSUME NEW p \in Prices, BidFills(p) PROVE Planned'
    BY <1>1, <1>t, <1>p DEF BidFills
  <1>2. CASE Ends
    BY <1>2, <1>p DEF Ends
  <1>3. ASSUME NEW obeyed \in BOOLEAN, CancelAllBids(obeyed) PROVE Planned'
    BY <1>3, <1>t, <1>p DEF CancelAllBids
  <1>4. CASE OpenBids
    BY <1>4, <1>p DEF OpenBids, Missing
  <1>5. ASSUME NEW p \in Prices, NEW obeyed \in BOOLEAN, CancelBid(p, obeyed) PROVE Planned'
    <2>1. /\ UNCHANGED <<at, plan>>
          /\ rest' = IF obeyed /\ rest[p] > 0 THEN [rest EXCEPT ![p] = @ - 1] ELSE rest
      BY <1>5 DEF CancelBid
    <2>2. \A q \in Prices : rest'[q] <= rest[q] /\ rest'[q] \in Nat
      BY <1>t, <2>1
    <2> QED
      BY <1>t, <1>p, <2>1, <2>2
  <1>6. ASSUME NEW p \in Prices, NEW rests \in BOOLEAN, NEW heard \in BOOLEAN,
               PlaceBid(p, rests, heard)
        PROVE  Planned'
    <2>1. /\ at = "work" /\ p \in plan /\ UNCHANGED at /\ plan' = plan \ {p}
          /\ rest' = IF rests THEN [rest EXCEPT ![p] = @ + 1] ELSE rest
      BY <1>6 DEF PlaceBid, Turn
    <2>2. rest[p] = 0
      BY <1>t, <1>p, <2>1
    <2>3. \A q \in Prices : q # p => rest'[q] = rest[q]
      BY <1>t, <2>1
    <2>4. rest'[p] <= 1
      BY <1>t, <2>1, <2>2
    <2> QED
      BY <1>t, <1>p, <2>1, <2>3, <2>4
  <1>7. CASE CycleEnds
    BY <1>7, <1>p DEF CycleEnds
  <1>8. CASE Ticker \/ SeedBalance \/ SeedBid \/ Book \/ QuoteBalance \/ CycleFails
    <2>1. UNCHANGED <<rest, plan>> /\ (at # "work" \/ UNCHANGED at)
      BY <1>8 DEF Ticker, SeedBalance, SeedBid, Book, QuoteBalance, CycleFails
    <2> QED
      BY <1>0, <1>p, <2>1
  <1>9. ASSUME NEW readable \in BOOLEAN, LoadState(readable) PROVE Planned'
    BY <1>9, <1>0, <1>p DEF LoadState
  <1>10. ASSUME NEW ok \in BOOLEAN, Balance(ok) PROVE Planned'
    <2>1. UNCHANGED <<rest, plan>> /\ at # "work"
      BY <1>10 DEF Balance
    <2> QED
      BY <1>0, <1>p, <2>1
  <1> QED
    BY <1>1, <1>2, <1>3, <1>4, <1>5, <1>6, <1>7, <1>8, <1>9, <1>10 DEF BagboyNext

\* The invariant of bagboy's cycle.
LEMMA BagboyInvariant == BagboySpec => []BagboyInv
  <1>1. BagboyInv /\ UNCHANGED bagboyVars => BagboyInv'
    BY DEF BagboyInv, BagboyTypes, Counted, EveryUnitCounted, Planned, Resters, LadderOnce,
           bagboyVars
  <1>2. BagboyInv /\ BagboyNext => BagboyInv'
    BY CountedKeeps, PlannedKeeps DEF BagboyInv
  <1> QED
    BY <1>1, <1>2, BagboyStarts, PTL DEF BagboySpec

\* Every unit bought is in the count the caps read, once, or was bought while
\* nobody looked (spawn_bagboy), across any kills and restarts, for any filters,
\* caps and budgets.
THEOREM UnitsCounted == BagboySpec => []EveryUnitCounted
  <1>1. BagboyInv => EveryUnitCounted
    BY DEF BagboyInv, Counted
  <1> QED
    BY <1>1, BagboyInvariant, PTL

\* No price holds two of bagboy's bids (spawn_bagboy, step 5), for any ladder.
THEOREM LadderRestsOnce == BagboySpec => []LadderOnce
  <1>1. BagboyInv => LadderOnce
    BY DEF BagboyInv, Planned
  <1> QED
    BY <1>1, BagboyInvariant, PTL
=============================================================================
