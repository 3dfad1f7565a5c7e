----------------------------- MODULE TwinProofs -----------------------------
(***************************************************************************)
(* Proof that no strategy that reconciles its quotes rests two orders at   *)
(* one price of a side, for any of nine strategies, their parameters, any  *)
(* books, events and faults.                                               *)
(*                                                                         *)
(* It is shown of each that the orders of one of its batches differ in     *)
(* price or side (Apart), and that what already rests where one of them    *)
(* goes has been cancelled or replaced by its turn (Clear); the venue then *)
(* makes no twins of such a batch (BatchApplied), whichever of its orders  *)
(* it refuses.  The invariant (Tidy) says what the strategies need of      *)
(* their state, of the orders shown and of the ledger.                     *)
(***************************************************************************)
EXTENDS StrategyProofs

\* An action that places a resting order,
Posting(a) == a.op \in {"quote", "requote"} /\ a.tif = "post"
\* or a taker order.
Taking(a) == a.op = "quote" /\ a.tif = "ioc"
\* Orders or actions at one price of a side.
SameKey(a, o) == a.side = o.side /\ a.px = o.px
\* The action a takes the resting order o away.
Removes(a, o) == a.op = "cancelAll" \/ (a.op \in {"cancel", "requote"} /\ a.id = o.id)
\* An order keeps what it is known by.
Fielded(o) == {"id", "side", "px", "sz"} \subseteq DOMAIN o
\* The order o is what the venue makes of a.
Placed(o, a) ==
    /\ Fielded(o)
    /\ Posting(a) /\ o.side = a.side /\ o.px = a.px /\ o.sz = a.sz
    /\ a.op = "requote" => o.id = a.id
    /\ ~WouldCross(a.side, a.px)

\* A sequence of actions, no two of which place an order at one price of a side.
Apart(x) ==
    /\ IsSeq(x)
    /\ \A i \in 1..Len(x) : Maker(x[i]) \/ Taking(x[i])
    /\ \A i, j \in 1..Len(x) : Posting(x[i]) /\ Posting(x[j]) /\ SameKey(x[i], x[j]) => i = j
\* What rests where one of them places an order has been taken away by then.
Clear(x, R) ==
    \A i \in 1..Len(x) : \A o \in R :
        Posting(x[i]) /\ SameKey(x[i], o) => \E j \in 1..i : Removes(x[j], o)

\* b holds the resting orders r and the taker orders F.
Bears(b, r, F) ==
    /\ \E q : b = [rest |-> r, flight |-> F, refused |-> q] /\ IsSeq(q)
    /\ IsFiniteSet(r)

\* What one action leaves of the orders r.
Left(r, a) == {o \in r : ~Removes(a, o)}

\* One action leaves what it does not remove, and adds at most the order it places.
LEMMA OneAction ==
    ASSUME NEW b, NEW r, NEW F, Bears(b, r, F), NEW a, Maker(a), NEW fault
    PROVE  \E r2 : /\ Bears(ApplyOne(b, a, fault), r2, F)
                   /\ r2 = Left(r, a) \/ \E n : Placed(n, a) /\ r2 = Left(r, a) \cup {n}
  <1>1. PICK q : b = [rest |-> r, flight |-> F, refused |-> q] /\ IsSeq(q)
    BY DEF Bears
  <1>2. IsFiniteSet(Left(r, a))
    <2>1. Left(r, a) \in SUBSET r
      BY DEF Left
    <2> QED
      BY <2>1, FS_Subset DEF Bears
  <1>3. ASSUME NEW s, IsFiniteSet(s), NEW x, x = [rest |-> s, flight |-> F, refused |-> q], NEW id,
               a.op \in {"quote", "requote"}, a.op = "requote" => id = a.id
        PROVE  \E r2 : /\ Bears(PlaceOrder(x, a, id, fault), r2, F)
                       /\ r2 = s \/ \E n : Placed(n, a) /\ r2 = s \cup {n}
    <2> DEFINE o == [id |-> id, side |-> a.side, px |-> a.px, sz |-> a.sz]
               no == [q |-> a, why |-> Refusal(a, fault)]
    <2>1. a.tif = "post"
      BY DEF Maker
    <2>2. CASE Refusal(a, fault) = "none"
      <3>1. PlaceOrder(x, a, id, fault) = [x EXCEPT !.rest = @ \cup {o}]
        BY <2>1, <2>2 DEF PlaceOrder
      <3>2. Placed(o, a)
        <4>1. ~WouldCross(a.side, a.px)
          BY <2>2 DEF Refusal
        <4> QED
          BY <1>3, <2>1, <4>1 DEF Placed, Posting, Fielded
      <3> HIDE DEF o
      <3>3. PlaceOrder(x, a, id, fault) = [rest |-> s \cup {o}, flight |-> F, refused |-> q]
        BY <1>3, <3>1
      <3>4. IsFiniteSet(s \cup {o})
        BY <1>3, FS_AddElement
      <3>5. Bears(PlaceOrder(x, a, id, fault), s \cup {o}, F)
        BY <1>1, <3>3, <3>4 DEF Bears
      <3> QED
        BY <3>2, <3>5
    <2>3. CASE Refusal(a, fault) # "none"
      <3>1. PlaceOrder(x, a, id, fault) = [x EXCEPT !.refused = Append(@, no)]
        BY <2>1, <2>3 DEF PlaceOrder
      <3> HIDE DEF no
      <3>2. IsSeq(Append(q, no))
        <4>1. PICK S : q \in Seq(S)
          BY <1>1 DEF IsSeq
        <4>2. q \in Seq(S \cup {no})
          BY <4>1, SeqWider
        <4>3. Append(q, no) \in Seq(S \cup {no})
          BY <4>2
        <4> QED
          BY <4>3 DEF IsSeq
      <3>3. PlaceOrder(x, a, id, fault) = [rest |-> s, flight |-> F, refused |-> Append(q, no)]
        BY <1>3, <3>1
      <3>4. Bears(PlaceOrder(x, a, id, fault), s, F)
        BY <1>3, <3>2, <3>3 DEF Bears
      <3> QED
        BY <3>4
    <2> QED
      BY <2>2, <2>3
  <1> DEFINE gone == [b EXCEPT !.rest = {o \in @ : o.id # a.id}]
             s == {o \in r : o.id # a.id}
  <1>4. gone = [rest |-> s, flight |-> F, refused |-> q]
    <2>1. {o \in b.rest : o.id # a.id} = s
      BY <1>1
    <2> HIDE DEF s
    <2>2. gone = [b EXCEPT !.rest = s]
      BY <2>1
    <2> QED
      BY <1>1, <2>2
  <1>5. CASE a.op = "quote"
    <2>1. Left(r, a) = r
      BY <1>5 DEF Left, Removes
    <2>2. ApplyOne(b, a, fault) = PlaceOrder(b, a, FreeId(b), fault)
      BY <1>5 DEF ApplyOne
    <2> HIDE DEF gone, s
    <2> QED
      BY <1>1, <1>2, <1>3, <1>5, <2>1, <2>2
  <1>6. CASE a.op = "requote"
    <2>1. Left(r, a) = s
      BY <1>6 DEF Left, Removes
    <2>2. ApplyOne(b, a, fault) = PlaceOrder(gone, a, a.id, fault)
      BY <1>6 DEF ApplyOne
    <2> HIDE DEF gone, s
    <2> QED
      BY <1>2, <1>3, <1>4, <1>6, <2>1, <2>2
  <1>7. CASE a.op = "cancel"
    <2>1. Left(r, a) = s
      BY <1>7 DEF Left, Removes
    <2>2. ApplyOne(b, a, fault) = gone
      BY <1>7 DEF ApplyOne
    <2> HIDE DEF gone, s
    <2> QED
      BY <1>1, <1>2, <1>4, <2>1, <2>2 DEF Bears
  <1>8. CASE a.op = "cancelAll"
    <2>1. Left(r, a) = {}
      BY <1>8 DEF Left, Removes
    <2>2. ApplyOne(b, a, fault) = [rest |-> {}, flight |-> F, refused |-> q]
      BY <1>1, <1>8 DEF ApplyOne
    <2>3. Bears(ApplyOne(b, a, fault), {}, F)
      BY <1>1, <1>2, <2>1, <2>2 DEF Bears
    <2> QED
      BY <2>1, <2>3
  <1> QED
    BY <1>5, <1>6, <1>7, <1>8 DEF Maker

\* A taker order leaves the resting ones alone.
LEMMA OneTake ==
    ASSUME NEW b, NEW r, NEW F, Bears(b, r, F), NEW a, Taking(a), NEW fault
    PROVE  \E x : Fresh(x) /\ Fielded(x) /\ x.side = a.side /\ x.px = a.px /\ x.sz = a.sz
                  /\ Bears(ApplyOne(b, a, fault), r, F \cup {x})
  <1> DEFINE x == [id |-> FreeId(b), side |-> a.side, px |-> a.px, sz |-> a.sz, at |-> now, late |-> FALSE]
  <1>1. ApplyOne(b, a, fault) = [b EXCEPT !.flight = @ \cup {x}]
    BY DEF ApplyOne, PlaceOrder, Taking
  <1>2. Fresh(x) /\ Fielded(x) /\ x.side = a.side /\ x.px = a.px /\ x.sz = a.sz
    BY DEF Fresh, Fielded
  <1> HIDE DEF x
  <1>3. PICK q : b = [rest |-> r, flight |-> F, refused |-> q] /\ IsSeq(q)
    BY DEF Bears
  <1>4. ApplyOne(b, a, fault) = [rest |-> r, flight |-> F \cup {x}, refused |-> q]
    BY <1>1, <1>3
  <1>5. Bears(ApplyOne(b, a, fault), r, F \cup {x})
    BY <1>3, <1>4 DEF Bears
  <1> QED
    BY <1>2, <1>5

\* No two of the orders r are at one price of a side.
Single(r) == \A o, x \in r : SameKey(o, x) => o = x
\* The orders r2 are orders of r that the first k of acts leave, or placed by them.
From(r2, r, acts, k) ==
    \A o \in r2 : \/ o \in r /\ \A j \in 1..k : ~Removes(acts[j], o)
                  \/ \E i \in 1..k : Placed(o, acts[i])
\* The taker orders G are those of F and what acts sent now.
Sent(G, F, acts) ==
    /\ F \subseteq G
    /\ \A x \in G : \/ x \in F
                    \/ Fresh(x) /\ \E i \in 1..Len(acts) :
                         Taking(acts[i]) /\ x.side = acts[i].side /\ x.px = acts[i].px /\ x.sz = acts[i].sz
    /\ IsFiniteSet(F) => IsFiniteSet(G)
\* What the first k of acts make of the resting orders r and the taker orders F.
Makes(b, r, F, acts, k) ==
    \E r2, G : /\ Bears(b, r2, G) /\ Single(r2) /\ From(r2, r, acts, k) /\ Sent(G, F, acts)
               /\ (\A i \in 1..Len(acts) : Maker(acts[i])) => G = F

\* One action of such a batch keeps the orders apart.
LEMMA NextAction ==
    ASSUME NEW b, NEW r, NEW F, NEW acts, Apart(acts), Clear(acts, r), NEW fault,
           NEW k \in Nat, k + 1 \in 1..Len(acts), Makes(b, r, F, acts, k)
    PROVE  Makes(ApplyOne(b, acts[k + 1], fault), r, F, acts, k + 1)
  <1> DEFINE a == acts[k + 1]
             only == \A i \in 1..Len(acts) : Maker(acts[i])
  <1>1. PICK r2, G : /\ Bears(b, r2, G) /\ Single(r2) /\ From(r2, r, acts, k) /\ Sent(G, F, acts)
                     /\ only => G = F
    BY DEF Makes
  <1>2. Maker(a) \/ Taking(a)
    BY DEF Apart
  <1>0. Len(acts) \in Nat /\ 1..k \subseteq 1..k + 1 /\ k + 1 \in 1..k + 1
    BY DEF Apart, IsSeq
  <1>3. CASE Maker(a)
    <2>1. PICK r3 : /\ Bears(ApplyOne(b, a, fault), r3, G)
                    /\ r3 = Left(r2, a) \/ \E n : Placed(n, a) /\ r3 = Left(r2, a) \cup {n}
      <3>1. Bears(b, r2, G)
        BY <1>1
      <3> HIDE DEF a, only
      <3> QED
        BY <1>3, <3>1, OneAction
    <2>2. From(Left(r2, a), r, acts, k + 1)
      <3> SUFFICES ASSUME NEW o \in Left(r2, a)
                   PROVE  \/ o \in r /\ \A j \in 1..k + 1 : ~Removes(acts[j], o)
                          \/ \E i \in 1..k + 1 : Placed(o, acts[i])
        BY DEF From
      <3>1. o \in r2 /\ ~Removes(acts[k + 1], o)
        BY DEF Left
      <3>2. CASE o \in r /\ \A j \in 1..k : ~Removes(acts[j], o)
        BY <3>1, <3>2
      <3>3. CASE \E i \in 1..k : Placed(o, acts[i])
        BY <1>0, <3>3
      <3> QED
        BY <1>1, <3>1, <3>2, <3>3 DEF From
    <2>3. Single(Left(r2, a))
      BY <1>1 DEF Single, Left
    <2>4. ASSUME NEW n, Placed(n, a), r3 = Left(r2, a) \cup {n}
          PROVE  From(r3, r, acts, k + 1) /\ Single(r3)
      <3>1. From(r3, r, acts, k + 1)
        BY <1>0, <2>2, <2>4 DEF From
      <3>2. ASSUME NEW o \in Left(r2, a), SameKey(o, n) PROVE FALSE
        <4>1. SameKey(acts[k + 1], o) /\ Posting(acts[k + 1])
          BY <2>4, <3>2 DEF Placed, SameKey
        <4>2. ASSUME o \in r, \A j \in 1..k + 1 : ~Removes(acts[j], o) PROVE FALSE
          BY <4>1, <4>2 DEF Clear
        <4>3. ASSUME NEW i \in 1..k + 1, Placed(o, acts[i]) PROVE o \notin Left(r2, a) \/ i = k + 1
          <5>1. SameKey(acts[i], acts[k + 1]) /\ Posting(acts[i])
            BY <4>1, <4>3 DEF Placed, SameKey
          <5>2. i \in 1..Len(acts)
            BY <1>0
          <5> QED
            BY <4>1, <5>1, <5>2 DEF Apart
        <4>4. o \in r2 /\ ~Removes(acts[k + 1], o)
          BY <3>2 DEF Left
        <4>5. (o \in r /\ \A j \in 1..k : ~Removes(acts[j], o)) \/ \E i \in 1..k : Placed(o, acts[i])
          BY <1>1, <4>4 DEF From
        <4>6. CASE o \in r /\ \A j \in 1..k : ~Removes(acts[j], o)
          <5>1. \A j \in 1..k + 1 : ~Removes(acts[j], o)
            BY <4>4, <4>6
          <5> QED
            BY <4>2, <4>6, <5>1
        <4>7. CASE \E i \in 1..k : Placed(o, acts[i])
          <5>1. PICK i \in 1..k : Placed(o, acts[i])
            BY <4>7
          <5>2. i \in 1..k + 1 /\ i # k + 1
            BY <1>0
          <5> QED
            BY <3>2, <4>3, <5>1, <5>2
        <4> QED
          BY <4>5, <4>6, <4>7
      <3>3. Single(r3)
        <4>1. \A o, x : SameKey(o, x) => SameKey(x, o)
          BY DEF SameKey
        <4> QED
          BY <2>3, <2>4, <3>2, <4>1 DEF Single
      <3> QED
        BY <3>1, <3>3
    <2>5. From(r3, r, acts, k + 1) /\ Single(r3)
      BY <2>1, <2>2, <2>3, <2>4
    <2> HIDE DEF only
    <2>6. Bears(ApplyOne(b, a, fault), r3, G) /\ Single(r3) /\ From(r3, r, acts, k + 1)
          /\ Sent(G, F, acts) /\ (only => G = F)
      BY <1>1, <2>1, <2>5
    <2> HIDE DEF a
    <2>7. Makes(ApplyOne(b, a, fault), r, F, acts, k + 1)
      BY <2>6 DEF Makes, only
    <2> QED
      BY <2>7 DEF a
  <1>4. CASE Taking(a)
    <2>1. PICK x : Fresh(x) /\ x.side = a.side /\ x.px = a.px /\ x.sz = a.sz
                   /\ Bears(ApplyOne(b, a, fault), r2, G \cup {x})
      <3> HIDE DEF a
      <3> QED
        BY <1>1, <1>4, OneTake
    <2>2. From(r2, r, acts, k + 1)
      <3> SUFFICES ASSUME NEW o \in r2
                   PROVE  \/ o \in r /\ \A j \in 1..k + 1 : ~Removes(acts[j], o)
                          \/ \E i \in 1..k + 1 : Placed(o, acts[i])
        BY DEF From
      <3>1. ~Removes(acts[k + 1], o)
        BY <1>4 DEF Taking, Removes
      <3> QED
        BY <1>0, <1>1, <3>1 DEF From
    <2>3. Sent(G \cup {x}, F, acts)
      BY <1>1, <1>4, <2>1, FS_AddElement DEF Sent
    <2>4. ~only
      BY <1>4 DEF Maker, Taking
    <2> HIDE DEF only
    <2>5. Bears(ApplyOne(b, a, fault), r2, G \cup {x}) /\ Single(r2) /\ From(r2, r, acts, k + 1)
          /\ Sent(G \cup {x}, F, acts) /\ (only => G \cup {x} = F)
      BY <1>1, <2>1, <2>2, <2>3, <2>4
    <2> HIDE DEF a
    <2>6. Makes(ApplyOne(b, a, fault), r, F, acts, k + 1)
      BY <2>5 DEF Makes, only
    <2> QED
      BY <2>6 DEF a
  <1> QED
    BY <1>2, <1>3, <1>4

\* A batch whose orders are apart leaves no twins.
LEMMA BatchApplied ==
    ASSUME NEW b, NEW r, NEW F, Bears(b, r, F), Single(r),
           NEW acts, Apart(acts), Clear(acts, r), NEW fault
    PROVE  Makes(Apply(b, acts, fault), r, F, acts, Len(acts))
  <1>1. Len(acts) \in Nat
    BY DEF Apart, IsSeq
  <1>2. PICK h : Stages(h, b, acts, fault)
    BY <1>1, ApplySteps
  <1>3. /\ Apply(b, acts, fault) = h[Len(acts)]
        /\ h[0] = b
        /\ \A k \in 1..Len(acts) : h[k] = ApplyOne(h[k - 1], acts[k], fault)
    BY <1>2 DEF Stages
  <1> DEFINE T == {k \in Nat : k <= Len(acts) => Makes(h[k], r, F, acts, k)}
  <1>4. 0 \in T
    <2>1. From(r, r, acts, 0) /\ Sent(F, F, acts)
      BY DEF From, Sent
    <2>2. Makes(b, r, F, acts, 0)
      BY <2>1 DEF Makes
    <2> QED
      BY <1>3, <2>2
  <1>5. ASSUME NEW k \in Nat, k \in T PROVE k + 1 \in T
    <2> SUFFICES ASSUME k + 1 <= Len(acts) PROVE Makes(h[k + 1], r, F, acts, k + 1)
      OBVIOUS
    <2>1. k + 1 \in 1..Len(acts) /\ (k + 1) - 1 = k
      BY <1>1
    <2>2. h[k + 1] = ApplyOne(h[k], acts[k + 1], fault)
      BY <1>3, <2>1
    <2>3. Makes(h[k], r, F, acts, k)
      BY <1>1, <1>5
    <2> QED
      BY <2>1, <2>2, <2>3, NextAction
  <1>6. Nat \subseteq T
    <2> HIDE DEF T
    <2> QED
      BY <1>4, <1>5, Induct
  <1> QED
    BY <1>1, <1>3, <1>6

\* No action changes nothing.
LEMMA AppliedNothing == ASSUME NEW b, NEW fault PROVE Apply(b, << >>, fault) = b
  <1> DEFINE e == << >>
  <1>1. Len(e) = 0 /\ Len(e) \in Nat
    OBVIOUS
  <1> HIDE DEF e
  <1>2. PICK h : Stages(h, b, e, fault)
    BY <1>1, ApplySteps
  <1>3. Apply(b, e, fault) = b
    BY <1>1, <1>2 DEF Stages
  <1> QED
    BY <1>3 DEF e

\* The strategies that reconcile do nothing on a refusal: the next event does.
LEMMA Unmoved ==
    ASSUME which \in Reconciling, NEW x, NEW s, NEW r, NEW F, x.st = s, Bears(x.b, r, F), NEW no, NEW c
    PROVE  Recover(x, no, c).st = s /\ Bears(Recover(x, no, c).b, r, F)
  <1> DEFINE c1 == [c EXCEPT !.open = x.b.rest]
             out == OnQuoteRejected(x.st, c1, no.q, no.why)
  <1>1. Recover(x, no, c) = [st |-> out.st, b |-> Apply(x.b, out.acts, "none")]
    BY DEF Recover
  <1>2. out = Out(s, << >>)
    BY DEF OnQuoteRejected, Reconciling
  <1>3. out.st = s /\ out.acts = << >>
    BY <1>2 DEF Out
  <1> HIDE DEF out
  <1>4. Apply(x.b, out.acts, "none") = x.b
    BY <1>3, AppliedNothing
  <1> DEFINE y == Recover(x, no, c)
  <1>5. y.st = out.st /\ y.b = x.b
    BY <1>1, <1>4
  <1> HIDE DEF y
  <1>6. y.st = s /\ Bears(y.b, r, F)
    BY <1>3, <1>5
  <1> QED
    BY <1>6 DEF y

\* So a batch is what Apply leaves of it.
LEMMA SettleIgnores ==
    ASSUME which \in Reconciling, NEW s, NEW b, NEW c, NEW r, NEW F, Bears(b, r, F)
    PROVE  Settle(s, b, c).st = s /\ Bears(Settle(s, b, c).b, r, F)
  <1> DEFINE n == Len(b.refused)
             first == [st |-> s, b |-> [b EXCEPT !.refused = << >>]]
             h == CHOOSE f : Settles(f, s, b, c, n)
  <1>1. PICK q : b = [rest |-> r, flight |-> F, refused |-> q] /\ IsSeq(q)
    BY DEF Bears
  <1>2. n \in Nat
    BY <1>1 DEF IsSeq
  <1>3. first.st = s /\ Bears(first.b, r, F)
    <2> DEFINE e == << >>
    <2>1. IsSeq(e)
      BY NothingSeq
    <2>2. first.b = [rest |-> r, flight |-> F, refused |-> e] /\ first.st = s
      BY <1>1
    <2> HIDE DEF e, first
    <2> QED
      BY <2>1, <2>2 DEF Bears
  <1>4. Settles(h, s, b, c, n)
    BY <1>2, SettlesExist
  <1>5. Settle(s, b, c) = h[n]
    BY DEF Settle, Settles
  <1> HIDE DEF h
  <1>10. h = [k \in 0..n |-> IF k = 0 THEN first ELSE Recover(h[k - 1], b.refused[k], c)]
    BY <1>4 DEF Settles
  <1> HIDE DEF n, first
  <1>6. h[0] = first /\ \A k \in 1..n : h[k] = Recover(h[k - 1], b.refused[k], c)
    BY <1>2, <1>10
  <1> DEFINE T == {k \in Nat : k <= n => h[k].st = s /\ Bears(h[k].b, r, F)}
  <1>7. 0 \in T
    BY <1>3, <1>6
  <1>8. ASSUME NEW k \in Nat, k \in T PROVE k + 1 \in T
    <2> SUFFICES ASSUME k + 1 <= n PROVE h[k + 1].st = s /\ Bears(h[k + 1].b, r, F)
      OBVIOUS
    <2>1. k + 1 \in 1..n /\ (k + 1) - 1 = k /\ k <= n
      BY <1>2
    <2>2. h[k + 1] = Recover(h[k], b.refused[k + 1], c) /\ h[k].st = s /\ Bears(h[k].b, r, F)
      BY <1>6, <1>8, <2>1
    <2> QED
      BY <2>2, Unmoved
  <1>9. Nat \subseteq T
    <2> HIDE DEF T
    <2> QED
      BY <1>7, <1>8, Induct
  <1> QED
    BY <1>2, <1>5, <1>9

-----------------------------------------------------------------------------
(* How such batches are put together.                                        *)

\* A batch of orders that are apart, those that rest among K.
Neat(x, K) == Apart(x) /\ \A i \in 1..Len(x) : Posting(x[i]) => x[i] \in K
\* No order of K is at one price with one of L.
Strangers(K, L) == \A a \in K, b \in L : ~SameKey(a, b)

LEMMA NeatWider == ASSUME NEW x, NEW K, NEW L, Neat(x, K), K \subseteq L PROVE Neat(x, L)
  BY DEF Neat

\* The empty batch,
LEMMA NeatNothing == ASSUME NEW K PROVE Neat(<< >>, K)
  <1> DEFINE e == << >>
  <1>1. Len(e) = 0 /\ IsSeq(e)
    BY NothingSeq
  <1> HIDE DEF e
  <1>2. Neat(e, K)
    BY <1>1 DEF Neat, Apart
  <1> QED
    BY <1>2 DEF e

\* a single order,
LEMMA NeatOne ==
    ASSUME NEW a, Maker(a) \/ Taking(a), NEW K, Posting(a) => a \in K
    PROVE  Neat(<<a>>, K)
  <1> DEFINE x == <<a>>
  <1>1. Len(x) = 1 /\ x[1] = a /\ IsSeq(x)
    BY OneSeq
  <1> HIDE DEF x
  <1>2. \A i \in 1..Len(x) : i = 1 /\ x[i] = a
    BY <1>1
  <1>3. Neat(x, K)
    BY <1>1, <1>2 DEF Neat, Apart
  <1> QED
    BY <1>3 DEF x

\* two batches that share no price,
LEMMA NeatJoined ==
    ASSUME NEW x, NEW y, NEW K, NEW L, Neat(x, K), Neat(y, L), Strangers(K, L)
    PROVE  Neat(x \o y, K \cup L)
  <1>1. PICK S : x \in Seq(S)
    BY DEF Neat, Apart, IsSeq
  <1>2. PICK T : y \in Seq(T)
    BY DEF Neat, Apart, IsSeq
  <1>3. /\ x \o y \in Seq(S \cup T) /\ Len(x \o y) = Len(x) + Len(y)
        /\ \A i \in 1..Len(x) : (x \o y)[i] = x[i]
        /\ \A i \in 1..Len(y) : (x \o y)[Len(x) + i] = y[i]
    BY <1>1, <1>2, Joined
  <1> DEFINE z == x \o y
             m == Len(x)
             n == Len(y)
  <1>4. m \in Nat /\ n \in Nat /\ Len(z) = m + n
    BY <1>1, <1>2, <1>3
  <1>5. \A i \in 1..m : z[i] = x[i]
    BY <1>3
  <1>6. ASSUME NEW i \in 1..m + n, i > m PROVE i - m \in 1..n /\ z[i] = y[i - m]
    <2>1. i - m \in 1..n /\ m + (i - m) = i
      BY <1>4, <1>6
    <2> QED
      BY <1>3, <2>1
  <1>7. /\ \A i \in 1..m : (Maker(x[i]) \/ Taking(x[i])) /\ (Posting(x[i]) => x[i] \in K)
        /\ \A i \in 1..n : (Maker(y[i]) \/ Taking(y[i])) /\ (Posting(y[i]) => y[i] \in L)
        /\ \A i, j \in 1..m : Posting(x[i]) /\ Posting(x[j]) /\ SameKey(x[i], x[j]) => i = j
        /\ \A i, j \in 1..n : Posting(y[i]) /\ Posting(y[j]) /\ SameKey(y[i], y[j]) => i = j
    BY DEF Neat, Apart
  <1>8. IsSeq(z)
    BY <1>3 DEF IsSeq
  <1> HIDE DEF z, m, n
  <1>9. ASSUME NEW i \in 1..m + n
        PROVE  (Maker(z[i]) \/ Taking(z[i])) /\ (Posting(z[i]) => z[i] \in K \cup L)
    <2>1. CASE i <= m
      <3>1. i \in 1..m
        BY <1>4, <2>1
      <3> QED
        BY <1>5, <1>7, <3>1
    <2>2. CASE i > m
      BY <1>6, <1>7, <2>2
    <2> QED
      BY <1>4, <2>1, <2>2
  <1>10. ASSUME NEW i \in 1..m + n, NEW j \in 1..m + n, i <= m, j > m,
                Posting(z[i]), Posting(z[j])
         PROVE  ~SameKey(z[i], z[j]) /\ ~SameKey(z[j], z[i])
    <2>1. i \in 1..m
      BY <1>4, <1>10
    <2>2. z[i] \in K /\ z[j] \in L
      BY <1>5, <1>6, <1>7, <1>10, <2>1
    <2>3. ~SameKey(z[i], z[j])
      BY <2>2 DEF Strangers
    <2> QED
      BY <2>3 DEF SameKey
  <1>11. ASSUME NEW i \in 1..m + n, NEW j \in 1..m + n, Posting(z[i]), Posting(z[j]), SameKey(z[i], z[j])
         PROVE  i = j
    <2>1. CASE i <= m /\ j <= m
      <3>1. i \in 1..m /\ j \in 1..m
        BY <1>4, <2>1
      <3> QED
        BY <1>5, <1>7, <1>11, <3>1
    <2>2. CASE i > m /\ j > m
      <3>1. i - m = j - m
        BY <1>6, <1>7, <1>11, <2>2
      <3> QED
        BY <1>4, <3>1
    <2>3. CASE i <= m /\ j > m
      BY <1>10, <1>11, <2>3
    <2>4. CASE i > m /\ j <= m
      BY <1>10, <1>11, <2>4
    <2> QED
      BY <1>4, <2>1, <2>2, <2>3, <2>4
  <1>12. Neat(z, K \cup L)
    BY <1>4, <1>8, <1>9, <1>11 DEF Neat, Apart
  <1> QED
    BY <1>12 DEF z

\* a conditional batch,
LEMMA NeatWhen == ASSUME NEW b, NEW x, NEW K, b => Neat(x, K) PROVE Neat(When(b, x), K)
  BY NeatNothing DEF When

\* and a sequence that moves the actions of one.
LEMMA NeatMoved ==
    ASSUME NEW x, NEW K, Neat(x, K), NEW f \in [1..Len(x) -> 1..Len(x)],
           \A i, j \in 1..Len(x) : f[i] = f[j] => i = j
    PROVE  Neat([i \in 1..Len(x) |-> x[f[i]]], K)
  <1> DEFINE n == Len(x)
             y == [i \in 1..n |-> x[f[i]]]
  <1>1. PICK S : x \in Seq(S)
    BY DEF Neat, Apart, IsSeq
  <1>2. n \in Nat /\ \A i \in 1..n : f[i] \in 1..n
    BY <1>1
  <1>3. y \in Seq(S) /\ Len(y) = n
    <2>1. \A i \in 1..n : x[f[i]] \in S
      BY <1>1, <1>2
    <2> QED
      BY <1>2, <2>1
  <1>4. \A i \in 1..n : y[i] = x[f[i]]
    OBVIOUS
  <1>5. /\ \A i \in 1..n : (Maker(x[i]) \/ Taking(x[i])) /\ (Posting(x[i]) => x[i] \in K)
        /\ \A i, j \in 1..n : Posting(x[i]) /\ Posting(x[j]) /\ SameKey(x[i], x[j]) => i = j
        /\ \A i, j \in 1..n : f[i] = f[j] => i = j
    BY DEF Neat, Apart
  <1> HIDE DEF n, y
  <1>6. Apart(y)
    <2>1. IsSeq(y)
      BY <1>3 DEF IsSeq
    <2>2. ASSUME NEW i \in 1..n, NEW j \in 1..n, Posting(y[i]), Posting(y[j]), SameKey(y[i], y[j])
          PROVE  i = j
      <3>1. f[i] = f[j]
        BY <1>2, <1>4, <1>5, <2>2
      <3> QED
        BY <1>5, <3>1
    <2> QED
      BY <1>2, <1>3, <1>4, <1>5, <2>1, <2>2 DEF Apart
  <1>7. Neat(y, K)
    BY <1>2, <1>3, <1>4, <1>5, <1>6 DEF Neat
  <1> QED
    BY <1>7 DEF y, n

\* An enumeration of a finite set names each element once.
LEMMA EnumeratedOnce ==
    ASSUME NEW S, IsFiniteSet(S)
    PROVE  /\ SetToSeq(S) \in Seq(S)
           /\ \A i, j \in 1..Len(SetToSeq(S)) : SetToSeq(S)[i] = SetToSeq(S)[j] => i = j
           /\ \A e \in S : \E i \in 1..Len(SetToSeq(S)) : SetToSeq(S)[i] = e
  <1> DEFINE n == Cardinality(S)
             x == SetToSeq(S)
  <1>1. n \in Nat /\ ExistsBijection(1..n, S)
    BY FS_CardinalityType
  <1>2. PICK f \in [1..n -> S] : \A a, b \in 1..n : f[a] = f[b] => a = b
    BY <1>1 DEF ExistsBijection, Bijection, Injection, IsInjective
  <1>3. IsInjective(f)
    BY <1>2 DEF IsInjective
  <1>4. x \in [1..n -> S] /\ IsInjective(x)
    BY <1>2, <1>3 DEF SetToSeq
  <1> HIDE DEF x
  <1>5. x \in Seq(S) /\ Len(x) = n
    BY <1>1, <1>4
  <1>6. \A i, j \in 1..n : x[i] = x[j] => i = j
    BY <1>4 DEF IsInjective
  <1>7. x \in Injection(1..n, S)
    BY <1>4, <1>6 DEF Injection, IsInjective
  <1>8. IsFiniteSet(1..n) /\ Cardinality(1..n) = n
    BY <1>1, FS_Interval
  <1>9. \A e \in S : \E i \in 1..n : x[i] = e
    <2>1. x \in Surjection(1..n, S)
      BY <1>7, <1>8, FS_Injection
    <2> QED
      BY <2>1 DEF Surjection
  <1> HIDE DEF n
  <1>10. /\ x \in Seq(S) /\ \A i, j \in 1..Len(x) : x[i] = x[j] => i = j
         /\ \A e \in S : \E i \in 1..Len(x) : x[i] = e
    BY <1>5, <1>6, <1>9
  <1> QED
    BY <1>10 DEF x

\* The orders of a set, one after the other,
LEMMA NeatSet ==
    ASSUME NEW S, IsFiniteSet(S), \A a \in S : Maker(a),
           \A a, b \in S : Posting(a) /\ Posting(b) /\ SameKey(a, b) => a = b
    PROVE  Neat(SetToSeq(S), S)
  <1> DEFINE x == SetToSeq(S)
  <1>1. x \in Seq(S) /\ \A i, j \in 1..Len(x) : x[i] = x[j] => i = j
    BY EnumeratedOnce
  <1> HIDE DEF x
  <1>2. IsSeq(x) /\ \A i \in 1..Len(x) : x[i] \in S
    BY <1>1 DEF IsSeq
  <1>3. Neat(x, S)
    BY <1>1, <1>2 DEF Neat, Apart
  <1> QED
    BY <1>3 DEF x

\* and the cancels of a set of orders, which remove each of them.
LEMMA NeatCancels ==
    ASSUME NEW S, IsFiniteSet(S)
    PROVE  /\ \A K : Neat(CancelThose(S), K)
           /\ \A o \in S : \E i \in 1..Len(CancelThose(S)) : Removes(CancelThose(S)[i], o)
  <1> DEFINE f == [o \in S |-> Cancel(o.id)]
             T == {Cancel(o.id) : o \in S}
             x == SetToSeq(T)
  <1>1. IsFiniteSet({f[o] : o \in S})
    <2> HIDE DEF f
    <2> QED
      BY ImageFinite
  <1>2. T = {f[o] : o \in S}
    OBVIOUS
  <1> HIDE DEF f
  <1>3. \A a \in T : Maker(a) /\ ~Posting(a)
    BY Posts DEF Posting, Cancel
  <1>4. \A o \in S : Cancel(o.id) \in T /\ Removes(Cancel(o.id), o)
    BY DEF Removes, Cancel
  <1>5. CancelThose(S) = x
    BY DEF CancelThose
  <1> HIDE DEF T
  <1>6. /\ x \in Seq(T)
        /\ \A e \in T : \E i \in 1..Len(x) : x[i] = e
    BY <1>1, <1>2, EnumeratedOnce
  <1> HIDE DEF x
  <1>7. IsSeq(x) /\ \A i \in 1..Len(x) : x[i] \in T
    BY <1>6 DEF IsSeq
  <1>8. \A K : Neat(x, K)
    BY <1>3, <1>7 DEF Neat, Apart
  <1>9. ASSUME NEW o \in S PROVE \E i \in 1..Len(x) : Removes(x[i], o)
    BY <1>4, <1>6
  <1> QED
    BY <1>5, <1>8, <1>9

\* FlattenSeq joins sequences one at a time.
LEMMA FlattenSteps ==
    ASSUME NEW S, NEW n \in Nat, n # 0, NEW F \in [1..n -> Seq(S)]
    PROVE  \E h : /\ FlattenSeq(F) = h[n] /\ h[1] = F[1]
                  /\ \A k \in 1..n - 1 : h[k + 1] = h[k] \o F[k + 1]
  <1> DEFINE h == CHOOSE f : Joins(f, F, n)
  <1>1. F \in Seq(Seq(S)) /\ Len(F) = n
    OBVIOUS
  <1>2. PICK f \in [1..n -> Seq(S)] : Joins(f, F, n)
    BY JoinsExist
  <1>3. Joins(h, F, n)
    BY <1>2
  <1>4. FlattenSeq(F) = h[n]
    BY <1>1 DEF FlattenSeq, Joins
  <1> HIDE DEF h
  <1>5. h[1] = F[1]
    BY <1>3 DEF Joins
  <1>6. ASSUME NEW k \in 1..n - 1 PROVE h[k + 1] = h[k] \o F[k + 1]
    <2>1. k + 1 \in 1..n /\ k + 1 # 1 /\ (k + 1) - 1 = k
      OBVIOUS
    <2>2. h[k + 1] = IF k + 1 = 1 THEN F[k + 1] ELSE h[(k + 1) - 1] \o F[k + 1]
      BY <1>3, <2>1 DEF Joins
    <2> QED
      BY <2>1, <2>2
  <1> QED
    BY <1>4, <1>5, <1>6

\* Batches that share no price, joined.
LEMMA NeatFlat ==
    ASSUME NEW n \in Nat, NEW F, DOMAIN F = 1..n, F = [i \in 1..n |-> F[i]], NEW K,
           \A i \in 1..n : Neat(F[i], K[i]),
           \A i, j \in 1..n : i # j => Strangers(K[i], K[j])
    PROVE  Neat(FlattenSeq(F), UNION {K[i] : i \in 1..n})
  <1> DEFINE S == UNION {{F[i][j] : j \in 1..Len(F[i])} : i \in 1..n}
             U(k) == UNION {K[i] : i \in 1..k}
  <1>1. ASSUME NEW i \in 1..n PROVE F[i] \in Seq(S)
    <2>1. PICK T : F[i] \in Seq(T)
      BY DEF Neat, Apart, IsSeq
    <2>2. \A j \in 1..Len(F[i]) : F[i][j] \in S
      OBVIOUS
    <2> HIDE DEF S
    <2> QED
      BY <2>1, <2>2
  <1> HIDE DEF S
  <1>2. F \in [1..n -> Seq(S)]
    BY <1>1
  <1>3. CASE n = 0
    <2>1. F = << >>
      BY <1>2, <1>3
    <2>2. FlattenSeq(F) = << >>
      BY <2>1 DEF FlattenSeq
    <2> QED
      BY <2>2, NeatNothing
  <1>4. CASE n # 0
    <2>1. PICK h : /\ FlattenSeq(F) = h[n] /\ h[1] = F[1]
                   /\ \A k \in 1..n - 1 : h[k + 1] = h[k] \o F[k + 1]
      BY <1>2, <1>4, FlattenSteps
    <2> DEFINE T == {k \in Nat : k \in 1..n => Neat(h[k], U(k))}
    <2>2. 0 \in T
      OBVIOUS
    <2>3. ASSUME NEW k \in Nat, k \in T PROVE k + 1 \in T
      <3> SUFFICES ASSUME k + 1 \in 1..n PROVE Neat(h[k + 1], U(k + 1))
        OBVIOUS
      <3>1. CASE k = 0
        <4>1. Neat(F[1], K[1]) /\ K[1] \subseteq U(1)
          BY <1>4
        <4>2. Neat(F[1], U(1))
          <5> HIDE DEF U
          <5> QED
            BY <4>1, NeatWider
        <4> HIDE DEF U
        <4> QED
          BY <2>1, <3>1, <4>2
      <3>2. CASE k # 0
        <4>0. k \in 1..n - 1
          BY <3>2
        <4>1. h[k + 1] = h[k] \o F[k + 1]
          BY <2>1, <4>0
        <4>2. Neat(h[k], U(k)) /\ Neat(F[k + 1], K[k + 1])
          BY <2>3, <3>2
        <4>3. Strangers(U(k), K[k + 1])
          <5>1. \A i \in 1..k : Strangers(K[i], K[k + 1])
            OBVIOUS
          <5> QED
            BY <5>1 DEF Strangers
        <4>4. U(k) \cup K[k + 1] \subseteq U(k + 1)
          <5>1. 1..k \subseteq 1..k + 1 /\ k + 1 \in 1..k + 1
            OBVIOUS
          <5> QED
            BY <5>1
        <4> HIDE DEF U
        <4>5. Neat(h[k] \o F[k + 1], U(k) \cup K[k + 1])
          BY <4>2, <4>3, NeatJoined
        <4> QED
          BY <4>1, <4>4, <4>5, NeatWider
      <3> QED
        BY <3>1, <3>2
    <2>4. Nat \subseteq T
      <3> HIDE DEF T
      <3> QED
        BY <2>2, <2>3, Induct
    <2>7. Neat(h[n], U(n))
      <3>1. n \in T
        <4> HIDE DEF T
        <4> QED
          BY <2>4
      <3>2. n \in 1..n
        BY <1>4
      <3> HIDE DEF U
      <3> QED
        BY <3>1, <3>2
    <2> QED
      BY <2>1, <2>7
  <1> QED
    BY <1>3, <1>4

\* A sort moves them only.
LEMMA NeatNearest == ASSUME NEW acts, NEW K, Neat(acts, K), NEW p PROVE Neat(NearestFirst(acts, p), K)
  <1> DEFINE N == 1..Len(acts)
             Dist(k) == Abs(acts[k].px - p)
             InOrder(f) == \A i, j \in N : i < j => \/ Dist(f[i]) < Dist(f[j])
                                                    \/ Dist(f[i]) = Dist(f[j]) /\ f[i] < f[j]
             all == Arrangements(Len(acts))
             best == CHOOSE f \in all : (\E g \in all : InOrder(g)) => InOrder(f)
             id == [i \in N |-> i]
  <1>1. id \in all
    BY DEF Arrangements, IsInjective
  <1>2. \A f \in all : f \in [N -> N] /\ \A i, j \in N : f[i] = f[j] => i = j
    BY DEF Arrangements, IsInjective
  <1>3. best \in all
    <2> HIDE DEF all, InOrder
    <2>1. \E f \in all : (\E g \in all : InOrder(g)) => InOrder(f)
      BY <1>1
    <2> QED
      BY <2>1
  <1>4. NearestFirst(acts, p) = [i \in N |-> acts[best[i]]]
    BY DEF NearestFirst
  <1> HIDE DEF best, all
  <1>5. best \in [N -> N] /\ \A i, j \in N : best[i] = best[j] => i = j
    BY <1>2, <1>3
  <1>6. Neat([i \in N |-> acts[best[i]]], K)
    BY <1>5, NeatMoved
  <1> QED
    BY <1>4, <1>6

\* A batch that leaves no twins among the orders R.
Safe(x, R) == Apart(x) /\ Clear(x, R)
\* The orders it rests have whole prices and sizes.
Whole(a) == a.px \in Int /\ a.sz \in Int /\ a.side \in Sides
WholePosts(x) == \A i \in 1..Len(x) : Posting(x[i]) => Whole(x[i])

LEMMA NeatWhole == ASSUME NEW x, NEW K, Neat(x, K), \A a \in K : Whole(a) PROVE WholePosts(x)
  BY DEF Neat, WholePosts

\* Orders at prices where nothing rests,
LEMMA SafeApart == ASSUME NEW x, NEW K, NEW R, Neat(x, K), Strangers(K, R) PROVE Safe(x, R)
  BY DEF Neat, Strangers, Safe, Clear

\* orders after a cancel of everything,
LEMMA SafeAfterAll ==
    ASSUME NEW x, NEW K, Neat(x, K), NEW R
    PROVE  Safe(<<CancelAll>> \o x, R) /\ Neat(<<CancelAll>> \o x, K)
  <1> DEFINE e == <<CancelAll>>
             none == {}
             z == e \o x
  <1>1. Maker(CancelAll) /\ ~Posting(CancelAll) /\ \A o : Removes(CancelAll, o)
    BY Posts DEF Posting, Removes, Cancel, CancelAll
  <1>2. Neat(e, none)
    <2> HIDE DEF none
    <2> QED
      BY <1>1, NeatOne
  <1>3. Neat(z, none \cup K)
    <2>1. Strangers(none, K)
      BY DEF Strangers
    <2> HIDE DEF none, e
    <2> QED
      BY <1>2, <2>1, NeatJoined
  <1>4. Neat(z, K)
    <2>1. none \cup K = K
      OBVIOUS
    <2> HIDE DEF none, z
    <2> QED
      BY <1>3, <2>1
  <1>5. z[1] = CancelAll
    <2>1. PICK S : x \in Seq(S)
      BY DEF Neat, Apart, IsSeq
    <2> DEFINE one == {CancelAll}
    <2>2. e \in Seq(one) /\ 1 \in 1..Len(e) /\ e[1] = CancelAll
      OBVIOUS
    <2> HIDE DEF one, e
    <2>3. \A i \in 1..Len(e) : (e \o x)[i] = e[i]
      BY <2>1, <2>2, Joined
    <2> QED
      BY <2>2, <2>3
  <1> HIDE DEF z
  <1>6. Clear(z, R)
    <2>1. \A i \in 1..Len(z) : 1 \in 1..i
      BY <1>4 DEF Neat, Apart, IsSeq
    <2> QED
      BY <1>1, <1>5, <2>1 DEF Clear
  <1> QED
    BY <1>4, <1>6 DEF z, Safe, Neat

\* and orders after the cancels of those in their way.
LEMMA SafeAfter ==
    ASSUME NEW x, NEW y, NEW S, NEW K, NEW R, \A L : Neat(x, L), Neat(y, K),
           \A o \in S : \E i \in 1..Len(x) : Removes(x[i], o),
           \A a \in K, o \in R : SameKey(a, o) => o \in S
    PROVE  Safe(x \o y, R) /\ Neat(x \o y, K)
  <1> DEFINE none == {}
             z == x \o y
  <1>1. Neat(z, none \cup K)
    <2>1. Strangers(none, K) /\ Neat(x, none)
      BY DEF Strangers
    <2> HIDE DEF none
    <2> QED
      BY <2>1, NeatJoined
  <1>2. Neat(z, K)
    <2>1. none \cup K = K
      OBVIOUS
    <2> HIDE DEF none, z
    <2> QED
      BY <1>1, <2>1
  <1>3. PICK A : x \in Seq(A)
    BY DEF Neat, Apart, IsSeq
  <1>4. PICK B : y \in Seq(B)
    BY DEF Neat, Apart, IsSeq
  <1>5. Len(z) = Len(x) + Len(y) /\ \A i \in 1..Len(x) : z[i] = x[i]
    BY <1>3, <1>4, Joined
  <1>6. \A i \in 1..Len(x) : ~Posting(x[i])
    <2>1. Neat(x, none)
      OBVIOUS
    <2> QED
      BY <2>1 DEF Neat
  <1> HIDE DEF z
  <1>7. Clear(z, R)
    <2> SUFFICES ASSUME NEW i \in 1..Len(z), NEW o \in R, Posting(z[i]), SameKey(z[i], o)
                 PROVE  \E j \in 1..i : Removes(z[j], o)
      BY DEF Clear
    <2>1. z[i] \in K
      BY <1>2 DEF Neat
    <2>2. PICK j \in 1..Len(x) : Removes(x[j], o)
      BY <2>1
    <2>3. i \notin 1..Len(x)
      BY <1>5, <1>6
    <2>4. j \in 1..i
      BY <1>3, <1>4, <1>5, <2>3
    <2> QED
      BY <1>5, <2>2, <2>4
  <1> QED
    BY <1>2, <1>7 DEF z, Safe, Neat

\* No action leaves everything as it is.
LEMMA SafeNothing == ASSUME NEW R PROVE Safe(<< >>, R) /\ WholePosts(<< >>)
  <1> DEFINE e == << >>
             none == {}
  <1>1. Neat(e, none)
    BY NeatNothing
  <1>2. Strangers(none, R) /\ \A a \in none : Whole(a)
    BY DEF Strangers
  <1> HIDE DEF e, none
  <1>3. Safe(e, R) /\ WholePosts(e)
    BY <1>1, <1>2, SafeApart, NeatWhole
  <1> QED
    BY <1>3 DEF e

\* A bid and an ask.
LEMMA NeatPair ==
    ASSUME NEW x, NEW y, NEW K, NEW L, Neat(x, K), Neat(y, L),
           \A a \in K : a.side = "bid", \A a \in L : a.side = "ask"
    PROVE  Neat(x \o y, K \cup L)
  <1>1. Strangers(K, L)
    BY DEF Strangers, SameKey
  <1> QED
    BY <1>1, NeatJoined

LEMMA NeatPost ==
    ASSUME NEW side, NEW px, NEW sz
    PROVE  Neat(<<Post(side, px, sz)>>, {Post(side, px, sz)})
  <1> DEFINE a == Post(side, px, sz)
             K == {a}
  <1>1. Maker(a)
    BY Posts
  <1> HIDE DEF a
  <1>2. Neat(<<a>>, K)
    BY <1>1, NeatOne
  <1> QED
    BY <1>2 DEF a

-----------------------------------------------------------------------------
(* top_of_book, micro_price and hydra: everything is cancelled first, and at
   most an order of each side follows.                                       *)

\* Sequences are equal when they are of one length and agree.
LEMMA SeqSame ==
    ASSUME NEW S, NEW x \in Seq(S), NEW y \in Seq(S), Len(x) = Len(y), \A i \in 1..Len(x) : x[i] = y[i]
    PROVE  x = y
  OBVIOUS

LEMMA PairSplit == ASSUME NEW a, NEW x PROVE <<a, x>> = <<a>> \o <<x>>
  <1> DEFINE S == {a, x}
             p == <<a, x>>
             l == <<a>>
             r == <<x>>
             q == l \o r
  <1>1. p \in Seq(S) /\ Len(p) = 2 /\ p[1] = a /\ p[2] = x
    OBVIOUS
  <1>2. l \in Seq(S) /\ Len(l) = 1 /\ l[1] = a /\ r \in Seq(S) /\ Len(r) = 1 /\ r[1] = x
    OBVIOUS
  <1> HIDE DEF S, p, l, r
  <1>3. q \in Seq(S) /\ Len(q) = 2 /\ q[1] = a /\ q[2] = x
    <2>1. /\ q \in Seq(S \cup S) /\ Len(q) = Len(l) + Len(r)
          /\ \A i \in 1..Len(l) : q[i] = l[i]
          /\ \A i \in 1..Len(r) : q[Len(l) + i] = r[i]
      BY <1>2, Joined
    <2>2. S \cup S = S /\ 1 \in 1..Len(l) /\ 1 \in 1..Len(r) /\ Len(l) + 1 = 2
      BY <1>2
    <2> HIDE DEF q
    <2>3. q[2] = r[1]
      BY <2>1, <2>2
    <2> QED
      BY <1>2, <2>1, <2>2, <2>3
  <1> HIDE DEF q
  <1>4. \A i \in 1..Len(p) : p[i] = q[i]
    BY <1>1, <1>3
  <1>5. p = q
    BY <1>1, <1>3, <1>4, SeqSame
  <1> QED
    BY <1>5 DEF p, q, l, r

LEMMA TripleSplit == ASSUME NEW a, NEW x, NEW y PROVE <<a, x, y>> = <<a>> \o (<<x>> \o <<y>>)
  <1> DEFINE S == {a, x, y}
             p == <<a, x, y>>
             l == <<a>>
             r == <<x, y>>
             q == l \o r
  <1>1. p \in Seq(S) /\ Len(p) = 3 /\ p[1] = a /\ p[2] = x /\ p[3] = y
    OBVIOUS
  <1>2. /\ l \in Seq(S) /\ Len(l) = 1 /\ l[1] = a
        /\ r \in Seq(S) /\ Len(r) = 2 /\ r[1] = x /\ r[2] = y
    OBVIOUS
  <1>0. r = <<x>> \o <<y>>
    BY PairSplit
  <1> HIDE DEF S, p, l, r
  <1>3. q \in Seq(S) /\ Len(q) = 3 /\ q[1] = a /\ q[2] = x /\ q[3] = y
    <2>1. /\ q \in Seq(S \cup S) /\ Len(q) = Len(l) + Len(r)
          /\ \A i \in 1..Len(l) : q[i] = l[i]
          /\ \A i \in 1..Len(r) : q[Len(l) + i] = r[i]
      <3>1. l \in Seq(S) /\ r \in Seq(S)
        BY <1>2
      <3> QED
        BY <3>1, Joined
    <2>2. /\ S \cup S = S /\ 1 \in 1..Len(l) /\ 1 \in 1..Len(r) /\ 2 \in 1..Len(r)
          /\ Len(l) + 1 = 2 /\ Len(l) + 2 = 3
      BY <1>2
    <2> HIDE DEF q
    <2>3. q[2] = r[1] /\ q[3] = r[2]
      BY <2>1, <2>2
    <2> QED
      BY <1>2, <2>1, <2>2, <2>3
  <1> HIDE DEF q
  <1>4. \A i \in 1..Len(p) : p[i] = q[i]
    BY <1>1, <1>3
  <1>5. p = q
    BY <1>1, <1>3, <1>4, SeqSame
  <1> QED
    BY <1>0, <1>5 DEF p, q, l

LEMMA SafeWhen == ASSUME NEW b, NEW x, NEW R, b => Safe(x, R) PROVE Safe(When(b, x), R)
  <1>1. CASE b
    BY <1>1 DEF When
  <1>2. CASE ~b
    BY <1>2, SafeNothing, Zenon DEF When
  <1> QED
    BY <1>1, <1>2

\* Nothing but a cancel of everything,
LEMMA SafeSweep == ASSUME NEW R PROVE Safe(<<CancelAll>>, R)
  <1> DEFINE e == << >>
             none == {}
             one == <<CancelAll>>
  <1>1. Neat(e, none)
    BY NeatNothing
  <1>2. one \o e = one
    BY OneSeq, NothingFirst
  <1> HIDE DEF e, none
  <1>3. Safe(<<CancelAll>> \o e, R)
    BY <1>1, SafeAfterAll
  <1> QED
    BY <1>2, <1>3

\* or one order after it,
LEMMA SafeSweepOne ==
    ASSUME NEW a, Maker(a) \/ Taking(a), NEW R PROVE Safe(<<CancelAll, a>>, R)
  <1> DEFINE K == {a}
  <1>1. Neat(<<a>>, K)
    BY NeatOne
  <1> HIDE DEF K
  <1>2. Safe(<<CancelAll>> \o <<a>>, R)
    BY <1>1, SafeAfterAll
  <1> QED
    BY <1>2, PairSplit

\* or a pair.
LEMMA SafePair == ASSUME NEW bid, NEW ask, NEW R PROVE Safe(PostOnlyPair(bid, ask), R)
  <1> DEFINE b == Post("bid", bid, Lot)
             a == Post("ask", ask, Lot)
             K == {b}
             L == {a}
  <1>1. Neat(<<b>>, K) /\ Neat(<<a>>, L)
    BY NeatPost
  <1>2. b.side = "bid" /\ a.side = "ask"
    BY DEF Post, Order
  <1>3. PostOnlyPair(bid, ask) = <<CancelAll, b, a>>
    BY DEF PostOnlyPair
  <1> HIDE DEF b, a
  <1>4. Neat(<<b>> \o <<a>>, K \cup L)
    BY <1>1, <1>2, NeatPair
  <1>5. Safe(<<CancelAll>> \o (<<b>> \o <<a>>), R)
    BY <1>4, SafeAfterAll
  <1>6. <<CancelAll, b, a>> = <<CancelAll>> \o (<<b>> \o <<a>>)
    BY TripleSplit
  <1> QED
    BY <1>3, <1>5, <1>6

LEMMA RepairSafe == ASSUME NEW s, NEW c, NEW p, NEW R PROVE Safe(Repair(s, c, p).acts, R)
  <1>1. \E x, acts : Repair(s, c, p) = Out(x, acts) /\ (acts = << >> \/ acts = PostOnlyPair(p.bid, p.ask))
    BY DEF Repair
  <1>2. PICK x, acts : Repair(s, c, p) = Out(x, acts) /\ (acts = << >> \/ acts = PostOnlyPair(p.bid, p.ask))
    BY <1>1
  <1>3. Repair(s, c, p).acts = acts
    BY <1>2 DEF Out
  <1>4. Safe(acts, R)
    BY <1>2, SafeNothing, SafePair
  <1> QED
    BY <1>3, <1>4

LEMMA PairsSafe ==
    ASSUME NEW s, NEW c, NEW R PROVE Safe(TopOfBook(s, c).acts, R) /\ Safe(MicroPrice(s, c).acts, R)
  <1>1. Safe(Out(s, << >>).acts, R)
    BY SafeNothing DEF Out
  <1> QED
    BY <1>1, RepairSafe DEF TopOfBook, MicroPrice

\* hydra's straddle: a bid and an ask.
LEMMA HydraStraddles == ASSUME NEW s, NEW R PROVE Safe(<<CancelAll>> \o HyStraddle(s), R)
  <1> DEFINE mid == (s.bid + s.ask) \div 2
             b == FloorTick(mid - HY.offset)
             a == FloorTick(mid + HY.offset)
             x == Post("bid", b, Lot)
             y == Post("ask", a, Lot)
             K == {x}
             L == {y}
             bids == When(b > 0 /\ b < s.ask, <<x>>)
             asks == When(a > s.bid, <<y>>)
  <1>1. Neat(<<x>>, K) /\ Neat(<<y>>, L) /\ x.side = "bid" /\ y.side = "ask"
    BY NeatPost DEF Post, Order
  <1>2. HyStraddle(s) = bids \o asks
    BY DEF HyStraddle
  <1> HIDE DEF b, a, x, y
  <1>3. Neat(bids, K) /\ Neat(asks, L)
    <2> HIDE DEF K, L
    <2> QED
      BY <1>1, NeatWhen
  <1> HIDE DEF bids, asks
  <1>4. Neat(bids \o asks, K \cup L)
    BY <1>1, <1>3, NeatPair
  <1> QED
    BY <1>2, <1>4, SafeAfterAll

\* hydra's take profit rests or is taken, and so are its adds.
LEMMA HydraTpSafe == ASSUME NEW s, NEW c, NEW long, NEW R PROVE Safe(<<CancelAll>> \o HyTp(s, c, long), R)
  <1> DEFINE side == Opp(HySide(long))
             t == TakerAt(side, Abs(c.pos), s)
             p == Post(side, HyTpPx(long, c.avg), Abs(c.pos))
  <1>1. HyTp(s, c, long) = << >> \/ HyTp(s, c, long) = <<t>> \/ HyTp(s, c, long) = <<p>>
    BY DEF HyTp
  <1>2. Taking(t) /\ Maker(p)
    BY Takers, Posts DEF Taking
  <1> HIDE DEF t, p
  <1>3. \A a : Maker(a) \/ Taking(a) => Safe(<<CancelAll>> \o <<a>>, R)
    BY SafeSweepOne, PairSplit
  <1>4. Safe(<<CancelAll>> \o << >>, R)
    BY OneSeq, NothingFirst, SafeSweep
  <1>5. CASE HyTp(s, c, long) = << >>
    BY <1>4, <1>5, Zenon
  <1> QED
    BY <1>1, <1>2, <1>3, <1>5

LEMMA OneSafe == ASSUME NEW a, Taking(a), NEW R PROVE Safe(<<a>>, R)
  <1> DEFINE none == {}
  <1>1. Neat(<<a>>, none)
    BY NeatOne DEF Posting, Taking
  <1>2. Strangers(none, R)
    BY DEF Strangers
  <1> HIDE DEF none
  <1> QED
    BY <1>1, <1>2, SafeApart

LEMMA HydraAddSafe ==
    ASSUME NEW s, NEW c, NEW long, NEW mult, NEW R PROVE Safe(HyAdd(s, c, long, mult), R)
  <1> DEFINE floor == (Lot * mult) \div 100
             lots == IF floor = 0 /\ 2 * Lot * mult > 100 THEN 1 ELSE floor
             a == TakerAt(HySide(long), lots, s)
             b == lots > 0 /\ (HY.cap = 0 \/ Abs(c.pos) + lots <= HY.cap)
  <1>1. HyAdd(s, c, long, mult) = When(b, <<a>>)
    BY DEF HyAdd
  <1>2. Taking(a)
    BY Takers DEF Taking
  <1> HIDE DEF a, b
  <1> QED
    BY <1>1, <1>2, OneSafe, SafeWhen

LEMMA OutActs == ASSUME NEW s, NEW acts PROVE Out(s, acts).acts = acts /\ Out(s, acts).st = s
  BY DEF Out

\* On any event.
LEMMA HydraSafe == ASSUME NEW s0, NEW c, NEW R PROVE Safe(Hydra(s0, c).acts, R)
  <1>1. \A s : Safe(Out(s, << >>).acts, R)
    BY OutActs, SafeNothing
  <1>2. ASSUME NEW s PROVE Safe(HydraEnter(s, c).acts, R)
    <2>1. \E x, long : \/ HydraEnter(s, c) = Out(x, << >>)
                       \/ HydraEnter(s, c) = Out(x, <<CancelAll>> \o HyTp(s, c, long))
      BY DEF HydraEnter
    <2> QED
      BY <1>1, <2>1, OutActs, HydraTpSafe
  <1>3. ASSUME NEW s PROVE Safe(HydraIdle(s, c).acts, R)
    <2>1. \E x, y : \/ HydraIdle(s, c) = Out(x, << >>)
                    \/ HydraIdle(s, c) = Out(x, <<CancelAll>> \o HyStraddle(y))
      BY DEF HydraIdle
    <2> QED
      BY <1>1, <2>1, OutActs, HydraStraddles
  <1>4. ASSUME NEW s PROVE Safe(HydraHold(s, c).acts, R)
    <2> DEFINE mid == (s.bid + s.ask) \div 2
               drift == IF s.long THEN mid - s.first ELSE s.first - mid
               Bands(d, step, max) == IF step = 0 THEN 0 ELSE Min({max, Max({0, d}) \div step})
               up == Bands(drift, HY.pyramidStep, HY.pyramidMax)
               down == Bands(-drift, HY.dcaStep, HY.dcaMax)
               cool == c.now - s.lastAdd >= HY.cooldown
               pyramid == When(cool /\ up > s.pyramid, HyAdd(s, c, s.long, HY.pyramidMult))
               dca == When(cool /\ down > s.dca /\ pyramid = << >>, HyAdd(s, c, s.long, HY.dcaMult))
               moved == s.tp = None \/ Abs(HyTpPx(s.long, c.avg) - s.tp) > Tick
               tp == When(HY.tp > 0 /\ moved, HyTp(s, c, s.long))
               close == TakerAt(Opp(HySide(s.long)), Abs(c.pos), s)
               answer == When(tp # << >>, <<CancelAll>> \o tp)
    <2>1. \E x : \/ HydraHold(s, c) = Out(x, <<CancelAll, close>>)
                 \/ HydraHold(s, c) = Out(x, pyramid)
                 \/ HydraHold(s, c) = Out(x, dca)
                 \/ HydraHold(s, c) = Out(x, answer)
      BY DEF HydraHold
    <2> HIDE DEF drift, up, down, cool, moved
    <2>2. Safe(pyramid, R)
      BY HydraAddSafe, SafeWhen
    <2> HIDE DEF pyramid
    <2>3. Safe(dca, R)
      BY HydraAddSafe, SafeWhen
    <2>4. Safe(<<CancelAll>> \o tp, R)
      <3>1. CASE HY.tp > 0 /\ moved
        <4>1. tp = HyTp(s, c, s.long)
          BY <3>1 DEF When
        <4> HIDE DEF tp
        <4> QED
          BY <4>1, HydraTpSafe
      <3>2. CASE ~(HY.tp > 0 /\ moved)
        <4>1. tp = << >>
          BY <3>2, Zenon DEF When
        <4> HIDE DEF tp
        <4>2. <<CancelAll>> \o << >> = <<CancelAll>>
          BY OneSeq, NothingFirst
        <4> QED
          BY <4>1, <4>2, SafeSweep, Zenon
      <3> QED
        BY <3>1, <3>2
    <2> HIDE DEF tp
    <2>5. Safe(answer, R)
      BY <2>4, SafeWhen
    <2>6. Taking(close)
      BY Takers DEF Taking
    <2> HIDE DEF answer, dca, close
    <2>7. Safe(<<CancelAll, close>>, R)
      BY <2>6, SafeSweepOne
    <2>8. PICK x : \/ HydraHold(s, c) = Out(x, <<CancelAll, close>>)
                   \/ HydraHold(s, c) = Out(x, pyramid)
                   \/ HydraHold(s, c) = Out(x, dca)
                   \/ HydraHold(s, c) = Out(x, answer)
      BY <2>1
    <2> QED
      BY <2>2, <2>3, <2>5, <2>7, <2>8, OutActs
  <1> DEFINE s == IF c.k = "book" THEN [s0 EXCEPT !.bid = c.bid, !.ask = c.ask] ELSE s0
  <1>5. \E x : \/ Hydra(s0, c) = Out(x, << >>)
               \/ Hydra(s0, c) = HydraEnter(s, c)
               \/ Hydra(s0, c) = HydraIdle(s, c)
               \/ Hydra(s0, c) = Out(x, <<CancelAll>>)
               \/ Hydra(s0, c) = HydraHold(s, c)
    BY DEF Hydra
  <1> QED
    BY <1>1, <1>2, <1>3, <1>4, <1>5, OutActs, SafeSweep

-----------------------------------------------------------------------------
(* mantis: what rests where it wants an order is kept, or cancelled first.   *)

LEMMA MantisReconciles ==
    ASSUME NEW c, IsFiniteSet(c.open), NEW R, R \subseteq c.open,
           NEW want, IsFiniteSet(want), \A d, e \in want : d.side = e.side => d = e
    PROVE  Safe(MantisReconcile(c, want), R)
  <1> DEFINE Same(o, d) == o.side = d.side /\ o.px = d.px /\ o.sz = d.sz
             met == {d \in want : \E o \in c.open : Same(o, d)}
             Choice(d) == CHOOSE o \in c.open : Same(o, d)
             kept == {Choice(d) : d \in met}
             S == c.open \ kept
             lack == want \ met
             K == {Post(d.side, d.px, d.sz) : d \in lack}
             x == CancelThose(S)
             y == SetToSeq(K)
  <1>1. MantisReconcile(c, want) = x \o y
    BY DEF MantisReconcile
  <1>2. \A d \in met : Choice(d) \in c.open /\ Same(Choice(d), d)
    OBVIOUS
  <1> HIDE DEF Choice
  <1>3. IsFiniteSet(S) /\ IsFiniteSet(lack)
    <2>1. S \in SUBSET c.open /\ lack \in SUBSET want
      OBVIOUS
    <2> HIDE DEF S, lack
    <2> QED
      BY <2>1, FS_Subset
  <1>4. IsFiniteSet(K)
    <2> DEFINE f == [d \in lack |-> Post(d.side, d.px, d.sz)]
    <2>1. K = {f[d] : d \in lack}
      OBVIOUS
    <2> HIDE DEF f, lack, K
    <2> QED
      BY <1>3, <2>1, ImageFinite
  <1>5. \A a \in K : Maker(a) /\ \E d \in lack : a = Post(d.side, d.px, d.sz) /\ a.side = d.side /\ a.px = d.px
    BY Posts DEF Post, Order
  <1>6. \A a, b \in K : SameKey(a, b) => a = b
    <2> SUFFICES ASSUME NEW a \in K, NEW b \in K, SameKey(a, b) PROVE a = b
      OBVIOUS
    <2>1. PICK d \in lack : a = Post(d.side, d.px, d.sz) /\ a.side = d.side
      BY <1>5
    <2>2. PICK e \in lack : b = Post(e.side, e.px, e.sz) /\ b.side = e.side
      BY <1>5
    <2>3. d \in want /\ e \in want /\ d.side = e.side
      BY <2>1, <2>2 DEF SameKey
    <2> QED
      BY <2>1, <2>2, <2>3
  <1>7. \A a \in K, o \in R : SameKey(a, o) => o \in S
    <2> SUFFICES ASSUME NEW a \in K, NEW o \in R, SameKey(a, o), o \in kept PROVE FALSE
      OBVIOUS
    <2>1. PICK d \in lack : a.side = d.side /\ a.px = d.px
      BY <1>5
    <2>2. PICK e \in met : o = Choice(e)
      OBVIOUS
    <2>3. o.side = e.side
      BY <1>2, <2>2
    <2>4. d \in want /\ e \in want /\ d.side = e.side
      BY <2>1, <2>3 DEF SameKey
    <2> QED
      BY <2>2, <2>4
  <1> HIDE DEF K, S, lack, kept, met
  <1>8. Neat(y, K)
    BY <1>4, <1>5, <1>6, NeatSet
  <1>9. \A L : Neat(x, L)
    BY <1>3, NeatCancels
  <1>10. \A o \in S : \E i \in 1..Len(x) : Removes(x[i], o)
    BY <1>3, NeatCancels
  <1> HIDE DEF x, y
  <1>11. Safe(x \o y, R)
    BY <1>7, <1>8, <1>9, <1>10, SafeAfter
  <1> QED
    BY <1>1, <1>11

LEMMA MantisSafe ==
    ASSUME NEW s0, NEW c, IsFiniteSet(c.open), NEW R, R \subseteq c.open
    PROVE  Safe(Mantis(s0, c).acts, R)
  <1> DEFINE none == {}
             One(side, px, sz) == {Want(side, px, sz)}
             Two(b, a) == {Want("bid", b, Lot), Want("ask", a, Lot)}
             Fits(want) == IsFiniteSet(want) /\ \A d, e \in want : d.side = e.side => d = e
  <1>1. Fits(none)
    BY FS_EmptySet
  <1>2. \A side, px, sz : Fits(One(side, px, sz))
    BY FS_Singleton
  <1>3. \A b, a : Fits(Two(b, a))
    <2> SUFFICES ASSUME NEW b, NEW a PROVE Fits(Two(b, a))
      OBVIOUS
    <2>1. IsFiniteSet(Two(b, a))
      <3> DEFINE w == Want("bid", b, Lot)
                 v == Want("ask", a, Lot)
      <3>1. Two(b, a) = {w} \cup {v}
        OBVIOUS
      <3> HIDE DEF w, v, Two
      <3>2. IsFiniteSet({w} \cup {v})
        BY FS_Singleton, FS_AddElement
      <3> QED
        BY <3>1, <3>2
    <2> QED
      BY <2>1 DEF Want
  <1>4. \A want : Fits(want) => Safe(MantisReconcile(c, want), R)
    BY MantisReconciles
  <1>5. \E s, x, want : \/ Mantis(s0, c) = Out(x, << >>)
                        \/ Mantis(s0, c) = Out(x, MantisClose(s, c))
                        \/ Mantis(s0, c) = Out(x, MantisReconcile(c, want)) /\ (want = none \/ \E b, a : want = Two(b, a))
    BY DEF Mantis
  <1>6. \A s : \E side, px, sz : MantisClose(s, c) = MantisReconcile(c, One(side, px, sz))
    BY DEF MantisClose
  <1> HIDE DEF Fits, One, Two, none
  <1>7. PICK s, x, want : \/ Mantis(s0, c) = Out(x, << >>)
                          \/ Mantis(s0, c) = Out(x, MantisClose(s, c))
                          \/ Mantis(s0, c) = Out(x, MantisReconcile(c, want)) /\ (want = none \/ \E b, a : want = Two(b, a))
    BY <1>5
  <1>8. Safe(MantisClose(s, c), R)
    BY <1>2, <1>4, <1>6
  <1>9. CASE Mantis(s0, c) = Out(x, << >>)
    BY <1>9, OutActs, SafeNothing
  <1> QED
    BY <1>1, <1>3, <1>4, <1>7, <1>8, <1>9, OutActs

-----------------------------------------------------------------------------
(* joker: nothing is sent near an order shown.                               *)

\* Cancels change nothing about the orders sent with them.
LEMMA NeatCancelling ==
    ASSUME NEW S, IsFiniteSet(S), NEW y, NEW K, Neat(y, K)
    PROVE  Neat(CancelThose(S) \o y, K) /\ Neat(y \o CancelThose(S), K)
  <1> DEFINE none == {}
             x == CancelThose(S)
  <1>1. Neat(x, none)
    BY NeatCancels
  <1>2. Strangers(none, K) /\ Strangers(K, none) /\ none \cup K = K /\ K \cup none = K
    BY DEF Strangers
  <1> HIDE DEF none, x
  <1>3. Neat(x \o y, none \cup K) /\ Neat(y \o x, K \cup none)
    BY <1>1, <1>2, NeatJoined
  <1> QED
    BY <1>2, <1>3 DEF x

LEMMA JokerPrices ==
    ASSUME NEW c, c.bid \in Nat, c.ask \in Nat, NEW side \in Sides
    PROVE  JokerPx(c, side) \in Int
  BY DistancesAssumption DEF JokerPx, Away, Touch, Sgn, Opp, Sides, Tick

\* One side's quote,
LEMMA JokerQuotesApart ==
    ASSUME NEW c, c.bid \in Nat, c.ask \in Nat, NEW placed, NEW side \in Sides, NEW R, R \subseteq c.open
    PROVE  \E K : /\ Neat(JokerQuotes(c, placed, side), K) /\ Strangers(K, R)
                  /\ \A a \in K : a.side = side
  <1> DEFINE px == JokerPx(c, side)
             q == Post(side, px, Lot)
             b == Touch(c, side) # None /\ px > 0 /\ ~JokerAt(c, placed, side, px)
             K == {q}
             none == {}
  <1>1. JokerQuotes(c, placed, side) = When(b, <<q>>)
    BY DEF JokerQuotes
  <1>2. Neat(<<q>>, K) /\ q.side = side /\ q.px = px
    BY NeatPost DEF Post, Order
  <1>3. px \in Int
    BY JokerPrices
  <1> HIDE DEF px, q
  <1>4. CASE b
    <2>1. Strangers(K, R)
      <3> SUFFICES ASSUME NEW o \in R, SameKey(q, o) PROVE FALSE
        BY DEF Strangers
      <3>1. o \in Shown(c, side) /\ o.px = px
        BY <1>2 DEF SameKey, Shown
      <3>2. Abs(o.px - px) = 0
        BY <1>3, <3>1 DEF Abs
      <3> QED
        BY <1>4, <3>1, <3>2, DistancesAssumption DEF JokerAt
    <2>2. JokerQuotes(c, placed, side) = <<q>>
      BY <1>1, <1>4 DEF When
    <2> QED
      BY <1>2, <2>1, <2>2
  <1>5. CASE ~b
    <2>1. JokerQuotes(c, placed, side) = << >>
      BY <1>1, <1>5, Zenon DEF When
    <2>2. Neat(JokerQuotes(c, placed, side), none)
      BY <2>1, NeatNothing, Zenon
    <2> QED
      BY <2>2 DEF Strangers
  <1> QED
    BY <1>4, <1>5

\* both, and what is swept.
LEMMA JokerSafe ==
    ASSUME NEW s, NEW c, c.bid \in Nat, c.ask \in Nat, IsFiniteSet(c.open), NEW R, R \subseteq c.open
    PROVE  Safe(Joker(s, c).acts, R)
  <1> DEFINE Rests(p) == \E o \in c.open : o.side = p.side /\ o.px = p.px
             kept == {p \in s.placed : Rests(p) \/ c.now - p.ts < TouchCfg.grace}
             old == {p \in kept : Rests(p) /\ c.now - p.ts > TouchCfg.maxAge}
             swept == {CHOOSE o \in c.open : o.side = p.side /\ o.px = p.px : p \in old}
             bids == JokerQuotes(c, kept \ old, "bid")
             asks == JokerQuotes(c, kept \ old, "ask")
  <1>1. \E x : Joker(s, c) = Out(x, CancelThose(swept) \o (bids \o asks))
    BY DEF Joker
  <1>2. swept \in SUBSET c.open
    OBVIOUS
  <1>3. PICK K : Neat(bids, K) /\ Strangers(K, R) /\ \A a \in K : a.side = "bid"
    BY JokerQuotesApart DEF Sides
  <1>4. PICK L : Neat(asks, L) /\ Strangers(L, R) /\ \A a \in L : a.side = "ask"
    BY JokerQuotesApart DEF Sides
  <1> HIDE DEF swept, bids, asks
  <1>5. Neat(bids \o asks, K \cup L)
    BY <1>3, <1>4, NeatPair
  <1>6. Neat(CancelThose(swept) \o (bids \o asks), K \cup L)
    BY <1>2, <1>5, FS_Subset, NeatCancelling
  <1>7. Strangers(K \cup L, R)
    BY <1>3, <1>4 DEF Strangers
  <1>8. Safe(CancelThose(swept) \o (bids \o asks), R)
    BY <1>6, <1>7, SafeApart
  <1> QED
    BY <1>1, <1>8, OutActs

-----------------------------------------------------------------------------
(* hawk: everything is cancelled first, and the levels of a side differ.     *)

LEMMA Multiples ==
    ASSUME NEW d \in Nat \ {0}, NEW j \in Int, NEW k \in Int, j < k PROVE d * j < d * k
  <1>1. d * k - d * j = d * (k - j)
    OBVIOUS
  <1>2. \A n \in Nat : n > 0 => d * n > 0
    OBVIOUS
  <1>3. k - j \in Nat /\ k - j > 0
    OBVIOUS
  <1>4. d * j \in Int /\ d * k \in Int
    OBVIOUS
  <1> QED
    BY <1>1, <1>2, <1>3, <1>4

\* What the answers need of the state.
Hawks(s) == {"bid", "ask"} \subseteq DOMAIN s /\ s.bid \in Int /\ s.ask \in Int

LEMMA HawkLadderSafe ==
    ASSUME NEW t, Hawks(t), NEW p, NEW R PROVE Safe(HawkLadder(t, p), R)
  <1> DEFINE mid == (t.bid + t.ask) \div 2
             D(k) == IF k = 0 THEN -Tick ELSE HK.inner + HK.step * k
             px(side, k) == Away(side, t[side], D(k))
             order(side, k) == Post(side, px(side, k), Lot)
             Level(side, k) ==
               When(~HawkCapped(p, side),
                    <<Post(side, Away(side, t[side], IF k = 0 THEN -Tick ELSE HK.inner + HK.step * k), Lot)>>)
             n == HK.levels
             F == [k \in 1 .. (HK.levels - 1) - 0 + 1 |-> Level("bid", 0 + k - 1) \o Level("ask", 0 + k - 1)]
             J(side, k) == {order(side, k)}
             K == [i \in 1..n |-> J("bid", i - 1) \cup J("ask", i - 1)]
  <1>1. n \in Nat
    BY LevelsAssumption
  <1>2. 1 .. (HK.levels - 1) - 0 + 1 = 1 .. n
    BY <1>1
  <1>3. HawkLadder(t, p) = <<CancelAll>> \o NearestFirst(FlattenSeq(F), mid)
    BY DEF HawkLadder, Ladder
  <1>4. \A side, k : Neat(Level(side, k), J(side, k))
    BY NeatPost, NeatWhen
  <1>5. \A side, k : order(side, k).side = side /\ order(side, k).px = px(side, k)
    BY DEF Post, Order
  <1>6. \A i \in 1..n, j \in 1..n : i < j => D(i - 1) # D(j - 1) /\ D(i - 1) \in Int /\ D(j - 1) \in Int
    <2> SUFFICES ASSUME NEW i \in 1..n, NEW j \in 1..n, i < j
                 PROVE  D(i - 1) # D(j - 1) /\ D(i - 1) \in Int /\ D(j - 1) \in Int
      OBVIOUS
    <2> DEFINE a == HK.step * (i - 1)
               b == HK.step * (j - 1)
    <2>1. i - 1 \in Nat /\ j - 1 \in Nat /\ j - 1 # 0 /\ i - 1 < j - 1
      BY <1>1
    <2>2. a < b /\ a \in Int /\ b \in Int /\ b > 0
      <3>1. HK.step \in Nat \ {0} /\ HK.step * 0 = 0 /\ 0 < j - 1
        BY <2>1, DistancesAssumption
      <3>2. a \in Int /\ b \in Int
        BY <2>1, <3>1
      <3>3. a < b /\ HK.step * 0 < b
        BY <2>1, <3>1, Multiples
      <3> QED
        BY <3>1, <3>2, <3>3
    <2>3. D(i - 1) = (IF i - 1 = 0 THEN -2 ELSE HK.inner + a) /\ D(j - 1) = HK.inner + b
      BY <2>1 DEF Tick
    <2>4. HK.inner \in Nat
      BY DistancesAssumption
    <2> HIDE DEF a, b, D
    <2> QED
      BY <2>2, <2>3, <2>4
  <1> HIDE DEF D, order
  <1>7. \A i \in 1..n, j \in 1..n, x \in Sides, y \in Sides : i < j /\ SameKey(order(x, i - 1), order(y, j - 1)) => FALSE
    <2> SUFFICES ASSUME NEW i \in 1..n, NEW j \in 1..n, NEW x \in Sides, NEW y \in Sides, i < j,
                        SameKey(order(x, i - 1), order(y, j - 1)) PROVE FALSE
      OBVIOUS
    <2>1. x = y /\ px(x, i - 1) = px(x, j - 1)
      BY <1>5 DEF SameKey
    <2>2. t[x] \in Int
      BY DEF Hawks, Sides
    <2> QED
      BY <1>6, <2>1, <2>2 DEF Away, Sgn
  <1> HIDE DEF px, mid
  <1>8. \A i \in 1..n : Neat(F[i], K[i])
    <2> SUFFICES ASSUME NEW i \in 1..n PROVE Neat(F[i], K[i])
      OBVIOUS
    <2>1. F[i] = Level("bid", i - 1) \o Level("ask", i - 1)
      <3>1. i \in 1 .. (HK.levels - 1) - 0 + 1 /\ 0 + i - 1 = i - 1
        BY <1>1, <1>2
      <3> HIDE DEF Level
      <3>2. F[i] = Level("bid", 0 + i - 1) \o Level("ask", 0 + i - 1)
        BY <3>1
      <3> QED
        BY <3>1, <3>2
    <2>2. K[i] = J("bid", i - 1) \cup J("ask", i - 1)
      OBVIOUS
    <2>3. (\A a \in J("bid", i - 1) : a.side = "bid") /\ \A a \in J("ask", i - 1) : a.side = "ask"
      BY <1>5
    <2> HIDE DEF Level, J, F, K
    <2> QED
      BY <1>4, <2>1, <2>2, <2>3, NeatPair
  <1>9. \A i, j \in 1..n : i # j => Strangers(K[i], K[j])
    <2> SUFFICES ASSUME NEW i \in 1..n, NEW j \in 1..n, i # j, NEW a \in K[i], NEW b \in K[j], SameKey(a, b)
                 PROVE  FALSE
      BY DEF Strangers
    <2>1. PICK x \in Sides : a = order(x, i - 1)
      BY DEF Sides
    <2>2. PICK y \in Sides : b = order(y, j - 1)
      BY DEF Sides
    <2>3. SameKey(b, a)
      BY DEF SameKey
    <2>4. i < j \/ j < i
      BY <1>1
    <2> QED
      BY <1>7, <2>1, <2>2, <2>3, <2>4
  <1>10. DOMAIN F = 1..n /\ F = [i \in 1..n |-> F[i]]
    BY <1>2
  <1> HIDE DEF F, K, n
  <1>11. Neat(FlattenSeq(F), UNION {K[i] : i \in 1..n})
    BY <1>1, <1>8, <1>9, <1>10, NeatFlat
  <1>12. Neat(NearestFirst(FlattenSeq(F), mid), UNION {K[i] : i \in 1..n})
    BY <1>11, NeatNearest
  <1> QED
    BY <1>3, <1>12, SafeAfterAll

\* The single exit, and the choice between it and the ladder.
LEMMA HawkColdSafe ==
    ASSUME NEW s, Hawks(s), NEW c, NEW R
    PROVE  Safe(HawkCold(s, c).acts, R) /\ Hawks(HawkCold(s, c).st)
  <1> DEFINE side == Closing(c.pos)
             goal == Away(side, c.avg, IF HK.target > 0 THEN HK.target ELSE HK.minSpread)
             best == Away(side, s[side], -Tick)
             px == IF Farther(side, best, goal) THEN goal ELSE best
             s1 == [s EXCEPT !.cold = None]
             s2 == [s EXCEPT !.cold = px]
             order == Post(side, px, Lot)
  <1>1. \/ HawkCold(s, c) = Out(s1, <<CancelAll>>)
        \/ HawkCold(s, c) = Out(s, << >>)
        \/ HawkCold(s, c) = Out(s2, <<CancelAll, order>>)
    BY DEF HawkCold
  <1> HIDE DEF px
  <1>2. Hawks(s1) /\ Hawks(s2)
    BY DEF Hawks
  <1>3. Maker(order)
    BY Posts
  <1> HIDE DEF s1, s2, order
  <1>4. Safe(<<CancelAll>>, R) /\ Safe(<<CancelAll, order>>, R)
    BY <1>3, SafeSweep, SafeSweepOne
  <1>5. CASE HawkCold(s, c) = Out(s, << >>)
    BY <1>5, OutActs, SafeNothing
  <1> QED
    BY <1>1, <1>2, <1>4, <1>5, OutActs

LEMMA HawkQuotesSafe ==
    ASSUME NEW s, Hawks(s), NEW c, NEW R
    PROVE  Safe(HawkQuotes(s, c).acts, R) /\ Hawks(HawkQuotes(s, c).st)
  <1> DEFINE hot == [s EXCEPT !.cold = None, !.placed = TRUE]
             s1 == [hot EXCEPT !.ladder = [bid |-> s.bid, ask |-> s.ask, ts |-> c.now]]
             s2 == [s EXCEPT !.placed = FALSE, !.ladder = NoLadder]
  <1>1. \/ HawkQuotes(s, c) = Out(s1, HawkLadder(s, c.pos))
        \/ HawkQuotes(s, c) = Out(hot, << >>)
        \/ HawkQuotes(s, c) = HawkCold(s2, c)
    BY DEF HawkQuotes
  <1>2. Hawks(s1) /\ Hawks(hot) /\ Hawks(s2)
    BY DEF Hawks
  <1> HIDE DEF s1, s2, hot
  <1>3. CASE HawkQuotes(s, c) = Out(hot, << >>)
    BY <1>2, <1>3, OutActs, SafeNothing
  <1>4. CASE HawkQuotes(s, c) = Out(s1, HawkLadder(s, c.pos))
    BY <1>2, <1>4, OutActs, HawkLadderSafe
  <1> QED
    BY <1>1, <1>2, <1>3, <1>4, HawkColdSafe

\* On any event.
LEMMA HawkSafe ==
    ASSUME NEW s0, Hawks(s0), NEW c, c.bid \in Nat, c.ask \in Nat, NEW R
    PROVE  Safe(Hawk(s0, c).acts, R) /\ Hawks(Hawk(s0, c).st)
  <1> DEFINE seen == IF c.k = "book" /\ TwoSided(c) THEN [s0 EXCEPT !.bid = c.bid, !.ask = c.ask] ELSE s0
             s == IF c.pos = 0 THEN [seen EXCEPT !.closed = Never] ELSE seen
             s1 == [s EXCEPT !.closed = c.now, !.placed = FALSE, !.ladder = NoLadder, !.cold = None]
             close == BuildClose(c.pos, s)
  <1>1. \/ Hawk(s0, c) = Out(s0, << >>)
        \/ Hawk(s0, c) = Out(s, << >>)
        \/ Hawk(s0, c) = Out(s1, <<CancelAll, close>>)
        \/ Hawk(s0, c) = HawkQuotes(s, c)
    BY DEF Hawk
  <1>2. Hawks(seen)
    BY DEF Hawks
  <1> HIDE DEF seen
  <1>3. Hawks(s)
    BY <1>2 DEF Hawks
  <1> HIDE DEF s
  <1>4. Hawks(s1)
    BY <1>3 DEF Hawks
  <1>5. Taking(close)
    BY Takers DEF Taking
  <1> HIDE DEF s1, close
  <1>6. CASE Hawk(s0, c) = Out(s0, << >>) \/ Hawk(s0, c) = Out(s, << >>)
    BY <1>3, <1>6, OutActs, SafeNothing
  <1>7. CASE Hawk(s0, c) = Out(s1, <<CancelAll, close>>)
    BY <1>4, <1>5, <1>7, OutActs, SafeSweepOne
  <1> QED
    BY <1>1, <1>3, <1>6, <1>7, HawkQuotesSafe

-----------------------------------------------------------------------------
(* tide: the rungs placed are whole prices that no order shown covers.       *)

\* What the answers need of the state.
Tides(s) == {"origin", "center"} \subseteq DOMAIN s /\ s.origin \in Int /\ s.center \in Int

LEMMA RoundsTick == ASSUME NEW p \in Int PROVE RoundTick(p) \in Int
  BY DEF RoundTick, Tick

LEMMA RoundsDiv == ASSUME NEW n \in Int, NEW d \in Nat \ {0} PROVE RoundDiv(n, d) \in Int
  <1>1. 2 * n + d \in Int /\ 2 * d \in Nat /\ 2 * d > 0
    OBVIOUS
  <1>2. (2 * n + d) \div (2 * d) \in Int
    BY <1>1
  <1> QED
    BY <1>2 DEF RoundDiv

LEMMA TideReconciles ==
    ASSUME NEW s, Tides(s), NEW c, IsFiniteSet(c.open), NEW raw \in Int, NEW R, R \subseteq c.open
    PROVE  LET out == TideReconcile(s, c, raw)
           IN  Safe(out.acts, R) /\ WholePosts(out.acts) /\ Makers(out.acts) /\ Tides(out.st)
  <1> DEFINE origin == IF s.origin = None THEN RoundTick(raw) ELSE s.origin
             mid == origin + RoundDiv(raw - origin, TD.step) * TD.step
             range == 0 .. TD.levels - 1
             at(side) == {Away(side, mid, (TD.inner + 1 + k) * TD.step) : k \in range}
             Rungs(side) == {p \in at(side) : p > 0}
             tol == TD.step \div 2
             lack(side) == {x \in Rungs(side) : ~Covered(x, Prices(Shown(c, side)), tol)}
             New(side) == IF TideCapped(c.pos, side) THEN {} ELSE {Post(side, p, Lot) : p \in lack(side)}
             old == {o \in c.open : ~Covered(o.px, Rungs(o.side), tol)}
             s1 == [s EXCEPT !.origin = origin]
             bids == SetToSeq(New("bid"))
             asks == SetToSeq(New("ask"))
             acts == (bids \o asks) \o CancelThose(old)
  <1>1. TideReconcile(s, c, raw) = Out(s1, acts)
    BY DEF TideReconcile
  <1>2. TD.step \in Nat \ {0} /\ TD.inner \in Nat /\ TD.levels \in Nat
    BY DistancesAssumption
  <1>3. origin \in Int
    BY RoundsTick DEF Tides
  <1>4. Tides(s1)
    BY <1>3 DEF Tides
  <1> HIDE DEF origin
  <1>5. mid \in Int
    <2>1. RoundDiv(raw - origin, TD.step) \in Int
      BY <1>2, <1>3, RoundsDiv
    <2> QED
      BY <1>2, <1>3, <2>1
  <1>6. tol \in Nat
    BY <1>2
  <1> HIDE DEF mid, tol
  <1>7. ASSUME NEW side \in Sides PROVE IsFiniteSet(at(side)) /\ at(side) \subseteq Int
    <2> DEFINE f == [k \in range |-> Away(side, mid, (TD.inner + 1 + k) * TD.step)]
    <2>1. at(side) = {f[k] : k \in range}
      OBVIOUS
    <2>2. IsFiniteSet(range)
      BY <1>2, FS_Interval
    <2>3. \A k \in range : Away(side, mid, (TD.inner + 1 + k) * TD.step) \in Int
      <3> SUFFICES ASSUME NEW k \in range PROVE Away(side, mid, (TD.inner + 1 + k) * TD.step) \in Int
        OBVIOUS
      <3>1. (TD.inner + 1 + k) * TD.step \in Int
        BY <1>2
      <3> QED
        BY <1>5, <3>1 DEF Away, Sgn
    <2>4. at(side) \subseteq Int
      BY <2>3
    <2> HIDE DEF at, f, range
    <2> QED
      BY <2>1, <2>2, <2>4, ImageFinite
  <1> HIDE DEF at
  <1>8. ASSUME NEW side \in Sides
        PROVE  /\ IsFiniteSet(New(side))
               /\ \A a \in New(side) : Maker(a) /\ Whole(a) /\ a.side = side
               /\ \A a \in New(side), b \in New(side) : SameKey(a, b) => a = b
               /\ \A a \in New(side), o \in R : ~SameKey(a, o)
    <2>1. IsFiniteSet(lack(side)) /\ lack(side) \subseteq Int
      <3>1. lack(side) \in SUBSET at(side)
        OBVIOUS
      <3> HIDE DEF lack
      <3> QED
        BY <1>7, <3>1, FS_Subset
    <2> DEFINE P == {Post(side, p, Lot) : p \in lack(side)}
    <2>2. New(side) = P \/ New(side) = {}
      OBVIOUS
    <2>3. IsFiniteSet(P)
      <3> DEFINE S == lack(side)
                 f == [p \in S |-> Post(side, p, Lot)]
      <3>1. P = {f[p] : p \in S}
        OBVIOUS
      <3> HIDE DEF P, f, S
      <3>2. IsFiniteSet(S)
        BY <2>1 DEF S
      <3> QED
        BY <3>1, <3>2, ImageFinite
    <2>4. IsFiniteSet(New(side))
      <3> HIDE DEF P, New
      <3> QED
        BY <2>2, <2>3, FS_EmptySet
    <2>5. \A a \in New(side) : \E p \in lack(side) : a = Post(side, p, Lot)
      BY <2>2
    <2> HIDE DEF New, P
    <2>6. \A p : Post(side, p, Lot).side = side /\ Post(side, p, Lot).px = p /\ Post(side, p, Lot).sz = Lot
                 /\ Maker(Post(side, p, Lot))
      BY Posts DEF Post, Order
    <2>7. \A a \in New(side) : Maker(a) /\ Whole(a) /\ a.side = side
      BY <2>1, <2>5, <2>6, LotAssumption DEF Whole
    <2>8. \A a \in New(side), b \in New(side) : SameKey(a, b) => a = b
      BY <2>5, <2>6 DEF SameKey
    <2>9. ASSUME NEW a \in New(side), NEW o \in R, SameKey(a, o) PROVE FALSE
      <3>1. PICK p \in lack(side) : a = Post(side, p, Lot)
        BY <2>5
      <3>2. o \in Shown(c, side) /\ o.px = p /\ p \in Int
        BY <2>1, <2>6, <2>9, <3>1 DEF SameKey, Shown
      <3>3. p \in Prices(Shown(c, side))
        BY <3>2 DEF Prices
      <3>4. Abs(p - p) <= tol
        BY <1>6, <3>2 DEF Abs
      <3>5. ~Covered(p, Prices(Shown(c, side)), tol)
        BY <3>1
      <3> QED
        BY <3>3, <3>4, <3>5 DEF Covered
    <2> QED
      BY <2>4, <2>7, <2>8, <2>9
  <1>9. old \in SUBSET c.open
    OBVIOUS
  <1> HIDE DEF New, old, s1
  <1>10. Neat(bids, New("bid")) /\ Neat(asks, New("ask"))
    BY <1>8, NeatSet DEF Sides
  <1>15. Makers(acts)
    <2>1. Makers(bids) /\ Makers(asks)
      BY <1>8, SetOfMakers DEF Sides
    <2>2. Makers(CancelThose(old))
      BY <1>9, FS_Subset, CancelsThose
    <2> HIDE DEF bids, asks
    <2> QED
      BY <2>1, <2>2, MakersJoined
  <1> DEFINE K == New("bid") \cup New("ask")
  <1>11. (\A a \in K : Whole(a)) /\ Strangers(K, R)
         /\ (\A a \in New("bid") : a.side = "bid") /\ \A a \in New("ask") : a.side = "ask"
    BY <1>8 DEF Sides, Strangers
  <1> HIDE DEF bids, asks
  <1>12. Neat(bids \o asks, K)
    BY <1>10, <1>11, NeatPair
  <1> HIDE DEF K
  <1>13. Neat(acts, K)
    BY <1>9, <1>12, FS_Subset, NeatCancelling
  <1> HIDE DEF acts
  <1>14. Safe(acts, R) /\ WholePosts(acts)
    BY <1>11, <1>13, SafeApart, NeatWhole
  <1> QED
    BY <1>1, <1>4, <1>14, <1>15, OutActs

\* On any event.
LEMMA TideSafe ==
    ASSUME NEW s, Tides(s), NEW c, c.bid \in Nat, c.ask \in Nat, IsFiniteSet(c.open),
           c.k = "fill" => c.fill.px \in Int, NEW R, R \subseteq c.open
    PROVE  LET out == Tide(s, c)
           IN  Safe(out.acts, R) /\ WholePosts(out.acts) /\ Makers(out.acts) /\ Tides(out.st)
  <1> DEFINE crossed == ~TwoSided(c) \/ c.ask <= c.bid
             at == IF s.center = None /\ ~crossed THEN Mid(c) ELSE s.center
             reach == (TD.inner + TD.levels) * TD.step
             center == IF ~crossed /\ Abs(Mid(c) - at) > reach THEN Mid(c) ELSE at
             s1 == [s EXCEPT !.center = c.fill.px]
             s2 == [s EXCEPT !.center = center, !.last = c.now]
             s3 == [s EXCEPT !.center = at]
  <1>1. \/ Tide(s, c) = Out(s1, << >>) /\ c.k = "fill"
        \/ Tide(s, c) = TideReconcile(s2, c, center)
        \/ Tide(s, c) = Out(s3, << >>)
    BY DEF Tide
  <1>2. Mid(c) \in Int
    BY DEF Mid
  <1>3. at \in Int
    BY <1>2 DEF Tides
  <1> HIDE DEF at, reach
  <1>4. center \in Int
    BY <1>2, <1>3
  <1> HIDE DEF center
  <1>5. (c.k = "fill" => Tides(s1)) /\ Tides(s2) /\ Tides(s3)
    BY <1>3, <1>4 DEF Tides
  <1> HIDE DEF s1, s2, s3
  <1>6. CASE Tide(s, c) = Out(s1, << >>) /\ c.k = "fill"
    BY <1>5, <1>6, OutActs, SafeNothing, NoActions
  <1>7. CASE Tide(s, c) = Out(s3, << >>)
    BY <1>5, <1>7, OutActs, SafeNothing, NoActions
  <1>8. CASE Tide(s, c) = TideReconcile(s2, c, center)
    BY <1>4, <1>5, <1>8, TideReconciles
  <1> QED
    BY <1>1, <1>6, <1>7, <1>8

-----------------------------------------------------------------------------
(* keel: the rungs wanted differ, and one that is taken is requoted.         *)

\* What is wanted: at most one order at a price of a side.
Distinct(want) == \A d, e \in want : SameKey(d, e) => d = e

LEMMA KeelRungsDistinct ==
    ASSUME NEW c, c.bid \in Nat, c.ask \in Nat, c.pos \in Int, NEW origin \in Int
    PROVE  /\ Distinct(KeelRungs(c, origin))
           /\ \A d \in KeelRungs(c, origin) : KL.trailing /\ c.pos # 0 => d.side # Closing(c.pos)
  <1> DEFINE kMid == RoundDiv(Mid(c) - origin, KL.step)
             capped == KL.cap > 0 /\ Abs(c.pos) >= KL.cap
             Wanted(side) == /\ ~(KL.trailing /\ ~KeelAdds(c.pos, side))
                             /\ ~(KeelAdds(c.pos, side) /\ c.pos # 0 /\ capped)
             R(side, p) == [side |-> side, px |-> KeelRound(side, p),
                            sz |-> KeelSize(RoundDiv(Abs(p - Mid(c)), KL.step))]
             range == (kMid - KL.levels) .. (kMid + KL.levels)
             band == {origin + k * KL.step : k \in range}
             at == {p \in band : p > 0}
             Band(side) == {p \in at : /\ Farther(side, p, Away(side, Mid(c), KL.inner))
                                       /\ Farther(side, p, Touch(c, Opp(side)))}
             Doubled(side, p) == \E x \in Band(side) : x < p /\ KeelRound(side, x) = KeelRound(side, p)
             out(side) == {x \in Band(side) : ~Doubled(side, x)}
             rungs(side) == IF Wanted(side) THEN {R(side, p) : p \in out(side)} ELSE {}
  <1>1. KeelRungs(c, origin) = UNION {rungs(side) : side \in Sides}
    BY DEF KeelRungs
  <1>2. at \subseteq Int
    <2>1. KL.levels \in Nat /\ KL.step \in Nat \ {0}
      BY LevelsAssumption
    <2>2. Mid(c) - origin \in Int
      BY DEF Mid
    <2>3. kMid \in Int
      BY <2>1, <2>2, RoundsDiv
    <2> HIDE DEF kMid
    <2>4. \A k \in range : origin + k * KL.step \in Int
      BY <2>1, <2>3
    <2> QED
      BY <2>4
  <1> HIDE DEF at
  <1>3. \A side : out(side) \subseteq Int
    BY <1>2
  <1>4. \A side : \A p, x \in out(side) : KeelRound(side, p) = KeelRound(side, x) => p = x
    <2> SUFFICES ASSUME NEW side, NEW p \in out(side), NEW x \in out(side),
                        KeelRound(side, p) = KeelRound(side, x)
                 PROVE  p = x
      OBVIOUS
    <2>1. p \in Band(side) /\ x \in Band(side) /\ ~Doubled(side, p) /\ ~Doubled(side, x)
      OBVIOUS
    <2> HIDE DEF Band, out
    <2>2. ~(x < p) /\ ~(p < x)
      BY <2>1
    <2>3. p \in Int /\ x \in Int
      BY <1>3
    <2> QED
      BY <2>2, <2>3
  <1>5. \A side \in Sides : \A d \in rungs(side) :
          Wanted(side) /\ d.side = side /\ \E p \in out(side) : d = R(side, p) /\ d.px = KeelRound(side, p)
    OBVIOUS
  <1> HIDE DEF out, rungs
  <1>6. ASSUME NEW d \in KeelRungs(c, origin), NEW e \in KeelRungs(c, origin), SameKey(d, e) PROVE d = e
    <2>1. PICK side \in Sides : d \in rungs(side)
      BY <1>1
    <2>2. PICK other \in Sides : e \in rungs(other)
      BY <1>1
    <2>3. other = side
      BY <1>5, <1>6, <2>1, <2>2 DEF SameKey
    <2>4. PICK p \in out(side) : d = R(side, p) /\ d.px = KeelRound(side, p)
      BY <1>5, <2>1
    <2>5. PICK x \in out(side) : e = R(side, x) /\ e.px = KeelRound(side, x)
      BY <1>5, <2>2, <2>3
    <2>6. p = x
      BY <1>4, <1>6, <2>4, <2>5 DEF SameKey
    <2> QED
      BY <2>4, <2>5, <2>6
  <1>7. ASSUME NEW d \in KeelRungs(c, origin), KL.trailing, c.pos # 0 PROVE d.side # Closing(c.pos)
    <2>1. PICK side \in Sides : d \in rungs(side)
      BY <1>1
    <2>2. d.side = side /\ KeelAdds(c.pos, side)
      BY <1>5, <1>7, <2>1
    <2> QED
      BY <1>7, <2>2 DEF KeelAdds, Closing
  <1> QED
    BY <1>6, <1>7 DEF Distinct

LEMMA KeelWants ==
    ASSUME NEW c, c.bid \in Nat, c.ask \in Nat, c.pos \in Int, NEW origin \in Int
    PROVE  Distinct(KeelRungs(c, origin) \cup KeelReduce(c))
  <1>1. /\ \A d, e \in KeelReduce(c) : d = e
        /\ \A d \in KeelReduce(c) : d.side = Closing(c.pos) /\ KL.trailing /\ c.pos # 0
    BY DEF KeelReduce
  <1>2. \A d, e : SameKey(d, e) => SameKey(e, d) /\ d.side = e.side
    BY DEF SameKey
  <1> QED
    BY <1>1, <1>2, KeelRungsDistinct DEF Distinct

\* What is wanted has whole prices and sizes,
LEMMA KeelWantsWhole ==
    ASSUME NEW c, c.bid \in Nat, c.ask \in Nat, c.pos \in Int, c.avg \in Int, NEW origin \in Int
    PROVE  \A d \in KeelRungs(c, origin) \cup KeelReduce(c) : Whole(d)
  <1>0. KL.levels \in Nat /\ KL.step \in Nat \ {0} /\ KL.ramp \in Int /\ KL.reduce \in Int /\ Lot \in Nat
    BY LevelsAssumption, DistancesAssumption, LotAssumption
  <1>9. \A side \in Sides, p \in Int : KeelRound(side, p) \in Int
    BY DEF KeelRound, FloorTick, Tick
  <1>8. Mid(c) \in Int
    BY DEF Mid
  <1>1. ASSUME NEW d \in KeelReduce(c) PROVE Whole(d)
    <2> DEFINE side == Closing(c.pos)
               goal == Away(side, c.avg, KL.reduce)
               px == IF Farther(side, Touch(c, side), goal) THEN Touch(c, side) ELSE goal
    <2>1. d = [side |-> side, px |-> KeelRound(side, px), sz |-> Abs(c.pos)]
      BY DEF KeelReduce
    <2>2. side \in Sides
      BY DEF Closing, Sides
    <2>3. px \in Int
      BY <1>0 DEF Away, Sgn, Touch
    <2>4. Abs(c.pos) \in Int
      BY DEF Abs
    <2> HIDE DEF px, side
    <2> QED
      BY <1>9, <2>1, <2>2, <2>3, <2>4 DEF Whole
  <1>2. ASSUME NEW d \in KeelRungs(c, origin) PROVE Whole(d)
    <2> DEFINE kMid == RoundDiv(Mid(c) - origin, KL.step)
               range == (kMid - KL.levels) .. (kMid + KL.levels)
               band == {origin + k * KL.step : k \in range}
    <2>1. PICK side \in Sides, p \in band :
            d = [side |-> side, px |-> KeelRound(side, p), sz |-> KeelSize(RoundDiv(Abs(p - Mid(c)), KL.step))]
      BY <1>2 DEF KeelRungs
    <2>2. p \in Int
      <3>1. Mid(c) - origin \in Int
        BY <1>8
      <3>2. kMid \in Int
        BY <1>0, <3>1, RoundsDiv
      <3> HIDE DEF kMid
      <3>3. \A k \in range : origin + k * KL.step \in Int
        BY <1>0, <3>2
      <3> QED
        BY <3>3
    <2> HIDE DEF band
    <2>3. Abs(p - Mid(c)) \in Int
      BY <1>8, <2>2 DEF Abs
    <2>4. RoundDiv(Abs(p - Mid(c)), KL.step) \in Int
      BY <1>0, <2>3, RoundsDiv
    <2>5. \A n \in Int : KeelSize(n) \in Int
      BY <1>0 DEF KeelSize
    <2> QED
      BY <1>9, <2>1, <2>2, <2>4, <2>5 DEF Whole
  <1> QED
    BY <1>1, <1>2

\* Orders at one price of a side have one identity: the resting order that was
\* requoted in the place of a taker order on its way.
Agree(open) == \A x, y \in open : SameKey(x, y) => x.id = y.id
\* Whatever is sent at the price of an order shown takes its place.
Matches(acts, open) ==
    \A i \in 1..Len(acts) : \A x \in open :
        Posting(acts[i]) /\ SameKey(acts[i], x) => acts[i].op = "requote" /\ acts[i].id = x.id

\* hence the orders are apart, and take the place of those at their price.
LEMMA KeelReconciles ==
    ASSUME NEW c, Quoted(c), NEW R, R \subseteq c.open, Agree(c.open),
           NEW want, IsFiniteSet(want), Distinct(want), \A d \in want : Whole(d)
    PROVE  LET acts == KeelReconcile(c, want)
           IN  Safe(acts, R) /\ WholePosts(acts) /\ Matches(acts, c.open)
  <1> DEFINE On(d) == {o \in c.open : o.side = d.side /\ o.px = d.px}
             met == {d \in want : On(d) # {}}
             First(d) == CHOOSE o \in On(d) : TRUE
             claimed == {First(d) : d \in met}
             off == {x \in met : 5 * Abs(First(x).sz - x.sz) > x.sz}
             resized == {Requote(First(d).id, d.side, d.px, d.sz) : d \in off}
             lack == want \ met
             new == {Post(d.side, d.px, d.sz) : d \in lack}
             stale == {o \in c.open \ claimed : KL.trailing /\ c.pos # 0 /\ o.side = Closing(c.pos)}
             far == (c.open \ claimed) \ stale
             excess == Cardinality(c.open) + Cardinality(new) - KL.maxOpen
             Dist(o) == Abs(o.px - Mid(c))
             trim == {o \in far : Cardinality({x \in far : Dist(x) > Dist(o)}) < excess}
             K == resized \cup new
             acts == (SetToSeq(K) \o CancelThose(stale)) \o CancelThose(trim)
  <1>1. KeelReconcile(c, want) = acts
    BY DEF KeelReconcile
  <1>2. stale \in SUBSET c.open /\ trim \in SUBSET c.open
    OBVIOUS
  <1>3. off \in SUBSET want /\ lack \in SUBSET want /\ off \cap lack = {}
    OBVIOUS
  <1>11. \A d \in off : First(d) \in c.open /\ SameKey(First(d), d)
    BY DEF SameKey
  <1>12. \A d \in lack, x \in c.open : ~SameKey(d, x)
    BY DEF SameKey
  <1> HIDE DEF First, off, lack, stale, trim
  <1>13. IsFiniteSet(off) /\ IsFiniteSet(lack)
    BY <1>3, FS_Subset
  <1>4. IsFiniteSet(resized)
    <2> DEFINE f == [d \in off |-> Requote(First(d).id, d.side, d.px, d.sz)]
    <2>1. resized = {f[d] : d \in off}
      OBVIOUS
    <2> HIDE DEF f, resized
    <2> QED
      BY <1>13, <2>1, ImageFinite
  <1>5. IsFiniteSet(new)
    <2> DEFINE f == [d \in lack |-> Post(d.side, d.px, d.sz)]
    <2>1. new = {f[d] : d \in lack}
      OBVIOUS
    <2> HIDE DEF f, new
    <2> QED
      BY <1>13, <2>1, ImageFinite
  <1>6. \A id, side, px, sz :
          /\ Maker(Requote(id, side, px, sz)) /\ Maker(Post(side, px, sz))
          /\ Requote(id, side, px, sz).op = "requote" /\ Requote(id, side, px, sz).id = id
          /\ Requote(id, side, px, sz).side = side /\ Post(side, px, sz).side = side
          /\ Requote(id, side, px, sz).px = px /\ Post(side, px, sz).px = px
          /\ Requote(id, side, px, sz).sz = sz /\ Post(side, px, sz).sz = sz
    <2> SUFFICES ASSUME NEW id, NEW side, NEW px, NEW sz
                 PROVE  LET a == Requote(id, side, px, sz)
                            b == Post(side, px, sz)
                        IN  /\ Maker(a) /\ Maker(b) /\ a.op = "requote" /\ a.id = id
                            /\ a.side = side /\ b.side = side /\ a.px = px /\ b.px = px
                            /\ a.sz = sz /\ b.sz = sz
      OBVIOUS
    <2> DEFINE a == Requote(id, side, px, sz)
               b == Post(side, px, sz)
    <2>1. Maker(a) /\ Maker(b)
      BY Posts
    <2>2. a.op = "requote" /\ a.id = id /\ a.side = side /\ a.px = px /\ a.sz = sz
      BY DEF Requote
    <2>3. b.side = side /\ b.px = px /\ b.sz = sz
      BY DEF Post, Order
    <2> QED
      BY <2>1, <2>2, <2>3
  <1>7. \A a \in K : \E d \in want :
          /\ a.side = d.side /\ a.px = d.px /\ a.sz = d.sz /\ Maker(a)
          /\ \/ d \in off /\ a = Requote(First(d).id, d.side, d.px, d.sz) /\ a.op = "requote" /\ a.id = First(d).id
             \/ d \in lack /\ a = Post(d.side, d.px, d.sz)
    BY <1>3, <1>6
  <1>8. IsFiniteSet(K)
    BY <1>4, <1>5, FS_Union
  <1> HIDE DEF K
  <1>9. ASSUME NEW a \in K, NEW b \in K, SameKey(a, b) PROVE a = b
    <2>1. PICK d \in want : /\ a.side = d.side /\ a.px = d.px
                            /\ \/ d \in off /\ a = Requote(First(d).id, d.side, d.px, d.sz)
                               \/ d \in lack /\ a = Post(d.side, d.px, d.sz)
      BY <1>7
    <2>2. PICK e \in want : /\ b.side = e.side /\ b.px = e.px
                            /\ \/ e \in off /\ b = Requote(First(e).id, e.side, e.px, e.sz)
                               \/ e \in lack /\ b = Post(e.side, e.px, e.sz)
      BY <1>7
    <2>3. d = e
      BY <1>9, <2>1, <2>2 DEF Distinct, SameKey
    <2>4. ~(d \in off /\ d \in lack)
      BY <1>3
    <2> QED
      BY <2>1, <2>2, <2>3, <2>4
  <1>10. \A a \in K : Maker(a) /\ Whole(a)
    BY <1>7 DEF Whole
  <1>14. ASSUME NEW a \in K, NEW x \in c.open, SameKey(a, x) PROVE a.op = "requote" /\ a.id = x.id
    <2>1. PICK d \in want : /\ a.side = d.side /\ a.px = d.px
                            /\ (d \in off /\ a.op = "requote" /\ a.id = First(d).id) \/ d \in lack
      BY <1>7
    <2>2. SameKey(d, x)
      BY <1>14, <2>1 DEF SameKey
    <2>3. d \in off /\ a.op = "requote" /\ a.id = First(d).id
      BY <1>12, <2>1, <2>2
    <2>4. First(d) \in c.open /\ SameKey(First(d), x)
      BY <1>11, <2>2, <2>3 DEF SameKey
    <2> QED
      BY <2>3, <2>4 DEF Agree
  <1>15. Neat(SetToSeq(K), K)
    BY <1>8, <1>9, <1>10, NeatSet
  <1>16. IsFiniteSet(stale) /\ IsFiniteSet(trim)
    BY <1>2, FS_Subset DEF Quoted
  <1> DEFINE x == SetToSeq(K)
             y == x \o CancelThose(stale)
  <1> HIDE DEF x
  <1>17. Neat(y, K)
    BY <1>15, <1>16, NeatCancelling DEF x
  <1> HIDE DEF y
  <1>18. Neat(y \o CancelThose(trim), K)
    BY <1>16, <1>17, NeatCancelling
  <1> DEFINE z == y \o CancelThose(trim)
  <1>19. z = acts
    BY DEF y, x
  <1> HIDE DEF z, acts
  <1>20. WholePosts(z) /\ Apart(z)
    BY <1>10, <1>18, NeatWhole DEF Neat, z
  <1>21. Matches(z, c.open)
    BY <1>14, <1>18 DEF Neat, Matches, z
  <1>22. Clear(z, R)
    <2> SUFFICES ASSUME NEW i \in 1..Len(z), NEW o \in R, Posting(z[i]), SameKey(z[i], o)
                 PROVE  \E j \in 1..i : Removes(z[j], o)
      BY DEF Clear
    <2>1. i \in 1..i
      OBVIOUS
    <2> QED
      BY <1>21, <2>1 DEF Matches, Removes
  <1> QED
    BY <1>1, <1>19, <1>20, <1>21, <1>22 DEF Safe

\* The rungs are finitely many: keel's batch on any event but a flip.
LEMMA KeelQuotesSafe ==
    ASSUME NEW c, c.bid \in Nat, c.ask \in Nat, c.pos \in Int, c.avg \in Int, IsFiniteSet(c.open),
           Agree(c.open), NEW R, R \subseteq c.open, NEW origin \in Int
    PROVE  LET acts == KeelReconcile(c, KeelRungs(c, origin) \cup KeelReduce(c))
           IN  Safe(acts, R) /\ WholePosts(acts) /\ Matches(acts, c.open) /\ Makers(acts)
  <1> DEFINE want == KeelRungs(c, origin) \cup KeelReduce(c)
  <1>1. Quoted(c)
    BY DEF Quoted
  <1>2. IsFiniteSet(want)
    BY <1>1, KeelRungsFinite, KeelReduceFinite, FS_Union
  <1>3. Distinct(want) /\ \A d \in want : Whole(d)
    BY KeelWants, KeelWantsWhole
  <1> HIDE DEF want
  <1>4. Makers(KeelReconcile(c, want))
    BY <1>1, <1>2, KeelReconcileMakers
  <1>5. LET acts == KeelReconcile(c, want)
        IN  Safe(acts, R) /\ WholePosts(acts) /\ Matches(acts, c.open)
    BY <1>1, <1>2, <1>3, KeelReconciles
  <1> QED
    BY <1>4, <1>5 DEF want

LEMMA MatchesNothing == ASSUME NEW open PROVE Matches(<< >>, open)
  <1> DEFINE e == << >>
  <1>1. Len(e) = 0
    OBVIOUS
  <1> HIDE DEF e
  <1>2. Matches(e, open)
    BY <1>1 DEF Matches
  <1> QED
    BY <1>2 DEF e

\* The flip: one taker order at the opposing touch.
Flips(acts, c) == \E a : /\ acts = <<a>> /\ Taking(a) /\ Whole(a)
                         /\ a.side = Closing(c.pos) /\ a.px = Touch(c, Opp(a.side))

\* On any event: a flip outside the cooldown, or a batch that takes nothing.
LEMMA KeelSafe ==
    ASSUME NEW s0, Keels(s0), NEW c, c.bid \in Nat, c.ask \in Nat, c.pos \in Int, c.avg \in Int,
           IsFiniteSet(c.open), Agree(c.open), NEW R, R \subseteq c.open
    PROVE  LET out == Keel(s0, c)
           IN  /\ Keels(out.st)
               /\ \/ /\ Safe(out.acts, R) /\ WholePosts(out.acts) /\ Matches(out.acts, c.open)
                     /\ Makers(out.acts) /\ out.st.flip = s0.flip
                  \/ /\ Flips(out.acts, c) /\ TwoSided(c) /\ out.st.flip = c.now
                     /\ s0.flip = Never \/ ~(c.now - s0.flip < KL.cooldown)
  <1> DEFINE s == [s0 EXCEPT !.hist = KeelRecord(@, c.now, Mid(c))]
             armed == (KL.sar > 0 \/ KL.window > 0) /\ c.pos # 0
             cooling == s.flip # Never /\ c.now - s.flip < KL.cooldown
             origin == IF s.origin = None THEN Mid(c) ELSE s.origin
             flips == armed /\ ~cooling /\ KeelFlips(s, c) /\ TwoSided(c)
             s1 == [s EXCEPT !.flip = c.now]
             s2 == [s EXCEPT !.mid = Mid(c), !.origin = origin]
             turn == TakerAt(Closing(c.pos), 2 * Abs(c.pos), c)
             acts == KeelReconcile(c, KeelRungs(c, origin) \cup KeelReduce(c))
             out == Keel(s0, c)
  <1>1. \/ out = Out(s0, << >>)
        \/ out = Out(s, << >>)
        \/ out = Out(s1, <<turn>>) /\ flips
        \/ out = Out(s2, acts)
    BY DEF Keel
  <1>2. s.flip = s0.flip /\ s.origin = s0.origin /\ Keels(s)
    BY DEF Keels
  <1> SUFFICES /\ Keels(out.st)
               /\ \/ /\ Safe(out.acts, R) /\ WholePosts(out.acts) /\ Matches(out.acts, c.open)
                     /\ Makers(out.acts) /\ out.st.flip = s0.flip
                  \/ /\ Flips(out.acts, c) /\ TwoSided(c) /\ out.st.flip = c.now
                     /\ s0.flip = Never \/ ~(c.now - s0.flip < KL.cooldown)
    OBVIOUS
  <1>3. flips => TwoSided(c) /\ (s0.flip = Never \/ ~(c.now - s0.flip < KL.cooldown))
    BY <1>2
  <1>4. origin \in Int
    <2>1. Mid(c) \in Int
      BY DEF Mid
    <2> QED
      BY <1>2, <2>1 DEF Keels
  <1> HIDE DEF s, out, flips, origin
  <1>5. CASE out = Out(s0, << >>) \/ out = Out(s, << >>)
    BY <1>2, <1>5, OutActs, SafeNothing, MatchesNothing, NoActions
  <1>6. CASE out = Out(s1, <<turn>>) /\ flips
    <2>1. s1.flip = c.now /\ s1.origin = s.origin /\ Keels(s1)
      BY <1>2 DEF Keels
    <2>2. turn.op = "quote" /\ turn.tif = "ioc" /\ turn.side = Closing(c.pos)
          /\ turn.px = Touch(c, Opp(turn.side)) /\ turn.sz = 2 * Abs(c.pos)
      BY DEF TakerAt, Order, Touch, Closing, Opp
    <2>3. Whole(turn)
      BY <2>2 DEF Whole, Touch, Closing, Abs, Sides
    <2> HIDE DEF s1, turn
    <2>4. Flips(<<turn>>, c)
      BY <2>2, <2>3 DEF Flips, Taking
    <2> QED
      BY <1>3, <1>6, <2>1, <2>4, OutActs
  <1>7. CASE out = Out(s2, acts)
    <2>1. s2.flip = s.flip /\ Keels(s2)
      BY <1>2, <1>4 DEF Keels
    <2>2. Safe(acts, R) /\ WholePosts(acts) /\ Matches(acts, c.open) /\ Makers(acts)
      BY <1>4, KeelQuotesSafe
    <2> HIDE DEF s2, acts
    <2> QED
      BY <1>2, <1>7, <2>1, <2>2, OutActs
  <1> QED
    BY <1>1, <1>5, <1>6, <1>7

-----------------------------------------------------------------------------
(* wave: the slots of a window differ, and one that an order shown is at is
   left out.                                                                 *)

LEMMA Largest ==
    ASSUME NEW a \in Int, NEW b \in Int
    PROVE  Max({a, b}) \in Int /\ Max({a, b}) >= a /\ Max({a, b}) >= b
  <1> DEFINE S == {a, b}
  <1>1. \E x \in S : \A y \in S : x >= y
    <2>1. CASE a >= b
      BY <2>1
    <2>2. CASE ~(a >= b)
      BY <2>2
    <2> QED
      BY <2>1, <2>2
  <1>2. Max(S) \in S /\ \A y \in S : Max(S) >= y
    <2> HIDE DEF S
    <2> QED
      BY <1>1 DEF Max
  <1> QED
    BY <1>2

LEMMA Smallest == ASSUME NEW a \in Int, NEW b \in Int PROVE Min({a, b}) \in {a, b}
  <1> DEFINE S == {a, b}
  <1>1. \E x \in S : \A y \in S : x =< y
    <2>1. CASE a =< b
      BY <2>1
    <2>2. CASE ~(a =< b)
      BY <2>2
    <2> QED
      BY <2>1, <2>2
  <1>2. Min(S) \in S
    <2> HIDE DEF S
    <2> QED
      BY <1>1 DEF Min
  <1> QED
    BY <1>2

LEMMA CeilDivs == ASSUME NEW n \in Int, NEW d \in Nat \ {0} PROVE CeilDiv(n, d) \in Int
  BY DEF CeilDiv

LEMMA RoundDivs == ASSUME NEW n \in Int, NEW d \in Nat \ {0} PROVE RoundDiv2(n, d) \in Int
  <1>1. 2 * n + d \in Int /\ 2 * d \in Nat /\ 2 * d > 0
    OBVIOUS
  <1>2. (2 * n + d) \div (2 * d) \in Int
    BY <1>1
  <1> QED
    BY <1>2 DEF RoundDiv2

\* The gaps add up to a number,
Sums(f, gaps, n) == f = [i \in 0..n |-> IF i = 0 THEN 0 ELSE f[i - 1] + gaps[i]]

LEMMA SumsExist ==
    ASSUME NEW gaps, NEW n \in Nat, \A i \in 1..n : gaps[i] \in Int
    PROVE  \E f : Sums(f, gaps, n)
  <1> DEFINE T == {k \in Nat : \E f : Sums(f, gaps, k)}
  <1>1. 0 \in T
    <2> DEFINE z == [k \in 0..0 |-> 0]
    <2>1. Sums(z, gaps, 0)
      BY DEF Sums
    <2> HIDE DEF z
    <2> QED
      BY <2>1
  <1>2. ASSUME NEW k \in Nat, k \in T PROVE k + 1 \in T
    <2>1. PICK f : Sums(f, gaps, k)
      BY <1>2
    <2>0. f = [i \in 0..k |-> IF i = 0 THEN 0 ELSE f[i - 1] + gaps[i]]
      BY <2>1 DEF Sums
    <2> DEFINE w == f[k] + gaps[k + 1]
               g == [i \in 0..k + 1 |-> IF i = k + 1 THEN w ELSE f[i]]
    <2>2. ASSUME NEW i \in 0..k + 1
          PROVE  g[i] = IF i = 0 THEN 0 ELSE g[i - 1] + gaps[i]
      <3>1. CASE i = k + 1
        <4>1. g[i] = w /\ g[k] = f[k] /\ i # 0 /\ i - 1 = k
          BY <3>1
        <4> HIDE DEF g
        <4> QED
          BY <3>1, <4>1
      <3>2. CASE i # k + 1
        <4>1. i \in 0..k /\ g[i] = f[i] /\ (i # 0 => i - 1 \in 0..k /\ g[i - 1] = f[i - 1])
          BY <3>2
        <4>2. f[i] = IF i = 0 THEN 0 ELSE f[i - 1] + gaps[i]
          BY <2>0, <4>1
        <4> HIDE DEF g
        <4> QED
          BY <4>1, <4>2
      <3> QED
        BY <3>1, <3>2
    <2>3. g = [i \in 0..k + 1 |-> g[i]]
      OBVIOUS
    <2> HIDE DEF g
    <2>4. Sums(g, gaps, k + 1)
      BY <2>2, <2>3 DEF Sums
    <2> QED
      BY <2>4
  <1>3. Nat \subseteq T
    <2> HIDE DEF T
    <2> QED
      BY <1>1, <1>2, Induct
  <1> QED
    BY <1>3

LEMMA GapsSum == ASSUME NEW gaps \in Seq(Int) PROVE SumGaps(gaps) \in Int
  <1> DEFINE n == Len(gaps)
             h == CHOOSE f : Sums(f, gaps, n)
  <1>1. n \in Nat /\ \A i \in 1..n : gaps[i] \in Int
    OBVIOUS
  <1>2. Sums(h, gaps, n)
    <2> HIDE DEF n
    <2> QED
      BY <1>1, SumsExist
  <1>3. SumGaps(gaps) = h[n]
    BY DEF SumGaps, Sums
  <1> HIDE DEF h, n
  <1>4. h = [i \in 0..n |-> IF i = 0 THEN 0 ELSE h[i - 1] + gaps[i]]
    BY <1>2 DEF Sums
  <1>5. h[0] = 0 /\ \A i \in 1..n : h[i] = h[i - 1] + gaps[i]
    BY <1>1, <1>4
  <1> DEFINE T == {k \in Nat : k <= n => h[k] \in Int}
  <1>6. 0 \in T
    BY <1>5
  <1>7. ASSUME NEW k \in Nat, k \in T PROVE k + 1 \in T
    <2> SUFFICES ASSUME k + 1 <= n PROVE h[k + 1] \in Int
      OBVIOUS
    <2>1. k + 1 \in 1..n /\ (k + 1) - 1 = k /\ k <= n
      BY <1>1
    <2> QED
      BY <1>1, <1>5, <1>7, <2>1
  <1>8. Nat \subseteq T
    <2> HIDE DEF T
    <2> QED
      BY <1>6, <1>7, Induct
  <1> QED
    BY <1>1, <1>3, <1>8

\* A frozen lattice, and a window of it.
Gridded(g) == g.bid \in Int /\ g.ask \in Int /\ g.step \in Nat \ {0}
Ranges(w) == w.lo \in Int /\ w.n \in Nat /\ w.hi = w.lo + w.n - 1

LEMMA SlotPrices ==
    ASSUME NEW g, Gridded(g), NEW side \in Sides
    PROVE  /\ g[side] \in Int
           /\ \A k \in Int : SlotPx(g, side, k) \in Int
           /\ \A j, k \in Int : j < k => SlotPx(g, side, j) # SlotPx(g, side, k)
  <1>1. g[side] \in Int
    BY DEF Gridded, Sides
  <1>2. \A k \in Int : k * g.step \in Int
    BY DEF Gridded
  <1>3. \A k \in Int : SlotPx(g, side, k) = g[side] - (IF side = "bid" THEN 1 ELSE -1) * (k * g.step)
    BY DEF SlotPx, Away, Sgn
  <1>4. ASSUME NEW j \in Int, NEW k \in Int, j < k PROVE SlotPx(g, side, j) # SlotPx(g, side, k)
    <2>1. g.step * j < g.step * k
      BY <1>4, Multiples DEF Gridded
    <2>2. g.step * j = j * g.step /\ g.step * k = k * g.step
      BY DEF Gridded
    <2> DEFINE x == j * g.step
               y == k * g.step
    <2>3. x < y /\ x \in Int /\ y \in Int
      BY <1>2, <2>1, <2>2
    <2>4. SlotPx(g, side, j) = g[side] - (IF side = "bid" THEN 1 ELSE -1) * x
          /\ SlotPx(g, side, k) = g[side] - (IF side = "bid" THEN 1 ELSE -1) * y
      BY <1>3
    <2> HIDE DEF x, y
    <2> QED
      BY <1>1, <2>3, <2>4
  <1> QED
    BY <1>1, <1>2, <1>3, <1>4

LEMMA WindowApart ==
    ASSUME NEW g, Gridded(g), NEW side \in Sides, NEW c, NEW w, Ranges(w),
           NEW size, \A k \in w.lo .. w.hi : size[k] \in Int, NEW R, R \subseteq c.open
    PROVE  \E K : /\ Neat(EmitWindow(g, c, side, w, size), K) /\ Strangers(K, R)
                  /\ \A a \in K : a.side = side /\ Whole(a)
  <1> DEFINE px(i) == SlotPx(g, side, w.lo + i)
             order(i) == Post(side, px(i), size[w.lo + i])
             b(i) == px(i) > 0 /\ Farther(side, px(i), Touch(c, Opp(side))) /\ ~Present(c, side, px(i))
             L(i) == When(px(i) > 0 /\ Farther(side, px(i), Touch(c, Opp(side))) /\ ~Present(c, side, px(i)),
                          <<Post(side, px(i), size[w.lo + i])>>)
             n == w.n
             F == [k \in 1 .. (w.n - 1) - 0 + 1 |-> L(0 + k - 1)]
             J(i) == IF b(i) THEN {order(i)} ELSE {}
             K == [i \in 1..n |-> J(i - 1)]
             U == UNION {K[i] : i \in 1..n}
  <1>1. n \in Nat /\ 1 .. (w.n - 1) - 0 + 1 = 1 .. n
    BY DEF Ranges
  <1>2. EmitWindow(g, c, side, w, size) = FlattenSeq(F)
    BY DEF EmitWindow, Ladder
  <1>3. \A i : Neat(L(i), J(i))
    <2> SUFFICES ASSUME NEW i PROVE Neat(L(i), J(i))
      OBVIOUS
    <2>1. L(i) = When(b(i), <<order(i)>>)
      OBVIOUS
    <2>2. Neat(<<order(i)>>, {order(i)})
      BY NeatPost
    <2>3. CASE b(i)
      <3>1. J(i) = {order(i)}
        BY <2>3
      <3> DEFINE x == <<order(i)>>
      <3>2. Neat(x, J(i)) /\ L(i) = When(b(i), x)
        BY <2>1, <2>2, <3>1
      <3> HIDE DEF L, J, b, x
      <3> QED
        BY <3>2, NeatWhen
    <2>4. CASE ~b(i)
      <3> HIDE DEF L, J, b, order
      <3> QED
        BY <2>1, <2>4, NeatWhen
    <2> QED
      BY <2>3, <2>4
  <1>4. \A i : order(i).side = side /\ order(i).px = px(i) /\ order(i).sz = size[w.lo + i]
    BY DEF Post, Order
  <1>5. \A i \in 1..n : w.lo + (i - 1) \in Int /\ w.lo + (i - 1) \in w.lo .. w.hi
    BY DEF Ranges
  <1>6. \A i \in 1..n : px(i - 1) \in Int /\ size[w.lo + (i - 1)] \in Int
    BY <1>5, SlotPrices
  <1>7. \A i, j \in 1..n : i # j => px(i - 1) # px(j - 1)
    <2> SUFFICES ASSUME NEW i \in 1..n, NEW j \in 1..n, i # j PROVE px(i - 1) # px(j - 1)
      OBVIOUS
    <2> DEFINE x == w.lo + (i - 1)
               y == w.lo + (j - 1)
    <2>1. x \in Int /\ y \in Int /\ (x < y \/ y < x)
      BY <1>1, <1>5 DEF Ranges
    <2>2. px(i - 1) = SlotPx(g, side, x) /\ px(j - 1) = SlotPx(g, side, y)
      OBVIOUS
    <2> HIDE DEF px, x, y
    <2> QED
      BY <2>1, <2>2, SlotPrices
  <1> HIDE DEF order
  <1>8. \A i \in 1..n : \A a \in K[i] : a = order(i - 1) /\ b(i - 1)
    OBVIOUS
  <1>9. \A i, j \in 1..n : i # j => Strangers(K[i], K[j])
    <2> SUFFICES ASSUME NEW i \in 1..n, NEW j \in 1..n, i # j, NEW x \in K[i], NEW y \in K[j], SameKey(x, y)
                 PROVE  FALSE
      BY DEF Strangers
    <2>1. x = order(i - 1) /\ y = order(j - 1)
      BY <1>8
    <2> HIDE DEF px
    <2> QED
      BY <1>4, <1>7, <2>1 DEF SameKey
  <1>10. \A i \in 1..n : Neat(F[i], K[i])
    <2> SUFFICES ASSUME NEW i \in 1..n PROVE Neat(F[i], K[i])
      OBVIOUS
    <2>1. i \in 1 .. (w.n - 1) - 0 + 1 /\ 0 + i - 1 = i - 1
      BY <1>1
    <2>2. K[i] = J(i - 1)
      OBVIOUS
    <2> HIDE DEF L, J, K
    <2>3. F[i] = L(i - 1)
      BY <2>1
    <2> HIDE DEF F
    <2> QED
      BY <1>3, <2>2, <2>3
  <1>11. DOMAIN F = 1..n /\ F = [i \in 1..n |-> F[i]]
    BY <1>1
  <1>12. ASSUME NEW a \in U
         PROVE  a.side = side /\ Whole(a) /\ \A o \in R : ~SameKey(a, o)
    <2>1. PICK i \in 1..n : a \in K[i]
      OBVIOUS
    <2>2. a.side = side /\ a.px = px(i - 1) /\ a.sz = size[w.lo + (i - 1)] /\ ~Present(c, side, px(i - 1))
      BY <1>4, <1>8, <2>1
    <2> HIDE DEF px
    <2>3. Whole(a)
      BY <1>6, <2>2 DEF Whole
    <2>4. ASSUME NEW o \in R, SameKey(a, o) PROVE FALSE
      <3>1. o \in Shown(c, side) /\ o.px = px(i - 1)
        BY <2>2, <2>4 DEF SameKey, Shown
      <3> QED
        BY <2>2, <3>1 DEF Present
    <2> QED
      BY <2>2, <2>3, <2>4
  <1> HIDE DEF F, K, n
  <1>13. Neat(FlattenSeq(F), U)
    BY <1>1, <1>9, <1>10, <1>11, NeatFlat
  <1> HIDE DEF U
  <1>14. Strangers(U, R)
    BY <1>12 DEF Strangers
  <1> QED
    BY <1>2, <1>12, <1>13, <1>14

\* Sizes, and where a window starts, are whole numbers.
LEMMA WvSizes ==
    ASSUME NEW c, c.pos \in Int, NEW side, NEW depth \in 0 .. WV.levels - 1
    PROVE  WvLots(c, side, depth) \in Int
  <1> DEFINE span == WV.levels - 1
             gain == WV.ramp - 1
             least == Min({depth, span})
             wide == Max({1, span})
             ramped == IF WV.ramp > 1 /\ WV.levels > 1 THEN span + gain * least ELSE wide
             ladder == Lot * WV.levels
             boosted == IF gain > 0 /\ c.pos # 0 /\ side = Closing(c.pos) THEN ladder + gain * Abs(c.pos) ELSE ladder
             m == WV.mult ^ depth
  <1>1. WvLots(c, side, depth) = (Lot * m * ramped * boosted) \div (wide * ladder)
    BY DEF WvLots
  <1>0. WV.levels \in Nat \ {0} /\ WV.ramp \in Int /\ Lot \in Nat \ {0}
    BY WaveAssumption, LotAssumption
  <1>2. span \in Int /\ gain \in Int /\ depth \in Int
    BY <1>0
  <1>3. m \in Int
    <2>1. depth \in 0 .. WV.levels
      BY <1>0
    <2> QED
      BY <2>1, WaveAssumption
  <1>4. ladder \in Int /\ ladder > 0
    <2>1. Lot * 0 < Lot * WV.levels
      BY <1>0, Multiples
    <2> QED
      BY <1>0, <2>1
  <1>5. Abs(c.pos) \in Int
    BY DEF Abs
  <1> HIDE DEF span, gain, ladder, m
  <1>6. wide \in Int /\ wide >= 1
    BY <1>2, Largest
  <1>7. least \in Int
    BY <1>2, Smallest
  <1> HIDE DEF wide, least
  <1>8. ramped \in Int /\ boosted \in Int
    BY <1>2, <1>4, <1>5, <1>6, <1>7
  <1> HIDE DEF ramped, boosted
  <1>9. Lot * m * ramped * boosted \in Int
    BY <1>0, <1>3, <1>8
  <1>10. wide * ladder \in Int /\ wide * ladder > 0
    <2>1. wide * 0 < wide * ladder
      BY <1>4, <1>6, Multiples
    <2> QED
      BY <1>4, <1>6, <2>1
  <1> DEFINE n == Lot * m * ramped * boosted
             d == wide * ladder
  <1>11. n \in Int /\ d \in Nat \ {0}
    BY <1>9, <1>10
  <1> HIDE DEF n, d
  <1>12. n \div d \in Int
    BY <1>11
  <1> QED
    BY <1>1, <1>12 DEF n, d

LEMMA SlotsWhole ==
    ASSUME NEW g, Gridded(g), NEW side \in Sides, NEW px \in Int
    PROVE  SlotAt(g, side, px) \in Int
  <1>1. Sgn(side) * (g[side] - px) \in Int
    BY SlotPrices DEF Sgn
  <1> QED
    BY <1>1, CeilDivs DEF SlotAt, Gridded

LEMMA TopsWhole ==
    ASSUME NEW c, c.bid \in Nat, c.ask \in Nat, NEW inner \in Int, NEW step \in Int
    PROVE  Tops(c, inner, step).bid \in Int /\ Tops(c, inner, step).ask \in Int
  <1> DEFINE half == inner * step
             low == FloorTick(Mid(c) - half)
             high == -FloorTick(-(Mid(c) + half))
  <1>1. half \in Int /\ Mid(c) \in Int
    BY DEF Mid
  <1> HIDE DEF half
  <1>2. low \in Int /\ high \in Int
    BY <1>1 DEF FloorTick, Tick
  <1>3. Tops(c, inner, step).bid = Min({low, c.bid}) /\ Tops(c, inner, step).ask = Max({high, c.ask})
    BY DEF Tops, half
  <1> HIDE DEF low, high
  <1>4. Min({low, c.bid}) \in {low, c.bid} /\ c.bid \in Int /\ c.ask \in Int
    BY <1>2, Smallest
  <1>5. Max({high, c.ask}) \in Int
    BY <1>2, <1>4, Largest
  <1> QED
    BY <1>2, <1>3, <1>4, <1>5

LEMMA TopSlotsWhole ==
    ASSUME NEW g, Gridded(g), NEW side \in Sides, NEW c, c.bid \in Nat, c.ask \in Nat,
           NEW top, top.bid \in Int, top.ask \in Int
    PROVE  TopSlot(g, c, top, side) \in Int
  <1> DEFINE guard == Away(side, Touch(c, Opp(side)), Tick)
             px == IF Farther(side, guard, top[side]) THEN guard ELSE top[side]
  <1>1. guard \in Int
    BY DEF Away, Touch, Sgn, Tick
  <1>2. top[side] \in Int
    BY DEF Sides
  <1>3. TopSlot(g, c, top, side) = SlotAt(g, side, px)
    BY DEF TopSlot
  <1> HIDE DEF guard
  <1>4. px \in Int
    BY <1>1, <1>2
  <1> HIDE DEF px
  <1> QED
    BY <1>3, <1>4, SlotsWhole

\* What wave's answers need of the state, and keep.
Waves(s) ==
    /\ {"grid", "sec", "hi", "lo", "gaps", "inner", "dirty", "step", "refill", "last"} \subseteq DOMAIN s
    /\ s.grid.step # None => Gridded(s.grid)
    /\ s.hi \in Int /\ s.lo \in Int /\ (s.sec # Never => s.hi > 0 /\ s.lo > 0)
    /\ s.gaps \in Seq(Int)
    /\ s.inner \in Int /\ s.step \in Nat
    /\ {"bid", "ask"} \subseteq DOMAIN s.last /\ s.last["bid"] \in Int /\ s.last["ask"] \in Int

LEMMA WvSteps ==
    ASSUME NEW s, s.step \in Nat, NEW mid \in Int
    PROVE  WvStepPct(s) \in Nat /\ WvStep(s, mid) \in Nat \ {0}
  <1> DEFINE n == mid * WvStepPct(s)
  <1>1. WvStepPct(s) \in Nat
    BY WaveAssumption DEF WvStepPct
  <1>2. n \in Int
    BY <1>1
  <1>3. WvStep(s, mid) = Tick \/ WvStep(s, mid) = 2 * Tick \/ (~(n < 100 * Tick) /\ WvStep(s, mid) = Tick * CeilDiv(n, 100 * Tick))
    BY DEF WvStep, StepOf
  <1> HIDE DEF n
  <1>4. ~(n < 100 * Tick) => Tick * CeilDiv(n, 100 * Tick) \in Nat \ {0}
    BY <1>2 DEF CeilDiv, Tick
  <1> QED
    BY <1>1, <1>3, <1>4 DEF Tick

LEMMA WvRecomputes ==
    ASSUME NEW s, Waves(s), Len(s.gaps) # 0
    PROVE  Waves(WvRecompute(s)) /\ WvRecompute(s).grid = s.grid
  <1> DEFINE n == Len(s.gaps)
             sum == SumGaps(s.gaps)
             top == Max({WV.step, WV.fees})
             raw == RoundDiv2(sum * WV.k, n)
             clipped == Max({WV.fees, Min({top, raw})})
             step == IF WV.autoStep /\ WV.step > 0 THEN clipped ELSE s.step
             s1 == [s EXCEPT !.step = step]
             pct == WvStepPct(s1)
             part == RoundDiv2(sum, 2 * n * pct)
             inner == IF pct = 0 THEN 0 ELSE Min({WV.maxInner, part})
             s2 == [s EXCEPT !.step = step, !.inner = inner, !.dirty = @ \/ inner # s.inner]
  <1>1. WvRecompute(s) = s2
    BY DEF WvRecompute, Clip
  <1>2. n \in Nat \ {0} /\ sum \in Int /\ s.step \in Nat /\ s.inner \in Int
    BY GapsSum DEF Waves
  <1>3. WV.step \in Nat /\ WV.fees \in Nat /\ WV.k \in Int /\ WV.maxInner \in Int
    BY WaveAssumption
  <1> HIDE DEF n, sum
  <1>4. top \in Int
    <2>1. WV.step \in Int /\ WV.fees \in Int
      BY <1>3
    <2> QED
      BY <2>1, Largest
  <1>5. raw \in Int
    <2>1. sum * WV.k \in Int
      BY <1>2, <1>3
    <2> QED
      BY <1>2, <2>1, RoundDivs
  <1> HIDE DEF top, raw
  <1>6. Min({top, raw}) \in Int
    BY <1>4, <1>5, Smallest
  <1>7. clipped \in Nat
    <2>1. WV.fees \in Int /\ WV.fees >= 0
      BY <1>3
    <2>2. clipped \in Int /\ clipped >= WV.fees
      BY <1>6, <2>1, Largest
    <2> HIDE DEF clipped
    <2> QED
      BY <2>1, <2>2
  <1> HIDE DEF clipped
  <1>8. step \in Nat
    BY <1>2, <1>7
  <1> HIDE DEF step
  <1>9. s1.step \in Nat
    BY <1>8 DEF Waves
  <1> HIDE DEF s1
  <1>10. pct \in Nat
    BY <1>3, <1>9 DEF WvStepPct
  <1> HIDE DEF pct
  <1>11. ASSUME pct # 0 PROVE part \in Int
    <2>1. 2 * n * 0 < 2 * n * pct /\ 2 * n * pct \in Int
      <3>1. 2 * n \in Nat \ {0}
        BY <1>2
      <3> DEFINE d == 2 * n
      <3> HIDE DEF d
      <3>2. d * 0 < d * pct /\ d * pct \in Int
        BY <1>10, <1>11, <3>1, Multiples DEF d
      <3> QED
        BY <3>2 DEF d
    <2>2. 2 * n * pct \in Nat \ {0}
      BY <1>2, <2>1
    <2> QED
      BY <1>2, <2>2, RoundDivs
  <1> HIDE DEF part
  <1>12. inner \in Int
    <2>1. pct # 0 => Min({WV.maxInner, part}) \in Int
      BY <1>3, <1>11, Smallest
    <2> QED
      BY <2>1
  <1> HIDE DEF inner
  <1>13. s2.step = step /\ s2.inner = inner /\ DOMAIN s2 = DOMAIN s
         /\ s2.grid = s.grid /\ s2.sec = s.sec /\ s2.hi = s.hi /\ s2.lo = s.lo
         /\ s2.gaps = s.gaps /\ s2.last = s.last
    BY DEF Waves
  <1> HIDE DEF s2
  <1>14. Waves(s2)
    BY <1>8, <1>12, <1>13 DEF Waves
  <1> QED
    BY <1>1, <1>13, <1>14

LEMMA WvCandles ==
    ASSUME NEW s, Waves(s), NEW mid \in Nat \ {0}, NEW t \in Nat
    PROVE  Waves(WvCandle(s, mid, t)) /\ WvCandle(s, mid, t).grid = s.grid
  <1> DEFINE gap == (200 * (s.hi - s.lo)) \div (s.hi + s.lo)
             gaps == Append(s.gaps, gap)
             from == Max({1, Len(gaps) - WV.window + 1})
             kept == SubSeq(gaps, from, Len(gaps))
             fresh == [s EXCEPT !.sec = t, !.hi = mid, !.lo = mid]
             wider == [s EXCEPT !.hi = Max({@, mid}), !.lo = Min({@, mid})]
             next == [fresh EXCEPT !.gaps = kept]
  <1>1. \/ WvCandle(s, mid, t) = s
        \/ WvCandle(s, mid, t) = wider
        \/ WvCandle(s, mid, t) = fresh
        \/ WvCandle(s, mid, t) = WvRecompute(next) /\ s.sec # Never
    BY DEF WvCandle
  <1>2. Waves(wider) /\ wider.grid = s.grid
    <2> DEFINE hi == Max({s.hi, mid})
               lo == Min({s.lo, mid})
    <2>1. wider = [s EXCEPT !.hi = hi, !.lo = lo]
      BY DEF Waves
    <2>2. hi \in Int /\ hi >= mid
      BY Largest DEF Waves
    <2>3. lo \in {s.lo, mid}
      BY Smallest DEF Waves
    <2> HIDE DEF wider, hi, lo
    <2>4. wider.hi = hi /\ wider.lo = lo /\ DOMAIN wider = DOMAIN s
          /\ wider.grid = s.grid /\ wider.sec = s.sec /\ wider.gaps = s.gaps
          /\ wider.inner = s.inner /\ wider.step = s.step /\ wider.last = s.last
      BY <2>1 DEF Waves
    <2> HIDE DEF wider
    <2> QED
      BY <2>2, <2>3, <2>4 DEF Waves
  <1>3. fresh.hi = mid /\ fresh.lo = mid /\ DOMAIN fresh = DOMAIN s
        /\ fresh.grid = s.grid /\ fresh.gaps = s.gaps
        /\ fresh.inner = s.inner /\ fresh.step = s.step /\ fresh.last = s.last
    BY DEF Waves
  <1> HIDE DEF fresh, wider
  <1>4. Waves(fresh)
    BY <1>3 DEF Waves
  <1>5. ASSUME s.sec # Never PROVE Waves(WvRecompute(next)) /\ WvRecompute(next).grid = s.grid
    <2>1. gap \in Int
      <3> DEFINE n == 200 * (s.hi - s.lo)
                 d == s.hi + s.lo
      <3>1. n \in Int /\ d \in Nat \ {0}
        BY <1>5 DEF Waves
      <3> HIDE DEF n, d
      <3>2. n \div d \in Int
        BY <3>1
      <3> QED
        BY <3>2 DEF n, d
    <2> HIDE DEF gap
    <2>2. gaps \in Seq(Int) /\ Len(gaps) \in Nat \ {0}
      BY <2>1 DEF Waves
    <2> HIDE DEF gaps
    <2>3. from \in 1..Len(gaps)
      <3> DEFINE m == Len(gaps) - WV.window + 1
      <3>1. m \in Int /\ m <= Len(gaps) /\ Len(gaps) >= 1
        BY <2>2, WaveAssumption
      <3> HIDE DEF m
      <3>2. from \in {1, m} /\ from >= 1
        <4> DEFINE S == {1, m}
        <4>1. \E x \in S : \A y \in S : x >= y
          <5>1. CASE 1 >= m
            BY <3>1, <5>1
          <5>2. CASE ~(1 >= m)
            BY <3>1, <5>2
          <5> QED
            BY <5>1, <5>2
        <4>2. Max(S) \in S /\ \A y \in S : Max(S) >= y
          <5> HIDE DEF S
          <5> QED
            BY <4>1 DEF Max
        <4> QED
          BY <4>2 DEF m
      <3> QED
        BY <2>2, <3>1, <3>2
    <2> HIDE DEF from
    <2>4. kept \in Seq(Int) /\ Len(kept) # 0
      BY <2>2, <2>3
    <2> HIDE DEF kept
    <2>5. next.gaps = kept /\ next.hi = fresh.hi /\ next.lo = fresh.lo /\ DOMAIN next = DOMAIN fresh
          /\ next.grid = fresh.grid /\ next.inner = fresh.inner /\ next.step = fresh.step
          /\ next.last = fresh.last
      BY <1>3 DEF Waves
    <2> HIDE DEF next
    <2>6. Waves(next)
      BY <1>3, <1>4, <2>4, <2>5 DEF Waves
    <2> QED
      BY <1>3, <2>4, <2>5, <2>6, WvRecomputes
  <1> QED
    BY <1>1, <1>2, <1>3, <1>4, <1>5

\* Cancels, or nothing.
Idler(x) == Makers(x) /\ \A L : Neat(x, L)

LEMMA IdlerAfter ==
    ASSUME NEW x, Idler(x), NEW y, Makers(y), NEW K, Neat(y, K)
    PROVE  Neat(x \o y, K) /\ Neat(y \o x, K) /\ Makers(x \o y) /\ Makers(y \o x)
  <1> DEFINE none == {}
  <1>1. Neat(x, none)
    BY DEF Idler
  <1>2. Strangers(none, K) /\ Strangers(K, none) /\ none \cup K = K /\ K \cup none = K
    BY DEF Strangers
  <1> HIDE DEF none
  <1>3. Neat(x \o y, none \cup K) /\ Neat(y \o x, K \cup none)
    BY <1>1, <1>2, NeatJoined
  <1>4. Makers(x \o y) /\ Makers(y \o x)
    BY MakersJoined DEF Idler
  <1> QED
    BY <1>2, <1>3, <1>4

LEMMA IdlerCancels == ASSUME NEW S, IsFiniteSet(S) PROVE Idler(CancelThose(S))
  BY NeatCancels, CancelsThose DEF Idler

LEMMA IdlerWhen == ASSUME NEW b, NEW x, Idler(x) PROVE Idler(When(b, x))
  BY NeatWhen, Whens DEF Idler

LEMMA IdlerNothing == Idler(<< >>)
  BY NeatNothing, NoActions, Zenon DEF Idler

LEMMA IdlerBand ==
    ASSUME NEW g, NEW c, NEW side, NEW w, NEW spared, IsFiniteSet(c.open)
    PROVE  Idler(PruneBand(g, c, side, w, spared))
  <1> DEFINE S == (Beyond(g, c, side, w) \cup Before(g, c, side, w)) \ spared
  <1>1. S \in SUBSET c.open
    BY DEF Beyond, Before, Shown
  <1>2. PruneBand(g, c, side, w, spared) = CancelThose(S) \/ PruneBand(g, c, side, w, spared) = << >>
    BY DEF PruneBand
  <1> HIDE DEF S
  <1>3. Idler(CancelThose(S))
    BY <1>1, FS_Subset, IdlerCancels
  <1> QED
    BY <1>2, <1>3, IdlerNothing, Zenon

\* The window of a side, and what is placed in it.
LEMMA WvWindows ==
    ASSUME NEW s, Waves(s), NEW g, Gridded(g), NEW c, c.bid \in Nat, c.ask \in Nat, c.avg \in Int,
           NEW top, top.bid \in Int, top.ask \in Int, NEW side \in Sides
    PROVE  Ranges(WvWindow(s, g, c, top, side)) /\ WvWindow(s, g, c, top, side).n = WV.levels
  <1> DEFINE touch == TopSlot(g, c, top, side)
             floor == IF s.last[Opp(side)] # None THEN s.last[Opp(side)] ELSE c.avg
             anchored == c.pos # 0 /\ side = Closing(c.pos) /\ floor > 0
             slot == SlotAt(g, side, floor)
             lo == IF anchored THEN Max({touch, slot}) ELSE touch
  <1>1. WvWindow(s, g, c, top, side) = Window(lo, WV.levels)
    BY DEF WvWindow
  <1>2. touch \in Int
    BY TopSlotsWhole
  <1>3. floor \in Int
    BY DEF Waves, Opp, Sides
  <1> HIDE DEF touch, floor
  <1>4. slot \in Int
    BY <1>3, SlotsWhole
  <1> HIDE DEF slot, anchored
  <1>5. Max({touch, slot}) \in Int
    BY <1>2, <1>4, Largest
  <1>6. lo \in Int
    BY <1>2, <1>5
  <1> HIDE DEF lo
  <1> QED
    BY <1>1, <1>6, WaveAssumption DEF Window, Ranges

\* Orders of a side where nothing of R rests.
Rests(x, side, R) ==
    /\ Makers(x)
    /\ \E K : Neat(x, K) /\ Strangers(K, R) /\ \A a \in K : a.side = side /\ Whole(a)
\* The sizes of a window.
Sized(size, c, side, w) == \A k \in w.lo .. w.hi : size[k] = WvLots(c, side, k - w.lo)

LEMMA WvEmits ==
    ASSUME NEW g, Gridded(g), NEW c, c.pos \in Int, NEW side \in Sides, NEW w, Ranges(w), w.n = WV.levels,
           NEW R, R \subseteq c.open, NEW size, Sized(size, c, side, w)
    PROVE  Rests(EmitWindow(g, c, side, w, size), side, R)
  <1>1. \A k \in w.lo .. w.hi : size[k] \in Int
    <2> SUFFICES ASSUME NEW k \in w.lo .. w.hi PROVE size[k] \in Int
      OBVIOUS
    <2>1. k - w.lo \in 0 .. WV.levels - 1
      BY WaveAssumption DEF Ranges
    <2>2. size[k] = WvLots(c, side, k - w.lo)
      BY DEF Sized
    <2> QED
      BY <2>1, <2>2, WvSizes
  <1>2. Makers(EmitWindow(g, c, side, w, size))
    BY WindowEmits DEF Ranges
  <1>3. \E K : /\ Neat(EmitWindow(g, c, side, w, size), K) /\ Strangers(K, R)
               /\ \A a \in K : a.side = side /\ Whole(a)
    BY <1>1, WindowApart
  <1> QED
    BY <1>2, <1>3 DEF Rests

\* Orders where nothing rests, with whatever is cancelled.
LEMMA ApartSafe ==
    ASSUME NEW x, NEW K, NEW R, Makers(x), Neat(x, K), Strangers(K, R), \A a \in K : Whole(a)
    PROVE  Safe(x, R) /\ WholePosts(x) /\ Makers(x)
  BY SafeApart, NeatWhole

LEMMA WvPlaces ==
    ASSUME NEW s, Waves(s), NEW g, Gridded(g), NEW c, c.bid \in Nat, c.ask \in Nat, c.avg \in Int, c.pos \in Int,
           IsFiniteSet(c.open), NEW top, top.bid \in Int, top.ask \in Int, NEW R, R \subseteq c.open
    PROVE  LET out == WvPlace(s, g, c, top)
           IN  Safe(out.acts, R) /\ WholePosts(out.acts) /\ Makers(out.acts) /\ Waves(out.st)
  <1> DEFINE w == [side \in Sides |-> WvWindow(s, g, c, top, side)]
             Emit(side) == EmitWindow(g, c, side, w[side],
                                      [k \in w[side].lo .. w[side].hi |-> WvLots(c, side, k - w[side].lo)])
             Full(side) == PruneBand(g, c, side, w[side], {})
             reduce == Closing(c.pos)
             held == c.pos # 0 /\ (s.last[Opp(reduce)] # None \/ c.avg > 0)
             Prune(side) == IF held /\ side = reduce THEN Full(side)
                            ELSE When(SlotPx(g, side, w[side].hi) > 0, CancelThose(Beyond(g, c, side, w[side])))
             clean == [s EXCEPT !.grid = g, !.dirty = FALSE]
             done == [clean EXCEPT !.refill = c.now]
             a1 == (CancelThose(c.open) \o Emit("bid")) \o Emit("ask")
             a2 == ((Emit("bid") \o Emit("ask")) \o Full("bid")) \o Full("ask")
             a3 == ((Emit("bid") \o Emit("ask")) \o Prune("bid")) \o Prune("ask")
             a4 == When(WV.reduceToAvg /\ held, Emit(reduce) \o Full(reduce))
             out == WvPlace(s, g, c, top)
  <1>1. \/ out = Out(done, a1)
        \/ out = Out(done, a2)
        \/ out = Out(done, a3)
        \/ out = Out(clean, a4)
    BY DEF WvPlace
  <1>2. Waves(clean) /\ Waves(done)
    <2>1. clean.grid = g /\ DOMAIN clean = DOMAIN s /\ clean.sec = s.sec /\ clean.hi = s.hi /\ clean.lo = s.lo
          /\ clean.gaps = s.gaps /\ clean.inner = s.inner /\ clean.step = s.step /\ clean.last = s.last
      BY DEF Waves
    <2> HIDE DEF clean
    <2>2. done.grid = g /\ DOMAIN done = DOMAIN s /\ done.sec = s.sec /\ done.hi = s.hi /\ done.lo = s.lo
          /\ done.gaps = s.gaps /\ done.inner = s.inner /\ done.step = s.step /\ done.last = s.last
      BY <2>1 DEF Waves
    <2> HIDE DEF done
    <2> QED
      BY <2>1, <2>2 DEF Waves
  <1>3. \A side \in Sides : Ranges(w[side]) /\ w[side].n = WV.levels
    BY WvWindows
  <1> HIDE DEF w
  <1>4. \A side \in Sides : Rests(Emit(side), side, R)
    <2> SUFFICES ASSUME NEW side \in Sides PROVE Rests(Emit(side), side, R)
      OBVIOUS
    <2> DEFINE v == w[side]
               size == [k \in v.lo .. v.hi |-> WvLots(c, side, k - v.lo)]
    <2>1. Ranges(v) /\ v.n = WV.levels
      BY <1>3
    <2>2. Emit(side) = EmitWindow(g, c, side, v, size)
      OBVIOUS
    <2>3. Sized(size, c, side, v)
      BY DEF Sized
    <2> HIDE DEF v, Emit, size
    <2>4. Rests(EmitWindow(g, c, side, v, size), side, R)
      BY <2>1, <2>3, WvEmits
    <2> QED
      BY <2>2, <2>4
  <1>5. \A side : Idler(Full(side))
    BY IdlerBand
  <1>6. \A side : Idler(Prune(side))
    <2> SUFFICES ASSUME NEW side PROVE Idler(Prune(side))
      OBVIOUS
    <2> DEFINE S == Beyond(g, c, side, w[side])
    <2>1. S \in SUBSET c.open
      BY DEF Beyond, Shown
    <2> HIDE DEF S
    <2>2. Idler(CancelThose(S))
      BY <2>1, FS_Subset, IdlerCancels
    <2>3. Prune(side) = Full(side) \/ \E b : Prune(side) = When(b, CancelThose(S))
      BY DEF S
    <2> HIDE DEF Prune, Full
    <2> QED
      BY <1>5, <2>2, <2>3, IdlerWhen
  <1>7. Idler(CancelThose(c.open))
    BY IdlerCancels
  <1> HIDE DEF Emit, Full, Prune, held
  <1>8. PICK K : Neat(Emit("bid"), K) /\ Strangers(K, R) /\ \A a \in K : a.side = "bid" /\ Whole(a)
    BY <1>4 DEF Sides, Rests
  <1>9. PICK L : Neat(Emit("ask"), L) /\ Strangers(L, R) /\ \A a \in L : a.side = "ask" /\ Whole(a)
    BY <1>4 DEF Sides, Rests
  <1>10. Makers(Emit("bid")) /\ Makers(Emit("ask"))
    BY <1>4 DEF Sides, Rests
  <1>11. Strangers(K \cup L, R) /\ \A a \in K \cup L : Whole(a)
    BY <1>8, <1>9 DEF Strangers
  <1>12. Neat(a1, K \cup L) /\ Makers(a1)
    <2> DEFINE x == CancelThose(c.open) \o Emit("bid")
    <2>1. Neat(x, K) /\ Makers(x)
      BY <1>7, <1>8, <1>10, IdlerAfter
    <2> HIDE DEF x
    <2>2. Neat(x \o Emit("ask"), K \cup L)
      BY <1>8, <1>9, <2>1, NeatPair
    <2>3. Makers(x \o Emit("ask"))
      BY <1>10, <2>1, MakersJoined
    <2> QED
      BY <2>2, <2>3 DEF x
  <1> DEFINE y == Emit("bid") \o Emit("ask")
  <1>13. Neat(y, K \cup L) /\ Makers(y)
    BY <1>8, <1>9, <1>10, NeatPair, MakersJoined
  <1> HIDE DEF y
  <1>14. Neat(a2, K \cup L) /\ Makers(a2)
    <2> DEFINE x == y \o Full("bid")
    <2>1. Neat(x, K \cup L) /\ Makers(x)
      BY <1>5, <1>13, IdlerAfter
    <2> HIDE DEF x
    <2>2. Neat(x \o Full("ask"), K \cup L) /\ Makers(x \o Full("ask"))
      BY <1>5, <2>1, IdlerAfter
    <2> QED
      BY <2>2 DEF x, y
  <1>15. Neat(a3, K \cup L) /\ Makers(a3)
    <2> DEFINE x == y \o Prune("bid")
    <2>1. Neat(x, K \cup L) /\ Makers(x)
      BY <1>6, <1>13, IdlerAfter
    <2> HIDE DEF x
    <2>2. Neat(x \o Prune("ask"), K \cup L) /\ Makers(x \o Prune("ask"))
      BY <1>6, <2>1, IdlerAfter
    <2> QED
      BY <2>2 DEF x, y
  <1>16. PICK M : Neat(Emit(reduce), M) /\ Strangers(M, R) /\ \A a \in M : Whole(a)
    BY <1>4 DEF Sides, Closing, Rests
  <1>17. Makers(Emit(reduce))
    BY <1>4 DEF Sides, Closing, Rests
  <1>18. Neat(a4, M) /\ Makers(a4)
    <2> DEFINE x == Emit(reduce) \o Full(reduce)
    <2>1. Neat(x, M) /\ Makers(x)
      BY <1>5, <1>16, <1>17, IdlerAfter
    <2> HIDE DEF x
    <2> QED
      BY <2>1, NeatWhen, Whens DEF x
  <1> HIDE DEF a1, a2, a3, a4, clean, done, out
  <1>19. Safe(a1, R) /\ WholePosts(a1)
    BY <1>11, <1>12, ApartSafe
  <1>20. Safe(a2, R) /\ WholePosts(a2)
    BY <1>11, <1>14, ApartSafe
  <1>21. Safe(a3, R) /\ WholePosts(a3)
    BY <1>11, <1>15, ApartSafe
  <1>22. Safe(a4, R) /\ WholePosts(a4)
    BY <1>16, <1>18, ApartSafe
  <1>23. PICK acts, x : /\ out = Out(x, acts) /\ Waves(x)
                        /\ Safe(acts, R) /\ WholePosts(acts) /\ Makers(acts)
    BY <1>1, <1>2, <1>12, <1>14, <1>15, <1>18, <1>19, <1>20, <1>21, <1>22
  <1>24. out.acts = acts /\ out.st = x
    BY <1>23, OutActs
  <1> SUFFICES Safe(out.acts, R) /\ WholePosts(out.acts) /\ Makers(out.acts) /\ Waves(out.st)
    BY DEF out
  <1> QED
    BY <1>23, <1>24

\* On any event.
LEMMA WaveSafe ==
    ASSUME NEW s0, Waves(s0), NEW c, c.bid \in Nat, c.ask \in Nat, c.avg \in Int, c.pos \in Int, c.now \in Nat,
           IsFiniteSet(c.open), c.k = "fill" => c.fill.px \in Int, NEW R, R \subseteq c.open
    PROVE  LET out == Wave(s0, c)
           IN  Safe(out.acts, R) /\ WholePosts(out.acts) /\ Makers(out.acts) /\ Waves(out.st)
  <1> DEFINE s1 == IF c.k = "fill" THEN [s0 EXCEPT !.last[c.fill.side] = c.fill.px] ELSE s0
             s == WvCandle(s1, Mid(c), c.now)
             step == WvStep(s, Mid(c))
             top == Tops(c, WvInner(s), step)
             sum == (top.bid + top.ask) \div 2
             fresh == [bid |-> top.bid, ask |-> top.ask, step |-> WvStep(s, sum)]
             g == IF s.grid.step = None \/ WvDrifted(s, s.grid, top) THEN fresh ELSE s.grid
             s2 == [s1 EXCEPT !.dirty = FALSE]
             out == Wave(s0, c)
  <1>1. \/ out = Out(s1, << >>)
        \/ out = Out(s2, << >>)
        \/ out = WvPlace(s, g, c, top) /\ TwoSided(c)
    BY DEF Wave
  <1>2. Waves(s1)
    <2>1. CASE c.k = "fill"
      <3> DEFINE l == [s0.last EXCEPT ![c.fill.side] = c.fill.px]
      <3>1. s1 = [s0 EXCEPT !.last = l]
        BY <2>1 DEF Waves
      <3>2. {"bid", "ask"} \subseteq DOMAIN l /\ l["bid"] \in Int /\ l["ask"] \in Int
        BY <2>1 DEF Waves
      <3> HIDE DEF l, s1
      <3>3. s1.last = l /\ DOMAIN s1 = DOMAIN s0 /\ s1.grid = s0.grid /\ s1.sec = s0.sec /\ s1.hi = s0.hi
            /\ s1.lo = s0.lo /\ s1.gaps = s0.gaps /\ s1.inner = s0.inner /\ s1.step = s0.step
        BY <3>1 DEF Waves
      <3> QED
        BY <3>2, <3>3 DEF Waves
    <2> QED
      BY <2>1
  <1> HIDE DEF s1
  <1>3. Waves(s2)
    <2>1. s2.last = s1.last /\ DOMAIN s2 = DOMAIN s1 /\ s2.grid = s1.grid /\ s2.sec = s1.sec /\ s2.hi = s1.hi
          /\ s2.lo = s1.lo /\ s2.gaps = s1.gaps /\ s2.inner = s1.inner /\ s2.step = s1.step
      BY <1>2 DEF Waves
    <2> HIDE DEF s2
    <2> QED
      BY <1>2, <2>1 DEF Waves
  <1>4. ASSUME TwoSided(c)
        PROVE  Waves(s) /\ Gridded(g) /\ top.bid \in Int /\ top.ask \in Int
    <2>1. Mid(c) \in Nat \ {0}
      BY <1>4 DEF Mid, TwoSided, None
    <2>2. Waves(s)
      BY <1>2, <2>1, WvCandles
    <2> HIDE DEF s
    <2>3. step \in Nat \ {0}
      BY <2>1, <2>2, WvSteps DEF Waves
    <2>4. WvInner(s) \in Int
      BY <2>2, WaveAssumption DEF WvInner, Waves
    <2> HIDE DEF step
    <2>5. top.bid \in Int /\ top.ask \in Int
      BY <2>3, <2>4, TopsWhole
    <2>6. (g = s.grid /\ s.grid.step # None) \/ g = fresh
      OBVIOUS
    <2>7. Gridded(fresh)
      <3>1. WvStep(s, sum) \in Nat \ {0}
        <4>1. sum \in Int
          BY <2>5
        <4> QED
          BY <2>2, <4>1, WvSteps DEF Waves
      <3> QED
        BY <2>5, <3>1 DEF Gridded
    <2> HIDE DEF g, fresh, top
    <2> QED
      BY <2>2, <2>5, <2>6, <2>7 DEF Waves
  <1> HIDE DEF s, g, top, s2, out
  <1>5. CASE out = Out(s1, << >>) \/ out = Out(s2, << >>)
    BY <1>2, <1>3, <1>5, OutActs, SafeNothing, NoActions DEF out
  <1>6. CASE out = WvPlace(s, g, c, top) /\ TwoSided(c)
    BY <1>4, <1>6, WvPlaces DEF out
  <1> QED
    BY <1>1, <1>5, <1>6

-----------------------------------------------------------------------------
(* The invariant: with no twins at rest, what each strategy needs of its state
   and of the orders shown to it.  The ledger is in whole numbers where a
   strategy reads its average or a fill; keel's taker order on its way shares
   its identity with what rests at its price, and its cooldown outlasts it.  *)

StateFits(s) ==
    /\ which = "hawk" => Hawks(s)
    /\ which = "tide" => Tides(s)
    /\ which = "keel" => Keels(s)
    /\ which = "wave" => Waves(s)

Ledger ==
    /\ pos \in Int /\ avg \in Int
    /\ \A o \in rest \cup flight : Whole(o)
    /\ event.k = "fill" => event.fill.px \in Int

\* A taker order of keel, and the latch that goes with it.
Sets(o, flip, t) ==
    "at" \in DOMAIN o /\ o.at \in Int /\ flip # Never /\ o.at <= flip /\ t - o.at <= MaxFlight

Turning ==
    /\ st.flip \in Int
    /\ \A o \in flight : Fielded(o) /\ Sets(o, st.flip, now)
    /\ \A o, x \in flight : o = x
    /\ \A o \in rest, x \in flight : SameKey(o, x) => o.id = x.id
    /\ Reaches(book)

Tidy ==
    /\ Single(rest) /\ IsFiniteSet(rest) /\ IsFiniteSet(flight)
    /\ \A o \in rest : Fielded(o)
    /\ book \in Books /\ now \in Nat
    /\ StateFits(st)
    /\ which \in {"tide", "keel", "wave"} => Ledger
    /\ which \in {"tide", "wave"} => flight = {}
    /\ which = "keel" => Turning

\* The inductive invariant.
TwinInv == which \in Reconciling => Tidy

LEMMA InitTidy == Init => TwinInv
  <1> SUFFICES ASSUME Init, which \in Reconciling PROVE Tidy
    BY DEF TwinInv
  <1>1. StateFits(st) /\ (which = "keel" => st.flip = Never)
    <2> USE DEF Init, FreshState
    <2>1. CASE which = "hawk"
      BY <2>1 DEF StateFits, HawkInit, Hawks, None
    <2>2. CASE which = "tide"
      BY <2>2 DEF StateFits, TideInit, Tides, None
    <2>3. CASE which = "keel"
      BY <2>3 DEF StateFits, KeelInit, Keels, None
    <2>4. CASE which = "wave"
      <3> DEFINE e == << >>
                 l == [bid |-> None, ask |-> None]
      <3>1. st = [grid |-> NoGrid, sec |-> Never, hi |-> 0, lo |-> 0, gaps |-> e, inner |-> 0, dirty |-> FALSE,
                  step |-> WV.step, refill |-> Never, last |-> l]
        BY <2>4 DEF WaveInit
      <3>2. e \in Seq(Int) /\ {"bid", "ask"} \subseteq DOMAIN l /\ l["bid"] \in Int /\ l["ask"] \in Int
            /\ NoGrid.step = None /\ WV.step \in Nat
        BY WaveAssumption DEF None, NoGrid
      <3> HIDE DEF e, l
      <3>3. Waves(st)
        BY <3>1, <3>2 DEF Waves
      <3> QED
        BY <2>4, <3>3 DEF StateFits
    <2> QED
      BY <2>1, <2>2, <2>3, <2>4 DEF StateFits
  <1>2. book \in Books /\ rest = {} /\ flight = {} /\ now = 1 /\ pos = 0 /\ avg = 0 /\ event = NoEvent
    BY DEF Init
  <1>3. Ledger
    BY <1>2 DEF Ledger, NoEvent, Event
  <1>4. which = "keel" => Turning
    BY <1>1, <1>2 DEF Turning, Never, Reaches
  <1> QED
    BY <1>1, <1>2, <1>3, <1>4, FS_EmptySet DEF Tidy, Single

\* The orders shown: those at rest, and those on their way.
LEMMA ShowsTidy ==
    ASSUME Tidy
    PROVE  /\ Context.bid = book.bid /\ Context.ask = book.ask /\ Context.bid \in Nat /\ Context.ask \in Nat
           /\ Context.now = now /\ Context.pos = pos /\ Context.avg = avg
           /\ Context.k = event.k /\ Context.fill = event.fill
           /\ IsFiniteSet(Context.open) /\ rest \subseteq Context.open
           /\ \A x \in Context.open : x \in rest \/ \E o \in flight : SameKey(x, o) /\ x.id = o.id
           /\ \A o \in flight : \E x \in Context.open : SameKey(x, o) /\ x.id = o.id
  <1> DEFINE f == [o \in flight |-> [id |-> o.id, side |-> o.side, px |-> o.px, sz |-> o.sz]]
             S == {[id |-> o.id, side |-> o.side, px |-> o.px, sz |-> o.sz] : o \in flight}
  <1>1. S = {f[o] : o \in flight}
    OBVIOUS
  <1> HIDE DEF f
  <1>2. IsFiniteSet(S)
    <2> HIDE DEF S
    <2> QED
      BY <1>1, ImageFinite DEF Tidy
  <1>3. Context.open = rest \cup S /\ Context.bid = book.bid /\ Context.ask = book.ask
        /\ Context.now = now /\ Context.pos = pos /\ Context.avg = avg
        /\ Context.k = event.k /\ Context.fill = event.fill
    BY DEF Context
  <1>4. /\ \A x \in S : \E o \in flight : SameKey(x, o) /\ x.id = o.id
        /\ \A o \in flight : \E x \in S : SameKey(x, o) /\ x.id = o.id
    <2> DEFINE sh(o) == [id |-> o.id, side |-> o.side, px |-> o.px, sz |-> o.sz]
    <2>1. \A o : SameKey(sh(o), o) /\ sh(o).id = o.id
      BY DEF SameKey
    <2>2. (\A x \in S : \E o \in flight : x = sh(o)) /\ \A o \in flight : sh(o) \in S
      OBVIOUS
    <2> HIDE DEF S, sh
    <2> QED
      BY <2>1, <2>2
  <1> HIDE DEF S
  <1>5. IsFiniteSet(rest \cup S)
    BY <1>2, FS_Union DEF Tidy
  <1>6. book.bid \in Nat /\ book.ask \in Nat
    BY BooksAssumption DEF Tidy
  <1> QED
    BY <1>3, <1>4, <1>5, <1>6

LEMMA FitsNext == ASSUME which' = which, StateFits(st') PROVE StateFits(st)'
  BY DEF StateFits

\* The market moves its book past no order,
LEMMA MarketTidy ==
    ASSUME Tidy, MoveBook \/ Beat
    PROVE  Tidy'
  <1>1. /\ which' = which /\ st' = st /\ rest' = rest /\ flight' = flight /\ pos' = pos /\ avg' = avg
        /\ now' = now + 1 /\ \A o \in flight : now + 1 - o.at <= MaxFlight
        /\ book' \in Books
    BY DEF MoveBook, Beat, Pass, Tidy
  <1>2. event'.k # "fill"
    <2>1. CASE MoveBook
      BY <2>1 DEF MoveBook, Event
    <2>2. CASE Beat
      BY <2>2 DEF Beat, Event
    <2> QED
      BY <2>1, <2>2
  <1>3. Reaches(book) => Reaches(book)'
    <2>1. CASE MoveBook
      BY <1>1, <2>1 DEF MoveBook, Reaches
    <2>2. CASE Beat
      BY <1>1, <2>2 DEF Beat, Reaches
    <2> QED
      BY <2>1, <2>2
  <1>4. StateFits(st)'
    BY <1>1, FitsNext DEF Tidy
  <1>5. which \in {"tide", "keel", "wave"} => Ledger'
    BY <1>1, <1>2 DEF Tidy, Ledger
  <1>6. ASSUME which = "keel" PROVE Turning'
    <2>1. Turning
      BY <1>6 DEF Tidy
    <2>2. \A o \in flight : Sets(o, st.flip, now')
      BY <1>1, <2>1, FlightAssumption DEF Turning, Sets, Tidy
    <2> QED
      BY <1>1, <1>3, <2>1, <2>2 DEF Turning
  <1> QED
    BY <1>1, <1>4, <1>5, <1>6 DEF Tidy

\* a taker order that is gone leaves no trace,
LEMMA ExpireTidy == ASSUME Tidy, Expire PROVE Tidy'
  <1>1. /\ which' = which /\ st' = st /\ rest' = rest /\ flight' \in SUBSET flight /\ pos' = pos /\ avg' = avg
        /\ now' = now /\ book' = book /\ event' = event
    BY DEF Expire, market
  <1>2. IsFiniteSet(flight')
    BY <1>1, FS_Subset DEF Tidy
  <1>3. StateFits(st)'
    BY <1>1, FitsNext DEF Tidy
  <1>4. which \in {"tide", "keel", "wave"} => Ledger'
    BY <1>1 DEF Tidy, Ledger
  <1>5. which \in {"tide", "wave"} => flight' = {}
    BY <1>1 DEF Tidy
  <1>6. which = "keel" => Turning'
    BY <1>1 DEF Tidy, Turning, Reaches
  <1> QED
    BY <1>1, <1>2, <1>3, <1>4, <1>5, <1>6 DEF Tidy

\* and a fill moves no order.
LEMMA BookTidy ==
    ASSUME Tidy, IsFiniteSet(rest'), Single(rest'),
           \A o \in rest' : \E x \in rest : SameKey(o, x) /\ o.id = x.id,
           \A o \in rest' : Fielded(o),
           NEW side, NEW px, NEW n, NEW sz, NEW out \in SUBSET flight,
           Book(side, px, n, sz, out),
           which \in {"tide", "keel", "wave"} => px \in Int /\ n \in Int /\ \A o \in rest' : Whole(o)
    PROVE  Tidy'
  <1> DEFINE late == [o \in out |-> [o EXCEPT !.late = TRUE]]
             stale == {[o EXCEPT !.late = TRUE] : o \in out}
             lt(o) == [o EXCEPT !.late = TRUE]
             p == pos + Sgn(side) * n
             sum == avg * Abs(pos) + px * n
  <1>1. /\ which' = which /\ st' = st /\ now' = now /\ book' = book
        /\ pos' = p
        /\ \/ avg' = 0 \/ avg' = avg \/ avg' = px
           \/ avg' = sum \div Abs(p) /\ p # 0
        /\ event'.fill.px = px
        /\ flight' = stale \/ flight' = out
    BY DEF Book, Event
  <1>2. StateFits(st)'
    BY <1>1, FitsNext DEF Tidy
  <1>3. IsFiniteSet(out)
    BY FS_Subset DEF Tidy
  <1>4. IsFiniteSet(flight')
    <2>1. stale = {late[o] : o \in out}
      OBVIOUS
    <2> HIDE DEF stale, late
    <2> QED
      BY <1>1, <1>3, <2>1, ImageFinite
  <1>5. which \in {"tide", "wave"} => flight' = {}
    BY <1>1 DEF Tidy
  <1>6. which = "keel" => \A o \in flight : Fielded(o) /\ "at" \in DOMAIN o
    BY DEF Tidy, Turning, Sets
  <1>7. ASSUME which \in {"tide", "keel", "wave"}
        PROVE  \A x \in flight' : \E o \in out : SameKey(x, o) /\ x.id = o.id /\ x.sz = o.sz
    <2>1. CASE which = "keel"
      <3>1. \A o \in out : SameKey(lt(o), o) /\ lt(o).id = o.id /\ lt(o).sz = o.sz
        BY <1>6, <2>1 DEF SameKey, Fielded
      <3>2. \A o \in out : SameKey(o, o)
        BY DEF SameKey
      <3>3. \A x \in flight' : x \in out \/ \E o \in out : x = lt(o)
        BY <1>1
      <3> HIDE DEF lt, stale
      <3> QED
        BY <3>1, <3>2, <3>3
    <2> QED
      BY <1>5, <1>7, <2>1
  <1>8. ASSUME which = "keel"
        PROVE  /\ \A x \in flight' : Fielded(x) /\ Sets(x, st.flip, now)
               /\ \A x, y \in flight' : x = y
    <2>1. \A o \in out : Fielded(lt(o)) /\ "at" \in DOMAIN lt(o) /\ lt(o).at = o.at
      BY <1>6, <1>8 DEF Fielded
    <2>2. Turning
      BY <1>8 DEF Tidy
    <2>3. flight' = out \/ flight' = {lt(o) : o \in out}
      BY <1>1
    <2> HIDE DEF lt, stale
    <2>4. \A o \in out : Fielded(lt(o)) /\ Sets(lt(o), st.flip, now)
      BY <2>1, <2>2 DEF Turning, Sets
    <2>5. \A x, y \in out : x = y
      BY <2>2 DEF Turning
    <2>6. \A x, y \in flight' : x = y
      <3>1. CASE flight' = out
        BY <2>5, <3>1
      <3>2. CASE flight' = {lt(o) : o \in out}
        <4> SUFFICES ASSUME NEW x \in flight', NEW y \in flight' PROVE x = y
          OBVIOUS
        <4>1. PICK a \in out : x = lt(a)
          BY <3>2
        <4>2. PICK b \in out : y = lt(b)
          BY <3>2
        <4> QED
          BY <2>5, <4>1, <4>2
      <3> QED
        BY <2>3, <3>1, <3>2
    <2> QED
      BY <2>2, <2>3, <2>4, <2>6 DEF Turning
  <1>9. ASSUME which \in {"tide", "keel", "wave"} PROVE Ledger'
    <2>1. Ledger
      BY <1>9 DEF Tidy
    <2>2. p \in Int /\ sum \in Int
      BY <1>9, <2>1 DEF Ledger, Sgn, Abs
    <2>3. avg' \in Int
      <3> DEFINE d == Abs(p)
      <3>1. p # 0 => d \in Nat \ {0}
        BY <2>2 DEF Abs
      <3> HIDE DEF p, sum, d
      <3>2. p # 0 => sum \div d \in Int
        BY <2>2, <3>1
      <3>3. avg' = 0 \/ avg' = avg \/ avg' = px \/ (avg' = sum \div d /\ p # 0)
        BY <1>1 DEF d
      <3> QED
        BY <1>9, <2>1, <3>2, <3>3 DEF Ledger
    <2>4. \A x \in flight' : Whole(x)
      BY <1>7, <1>9, <2>1 DEF Ledger, Whole, SameKey
    <2> HIDE DEF p, sum, stale
    <2> QED
      BY <1>1, <1>9, <2>2, <2>3, <2>4 DEF Ledger
  <1> HIDE DEF p, sum, stale, late, lt
  <1>10. ASSUME which = "keel" PROVE Turning'
    <2>1. Turning
      BY <1>10 DEF Tidy
    <2>2. \A o \in rest', x \in flight' : SameKey(o, x) => o.id = x.id
      <3> SUFFICES ASSUME NEW o \in rest', NEW x \in flight', SameKey(o, x) PROVE o.id = x.id
        OBVIOUS
      <3>1. PICK z \in rest : SameKey(o, z) /\ o.id = z.id
        OBVIOUS
      <3>2. PICK y \in flight : SameKey(x, y) /\ x.id = y.id
        BY <1>7, <1>10
      <3>3. SameKey(z, y)
        BY <3>1, <3>2 DEF SameKey
      <3> QED
        BY <2>1, <3>1, <3>2, <3>3 DEF Turning
    <2>3. Reaches(book)'
      <3>1. \A o \in rest : IF o.side = "bid" THEN book.ask = None \/ o.px < book.ask ELSE o.px > book.bid
        BY <2>1 DEF Turning, Reaches
      <3>2. \A o \in rest' : IF o.side = "bid" THEN book.ask = None \/ o.px < book.ask ELSE o.px > book.bid
        BY <3>1 DEF SameKey
      <3> QED
        BY <1>1, <3>2 DEF Reaches
    <2> QED
      BY <1>1, <1>8, <1>10, <2>1, <2>2, <2>3 DEF Turning
  <1> QED
    BY <1>1, <1>2, <1>4, <1>5, <1>9, <1>10 DEF Tidy

\* An order that rests fills,
LEMMA TakeRestingTidy == ASSUME Tidy, TakeResting PROVE Tidy'
  <1>0. PICK o \in rest : \E k \in {1, o.sz} :
          /\ rest' = (rest \ {o}) \cup (IF k < o.sz THEN {[o EXCEPT !.sz = @ - k]} ELSE {})
          /\ Book(o.side, o.px, k, o.sz, flight)
    BY DEF TakeResting
  <1>1. PICK n \in {1, o.sz} :
          /\ rest' = (rest \ {o}) \cup (IF n < o.sz THEN {[o EXCEPT !.sz = @ - n]} ELSE {})
          /\ Book(o.side, o.px, n, o.sz, flight)
    BY <1>0
  <1> DEFINE cut == [o EXCEPT !.sz = @ - n]
             less == rest \ {o}
  <1>2. Fielded(o) /\ Fielded(cut) /\ SameKey(cut, o) /\ cut.id = o.id /\ cut.sz = o.sz - n
    BY DEF Tidy, Fielded, SameKey
  <1>3. rest' = less \/ rest' = less \cup {cut}
    BY <1>1
  <1> HIDE DEF cut
  <1>4. IsFiniteSet(less)
    BY FS_Subset DEF Tidy
  <1>5. IsFiniteSet(rest')
    BY <1>3, <1>4, FS_AddElement
  <1>6. \A x \in rest' : \E y \in rest : SameKey(x, y) /\ x.id = y.id
    <2>1. \A x : SameKey(x, x)
      BY DEF SameKey
    <2> QED
      BY <1>2, <1>3, <2>1
  <1>7. \A x \in rest' : Fielded(x)
    BY <1>2, <1>3 DEF Tidy
  <1>8. Single(rest')
    <2>1. \A x \in less : ~SameKey(x, cut) /\ ~SameKey(cut, x)
      BY <1>2 DEF Tidy, Single, SameKey
    <2>2. Single(rest)
      BY DEF Tidy
    <2> QED
      BY <1>3, <2>1, <2>2 DEF Single
  <1>9. ASSUME which \in {"tide", "keel", "wave"}
        PROVE  o.px \in Int /\ n \in Int /\ \A x \in rest' : Whole(x)
    <2>1. \A x \in rest : Whole(x)
      BY <1>9 DEF Tidy, Ledger
    <2>2. o.px \in Int /\ o.sz \in Int /\ o.side \in Sides
      BY <2>1 DEF Whole
    <2>3. n \in Int
      BY <1>1, <2>2
    <2>4. Whole(cut)
      BY <1>2, <2>2, <2>3 DEF Whole, SameKey
    <2> QED
      BY <1>3, <2>1, <2>2, <2>3, <2>4
  <1>10. flight \in SUBSET flight
    OBVIOUS
  <1> HIDE DEF less
  <1> QED
    BY <1>1, <1>5, <1>6, <1>7, <1>8, <1>9, <1>10, BookTidy

\* or a taker order does.
LEMMA LandTidy == ASSUME Tidy, Land PROVE Tidy'
  <1>0. PICK o \in flight : \E n \in {1, o.sz} : Book(o.side, Touch(book, Opp(o.side)), n, o.sz, flight \ {o})
    BY DEF Land
  <1>1. PICK n \in {1, o.sz} : Book(o.side, Touch(book, Opp(o.side)), n, o.sz, flight \ {o})
    BY <1>0
  <1>2. rest' = rest
    BY DEF Land
  <1>3. IsFiniteSet(rest') /\ Single(rest') /\ \A x \in rest' : Fielded(x)
    BY <1>2 DEF Tidy
  <1>4. \A x \in rest' : \E y \in rest : SameKey(x, y) /\ x.id = y.id
    BY <1>2 DEF SameKey
  <1> DEFINE out == flight \ {o}
             px == Touch(book, Opp(o.side))
  <1>5. out \in SUBSET flight
    OBVIOUS
  <1>6. Book(o.side, px, n, o.sz, out)
    BY <1>1
  <1>7. ASSUME which \in {"tide", "keel", "wave"}
        PROVE  px \in Int /\ n \in Int /\ \A x \in rest' : Whole(x)
    <2>1. \A x \in rest \cup flight : Whole(x)
      BY <1>7 DEF Tidy, Ledger
    <2>2. o.sz \in Int
      BY <2>1 DEF Whole
    <2>3. px \in Int
      BY BooksAssumption DEF Touch, Tidy
    <2> HIDE DEF px
    <2> QED
      BY <1>1, <1>2, <2>1, <2>2, <2>3
  <1> HIDE DEF out, px
  <1> QED
    BY <1>3, <1>4, <1>5, <1>6, <1>7, BookTidy

\* No order shown stands for two ids.
LEMMA ShowsAgree ==
    ASSUME Tidy, which = "keel"
    PROVE  Agree(Context.open)
  <1>1. /\ \A o \in flight : Sets(o, st.flip, now)
        /\ \A o, x \in flight : o = x
        /\ \A o \in rest, x \in flight : SameKey(o, x) => o.id = x.id
        /\ Single(rest)
    BY DEF Tidy, Turning
  <1> SUFFICES ASSUME NEW x \in Context.open, NEW y \in Context.open, SameKey(x, y) PROVE x.id = y.id
    BY DEF Agree
  <1>2. \A a, b, d : (SameKey(a, b) /\ SameKey(b, d) => SameKey(a, d)) /\ (SameKey(a, b) => SameKey(b, a))
    BY DEF SameKey
  <1>3. x \in rest \/ \E o \in flight : SameKey(x, o) /\ x.id = o.id
    BY ShowsTidy
  <1>4. y \in rest \/ \E o \in flight : SameKey(y, o) /\ y.id = o.id
    BY ShowsTidy
  <1>5. CASE x \in rest /\ y \in rest
    BY <1>1, <1>5 DEF Single
  <1>6. ASSUME NEW a \in rest, NEW b, NEW o \in flight, SameKey(b, o), b.id = o.id, SameKey(a, b)
        PROVE  a.id = b.id
    BY <1>1, <1>2, <1>6
  <1> QED
    BY <1>1, <1>2, <1>3, <1>4, <1>5, <1>6

\* keel's answer: a batch in the place of what is shown, or the flip.
KeelAnswer(out) ==
    \/ /\ Safe(out.acts, rest) /\ WholePosts(out.acts) /\ Matches(out.acts, Context.open)
       /\ Makers(out.acts) /\ out.st.flip = st.flip
    \/ /\ Flips(out.acts, Context) /\ TwoSided(book) /\ out.st.flip = now
       /\ st.flip = Never \/ ~(now - st.flip < KL.cooldown)

\* The strategies that reconcile send no twins of what is shown to them.
LEMMA EventSafe ==
    ASSUME Tidy, which \in Reconciling
    PROVE  LET out == OnEvent(st, Context)
           IN  /\ StateFits(out.st)
               /\ which # "keel" => Safe(out.acts, rest)
               /\ which \in {"tide", "wave"} => WholePosts(out.acts) /\ Makers(out.acts)
               /\ which = "keel" => KeelAnswer(out)
  <1> DEFINE c == Context
             out == OnEvent(st, c)
  <1>1. /\ c.bid \in Nat /\ c.ask \in Nat /\ IsFiniteSet(c.open) /\ rest \subseteq c.open
        /\ c.now = now /\ c.pos = pos /\ c.avg = avg /\ c.k = event.k /\ c.fill = event.fill
        /\ (TwoSided(c) => TwoSided(book)) /\ now \in Nat
    BY ShowsTidy DEF TwoSided, Tidy
  <1>2. which \in {"tide", "keel", "wave"} => c.pos \in Int /\ c.avg \in Int /\ (c.k = "fill" => c.fill.px \in Int)
    BY <1>1 DEF Tidy, Ledger
  <1>3. StateFits(st)
    BY DEF Tidy
  <1>4. which = "keel" => Agree(c.open)
    BY ShowsAgree
  <1> SUFFICES /\ StateFits(out.st)
               /\ which # "keel" => Safe(out.acts, rest)
               /\ which \in {"tide", "wave"} => WholePosts(out.acts) /\ Makers(out.acts)
               /\ which = "keel" => KeelAnswer(out)
    BY DEF out, c
  <1>5. CASE which \in {"joker", "mantis", "top_of_book", "micro_price", "hydra"}
    <2>1. StateFits(out.st)
      BY <1>5 DEF StateFits
    <2>2. Safe(out.acts, rest)
      <3> HIDE DEF c
      <3>1. CASE which = "joker"
        BY <1>1, <3>1, JokerSafe DEF OnEvent
      <3>2. CASE which = "mantis"
        BY <1>1, <3>2, MantisSafe DEF OnEvent
      <3>3. CASE which = "top_of_book"
        BY <3>3, PairsSafe DEF OnEvent
      <3>4. CASE which = "micro_price"
        BY <3>4, PairsSafe DEF OnEvent
      <3>5. CASE which = "hydra"
        BY <3>5, HydraSafe DEF OnEvent
      <3> QED
        BY <1>5, <3>1, <3>2, <3>3, <3>4, <3>5
    <2> QED
      BY <1>5, <2>1, <2>2
  <1>6. CASE which = "hawk"
    <2> HIDE DEF c
    <2>1. out = Hawk(st, c)
      BY <1>6 DEF OnEvent
    <2>2. Hawks(st)
      BY <1>3, <1>6 DEF StateFits
    <2>3. Safe(out.acts, rest) /\ Hawks(out.st)
      BY <1>1, <2>1, <2>2, HawkSafe
    <2> QED
      BY <1>6, <2>3 DEF StateFits
  <1>7. CASE which = "tide"
    <2> HIDE DEF c
    <2>1. out = Tide(st, c)
      BY <1>7 DEF OnEvent
    <2>2. Tides(st)
      BY <1>3, <1>7 DEF StateFits
    <2>3. Safe(out.acts, rest) /\ WholePosts(out.acts) /\ Makers(out.acts) /\ Tides(out.st)
      BY <1>1, <1>2, <1>7, <2>1, <2>2, TideSafe
    <2> QED
      BY <1>7, <2>3 DEF StateFits
  <1>8. CASE which = "wave"
    <2> HIDE DEF c
    <2>1. out = Wave(st, c)
      BY <1>8 DEF OnEvent
    <2>2. Waves(st)
      BY <1>3, <1>8 DEF StateFits
    <2>3. Safe(out.acts, rest) /\ WholePosts(out.acts) /\ Makers(out.acts) /\ Waves(out.st)
      BY <1>1, <1>2, <1>8, <2>1, <2>2, WaveSafe
    <2> QED
      BY <1>8, <2>3 DEF StateFits
  <1>9. CASE which = "keel"
    <2> HIDE DEF c
    <2>1. out = Keel(st, c)
      BY <1>9 DEF OnEvent
    <2>2. Keels(st)
      BY <1>3, <1>9 DEF StateFits
    <2>3. /\ Keels(out.st)
          /\ \/ /\ Safe(out.acts, rest) /\ WholePosts(out.acts) /\ Matches(out.acts, c.open)
                /\ Makers(out.acts) /\ out.st.flip = st.flip
             \/ /\ Flips(out.acts, c) /\ TwoSided(c) /\ out.st.flip = c.now
                /\ st.flip = Never \/ ~(c.now - st.flip < KL.cooldown)
      BY <1>1, <1>2, <1>4, <1>9, <2>1, <2>2, KeelSafe
    <2>4. KeelAnswer(out)
      BY <1>1, <2>3 DEF KeelAnswer, c
    <2> QED
      BY <1>9, <2>3, <2>4 DEF StateFits
  <1> QED
    BY <1>5, <1>6, <1>7, <1>8, <1>9 DEF Reconciling

\* What a call leaves is what the batch made of the orders, if it was sent.
LEMMA CallLeaves ==
    ASSUME Tidy, which \in Reconciling, Call
    PROVE  /\ which' = which /\ event' = NoEvent
           /\ pos' = pos /\ avg' = avg /\ now' = now /\ book' = book
           /\ \E b : /\ b = Batch \/ \E fault : b = Apply(Batch, OnEvent(st, Context).acts, fault)
                     /\ \A r, G : Bears(b, r, G) => /\ st' = OnEvent(st, Context).st
                                                    /\ rest' = r /\ flight' = G /\ IsFiniteSet(r)
           /\ Bears(Batch, rest, flight)
  <1> DEFINE out == OnEvent(st, Context)
  <1>1. PICK fault : LET placed == IF fault = "lost" THEN Batch ELSE Apply(Batch, out.acts, fault)
                         done == Settle(out.st, placed, Context)
                     IN  st' = done.st /\ rest' = done.b.rest /\ flight' = done.b.flight
    BY DEF Call
  <1>2. which' = which /\ event' = NoEvent /\ pos' = pos /\ avg' = avg /\ now' = now /\ book' = book
    BY DEF Call, market
  <1> DEFINE b == IF fault = "lost" THEN Batch ELSE Apply(Batch, out.acts, fault)
             done == Settle(out.st, b, Context)
  <1>3. st' = done.st /\ rest' = done.b.rest /\ flight' = done.b.flight
    BY <1>1
  <1>4. Bears(Batch, rest, flight)
    <2> DEFINE e == << >>
    <2>1. IsSeq(e) /\ Batch = [rest |-> rest, flight |-> flight, refused |-> e]
      BY NothingSeq DEF Batch
    <2> HIDE DEF e
    <2> QED
      BY <2>1 DEF Bears, Tidy
  <1>5. b = Batch \/ \E f : b = Apply(Batch, OnEvent(st, Context).acts, f)
    OBVIOUS
  <1> HIDE DEF b, out
  <1>6. ASSUME NEW r, NEW G, Bears(b, r, G)
        PROVE  st' = out.st /\ rest' = r /\ flight' = G /\ IsFiniteSet(r)
    <2>1. done.st = out.st /\ Bears(done.b, r, G)
      BY <1>6, SettleIgnores
    <2> HIDE DEF done
    <2>2. PICK q : done.b = [rest |-> r, flight |-> G, refused |-> q]
      BY <2>1 DEF Bears
    <2> QED
      BY <1>3, <2>1, <2>2 DEF Bears
  <1> QED
    BY <1>2, <1>4, <1>5, <1>6 DEF out

\* A safe batch leaves no twins,
LEMMA SafeCall ==
    ASSUME Tidy, which \in Reconciling, Call, NEW out, out = OnEvent(st, Context), Safe(out.acts, rest)
    PROVE  /\ st' = out.st /\ Single(rest') /\ IsFiniteSet(rest') /\ IsFiniteSet(flight')
           /\ \A o \in rest' : o \in rest \/ \E i \in 1..Len(out.acts) : Placed(o, out.acts[i])
           /\ Makers(out.acts) => flight' = flight
  <1>1. PICK b : /\ b = Batch \/ \E fault : b = Apply(Batch, out.acts, fault)
                 /\ \A r, G : Bears(b, r, G) => st' = out.st /\ rest' = r /\ flight' = G /\ IsFiniteSet(r)
    BY CallLeaves
  <1>2. Bears(Batch, rest, flight)
    BY CallLeaves
  <1>3. Single(rest) /\ IsFiniteSet(flight)
    BY DEF Tidy
  <1>4. CASE b = Batch
    BY <1>1, <1>2, <1>3, <1>4
  <1>5. ASSUME NEW fault, b = Apply(Batch, out.acts, fault)
        PROVE  /\ st' = out.st /\ Single(rest') /\ IsFiniteSet(rest') /\ IsFiniteSet(flight')
               /\ \A o \in rest' : o \in rest \/ \E i \in 1..Len(out.acts) : Placed(o, out.acts[i])
               /\ Makers(out.acts) => flight' = flight
    <2>1. Makes(b, rest, flight, out.acts, Len(out.acts))
      BY <1>2, <1>3, <1>5, BatchApplied DEF Safe
    <2>2. PICK r, G : /\ Bears(b, r, G) /\ Single(r) /\ From(r, rest, out.acts, Len(out.acts))
                      /\ Sent(G, flight, out.acts)
                      /\ (\A i \in 1..Len(out.acts) : Maker(out.acts[i])) => G = flight
      BY <2>1 DEF Makes
    <2>3. st' = out.st /\ rest' = r /\ flight' = G /\ IsFiniteSet(r)
      BY <1>1, <2>2
    <2>4. IsFiniteSet(G)
      BY <1>3, <2>2 DEF Sent
    <2>5. Makers(out.acts) => \A i \in 1..Len(out.acts) : Maker(out.acts[i])
      BY MakersEach
    <2>6. \A o \in r : o \in rest \/ \E i \in 1..Len(out.acts) : Placed(o, out.acts[i])
      BY <2>2 DEF From
    <2> QED
      BY <2>2, <2>3, <2>4, <2>5, <2>6
  <1> QED
    BY <1>1, <1>4, <1>5

\* and a flip adds one taker order, if it was sent.
LEMMA FlipCall ==
    ASSUME Tidy, which \in Reconciling, Call, NEW out, out = OnEvent(st, Context),
           NEW a, Taking(a), out.acts = <<a>>
    PROVE  /\ st' = out.st /\ rest' = rest
           /\ \/ flight' = flight
              \/ \E x : /\ Fresh(x) /\ Fielded(x) /\ x.side = a.side /\ x.px = a.px /\ x.sz = a.sz
                        /\ flight' = flight \cup {x}
  <1>1. PICK b : /\ b = Batch \/ \E fault : b = Apply(Batch, out.acts, fault)
                 /\ \A r, G : Bears(b, r, G) => st' = out.st /\ rest' = r /\ flight' = G /\ IsFiniteSet(r)
    BY CallLeaves
  <1>2. Bears(Batch, rest, flight)
    BY CallLeaves
  <1>3. CASE b = Batch
    BY <1>1, <1>2, <1>3
  <1>4. ASSUME NEW fault, b = Apply(Batch, out.acts, fault)
        PROVE  \E x : /\ Fresh(x) /\ Fielded(x) /\ x.side = a.side /\ x.px = a.px /\ x.sz = a.sz
                      /\ st' = out.st /\ rest' = rest /\ flight' = flight \cup {x}
    <2> DEFINE acts == out.acts
    <2>1. Len(acts) = 1 /\ Len(acts) \in Nat /\ acts[1] = a
      OBVIOUS
    <2> HIDE DEF acts
    <2>2. PICK h : Stages(h, Batch, acts, fault)
      BY <2>1, ApplySteps
    <2>3. /\ Apply(Batch, acts, fault) = h[Len(acts)] /\ h[0] = Batch
          /\ \A k \in 1..Len(acts) : h[k] = ApplyOne(h[k - 1], acts[k], fault)
      BY <2>1, <2>2 DEF Stages
    <2>4. h[1] = ApplyOne(h[1 - 1], acts[1], fault)
      BY <2>1, <2>3
    <2>5. b = ApplyOne(Batch, a, fault)
      BY <1>4, <2>1, <2>3, <2>4 DEF acts
    <2>6. PICK x : /\ Fresh(x) /\ Fielded(x) /\ x.side = a.side /\ x.px = a.px /\ x.sz = a.sz
                   /\ Bears(ApplyOne(Batch, a, fault), rest, flight \cup {x})
      BY <1>2, OneTake
    <2> QED
      BY <1>1, <2>5, <2>6
  <1> QED
    BY <1>1, <1>3, <1>4

\* keel's taker order goes out when no other is on its way, where nothing rests.
LEMMA FlipTidy ==
    ASSUME Tidy, which = "keel", Call, NEW out, out = OnEvent(st, Context), StateFits(out.st),
           Flips(out.acts, Context), TwoSided(book), out.st.flip = now,
           st.flip = Never \/ ~(now - st.flip < KL.cooldown)
    PROVE  Tidy'
  <1>0. which \in Reconciling
    BY DEF Reconciling
  <1>1. PICK a : /\ out.acts = <<a>> /\ Taking(a) /\ Whole(a)
                 /\ a.side = Closing(pos) /\ a.px = Touch(Context, Opp(a.side))
    BY ShowsTidy DEF Flips
  <1>2. /\ which' = which /\ event' = NoEvent
        /\ pos' = pos /\ avg' = avg /\ now' = now /\ book' = book
    BY <1>0, CallLeaves
  <1>3. /\ st' = out.st /\ rest' = rest
        /\ \/ flight' = flight
           \/ \E x : /\ Fresh(x) /\ Fielded(x) /\ x.side = a.side /\ x.px = a.px /\ x.sz = a.sz
                     /\ flight' = flight \cup {x}
    BY <1>0, <1>1, FlipCall
  <1>4. Turning /\ Ledger
    BY DEF Tidy
  <1>5. flight = {}
    <2> SUFFICES ASSUME NEW o \in flight PROVE FALSE
      OBVIOUS
    <2>1. o.at \in Int /\ st.flip # Never /\ o.at <= st.flip /\ now - o.at <= MaxFlight /\ st.flip \in Int
      BY <1>4 DEF Turning, Sets
    <2>2. KL.cooldown \in Int /\ KL.cooldown > MaxFlight /\ MaxFlight \in Nat /\ now \in Nat
      BY FlightAssumption DEF Tidy
    <2> QED
      BY <2>1, <2>2
  <1>6. flight' = {} \/ \E x : /\ Fresh(x) /\ Fielded(x) /\ x.side = a.side /\ x.px = a.px /\ x.sz = a.sz
                               /\ flight' = {x}
    BY <1>3, <1>5
  <1>7. \A x \in flight' : /\ Fresh(x) /\ Fielded(x) /\ Whole(x)
                           /\ x.side = a.side /\ x.px = a.px
    BY <1>1, <1>6 DEF Whole
  <1>8. IsFiniteSet(flight') /\ \A x, y \in flight' : x = y
    <2>1. CASE flight' = {}
      BY <2>1, FS_EmptySet
    <2>2. ASSUME NEW x, flight' = {x} PROVE IsFiniteSet(flight') /\ \A y, z \in flight' : y = z
      BY <2>2, FS_Singleton
    <2> QED
      BY <1>6, <2>1, <2>2
  <1>9. StateFits(st)'
    BY <1>2, <1>3, FitsNext
  <1>10. Ledger'
    <2>1. event'.k # "fill"
      BY <1>2 DEF NoEvent, Event
    <2> QED
      BY <1>2, <1>3, <1>4, <1>7, <2>1 DEF Ledger
  <1>11. Turning'
    <2>1. now \in Int /\ now # Never /\ now - now <= MaxFlight /\ st'.flip = now
      BY <1>3, FlightAssumption DEF Tidy, Never
    <2>2. \A x \in flight' : Fielded(x) /\ Sets(x, st'.flip, now)
      BY <1>7, <2>1 DEF Sets, Fresh
    <2>3. \A o \in rest, x \in flight' : ~SameKey(o, x)
      <3> SUFFICES ASSUME NEW o \in rest, NEW x \in flight', SameKey(o, x) PROVE FALSE
        OBVIOUS
      <3>1. o.side = a.side /\ o.px = Touch(book, Opp(a.side)) /\ a.side \in Sides
        BY <1>1, <1>7, ShowsTidy DEF SameKey, Whole, Touch
      <3>2. IF o.side = "bid" THEN book.ask = None \/ o.px < book.ask ELSE o.px > book.bid
        BY <1>4 DEF Turning, Reaches
      <3>3. book.bid \in Nat /\ book.ask \in Nat /\ book.ask # None
        BY BooksAssumption DEF Tidy, TwoSided
      <3>4. CASE o.side = "bid"
        <4>1. o.px = book.ask
          BY <3>1, <3>4 DEF Touch, Opp
        <4> QED
          BY <3>2, <3>3, <3>4, <4>1
      <3>5. CASE o.side = "ask"
        <4>1. o.px = book.bid
          BY <3>1, <3>5 DEF Touch, Opp
        <4> QED
          BY <3>2, <3>3, <3>5, <4>1
      <3> QED
        BY <3>1, <3>4, <3>5 DEF Sides
    <2>4. Reaches(book)'
      BY <1>2, <1>3, <1>4 DEF Turning, Reaches
    <2> QED
      BY <1>2, <1>3, <1>8, <2>1, <2>2, <2>3, <2>4 DEF Turning
  <1> QED
    BY <1>2, <1>3, <1>8, <1>9, <1>10, <1>11 DEF Tidy

\* A batch of keel's rests no order where the book or a taker order on its way is.
LEMMA TurningCall ==
    ASSUME Tidy, which = "keel", Call, NEW out, out = OnEvent(st, Context), Safe(out.acts, rest),
           WholePosts(out.acts), Matches(out.acts, Context.open), Makers(out.acts), out.st.flip = st.flip
    PROVE  Turning'
  <1>0. which \in Reconciling
    BY DEF Reconciling
  <1>1. now' = now /\ book' = book
    BY <1>0, CallLeaves
  <1>2. /\ st' = out.st /\ flight' = flight
        /\ \A o \in rest' : o \in rest \/ \E i \in 1..Len(out.acts) : Placed(o, out.acts[i])
    BY <1>0, SafeCall
  <1>3. Turning
    BY DEF Tidy
  <1>4. \A o \in rest', x \in flight' : SameKey(o, x) => o.id = x.id
    <2> SUFFICES ASSUME NEW o \in rest', NEW x \in flight, SameKey(o, x) PROVE o.id = x.id
      BY <1>2
    <2>1. CASE o \in rest
      BY <1>3, <2>1 DEF Turning
    <2>2. ASSUME NEW i \in 1..Len(out.acts), Placed(o, out.acts[i]) PROVE o.id = x.id
      <3>1. PICK y \in Context.open : SameKey(y, x) /\ y.id = x.id
        BY ShowsTidy
      <3>2. SameKey(out.acts[i], y) /\ Posting(out.acts[i])
        BY <2>2, <3>1 DEF Placed, SameKey
      <3>3. out.acts[i].op = "requote" /\ out.acts[i].id = y.id
        BY <3>2 DEF Matches
      <3> QED
        BY <2>2, <3>1, <3>3 DEF Placed
    <2> QED
      BY <1>2, <2>1, <2>2
  <1>5. Reaches(book)'
    <2> SUFFICES ASSUME NEW o \in rest'
                 PROVE  IF o.side = "bid" THEN book.ask = None \/ o.px < book.ask ELSE o.px > book.bid
      BY <1>1 DEF Reaches
    <2>1. CASE o \in rest
      BY <1>3, <2>1 DEF Turning, Reaches
    <2>2. ASSUME NEW i \in 1..Len(out.acts), Placed(o, out.acts[i])
          PROVE  IF o.side = "bid" THEN book.ask = None \/ o.px < book.ask ELSE o.px > book.bid
      <3>1. ~WouldCross(o.side, o.px) /\ Posting(out.acts[i]) /\ o.side = out.acts[i].side /\ o.px = out.acts[i].px
        BY <2>2 DEF Placed
      <3>2. o.px \in Int /\ o.side \in Sides
        BY <3>1 DEF WholePosts, Whole
      <3>3. book.bid \in Nat /\ book.ask \in Nat
        BY BooksAssumption DEF Tidy
      <3> QED
        BY <3>1, <3>2, <3>3 DEF WouldCross, Sides
    <2> QED
      BY <1>2, <2>1, <2>2
  <1> QED
    BY <1>1, <1>2, <1>3, <1>4, <1>5 DEF Turning

\* No call leaves twins.
LEMMA CallTidy == ASSUME Tidy, which \in Reconciling, Call PROVE Tidy'
  <1> DEFINE out == OnEvent(st, Context)
  <1>1. /\ which' = which /\ event' = NoEvent
        /\ pos' = pos /\ avg' = avg /\ now' = now /\ book' = book
    BY CallLeaves
  <1>2. /\ StateFits(out.st)
        /\ which # "keel" => Safe(out.acts, rest)
        /\ which \in {"tide", "wave"} => WholePosts(out.acts) /\ Makers(out.acts)
        /\ which = "keel" => KeelAnswer(out)
    BY EventSafe
  <1>3. CASE which = "keel" /\ Flips(out.acts, Context) /\ TwoSided(book) /\ out.st.flip = now
             /\ (st.flip = Never \/ ~(now - st.flip < KL.cooldown))
    <2>1. StateFits(out.st) /\ out = OnEvent(st, Context)
      BY <1>2
    <2> HIDE DEF out
    <2> QED
      BY <1>3, <2>1, FlipTidy
  <1>4. CASE Safe(out.acts, rest) /\ (which = "keel" => WholePosts(out.acts) /\ Matches(out.acts, Context.open)
                                                        /\ Makers(out.acts) /\ out.st.flip = st.flip)
    <2>0. out = OnEvent(st, Context)
      OBVIOUS
    <2> HIDE DEF out
    <2>1. /\ st' = out.st /\ Single(rest') /\ IsFiniteSet(rest') /\ IsFiniteSet(flight')
          /\ \A o \in rest' : o \in rest \/ \E i \in 1..Len(out.acts) : Placed(o, out.acts[i])
          /\ Makers(out.acts) => flight' = flight
      BY <1>4, <2>0, SafeCall
    <2>2. \A o \in rest' : Fielded(o)
      BY <2>1 DEF Tidy, Placed
    <2>3. StateFits(st)'
      BY <1>1, <1>2, <2>1, FitsNext
    <2>4. ASSUME which \in {"tide", "keel", "wave"} PROVE Ledger' /\ flight' = flight
      <3>1. Makers(out.acts) /\ WholePosts(out.acts)
        BY <1>2, <1>4, <2>4
      <3>2. flight' = flight
        BY <2>1, <3>1
      <3>3. Ledger
        BY <2>4 DEF Tidy
      <3>4. \A o \in rest' : Whole(o)
        <4> SUFFICES ASSUME NEW o \in rest' PROVE Whole(o)
          OBVIOUS
        <4>1. CASE o \in rest
          BY <3>3, <4>1 DEF Ledger
        <4>2. ASSUME NEW i \in 1..Len(out.acts), Placed(o, out.acts[i]) PROVE Whole(o)
          BY <3>1, <4>2 DEF WholePosts, Placed, Whole
        <4> QED
          BY <2>1, <4>1, <4>2
      <3>5. event'.k # "fill"
        BY <1>1 DEF NoEvent, Event
      <3> QED
        BY <1>1, <3>2, <3>3, <3>4, <3>5 DEF Ledger
    <2>5. which = "keel" => Turning'
      BY <1>4, <2>0, TurningCall
    <2>6. which \in {"tide", "wave"} => flight' = {}
      BY <2>4 DEF Tidy
    <2> QED
      BY <1>1, <2>1, <2>2, <2>3, <2>4, <2>5, <2>6 DEF Tidy
  <1> QED
    BY <1>2, <1>3, <1>4 DEF KeelAnswer

\* No step breaks the invariant.
LEMMA StepsTidy == TwinInv /\ [Next]_vars => TwinInv'
  <1> SUFFICES ASSUME TwinInv, [Next]_vars, which' \in Reconciling PROVE Tidy'
    BY DEF TwinInv
  <1>1. which' = which
    BY DEF Next, vars, market, MoveBook, Beat, Forced, TakeResting, Land, Book, Expire, Call
  <1>2. which \in Reconciling /\ Tidy
    BY <1>1 DEF TwinInv
  <1>3. CASE Next
    <2>1. ~Forced
      BY <1>2 DEF Forced, Reconciling
    <2> QED
      BY <1>2, <1>3, <2>1, MarketTidy, TakeRestingTidy, LandTidy, ExpireTidy, CallTidy DEF Next
  <1>4. CASE UNCHANGED vars
    <2>1. /\ which' = which /\ st' = st /\ rest' = rest /\ flight' = flight /\ pos' = pos /\ avg' = avg
          /\ now' = now /\ book' = book /\ event' = event
      BY <1>4 DEF vars, market
    <2>2. StateFits(st)'
      BY <1>2, <2>1, FitsNext DEF Tidy
    <2>3. (which = "keel" => Turning') /\ (which \in {"tide", "keel", "wave"} => Ledger')
      BY <1>2, <2>1 DEF Tidy, Turning, Ledger, Reaches
    <2> QED
      BY <1>2, <2>1, <2>2, <2>3 DEF Tidy
  <1> QED
    BY <1>3, <1>4

\* A strategy that reconciles its quotes against the orders shown to it never rests
\* two orders at one price of a side, however its fills, cancels and lost or refused
\* batches fall between its calls: the diff of the desired quotes against `open_orders`.
THEOREM NoTwinsRest == Spec => []NoTwins
  <1>1. TwinInv => NoTwins
    BY DEF TwinInv, Tidy, NoTwins, Twinless, Single, SameKey
  <1> QED
    BY InitTidy, StepsTidy, <1>1, PTL DEF Spec
=============================================================================
