--------------------------- MODULE StrategyProofs ---------------------------
(***************************************************************************)
(* Proofs about Strategies, for any strategies run, any of their           *)
(* parameters, any books, events and faults: no strategy that keeps a      *)
(* latch closes one bag twice (TwinProofs has the other invariant).        *)
(*                                                                         *)
(* What a strategy answers is one of three things (Answers): orders that   *)
(* rest and cancels only, with the latch as it was (Mild); the same, with  *)
(* the latch dropped, while flat (Rearms); or a batch with exactly one     *)
(* taker order, with the latch set to now, when it was not set or has held *)
(* for as long as it holds (Closes).  This is shown handler by handler.    *)
(* The venue then makes at most one taker order of such a batch, and what  *)
(* the strategy says to refusals none.  The rest is the invariant at the   *)
(* end: an order sent for the bag held now is not older than the latch,    *)
(* and gone before the latch lets the gate fire again.                     *)
(***************************************************************************)
EXTENDS Strategies, FiniteSetTheorems, WellFoundedInduction, TLAPS

\* A sequence, of whatever.
IsSeq(x) == \E S : x \in Seq(S)

\* An action that takes nothing: an order that rests, or the cancel of one.
Maker(a) == a.op \in {"quote", "requote", "cancel", "cancelAll"} /\ a.tif = "post"
\* A sequence of such actions.
Makers(x) == \E S : x \in Seq(S) /\ \A a \in S : Maker(a)

\* Exactly one action is a taker order.
OneTaker(x) ==
    /\ IsSeq(x)
    /\ \E i \in 1..Len(x) : /\ x[i].op = "quote" /\ x[i].tif = "ioc"
                            /\ \A j \in 1..Len(x) : j # i => Maker(x[j])

-----------------------------------------------------------------------------
(* Sequences of actions.                                                     *)

\* A sequence over a set is one over any larger set.
LEMMA SeqWider == ASSUME NEW S, NEW T, S \subseteq T, NEW x \in Seq(S) PROVE x \in Seq(T)
  OBVIOUS

\* What a concatenation holds, and where.
LEMMA Joined ==
    ASSUME NEW S, NEW T, NEW x \in Seq(S), NEW y \in Seq(T)
    PROVE  /\ x \o y \in Seq(S \cup T) /\ Len(x \o y) = Len(x) + Len(y)
           /\ \A i \in 1..Len(x) : (x \o y)[i] = x[i]
           /\ \A i \in 1..Len(y) : (x \o y)[Len(x) + i] = y[i]
  <1>1. x \in Seq(S \cup T) /\ y \in Seq(S \cup T)
    BY SeqWider
  <1> QED
    BY <1>1

\* Two batches that take nothing make one that takes nothing.
LEMMA MakersJoined == ASSUME NEW x, NEW y, Makers(x), Makers(y) PROVE Makers(x \o y)
  <1>1. PICK S : x \in Seq(S) /\ \A a \in S : Maker(a)
    BY DEF Makers
  <1>2. PICK T : y \in Seq(T) /\ \A a \in T : Maker(a)
    BY DEF Makers
  <1>3. x \o y \in Seq(S \cup T)
    BY <1>1, <1>2, Joined
  <1> QED
    BY <1>1, <1>2, <1>3 DEF Makers

\* A concatenation is a sequence.
LEMMA SeqJoined == ASSUME NEW x, NEW y, IsSeq(x), IsSeq(y) PROVE IsSeq(x \o y)
  <1>1. PICK S : x \in Seq(S)
    BY DEF IsSeq
  <1>2. PICK T : y \in Seq(T)
    BY DEF IsSeq
  <1>3. x \o y \in Seq(S \cup T)
    BY <1>1, <1>2, Joined
  <1> QED
    BY <1>3 DEF IsSeq

\* A sequence over makers takes nothing.
LEMMA MakersOf == ASSUME NEW S, NEW x \in Seq(S), \A a \in S : Maker(a) PROVE Makers(x)
  BY DEF Makers

\* An empty answer takes nothing,
LEMMA NoActions == Makers(<< >>)
  <1> DEFINE S == {}
  <1>1. << >> \in Seq(S) /\ \A a \in S : Maker(a)
    OBVIOUS
  <1> HIDE DEF S
  <1> QED
    BY <1>1, MakersOf

\* nor does one order that rests.
LEMMA OneMaker == ASSUME NEW a, Maker(a) PROVE Makers(<<a>>)
  <1> DEFINE S == {a}
  <1>1. <<a>> \in Seq(S) /\ \A b \in S : Maker(b)
    OBVIOUS
  <1> HIDE DEF S
  <1> QED
    BY <1>1, MakersOf

\* What Market's constructors make.
LEMMA Posts ==
    /\ \A side, px, sz : Maker(Post(side, px, sz))
    /\ \A id, side, px, sz : Maker(Requote(id, side, px, sz))
    /\ \A id : Maker(Cancel(id))
    /\ Maker(CancelAll)
  BY DEF Maker, Post, Order, Requote, Cancel, CancelAll

\* Of each element of a sequence.
LEMMA MakersEach ==
    ASSUME NEW x
    PROVE  Makers(x) <=> IsSeq(x) /\ \A i \in 1..Len(x) : Maker(x[i])
  <1>1. ASSUME Makers(x) PROVE IsSeq(x) /\ \A i \in 1..Len(x) : Maker(x[i])
    <2>1. PICK S : x \in Seq(S) /\ \A a \in S : Maker(a)
      BY <1>1 DEF Makers
    <2> QED
      BY <2>1 DEF IsSeq
  <1>2. ASSUME IsSeq(x), \A i \in 1..Len(x) : Maker(x[i]) PROVE Makers(x)
    <2>1. PICK S : x \in Seq(S)
      BY <1>2 DEF IsSeq
    <2> DEFINE T == {x[i] : i \in 1..Len(x)}
    <2>2. x \in Seq(T) /\ \A a \in T : Maker(a)
      BY <1>2, <2>1
    <2> HIDE DEF T
    <2> QED
      BY <2>2, MakersOf
  <1> QED
    BY <1>1, <1>2

\* One taker order after orders that rest,
LEMMA TakerLast ==
    ASSUME NEW x, NEW a, Makers(x), a.op = "quote", a.tif = "ioc"
    PROVE  OneTaker(x \o <<a>>)
  <1>1. PICK S : x \in Seq(S) /\ \A b \in S : Maker(b)
    BY DEF Makers
  <1> DEFINE T == {a}
             y == <<a>>
  <1>2. y \in Seq(T) /\ Len(y) = 1 /\ y[1] = a
    OBVIOUS
  <1> HIDE DEF T, y
  <1>3. /\ x \o y \in Seq(S \cup T) /\ Len(x \o y) = Len(x) + 1
        /\ \A i \in 1..Len(x) : (x \o y)[i] = x[i]
        /\ (x \o y)[Len(x) + 1] = a
    BY <1>1, <1>2, Joined
  <1> DEFINE z == x \o y
  <1> HIDE DEF z
  <1>4. Len(x) + 1 \in 1..Len(z) /\ \A j \in 1..Len(z) : j # Len(x) + 1 => Maker(z[j])
    BY <1>1, <1>3 DEF z
  <1>5. OneTaker(z)
    BY <1>3, <1>4 DEF z, OneTaker, IsSeq
  <1> QED
    BY <1>5 DEF z, y

\* or before them, is the only one.
LEMMA TakerThenMakers ==
    ASSUME NEW x, NEW y, OneTaker(x), Makers(y)
    PROVE  OneTaker(x \o y)
  <1>1. PICK S : x \in Seq(S)
    BY DEF OneTaker, IsSeq
  <1>2. PICK T : y \in Seq(T) /\ \A b \in T : Maker(b)
    BY DEF Makers
  <1>3. /\ x \o y \in Seq(S \cup T) /\ Len(x \o y) = Len(x) + Len(y)
        /\ \A i \in 1..Len(x) : (x \o y)[i] = x[i]
        /\ \A i \in 1..Len(y) : (x \o y)[Len(x) + i] = y[i]
    BY <1>1, <1>2, Joined
  <1> DEFINE z == x \o y
  <1> HIDE DEF z
  <1>4. PICK i \in 1..Len(x) : /\ x[i].op = "quote" /\ x[i].tif = "ioc"
                               /\ \A j \in 1..Len(x) : j # i => Maker(x[j])
    BY DEF OneTaker
  <1>5. i \in 1..Len(z) /\ z[i].op = "quote" /\ z[i].tif = "ioc"
    BY <1>1, <1>2, <1>3, <1>4 DEF z
  <1>6. ASSUME NEW j \in 1..Len(z), j # i PROVE Maker(z[j])
    <2>1. CASE j \in 1..Len(x)
      BY <1>3, <1>4, <1>6, <2>1 DEF z
    <2>2. CASE j \notin 1..Len(x)
      <3>1. j - Len(x) \in 1..Len(y) /\ j = Len(x) + (j - Len(x))
        BY <1>1, <1>2, <1>3, <2>2 DEF z
      <3>2. z[j] = y[j - Len(x)]
        BY <1>3, <3>1 DEF z
      <3> QED
        BY <1>2, <3>1, <3>2
    <2> QED
      BY <2>1, <2>2
  <1>7. IsSeq(z)
    BY <1>3 DEF z, IsSeq
  <1>8. OneTaker(z)
    BY <1>5, <1>6, <1>7 DEF OneTaker
  <1> QED
    BY <1>8 DEF z

\* The rest of a sequence may follow one that is empty.
LEMMA NothingFirst == ASSUME NEW y, IsSeq(y) PROVE << >> \o y = y /\ y \o << >> = y
  <1>1. PICK S : y \in Seq(S)
    BY DEF IsSeq
  <1> QED
    BY <1>1

\* Induction, on a set of numbers.
LEMMA Induct ==
    ASSUME NEW T, 0 \in T, \A n \in Nat : n \in T => n + 1 \in T
    PROVE  Nat \subseteq T
  <1> DEFINE Less == {ss \in Nat \X Nat : ss[1] < ss[2]}
             U == Nat \ T
  <1>1. IsWellFoundedOn(Less, Nat)
    BY NatLessThanWellFounded DEF OpToRel
  <1>2. \A x, y \in Nat : <<y, x>> \in Less <=> y < x
    OBVIOUS
  <1>3. U # {} => \E x \in U : \A y \in U : <<y, x>> \notin Less
    <2> HIDE DEF Less
    <2>1. U \subseteq Nat
      OBVIOUS
    <2> QED
      BY <1>1, <2>1, WFMin
  <1> HIDE DEF Less
  <1>4. ASSUME NEW x \in U, \A y \in U : <<y, x>> \notin Less PROVE FALSE
    <2>1. x \in Nat /\ x # 0
      OBVIOUS
    <2>2. x - 1 \in Nat /\ x - 1 < x /\ (x - 1) + 1 = x
      BY <2>1
    <2>3. x - 1 \in T
      BY <1>2, <1>4, <2>1, <2>2
    <2> QED
      BY <2>2, <2>3
  <1> QED
    BY <1>3, <1>4

\* The sequences of F joined up to each index.
Joins(f, F, k) == f = [i \in 1..k |-> IF i = 1 THEN F[i] ELSE f[i - 1] \o F[i]]

\* The concatenation of a sequence of sequences exists as a function,
LEMMA JoinsExist ==
    ASSUME NEW S, NEW n \in Nat, NEW F \in [1..n -> Seq(S)]
    PROVE  \E f \in [1..n -> Seq(S)] : Joins(f, F, n)
  <1> DEFINE T == {k \in Nat : k <= n => \E f \in [1..k -> Seq(S)] : Joins(f, F, k)}
  <1>1. 0 \in T
    <2> DEFINE z == [i \in 1..0 |-> << >>]
    <2>1. z \in [1..0 -> Seq(S)] /\ Joins(z, F, 0)
      BY DEF Joins
    <2> HIDE DEF z
    <2> QED
      BY <2>1
  <1>2. ASSUME NEW k \in Nat, k \in T PROVE k + 1 \in T
    <2> SUFFICES ASSUME k + 1 <= n PROVE \E f \in [1..k + 1 -> Seq(S)] : Joins(f, F, k + 1)
      OBVIOUS
    <2>1. PICK f \in [1..k -> Seq(S)] : Joins(f, F, k)
      BY <1>2
    <2> DEFINE w == IF k = 0 THEN F[1] ELSE f[k] \o F[k + 1]
               g == [i \in 1..k + 1 |-> IF i = k + 1 THEN w ELSE f[i]]
    <2>2. F[1] \in Seq(S) /\ F[k + 1] \in Seq(S)
      OBVIOUS
    <2>3. w \in Seq(S)
      BY <2>1, <2>2
    <2>4. g \in [1..k + 1 -> Seq(S)]
      BY <2>3
    <2>5. ASSUME NEW i \in 1..k + 1 PROVE g[i] = IF i = 1 THEN F[i] ELSE g[i - 1] \o F[i]
      <3>1. CASE i = k + 1
        <4>1. g[i] = w /\ (k # 0 => g[k] = f[k])
          BY <3>1
        <4> HIDE DEF g
        <4> QED
          BY <3>1, <4>1
      <3>2. CASE i # k + 1
        <4>1. i \in 1..k /\ g[i] = f[i] /\ (i # 1 => i - 1 \in 1..k /\ g[i - 1] = f[i - 1])
          BY <3>2
        <4>2. f[i] = IF i = 1 THEN F[i] ELSE f[i - 1] \o F[i]
          BY <2>1, <4>1 DEF Joins
        <4> HIDE DEF g
        <4> QED
          BY <4>1, <4>2
      <3> QED
        BY <3>1, <3>2
    <2>6. g = [i \in 1..k + 1 |-> g[i]]
      OBVIOUS
    <2> HIDE DEF g
    <2>7. Joins(g, F, k + 1)
      BY <2>5, <2>6 DEF Joins
    <2> QED
      BY <2>4, <2>7
  <1>3. Nat \subseteq T
    <2> HIDE DEF T
    <2> QED
      BY <1>1, <1>2, Induct
  <1> QED
    BY <1>3

\* Sequences of a set, one after the other.
LEMMA Flattened ==
    ASSUME NEW S, NEW n \in Nat, NEW F \in [1..n -> Seq(S)]
    PROVE  FlattenSeq(F) \in Seq(S)
  <1>1. F \in Seq(Seq(S)) /\ Len(F) = n
    OBVIOUS
  <1>2. CASE n = 0
    <2>1. FlattenSeq(F) = F
      BY <1>1, <1>2 DEF FlattenSeq
    <2>2. F = << >>
      BY <1>1, <1>2
    <2> QED
      BY <2>1, <2>2
  <1>3. CASE n # 0
    <2> DEFINE h == CHOOSE f : Joins(f, F, n)
    <2>1. PICK f \in [1..n -> Seq(S)] : Joins(f, F, n)
      BY JoinsExist
    <2>2. Joins(h, F, n)
      BY <2>1
    <2>3. FlattenSeq(F) = h[n]
      BY <1>1, <1>3 DEF FlattenSeq, Joins
    <2> HIDE DEF h
    <2> DEFINE T == {k \in Nat : k + 1 \in 1..n => h[k + 1] \in Seq(S)}
    <2>4. 0 \in T
      <3>1. 1 \in 1..n /\ h[1] = F[1]
        BY <1>3, <2>2 DEF Joins
      <3> QED
        BY <3>1
    <2>5. ASSUME NEW k \in Nat, k \in T PROVE k + 1 \in T
      <3> SUFFICES ASSUME k + 2 \in 1..n PROVE h[k + 2] \in Seq(S)
        OBVIOUS
      <3>1. h[k + 2] = h[k + 1] \o F[k + 2]
        <4>1. k + 2 # 1 /\ (k + 2) - 1 = k + 1
          OBVIOUS
        <4>2. h[k + 2] = IF k + 2 = 1 THEN F[k + 2] ELSE h[(k + 2) - 1] \o F[k + 2]
          BY <2>2 DEF Joins
        <4> QED
          BY <4>1, <4>2
      <3>2. h[k + 1] \in Seq(S) /\ F[k + 2] \in Seq(S)
        BY <2>5
      <3> QED
        BY <3>1, <3>2
    <2>6. Nat \subseteq T
      <3> HIDE DEF T
      <3> QED
        BY <2>4, <2>5, Induct
    <2>7. n - 1 \in Nat /\ (n - 1) + 1 = n
      BY <1>3
    <2>8. n - 1 \in T
      BY <2>6, <2>7
    <2>9. h[n] \in Seq(S)
      BY <1>3, <2>7, <2>8
    <2> QED
      BY <2>3, <2>9
  <1> QED
    BY <1>2, <1>3

\* The rungs of a ladder are joined.
LEMMA MakersFlattened ==
    ASSUME NEW n \in Nat, NEW F, DOMAIN F = 1..n, F = [i \in 1..n |-> F[i]],
           \A i \in 1..n : Makers(F[i])
    PROVE  Makers(FlattenSeq(F))
  <1> DEFINE S == {a \in UNION {{F[i][j] : j \in 1..Len(F[i])} : i \in 1..n} : Maker(a)}
  <1>1. ASSUME NEW i \in 1..n PROVE F[i] \in Seq(S)
    <2>1. IsSeq(F[i]) /\ \A j \in 1..Len(F[i]) : Maker(F[i][j])
      BY MakersEach
    <2>2. PICK T : F[i] \in Seq(T)
      BY <2>1 DEF IsSeq
    <2>3. \A j \in 1..Len(F[i]) : F[i][j] \in S
      BY <2>1
    <2> HIDE DEF S
    <2> QED
      BY <2>2, <2>3
  <1>2. \A a \in S : Maker(a)
    OBVIOUS
  <1> HIDE DEF S
  <1>3. F \in [1..n -> Seq(S)]
    BY <1>1
  <1>4. FlattenSeq(F) \in Seq(S)
    BY <1>3, Flattened
  <1> QED
    BY <1>2, <1>4, MakersOf

\* What FlattenSeq makes of sequences is one.
LEMMA SeqFlattened ==
    ASSUME NEW n \in Nat, NEW F, DOMAIN F = 1..n, F = [i \in 1..n |-> F[i]],
           \A i \in 1..n : IsSeq(F[i])
    PROVE  IsSeq(FlattenSeq(F))
  <1> DEFINE S == UNION {{F[i][j] : j \in 1..Len(F[i])} : i \in 1..n}
  <1>1. ASSUME NEW i \in 1..n PROVE F[i] \in Seq(S)
    <2>1. PICK T : F[i] \in Seq(T)
      BY DEF IsSeq
    <2>2. \A j \in 1..Len(F[i]) : F[i][j] \in S
      OBVIOUS
    <2> HIDE DEF S
    <2> QED
      BY <2>1, <2>2
  <1> HIDE DEF S
  <1>2. F \in [1..n -> Seq(S)]
    BY <1>1
  <1>3. FlattenSeq(F) \in Seq(S)
    BY <1>2, Flattened
  <1> QED
    BY <1>3 DEF IsSeq

\* A finite set has an enumeration.
LEMMA Enumerated == ASSUME NEW S, IsFiniteSet(S) PROVE SetToSeq(S) \in Seq(S)
  <1> DEFINE n == Cardinality(S)
  <1>1. n \in Nat /\ ExistsBijection(1..n, S)
    BY FS_CardinalityType
  <1>2. PICK f \in [1..n -> S] : \A a, b \in 1..n : f[a] = f[b] => a = b
    BY <1>1 DEF ExistsBijection, Bijection, Injection, IsInjective
  <1>3. IsInjective(f)
    BY <1>2 DEF IsInjective
  <1>4. SetToSeq(S) \in [1..n -> S]
    BY <1>2, <1>3 DEF SetToSeq
  <1> HIDE DEF n
  <1> QED
    BY <1>1, <1>4

\* The image of a finite set is finite.
LEMMA ImageFinite ==
    ASSUME NEW S, IsFiniteSet(S), NEW f
    PROVE  IsFiniteSet({f[i] : i \in S})
  <1> DEFINE T == {f[i] : i \in S}
             g == [i \in S |-> f[i]]
  <1>1. g \in Surjection(S, T)
    BY DEF Surjection
  <1> QED
    BY <1>1, FS_Surjection

\* The cancels of a finite set of orders take nothing.
LEMMA CancelsThose == ASSUME NEW S, IsFiniteSet(S) PROVE Makers(CancelThose(S))
  <1> DEFINE f == [o \in S |-> Cancel(o.id)]
             T == {Cancel(o.id) : o \in S}
  <1>1. IsFiniteSet({f[o] : o \in S})
    <2> HIDE DEF f
    <2> QED
      BY ImageFinite
  <1>2. T = {f[o] : o \in S}
    OBVIOUS
  <1>3. \A a \in T : Maker(a)
    BY Posts
  <1>4. SetToSeq(T) \in Seq(T)
    <2> HIDE DEF T, f
    <2> QED
      BY <1>1, <1>2, Enumerated
  <1> HIDE DEF f
  <1>5. CancelThose(S) = SetToSeq(T)
    BY DEF CancelThose
  <1> HIDE DEF T
  <1> QED
    BY <1>3, <1>4, <1>5, MakersOf

\* A sort moves actions and makes none.
LEMMA Sorted == ASSUME NEW acts, Makers(acts), NEW p PROVE Makers(NearestFirst(acts, p))
  <1> DEFINE N == 1..Len(acts)
             Dist(k) == Abs(acts[k].px - p)
             InOrder(f) == \A i, j \in N : i < j => \/ Dist(f[i]) < Dist(f[j])
                                                    \/ Dist(f[i]) = Dist(f[j]) /\ f[i] < f[j]
             all == Arrangements(Len(acts))
             best == CHOOSE f \in all : (\E g \in all : InOrder(g)) => InOrder(f)
             id == [i \in N |-> i]
  <1>1. PICK S : acts \in Seq(S) /\ \A a \in S : Maker(a)
    BY DEF Makers
  <1>2. all \subseteq [N -> N] /\ id \in all
    BY DEF Arrangements, IsInjective
  <1>3. best \in all
    <2> HIDE DEF all, InOrder
    <2>1. \E f \in all : (\E g \in all : InOrder(g)) => InOrder(f)
      BY <1>2
    <2> QED
      BY <2>1
  <1>4. NearestFirst(acts, p) = [i \in N |-> acts[best[i]]]
    BY DEF NearestFirst
  <1> HIDE DEF best, all
  <1>5. best \in [N -> N]
    BY <1>2, <1>3
  <1>6. [i \in N |-> acts[best[i]]] \in Seq(S)
    <2>1. \A i \in N : acts[best[i]] \in S
      BY <1>1, <1>5
    <2> QED
      BY <1>1, <2>1
  <1> QED
    BY <1>1, <1>4, <1>6, MakersOf

\* A number set has a least element.
LEMMA Least == ASSUME NEW T \in SUBSET Nat, T # {} PROVE Min(T) \in T
  <1> DEFINE Less == {ss \in Nat \X Nat : ss[1] < ss[2]}
  <1>1. IsWellFoundedOn(Less, Nat)
    BY NatLessThanWellFounded DEF OpToRel
  <1>2. \E x \in T : \A y \in T : <<y, x>> \notin Less
    BY <1>1, WFMin
  <1>3. \A x, y \in Nat : <<y, x>> \in Less <=> y < x
    OBVIOUS
  <1> HIDE DEF Less
  <1>4. PICK x \in T : \A y \in T : <<y, x>> \notin Less
    BY <1>2
  <1>5. ASSUME NEW y \in T PROVE x <= y
    <2>1. x \in Nat /\ y \in Nat /\ ~(y < x)
      BY <1>3, <1>4
    <2> QED
      BY <2>1
  <1> QED
    BY <1>5 DEF Min

\* A sequence without the first of its elements that equal e is one.
LEMMA FirstRemoved == ASSUME NEW x, NEW e, IsSeq(x) PROVE IsSeq(RemoveFirst(x, e))
  <1>1. PICK S : x \in Seq(S)
    BY DEF IsSeq
  <1>2. CASE \E i \in 1..Len(x) : x[i] = e
    <2> DEFINE I == {i \in 1..Len(x) : x[i] = e}
               k == Min(I)
               before == SubSeq(x, 1, k - 1)
               after == SubSeq(x, k + 1, Len(x))
    <2>1. k \in 1..Len(x)
      <3>1. I \in SUBSET Nat /\ I # {} /\ I \subseteq 1..Len(x)
        BY <1>1, <1>2
      <3> HIDE DEF I
      <3> QED
        BY <3>1, Least
    <2>2. RemoveFirst(x, e) = before \o after
      BY <1>2 DEF RemoveFirst, RemoveAt, SelectInSeq
    <2> HIDE DEF k
    <2>3. before \in Seq(S) /\ after \in Seq(S)
      BY <1>1, <2>1
    <2>4. before \o after \in Seq(S)
      BY <2>3
    <2> QED
      BY <2>2, <2>4 DEF IsSeq
  <1>3. CASE ~\E i \in 1..Len(x) : x[i] = e
    BY <1>3 DEF RemoveFirst
  <1> QED
    BY <1>2, <1>3

-----------------------------------------------------------------------------
(* A batch at the venue.                                                     *)

\* The taker orders on their way, F, with what the batch has done to the rest.
Holds(b, F) ==
    \E r, q : b = [rest |-> r, flight |-> F, refused |-> q] /\ IsFiniteSet(r) /\ IsSeq(q)

\* A taker order sent now, for the bag held now.
Fresh(o) == o.at = now /\ o.late = FALSE /\ {"at", "late"} \subseteq DOMAIN o

\* One action leaves the taker orders alone,
LEMMA MakerApplied ==
    ASSUME NEW b, NEW F, Holds(b, F), NEW a, Maker(a), NEW fault
    PROVE  Holds(ApplyOne(b, a, fault), F)
  <1> DEFINE gone == [b EXCEPT !.rest = {o \in @ : o.id # a.id}]
  <1>1. Holds(gone, F)
    <2>1. PICK r, q : b = [rest |-> r, flight |-> F, refused |-> q] /\ IsFiniteSet(r) /\ IsSeq(q)
      BY DEF Holds
    <2> DEFINE s == {o \in r : o.id # a.id}
    <2>2. gone = [rest |-> s, flight |-> F, refused |-> q]
      <3>1. {o \in b.rest : o.id # a.id} = s
        BY <2>1
      <3> HIDE DEF s
      <3>2. gone = [b EXCEPT !.rest = s]
        BY <3>1
      <3> QED
        BY <2>1, <3>2
    <2>3. IsFiniteSet(s)
      <3>1. s \in SUBSET r
        OBVIOUS
      <3> HIDE DEF s
      <3> QED
        BY <2>1, <3>1, FS_Subset
    <2> HIDE DEF s, gone
    <2> QED
      BY <2>1, <2>2, <2>3 DEF Holds
  <1>2. ASSUME NEW x, Holds(x, F), NEW id PROVE Holds(PlaceOrder(x, a, id, fault), F)
    <2> DEFINE o == [id |-> id, side |-> a.side, px |-> a.px, sz |-> a.sz]
               no == [q |-> a, why |-> Refusal(a, fault)]
    <2>1. a.tif # "ioc"
      BY DEF Maker
    <2>2. PICK r, q : x = [rest |-> r, flight |-> F, refused |-> q] /\ IsFiniteSet(r) /\ IsSeq(q)
      BY <1>2 DEF Holds
    <2>3. CASE Refusal(a, fault) = "none"
      <3>1. PlaceOrder(x, a, id, fault) = [x EXCEPT !.rest = @ \cup {o}]
        BY <2>1, <2>3 DEF PlaceOrder
      <3>2. IsFiniteSet(r \cup {o})
        BY <2>2, FS_AddElement
      <3> HIDE DEF o
      <3>3. PlaceOrder(x, a, id, fault) = [rest |-> r \cup {o}, flight |-> F, refused |-> q]
        BY <2>2, <3>1
      <3> QED
        BY <2>2, <3>2, <3>3 DEF Holds
    <2>4. CASE Refusal(a, fault) # "none"
      <3>1. PlaceOrder(x, a, id, fault) = [x EXCEPT !.refused = Append(@, no)]
        BY <2>1, <2>4 DEF PlaceOrder
      <3> HIDE DEF no
      <3>2. IsSeq(Append(q, no))
        <4>1. PICK S : q \in Seq(S)
          BY <2>2 DEF IsSeq
        <4>2. q \in Seq(S \cup {no})
          BY <4>1, SeqWider
        <4>3. Append(q, no) \in Seq(S \cup {no})
          BY <4>2
        <4> QED
          BY <4>3 DEF IsSeq
      <3>3. PlaceOrder(x, a, id, fault) = [rest |-> r, flight |-> F, refused |-> Append(q, no)]
        BY <2>2, <3>1
      <3> QED
        BY <2>2, <3>2, <3>3 DEF Holds
    <2> QED
      BY <2>3, <2>4
  <1>3. CASE a.op = "quote"
    BY <1>2, <1>3 DEF ApplyOne
  <1>4. CASE a.op = "requote"
    BY <1>1, <1>2, <1>4 DEF ApplyOne
  <1>5. CASE a.op = "cancel"
    BY <1>1, <1>5 DEF ApplyOne
  <1>6. CASE a.op = "cancelAll"
    <2>1. PICK r, q : b = [rest |-> r, flight |-> F, refused |-> q] /\ IsFiniteSet(r) /\ IsSeq(q)
      BY DEF Holds
    <2>2. ApplyOne(b, a, fault) = [rest |-> {}, flight |-> F, refused |-> q]
      BY <1>6, <2>1 DEF ApplyOne
    <2> QED
      BY <2>1, <2>2, FS_EmptySet DEF Holds
  <1> QED
    BY <1>3, <1>4, <1>5, <1>6 DEF Maker

\* and one taker order joins them.
LEMMA TakerApplied ==
    ASSUME NEW b, NEW F, Holds(b, F), NEW a, a.op = "quote", a.tif = "ioc", NEW fault
    PROVE  \E x : Fresh(x) /\ Holds(ApplyOne(b, a, fault), F \cup {x})
  <1> DEFINE x == [id |-> FreeId(b), side |-> a.side, px |-> a.px, sz |-> a.sz, at |-> now, late |-> FALSE]
  <1>1. ApplyOne(b, a, fault) = [b EXCEPT !.flight = @ \cup {x}]
    BY DEF ApplyOne, PlaceOrder
  <1>2. Fresh(x)
    BY DEF Fresh
  <1> HIDE DEF x
  <1>3. PICK r, q : b = [rest |-> r, flight |-> F, refused |-> q] /\ IsFiniteSet(r) /\ IsSeq(q)
    BY DEF Holds
  <1>4. ApplyOne(b, a, fault) = [rest |-> r, flight |-> F \cup {x}, refused |-> q]
    BY <1>1, <1>3
  <1>5. Holds(ApplyOne(b, a, fault), F \cup {x})
    BY <1>3, <1>4 DEF Holds
  <1> QED
    BY <1>2, <1>5

\* The batch after each of the first n actions.
Applies(f, b, acts, fault, n) ==
    f = [k \in 0..n |-> IF k = 0 THEN b ELSE ApplyOne(f[k - 1], acts[k], fault)]

\* The intermediate batches exist as a function of the actions applied,
LEMMA AppliesExist ==
    ASSUME NEW b, NEW acts, NEW fault, NEW n \in Nat
    PROVE  \E f : Applies(f, b, acts, fault, n)
  <1> DEFINE T == {k \in Nat : \E f : Applies(f, b, acts, fault, k)}
  <1>1. 0 \in T
    <2> DEFINE z == [k \in 0..0 |-> b]
    <2>1. Applies(z, b, acts, fault, 0)
      BY DEF Applies
    <2> HIDE DEF z
    <2> QED
      BY <2>1
  <1>2. ASSUME NEW k \in Nat, k \in T PROVE k + 1 \in T
    <2>1. PICK f : Applies(f, b, acts, fault, k)
      BY <1>2
    <2> DEFINE w == ApplyOne(f[k], acts[k + 1], fault)
               g == [i \in 0..k + 1 |-> IF i = k + 1 THEN w ELSE f[i]]
    <2>2. ASSUME NEW i \in 0..k + 1
          PROVE  g[i] = IF i = 0 THEN b ELSE ApplyOne(g[i - 1], acts[i], fault)
      <3>1. CASE i = k + 1
        <4>1. g[i] = w /\ g[k] = f[k] /\ i # 0 /\ i - 1 = k
          BY <3>1
        <4> HIDE DEF g
        <4> QED
          BY <3>1, <4>1
      <3>2. CASE i # k + 1
        <4>1. i \in 0..k /\ g[i] = f[i] /\ (i # 0 => i - 1 \in 0..k /\ g[i - 1] = f[i - 1])
          BY <3>2
        <4>2. f[i] = IF i = 0 THEN b ELSE ApplyOne(f[i - 1], acts[i], fault)
          BY <2>1, <4>1 DEF Applies
        <4> HIDE DEF g
        <4> QED
          BY <4>1, <4>2
      <3> QED
        BY <3>1, <3>2
    <2>3. g = [i \in 0..k + 1 |-> g[i]]
      OBVIOUS
    <2> HIDE DEF g
    <2>4. Applies(g, b, acts, fault, k + 1)
      BY <2>2, <2>3 DEF Applies
    <2> QED
      BY <2>4
  <1>3. Nat \subseteq T
    <2> HIDE DEF T
    <2> QED
      BY <1>1, <1>2, Induct
  <1> QED
    BY <1>3

\* h is the batch after each of the actions, the last of it what Apply gives.
Stages(h, b, acts, fault) ==
    /\ Apply(b, acts, fault) = h[Len(acts)]
    /\ h[0] = b
    /\ \A k \in 1..Len(acts) : h[k] = ApplyOne(h[k - 1], acts[k], fault)

\* which Apply's recursion therefore runs through.
LEMMA ApplySteps ==
    ASSUME NEW b, NEW acts, NEW fault, Len(acts) \in Nat
    PROVE  \E h : Stages(h, b, acts, fault)
  <1> DEFINE h == CHOOSE f : Applies(f, b, acts, fault, Len(acts))
  <1>1. Applies(h, b, acts, fault, Len(acts))
    BY AppliesExist
  <1>2. Apply(b, acts, fault) = h[Len(acts)]
    BY DEF Apply, Applies
  <1> HIDE DEF h
  <1>3. h[0] = b
    BY <1>1 DEF Applies
  <1>4. \A k \in 1..Len(acts) : h[k] = ApplyOne(h[k - 1], acts[k], fault)
    BY <1>1 DEF Applies
  <1>5. Stages(h, b, acts, fault)
    BY <1>2, <1>3, <1>4 DEF Stages
  <1> QED
    BY <1>5

\* A batch without taker orders leaves those on their way alone,
LEMMA MakersApplied ==
    ASSUME NEW b, NEW F, Holds(b, F), NEW acts, Makers(acts), NEW fault
    PROVE  Holds(Apply(b, acts, fault), F)
  <1>1. IsSeq(acts) /\ Len(acts) \in Nat /\ \A i \in 1..Len(acts) : Maker(acts[i])
    BY MakersEach DEF IsSeq
  <1>0. PICK h : Stages(h, b, acts, fault)
    BY <1>1, ApplySteps
  <1>2. /\ Apply(b, acts, fault) = h[Len(acts)]
        /\ h[0] = b
        /\ \A k \in 1..Len(acts) : h[k] = ApplyOne(h[k - 1], acts[k], fault)
    BY <1>0 DEF Stages
  <1> DEFINE T == {k \in Nat : k <= Len(acts) => Holds(h[k], F)}
  <1>3. 0 \in T
    BY <1>2
  <1>4. ASSUME NEW k \in Nat, k \in T PROVE k + 1 \in T
    <2> SUFFICES ASSUME k + 1 <= Len(acts) PROVE Holds(h[k + 1], F)
      OBVIOUS
    <2>1. k + 1 \in 1..Len(acts) /\ (k + 1) - 1 = k
      BY <1>1
    <2>2. h[k + 1] = ApplyOne(h[k], acts[k + 1], fault)
      BY <1>2, <2>1
    <2>3. Holds(h[k], F)
      BY <1>1, <1>4
    <2> QED
      BY <1>1, <2>1, <2>2, <2>3, MakerApplied
  <1>5. Nat \subseteq T
    <2> HIDE DEF T
    <2> QED
      BY <1>3, <1>4, Induct
  <1> QED
    BY <1>1, <1>2, <1>5

\* and a batch with one adds it to them.
OneMore(y, F) == \E x : Fresh(x) /\ Holds(y, F \cup {x})

\* A batch with one taker order sends at most that one.
LEMMA OneApplied ==
    ASSUME NEW b, NEW F, Holds(b, F), NEW acts, OneTaker(acts), NEW fault
    PROVE  OneMore(Apply(b, acts, fault), F)
  <1>1. Len(acts) \in Nat
    BY DEF OneTaker, IsSeq
  <1>0. PICK h : Stages(h, b, acts, fault)
    BY <1>1, ApplySteps
  <1>2. /\ Apply(b, acts, fault) = h[Len(acts)]
        /\ h[0] = b
        /\ \A k \in 1..Len(acts) : h[k] = ApplyOne(h[k - 1], acts[k], fault)
    BY <1>0 DEF Stages
  <1> DEFINE n == Len(acts)
  <1>9. n \in Nat /\ n = Len(acts)
    BY <1>1
  <1>3. PICK i \in 1..n : /\ acts[i].op = "quote" /\ acts[i].tif = "ioc"
                          /\ \A j \in 1..n : j # i => Maker(acts[j])
    BY DEF OneTaker
  <1>10. /\ n = Len(acts) /\ Apply(b, acts, fault) = h[n] /\ h[0] = b
         /\ \A k \in 1..n : h[k] = ApplyOne(h[k - 1], acts[k], fault)
    BY <1>2
  <1> HIDE DEF n
  <1> DEFINE Good(k) == k <= n => (k < i => Holds(h[k], F)) /\ (k >= i => OneMore(h[k], F))
             T == {k \in Nat : Good(k)}
  <1>4. Good(0)
    BY <1>9, <1>10, <1>3
  <1>5. ASSUME NEW k \in Nat, Good(k) PROVE Good(k + 1)
    <2> SUFFICES ASSUME k + 1 <= n
                 PROVE  (k + 1 < i => Holds(h[k + 1], F)) /\ (k + 1 >= i => OneMore(h[k + 1], F))
      OBVIOUS
    <2>1. k + 1 \in 1..n /\ (k + 1) - 1 = k /\ k <= n
      BY <1>9
    <2>2. h[k + 1] = ApplyOne(h[k], acts[k + 1], fault)
      BY <1>10, <2>1
    <2>3. (k < i => Holds(h[k], F)) /\ (k >= i => OneMore(h[k], F))
      BY <1>5, <2>1
    <2>4. CASE k + 1 < i
      <3>1. Holds(h[k], F) /\ Maker(acts[k + 1])
        <4>1. k < i /\ k + 1 # i
          BY <2>4, <1>3, <1>9
        <4> QED
          BY <1>3, <2>1, <2>3, <4>1
      <3>2. Holds(h[k + 1], F)
        BY <2>2, <3>1, MakerApplied
      <3> QED
        BY <1>3, <2>4, <3>2
    <2>5. CASE k + 1 = i
      <3>1. k < i
        BY <2>5, <1>3
      <3>2. Holds(h[k], F) /\ acts[k + 1].op = "quote" /\ acts[k + 1].tif = "ioc"
        BY <1>3, <2>3, <2>5, <3>1
      <3>3. \E x : Fresh(x) /\ Holds(ApplyOne(h[k], acts[k + 1], fault), F \cup {x})
        BY <3>2, TakerApplied
      <3>4. OneMore(h[k + 1], F)
        BY <2>2, <3>3 DEF OneMore
      <3> QED
        BY <1>3, <2>5, <3>4
    <2>6. CASE k + 1 > i
      <3>1. OneMore(h[k], F) /\ Maker(acts[k + 1])
        <4>1. k >= i /\ k + 1 # i
          BY <2>6, <1>3, <1>9
        <4> QED
          BY <1>3, <2>1, <2>3, <4>1
      <3>2. PICK x : Fresh(x) /\ Holds(h[k], F \cup {x})
        BY <3>1 DEF OneMore
      <3>3. Holds(ApplyOne(h[k], acts[k + 1], fault), F \cup {x})
        BY <3>1, <3>2, MakerApplied
      <3>4. OneMore(h[k + 1], F)
        BY <2>2, <3>2, <3>3 DEF OneMore
      <3> QED
        BY <1>3, <2>6, <3>4
    <2> QED
      BY <1>9, <1>3, <2>4, <2>5, <2>6
  <1> HIDE DEF Good
  <1>6. Nat \subseteq T
    <2>1. 0 \in T /\ \A k \in Nat : k \in T => k + 1 \in T
      BY <1>4, <1>5
    <2> HIDE DEF T
    <2> QED
      BY <2>1, Induct
  <1>7. Good(n)
    BY <1>9, <1>6
  <1>8. OneMore(h[n], F)
    BY <1>9, <1>3, <1>7 DEF Good
  <1> QED
    BY <1>10, <1>8

-----------------------------------------------------------------------------
(* What a strategy's answer does: its latch is the field f of its state.     *)

\* It sends no taker order and leaves the latch,
Mild(s, f, out) == Makers(out.acts) /\ DOMAIN out.st = DOMAIN s /\ out.st[f] = s[f]

\* or clears it while the bot is flat,
Rearms(s, f, c, out) == Makers(out.acts) /\ c.pos = 0 /\ f \in DOMAIN out.st /\ out.st[f] = Never

\* or sends one for the bag it holds, and sets the latch, which nothing held.
Closes(s, f, c, retry, out) ==
    /\ OneTaker(out.acts) /\ c.pos # 0 /\ f \in DOMAIN out.st /\ out.st[f] = c.now
    /\ s[f] = Never \/ ~(c.now - s[f] < retry)

\* An answer is one of the three.
Answers(s, f, c, retry, out) ==
    Mild(s, f, out) \/ Rearms(s, f, c, out) \/ Closes(s, f, c, retry, out)

\* No answer is mild.
LEMMA Silent == ASSUME NEW s, NEW f PROVE Mild(s, f, Out(s, << >>))
  BY NoActions DEF Mild, Out

\* Cancel everything and close.
LEMMA CancelAndTake ==
    ASSUME NEW a, a.op = "quote", a.tif = "ioc"
    PROVE  OneTaker(<<CancelAll, a>>)
  <1> DEFINE S == {CancelAll, a}
             x == <<CancelAll, a>>
  <1>1. x \in Seq(S) /\ Len(x) = 2 /\ x[1] = CancelAll /\ x[2] = a
    OBVIOUS
  <1>2. Maker(CancelAll)
    BY Posts
  <1> HIDE DEF x
  <1>3. 2 \in 1..Len(x) /\ \A j \in 1..Len(x) : j # 2 => j = 1
    BY <1>1
  <1>4. \A j \in 1..Len(x) : j # 2 => Maker(x[j])
    BY <1>1, <1>2, <1>3
  <1>5. OneTaker(x)
    BY <1>1, <1>3, <1>4 DEF OneTaker, IsSeq
  <1> QED
    BY <1>5 DEF x

\* What the closing constructors make is a taker order.
LEMMA Takers ==
    \A side, sz, t, p : /\ TakerAt(side, sz, t).op = "quote" /\ TakerAt(side, sz, t).tif = "ioc"
                        /\ BuildClose(p, t).op = "quote" /\ BuildClose(p, t).tif = "ioc"
  BY DEF TakerAt, BuildClose, Order

\* A conditional batch takes nothing if it takes nothing when it is sent.
LEMMA Whens == ASSUME NEW b, NEW x, b => Makers(x) PROVE Makers(When(b, x))
  BY NoActions DEF When

\* A conditional order that rests,
LEMMA WhenPost ==
    ASSUME NEW b, NEW side, NEW px, NEW sz
    PROVE  Makers(When(b, <<Post(side, px, sz)>>))
  <1>1. Makers(<<Post(side, px, sz)>>)
    BY Posts, OneMaker
  <1> HIDE DEF Post
  <1> QED
    BY <1>1, Whens

\* and what follows a cancel of everything, take nothing.
LEMMA AfterCancelAll == ASSUME NEW x, Makers(x) PROVE Makers(<<CancelAll>> \o x)
  <1>1. Makers(<<CancelAll>>)
    BY Posts, OneMaker
  <1> QED
    BY <1>1, MakersJoined

-----------------------------------------------------------------------------
(* static_grid                                                               *)

\* A level rests.
LEMMA SgLevelPosts ==
    ASSUME NEW s, NEW pos0, NEW side, NEW k
    PROVE  Maker(SgLevel(s, pos0, side, k))
  BY Posts DEF SgLevel

\* The whole grid, and what goes before it, leaves the latch alone.
LEMMA SgBatches ==
    ASSUME NEW s, NEW pos0, NEW front, Makers(front), "closed" \in DOMAIN s
    PROVE  Mild(s, "closed", SgBatch(s, pos0, front))
  <1> DEFINE capped == [side \in Sides |-> AddCapped(pos0, SG.cap, side)]
             F == [k \in 1 .. (SG.levels - 1) - 0 + 1 |->
                     When(~capped["bid"], <<SgLevel(s, pos0, "bid", 0 + k - 1)>>)
                     \o When(~capped["ask"], <<SgLevel(s, pos0, "ask", 0 + k - 1)>>)]
  <1>1. SG.levels \in Nat
    BY LevelsAssumption
  <1>2. 1 .. (SG.levels - 1) - 0 + 1 = 1 .. SG.levels
    BY <1>1
  <1>3. \A k \in 1 .. SG.levels : Makers(F[k])
    <2> TAKE k \in 1 .. SG.levels
    <2>1. \A side : Makers(<<SgLevel(s, pos0, side, 0 + k - 1)>>)
      BY SgLevelPosts, OneMaker
    <2>2. \A b, side : Makers(When(b, <<SgLevel(s, pos0, side, 0 + k - 1)>>))
      BY <2>1, Whens
    <2>3. F[k] = When(~capped["bid"], <<SgLevel(s, pos0, "bid", 0 + k - 1)>>)
                 \o When(~capped["ask"], <<SgLevel(s, pos0, "ask", 0 + k - 1)>>)
      BY <1>2
    <2> HIDE DEF F, capped
    <2> QED
      BY <2>2, <2>3, MakersJoined
  <1>4. Makers(FlattenSeq(F))
    <2>1. DOMAIN F = 1 .. SG.levels /\ F = [k \in 1 .. SG.levels |-> F[k]]
      BY <1>2
    <2> HIDE DEF F
    <2> QED
      BY <1>1, <1>3, <2>1, MakersFlattened
  <1>5. SgBatch(s, pos0, front) = Out([s EXCEPT !.capped = capped], front \o NearestFirst(FlattenSeq(F), SgMid(s)))
    BY DEF SgBatch, Ladder
  <1> HIDE DEF F
  <1>6. Makers(front \o NearestFirst(FlattenSeq(F), SgMid(s)))
    BY <1>4, Sorted, MakersJoined
  <1> HIDE DEF capped
  <1> QED
    BY <1>5, <1>6 DEF Mild, Out

\* Its close is the one answer that takes, behind the latch.
LEMMA SgCloseAnswers ==
    ASSUME NEW s, NEW c, "closed" \in DOMAIN s, c.pos # 0
    PROVE  Answers(s, "closed", c, SG.retry, SgClose(s, c))
  <1>1. CASE s.closed # Never /\ c.now - s.closed < SG.retry
    BY <1>1, Silent DEF SgClose, Answers
  <1>2. CASE s.closed = Never \/ ~(c.now - s.closed < SG.retry)
    <2> DEFINE acts == <<CancelAll, BuildClose(c.pos, s)>>
               s1 == [s EXCEPT !.closed = c.now]
    <2>1. OneTaker(acts)
      BY Takers, CancelAndTake
    <2>2. SgClose(s, c) = Out(s1, acts)
      BY <1>2 DEF SgClose
    <2>3. "closed" \in DOMAIN s1 /\ s1.closed = c.now
      OBVIOUS
    <2> HIDE DEF acts, s1
    <2> QED
      BY <1>2, <2>1, <2>2, <2>3 DEF Closes, Answers, Out
  <1> QED
    BY <1>1, <1>2

\* What a handler does to the state before it answers.
Prepared(s, s1, f, c) ==
    /\ f \in DOMAIN s /\ DOMAIN s1 = DOMAIN s
    /\ s1[f] = s[f] \/ (c.pos = 0 /\ s1[f] = Never)

\* What comes before the answer may be folded into it.
LEMMA FromPrepared ==
    ASSUME NEW s, NEW s1, NEW f, NEW c, NEW retry, NEW out,
           Prepared(s, s1, f, c), Answers(s1, f, c, retry, out)
    PROVE  Answers(s, f, c, retry, out)
  BY DEF Prepared, Answers, Mild, Rearms, Closes

\* A mild answer is an answer.
LEMMA MildAnswers ==
    ASSUME NEW s, NEW f, NEW c, NEW retry, NEW out, Mild(s, f, out)
    PROVE  Answers(s, f, c, retry, out)
  BY DEF Answers

\* Dropping the latch while flat prepares an answer.
LEMMA SgArms ==
    ASSUME NEW s, NEW c, "closed" \in DOMAIN s
    PROVE  Prepared(s, SgArmed(s, c), "closed", c)
  BY DEF Prepared, SgArmed

\* Preparations compose.
LEMMA PreparedTwice ==
    ASSUME NEW s, NEW s1, NEW s2, NEW f, NEW c, Prepared(s, s1, f, c), Prepared(s1, s2, f, c)
    PROVE  Prepared(s, s2, f, c)
  BY DEF Prepared

\* A change that leaves the latch alone may be folded into a mild answer.
LEMMA MildFrom ==
    ASSUME NEW s, NEW s1, NEW f, NEW out, DOMAIN s1 = DOMAIN s, s1[f] = s[f], Mild(s1, f, out)
    PROVE  Mild(s, f, out)
  BY DEF Mild

\* On a book: the gate, the ladder's refills, the recenter.
LEMMA StaticGridBookAnswers ==
    ASSUME NEW s0, NEW c, "closed" \in DOMAIN s0
    PROVE  Answers(s0, "closed", c, SG.retry, StaticGridBook(s0, c))
  <1> DEFINE s1 == [s0 EXCEPT !.bid = c.bid, !.ask = c.ask, !.samples = Observe(@, c.now, Mid(c))]
             s == SgArmed(s1, c)
             placed == [s EXCEPT !.placed = TRUE]
             refilled == [s EXCEPT !.refill = [side \in Sides |-> c.now]]
             cooling == \E side \in Sides : SgCooling(s, side, c.now)
             out == StaticGridBook(s0, c)
  <1>1. Prepared(s0, s1, "closed", c) /\ "closed" \in DOMAIN s1
    BY DEF Prepared
  <1>2. out = CASE SgCloses(s, c) -> SgClose(s, c)
                [] ~SgCloses(s, c) /\ ~s.placed -> SgBatch(placed, c.pos, << >>)
                [] ~SgCloses(s, c) /\ s.placed /\ (~SgBroken(s, c) \/ cooling) -> Out(s, << >>)
                [] OTHER -> SgRebuild(refilled, c.pos)
    BY DEF StaticGridBook
  <1> SUFFICES Answers(s0, "closed", c, SG.retry, out)
    OBVIOUS
  <1> HIDE DEF s1, out
  <1>3. Prepared(s1, s, "closed", c) /\ "closed" \in DOMAIN s
    BY <1>1, SgArms DEF Prepared
  <1>4. Prepared(s0, s, "closed", c)
    BY <1>1, <1>3, PreparedTwice
  <1> HIDE DEF s
  <1> SUFFICES Answers(s, "closed", c, SG.retry, out)
    BY <1>4, FromPrepared
  <1>5. CASE SgCloses(s, c)
    <2>1. out = SgClose(s, c) /\ c.pos # 0
      BY <1>2, <1>5 DEF SgCloses, RiskCloses
    <2> QED
      BY <2>1, <1>3, SgCloseAnswers
  <1>6. CASE ~SgCloses(s, c)
    <2>1. Mild(s, "closed", SgBatch(placed, c.pos, << >>))
      <3>1. DOMAIN placed = DOMAIN s /\ placed.closed = s.closed
        BY <1>3
      <3> HIDE DEF placed
      <3> QED
        BY <1>3, <3>1, SgBatches, MildFrom, NoActions
    <2>2. Mild(s, "closed", SgRebuild(refilled, c.pos))
      <3>1. DOMAIN refilled = DOMAIN s /\ refilled.closed = s.closed
        BY <1>3
      <3>2. Makers(<<CancelAll>>)
        BY Posts, OneMaker
      <3> HIDE DEF refilled
      <3> QED
        BY <1>3, <3>1, <3>2, SgBatches, MildFrom DEF SgRebuild
    <2>3. \/ out = SgBatch(placed, c.pos, << >>)
          \/ out = Out(s, << >>)
          \/ out = SgRebuild(refilled, c.pos)
      BY <1>2, <1>6
    <2> HIDE DEF placed, refilled
    <2> QED
      BY <2>1, <2>2, <2>3, Silent, MildAnswers
  <1> QED
    BY <1>5, <1>6

\* On a fill: the opposite rung, or the close.
LEMMA StaticGridFillAnswers ==
    ASSUME NEW s0, NEW c, "closed" \in DOMAIN s0
    PROVE  Answers(s0, "closed", c, SG.retry, StaticGridFill(s0, c))
  <1> DEFINE s1 == [s0 EXCEPT !.fills = SelectSeq(Append(@, c.now), LAMBDA t : t >= c.now - SG.fillWindow),
                              !.refill = [side \in Sides |-> Never]]
             s == SgArmed(s1, c)
             out == StaticGridFill(s0, c)
  <1>1. Prepared(s0, s1, "closed", c) /\ "closed" \in DOMAIN s1
    BY DEF Prepared
  <1>2. out = IF ~c.fill.full \/ s1.bid = None THEN Out(s1, << >>)
              ELSE IF SgCloses(s, c) THEN SgClose(s, c)
              ELSE IF SgLast(c) \/ SgBroken(s, c) THEN SgRebuild(s, c.pos)
              ELSE Out(s, << >>)
    BY DEF StaticGridFill
  <1> SUFFICES Answers(s0, "closed", c, SG.retry, out)
    OBVIOUS
  <1> HIDE DEF s1, out
  <1>3. Prepared(s1, s, "closed", c) /\ "closed" \in DOMAIN s
    BY <1>1, SgArms DEF Prepared
  <1>4. Prepared(s0, s, "closed", c)
    BY <1>1, <1>3, PreparedTwice
  <1> HIDE DEF s
  <1>5. CASE out = Out(s1, << >>)
    BY <1>1, <1>5, Silent, MildAnswers, FromPrepared
  <1>6. CASE out = Out(s, << >>)
    BY <1>4, <1>6, Silent, MildAnswers, FromPrepared
  <1>7. CASE out = SgRebuild(s, c.pos)
    <2>1. Makers(<<CancelAll>>)
      BY Posts, OneMaker
    <2>2. Mild(s, "closed", out)
      BY <1>3, <1>7, <2>1, SgBatches DEF SgRebuild
    <2> QED
      BY <1>4, <2>2, MildAnswers, FromPrepared
  <1>8. CASE out = SgClose(s, c) /\ SgCloses(s, c)
    <2>1. c.pos # 0
      BY <1>8 DEF SgCloses, RiskCloses
    <2>2. Answers(s, "closed", c, SG.retry, out)
      BY <1>3, <1>8, <2>1, SgCloseAnswers
    <2> QED
      BY <1>4, <2>2, FromPrepared
  <1> QED
    BY <1>2, <1>5, <1>6, <1>7, <1>8

\* On any event.
LEMMA StaticGridAnswers ==
    ASSUME NEW s0, NEW c, "closed" \in DOMAIN s0
    PROVE  Answers(s0, "closed", c, SG.retry, StaticGrid(s0, c))
  <1> DEFINE s == [s0 EXCEPT !.start = IF @ = Never THEN c.now ELSE @, !.now = c.now]
  <1>1. Prepared(s0, s, "closed", c) /\ "closed" \in DOMAIN s
    BY DEF Prepared
  <1>2. \/ StaticGrid(s0, c) = StaticGridBook(s, c)
        \/ StaticGrid(s0, c) = StaticGridFill(s, c)
        \/ StaticGrid(s0, c) = Out(s, << >>)
    BY DEF StaticGrid
  <1> HIDE DEF s
  <1> QED
    BY <1>1, <1>2, StaticGridBookAnswers, StaticGridFillAnswers, Silent, MildAnswers, FromPrepared

\* A refusal is answered by orders that rest.
LEMMA StaticGridRejects ==
    ASSUME NEW s0, NEW c, "closed" \in DOMAIN s0, NEW q, NEW why
    PROVE  Mild(s0, "closed", StaticGridRejected(s0, c, q, why))
  <1> DEFINE s == [s0 EXCEPT !.bid = c.bid, !.ask = c.ask]
             s1 == [s EXCEPT !.refill[q.side] = c.now]
             acts == <<SgLevel(s, c.pos, q.side, 0)>>
  <1>1. \/ StaticGridRejected(s0, c, q, why) = Out(s0, << >>)
        \/ StaticGridRejected(s0, c, q, why) = Out(s, << >>)
        \/ StaticGridRejected(s0, c, q, why) = Out(s1, acts)
    BY DEF StaticGridRejected
  <1>2. DOMAIN s = DOMAIN s0 /\ s.closed = s0.closed /\ DOMAIN s1 = DOMAIN s0 /\ s1.closed = s0.closed
    OBVIOUS
  <1>3. Makers(acts)
    BY SgLevelPosts, OneMaker
  <1> HIDE DEF s, s1, acts
  <1>4. Mild(s1, "closed", Out(s1, acts))
    BY <1>3 DEF Mild, Out
  <1> QED
    BY <1>1, <1>2, <1>4, Silent, MildFrom

-----------------------------------------------------------------------------
(* layered_grid: its mirror stays a sequence.                                *)

\* One element is a sequence.
LEMMA OneSeq == ASSUME NEW x PROVE IsSeq(<<x>>)
  <1> DEFINE S == {x}
  <1>1. <<x>> \in Seq(S)
    OBVIOUS
  <1> HIDE DEF S
  <1> QED
    BY <1>1 DEF IsSeq

\* An element of Seq(S) is a sequence.
LEMMA SeqFrom == ASSUME NEW S, NEW x \in Seq(S) PROVE IsSeq(x)
  BY DEF IsSeq

\* So is nothing,
LEMMA NothingSeq == IsSeq(<< >>)
  <1> DEFINE S == {}
  <1>1. << >> \in Seq(S)
    OBVIOUS
  <1> HIDE DEF S
  <1> QED
    BY <1>1, SeqFrom

\* and a conditional one.
LEMMA SeqWhen == ASSUME NEW b, NEW x, IsSeq(x) PROVE IsSeq(When(b, x))
  <1>1. CASE b
    BY <1>1 DEF When
  <1>2. CASE ~b
    <2>1. When(b, x) = << >>
      BY <1>2 DEF When
    <2> QED
      BY <2>1, NothingSeq, Zenon
  <1> QED
    BY <1>1, <1>2

\* Posting rungs takes nothing.
LEMMA RungsPosted == ASSUME NEW rs, IsSeq(rs) PROVE Makers(PostRungs(rs))
  <1>1. PICK R : rs \in Seq(R)
    BY DEF IsSeq
  <1> DEFINE S == {PostRung(rs[i]) : i \in 1..Len(rs)}
  <1>2. PostRungs(rs) \in Seq(S)
    BY <1>1 DEF PostRungs
  <1>3. \A a \in S : Maker(a)
    BY Posts DEF PostRung
  <1> HIDE DEF S
  <1> QED
    BY <1>2, <1>3, MakersOf

\* A ladder is a sequence of rungs.
LEMMA LgLadderSeq == ASSUME NEW c, NEW open PROVE IsSeq(LgLadder(c, open))
  <1> DEFINE side(i) == <<"bid", "ask">>[i]
             G(k) == [i \in 1..2 |-> When(k <= LgRoom(c, open, side(i)),
                                          <<Rung(side(i), Away(side(i), Mid(c), LG.inner * k))>>)]
             F == [k \in 1..LG.levels - 1 + 1 |-> FlattenSeq(G(1 + k - 1))]
  <1>1. LG.levels \in Nat
    BY LevelsAssumption
  <1>2. \A k : IsSeq(FlattenSeq(G(k)))
    <2> TAKE k
    <2> DEFINE g == G(k)
    <2>1. DOMAIN g = 1..2 /\ g = [i \in 1..2 |-> g[i]]
      OBVIOUS
    <2>2. \A i \in 1..2 : IsSeq(g[i])
      BY OneSeq, SeqWhen
    <2> HIDE DEF g
    <2>3. IsSeq(FlattenSeq(g))
      BY <2>1, <2>2, SeqFlattened
    <2> QED
      BY <2>3 DEF g
  <1>3. /\ DOMAIN F = 1..LG.levels /\ F = [k \in 1..LG.levels |-> F[k]]
        /\ \A k \in 1..LG.levels : F[k] = FlattenSeq(G(1 + k - 1))
    BY <1>1
  <1>4. LgLadder(c, open) = FlattenSeq(F)
    BY DEF LgLadder, Ladder
  <1> HIDE DEF F, G
  <1>5. \A k \in 1..LG.levels : IsSeq(F[k])
    BY <1>2, <1>3
  <1> QED
    BY <1>1, <1>3, <1>4, <1>5, SeqFlattened

\* The mirror without the rung that filled is a sequence.
LEMMA LgFilledSeq ==
    ASSUME NEW orders, NEW f, IsSeq(orders)
    PROVE  IsSeq(LgFilled(orders, f))
  BY FirstRemoved DEF LgFilled

\* What its answers need of the state, and keep.
Layers(s) == {"closed", "orders"} \subseteq DOMAIN s /\ IsSeq(s.orders)

\* On a fill it places the counter rung.
LEMMA LayeredFillMild ==
    ASSUME NEW s, NEW c, NEW f, Layers(s), IsFiniteSet(c.open)
    PROVE  Mild(s, "closed", LayeredFill(s, c, f)) /\ Layers(LayeredFill(s, c, f).st)
  <1> DEFINE back == Opp(f.side)
             rem == LgFilled(s.orders, f)
             there == RungsOn(rem, back)
             drop == Rung(back, Outermost(back, Prices(there)))
             tp == Rung(back, Away(back, f.px, LG.inner))
             same == Prices(RungsOn(rem, f.side))
             edge == IF same = {} THEN f.px ELSE Outermost(f.side, same)
             more == <<tp>> \o When(~AddCapped(c.pos, LG.cap, f.side),
                                    <<Rung(f.side, Away(f.side, edge, LG.inner))>>)
             grown == rem \o more
             kept == IF there = {} THEN grown ELSE RemoveFirst(grown, drop)
             shown == {o \in c.open : o.side = drop.side /\ o.px = drop.px}
             s1 == [s EXCEPT !.orders = kept]
             pick == {CHOOSE o \in shown : TRUE}
             out == LayeredFill(s, c, f)
  <1>1. IsSeq(rem)
    BY LgFilledSeq DEF Layers
  <1>2. IsSeq(more)
    BY OneSeq, SeqWhen, SeqJoined
  <1>3. out = Out(s1, CASE there = {} -> PostRungs(more)
                        [] there # {} /\ shown # {} -> PostRungs(more) \o CancelThose(pick)
                        [] OTHER -> <<CancelAll>> \o PostRungs(kept))
    BY DEF LayeredFill
  <1> SUFFICES Mild(s, "closed", out) /\ Layers(out.st)
    OBVIOUS
  <1> HIDE DEF rem, more, out
  <1>4. IsSeq(grown)
    BY <1>1, <1>2, SeqJoined
  <1> HIDE DEF grown, there, drop
  <1>5. IsSeq(kept)
    BY <1>4, FirstRemoved
  <1> HIDE DEF kept
  <1>6. DOMAIN s1 = DOMAIN s /\ s1.closed = s.closed /\ s1.orders = kept
    BY DEF Layers
  <1>7. Layers(s1)
    BY <1>5, <1>6 DEF Layers
  <1>8. IsFiniteSet(pick)
    BY FS_Singleton
  <1> HIDE DEF s1, pick, shown
  <1>9. /\ Makers(PostRungs(more)) /\ Makers(PostRungs(more) \o CancelThose(pick))
        /\ Makers(<<CancelAll>> \o PostRungs(kept))
    BY <1>2, <1>5, <1>8, RungsPosted, CancelsThose, MakersJoined, AfterCancelAll
  <1>10. \E acts : Makers(acts) /\ out = Out(s1, acts)
    BY <1>3, <1>9
  <1> QED
    BY <1>6, <1>7, <1>10 DEF Mild, Out

\* On a book: the risk gate, then the ladder.
LEMMA LayeredBookAnswers ==
    ASSUME NEW s0, NEW c, Layers(s0), IsFiniteSet(c.open)
    PROVE  Answers(s0, "closed", c, LG.retry, LayeredBook(s0, c)) /\ Layers(LayeredBook(s0, c).st)
  <1> DEFINE s == IF LgRiskOn /\ c.pos = 0 THEN [s0 EXCEPT !.closed = Never] ELSE s0
             fresh == LgLadder(c, c.open)
             cooling == s.closed # Never /\ c.now - s.closed < LG.retry
             s1 == [placed |-> FALSE, orders |-> << >>, closed |-> c.now]
             s2 == [s EXCEPT !.placed = TRUE, !.orders = fresh]
             out == LayeredBook(s0, c)
  <1>1. Prepared(s0, s, "closed", c) /\ Layers(s)
    BY DEF Prepared, Layers
  <1>2. \/ out = Out(s, << >>)
        \/ /\ out = Out(s1, <<CancelAll, BuildClose(c.pos, c)>>) /\ c.pos # 0
           /\ s.closed = Never \/ ~(c.now - s.closed < LG.retry)
        \/ out = Out(s2, PostRungs(fresh) \o CancelThose(c.open))
    BY DEF LayeredBook, RiskCloses
  <1> SUFFICES Answers(s0, "closed", c, LG.retry, out) /\ Layers(out.st)
    OBVIOUS
  <1> HIDE DEF s, out
  <1> SUFFICES Answers(s, "closed", c, LG.retry, out) /\ Layers(out.st)
    BY <1>1, FromPrepared
  <1>3. CASE out = Out(s, << >>)
    BY <1>1, <1>3, Silent, MildAnswers DEF Out
  <1>4. CASE /\ out = Out(s1, <<CancelAll, BuildClose(c.pos, c)>>) /\ c.pos # 0
             /\ s.closed = Never \/ ~(c.now - s.closed < LG.retry)
    <2>1. OneTaker(<<CancelAll, BuildClose(c.pos, c)>>)
      BY Takers, CancelAndTake
    <2>2. DOMAIN s1 = {"placed", "orders", "closed"} /\ s1.closed = c.now /\ s1.orders = << >>
      OBVIOUS
    <2>6. IsSeq(s1.orders)
      BY <2>2, NothingSeq, Zenon
    <2>5. Layers(s1)
      BY <2>2, <2>6 DEF Layers
    <2> DEFINE a == <<CancelAll, BuildClose(c.pos, c)>>
    <2> HIDE DEF s1, a
    <2>3. out.st = s1 /\ out.acts = a
      BY <1>4 DEF Out, a
    <2> QED
      BY <1>4, <2>1, <2>2, <2>3, <2>5 DEF Closes, Answers, Layers, a
  <1>5. CASE out = Out(s2, PostRungs(fresh) \o CancelThose(c.open))
    <2>1. IsSeq(fresh)
      BY LgLadderSeq
    <2> HIDE DEF fresh
    <2>2. DOMAIN s2 = DOMAIN s /\ s2.closed = s.closed /\ s2.orders = fresh
      BY <1>1 DEF Layers
    <2>3. Layers(s2)
      BY <1>1, <2>1, <2>2 DEF Layers
    <2>4. Makers(PostRungs(fresh) \o CancelThose(c.open))
      BY <2>1, RungsPosted, CancelsThose, MakersJoined
    <2> HIDE DEF s2
    <2>5. Mild(s, "closed", out)
      BY <1>5, <2>2, <2>4 DEF Mild, Out
    <2> QED
      BY <1>5, <2>3, <2>5, MildAnswers DEF Out
  <1> QED
    BY <1>2, <1>3, <1>4, <1>5

\* On any event.
LEMMA LayeredGridAnswers ==
    ASSUME NEW s, NEW c, Layers(s), IsFiniteSet(c.open)
    PROVE  Answers(s, "closed", c, LG.retry, LayeredGrid(s, c)) /\ Layers(LayeredGrid(s, c).st)
  <1>1. \/ LayeredGrid(s, c) = LayeredBook(s, c)
        \/ LayeredGrid(s, c) = LayeredFill(s, c, c.fill)
        \/ LayeredGrid(s, c) = Out(s, << >>)
    BY DEF LayeredGrid
  <1>2. Answers(s, "closed", c, LG.retry, Out(s, << >>)) /\ Layers(Out(s, << >>).st)
    BY Silent, MildAnswers DEF Out
  <1> QED
    BY <1>1, <1>2, LayeredBookAnswers, LayeredFillMild, MildAnswers

\* A margin refusal rebuilds the ladder.
LEMMA LayeredGridRejects ==
    ASSUME NEW s, NEW c, Layers(s), NEW q, NEW why
    PROVE  Mild(s, "closed", LayeredRejected(s, c, q, why)) /\ Layers(LayeredRejected(s, c, q, why).st)
  <1> DEFINE fresh == LgLadder(c, {})
             s1 == [s EXCEPT !.placed = TRUE, !.orders = fresh]
             acts == <<CancelAll>> \o PostRungs(fresh)
  <1>1. \/ LayeredRejected(s, c, q, why) = Out(s, << >>)
        \/ LayeredRejected(s, c, q, why) = Out(s1, acts)
    BY DEF LayeredRejected
  <1>2. IsSeq(fresh)
    BY LgLadderSeq
  <1> HIDE DEF fresh
  <1>3. DOMAIN s1 = DOMAIN s /\ s1.closed = s.closed /\ s1.orders = fresh
    BY DEF Layers
  <1>4. Layers(s1)
    BY <1>2, <1>3 DEF Layers
  <1>5. Makers(acts)
    BY <1>2, RungsPosted, AfterCancelAll
  <1> HIDE DEF s1, acts
  <1>6. Mild(s, "closed", Out(s1, acts)) /\ Layers(Out(s1, acts).st)
    BY <1>3, <1>4, <1>5 DEF Mild, Out
  <1>7. Mild(s, "closed", Out(s, << >>)) /\ Layers(Out(s, << >>).st)
    BY Silent DEF Out
  <1> QED
    BY <1>1, <1>6, <1>7

-----------------------------------------------------------------------------
(* hawk                                                                      *)

\* The ladder rests.
LEMMA HawkLadderMakers == ASSUME NEW t, NEW p PROVE Makers(HawkLadder(t, p))
  <1> DEFINE mid == (t.bid + t.ask) \div 2
             Level(side, k) ==
               When(~HawkCapped(p, side),
                    <<Post(side, Away(side, t[side], IF k = 0 THEN -Tick ELSE HK.inner + HK.step * k), Lot)>>)
             F == [k \in 1 .. (HK.levels - 1) - 0 + 1 |-> Level("bid", 0 + k - 1) \o Level("ask", 0 + k - 1)]
  <1>1. HK.levels \in Nat
    BY LevelsAssumption
  <1>2. 1 .. (HK.levels - 1) - 0 + 1 = 1 .. HK.levels
    BY <1>1
  <1>3. \A side, k : Makers(Level(side, k))
    BY WhenPost
  <1>4. HawkLadder(t, p) = <<CancelAll>> \o NearestFirst(FlattenSeq(F), mid)
    BY DEF HawkLadder, Ladder
  <1> HIDE DEF Level
  <1>5. \A k \in 1 .. HK.levels : Makers(F[k])
    BY <1>2, <1>3, MakersJoined
  <1>6. DOMAIN F = 1 .. HK.levels /\ F = [k \in 1 .. HK.levels |-> F[k]]
    BY <1>2
  <1> HIDE DEF F, mid
  <1> QED
    BY <1>1, <1>4, <1>5, <1>6, MakersFlattened, Sorted, AfterCancelAll

\* A cancel of everything and an order that rests take nothing.
LEMMA CancelAndPost == ASSUME NEW a, Maker(a) PROVE Makers(<<CancelAll, a>>)
  <1> DEFINE S == {CancelAll, a}
             x == <<CancelAll, a>>
  <1>1. x \in Seq(S)
    OBVIOUS
  <1>2. \A b \in S : Maker(b)
    BY Posts
  <1> HIDE DEF x, S
  <1>3. Makers(x)
    BY <1>1, <1>2, MakersOf
  <1> QED
    BY <1>3 DEF x

\* A maker's answer on a state that keeps the latch.
LEMMA MildOut ==
    ASSUME NEW s, NEW s1, NEW f, NEW acts, DOMAIN s1 = DOMAIN s, s1[f] = s[f], Makers(acts)
    PROVE  Mild(s, f, Out(s1, acts))
  BY DEF Mild, Out

\* The single exit of a narrow spread,
LEMMA HawkColdMild ==
    ASSUME NEW s, NEW c, "closed" \in DOMAIN s
    PROVE  Mild(s, "closed", HawkCold(s, c))
  <1> DEFINE side == Closing(c.pos)
             goal == Away(side, c.avg, IF HK.target > 0 THEN HK.target ELSE HK.minSpread)
             best == Away(side, s[side], -Tick)
             px == IF Farther(side, best, goal) THEN goal ELSE best
             s1 == [s EXCEPT !.cold = None]
             s2 == [s EXCEPT !.cold = px]
             order == Post(side, px, Lot)
  <1>1. \/ HawkCold(s, c) = Out(s1, <<CancelAll>>)
        \/ HawkCold(s, c) = Out(s, << >>)
        \/ HawkCold(s, c) = Out(s2, <<CancelAll, order>>)
    BY DEF HawkCold
  <1> HIDE DEF px
  <1>2. DOMAIN s1 = DOMAIN s /\ s1.closed = s.closed /\ DOMAIN s2 = DOMAIN s /\ s2.closed = s.closed
    OBVIOUS
  <1>3. Maker(order)
    BY Posts
  <1> HIDE DEF s1, s2, order
  <1>4. Makers(<<CancelAll>>) /\ Makers(<<CancelAll, order>>)
    BY <1>3, Posts, OneMaker, CancelAndPost
  <1> QED
    BY <1>1, <1>2, <1>4, MildOut, Silent

\* and the choice between it and the ladder, leave the latch alone.
LEMMA HawkQuotesMild ==
    ASSUME NEW s, NEW c, "closed" \in DOMAIN s
    PROVE  Mild(s, "closed", HawkQuotes(s, c))
  <1> DEFINE hot == [s EXCEPT !.cold = None, !.placed = TRUE]
             s1 == [hot EXCEPT !.ladder = [bid |-> s.bid, ask |-> s.ask, ts |-> c.now]]
             s2 == [s EXCEPT !.placed = FALSE, !.ladder = NoLadder]
  <1>1. \/ HawkQuotes(s, c) = Out(s1, HawkLadder(s, c.pos))
        \/ HawkQuotes(s, c) = Out(hot, << >>)
        \/ HawkQuotes(s, c) = HawkCold(s2, c)
    BY DEF HawkQuotes
  <1>2. /\ DOMAIN s1 = DOMAIN s /\ s1.closed = s.closed
        /\ DOMAIN hot = DOMAIN s /\ hot.closed = s.closed
        /\ DOMAIN s2 = DOMAIN s /\ s2.closed = s.closed
    OBVIOUS
  <1> HIDE DEF s1, s2, hot
  <1>3. Mild(s, "closed", Out(s1, HawkLadder(s, c.pos))) /\ Mild(s, "closed", Out(hot, << >>))
    BY <1>2, HawkLadderMakers, MildOut, NoActions
  <1>4. Mild(s2, "closed", HawkCold(s2, c))
    BY <1>2, HawkColdMild
  <1>5. Mild(s, "closed", HawkCold(s2, c))
    BY <1>2, <1>4, MildFrom
  <1> QED
    BY <1>1, <1>3, <1>5

\* On any event.
LEMMA HawkAnswers ==
    ASSUME NEW s0, NEW c, "closed" \in DOMAIN s0
    PROVE  Answers(s0, "closed", c, HK.retry, Hawk(s0, c))
  <1> DEFINE seen == IF c.k = "book" /\ TwoSided(c) THEN [s0 EXCEPT !.bid = c.bid, !.ask = c.ask] ELSE s0
             s == IF c.pos = 0 THEN [seen EXCEPT !.closed = Never] ELSE seen
             s1 == [s EXCEPT !.closed = c.now, !.placed = FALSE, !.ladder = NoLadder, !.cold = None]
             close == BuildClose(c.pos, s)
             closes == (HK.tp > 0 \/ HK.sl > 0)
                       /\ RiskCloses(c.pos, c.avg, (s.bid + s.ask) \div 2, HK.tp, HK.sl, 0)
             cooling == s.closed # Never /\ c.now - s.closed < HK.retry
             out == Hawk(s0, c)
  <1>0. out = CASE c.k = "trade" \/ (c.k = "book" /\ ~TwoSided(c)) \/ s.bid = None -> Out(s0, << >>)
                [] closes /\ s.closed # Never /\ c.now - s.closed < HK.retry -> Out(s, << >>)
                [] closes /\ ~(s.closed # Never /\ c.now - s.closed < HK.retry) -> Out(s1, <<CancelAll, close>>)
                [] OTHER -> HawkQuotes(s, c)
    BY DEF Hawk
  <1>9. closes => c.pos # 0
    BY DEF RiskCloses
  <1>1. Prepared(s0, seen, "closed", c)
    BY DEF Prepared
  <1>2. \/ out = Out(s0, << >>)
        \/ out = Out(s, << >>)
        \/ /\ out = Out(s1, <<CancelAll, close>>) /\ c.pos # 0
           /\ s.closed = Never \/ ~(c.now - s.closed < HK.retry)
        \/ out = HawkQuotes(s, c)
    <2> HIDE DEF out, closes, s, s1, close
    <2> QED
      BY <1>0, <1>9
  <1> SUFFICES Answers(s0, "closed", c, HK.retry, out)
    OBVIOUS
  <1> HIDE DEF seen, out, closes, cooling
  <1>3. Prepared(seen, s, "closed", c) /\ "closed" \in DOMAIN s
    BY <1>1 DEF Prepared
  <1>4. Prepared(s0, s, "closed", c)
    BY <1>1, <1>3, PreparedTwice
  <1> HIDE DEF s
  <1>5. CASE out = Out(s0, << >>)
    BY <1>5, Silent, MildAnswers
  <1>6. CASE out = Out(s, << >>)
    BY <1>4, <1>6, Silent, MildAnswers, FromPrepared
  <1>7. CASE /\ out = Out(s1, <<CancelAll, close>>) /\ c.pos # 0
             /\ s.closed = Never \/ ~(c.now - s.closed < HK.retry)
    <2> DEFINE acts == <<CancelAll, close>>
    <2>1. OneTaker(acts)
      BY Takers, CancelAndTake
    <2>2. "closed" \in DOMAIN s1 /\ s1.closed = c.now
      BY <1>3
    <2>3. out.st = s1 /\ out.acts = acts
      BY <1>7 DEF Out
    <2> HIDE DEF acts, s1
    <2>4. Closes(s, "closed", c, HK.retry, out)
      BY <1>7, <2>1, <2>2, <2>3 DEF Closes
    <2> QED
      BY <1>4, <2>4, FromPrepared DEF Answers
  <1>8. CASE out = HawkQuotes(s, c)
    BY <1>3, <1>4, <1>8, HawkQuotesMild, MildAnswers, FromPrepared
  <1> QED
    BY <1>2, <1>5, <1>6, <1>7, <1>8

-----------------------------------------------------------------------------
(* keel                                                                      *)

\* A set of makers, in some order, takes nothing.
LEMMA SetOfMakers ==
    ASSUME NEW S, IsFiniteSet(S), \A a \in S : Maker(a) PROVE Makers(SetToSeq(S))
  BY Enumerated, MakersOf

\* A context with a book of integers and finitely many orders.
Quoted(c) == c.bid \in Int /\ c.ask \in Int /\ IsFiniteSet(c.open)

\* The rungs wanted are finitely many,
LEMMA KeelRungsFinite ==
    ASSUME NEW c, Quoted(c), NEW origin \in Int PROVE IsFiniteSet(KeelRungs(c, origin))
  <1> DEFINE kMid == RoundDiv(Mid(c) - origin, KL.step)
             capped == KL.cap > 0 /\ Abs(c.pos) >= KL.cap
             Wanted(side) == /\ ~(KL.trailing /\ ~KeelAdds(c.pos, side))
                             /\ ~(KeelAdds(c.pos, side) /\ c.pos # 0 /\ capped)
             R(side, p) == [side |-> side, px |-> KeelRound(side, p),
                            sz |-> KeelSize(RoundDiv(Abs(p - Mid(c)), KL.step))]
             range == (kMid - KL.levels) .. (kMid + KL.levels)
             band == {origin + k * KL.step : k \in range}
             at == {p \in band : p > 0}
             Band(side) == {p \in at : /\ Farther(side, p, Away(side, Mid(c), KL.inner))
                                       /\ Farther(side, p, Touch(c, Opp(side)))}
             Doubled(side, p) == \E x \in Band(side) : x < p /\ KeelRound(side, x) = KeelRound(side, p)
             out(side) == {x \in Band(side) : ~Doubled(side, x)}
             rungs(side) == IF Wanted(side) THEN {R(side, p) : p \in out(side)} ELSE {}
  <1>1. KeelRungs(c, origin) = UNION {rungs(side) : side \in Sides}
    BY DEF KeelRungs
  <1>2. KL.levels \in Nat /\ KL.step \in Nat /\ KL.step # 0 /\ c.bid \in Int /\ c.ask \in Int
    BY LevelsAssumption DEF Quoted
  <1>3. kMid \in Int
    <2>1. Mid(c) \in Int
      BY <1>2 DEF Mid
    <2> DEFINE n == Mid(c) - origin
    <2>2. n \in Int
      BY <2>1
    <2> HIDE DEF n
    <2>3. 2 * n + KL.step \in Int /\ 2 * KL.step \in Nat /\ 2 * KL.step > 0
      BY <1>2, <2>2
    <2>4. (2 * n + KL.step) \div (2 * KL.step) \in Int
      BY <2>3
    <2> QED
      BY <2>4 DEF RoundDiv, n
  <1>4. IsFiniteSet(range)
    <2> HIDE DEF kMid
    <2> QED
      BY <1>2, <1>3, FS_Interval
  <1>5. IsFiniteSet(at)
    <2> DEFINE f == [k \in range |-> origin + k * KL.step]
    <2>1. band = {f[k] : k \in range}
      OBVIOUS
    <2> HIDE DEF f, range, band
    <2>2. IsFiniteSet(band)
      BY <1>4, <2>1, ImageFinite
    <2>3. at \in SUBSET band
      OBVIOUS
    <2> QED
      BY <2>2, <2>3, FS_Subset
  <1> HIDE DEF at
  <1>6. ASSUME NEW side PROVE IsFiniteSet(rungs(side))
    <2> DEFINE S == out(side)
               f == [p \in S |-> R(side, p)]
    <2>1. S \in SUBSET at
      OBVIOUS
    <2>2. {R(side, p) : p \in S} = {f[p] : p \in S}
      OBVIOUS
    <2> HIDE DEF S, f
    <2>3. IsFiniteSet(S)
      BY <1>5, <2>1, FS_Subset
    <2>4. IsFiniteSet({R(side, p) : p \in S})
      BY <2>2, <2>3, ImageFinite
    <2>5. rungs(side) = {R(side, p) : p \in S} \/ rungs(side) = {}
      BY DEF S
    <2> QED
      BY <2>4, <2>5, FS_EmptySet
  <1> HIDE DEF rungs
  <1>7. UNION {rungs(side) : side \in Sides} = rungs("bid") \cup rungs("ask")
    BY DEF Sides
  <1>8. IsFiniteSet(rungs("bid") \cup rungs("ask"))
    BY <1>6, FS_Union
  <1> QED
    BY <1>1, <1>7, <1>8

\* and so are the orders that reduce;
LEMMA KeelReduceFinite == ASSUME NEW c PROVE IsFiniteSet(KeelReduce(c))
  BY FS_EmptySet, FS_Singleton DEF KeelReduce

\* hence what reconciles them is a batch, and takes nothing.
LEMMA KeelReconcileMakers ==
    ASSUME NEW c, Quoted(c), NEW want, IsFiniteSet(want)
    PROVE  Makers(KeelReconcile(c, want))
  <1> DEFINE On(d) == {o \in c.open : o.side = d.side /\ o.px = d.px}
             met == {d \in want : On(d) # {}}
             First(d) == CHOOSE o \in On(d) : TRUE
             claimed == {First(d) : d \in met}
             off == {x \in met : 5 * Abs(First(x).sz - x.sz) > x.sz}
             resized == {Requote(First(d).id, d.side, d.px, d.sz) : d \in off}
             lack == want \ met
             new == {Post(d.side, d.px, d.sz) : d \in lack}
             stale == {o \in c.open \ claimed : KL.trailing /\ c.pos # 0 /\ o.side = Closing(c.pos)}
             far == (c.open \ claimed) \ stale
             excess == Cardinality(c.open) + Cardinality(new) - KL.maxOpen
             Dist(o) == Abs(o.px - Mid(c))
             trim == {o \in far : Cardinality({x \in far : Dist(x) > Dist(o)}) < excess}
  <1>1. KeelReconcile(c, want) = SetToSeq(resized \cup new) \o CancelThose(stale) \o CancelThose(trim)
    BY DEF KeelReconcile
  <1>2. stale \in SUBSET c.open /\ trim \in SUBSET c.open
    OBVIOUS
  <1>3. IsFiniteSet(off) /\ IsFiniteSet(lack)
    <2>1. off \in SUBSET want /\ lack \in SUBSET want
      OBVIOUS
    <2> HIDE DEF off, lack
    <2> QED
      BY <2>1, FS_Subset
  <1>4. IsFiniteSet(resized)
    <2> DEFINE f == [d \in off |-> Requote(First(d).id, d.side, d.px, d.sz)]
    <2>1. resized = {f[d] : d \in off}
      OBVIOUS
    <2> HIDE DEF f, off, resized
    <2> QED
      BY <1>3, <2>1, ImageFinite
  <1>5. IsFiniteSet(new)
    <2> DEFINE f == [d \in lack |-> Post(d.side, d.px, d.sz)]
    <2>1. new = {f[d] : d \in lack}
      OBVIOUS
    <2> HIDE DEF f, lack, new
    <2> QED
      BY <1>3, <2>1, ImageFinite
  <1>6. \A a \in resized \cup new : Maker(a)
    BY Posts
  <1> HIDE DEF resized, new, stale, trim
  <1>7. IsFiniteSet(resized \cup new)
    BY <1>4, <1>5, FS_Union
  <1>8. Makers(SetToSeq(resized \cup new))
    BY <1>6, <1>7, SetOfMakers
  <1>9. Makers(CancelThose(stale)) /\ Makers(CancelThose(trim))
    BY <1>2, FS_Subset, CancelsThose DEF Quoted
  <1> QED
    BY <1>1, <1>8, <1>9, MakersJoined

\* What its answers need of the state, and keep.
Keels(s) == {"flip", "origin"} \subseteq DOMAIN s /\ s.origin \in Int

\* On any event; its latch is the time of the last flip.
LEMMA KeelAnswers ==
    ASSUME NEW s0, NEW c, Keels(s0), Quoted(c)
    PROVE  Answers(s0, "flip", c, KL.cooldown, Keel(s0, c)) /\ Keels(Keel(s0, c).st)
  <1> DEFINE s == [s0 EXCEPT !.hist = KeelRecord(@, c.now, Mid(c))]
             armed == (KL.sar > 0 \/ KL.window > 0) /\ c.pos # 0
             cooling == s.flip # Never /\ c.now - s.flip < KL.cooldown
             quiet == /\ c.k # "fill" /\ c.open # {} /\ s.mid # None
                      /\ Abs(Mid(c) - s.mid) < KL.step
             origin == IF s.origin = None THEN Mid(c) ELSE s.origin
             flips == armed /\ ~cooling /\ KeelFlips(s, c)
             s1 == [s EXCEPT !.flip = c.now]
             s2 == [s EXCEPT !.mid = Mid(c), !.origin = origin]
             turn == TakerAt(Closing(c.pos), 2 * Abs(c.pos), c)
             acts == KeelReconcile(c, KeelRungs(c, origin) \cup KeelReduce(c))
             out == Keel(s0, c)
  <1>1. \/ out = Out(s0, << >>)
        \/ out = Out(s, << >>)
        \/ out = Out(s1, <<turn>>) /\ flips
        \/ out = Out(s2, acts)
    BY DEF Keel
  <1>2. DOMAIN s = DOMAIN s0 /\ s.flip = s0.flip /\ s.origin = s0.origin /\ Keels(s)
    BY DEF Keels
  <1> SUFFICES Answers(s0, "flip", c, KL.cooldown, out) /\ Keels(out.st)
    OBVIOUS
  <1>3. flips => c.pos # 0 /\ (s.flip = Never \/ ~(c.now - s.flip < KL.cooldown))
    OBVIOUS
  <1>4. origin \in Int
    <2>1. Mid(c) \in Int
      BY DEF Mid, Quoted
    <2> QED
      BY <1>2, <2>1 DEF Keels
  <1> HIDE DEF s, out, flips, origin
  <1>5. CASE out = Out(s0, << >>) \/ out = Out(s, << >>)
    <2>1. Mild(s0, "flip", Out(s0, << >>)) /\ Mild(s0, "flip", Out(s, << >>))
      BY <1>2, Silent, MildOut, NoActions
    <2> QED
      BY <1>2, <1>5, <2>1, MildAnswers DEF Out
  <1>6. CASE out = Out(s1, <<turn>>) /\ flips
    <2>1. OneTaker(<<turn>>)
      <3>1. turn.op = "quote" /\ turn.tif = "ioc"
        BY Takers
      <3> HIDE DEF turn
      <3>2. OneTaker(<< >> \o <<turn>>)
        BY <3>1, NoActions, TakerLast
      <3>3. << >> \o <<turn>> = <<turn>>
        BY OneSeq, NothingFirst
      <3> QED
        BY <3>2, <3>3
    <2>2. DOMAIN s1 = DOMAIN s /\ s1.flip = c.now /\ s1.origin = s.origin
      BY <1>2 DEF Keels
    <2> HIDE DEF s1, turn
    <2>3. out.st = s1 /\ out.acts = <<turn>>
      BY <1>6 DEF Out
    <2>4. Closes(s0, "flip", c, KL.cooldown, out)
      BY <1>2, <1>3, <1>6, <2>1, <2>2, <2>3 DEF Closes, Keels
    <2> QED
      BY <1>2, <2>2, <2>3, <2>4 DEF Answers, Keels
  <1>7. CASE out = Out(s2, acts)
    <2>1. DOMAIN s2 = DOMAIN s /\ s2.flip = s.flip /\ s2.origin = origin
      BY <1>2 DEF Keels
    <2> DEFINE want == KeelRungs(c, origin) \cup KeelReduce(c)
    <2>2. IsFiniteSet(want)
      BY <1>4, KeelRungsFinite, KeelReduceFinite, FS_Union
    <2> HIDE DEF want
    <2>3. Makers(acts)
      BY <2>2, KeelReconcileMakers DEF want
    <2> HIDE DEF s2, acts
    <2>4. Mild(s0, "flip", out)
      BY <1>2, <1>7, <2>1, <2>3, MildOut
    <2> QED
      BY <1>2, <1>4, <1>7, <2>1, <2>4, MildAnswers DEF Keels, Out
  <1> QED
    BY <1>1, <1>5, <1>6, <1>7

-----------------------------------------------------------------------------
(* tidal                                                                     *)

\* The slots of a window rest.
LEMMA WindowEmits ==
    ASSUME NEW g, NEW c, NEW side, NEW w, NEW size, w.n \in Nat
    PROVE  Makers(EmitWindow(g, c, side, w, size))
  <1> DEFINE px(i) == SlotPx(g, side, w.lo + i)
             L(i) == When(px(i) > 0 /\ Farther(side, px(i), Touch(c, Opp(side))) /\ ~Present(c, side, px(i)),
                          <<Post(side, px(i), size[w.lo + i])>>)
             F == [k \in 1 .. (w.n - 1) - 0 + 1 |-> L(0 + k - 1)]
  <1>1. 1 .. (w.n - 1) - 0 + 1 = 1 .. w.n
    OBVIOUS
  <1>2. \A i : Makers(L(i))
    BY WhenPost
  <1>3. EmitWindow(g, c, side, w, size) = FlattenSeq(F)
    BY DEF EmitWindow, Ladder
  <1> HIDE DEF L
  <1>4. \A k \in 1 .. w.n : Makers(F[k])
    BY <1>1, <1>2
  <1>5. DOMAIN F = 1 .. w.n /\ F = [k \in 1 .. w.n |-> F[k]]
    BY <1>1
  <1> HIDE DEF F
  <1> QED
    BY <1>3, <1>4, <1>5, MakersFlattened

\* What is pruned outside it is cancelled.
LEMMA BandPrunes ==
    ASSUME NEW g, NEW c, NEW side, NEW w, NEW spared, IsFiniteSet(c.open)
    PROVE  Makers(PruneBand(g, c, side, w, spared))
  <1> DEFINE S == (Beyond(g, c, side, w) \cup Before(g, c, side, w)) \ spared
  <1>1. S \in SUBSET c.open
    BY DEF Beyond, Before, Shown
  <1>2. PruneBand(g, c, side, w, spared) = CancelThose(S) \/ PruneBand(g, c, side, w, spared) = << >>
    BY DEF PruneBand
  <1> HIDE DEF S
  <1>3. Makers(CancelThose(S))
    BY <1>1, FS_Subset, CancelsThose
  <1>4. CASE PruneBand(g, c, side, w, spared) = << >>
    BY <1>4, NoActions, Zenon
  <1> QED
    BY <1>2, <1>3, <1>4

\* Both, of a side.
LEMMA TidalSideMakers ==
    ASSUME NEW g, NEW c, NEW side, NEW w, NEW drained, NEW spared, w.n \in Nat, IsFiniteSet(c.open)
    PROVE  Makers(TidalSide(g, c, side, w, drained, spared))
  <1> DEFINE acts == EmitWindow(g, c, side, w, [k \in w.lo .. w.hi |-> Lot]) \o PruneBand(g, c, side, w, spared)
  <1>1. Makers(acts)
    BY WindowEmits, BandPrunes, MakersJoined
  <1>2. \E b : TidalSide(g, c, side, w, drained, spared) = When(b, acts)
    BY DEF TidalSide
  <1> HIDE DEF acts
  <1> QED
    BY <1>1, <1>2, Whens

\* A window has so many slots.
LEMMA TidalWindowSize ==
    ASSUME NEW g, NEW c, NEW side
    PROVE  TidalWindow(g, c, side).n \in Nat
  <1>1. TL.reduce \in Nat /\ TL.levels \in Nat
    BY LevelsAssumption
  <1>2. \A lo, n : Window(lo, n).n = n
    BY DEF Window
  <1>3. TidalWindow(g, c, side).n = TL.reduce \/ TidalWindow(g, c, side).n = TL.levels
    BY <1>2 DEF TidalWindow
  <1> QED
    BY <1>1, <1>3

\* Of take profit and stop loss at most one is a taker order, and then the latch is set.
LEMMA TidalClosesOnce ==
    ASSUME NEW s, NEW c, c.now \in Int, s.closed \in Int
    PROVE  LET x == TidalCloses(s, c)
           IN  \/ Makers(x.acts) /\ x.closed = s.closed
               \/ /\ OneTaker(x.acts) /\ x.closed = c.now /\ c.pos # 0
                  /\ s.closed = Never \/ ~(c.now - s.closed < TL.retry)
  <1> DEFINE side == Closing(c.pos)
             d == Drift(c.pos, c.avg, Mid(c))
             px == IF side = "ask" THEN -FloorTick(-TidalTpAt(c)) ELSE FloorTick(TidalTpAt(c))
             idle == s.closed = Never \/ c.now - s.closed >= TL.retry
             Taker(pct) == <<TakerAt(side, CloseLots(c.pos, pct), c)>>
             on == c.pos # 0 /\ c.avg > 0
             tpOn == on /\ TL.tp > 0 /\ CloseLots(c.pos, TL.tpPct) > 0 /\ TidalTpAt(c) > 0
             tp == tpOn /\ d >= TL.tp
             rests == tpOn /\ d < TL.tp
             sl == on /\ TL.sl > 0 /\ -d >= TL.sl /\ CloseLots(c.pos, TL.slPct) > 0
             posts == When(rests /\ ~Present(c, side, px), <<Post(side, px, CloseLots(c.pos, TL.tpPct))>>)
             x == TidalCloses(s, c)
  <1>1. x.acts = When(tp /\ idle, Taker(TL.tpPct)) \o posts \o When(sl /\ idle /\ ~tp, Taker(TL.slPct))
    BY DEF TidalCloses
  <1>2. x.closed = IF (tp \/ sl) /\ idle THEN c.now ELSE s.closed
    BY DEF TidalCloses
  <1>3. (tp => c.pos # 0) /\ (sl => c.pos # 0)
    OBVIOUS
  <1>4. Makers(posts)
    BY WhenPost
  <1>5. idle => s.closed = Never \/ ~(c.now - s.closed < TL.retry)
    <2>1. TL.retry \in Int
      BY FlightAssumption
    <2> QED
      BY <2>1
  <1>6. \A pct : \E a : Taker(pct) = <<a>> /\ a.op = "quote" /\ a.tif = "ioc"
    BY Takers
  <1> HIDE DEF Taker
  <1>10. IsSeq(posts)
    BY <1>4, MakersEach
  <1> SUFFICES \/ Makers(x.acts) /\ x.closed = s.closed
               \/ /\ OneTaker(x.acts) /\ x.closed = c.now /\ c.pos # 0
                  /\ s.closed = Never \/ ~(c.now - s.closed < TL.retry)
    OBVIOUS
  <1> HIDE DEF tp, sl, idle, posts, x
  <1>7. CASE tp /\ idle
    <2>0. PICK a : Taker(TL.tpPct) = <<a>> /\ a.op = "quote" /\ a.tif = "ioc"
      BY <1>6
    <2>1. When(tp /\ idle, Taker(TL.tpPct)) = <<a>> /\ When(sl /\ idle /\ ~tp, Taker(TL.slPct)) = << >>
      BY <1>7, <2>0 DEF When
    <2>3. OneTaker(<<a>>)
      <3>2. OneTaker(<< >> \o <<a>>)
        BY <2>0, NoActions, TakerLast
      <3>3. << >> \o <<a>> = <<a>>
        BY OneSeq, NothingFirst
      <3> QED
        BY <3>2, <3>3
    <2>4. OneTaker(<<a>> \o posts)
      BY <1>4, <2>3, TakerThenMakers
    <2>5. IsSeq(<<a>> \o posts)
      BY <2>4 DEF OneTaker
    <2>6. x.acts = <<a>> \o posts
      BY <1>1, <2>1, <2>5, NothingFirst
    <2> QED
      BY <1>2, <1>3, <1>5, <1>7, <2>4, <2>6
  <1>8. CASE ~(tp /\ idle) /\ sl /\ idle /\ ~tp
    <2>0. PICK a : Taker(TL.slPct) = <<a>> /\ a.op = "quote" /\ a.tif = "ioc"
      BY <1>6
    <2>1. When(tp /\ idle, Taker(TL.tpPct)) = << >> /\ When(sl /\ idle /\ ~tp, Taker(TL.slPct)) = <<a>>
      BY <1>8, <2>0 DEF When
    <2>2. x.acts = posts \o <<a>>
      BY <1>1, <1>10, <2>1, NothingFirst
    <2>3. OneTaker(x.acts)
      BY <1>4, <2>0, <2>2, TakerLast
    <2> QED
      BY <1>2, <1>3, <1>5, <1>8, <2>3
  <1>9. CASE ~(tp /\ idle) /\ ~(sl /\ idle /\ ~tp)
    <2>1. When(tp /\ idle, Taker(TL.tpPct)) = << >> /\ When(sl /\ idle /\ ~tp, Taker(TL.slPct)) = << >>
      BY <1>9 DEF When
    <2>2. x.acts = posts
      BY <1>1, <1>10, <2>1, NothingFirst
    <2>3. x.closed = s.closed
      BY <1>2, <1>9
    <2> QED
      BY <1>4, <2>2, <2>3
  <1> QED
    BY <1>7, <1>8, <1>9

\* On any event.
LEMMA TidalAnswers ==
    ASSUME NEW s0, NEW c, "closed" \in DOMAIN s0, s0.closed \in Int, c.now \in Int, IsFiniteSet(c.open)
    PROVE  Answers(s0, "closed", c, TL.retry, Tidal(s0, c))
  <1> DEFINE top == Tops(c, TL.inner, TidalStep(Mid(c)))
             g == IF s0.grid.step # None THEN s0.grid
                  ELSE [bid |-> top.bid, ask |-> top.ask, step |-> TidalStep((top.bid + top.ask) \div 2)]
             s == [s0 EXCEPT !.grid = g, !.closed = IF c.pos = 0 THEN Never ELSE @]
             x == TidalCloses(s, c)
             w == [side \in Sides |-> TidalWindow(g, c, side)]
             drained == [side \in Sides |-> Missing(g, c, side, w[side])]
             s1 == [s0 EXCEPT !.closed = IF c.pos = 0 THEN Never ELSE @]
             s2 == [s EXCEPT !.closed = x.closed]
             bids == TidalSide(g, c, "bid", w["bid"], drained, x.spared)
             asks == TidalSide(g, c, "ask", w["ask"], drained, x.spared)
             out == Tidal(s0, c)
  <1>1. \/ out = Out(s0, << >>)
        \/ out = Out(s1, << >>)
        \/ out = Out(s2, x.acts \o bids \o asks)
    BY DEF Tidal
  <1>2. w["bid"].n \in Nat /\ w["ask"].n \in Nat
    <2>1. w["bid"] = TidalWindow(g, c, "bid") /\ w["ask"] = TidalWindow(g, c, "ask")
      BY DEF Sides
    <2> HIDE DEF w, g
    <2> QED
      BY <2>1, TidalWindowSize
  <1> HIDE DEF g, w
  <1>3. Makers(bids) /\ Makers(asks)
    <2> HIDE DEF x, drained
    <2> QED
      BY <1>2, TidalSideMakers
  <1>4. Prepared(s0, s, "closed", c) /\ "closed" \in DOMAIN s /\ s.closed \in Int
    BY DEF Prepared, Never
  <1>5. Prepared(s0, s1, "closed", c)
    BY DEF Prepared
  <1> SUFFICES Answers(s0, "closed", c, TL.retry, out)
    OBVIOUS
  <1> HIDE DEF bids, asks, s, s1, out
  <1>6. CASE out = Out(s0, << >>)
    BY <1>6, Silent, MildAnswers
  <1>7. CASE out = Out(s1, << >>)
    BY <1>5, <1>7, Silent, MildAnswers, FromPrepared
  <1>8. CASE out = Out(s2, x.acts \o bids \o asks)
    <2>1. \/ Makers(x.acts) /\ x.closed = s.closed
          \/ /\ OneTaker(x.acts) /\ x.closed = c.now /\ c.pos # 0
             /\ s.closed = Never \/ ~(c.now - s.closed < TL.retry)
      BY <1>4, TidalClosesOnce
    <2> HIDE DEF x
    <2>2. DOMAIN s2 = DOMAIN s /\ s2.closed = x.closed
      BY <1>4
    <2> DEFINE acts == x.acts \o bids \o asks
    <2>3. out.st = s2 /\ out.acts = acts
      BY <1>8 DEF Out
    <2>4. CASE Makers(x.acts) /\ x.closed = s.closed
      <3>1. Makers(acts)
        BY <1>3, <2>4, MakersJoined
      <3> HIDE DEF acts, s2
      <3>2. Mild(s, "closed", out)
        BY <2>2, <2>3, <2>4, <3>1 DEF Mild
      <3> QED
        BY <1>4, <3>2, MildAnswers, FromPrepared
    <2>5. CASE /\ OneTaker(x.acts) /\ x.closed = c.now /\ c.pos # 0
               /\ s.closed = Never \/ ~(c.now - s.closed < TL.retry)
      <3>1. OneTaker(acts)
        BY <1>3, <2>5, TakerThenMakers
      <3> HIDE DEF acts, s2
      <3>2. Closes(s, "closed", c, TL.retry, out)
        BY <1>4, <2>2, <2>3, <2>5, <3>1 DEF Closes
      <3> QED
        BY <1>4, <3>2, FromPrepared DEF Answers
    <2> QED
      BY <2>1, <2>4, <2>5
  <1> QED
    BY <1>1, <1>6, <1>7, <1>8

-----------------------------------------------------------------------------
(* ratchet: it stops only a cycle in progress, and then it holds something.  *)

\* What its answers need of the state, and keep.
Ratchets(s) == {"closed", "phase"} \subseteq DOMAIN s

\* The phase follows the bag: a cycle in progress holds something.
LEMMA RtPhases ==
    ASSUME NEW s, NEW c, Ratchets(s)
    PROVE  /\ Prepared(s, RtPhase(s, c), "closed", c)
           /\ RtPhase(s, c).phase.holding => c.pos # 0
  <1> DEFINE abs == Abs(c.pos)
             recent == IF s.phase.long THEN s.buy ELSE s.sell
             p == s.phase
             s1 == [s EXCEPT !.phase = [holding |-> TRUE, long |-> c.pos > 0, first |-> c.avg, adds |-> 0,
                                        lastAdd |-> c.avg, prev |-> abs]]
             s2 == [s EXCEPT !.phase = Flat, !.closed = Never]
             s3 == [s EXCEPT !.phase = [p EXCEPT !.adds = @ + 1, !.prev = abs,
                                                 !.lastAdd = IF recent = None THEN @ ELSE recent]]
             s4 == [s EXCEPT !.phase.prev = abs]
  <1>1. \/ c.pos # 0 /\ RtPhase(s, c) \in {s1, s3, s4}
        \/ c.pos = 0 /\ RtPhase(s, c) = s2
        \/ c.pos # 0 /\ RtPhase(s, c) = s
        \/ ~s.phase.holding /\ RtPhase(s, c) = s
    <2>1. RtPhase(s, c) = CASE ~p.holding /\ c.pos # 0 -> s1
                            [] p.holding /\ c.pos = 0 -> s2
                            [] p.holding /\ c.pos # 0 /\ abs > p.prev -> s3
                            [] p.holding /\ c.pos # 0 /\ abs <= p.prev -> s4
                            [] OTHER -> s
      BY DEF RtPhase
    <2> HIDE DEF s1, s2, s3, s4, abs
    <2> QED
      BY <2>1
  <1>2. \A x \in {s1, s3, s4} : DOMAIN x = DOMAIN s /\ x.closed = s.closed
    BY DEF Ratchets
  <1>3. DOMAIN s2 = DOMAIN s /\ s2.closed = Never /\ s2.phase.holding = FALSE
    BY DEF Ratchets, Flat
  <1> HIDE DEF s1, s2, s3, s4
  <1>4. "closed" \in DOMAIN s
    BY DEF Ratchets
  <1> QED
    BY <1>1, <1>2, <1>3, <1>4 DEF Prepared

\* A leg rests,
LEMMA RtLegMakers ==
    ASSUME NEW s, NEW c, NEW side, NEW px, NEW sz, NEW free
    PROVE  Makers(RtLeg(s, c, side, px, sz, free))
  BY WhenPost DEF RtLeg

\* so do the orders of a cycle
LEMMA RtOrdersMakers == ASSUME NEW s, NEW c PROVE Makers(RtOrders(s, c))
  BY RtLegMakers, MakersJoined DEF RtOrders

\* and those of its pyramid.
LEMMA RtPyramidMakers == ASSUME NEW s, NEW c PROVE Makers(RtPyramid(s, c))
  <1> DEFINE side == IF s.phase.long THEN "bid" ELSE "ask"
             out == Opp(side)
             tp == IF RT.tpAvg > 0 THEN RT.tpAvg ELSE RT.tp
             size == (Lot * RT.mult ^ (s.phase.adds + 1)) \div 100 ^ (s.phase.adds + 1)
             exit == RtLeg(s, c, out, Away(out, c.avg, tp), Abs(c.pos), TRUE)
             leg == RtLeg(s, c, side, Away(side, RtAnchor(s, side), RT.tp), Lot, RtFree(s, c, side))
             back == When(RtAnchor(s, side) # None, leg)
             add == RtLeg(s, c, side, Away(side, s.phase.lastAdd, RT.step), size,
                          s.phase.adds < RT.maxAdds /\ RtFree(s, c, side))
  <1>1. RtPyramid(s, c) = exit \o back \o add
    BY DEF RtPyramid
  <1>2. Makers(exit) /\ Makers(leg) /\ Makers(add)
    BY RtLegMakers
  <1> HIDE DEF exit, leg, add
  <1>3. Makers(back)
    BY <1>2, Whens
  <1> HIDE DEF back
  <1> QED
    BY <1>1, <1>2, <1>3, MakersJoined

\* On any event.
LEMMA RatchetAnswers ==
    ASSUME NEW s0, NEW c, Ratchets(s0)
    PROVE  Answers(s0, "closed", c, RT.retry, Ratchet(s0, c)) /\ Ratchets(Ratchet(s0, c).st)
  <1> DEFINE seen == IF c.k = "book" THEN [s0 EXCEPT !.bid = c.bid, !.ask = c.ask] ELSE s0
             x == IF c.k = "book" THEN RtObserve(seen, c.now) ELSE seen
             s == RtPhase(x, c)
             side == IF s.phase.long THEN "bid" ELSE "ask"
             stopped == /\ s.phase.holding /\ RT.sl > 0 /\ s.phase.first > 0
                        /\ Sgn(side) * (s.phase.first - RtMid(s)) >= RT.sl
             cooling == s.ts # Never /\ c.now - s.ts < RT.cooldown
             acts == IF s.phase.holding /\ RT.maxAdds > 0 THEN RtPyramid(s, c) ELSE RtOrders(s, c)
             sig == {[side |-> a.side, px |-> a.px] : a \in ToSet(acts)}
             filled == RtFill(s0, c.fill)
             stop == TakerAt(Opp(side), Abs(c.pos), s)
             s1 == [s EXCEPT !.closed = c.now, !.sig = << >>]
             s2 == [s EXCEPT !.sig = SetToSeq(sig), !.ts = c.now]
             out == Ratchet(s0, c)
  <1>1. out = CASE c.k = "fill" -> Out(filled, << >>)
                [] c.k # "fill" /\ (seen.bid = None \/ seen.ask = None) -> Out(s0, << >>)
                [] c.k # "fill" /\ stopped ->
                     IF s.closed # Never /\ c.now - s.closed < RT.retry THEN Out(s, << >>)
                     ELSE Out(s1, <<CancelAll, stop>>)
                [] c.k # "fill" /\ ~stopped /\ (cooling \/ sig = ToSet(s.sig)) -> Out(s, << >>)
                [] OTHER -> Out(s2, <<CancelAll>> \o acts)
    BY DEF Ratchet
  <1>2. DOMAIN filled = DOMAIN s0 /\ filled.closed = s0.closed
    BY DEF RtFill, Ratchets
  <1>3. DOMAIN x = DOMAIN s0 /\ x.closed = s0.closed
    BY DEF RtObserve, Ratchets
  <1>4. Makers(acts)
    BY RtPyramidMakers, RtOrdersMakers
  <1>5. stopped => s.phase.holding
    OBVIOUS
  <1> SUFFICES Answers(s0, "closed", c, RT.retry, out) /\ Ratchets(out.st)
    OBVIOUS
  <1>11. /\ DOMAIN s1 = DOMAIN s /\ DOMAIN s2 = DOMAIN s
         /\ "closed" \in DOMAIN s => s1.closed = c.now /\ s2.closed = s.closed
    OBVIOUS
  <1>12. stop.op = "quote" /\ stop.tif = "ioc"
    BY Takers
  <1> HIDE DEF filled, seen, x, stopped, cooling, sig, acts, stop, out, s1, s2
  <1>6. Prepared(x, s, "closed", c) /\ (s.phase.holding => c.pos # 0)
    BY <1>3, RtPhases DEF Ratchets
  <1> HIDE DEF s
  <1>7. Prepared(s0, s, "closed", c) /\ Ratchets(s)
    BY <1>3, <1>6 DEF Prepared, Ratchets
  <1>8. \/ out = Out(filled, << >>)
        \/ out = Out(s0, << >>)
        \/ out = Out(s, << >>)
        \/ out = Out(s1, <<CancelAll, stop>>) /\ stopped /\ (s.closed = Never \/ ~(c.now - s.closed < RT.retry))
        \/ out = Out(s2, <<CancelAll>> \o acts)
    BY <1>1
  <1>9. CASE out = Out(filled, << >>) \/ out = Out(s0, << >>)
    <2>1. Mild(s0, "closed", out)
      BY <1>2, <1>9, Silent, MildOut, NoActions
    <2> QED
      BY <2>1, MildAnswers DEF Mild, Ratchets
  <1>10. CASE out = Out(s, << >>)
    <2>1. Mild(s, "closed", out)
      BY <1>10, Silent
    <2> QED
      BY <1>7, <2>1, MildAnswers, FromPrepared DEF Mild, Ratchets
  <1>13. CASE out = Out(s1, <<CancelAll, stop>>) /\ stopped /\ (s.closed = Never \/ ~(c.now - s.closed < RT.retry))
    <2> DEFINE a == <<CancelAll, stop>>
    <2>1. OneTaker(a)
      BY <1>12, CancelAndTake
    <2>2. out.st = s1 /\ out.acts = a
      BY <1>13 DEF Out
    <2> HIDE DEF a
    <2>3. Closes(s, "closed", c, RT.retry, out)
      BY <1>5, <1>6, <1>7, <1>11, <1>13, <2>1, <2>2 DEF Closes, Ratchets
    <2> QED
      BY <1>7, <1>11, <2>2, <2>3, FromPrepared DEF Answers, Ratchets
  <1>14. CASE out = Out(s2, <<CancelAll>> \o acts)
    <2>1. Mild(s, "closed", out)
      BY <1>4, <1>7, <1>11, <1>14, AfterCancelAll, MildOut DEF Ratchets
    <2> QED
      BY <1>7, <2>1, MildAnswers, FromPrepared DEF Mild, Ratchets
  <1> QED
    BY <1>8, <1>9, <1>10, <1>13, <1>14

\* A refusal makes it forget what it placed.
LEMMA RatchetRejects ==
    ASSUME NEW s, NEW c, Ratchets(s), NEW q, NEW why
    PROVE  Mild(s, "closed", RatchetRejected(s, c, q, why))
  <1> DEFINE s1 == [s EXCEPT !.sig = << >>]
  <1>1. DOMAIN s1 = DOMAIN s /\ s1.closed = s.closed
    BY DEF Ratchets
  <1>2. RatchetRejected(s, c, q, why) = Out(s1, << >>)
    BY DEF RatchetRejected
  <1> HIDE DEF s1
  <1> QED
    BY <1>1, <1>2, NoActions, MildOut

-----------------------------------------------------------------------------
(* spread_scalp, without its Stage-5 gate                                    *)

\* Two mild answers, one after the other, are one.
LEMMA MildSteps ==
    ASSUME NEW s, NEW f, NEW x, NEW y, Mild(s, f, x), Mild(x.st, f, y)
    PROVE  Mild(s, f, Out(y.st, x.acts \o y.acts))
  BY MakersJoined DEF Mild, Out

\* Dropping the order of a side,
LEMMA SsDropMild ==
    ASSUME NEW s, NEW side, "closed" \in DOMAIN s
    PROVE  Mild(s, "closed", SsDrop(s, side))
  <1> DEFINE s1 == [s EXCEPT !.rest[side] = NoRest]
             a == Cancel(s.rest[side].id)
  <1>1. SsDrop(s, side) = Out(s, << >>) \/ SsDrop(s, side) = Out(s1, <<a>>)
    BY DEF SsDrop
  <1>2. DOMAIN s1 = DOMAIN s /\ s1.closed = s.closed
    OBVIOUS
  <1>3. Maker(a)
    BY Posts
  <1> HIDE DEF s1, a
  <1> QED
    BY <1>1, <1>2, <1>3, Silent, MildOut, OneMaker

\* moving it,
LEMMA SsDiffMild ==
    ASSUME NEW s, NEW side, NEW px, NEW sz, "closed" \in DOMAIN s
    PROVE  Mild(s, "closed", SsDiff(s, side, px, sz))
  <1> DEFINE r == s.rest[side]
             s1 == [s EXCEPT !.rest[side] = [id |-> 0, px |-> px, sz |-> sz]]
             cancel == Cancel(r.id)
             post == Post(side, px, sz)
             acts == When(r.id # 0, <<cancel>>) \o <<post>>
  <1>1. SsDiff(s, side, px, sz) = Out(s, << >>) \/ SsDiff(s, side, px, sz) = Out(s1, acts)
    BY DEF SsDiff
  <1>2. DOMAIN s1 = DOMAIN s /\ s1.closed = s.closed
    OBVIOUS
  <1>3. Maker(cancel) /\ Maker(post)
    BY Posts
  <1> HIDE DEF s1, r, cancel, post
  <1>4. Makers(<<cancel>>) /\ Makers(<<post>>)
    BY <1>3, OneMaker
  <1>5. Makers(acts)
    BY <1>4, Whens, MakersJoined
  <1> HIDE DEF acts
  <1> QED
    BY <1>1, <1>2, <1>5, Silent, MildOut

\* either,
LEMMA SsSideMild ==
    ASSUME NEW s, NEW c, NEW side, "closed" \in DOMAIN s
    PROVE  Mild(s, "closed", SsSide(s, c, side))
  <1>1. \/ SsSide(s, c, side) = SsDrop(s, side)
        \/ SsSide(s, c, side) = Out(s, << >>)
        \/ \E px, sz : SsSide(s, c, side) = SsDiff(s, side, px, sz)
    BY DEF SsSide
  <1> QED
    BY <1>1, SsDropMild, SsDiffMild, Silent

\* of both sides,
LEMMA SsEmitMild ==
    ASSUME NEW s, NEW c, "closed" \in DOMAIN s
    PROVE  Mild(s, "closed", SsEmit(s, c))
  <1> DEFINE s1 == [s EXCEPT !.bid = SsTarget(c, "bid"), !.ask = SsTarget(c, "ask"), !.ts = c.now, !.live = TRUE]
             x == SsSide(s1, c, "bid")
             y == SsSide(x.st, c, "ask")
  <1>1. SsEmit(s, c) = Out(y.st, x.acts \o y.acts)
    BY DEF SsEmit, Then
  <1>2. DOMAIN s1 = DOMAIN s /\ s1.closed = s.closed
    OBVIOUS
  <1> HIDE DEF s1
  <1>3. Mild(s1, "closed", x)
    BY <1>2, SsSideMild
  <1> HIDE DEF x
  <1>4. "closed" \in DOMAIN x.st
    BY <1>2, <1>3 DEF Mild
  <1>5. Mild(x.st, "closed", y)
    BY <1>4, SsSideMild
  <1> HIDE DEF y
  <1>6. Mild(s1, "closed", Out(y.st, x.acts \o y.acts))
    BY <1>3, <1>5, MildSteps
  <1> QED
    BY <1>1, <1>2, <1>6, MildFrom

\* withdrawing them,
LEMMA SsCancelMild ==
    ASSUME NEW s, "closed" \in DOMAIN s
    PROVE  Mild(s, "closed", SsCancelIfLive(s))
  <1> DEFINE gone == [s EXCEPT !.bid = None, !.ask = None, !.ts = Never]
             s1 == [gone EXCEPT !.live = FALSE, !.rest = [side \in Sides |-> NoRest]]
  <1>1. SsCancelIfLive(s) = Out(s1, <<CancelAll>>) \/ SsCancelIfLive(s) = Out(gone, << >>)
    BY DEF SsCancelIfLive
  <1>2. DOMAIN s1 = DOMAIN s /\ s1.closed = s.closed /\ DOMAIN gone = DOMAIN s /\ gone.closed = s.closed
    OBVIOUS
  <1>3. Makers(<<CancelAll>>)
    BY Posts, OneMaker
  <1> HIDE DEF s1, gone
  <1> QED
    BY <1>1, <1>2, <1>3, NoActions, MildOut

\* keeping the exit alone,
LEMMA SsKeepMild ==
    ASSUME NEW s, NEW c, "closed" \in DOMAIN s
    PROVE  Mild(s, "closed", SsKeep(s, c))
  <1> DEFINE side == Closing(c.pos)
             px == Beyond2(side, Away(side, c.avg, SsDecayed(s, c.now)), Away(side, Touch(c, side), -Tick))
             x == SsDrop(s, Opp(side))
             s1 == [x.st EXCEPT ![Opp(side)] = None]
             y == SsDiff(s1, side, px, Lot)
             s2 == [y.st EXCEPT !.ts = c.now, ![side] = px, !.live = y.st.rest[side] # NoRest]
  <1>1. \/ SsKeep(s, c) = Out(s, << >>)
        \/ SsKeep(s, c) = Out(s2, x.acts \o y.acts)
    BY DEF SsKeep, Then, Out
  <1>2. side # "closed" /\ Opp(side) # "closed"
    BY DEF Closing, Opp
  <1>3. Mild(s, "closed", x)
    BY SsDropMild
  <1> HIDE DEF x, px, side
  <1>4. DOMAIN s1 = DOMAIN x.st /\ s1.closed = x.st.closed /\ "closed" \in DOMAIN x.st
    BY <1>2, <1>3 DEF Mild
  <1> HIDE DEF s1
  <1>5. Mild(s1, "closed", y)
    BY <1>4, SsDiffMild
  <1> HIDE DEF y
  <1>6. Mild(x.st, "closed", y)
    BY <1>4, <1>5, MildFrom
  <1>7. Mild(s, "closed", Out(y.st, x.acts \o y.acts))
    BY <1>3, <1>6, MildSteps
  <1>8. DOMAIN s2 = DOMAIN y.st /\ ("closed" \in DOMAIN y.st => s2.closed = y.st.closed)
    BY <1>2
  <1>9. DOMAIN y.st = DOMAIN s /\ y.st.closed = s.closed /\ Makers(x.acts \o y.acts)
    BY <1>7 DEF Mild, Out
  <1> HIDE DEF s2
  <1>10. Mild(s, "closed", Out(s2, x.acts \o y.acts))
    BY <1>8, <1>9, MildOut
  <1> QED
    BY <1>1, <1>10, Silent

\* or any of these while the gate is closed: the latch stays.
LEMMA SsClosedMild ==
    ASSUME NEW s, NEW c, "closed" \in DOMAIN s
    PROVE  Mild(s, "closed", SsClosed(s, c))
  BY SsKeepMild, SsCancelMild DEF SsClosed

\* What it notes of every event prepares the answer.
LEMMA SsObserves ==
    ASSUME NEW s0, NEW c, "closed" \in DOMAIN s0
    PROVE  Prepared(s0, SsObserve(s0, c), "closed", c)
  <1> DEFINE s1 == SsReconcile(s0, c)
             s2 == IF TwoSided(c) THEN SsSnapshots(s1, c.now, Mid(c)) ELSE s1
             s3 == IF c.k = "fill" THEN SsRecord(s2, c.fill, c.now) ELSE s2
             opened == s3.prev = 0 /\ c.pos # 0
             ended == s3.prev # 0 /\ c.pos = 0
             s4 == [s3 EXCEPT !.prev = c.pos,
                              !.cycle = IF opened THEN c.now ELSE IF ended THEN Never ELSE @,
                              !.closed = IF ended THEN Never ELSE @]
  <1>1. SsObserve(s0, c) = s4
    BY DEF SsObserve
  <1>2. DOMAIN s1 = DOMAIN s0 /\ s1.closed = s0.closed
    BY DEF SsReconcile
  <1> HIDE DEF s1
  <1>3. DOMAIN s2 = DOMAIN s0 /\ s2.closed = s0.closed
    BY <1>2 DEF SsSnapshots
  <1> HIDE DEF s2
  <1>4. DOMAIN s3 = DOMAIN s0 /\ s3.closed = s0.closed
    BY <1>3 DEF SsRecord
  <1> HIDE DEF s3
  <1>5. DOMAIN s4 = DOMAIN s0 /\ (s4.closed = s0.closed \/ (c.pos = 0 /\ s4.closed = Never))
    BY <1>4
  <1> HIDE DEF s4
  <1> QED
    BY <1>1, <1>5 DEF Prepared

\* The order of a full side is dropped.
LEMMA SsCapMild ==
    ASSUME NEW s, NEW c, "closed" \in DOMAIN s
    PROVE  Mild(s, "closed", SsCapCancel(s, c))
  BY SsDropMild, Silent DEF SsCapCancel

\* What follows a fill
LEMMA SsFillMild ==
    ASSUME NEW s, NEW x, NEW c, "closed" \in DOMAIN s, Mild(s, "closed", x)
    PROVE  Mild(s, "closed", SsFill(x, c))
  <1> DEFINE s1 == [x.st EXCEPT !.reject[c.fill.side] = Never, !.rest[c.fill.side] = NoRest]
             y == SsEmit(s1, c)
  <1>1. \/ SsFill(x, c) = Out(y.st, x.acts \o y.acts)
        \/ SsFill(x, c) = SsClosed(s1, c)
    BY DEF SsFill, Then, Out
  <1>2. DOMAIN s1 = DOMAIN s /\ s1.closed = s.closed /\ Makers(x.acts)
    BY DEF Mild
  <1> HIDE DEF s1
  <1>3. Mild(s1, "closed", y) /\ Mild(s1, "closed", SsClosed(s1, c))
    BY <1>2, SsEmitMild, SsClosedMild
  <1> HIDE DEF y
  <1>4. Mild(s, "closed", y) /\ Mild(s, "closed", SsClosed(s1, c))
    BY <1>2, <1>3, MildFrom
  <1>5. Mild(s, "closed", Out(y.st, x.acts \o y.acts))
    BY <1>2, <1>4, MakersJoined DEF Mild, Out
  <1> QED
    BY <1>1, <1>4, <1>5

\* and a book leaves the latch alone.
LEMMA SsBookMild ==
    ASSUME NEW s, NEW x, NEW c, "closed" \in DOMAIN s, Mild(s, "closed", x)
    PROVE  Mild(s, "closed", SsBook(x, c))
  <1> DEFINE y == SsClosed(x.st, c)
             z == SsEmit(x.st, c)
  <1>1. \/ SsBook(x, c) = Out(y.st, x.acts \o y.acts)
        \/ SsBook(x, c) = x
        \/ SsBook(x, c) = Out(z.st, x.acts \o z.acts)
    BY DEF SsBook, Then
  <1>2. "closed" \in DOMAIN x.st
    BY DEF Mild
  <1>3. Mild(x.st, "closed", y) /\ Mild(x.st, "closed", z)
    BY <1>2, SsEmitMild, SsClosedMild
  <1> HIDE DEF y, z
  <1> QED
    BY <1>1, <1>3, MildSteps

\* On any event; only the adverse stop takes.
LEMMA SpreadScalpAnswers ==
    ASSUME NEW s0, NEW c, "closed" \in DOMAIN s0, ~SsStageFive
    PROVE  Answers(s0, "closed", c, SS.retry, SpreadScalp(s0, c))
  <1> DEFINE s == SsObserve(s0, c)
             x == SsDrop(s, "bid")
             y == SsDrop(x.st, "ask")
             close == BuildClose(c.pos, c)
             s1 == [y.st EXCEPT !.closed = c.now]
             acts == x.acts \o y.acts \o <<close>>
             capped == SsCapCancel(s, c)
             out == SpreadScalp(s0, c)
  <1>1. ~RiskCloses(c.pos, c.avg, Mid(c), SS.tp, SS.sl, SS.usdt)
    BY DEF RiskCloses, SsStageFive
  <1>2. \/ out = Out(s1, acts) /\ SsStops(s, c)
        \/ out = SsFill(capped, c)
        \/ out = SsBook(capped, c)
        \/ out = Out(capped.st, << >>)
    BY <1>1 DEF SpreadScalp, Then, Out
  <1>3. Prepared(s0, s, "closed", c) /\ "closed" \in DOMAIN s
    BY SsObserves DEF Prepared
  <1> SUFFICES Answers(s0, "closed", c, SS.retry, out)
    OBVIOUS
  <1> HIDE DEF s, out
  <1> SUFFICES Answers(s, "closed", c, SS.retry, out)
    BY <1>3, FromPrepared
  <1>4. Mild(s, "closed", capped)
    BY <1>3, SsCapMild
  <1>5. CASE out = Out(s1, acts) /\ SsStops(s, c)
    <2>1. c.pos # 0 /\ (s.closed = Never \/ ~(c.now - s.closed < SS.retry))
      BY <1>5 DEF SsStops, SsInFlight
    <2>2. Mild(s, "closed", x)
      BY <1>3, SsDropMild
    <2> HIDE DEF x
    <2>3. "closed" \in DOMAIN x.st
      BY <1>3, <2>2 DEF Mild
    <2>4. Mild(x.st, "closed", y)
      BY <2>3, SsDropMild
    <2> HIDE DEF y
    <2>5. Makers(x.acts) /\ Makers(y.acts) /\ "closed" \in DOMAIN y.st
      BY <2>2, <2>3, <2>4 DEF Mild
    <2>6. close.op = "quote" /\ close.tif = "ioc"
      BY Takers
    <2> HIDE DEF close
    <2>7. OneTaker(acts)
      BY <2>5, <2>6, MakersJoined, TakerLast
    <2>8. "closed" \in DOMAIN s1 /\ s1.closed = c.now
      BY <2>5
    <2>9. out.st = s1 /\ out.acts = acts
      BY <1>5 DEF Out
    <2> HIDE DEF acts, s1
    <2> QED
      BY <2>1, <2>7, <2>8, <2>9 DEF Closes, Answers
  <1> HIDE DEF capped
  <1>6. CASE out = SsFill(capped, c) \/ out = SsBook(capped, c)
    BY <1>3, <1>4, <1>6, SsFillMild, SsBookMild, MildAnswers
  <1>7. CASE out = Out(capped.st, << >>)
    <2>1. Mild(s, "closed", out)
      BY <1>4, <1>7, NoActions DEF Mild, Out
    <2> QED
      BY <2>1, MildAnswers
  <1> QED
    BY <1>2, <1>5, <1>6, <1>7

\* A refusal is noted.
LEMMA SpreadScalpRejects ==
    ASSUME NEW s0, NEW c, "closed" \in DOMAIN s0, NEW q, NEW why
    PROVE  Mild(s0, "closed", SpreadRejected(s0, c, q, why))
  <1> DEFINE s == [s0 EXCEPT !.reject[q.side] = IF why = "cross" THEN @ ELSE c.now,
                             !.bid = None, !.ask = None, !.ts = Never]
  <1>1. SpreadRejected(s0, c, q, why) = SsEmit(s, c) \/ SpreadRejected(s0, c, q, why) = SsClosed(s, c)
    BY DEF SpreadRejected
  <1>2. DOMAIN s = DOMAIN s0 /\ s.closed = s0.closed
    OBVIOUS
  <1> HIDE DEF s
  <1> QED
    BY <1>1, <1>2, SsEmitMild, SsClosedMild, MildFrom

-----------------------------------------------------------------------------
(* Of the strategy that runs.                                                *)

\* The field that is its latch,
LatchField == IF which = "keel" THEN "flip" ELSE "closed"
\* and how long the latch holds.
Retry ==
    CASE which = "static_grid" -> SG.retry
      [] which = "layered_grid" -> LG.retry
      [] which = "hawk" -> HK.retry
      [] which = "keel" -> KL.cooldown
      [] which = "tidal" -> TL.retry
      [] which = "ratchet" -> RT.retry
      [] OTHER -> SS.retry

\* The fields of a strategy's state that its answers depend on.
Shaped(s) ==
    CASE which = "layered_grid" -> Layers(s)
      [] which = "keel" -> Keels(s)
      [] which = "ratchet" -> Ratchets(s)
      [] OTHER -> "closed" \in DOMAIN s

\* Whichever runs, what it says to an event is an answer,
LEMMA EventAnswers ==
    ASSUME which \in Latched, NEW s, Shaped(s), s[LatchField] \in Int,
           NEW c, Quoted(c), c.now \in Int
    PROVE  Answers(s, LatchField, c, Retry, OnEvent(s, c)) /\ Shaped(OnEvent(s, c).st)
  <1> USE DEF LatchField, Retry, Shaped, OnEvent
  <1>0. IsFiniteSet(c.open)
    BY DEF Quoted
  <1>10. \A out, r : "closed" \in DOMAIN s /\ Answers(s, "closed", c, r, out) => "closed" \in DOMAIN out.st
    BY DEF Answers, Mild, Rearms, Closes
  <1>1. CASE which = "static_grid"
    BY <1>1, <1>10, StaticGridAnswers
  <1>2. CASE which = "layered_grid"
    BY <1>0, <1>2, LayeredGridAnswers
  <1>3. CASE which = "hawk"
    BY <1>3, <1>10, HawkAnswers
  <1>4. CASE which = "keel"
    BY <1>4, KeelAnswers
  <1>5. CASE which = "tidal"
    BY <1>0, <1>5, <1>10, TidalAnswers
  <1>6. CASE which = "ratchet"
    BY <1>6, RatchetAnswers
  <1>7. CASE which = "spread_scalp" /\ ~SsStageFive
    BY <1>7, <1>10, SpreadScalpAnswers
  <1> QED
    BY <1>1, <1>2, <1>3, <1>4, <1>5, <1>6, <1>7 DEF Latched

\* and what it says to a refusal leaves the latch alone.
LEMMA RejectAnswers ==
    ASSUME which \in Latched, NEW s, Shaped(s), NEW c, NEW q, NEW why
    PROVE  LET out == OnQuoteRejected(s, c, q, why)
           IN  Mild(s, LatchField, out) /\ Shaped(out.st)
  <1> USE DEF LatchField, Shaped, OnQuoteRejected
  <1>1. CASE which = "static_grid"
    BY <1>1, StaticGridRejects DEF Mild
  <1>2. CASE which = "layered_grid"
    BY <1>2, LayeredGridRejects
  <1>3. CASE which \in {"hawk", "tidal"}
    BY <1>3, Silent DEF Mild
  <1>4. CASE which = "keel"
    BY <1>4, Silent DEF Out
  <1>6. CASE which = "ratchet"
    BY <1>6, RatchetRejects DEF Mild, Ratchets
  <1>7. CASE which = "spread_scalp"
    BY <1>7, SpreadScalpRejects DEF Mild
  <1> QED
    BY <1>1, <1>2, <1>3, <1>4, <1>6, <1>7 DEF Latched

-----------------------------------------------------------------------------
(* The refusals told to the strategy change neither its latch nor the taker
   orders on their way.                                                      *)

\* The state and the batch after each of the first n refusals.
Settles(f, s, b, c, n) ==
    f = [k \in 0..n |-> IF k = 0 THEN [st |-> s, b |-> [b EXCEPT !.refused = << >>]]
                        ELSE Recover(f[k - 1], b.refused[k], c)]

\* The intermediate states exist as a function of the refusals told,
LEMMA SettlesExist ==
    ASSUME NEW s, NEW b, NEW c, NEW n \in Nat
    PROVE  \E f : Settles(f, s, b, c, n)
  <1> DEFINE e == [st |-> s, b |-> [b EXCEPT !.refused = << >>]]
             T == {k \in Nat : \E f : Settles(f, s, b, c, k)}
  <1>1. 0 \in T
    <2> DEFINE z == [k \in 0..0 |-> e]
    <2>1. Settles(z, s, b, c, 0)
      <3> HIDE DEF e
      <3>1. z = [k \in 0..0 |-> IF k = 0 THEN e ELSE Recover(z[k - 1], b.refused[k], c)]
        OBVIOUS
      <3> QED
        BY <3>1 DEF Settles, e
    <2> HIDE DEF z
    <2> QED
      BY <2>1
  <1>2. ASSUME NEW k \in Nat, k \in T PROVE k + 1 \in T
    <2>1. PICK f : Settles(f, s, b, c, k)
      BY <1>2
    <2>0. f = [i \in 0..k |-> IF i = 0 THEN e ELSE Recover(f[i - 1], b.refused[i], c)]
      BY <2>1 DEF Settles
    <2> HIDE DEF e
    <2> DEFINE w == Recover(f[k], b.refused[k + 1], c)
               g == [i \in 0..k + 1 |-> IF i = k + 1 THEN w ELSE f[i]]
    <2>2. ASSUME NEW i \in 0..k + 1
          PROVE  g[i] = IF i = 0 THEN e ELSE Recover(g[i - 1], b.refused[i], c)
      <3>1. CASE i = k + 1
        <4>1. g[i] = w /\ g[k] = f[k] /\ i # 0 /\ i - 1 = k
          BY <3>1
        <4> HIDE DEF g
        <4> QED
          BY <3>1, <4>1
      <3>2. CASE i # k + 1
        <4>1. i \in 0..k /\ g[i] = f[i] /\ (i # 0 => i - 1 \in 0..k /\ g[i - 1] = f[i - 1])
          BY <3>2
        <4>2. f[i] = IF i = 0 THEN e ELSE Recover(f[i - 1], b.refused[i], c)
          BY <2>0, <4>1
        <4> HIDE DEF g
        <4> QED
          BY <4>1, <4>2
      <3> QED
        BY <3>1, <3>2
    <2>3. g = [i \in 0..k + 1 |-> g[i]]
      OBVIOUS
    <2> HIDE DEF g
    <2>4. Settles(g, s, b, c, k + 1)
      BY <2>2, <2>3 DEF Settles, e
    <2> QED
      BY <2>4
  <1>3. Nat \subseteq T
    <2> HIDE DEF T
    <2> QED
      BY <1>1, <1>2, Induct
  <1> QED
    BY <1>3

\* x, a state and a batch, has the latch of s and the taker orders F.
Kept(x, s, F) == Shaped(x.st) /\ x.st[LatchField] = s[LatchField] /\ Holds(x.b, F)

\* One refusal,
LEMMA RecoverKeeps ==
    ASSUME which \in Latched, NEW x, NEW s, NEW F, Kept(x, s, F), NEW r, NEW c
    PROVE  Kept(Recover(x, r, c), s, F)
  <1> DEFINE c1 == [c EXCEPT !.open = x.b.rest]
             out == OnQuoteRejected(x.st, c1, r.q, r.why)
             y == [st |-> out.st, b |-> Apply(x.b, out.acts, "none")]
  <1>1. Recover(x, r, c) = y
    BY DEF Recover
  <1>2. Mild(x.st, LatchField, out) /\ Shaped(out.st)
    <2> HIDE DEF c1
    <2> QED
      BY RejectAnswers DEF Kept
  <1> HIDE DEF out
  <1>3. Holds(Apply(x.b, out.acts, "none"), F)
    BY <1>2, MakersApplied DEF Kept, Mild
  <1>4. y.st = out.st /\ y.b = Apply(x.b, out.acts, "none")
    OBVIOUS
  <1> HIDE DEF y
  <1> QED
    BY <1>1, <1>2, <1>3, <1>4 DEF Kept, Mild

\* and all of them.
LEMMA SettleKeeps ==
    ASSUME which \in Latched, NEW s, NEW b, NEW c, NEW F, Shaped(s), Holds(b, F)
    PROVE  Kept(Settle(s, b, c), s, F)
  <1> DEFINE n == Len(b.refused)
             first == [st |-> s, b |-> [b EXCEPT !.refused = << >>]]
             h == CHOOSE f : Settles(f, s, b, c, n)
  <1>1. PICK r, q : b = [rest |-> r, flight |-> F, refused |-> q] /\ IsFiniteSet(r) /\ IsSeq(q)
    BY DEF Holds
  <1>2. n \in Nat
    BY <1>1 DEF IsSeq
  <1>3. Kept(first, s, F)
    <2>1. [b EXCEPT !.refused = << >>] = [rest |-> r, flight |-> F, refused |-> << >>]
      BY <1>1
    <2> DEFINE e == << >>
    <2>2. IsSeq(e)
      BY NothingSeq
    <2>3. first.b = [rest |-> r, flight |-> F, refused |-> e] /\ first.st = s
      BY <2>1
    <2> HIDE DEF e, first
    <2>4. Holds(first.b, F)
      BY <1>1, <2>2, <2>3 DEF Holds
    <2> QED
      BY <2>3, <2>4 DEF Kept
  <1>4. Settles(h, s, b, c, n)
    BY <1>2, SettlesExist
  <1>5. Settle(s, b, c) = h[n]
    BY DEF Settle, Settles
  <1> HIDE DEF h
  <1>10. h = [k \in 0..n |-> IF k = 0 THEN first ELSE Recover(h[k - 1], b.refused[k], c)]
    BY <1>4 DEF Settles
  <1> HIDE DEF n, first
  <1>6. h[0] = first /\ \A k \in 1..n : h[k] = Recover(h[k - 1], b.refused[k], c)
    BY <1>2, <1>10
  <1> DEFINE T == {k \in Nat : k <= n => Kept(h[k], s, F)}
  <1>7. 0 \in T
    BY <1>3, <1>6
  <1>8. ASSUME NEW k \in Nat, k \in T PROVE k + 1 \in T
    <2> SUFFICES ASSUME k + 1 <= n PROVE Kept(h[k + 1], s, F)
      OBVIOUS
    <2>1. k + 1 \in 1..n /\ (k + 1) - 1 = k /\ k <= n
      BY <1>2
    <2>2. h[k + 1] = Recover(h[k], b.refused[k + 1], c) /\ Kept(h[k], s, F)
      BY <1>6, <1>8, <2>1
    <2> QED
      BY <2>2, RecoverKeeps
  <1>9. Nat \subseteq T
    <2> HIDE DEF T
    <2> QED
      BY <1>7, <1>8, Induct
  <1> QED
    BY <1>2, <1>5, <1>9

-----------------------------------------------------------------------------
(* The invariant: while a taker order sent for the bag held now is on its way,
   the latch was set when it was sent or later, and the order is younger than
   any risk gate waits; there is no second one, and none at all while flat.  *)

\* When the latch was set.
Latch == st[LatchField]

\* The taker orders sent for the bag held now are younger than the latch lets the
\* gate fire again, and at most one.
Timely ==
    /\ \A o \in Closers : Latch # Never /\ o.at <= Latch /\ now - o.at <= MaxFlight
    /\ \A o, x \in Closers : o = x
    /\ pos = 0 => Closers = {}

\* What the steps need to be typed: nothing is set in the future.
Orderly ==
    /\ book \in Books /\ now \in Nat
    /\ IsFiniteSet(rest) /\ IsFiniteSet(flight)
    /\ \A o \in flight : {"at", "late"} \subseteq DOMAIN o /\ o.at \in Int
    /\ Shaped(st) /\ Latch \in Int /\ Latch <= now

\* The inductive invariant.
StrategyInv == which \in Latched => Orderly /\ Timely

\* Nothing is on its way at the start.
LEMMA InitOrderly == Init => StrategyInv
  <1> SUFFICES ASSUME Init, which \in Latched PROVE Orderly /\ Timely
    BY DEF StrategyInv
  <1>1. Shaped(st) /\ Latch = Never
    <2> USE DEF Init, FreshState, Shaped, Latch, LatchField
    <2>1. CASE which = "static_grid"
      BY <2>1 DEF StaticGridInit
    <2>2. CASE which = "layered_grid"
      <3>1. st = LayeredInit
        BY <2>2
      <3>4. st = [placed |-> FALSE, orders |-> << >>, closed |-> Never]
        BY <3>1 DEF LayeredInit
      <3>2. {"orders", "closed"} \subseteq DOMAIN st /\ st.orders = << >> /\ st.closed = Never
        <4> DEFINE e == << >>
        <4>1. st = [placed |-> FALSE, orders |-> e, closed |-> Never]
          BY <3>4
        <4> HIDE DEF e
        <4>2. {"orders", "closed"} \subseteq DOMAIN st /\ st.orders = e /\ st.closed = Never
          BY <4>1
        <4> QED
          BY <4>2 DEF e
      <3>3. IsSeq(st.orders)
        BY <3>2, NothingSeq, Zenon
      <3> QED
        BY <2>2, <3>2, <3>3 DEF Layers
    <2>3. CASE which = "hawk"
      BY <2>3 DEF HawkInit
    <2>4. CASE which = "keel"
      BY <2>4 DEF KeelInit, Keels, None
    <2>5. CASE which = "tidal"
      BY <2>5 DEF TidalInit
    <2>6. CASE which = "ratchet"
      BY <2>6 DEF RatchetInit, Ratchets
    <2>7. CASE which = "spread_scalp"
      BY <2>7 DEF SpreadInit
    <2> QED
      BY <2>1, <2>2, <2>3, <2>4, <2>5, <2>6, <2>7 DEF Latched
  <1>2. book \in Books /\ rest = {} /\ flight = {} /\ now = 1 /\ pos = 0
    BY DEF Init
  <1>3. Latch \in Int /\ Latch <= now
    BY <1>1, <1>2 DEF Never
  <1> QED
    BY <1>1, <1>2, <1>3, FS_EmptySet DEF Orderly, Timely, Closers

\* What the strategy is shown.
LEMMA Shows ==
    ASSUME Orderly
    PROVE  Quoted(Context) /\ Context.now = now /\ Context.pos = pos
  <1> DEFINE f == [o \in flight |-> [id |-> o.id, side |-> o.side, px |-> o.px, sz |-> o.sz]]
             S == {[id |-> o.id, side |-> o.side, px |-> o.px, sz |-> o.sz] : o \in flight}
  <1>1. S = {f[o] : o \in flight}
    OBVIOUS
  <1> HIDE DEF f
  <1>2. IsFiniteSet(S)
    <2> HIDE DEF S
    <2> QED
      BY <1>1, ImageFinite DEF Orderly
  <1>3. Context.open = rest \cup S /\ Context.bid = book.bid /\ Context.ask = book.ask
        /\ Context.now = now /\ Context.pos = pos
    BY DEF Context
  <1> HIDE DEF S
  <1>4. IsFiniteSet(rest \cup S)
    BY <1>2, FS_Union DEF Orderly
  <1>5. book.bid \in Int /\ book.ask \in Int
    BY BooksAssumption DEF Orderly
  <1> QED
    BY <1>3, <1>4, <1>5 DEF Quoted

\* A risk gate outwaits every taker order.
LEMMA GateWaits ==
    ASSUME which \in Latched
    PROVE  Retry \in Int /\ Retry > MaxFlight /\ MaxFlight \in Nat
  BY FlightAssumption DEF Retry, Latched

\* The same latch and shape in the state after.
LEMMA ShapedNext ==
    ASSUME which' = which, Shaped(st')
    PROVE  Shaped(st)' /\ Latch' = st'[LatchField]
  BY DEF Shaped, Latch, LatchField

\* The strategy has no part in a step of the market,
LEMMA MarketMoves ==
    ASSUME Orderly, Timely, MoveBook \/ Beat
    PROVE  Orderly' /\ Timely'
  <1>1. /\ which' = which /\ st' = st /\ rest' = rest /\ flight' = flight /\ pos' = pos
        /\ now' = now + 1 /\ \A o \in flight : now + 1 - o.at <= MaxFlight
        /\ book' \in Books
    BY DEF MoveBook, Beat, Pass, Orderly
  <1>2. Shaped(st)' /\ Latch' = Latch
    BY <1>1, ShapedNext DEF Orderly, Latch
  <1>3. Orderly'
    BY <1>1, <1>2 DEF Orderly
  <1>4. Closers' = Closers /\ Closers \subseteq flight
    BY <1>1 DEF Closers
  <1>5. \A o \in Closers : Latch # Never /\ o.at <= Latch /\ now' - o.at <= MaxFlight
    <2> SUFFICES ASSUME NEW o \in Closers
                 PROVE  Latch # Never /\ o.at <= Latch /\ now' - o.at <= MaxFlight
      OBVIOUS
    <2>1. o \in flight
      BY <1>4
    <2>2. now + 1 - o.at <= MaxFlight /\ now' = now + 1
      BY <1>1, <2>1
    <2>3. now' - o.at <= MaxFlight
      BY <2>1, <2>2, FlightAssumption DEF Orderly
    <2> QED
      BY <2>3 DEF Timely
  <1>6. Timely'
    BY <1>1, <1>2, <1>4, <1>5 DEF Timely
  <1> QED
    BY <1>3, <1>6

\* nor in another account's liquidation,
LEMMA ForcedKeeps == ASSUME Orderly, Timely, Forced PROVE Orderly' /\ Timely'
  <1>1. /\ which' = which /\ st' = st /\ rest' = rest /\ flight' = flight /\ pos' = pos
        /\ now' = now /\ book' = book
    BY DEF Forced
  <1>2. Shaped(st)' /\ Latch' = Latch
    BY <1>1, ShapedNext DEF Orderly, Latch
  <1>3. Closers' = Closers
    BY <1>1 DEF Closers
  <1> QED
    BY <1>1, <1>2, <1>3 DEF Orderly, Timely

\* nor in a taker order that is gone,
LEMMA ExpireKeeps == ASSUME Orderly, Timely, Expire PROVE Orderly' /\ Timely'
  <1>1. /\ which' = which /\ st' = st /\ rest' = rest /\ flight' \in SUBSET flight /\ pos' = pos
        /\ now' = now /\ book' = book
    BY DEF Expire, market
  <1>2. Shaped(st)' /\ Latch' = Latch
    BY <1>1, ShapedNext DEF Orderly, Latch
  <1>3. Closers' \subseteq Closers
    BY <1>1 DEF Closers
  <1>4. IsFiniteSet(flight')
    BY <1>1, FS_Subset DEF Orderly
  <1> QED
    BY <1>1, <1>2, <1>3, <1>4 DEF Orderly, Timely

\* nor in a fill, which leaves no closer behind once the bag is gone.
LEMMA BookKeeps ==
    ASSUME Orderly, Timely, IsFiniteSet(rest'),
           NEW side, NEW px, NEW n, NEW sz, NEW out \in SUBSET flight,
           Book(side, px, n, sz, out)
    PROVE  Orderly' /\ Timely'
  <1> DEFINE late == [o \in out |-> [o EXCEPT !.late = TRUE]]
             stale == {[o EXCEPT !.late = TRUE] : o \in out}
  <1>1. /\ which' = which /\ st' = st /\ now' = now /\ book' = book
        /\ \/ pos' = 0 /\ flight' = stale
           \/ pos' # 0 /\ flight' = out
    BY DEF Book
  <1>2. Shaped(st)' /\ Latch' = Latch
    BY <1>1, ShapedNext DEF Orderly, Latch
  <1>3. IsFiniteSet(out)
    BY FS_Subset DEF Orderly
  <1>4. IsFiniteSet(stale)
    <2>1. stale = {late[o] : o \in out}
      OBVIOUS
    <2> HIDE DEF stale, late
    <2> QED
      BY <1>3, <2>1, ImageFinite
  <1>5. \A o \in out : {"at", "late"} \subseteq DOMAIN o /\ o.at \in Int
    BY DEF Orderly
  <1>6. \A x \in stale : {"at", "late"} \subseteq DOMAIN x /\ x.at \in Int /\ x.late = TRUE
    BY <1>5
  <1> HIDE DEF stale, late
  <1>7. Orderly'
    BY <1>1, <1>2, <1>3, <1>4, <1>5, <1>6 DEF Orderly
  <1>8. CASE pos' = 0 /\ flight' = stale
    <2>1. Closers' = {}
      BY <1>6, <1>8 DEF Closers
    <2> QED
      BY <1>7, <2>1 DEF Timely
  <1>9. CASE pos' # 0 /\ flight' = out
    <2>1. Closers' \subseteq Closers
      BY <1>9 DEF Closers
    <2> QED
      BY <1>1, <1>2, <1>7, <1>9, <2>1 DEF Timely
  <1> QED
    BY <1>1, <1>8, <1>9

\* An order that rests fills,
LEMMA TakeRestingKeeps == ASSUME Orderly, Timely, TakeResting PROVE Orderly' /\ Timely'
  <1>0. PICK o \in rest : \E k \in {1, o.sz} :
          /\ rest' = (rest \ {o}) \cup (IF k < o.sz THEN {[o EXCEPT !.sz = @ - k]} ELSE {})
          /\ Book(o.side, o.px, k, o.sz, flight)
    BY DEF TakeResting
  <1>1. PICK n \in {1, o.sz} :
          /\ rest' = (rest \ {o}) \cup (IF n < o.sz THEN {[o EXCEPT !.sz = @ - n]} ELSE {})
          /\ Book(o.side, o.px, n, o.sz, flight)
    BY <1>0
  <1> DEFINE more == IF n < o.sz THEN {[o EXCEPT !.sz = @ - n]} ELSE {}
             less == rest \ {o}
  <1>2. IsFiniteSet(more)
    BY FS_Singleton, FS_EmptySet
  <1>3. less \in SUBSET rest
    OBVIOUS
  <1>4. rest' = less \cup more
    BY <1>1
  <1> HIDE DEF more, less
  <1>5. IsFiniteSet(rest')
    BY <1>2, <1>3, <1>4, FS_Subset, FS_Union DEF Orderly
  <1>6. flight \in SUBSET flight
    OBVIOUS
  <1> QED
    BY <1>1, <1>5, <1>6, BookKeeps

\* or a taker order does.
LEMMA LandKeeps == ASSUME Orderly, Timely, Land PROVE Orderly' /\ Timely'
  <1>0. PICK o \in flight : \E n : Book(o.side, Touch(book, Opp(o.side)), n, o.sz, flight \ {o})
    BY DEF Land
  <1>1. PICK n : Book(o.side, Touch(book, Opp(o.side)), n, o.sz, flight \ {o})
    BY <1>0
  <1>2. IsFiniteSet(rest')
    BY DEF Land, Orderly
  <1> DEFINE out == flight \ {o}
  <1>3. out \in SUBSET flight
    OBVIOUS
  <1>4. Book(o.side, Touch(book, Opp(o.side)), n, o.sz, out)
    BY <1>1
  <1> HIDE DEF out
  <1> QED
    BY <1>2, <1>3, <1>4, BookKeeps

\* A call sends a second taker order only once no other can be on its way.
LEMMA CallKeeps ==
    ASSUME which \in Latched, Orderly, Timely, Call
    PROVE  Orderly' /\ Timely'
  <1> DEFINE out == OnEvent(st, Context)
  <1>1. PICK fault : LET placed == IF fault = "lost" THEN Batch ELSE Apply(Batch, out.acts, fault)
                         done == Settle(out.st, placed, Context)
                     IN  st' = done.st /\ rest' = done.b.rest /\ flight' = done.b.flight
    BY DEF Call
  <1>2. which' = which /\ now' = now /\ pos' = pos /\ book' = book
    BY DEF Call, market
  <1>3. Answers(st, LatchField, Context, Retry, out) /\ Shaped(out.st)
    BY Shows, EventAnswers DEF Orderly, Latch
  <1> DEFINE placed == IF fault = "lost" THEN Batch ELSE Apply(Batch, out.acts, fault)
             done == Settle(out.st, placed, Context)
  <1>4. Holds(Batch, flight)
    <2> DEFINE e == << >>
    <2>1. IsSeq(e) /\ Batch = [rest |-> rest, flight |-> flight, refused |-> e]
      BY NothingSeq DEF Batch
    <2> HIDE DEF e
    <2> QED
      BY <2>1 DEF Holds, Orderly
  <1>5. st' = done.st /\ rest' = done.b.rest /\ flight' = done.b.flight
    BY <1>1
  <1> HIDE DEF out
  <1>6. ASSUME NEW G, Holds(placed, G)
        PROVE  flight' = G /\ IsFiniteSet(rest') /\ Shaped(st') /\ st'[LatchField] = out.st[LatchField]
    <2> HIDE DEF placed
    <2>1. Kept(done, out.st, G)
      BY <1>3, <1>6, SettleKeeps
    <2> HIDE DEF done
    <2>2. PICK r, q : done.b = [rest |-> r, flight |-> G, refused |-> q] /\ IsFiniteSet(r)
      BY <2>1 DEF Kept, Holds
    <2> QED
      BY <1>5, <2>1, <2>2 DEF Kept
  <1> HIDE DEF done
  <1>7. ASSUME NEW G, Holds(placed, G), IsFiniteSet(G),
               \A o \in G : {"at", "late"} \subseteq DOMAIN o /\ o.at \in Int,
               out.st[LatchField] \in Int, out.st[LatchField] <= now
        PROVE  Orderly' /\ Latch' = out.st[LatchField] /\ flight' = G
    BY <1>2, <1>6, <1>7, ShapedNext DEF Orderly
  <1>8. CASE Makers(out.acts) /\ (out.st[LatchField] = Latch \/ (pos = 0 /\ out.st[LatchField] = Never))
    <2>1. Holds(placed, flight)
      BY <1>4, <1>8, MakersApplied
    <2>2. out.st[LatchField] \in Int /\ out.st[LatchField] <= now
      BY <1>8 DEF Orderly, Never
    <2>3. Orderly' /\ Latch' = out.st[LatchField] /\ flight' = flight
      BY <1>7, <2>1, <2>2 DEF Orderly
    <2>4. Closers' = Closers
      BY <2>3 DEF Closers
    <2> QED
      BY <1>2, <1>8, <2>3, <2>4 DEF Timely
  <1>9. CASE /\ OneTaker(out.acts) /\ pos # 0 /\ out.st[LatchField] = now
             /\ Latch = Never \/ ~(now - Latch < Retry)
    <2>1. Closers = {}
      <3>1. Closers \subseteq flight
        BY DEF Closers
      <3>2. ASSUME NEW o \in Closers PROVE FALSE
        <4>1. /\ Latch # Never /\ o.at <= Latch /\ now - o.at <= MaxFlight
              /\ o.at \in Int /\ Latch \in Int /\ now \in Int
          BY <3>1, <3>2 DEF Timely, Orderly
        <4> QED
          BY <1>9, <4>1, GateWaits
      <3> QED
        BY <3>2
    <2>2. now \in Int /\ now # Never /\ now - now <= MaxFlight
      BY GateWaits DEF Orderly, Never
    <2>3. CASE Holds(placed, flight)
      <3>1. Orderly' /\ Latch' = now /\ flight' = flight
        BY <1>7, <1>9, <2>2, <2>3 DEF Orderly
      <3>2. Closers' = {}
        BY <2>1, <3>1 DEF Closers
      <3> QED
        BY <3>1, <3>2 DEF Timely
    <2>4. CASE OneMore(placed, flight)
      <3>1. PICK x : Fresh(x) /\ Holds(placed, flight \cup {x})
        BY <2>4 DEF OneMore
      <3> DEFINE G == flight \cup {x}
      <3>2. IsFiniteSet(G) /\ \A o \in G : {"at", "late"} \subseteq DOMAIN o /\ o.at \in Int
        BY <2>2, <3>1, FS_AddElement DEF Orderly, Fresh
      <3>3. Orderly' /\ Latch' = now /\ flight' = G
        <4> HIDE DEF G
        <4>1. Holds(placed, G)
          BY <3>1 DEF G
        <4> QED
          BY <1>7, <1>9, <2>2, <3>2, <4>1
      <3>4. Closers' \subseteq {x}
        BY <2>1, <3>3 DEF Closers
      <3>5. x.at = now
        BY <3>1 DEF Fresh
      <3> QED
        BY <1>2, <1>9, <2>2, <3>3, <3>4, <3>5 DEF Timely
    <2>5. Holds(placed, flight) \/ OneMore(placed, flight)
      BY <1>4, <1>9, OneApplied
    <2> QED
      BY <2>3, <2>4, <2>5
  <1> QED
    BY <1>3, <1>8, <1>9, Shows DEF Answers, Mild, Rearms, Closes, Latch

\* No step breaks the invariant.
LEMMA StepsOrderly == StrategyInv /\ [Next]_vars => StrategyInv'
  <1> SUFFICES ASSUME StrategyInv, [Next]_vars, which' \in Latched PROVE Orderly' /\ Timely'
    BY DEF StrategyInv
  <1>1. which' = which
    BY DEF Next, vars, market, MoveBook, Beat, Forced, TakeResting, Land, Book, Expire, Call
  <1>2. which \in Latched /\ Orderly /\ Timely
    BY <1>1 DEF StrategyInv
  <1>3. CASE Next
    BY <1>2, <1>3, MarketMoves, ForcedKeeps, TakeRestingKeeps, LandKeeps, ExpireKeeps, CallKeeps DEF Next
  <1>4. CASE UNCHANGED vars
    <2>1. /\ which' = which /\ st' = st /\ rest' = rest /\ flight' = flight /\ pos' = pos
          /\ now' = now /\ book' = book
      BY <1>4 DEF vars, market
    <2>2. Shaped(st)' /\ Latch' = Latch
      BY <1>2, <2>1, ShapedNext DEF Orderly, Latch
    <2>3. Closers' = Closers
      BY <2>1 DEF Closers
    <2> QED
      BY <1>2, <2>1, <2>2, <2>3 DEF Orderly, Timely
  <1> QED
    BY <1>3, <1>4

\* No bag has two closing taker orders on their way at once: the latches
\* (`last_risk_close_ts_ns`, `last_close_ts_ns`, `last_sl_close_ts_ns`, keel's flip
\* cooldown) hold off a second close while the position report is stale.
THEOREM ClosesOnce == Spec => []OneClose
  <1>1. StrategyInv => OneClose
    <2> SUFFICES ASSUME which \in Latched, Orderly, Timely PROVE Cardinality(Closers) <= 1
      BY DEF StrategyInv, OneClose
    <2>1. CASE Closers = {}
      BY <2>1, FS_EmptySet
    <2>2. CASE Closers # {}
      <3>1. PICK o : o \in Closers
        BY <2>2
      <3>2. Closers = {o}
        BY <3>1 DEF Timely
      <3>3. Cardinality({o}) = 1
        BY FS_Singleton
      <3> QED
        BY <3>2, <3>3
    <2> QED
      BY <2>1, <2>2
  <1> QED
    BY <1>1, InitOrderly, StepsOrderly, PTL DEF Spec
=============================================================================
