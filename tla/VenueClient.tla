---------------------------- MODULE VenueClient ----------------------------
(***************************************************************************)
(* The clients through which a runner trades: the Binance client (spot,    *)
(* futures over REST, futures over the WebSocket order API with its actor  *)
(* task) and the Hyperliquid client.  A runner's calls become requests,    *)
(* requests are executed by the venue or refused or lost, and answers come *)
(* back, late or never.  The client keeps one piece of state, the map from *)
(* the ids it returned to the client order ids the venue wants back; this  *)
(* module is about what that map and the transport promise the runner.     *)
(***************************************************************************)
EXTENDS Integers, Sequences, FiniteSets, Functions

CONSTANTS Venues,     \* which clients: a subset of {"spot", "rest", "ws", "hyper"}
          Callers,    \* the tasks with a call in progress: join_all's, join!'s branches
          Slots,      \* outstanding requests; for ws, the bounded command channel
          MaxOrders,  \* bound on the orders the venue ever accepts
          Batches,    \* the intents of the batches placed
          Chunk,      \* the venue's orders per batch request (5)
          Window      \* recvWindow, and ws_order's reply timeout: 5 s both

ASSUME ClientAssumption ==
    /\ Venues \subseteq {"spot", "rest", "ws", "hyper"}
    /\ Chunk \in Nat \ {0} /\ Window \in Nat \ {0} /\ MaxOrders \in Nat
    /\ Slots \subseteq Nat \ {0}
    /\ Batches \subseteq Seq([side : {"bid", "ask"}, price : Nat])

VARIABLES venue,
          orders,   \* the venue's book of ours: state, price (within a batch, which
                    \* is where it tells orders apart) and the resting order it doubles
          tracked,  \* quote_symbols: the ids the client can cancel
          told,     \* ids a quote returned to the runner
          listed,   \* ids open_orders returned to the runner
          acked,    \* orders that rested when their cancel returned Ok
          calls,    \* per caller: the elements still to send and the awaited request
          slots,    \* per result slot of the batch in progress: the id it was given
          batch,    \* the intents of the batch in progress
          cmds,     \* the requests in flight
          queue,    \* ws: the channel to the actor
          link      \* ws: the actor's socket

vars == <<venue, orders, tracked, told, listed, acked, calls, slots, batch,
          cmds, queue, link>>

OrderIds == 1 .. MaxOrders
Futures == venue \in {"rest", "ws"}
Mapped == venue # "hyper"     \* hyper's ids are the venue's oids: no map
Open(i) == i \in OrderIds /\ orders[i].st = "open"
OpenIds == {i \in OrderIds : Open(i)}
Known == told \cup listed

(* What is remembered of a cancel's Ok: the order if it rests, and whether *)
(* the runner has its id from a quote.                                     *)
Resting(acks, book) == {m \in acks : book[m.id].st = "open"}
Acks(ids) == {[id |-> i, told |-> i \in told] : i \in ids \cap OpenIds}

(* One order of one request.  "own" marks a place whose id goes back to    *)
(* the runner: requote discards the id of its fallback placement.          *)
Place(slot, price, own, repl) ==
    [kind |-> "place", slot |-> slot, id |-> 0, price |-> price, own |-> own, repl |-> repl]
Act(kind, slot, id) ==
    [kind |-> kind, slot |-> slot, id |-> id, price |-> 0, own |-> FALSE, repl |-> id]

Ended(order) == [order EXCEPT !.st = "gone", !.twin = 0]
Idle == [op |-> "idle", plan |-> <<>>, req |-> 0, before |-> {}]
Free == [by |-> "", els |-> <<>>, st |-> "free", age |-> 0, stamp |-> 0, ans |-> <<>>]
FreeSlots == {k \in Slots : cmds[k].st = "free"}
Waits(c, k) == calls[c].req = k
Waited(k) == \E c \in Callers : Waits(c, k)

(* What travels over the actor's socket; everything else is a REST request *)
(* also for a ws client.                                                   *)
OverWs(els) == venue = "ws" /\ Head(els).kind \in {"place", "modify", "cancel"}

Init ==
    /\ venue \in Venues
    /\ orders = [i \in OrderIds |-> [st |-> "none", price |-> 0, twin |-> 0]]
    /\ tracked = {} /\ told = {} /\ listed = {} /\ acked = {}
    /\ calls = [c \in Callers |-> Idle]
    /\ slots = <<>> /\ batch = <<>>
    /\ cmds = [k \in Slots |-> Free] /\ queue = <<>> /\ link = "up"

-----------------------------------------------------------------------------
(* The calls.                                                              *)

(* Which calls are in progress together: the placements of one join_all    *)
(* (requotes and cancels of a batch are of different orders and share      *)
(* nothing), and the placement the comment in open_orders has in mind.     *)
Together == {{"quote"}, {"quote", "list"}}
MayBegin(c, op) ==
    /\ calls[c] = Idle /\ batch = <<>>
    /\ \A d \in Callers : calls[d] = Idle \/ {op, calls[d].op} \in Together

Begin(c, op, plan, before) ==
    /\ MayBegin(c, op)
    /\ calls' = [calls EXCEPT ![c] =
                     [op |-> op, plan |-> plan, req |-> 0, before |-> before]]

(* quote and reduce_only_limit: one order, rounded and validated first.    *)
Quote(c) ==
    /\ Begin(c, "quote", << <<Place(0, 0, TRUE, 0)>> >>, {})
    /\ UNCHANGED <<venue, orders, tracked, told, listed, acked, slots, batch,
                   cmds, queue, link>>

(* What requote sends first: a modify on futures, a cancel elsewhere, and  *)
(* nothing but the fresh order for an id it cannot name to the venue.      *)
RequotePlan(slot, i) ==
    CASE Futures -> << <<Act("modify", slot, i)>> >>
      [] venue = "spot" /\ i \notin tracked -> << <<Place(slot, 0, FALSE, 0)>> >>
      [] OTHER -> << <<Act("swap", slot, i)>> >>

Requote(c, i) ==
    /\ i \in Known
    /\ Begin(c, "requote", RequotePlan(0, i), {})
    /\ UNCHANGED <<venue, orders, tracked, told, listed, acked, slots, batch,
                   cmds, queue, link>>

(* A set's elements as a list, in an order nothing depends on.             *)
Listing(S) == CHOOSE f \in Bijection(1 .. Cardinality(S), S) : TRUE

(* batch_requote over REST: one request for all; refused as a whole, each  *)
(* element is retried on its own through requote.                          *)
BatchRequote(c, ids) ==
    /\ ids \subseteq Known /\ venue = "rest" /\ Cardinality(ids) > 1
    /\ LET els == [n \in 1 .. Cardinality(ids) |->
                      Act("modify", n, Listing(ids)[n])]
       IN  Begin(c, "requotes", <<els>>, {})
    /\ UNCHANGED <<venue, orders, tracked, told, listed, acked, slots, batch,
                   cmds, queue, link>>

(* cancel: an id without an entry is taken for one already cancelled, and  *)
(* no request is sent.  Hyperliquid looks the oid up among its open orders.*)
Cancel(c, i) ==
    /\ MayBegin(c, "cancel") /\ i \in Known
    /\ \/ /\ Mapped /\ i \notin tracked
          /\ acked' = acked \cup Acks({i})
          /\ UNCHANGED calls
       \/ /\ Mapped /\ i \in tracked
          /\ Begin(c, "cancel", << <<Act("cancel", 0, i)>> >>, {})
          /\ UNCHANGED acked
       \/ /\ ~Mapped
          /\ Begin(c, "cancel", << <<Act("find", 0, i)>> >>, {})
          /\ UNCHANGED acked
    /\ UNCHANGED <<venue, orders, tracked, told, listed, slots, batch, cmds,
                   queue, link>>

(* batch_cancel over REST: ids without an entry are Ok, the others share a *)
(* request (10 a request, more than the model's ids).                      *)
BatchCancel(c, ids) ==
    /\ MayBegin(c, "cancels") /\ venue = "rest" /\ ids \subseteq Known /\ Cardinality(ids) > 1
    /\ LET known == ids \cap tracked
           els == [n \in 1 .. Cardinality(known) |-> Act("cancel", n, Listing(known)[n])]
       IN  /\ acked' = acked \cup Acks(ids \ tracked)
           /\ IF known = {} THEN UNCHANGED calls ELSE Begin(c, "cancels", <<els>>, {})
    /\ UNCHANGED <<venue, orders, tracked, told, listed, slots, batch, cmds,
                   queue, link>>

(* cancel_all: one request at Binance, look-up then bulk cancel elsewhere. *)
CancelAll(c) ==
    /\ LET kind == IF Mapped THEN "cancelAll" ELSE "findAll"
       IN  Begin(c, "cancelAll", << <<Act(kind, 0, 0)>> >>, {})
    /\ UNCHANGED <<venue, orders, tracked, told, listed, acked, slots, batch,
                   cmds, queue, link>>

(* open_orders: the ids tracked before the fetch are remembered, so that   *)
(* an order placed while it is in flight survives the prune.  Spot answers *)
(* with nothing.                                                           *)
OpenOrders(c) ==
    /\ venue # "spot"
    /\ Begin(c, "list", << <<Act("list", 0, 0)>> >>, tracked)
    /\ UNCHANGED <<venue, orders, tracked, told, listed, acked, slots, batch,
                   cmds, queue, link>>

-----------------------------------------------------------------------------
(* batch_quote: over REST the two sides go out side by side, each from the *)
(* touch outward in requests of Chunk orders, and every answer is put back *)
(* in the slot of the intent it belongs to; over ws every intent is a call *)
(* of its own.                                                             *)

Better(s, b, m, n) ==
    \/ IF s = "bid" THEN b[m].price > b[n].price ELSE b[m].price < b[n].price
    \/ b[m].price = b[n].price /\ m < n

(* The list of one side's slots, best price first, as the only such list.   *)
SideSlots(b, good, s) ==
    LET mine == {n \in good : b[n].side = s}
    IN  {run \in [1 .. Cardinality(mine) -> mine] :
            \A m, n \in DOMAIN run : m < n => Better(s, b, run[m], run[n])}

Chunks(sq) ==
    [j \in 1 .. (Len(sq) + Chunk - 1) \div Chunk |->
        SubSeq(sq, (j - 1) * Chunk + 1,
               IF j * Chunk < Len(sq) THEN j * Chunk ELSE Len(sq))]

SideBatchesResorted(b, run) ==
    Chunks([m \in DOMAIN run |-> Place(m, b[run[m]].price, TRUE, 0)])

SideBatches(b, run) ==
    Chunks([m \in DOMAIN run |-> Place(run[m], b[run[m]].price, TRUE, 0)])

(* good are the intents whose rounding and validation succeed: the others  *)
(* are errors in their slots and are not sent.                             *)
BatchQuote(b, good) ==
    /\ batch = <<>> /\ \A c \in Callers : calls[c] = Idle
    /\ venue \in {"rest", "ws"}
    /\ batch' = b /\ slots' = [n \in DOMAIN b |-> 0]
    /\ \E legs \in [Callers -> {"bid", "ask"}],
          bids \in SideSlots(b, good, "bid"), asks \in SideSlots(b, good, "ask") :
          /\ \A c, d \in Callers : c # d => legs[c] # legs[d]
          /\ calls' = [c \in Callers |->
                LET run  == IF legs[c] = "bid" THEN bids ELSE asks
                    plan == IF venue = "rest" THEN SideBatches(b, run)
                            ELSE [m \in DOMAIN run |->
                                    <<Place(run[m], b[run[m]].price, TRUE, 0)>>]
                IN IF plan = <<>> THEN Idle
                   ELSE [op |-> "batch", plan |-> plan, req |-> 0, before |-> {}]]
    /\ UNCHANGED <<venue, orders, tracked, told, listed, acked, cmds, queue, link>>

(* The results have been handed to the runner.                             *)
BatchDone ==
    /\ batch # <<>> /\ \A c \in Callers : calls[c] = Idle
    /\ batch' = <<>> /\ slots' = <<>>
    /\ orders' = [i \in OrderIds |-> [orders[i] EXCEPT !.price = 0]]
    /\ UNCHANGED <<venue, tracked, told, listed, acked, calls, cmds,
                   queue, link>>

-----------------------------------------------------------------------------
(* Requests.  Every request carries the time it was built (stamp): the     *)
(* venue refuses one older than recvWindow.                                *)

Ready(c) == calls[c].plan # <<>> /\ calls[c].req = 0 /\ FreeSlots # {}

Request(c) ==
    /\ Ready(c)
    /\ LET k == CHOOSE n \in FreeSlots : \A m \in FreeSlots : n <= m
       IN  /\ cmds' = [cmds EXCEPT ![k] =
                 [by |-> c, els |-> Head(calls[c].plan),
                  st |-> IF OverWs(Head(calls[c].plan)) THEN "queued" ELSE "wire",
                  age |-> 0, stamp |-> 0, ans |-> <<>>]]
           /\ calls' = [calls EXCEPT ![c].plan = Tail(@), ![c].req = k]
           /\ queue' = IF OverWs(Head(calls[c].plan)) THEN Append(queue, k) ELSE queue
    /\ UNCHANGED <<venue, orders, tracked, told, listed, acked, slots, batch, link>>

(* A request nobody waits for any more: what counts is what it would still *)
(* do to the book.                                                         *)
Orphan(cmd) ==
    [cmd EXCEPT !.by = "", !.els = [n \in DOMAIN @ |->
        [@[n] EXCEPT !.slot = 0, !.own = FALSE, !.price = 0]]]

Lost(cmd) ==
    IF cmd.stamp > Window \/ \A n \in DOMAIN cmd.els :
           cmd.els[n].kind \notin {"place", "cancel", "swap", "cancelAll"}
    THEN Free ELSE Orphan([cmd EXCEPT !.st = "lost"])

(* The actor takes the next command off the channel and writes it to the   *)
(* socket, whether or not its caller still waits; with nobody waiting, the *)
(* request is as good as lost: its answer finds no receiver.               *)
SendRestamped ==
    /\ link = "up" /\ queue # <<>>
    /\ cmds' = [cmds EXCEPT ![Head(queue)] =
                   IF Waited(Head(queue)) THEN [@ EXCEPT !.st = "wire", !.stamp = 0]
                   ELSE Lost([@ EXCEPT !.stamp = 0])]
    /\ queue' = Tail(queue)
    /\ UNCHANGED <<venue, orders, tracked, told, listed, acked, calls, slots,
                   batch, link>>

Send ==
    /\ link = "up" /\ queue # <<>>
    /\ cmds' = [cmds EXCEPT ![Head(queue)] =
                   IF Waited(Head(queue)) THEN [@ EXCEPT !.st = "wire"] ELSE Lost(@)]
    /\ queue' = Tail(queue)
    /\ UNCHANGED <<venue, orders, tracked, told, listed, acked, calls, slots,
                   batch, link>>

(* The venue's answer to one element, given the book after the ones before *)
(* it.  yes: the venue accepts what it may refuse (crossing, balance, ...).*)
Execute1(s, e, yes) ==
    LET free == {i \in OrderIds : s.orders[i].st = "none"}
        new == CHOOSE i \in free : \A j \in free : i <= j
        open == e.id \in OrderIds /\ s.orders[e.id].st = "open"
        rows == {i \in OrderIds : s.orders[i].st = "open"}
        say(a) == [s EXCEPT !.ans = Append(@, a)]
    IN  CASE e.kind = "place" /\ yes /\ free # {} ->
               [orders |-> [s.orders EXCEPT ![new] =
                   [st |-> "open", price |-> e.price,
                    twin |-> IF e.repl \in rows THEN e.repl ELSE 0]],
                ans |-> Append(s.ans, [ok |-> TRUE, id |-> new])]
          [] e.kind = "modify" /\ open /\ yes ->
               say([ok |-> TRUE, id |-> e.id])
          [] e.kind \in {"cancel", "swap"} /\ open /\ yes ->
               [orders |-> [s.orders EXCEPT ![e.id] = Ended(@)],
                ans |-> Append(s.ans, [ok |-> TRUE, id |-> e.id])]
          [] e.kind \in {"modify", "cancel", "swap"} /\ ~open ->
               say([ok |-> FALSE, id |-> e.id])      \* -2011/-2013: UnknownQuote
          [] e.kind = "cancelAll" /\ yes ->
               [orders |-> [i \in OrderIds |-> IF s.orders[i].st = "open"
                                THEN Ended(s.orders[i]) ELSE s.orders[i]],
                ans |-> Append(s.ans, [ok |-> TRUE, id |-> 0])]
          [] e.kind \in {"list", "find", "findAll"} ->
               say([ok |-> TRUE, rows |-> rows])
          [] OTHER -> say([ok |-> FALSE, id |-> 0])

(* The book and the answers after the elements, each in its turn.          *)
Executed(els, yes) ==
    LET after[n \in 0 .. Len(els)] ==
            IF n = 0 THEN [orders |-> orders, ans |-> <<>>]
            ELSE Execute1(after[n - 1], els[n], yes[n])
    IN  after[Len(els)]

(* The venue executes a request, unless it is older than recvWindow (the   *)
(* Hyperliquid API has no window).                                         *)
Execute(k) ==
    LET cmd == cmds[k] IN
    /\ cmd.st \in {"wire", "lost"}
    /\ cmd.stamp <= Window \/ venue = "hyper"
    /\ \E yes \in [DOMAIN cmd.els -> BOOLEAN] :
          LET end == Executed(cmd.els, yes)
          IN  /\ orders' = end.orders
              /\ acked' = Resting(acked, end.orders)
              /\ cmds' = [cmds EXCEPT ![k] =
                     IF cmd.st = "lost" THEN Free
                     ELSE [@ EXCEPT !.st = "answered", !.ans = end.ans]]
    /\ UNCHANGED <<venue, tracked, told, listed, calls, slots, batch, queue, link>>

(* A request whose connection is gone never arrives.                       *)
Vanish(k) ==
    /\ cmds[k].st = "lost"
    /\ cmds' = [cmds EXCEPT ![k] = Free]
    /\ UNCHANGED <<venue, orders, tracked, told, listed, acked, calls, slots,
                   batch, queue, link>>

(* An order of ours fills (or the venue expires it).                       *)
Fill(i) ==
    /\ Open(i)
    /\ orders' = [orders EXCEPT ![i] = Ended(@)]
    /\ acked' = Resting(acked, orders')
    /\ UNCHANGED <<venue, tracked, told, listed, calls, slots, batch,
                   cmds, queue, link>>

-----------------------------------------------------------------------------
(* Answers.  What the client makes of one element's answer: changes to the *)
(* map and to what the runner knows, and what it sends next for it.        *)

Nothing == [add |-> {}, drop |-> {}, tell |-> {}, list |-> {}, ack |-> {},
            slot |-> 0, more |-> <<>>]

Placed(e, a) ==
    IF a.ok THEN [Nothing EXCEPT !.add = IF Mapped THEN {a.id} ELSE {},
                                 !.tell = IF e.own THEN {a.id} ELSE {},
                                 !.slot = a.id]
    ELSE Nothing

(* A modify that finds the order gone places a fresh one; any other refusal*)
(* is returned.                                                            *)
Modified(e, a) ==
    IF ~a.ok /\ a.id = e.id
    THEN [Nothing EXCEPT !.drop = {e.id},
                         !.more = << <<Place(e.slot, 0, FALSE, e.id)>> >>]
    ELSE Nothing

(* Cancelled, or never there: both are Ok.                                 *)
Gone(e, a) == a.ok \/ a.id = e.id

Cancelled(e, a) ==
    IF Gone(e, a) THEN [Nothing EXCEPT !.drop = {e.id}, !.ack = {e.id}] ELSE Nothing

(* The cancel half of requote.  Spot goes on to the new order whatever the *)
(* cancel said; Hyperliquid only once the old order is gone.               *)
SwappedAnyway(e, a) ==
    [Nothing EXCEPT !.drop = {e.id},
                    !.more = << <<Place(e.slot, 0, FALSE, e.id)>> >>]

Swapped(e, a) ==
    [Nothing EXCEPT
        !.drop = IF Gone(e, a) THEN {e.id} ELSE {},
        !.more = IF Gone(e, a) \/ venue = "spot"
                 THEN << <<Place(e.slot, 0, FALSE, e.id)>> >> ELSE <<>>]

(* cancel_by_oid_raw: an oid that is not among the open orders is Ok.      *)
Found(e, a) ==
    IF e.id \in a.rows THEN [Nothing EXCEPT !.more = << <<Act("cancel", 0, e.id)>> >>]
    ELSE [Nothing EXCEPT !.ack = {e.id}]

FoundAll(a) ==
    IF a.rows = {} THEN Nothing
    ELSE [Nothing EXCEPT !.more =
             << [n \in 1 .. Cardinality(a.rows) |-> Act("cancel", 0, Listing(a.rows)[n])] >>]

(* open_orders prunes the entries that were tracked before the fetch and   *)
(* are no longer open.                                                     *)
PrunedAll(before, rows) == tracked \ rows
Pruned(before, rows) == before \ rows

Listed(before, a) ==
    [Nothing EXCEPT !.drop = IF Mapped THEN Pruned(before, a.rows) ELSE {},
                    !.list = a.rows]

Handle(call, e, a) ==
    CASE e.kind = "place" -> Placed(e, a)
      [] e.kind = "modify" -> Modified(e, a)
      [] e.kind = "cancel" -> Cancelled(e, a)
      [] e.kind = "swap" -> Swapped(e, a)
      [] e.kind = "find" /\ a.ok -> Found(e, a)
      [] e.kind = "findAll" /\ a.ok -> FoundAll(a)
      [] e.kind = "list" /\ a.ok -> Listed(call.before, a)
      [] OTHER -> Nothing

(* The whole request failed: nobody knows what the venue did with it.      *)
Failed(call, e) ==
    CASE e.kind = "swap" /\ venue = "spot" ->
           [Nothing EXCEPT !.more = << <<Place(e.slot, 0, FALSE, e.id)>> >>]
      [] e.kind = "modify" /\ call.op = "requotes" ->
           [Nothing EXCEPT !.more = RequotePlan(e.slot, e.id)]
      [] OTHER -> Nothing

(* What the results of a request's elements make the caller send next.     *)
More(res) ==
    LET more[n \in 0 .. Len(res)] == IF n = 0 THEN <<>> ELSE more[n - 1] \o res[n].more
    IN  more[Len(res)]

(* The caller goes on with the results of its request's elements.  Retries *)
(* of a failed batch are single requotes.                                  *)
Resume(c, res, failed) ==
    LET call == calls[c]
        els == cmds[call.req].els
        plan == More(res) \o call.plan
    IN  /\ tracked' = (tracked \ UNION {res[n].drop : n \in DOMAIN res})
                      \cup UNION {res[n].add : n \in DOMAIN res}
        /\ told' = told \cup UNION {res[n].tell : n \in DOMAIN res}
        /\ listed' = (listed \cup UNION {res[n].list : n \in DOMAIN res}) \ told'
        /\ acked' = acked \cup Acks(UNION {res[n].ack : n \in DOMAIN res})
        /\ slots' = [s \in DOMAIN slots |->
              IF call.op = "batch" /\ \E n \in DOMAIN res : els[n].slot = s
              THEN res[CHOOSE n \in DOMAIN res : els[n].slot = s].slot ELSE slots[s]]
        /\ calls' = [calls EXCEPT ![c] =
              IF plan = <<>> THEN Idle
              ELSE [call EXCEPT !.req = 0, !.plan = plan,
                      !.op = IF failed /\ call.op = "requotes" THEN "requote" ELSE call.op]]

Results(call, cmd) == [n \in DOMAIN cmd.els |-> Handle(call, cmd.els[n], cmd.ans[n])]

Failures(call, els) == [n \in DOMAIN els |-> Failed(call, els[n])]

(* An answer arrives; the actor finds its caller by the request's id.      *)
Answer(c) ==
    /\ calls[c].req # 0 /\ cmds[calls[c].req].st = "answered"
    /\ Resume(c, Results(calls[c], cmds[calls[c].req]), FALSE)
    /\ cmds' = [cmds EXCEPT ![calls[c].req] = Free]
    /\ UNCHANGED <<venue, orders, batch, queue, link>>

(* It refuses the request as a whole: out of recvWindow (-1021), too many  *)
(* requests (429, -1003, a 403 of the edge), malformed.                    *)
Refuse(c) ==
    /\ calls[c].req # 0 /\ cmds[calls[c].req].st = "wire"
    /\ Resume(c, Failures(calls[c], cmds[calls[c].req].els), TRUE)
    /\ cmds' = [cmds EXCEPT ![calls[c].req] = Free]
    /\ UNCHANGED <<venue, orders, batch, queue, link>>

(* The caller stops waiting.  What was sent may still reach the venue, and *)
(* what is in the channel will be sent.                                    *)
Abandon(cmd) ==
    CASE cmd.st = "answered" -> Free
      [] cmd.st = "wire" -> Lost(cmd)
      [] OTHER -> Orphan(cmd)

GiveUp(c) ==
    /\ Resume(c, Failures(calls[c], cmds[calls[c].req].els), TRUE)
    /\ cmds' = [cmds EXCEPT ![calls[c].req] = Abandon(@)]
    /\ UNCHANGED <<venue, orders, batch, queue, link>>

(* REST: the connection fails or the client's 15 s are over.               *)
Disconnect(c) ==
    /\ calls[c].req # 0 /\ ~OverWs(cmds[calls[c].req].els)
    /\ GiveUp(c)

(* ws: no reply within 5 s of the request.                                 *)
Expired(c) ==
    /\ calls[c].req # 0 /\ OverWs(cmds[calls[c].req].els)
    /\ cmds[calls[c].req].age >= Window

Timeout(c) == Expired(c) /\ GiveUp(c)

(* ws: the socket closes.  Every command written to it fails its caller at *)
(* once; the ones still in the channel wait for the next connection.       *)
Written == {k \in Slots : cmds[k].st \in {"wire", "answered"} /\ OverWs(cmds[k].els)}

Drop ==
    /\ venue = "ws" /\ link = "up"
    /\ link' = "down"
    /\ cmds' = [k \in Slots |-> IF k \in Written THEN Abandon(cmds[k]) ELSE cmds[k]]
    /\ calls' = [c \in Callers |->
          IF calls[c].req \in Written
          THEN IF calls[c].plan = <<>> THEN Idle ELSE [calls[c] EXCEPT !.req = 0]
          ELSE calls[c]]
    /\ UNCHANGED <<venue, orders, tracked, told, listed, acked, slots, batch, queue>>

(* Back off, connect, log on.                                              *)
Reconnect ==
    /\ link = "down" /\ link' = "up"
    /\ UNCHANGED <<venue, orders, tracked, told, listed, acked, calls, slots,
                   batch, cmds, queue>>

(* Time passes; a timer that is due fires first.                           *)
Older(n) == IF n > Window THEN n ELSE n + 1

Tick ==
    /\ venue = "ws" /\ \A c \in Callers : ~Expired(c)
    /\ \E k \in Slots : cmds[k].st # "free" /\ cmds[k].age <= Window
    /\ cmds' = [k \in Slots |->
          IF cmds[k].st = "free" \/ (cmds[k].st = "lost" /\ cmds[k].stamp >= Window)
          THEN Free
          ELSE [cmds[k] EXCEPT !.age = Older(@), !.stamp = Older(@)]]
    /\ UNCHANGED <<venue, orders, tracked, told, listed, acked, calls, slots,
                   batch, queue, link>>

-----------------------------------------------------------------------------
Call(c) ==
    \/ Quote(c)
    \/ \E i \in Known : Requote(c, i) \/ Cancel(c, i)
    \/ \E ids \in SUBSET Known : BatchRequote(c, ids) \/ BatchCancel(c, ids)
    \/ CancelAll(c)
    \/ OpenOrders(c)

(* A call and its request are one step of the task: nothing awaits between.*)
Quiet == \A c \in Callers : ~Ready(c)

Next ==
    \/ \E c \in Callers : Request(c)
    \/ \E c \in Callers : Quiet /\ Call(c)
    \/ \E b \in Batches : \E good \in SUBSET DOMAIN b : Quiet /\ BatchQuote(b, good)
    \/ Quiet /\ BatchDone
    \/ \E c \in Callers : Quiet /\ Answer(c)
    \/ \E c \in Callers : Quiet /\ Refuse(c)
    \/ \E c \in Callers : Quiet /\ Disconnect(c)
    \/ \E c \in Callers : Quiet /\ Timeout(c)
    \/ \E k \in Slots : Quiet /\ Execute(k)
    \/ \E k \in Slots : Quiet /\ Vanish(k)
    \/ \E i \in OrderIds : Quiet /\ Fill(i)
    \/ Quiet /\ (Send \/ Drop \/ Reconnect \/ Tick)

Spec == Init /\ [][Next]_vars

-----------------------------------------------------------------------------
(* An order whose id a quote returned, and whose cancel returned Ok, does  *)
(* not rest: whatever the prune of open_orders, a requote or another call  *)
(* did to the map in between, the cancel reached the venue.                *)
AckedIsGone == \A m \in acked : ~m.told

(* BinanceClient::cancel's doc: an unknown id is one already cancelled, "safe *)
(* to no-op".  An order the client never tracked rests on.                 *)
CancelOkIsGone == acked = {}

(* No request takes effect later than recvWindow after the call that made  *)
(* it, however long it waited in the channel of a reconnecting actor.      *)
StaleNeverLands ==
    [][\A k \in Slots :
          /\ cmds[k].age > Window /\ venue # "hyper"
          /\ cmds'[k] # cmds[k]
          => orders' = orders]_vars

(* A requote never leaves the order it replaces and the replacement both   *)
(* resting (spot is the exception its code makes: it places anyway).       *)
OneReplaces ==
    venue # "spot" =>
        \A i \in OrderIds : Open(i) /\ orders[i].twin # 0 => ~Open(orders[i].twin)

(* A batch's results come back in the order of its intents, across sides,  *)
(* sorting and requests.                                                   *)
SlotsOwn ==
    \A s \in DOMAIN slots : slots[s] # 0 => orders[slots[s]].price = batch[s].price
=============================================================================
