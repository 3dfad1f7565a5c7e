------------------------------ MODULE Rotation ------------------------------
(***************************************************************************)
(* The rotation manager, its supervisors and their runners, on one venue.  *)
(*                                                                         *)
(* A pass of the manager discovers which symbols qualify, adopts the       *)
(* positions nobody works, rotates out the bots that no longer qualify and *)
(* fills the free slots.  Rotating a bot out takes three tasks to stop in  *)
(* turn (manager, supervisor, runner), each of which waits for the next,   *)
(* and then a handful of venue calls that flatten the symbol, each of      *)
(* which may fail or be obeyed although its answer is lost.                *)
(*                                                                         *)
(* Data left out: how symbols are ranked (any few may qualify), whether a  *)
(* bot is under water (any rotation may be deferred), prices, the length   *)
(* of backoffs and bans, what a handler of the runner does beyond placing  *)
(* and cancelling.  The end of the process is in Account.  A position is   *)
(* one lot long, one lot short or flat, and every order is for one lot.    *)
(***************************************************************************)
EXTENDS Integers, FiniteSets

CONSTANTS Symbols,
          TopN,        \* top_n, the slots
          MaxFaults,   \* bound on the calls that go wrong
          Faults       \* and how they may

ASSUME RotationAssumption ==
    /\ TopN \in Nat \ {0} /\ MaxFaults \in Nat
    /\ Faults \subseteq {"refused",    \* a call fails
                         "lost",       \* it fails after the venue obeyed it
                         "rateLimit",  \* some component hits the account's limit
                         "slow"}       \* a handler, or run_once, takes over 5 s

Nobody == "nobody"
ASSUME NobodyAssumption == Nobody \notin Symbols

VARIABLES
    \* the venue, for each symbol
    pos,         \* its position
    orders,      \* resting orders: "bot" (the bot's own) and "sell" and "buy"
                 \* (limit orders of a flatten, which are not reduce-only)
    \* the tasks of each symbol
    sup,         \* where its supervisor is; "none" when there is none
    runner,      \* "none", "idle" (in its select) or "busy" (in a handler)
    zombie,      \* "busy" while a runner whose supervisor is gone still runs
    \* SharedBotState.rate_limited_until_ms
    gate,        \* "clear" or "limited"
    \* the manager
    phase,       \* what it is doing
    target,      \*   and to which symbol
    active,      \* the symbols in its map
    qualifying,  \* the outcome of the discovery
    shown,       \* the symbols of which the orphan scan would work a position: it
                 \* has a mark among the discovered symbols of the quote asset, and
                 \* is worth 5 USDT
    todo,        \* dropped symbols it has not come to
    ok,          \* of reset_symbol_state, "yes" or "no"
    side,        \* close_side, "sell" or "buy"
    \* history
    spoiled,     \* did this flatten ignore an answer about its limit order, or
                 \* start beside a detached runner?  "yes" or "no"
    faults       \* calls gone wrong so far

venueVars   == <<pos, orders>>
botVars     == <<sup, runner, zombie>>
passVars    == <<active, qualifying, shown, todo>>
flattenVars == <<ok, side, spoiled>>
rotationVars == <<venueVars, botVars, gate, phase, target, passVars, flattenVars, faults>>

Stages     == {"none", "gate", "boot", "start", "watch", "stopping", "backoff"}
Flattening == {"build", "cancel", "look", "limit", "wait", "sweep", "market", "verdict"}

RotationTypeOK ==
    /\ pos \in [Symbols -> {-1, 0, 1}]
    /\ orders \in [Symbols -> SUBSET {"bot", "sell", "buy"}]
    /\ sup \in [Symbols -> Stages]
    /\ runner \in [Symbols -> {"none", "idle", "busy"}]
    /\ zombie \in [Symbols -> {"none", "busy"}]
    /\ gate \in {"clear", "limited"}
    /\ phase \in {"idle", "adopt", "teardown", "stop"} \cup Flattening
    /\ target \in Symbols \cup {Nobody}
    /\ active \subseteq Symbols /\ qualifying \subseteq Symbols /\ shown \subseteq Symbols
    /\ todo \subseteq Symbols
    /\ ok \in {"yes", "no"} /\ side \in {"sell", "buy"} /\ spoiled \in {"yes", "no"}
    /\ faults \in 0..MaxFaults

\* The process finds on the venue what an earlier one left, and resumes the
\* saved lineup, whatever the slots.
RotationInit ==
    /\ pos \in [Symbols -> {-1, 0, 1}] /\ orders \in [Symbols -> {{}, {"bot"}}]
    /\ active \in SUBSET Symbols
    /\ sup = [s \in Symbols |-> IF s \in active THEN "gate" ELSE "none"]
    /\ runner = [s \in Symbols |-> "none"] /\ zombie = [s \in Symbols |-> "none"]
    /\ gate = "clear" /\ phase = "idle" /\ target = Nobody
    /\ qualifying = {} /\ shown = {} /\ todo = {}
    /\ ok = "yes" /\ side = "sell" /\ spoiled = "no" /\ faults = 0

Fault(f) == f \in Faults /\ faults < MaxFaults /\ faults' = faults + 1

\* The supervisor of s has been sent the shutdown signal.
Told(s) == phase = "stop" /\ target = s

Sign(order)    == IF order = "buy" THEN 1 ELSE -1
Closing(p)     == IF p > 0 THEN "sell" ELSE "buy"
Without(f, s, e) == [f EXCEPT ![s] = @ \ {e}]
With(f, s, e)    == [f EXCEPT ![s] = @ \cup {e}]

\* Any component that is told to slow down closes the gate to all.
Limited == gate' \in {gate, "limited"}

-----------------------------------------------------------------------------
(* The venue, and the account's gate.                                      *)

\* An order of the bot fills, and more may rest.
FillBot(s) ==
    /\ "bot" \in orders[s]
    /\ \E d \in {-1, 1} : /\ pos[s] + d \in -1..1
                          /\ pos' = [pos EXCEPT ![s] = @ + d]
    /\ orders' \in {orders, Without(orders, s, "bot")}
    /\ UNCHANGED <<botVars, gate, phase, target, passVars, flattenVars, faults>>

\* The limit order of a flatten fills, whether or not it is still wanted.
FillClose(s) ==
    \E c \in orders[s] \ {"bot"} :
        /\ pos[s] + Sign(c) \in -1..1
        /\ pos' = [pos EXCEPT ![s] = @ + Sign(c)]
        /\ orders' = Without(orders, s, c)
        /\ UNCHANGED <<botVars, gate, phase, target, passVars, flattenVars, faults>>

\* Another poller, or a discovery that fails, is rate limited.
RateLimit ==
    /\ Fault("rateLimit") /\ gate' = "limited"
    /\ UNCHANGED <<venueVars, botVars, phase, target, passVars, flattenVars>>

GateClears ==
    /\ gate = "limited" /\ gate' = "clear"
    /\ UNCHANGED <<venueVars, botVars, phase, target, passVars, flattenVars, faults>>

-----------------------------------------------------------------------------
(* A supervisor and its runner.                                            *)

SupervisorMoves(s, from, to) ==
    /\ sup[s] = from /\ sup' = [sup EXCEPT ![s] = to]
    /\ UNCHANGED <<phase, target, passVars, flattenVars>>

\* The top of its loop: no shutdown, no ban.
PassGate(s) ==
    /\ SupervisorMoves(s, "gate", "boot")
    /\ ~Told(s) /\ gate = "clear"
    /\ UNCHANGED <<venueVars, runner, zombie, gate, faults>>

\* run_once cancels what rests on the symbol; it goes on if that fails.
BootCancel(s) ==
    /\ SupervisorMoves(s, "boot", "start")
    /\ \/ orders' = [orders EXCEPT ![s] = {}] /\ UNCHANGED faults
       \/ orders' = orders /\ Fault("refused")
    /\ UNCHANGED <<pos, runner, zombie, gate>>

\* It builds the venue, subscribes, seeds the position and spawns the runner.
BootStart(s) ==
    /\ SupervisorMoves(s, "start", "watch")
    /\ runner' = [runner EXCEPT ![s] = "idle"]
    /\ UNCHANGED <<venueVars, zombie, gate, faults>>


\* Any of its calls fails.
BootFails(s) ==
    /\ \E at \in {"boot", "start"} : SupervisorMoves(s, at, "backoff")
    /\ Fault("refused") /\ Limited
    /\ UNCHANGED <<venueVars, runner, zombie>>

Retry(s) ==
    /\ SupervisorMoves(s, "backoff", "gate") /\ ~Told(s)
    /\ UNCHANGED <<venueVars, runner, zombie, gate, faults>>


\* Told to stop while it has no runner, it returns.
Quit(s) ==
    /\ \E at \in {"gate", "backoff"} : SupervisorMoves(s, at, "none")
    /\ Told(s)
    /\ UNCHANGED <<venueVars, runner, zombie, gate, faults>>

\* Told to stop while it has one, it passes the signal on and waits.
PassStop(s) ==
    /\ SupervisorMoves(s, "watch", "stopping") /\ Told(s)
    /\ UNCHANGED <<venueVars, runner, zombie, gate, faults>>

\* The runner enters a handler; its select looks at the shutdown first.
Begin(s) ==
    /\ sup[s] = "watch" /\ runner[s] = "idle"
    /\ runner' = [runner EXCEPT ![s] = "busy"]
    /\ UNCHANGED <<venueVars, sup, zombie, gate, phase, target, passVars, flattenVars, faults>>

\* What a handler may make of the resting orders of its symbol.
Handled(s) == {With(orders, s, "bot")} \cup {[orders EXCEPT ![s] = o] : o \in SUBSET orders[s]}

Finish(s) ==
    /\ runner[s] = "busy" /\ runner' = [runner EXCEPT ![s] = "idle"]
    /\ orders' \in Handled(s)
    /\ UNCHANGED <<pos, sup, zombie, gate, phase, target, passVars, flattenVars, faults>>

\* Its stream ends or it panics; the supervisor sees the task end.
RunnerEnds(s) ==
    /\ runner[s] # "none" /\ runner' = [runner EXCEPT ![s] = "none"]
    /\ sup' = [sup EXCEPT ![s] = IF @ = "stopping" THEN "none" ELSE "backoff"]
    /\ UNCHANGED <<venueVars, zombie, gate, phase, target, passVars, flattenVars, faults>>

\* It sees the shutdown, leaves its orders where they are and ends.
RunnerStops(s) ==
    /\ SupervisorMoves(s, "stopping", "none") /\ runner[s] = "idle"
    /\ runner' = [runner EXCEPT ![s] = "none"]
    /\ UNCHANGED <<venueVars, zombie, gate, faults>>

\* The 5 s of the supervisor pass first: the task is aborted and reaped, and
\* the venue may have got the order it was sending.
RunnerAborted(s) ==
    /\ "slow" \in Faults
    /\ SupervisorMoves(s, "stopping", "none") /\ runner[s] = "busy"
    /\ runner' = [runner EXCEPT ![s] = "none"]
    /\ orders' \in {orders, With(orders, s, "bot")}
    /\ UNCHANGED <<pos, zombie, gate, faults>>

\* A detached runner goes on with its handler, sees the shutdown and ends.
ZombieActs(s) ==
    /\ zombie[s] = "busy" /\ zombie' \in {zombie, [zombie EXCEPT ![s] = "none"]}
    /\ orders' \in Handled(s)
    /\ UNCHANGED <<pos, sup, runner, gate, phase, target, passVars, flattenVars, faults>>

BotStep(s) ==
    \/ PassGate(s) \/ BootCancel(s) \/ BootStart(s) \/ BootFails(s) \/ Retry(s)
    \/ Quit(s) \/ PassStop(s) \/ Begin(s) \/ Finish(s) \/ RunnerEnds(s)
    \/ RunnerStops(s) \/ RunnerAborted(s) \/ ZombieActs(s)

-----------------------------------------------------------------------------
(* A pass of the manager.                                                  *)

Spawned(S) == /\ active' = active \cup S
              /\ sup' = [s \in Symbols |-> IF s \in S THEN "gate" ELSE sup[s]]

Discover ==
    /\ phase = "idle" /\ gate = "clear" /\ phase' = "adopt"
    /\ qualifying' \in {Q \in SUBSET Symbols : Cardinality(Q) <= TopN}
    /\ shown' \in SUBSET Symbols
    /\ UNCHANGED <<venueVars, botVars, gate, target, active, todo, flattenVars, faults>>

Orphans == {s \in shown \ active : pos[s] # 0}

\* Faulty variant: only an orphan that qualifies is adopted.
AdoptQualifying ==
    /\ phase = "adopt" /\ phase' = "teardown"
    /\ \/ Spawned(Orphans \cap qualifying) /\ UNCHANGED faults
       \/ Spawned({}) /\ Fault("refused")
    /\ todo' = active' \ qualifying
    /\ UNCHANGED <<venueVars, runner, zombie, gate, target, qualifying, shown, flattenVars>>

\* Every open position without a bot gets one, unless the scan fails or passes
\* it over; then the bots that do not qualify are up for rotation.
Adopt ==
    /\ phase = "adopt" /\ phase' = "teardown"
    /\ \/ Spawned(Orphans) /\ UNCHANGED faults
       \/ Spawned({}) /\ Fault("refused")
    /\ todo' = active' \ qualifying
    /\ UNCHANGED <<venueVars, runner, zombie, gate, target, qualifying, shown, flattenVars>>

\* The bot is under water, or the account is rate limited.
Defer(s) ==
    /\ phase = "teardown" /\ s \in todo /\ todo' = todo \ {s}
    /\ UNCHANGED <<venueVars, botVars, gate, phase, target, active, qualifying, shown,
                   flattenVars, faults>>

\* The bot leaves the map and stop_bot tells its supervisor.
RotateOut(s) ==
    /\ phase = "teardown" /\ s \in todo /\ gate = "clear"
    /\ todo' = todo \ {s} /\ active' = active \ {s}
    /\ phase' = "stop" /\ target' = s
    /\ UNCHANGED <<venueVars, botVars, gate, qualifying, shown, flattenVars, faults>>

\* Once nothing is left to rotate, free slots go to those that qualify.
FillSlots ==
    /\ phase = "teardown" /\ todo = {} /\ phase' = "idle"
    /\ \E S \in SUBSET (qualifying \ active) :
           /\ \/ S = qualifying \ active /\ Cardinality(active \cup S) <= TopN
              \/ S # {} /\ Cardinality(active \cup S) = TopN
              \/ S = {} /\ Cardinality(active) >= TopN
           /\ Spawned(S)
    /\ UNCHANGED <<venueVars, runner, zombie, gate, target, qualifying, shown, todo, flattenVars,
                   faults>>

-----------------------------------------------------------------------------
(* stop_bot, flatten_symbols, reset_symbol_state and                       *)
(* flatten_with_limit_fallback, for the symbol that leaves.                *)

StartsFlatten == /\ phase' = "build" /\ ok' = "yes"
                 /\ spoiled' = IF zombie'[target] = "busy" THEN "yes" ELSE "no"
                 /\ UNCHANGED <<side, target, passVars, gate, faults>>

\* Faulty variant: the shutdown is sent and not waited for.
StoppedAtOnce ==
    /\ phase = "stop"
    /\ UNCHANGED <<venueVars, botVars>> /\ StartsFlatten

\* The supervisor has returned.
Stopped ==
    /\ phase = "stop" /\ sup[target] = "none"
    /\ UNCHANGED <<venueVars, botVars>> /\ StartsFlatten

\* It has not within 5 s: it is aborted and reaped.  Inside run_once it never
\* looked; in its own wait, its handle on the runner is dropped with it.
StopTimesOut ==
    /\ "slow" \in Faults /\ phase = "stop"
    /\ \/ sup[target] \in {"boot", "start"} /\ UNCHANGED <<runner, zombie>>
       \/ /\ sup[target] = "stopping" /\ runner[target] = "busy"
          /\ runner' = [runner EXCEPT ![target] = "none"]
          /\ zombie' = [zombie EXCEPT ![target] = "busy"]
    /\ sup' = [sup EXCEPT ![target] = "none"]
    /\ UNCHANGED venueVars /\ StartsFlatten

FlattenMoves(from, to) == /\ phase = from /\ phase' = to
                          /\ UNCHANGED <<botVars, target, passVars>>
Going  == UNCHANGED <<ok, faults>>
Failed == ok' = "no" /\ Fault("refused")

BuildVenue ==
    /\ \/ FlattenMoves("build", "cancel") /\ Going /\ UNCHANGED gate
       \/ FlattenMoves("build", "verdict") /\ Failed /\ Limited
    /\ UNCHANGED <<venueVars, side, spoiled>>

\* Whether or not the venue obeys, the flatten goes on.
CancelAll ==
    /\ FlattenMoves("cancel", "look")
    /\ \/ orders' = [orders EXCEPT ![target] = {}] /\ Going
       \/ orders' = orders /\ Failed
       \/ orders' = [orders EXCEPT ![target] = {}] /\ ok' = "no" /\ Fault("lost")
    /\ UNCHANGED <<pos, gate, side, spoiled>>

\* Faulty variant: a position that cannot be read is taken for none.
LookBlindly ==
    /\ \/ FlattenMoves("look", "verdict") /\ pos[target] = 0 /\ Going /\ UNCHANGED side
       \/ /\ \E to \in {"limit", "market"} : FlattenMoves("look", to)
          /\ pos[target] # 0 /\ side' = Closing(pos[target]) /\ Going
       \/ FlattenMoves("look", "verdict") /\ Fault("refused") /\ UNCHANGED <<side, ok>>
    /\ UNCHANGED <<venueVars, gate, spoiled>>

\* The position decides: nothing to close, a limit order, or a market order
\* at once (the position is dust, or there is no sound book to price it).
Look ==
    /\ \/ FlattenMoves("look", "verdict") /\ pos[target] = 0 /\ Going /\ UNCHANGED side
       \/ /\ \E to \in {"limit", "market"} : FlattenMoves("look", to)
          /\ pos[target] # 0 /\ side' = Closing(pos[target]) /\ Going
       \/ FlattenMoves("look", "verdict") /\ Failed /\ UNCHANGED side
    /\ UNCHANGED <<venueVars, gate, spoiled>>

\* The GTC limit order at mid.  If it is refused, or seems to be, a market
\* order follows and nobody cancels it.
PlaceLimit ==
    /\ \/ FlattenMoves("limit", "wait") /\ orders' = With(orders, target, side)
          /\ UNCHANGED <<faults, spoiled>>
       \/ FlattenMoves("limit", "market") /\ orders' = orders
          /\ Fault("refused") /\ UNCHANGED spoiled
       \/ FlattenMoves("limit", "market") /\ orders' = With(orders, target, side)
          /\ Fault("lost") /\ spoiled' = "yes"
    /\ UNCHANGED <<pos, gate, ok, side>>

\* Ten seconds later the position is read again.
AfterTenSeconds ==
    /\ \/ FlattenMoves("wait", "verdict") /\ pos[target] = 0 /\ Going
       \/ FlattenMoves("wait", "sweep") /\ pos[target] # 0 /\ Going
       \/ FlattenMoves("wait", "verdict") /\ Failed
    /\ UNCHANGED <<venueVars, gate, side, spoiled>>

\* The limit order is cancelled; the answer is ignored.
Sweep ==
    /\ FlattenMoves("sweep", "market")
    /\ \/ orders' = [orders EXCEPT ![target] = {}] /\ UNCHANGED <<faults, spoiled>>
       \/ orders' = orders /\ Fault("refused") /\ spoiled' = "yes"
    /\ UNCHANGED <<pos, gate, ok, side>>

\* Faulty variant: the market order is not reduce-only.
MarketOpening ==
    /\ FlattenMoves("market", "verdict")
    /\ \/ pos' = [pos EXCEPT ![target] = @ + Sign(side)] /\ Going
       \/ pos' = pos /\ Failed
    /\ UNCHANGED <<orders, gate, side, spoiled>>

\* A reduce-only market order: refused when it would not reduce.
MarketClose ==
    /\ FlattenMoves("market", "verdict")
    /\ IF pos[target] = -Sign(side)
       THEN \/ pos' = [pos EXCEPT ![target] = 0] /\ Going
            \/ pos' = pos /\ Failed
            \/ pos' = [pos EXCEPT ![target] = 0] /\ ok' = "no" /\ Fault("lost")
       ELSE pos' = pos /\ ok' = "no" /\ UNCHANGED faults
    /\ UNCHANGED <<orders, gate, side, spoiled>>

\* Flattened: Rotated, banked, on the retirement clock.
Release ==
    /\ phase = "verdict" /\ ok = "yes"
    /\ phase' = "teardown" /\ target' = Nobody
    /\ UNCHANGED <<venueVars, botVars, gate, passVars, flattenVars, faults>>

\* Not flattened: a manager is spawned again for what is left.
Respawn ==
    /\ phase = "verdict" /\ ok = "no" /\ Spawned({target})
    /\ phase' = "teardown" /\ target' = Nobody
    /\ UNCHANGED <<venueVars, runner, zombie, gate, qualifying, shown, todo, flattenVars, faults>>

Flatten == BuildVenue \/ CancelAll \/ Look \/ PlaceLimit \/ AfterTenSeconds \/ Sweep \/ MarketClose
Rotate  == Stopped \/ StopTimesOut \/ Flatten \/ Release \/ Respawn
Pass    == Adopt \/ (\E s \in Symbols : Defer(s) \/ RotateOut(s)) \/ FillSlots \/ Rotate

RotationNext ==
    \/ Discover \/ Pass \/ RateLimit \/ GateClears
    \/ \E s \in Symbols : FillBot(s) \/ FillClose(s) \/ BotStep(s)

RotationSpec == RotationInit /\ [][RotationNext]_rotationVars

\* Discovery ticks, REST calls return within their timeouts, backoffs and bans
\* end and the tasks are scheduled.  No order need ever fill.
RotationFairSpec ==
    /\ RotationSpec
    /\ WF_rotationVars(Discover) /\ WF_rotationVars(Pass) /\ WF_rotationVars(GateClears)
    /\ \A s \in Symbols :
           /\ WF_rotationVars(PassGate(s) \/ BootCancel(s) \/ BootStart(s) \/ Retry(s) \/ Quit(s)
                      \/ PassStop(s) \/ RunnerStops(s))
           /\ WF_rotationVars(Finish(s))

-----------------------------------------------------------------------------

\* When the manager puts a bot on a symbol, for an orphan, in a free slot or
\* because its flatten failed, no supervisor of an earlier bot lives there:
\* whatever made the manager forget a bot ended its supervisor (stop_bot aborts
\* and reaps what does not stop in time), so no symbol ever has two.
OneSupervisor == [][\A s \in Symbols : s \in active' \ active => sup[s] = "none"]_rotationVars

\* Nothing is left that could place an order on a symbol while the manager
\* cancels and closes there, as stop_bot has it: "GUARANTEE it has stopped before
\* the caller touches its symbol".
StoppedBeforeFlatten ==
    phase \in Flattening =>
        sup[target] = "none" /\ runner[target] = "none" /\ zombie[target] = "none"

\* A flatten that reports success leaves neither a position nor a resting order
\* behind, whichever of its calls failed, unless it ignored the answer about its
\* own limit order or ran beside a detached runner (flatten_symbols: "a position
\* that's still open is never banked as retired").
ReleasedClean ==
    phase = "verdict" /\ ok = "yes" /\ spoiled = "no" =>
        pos[target] = 0 /\ orders[target] = {}

\* The same without the proviso, as flatten_symbols claims it: "a cancel/close
\* failure inside reset_symbol_state itself [...] also returns `false`".
NothingLeftBehind ==
    phase = "verdict" /\ ok = "yes" => orders[target] = {}

\* An open position that no bot works is adopted or closes, whatever became of
\* its bot, if the scans keep finding it workable (the orphan scan of every pass;
\* a position without a mark, in another quote asset or under 5 USDT is passed
\* over each time, and stays).
OrphanAdopted ==
    \A s \in Symbols :
        []<>(phase = "adopt" /\ s \in shown) =>
            (pos[s] # 0 /\ s \notin active ~> s \in active \/ pos[s] = 0)


=============================================================================
