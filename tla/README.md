# A TLA+ development for tikr

tikr is a market-making bot for perpetual futures. It trades a set of symbols on
one Binance account, one bot per symbol, rotates bots in and out as markets
change, and keeps its P&L across restarts. This directory holds TLA+ modules
that model the parts of it where order, failure and restart decide whether it
is right, the TLC configurations that check them, and proofs checked by TLAPS.

Everything is translated from the source, at the lines `PROJECT.json` names
under `map`. Where the code and a comment beside it disagree, the module does
what the code does, and a run with `expect: violation` shows the difference.

## 1. The system

### 1.1 Parts, their state, and how they interact

| Part | Code | State it keeps | Talks to |
| --- | --- | --- | --- |
| Runner | `crates/tikr-paper/src/runner.rs` | tracker, dedup set, look-back window, side-failure counters, cooldown, take-profit id and latch, fill rate | strategy (calls), FillSim (calls), venue (awaits REST), fill channel, watch channels, taps |
| FillSim | `crates/tikr-backtest/src/fill_sim.rs` | live quotes, pending operations, manager ids, queue positions | runner; in live mode a mirror only |
| Position tracker | `crates/tikr-backtest/src/pnl.rs` | size, average entry, realized, fees, funding | runner |
| Strategies | `crates/tikr-strategy/src/*` | per-strategy lattices, timers | called by the runner with a context, answer with actions |
| Dispatch gates | `runner.rs` (boost, cap, cooldown, side failures) | failure counters and their time, end of the cooldown | between strategy and venue |
| Bagger, skim, risk gate | `bagger.rs`, `runner.rs`, `tikr-risk/src/gate.rs` | cooldowns, peaks, kill switch | runner |
| User-data streams | `crates/tikr-binance/src/user_stream.rs` | socket, listen key shared with the keepalive task, pump task | venue, runner's unbounded channel |
| Market-data streams | `depth_stream.rs`, `trade_stream.rs`, ... of Binance, Bybit, Hyperliquid | socket, Bybit's book, bounded channels, adapters' latest value | venue, runner's event stream |
| Venue clients | `crates/tikr-binance/src/lib.rs`, `futs.rs`, `spot.rs`, `ws_order.rs`; `tikr-hyperliquid` | id-to-client-order-id map, the order actor's channel and pending map | venue; called by runner, supervisor, manager |
| Supervisor | `apps/tikr/src/supervisor.rs` | attempt counter, current runner handle | runner (spawn, shutdown), SharedBotState |
| Rotation manager | `apps/tikr/src/rampage.rs` | active bots, retired clocks | supervisors (shutdown, abort), venue (flatten), SharedBotState |
| SharedBotState, session | `apps/tikr/src/state.rs`, `main.rs` | views with status and banked flag, retired totals, rate-limit gate, session.json, per-symbol snapshots | manager, supervisors, runners (taps), dashboard, save task |
| Recorder, replay | `tikr-record/src/main.rs`, `tikr-backtest/src/replay.rs` | row buffers, shard being written; loaded rows, cursor, book under construction | files; the runner in a backtest |
| BagBoy, BNB refill | `apps/tikr/src/bagboy.rs`, `bnb_refill.rs` | bought and spent totals (on disk), last balance seen; time of the last conversion | MEXC; Binance |
| Sweep tool, shell, TUI, reports | see `PROJECT.json` | - | - |

A live bot is one supervisor task and one runner task. The runner is a `select!`
loop: market events, fills, a status tick, a 30 s reconciliation tick, watch
updates, shutdown. It awaits the venue inside its handlers, so the venue moves on
while a handler stands half-way; nothing else runs in that task meanwhile. Fills
arrive on two ways: the websocket (pump task, unbounded channel) and the REST
history the reconciliation tick reads. The manager stops a bot through its watch
channel, then works on the symbol itself.

### 1.2 What is hard, and what makes each part correct

* **Fills come twice, late, or not at all**, and restarts start the count anew.
  Correct: each trade is booked once; none the bot is responsible for is missed
  for good; the size ends up equal to the venue's.
* **The mirror is told by answers, and answers get lost.** Orders fill, expire
  or are cancelled while a handler awaits. Correct: no resting order is
  forgotten, no slot is quoted twice, ghosts go, lost orders return.
* **The take-profit and the bagger are further authors of orders.** Correct: the
  take-profit is latched only when it is gone, and a bag is taken once; no order
  of the strategy's is lost for what the others rest.
* **Counts live in six places** (tracker, tap, snapshot file, view, retired
  totals, session file), several of them read or deleted by other tasks, and the
  process can end anywhere. Correct: every fill counts once, and an orderly end
  loses none.
* **Stopping a bot takes time**: 5 s for the manager, 5 s for the supervisor, 6 s
  for main. Correct: nothing acts on a symbol after it was flattened.
* **Refusals**: failures lock a side, a 429 silences a bot, a ban silences the
  account. Correct: silence ends, and never covers both sides for good.
* **Strategies act on stale reports**: the position lags their own taker orders,
  fills come in parts, refused orders come back to them. Correct: a bag is closed
  once, a level quoted once, an exit stays on the right side of its anchor.
* **The transport forgets and repeats**: a command waits in a channel while the
  socket reconnects, an answer comes after its caller gave up, an id is pruned
  while another call uses it. Correct: what was acknowledged has happened, what
  was given up does not happen later, a replacement replaces.
* **Streams drop and their consumers stall.** Correct: a book handed on is one
  the venue had, no consumer holds up a socket, a stop ends every task.
* **Simulated orders overtake each other.** Correct: the simulator's books and
  the tracker's agree lot by lot, and what was cancelled or wiped stays so.
* **Money is committed by a balance read or a decision taken**, and the process
  may die in between. Correct: counted once, decided again only if not executed.
* **Numbers at a boundary**: the dedup prune, the look-back window, the
  inventory cap on a flip through zero, the holes in a recording.

`PROJECT.json` lists each such place under `hazards`, with the property that
covers it, and what the property leaves out.

## 2. The modules

| Module | What it is |
| --- | --- |
| `FillLedger` | abstract: executed trades are charged at most once |
| `LiveFills` | the two fill channels, the dedup set, the look-back window, size reconciliation, runner restart; implements `FillLedger` |
| `OrderMirror` | the runner's dispatch paths, FillSim as a mirror, the take-profit manager, the orphan sweep and the reconciliation |
| `Account` | the count of fills from tracker to session file, through rotation, respawn, restart and kill |
| `Rotation` | manager, supervisors and runners as tasks: passes, adoption, the stop with its aborts, the flatten call by call, slots, the rate-limit gate |
| `Gates` | what stands between a strategy's actions and the venue: boost, cap, cooldown, side failures, on both dispatch paths |
| `Bagger` | the inventory-risk mechanisms, their order, and how a decision is executed and committed |
| `FillSim` | the simulated venue: operations under way, gates, matching, rejections |
| `PaperRun` | the runner in paper mode around `FillSim`: stages of the event arm, tracker, liquidation, risk gate, skim |
| `Archive` | recorder, shards, replay |
| `Market` | what every strategy sees and says, and the helpers they share |
| `TouchMakers`, `Grids`, `Reversion`, `Lattices`, `Waves`, `Scalpers` | the strategies, as functions of state and context |
| `Strategies` | any one of them against a venue that delays, refuses and loses |
| `VenueClient` | the Binance clients (spot, REST, order WebSocket) and Hyperliquid's, call by call |
| `SpotBuyers` | bagboy and the BNB refill |
| `Feeds` | market-data and user-data streams with their tasks and channels |
| `OrderMirrorProofs`, `StrategyProofs`, `TwinProofs` | proofs about `OrderMirror`, and about `Strategies`: the latches, and the reconciling ones |
| `LiveFillsProofs`, `PaperProofs` | proofs about `LiveFills` and `Account`, and about `PaperRun` with `FillSim` and `Archive` |
| `LifecycleProofs` | proofs about `Feeds` and `Rotation` |
| `GuardProofs`, `ClientProofs` | proofs about `Bagger` and `Gates`, and about `VenueClient` and `SpotBuyers` |
| `MC...` | values of the constants for TLC; `MCLiveFills`, `MCPaperRun`, `MCGuards` and `MCVenueClient` run two or three components that do not interact, one per behaviour |

Definitions named "Faulty variant" in the comment above them are plausible bugs
of the definition that follows; they are used in no specification. Putting one
in the place of its original must break the property that `PROJECT.json` pairs it
with under `mutants`: it shows that the run is able to fail.

### 2.1 LiveFills

The venue executes trades 1, 2, ... (`Execute`). A fill goes to the socket
(`net`), the pump moves it to the channel (`chan`, `Pump`), the runner's
external-fill arm books it unless the dedup set holds it (`WsFill`). When the
socket drops, what it held is lost (`SocketDrop`), and nothing resends it. The
reconciliation tick has two steps with an await before each: `ReconFillsOk`
reads the history from `from` on, of which the youngest trades may still be
hidden, books the unseen, advances `from` to at most the newest less
`RECONCILE_LOOKBACK`, and prunes the dedup set; `ReconPositionOk` overwrites the
size with the venue's. Either may fail. `RunnerEnds`, `Subscribe`, `SeedOk`,
`SeedErr` and `Start` are the supervisor's cycle: the subscription is made
before the position is read, so a fill may be in both the seed and the channel.

`select!` is `biased` and the fills come before the ticks; hence the guard
`chan = <<>>` of the tick. `slot` is the rank in which an id entered
`TradeDedup`, whose front is pruned up to the first id that is young enough.

### 2.2 OrderMirror

The runner is one task with a program counter `pc`; a handler is cut where it
awaits. `todo` is the rest of the strategy's actions. The venue fills, expires
and (reduce-only) cancels orders between any two steps. A placement is answered
(`QuoteOk`), refused, or its answer is lost while the order rests (`QuoteLost`).
FillSim keeps `live` quotes and pending operations (`placing`, `replacing`)
which `Promote` brings to term. `Reconciled` is `reconcile_quotes_for`, with the
answer `orders` taken earlier. The strategy is anything that acts on what it is
shown: it quotes only slots it sees empty and cancels or requotes what it sees.
`tp`, `latch` and `tpSign` are the take-profit's `tp_quote_id`, `tp_taken` and
`tp_last_sign`. Prices, sizes and the risk checks are left out; a slot is a
(side, price) of the strategy, and `QuoteRefused` stands for every refusal.

The live bagger may rest a reduce-only limit before the strategy is asked
(`BaggerRests`), and the runner throws its id away (`map(|_| ())`, runner.rs:1554):
the order is in no mirror until a reconciliation lists it, so it counts with those
the runner was not told of (`untold`). `untold` holds two more kinds: an order
whose answer was lost, and one the mirror's own post-only gate turned away at
`Promote` because its book was not the venue's. The last is where the take-profit is
latched wrongly: `LatchedWhenGone` excepts it, `TakenMeansGone` does not.

### 2.3 Account

`fills` (in the runner) is shown in `tap` on each fill and status tick
(`Publish`), written to `disk` every hundred events (`Snapshot`) and by the
runner's epilogue. Every write of the tap is a `try_write`: while a reader (the
dashboard, the save, the deferral) has the lock it is skipped (`Show`), and the
next one repeats it, except that after the epilogue there is none (`Busy` says
which taps are read then). `lag` remembers a tap that missed its runner's last
count, and whether it was banked. With the fault `"slowStop"` main makes its final
save, and ends, while the manager or the save task is still at work. `SpawnRunner` resumes from `disk` and replaces the view's tap
by an empty one. A rotation is four steps of the manager: `Rotate` (stop),
`FlattenErr` or `FlattenOk`, `Bank` (under the lock of the views),
`DeleteSnapshot` (after it); `Retire` drops the view later. The save task reads
the totals and then the views under separate locks and renames the file into
place. `Shutdown`, `StopAll`, `FinalSave`, `Exit` are the end of `main`; `Kill`
may come anywhere and may tear a snapshot, which is written in place. `Restart`
is `restore_session`. Which symbols are in the top set, and the P&L thresholds
of `should_defer_rotation`, are nondeterministic.

### 2.4 Rotation

`Discover` to `FillSlots` is one turn of `spawn_rampage_manager`'s loop, cut where
it awaits: discovery, the scan for orphans (`Adopt`), then for each dropped bot
either `Defer` or a rotation, then the free slots. A rotation is `stop_bot`
(`RotateOut` sends the signal; `Stopped` or `StopTimesOut`), `flatten_symbols`
and `reset_symbol_state` (`BuildVenue`, `CancelAll`, `Look`, `PlaceLimit`,
`AfterTenSeconds`, `Sweep`, `MarketClose`, one action for each venue call, with
its failure), and `Release` or `Respawn`. A supervisor goes `gate` -> `boot` ->
`start` -> `watch`, to `backoff` when a spawn fails or its runner ends, and to
`stopping` when told; inside `boot` and `start` (`run_once`) it does not look at
the signal. A runner is `idle` in its `select!` or `busy` in a handler. When the
manager aborts a supervisor that waits for a busy runner, the runner becomes the
`zombie`: a task nobody holds, alive until its handler ends. `shown` is the set of
symbols whose position, if there is one, the orphan scan would work: it skips a
position without a mark, in another quote asset or under 5 USDT, and prices move,
so each discovery picks it anew. Orders of the bot are one token, `"bot"`; the limit order of a flatten
is `"sell"` or `"buy"`, and is not reduce-only.

Calls are `"refused"` (not obeyed), `"lost"` (obeyed, but answered by an error),
`"rateLimit"` closes the gate, `"slow"` lets the 5 s of the stop pass. `spoiled` is history: this
flatten ignored an answer about its own limit order, or began beside a zombie.
`Rotation` and `Account` share the manager's rotation: what `Account` calls
`FlattenOk` and `FlattenErr` are `Release` and `Respawn` here.

### 2.5 Gates and Bagger

`Gates`: `Begin` applies boost and cap to the strategy's batch as a whole, from
the position, the orders and the cap of that moment, one of `CapValues` (a watch
channel changes it). A cap of 0 is none, and the post path applies neither when the
mirror's book has an empty side (runner.rs:3244): the bids of such a batch are
added to `gained`. `widest` is the largest cap so far. Then the batch is sent call by call
(`Gather`, `Passing`, `Accepted`, `Refused`, `Limited`, `Finish`). Fills are booked
between two batches (`Filled`), as they are an arm of the same loop; time may pass
between two calls (`Tick`). The event path
reads the cooldown once per batch, the post path per order; the failure counters
share one timestamp, `age`. `cost` is the position at its entry prices, as the
cap measures it; `gained` is history, what the position a run starts with exceeds
the cap by, what a buy below a short's entry realized, what requotes added and
what was sent without a cap.

`Bagger`: `Evaluate` computes the decision in the order of `evaluate`
(`Priority`) and either executes it, and commits, or drops it (pause, empty
book, refusal). `Stamps` is what a decision changes when it is made, `Commit`
what it changes when it is executed.

### 2.6 FillSim, PaperRun and Archive

A market event goes through the stages of the event arm, `pc`: `Take` (book,
mark, funding), `Liquidate` or `Spared`, `Flatten` or `Hold`, `Emit` (strategy and
risk gate), `Sent`, then `FillSim`'s own: operations that are due are drained and
applied one by one (`DrainStep`, `ApplyStep`), the event moves the book or trades
(`SeeBook`, `SeeTrade`, `Match`); its fills are delivered (`Deliver`), its
rejections answered (`Recover`), profit is skimmed (`Skim`). `buried` remembers
when the cancel of an order arrived, until the order rests again, and `cleared`
the last liquidation; both are history. (A cancelled order that a Replace drained
beside the cancel brought back is an order like any other: it may be replaced
again at a later event, so the history has to forget the cancel.)

`Archive`: rows are buffered (`RecordBook`, ...), flushed shard by shard
(`StartFlush`, `WriteShard`, `ShardFails`), the process may be killed at any point
and a recorder started again in the same directory. `Load` reads what is complete
at some moment, sorts and checks it, and may add the synthetic walk back; then
the replay emits event by event. `owed` is history: the rows of every shard
loaded that a second flush has not overwritten. The loaded rows are sets, and the
sort is the ranking of their union by `Before`, which is total on them: the source
position breaks every tie.

### 2.7 Strategies

A strategy's state is a record of its struct's fields; its handlers take the
state and a context and give a state and a sequence of actions. `Strategies`
picks one, moves the book, fills resting orders in whole or part, lets taker
orders land late, in part or not at all, refuses post-only orders that cross,
and loses batches; the context it shows is what the runner's would be. Distances
are counted in half ticks, so that a mid is an integer; a notional over a price,
floored to the lot, is a constant number of lots. Averages over long windows are
kept over two or three samples. Optional features of a strategy (a second
take-profit, an adaptive step) are on in one configuration or off in it.

`OneClose` is claimed of the strategies whose risk gate keeps a latch (`Latched`):
not of rsi_mr, liq_fade and spread_scalp_old, which keep none and do send a second
close, nor of spread_scalp once its Stage-5 gate is configured (3.2). `ExitsPay` is
claimed where exits hang off an anchor (`Anchored`): hawk's do only while its
ladder is withdrawn, and ratchet's only while its cycle has the direction of the
bag (3.2).
`NoTwins` is claimed of the nine that reconcile against the orders shown; liq_fade
places one entry at a time but does not look at them, and can lose count (3.2).

### 2.8 VenueClient and SpotBuyers

A call of the runner (`Quote`, `Requote`, `Cancel`, `CancelAll`, `OpenOrders`,
`BatchQuote`, `BatchRequote`, `BatchCancel`) is a plan of requests; a request goes
to the venue directly, or through the actor's bounded channel (`Request`, `Send`),
is executed (`Execute`), vanishes (`Vanish`), or is dropped with the connection
(`Drop`, `Reconnect`); its caller hears an answer, a refusal, a broken read or a
timeout, which may be wrong about what happened. `tracked` is `quote_symbols`;
`told`, `acked`, `twin` are history: what the caller was promised. The two legs of
a batch, which `batch_quote` joins, are the two callers: with more of them there
is no batch, with one only one side of it.

Bagboy's cycle is cut at each call (`at`); its two totals are on disk, `plan` is
the set of levels still to place, the highest first. The market
moves, bids fill and the process dies between any two. The refill asks for the
balance, decides, and converts; what it bought arrives `Settle` minutes later. It
too may be killed and started again (`Restart`): the time of its last conversion
is a local variable, what is under way then is `adrift`, and `forgot` counts it.
A bid of bagboy's nobody heard of rests at once or never; one that lands
after the next cycle has read the open orders is not modelled.

### 2.9 Feeds

One behaviour follows one stream: the venue (`market`, `wire`), the pump task
(`pump`), its bounded channel (`queue`), the adapter task and its output
(`relay`, `held`, `tail`), the consumer (`seen`), which may stop reading or go
away. A fill stream also has the keepalive task (`putting`), the listenKey shared
with it (`shared`) and the one the socket is on (`sock`). `signal` is the watch
channel of the supervisor: a value, or a sender dropped without one. The client of
the renewals has no timeout (venue.rs:127), so a PUT may stay open for as long as it
likes: the hours go by over it (`PutHangs`, `late`), and the task, which awaits it
in an arm of its `select!`, neither renews nor looks at the stop. `missed` counts
the periods in a row in which the shared key was not renewed, because the PUT
failed or because one was still open.

## 3. What TLC checks

| Run | Question | States | Result |
| --- | --- | --- | --- |
| `LiveFills` | Does it implement the ledger (each trade booked at most once), is none skipped, is a lost one replayed, does the size settle on the venue's? Do ghosts leave the mirror and lost orders return? | 80 k | holds |
| `OrderMirror` | Can a resting order get lost, a slot be quoted twice, or the take-profit be latched while it rests (and its mirror did not turn it away)? | 6.3 M | holds |
| `Account` | Is a fill counted twice, is one missing after an orderly end, does what is banked reach the file? | 2.3 M | holds |
| `Rotation` | Does a symbol ever get two supervisors, does a flatten that reports success leave anything, are orphans adopted, do passes end, do bots come back? | 127 k | holds |
| `PaperRun` | Do simulator and tracker agree, does anything wiped or cancelled come back; does a replay give what was recorded? | 1.7 M | holds |
| `Guards` | Does the cap hold while it changes, and over batches it is not applied to; can both sides stay locked; are the bagger's decisions executed once? | 2.0 M | holds |
| `Strategies` | Is a bag closed twice, a level quoted twice, an exit placed inside its anchor? | 3.5 M | holds |
| `VenueClient` | Do acknowledgements, replacements, batch slots and timeouts mean what they say; do the buyers count what they bought? | 1.2 M | holds |
| `Feeds` | Are books true, keys renewed, readers never blocked, tasks stopped? | 1.1 M | holds |
| `StrategyNaked` | Does long-only rsi_mr ever sell what it does not hold? | | violated |
| `FeedsLeak` | Does the keepalive task of a bot that failed to start end? | | violated |
| `RotationDetached` | Is everything of a bot stopped when its symbol is flattened? | | violated |

### 3.1 The disagreements the violation runs show

* **StrategyNaked.** On the fill that closes its position `rsi_mr` has not yet
  seen it closed; if its stop or time-out is due at that event it sends an IOC
  sell of its order notional, which opens a short.
* **FeedsLeak.** When `run_once` fails after subscribing, the stop channel's sender
  is dropped without a signal. Keepalive task and pump then find `changed()`
  failing at once. The pump ends at its next fill, whose receiver is gone; nothing
  ends the keepalive, which is what the run checks.
* **RotationDetached.** `stop_bot` (rampage.rs:723-727) is to GUARANTEE that a bot has
  stopped. Its abort hits the supervisor, which waits for the runner with the same
  5 s: the abort detaches the runner, and it places orders during the flatten.

### 3.2 Further disagreements

Each is a definition of the module named, and is violated when it takes the
place of the properties of the cfg named.

| Definition | Where | What the code says, and what happens |
| --- | --- | --- |
| `ForceOnlyUnexplained` | `LiveFills.cfg` | runner.rs:2804-2811: `force_reconcile` corrects only what the history cannot explain. It also fires for a fill in transit, which is then booked on top until the next tick. |
| `SweepWipes` | `OrderMirror.cfg` | runner.rs:2842-2846: wipe, and let the strategy re-emit. The mirror is then synced to the list read before the sweep and re-imports what was just cancelled. |
| `TakenMeansGone` | `OrderMirror.cfg` | runner.rs:2589-2593: a take-profit gone from the mirror whose id is still held has filled, and the latch is taken. The mirror's own post-only gate can turn it away against a stale book, while it rests at the venue. |
| `StaysContinuous` | `Account.cfg` with `Faults = {"reader"}` | state.rs:798-799: the account stays continuous over a restart. A reader holds the tap as the runner ends, so that its last count is not shown (runner.rs:2975); the shutdown arm drops the runner's report (supervisor.rs:175-196), and `bank_rotated` folds the older count and deletes the snapshot that had the newer. |
| `StaysContinuous` | `Account.cfg` with `Faults = {"slowStop"}` | main.rs:1135-1136: the final save comes after the bots wound down and has the rotations folded in. main waits 6 s, a flatten sleeps 10 s (supervisor.rs:583): what is banked after the save is in no file. |
| `TargetHolds` | `VenueClient.cfg` | bnb_refill.rs:45-47: the cooldown is a backstop against a re-buy while a conversion settles. It is in memory only (108): a restart forgets it, and the refill converts again, past its target. |
| `OncePerBag` | `OrderMirror.cfg` | runner.rs:905-908: the half-bag take-profit is not re-armed after it filled. If it fills during its re-peg, the ignored answer of the cancel loses that, and a second one is rested. |
| `GhostsExpire` | `LiveFills.cfg` with `"requote"` among the `Kinds` | runner.rs:1039-1042: the reconciliation drops ghosts. A requote of a dead order re-inserts it after each. |
| `NothingLeftBehind` | `Rotation.cfg` | rampage.rs:742-747: a failed cancel makes the flatten return false. The second `cancel_all` (supervisor.rs:592) is not looked at; a limit order, not reduce-only, stays behind a bot that is retired. |
| `HaltIsFinal` | `PaperRun.cfg` | runner.rs:492-495: every action passes the risk gate. What `on_quote_rejected` and the fill handlers answer does not. |
| `PeakBounded` | `Guards.cfg` with `Seeds <- MCShort` | runner.rs:3017-3022: the worst case bounds the inventory. Buying back a short below its entry makes room that the entry-priced position did not have. |
| `RestDropped` | `Guards.cfg` | runner.rs:3283-3291: a 429 drops the rest of the batch. It drops the rest of its run of quotes; the next run is sent. |
| `PeakOfThisBag` | `Guards.cfg` | bagger.rs:355-357: the peak is of the current bag. A bag closed and reopened on the same side between two events keeps the old one's. |
| `CancelOkIsGone` | `VenueClient.cfg` | lib.rs:1068-1077: an unknown id is one already cancelled. One imported by the reconciliation is unknown too: its cancel is Ok and nothing is sent. |
| `SpreadClosesOnce` | `StrategyNaked.cfg` with `ScalpCfg <- MCStageFive` | spread_scalp/mod.rs:185-190, 822-824: one latch for the adverse stop and the Stage-5 gate keeps a close from being sent again while it is on its way. The Stage-5 gate reads the latch and never sets it: its close is sent again on every event until the first one's fill shows. |
| `StopFlattens` | `StrategyNaked.cfg` | ratchet.rs:30-33: the stop is an IOC flatten. The cycle takes its direction from the position when it leaves zero; if a resting exit and the stop's late order both fill between two book updates, the position passes through zero unseen, and the next stop adds to the bag. |
| `FadesOnce` | `Strategies.cfg` | liq_fade.rs:21-23: one trade per cascade keeps the inventory bounded; liq_fade.rs:17: an entry that times out is cancelled on the way to idle. The `CancelAll` may be in a batch the cooldown drops (runner.rs:1716-1718): liq_fade is idle, its entry rests, and the next cascade posts another beside it. |

`SpreadClosesOnce` and `StopFlattens` need `Running` to name the strategy, `Events <-
MCLonger` and no faults; `FadesOnce` needs `Running = {"liq_fade"}` and 16 events,
which TLC reaches by simulation, not breadth first.

What else the modules show, by a history variable that names the case:

* Bagboy (`missed`, `mishap`): fills while it is down are never counted; an
  unreadable state file starts the count at zero and is then saved over; a failed
  save followed by a restart forgets the delta; a falling balance hides the next
  fills, as `last_seen_base` only moves on growth; the `cancel_all` that enforces
  the cap is neither checked nor repeated.
* Recorder (`owed`): two flushes within a second write the same file names, and the
  second truncates the first's. Where gaps are refused, the recording of a
  restarted recorder is always refused, as `seq` starts at 1 again; and a hole
  between two recordings can go unseen.

### 3.3 Bounds, and why they are enough

* `LiveFills`: 2 trades, 4 ticks of the clock, 1 restart, look-back, delay and
  history lag of 1. Every hazard involves one trade and at most one other that
  moves the window past it, and one runner before and one after a restart. All
  trades have one size, so that an excess cannot cancel against an omission.
* `OrderMirror`: 3 orders, 1 slot, 1 action at a time (and the mirror of
  `LiveFills`). A duplicate needs two orders of a slot; the third is what a cancel
  or a sweep lets in, or the take-profit. An order of an earlier run has one other
  beside it (two in `LiveFills`, where one always rests at start-up). `MaxExpected = 1` makes the sweep fire with two or three orders.
  The constraint `Apart` keeps single cancels and requotes out of the time in
  which there is a bag; either half has all races of fills, sweeps and answers.
  Where the bagger rests its limits there are no take-profits and no requotes: its
  orders differ from others only in that nobody knows them.
* `Account`: 2 symbols with one fill each; every number of rotations and restarts.
  The process is killed at most once while it banks a given symbol. (One symbol with
  three fills, of which a bot may have shown a part when it is banked, holds as
  well.)
* `Rotation`: one symbol, one slot, three calls gone wrong. The symbols meet only
  in the manager, which works on one at a time, and in the gate, which
  `RateLimit` closes at any moment; the proofs hold for any number of them. Three
  faults let a flatten fail, its retry fail, and the scan after it.
* `PaperRun`: 4 events, 3 operations with cancel latencies 0 and 1, 2 open orders
  of up to 2 lots, one price level, a wallet that one adverse bag uses up; in half
  of the behaviours the third operation is given up for taker orders (`OfPaper`). An
  overtaking needs a Place or Replace, a Cancel, and an event in between; a
  partial fill needs 2 lots. New quotes are first in the queue (`MaxQueue = 0`):
  who is ahead decides when a quote fills, and any trade may fill it here. The
  archive has 3 instants, two to a second, snapshots of up to three rows, a flush
  threshold they reach in the middle, one fault, two recordings.
* `Guards`: 2 orders of up to 2 lots at 2 prices, a cap of one lot at the higher
  price, seeds long and short and one beyond the cap. Overshoots need a flip, that
  is one seed and two orders; a lockout of both sides needs two refusals.
  Behaviours about the cap have three of them (none, half and one) in any order,
  batches that are not capped until they have asked for half a lot, and requotes,
  but no counted failures; those about lockouts have neither uncapped batches nor
  requotes. The bagger: each mechanism alone and four stacks, 7 events, bags of up
  to 2 lots: open, peak, fall, cut, and fall again.
* `Strategies`: 5 to 7 events, one lost or refused batch, five books (two spreads,
  a rise, a fall, an empty side), taker orders under way for up to 2 events,
  which is shorter than the retry timers, as in the code. A second close or twin
  needs an order, a part of its fill, and an event that moves the target.
* `VenueClient`: 2 callers, 2 outstanding requests, 2 orders, one batch of three
  whose asks take two requests; the callers are symmetric, as only safety is
  checked and no action tells one from the other. Bagboy: 3 prices, 2 rungs, a cap
  reached by two fills, 2 starts. Refill: a target of twice the trigger, 6 units of
  fees, 2 restarts.
* `Feeds`: 2 levels, 3 changes of the market, 2 disconnects, 3 listenKeys, one
  place in a channel. A stale level needs a change unseen over a disconnect; a
  key mix-up needs two keys and a renewal between. A key lives three periods of the
  keepalive (60 minutes and 20), which tells one missed renewal from two.

Where a bound stops a run (`CHECK_DEADLOCK FALSE`), the system would go on; the
runs of `LiveFills`, `OrderMirror`, `Account` and `Rotation` check deadlock. No
cfg replaces a definition.

`DeferUnderwater` is "on", the default. With "off" a re-spawned bot that has not
reported yet can be rotated out: nothing is banked and its snapshot is deleted,
so `RestartKeepsAll` fails. `CountedOnce` covers "off" as well.

### 3.4 Fairness

* `LiveFills`: weak fairness of time, the pump, the fill arm and the supervisor
  (all are loops without exit; the supervisor respawns for ever with a capped
  backoff). Strong fairness of the two *successes* of the reconciliation: a REST
  call that is repeated every 30 s may fail often, but not for ever.
  `Reconnect` has none, as a lost fill is found over REST, socket or not.
* `OrderMirror`: every handler ends (weak; each REST call has a timeout). The
  arms are strongly fair, as `select!` is biased: fills and ticks are polled only
  when the event stream is empty, and `runner.rs` relies on its being so again
  and again. A stream that is never empty would starve them.
* `Account`: weak fairness of the three steps of the save task, nothing else.
* `Rotation`: weak fairness of the manager's steps, of each supervisor's steps
  and of the end of a handler (REST calls have timeouts, backoffs and bans are
  finite sleeps), and of the gate's reopening. `OrphanAdopted` says in its hypothesis
  that the scans find the position workable again and again. Faults are bounded instead: the
  properties say what happens once they cease. Orders need never fill, runners
  need not crash nor handlers begin.
* `Guards`: weak fairness of time.
* `Feeds`: weak fairness of the pump's and adapters' own steps. None of the end of a
  renewal, as nothing bounds it: `StreamsStop` and `NoLeak` say in their
  hypothesis that the renewals end (`PutsEnd`). Strong fairness of the keepalive task's branch for the stop: its
  `select!` polls its branches in random order, and a renewal that is due again
  and again does not keep it from the other one for ever. The network, the
  market and the consumer owe nothing.
* `PaperRun`, `Strategies` and `VenueClient` check safety only.

## 4. What is proved

For every value of the constants that satisfies the modules' assumptions:

| Theorem | Says |
| --- | --- |
| `LiveFillsProofs!Typing` | `TypeOK` is invariant |
| `LiveFillsProofs!Invariance` | `IInv` is invariant |
| `LiveFillsProofs!ExactlyOnce` | no trade is booked twice |
| `LiveFillsProofs!NothingSkipped` | the window never passes an unbooked trade |
| `LiveFillsProofs!SeedNotReplayed` | the history never replays what the seed holds |
| `LiveFillsProofs!Refinement` | `LiveFills` implements `FillLedger` |
| `LiveFillsProofs!AccountTyping` | `AccountTypeOK` and the order of a rotation's steps |
| `LiveFillsProofs!CountedOnce` | no fill is counted twice |
| `LiveFillsProofs!NothingLost` | an orderly end loses no fill, but of a bot banked from a tap a reader kept from its last count |
| `LifecycleProofs!RotationTyping` | `RotationTypeOK` is invariant |
| `LifecycleProofs!NeverTwo` | a bot is put only where no supervisor of an earlier one lives |
| `LifecycleProofs!Clear` | a flatten that reports success and was not spoiled left nothing |
| `OrderMirrorProofs!Typed` | `TypeOK` is invariant |
| `OrderMirrorProofs!NothingDropped` | what rests is in the mirror, unless its acceptance was lost, the mirror's own gate turned it away, or it is the bagger's |
| `OrderMirrorProofs!SlotsHoldOne` | a slot holds one order |
| `OrderMirrorProofs!TakenWhenGone` | the take-profit is latched only when it no longer rests, or the mirror's own gate turned it away |
| `PaperProofs!PaperTyped` | `TypeOK` is invariant |
| `PaperProofs!FillsBooked` | every simulated fill reaches the tracker once |
| `PaperProofs!NothingFromBefore` | nothing from before a liquidation fills |
| `PaperProofs!OnlyOvertaken` | a cancelled order returns only in the event of its cancel |
| `PaperProofs!NoHoles` | a replay that refuses gaps has no hole inside a recording |
| `PaperProofs!ReplaysTrue` | a replay gives what was kept, once, in time, beside the right mark; an added walk returns |
| `GuardProofs!BaggerTyped` | `BagTypeOK` is invariant |
| `GuardProofs!OneFallOneGiveback` | one fall, one giveback |
| `GuardProofs!CutStaysDue` | a due cut stays due until one is executed |
| `GuardProofs!GatesTyped` | `GatesTypeOK` is invariant |
| `GuardProofs!CapHolds` | position and committed bids overshoot the largest cap so far by no more than what was gained |
| `LifecycleProofs!FeedsTyped` | `TypeOK` is invariant |
| `LifecycleProofs!BooksAreTrue` | every book handed on is one the venue had |
| `LifecycleProofs!KeyLives` | a key expires only after two renewals in a row that failed or hung |
| `ClientProofs!CancelsHold` | a cancel that returns Ok is of an order that does not rest |
| `ClientProofs!RequotesReplace` | a requote does not leave both orders resting |
| `ClientProofs!ResultsInPlace` | a batch's result slots hold the ids of their own intents |
| `ClientProofs!LateIsRefused` | no request takes effect after `recvWindow` |
| `ClientProofs!UnitsCounted` | bagboy counts every unit once |
| `ClientProofs!LadderRestsOnce` | no price holds two of its bids |
| `ClientProofs!RefillStops` | the refill buys past its target by no more than its restarts forgot |
| `StrategyProofs!ClosesOnce` | a strategy with a latch has one closing taker order on its way |
| `TwinProofs!NoTwinsRest` | a strategy that reconciles rests no two orders at one price of a side |

**LiveFills.** All but `Typing` assume `Timely`: the websocket delivers, and the
history shows, a trade within the look-back (120 s), and the bot's clock is not
behind the venue's. The code makes the same assumptions without naming them;
each is needed. The properties are not inductive. That a trade is not booked
again rests on `DedupCovers` (a booked trade the history can still return is in
the dedup set), which says nothing of its websocket copy; hence
`InFlightFresh`: a booked trade still in flight is younger than the cutoff of
the next prune. Its proof needs that ids are pruned in the order they entered
and that the channel is empty at a tick. `SeedBefore` keeps what the seed
reflects out of the window.

**Account.** `Standing` says which flags and files a symbol has at each step of a
rotation; above all, a banked view has no snapshot except between `Bank` and
`DeleteSnapshot`. On it rest two invariants. `Counted`: every place a total
can be resumed from is at most what was booked, and neither the draft nor the
manifest runs ahead of what the totals will be when the bank under way is done
(`Owed`), which is what a save between the two locks could break.
`CountedOnce` holds for all faults; a symbol that was being banked when the
process ended is left out, as there the code does count twice. `Kept`: as long
as nothing dies, the count of a symbol is in exactly one place, with equality.
`NothingLost` assumes that underwater bots are held; without that the code does lose
counts. Two more ways to lose them are in the property: a symbol whose bot was
banked from a tap that missed the last count (`lag`), and a main that saved
before the rest had stopped (`mishap`): see `StaysContinuous` in 3.2. A tap that lags does no
harm until it is banked: the snapshot has the count, and the next runner resumes it.

A kill between `Bank` and the next save loses the bot's totals: neither the
snapshot (deleted) nor the manifest (not yet written) has them. `RestartKeepsAll`
is claimed for processes that end in order (`mishap = "no"`) only.

**Rotation.** `Tasks` says which tasks may live: a supervisor belongs to a bot of
the map or to the one being stopped, a runner to a supervisor that waits for it;
hence nothing but the manager, and a zombie, acts on the symbol that leaves.
`Clean` follows the flatten: as long as every answer was heard, there is no
order before the limit is placed, then the limit order rests against the
position or both are gone, and after the second cancel or the market order
nothing is left. `ReleasedClean` is not inductive without them. `NeverTwo` is `Tasks`
read backwards: a supervisor that is no bot's of the map is that of the bot being
stopped, and the manager adopts, fills slots and respawns only after it has been
reaped. That nothing at all of a bot is left by then is false
(`RotationDetached`).

**OrderMirror.** `NoSilentLoss` is not inductive: a reconciliation syncs the mirror
to an answer taken earlier. `Listing` says that such an answer only ages by
losing orders, as nothing is placed while it is held, so what it lacks no longer
rests. `OnePerSlot` needs `Vacant`: the slots a plan still wants to quote are
empty of what the strategy can see, and between the plan and its quotes only
the plan adds such orders. `Ids` ties fills under way to orders that left.
`TakenWhenGone` is an action property: the latch closes on an id the mirror lost,
and by `NoSilentLoss` it does not rest, unless it is in `untold`. The take-profit and the bagger's
limit rest in no slot of the strategy's (`OwnAccepted`).

**PaperRun.** `Younger`: whatever rests, or is under way and will rest, is named
after the last liquidation. This holds because the close drops both, and because
a request names what rests, a new order, or the nil placeholder. `Once` and
`Unborn`: an operation waits once, and nothing else names an order before it is
placed. `Graves`: no replacement outlives the cancel of its order, except one
that was drained beside it. `EveryFillBooked` sums the fills under way by a
recursive function; its sum over a sequence that grows at the end and loses its
head is proved from the library's `WFMin` (`Induct`, `LotsAppended`,
`LotsPopped`). Trying to prove `OnlyOvertakenReturns` showed that its history
variable kept a cancel too long (2.6): with more operations than the run has, an
order that rightly came back could be replaced once more, later.

**Archive.** The invariant is `ArchiveInv`, of three parts. `RecorderInv` is about the
recorder: a delivery is lost or lies whole in one shelf, that is one buffer or
one shard (`Filed`, `Faithful`); deliveries of a kind have instants of their own and
recordings follow one another (`Timeline`); and a snapshot leaves its number
between those of its neighbours of the same recording, whether it was kept or
not (`Numbered`). That last part is what `NoHole` needs and does not say: numbers
that follow one another leave no room for a lost snapshot, and the sort puts a
recording's rows beside each other (`SortedFacts`, `HoleShows`). `Loaded` ties a
replay to what lies in the shards, which no recorder touches any more. `PlayInv` is
about the replay: what it has said is what the rows before the cursor show, each
once and in order (`Said`); the rest comes after all of it (`Ahead`), so a book
is cleared exactly when a new one begins; and the silence is at most a heartbeat
(`Paced`). `Ahead` is what makes it inductive. That the rows of a snapshot are
whole after the sort, and in one group, is `Filed` again. The walk is laid out
row by row by `WayBackIs`; that it is short enough is arithmetic (`FewSteps`). `Max`,
`Min`, finite images and the ranking of the rows are set theory over the library's
`FiniteSetTheorems`. The theorems ask nothing of the stream, the flushes, the kills
or the moment of loading.

**Bagger.** `Tracked` relates the bagger's own peak and timers to what the history
saw: its high-water mark is never above the highest equity since the last
giveback, and its cut timer counts from the last cut that was executed. `Signed`
says that the bag and its cost have the same sign; without it the scaling of the
cost by a partial cut cannot be typed.

**Gates.** The invariant counts everything that may still become inventory: the
position at its cost, the resting bids, the calls that wait for an answer and the
actions not yet called (`WithinCap`). The last two are what makes it inductive: a
batch is capped once, and its orders are accepted one by one later. Each is a
sum, and sums are most of the proof: the notional of a set of orders does not
depend on the order in which the community modules' recursive function takes them
(`AnyFirst`, by induction on the number of orders, and `NotionalLess`), and what a
sequence of actions asks is what its two parts ask (`AskedSplit`). That such
recursive functions exist at all is `Stepwise`, from `Induct`. A fill costs no more
than its bid committed plus what it gained on a short (`Fills`), whatever the
rounding of the average entry. The proof asks nothing of the seed: what it exceeds
the cap by counts as gained. Nor does it ask anything of the caps: a batch is
capped under the cap of its moment, which is at most `widest`, and one sent
without a cap adds what it asks for to both sides of the inequality.

**Feeds.** `BooksAreTrue` rests on `Chain`: the frames in the socket lead from
the pump's copy to the venue's book without a gap, snapshots included, and on
`Newest`: the last book under way is the newest one the pump read. `KeyLives` rests on
`Renewals`: the key of the socket is the one the keepalive renews, and each
period without a renewal is one whose PUT failed or was open when the next fell
due; a PUT of a key that was replaced meanwhile counts for neither. It assumes
`MaxMoves > 0`.

**VenueClient.** The four properties hold by one invariant, `ClientInv`; none is
inductive, because each says what the books are and the books are what answers
made them. The invariant follows the data around: a request in flight names only
ids the venue gave out, and replaces only what is gone (`Fit`); an answer is true
when it is given (`ExecutesOne`, and over all elements of a request `ExecutesAll`,
by induction with the library's `WFMin`) and still true when it is read, because
books only age (`AnswerTrue`, `Ages`); what the caller makes of a true answer is
true (`Good`, `HandledGood`), of a failed one nothing. `Linked` says that a request
has one caller, so no answer reaches another's slots, and `Stamped` that nothing
on the way to the socket refreshes the timestamp of a call. The sides of a batch
are sorted lists: that they are cut into requests without losing or moving a slot
is `Cuts`. `RequotesReplace` leaves out spot and `LateIsRefused`
leaves out Hyperliquid, where the code gives no such promise.

**Strategies.** The invariant is `StrategyInv`, of two parts. `Timely`: a taker order
that was sent for the bag held now is no older than the latch and no older than
`MaxFlight`; there are no two of them, and none while the bot is flat. `OneClose` is
its middle part, which is not inductive: that no second order is sent rests on the
age of the first and on the latch, which a strategy drops when it sees the bot
flat and only then. `Orderly` types what that needs. Most of the proof is about the
seven strategies of `Latched`: each of their handlers gives one of three answers
(`Answers`): it takes nothing and leaves the latch; it takes nothing and drops the
latch while flat; or it takes once and sets the latch, which was not set or has
run out. The answer to a refusal is of the first kind (`RejectAnswers`). On the
venue's side a batch with one taker order makes at most one (`OneApplied`), and
telling the refusals makes none (`SettleKeeps`).

`ClosesOnce` assumes that a taker order is gone, and its fill in the position the
strategy is shown, before the latch runs out (`FlightAssumption`: `MaxFlight` is less
than each retry timer, 5 s in the code, and than keel's flip cooldown, 5 s unless
it is configured). That is what the latches are timers for ("if the IOC missed,
the SL re-fires after the window instead of never", `ratchet.rs:156`), and it is
needed: a fill the websocket loses is not in the position before the next
reconciliation, up to 30 s later, and by then the gate may fire again. It also
assumes that prices are naturals, numbers of levels too, and keel's step positive.

`NoTwins` is proved by `TwinInv`, from two facts about a batch, shown for each of
the nine strategies: its orders differ in price or side (`Apart`), and whatever
rests where one of them goes has been cancelled or is replaced when its turn comes
(`Clear`; together `Safe`). `BatchApplied` runs through the venue's recursion: a safe
batch leaves no twins, whichever of its orders are refused, and what rests
afterwards rested before or is one of its orders. Why a batch is safe differs.
Hydra, hawk and the pairs cancel everything first, so only `Apart` is work: hawk's
levels are sorted, which moves them only (`NeatNearest`), and differ because its
step is not zero. Joker, mantis, tide, keel and wave leave what is already right, so
their orders must avoid what the context shows: the set of prices to add is the
one wanted less the one shown (`NeatSet`), and a set listed by `SetToSeq` lists
nothing twice (`EnumeratedOnce`).

`NoTwins` is not inductive, because of keel. It requotes one of the orders shown at
a rung's price, and what is shown includes its taker order on the way: were another
order to rest at that price, the requote of the one would leave the other, and rest
a twin. `Turning` excludes it: keel's taker
order is sent at the opposing touch, where nothing rests (`Reaches`), there is one at
most because the cooldown outlasts it (`FlightAssumption`), and what is posted later
at its price is a requote of it (`Matches`). Tide and wave send no taker orders, so
nothing is in flight. The rest of `Tidy` types what the prices are computed from: the
average entry, the fills, wave's candles and gaps (`Waves`).

`DistancesAssumption` and `WaveAssumption` type the distances in the configurations.
They exclude three values: tide's step is not zero (in the code zero means one tick,
`tide.rs:30`), wave has a level and a candle at least (`wave.rs:344, 858` clamp both),
and hawk's step is not zero, which nothing in the code ensures and which is needed
(`hawk.rs:253`: with `step_bps = 0` all levels but the first are at one price). Distances are
counted in half ticks and hawk's prices are not rounded by the strategy
(`make_quote`): a step finer than a tick would be rounded together by the venue,
which is not modelled.

Trying to prove it of keel showed that the model lacked `seen` (`keel.rs:283, 322`):
two rungs that round to one tick are one order. With the step of the run they
never do; `KeelRungs` now keeps the first of them, as the code does.

**SpotBuyers.** `Counted` relates the count, the last balance seen, what is on disk
and the wallet at every cut of the cycle; `Planned` says that a level in the plan
holds no bid, which is why placing it makes no twin. `RefillStops` assumes that a
conversion shows within the cooldown (`Settle < Cooldown`), which is what the
cooldown is there for; then at most one is outstanding (`Outstanding`), beside what
was adrift when the task was restarted.

Only model-checked:

* all liveness properties: the prover has no rules for fairness;
* `BankedIsSaved`, `GhostsExpire`, `LostOrdersReturn` and the like, for that reason;
* `ExitsPay`, an action property: most of its cases are about prices that a batch
  of six strategies hangs off an average, whose rounding would have to be followed.

`BookedAtMostOnce`, `NoSeededReplay` and the type invariants are proved and not run
(`GatesTypeOK` is neither); the first is what `ImplementsLedger` says of the same
variable.

## 5. What is not modelled

* `compare.rs`, the parameter sweep: a table of presets and independent backtests
  run in parallel. `tui.rs`, `config.rs`, `build.rs`, `main.rs` but for its end,
  logs, theme: parsing, layout, wiring.
* Multi-symbol runner, spawn, reports, alerts, metrics: nothing feeds back into
  trading. Grid detection, the liquidation feed's merge, the backtest wrapper:
  stateless.
* Signing, formatting, parsing; Bybit's and MEXC's read-only calls.
* A detached runner's last snapshot, written after its bot was banked
  (`Rotation` has the runner, `Account` the file, nothing composes them yet).
* Spot mode of the simulator, its cap by a fraction of the wallet; the minimum
  notional; fees other than the liquidation's.

Within the modules: a save that fails is one that was not made; in `Account` a runner that is stopped runs its epilogue, and one
that is aborted counts as one that panicked. `Gates` has an exact mirror,
`OrderMirror` no prices. Indicators of the strategies are scaled, so what is
checked is their control, not their arithmetic.

## 6. Plan

1. Composing `Rotation` with `Account`: a detached runner whose epilogue
   rewrites the deleted snapshot, and the end of the process during a pass.
2. `VenueClient` under `OrderMirror`: that the client's calls are the outcomes the
   mirror assumes, as a refinement.
3. The queue positions of the simulator, with trades of given sizes.

## 7. Running it

    tlc -config Account.cfg MCAccount      # any run: its cfg and MC module
    tlapm LiveFillsProofs.tla              # any proof module

`Rotation*.cfg` go with `MCRotation`, `Strategy*.cfg` and `Strategies.cfg`
with `MCStrategies`, `Feeds*.cfg` with `MCFeeds`, every other cfg with the `MC`
module of its name. `PROJECT.json` has them all under `runs`.
