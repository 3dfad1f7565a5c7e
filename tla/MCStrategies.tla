---------------------------- MODULE MCStrategies ----------------------------
(* Instances of Strategies for TLC: distances in half ticks, sizes in lots,
   times in events.                                                          *)
EXTENDS Strategies

Bk(b, a, bs, as) == [bid |-> b, ask |-> a, bsz |-> bs, asz |-> as]
MCBooks == {Bk(20, 22, 1, 1), Bk(20, 26, 3, 1), Bk(24, 26, 1, 1), Bk(16, 18, 1, 3), Bk(20, None, 1, 0)}

MCTouch ==
  [gap |-> 3, levels |-> 2, inner |-> 3, step |-> 2, every |-> 2,
   maxAge |-> 2, grace |-> 2, tolerance |-> 0, offset |-> 0,
   join |-> 0, reopen |-> 2, minSpread |-> 2,
   improve |-> 1, maxSkew |-> 1, skewUnit |-> 2, imbalance |-> 2, half |-> 1,
   warmup |-> 1, horizon |-> 2]

MCGrid ==
  [static |-> [levels |-> 2, inner |-> 2, step |-> 2, cap |-> 4, window |-> 2, efficiency |-> 50,
               fillWindow |-> 2, target |-> 10, scaleMax |-> 2, autoSkew |-> TRUE,
               tp |-> 4, sl |-> 4, cooldown |-> 2, retry |-> 3],
   layered |-> [levels |-> 2, inner |-> 3, cap |-> 4, tp |-> 4, sl |-> 4, retry |-> 3],
   flat |-> [unit |-> 4, inner |-> 1, step |-> 4, levels |-> 2, skew |-> 2, imbalance |-> 2,
             chase |-> 50, underwater |-> 50, flush |-> 2, flushFrac |-> 50,
             frozen |-> FALSE, band |-> 2, maxOpen |-> 3],
   hydra |-> [offset |-> 3, tp |-> 4, cap |-> 6, pyramidMult |-> 100, dcaMult |-> 50,
              pyramidStep |-> 2, pyramidMax |-> 2, dcaStep |-> 3, dcaMax |-> 1, cooldown |-> 1,
              sl |-> 6, refresh |-> 2, drift |-> 4, retry |-> 3]]

MCRevert ==
  [micro |-> [entry |-> 2, exit |-> 3, cooldown |-> 1, relax |-> 3, floor |-> 2, trigger |-> 6,
              confirm |-> FALSE, addBlock |-> 4, maxEntries |-> 2, fromTouch |-> FALSE],
   rsi |-> [bar |-> 1, maxBars |-> 3, n |-> 1, exitAt |-> 60, buy |-> 40, trending |-> 101, volz |-> -1,
            sl |-> 1, tp |-> 1, maxHold |-> 3],
   rebalance |-> [levels |-> 1, band |-> 4, slip |-> 2]]

MCLat ==
  [hawk |-> [minSpread |-> 6, cap |-> 4, levels |-> 2, inner |-> 2, step |-> 2, target |-> 4,
             tp |-> 6, sl |-> 6, retry |-> 3, every |-> 2],
   tide |-> [step |-> 4, inner |-> 0, levels |-> 2, cap |-> 4, every |-> 2],
   keel |-> [window |-> 2, sar |-> 4, ratio |-> 80, ramp |-> 50, step |-> 4, levels |-> 2, inner |-> 1,
             cap |-> 4, trailing |-> TRUE, reduce |-> 2, minSize |-> 1, maxOpen |-> 4, cooldown |-> 3]]

MCWave ==
  [tidal |-> [step |-> 15, inner |-> 1, levels |-> 2, reduce |-> 1, refill |-> 1, cap |-> 4, skew |-> 2,
              tp |-> 4, tpPct |-> 50, sl |-> 4, slPct |-> 100, retry |-> 3],
   wave |-> [step |-> 15, inner |-> 1, autoInner |-> TRUE, autoStep |-> FALSE, k |-> 1, fees |-> 10,
             window |-> 2, maxInner |-> 2, levels |-> 2, ramp |-> 2, mult |-> 1, drift |-> 20,
             roundTrips |-> 1, force |-> 2, reduceToAvg |-> TRUE]]

MCScalp ==
  [spread |-> [snapshot |-> 2, halfLife |-> 1, threshold |-> 1, maxWiden |-> 2, tolerance |-> 0,
               offset |-> 0, minSpread |-> 2, cooldown |-> 2, cap |-> 2, closeTicks |-> 0,
               strict |-> FALSE, minLots |-> 1, keepClose |-> TRUE, decay1 |-> 1, factor1 |-> 50,
               decay2 |-> 2, factor2 |-> 25, every |-> 1, retry |-> 3, stopDrift |-> 6, stopAfter |-> 1,
               tp |-> 0, sl |-> 0, usdt |-> 0],
   old |-> [minSpread |-> 6, cooldown |-> 2, cap |-> 4, usdt |-> 4, every |-> 1],
   liq |-> [window |-> 3, arm |-> 1, dominance |-> 50, revert |-> 2, cap |-> 2, overshoot |-> 3, fade |-> 1,
            entryTimeout |-> 3, holdTimeout |-> 3, sl |-> 4, grace |-> 1],
   ratchet |-> [tp |-> 4, offset |-> 2, cap |-> 6, window |-> 1, filter |-> 3, cooldown |-> 1, retry |-> 3,
                sl |-> 6, maxAdds |-> 1, tpAvg |-> 4, step |-> 4, mult |-> 100, minLots |-> 1]]

\* spread_scalp with its Stage-5 gate
MCStageFive == [MCScalp EXCEPT !.spread.tp = 4, !.spread.sl = 6]

\* More steps where a cycle needs them, fewer where many orders rest.
MCEvents == [s \in DOMAIN FreshState |->
  CASE s \in {"liq_fade", "mantis", "hawk"} -> 7
    [] s \in {"static_grid", "tidal", "keel", "micro_mean_reversion", "simple_gap", "ladder_reentry"} -> 5
    [] OTHER -> 6]
\* Enough for ratchet to flip its bag and to reach its stop again.
MCLonger == [s \in DOMAIN FreshState |-> 8]
MCRunning == DOMAIN FreshState
=============================================================================
