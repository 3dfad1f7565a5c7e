------------------------------ MODULE MCGuards ------------------------------
(***************************************************************************)
(* Instances of Gates and Bagger for TLC, in one run: a behaviour is one   *)
(* of the dispatch gates or one of the bagger, the other component rests.  *)
(* Of the gates, one behaviour is about lockouts and the cooldown: all its *)
(* batches are capped, none requotes.  Another is about the cap: it has    *)
(* uncapped batches and requotes, and all refusals are passing ones.       *)
(***************************************************************************)
EXTENDS Gates, Bagger

VARIABLE guard   \* the component that runs

MCSeeds == {<<0, 0>>, <<-1, -4>>, <<1, 2>>, <<2, 6>>}
MCShort == {<<-1, -4>>}

\* Each mechanism alone, and the stacks the presets build.
MCMechSets == {{m} : m \in Mechanisms}
    \cup {{"giveback", "periodic"}, {"profitLock", "lossLock"}, {"trail", "stop", "cap"}, {"periodic", "trail"}}
MCPct == [m \in Mechanisms |->
            CASE m \in {"invFlat", "cap"} -> 50 [] m = "bpCut" -> 25 [] m = "trail" -> 50 [] OTHER -> 10]

Init ==
    /\ GatesInit /\ BagInit
    /\ \/ guard = "gates" /\ widest = 4 /\ on = {"stop"} /\ mark = CHOOSE m \in Marks : TRUE
       \/ guard = "cap" /\ boost # "off" /\ on = {"stop"} /\ mark = CHOOSE m \in Marks : TRUE
       \/ guard = "bagger" /\ boost = "off" /\ pos = 0 /\ widest = CHOOSE c \in CapValues : TRUE

Plain == gained' = gained /\ \A i \in DOMAIN batch' : batch'[i].kind # "requote"
OfGates == guard \in {"gates", "cap"} /\ UNCHANGED <<guard, bagVars>>
OfLocks == guard = "gates" /\ UNCHANGED <<guard, bagVars>>
OfBagger == guard = "bagger" /\ UNCHANGED <<guard, gateVars>>

\* GatesNext and BagNext, action by action.
Next ==
    \/ OfGates /\ Begin("event") /\ (guard = "gates" => Plain)
    \/ OfGates /\ Begin("post") /\ (guard = "gates" => Plain)
    \/ OfGates /\ Gather
    \/ OfGates /\ Accepted
    \/ OfGates /\ Passing
    \/ OfLocks /\ Limited
    \/ OfLocks /\ Refused
    \/ OfGates /\ Finish
    \/ OfGates /\ Filled
    \/ OfLocks /\ Tick
    \/ OfBagger /\ GridFill
    \/ OfBagger /\ Evaluate
    \/ OfBagger /\ Idle

\* Time passes for the gates, as in GatesSpec.
Spec ==
    /\ Init /\ [][Next]_<<guard, gateVars, bagVars>>
    /\ WF_gateVars(OfLocks /\ Tick)
=============================================================================
