------------------------------ MODULE Account -------------------------------
(***************************************************************************)
(* The books of an account whose bots come and go.                         *)
(*                                                                         *)
(* A runner counts what it books in its tracker, shows the count in a tap  *)
(* the dashboard reads, and now and then writes it to a snapshot file from *)
(* which the next runner of the symbol resumes.  When the rotation manager *)
(* lets a bot go, it folds the bot's count into the account's retired      *)
(* totals and deletes the snapshot, so that the symbol starts fresh if it  *)
(* comes back.  Every 10 s, and once more at the end of the process, the   *)
(* retired totals are saved to session.json, from which the next process   *)
(* resumes them.  The process may be killed at any step.                   *)
(*                                                                         *)
(* Realized P&L, fees, funding and the count of fills all go the same way; *)
(* they are one number here, the fills booked.  (Volumes and the fills of  *)
(* each side come from the live taps and are not banked.)  The retired     *)
(* totals are sums over the symbols; here each symbol's part is kept       *)
(* apart, which only makes the properties stronger.                        *)
(***************************************************************************)
EXTENDS Integers

CONSTANTS Symbols,
          MaxFills,        \* bound on the fills booked, for each symbol
          DeferUnderwater, \* defer_underwater, "on" or "off"
          Faults           \* what goes wrong

ASSUME AccountAssumption ==
    /\ MaxFills \in [Symbols -> Nat]
    /\ DeferUnderwater \in {"on", "off"}
    /\ Faults \subseteq {"panic", "kill", "slowStop", "reader"}

None == -1           \* a tap or a draft that holds nothing
Nobody == "nobody"
ASSUME NobodyAssumption == Nobody \notin Symbols

VARIABLES
    \* the runners
    runner,    \* is one running for the symbol?  "on" or "off"
    fills,     \* its counters, those it resumed included
    tap,       \* BotView.snapshot, shared with the runner once it is attached
    disk,      \* <state dir>/<symbol>/session.json; 0 when there is none
    \* SharedBotState and the manager
    status,    \* of the view: "none" (no view), "on" or "rotated"
    banked,    \* BotView.banked, "yes" or "no"
    retired,   \* RetiredTotals
    manager,   \* what the rotation is doing, and
    leaving,   \*   to which symbol
    \* the process and its manifest
    process,   \* "up", "stopping", "exiting" or "down"
    saver,     \* the periodic save: "idle", "retired" or "views" when these are read
    draft,     \* what it is about to write
    session,   \* retired totals in the session manifest
    \* history
    booked,    \* fills ever booked on the symbol
    mishap,    \* has a runner died without its epilogue, or main saved for the
               \*   last time before the rest had stopped?  "yes" or "no"
    unlucky,   \* symbols that were being banked when the process ended
    lag        \* has a tap missed its runner's last count?  "no", "tap", or
               \*   "banked" once the retired totals were taken from it

runnerVars  == <<runner, fills, tap, disk>>
stateVars   == <<status, banked, retired>>
managerVars == <<manager, leaving>>
saverVars   == <<saver, draft>>
historyVars == <<booked, mishap, unlucky, lag>>
accountVars == <<runnerVars, stateVars, managerVars, process, saverVars, session, historyVars>>

AccountTypeOK ==
    /\ runner \in [Symbols -> {"on", "off"}]
    /\ fills \in [Symbols -> Nat] /\ disk \in [Symbols -> Nat]
    /\ tap \in [Symbols -> Nat \cup {None}]
    /\ status \in [Symbols -> {"none", "on", "rotated"}]
    /\ banked \in [Symbols -> {"yes", "no"}]
    /\ retired \in [Symbols -> Nat]
    /\ manager \in {"idle", "flatten", "bank", "delete", "done"}
    /\ leaving \in Symbols \cup {Nobody}
    /\ process \in {"up", "stopping", "exiting", "down"}
    /\ saver \in {"idle", "retired", "views"}
    /\ draft \in [Symbols -> Nat] /\ session \in [Symbols -> Nat]
    /\ booked \in [Symbols -> Nat]
    /\ mishap \in {"yes", "no"} /\ unlucky \subseteq Symbols
    /\ lag \in [Symbols -> {"no", "tap", "banked"}]

Zero == [s \in Symbols |-> 0]

AccountInit ==
    /\ runner = [s \in Symbols |-> "off"] /\ fills = Zero
    /\ tap = [s \in Symbols |-> None] /\ disk = Zero
    /\ status = [s \in Symbols |-> "none"] /\ banked = [s \in Symbols |-> "no"]
    /\ retired = Zero
    /\ manager = "idle" /\ leaving = Nobody
    /\ process = "up" /\ saver = "idle" /\ draft = Zero /\ session = Zero
    /\ booked = Zero /\ mishap = "no" /\ unlucky = {}
    /\ lag = [s \in Symbols |-> "no"]

\* What a tap contributes to a sum.
Worth(n) == IF n = None THEN 0 ELSE n

-----------------------------------------------------------------------------
(* The runner of a symbol and its supervisor.                              *)

\* run_once succeeds: the runner resumes from the snapshot, and its own, empty
\* tap replaces the one in the view (attach_handle).
SpawnRunner(s) ==
    /\ process # "down" /\ manager # "done"
    /\ status[s] = "on" /\ runner[s] = "off" /\ leaving # s
    /\ runner' = [runner EXCEPT ![s] = "on"]
    /\ fills' = [fills EXCEPT ![s] = disk[s]]
    /\ tap' = [tap EXCEPT ![s] = None]
    /\ UNCHANGED <<disk, stateVars, managerVars, process, saverVars, session, historyVars>>

\* A fill is booked; the websocket arm shows it at once, the REST replay leaves
\* that to the status tick.
Book(s) ==
    /\ runner[s] = "on" /\ booked[s] < MaxFills[s]
    /\ fills' = [fills EXCEPT ![s] = @ + 1]
    /\ booked' = [booked EXCEPT ![s] = @ + 1]
    /\ tap' \in {tap, [tap EXCEPT ![s] = fills[s] + 1]}
    /\ UNCHANGED <<runner, disk, stateVars, managerVars, process, saverVars, session,
                   mishap, unlucky, lag>>

\* The runner's try_write to its tap, which does nothing while a reader has it.
Show(s) == \/ tap' = [tap EXCEPT ![s] = fills[s]]
           \/ "reader" \in Faults /\ UNCHANGED tap

\* The status tick shows the counters.
Publish(s) ==
    /\ runner[s] = "on"
    /\ Show(s)
    /\ UNCHANGED <<runner, fills, disk, stateVars, managerVars, process, saverVars, session,
                   historyVars>>

\* Every hundred events they are written to disk as well.
Snapshot(s) ==
    /\ runner[s] = "on"
    /\ Show(s)
    /\ disk' = [disk EXCEPT ![s] = fills[s]]
    /\ UNCHANGED <<runner, fills, stateVars, managerVars, process, saverVars, session,
                   historyVars>>

\* The taps among those of S that a reader may hold as their runners end.
Busy(S) == IF "reader" \in Faults THEN SUBSET S ELSE {{}}

\* The epilogue of the runners of S: a last snapshot, on disk and, unless a
\* reader has it, in the tap.
Epilogue(S, held) ==
    LET ending == {s \in S : runner[s] = "on"} IN
    /\ runner' = [s \in Symbols |-> IF s \in ending THEN "off" ELSE runner[s]]
    /\ disk' = [s \in Symbols |-> IF s \in ending THEN fills[s] ELSE disk[s]]
    /\ tap' = [s \in Symbols |-> IF s \in ending \ held THEN fills[s] ELSE tap[s]]

\* The fill channel closes: the runner ends in good order, to be respawned.  The
\* supervisor waits for the tap and writes the report into it (set_final).
RunnerExits(s) ==
    /\ process # "down" /\ runner[s] = "on"
    /\ Epilogue({s}, {})
    /\ UNCHANGED <<fills, stateVars, managerVars, process, saverVars, session, historyVars>>

\* The runner panics: what it had not written is gone.
RunnerPanics(s) ==
    /\ "panic" \in Faults /\ runner[s] = "on"
    /\ runner' = [runner EXCEPT ![s] = "off"]
    /\ mishap' = "yes"
    /\ UNCHANGED <<fills, tap, disk, stateVars, managerVars, process, saverVars, session,
                   booked, unlucky, lag>>

-----------------------------------------------------------------------------
(* The rotation manager, which looks at the shutdown signal only between   *)
(* two of its passes.                                                      *)

\* spawn_one_bot, for a symbol of the saved roster, an orphan position or a new
\* entrant: a fresh view takes the place of one that lingers.
Spawn(s) ==
    /\ process # "down" /\ manager = "idle" /\ status[s] # "on"
    /\ status' = [status EXCEPT ![s] = "on"]
    /\ banked' = [banked EXCEPT ![s] = "no"]
    /\ tap' = [tap EXCEPT ![s] = None]
    /\ UNCHANGED <<runner, fills, disk, retired, managerVars, process, saverVars, session,
                   historyVars>>

\* Faulty variant: a bot without a snapshot is let go too.
MayRotateUnseen(s) == TRUE

\* should_defer_rotation: with no NET snapshot there is nothing to decide on.
\* The thresholds on NET and on the bag's size are left to chance.
MayRotate(s) == DeferUnderwater = "on" => tap[s] # None

\* A symbol that fell out of the top set is let go: its bot is stopped.  Its
\* supervisor drops the report of a runner that it stops.
Rotate(s) ==
    /\ process # "down" /\ manager = "idle" /\ status[s] = "on"
    /\ MayRotate(s)
    /\ \E held \in Busy({s}) :
          /\ Epilogue({s}, held)
          /\ lag' = [lag EXCEPT ![s] = IF s \in held /\ runner[s] = "on" /\ @ = "no"
                                       THEN "tap" ELSE @]
    /\ manager' = "flatten" /\ leaving' = s
    /\ UNCHANGED <<fills, stateVars, process, saverVars, session, booked, mishap, unlucky>>

\* The flatten fails: a new manager for the symbol, with a view of its own.
FlattenErr ==
    /\ manager = "flatten"
    /\ tap' = [tap EXCEPT ![leaving] = None]
    /\ banked' = [banked EXCEPT ![leaving] = "no"]
    /\ lag' = [lag EXCEPT ![leaving] = IF @ = "tap" THEN "no" ELSE @]
    /\ manager' = "idle" /\ leaving' = Nobody
    /\ UNCHANGED <<runner, fills, disk, status, retired, process, saverVars, session,
                   booked, mishap, unlucky>>

\* The flatten succeeds; the view is marked rotated and lingers on display.
FlattenOk ==
    /\ manager = "flatten"
    /\ status' = [status EXCEPT ![leaving] = "rotated"]
    /\ manager' = "bank"
    /\ UNCHANGED <<runnerVars, banked, retired, leaving, process, saverVars, session, historyVars>>

\* Folding a view into the retired totals, unless it is banked already.
Fold(s) == [retired EXCEPT ![s] = @ + (IF banked[s] = "yes" THEN 0 ELSE Worth(tap[s]))]

\* bank_rotated, under the lock of the views.
Bank ==
    /\ manager = "bank"
    /\ retired' = Fold(leaving)
    /\ banked' = [banked EXCEPT ![leaving] = "yes"]
    /\ lag' = [lag EXCEPT ![leaving] = IF @ = "tap" THEN "banked" ELSE @]
    /\ manager' = "delete"
    /\ UNCHANGED <<runnerVars, status, leaving, process, saverVars, session,
                   booked, mishap, unlucky>>

\* Faulty variant: the snapshot stays.
DeleteSnapshotNot ==
    /\ manager = "delete"
    /\ manager' = "idle" /\ leaving' = Nobody
    /\ UNCHANGED <<runnerVars, stateVars, process, saverVars, session, historyVars>>

\* bank_rotated, after the lock: the snapshot goes.
DeleteSnapshot ==
    /\ manager = "delete"
    /\ disk' = [disk EXCEPT ![leaving] = 0]
    /\ manager' = "idle" /\ leaving' = Nobody
    /\ UNCHANGED <<runner, fills, tap, stateVars, process, saverVars, session, historyVars>>

\* Five rechecks later the view is dropped (SharedBotState::remove).
Retire(s) ==
    /\ process # "down" /\ manager = "idle" /\ status[s] = "rotated"
    /\ retired' = Fold(s)
    /\ status' = [status EXCEPT ![s] = "none"]
    /\ banked' = [banked EXCEPT ![s] = "no"]
    /\ tap' = [tap EXCEPT ![s] = None]
    /\ disk' = [disk EXCEPT ![s] = 0]
    /\ UNCHANGED <<runner, fills, managerVars, process, saverVars, session, historyVars>>

-----------------------------------------------------------------------------
(* The session manifest and the life of the process.                       *)

\* Faulty variant: banked views are folded once more.
PendingTwice(s) == IF status[s] = "rotated" THEN Worth(tap[s]) ELSE 0

\* What session_state adds for a view rotated out and not yet banked.
Pending(s) == IF status[s] = "rotated" /\ banked[s] = "no" THEN Worth(tap[s]) ELSE 0

\* Faulty variant: the manifest starts from nothing rather than from the totals.
SaveReadsRetiredNot ==
    /\ process \in {"up", "stopping"} /\ saver = "idle"
    /\ saver' = "retired" /\ draft' = Zero
    /\ UNCHANGED <<runnerVars, stateVars, managerVars, process, session, historyVars>>

\* The periodic save: session_state reads the retired totals, then the views,
\* each under a lock of its own; then the file is renamed into place.  A tick
\* that is due as the signal comes may still be taken.
SaveReadsRetired ==
    /\ process \in {"up", "stopping"} /\ saver = "idle"
    /\ saver' = "retired" /\ draft' = retired
    /\ UNCHANGED <<runnerVars, stateVars, managerVars, process, session, historyVars>>

SaveReadsViews ==
    /\ saver = "retired" /\ process # "down"
    /\ saver' = "views" /\ draft' = [s \in Symbols |-> draft[s] + Pending(s)]
    /\ UNCHANGED <<runnerVars, stateVars, managerVars, process, session, historyVars>>

SaveWrites ==
    /\ saver = "views" /\ process # "down"
    /\ saver' = "idle" /\ draft' = Zero
    /\ session' = draft
    /\ UNCHANGED <<runnerVars, stateVars, managerVars, process, historyVars>>

Shutdown ==
    /\ process = "up"
    /\ process' = "stopping"
    /\ UNCHANGED <<runnerVars, stateVars, managerVars, saverVars, session, historyVars>>

\* The manager sees the signal between two passes and stops all bots.
StopAll ==
    /\ process \in {"stopping", "exiting"} /\ manager = "idle"
    /\ \E held \in Busy(Symbols) : Epilogue(Symbols, held)
    /\ manager' = "done"
    /\ UNCHANGED <<fills, stateVars, leaving, process, saverVars, session, historyVars>>

\* The end of main: purge_rotated_snapshots, then the final save.  main waits
\* for the manager, but no longer than six seconds, and not for a periodic save
\* that is under way; a flatten alone may take ten.
FinalSave ==
    /\ process = "stopping"
    /\ "slowStop" \in Faults \/ (manager = "done" /\ saver = "idle")
    /\ disk' = [s \in Symbols |-> IF status[s] = "rotated" THEN 0 ELSE disk[s]]
    /\ session' = [s \in Symbols |-> retired[s] + Pending(s)]
    /\ process' = "exiting"
    /\ mishap' = IF manager = "done" /\ saver = "idle" THEN mishap ELSE "yes"
    /\ UNCHANGED <<runner, fills, tap, stateVars, managerVars, saverVars, booked, unlucky, lag>>

\* Nothing of the process is left but its files.  The retired totals keep
\* their value until the next process reads its own.  (Bound: the process ends
\* once at most while it banks a given symbol, since each such end may add to
\* the total once more.)
Gone ==
    /\ manager \in {"bank", "delete"} => leaving \notin unlucky
    /\ process' = "down"
    /\ runner' = [s \in Symbols |-> "off"] /\ fills' = Zero
    /\ tap' = [s \in Symbols |-> None]
    /\ status' = [s \in Symbols |-> "none"] /\ banked' = [s \in Symbols |-> "no"]
    /\ manager' = "idle" /\ leaving' = Nobody
    /\ saver' = "idle" /\ draft' = Zero
    /\ unlucky' = unlucky \cup (IF manager \in {"bank", "delete"} THEN {leaving} ELSE {})
    /\ lag' = [s \in Symbols |-> IF lag[s] = "tap" THEN "no" ELSE lag[s]]

Exit ==
    /\ process = "exiting"
    /\ Gone
    /\ UNCHANGED <<disk, retired, session, booked, mishap>>

\* The process is killed.  A snapshot that was being written may be torn, which
\* reads as none; the manifest is renamed into place and never is.
Kill(torn) ==
    /\ "kill" \in Faults /\ process # "down"
    /\ \A s \in torn : runner[s] = "on"
    /\ disk' = [s \in Symbols |-> IF s \in torn THEN 0 ELSE disk[s]]
    /\ Gone
    /\ mishap' = "yes"
    /\ UNCHANGED <<retired, session, booked>>

\* restore_session.
Restart ==
    /\ process = "down"
    /\ process' = "up"
    /\ retired' = session
    /\ UNCHANGED <<runnerVars, status, banked, managerVars, saverVars, session, historyVars>>

-----------------------------------------------------------------------------
AccountNext ==
    \/ \E s \in Symbols :
          \/ SpawnRunner(s) \/ Book(s) \/ Publish(s) \/ Snapshot(s)
          \/ RunnerExits(s) \/ RunnerPanics(s)
          \/ Spawn(s) \/ Rotate(s) \/ Retire(s)
    \/ FlattenErr \/ FlattenOk \/ Bank \/ DeleteSnapshot
    \/ SaveReadsRetired \/ SaveReadsViews \/ SaveWrites
    \/ Shutdown \/ StopAll \/ FinalSave \/ Exit \/ Restart
    \/ \E torn \in SUBSET Symbols : Kill(torn)

AccountSpec == AccountInit /\ [][AccountNext]_accountVars

\* The save task ticks for ever.
AccountFairness ==
    /\ WF_accountVars(SaveReadsRetired)
    /\ WF_accountVars(SaveReadsViews)
    /\ WF_accountVars(SaveWrites)

FairAccountSpec == AccountSpec /\ AccountFairness

-----------------------------------------------------------------------------
(* Properties.                                                             *)

\* The account's total on the dashboard (AccountAggregate::compute): the
\* retired totals and every view not banked yet.
Shown(s) == retired[s] + (IF banked[s] = "yes" THEN 0 ELSE Worth(tap[s]))

\* No fill is counted twice: not by a bot that is banked and lingers, not by
\* one that rotates back in, not by a restart.  A symbol that was being banked
\* when the process ended is left out: its total may have been saved
\* before its snapshot was deleted.
NoDoubleCount ==
    process # "down" => \A s \in Symbols \ unlucky : Shown(s) <= booked[s]

\* The files a process leaves behind hold every fill ever booked, exactly once,
\* whatever rotations, respawns, retirements and restarts there were.  Left out:
\* a history in which a runner died without its epilogue, or main made its last
\* save before the manager and the periodic save were done; and a symbol whose
\* bot was banked from a tap that missed its last count because a reader had it.
RestartKeepsAll ==
    process = "down" /\ mishap = "no" =>
        \A s \in Symbols : lag[s] # "banked" => session[s] + disk[s] = booked[s]

\* The same without the two exceptions the code brings about by itself, as the
\* comment on SessionState has it: "Restored on restart (unless `--clear`) so the
\* account summary stays continuous".  Bots are only ever stopped, nothing dies.
StaysContinuous ==
    process = "down" => \A s \in Symbols : session[s] + disk[s] = booked[s]

\* What is banked reaches the manifest, though the save reads the totals and
\* the views at different times.
BankedIsSaved ==
    \A s \in Symbols :
        (process = "up" /\ session[s] < retired[s])
            ~> (session[s] >= retired[s] \/ process # "up")
=============================================================================
