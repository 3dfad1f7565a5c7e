----------------------------- MODULE MCPaperRun -----------------------------
(***************************************************************************)
(* Instances of PaperRun and Archive for TLC, in one run: a behaviour is   *)
(* one of the paper session or one of the archive, the other rests.  In a  *)
(* session the strategy sends post-only orders, or also takers but one     *)
(* operation less.                                                         *)
(***************************************************************************)
EXTENDS PaperRun, Archive

VARIABLE part   \* the component that runs

MCBids == {2, 4}
MCLow == -6

MCThin == <<<<0, 1>>, <<1, 3>>>>
MCDeep == <<<<0, 6>>, <<0, 5>>, <<1, 9>>>>
MCWide == <<<<0, 3>>, <<1, 7>>, <<1, 8>>>>
MCDepths == <<{MCThin}, {MCDeep}, {MCWide}>>
MCMaxOf == [book |-> 3, trades |-> 1, mark |-> 1]

MCInit == Init /\ ArchiveInit /\ part \in {"maker", "taker", "archive"}

OfPaper ==
    /\ \/ part = "maker" /\ \A o \in pending' : o.tif = "post"
       \/ part = "taker" /\ sent' < MaxSent
    /\ UNCHANGED <<part, archiveVars>>
OfArchive == part = "archive" /\ UNCHANGED <<part, vars>>

\* Next, RecorderNext and ReplayNext, action by action.
MCNext ==
    \/ Take /\ OfPaper
    \/ Liquidate /\ OfPaper
    \/ Spared /\ OfPaper
    \/ Flatten /\ OfPaper
    \/ Hold /\ OfPaper
    \/ Emit /\ OfPaper
    \/ Sent /\ OfPaper
    \/ DrainStep /\ OfPaper
    \/ ApplyStep /\ OfPaper
    \/ SeeBook /\ OfPaper
    \/ SeeTrade /\ OfPaper
    \/ Match /\ OfPaper
    \/ Matched /\ OfPaper
    \/ Deliver /\ OfPaper
    \/ Delivered /\ OfPaper
    \/ Recover /\ OfPaper
    \/ Skim /\ OfPaper
    \/ Instant /\ OfArchive
    \/ StartRecorder /\ OfArchive
    \/ StopRecorder /\ OfArchive
    \/ \E d \in Depths[clock] : RecordBook(d) /\ OfArchive
    \/ \E ts \in {clock - l : l \in Lags} \cap (Nat \ {0}), p \in Deals : RecordTrade(ts, p) /\ OfArchive
    \/ RecordMark /\ OfArchive
    \/ \E last \in BOOLEAN : StartFlush(last) /\ OfArchive
    \/ WriteShard /\ OfArchive
    \/ \E torso \in BOOLEAN : ShardFails(torso) /\ OfArchive
    \/ \E torso \in BOOLEAN : Kill(torso) /\ OfArchive
    \/ \E g, retrace \in BOOLEAN : Load(g, retrace) /\ OfArchive
    \/ Heartbeat /\ OfArchive
    \/ BookUpdate /\ OfArchive
    \/ Deal /\ OfArchive
    \/ EndOfData /\ OfArchive

MCSpec == MCInit /\ [][MCNext]_<<part, vars, archiveVars>>
=============================================================================
