------------------------------- MODULE Archive -------------------------------
(***************************************************************************)
(* Market data kept and played back.  The recorder of tikr-record buffers  *)
(* the book, trade and mark rows of one symbol and flushes them to parquet *)
(* shards named by kind and second; a write may fail and the process may   *)
(* be killed anywhere.  A replay of tikr-backtest loads what is complete   *)
(* at some moment, also while the recorder is at work, orders and checks   *)
(* it, may add a walk back to the first price, and plays it as events.     *)
(* Instants are counted; each brings at most one row of a kind.            *)
(***************************************************************************)
EXTENDS Integers, Sequences, FiniteSets, SequencesExt, FiniteSetsExt

CONSTANTS LastInstant,   \* bound on the recording
          Second,        \* instants in a second of a shard's name, and in a step of the walk
          Depths,        \* per instant: the snapshots the venue may send, as sequences of
                         \* <<side, tick>>, bids (0) before asks (1)
          Deals,         \* trade prices in ticks; 0 is the corrupt row of the feed
          Lags,          \* instants a trade may come after its own
          RowThreshold,  \* FLUSH_ROW_THRESHOLD
          Beat,          \* heartbeat_ms in instants
          MaxSteps,      \* MAX_STEPS of the walk
          MaxRecordings, \* bound on the starts of the recorder
          MaxFaults,     \* bound on failed writes and kills
          MaxOf          \* per kind: bound on what its stream delivers

ASSUME ArchiveAssumption ==
    /\ {LastInstant, Second, RowThreshold, Beat, MaxSteps, MaxRecordings} \subseteq Nat \ {0}
    /\ MaxFaults \in Nat /\ MaxOf \in [{"book", "trades", "mark"} -> Nat]
    /\ Deals \cup Lags \subseteq Nat
    /\ DOMAIN Depths = 1..LastInstant
    /\ UNION Range(Depths) \subseteq Seq({0, 1} \X (Nat \ {0})) \ {<<>>}

VARIABLES rec,      \* the recorder: "off", "run", or the kind it writes next
          closing,  \* the flush under way is the last
          clock, recordings, faults,
          buf,      \* per kind: the rows not written yet
          seq,      \* of the last book row
          stamp,    \* of the flush under way
          files,    \* shards: <<kind, stamp>> to [whole, rows]
          taken,    \* ghost: what the streams delivered
          gone      \* ghost: what was lost: killed in the buffer, or written over

VARIABLES stage,    \* the replay: "none", "play", "done", "refused"
          evs, cursor, book, lastTs,
          current,  \* of the mark series
          out,      \* what next() has returned, with the mark asked at it
          gaps,     \* allow_seq_gaps
          boundary, \* the last real instant, where a walk back was added; else 0
          owed      \* ghost: what the shards held when it loaded

recorderVars == <<rec, closing, clock, recordings, faults, buf, seq, stamp, files, taken, gone>>
replayVars == <<stage, evs, cursor, book, lastTs, current, out, gaps, boundary, owed>>
archiveVars == <<recorderVars, replayVars>>

KindsOf == <<"book", "trades", "mark">>
Kind == Range(KindsOf)
NoRows == [k \in Kind |-> <<>>]
Buffered == Len(buf["book"]) + Len(buf["trades"]) + Len(buf["mark"])

\* The deliveries some rows stand for.
Items(rows) == {rows[i].item : i \in DOMAIN rows}
Pending == UNION {Items(buf[k]) : k \in Kind}

RecorderInit ==
    /\ rec = "off" /\ closing = FALSE /\ clock = 1 /\ recordings = 0 /\ faults = 0
    /\ buf = NoRows /\ seq = 0 /\ stamp = 0 /\ files = <<>> /\ taken = {} /\ gone = {}

ReplayInit ==
    /\ stage = "none" /\ evs = <<>> /\ cursor = 1 /\ lastTs = 0 /\ current = 0 /\ out = <<>>
    /\ book = [ts |-> 0, bids |-> {}, asks |-> {}]
    /\ gaps = FALSE /\ boundary = 0 /\ owed = {}
-----------------------------------------------------------------------------
(* The recorder.  What it does between two awaits is one step, a flush one  *)
(* step per shard: the reader and a kill come between.                      *)

Instant ==
    /\ stage = "none" /\ clock < LastInstant /\ clock' = clock + 1
    /\ rec = "off" => recordings < MaxRecordings
    /\ UNCHANGED <<rec, closing, recordings, faults, buf, seq, stamp, files, taken, gone, replayVars>>

\* A recording starts: row numbers from 1 again.
StartRecorder ==
    /\ stage = "none" /\ rec = "off" /\ recordings < MaxRecordings
    /\ rec' = "run" /\ recordings' = recordings + 1 /\ closing' = FALSE
    /\ buf' = NoRows /\ seq' = 0
    /\ UNCHANGED <<clock, faults, stamp, files, taken, gone, replayVars>>

New(kind, ts) ==
    /\ Cardinality({i \in taken : i.kind = kind}) < MaxOf[kind]
    /\ ~\E i \in taken : i.kind = kind /\ i.ts = ts

\* Rows join the buffer; a full one is flushed at once.
Buffer(kind, rows) ==
    /\ buf' = [buf EXCEPT ![kind] = @ \o rows]
    /\ taken' = taken \cup Items(rows)
    /\ IF Buffered + Len(rows) >= RowThreshold
       THEN rec' = "book" /\ stamp' = clock \div Second
       ELSE rec' = rec /\ stamp' = stamp
    /\ UNCHANGED <<closing, clock, recordings, faults, files, gone, replayVars>>

\* record_book: a row per level, the bids first, numbered.
RecordBook(d) ==
    /\ stage = "none" /\ rec = "run" /\ New("book", clock)
    /\ LET of(side) == {d[i][2] : i \in {j \in DOMAIN d : d[j][1] = side}}
           item == [kind |-> "book", ts |-> clock, run |-> recordings,
                    val |-> [bids |-> of(0), asks |-> of(1)]]
       IN  Buffer("book", [i \in DOMAIN d |-> [item |-> item, ts |-> clock, side |-> d[i][1],
                                              price |-> d[i][2], seq |-> seq + i]])
    /\ seq' = seq + Len(d)

\* record_trade, which may come late.
RecordTrade(ts, p) ==
    /\ stage = "none" /\ rec = "run" /\ New("trades", ts)
    /\ Buffer("trades", <<[item |-> [kind |-> "trades", ts |-> ts, val |-> p, run |-> recordings],
                           ts |-> ts, price |-> p]>>)
    /\ seq' = seq

RecordMark ==
    /\ stage = "none" /\ rec = "run" /\ New("mark", clock)
    /\ Buffer("mark", <<[item |-> [kind |-> "mark", ts |-> clock, val |-> clock, run |-> recordings],
                         ts |-> clock, price |-> clock]>>)
    /\ seq' = seq

\* flush_if_stale, or the last flush of a shutdown.
StartFlush(last) ==
    /\ stage = "none" /\ rec = "run" /\ Buffered > 0
    /\ rec' = "book" /\ stamp' = clock \div Second /\ closing' = last
    /\ UNCHANGED <<clock, recordings, faults, buf, seq, files, taken, gone, replayVars>>

StopRecorder ==
    /\ stage = "none" /\ rec = "run" /\ Buffered = 0 /\ rec' = "off"
    /\ UNCHANGED <<closing, clock, recordings, faults, buf, seq, stamp, files, taken, gone, replayVars>>

\* File::create truncates what was there under that name.
Truncated(name) == IF name \in DOMAIN files THEN Items(files[name].rows) ELSE {}
Put(name, shard) == [n \in DOMAIN files \cup {name} |-> IF n = name THEN shard ELSE files[n]]
Torso == [whole |-> FALSE, rows |-> <<>>]

\* The kind written after one; after the last the flush is over.
NextKind(kind) ==
    CASE kind = "book" -> "trades" [] kind = "trades" -> "mark"
      [] OTHER -> IF closing THEN "off" ELSE "run"

\* One shard of a flush is written and its buffer cleared.
WriteShard ==
    /\ stage = "none" /\ rec \in Kind
    /\ LET name == <<rec, stamp>> IN
       IF buf[rec] = <<>> THEN UNCHANGED <<files, gone, buf>>
       ELSE /\ files' = Put(name, [whole |-> TRUE, rows |-> buf[rec]])
            /\ gone' = gone \cup Truncated(name)
            /\ buf' = [buf EXCEPT ![rec] = <<>>]
    /\ rec' = NextKind(rec)
    /\ stamp' = IF rec = "mark" THEN 0 ELSE stamp
    /\ UNCHANGED <<closing, clock, recordings, faults, seq, taken, replayVars>>

\* It fails with nothing created, or with a torso; its rows and those of the
\* kinds after it stay buffered, unless this flush was the last.
ShardFails(torso) ==
    /\ stage = "none" /\ rec \in Kind /\ buf[rec] # <<>>
    /\ faults < MaxFaults /\ faults' = faults + 1
    /\ files' = IF torso THEN Put(<<rec, stamp>>, Torso) ELSE files
    /\ gone' = gone \cup (IF torso THEN Truncated(<<rec, stamp>>) ELSE {})
                    \cup (IF closing THEN Pending ELSE {})
    /\ buf' = IF closing THEN NoRows ELSE buf
    /\ rec' = IF closing THEN "off" ELSE "run"
    /\ stamp' = 0
    /\ UNCHANGED <<closing, clock, recordings, seq, taken, replayVars>>

Kill(torso) ==
    /\ stage = "none" /\ rec # "off" /\ (torso => rec \in Kind /\ buf[rec] # <<>>)
    /\ faults < MaxFaults /\ faults' = faults + 1
    /\ files' = IF torso THEN Put(<<rec, stamp>>, Torso) ELSE files
    /\ gone' = gone \cup Pending \cup (IF torso THEN Truncated(<<rec, stamp>>) ELSE {})
    /\ rec' = "off" /\ buf' = NoRows /\ stamp' = 0 /\ closing' = FALSE
    /\ UNCHANGED <<clock, recordings, seq, taken, replayVars>>
-----------------------------------------------------------------------------
(* Loading. *)

\* The rows of a shard as they are read, each with its source position.
Shard(n) ==
    {[kind |-> n[1], ts |-> files[n].rows[i].ts, row |-> files[n].rows[i], src |-> <<n[2], i>>] :
        i \in DOMAIN files[n].rows}

\* The rows of a kind in the complete shards (is_complete_parquet); zero prices
\* are dropped.
Rows(kind) ==
    {e \in UNION {Shard(n) : n \in {m \in DOMAIN files : m[1] = kind /\ files[m].whole}} :
        e.row.price > 0}

\* By instant, books before trades, then by source position.
Before(a, b) ==
    \/ a.ts < b.ts
    \/ a.ts = b.ts /\ a.kind = "book" /\ b.kind = "trades"
    \/ a.ts = b.ts /\ a.kind = b.kind
       /\ (a.src[1] < b.src[1] \/ (a.src[1] = b.src[1] /\ a.src[2] < b.src[2]))

\* The k-th in order is the one that k - 1 come before.
Ranking(S) ==
    [k \in 1..Cardinality(S) |-> CHOOSE e \in S : Cardinality({x \in S : Before(x, e)}) = k - 1]
Sorted == Ranking(Rows("book") \cup Rows("trades"))

\* i and j are book rows of s with none between.
Successive(s, i, j) ==
    /\ i < j /\ s[i].kind = "book" /\ s[j].kind = "book"
    /\ \A k \in (i + 1)..(j - 1) : s[k].kind # "book"

\* Bug: the numbers need only grow.
ContiguousGrowing(s) ==
    \A i, j \in DOMAIN s : Successive(s, i, j) => s[i].row.seq < s[j].row.seq

Contiguous(s) ==
    \A i, j \in DOMAIN s : Successive(s, i, j) => s[j].row.seq = s[i].row.seq + 1

Touch(b) == [bid |-> Max(b.bids), ask |-> Min(b.asks)]
Crossable(b) == b.bids # {} /\ b.asks # {} /\ Touch(b).ask > Touch(b).bid
\* Decimal::round: a half goes to the even tick.
HalfEven(n) == IF n % 2 = 0 THEN n \div 2 ELSE IF (n \div 2) % 2 = 0 THEN n \div 2 ELSE n \div 2 + 1
Mid(b) == HalfEven(Touch(b).bid + Touch(b).ask)

\* The book a run of rows builds at an instant, and the instants at which it can
\* be crossed.
BookAt(s, ts) ==
    LET of(side) == {s[i].row.price : i \in {j \in DOMAIN s : s[j].kind = "book" /\ s[j].ts = ts
                                                             /\ s[j].row.side = side}}
    IN  [ts |-> ts, bids |-> of(0), asks |-> of(1)]
BookTimes(s) == {s[i].ts : i \in {j \in DOMAIN s : s[j].kind = "book"}}
Crossings(s) == {ts \in BookTimes(s) : Crossable(BookAt(s, ts))}
MidAt(s, ts) == Mid(BookAt(s, ts))
Between(x, y) == IF x > y THEN x - y ELSE y - x

\* The median of the moves between completed books; the last book is no move.
Stride(s) ==
    LET full == Crossings(s) \ {Max(BookTimes(s))}
        move(ts) == Between(MidAt(s, ts), MidAt(s, Max({x \in full : x < ts})))
        moved == {ts \in full : (\E x \in full : x < ts) /\ move(ts) > 0}
        most(m) == Cardinality({ts \in moved : move(ts) <= m}) > Cardinality(moved) \div 2
    IN  IF moved = {} THEN 1 ELSE Min({m \in {move(ts) : ts \in moved} : most(m)})

Walk(from, to, step) ==
    LET span == IF to > from THEN to - from ELSE from - to
        way(i) == IF i * step > span THEN span ELSE i * step
    IN  [i \in 1..((span + step - 1) \div step) |->
            IF to > from THEN from + way(i) ELSE from - way(i)]

\* with_retrace_tail: from the last mid back to the first, a book and a fat
\* trade per step, after the last instant.
Origin(s) == MidAt(s, Min(Crossings(s)))
End(s) == MidAt(s, Max(Crossings(s)))
Retraceable(s) == Crossings(s) # {} /\ Origin(s) # End(s)
WayBack(s) ==
    LET step == Max({Stride(s), Between(Origin(s), End(s)) \div MaxSteps + 1})
        path == Walk(End(s), Origin(s), step)
        at(i, half) == Last(s).ts + Second * (2 * i - half)
        level(i, side, p) == [kind |-> "book", ts |-> at(i, 1), row |-> [side |-> side, price |-> p]]
        row(i, which) == CASE which = 1 -> level(i, 0, path[i] - 1)
                           [] which = 2 -> level(i, 1, path[i] + 1)
                           [] which = 0 -> [kind |-> "trades", ts |-> at(i, 0), row |-> [price |-> path[i]]]
    IN  [k \in 1..(3 * Len(path)) |-> row((k + 2) \div 3, k % 3)]

\* load, which allows gaps only where there are some (they make no difference
\* elsewhere), and the walk where there is a way to walk.  Rows that only wait
\* in a buffer change nothing for it: it is tried where a flush has written and has
\* more to write, or the recorder is off.
Load(g, retrace) == LET s == Sorted IN
    /\ stage = "none" /\ files # <<>>
    /\ rec = "off" \/ (rec \in {"trades", "mark"} /\ Buffered > 0)
    /\ gaps' = g /\ (g => ~Contiguous(s))
    /\ stage' = IF g \/ Contiguous(s) THEN "play" ELSE "refused"
    /\ retrace => Retraceable(s)
    /\ evs' = IF retrace THEN s \o WayBack(s) ELSE s
    /\ boundary' = IF retrace THEN Last(s).ts ELSE 0
    /\ owed' = {i \in taken \ (gone \cup Pending) : i.kind = "book" \/ i.val > 0}
    /\ UNCHANGED <<cursor, book, lastTs, current, out, recorderVars>>
-----------------------------------------------------------------------------
(* Playing: next(), and the mark the runner asks for at each event.         *)

\* MarkSeries.advance: the latest mark not after an instant.
Advanced(ts) == Max({0} \cup {r.ts : r \in {m \in Rows("mark") : m.ts <= ts}})

Emitted(kind, ts, val) ==
    /\ current' = Advanced(ts) /\ lastTs' = ts
    /\ out' = Append(out, [kind |-> kind, ts |-> ts, val |-> val, mark |-> current'])
    /\ UNCHANGED <<stage, evs, gaps, boundary, owed, recorderVars>>

BeatDue == lastTs > 0 /\ lastTs + Beat < evs[cursor].ts

Heartbeat ==
    /\ stage = "play" /\ cursor <= Len(evs) /\ BeatDue
    /\ Emitted("heartbeat", lastTs + Beat, 0)
    /\ UNCHANGED <<cursor, book>>

\* Bug: levels of the snapshot before stay.
AppliedUncleared(b, ts, rows) ==
    [ts |-> ts,
     bids |-> b.bids \cup {r.price : r \in {x \in rows : x.side = 0}},
     asks |-> b.asks \cup {r.price : r \in {x \in rows : x.side = 1}}]

\* apply_delta_row over the rows of one instant: a new instant clears the book.
Applied(b, ts, rows) ==
    LET base == IF ts # b.ts THEN [bids |-> {}, asks |-> {}] ELSE b
    IN  [ts |-> ts,
         bids |-> base.bids \cup {r.price : r \in {x \in rows : x.side = 0}},
         asks |-> base.asks \cup {r.price : r \in {x \in rows : x.side = 1}}]

\* The rows from the cursor on that share its instant and are book rows.
Group ==
    LET ends == {j \in cursor..Len(evs) : evs[j].kind # "book" \/ evs[j].ts # evs[cursor].ts}
    IN  cursor..((IF ends = {} THEN Len(evs) + 1 ELSE Min(ends)) - 1)

BookUpdate ==
    /\ stage = "play" /\ cursor <= Len(evs) /\ ~BeatDue /\ evs[cursor].kind = "book"
    /\ LET after == Applied(book, evs[cursor].ts, {evs[j].row : j \in Group}) IN
        /\ book' = after
        /\ Emitted("book", evs[cursor].ts, [bids |-> after.bids, asks |-> after.asks])
    /\ cursor' = cursor + Cardinality(Group)

Deal ==
    /\ stage = "play" /\ cursor <= Len(evs) /\ ~BeatDue /\ evs[cursor].kind = "trades"
    /\ Emitted("trades", evs[cursor].ts, evs[cursor].row.price)
    /\ cursor' = cursor + 1 /\ UNCHANGED book

EndOfData ==
    /\ stage = "play" /\ cursor > Len(evs) /\ stage' = "done"
    /\ UNCHANGED <<evs, cursor, book, lastTs, current, out, gaps, boundary, owed, recorderVars>>
-----------------------------------------------------------------------------
ArchiveInit == RecorderInit /\ ReplayInit

RecorderNext ==
    \/ Instant \/ StartRecorder \/ StopRecorder
    \/ \E d \in Depths[clock] : RecordBook(d)
    \/ \E ts \in {clock - l : l \in Lags} \cap (Nat \ {0}), p \in Deals : RecordTrade(ts, p)
    \/ RecordMark
    \/ \E last \in BOOLEAN : StartFlush(last)
    \/ WriteShard
    \/ \E torso \in BOOLEAN : ShardFails(torso)
    \/ \E torso \in BOOLEAN : Kill(torso)

ReplayNext ==
    \/ \E g, retrace \in BOOLEAN : Load(g, retrace)
    \/ Heartbeat \/ BookUpdate \/ Deal \/ EndOfData
ArchiveSpec == ArchiveInit /\ [][RecorderNext \/ ReplayNext]_archiveVars
-----------------------------------------------------------------------------
\* What an event, or a delivery, tells.
Told(e) == [kind |-> e.kind, ts |-> e.ts, val |-> e.val]
\* The events that are not made up.
Real == {i \in DOMAIN out : out[i].kind # "heartbeat" /\ (boundary = 0 \/ out[i].ts <= boundary)}

KeptOnce ==
    /\ {Told(out[i]) : i \in Real} = {Told(x) : x \in {y \in owed : y.kind # "mark"}}
    /\ \A i, j \in Real : Told(out[i]) = Told(out[j]) => i = j

InTime ==
    \A i \in 1..(Len(out) - 1) :
        /\ out[i].ts <= out[i + 1].ts /\ out[i + 1].ts - out[i].ts <= Beat
        /\ out[i].ts = out[i + 1].ts => ~(out[i].kind = "trades" /\ out[i + 1].kind = "book")

Marked ==
    \A i \in DOMAIN out :
        out[i].mark = Max({0} \cup {x.ts : x \in {y \in owed : y.kind = "mark" /\ y.ts <= out[i].ts}})

\* The walk back ends on the first price the data showed, in at most MaxSteps
\* steps, and never leaves the way there from the last price, so that it fills
\* what a full return of the market would fill (with_retrace_tail).
WalkReturns ==
    boundary > 0 =>
        LET fat == {i \in DOMAIN out : out[i].kind = "trades" /\ out[i].ts > boundary}
            books == {i \in DOMAIN out : /\ out[i].kind = "book" /\ out[i].ts <= boundary
                                         /\ Crossable(out[i].val)}
            origin == Mid(out[Min(books)].val)  end == Mid(out[Max(books)].val)
        IN  /\ fat # {} /\ out[Max(fat)].val = origin /\ Cardinality(fat) <= MaxSteps
            /\ \A i \in fat : out[i].val \in (origin..end) \cup (end..origin)

\* A replay gives what was kept and nothing else: every delivery that reached a
\* shard and was not written over comes out once, a snapshot whole and alone,
\* in the order of time with a book before the trades of its instant, with no
\* silence longer than a heartbeat, and beside the latest mark by then; however
\* the recording was flushed, interrupted and taken up again (LoadedReplayData
\* load, ParquetReplay next, MarkSeries).  And where a walk was added, it returns.
ReplayTrue == stage = "done" => KeptOnce /\ InTime /\ Marked /\ WalkReturns

\* Where gaps are refused, a replay that starts has no hole inside a recording:
\* between two snapshots of one recording every snapshot taken was kept (the
\* validation of seq in LoadedReplayData::load).
NoHole ==
    stage \in {"play", "done"} /\ ~gaps =>
        \A a, b \in {i \in owed : i.kind = "book"} : a.run = b.run =>
            \A c \in taken : c.kind = "book" /\ c.run = a.run /\ a.ts < c.ts /\ c.ts < b.ts
                             => c \in owed
=============================================================================
