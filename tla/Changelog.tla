----------------------------- MODULE Changelog -----------------------------
(***************************************************************************)
(* A ClickHouse table kept as a changelog (changelog=true): every event of *)
(* a window is appended under the window's start and a running number      *)
(* (logbased/changelog.rs, logbased/replay.rs, logbased/dest_ch.rs).       *)
(*                                                                         *)
(* The rows and the watermark are two round trips, and an INSERT may land  *)
(* in part, so a window is met again with a different end, or with no      *)
(* event of this table at all.  replay_plan decides what the new attempt   *)
(* trims, marks and appends; the Memo decides what it has to ask first.    *)
(* A row has a key and one TOASTed cell, which an update may leave out.    *)
(***************************************************************************)
EXTENDS Naturals, SequencesExt, FiniteSetsExt

CONSTANTS
    Keys,        \* keys of the table
    None,        \* Option::None
    Hole,        \* Cellv::UnchangedToast
    Gone,        \* no row, or no cell
    Legacy,      \* what an older release left: "none", "v55", "v56" or "both"
    MaxCommits,  \* bound: commits of the source after the bootstrap
    MaxDeaths,   \* bound: attempts that end early
    MaxBoots     \* bound: bootstraps after the first

ChangelogAssumption ==
    /\ Legacy \in {"none", "v55", "v56", "both"}
    /\ {MaxCommits, MaxDeaths, MaxBoots} \subseteq Nat

VARIABLES
    wal,      \* the source's commits: each the events it holds for this table
    hist,     \* the source table after each commit
    log,      \* the changelog's rows, in the order they landed
    markers,  \* _apitap_cdc_pending: the attempts recorded
    mark,     \* the table's watermark, None before a bootstrap closed
    memo,     \* replay::Memo: None, or the marker and ceiling this run knows
    end,      \* the end of the window in hand
    todo,     \* its steps still to run
    plan,     \* its ReplayPlan
    deaths,   \* attempts that ended early
    boots,    \* bootstraps so far
    origin,   \* where the stream in the log starts
    refused   \* why the last window was refused, or None

source == <<wal, hist>>
vars == <<source, log, markers, mark, memo, end, todo, plan, deaths, boots, origin, refused>>

\* The first two commits precede the stream's start.
Start == 2

Event(op, key, cell, from) == [op |-> op, key |-> key, cell |-> cell, from |-> from]
LogRow(lsn, seq, op, key, cell) == [lsn |-> lsn, seq |-> seq, op |-> op, key |-> key, cell |-> cell]
Marker(start, base) == [start |-> start, base |-> base]

Baseline(table, lsn) ==
    SetToSeq({LogRow(lsn, 0, "B", k, table[k]) : k \in {j \in Keys : table[j] # Gone}})

K1 == CHOOSE k \in Keys : TRUE

\* An older release's traces at the stamp the next window starts from: 0.55.x
\* stamped a finished window with its end; 0.56.0 marked an attempt and
\* numbered it from 0.
Left ==
    CASE Legacy = "none" -> <<>>
      [] Legacy = "v55" -> <<LogRow(Start, 0, "U", K1, 2), LogRow(Start, 1, "U", K1, 3)>>
      [] Legacy = "v56" -> <<LogRow(Start, 0, "U", K1, 4)>>
      [] OTHER -> <<LogRow(Start, 0, "U", K1, 3), LogRow(Start, 0, "U", K1, 4)>>

\* The table holds one row when its stream starts; a legacy attempt was
\* drawn from the first commit after the start.
Init ==
    /\ wal = <<<<>>, <<>>>> \o (IF Legacy \in {"v56", "both"}
                                  THEN <<<<Event("U", K1, 4, None)>>>> ELSE <<>>)
    /\ hist = [i \in 0..Len(wal) |->
                  [k \in Keys |-> IF k # K1 THEN Gone
                                  ELSE IF i > Start THEN 4 ELSE IF Legacy \in {"none", "v56"} THEN 1 ELSE 3]]
    /\ log = Baseline(IF Legacy \in {"v55", "both"} THEN [hist[Start] EXCEPT ![K1] = 1] ELSE hist[Start],
                      IF Legacy \in {"v55", "both"} THEN Start - 1 ELSE Start) \o Left
    /\ markers = IF Legacy \in {"v56", "both"} THEN {Marker(Start, None)} ELSE {}
    /\ mark = Start /\ origin = Start /\ memo = None
    /\ end = Start /\ todo = <<>> /\ plan = None
    /\ deaths = 0 /\ boots = 0 /\ refused = None

-----------------------------------------------------------------------------
(* The source's commits, as the accumulator keeps them.                    *)

src == hist[Len(wal)]

Commit(events, table) ==
    /\ Len(wal) < Start + MaxCommits /\ todo = <<>>
    /\ wal' = Append(wal, events)
    /\ hist' = [i \in 0..Len(wal) + 1 |-> IF i <= Len(wal) THEN hist[i] ELSE table]
    /\ UNCHANGED <<log, markers, mark, memo, end, todo, plan, deaths, boots, origin, refused>>

Fresh == Len(wal) + 10

Insert(k) ==
    src[k] = Gone /\ Commit(<<Event("I", k, Fresh, None)>>, [src EXCEPT ![k] = Fresh])

\* A re-key lands the old key's D first, and its U names the key it left.
ReKey(k, j, cell) ==
    IF j = k THEN <<Event("U", k, cell, None)>>
    ELSE <<Event("D", k, Gone, None), Event("U", j, cell, k)>>

Update(k, j, keep) ==
    /\ src[k] # Gone /\ (j = k \/ src[j] = Gone)
    /\ LET new == IF keep THEN src[k] ELSE Fresh
       IN  Commit(ReKey(k, j, IF keep THEN Hole ELSE new), [src EXCEPT ![k] = Gone, ![j] = new])

Delete(k) ==
    src[k] # Gone /\ Commit(<<Event("D", k, Gone, None)>>, [src EXCEPT ![k] = Gone])

Truncate ==
    /\ \E k \in Keys : src[k] # Gone
    /\ Commit(<<Event("T", None, Gone, None)>>, [k \in Keys |-> Gone])

\* A commit that touches only the group's other tables.
Elsewhere == Commit(<<>>, src)

-----------------------------------------------------------------------------
(* What a window appends.                                                  *)

EventsOf(lo, hi) == FlattenSeq(SubSeq(wal, lo + 1, hi))
Window == EventsOf(mark, end)

PrecedesByNumber(a, b) ==
    a.lsn < b.lsn \/ (a.lsn = b.lsn /\ a.seq < b.seq)

Precedes(a, b) ==
    \/ a.lsn < b.lsn
    \/ a.lsn = b.lsn /\ a.seq < b.seq
    \/ a.lsn = b.lsn /\ a.seq = b.seq /\ a.op = "B" /\ b.op # "B"

\* (lsn, seq) of the newest truncate, (0, 0) without one.
Horizon(rows) ==
    LET ts == {r \in rows : r.op = "T"}
    IN  IF ts = {} THEN [lsn |-> 0, seq |-> 0]
        ELSE CHOOSE t \in ts : \A s \in ts : ~Precedes(t, s)

\* <table>__current over some rows: past the newest truncate, the last row of
\* each key, unless it is a delete; on a tie a change outranks the baseline.
CurrentOf(rows) ==
    LET h == Horizon(rows)
        past == {r \in rows : r.lsn > h.lsn \/ (r.lsn = h.lsn /\ r.seq > h.seq)}
        last(k) == {r \in past : r.key = k /\ \A s \in past : s.key = k => ~Precedes(r, s)}
    IN  [k \in Keys |-> IF last(k) = {} THEN Gone
                        ELSE LET r == CHOOSE r \in last(k) : TRUE
                             IN  IF r.op = "D" THEN Gone ELSE r.cell]

\* The rows that were in the log before the window the plan appends.
BeforeWindow(r, p) ==
    r.lsn < p.stamp \/ (r.lsn = p.stamp /\ (r.seq < p.base \/ r.op = "B"))

ReadBase(p) == CurrentOf({r \in ToSet(log) : BeforeWindow(r, p)})

\* An image whose cell is missing takes it from the last event in the window
\* of the key it was at, else from what the log held there before the window,
\* unless a truncate came between; else the window is torn.
CarryOf(ev, cell, carry) ==
    IF ev.op = "T" THEN [k \in Keys |-> Gone]
    ELSE IF ev.op = "D" THEN carry
    ELSE [carry EXCEPT ![ev.key] = cell]

CellOf(ev, carry, base) ==
    IF ev.cell # Hole THEN ev.cell
    ELSE LET at == IF ev.from = None THEN ev.key ELSE ev.from
         IN  IF carry[at] # Hole THEN carry[at] ELSE base[at]

\* carry starts as Hole everywhere: the window said nothing of the key yet.
ResolveMasked(events, base) ==
    LET step(acc, ev) ==
            LET cell == CellOf(ev, acc.carry, base)
            IN  [carry |-> CarryOf(ev, cell, acc.carry),
                 out |-> Append(acc.out, [ev EXCEPT !.cell = cell]),
                 torn |-> acc.torn \/ (ev.cell = Hole /\ cell = Gone)]
    IN  FoldLeft(step, [carry |-> [k \in Keys |-> Hole], out |-> <<>>, torn |-> FALSE], events)

-----------------------------------------------------------------------------
(* The replay rule.                                                        *)

\* Non-baseline rows at a stamp, from a number up.
At(stamp, from) ==
    SelectSeq(log, LAMBDA r : r.lsn = stamp /\ r.op # "B" /\ r.seq >= from)

MaxSeq(rows) == Max({r.seq : r \in ToSet(rows)})

\* The newest marker and the highest stamp an earlier run can have written.
Probe ==
    [pending |-> IF markers = {} THEN None
                 ELSE CHOOSE m \in markers : \A n \in markers : n.start <= m.start,
     ceiling |-> LET ls == {r.lsn : r \in {r \in ToSet(log) : r.op # "B"}}
                 IN  IF ls = {} THEN None ELSE Max(ls)]

\* Whether the facts at the window's stamp are asked for.
Ask(seen, start) ==
    \/ seen.pending # None /\ seen.pending.start = start
    \/ seen.ceiling # None /\ seen.ceiling >= start

Plan(base, skip, trim, marks) ==
    [stamp |-> mark, base |-> base, skip |-> skip, trim |-> trim, marks |-> marks]

\* An attempt that landed more than this window carries keeps what it landed.
ResumeNoTrim(p, n) ==
    LET base == IF p.base = None THEN 0 ELSE p.base
        landed == Len(At(mark, base))
    IN  IF landed <= n THEN Plan(base, landed, None, landed < n) ELSE Plan(base, n, None, FALSE)

\* R2: a previous attempt of this window.
Resume(p, n) ==
    LET base == IF p.base = None THEN 0 ELSE p.base
        rows == At(mark, base)
        landed == Len(rows)
        prefix == landed = 0 \/ MaxSeq(rows) = base + landed - 1
    IN  IF ~prefix THEN Plan(base, 0, base, n > 0)
        ELSE IF landed <= n THEN Plan(base, landed, None, landed < n)
        ELSE Plan(base, n, base + n, FALSE)

\* R1: whatever is at the stamp is another writer's; number above it.
Above(seen, n) ==
    LET rows == IF Ask(seen, mark) THEN At(mark, 0) ELSE <<>>
    IN  Plan(IF rows = <<>> THEN 0 ELSE MaxSeq(rows) + 1, 0, None, n > 0)

\* R0: the watermark moved backwards.  A 0.56.0 attempt beside an older
\* release's rows repeats a number, and nothing tells them apart.
Refusal(seen) ==
    IF seen.pending = None THEN None
    ELSE IF seen.pending.start > mark THEN "rewound"
    ELSE IF /\ seen.pending.start = mark /\ seen.pending.base = None
            /\ Len(At(mark, 0)) # Cardinality({r.seq : r \in ToSet(At(mark, 0))})
         THEN "mixed"
    ELSE None

ReplayPlan(seen, n) ==
    IF seen.pending # None /\ seen.pending.start = mark THEN Resume(seen.pending, n) ELSE Above(seen, n)

\* The writes of a window, in the only order they run.
Steps(p, n) ==
    (IF p.trim # None THEN <<"trim">> ELSE <<>>)
        \o (IF p.marks THEN <<"mark">> ELSE <<>>)
        \o (IF p.skip < n THEN <<"append">> ELSE <<>>)
        \o <<"close">>

-----------------------------------------------------------------------------
(* A window.                                                               *)

Drain(hi) ==
    /\ mark # None /\ todo = <<>> /\ refused = None
    /\ mark < hi
    /\ end' = hi
    /\ LET seen == IF memo = None THEN Probe ELSE memo
           n == Len(EventsOf(mark, hi))
           p == ReplayPlan(seen, n)
       IN  /\ memo' = seen
           /\ IF Refusal(seen) = None
                THEN plan' = p /\ todo' = Steps(p, n) /\ refused' = None
                ELSE plan' = None /\ todo' = <<>> /\ refused' = Refusal(seen)
    /\ UNCHANGED <<source, log, markers, mark, deaths, boots, origin>>

Trim ==
    /\ todo # <<>> /\ Head(todo) = "trim"
    /\ log' = SelectSeq(log, LAMBDA r : r.lsn # plan.stamp \/ r.op = "B" \/ r.seq < plan.trim)
    /\ todo' = Tail(todo)
    /\ UNCHANGED <<source, markers, mark, memo, end, plan, deaths, boots, origin, refused>>

Mark ==
    /\ todo # <<>> /\ Head(todo) = "mark"
    /\ markers' = markers \cup {Marker(plan.stamp, plan.base)}
    /\ todo' = Tail(todo)
    /\ UNCHANGED <<source, log, mark, memo, end, plan, deaths, boots, origin, refused>>

\* The rows the plan appends, each event numbered from the plan's base.
Body ==
    LET resolved == ResolveMasked(Window, ReadBase(plan))
        row(i) == LET e == resolved.out[i]
                  IN  LogRow(plan.stamp, plan.base + i - 1, e.op, e.key, e.cell)
    IN  [torn |-> resolved.torn, rows |-> [i \in 1..Len(Window) - plan.skip |-> row(plan.skip + i)]]

AppendRows ==
    /\ todo # <<>> /\ Head(todo) = "append"
    /\ IF Body.torn
         THEN refused' = "torn" /\ todo' = <<>> /\ memo' = None /\ UNCHANGED log
         ELSE log' = log \o Body.rows /\ todo' = Tail(todo) /\ UNCHANGED <<refused, memo>>
    /\ UNCHANGED <<source, markers, mark, end, plan, deaths, boots, origin>>

\* settle: the memo takes the marker only of a unit that closed.
Close ==
    /\ todo = <<"close">>
    /\ mark' = end /\ todo' = <<>>
    /\ memo' = IF plan.marks THEN [memo EXCEPT !.pending = Marker(plan.stamp, plan.base)] ELSE memo
    /\ UNCHANGED <<source, log, markers, end, plan, deaths, boots, origin, refused>>

\* The attempt fails or the run dies: what this run knew of the table goes.
Lose == todo' = <<>> /\ memo' = None

Fail ==
    /\ todo # <<>> /\ plan # None /\ deaths < MaxDeaths
    /\ deaths' = deaths + 1
    /\ Lose
    /\ UNCHANGED <<source, log, markers, mark, end, plan, boots, origin, refused>>

\* An append dies with some of its rows landed, in whichever blocks.
FailAppending ==
    /\ todo # <<>> /\ Head(todo) = "append" /\ deaths < MaxDeaths /\ ~Body.torn
    /\ \E landed \in SUBSET ToSet(Body.rows) :
           log' = log \o SelectSeq(Body.rows, LAMBDA r : r \in landed)
    /\ deaths' = deaths + 1
    /\ Lose
    /\ UNCHANGED <<source, markers, mark, end, plan, boots, origin, refused>>

-----------------------------------------------------------------------------
(* A bootstrap: the state row is cleared, the table loaded anew from a     *)
(* snapshot, rebuilt as a changelog, and the old stream's markers cleared. *)

Forget ==
    /\ mark # None /\ todo = <<>> /\ boots < MaxBoots
    /\ mark' = None /\ memo' = None /\ refused' = None
    /\ UNCHANGED <<source, log, markers, end, todo, plan, deaths, boots, origin>>

\* The source itself is restored from an older copy: its positions start over
\* below those the log and the markers hold.
Restore(at) ==
    /\ mark = None /\ todo = <<>> /\ at \in Start..Len(wal) - 1
    /\ wal' = SubSeq(wal, 1, at) /\ hist' = [i \in 0..at |-> hist[i]]
    /\ end' = at
    /\ UNCHANGED <<log, markers, mark, memo, todo, plan, deaths, boots, origin, refused>>

BootSteps == <<"rebuild", "clear", "open">>

Bootstrap ==
    /\ mark = None /\ todo = <<>>
    /\ todo' = BootSteps /\ end' = Len(wal) /\ plan' = None /\ boots' = boots + 1
    /\ UNCHANGED <<source, log, markers, mark, memo, deaths, origin, refused>>

\* The bulk load and the EXCHANGE: baseline rows under the slot's position.
Rebuild ==
    /\ todo # <<>> /\ Head(todo) = "rebuild"
    /\ log' = Baseline(hist[end], end) /\ origin' = end
    /\ todo' = Tail(todo)
    /\ UNCHANGED <<source, markers, mark, memo, end, plan, deaths, boots, refused>>

ClearPending ==
    /\ todo # <<>> /\ Head(todo) = "clear"
    /\ markers' = {} /\ memo' = None
    /\ todo' = Tail(todo)
    /\ UNCHANGED <<source, log, mark, end, plan, deaths, boots, origin, refused>>

Open ==
    /\ todo = <<"open">>
    /\ mark' = end /\ todo' = <<>>
    /\ UNCHANGED <<source, log, markers, memo, end, plan, deaths, boots, origin, refused>>

BootFails ==
    /\ todo # <<>> /\ plan = None /\ deaths < MaxDeaths
    /\ deaths' = deaths + 1 /\ todo' = <<>>
    /\ UNCHANGED <<source, log, markers, mark, memo, end, plan, boots, origin, refused>>

Next ==
    \/ \E k \in Keys : Insert(k) \/ Delete(k)
    \/ \E k, j \in Keys, keep \in BOOLEAN : Update(k, j, keep)
    \/ Truncate
    \/ Elsewhere
    \/ \E hi \in 1..Len(wal) : Drain(hi)
    \/ Trim
    \/ Mark
    \/ AppendRows
    \/ Close
    \/ Fail
    \/ FailAppending
    \/ Forget
    \/ \E at \in 0..Len(wal) : Restore(at)
    \/ Bootstrap
    \/ Rebuild
    \/ ClearPending
    \/ Open
    \/ BootFails

Spec == Init /\ [][Next]_vars

-----------------------------------------------------------------------------

\* What the true log holds between two positions, in order: each event with
\* its whole image.
TrueEvents(lo, hi) ==
    FlattenSeq([i \in 1..hi - lo |->
        [j \in 1..Len(wal[lo + i]) |->
            LET e == wal[lo + i][j]
            IN  [op |-> e.op, key |-> e.key,
                 cell |-> IF e.op \in {"I", "U"} THEN hist[lo + i][e.key] ELSE Gone]]])

\* A row 0.55.x left at the stamp the first window starts from.
Foreign(r) == Legacy = "v55" /\ r.lsn = Start /\ r.seq < 2 /\ r.op # "B"

\* The stream's rows below a position, in the order a consumer reads them.
StreamRows(hi) ==
    SortSeq(SelectSeq(log, LAMBDA r : r.op # "B" /\ r.lsn >= origin /\ r.lsn < hi /\ ~Foreign(r)), Precedes)

\* The variables keep their types; a window in hand has a plan.
TypeOK ==
    /\ mark \in 0..Len(wal) \cup {None}
    /\ end \in 0..Len(wal) /\ deaths \in 0..MaxDeaths /\ boots \in 0..MaxBoots
    /\ \A r \in ToSet(log) : r.op \in {"B", "I", "U", "D", "T"} /\ r.cell # Hole
    /\ refused \in {None, "torn", "rewound", "mixed"}
    /\ (todo # <<>> /\ plan # None) => plan.stamp = mark /\ plan.stamp < end

\* Read in (lsn, seq) order, the log below the watermark is the source's
\* history: every event once, in commit order, with its whole image, however
\* many attempts its windows took and whatever a failed attempt left.
Faithful ==
    mark # None =>
        [i \in DOMAIN StreamRows(mark) |->
            [op |-> StreamRows(mark)[i].op, key |-> StreamRows(mark)[i].key,
             cell |-> StreamRows(mark)[i].cell]]
        = TrueEvents(origin, mark)

\* Between windows <table>__current, over the rows a reader can rely on (below
\* the watermark), is the source's table at the watermark.
CurrentTrue ==
    mark # None =>
        CurrentOf({r \in ToSet(log) : r.lsn < mark \/ (r.lsn = mark /\ (r.op = "B" \/ Foreign(r)))}) = hist[mark]

\* No window is refused: the marker never runs ahead of the watermark, and a
\* masked cell always finds the value it stands for.
NeverRefused == refused = None

\* Where a 0.56.0 attempt shares its stamp with an older release's rows, no
\* plan is made and nothing is written on a guess.
NoGuess == Legacy = "both" => mark = Start /\ markers = {Marker(Start, None)} /\ Len(log) = 3

\* No two rows share their (lsn, seq): it is an event's identity.
Identity ==
    \A i, j \in DOMAIN log :
        (i # j /\ log[i].op # "B" /\ log[j].op # "B")
            => log[i].lsn # log[j].lsn \/ log[i].seq # log[j].seq
=============================================================================
