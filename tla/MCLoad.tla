------------------------------- MODULE MCLoad -------------------------------
(* Reading a source and keeping count of what was read: the statements of a   *)
(* read (ReadPlane), a crawl of pages (GithubApi), the stream handed to       *)
(* Python (ReadHandle), the pipe budget (Budget), the watermark of an         *)
(* incremental load (CursorLane), and BigQuery's scripted commits (BqCommit). *)
(* Each behaviour plays one scenario.                                         *)
EXTENDS CursorLane, Sequences, TLC

CONSTANTS sa, sb, r1, r2, r3, q1, q2, t1, t2, t3, w1, w2, Absent, Null, Off

VARIABLES
    which,   \* the scenario a behaviour plays; the other components are Off
    wal, log, markers, mark, fence, client, jobs,
    table, pages, pc, todo, snap, out, seen, touched, writes, cuts,
    handleTodo, cur, acc, wst, latch, chan, sup, completed, cst, got, faults,
    v2, v1, cost, shape, auto, est, budgetJobs, free, queue, held, st,
    entity, clock, list, count, crawlPc, since, cursor, crawlPages, attempt, start, staged,
    crawlDest, again, good, runs, crawlFaults

bqVars == <<wal, log, markers, mark, fence, client, jobs>>
readVars == <<table, pages, pc, todo, snap, out, seen, touched, writes, cuts>>
handleVars == <<handleTodo, cur, acc, wst, latch, chan, sup, completed, cst, got, faults>>
budgetVars == <<v2, v1, cost, shape, auto, est, budgetJobs, free, queue, held, st>>
crawlVars == <<entity, clock, list, count, crawlPc, since, cursor, crawlPages, attempt, start,
    staged, crawlDest, again, good, runs, crawlFaults>>
vars == <<which, cursorVars, bqVars, readVars, handleVars, budgetVars, crawlVars>>

Streaming == [reserve |-> 2, chunks |-> 1, fixed |-> 0, perRowGroup |-> 0]
Parquet == [reserve |-> 2, chunks |-> 1, fixed |-> 1, perRowGroup |-> 1]
Symmetry == Permutations({q1, q2})

\* Who feeds the table of the cursor lane, and what an operator does to it.
TwoSources == {sa, sb}
TwoRuns == {q1, q2}
LoadSetups ==
    [kind : {"pg", "my", "ch", "bq"}, feeds : {{sa}}, modes : {{"append", "replace"}},
     truncates : {1}, seeds : {0}]
    \cup [kind : {"ice"}, feeds : {{sa}}, modes : {{"append", "replace"}}, truncates : {0},
          seeds : {0}]
    \cup [kind : {"pg", "ice"}, feeds : {TwoSources}, modes : {{"append"}}, truncates : {0},
          seeds : {1}]
    \cup [kind : {"my", "ch"}, feeds : {TwoSources}, modes : {{"append"}}, truncates : {0},
          seeds : {0}]
NoSetup == [kind |-> "bq", feeds |-> {}, modes |-> {}, truncates |-> 0, seeds |-> 0]

Split == INSTANCE BqCommit WITH Tables <- <<"s", "t">>, PerTxn <- 1, MaxCommits <- 2,
    MaxRuns <- 2, MaxTries <- 0
Retry == INSTANCE BqCommit WITH Tables <- <<"s">>, PerTxn <- 2, MaxCommits <- 2, MaxRuns <- 2,
    MaxTries <- 1
ByCursor == INSTANCE ReadPlane WITH Source <- "pg", Rows <- {r1, r2, r3}, Values <- 1..3,
    Pages <- {0}, Want <- 3, IntCursor <- TRUE, Nullable <- TRUE, Since <- Null,
    Keep <- {r1, r2, r3}, Pinned <- FALSE, Plain <- TRUE, MaxFit <- 9, MaxWrites <- 1,
    MaxCuts <- 1
ByPages == INSTANCE ReadPlane WITH Source <- "pg", Rows <- {r1, r2, r3}, Values <- {1},
    Pages <- 0..2, Want <- 2, IntCursor <- FALSE, Nullable <- FALSE, Since <- Null,
    Keep <- {r1, r2, r3}, Pinned <- FALSE, Plain <- TRUE, MaxFit <- 9, MaxWrites <- 2,
    MaxCuts <- 1
PinnedRead == INSTANCE ReadPlane WITH Source <- "pg", Rows <- {r1, r2, r3}, Values <- 1..3,
    Pages <- {0}, Want <- 2, IntCursor <- TRUE, Nullable <- FALSE, Since <- Null,
    Keep <- {r1, r2, r3}, Pinned <- TRUE, Plain <- TRUE, MaxFit <- 9, MaxWrites <- 2,
    MaxCuts <- 1
Resumed == INSTANCE ReadPlane WITH Source <- "pg", Rows <- {r1, r2, r3}, Values <- 1..3,
    Pages <- {0}, Want <- 2, IntCursor <- TRUE, Nullable <- TRUE, Since <- 1,
    Keep <- {r1, r2, r3}, Pinned <- FALSE, Plain <- TRUE, MaxFit <- 9, MaxWrites <- 2,
    MaxCuts <- 1
FromMySql == INSTANCE ReadPlane WITH Source <- "mysql", Rows <- {r1, r2, r3}, Values <- 1..3,
    Pages <- {0}, Want <- 2, IntCursor <- TRUE, Nullable <- TRUE, Since <- Null,
    Keep <- {r1, r2, r3}, Pinned <- FALSE, Plain <- TRUE, MaxFit <- 2, MaxWrites <- 2,
    MaxCuts <- 1
FromCh == INSTANCE ReadPlane WITH Source <- "ch", Rows <- {r1, r2, r3}, Values <- 1..3,
    Pages <- {0}, Want <- 2, IntCursor <- TRUE, Nullable <- TRUE, Since <- Null,
    Keep <- {r1, r2, r3}, Pinned <- FALSE, Plain <- TRUE, MaxFit <- 2, MaxWrites <- 2,
    MaxCuts <- 1
FromMerging == INSTANCE ReadPlane WITH Source <- "ch", Rows <- {r1, r2, r3}, Values <- 1..3,
    Pages <- {0}, Want <- 2, IntCursor <- TRUE, Nullable <- TRUE, Since <- Null,
    Keep <- {r1, r2, r3}, Pinned <- FALSE, Plain <- FALSE, MaxFit <- 9, MaxWrites <- 2,
    MaxCuts <- 1
Handle == INSTANCE ReadHandle WITH Workers <- {w1, w2}, SpanRows <- <<3, 0, 2>>, SealRows <- 2,
    Cap <- 2, MaxFaults <- 2, todo <- handleTodo
OneByOne == INSTANCE ReadHandle WITH Workers <- {w1}, SpanRows <- <<3, 0, 2>>, SealRows <- 2,
    Cap <- 1, MaxFaults <- 1, todo <- handleTodo
Pipes == INSTANCE Budget WITH Tables <- {t1, t2, t3}, FatChunk <- 2, ThinChunk <- 1,
    Ladder <- <<2, 1>>, Costs <- {Streaming, Parquet}, Limits <- {4, 9}, Asks <- {4},
    Explicits <- {3}, Estimates <- {-1, 1, 4}, TableCap <- 9, RowsPerPipe <- 2, MaxSpans <- 4,
    jobs <- budgetJobs
CrawlMerge == INSTANCE GithubApi WITH Items <- {1, 2}, Pulls <- {1}, Mode <- "merge",
    PageSize <- 1, MaxPages <- 2, Attempts <- 2, MaxClock <- 2, MaxUpdates <- 4, MaxRuns <- 2,
    MaxFaults <- 1, pc <- crawlPc, pages <- crawlPages, dest <- crawlDest, faults <- crawlFaults
CrawlAppend == INSTANCE GithubApi WITH Items <- {1, 2}, Pulls <- {1}, Mode <- "append",
    PageSize <- 1, MaxPages <- 2, Attempts <- 2, MaxClock <- 2, MaxUpdates <- 4, MaxRuns <- 2,
    MaxFaults <- 1, pc <- crawlPc, pages <- crawlPages, dest <- crawlDest, faults <- crawlFaults

\* The scenarios respect what each component asks of its constants.
ASSUME ScenarioConstants == CursorConstants /\ Split!BqCommitAssumption /\ Retry!BqCommitAssumption

CursorOff == setup = NoSetup /\ source = Off /\ exists = Off /\ dest = Off /\ state = Off /\
    run = Off /\ claimed = Off /\ budget = Off
BqOff == wal = Off /\ log = Off /\ markers = Off /\ mark = Off /\ fence = Off /\ client = Off /\
    jobs = Off
ReadOff == table = Off /\ pages = Off /\ pc = Off /\ todo = Off /\ snap = Off /\ out = Off /\
    seen = Off /\ touched = Off /\ writes = Off /\ cuts = Off
HandleOff == handleTodo = Off /\ cur = Off /\ acc = Off /\ wst = Off /\ latch = Off /\
    chan = Off /\ sup = Off /\ completed = Off /\ cst = Off /\ got = Off /\ faults = Off
BudgetOff == v2 = Off /\ v1 = Off /\ cost = Off /\ shape = Off /\ auto = Off /\ est = Off /\
    budgetJobs = Off /\ free = Off /\ queue = Off /\ held = Off /\ st = Off
CrawlOff == entity = Off /\ clock = Off /\ list = Off /\ count = Off /\ crawlPc = Off /\
    since = Off /\ cursor = Off /\ crawlPages = Off /\ attempt = Off /\ start = Off /\
    staged = Off /\ crawlDest = Off /\ again = Off /\ good = Off /\ runs = Off /\
    crawlFaults = Off

BqInit ==
    \/ which = "split" /\ Split!Init
    \/ which = "retry" /\ Retry!Init
ReadInit ==
    \/ which = "cursor" /\ ByCursor!Init
    \/ which = "pages" /\ ByPages!Init
    \/ which = "pinned" /\ PinnedRead!Init
    \/ which = "delta" /\ Resumed!Init
    \/ which = "mysql" /\ FromMySql!Init
    \/ which = "ch" /\ FromCh!Init
    \/ which = "merging" /\ FromMerging!Init
HandleInit ==
    \/ which = "handle" /\ Handle!Init
    \/ which = "one" /\ OneByOne!Init
BudgetInit == which = "budget" /\ Pipes!Init
CrawlInit ==
    \/ which = "merge" /\ CrawlMerge!Init
    \/ which = "append" /\ CrawlAppend!Init

Init ==
    \/ which = "lane" /\ CursorInit /\ BqOff /\ ReadOff /\ HandleOff /\ BudgetOff /\ CrawlOff
    \/ BqInit /\ CursorOff /\ ReadOff /\ HandleOff /\ BudgetOff /\ CrawlOff
    \/ ReadInit /\ CursorOff /\ BqOff /\ HandleOff /\ BudgetOff /\ CrawlOff
    \/ HandleInit /\ CursorOff /\ BqOff /\ ReadOff /\ BudgetOff /\ CrawlOff
    \/ BudgetInit /\ CursorOff /\ BqOff /\ ReadOff /\ HandleOff /\ CrawlOff
    \/ CrawlInit /\ CursorOff /\ BqOff /\ ReadOff /\ HandleOff /\ BudgetOff

BqNext ==
    \/ which = "split" /\ Split!Next
    \/ which = "retry" /\ Retry!Next
ReadNext ==
    \/ which = "cursor" /\ ByCursor!Next
    \/ which = "pages" /\ ByPages!Next
    \/ which = "pinned" /\ PinnedRead!Next
    \/ which = "delta" /\ Resumed!Next
    \/ which = "mysql" /\ FromMySql!Next
    \/ which = "ch" /\ FromCh!Next
    \/ which = "merging" /\ FromMerging!Next
HandleNext ==
    \/ which = "handle" /\ Handle!Next
    \/ which = "one" /\ OneByOne!Next
BudgetNext == which = "budget" /\ Pipes!Next
CrawlNext ==
    \/ which = "merge" /\ CrawlMerge!Next
    \/ which = "append" /\ CrawlAppend!Next

Next ==
    \/ which = "lane" /\ CursorNext
       /\ UNCHANGED <<which, bqVars, readVars, handleVars, budgetVars, crawlVars>>
    \/ BqNext /\ UNCHANGED <<which, cursorVars, readVars, handleVars, budgetVars, crawlVars>>
    \/ ReadNext /\ UNCHANGED <<which, cursorVars, bqVars, handleVars, budgetVars, crawlVars>>
    \/ HandleNext /\ UNCHANGED <<which, cursorVars, bqVars, readVars, budgetVars, crawlVars>>
    \/ BudgetNext /\ UNCHANGED <<which, cursorVars, bqVars, readVars, handleVars, crawlVars>>
    \/ CrawlNext /\ UNCHANGED <<which, cursorVars, bqVars, readVars, handleVars, budgetVars>>

Spec == Init /\ [][Next]_vars

-----------------------------------------------------------------------------
\* Each table's changelog in BigQuery is exactly the source's events up to its watermark,
\* however often a script was posted and however late it ran (commit_group, the fence).
BqExactly ==
    /\ which = "split" => Split!Exactly /\ Split!NeverRewound
    /\ which = "retry" => Retry!Exactly /\ Retry!AtMostOnce

\* What a read that succeeds returns is one state the table was in (PostgreSQL, and a
\* ClickHouse table that merges), or holds each row nobody touched exactly once (MySQL, a
\* plain ClickHouse table): plan_read, spans, the NULL statement, the snapshot. The end of
\* its stream means every row was delivered once, a read in which nothing failed never ends
\* in an error, and one worker keeps the source's order (read_impl.rs). A crawl
\* publishes every object the list had when it began (github_api.rs).
ReadsExact ==
    /\ which = "cursor" => ByCursor!OneState
    /\ which = "pages" => ByPages!OneState
    /\ which = "pinned" => PinnedRead!OneState
    /\ which = "delta" => Resumed!OneState
    /\ which = "merging" => FromMerging!OneState
    /\ which = "mysql" => FromMySql!UntouchedOnce
    /\ which = "ch" => FromCh!UntouchedOnce
    /\ which = "handle" => Handle!EndIsWhole /\ Handle!NoFalseAlarm
    /\ which = "one" => OneByOne!SourceOrder
    /\ which = "merge" => CrawlMerge!CrawlsWhole
    /\ which = "append" => CrawlAppend!CrawlsWhole

\* Whatever is in flight, the planned peak stays under every limit the kernel enforces,
\* and permits are neither lost nor made while grants are shrunk (Budget, run_many).
Peak == which = "budget" => Pipes!Peak /\ Pipes!Conserved
=============================================================================
