------------------------------ MODULE MCMySql -------------------------------
(* log_based from MySQL: the binlog drain (Binlog) and the group's runs over    *)
(* servers that come and go (MyGroup); into MySQL: the unit fence (MyFence)     *)
(* and the bulk load (MyLoad); and one cell on every lane (MyValues). Each      *)
(* behaviour plays one scenario.                                                *)
EXTENDS MyFence, MyGroup, Integers, Sequences

CONSTANTS Off

VARIABLES
    which,   \* the scenario a behaviour plays; the other components are Off
    binlog, truth, shape, ids, alive, binPc, w, rd, late, queue, binMark, loaded, binReplica,
    groups, runs, crashes,
    stage, step, sent, chan, shut, reg, task, fed, loadRows, release, conn, idle, loadIds,
    loadLate, foreign, faults,
    cell, got

binlogVars == <<binlog, truth, shape, ids, alive, binPc, w, rd, late, queue, binMark, loaded,
    binReplica, groups, runs, crashes>>
fenceVars == vars
loadVars == <<stage, step, sent, chan, shut, reg, task, fed, loadRows, release, conn, idle,
    loadIds, loadLate, foreign, faults>>
valueVars == <<cell, got>>
suiteVars == <<which, binlogVars, groupVars, fenceVars, loadVars, valueVars>>

LoadersOfTables == <<{1, 2}, {3}>>

\* A URL that moves between two servers while nothing fails, and one that stays.
GroupWorlds == {
    [movesAt |-> {"idle", "dial", "apply"}, clears |-> {"all"}, regrows |-> FALSE,
     changes |-> 3, moves |-> 2, faults |-> 0],
    [movesAt |-> {}, clears |-> {"rows", "all"}, regrows |-> FALSE,
     changes |-> 2, moves |-> 0, faults |-> 2]}
NoWorld == [movesAt |-> {}, clears |-> {}, regrows |-> TRUE, changes |-> 0, moves |-> 0,
    faults |-> 0]

MySql == INSTANCE Binlog WITH
    Kinds <- {"two", "mixed", "myisam", "rollback", "truncate", "alter", "restart"},
    MariaDB <- FALSE, FoldsCase <- FALSE, Budget <- 2, TxLimit <- 3, Follow <- FALSE,
    MaxGroups <- 3, MaxRuns <- 2, MaxCrashes <- 1, log <- binlog, pc <- binPc, mark <- binMark,
    replica <- binReplica
MariaDb == INSTANCE Binlog WITH Kinds <- {"two", "delete", "torn", "alter", "restart"},
    MariaDB <- TRUE, FoldsCase <- FALSE, Budget <- 2, TxLimit <- 3, Follow <- TRUE,
    MaxGroups <- 3, MaxRuns <- 2, MaxCrashes <- 1, log <- binlog, pc <- binPc, mark <- binMark,
    replica <- binReplica
Edges == INSTANCE Binlog WITH
    Kinds <- {"two", "Truncate", "savepoint", "json diff", "statement", "drop partition"},
    MariaDB <- FALSE, FoldsCase <- FALSE, Budget <- 2, TxLimit <- 3, Follow <- FALSE,
    MaxGroups <- 2, MaxRuns <- 2, MaxCrashes <- 1, log <- binlog, pc <- binPc, mark <- binMark,
    replica <- binReplica
Loads == INSTANCE MyLoad WITH Tables <- {1, 2}, LoadersOf <- LoadersOfTables, Bufs <- 1,
    MaxFaults <- 1, rows <- loadRows, ids <- loadIds, late <- loadLate
Values == INSTANCE MyValues WITH Base <- 4, Years <- {0, 1970, 1999, 2000, 2024, 2100, 9999},
    Months <- {0, 1, 2, 3, 12}, Days <- {0, 1, 28, 29, 31}, FracBase <- 8, Unit <- 3, Short <- 4,
    Bias <- 8, DigPer <- 2, DecDigits <- 4,
    Widths <- {0, 255, 768, 769, 4000, 8191, 16383, 16384}

\* The scenarios respect what each component asks of its constants.
ASSUME ScenarioConstants == MyFenceAssumption /\ MyGroupAssumption /\
    Loads!MyLoadAssumption

BinlogOff == binlog = Off /\ truth = Off /\ shape = Off /\ ids = Off /\ alive = Off /\
    binPc = Off /\ w = Off /\ rd = Off /\ late = Off /\ queue = Off /\ binMark = Off /\ loaded = Off /\
    binReplica = Off /\ groups = Off /\ runs = Off /\ crashes = Off
GroupOff == world = NoWorld /\ log = Off /\ data = Off /\ oldest = Off /\ life = Off /\
    route = Off /\ pc = Off /\ srv = Off /\ adopt = Off /\ at = Off /\ todo = Off /\
    res = Off /\ goal = Off /\ mark = Off /\ marker = Off /\ by = Off /\ replica = Off /\
    used = Off
FenceOff == now = Off /\ rows = Off /\ lock = Off /\ run = Off /\ held = Off /\ fresh = Off /\
    since = Off /\ ddl = Off /\ claim = Off /\ units = Off
LoadOff == stage = Off /\ step = Off /\ sent = Off /\ chan = Off /\ shut = Off /\ reg = Off /\
    task = Off /\ fed = Off /\ loadRows = Off /\ release = Off /\ conn = Off /\ idle = Off /\
    loadIds = Off /\ loadLate = Off /\ foreign = Off /\ faults = Off
ValueOff == cell = Off /\ got = Off

BinlogInit ==
    \/ which = "mysql" /\ MySql!Init
    \/ which = "mariadb" /\ MariaDb!Init
    \/ which = "edges" /\ Edges!Init
FenceInit == which = "fence" /\ Init
LoadInit == which = "load" /\ Loads!Init
ValueInit == which = "values" /\ Values!Init

SuiteInit ==
    \/ BinlogInit /\ GroupOff /\ FenceOff /\ LoadOff /\ ValueOff
    \/ which = "group" /\ GroupInit /\ BinlogOff /\ FenceOff /\ LoadOff /\ ValueOff
    \/ FenceInit /\ BinlogOff /\ GroupOff /\ LoadOff /\ ValueOff
    \/ LoadInit /\ BinlogOff /\ GroupOff /\ FenceOff /\ ValueOff
    \/ ValueInit /\ BinlogOff /\ GroupOff /\ FenceOff /\ LoadOff

BinlogNext ==
    \/ which = "mysql" /\ MySql!Next
    \/ which = "mariadb" /\ MariaDb!Next
    \/ which = "edges" /\ Edges!Next
FenceNext == which = "fence" /\ Next
LoadNext == which = "load" /\ Loads!Next
ValueNext == which = "values" /\ Values!Next

SuiteNext ==
    \/ BinlogNext /\ UNCHANGED <<which, groupVars, fenceVars, loadVars, valueVars>>
    \/ which = "group" /\ GroupNext
       /\ UNCHANGED <<which, binlogVars, fenceVars, loadVars, valueVars>>
    \/ FenceNext /\ UNCHANGED <<which, binlogVars, groupVars, loadVars, valueVars>>
    \/ LoadNext /\ UNCHANGED <<which, binlogVars, groupVars, fenceVars, valueVars>>
    \/ ValueNext /\ UNCHANGED <<which, binlogVars, groupVars, fenceVars, loadVars>>

SuiteSpec == SuiteInit /\ [][SuiteNext]_suiteVars

-----------------------------------------------------------------------------
\* The replica is the source as of its watermark, whatever windows the pass was
\* cut into: deadlines, budgets, torn and rolled-back groups, DDL, restarts of the
\* server and crashes included (drain_binlog, drain_tx, drain_windows). A bulk load into
\* MySQL publishes every buffer, and one that is aborted interrupts nobody else's
\* statement (kill_statement).
Faithful ==
    /\ which = "mysql" => MySql!Faithful
    /\ which = "mariadb" => MariaDb!Faithful /\ MariaDb!OneLayout
    /\ which = "edges" => Edges!Faithful
    /\ which = "load" => Loads!LoadsWhole

\* Every lane delivers the value the server holds or refuses the run, and a staging table that
\* is accepted fits a row (decode_cell, encode_value, encode_pg, tsv_write, ar_cell, prepare).
ValuesAgree == which = "values" => Values!LanesAgree /\ Values!RowsFit
=============================================================================
