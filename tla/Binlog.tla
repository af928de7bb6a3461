------------------------------- MODULE Binlog -------------------------------
(***************************************************************************)
(* log_based from MySQL and MariaDB: the binlog drain                      *)
(* (logbased/mysource.rs), its session state, and the pass that hands its  *)
(* windows to the apply task (logbased/myrun.rs).                          *)
(*                                                                         *)
(* The server's log is a sequence of events; a position is an index of it  *)
(* (pack_pos of a file and an offset is monotonic in the same way).  One   *)
(* tracked table t and one other, u.  A table's contents are a function    *)
(* from Keys to the group that wrote the row last, 0 when it is absent.    *)
(* What a destination does with a window is Collapse's and the destination *)
(* modules' subject: here a window lands whole, with its watermark.        *)
(***************************************************************************)
EXTENDS Integers, Sequences, FiniteSets, SequencesExt

CONSTANTS
    Kinds,       \* the groups of events the server may write
    MariaDB,     \* a GTID event opens a transaction, not a BEGIN
    FoldsCase,   \* lower_case_table_names=1: T and t are one table
    Budget,      \* max_buf_bytes, in rows
    TxLimit,     \* APITAP_TX_BUF_BYTES, in rows
    Follow,      \* the pass rolls its stop line (APITAP_FOLLOW_SECS)
    MaxGroups,   \* bound on the groups the server writes
    MaxRuns,     \* bound on the passes
    MaxCrashes   \* bound on the passes that die

VARIABLES
    log,       \* the server's binlog
    truth,     \* truth[i]: what t holds once the groups ended by event i are done
    shape,     \* the catalog's shape of t
    ids,       \* the table id the server's next TABLE_MAP gives each table
    alive,     \* FALSE: the peer is gone without closing (a half-open socket)
    pc,        \* "idle", "load", "top", "await" or "refused"
    w,         \* the session and the window being drained
    rd,        \* events read by the session
    late,      \* "window": its deadline passed; "stop": SIGTERM or the pass's own end
    queue,     \* windows handed to the apply task
    mark,      \* the durable watermark, NoMark before the bootstrap
    loaded,    \* the position the bootstrap's read reflects
    replica,   \* the destination's copy of t
    groups, runs, crashes

vars == <<log, truth, shape, ids, alive, pc, w, rd, late, queue, mark, loaded, replica,
          groups, runs, crashes>>

Keys   == {1, 2}
NoMark == -1
Empty  == [k \in Keys |-> 0]
NoMap  == [tab |-> "none", shape |-> 0]

-----------------------------------------------------------------------------
(* The server *)

Ev(type, tab, key, what) ==
    [type |-> type, tab |-> tab, id |-> IF tab \in {"t", "u"} THEN ids[tab] ELSE 0,
     key |-> key, val |-> groups + 1, shape |-> shape, what |-> what]

Open  == <<Ev("gtid", "-", 0, "-")>> \o (IF MariaDB THEN << >> ELSE <<Ev("query", "-", 0, "begin")>>)
Map(t) == Ev("map", t, 0, "-")
Row(t, k) == Ev("rows", t, k, "put")
Xid    == Ev("xid", "-", 0, "-")
Query(what, t) == Ev("query", t, 0, what)

\* The events of a group, as the server writes them.
Events(g) ==
    CASE g = "two"      -> Open \o <<Map("t"), Row("t", 1), Ev("annotate", "-", 0, "-"),
                                     Map("t"), Row("t", 2), Xid>>
      [] g = "delete"   -> Open \o <<Map("t"), Ev("rows", "t", 1, "del"), Xid>>
      [] g = "mixed"    -> Open \o <<Map("u"), Row("u", 1), Ev("annotate", "-", 0, "-"),
                                     Map("t"), Row("t", 2), Xid>>
      [] g = "myisam"   -> Open \o <<Map("t"), Row("t", 1), Query("commit", "-")>>
      [] g = "rollback" -> Open \o <<Map("t"), Row("t", 1), Query("rollback", "-")>>
      [] g = "torn"     -> Open \o <<Map("t"), Row("t", 1)>>
      [] g = "savepoint" -> Open \o <<Map("t"), Row("t", 1), Query("rollback to", "-"), Xid>>
      [] g = "truncate" -> <<Ev("gtid", "-", 0, "-"), Query("truncate", "t")>>
      [] g = "Truncate" -> <<Ev("gtid", "-", 0, "-"), Query("truncate", "T")>>
      [] g = "alter"    -> <<Ev("gtid", "-", 0, "-"), Query("alter", "t")>>
      [] g = "drop partition" -> <<Ev("gtid", "-", 0, "-"), Query("drop partition", "t")>>
      [] g = "statement" -> Open \o <<Query("dml", "t"), Xid>>
      [] g = "json diff" -> Open \o <<Map("t"), Ev("partial", "t", 1, "put"), Xid>>
      [] g = "restart"  -> <<Ev("rotate", "-", 0, "-")>>

\* What t holds after a group; the server itself follows every one of them.
After(g, s) ==
    CASE g \in {"two", "statement"} -> [k \in Keys |-> groups + 1]
      [] g = "mixed"  -> [s EXCEPT ![2] = groups + 1]
      [] g \in {"myisam", "json diff"} -> [s EXCEPT ![1] = groups + 1]
      [] g = "delete" -> [s EXCEPT ![1] = 0]
      [] g \in {"truncate", "drop partition"} -> Empty
      [] g = "Truncate" -> IF FoldsCase THEN Empty ELSE s
      [] OTHER -> s                    \* "savepoint": the row was undone

Now == IF log = << >> THEN Empty ELSE truth[Len(log)]

Write(g) ==
    /\ g \in Kinds /\ groups < MaxGroups
    /\ groups' = groups + 1
    /\ log' = log \o Events(g)
    /\ truth' = truth \o [i \in 1..Len(Events(g)) |->
                            IF i < Len(Events(g)) THEN Now ELSE After(g, Now)]
    /\ shape' = IF g = "alter" THEN shape + 1 ELSE shape
    \* ids are handed out again after a restart
    /\ ids' = IF g = "restart" THEN [t \in {"t", "u"} |-> 3 - ids[t]] ELSE ids
    /\ UNCHANGED <<alive, pc, w, rd, late, queue, mark, loaded, replica, runs, crashes>>

-----------------------------------------------------------------------------
(* One event, as drain_binlog's loop takes it.  s is the session and window. *)

FreshWindow(s, from, line) ==
    [s EXCEPT !.tx = << >>, !.end = from, !.from = from, !.ops = << >>, !.body = 0,
              !.bytes = 0, !.stop = line, !.status = "go"]

FreshSession ==
    [maps |-> [i \in {1, 2} |-> NoMap], schema |-> 0, layout |-> 0,
     tx |-> << >>, end |-> 0, from |-> 0, ops |-> << >>, body |-> 0, bytes |-> 0,
     stop |-> 0, status |-> "go"]

Refuse(s) == [s EXCEPT !.status = "refused"]

\* Apply a transaction's ops; a table's first op of the window builds its body
\* with the table's layout.
DrainTx(s) ==
    IF s.tx = << >> THEN s
    ELSE [s EXCEPT !.ops = @ \o s.tx, !.tx = << >>, !.body = IF @ = 0 THEN s.layout ELSE @]

AtLine(s) == IF s.end >= s.stop THEN [s EXCEPT !.status = "done"] ELSE s

\* A commit: XID, or the COMMIT of a non-transactional engine.
Commit(s, p) ==
    LET c == AtLine([DrainTx(s) EXCEPT !.end = p])
    IN  IF c.status = "go" /\ c.bytes >= Budget THEN [c EXCEPT !.status = "budget"] ELSE c

CommitQuery(s, p) == Commit(s, p)

\* An id names the table its LATEST map gave it.
Untracked(s, id) == [s EXCEPT !.maps[id] = NoMap]

\* The catalog is read now, the event describes the table as it was: a
\* mismatch refuses.  The map is registered only with its layout.
TableMap(s, e) ==
    IF e.tab # "t" THEN Untracked(s, e.id)
    ELSE LET sc == IF s.schema = 0 THEN shape ELSE s.schema
         IN  IF sc # e.shape THEN Refuse(s)
             ELSE [s EXCEPT !.schema = sc, !.layout = IF @ = 0 THEN sc ELSE @,
                            !.maps[e.id] = [tab |-> "t", shape |-> e.shape]]

\* A rows event decodes against its id's map; no map, nothing to decode.
Rows(s, e) ==
    IF s.maps[e.id] = NoMap THEN s
    ELSE LET b == IF s.tx = << >> THEN 1 ELSE Len(s.tx) + 1
         IN  IF b > TxLimit THEN Refuse(s)
             ELSE [s EXCEPT !.tx = Append(@, e), !.bytes = @ + 1]

\* Heartbeats and bookkeeping carry the live position between transactions.
Skippable(s, p) ==
    IF s.tx # << >> THEN s
    ELSE AtLine([s EXCEPT !.end = IF p > @ THEN p ELSE @])

\* MariaDB's GTID clears what a torn attempt left.
TxStart(s) == [s EXCEPT !.tx = << >>]

Gtid(s, p) == IF MariaDB THEN TxStart(s) ELSE Skippable(s, p)

\* The transaction never happened.
Rollback(s) == [s EXCEPT !.tx = << >>]

RollbackTo(s) == IF s.tx # << >> THEN Refuse(s) ELSE s

\* Case-insensitive, and errs toward matching.
names_tracked(e) == e.tab \in {"t", "T"}

\* DML as text carries no rows to decode.
Dml(s, e) == IF names_tracked(e) THEN Refuse(s) ELSE s

\* Schemas, layouts and maps go together.
Cleared(s) == [s EXCEPT !.schema = 0, !.layout = 0, !.maps = [i \in {1, 2} |-> NoMap]]

\* The name as the statement spells it; `tracked` is asked for exactly that.
truncate_target(e) == e.tab

\* A TRUNCATE of a tracked name is an op of its own; the layout is the catalog's.
Truncate(s, e) ==
    IF truncate_target(e) = "t"
    THEN DrainTx([s EXCEPT !.schema = shape, !.layout = shape, !.tx = Append(@, e)])
    ELSE s

\* A DDL ends a window that holds a body: one window never spans a layout change.
DdlEnd(s, p) ==
    IF s.ops = << >> THEN s
    ELSE [s EXCEPT !.end = p, !.status = IF p < s.stop THEN "budget" ELSE "done"]

\* The tables whose rows a DDL removes or swaps without row events, in any case.
data_ddl(e) == IF e.what = "drop partition" THEN {e.tab} ELSE {}

\* Such a DDL refuses before anything lands.
Ddl(s, e, p) ==
    IF data_ddl(e) \cap {"t", "T"} # {} THEN Refuse(s)
    ELSE LET c == Cleared(DrainTx(s))
         IN  DdlEnd(IF e.what = "truncate" THEN Truncate(c, e) ELSE c, p)

Handle(s, e, p) ==
    CASE e.type = "rotate"   -> s
      [] e.type = "map"      -> TableMap(s, e)
      [] e.type = "rows"     -> Rows(s, e)
      [] e.type = "xid"      -> Commit(s, p)
      [] e.type = "gtid"     -> Gtid(s, p)
      [] e.type = "annotate" -> Skippable(s, p)
      [] e.type = "query" /\ e.what = "begin"       -> [s EXCEPT !.tx = << >>]
      [] e.type = "query" /\ e.what = "commit"      -> CommitQuery(s, p)
      [] e.type = "query" /\ e.what = "rollback"    -> Rollback(s)
      [] e.type = "query" /\ e.what = "rollback to" -> RollbackTo(s)
      [] e.type = "query" /\ e.what = "dml"         -> Dml(s, e)
      [] e.type = "query" /\ e.what \in {"truncate", "alter", "drop partition"} -> Ddl(s, e, p)
      [] OTHER -> Refuse(s)                          \* unhandled: never skipped

-----------------------------------------------------------------------------
(* The pass *)

\* bootstrap: the coordinate is captured BEFORE the full load.
Capture ==
    /\ pc = "idle" /\ mark = NoMark /\ runs < MaxRuns /\ queue = << >> /\ alive
    /\ runs' = runs + 1
    /\ w' = FreshWindow(FreshSession, Len(log), Len(log))
    /\ pc' = "load"
    /\ UNCHANGED <<log, truth, shape, ids, alive, rd, late, queue, mark, loaded, replica,
                   groups, crashes>>

Load ==
    /\ pc = "load"
    /\ replica' = Now /\ loaded' = Len(log) /\ mark' = w.from
    /\ pc' = "idle"
    /\ UNCHANGED <<log, truth, shape, ids, alive, w, rd, late, queue, groups, runs, crashes>>

\* drain_windows: nothing to do at the live position; else dump from the mark.
Start ==
    /\ pc = "idle" /\ mark # NoMark /\ runs < MaxRuns /\ queue = << >> /\ mark < Len(log)
    /\ runs' = runs + 1
    /\ w' = FreshWindow(FreshSession, mark, Len(log))
    /\ rd' = mark /\ late' = "no" /\ pc' = "top" /\ alive' = TRUE
    /\ UNCHANGED <<log, truth, shape, ids, queue, mark, loaded, replica, groups, crashes>>

\* Mutant: the deadline breaks off inside a transaction.
MayBreakAnywhere == late # "no"

\* The deadline and SIGTERM are looked at between events, and between
\* transactions only.
MayBreak == late # "no" /\ w.tx = << >>

\* What a closed window leads to.  A window of no change at all is not sent; a
\* budget, or follow mode, goes on in the same session with its caches.
Over(s, hitBudget) ==
    LET sent == s.end # s.from \/ s.ops # << >>
    IN  /\ queue' = IF sent THEN Append(queue, [ops |-> s.ops, body |-> s.body, end |-> s.end])
                            ELSE queue
        /\ IF (sent /\ hitBudget) \/ (Follow /\ late # "stop")
           THEN /\ w' = FreshWindow(s, s.end, IF hitBudget THEN s.stop ELSE Len(log))
                /\ pc' = "top"
                /\ late' = IF late = "window" THEN "no" ELSE late
           ELSE w' = s /\ pc' = "idle" /\ UNCHANGED late

Top ==
    /\ pc = "top"
    /\ IF MayBreak THEN Over(w, FALSE)
                   ELSE pc' = "await" /\ UNCHANGED <<queue, w, late>>
    /\ UNCHANGED <<log, truth, shape, ids, alive, rd, mark, loaded, replica,
                   groups, runs, crashes>>

Took(s) ==
    CASE s.status = "go"      -> w' = s /\ pc' = "top" /\ UNCHANGED <<queue, late>>
      [] s.status = "refused" -> w' = s /\ pc' = "refused" /\ UNCHANGED <<queue, late>>
      [] s.status = "budget"  -> Over(s, TRUE)
      [] s.status = "done"    -> Over(s, FALSE)

Read ==
    /\ pc = "await" /\ alive /\ rd < Len(log)
    /\ rd' = rd + 1
    /\ Took(Handle(w, log[rd + 1], rd + 1))
    /\ UNCHANGED <<log, truth, shape, ids, alive, mark, loaded, replica,
                   groups, runs, crashes>>

\* At the log's end the server sends a heartbeat every HEARTBEAT_SECS.
Heartbeat ==
    /\ pc = "await" /\ alive /\ rd = Len(log) /\ rd > 0
    /\ Took(Skippable(w, rd))
    /\ UNCHANGED <<log, truth, shape, ids, alive, rd, mark, loaded, replica,
                   groups, runs, crashes>>

\* The window's deadline (max_secs) passes, or the pass is to end.
Late(l) ==
    /\ pc \in {"top", "await"} /\ late \in {"no", "window"} \ {l} /\ late' = l
    /\ UNCHANGED <<log, truth, shape, ids, alive, pc, w, rd, queue, mark, loaded, replica,
                   groups, runs, crashes>>

Dies ==
    /\ pc = "await" /\ alive /\ crashes < MaxCrashes
    /\ alive' = FALSE /\ crashes' = crashes + 1
    /\ UNCHANGED <<log, truth, shape, ids, pc, w, rd, late, queue, mark, loaded, replica,
                   groups, runs>>

\* Neither an event nor a heartbeat for EVENT_SILENCE_LIMIT.
Silent == pc = "await" /\ ~alive

Silence ==
    /\ Silent
    /\ pc' = "idle" /\ alive' = TRUE
    /\ UNCHANGED <<log, truth, shape, ids, w, rd, late, queue, mark, loaded, replica,
                   groups, runs, crashes>>

\* The apply task lands a window and its watermark.
ApplyOp(s, op) ==
    CASE op.type = "query" -> Empty
      [] op.what = "put"   -> [s EXCEPT ![op.key] = op.val]
      [] op.what = "del"   -> [s EXCEPT ![op.key] = 0]

Apply ==
    /\ queue # << >>
    /\ replica' = FoldLeft(ApplyOp, replica, Head(queue).ops)
    /\ mark' = Head(queue).end
    /\ queue' = Tail(queue)
    /\ UNCHANGED <<log, truth, shape, ids, alive, pc, w, rd, late, loaded,
                   groups, runs, crashes>>

Crash ==
    /\ crashes < MaxCrashes /\ pc # "idle"
    /\ crashes' = crashes + 1
    /\ pc' = "idle" /\ queue' = << >> /\ alive' = TRUE
    /\ UNCHANGED <<log, truth, shape, ids, w, rd, late, mark, loaded, replica, groups, runs>>

Init ==
    /\ log = << >> /\ truth = << >> /\ shape = 1
    /\ ids = [t \in {"t", "u"} |-> IF t = "t" THEN 1 ELSE 2]
    /\ alive = TRUE /\ pc = "idle" /\ w = FreshSession /\ rd = 0 /\ late = "no"
    /\ queue = << >> /\ mark = NoMark /\ loaded = 0 /\ replica = Empty
    /\ groups = 0 /\ runs = 0 /\ crashes = 0

Client == Capture \/ Load \/ Start \/ Top \/ Read \/ Heartbeat \/ Silence \/ Apply
\* Between passes, or parked in a read.
Rest == /\ pc \in {"idle", "refused"} \/ (pc = "await" /\ ~alive)
        /\ queue = << >>
        /\ UNCHANGED vars

Next == Client \/ Late("window") \/ Late("stop") \/ Dies \/ Crash \/ Rest \/ \E g \in Kinds : Write(g)

Spec == Init /\ [][Next]_vars
LiveSpec == Spec /\ WF_vars(Capture \/ Load \/ Start \/ Top) /\ WF_vars(Read \/ Heartbeat)
                 /\ WF_vars(Silence) /\ WF_vars(Apply) /\ WF_vars(Late("stop"))

-----------------------------------------------------------------------------
(* Properties *)

\* The replica is the source as of its watermark, whatever window the pass was
\* cut into, deadlines, budgets, torn and rolled-back groups, DDL, restarts of
\* the server and crashes included (drain_binlog, drain_tx, drain_windows).
Faithful ==
    mark # NoMark /\ mark >= loaded => replica = (IF mark = 0 THEN Empty ELSE truth[mark])

\* A window's body carries the layout its rows were decoded with: no window
\* spans a layout change, and no layout outlives the catalog read it came from
\* (TABLE_MAP's check, the DDL arm).
OneLayout ==
    \A i \in 1..Len(queue) : \A j \in 1..Len(queue[i].ops) :
        queue[i].ops[j].type = "rows" => queue[i].ops[j].shape = queue[i].body

=============================================================================
