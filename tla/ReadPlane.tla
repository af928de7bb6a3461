------------------------------ MODULE ReadPlane ------------------------------
(***************************************************************************)
(* A bulk read split into statements (span_stmts and run_workers of        *)
(* source/postgres.rs, source/mysql.rs and source/clickhouse.rs) beside    *)
(* the writers of the table it reads.                                      *)
(*                                                                         *)
(* A row is its cursor (a number or Null) and the page it sits on; `out`   *)
(* keeps the cursors each row was read with.  A statement sees the table   *)
(* as it is when the statement starts, or the exported snapshot.           *)
(***************************************************************************)
EXTENDS Planning, Sequences, FiniteSets

CONSTANTS
    Source,        \* "pg" | "mysql" | "ch"
    Rows, Values, Pages,
    Absent, Null,  \* model values
    Want,          \* statements asked for (6 per worker in the code)
    IntCursor,     \* the plan's cursor is an integer column
    Nullable,      \* source_cursor_nullable
    Since,         \* the delta's watermark; Null: no delta
    Keep,          \* rows a pushed predicate keeps; Rows: no predicate
    Pinned,        \* the read is pinned to a snapshot taken before (bootstrap)
    Plain,         \* ClickHouse: the engine is a plain MergeTree
    MaxFit,        \* the largest cursor an i64 holds (MySQL, ClickHouse)
    MaxWrites, MaxCuts

VARIABLES table, pages, pc, todo, snap, out, seen, touched, writes, cuts

vars == <<table, pages, pc, todo, snap, out, seen, touched, writes, cuts>>
world == <<table, pages, touched, writes>>

Cells == [c : Values \cup (IF Nullable THEN {Null} ELSE {}), p : Pages]
Present(s) == {r \in Rows : s[r] # Absent}
Pushed == Keep # Rows

\* dprobe: the delta's predicate; dpred adds the pushed one.
InDelta(cell) == Since = Null \/ (cell.c # Null /\ cell.c > Since)
Wanted(s) == {r \in Present(s) : InDelta(s[r]) /\ r \in Keep}

-----------------------------------------------------------------------------
\* The statements: a predicate each.

True == [k |-> "true"]
False == [k |-> "false"]

\* span_range: the edge spans are open, NULL cursors ride the last one.
InRange(st, c) ==
    \/ st.first /\ st.last
    \/ c = Null /\ st.last /\ Nullable
    \/ c # Null /\ (st.first \/ st.lo <= c) /\ (st.last \/ c <= st.hi)

Matches(st, cell) ==
    CASE st.k = "true"   -> TRUE
      [] st.k = "false"  -> FALSE
      [] st.k = "cursor" -> InRange(st, cell.c)
      [] st.k = "page"   -> st.lo <= cell.p /\ (st.last \/ cell.p <= st.hi)

\* The statements of spans over [lo, hi].
SpanSet(kind, lo, hi) ==
    LET made == Made(lo, hi, Want)
        last == Cardinality(made) - 1
    IN {[k |-> kind, first |-> i = 0, last |-> i = last,
         lo |-> SpanLo(lo, hi, Want, i), hi |-> SpanHi(lo, hi, Want, i)] : i \in made}

\* The min/max probe, with the delta's predicate only.
Probed == {table[r].c : r \in {x \in Present(table) : InDelta(table[x])}} \ {Null}
Least(S) == CHOOSE x \in S : \A y \in S : x <= y
Most(S) == CHOOSE x \in S : \A y \in S : y <= x

CursorSpans == SpanSet("cursor", Least(Probed), Most(Probed))

\* Postgres falls back to page ranges, and to one statement on an empty file.
PgStmts ==
    IF IntCursor /\ Probed # {} THEN CursorSpans
    ELSE IF IntCursor /\ (Since # Null \/ Pushed) THEN {False}
    ELSE IF pages > 0 THEN SpanSet("page", 0, pages - 1)
    ELSE {True}

MyStmts ==
    IF IntCursor /\ Probed # {} THEN IF Most(Probed) <= MaxFit THEN CursorSpans ELSE {True}
    ELSE IF IntCursor /\ (Since # Null \/ Pushed) THEN {False}
    ELSE {True}

\* ClickHouse splits a plain MergeTree only; count() = 0 reads nothing, a range
\* that is all NULL or past i64 is one statement.
ChStmts ==
    IF ~(Plain /\ IntCursor) THEN {True}
    ELSE IF {x \in Present(table) : InDelta(table[x])} = {} THEN {False}
    ELSE IF Probed = {} \/ Most(Probed) > MaxFit THEN {True}
    ELSE CursorSpans

Stmts == CASE Source = "pg" -> PgStmts [] Source = "mysql" -> MyStmts [] Source = "ch" -> ChStmts

-----------------------------------------------------------------------------
\* The writers (external): each commit is one change of one row.

Committed(s, r) ==
    /\ writes < MaxWrites
    /\ pc \in {"plan", "export", "read"}
    /\ table' = s
    /\ writes' = writes + 1
    /\ touched' = touched \cup {r}
    /\ seen' = seen \cup {s}
    /\ UNCHANGED <<pc, todo, snap, out, cuts>>

\* A row takes room on a page of the file, or on one it adds.
Room(cell) == cell.p <= pages /\ pages' = IF cell.p = pages THEN pages + 1 ELSE pages

Insert(r, cell) ==
    /\ table[r] = Absent /\ Room(cell)
    /\ Committed([table EXCEPT ![r] = cell], r)

\* An UPDATE writes a new version: in Postgres anywhere in the file.  A
\* ClickHouse row changes only where a merge replaces it by its newer version.
Update(r, cell) ==
    /\ table[r] # Absent /\ table[r] # cell
    /\ Source = "ch" => ~Plain
    /\ Source # "pg" => cell.p = table[r].p
    /\ Room(cell)
    /\ Committed([table EXCEPT ![r] = cell], r)

Delete(r) ==
    /\ table[r] # Absent
    /\ UNCHANGED pages
    /\ Committed([table EXCEPT ![r] = Absent], r)

-----------------------------------------------------------------------------
\* The read.

Plan ==
    /\ pc = "plan"
    /\ todo' = Stmts
    /\ pc' = "export"
    /\ seen' = IF Pinned THEN seen ELSE {table}
    /\ touched' = {}
    /\ UNCHANGED <<table, pages, snap, out, writes, cuts>>

\* Mutant: the spans share no snapshot.
NoExport ==
    /\ pc = "export" /\ pc' = "read"
    /\ UNCHANGED <<world, todo, snap, out, seen, cuts>>

\* run_workers: several statements of a Postgres read share one snapshot,
\* exported now unless the read is pinned already.
Export ==
    /\ pc = "export"
    /\ pc' = "read"
    /\ snap' = IF Source = "pg" /\ snap = Null /\ Cardinality(todo) > 1 THEN table ELSE snap
    /\ UNCHANGED <<world, todo, out, seen, cuts>>

Read(s, S) == [r \in Rows |-> IF r \in S THEN Append(out[r], s[r].c) ELSE out[r]]
View == IF snap = Null THEN table ELSE snap
Of(st) == {r \in Wanted(View) : Matches(st, View[r])}

\* A worker takes the next statement and streams its rows.
Span(st) ==
    /\ pc = "read"
    /\ st \in todo
    /\ out' = Read(View, Of(st))
    /\ todo' = todo \ {st}
    /\ pc' = IF todo' = {} THEN "done" ELSE "read"
    /\ UNCHANGED <<world, snap, seen, cuts>>

\* The server fails after part of the rows: an error of the protocol or, on a
\* ClickHouse stream that began with 200, bytes that end in mid-row or in a
\* glued exception.  Every worker refuses the span and the read fails.
Cut(st) ==
    /\ pc = "read"
    /\ st \in todo
    /\ cuts < MaxCuts
    /\ cuts' = cuts + 1
    /\ \E S \in SUBSET Of(st) : out' = Read(View, S)
    /\ pc' = "failed"
    /\ UNCHANGED <<world, todo, snap, seen>>

Init ==
    /\ table \in [Rows -> Cells \cup {Absent}]
    /\ pages \in Pages \cup {Cardinality(Pages)}
    /\ \A r \in Present(table) : table[r].p < pages
    /\ pc = "plan"
    /\ todo = {}
    /\ snap = IF Pinned THEN table ELSE Null
    /\ out = [r \in Rows |-> <<>>]
    /\ seen = {table}
    /\ touched = {}
    /\ writes = 0
    /\ cuts = 0

Next ==
    \/ \E r \in Rows, cell \in Cells : Insert(r, cell) \/ Update(r, cell)
    \/ \E r \in Rows : Delete(r)
    \/ Plan \/ Export
    \/ \E st \in todo : Span(st) \/ Cut(st)

Spec == Init /\ [][Next]_vars

-----------------------------------------------------------------------------
TypeOK ==
    /\ pc \in {"plan", "export", "read", "done", "failed"}
    /\ table \in [Rows -> Cells \cup {Absent}]
    /\ touched \subseteq Rows
    /\ \A st \in todo : st.k \in {"cursor", "page"} => st.lo <= st.hi
    /\ snap # Null => snap \in [Rows -> Cells \cup {Absent}]

\* Postgres (and a table ClickHouse may rewrite under the reader): what a read
\* that succeeds returns is one state the table was in between the plan and the
\* last row, each row once, whatever commits between the spans.
OneState ==
    pc = "done" =>
        \E s \in seen : \A r \in Rows :
            out[r] = IF r \in Wanted(s) THEN <<s[r].c>> ELSE <<>>

\* MySQL and plain ClickHouse tables: no common snapshot, so a row that no one
\* touches since the plan is what the read owes: exactly once, NULL cursors and
\* cursors past i64 included.
UntouchedOnce ==
    pc = "done" =>
        \A r \in Rows \ touched :
            out[r] = IF r \in Wanted(table) THEN <<table[r].c>> ELSE <<>>
=============================================================================
