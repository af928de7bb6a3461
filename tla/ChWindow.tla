------------------------------ MODULE ChWindow ------------------------------
(***************************************************************************)
(* A ClickHouse table's windows (logbased/dest_ch.rs, apply_unit).         *)
(* ClickHouse has no transaction: a window is a series of statements, and  *)
(* a run may end between any two.  The next run reads the table's mark     *)
(* and meets the same events again, in a window that may end sooner or     *)
(* later than the dead attempt's.                                          *)
(*                                                                         *)
(* The table is a plain MergeTree, or (InsertOnly) a ReplacingMergeTree of *)
(* versions and tombstones, read with FINAL.  The residue journal keeps    *)
(* the image each op of the tail computed before it deletes anything.      *)
(***************************************************************************)
EXTENDS CollapseOps

CONSTANTS
    InsertOnly,  \* which of the two shapes the table has
    Moves,       \* whether the source changes keys and leaves the TOASTed cell alone
    Sooner,      \* whether a replay may end sooner than the attempt before it
    MaxEvents,   \* bound: row events of the source
    MaxDeaths    \* bound: attempts that end early

ChWindowAssumption == {InsertOnly, Moves, Sooner} \subseteq BOOLEAN /\ {MaxEvents, MaxDeaths} \subseteq Nat

VARIABLES
    log,      \* the source's row events, each with its transaction's commit position
    hist,     \* the source table after each event; hist[0] is the bulk load's image
    reading,  \* the log is complete and passes run
    tab,      \* the destination: per key the rows there, or the version FINAL shows
    journal,  \* _apitap_residue: what each journalled op writes
    mark,     \* the table's _apitap_state position
    end,      \* the end of the window in hand, or of the last one
    todo,     \* its statements still to run
    swept,    \* this run swept the journal
    deaths,   \* attempts that ended early
    high,     \* the furthest end attempted
    refused   \* the last apply failed

source == <<log, hist, reading>>
vars == <<source, tab, journal, mark, end, todo, swept, deaths, high, refused>>

src == hist[Len(log)]
Version(row, ver) == [row |-> row, ver |-> ver]

Init ==
    /\ \E t \in [Keys -> BOOLEAN] :
           hist = [i \in {0} |-> [k \in Keys |-> IF t[k] THEN Row(k, 0, k) ELSE None]]
    /\ log = <<>> /\ reading = FALSE
    /\ tab = [k \in Keys |-> IF hist[0][k] = None THEN <<>> ELSE <<Version(hist[0][k], 0)>>]
    /\ journal = {} /\ mark = 0 /\ end = 0 /\ todo = <<>>
    /\ swept = FALSE /\ deaths = 0 /\ high = 0 /\ refused = FALSE

-----------------------------------------------------------------------------
(* The source writes its log.                                              *)

Newest == IF log = <<>> THEN 0 ELSE Last(log).at

\* The event is the first of its transaction, or belongs to the last one.
Write(new, op, old, row, table) ==
    /\ ~reading /\ Len(log) < MaxEvents /\ (new \/ log # <<>>)
    /\ log' = Append(log, [op |-> op, old |-> old, row |-> row,
                           at |-> IF new THEN Newest + 1 ELSE Newest])
    /\ hist' = [i \in 0..Len(log) + 1 |-> IF i <= Len(log) THEN hist[i] ELSE table]
    /\ UNCHANGED <<reading, tab, journal, mark, end, todo, swept, deaths, high, refused>>

Fresh == Len(log) + 1

Insert(new, k) ==
    /\ src[k] = None
    /\ LET row == Row(k, Fresh, Fresh)
       IN  Write(new, "insert", None, row, [src EXCEPT ![k] = row])

Update(new, k, j, keep) ==
    /\ src[k] # None /\ (j = k \/ src[j] = None)
    /\ Moves \/ j = k \/ ~keep
    /\ LET row == Row(j, Fresh, IF keep THEN Hole ELSE Fresh)
       IN  Write(new, "update", src[k], row,
                 [src EXCEPT ![k] = None, ![j] = Overlay(row, src[k], j)])

DeleteRow(new, k) ==
    src[k] # None /\ Write(new, "delete", src[k], None, [src EXCEPT ![k] = None])

Truncate(new) == src # Empty /\ Write(new, "truncate", None, None, Empty)

StartReading ==
    /\ ~reading /\ log # <<>>
    /\ reading' = TRUE
    /\ UNCHANGED <<log, hist, tab, journal, mark, end, todo, swept, deaths, high, refused>>

-----------------------------------------------------------------------------
(* A window and its statements.                                            *)

Absorb(c, e) ==
    LET at == [c EXCEPT !.pos = e.at] IN
    CASE e.op = "insert" -> InsertRow(at, e.row)
      [] e.op = "update" -> UpdateImage(at, e.old, e.row)
      [] e.op = "delete" -> PutDelete(at, e.old.k)
      [] e.op = "truncate" -> TruncateAll(at)

Window(from, to) ==
    Finish(FoldLeft(Absorb, NewCollapser, SelectSeq(log, LAMBDA e : from < e.at /\ e.at <= to)))

\* Statements: DELETE at keys, INSERT of rows, INSERT of tombstones, the tail's start, an op
\* whose image is to be found, the journal's sweep, its INSERT, the _apitap_state row.
DeleteAt(keys) == [op |-> "delete", keys |-> keys]
PutRows(rows) == [op |-> "put", rows |-> rows]
Optional(cond, stmt) == IF cond THEN <<stmt>> ELSE <<>>

\* The keys whose tombstone is written: not one with a live upsert at the same version.
Tombstones(w) == w.del \ {w.ups[i].k : i \in DOMAIN w.ups}

\* apply_unit up to the tail: truncate; then the keys cleared and the rows inserted, or the
\* rows and after them the tombstones inserted at the window's end.
SetPhase(w) ==
    LET upKeys == {w.ups[i].k : i \in DOMAIN w.ups} IN
    Optional(w.trunc, DeleteAt(Keys))
    \o IF InsertOnly
       THEN Optional(w.ups # <<>>, PutRows(ToSet(w.ups)))
            \o Optional(Tombstones(w) # {}, [op |-> "tombstone", keys |-> Tombstones(w)])
       ELSE Optional(w.del \cup upKeys # {}, DeleteAt(w.del \cup upKeys))
            \o Optional(w.ups # <<>>, PutRows(ToSet(w.ups)))

ProgramStateFirst(w) ==
    SetPhase(w) \o <<[op |-> "state"]>> \o Optional(w.res # <<>>, [op |-> "tail", res |-> w.res])
Program(w) ==
    SetPhase(w) \o Optional(w.res # <<>>, [op |-> "tail", res |-> w.res]) \o <<[op |-> "state"]>>

\* The journal's name for an op: its transaction, the key, its ordinal among that
\* transaction's journalled ops on the key.
JournalKey(res, i) ==
    [pos |-> res[i].at, key |-> res[i].old,
     n |-> Cardinality({j \in 1..i : /\ res[j].op \in {"masked", "rekey"}
                                     /\ res[j].at = res[i].at /\ res[j].old = res[i].old})]

\* journal_live: an earlier attempt at these events journalled something.
JournalLive == \E j \in journal : j.name.pos > mark

\* The statements of a tail op; the image of a masked one is found when its turn comes.
TailOp(res, i) ==
    LET o == res[i] IN
    CASE o.op = "delete" -> <<DeleteAt({o.key})>>
      [] o.op = "upsert" -> <<DeleteAt({o.key}), PutRows({o.row})>>
      [] OTHER -> <<[op |-> "image", o |-> o, name |-> JournalKey(res, i), replay |-> JournalLive]>>

\* What an op runs once its image is known.  A move over versions leaves the new key's alone.
Land(o, img) ==
    <<DeleteAt({o.old})>>
    \o Optional(o.op = "rekey" /\ ~InsertOnly, DeleteAt({o.key}))
    \o <<PutRows({img})>>

-----------------------------------------------------------------------------
(* The pass, statement by statement.                                       *)

At(op) == todo # <<>> /\ Head(todo).op = op
Then(stmts) == todo' = stmts \o Tail(todo)
Table == <<tab, journal, mark>>
Attempt == <<end, swept, deaths, high, refused>>

Begin(e) ==
    /\ reading /\ todo = <<>> /\ mark < e /\ e <= Newest
    /\ Sooner \/ e >= high
    /\ end' = e
    /\ high' = IF e > high THEN e ELSE high
    /\ todo' = Program(Window(mark, e))
    /\ refused' = FALSE
    /\ UNCHANGED <<source, Table, swept, deaths>>

\* delete_owned and clear_owned: every version at the keys goes.
DeleteOwned ==
    /\ At("delete")
    /\ tab' = [k \in Keys |-> IF k \in Head(todo).keys THEN <<>> ELSE tab[k]]
    /\ Then(<<>>)
    /\ UNCHANGED <<source, journal, mark, Attempt>>

\* An INSERT.  A plain table gains a row; a versioned one shows the newest version, of equal
\* ones the last inserted.
Landed(rows, v) ==
    CASE ~InsertOnly -> Append(rows, v)
      [] InsertOnly /\ rows # <<>> /\ rows[1].ver > v.ver -> rows
      [] OTHER -> <<v>>

InsertOwned ==
    /\ At("put")
    /\ tab' = [k \in Keys |->
                  LET of == {r \in Head(todo).rows : r.k = k}
                  IN  IF of = {} THEN tab[k]
                      ELSE Landed(tab[k], Version(CHOOSE r \in of : TRUE, end))]
    /\ Then(<<>>)
    /\ UNCHANGED <<source, journal, mark, Attempt>>

InsertTombstones ==
    /\ At("tombstone")
    /\ tab' = [k \in Keys |-> IF k \in Head(todo).keys THEN Landed(tab[k], Version(None, end))
                              ELSE tab[k]]
    /\ Then(<<>>)
    /\ UNCHANGED <<source, journal, mark, Attempt>>

BeginTail ==
    /\ At("tail")
    /\ LET res == Head(todo).res IN Then(FlattenSeq([i \in DOMAIN res |-> TailOp(res, i)]))
    /\ UNCHANGED <<source, Table, Attempt>>

\* The rows a readback finds at a key: with FINAL, never a tombstone.
Readback(k) == SelectSeq(tab[k], LAMBDA v : v.row # None)

\* journal_get: the image an attempt journalled for the op, asked only on a replay.
Hit(s) == {j \in journal : s.replay /\ j.name = s.name /\ j.name.pos > mark}

\* A journalled image is landed again as it is.
ImageFromJournal ==
    /\ At("image") /\ Hit(Head(todo)) # {}
    /\ LET s == Head(todo) IN Then(Land(s.o, (CHOOSE j \in Hit(s) : TRUE).img))
    /\ UNCHANGED <<source, Table, Attempt>>

\* The hole is read back where the row was; the image is journalled before anything is deleted.
ImageFromTable ==
    /\ At("image") /\ Hit(Head(todo)) = {}
    /\ LET s == Head(todo)
           found == Readback(s.o.old)
       IN  /\ found # <<>>
           /\ LET img == Overlay(s.o.row, found[1].row, s.o.key)
              IN  Then(Optional(~swept, [op |-> "sweep"])
                       \o <<[op |-> "journal", name |-> s.name, img |-> img]>>
                       \o Land(s.o, img))
    /\ UNCHANGED <<source, Table, Attempt>>

\* Nothing to read: a move of a first attempt is skipped, everything else stops the run.
ImageMissing ==
    /\ At("image") /\ Hit(Head(todo)) = {}
    /\ LET s == Head(todo) IN
       /\ Readback(s.o.old) = <<>>
       /\ \/ /\ s.o.op = "rekey" /\ ~s.replay
             /\ Then(<<>>)
             /\ UNCHANGED <<refused, swept>>
          \/ /\ s.o.op = "masked" \/ s.replay
             /\ todo' = <<>> /\ refused' = TRUE /\ swept' = FALSE
    /\ UNCHANGED <<source, Table, end, deaths, high>>

Sweep ==
    /\ At("sweep")
    /\ swept' = TRUE
    /\ journal' = {j \in journal : j.name.pos > mark}
    /\ Then(<<>>)
    /\ UNCHANGED <<source, tab, mark, end, deaths, high, refused>>

JournalPut ==
    /\ At("journal")
    /\ LET s == Head(todo) IN
           journal' = {j \in journal : j.name # s.name} \cup {[name |-> s.name, img |-> s.img]}
    /\ Then(<<>>)
    /\ UNCHANGED <<source, tab, mark, Attempt>>

\* The window's state row.
Commit ==
    /\ At("state")
    /\ mark' = end
    /\ Then(<<>>)
    /\ UNCHANGED <<source, tab, journal, Attempt>>

\* The run ends between two statements, or after a window; the next one starts at the mark.
Die ==
    /\ reading /\ deaths < MaxDeaths /\ (todo # <<>> \/ swept)
    /\ todo' = <<>> /\ swept' = FALSE /\ deaths' = deaths + 1
    /\ UNCHANGED <<source, Table, end, high, refused>>

Next ==
    \/ \E new \in BOOLEAN, k \in Keys :
           \/ Insert(new, k) \/ DeleteRow(new, k)
           \/ \E j \in Keys, keep \in BOOLEAN : Update(new, k, j, keep)
    \/ \E new \in BOOLEAN : Truncate(new)
    \/ StartReading
    \/ \E e \in 1..MaxEvents : Begin(e)
    \/ DeleteOwned \/ InsertOwned \/ InsertTombstones \/ BeginTail
    \/ ImageFromJournal \/ ImageFromTable \/ ImageMissing \/ Sweep \/ JournalPut
    \/ Commit \/ Die

Spec == Init /\ [][Next]_vars

-----------------------------------------------------------------------------
TypeOK ==
    /\ \A k \in Keys, i \in 0..Len(log) : hist[i][k] # None => hist[i][k].k = k
    /\ mark \in 0..Newest /\ end \in 0..Newest /\ high \in 0..Newest
    /\ \A k \in Keys : \A i \in DOMAIN tab[k] : tab[k][i].ver \in 0..high
    /\ {reading, swept, refused} \subseteq BOOLEAN /\ deaths \in 0..MaxDeaths

\* The source table after the transaction at a position.
SourceAt(pos) == hist[Cardinality({i \in DOMAIN log : log[i].at <= pos})]

\* Once a window that reaches as far as every attempt has committed, the table shows the
\* source at its mark, whatever the attempts before it had left (dest_ch.rs 969-981).
Converged ==
    todo = <<>> /\ ~refused /\ mark = high
        => \A k \in Keys : {v.row : v \in ToSet(tab[k])} \ {None} = {SourceAt(mark)[k]} \ {None}

\* An entry of the residue journal that a replay may use is the row the source had after that
\* op, unless an attempt has gone on to a later TRUNCATE: it was computed before any later op
\* of any attempt reached the table (dest_ch.rs 969-981, journal_put).
JournalTrue ==
    \A j \in journal :
        \/ j.name.pos <= mark \/ j.img = hist[j.img.v][j.img.k]
        \/ \E i \in DOMAIN log :
               log[i].op = "truncate" /\ j.name.pos <= log[i].at /\ log[i].at <= high

\* A key never shows two rows, also in the middle of a window or of its replay
\* (dest_ch.rs 1251-1262: the new key is cleared before the moved row is inserted).
OneRowPerKey == \A k \in Keys : Len(tab[k]) <= 1

\* A window at least as long as every attempt before it is never refused: what a dead
\* attempt deleted it had journalled first (dest_ch.rs 1075-1081, 1219-1235).
NeverRefused == refused => end < high

\* The tail's INSERTs never meet a version equal to their own ("it deletes before it
\* inserts, so no same-version tie can arise", dest_ch.rs 830-831).
NoTie ==
    At("put") /\ InsertOnly /\ (\A i \in DOMAIN todo : todo[i].op # "tail") /\ Window(mark, end).res # <<>>
        => \A r \in Head(todo).rows : \A i \in DOMAIN tab[r.k] : tab[r.k][i].ver # end
=============================================================================
