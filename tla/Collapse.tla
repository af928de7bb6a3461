------------------------------ MODULE Collapse ------------------------------
(***************************************************************************)
(* One table's windows from row events to the destination: the per-key     *)
(* collapse (logbased/collapse.rs), the fold to one image per key          *)
(* (logbased/resolve.rs) and the four replica applies that consume them    *)
(* (dest_pg.rs, dest_my.rs, dest_bq.rs, dest_ice.rs).                      *)
(*                                                                         *)
(* Every write of the source stores a value of its own, so a stale or      *)
(* misplaced cell is visible.                                              *)
(***************************************************************************)
EXTENDS CollapseOps

CONSTANTS
    V0, T0,     \* the cells of each key's initial row, if it has one
    Dest,       \* "pg", "my", "bq" or "ice"
    MaxEvents,  \* bound: row events
    MaxWindows, \* bound: windows
    Overlap,    \* bound: events of a window the destination may already hold
    Toasted,    \* whether t is stored out of line, so that an update leaving it alone ships Hole
    Reuse       \* whether a key a masked move left is taken again in the same window

CollapseAssumption ==
    /\ Dest \in {"pg", "my", "bq", "ice"} /\ {Toasted, Reuse} \subseteq BOOLEAN
    /\ {MaxEvents, MaxWindows, Overlap} \subseteq Nat

VARIABLES
    src,     \* the source table
    events,  \* row events so far
    cuts,    \* windows sealed so far
    col,     \* the window's Collapser
    queue,   \* sealed windows not yet applied, each with the source as it was at its end
    dest,    \* the destination table
    loaded,  \* whether the destination has its starting image
    refused  \* an apply failed

vars == <<src, events, cuts, col, queue, dest, loaded, refused>>

Fresh == events + 1

Init ==
    /\ src \in [Keys -> {None} \cup {Row(k, V0, T0[k]) : k \in Keys}]
    /\ \A k \in Keys : src[k] # None => src[k].k = k
    /\ events = 0 /\ cuts = 0 /\ col = NewCollapser
    /\ queue = <<>> /\ dest = Empty /\ loaded = FALSE /\ refused = FALSE

\* Source::refetch_masked: a hole takes the source's current cell; no row there is a delete.
Refetch(fin) ==
    [k \in Keys |->
        IF fin[k].kind # "masked" THEN fin[k]
        ELSE IF src[k] = None THEN Gone ELSE Whole([fin[k].row EXCEPT !.t = src[k].t])]

-----------------------------------------------------------------------------
(* The applies.  Each maps a table to a table and whether it was accepted. *)

Outcome(tab, ok) == [tab |-> tab, ok |-> ok]

\* One statement of the tail.  Moving a row onto a live key breaks the primary key.
TailOp(out, x) ==
    LET tab == out.tab
        found == tab[x.o.old] # None
    IN  IF ~out.ok THEN out ELSE
        CASE x.o.op = "upsert" -> Outcome([tab EXCEPT ![x.o.key] = x.o.row], TRUE)
          [] x.o.op = "delete" -> Outcome([tab EXCEPT ![x.o.key] = None], TRUE)
          [] x.o.op = "masked" /\ found ->
                 Outcome([tab EXCEPT ![x.o.key] = Overlay(x.o.row, @, x.o.key)], TRUE)
          [] x.o.op = "masked" /\ ~found -> Outcome(tab, x.moot)
          [] x.o.op = "rekey" /\ found ->
                 Outcome([tab EXCEPT ![x.o.old] = None,
                                     ![x.o.key] = Overlay(x.o.row, tab[x.o.old], x.o.key)],
                         tab[x.o.key] = None)
          [] x.o.op = "rekey" /\ ~found -> Outcome(tab, x.moot \/ tab[x.o.key] # None)

ApplySqlTailFirst(w, tab) ==
    LET tail == [i \in DOMAIN w.res |-> [o |-> w.res[i], moot |-> TRUE]]
        out == FoldLeft(TailOp, Outcome(tab, TRUE), tail)
        upKeys == {w.ups[i].k : i \in DOMAIN w.ups}
    IN  Outcome([k \in Keys |-> IF k \in upKeys
                                THEN w.ups[CHOOSE i \in DOMAIN w.ups : w.ups[i].k = k]
                                ELSE IF w.trunc \/ k \in w.del THEN None ELSE out.tab[k]], TRUE)

\* dest_pg and dest_my apply_unit: truncate, clear the keys, bulk insert, the tail in order.
ApplySql(w, tab) ==
    LET upKeys == {w.ups[i].k : i \in DOMAIN w.ups}
        cleared == [k \in Keys |-> IF w.trunc \/ k \in w.del \cup upKeys THEN None ELSE tab[k]]
        set == [k \in Keys |-> IF k \in upKeys
                               THEN (CHOOSE i \in DOMAIN w.ups : w.ups[i].k = k) ELSE 0]
        inserted == [k \in Keys |-> IF set[k] = 0 THEN cleared[k] ELSE w.ups[set[k]]]
        once == \A i, j \in DOMAIN w.ups : w.ups[i].k = w.ups[j].k => i = j
        tail == [i \in DOMAIN w.res |-> [o |-> w.res[i], moot |-> Moot(w.res, i)]]
    IN  FoldLeft(TailOp, Outcome(inserted, once), tail)

\* Where the MERGE reads a masked row's holes: at the key it came from, if a row is there.
HoleBase(im, k, tab) == IF im.from # None /\ tab[im.from] # None THEN tab[im.from] ELSE tab[k]

\* dest_bq: one MERGE over one staged row per key; a moved row's holes are read at its old key.
ApplyMerge(w, tab) ==
    LET rows == Rows(w, Finals(w))
        once == \A i, j \in DOMAIN rows : rows[i].key = rows[j].key => i = j
        at(k) == CHOOSE i \in DOMAIN rows : rows[i].key = k
        staged == {rows[i].key : i \in DOMAIN rows}
        land(k) == LET im == rows[at(k)].image IN
                   CASE im.kind = "gone" -> None
                     [] im.kind = "row" -> im.row
                     [] im.kind = "masked" /\ HoleBase(im, k, tab) # None ->
                              Overlay(im.row, HoleBase(im, k, tab), k)
                     [] OTHER -> Hole
        merged == [k \in Keys |-> CASE k \in staged -> land(k)
                                    [] w.trunc -> None
                                    [] OTHER -> tab[k]]
    IN  Outcome(merged, once /\ \A k \in Keys : merged[k] # Hole)

\* dest_ice: every touched key is deleted, every final image written.
ApplyFiles(w, tab) ==
    LET rows == Rows(w, Refetch(Finals(w)))
        at(k) == {i \in DOMAIN rows : rows[i].key = k}
    IN  Outcome([k \in Keys |-> CASE at(k) # {} -> rows[CHOOSE i \in at(k) : TRUE].image.row
                                  [] w.trunc -> None
                                  [] OTHER -> tab[k]], TRUE)

Apply(w, tab) ==
    CASE Dest \in {"pg", "my"} -> ApplySql(w, tab)
      [] Dest = "bq" -> ApplyMerge(w, tab)
      [] Dest = "ice" -> ApplyFiles(w, tab)

-----------------------------------------------------------------------------
(* The source's changes, each handed to the Collapser as it is read.       *)

MayChange(n) == /\ events + n <= MaxEvents
                /\ loaded \/ events + n <= Overlap
                /\ cuts < MaxWindows

MayTake(k) ==
    /\ src[k] = None
    /\ Reuse \/ \A i \in DOMAIN col.res : col.res[i].op = "rekey" => col.res[i].old # k

Absorb(c, n) ==
    /\ col' = c
    /\ events' = events + n
    /\ UNCHANGED <<cuts, queue, dest, loaded, refused>>

Insert(k) ==
    /\ MayChange(1) /\ MayTake(k)
    /\ LET row == Row(k, Fresh, Fresh) IN
           src' = [src EXCEPT ![k] = row] /\ Absorb(InsertRow(col, row), 1)

\* What an update ships of a cell it leaves alone.
Kept(t) == IF Toasted THEN Hole ELSE t

\* An update of a live row, which leaves t alone or rewrites it, at key j from now on.
Update(k, j, keep) ==
    /\ MayChange(1) /\ src[k] # None /\ (j = k \/ MayTake(j))
    /\ LET row == Row(j, Fresh, IF keep THEN Kept(src[k].t) ELSE Fresh)
       IN  /\ src' = [src EXCEPT ![k] = None, ![j] = Overlay(row, src[k], j)]
           /\ Absorb(UpdateImage(col, src[k], row), 1)

\* UPDATE SET id = j + k - id over a DEFERRABLE key: two rows at one key until the statement ends.
Swap(k, j) ==
    /\ Deferred /\ MayChange(2) /\ j # k /\ src[k] # None /\ src[j] # None
    /\ LET to(row, key) == Row(key, row.v, Kept(row.t))
           one == UpdateImage(col, src[k], to(src[k], j))
           two == UpdateImage(one, src[j], to(src[j], k))
       IN  /\ src' = [src EXCEPT ![k] = [src[j] EXCEPT !.k = k], ![j] = [src[k] EXCEPT !.k = j]]
           /\ Absorb(two, 2)

DeleteRow(k) ==
    /\ MayChange(1) /\ src[k] # None
    /\ src' = [src EXCEPT ![k] = None]
    /\ Absorb(PutDelete(col, k), 1)

Truncate ==
    /\ MayChange(1) /\ src # Empty
    /\ src' = Empty
    /\ Absorb(TruncateAll(col), 1)

-----------------------------------------------------------------------------
(* The pass.                                                               *)

\* The destination's starting image: the bulk load's, or where a member's floor left it.
Load ==
    /\ ~loaded
    /\ dest' = src /\ loaded' = TRUE
    /\ UNCHANGED <<src, events, cuts, col, queue, refused>>

Seal ==
    /\ loaded /\ cuts < MaxWindows /\ col # NewCollapser
    /\ queue' = Append(queue, [win |-> Finish(col), img |-> src])
    /\ cuts' = cuts + 1
    /\ col' = NewCollapser
    /\ UNCHANGED <<src, events, dest, loaded, refused>>

ApplyWindow ==
    /\ queue # <<>> /\ ~refused
    /\ LET out == Apply(Head(queue).win, dest)
       IN  \/ /\ out.ok
              /\ dest' = out.tab /\ queue' = Tail(queue) /\ UNCHANGED refused
           \/ /\ ~out.ok
              /\ refused' = TRUE /\ UNCHANGED <<dest, queue>>
    /\ UNCHANGED <<src, events, cuts, col, loaded>>

\* MySQL's TRUNCATE commits by itself; the run may end before the rest does.
CutShort ==
    /\ Dest = "my" /\ queue # <<>> /\ ~refused /\ Head(queue).win.trunc /\ dest # Empty
    /\ dest' = Empty
    /\ UNCHANGED <<src, events, cuts, col, queue, loaded, refused>>

Next ==
    \/ \E k \in Keys : Insert(k) \/ DeleteRow(k)
    \/ \E k, j \in Keys : Swap(k, j) \/ \E keep \in BOOLEAN : Update(k, j, keep)
    \/ Truncate \/ Load \/ Seal \/ ApplyWindow \/ CutShort

Spec == Init /\ [][Next]_vars

-----------------------------------------------------------------------------
TypeOK ==
    /\ \A k \in Keys : src[k] # None => src[k].k = k /\ src[k].t # Hole
    /\ \A k \in Keys : col.map[k].kind \in {"vacant", "upsert", "delete", "residue"}
    /\ \A k \in Keys : col.map[k].kind = "upsert" => col.ups[col.map[k].seq].k = k
    /\ Len(queue) <= MaxWindows /\ {loaded, refused} \subseteq BOOLEAN

\* A window the destination accepts leaves it exactly as the source was at the window's
\* end, wherever in the window its own image was taken (collapse.rs with apply_unit and
\* the MERGE: delete phase, set phase and tail together replay the events).
AppliesExactly == Len(queue') < Len(queue) => dest' = Head(queue).img

\* A window re-applied to a destination that already holds all of it changes nothing
\* (the comments at dest_pg.rs 474 and dest_bq.rs 1330, which say so of a move).
ReplayChangesNothing == [][Len(queue') < Len(queue) /\ dest = Head(queue).img => dest' = dest]_vars

\* A window that starts where the destination stands is never refused: a masked update or a
\* move always finds its row, and no key is staged twice (dest_pg.rs 493-511, dest_bq.rs 1310).
NeverRefused == ~refused

\* Once every window has landed the destination is the source, also where a hole was filled
\* from a source row that had moved on by then (resolve.rs refetch_masked).
Converges ==
    loaded /\ queue = <<>> /\ col = NewCollapser /\ ~refused => dest = src
=============================================================================
