---------------------------- MODULE CollapseOps ----------------------------
(***************************************************************************)
(* The per-key collapse of a window (logbased/collapse.rs) and its fold to *)
(* one image per key (logbased/resolve.rs), as operators on a Collapser.   *)
(*                                                                         *)
(* A row has its key, a plain column v and a TOASTed column t; an update   *)
(* that leaves t alone ships it as Hole.                                   *)
(***************************************************************************)
EXTENDS Naturals, Sequences, SequencesExt, FiniteSets

CONSTANTS
    Keys,       \* replica-identity keys
    None, Hole, \* no row; Cell::UnchangedToast
    Deferred    \* a DEFERRABLE key under REPLICA IDENTITY FULL: two rows may share a key for a while

CollapseOpsAssumption == None \notin Keys /\ Hole # None /\ Deferred \in BOOLEAN

Row(k, v, t) == [k |-> k, v |-> v, t |-> t]
HasToast(row) == row.t = Hole
Empty == [k \in Keys |-> None]

Free == [kind |-> "vacant", seq |-> 0, del |-> FALSE]
Upsert(seq, del) == [kind |-> "upsert", seq |-> seq, del |-> del]
Delete == [kind |-> "delete", seq |-> 0, del |-> TRUE]
Residue(del) == [kind |-> "residue", seq |-> 0, del |-> del]

NewCollapser == [map |-> [k \in Keys |-> Free], ups |-> <<>>, res |-> <<>>, trunc |-> FALSE, pos |-> 0]

\* Tail::push: an op of the ordered tail, with its transaction's commit position.
Push(c, op, key, old, row) ==
    Append(c.res, [op |-> op, key |-> key, old |-> old, row |-> row, at |-> c.pos])

-----------------------------------------------------------------------------
(* The Collapser.                                                          *)

\* A row image for the set phase, at the key's slot s.
PutUpsert(c, s, row) ==
    IF s.kind = "upsert"
    THEN [c EXCEPT !.ups[s.seq] = row]
    ELSE [c EXCEPT !.ups = Append(@, row), !.map[row.k] = Upsert(Len(c.ups) + 1, s.del)]

PutDelete(c, k) ==
    LET s == c.map[k] IN
    CASE s.kind = "residue" -> [c EXCEPT !.res = Push(c, "delete", k, k, None)]
      [] s.kind = "upsert" -> [c EXCEPT !.ups[s.seq] = None, !.map[k] = Delete]
      [] OTHER -> [c EXCEPT !.map[k] = Delete]

InsertRow(c, row) ==
    LET s == c.map[row.k] IN
    IF s.kind = "residue"
    THEN [c EXCEPT !.res = Push(c, "upsert", row.k, row.k, row)]
    ELSE PutUpsert(c, s, row)

RekeyNewOnly(c, old, row) ==
    [c EXCEPT !.res = Push(c, "rekey", row.k, old.k, row),
              !.map[row.k] = Residue(@.del)]
\* The old identity of a key-changing update, masked: the row is moved by the tail.
Rekey(c, old, row) ==
    [c EXCEPT !.res = Push(c, "rekey", row.k, old.k, row),
              !.map[old.k] = Residue(@.del), !.map[row.k] = Residue(@.del)]

\* Which row left the old key: under FULL the old image tells the pre-window row apart.
OtherRow(c, old) ==
    /\ Deferred /\ c.map[old.k].kind = "upsert"
    /\ c.ups[c.map[old.k].seq] # old
LeaveOldKey(c, old) ==
    IF OtherRow(c, old) THEN [c EXCEPT !.map[old.k].del = TRUE] ELSE PutDelete(c, old.k)

NewImage(c, row) ==
    LET s == c.map[row.k]
        masked == [c EXCEPT !.res = Push(c, "masked", row.k, row.k, row),
                            !.map[row.k] = Residue(s.del)]
    IN  IF HasToast(row) THEN masked ELSE InsertRow(c, row)

UpdateImage(c, old, row) ==
    CASE old.k = row.k -> NewImage(c, row)
      [] old.k # row.k /\ HasToast(row) -> Rekey(c, old, row)
      [] OTHER -> NewImage(LeaveOldKey(c, old), row)

TruncateAll(c) == [NewCollapser EXCEPT !.trunc = TRUE, !.pos = c.pos]

\* Collapser::finish: the delete set is read off the key map, each key once.
Finish(c) ==
    [del |-> {k \in Keys : c.map[k].del}, ups |-> SelectSeq(c.ups, LAMBDA r : r # None),
     res |-> c.res, trunc |-> c.trunc]

\* deleted_later: a later op of the tail takes the row away from the key.
Moot(res, i) ==
    \E j \in i+1..Len(res) :
        res[j].op \in {"delete", "rekey"} /\ res[j].old = res[i].key

Overlay(row, at, k) == Row(k, row.v, IF row.t = Hole THEN at.t ELSE row.t)

-----------------------------------------------------------------------------
(* The fold of a window to one image per key.                              *)

Gone == [kind |-> "gone", row |-> None, from |-> None]
Whole(row) == [kind |-> "row", row |-> row, from |-> None]
Patch(row, base, from) ==
    LET t == IF row.t = Hole /\ base # None THEN base.t ELSE row.t
    IN  IF t = Hole THEN [kind |-> "masked", row |-> row, from |-> from]
                    ELSE Whole([row EXCEPT !.t = t])
Untouched == [kind |-> "untouched", row |-> None, from |-> None]

FoldOp(fin, o) ==
    LET base == fin[o.old].row
        origin == fin[o.old].from
    IN  CASE o.op = "upsert" -> [fin EXCEPT ![o.key] = Whole(o.row)]
          [] o.op = "delete" -> [fin EXCEPT ![o.key] = Gone]
          [] o.op = "masked" -> [fin EXCEPT ![o.key] = Patch(o.row, base, origin)]
          [] o.op = "rekey" ->
                 [fin EXCEPT ![o.old] = Gone,
                             ![o.key] = Patch(o.row, base, IF origin = None THEN o.old ELSE origin)]

\* resolve_window: the final entry of each key an upsert or the tail touched.
Finals(w) ==
    LET set == [k \in Keys |->
                   LET of == SelectSeq(w.ups, LAMBDA r : r.k = k)
                   IN  IF of = <<>> THEN Untouched ELSE Whole(Last(of))]
    IN  FoldLeft(FoldOp, set, w.res)

\* Resolved::rows: the finals, then the deleted keys they do not hold.
Rows(w, fin) ==
    LET touched == {k \in Keys : fin[k].kind # "untouched"}
        deleteOnly == IF w.trunc THEN {} ELSE w.del \ touched
    IN  [i \in 1..Cardinality(touched) |->
            LET k == SetToSeq(touched)[i] IN [key |-> k, image |-> fin[k]]]
        \o [i \in 1..Cardinality(deleteOnly) |-> [key |-> SetToSeq(deleteOnly)[i], image |-> Gone]]
=============================================================================
