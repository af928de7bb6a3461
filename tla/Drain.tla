-------------------------------- MODULE Drain --------------------------------
(***************************************************************************)
(* One table's batch drain (logbased/drain.rs) against the walsender it    *)
(* reads.  The source runs transactions with savepoints and changes the    *)
(* table's columns; the decoder ships a transaction whole after its commit *)
(* or streams it in blocks while it is open; the drain buffers, cuts the   *)
(* stream into windows and hands each to the apply, which records its end  *)
(* as the watermark the next session starts from.                          *)
(*                                                                         *)
(* A message is delivered and handled in one step: the stream is in order  *)
(* and nothing but the drain reads it.  A row change counts one byte.      *)
(***************************************************************************)
EXTENDS Naturals, Sequences, FiniteSets, FiniteSetsExt

CONSTANTS
    Txs,          \* the source transactions
    None,         \* no transaction
    Subs,         \* 0 for the top-level transaction, 1 for a savepoint in it
    MaxOps,       \* bound: the changes of one transaction
    MaxWal,       \* bound: the last WAL position
    Schemas,      \* how many column layouts the table goes through
    Cols,         \* Cols[l]: the columns a row has in layout l
    AlterInside,  \* whether a transaction may change the columns between its rows
    Budget,       \* max_buf_bytes: a window ends at the first commit past it
    TxLimit,      \* APITAP_TX_BUF_BYTES
    Follow        \* whether a caught-up window is followed by another

DrainAssumption ==
    /\ None \notin Txs /\ Subs \subseteq {0, 1} /\ MaxOps \in Nat /\ MaxWal \in Nat /\ Schemas \in Nat \ {0}
    /\ Cols \in [1..Schemas -> Nat] /\ {AlterInside, Follow} \subseteq BOOLEAN
    /\ Budget \in Nat \ {0} /\ TxLimit \in Nat

VARIABLES
    wal, schema,  \* the source: its last WAL position, the current layout
    tx,           \* its transactions
    session,      \* whether a replication session is open
    sent,         \* the committed transactions this session has shipped, or starts behind
    streamed,     \* the transactions it has streamed a block of
    shipped,      \* per transaction, the changes decoded for streaming
    undone,       \* the StreamAborts it has sent
    decoded,      \* the WAL position of the last change or commit it shipped
    wire,         \* what it is in the middle of shipping
    announced,    \* the layout of the last Relation of the session
    inStream, txBuf, relayout, body, layout, start, end, stop,   \* drain's locals
    streams, streamBytes, carry,         \* DrainSession: they outlive a window
    watermark, applied                   \* the destination

source == <<wal, schema, tx>>
decoder == <<session, sent, streamed, shipped, undone, decoded, wire, announced>>
window == <<inStream, txBuf, relayout, body, layout, start, end, stop>>
buffers == <<streams, streamBytes, carry>>
dest == <<watermark, applied>>
vars == <<source, decoder, window, buffers, dest>>

Idle == [kind |-> "idle", x |-> None, next |-> 0]
NoCarry == [ops |-> <<>>, end |-> 0]
\* StreamOp: the i-th change of x, with its subtransaction and its row's layout.
Op(x, i) == [x |-> x, i |-> i, sub |-> tx[x].ops[i].sub, lay |-> tx[x].ops[i].lay]

TypeOK ==
    /\ wal \in 0..MaxWal /\ schema \in 1..Schemas
    /\ \A x \in Txs : tx[x].st \in {"open", "committed", "aborted"}
    /\ session \in BOOLEAN /\ sent \subseteq Txs
    /\ wire.kind \in {"idle", "tx", "block", "stop"}
    /\ inStream \in Txs \cup {None} /\ relayout \in BOOLEAN
    /\ start <= end \/ ~session
    /\ Len(txBuf) <= TxLimit /\ streamBytes <= TxLimit
    /\ watermark \in 0..MaxWal

Init ==
    /\ wal = 0 /\ schema = 1
    /\ tx = [x \in Txs |-> [st |-> "open", lsn |-> 0, ops |-> <<>>, rolled |-> FALSE]]
    /\ session = FALSE /\ sent = {} /\ streamed = {} /\ shipped = [x \in Txs |-> 0] /\ undone = {}
    /\ decoded = 0 /\ wire = Idle /\ announced = 0
    /\ inStream = None /\ txBuf = <<>> /\ relayout = FALSE /\ body = <<>> /\ layout = 0
    /\ start = 0 /\ end = 0 /\ stop = 0
    /\ streams = [x \in Txs |-> <<>>] /\ streamBytes = 0 /\ carry = NoCarry
    /\ watermark = 0 /\ applied = <<>>

-----------------------------------------------------------------------------
(* The source.                                                             *)

Change(x, s) ==
    /\ wal < MaxWal /\ tx[x].st = "open" /\ Len(tx[x].ops) < MaxOps
    /\ s = 1 => ~tx[x].rolled
    /\ wal' = wal + 1
    /\ tx' = [tx EXCEPT ![x].ops = Append(@, [sub |-> s, lay |-> schema, pos |-> wal'])]
    /\ UNCHANGED <<schema, decoder, window, buffers, dest>>

RollBack(x) ==
    /\ tx[x].st = "open" /\ ~tx[x].rolled
    /\ \E i \in DOMAIN tx[x].ops : tx[x].ops[i].sub = 1
    /\ tx' = [tx EXCEPT ![x].rolled = TRUE]
    /\ UNCHANGED <<wal, schema, decoder, window, buffers, dest>>

EndTx(x) ==
    /\ wal < MaxWal /\ tx[x].st = "open" /\ tx[x].ops # <<>>
    /\ wal' = wal + 1
    /\ \E st \in {"committed", "aborted"} :
           tx' = [tx EXCEPT ![x].st = st, ![x].lsn = wal']
    /\ UNCHANGED <<schema, decoder, window, buffers, dest>>

\* The ALTER's lock waits for every transaction that has written the table.
Alter ==
    /\ schema < Schemas
    /\ LET writers == {x \in Txs : tx[x].st = "open" /\ tx[x].ops # <<>>}
       IN  writers = {} \/ (AlterInside /\ Cardinality(writers) = 1)
    /\ schema' = schema + 1
    /\ UNCHANGED <<wal, tx, decoder, window, buffers, dest>>

-----------------------------------------------------------------------------
(* The walsender.                                                          *)

Committed == {x \in Txs : tx[x].st = "committed"}
Survives(x, i) == ~(tx[x].rolled /\ tx[x].ops[i].sub = 1)
Unsent == Committed \ sent
NextCommit == CHOOSE p \in {tx[x].lsn : x \in Unsent} :
                  \A q \in {tx[x].lsn : x \in Unsent} : p <= q
\* Everything up to here has been decoded: the position a keepalive carries.
Decoded == IF Unsent = {} THEN wal ELSE NextCommit - 1

\* The locals a call of drain starts with.
Locals(from) ==
    /\ inStream' = None /\ txBuf' = <<>> /\ relayout' = FALSE
    /\ body' = <<>> /\ layout' = 0 /\ start' = from /\ end' = from

\* A session starts at the watermark and is shipped whole whatever commits later;
\* the stop line is where the WAL ends now, or a member's watermark below it.
StartSession ==
    /\ ~session /\ session' = TRUE
    /\ sent' = {x \in Committed : tx[x].lsn <= watermark}
    /\ streamed' = {} /\ shipped' = [x \in Txs |-> 0] /\ undone' = {}
    /\ decoded' = watermark /\ wire' = Idle /\ announced' = 0
    /\ Locals(watermark) /\ stop' \in {watermark, wal}
    /\ streams' = [x \in Txs |-> <<>>] /\ streamBytes' = 0 /\ carry' = NoCarry
    /\ UNCHANGED <<source, dest>>

\* The connection dies, and the session's buffers with it.
SessionFails ==
    /\ session /\ session' = FALSE
    /\ UNCHANGED <<source, sent, streamed, shipped, undone, decoded, wire, announced, window,
                   buffers, dest>>

\* A rolled-back change the decoder learns of in time is not streamed.
DecoderSkips(x) ==
    /\ session /\ wire.kind = "idle" /\ shipped[x] < Len(tx[x].ops)
    /\ ~Survives(x, shipped[x] + 1)
    /\ shipped' = [shipped EXCEPT ![x] = @ + 1]
    /\ UNCHANGED <<source, session, sent, streamed, undone, decoded, wire, announced, window,
                   buffers, dest>>

-----------------------------------------------------------------------------
(* The drain's reading loop, one message at a time.  A carried transaction *)
(* is taken before anything is read.                                       *)

Reading == session /\ carry = NoCarry
NextOp == tx[wire.x].ops[wire.next]
Pending == wire.kind \in {"tx", "block"} /\ wire.next <= Len(tx[wire.x].ops)
NextToCommit(x) == x \in Unsent /\ tx[x].lsn = NextCommit

Begin(x) ==
    /\ Reading /\ wire.kind = "idle" /\ NextToCommit(x) /\ x \notin streamed
    /\ wire' = [kind |-> "tx", x |-> x, next |-> 1]
    /\ txBuf' = <<>>
    /\ UNCHANGED <<source, session, sent, streamed, shipped, undone, decoded, announced, inStream,
                   relayout, body, layout, start, end, stop, buffers, dest>>

StreamStart(x) ==
    /\ Reading /\ wire.kind = "idle" /\ x \notin sent
    /\ shipped[x] < Len(tx[x].ops)
    /\ LET op == tx[x].ops[shipped[x] + 1]
       IN  /\ op.pos <= Decoded /\ undone \cap {<<x, 0>>, <<x, op.sub>>} = {}
           /\ tx[x].st = "aborted" => tx[x].lsn > decoded
           /\ decoded' = Max({decoded, op.pos})
    /\ wire' = [kind |-> "block", x |-> x, next |-> shipped[x] + 1]
    /\ streamed' = streamed \cup {x}
    /\ inStream' = x
    /\ UNCHANGED <<source, session, sent, shipped, undone, announced, txBuf, relayout,
                   body, layout, start, end, stop, buffers, dest>>

\* A Relation that changes the layout of a table the window holds a body of.
Relation ==
    /\ Reading /\ Pending /\ NextOp.lay # announced
    /\ announced' = NextOp.lay
    /\ relayout' = (relayout \/ body # <<>>)
    /\ UNCHANGED <<source, session, sent, streamed, shipped, undone, decoded, wire, inStream,
                   txBuf, body, layout, start, end, stop, buffers, dest>>

Deliverable == Reading /\ Pending /\ NextOp.lay = announced

\* A row change outside a block; a rolled-back one is never shipped.
TxChange ==
    /\ Deliverable /\ wire.kind = "tx" /\ Len(txBuf) < TxLimit
    /\ wire' = [wire EXCEPT !.next = @ + 1]
    /\ txBuf' = IF Survives(wire.x, wire.next)
                THEN Append(txBuf, Op(wire.x, wire.next)) ELSE txBuf
    /\ UNCHANGED <<source, session, sent, streamed, shipped, undone, decoded, announced, inStream,
                   relayout, body, layout, start, end, stop, buffers, dest>>

\* A row change of a block carries the (sub)transaction that made it.  Outside a
\* block it would be read as a change of a transaction without a Begin.
StreamChange ==
    /\ Deliverable /\ wire.kind = "block" /\ streamBytes < TxLimit
    /\ shipped' = [shipped EXCEPT ![wire.x] = @ + 1]
    /\ IF inStream # None
       THEN /\ streams' = [streams EXCEPT ![inStream] = Append(@, Op(wire.x, wire.next))]
            /\ streamBytes' = streamBytes + 1 /\ UNCHANGED txBuf
       ELSE txBuf' = Append(txBuf, Op(wire.x, wire.next)) /\ UNCHANGED <<streams, streamBytes>>
    /\ wire' = [wire EXCEPT !.kind = "stop"]
    /\ UNCHANGED <<source, session, sent, streamed, undone, decoded, announced, inStream, relayout,
                   body, layout, start, end, stop, carry, dest>>

\* tx_too_big, streams_too_big: the drain refuses and the watermark is untouched.
TooBig ==
    /\ Deliverable
    /\ \/ wire.kind = "tx" /\ Len(txBuf) = TxLimit
       \/ wire.kind = "block" /\ streamBytes = TxLimit
    /\ session' = FALSE
    /\ UNCHANGED <<source, sent, streamed, shipped, undone, decoded, wire, announced, window,
                   buffers, dest>>

StreamStop ==
    /\ Reading /\ wire.kind = "stop"
    /\ wire' = Idle /\ inStream' = None
    /\ UNCHANGED <<source, session, sent, streamed, shipped, undone, decoded, announced, txBuf,
                   relayout, body, layout, start, end, stop, buffers, dest>>

\* What the decoder still has to undo of a streamed transaction.
ToUndo(x) ==
    {sub \in Subs : /\ x \in streamed /\ <<x, sub>> \notin undone
                    /\ IF sub = 0 THEN tx[x].st = "aborted" ELSE tx[x].rolled}

\* Any rollback takes the whole streamed transaction.
StreamAbortAll(x) ==
    /\ Reading /\ wire.kind = "idle"
    /\ \E sub \in ToUndo(x) : undone' = undone \cup {<<x, sub>>}
    /\ streams' = [streams EXCEPT ![x] = <<>>]
    /\ streamBytes' = streamBytes - Len(streams[x])
    /\ UNCHANGED <<source, session, sent, streamed, shipped, decoded, wire, announced, window,
                   carry, dest>>

\* The rollback of a savepoint takes what that subtransaction wrote, the rollback
\* of the transaction takes everything; the session's charge moves with it.
StreamAbort(x) ==
    /\ Reading /\ wire.kind = "idle"
    /\ \E sub \in ToUndo(x) :
        /\ undone' = undone \cup {<<x, sub>>}
        /\ streams' = [streams EXCEPT ![x] =
                          SelectSeq(@, LAMBDA o : sub # 0 /\ o.sub # sub)]
    /\ streamBytes' = streamBytes - (Len(streams[x]) - Len(streams'[x]))
    /\ UNCHANGED <<source, session, sent, streamed, shipped, decoded, wire, announced, window,
                   carry, dest>>

-----------------------------------------------------------------------------
(* Where a window ends.                                                    *)

\* TableWindow::seal looks at the number of columns of every row.
RowsFit(ops, lay) == \A k \in DOMAIN ops : Cols[ops[k].lay] = Cols[lay]
Under(ops, lay) == [k \in DOMAIN ops |-> [x |-> ops[k].x, i |-> ops[k].i,
                                          lay |-> ops[k].lay, under |-> lay]]

\* The window with these rows and this end is sealed and applied; its end is the
\* watermark and the next window begins there, in this session if there is more.
EndWindow(ops, lay, e, more) ==
    /\ \/ /\ RowsFit(ops, lay)
          /\ applied' = applied \o Under(ops, lay) /\ watermark' = e
          /\ session' = more
       \/ ~RowsFit(ops, lay) /\ session' = FALSE /\ UNCHANGED dest
    /\ Locals(e)
    /\ stop' \in IF Follow /\ more THEN {stop, wal} ELSE {stop}

\* flush_ops: the body's layout is the session's when its first row lands.
LayoutWith(ops) == IF body = <<>> /\ ops # <<>> THEN announced ELSE layout

\* One committed transaction lands in the window, which may end with it.
Land(ops, e, bytes) ==
    LET whole == body \o ops
    IN  \/ e >= stop /\ EndWindow(whole, LayoutWith(ops), e, Follow)
        \/ e < stop /\ Len(whole) + bytes >= Budget /\ EndWindow(whole, LayoutWith(ops), e, TRUE)
        \/ /\ e < stop /\ Len(whole) + bytes < Budget
           /\ body' = whole /\ layout' = LayoutWith(ops) /\ end' = e
           /\ txBuf' = <<>>
           /\ UNCHANGED <<session, inStream, relayout, start, stop, dest>>

\* A window never spans a layout change: the transaction opens the next one.
CarryOver(ops, e) ==
    /\ carry' = [ops |-> ops, end |-> e]
    /\ EndWindow(body, layout, end, TRUE)

TakeCarry ==
    /\ session /\ carry # NoCarry
    /\ Land(carry.ops, carry.end, streamBytes)
    /\ carry' = NoCarry
    /\ UNCHANGED <<source, sent, streamed, shipped, undone, decoded, wire, announced, streams,
                   streamBytes>>

Commit ==
    /\ Reading /\ wire.kind = "tx" /\ ~Pending
    /\ \/ relayout /\ CarryOver(txBuf, tx[wire.x].lsn)
       \/ ~relayout /\ Land(txBuf, tx[wire.x].lsn, streamBytes) /\ UNCHANGED carry
    /\ sent' = sent \cup {wire.x} /\ wire' = Idle /\ decoded' = tx[wire.x].lsn
    /\ UNCHANGED <<source, streamed, shipped, undone, announced, streams, streamBytes>>

StreamCommit(x) ==
    /\ Reading /\ wire.kind = "idle" /\ NextToCommit(x) /\ x \in streamed
    /\ shipped[x] = Len(tx[x].ops) /\ ToUndo(x) = {}
    /\ streams' = [streams EXCEPT ![x] = <<>>]
    /\ streamBytes' = streamBytes - Len(streams[x])
    /\ \/ relayout /\ CarryOver(streams[x], tx[x].lsn)
       \/ ~relayout /\ Land(streams[x], tx[x].lsn, streamBytes') /\ UNCHANGED carry
    /\ sent' = sent \cup {x} /\ decoded' = tx[x].lsn
    /\ UNCHANGED <<source, streamed, shipped, undone, wire, announced>>

\* Between transactions and between blocks.
AtBoundary == txBuf = <<>> /\ inStream = None

\* A keepalive past the stop line at a boundary: the window ends at the stop line.
CaughtUp ==
    /\ Reading /\ Decoded >= stop /\ AtBoundary
    /\ EndWindow(body, layout, IF stop > end THEN stop ELSE end, Follow)
    /\ UNCHANGED <<source, sent, streamed, shipped, undone, decoded, wire, announced, buffers>>

\* Following, a window below its floor stays open and the stop line moves on.
RollStop ==
    /\ Follow /\ Reading /\ Decoded >= stop /\ AtBoundary /\ wal > stop
    /\ stop' = wal
    /\ UNCHANGED <<source, decoder, inStream, txBuf, relayout, body, layout, start, end,
                   buffers, dest>>

\* The deadline or a SIGTERM, only between two transactions of the stream.
Deadline ==
    /\ Reading /\ AtBoundary
    /\ \E more \in BOOLEAN : EndWindow(body, layout, end, more)
    /\ UNCHANGED <<source, sent, streamed, shipped, undone, decoded, wire, announced, buffers>>

-----------------------------------------------------------------------------
Source ==
    \/ \E x \in Txs : (\E s \in Subs : Change(x, s)) \/ RollBack(x) \/ EndTx(x)
    \/ Alter

Deliver ==
    \/ \E x \in Txs : \/ Begin(x) \/ StreamStart(x) \/ StreamAbort(x) \/ StreamCommit(x)
                      \/ DecoderSkips(x)
    \/ TxChange \/ StreamChange \/ StreamStop \/ Relation \/ Commit \/ TooBig

Quiet == wal = MaxWal /\ UNCHANGED vars

Next ==
    \/ Source \/ StartSession \/ SessionFails \/ TakeCarry \/ Deliver
    \/ CaughtUp \/ RollStop \/ Deadline \/ Quiet

Spec == Init /\ [][Next]_vars

\* The server ships what it has decoded and answers with keepalives; the deadline
\* is an hour away and nothing has to fail.
FairSpec == Spec /\ WF_vars(Deliver) /\ WF_vars(TakeCarry) /\ WF_vars(CaughtUp)

-----------------------------------------------------------------------------
(* Properties.                                                             *)

Truth == {o \in {[x |-> x, i |-> i] : x \in Committed, i \in 1..MaxOps} :
              o.i <= Len(tx[o.x].ops) /\ Survives(o.x, o.i) /\ tx[o.x].lsn <= watermark}
Ident(o) == [x |-> o.x, i |-> o.i]

\* What has been applied is exactly the changes of the transactions that commit
\* up to the watermark: each surviving change once, none of a rolled-back
\* savepoint, none lost with a broken-off window, a carried transaction or a lost
\* session, and none of a transaction beyond the watermark.
AppliedUpToWatermark ==
    /\ {Ident(applied[k]) : k \in DOMAIN applied} = Truth
    /\ Len(applied) = Cardinality(Truth)

\* Changes are applied in commit order, and within a transaction as written.
CommitOrder ==
    \A k, l \in DOMAIN applied : k < l =>
        \/ tx[applied[k].x].lsn < tx[applied[l].x].lsn
        \/ applied[k].x = applied[l].x /\ applied[k].i < applied[l].i

\* No row is rendered under the columns of another layout (seal, window.rs).
RowsUnderTheirLayout == \A k \in DOMAIN applied : applied[k].lay = applied[k].under

\* The session's charge for streamed transactions is what it holds: a rollback
\* or a commit that kept some of it would make the budget end every window.
StreamsCharged ==
    streamBytes = FoldSet(LAMBDA x, n : n + Len(streams[x]), 0, Txs)

=============================================================================
