----------------------------- MODULE CopyPlane -----------------------------
(***************************************************************************)
(* One worker of a PostgreSQL bulk read: the byte stream of successive     *)
(* COPY ... TO STDOUT statements, cut into socket windows anywhere, walked *)
(* by the wire layer (walsender.rs) and decoded by one of five lanes       *)
(* (source/postgres.rs):                                                   *)
(*   "framed"  the Arrow builder walks the wire window in place;           *)
(*   "pieces"  payload pieces pushed into the Arrow builder;               *)
(*   "rb"      payload pieces through a Transcoder per span, to RowBinary; *)
(*   "tsv"     the same through a PgToMyTsv per span, to LOAD DATA text;   *)
(*   "strip"   one piece per message, the framing of each span stripped,   *)
(*             chunks pushed into the Parquet encoder.                     *)
(* A byte of a payload is [k, s, e, o]: byte o of element e of span s,     *)
(* where the element is the COPY header "H", a row "R" or the trailer "E"; *)
(* what a decoder reads off a byte is exactly that.  A message header is   *)
(* two bytes (five in the code), the COPY header and the trailer two, a    *)
(* row three.                                                              *)
(***************************************************************************)
EXTENDS Integers, Sequences, FiniteSetsExt

CONSTANTS
  Lanes,      \* the lanes to run
  Spans,      \* number of COPY statements the worker takes
  Tuples,     \* rows of each
  Layouts,    \* how a server may cut a span's bytes into messages
  Fates,      \* how the answer may end: "ok", "error", "closed"
  WindowCap,  \* most bytes one socket read brings
  Target,     \* piece size copy_out_next fills up to (256 KiB)
  Chunk,      \* bytes sent to a loader at once
  StK,        \* rows staged per micro-batch (ST_K)
  Bite,       \* first slice fed to a pending tail
  RowGroup    \* rows per Parquet row group

CopyPlaneAssumption ==
  /\ Spans \in Nat \ {0} /\ Tuples \in Nat /\ WindowCap \in Nat \ {0}
  /\ Target \in Nat \ {0} /\ Chunk \in Nat \ {0} /\ StK \in Nat \ {0}
  /\ Bite \in Nat \ {0} /\ RowGroup \in Nat \ {0}

VARIABLES
  lane,   \* PgReadMode, and whether the loader is framed_capable
  span,   \* spans taken so far
  wire,   \* the bytes the server answers the current COPY with
  fate,   \* how that answer ends
  lo, hi, \* wire[lo+1..hi] are read off the socket and not consumed
  pc,
  co,     \* copy_out_next's scan state: co_head, co_tag, co_left
  piece,  \* the payload piece being filled
  fr,     \* push_framed: pos in the window, fr_left, rows staged, left
  bld,    \* BatchBuilder: buf, in_span, rows
  tr,     \* Transcoder: buf, pos, header_done, finished, rows
  strip,  \* SpanStrip: header bytes seen, the two bytes held back
  out,    \* the worker's outgoing chunk
  enc,    \* ParquetEncoder: buf, pos, header_done, finished, group, file, keys
  bad     \* a decoder met bytes it cannot read

vars == <<lane, span, wire, fate, lo, hi, pc, co, piece, fr, bld, tr, strip,
          out, enc, bad>>

Hd == 2
Size(k) == IF k = "R" THEN 3 ELSE 2
Element(k, s, e) == [o \in 1..Size(k) |-> [k |-> k, s |-> s, e |-> e, o |-> o]]
Take(b, n) == SubSeq(b, 1, n)
Drop(b, n) == SubSeq(b, n + 1, Len(b))
-----------------------------------------------------------------------------
(* What the server sends. *)

RECURSIVE Rows(_, _)
Rows(s, n) == IF n = 0 THEN <<>> ELSE Rows(s, n - 1) \o Element("R", s, n)

Payload(s) == Element("H", s, 0) \o Rows(s, Tuples) \o Element("E", s, 0)

Message(t, body) ==
  [i \in 1..Hd |-> [t |-> t, n |-> Len(body), i |-> i]] \o body

Filler == <<[k |-> "x", s |-> 0, e |-> 0, o |-> 1]>>

\* The messages of a span: a layout entry is the payload length of one
\* CopyData, or -1 for a NoticeResponse in between.
RECURSIVE Data(_, _)
Data(layout, bytes) ==
  IF layout = <<>> THEN <<>>
  ELSE IF Head(layout) = -1 THEN Message("N", Filler) \o Data(Tail(layout), bytes)
  ELSE Message("d", Take(bytes, Head(layout)))
       \o Data(Tail(layout), Drop(bytes, Head(layout)))

Answer(s, layout, f, at) ==
  CASE f = "ok" -> Data(layout, Payload(s)) \o Message("c", <<>>)
                   \o Message("C", Filler) \o Message("Z", Filler)
    [] f = "error" -> Data(Take(layout, at), Payload(s))
                      \o Message("E", Filler) \o Message("Z", Filler)
    [] f = "closed" -> LET d == Data(Take(layout, at), Payload(s))
                       IN  Take(d, Len(d) - (at % 2))

-----------------------------------------------------------------------------
(* The decoders.  Each takes bytes cut anywhere and keeps its own tail. *)

\* A row read off the first bytes of b: its identity, or junk.
RowAt(b) ==
  IF \A i \in 1..3 : b[i].k = "R" /\ b[i].o = i /\ b[i].e = b[1].e /\ b[i].s = b[1].s
  THEN <<b[1].s, b[1].e>> ELSE <<0, 0>>

\* Does b begin with a whole tuple, or with the trailer?
Whole(b) == Len(b) >= 2 /\ (b[1].k = "E" \/ Len(b) >= 3)

\* try_tuple_at in a loop: every complete tuple of b, up to the trailer.
RECURSIVE TryTuples(_)
TryTuples(b) ==
  IF ~Whole(b) THEN [n |-> 0, rows |-> <<>>, fin |-> FALSE]
  ELSE IF b[1].k = "E" THEN [n |-> 2, rows |-> <<>>, fin |-> TRUE]
  ELSE LET r == TryTuples(Drop(b, 3))
       IN  [n |-> r.n + 3, rows |-> <<RowAt(b)>> \o r.rows, fin |-> r.fin]

NewTr == [buf |-> <<>>, pos |-> 0, done |-> FALSE, fin |-> FALSE, rows |-> <<>>]

\* A buffer consumed to its end is cleared, so that the fast path is reachable.
Compact(t) == IF t.pos > 0 /\ t.pos = Len(t.buf) THEN [t EXCEPT !.buf = <<>>, !.pos = 0]
              ELSE t

\* The fast path: nothing pending, tuples straight from the input, only the
\* partial tail kept.
TrFast(t, inp) ==
  IF t.fin THEN t
  ELSE LET r == TryTuples(inp)
       IN  [t EXCEPT !.rows = @ \o r.rows, !.fin = r.fin,
                     !.buf = IF r.fin THEN @ ELSE @ \o Drop(inp, r.n)]

\* A pending header or partial tuple is fed doubling slices until it parses
\* through, then the rest takes the fast path.
RECURSIVE TrFeed(_, _, _)
TrFeed(t, inp, step) ==
  IF inp = <<>> \/ (t.done /\ t.buf = <<>>) THEN TrFast(t, inp)
  ELSE LET n == Min({step, Len(inp)})
           u == [t EXCEPT !.buf = @ \o Take(inp, n)]
           h == IF ~u.done /\ Len(u.buf) - u.pos >= 2
                THEN [u EXCEPT !.done = TRUE, !.pos = @ + 2] ELSE u
           r == TryTuples(Drop(h.buf, h.pos))
           v == [h EXCEPT !.pos = @ + r.n, !.rows = @ \o r.rows, !.fin = r.fin]
       IN  IF ~h.done THEN TrFeed(u, Drop(inp, n), 2 * step)
           ELSE IF v.fin THEN v
           ELSE TrFeed(Compact(v), Drop(inp, n), 2 * step)

TranscoderPush(t, inp) == TrFeed(Compact(t), inp, Bite)

\* PgToMyTsv::push keeps its tail exactly as the Transcoder does.
TsvPush(t, inp) == TrFeed(Compact(t), inp, Bite)

\* stage_tuples: a tuple that turns out incomplete is simply not staged.
StageTuples(data) == TryTuples(data)

\* BatchBuilder::walk: headers, tuples and trailers in sequence.
RECURSIVE Walk(_, _)
Walk(data, in) ==
  IF ~in THEN IF Len(data) < 2 THEN [n |-> 0, in |-> in, rows |-> <<>>, bad |-> FALSE]
              ELSE IF data[1].k # "H"
                   THEN [n |-> 0, in |-> in, rows |-> <<>>, bad |-> TRUE]
              ELSE LET r == Walk(Drop(data, 2), TRUE) IN [r EXCEPT !.n = @ + 2]
  ELSE LET t == StageTuples(data)
       IN  IF ~t.fin THEN [n |-> t.n, in |-> in, rows |-> t.rows, bad |-> FALSE]
           ELSE LET r == Walk(Drop(data, t.n), FALSE)
                IN  [r EXCEPT !.n = @ + t.n, !.rows = t.rows \o @]

Walked(b, data, rest) ==
  LET r == Walk(data, b.in)
  IN  [b EXCEPT !.in = r.in, !.rows = @ \o r.rows, !.bad = r.bad,
                !.buf = Drop(data, r.n) \o rest]

\* BatchBuilder::push: a tail in buf is topped up in doubling bites until it
\* completes, the rest of the chunk is walked in place.
RECURSIVE BuilderPush(_, _, _)
BuilderPush(b, chunk, bite) ==
  IF chunk = <<>> THEN b
  ELSE IF b.buf = <<>> THEN Walked(b, chunk, <<>>)
  ELSE LET n == Min({bite, Len(chunk)})
       IN  BuilderPush(Walked(b, b.buf \o Take(chunk, n), <<>>), Drop(chunk, n), 2 * bite)

\* SpanStrip::push: the header swallowed, two bytes held back.
StripPush(s, b0) ==
  LET h == Min({2 - s.hdr, Len(b0)})
      b == Drop(b0, h)
      held == s.pend \o b
      keep == Min({2, Len(held)})
  IN  [hdr |-> s.hdr + h, pend |-> Drop(held, Len(held) - keep),
       emit |-> Take(held, Len(held) - keep)]

StripFinished(s) == s.hdr = 2 /\ Len(s.pend) = 2 /\ s.pend[1].k = "E" /\ s.pend[2].k = "E"

\* flush_row_group: the data file and the key companion take the same rows.
FlushRowGroup(e) == [e EXCEPT !.file = @ \o e.group, !.keys = @ \o e.group, !.group = <<>>]

RECURSIVE EncRows(_, _)
EncRows(e, rows) ==
  IF rows = <<>> THEN e
  ELSE LET g == [e EXCEPT !.group = Append(@, Head(rows))]
       IN  EncRows(IF Len(g.group) >= RowGroup THEN FlushRowGroup(g) ELSE g, Tail(rows))

\* ParquetEncoder::try_tuple: the bounds walk before anything is decoded.
EncTuples(b) == TryTuples(b)

\* ParquetEncoder::push: append, then decode; bytes past the trailer refuse.
EncoderPush(e0, inp) ==
  LET e == LET c == Compact(e0) IN [c EXCEPT !.buf = @ \o inp]
      h == IF ~e.done /\ Len(e.buf) - e.pos >= 2
           THEN [e EXCEPT !.done = TRUE, !.pos = @ + 2] ELSE e
      r == IF h.fin THEN [n |-> 0, rows |-> <<>>, fin |-> TRUE]
           ELSE EncTuples(Drop(h.buf, h.pos))
      v == EncRows([h EXCEPT !.pos = @ + r.n, !.fin = r.fin], r.rows)
  IN  IF ~h.done THEN h
      ELSE [v EXCEPT !.bad = v.fin /\ v.pos < Len(v.buf)]

\* finish_file: the last row group, then the footer.
FinishFile(e) == FlushRowGroup(e)

-----------------------------------------------------------------------------
NewCo == [head |-> 0, tag |-> "none", left |-> 0]
NewFr == [pos |-> 0, left |-> 0, staged |-> <<>>, straddle |-> 0, ret |-> "framed"]
NewStrip == [hdr |-> 0, pend |-> <<>>]

\* The header and the trailer the worker puts around all of its spans.
Header == Element("H", 0, 0)
Trailer == Element("E", 0, 0)

Init ==
  /\ lane \in Lanes
  /\ span = 0 /\ wire = <<>> /\ fate = "ok" /\ lo = 0 /\ hi = 0
  /\ pc = "next"
  /\ co = NewCo /\ piece = <<>> /\ fr = NewFr
  /\ bld = [buf |-> <<>>, in |-> FALSE, rows |-> <<>>, bad |-> FALSE]
  /\ tr = NewTr /\ strip = NewStrip
  /\ out = IF lane = "strip" THEN Header ELSE <<>>
  /\ enc = [buf |-> <<>>, pos |-> 0, done |-> FALSE, fin |-> FALSE, bad |-> FALSE,
            group |-> <<>>, file |-> <<>>, keys |-> <<>>]
  /\ bad = FALSE

\* The worker takes the next span and sends its COPY (copy_out_start resets
\* the scan state and reads up to the CopyOutResponse).
NextSpan ==
  /\ pc = "next" /\ span < Spans
  /\ span' = span + 1
  /\ \E l \in Layouts, f \in Fates : \E at \in (IF f = "ok" THEN {0} ELSE 1..Len(l)) :
       wire' = Answer(span + 1, l, f, at) /\ fate' = f
  /\ lo' = 0 /\ hi' = 0
  /\ co' = NewCo /\ piece' = <<>>
  /\ tr' = [NewTr EXCEPT !.rows = tr.rows] /\ strip' = NewStrip
  /\ pc' = CASE lane = "framed" -> "framed" [] lane = "strip" -> "sqlx" [] OTHER -> "scan"
  /\ UNCHANGED <<lane, fr, bld, out, enc, bad>>

\* One socket read, of any size; nothing left on a closed stream is an error.
Read ==
  \/ hi < Len(wire) /\ hi' \in (hi + 1)..Min({hi + WindowCap, Len(wire)}) /\ UNCHANGED pc
  \/ hi = Len(wire) /\ UNCHANGED hi /\ pc' = "failed"

Fail == pc' = "failed"

-----------------------------------------------------------------------------
(* copy_out_next over fill_buf windows. *)

FillBuf == /\ pc = "scan" /\ lo = hi /\ Read
           /\ UNCHANGED <<lane, span, wire, fate, lo, co, piece, fr, bld, tr, strip, out, enc, bad>>

\* A run of payload, bounded by the window.
ScanPayload ==
  /\ pc = "scan" /\ lo < hi /\ co.left > 0
  /\ LET n == Min({hi - lo, co.left})
         p == IF co.tag = "d" THEN piece \o SubSeq(wire, lo + 1, lo + n) ELSE piece
         whole == n = co.left
     IN /\ lo' = lo + n /\ co' = [co EXCEPT !.left = @ - n] /\ piece' = p
        /\ pc' = CASE whole /\ co.tag = "Z" -> "eof"
                   [] whole /\ co.tag = "E" -> "drain"
                   [] whole /\ co.tag = "d" /\ Len(p) >= Target -> "push"
                   [] lo + n = hi /\ Len(p) >= Target -> "push"
                   [] OTHER -> "scan"
  /\ UNCHANGED <<lane, span, wire, fate, hi, fr, bld, tr, strip, out, enc, bad>>

\* A message header, which may arrive in two windows (co_head_len).
ScanHeader ==
  /\ pc = "scan" /\ lo < hi /\ co.left = 0
  /\ LET n == Min({hi - lo, Hd - co.head})
         h == wire[lo + n]
     IN /\ lo' = lo + n
        /\ co' = IF co.head + n < Hd THEN [co EXCEPT !.head = @ + n]
                 ELSE [head |-> 0, tag |-> h.t, left |-> h.n]
        /\ pc' = CASE co.head + n = Hd /\ h.n = 0 /\ h.t = "Z" -> "eof"
                   [] co.head + n = Hd /\ h.n = 0 /\ h.t = "E" -> "drain"
                   [] lo + n = hi /\ Len(piece) >= Target -> "push"
                   [] OTHER -> "scan"
  /\ UNCHANGED <<lane, span, wire, fate, hi, piece, fr, bld, tr, strip, out, enc, bad>>

\* A filled piece goes to the lane's decoder; so does the last one, after
\* which copy_out_next returns false and the span is over.
PushPiece ==
  /\ pc \in {"push", "eof"}
  /\ bld' = IF lane = "pieces" THEN BuilderPush(bld, piece, Bite) ELSE bld
  /\ tr' = CASE lane = "rb" -> TranscoderPush(tr, piece)
             [] lane = "tsv" -> TsvPush(tr, piece)
             [] OTHER -> tr
  /\ bad' = (bad \/ bld'.bad)
  /\ piece' = <<>>
  /\ pc' = IF bld'.bad THEN "failed" ELSE IF pc = "push" THEN "scan" ELSE "spanend"
  /\ UNCHANGED <<lane, span, wire, fate, lo, hi, co, fr, strip, out, enc>>

\* A server error: the conversation is read up to ReadyForQuery and the
\* worker returns the error.
Drain ==
  /\ pc = "drain"
  /\ lo' = Len(wire) /\ hi' = Len(wire) /\ Fail
  /\ UNCHANGED <<lane, span, wire, fate, co, piece, fr, bld, tr, strip, out, enc, bad>>

-----------------------------------------------------------------------------
(* The framed lane: push_framed and stage_framed on the owned window. *)

Win == hi - lo
At(off) == wire[lo + off + 1]
PayloadEnd == Min({fr.pos + fr.left, Win})

\* decode_staged reads the staged offsets out of the window they point into.
Decode(st) == [i \in 1..Len(st) |-> RowAt(SubSeq(wire, lo + st[i] + 1, lo + st[i] + 3))]

\* Mutant: the window advances past rows that were staged and not decoded.
LeaveStaged == /\ bld' = bld
               /\ lo' = lo + fr.pos

\* push_framed returns: staged rows are decoded, the window advances.
Leave == /\ bld' = [bld EXCEPT !.rows = @ \o Decode(fr.staged)]
         /\ lo' = lo + fr.pos

Need == IF fr.left = 0 THEN Hd
        ELSE IF ~bld.in THEN 2
        ELSE IF PayloadEnd - fr.pos >= 2 /\ At(fr.pos).k = "E" THEN 2
        ELSE 3

Short == IF fr.left = 0 THEN Win - fr.pos < Hd ELSE PayloadEnd - fr.pos < Need

\* The element runs past the window: advance, refill (append), call again.
FramedNeedMore ==
  /\ pc = "framed" /\ Short /\ (fr.left = 0 \/ fr.pos + fr.left > Win)
  /\ Leave /\ fr' = [fr EXCEPT !.pos = 0, !.staged = <<>>]
  /\ Read
  /\ UNCHANGED <<lane, span, wire, fate, co, piece, tr, strip, out, enc, bad>>

\* A CopyData header is hopped inline.
FramedHop ==
  /\ pc = "framed" /\ ~Short /\ fr.left = 0 /\ At(fr.pos).t = "d"
  /\ fr' = [fr EXCEPT !.pos = @ + Hd, !.left = At(fr.pos).n]
  /\ UNCHANGED <<lane, span, wire, fate, lo, hi, pc, co, piece, bld, tr, strip, out, enc, bad>>

\* Any other message is for co_control.
FramedControl ==
  /\ pc = "framed" /\ ~Short /\ fr.left = 0 /\ At(fr.pos).t # "d"
  /\ Leave /\ fr' = [fr EXCEPT !.pos = 0, !.staged = <<>>, !.ret = "framed"]
  /\ pc' = "control"
  /\ UNCHANGED <<lane, span, wire, fate, hi, co, piece, tr, strip, out, enc, bad>>

FramedSpanHeader ==
  /\ pc = "framed" /\ ~Short /\ fr.left > 0 /\ ~bld.in
  /\ bad' = (At(fr.pos).k # "H")
  /\ pc' = IF bad' THEN "failed" ELSE pc
  /\ fr' = [fr EXCEPT !.pos = @ + 2, !.left = @ - 2]
  /\ bld' = [bld EXCEPT !.in = TRUE]
  /\ UNCHANGED <<lane, span, wire, fate, lo, hi, co, piece, tr, strip, out, enc>>

\* A tuple is staged by its offset; a full micro-batch is decoded.
FramedTuple ==
  /\ pc = "framed" /\ ~Short /\ fr.left > 0 /\ bld.in /\ At(fr.pos).k # "E"
  /\ LET st == Append(fr.staged, fr.pos)
         full == Len(st) = StK
     IN /\ fr' = [fr EXCEPT !.pos = @ + 3, !.left = @ - 3, !.staged = IF full THEN <<>> ELSE st]
        /\ bld' = IF full THEN [bld EXCEPT !.rows = @ \o Decode(st)] ELSE bld
  /\ UNCHANGED <<lane, span, wire, fate, lo, hi, pc, co, piece, tr, strip, out, enc, bad>>

FramedTrailer ==
  /\ pc = "framed" /\ ~Short /\ fr.left > 0 /\ bld.in /\ At(fr.pos).k = "E"
  /\ bld' = [bld EXCEPT !.rows = @ \o Decode(fr.staged), !.in = FALSE]
  /\ fr' = [fr EXCEPT !.pos = @ + 2, !.left = @ - 2, !.staged = <<>>]
  /\ UNCHANGED <<lane, span, wire, fate, lo, hi, pc, co, piece, tr, strip, out, enc, bad>>

\* The element crosses into the next message: the rest of this stream's
\* payload goes through the copying plane.
FramedStraddle ==
  /\ pc = "framed" /\ Short /\ fr.left > 0 /\ fr.pos + fr.left <= Win
  /\ Leave
  /\ fr' = [fr EXCEPT !.pos = 0, !.staged = <<>>, !.left = 0, !.straddle = fr.left]
  /\ pc' = "straddle"
  /\ UNCHANGED <<lane, span, wire, fate, hi, co, piece, tr, strip, out, enc, bad>>

StraddleRefill ==
  /\ pc = "straddle"
  /\ Win < IF fr.straddle > 0 THEN 1 ELSE Hd
  /\ Read
  /\ UNCHANGED <<lane, span, wire, fate, lo, co, piece, fr, bld, tr, strip, out, enc, bad>>

StraddleSend ==
  /\ pc = "straddle" /\ fr.straddle > 0 /\ Win > 0
  /\ LET n == Min({Win, fr.straddle})
     IN /\ bld' = BuilderPush(bld, SubSeq(wire, lo + 1, lo + n), Bite)
        /\ lo' = lo + n /\ fr' = [fr EXCEPT !.straddle = @ - n]
  /\ bad' = bld'.bad /\ pc' = IF bld'.bad THEN "failed" ELSE pc
  /\ UNCHANGED <<lane, span, wire, fate, hi, co, piece, tr, strip, out, enc>>

StraddleHeader ==
  /\ pc = "straddle" /\ fr.straddle = 0 /\ Win >= Hd
  /\ \/ /\ At(0).t = "d" /\ lo' = lo + Hd /\ fr' = [fr EXCEPT !.straddle = At(0).n] /\ UNCHANGED pc
     \/ /\ At(0).t # "d" /\ pc' = "control" /\ fr' = [fr EXCEPT !.ret = "straddle"] /\ UNCHANGED lo
  /\ UNCHANGED <<lane, span, wire, fate, hi, co, piece, bld, tr, strip, out, enc, bad>>

\* co_control: one whole control message at the head of the window.
ControlRefill ==
  /\ pc = "control" /\ (Win < Hd \/ Win < Hd + At(0).n)
  /\ Read
  /\ UNCHANGED <<lane, span, wire, fate, lo, co, piece, fr, bld, tr, strip, out, enc, bad>>

Control ==
  /\ pc = "control" /\ Win >= Hd /\ Win >= Hd + At(0).n
  /\ lo' = lo + Hd + At(0).n
  /\ pc' = CASE At(0).t = "Z" -> "spanend" [] At(0).t = "E" -> "drain" [] OTHER -> fr.ret
  /\ UNCHANGED <<lane, span, wire, fate, hi, co, piece, fr, bld, tr, strip, out, enc, bad>>

-----------------------------------------------------------------------------
(* The driver's own COPY plane yields one piece per CopyData message. *)

SqlxPiece ==
  /\ pc = "sqlx" /\ lo < Len(wire)
  /\ LET h == wire[lo + 1]
         end == lo + Hd + h.n
         whole == end <= Len(wire)
         s == StripPush(strip, SubSeq(wire, lo + Hd + 1, end))
         o == out \o s.emit
     IN /\ lo' = IF whole THEN end ELSE Len(wire)
        /\ hi' = lo'
        /\ IF whole /\ h.t = "d"
           THEN /\ strip' = [hdr |-> s.hdr, pend |-> s.pend]
                /\ IF Len(o) >= Chunk THEN out' = <<>> /\ enc' = EncoderPush(enc, o)
                                      ELSE out' = o /\ UNCHANGED enc
           ELSE UNCHANGED <<strip, out, enc>>
        /\ bad' = enc'.bad
        /\ pc' = CASE ~whole \/ h.t = "E" \/ enc'.bad -> "failed"
                   [] h.t = "Z" -> "spanend"
                   [] OTHER -> "sqlx"
  /\ UNCHANGED <<lane, span, wire, fate, co, piece, fr, bld, tr>>

SqlxClosed ==
  /\ pc = "sqlx" /\ lo = Len(wire) /\ Fail
  /\ UNCHANGED <<lane, span, wire, fate, lo, hi, co, piece, fr, bld, tr, strip, out, enc, bad>>

-----------------------------------------------------------------------------
\* state.finished(): a span that did not end on its trailer is an error.
SpanFinished == CASE lane \in {"rb", "tsv"} -> tr.fin [] lane = "strip" -> StripFinished(strip)
                  [] OTHER -> TRUE

SpanEnd ==
  /\ pc = "spanend"
  /\ pc' = IF SpanFinished THEN "next" ELSE "failed"
  /\ UNCHANGED <<lane, span, wire, fate, lo, hi, co, piece, fr, bld, tr, strip, out, enc, bad>>

\* No span left: the trailer and the last chunk go out, the loader finishes.
Finish ==
  /\ pc = "next" /\ span = Spans
  /\ IF lane = "strip"
     THEN LET e == EncoderPush(enc, out \o Trailer)
          IN  enc' = FinishFile(e) /\ out' = <<>>
     ELSE UNCHANGED <<enc, out>>
  /\ bad' = enc'.bad
  /\ pc' = IF enc'.bad \/ (lane \in {"framed", "pieces"} /\ (bld.in \/ bld.buf # <<>>))
           THEN "failed" ELSE "done"
  /\ UNCHANGED <<lane, span, wire, fate, lo, hi, co, piece, fr, bld, tr, strip>>

Ended == pc \in {"done", "failed"} /\ UNCHANGED vars

Next ==
  \/ NextSpan \/ FillBuf \/ ScanPayload \/ ScanHeader \/ PushPiece \/ Drain
  \/ FramedNeedMore \/ FramedHop \/ FramedControl \/ FramedSpanHeader
  \/ FramedTuple \/ FramedTrailer \/ FramedStraddle
  \/ StraddleRefill \/ StraddleSend \/ StraddleHeader
  \/ ControlRefill \/ Control
  \/ SqlxPiece \/ SqlxClosed \/ SpanEnd \/ Finish \/ Ended

Spec == Init /\ [][Next]_vars /\ WF_vars(Next)

-----------------------------------------------------------------------------
RECURSIVE UpTo(_)
UpTo(s) == IF s = 0 THEN <<>> ELSE UpTo(s - 1) \o [e \in 1..Tuples |-> <<s, e>>]

\* The rows the lane has handed on so far.
Delivered == CASE lane \in {"rb", "tsv"} -> tr.rows
               [] lane = "strip" -> enc.file \o enc.group
               [] OTHER -> bld.rows

\* However the stream is cut into windows, messages and pieces, a decoder
\* hands on the source's rows in order, none twice, none invented (arrowcol.rs
\* push and push_framed, rowbinary.rs push, pgcopy.rs SpanStrip, bqparquet.rs
\* push).
RowsInOrder ==
  /\ Len(Delivered) <= Spans * Tuples
  /\ Delivered = SubSeq(UpTo(Spans), 1, Len(Delivered))

\* A worker that reports success has handed on every row of every span, and
\* the Parquet key companion holds the data file's rows (copy_out_worker,
\* BatchBuilder::finish, finish_file): an answer that broke off never passes.
SuccessIsWhole ==
  pc = "done" =>
    /\ Delivered = UpTo(Spans)
    /\ lane = "strip" => enc.file = UpTo(Spans) /\ enc.keys = enc.file

\* A whole answer is never refused, wherever the windows fall: only a server
\* error or a closed connection fails the worker.
WholeNeverRefused == pc = "failed" => fate # "ok"

\* Every read ends: an element larger than a window still makes progress
\* (co_refill's zero-progress guarantee).
Ends == <>(pc \in {"done", "failed"})
============================================================================
