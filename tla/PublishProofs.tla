--------------------------- MODULE PublishProofs ---------------------------
(***************************************************************************)
(* Proofs about what a bulk load is planned with and what it publishes:    *)
(* the spans and prices (Planning), the worker crew (Crew), the commits of *)
(* the Iceberg sink (IceCommit), and the BigQuery loader (BqUpload).       *)
(***************************************************************************)
EXTENDS Planning, Crew, IceCommit, BqUpload, SequenceTheorems, FiniteSetTheorems, FunctionTheorems, TLAPS

-----------------------------------------------------------------------------
(* The crew, for any number of workers and spans.                           *)

\* The spans in the messages of a channel, and all a worker has.
InChan(w) == {s \in Spans : \E i \in 1..Len(chan[w]) : s \in chan[w][i].buf}
Has(w) == cur[w] \cup out[w] \cup InChan(w) \cup copy[w]

\* Every span is in one place: not taken, or with one worker and its loader.
Conserved ==
    /\ \A s \in Spans : s \in queue \/ \E w \in Workers : s \in Has(w)
    /\ \A w \in Workers : queue \cap Has(w) = {}
    /\ \A v, w \in Workers : v # w => Has(v) \cap Has(w) = {}

\* What is staged was committed by a task that has ended, once.
Staged ==
    /\ \A s \in Spans : staging[s] \in {0, 1}
    /\ \A s \in Spans : staging[s] = 1 => \E w \in Workers : TaskEnded(w) /\ s \in copy[w]
    /\ load # "failed" =>
          \A w \in Workers : task[w] = "committed" => \A s \in copy[w] : staging[s] = 1

\* Nothing follows the mark that ends a stream, and only a worker past its body sends it.
Marks(w) ==
    /\ \A i \in 1..Len(chan[w]) : chan[w][i].finish => i = Len(chan[w])
    /\ pc[w] \in InBody \cup {"none", "bodyOk", "finish"} =>
          \A i \in 1..Len(chan[w]) : ~chan[w][i].finish
    /\ task[w] = "committed" => chan[w] = <<>>

\* A worker that has left its body well has sent all it read, and nobody has more to read.
Body(w) ==
    /\ pc[w] \in {"none", "loop", "send", "flush", "bodyOk", "finish", "await"} => cur[w] = {}
    /\ pc[w] \in {"none", "bodyOk", "finish", "await"} => out[w] = {}
    /\ pc[w] = "none" => chan[w] = <<>> /\ copy[w] = {}
    /\ pc[w] \in {"flush", "bodyOk", "finish", "await"} => queue = {}
    /\ outcome[w] = "done" =>
          cur[w] = {} /\ out[w] = {} /\ queue = {} /\ task[w] = "committed"

\* Whoever has let go of a sender task has seen it end, unless it was lost.
Tasks(w) ==
    /\ outcome[w] # "none" <=> pc[w] = "out"
    /\ pc[w] # "none" => task[w] # "none"
    /\ load \in {"open", "unopen"} => pc[w] = "none"
    /\ load = "crew" => task[w] # "none"
    /\ pc[w] \in {"joining", "finishError"} => TaskEnded(w)
    /\ task[w] # "none" /\ ~handle[w] => TaskEnded(w) \/ outcome[w] = "joinError"
    /\ outcome[w] \in {"done", "cause", "cancelled"} => TaskEnded(w)

\* What the join loop has noted of the workers it has collected.
Joins ==
    /\ \A w \in joined :
          /\ outcome[w] # "none"
          /\ outcome[w] = "cause" => cause
          /\ outcome[w] = "cancelled" => sawCancel
          /\ outcome[w] = "joinError" => cause \/ lost
    /\ load \in {"finalize", "ok"} => joined = Workers /\ ~cause /\ ~lost /\ ~sawCancel

\* The latch was claimed by one worker, which reports its error or is lost.
Claimant(w) == first[w] \/ outcome[w] = "cause"
Latch ==
    /\ latch => \E w \in Workers :
          \/ first[w] /\ pc[w] \in {"abort", "aborting"}
          \/ outcome[w] \in {"cause", "joinError"}
    /\ \A w \in Workers :
          /\ pc[w] \in {"abort", "aborting"} \/ Claimant(w) \/ outcome[w] = "cancelled" => latch
          /\ first[w] => pc[w] \in {"abort", "aborting", "out"}
    /\ sawCancel => latch
    /\ \A v, w \in Workers : Claimant(v) /\ Claimant(w) => v = w

IInv ==
    /\ TypeOK /\ Conserved /\ Staged /\ Joins /\ Latch /\ SpansOnce /\ QuietAfterJoin
    /\ \A w \in Workers : Marks(w) /\ Body(w) /\ Tasks(w)

\* What a message holds.
LEMMA MsgFields ==
    ASSUME NEW m \in Msg
    PROVE  m.buf \in SUBSET Spans /\ (m.finish => m.buf = {})
<1>1. CASE m = FinishMark
  BY <1>1 DEF FinishMark
<1>2. ASSUME NEW b \in SUBSET Spans, m = Buf(b)
      PROVE  m.buf \in SUBSET Spans /\ (m.finish => m.buf = {})
  BY <1>2 DEF Buf
<1> QED
  BY <1>1, <1>2 DEF Msg

\* Taking the head of a channel, and appending to it.
LEMMA ChanTail ==
    ASSUME NEW c \in Seq(Msg), c # <<>>
    PROVE  /\ Tail(c) \in Seq(Msg) /\ Len(Tail(c)) = Len(c) - 1 /\ Head(c) = c[1]
           /\ Len(c) \in Nat \ {0}
           /\ \A i \in 1..Len(Tail(c)) : Tail(c)[i] = c[i + 1]
  BY HeadTailProperties

LEMMA ChanAppend ==
    ASSUME NEW c \in Seq(Msg), NEW m \in Msg
    PROVE  /\ Append(c, m) \in Seq(Msg) /\ Len(Append(c, m)) = Len(c) + 1 /\ Len(c) \in Nat
           /\ \A i \in 1..Len(c) : Append(c, m)[i] = c[i]
           /\ Append(c, m)[Len(c) + 1] = m
  BY AppendProperties

LEMMA CommittedType ==
    ASSUME TypeOK, NEW w \in Workers PROVE Committed(w) \in [Spans -> Nat]
  BY DEF Committed, TypeOK


LEMMA TypeInit == CrewAssumption /\ Init => TypeOK
<1> SUFFICES ASSUME CrewAssumption, Init PROVE TypeOK
  OBVIOUS
<1>1. <<>> \in Seq(Msg) /\ Len(<<>>) = 0
  OBVIOUS
<1>2. chan \in [Workers -> Seq(Msg)] /\ \A w \in Workers : Len(chan[w]) <= Slots
  BY <1>1 DEF Init, CrewAssumption
<1> QED
  BY <1>2 DEF Init, TypeOK, Nothing, InBody

\* Every step keeps the types.
LEMMA TypeStep ==
    ASSUME CrewAssumption, TypeOK, [Next]_vars
    PROVE  TypeOK'
<1>1. ASSUME NEW w \in Workers, OpenLoader(w) PROVE TypeOK'
  BY <1>1 DEF OpenLoader, worker, joins, TypeOK, InBody
<1>2. ASSUME NEW w \in Workers, AbortOpened(w) PROVE TypeOK'
  BY <1>2 DEF AbortOpened, worker, sender, joins, TypeOK, InBody
<1>3. ASSUME NEW w \in Workers, AbortedOpened(w) PROVE TypeOK'
  BY <1>3 DEF AbortedOpened, worker, sender, joins, TypeOK, InBody
<1>4. ASSUME NEW w \in Workers, TakeSpan(w) PROVE TypeOK'
  <2>1. UNCHANGED <<load, latch, out, first, outcome, loader, sender, joins, target>>
    BY <1>4 DEF TakeSpan
  <2>2. queue' \subseteq Spans /\ cur' \in [Workers -> SUBSET Spans]
    <3>1. CASE UNCHANGED <<queue, cur>>
      BY <3>1 DEF TypeOK
    <3>2. ASSUME NEW s \in queue, queue' = queue \ {s}, cur' = [cur EXCEPT ![w] = {s}]
          PROVE  queue' \subseteq Spans /\ cur' \in [Workers -> SUBSET Spans]
      BY <3>2 DEF TypeOK
    <3> QED
      BY <1>4, <3>1, <3>2 DEF TakeSpan
  <2>3. pc' \in [Workers -> InBody \cup {"none", "bodyOk", "finish", "await",
               "error", "finishError", "abort", "aborting", "out"}]
    <3>1. \E p \in {"error", "flush", "read"} : pc' = [pc EXCEPT ![w] = p]
      BY <1>4 DEF TakeSpan
    <3> QED
      BY <3>1 DEF TypeOK, InBody
  <2> QED
    BY <2>1, <2>2, <2>3 DEF TypeOK, loader, sender, joins
<1>5. ASSUME NEW w \in Workers, ReadSpan(w) PROVE TypeOK'
  BY <1>5 DEF ReadSpan, loader, sender, joins, TypeOK, InBody
<1>6. ASSUME NEW w \in Workers, BodyFails(w) PROVE TypeOK'
  BY <1>6 DEF BodyFails, loader, sender, joins, TypeOK, InBody
<1>7. ASSUME NEW w \in Workers, NothingToFlush(w) PROVE TypeOK'
  BY <1>7 DEF NothingToFlush, loader, sender, joins, TypeOK, InBody
<1>8. ASSUME NEW w \in Workers, Send(w) PROVE TypeOK'
  <2>1. chan' \in [Workers -> Seq(Msg)] /\ \A v \in Workers : Len(chan'[v]) <= Slots
    <3>1. CASE UNCHANGED chan
      BY <3>1 DEF TypeOK
    <3>2. CASE /\ Len(chan[w]) < Slots
               /\ chan' = [chan EXCEPT ![w] = Append(@, Buf(out[w]))]
      <4>1. Buf(out[w]) \in Msg /\ chan[w] \in Seq(Msg) /\ Slots \in Nat
        BY CrewAssumption DEF TypeOK, Buf, Msg, CrewAssumption
      <4>2. Append(chan[w], Buf(out[w])) \in Seq(Msg) /\ Len(Append(chan[w], Buf(out[w]))) <= Slots
        BY <3>2, <4>1, ChanAppend
      <4> QED
        BY <3>2, <4>2 DEF TypeOK
    <3> QED
      BY <1>8, <3>1, <3>2 DEF Send
  <2>2. UNCHANGED <<load, latch, queue, cur, first, outcome, handle, sender, joins, target>>
    BY <1>8 DEF Send
  <2>3. out' \in [Workers -> SUBSET Spans] /\ tx' \in [Workers -> BOOLEAN]
        /\ pc' \in [Workers -> InBody \cup {"none", "bodyOk", "finish", "await",
               "error", "finishError", "abort", "aborting", "out"}]
    BY <1>8 DEF Send, TypeOK, InBody
  <2> QED
    BY <2>1, <2>2, <2>3 DEF TypeOK, sender, joins
<1>9. ASSUME NEW w \in Workers, JoinDeadTask(w) PROVE TypeOK'
  BY <1>9 DEF JoinDeadTask, sender, joins, TypeOK, InBody
<1>10. ASSUME NEW w \in Workers, CheckLatch(w) PROVE TypeOK'
  BY <1>10 DEF CheckLatch, loader, sender, joins, TypeOK, InBody
<1>11. ASSUME NEW w \in Workers, Finish(w) PROVE TypeOK'
  <2>1. chan' \in [Workers -> Seq(Msg)] /\ \A v \in Workers : Len(chan'[v]) <= Slots
    <3>1. CASE UNCHANGED chan
      BY <3>1 DEF TypeOK
    <3>2. CASE /\ Len(chan[w]) < Slots
               /\ chan' = [chan EXCEPT ![w] = Append(@, FinishMark)]
      <4>1. FinishMark \in Msg /\ chan[w] \in Seq(Msg) /\ Slots \in Nat
        BY CrewAssumption DEF TypeOK, FinishMark, Msg, CrewAssumption
      <4>2. Append(chan[w], FinishMark) \in Seq(Msg) /\ Len(Append(chan[w], FinishMark)) <= Slots
        BY <3>2, <4>1, ChanAppend
      <4> QED
        BY <3>2, <4>2 DEF TypeOK
    <3> QED
      BY <1>11, <3>1, <3>2 DEF Finish
  <2>2. UNCHANGED <<load, latch, queue, cur, first, outcome, handle, sender, joins, target>>
    BY <1>11 DEF Finish
  <2>3. out' \in [Workers -> SUBSET Spans] /\ tx' \in [Workers -> BOOLEAN]
        /\ pc' \in [Workers -> InBody \cup {"none", "bodyOk", "finish", "await",
               "error", "finishError", "abort", "aborting", "out"}]
    BY <1>11 DEF Finish, TypeOK, InBody
  <2> QED
    BY <2>1, <2>2, <2>3 DEF TypeOK, sender, joins
<1>12. ASSUME NEW w \in Workers, Finished(w) PROVE TypeOK'
  BY <1>12 DEF Finished, sender, joins, TypeOK, InBody
<1>13. ASSUME NEW w \in Workers, FinishFailed(w) PROVE TypeOK'
  BY <1>13 DEF FinishFailed, sender, joins, TypeOK, InBody
<1>14. ASSUME NEW w \in Workers, ClaimLatch(w) PROVE TypeOK'
  BY <1>14 DEF ClaimLatch, loader, sender, joins, TypeOK, InBody
<1>15. ASSUME NEW w \in Workers, Abort(w) PROVE TypeOK'
  BY <1>15 DEF Abort, sender, joins, TypeOK, InBody
<1>16. ASSUME NEW w \in Workers, Aborted(w) PROVE TypeOK'
  BY <1>16 DEF Aborted, sender, joins, TypeOK, InBody
<1>17. ASSUME NEW w \in Workers, LoseWorker(w) PROVE TypeOK'
  BY <1>17 DEF LoseWorker, sender, joins, TypeOK, InBody
<1>18. ASSUME NEW w \in Workers, TaskOpens(w) PROVE TypeOK'
  BY <1>18 DEF TaskOpens, worker, loader, joins, TypeOK, InBody
<1>19. ASSUME NEW w \in Workers, TaskFails(w) PROVE TypeOK'
  BY <1>19 DEF TaskFails, worker, loader, joins, TypeOK, InBody
<1>20. ASSUME NEW w \in Workers, TaskCopies(w) PROVE TypeOK'
  <2>1. chan[w] \in Seq(Msg) /\ chan[w] # <<>> /\ Len(chan[w]) <= Slots
    BY <1>20 DEF TaskCopies, TypeOK
  <2>2. Tail(chan[w]) \in Seq(Msg) /\ Len(Tail(chan[w])) <= Slots /\ Head(chan[w]) \in Msg
    <3>1. Slots \in Nat
      BY CrewAssumption DEF CrewAssumption
    <3>2. chan[w][1] \in Msg
      BY <2>1, ChanTail
    <3> QED
      BY <2>1, <3>1, <3>2, ChanTail
  <2>3. chan' \in [Workers -> Seq(Msg)] /\ \A v \in Workers : Len(chan'[v]) <= Slots
    BY <1>20, <2>2 DEF TaskCopies, TypeOK
  <2>4. copy' \in [Workers -> SUBSET Spans]
    BY <1>20, <2>2, MsgFields, CommittedType DEF TaskCopies, TypeOK
  <2> QED
    BY <1>20, <2>3, <2>4 DEF TaskCopies, TypeOK, InBody, worker, loader, sender, joins
<1>21. ASSUME NEW w \in Workers, TaskCommits(w) PROVE TypeOK'
  <2>1. chan[w] \in Seq(Msg) /\ chan[w] # <<>> /\ Len(chan[w]) <= Slots
    BY <1>21 DEF TaskCommits, TypeOK
  <2>2. Tail(chan[w]) \in Seq(Msg) /\ Len(Tail(chan[w])) <= Slots /\ Head(chan[w]) \in Msg
    <3>1. Slots \in Nat
      BY CrewAssumption DEF CrewAssumption
    <3>2. chan[w][1] \in Msg
      BY <2>1, ChanTail
    <3> QED
      BY <2>1, <3>1, <3>2, ChanTail
  <2>3. chan' \in [Workers -> Seq(Msg)] /\ \A v \in Workers : Len(chan'[v]) <= Slots
    BY <1>21, <2>2 DEF TaskCommits, TypeOK
  <2>4. staging' \in [Spans -> Nat]
    BY <1>21, <2>2, MsgFields, CommittedType DEF TaskCommits, TypeOK
  <2> QED
    BY <1>21, <2>3, <2>4 DEF TaskCommits, TypeOK, InBody, worker, loader, sender, joins
<1>22. ASSUME NEW w \in Workers, TaskDropped(w) PROVE TypeOK'
  BY <1>22 DEF TaskDropped, worker, loader, joins, TypeOK, InBody
<1>23. ASSUME NEW w \in Workers, Collect(w) PROVE TypeOK'
  BY <1>23 DEF Collect, worker, loader, sender, TypeOK, InBody
<1>24. CASE OpenFails
  BY <1>24 DEF OpenFails, worker, loader, sender, joins, TypeOK, InBody
<1>25. CASE Unopened
  BY <1>25 DEF Unopened, worker, loader, sender, joins, TypeOK, InBody
<1>26. CASE StartCrew
  BY <1>26 DEF StartCrew, loader, sender, joins, TypeOK, InBody
<1>27. CASE JoinedAll
  BY <1>27 DEF JoinedAll, worker, loader, sender, joins, TypeOK, InBody
<1>28. CASE Finalize
  BY <1>28 DEF Finalize, worker, loader, sender, joins, TypeOK, InBody
<1>29. CASE Discard
  BY <1>29 DEF Discard, TypeOK, InBody, worker, loader, sender, joins, Nothing
<1>30. CASE UNCHANGED <<load, latch, queue, pc, cur, out, first, outcome, chan, tx,
                        handle, task, copy, staging, joined, cause, lost, sawCancel,
                        target>>
  BY <1>30 DEF TypeOK, InBody
<1> QED
  BY <1>1, <1>2, <1>3, <1>4, <1>5, <1>6, <1>7, <1>8, <1>9, <1>10, <1>11, <1>12, <1>13,
     <1>14, <1>15, <1>16, <1>17, <1>18, <1>19, <1>20, <1>21, <1>22, <1>23, <1>24, <1>25,
     <1>26, <1>27, <1>28, <1>29, <1>30
     DEF vars, worker, loader, sender, joins, Next, Fault, OpenStep, LoadStep,
         WorkerStep, TaskStep, Ended
\* Nothing is sent after the mark that ends a stream.
LEMMA MarksStep ==
    ASSUME TypeOK, NEW v \in Workers, Marks(v), Tasks(v), [Next]_vars
    PROVE  Marks(v)'
<1>1. ASSUME NEW w \in Workers, OpenLoader(w) PROVE Marks(v)'
  BY <1>1 DEF OpenLoader, worker, joins, Marks, InBody, TypeOK, TaskEnded
<1>2. ASSUME NEW w \in Workers, TakeSpan(w) PROVE Marks(v)'
  BY <1>2 DEF TakeSpan, loader, sender, joins, Marks, InBody, TypeOK, TaskEnded
<1>3. ASSUME NEW w \in Workers, ReadSpan(w) PROVE Marks(v)'
  BY <1>3 DEF ReadSpan, loader, sender, joins, Marks, InBody, TypeOK, TaskEnded
<1>4. ASSUME NEW w \in Workers, BodyFails(w) PROVE Marks(v)'
  BY <1>4 DEF BodyFails, loader, sender, joins, Marks, InBody, TypeOK, TaskEnded
<1>5. ASSUME NEW w \in Workers, NothingToFlush(w) PROVE Marks(v)'
  BY <1>5 DEF NothingToFlush, loader, sender, joins, Marks, InBody, TypeOK, TaskEnded
<1>6. ASSUME NEW w \in Workers, Send(w) PROVE Marks(v)'
  <2>1. CASE v # w \/ UNCHANGED chan
    BY <1>6, <2>1 DEF Send, sender, Marks, InBody, TypeOK, TaskEnded
  <2>2. CASE v = w /\ chan' = [chan EXCEPT ![w] = Append(@, Buf(out[w]))]
    <3>1. Buf(out[w]) \in Msg /\ chan[w] \in Seq(Msg) /\ Buf(out[w]).finish = FALSE
      BY DEF TypeOK, Buf, FinishMark, Msg
    <3>2. /\ chan'[w] = Append(chan[w], Buf(out[w])) /\ Len(chan[w]) \in Nat
          /\ Len(chan'[w]) = Len(chan[w]) + 1
          /\ \A i \in 1..Len(chan[w]) : chan'[w][i] = chan[w][i]
          /\ chan'[w][Len(chan[w]) + 1] = Buf(out[w])
      BY <2>2, <3>1, ChanAppend DEF TypeOK
    <3>3. /\ \A i \in 1..Len(chan[w]) : ~chan[w][i].finish
          /\ task'[w] # "committed"
      BY <1>6, <2>2, <3>2 DEF Send, sender, Marks, InBody, TypeOK, TaskEnded
    <3> QED
      BY <2>2, <3>1, <3>2, <3>3 DEF Marks, InBody
  <2> QED
    BY <1>6, <2>1, <2>2 DEF Send
<1>7. ASSUME NEW w \in Workers, JoinDeadTask(w) PROVE Marks(v)'
  BY <1>7 DEF JoinDeadTask, sender, joins, Marks, InBody, TypeOK, TaskEnded
<1>8. ASSUME NEW w \in Workers, CheckLatch(w) PROVE Marks(v)'
  BY <1>8 DEF CheckLatch, loader, sender, joins, Marks, InBody, TypeOK, TaskEnded
<1>9. ASSUME NEW w \in Workers, Finish(w) PROVE Marks(v)'
  <2>1. CASE v # w \/ UNCHANGED chan
    BY <1>9, <2>1 DEF Finish, sender, Marks, InBody, TypeOK, TaskEnded
  <2>2. CASE v = w /\ chan' = [chan EXCEPT ![w] = Append(@, FinishMark)]
    <3>1. FinishMark \in Msg /\ chan[w] \in Seq(Msg) /\ FinishMark.finish = TRUE
      BY DEF TypeOK, Buf, FinishMark, Msg
    <3>2. /\ chan'[w] = Append(chan[w], FinishMark) /\ Len(chan[w]) \in Nat
          /\ Len(chan'[w]) = Len(chan[w]) + 1
          /\ \A i \in 1..Len(chan[w]) : chan'[w][i] = chan[w][i]
          /\ chan'[w][Len(chan[w]) + 1] = FinishMark
      BY <2>2, <3>1, ChanAppend DEF TypeOK
    <3>3. /\ \A i \in 1..Len(chan[w]) : ~chan[w][i].finish
          /\ task'[w] # "committed" /\ pc'[w] = "await"
      BY <1>9, <2>2, <3>2 DEF Finish, sender, Marks, InBody, TypeOK, TaskEnded
    <3> QED
      BY <2>2, <3>1, <3>2, <3>3 DEF Marks, InBody
  <2> QED
    BY <1>9, <2>1, <2>2 DEF Finish
<1>10. ASSUME NEW w \in Workers, Finished(w) PROVE Marks(v)'
  BY <1>10 DEF Finished, sender, joins, Marks, InBody, TypeOK, TaskEnded
<1>11. ASSUME NEW w \in Workers, FinishFailed(w) PROVE Marks(v)'
  BY <1>11 DEF FinishFailed, sender, joins, Marks, InBody, TypeOK, TaskEnded
<1>12. ASSUME NEW w \in Workers, ClaimLatch(w) PROVE Marks(v)'
  BY <1>12 DEF ClaimLatch, loader, sender, joins, Marks, InBody, TypeOK, TaskEnded
<1>13. ASSUME NEW w \in Workers, Abort(w) PROVE Marks(v)'
  BY <1>13 DEF Abort, sender, joins, Marks, InBody, TypeOK, TaskEnded
<1>14. ASSUME NEW w \in Workers, Aborted(w) PROVE Marks(v)'
  BY <1>14 DEF Aborted, sender, joins, Marks, InBody, TypeOK, TaskEnded
<1>15. ASSUME NEW w \in Workers, LoseWorker(w) PROVE Marks(v)'
  BY <1>15 DEF LoseWorker, sender, joins, Marks, InBody, TypeOK, TaskEnded
<1>16. ASSUME NEW w \in Workers, TaskOpens(w) PROVE Marks(v)'
  BY <1>16 DEF TaskOpens, worker, loader, joins, Marks, InBody, TypeOK, TaskEnded
<1>17. ASSUME NEW w \in Workers, TaskFails(w) PROVE Marks(v)'
  BY <1>17 DEF TaskFails, worker, loader, joins, Marks, InBody, TypeOK, TaskEnded
<1>18. ASSUME NEW w \in Workers, TaskCopies(w) PROVE Marks(v)'
  BY <1>18 DEF TaskCopies, worker, joins, Marks, InBody, TypeOK, TaskEnded
<1>19. ASSUME NEW w \in Workers, TaskCommits(w) PROVE Marks(v)'
  BY <1>19 DEF TaskCommits, worker, joins, Marks, InBody, TypeOK, TaskEnded
<1>20. ASSUME NEW w \in Workers, TaskDropped(w) PROVE Marks(v)'
  BY <1>20 DEF TaskDropped, worker, loader, joins, Marks, InBody, TypeOK, TaskEnded
<1>21. CASE StartCrew
  BY <1>21 DEF StartCrew, loader, sender, joins, Marks, InBody, TypeOK, TaskEnded, Tasks
<1>22. CASE UNCHANGED <<chan, pc, task>>
  BY <1>22 DEF Marks, InBody, TypeOK, TaskEnded
<1> QED
  BY <1>1, <1>2, <1>3, <1>4, <1>5, <1>6, <1>7, <1>8, <1>9, <1>10, <1>11, <1>12, <1>13,
     <1>14, <1>15, <1>16, <1>17, <1>18, <1>19, <1>20, <1>21, <1>22
     DEF vars, worker, loader, sender, joins, Next, Fault, OpenStep, LoadStep,
         WorkerStep, TaskStep, AbortOpened, AbortedOpened, Collect, OpenFails, Unopened,
         JoinedAll, Finalize, Discard, Ended
\* A worker that left its body well has read and sent everything.
LEMMA BodyStep ==
    ASSUME TypeOK, NEW v \in Workers, Body(v), Tasks(v), [Next]_vars
    PROVE  Body(v)'
<1>1. ASSUME NEW w \in Workers, OpenLoader(w) PROVE Body(v)'
  BY <1>1 DEF OpenLoader, worker, joins, Body, InBody, TypeOK, Tasks, TaskEnded
<1>2. ASSUME NEW w \in Workers, TakeSpan(w) PROVE Body(v)'
  BY <1>2 DEF TakeSpan, loader, sender, joins, Body, InBody, TypeOK, Tasks, TaskEnded
<1>3. ASSUME NEW w \in Workers, ReadSpan(w) PROVE Body(v)'
  BY <1>3 DEF ReadSpan, loader, sender, joins, Body, InBody, TypeOK, Tasks, TaskEnded
<1>4. ASSUME NEW w \in Workers, BodyFails(w) PROVE Body(v)'
  BY <1>4 DEF BodyFails, loader, sender, joins, Body, InBody, TypeOK, Tasks, TaskEnded
<1>5. ASSUME NEW w \in Workers, NothingToFlush(w) PROVE Body(v)'
  BY <1>5 DEF NothingToFlush, loader, sender, joins, Body, InBody, TypeOK, Tasks,
              TaskEnded
<1>6. ASSUME NEW w \in Workers, Send(w) PROVE Body(v)'
  BY <1>6 DEF Send, sender, joins, Body, InBody, TypeOK, Tasks, TaskEnded
<1>7. ASSUME NEW w \in Workers, JoinDeadTask(w) PROVE Body(v)'
  BY <1>7 DEF JoinDeadTask, sender, joins, Body, InBody, TypeOK, Tasks, TaskEnded
<1>8. ASSUME NEW w \in Workers, CheckLatch(w) PROVE Body(v)'
  BY <1>8 DEF CheckLatch, loader, sender, joins, Body, InBody, TypeOK, Tasks, TaskEnded
<1>9. ASSUME NEW w \in Workers, Finish(w) PROVE Body(v)'
  BY <1>9 DEF Finish, sender, joins, Body, InBody, TypeOK, Tasks, TaskEnded
<1>10. ASSUME NEW w \in Workers, Finished(w) PROVE Body(v)'
  BY <1>10 DEF Finished, sender, joins, Body, InBody, TypeOK, Tasks, TaskEnded
<1>11. ASSUME NEW w \in Workers, FinishFailed(w) PROVE Body(v)'
  BY <1>11 DEF FinishFailed, sender, joins, Body, InBody, TypeOK, Tasks, TaskEnded
<1>12. ASSUME NEW w \in Workers, ClaimLatch(w) PROVE Body(v)'
  BY <1>12 DEF ClaimLatch, loader, sender, joins, Body, InBody, TypeOK, Tasks, TaskEnded
<1>13. ASSUME NEW w \in Workers, Abort(w) PROVE Body(v)'
  BY <1>13 DEF Abort, sender, joins, Body, InBody, TypeOK, Tasks, TaskEnded
<1>14. ASSUME NEW w \in Workers, Aborted(w) PROVE Body(v)'
  BY <1>14 DEF Aborted, sender, joins, Body, InBody, TypeOK, Tasks, TaskEnded
<1>15. ASSUME NEW w \in Workers, LoseWorker(w) PROVE Body(v)'
  BY <1>15 DEF LoseWorker, sender, joins, Body, InBody, TypeOK, Tasks, TaskEnded
<1>16. ASSUME NEW w \in Workers, TaskOpens(w) PROVE Body(v)'
  BY <1>16 DEF TaskOpens, worker, loader, joins, Body, InBody, TypeOK, Tasks, TaskEnded
<1>17. ASSUME NEW w \in Workers, TaskFails(w) PROVE Body(v)'
  BY <1>17 DEF TaskFails, worker, loader, joins, Body, InBody, TypeOK, Tasks, TaskEnded
<1>18. ASSUME NEW w \in Workers, TaskCopies(w) PROVE Body(v)'
  BY <1>18 DEF TaskCopies, worker, joins, Body, InBody, TypeOK, Tasks, TaskEnded
<1>19. ASSUME NEW w \in Workers, TaskCommits(w) PROVE Body(v)'
  BY <1>19 DEF TaskCommits, worker, joins, Body, InBody, TypeOK, Tasks, TaskEnded
<1>20. ASSUME NEW w \in Workers, TaskDropped(w) PROVE Body(v)'
  BY <1>20 DEF TaskDropped, worker, loader, joins, Body, InBody, TypeOK, Tasks,
               TaskEnded
<1>21. CASE StartCrew
  BY <1>21 DEF StartCrew, loader, sender, joins, Body, InBody, TypeOK, Tasks, TaskEnded
<1>22. CASE UNCHANGED <<pc, cur, out, queue, outcome, task, chan, copy>>
  BY <1>22 DEF Body, InBody, TypeOK, Tasks, TaskEnded
<1> QED
  BY <1>1, <1>2, <1>3, <1>4, <1>5, <1>6, <1>7, <1>8, <1>9, <1>10, <1>11, <1>12, <1>13,
     <1>14, <1>15, <1>16, <1>17, <1>18, <1>19, <1>20, <1>21, <1>22
     DEF vars, worker, loader, sender, joins, Next, Fault, OpenStep, LoadStep,
         WorkerStep, TaskStep, AbortOpened, AbortedOpened, Collect, OpenFails, Unopened,
         JoinedAll, Finalize, Discard, Ended
\* Whoever lets go of a sender task has seen it end.
LEMMA TasksStep ==
    ASSUME TypeOK, NEW v \in Workers, Tasks(v), [Next]_vars
    PROVE  Tasks(v)'
<1>1. ASSUME NEW w \in Workers, OpenLoader(w) PROVE Tasks(v)'
  BY <1>1 DEF OpenLoader, worker, joins, Tasks, TaskEnded, InBody, TypeOK
<1>2. ASSUME NEW w \in Workers, AbortedOpened(w) PROVE Tasks(v)'
  BY <1>2 DEF AbortedOpened, worker, sender, joins, Tasks, TaskEnded, InBody, TypeOK
<1>3. ASSUME NEW w \in Workers, TakeSpan(w) PROVE Tasks(v)'
  BY <1>3 DEF TakeSpan, loader, sender, joins, Tasks, TaskEnded, InBody, TypeOK
<1>4. ASSUME NEW w \in Workers, ReadSpan(w) PROVE Tasks(v)'
  BY <1>4 DEF ReadSpan, loader, sender, joins, Tasks, TaskEnded, InBody, TypeOK
<1>5. ASSUME NEW w \in Workers, BodyFails(w) PROVE Tasks(v)'
  BY <1>5 DEF BodyFails, loader, sender, joins, Tasks, TaskEnded, InBody, TypeOK
<1>6. ASSUME NEW w \in Workers, NothingToFlush(w) PROVE Tasks(v)'
  BY <1>6 DEF NothingToFlush, loader, sender, joins, Tasks, TaskEnded, InBody, TypeOK
<1>7. ASSUME NEW w \in Workers, Send(w) PROVE Tasks(v)'
  BY <1>7 DEF Send, sender, joins, Tasks, TaskEnded, InBody, TypeOK
<1>8. ASSUME NEW w \in Workers, JoinDeadTask(w) PROVE Tasks(v)'
  BY <1>8 DEF JoinDeadTask, sender, joins, Tasks, TaskEnded, InBody, TypeOK
<1>9. ASSUME NEW w \in Workers, CheckLatch(w) PROVE Tasks(v)'
  BY <1>9 DEF CheckLatch, loader, sender, joins, Tasks, TaskEnded, InBody, TypeOK
<1>10. ASSUME NEW w \in Workers, Finish(w) PROVE Tasks(v)'
  BY <1>10 DEF Finish, sender, joins, Tasks, TaskEnded, InBody, TypeOK
<1>11. ASSUME NEW w \in Workers, Finished(w) PROVE Tasks(v)'
  BY <1>11 DEF Finished, sender, joins, Tasks, TaskEnded, InBody, TypeOK
<1>12. ASSUME NEW w \in Workers, FinishFailed(w) PROVE Tasks(v)'
  BY <1>12 DEF FinishFailed, sender, joins, Tasks, TaskEnded, InBody, TypeOK
<1>13. ASSUME NEW w \in Workers, ClaimLatch(w) PROVE Tasks(v)'
  BY <1>13 DEF ClaimLatch, loader, sender, joins, Tasks, TaskEnded, InBody, TypeOK
<1>14. ASSUME NEW w \in Workers, Abort(w) PROVE Tasks(v)'
  BY <1>14 DEF Abort, sender, joins, Tasks, TaskEnded, InBody, TypeOK
<1>15. ASSUME NEW w \in Workers, Aborted(w) PROVE Tasks(v)'
  BY <1>15 DEF Aborted, sender, joins, Tasks, TaskEnded, InBody, TypeOK
<1>16. ASSUME NEW w \in Workers, LoseWorker(w) PROVE Tasks(v)'
  BY <1>16 DEF LoseWorker, sender, joins, Tasks, TaskEnded, InBody, TypeOK
<1>17. ASSUME NEW w \in Workers, TaskOpens(w) PROVE Tasks(v)'
  BY <1>17 DEF TaskOpens, worker, loader, joins, Tasks, TaskEnded, InBody, TypeOK
<1>18. ASSUME NEW w \in Workers, TaskFails(w) PROVE Tasks(v)'
  BY <1>18 DEF TaskFails, worker, loader, joins, Tasks, TaskEnded, InBody, TypeOK
<1>19. ASSUME NEW w \in Workers, TaskCommits(w) PROVE Tasks(v)'
  BY <1>19 DEF TaskCommits, worker, joins, Tasks, TaskEnded, InBody, TypeOK
<1>20. ASSUME NEW w \in Workers, TaskDropped(w) PROVE Tasks(v)'
  BY <1>20 DEF TaskDropped, worker, loader, joins, Tasks, TaskEnded, InBody, TypeOK
<1>21. CASE OpenFails
  BY <1>21 DEF OpenFails, worker, loader, sender, joins, Tasks, TaskEnded, InBody,
               TypeOK
<1>22. CASE Unopened
  BY <1>22 DEF Unopened, worker, loader, sender, joins, Tasks, TaskEnded, InBody, TypeOK
<1>23. CASE StartCrew
  BY <1>23 DEF StartCrew, loader, sender, joins, Tasks, TaskEnded, InBody, TypeOK,
               Opened
<1>24. CASE JoinedAll
  BY <1>24 DEF JoinedAll, worker, loader, sender, joins, Tasks, TaskEnded, InBody,
               TypeOK
<1>25. CASE Finalize
  BY <1>25 DEF Finalize, worker, loader, sender, joins, Tasks, TaskEnded, InBody, TypeOK
<1>26. CASE Discard
  BY <1>26 DEF Discard, worker, loader, joins, Tasks, TaskEnded, InBody, TypeOK
<1>27. CASE UNCHANGED <<outcome, pc, task, load, handle>>
  BY <1>27 DEF Tasks, TaskEnded, InBody, TypeOK
<1> QED
  BY <1>1, <1>2, <1>3, <1>4, <1>5, <1>6, <1>7, <1>8, <1>9, <1>10, <1>11, <1>12, <1>13,
     <1>14, <1>15, <1>16, <1>17, <1>18, <1>19, <1>20, <1>21, <1>22, <1>23, <1>24, <1>25,
     <1>26, <1>27
     DEF vars, worker, loader, sender, joins, Next, Fault, OpenStep, LoadStep,
         WorkerStep, TaskStep, AbortOpened, TaskCopies, Collect, Ended
\* The join loop notes every failure it collects.
LEMMA JoinsStep ==
    ASSUME TypeOK, \A v \in Workers : Tasks(v), Joins, [Next]_vars
    PROVE  Joins'
<1>1. ASSUME NEW w \in Workers, Finished(w) PROVE Joins'
  BY <1>1 DEF Finished, sender, joins, Joins, TypeOK, Tasks
<1>2. ASSUME NEW w \in Workers, FinishFailed(w) PROVE Joins'
  BY <1>2 DEF FinishFailed, sender, joins, Joins, TypeOK, Tasks
<1>3. ASSUME NEW w \in Workers, Aborted(w) PROVE Joins'
  BY <1>3 DEF Aborted, sender, joins, Joins, TypeOK, Tasks
<1>4. ASSUME NEW w \in Workers, LoseWorker(w) PROVE Joins'
  BY <1>4 DEF LoseWorker, sender, joins, Joins, TypeOK, Tasks
<1>5. ASSUME NEW w \in Workers, Collect(w) PROVE Joins'
  BY <1>5 DEF Collect, worker, loader, sender, Joins, TypeOK, Tasks
<1>6. CASE OpenFails
  BY <1>6 DEF OpenFails, worker, loader, sender, joins, Joins, TypeOK, Tasks
<1>7. CASE Unopened
  BY <1>7 DEF Unopened, worker, loader, sender, joins, Joins, TypeOK, Tasks
<1>8. CASE StartCrew
  BY <1>8 DEF StartCrew, loader, sender, joins, Joins, TypeOK, Tasks
<1>9. CASE JoinedAll
  BY <1>9 DEF JoinedAll, worker, loader, sender, joins, Joins, TypeOK, Tasks
<1>10. CASE Finalize
  BY <1>10 DEF Finalize, worker, loader, sender, joins, Joins, TypeOK, Tasks
<1>11. CASE Discard
  BY <1>11 DEF Discard, worker, loader, joins, Joins, TypeOK, Tasks
<1>12. CASE UNCHANGED <<outcome, cause, sawCancel, lost, load, joined>>
  BY <1>12 DEF Joins, TypeOK, Tasks
<1> QED
  BY <1>1, <1>2, <1>3, <1>4, <1>5, <1>6, <1>7, <1>8, <1>9, <1>10, <1>11, <1>12
     DEF vars, worker, loader, sender, joins, Next, Fault, OpenStep, LoadStep,
         WorkerStep, TaskStep, OpenLoader, AbortOpened, AbortedOpened, TakeSpan,
         ReadSpan, BodyFails, NothingToFlush, Send, JoinDeadTask, CheckLatch, Finish,
         ClaimLatch, Abort, TaskOpens, TaskFails, TaskCopies, TaskCommits, TaskDropped,
         Ended
\* One worker claims the latch.
LEMMA LatchStep ==
    ASSUME TypeOK, \A v \in Workers : Tasks(v), Joins, Latch, [Next]_vars
    PROVE  Latch'
<1>1. ASSUME NEW w \in Workers, TakeSpan(w) PROVE Latch'
  BY <1>1 DEF TakeSpan, loader, sender, joins, Latch, Claimant, TypeOK, InBody, Tasks,
              Joins
<1>2. ASSUME NEW w \in Workers, ReadSpan(w) PROVE Latch'
  BY <1>2 DEF ReadSpan, loader, sender, joins, Latch, Claimant, TypeOK, InBody, Tasks,
              Joins
<1>3. ASSUME NEW w \in Workers, BodyFails(w) PROVE Latch'
  BY <1>3 DEF BodyFails, loader, sender, joins, Latch, Claimant, TypeOK, InBody, Tasks,
              Joins
<1>4. ASSUME NEW w \in Workers, NothingToFlush(w) PROVE Latch'
  BY <1>4 DEF NothingToFlush, loader, sender, joins, Latch, Claimant, TypeOK, InBody,
              Tasks, Joins
<1>5. ASSUME NEW w \in Workers, Send(w) PROVE Latch'
  BY <1>5 DEF Send, sender, joins, Latch, Claimant, TypeOK, InBody, Tasks, Joins
<1>6. ASSUME NEW w \in Workers, JoinDeadTask(w) PROVE Latch'
  BY <1>6 DEF JoinDeadTask, sender, joins, Latch, Claimant, TypeOK, InBody, Tasks, Joins
<1>7. ASSUME NEW w \in Workers, CheckLatch(w) PROVE Latch'
  BY <1>7 DEF CheckLatch, loader, sender, joins, Latch, Claimant, TypeOK, InBody, Tasks,
              Joins
<1>8. ASSUME NEW w \in Workers, Finish(w) PROVE Latch'
  BY <1>8 DEF Finish, sender, joins, Latch, Claimant, TypeOK, InBody, Tasks, Joins
<1>9. ASSUME NEW w \in Workers, Finished(w) PROVE Latch'
  BY <1>9 DEF Finished, sender, joins, Latch, Claimant, TypeOK, InBody, Tasks, Joins
<1>10. ASSUME NEW w \in Workers, FinishFailed(w) PROVE Latch'
  BY <1>10 DEF FinishFailed, sender, joins, Latch, Claimant, TypeOK, InBody, Tasks,
               Joins
<1>11. ASSUME NEW w \in Workers, ClaimLatch(w) PROVE Latch'
  BY <1>11 DEF ClaimLatch, loader, sender, joins, Latch, Claimant, TypeOK, InBody,
               Tasks, Joins
<1>12. ASSUME NEW w \in Workers, Abort(w) PROVE Latch'
  BY <1>12 DEF Abort, sender, joins, Latch, Claimant, TypeOK, InBody, Tasks, Joins
<1>13. ASSUME NEW w \in Workers, Aborted(w) PROVE Latch'
  BY <1>13 DEF Aborted, sender, joins, Latch, Claimant, TypeOK, InBody, Tasks, Joins
<1>14. ASSUME NEW w \in Workers, LoseWorker(w) PROVE Latch'
  BY <1>14 DEF LoseWorker, sender, joins, Latch, Claimant, TypeOK, InBody, Tasks, Joins
<1>15. ASSUME NEW w \in Workers, Collect(w) PROVE Latch'
  BY <1>15 DEF Collect, worker, loader, sender, Latch, Claimant, TypeOK, InBody, Tasks,
               Joins
<1>16. CASE StartCrew
  BY <1>16 DEF StartCrew, loader, sender, joins, Latch, Claimant, TypeOK, InBody, Tasks,
               Joins
<1>17. CASE UNCHANGED <<latch, first, pc, outcome, sawCancel>>
  BY <1>17 DEF Latch, Claimant, TypeOK, InBody, Tasks, Joins
<1> QED
  BY <1>1, <1>2, <1>3, <1>4, <1>5, <1>6, <1>7, <1>8, <1>9, <1>10, <1>11, <1>12, <1>13,
     <1>14, <1>15, <1>16, <1>17
     DEF vars, worker, loader, sender, joins, Next, Fault, OpenStep, LoadStep,
         WorkerStep, TaskStep, OpenLoader, AbortOpened, AbortedOpened, TaskOpens,
         TaskFails, TaskCopies, TaskCommits, TaskDropped, OpenFails, Unopened,
         JoinedAll, Finalize, Discard, Ended
\* What is staged was committed once.
LEMMA StagedStep ==
    ASSUME TypeOK, \A v \in Workers : Tasks(v), \A v \in Workers : Body(v), Conserved,
           Staged, [Next]_vars
    PROVE  Staged'
<1>1. ASSUME NEW w \in Workers, OpenLoader(w) PROVE Staged'
  <2>1. \A v \in Workers : copy[v] = {}
    BY <1>1 DEF OpenLoader, Tasks, Body
  <2> QED
    BY <1>1, <2>1 DEF OpenLoader, Staged, TypeOK, TaskEnded
<1>2. ASSUME NEW w \in Workers, TaskOpens(w) PROVE Staged'
  BY <1>2 DEF TaskOpens, worker, loader, joins, Staged, TypeOK, TaskEnded
<1>3. ASSUME NEW w \in Workers, TaskFails(w) PROVE Staged'
  BY <1>3 DEF TaskFails, worker, loader, joins, Staged, TypeOK, TaskEnded
<1>4. ASSUME NEW w \in Workers, TaskCopies(w) PROVE Staged'
  BY <1>4 DEF TaskCopies, worker, joins, Staged, TypeOK, TaskEnded
<1>5. ASSUME NEW w \in Workers, TaskCommits(w) PROVE Staged'
  <2>1. task[w] = "copying" /\ staging' = Committed(w) /\ UNCHANGED <<load, copy>>
        /\ \E r \in {"committed", "failed"} : task' = [task EXCEPT ![w] = r]
    BY <1>5 DEF TaskCommits
  <2>2. ASSUME NEW s \in copy[w] PROVE s \in Spans /\ staging[s] = 0
    <3>1. ASSUME NEW v \in Workers, TaskEnded(v) PROVE s \notin copy[v]
      BY <2>1, <3>1 DEF Conserved, Has, TaskEnded
    <3> QED
      BY <3>1 DEF Staged, TypeOK
  <2>3. \A s \in Spans : staging'[s] = IF s \in copy[w] THEN 1 ELSE staging[s]
    BY <2>1, <2>2 DEF Committed, Staged, TypeOK
  <2>4. \A v \in Workers : TaskEnded(v) => TaskEnded(v)'
    BY <2>1 DEF TaskEnded, TypeOK
  <2>5. TaskEnded(w)'
    BY <2>1 DEF TaskEnded, TypeOK
  <2>6. \A s \in Spans : staging'[s] \in {0, 1}
    BY <2>3 DEF Staged
  <2>7. \A s \in Spans : staging'[s] = 1 => \E v \in Workers : TaskEnded(v)' /\ s \in copy'[v]
    BY <2>1, <2>3, <2>4, <2>5 DEF Staged
  <2>8. ASSUME load' # "failed", NEW v \in Workers, task'[v] = "committed", NEW s \in copy'[v]
        PROVE  staging'[s] = 1
    BY <2>1, <2>3, <2>8 DEF Staged, TypeOK
  <2> QED
    BY <2>6, <2>7, <2>8 DEF Staged
<1>6. ASSUME NEW w \in Workers, TaskDropped(w) PROVE Staged'
  BY <1>6 DEF TaskDropped, worker, loader, joins, Staged, TypeOK, TaskEnded
<1>7. CASE OpenFails
  BY <1>7 DEF OpenFails, worker, loader, sender, joins, Staged, TypeOK, TaskEnded
<1>8. CASE Unopened
  BY <1>8 DEF Unopened, worker, loader, sender, joins, Staged, TypeOK, TaskEnded
<1>9. CASE StartCrew
  BY <1>9 DEF StartCrew, loader, sender, joins, Staged, TypeOK, TaskEnded
<1>10. CASE JoinedAll
  BY <1>10 DEF JoinedAll, worker, loader, sender, joins, Staged, TypeOK, TaskEnded
<1>11. CASE Finalize
  BY <1>11 DEF Finalize, worker, loader, sender, joins, Staged, TypeOK, TaskEnded
<1>12. CASE Discard
  BY <1>12 DEF Discard, loader, Staged, TypeOK, TaskEnded, Nothing
<1>13. CASE UNCHANGED <<staging, task, copy, load>>
  BY <1>13 DEF Staged, TypeOK, TaskEnded
<1> QED
  BY <1>1, <1>2, <1>3, <1>4, <1>5, <1>6, <1>7, <1>8, <1>9, <1>10, <1>11, <1>12, <1>13
     DEF vars, worker, loader, sender, joins, Next, Fault, OpenStep, LoadStep,
         WorkerStep, TaskStep, AbortOpened, AbortedOpened, TakeSpan, ReadSpan,
         BodyFails, NothingToFlush, Send, JoinDeadTask, CheckLatch, Finish, Finished,
         FinishFailed, ClaimLatch, Abort, Aborted, LoseWorker, Collect, Ended
\* The join waits for the last write.
LEMMA QuietStep ==
    ASSUME TypeOK, \A v \in Workers : Tasks(v), Joins, QuietAfterJoin, [Next]_vars
    PROVE  QuietAfterJoin'
<1>1. ASSUME NEW w \in Workers, OpenLoader(w) PROVE QuietAfterJoin'
  BY <1>1 DEF OpenLoader, worker, joins, QuietAfterJoin, Opened, TaskEnded, TypeOK,
              Tasks, Joins
<1>2. ASSUME NEW w \in Workers, Finished(w) PROVE QuietAfterJoin'
  BY <1>2 DEF Finished, sender, joins, QuietAfterJoin, Opened, TaskEnded, TypeOK, Tasks,
              Joins
<1>3. ASSUME NEW w \in Workers, FinishFailed(w) PROVE QuietAfterJoin'
  BY <1>3 DEF FinishFailed, sender, joins, QuietAfterJoin, Opened, TaskEnded, TypeOK,
              Tasks, Joins
<1>4. ASSUME NEW w \in Workers, Aborted(w) PROVE QuietAfterJoin'
  BY <1>4 DEF Aborted, sender, joins, QuietAfterJoin, Opened, TaskEnded, TypeOK, Tasks,
              Joins
<1>5. ASSUME NEW w \in Workers, LoseWorker(w) PROVE QuietAfterJoin'
  BY <1>5 DEF LoseWorker, sender, joins, QuietAfterJoin, Opened, TaskEnded, TypeOK,
              Tasks, Joins
<1>6. ASSUME NEW w \in Workers, TaskOpens(w) PROVE QuietAfterJoin'
  BY <1>6 DEF TaskOpens, worker, loader, joins, QuietAfterJoin, Opened, TaskEnded,
              TypeOK, Tasks, Joins
<1>7. ASSUME NEW w \in Workers, TaskFails(w) PROVE QuietAfterJoin'
  BY <1>7 DEF TaskFails, worker, loader, joins, QuietAfterJoin, Opened, TaskEnded,
              TypeOK, Tasks, Joins
<1>8. ASSUME NEW w \in Workers, TaskCommits(w) PROVE QuietAfterJoin'
  BY <1>8 DEF TaskCommits, worker, joins, QuietAfterJoin, Opened, TaskEnded, TypeOK,
              Tasks, Joins
<1>9. ASSUME NEW w \in Workers, TaskDropped(w) PROVE QuietAfterJoin'
  BY <1>9 DEF TaskDropped, worker, loader, joins, QuietAfterJoin, Opened, TaskEnded,
              TypeOK, Tasks, Joins
<1>10. CASE OpenFails
  BY <1>10 DEF OpenFails, worker, loader, sender, joins, QuietAfterJoin, Opened,
               TaskEnded, TypeOK, Tasks, Joins
<1>11. CASE Unopened
  BY <1>11 DEF Unopened, worker, loader, sender, joins, QuietAfterJoin, Opened,
               TaskEnded, TypeOK, Tasks, Joins
<1>12. CASE StartCrew
  BY <1>12 DEF StartCrew, loader, sender, joins, QuietAfterJoin, Opened, TaskEnded,
               TypeOK, Tasks, Joins
<1>13. CASE JoinedAll
  BY <1>13 DEF JoinedAll, worker, loader, sender, joins, QuietAfterJoin, Opened,
               TaskEnded, TypeOK, Tasks, Joins
<1>14. CASE Finalize
  BY <1>14 DEF Finalize, worker, loader, sender, joins, QuietAfterJoin, Opened,
               TaskEnded, TypeOK, Tasks, Joins
<1>15. CASE Discard
  BY <1>15 DEF Discard, worker, loader, joins, QuietAfterJoin, Opened, TaskEnded,
               TypeOK, Tasks, Joins
<1>16. CASE UNCHANGED <<load, task, outcome>>
  BY <1>16 DEF QuietAfterJoin, Opened, TaskEnded, TypeOK, Tasks, Joins
<1> QED
  BY <1>1, <1>2, <1>3, <1>4, <1>5, <1>6, <1>7, <1>8, <1>9, <1>10, <1>11, <1>12, <1>13,
     <1>14, <1>15, <1>16
     DEF vars, worker, loader, sender, joins, Next, Fault, OpenStep, LoadStep,
         WorkerStep, TaskStep, AbortOpened, AbortedOpened, TakeSpan, ReadSpan,
         BodyFails, NothingToFlush, Send, JoinDeadTask, CheckLatch, Finish, ClaimLatch,
         Abort, TaskCopies, Collect, Ended

\* A channel holds what it held and what was put into it, less what was taken out.
LEMMA InChanAppend ==
    ASSUME TypeOK, NEW w \in Workers, NEW m \in Msg,
           chan' = [chan EXCEPT ![w] = Append(@, m)]
    PROVE  /\ InChan(w)' = InChan(w) \cup m.buf
           /\ \A v \in Workers \ {w} : InChan(v)' = InChan(v)
<1>1. m.buf \subseteq Spans /\ chan[w] \in Seq(Msg)
  BY MsgFields DEF TypeOK
<1>2. /\ Len(chan[w]) \in Nat /\ Len(chan'[w]) = Len(chan[w]) + 1
      /\ \A i \in 1..Len(chan[w]) : chan'[w][i] = chan[w][i]
      /\ chan'[w][Len(chan[w]) + 1] = m
  BY <1>1, ChanAppend DEF TypeOK
<1>3. ASSUME NEW s \in InChan(w)' PROVE s \in InChan(w) \cup m.buf
  <2>1. PICK i \in 1..Len(chan'[w]) : s \in chan'[w][i].buf
    BY DEF InChan
  <2>2. CASE i = Len(chan[w]) + 1
    BY <1>1, <1>2, <2>1, <2>2
  <2>3. CASE i \in 1..Len(chan[w])
    BY <1>2, <2>1, <2>3 DEF InChan
  <2> QED
    BY <1>2, <2>2, <2>3
<1>4. ASSUME NEW s \in InChan(w) PROVE s \in InChan(w)'
  <2>1. PICK i \in 1..Len(chan[w]) : s \in chan[w][i].buf
    BY DEF InChan
  <2>2. i \in 1..Len(chan'[w]) /\ s \in chan'[w][i].buf /\ s \in Spans
    BY <1>2, <2>1 DEF InChan
  <2> QED
    BY <2>2 DEF InChan
<1>5. ASSUME NEW s \in m.buf PROVE s \in InChan(w)'
  <2>1. Len(chan[w]) + 1 \in 1..Len(chan'[w]) /\ s \in chan'[w][Len(chan[w]) + 1].buf
    BY <1>1, <1>2
  <2>2. s \in Spans
    BY <1>1
  <2> QED
    BY <2>1, <2>2 DEF InChan
<1>6. \A v \in Workers \ {w} : chan'[v] = chan[v]
  BY DEF TypeOK
<1>7. \A v \in Workers \ {w} : InChan(v)' = InChan(v)
  BY <1>6 DEF InChan
<1> QED
  BY <1>3, <1>4, <1>5, <1>7

LEMMA InChanTail ==
    ASSUME TypeOK, NEW w \in Workers, chan[w] # <<>>,
           chan' = [chan EXCEPT ![w] = Tail(@)]
    PROVE  /\ InChan(w) = InChan(w)' \cup Head(chan[w]).buf
           /\ \A v \in Workers \ {w} : InChan(v)' = InChan(v)
<1>1. chan[w] \in Seq(Msg) /\ chan'[w] = Tail(chan[w])
  BY DEF TypeOK
<1>2. /\ Len(chan[w]) \in Nat \ {0} /\ Len(chan'[w]) = Len(chan[w]) - 1
      /\ \A i \in 1..Len(chan'[w]) : chan'[w][i] = chan[w][i + 1]
      /\ Head(chan[w]) = chan[w][1]
  BY <1>1, ChanTail
<1>3. ASSUME NEW s \in InChan(w) PROVE s \in InChan(w)' \cup Head(chan[w]).buf
  <2>1. PICK i \in 1..Len(chan[w]) : s \in chan[w][i].buf
    BY DEF InChan
  <2>2. CASE i = 1
    BY <1>2, <2>1, <2>2
  <2>3. CASE i # 1
    <3>1. i - 1 \in 1..Len(chan'[w]) /\ s \in chan'[w][i - 1].buf /\ s \in Spans
      BY <1>2, <2>1, <2>3 DEF InChan
    <3> QED
      BY <3>1 DEF InChan
  <2> QED
    BY <2>2, <2>3
<1>4. ASSUME NEW s \in InChan(w)' PROVE s \in InChan(w)
  <2>1. PICK i \in 1..Len(chan'[w]) : s \in chan'[w][i].buf
    BY DEF InChan
  <2>2. i + 1 \in 1..Len(chan[w]) /\ s \in chan[w][i + 1].buf /\ s \in Spans
    BY <1>2, <2>1 DEF InChan
  <2> QED
    BY <2>2 DEF InChan
<1>5. ASSUME NEW s \in Head(chan[w]).buf PROVE s \in InChan(w)
  <2>1. 1 \in 1..Len(chan[w]) /\ chan[w][1] \in Msg
    BY <1>1, <1>2
  <2> QED
    BY <1>2, <2>1, MsgFields DEF InChan
<1>6. \A v \in Workers \ {w} : chan'[v] = chan[v]
  BY DEF TypeOK
<1>7. \A v \in Workers \ {w} : InChan(v)' = InChan(v)
  BY <1>6 DEF InChan
<1> QED
  BY <1>3, <1>4, <1>5, <1>7


LEMMA Keeps ==
    ASSUME Conserved, UNCHANGED queue, \A v \in Workers : Has(v)' = Has(v)
    PROVE  Conserved'
  BY DEF Conserved

\* No step loses a span or gives it to two workers.
LEMMA ConservedStep ==
    ASSUME TypeOK, \A v \in Workers : Body(v), Conserved, [Next]_vars
    PROVE  Conserved'
<1>1. ASSUME NEW w \in Workers, TakeSpan(w) PROVE Conserved'
  <2>1. CASE UNCHANGED <<queue, cur>>
    BY <1>1, <2>1, Keeps DEF TakeSpan, loader, sender, Has, InChan
  <2>2. ASSUME NEW s \in queue, queue' = queue \ {s}, cur' = [cur EXCEPT ![w] = {s}]
        PROVE  Conserved'
    <3>1. cur[w] = {} /\ UNCHANGED <<out, chan, copy>>
      BY <1>1 DEF TakeSpan, loader, sender, Body
    <3>2. /\ Has(w)' = Has(w) \cup {s}
          /\ \A v \in Workers \ {w} : Has(v)' = Has(v)
      BY <2>2, <3>1 DEF Has, InChan, TypeOK
    <3>3. s \in Spans
      BY DEF TypeOK
    <3> QED
      BY <2>2, <3>2, <3>3 DEF Conserved
  <2> QED
    BY <1>1, <2>1, <2>2 DEF TakeSpan
<1>2. ASSUME NEW w \in Workers, ReadSpan(w) PROVE Conserved'
  <2>1. \A v \in Workers : Has(v)' = Has(v)
    BY <1>2 DEF ReadSpan, loader, sender, Has, InChan, TypeOK
  <2> QED
    BY <1>2, <2>1, Keeps DEF ReadSpan
<1>3. ASSUME NEW w \in Workers, Send(w) PROVE Conserved'
  <2>1. CASE UNCHANGED <<chan, out>>
    BY <1>3, <2>1, Keeps DEF Send, sender, Has, InChan
  <2>2. CASE /\ chan' = [chan EXCEPT ![w] = Append(@, Buf(out[w]))]
             /\ out' = [out EXCEPT ![w] = {}]
    <3>1. Buf(out[w]) \in Msg /\ Buf(out[w]).buf = out[w]
      BY DEF TypeOK, Buf, Msg
    <3>2. InChan(w)' = InChan(w) \cup out[w] /\ \A v \in Workers \ {w} : InChan(v)' = InChan(v)
      BY <2>2, <3>1, InChanAppend
    <3>3. /\ UNCHANGED <<queue, cur, copy>> /\ out'[w] = {}
          /\ \A v \in Workers \ {w} : out'[v] = out[v]
      BY <1>3, <2>2 DEF Send, sender, TypeOK
    <3>4. \A v \in Workers : Has(v)' = Has(v)
      BY <3>2, <3>3 DEF Has
    <3> QED
      BY <3>3, <3>4, Keeps
  <2> QED
    BY <1>3, <2>1, <2>2 DEF Send
<1>4. ASSUME NEW w \in Workers, Finish(w) PROVE Conserved'
  <2>1. CASE UNCHANGED chan
    BY <1>4, <2>1, Keeps DEF Finish, sender, Has, InChan
  <2>2. CASE chan' = [chan EXCEPT ![w] = Append(@, FinishMark)]
    <3>1. FinishMark \in Msg /\ FinishMark.buf = {}
      BY DEF FinishMark, Msg
    <3>2. \A v \in Workers : InChan(v)' = InChan(v)
      BY <2>2, <3>1, InChanAppend
    <3>3. UNCHANGED <<queue, cur, out, copy>>
      BY <1>4 DEF Finish, sender
    <3>4. \A v \in Workers : Has(v)' = Has(v)
      BY <3>2, <3>3 DEF Has
    <3> QED
      BY <3>3, <3>4, Keeps
  <2> QED
    BY <1>4, <2>1, <2>2 DEF Finish
<1>5. ASSUME NEW w \in Workers, TaskCopies(w) PROVE Conserved'
  <2>1. /\ chan[w] # <<>> /\ chan' = [chan EXCEPT ![w] = Tail(@)]
        /\ copy' = [copy EXCEPT ![w] = @ \cup Head(chan[w]).buf] /\ UNCHANGED <<queue, cur, out>>
    BY <1>5 DEF TaskCopies, worker
  <2>2. /\ InChan(w) = InChan(w)' \cup Head(chan[w]).buf
        /\ \A v \in Workers \ {w} : InChan(v)' = InChan(v)
    BY <2>1, InChanTail
  <2>3. /\ copy'[w] = copy[w] \cup Head(chan[w]).buf
        /\ \A v \in Workers \ {w} : copy'[v] = copy[v]
    BY <2>1 DEF TypeOK
  <2>4. \A v \in Workers : Has(v)' = Has(v)
    BY <2>1, <2>2, <2>3 DEF Has
  <2> QED
    BY <2>1, <2>4, Keeps
<1>6. ASSUME NEW w \in Workers, TaskCommits(w) PROVE Conserved'
  <2>1. /\ chan[w] # <<>> /\ Head(chan[w]).finish /\ chan' = [chan EXCEPT ![w] = Tail(@)]
        /\ UNCHANGED <<queue, cur, out, copy>>
    BY <1>6 DEF TaskCommits, worker
  <2>2. Head(chan[w]).buf = {}
    <3>1. chan[w] \in Seq(Msg)
      BY DEF TypeOK
    <3>2. Head(chan[w]) \in Msg
      BY <2>1, <3>1, ChanTail
    <3> QED
      BY <2>1, <3>2, MsgFields
  <2>3. \A v \in Workers : InChan(v)' = InChan(v)
    BY <2>1, <2>2, InChanTail
  <2>4. \A v \in Workers : Has(v)' = Has(v)
    BY <2>1, <2>3 DEF Has
  <2> QED
    BY <2>1, <2>4, Keeps
<1>7. CASE UNCHANGED <<queue, cur, out, chan, copy>>
  BY <1>7 DEF Conserved, Has, InChan
<1> QED
  BY <1>1, <1>2, <1>3, <1>4, <1>5, <1>6, <1>7
     DEF vars, worker, loader, sender, joins, Next, Fault, OpenStep, LoadStep,
         WorkerStep, TaskStep, OpenLoader, AbortOpened, AbortedOpened, BodyFails,
         NothingToFlush, JoinDeadTask, CheckLatch, Finished, FinishFailed, ClaimLatch,
         Abort, Aborted, LoseWorker, TaskOpens, TaskFails, TaskDropped, Collect,
         OpenFails, Unopened, StartCrew, JoinedAll, Finalize, Discard, Ended

LEMMA WorkersExist == CrewAssumption => Workers # {}
<1>1. ASSUME CrewAssumption, Workers = {} PROVE FALSE
  <2>1. Cardinality(Workers) = 0
    BY <1>1, FS_EmptySet
  <2> QED
    BY <1>1, <2>1 DEF CrewAssumption
<1> QED
  BY <1>1

\* What is published holds every span once.
LEMMA SpansStep ==
    ASSUME CrewAssumption, IInv, [Next]_vars
    PROVE  SpansOnce'
<1>1. CASE Finalize
  <2> USE DEF IInv
  <2>1. ASSUME load' = "ok", target' = staging PROVE \A s \in Spans : target'[s] = 1
    <3>1. \A w \in Workers : outcome[w] = "done"
      BY <1>1 DEF Finalize, Joins, TypeOK
    <3>2. \A w \in Workers : queue = {} /\ task[w] = "committed" /\ Has(w) = copy[w]
      BY <3>1 DEF Body, Marks, Has, InChan
    <3>3. ASSUME NEW s \in Spans PROVE \E w \in Workers : s \in copy[w]
      <4>1. CASE Workers # {}
        BY <3>2, <4>1 DEF Conserved
      <4> QED
        BY <4>1, WorkersExist
    <3> QED
      BY <1>1, <2>1, <3>2, <3>3 DEF Staged, Finalize
  <2> QED
    BY <1>1, <2>1 DEF Finalize, SpansOnce, Nothing
<1>2. CASE UNCHANGED <<target>>
  BY <1>2 DEF IInv, SpansOnce, Nothing
<1> QED
  BY <1>1, <1>2
     DEF vars, worker, loader, sender, joins, Next, Fault, OpenStep, LoadStep,
         WorkerStep, TaskStep, OpenLoader, AbortOpened, AbortedOpened, TakeSpan,
         ReadSpan, BodyFails, NothingToFlush, Send, JoinDeadTask, CheckLatch, Finish,
         Finished, FinishFailed, ClaimLatch, Abort, Aborted, LoseWorker, TaskOpens,
         TaskFails, TaskCopies, TaskCommits, TaskDropped, Collect, OpenFails, Unopened,
         StartCrew, JoinedAll, Discard, Ended

LEMMA InvInit == CrewAssumption /\ Init => IInv
<1> SUFFICES ASSUME CrewAssumption, Init PROVE IInv
  OBVIOUS
<1>1. TypeOK
  BY TypeInit
<1>2. \A w \in Workers : Has(w) = {} /\ chan[w] = <<>>
  BY DEF Init, Has, InChan
<1>3. Conserved
  BY <1>2 DEF Conserved, Init
<1>4. \A w \in Workers : Marks(w) /\ Body(w) /\ Tasks(w)
  BY <1>2 DEF Init, Marks, Body, Tasks, InBody, TaskEnded
<1>5. Staged /\ Joins /\ Latch /\ SpansOnce /\ QuietAfterJoin
  BY DEF Init, Staged, Joins, Latch, Claimant, SpansOnce, QuietAfterJoin, Nothing, TaskEnded
<1> QED
  BY <1>1, <1>3, <1>4, <1>5 DEF IInv

LEMMA InvStep == CrewAssumption /\ IInv /\ [Next]_vars => IInv'
<1> SUFFICES ASSUME CrewAssumption, IInv, [Next]_vars PROVE IInv'
  OBVIOUS
<1>1. /\ TypeOK /\ Conserved /\ Staged /\ Joins /\ Latch /\ SpansOnce /\ QuietAfterJoin
      /\ \A w \in Workers : Marks(w) /\ Body(w) /\ Tasks(w)
  BY DEF IInv
<1>2. TypeOK' /\ Conserved' /\ Staged' /\ Joins' /\ Latch' /\ QuietAfterJoin'
  BY <1>1, TypeStep, ConservedStep, StagedStep, JoinsStep, LatchStep, QuietStep
<1>3. SpansOnce'
  BY SpansStep
<1>4. \A w \in Workers : Marks(w)' /\ Body(w)' /\ Tasks(w)'
  BY <1>1, MarksStep, BodyStep, TasksStep
<1> QED
  BY <1>2, <1>3, <1>4 DEF IInv

\* join_all and Pipe::drive keep the promise of a load for every number of workers and
\* spans, every chunk and channel size, and every failure, panic and lost answer:
\* finalize publishes each span exactly once or nothing, after the last write of every
\* worker that was not lost, and a failed load reports exactly one cause.
THEOREM PublishesWholeHolds == CrewAssumption => (Spec => []PublishesWhole)
<1> SUFFICES ASSUME CrewAssumption PROVE Spec => []PublishesWhole
  OBVIOUS
<1>1. Init => IInv
  BY InvInit
<1>2. IInv /\ [Next]_vars => IInv'
  BY InvStep
<1>3. IInv => PublishesWhole
  <2> SUFFICES ASSUME IInv PROVE FailureHasACause /\ OneCause
    BY DEF IInv, PublishesWhole
  <2>1. OneCause
    BY DEF IInv, Latch, Claimant, OneCause
  <2>2. FailureHasACause
    BY DEF IInv, Latch, Joins, Tasks, TypeOK, FailureHasACause
  <2> QED
    BY <2>1, <2>2
<1> QED
  BY <1>1, <1>2, <1>3, PTL DEF Spec

-----------------------------------------------------------------------------
(* Iceberg's commits, for any number of writers in any mixture of modes.   *)

Snaps == DOMAIN table.snaps
Of(w) == {r \in wire : r.id[1] = w}
HasLanded(w) == \E i \in Snaps : i[1] = w

Snapshot == [files : SUBSET Writers, wrote : Nat, schema : Nat]
Histories == UNION {[D -> Snapshot] : D \in SUBSET Ids}
Tables == [cur : Ids \cup {NoSnap}, snaps : Histories, schema : Nat, wm : SUBSET Writers]
Local == [pc : {"new", "load", "final", "try", "sent", "conflict", "unknown", "fail", "over"},
          rows : {0, 1}, listed : BOOLEAN, att : 0..Attempts, amb : BOOLEAN, meta : Tables,
          schema0 : Nat, end : {"none", "empty", "done", "err", "unknown"}]
Requests == [id : Ids, parent : Ids \cup {NoSnap}, schema : Nat, files : SUBSET Writers,
             wm : SUBSET Writers, st : {"open", "applied", "refused"}]

Types ==
    /\ mode \in Modes /\ table \in Tables
    /\ run \in [Writers -> Local] /\ wire \subseteq Requests

\* The metadata a writer works from is a past of the table.
Past(m) ==
    /\ DOMAIN m.snaps \subseteq Snaps
    /\ \A i \in DOMAIN m.snaps : m.snaps[i] = table.snaps[i]
    /\ m.cur \in DOMAIN m.snaps \cup {NoSnap}
    /\ m.wm \subseteq Content(m)

\* What a snapshot with this parent may carry over.
Under(p) == IF p = NoSnap THEN {} ELSE table.snaps[p].files

\* A request is a snapshot of its writer over a past of the table, and one that could still
\* be applied is of a writer that has not landed.
WellFormed(r) ==
    /\ r.id[2] <= run[r.id[1]].att
    /\ r.st = "applied" <=> r.id \in Snaps
    /\ r.parent \in Snaps \cup {NoSnap}
    /\ r.files = (IF mode[r.id[1]] \in {"append", "merge"} THEN Under(r.parent) ELSE {})
                    \cup {r.id[1]}
    /\ mode[r.id[1]] = "flipped" => r.parent = NoSnap
    /\ r.wm \subseteq r.files
    /\ r.st = "open" /\ r.parent = table.cur => ~HasLanded(r.id[1])

Ledger ==
    /\ \A r \in wire : WellFormed(r)
    /\ \A r, q \in wire : r.id = q.id => r = q
    /\ \A i \in Snaps : \E r \in wire : r.id = i
    /\ \A i \in Snaps : \A w \in table.snaps[i].files : HasLanded(w)
    /\ \A i, j \in Snaps : i[1] = j[1] => i = j
    /\ table.cur \in Snaps \cup {NoSnap}
    /\ table.wm \subseteq Content(table)
    /\ WrittenForSchema

\* Where a writer is in its commit loop says what its earlier attempts can still do: a
\* definite failure has none that could land.
Loop(w) ==
    /\ Past(run[w].meta)
    /\ run[w].pc \in {"new", "load", "final"} => run[w].att = 0 /\ run[w].end = "none"
    /\ run[w].pc \in {"new", "load"} => run[w].rows = 0
    /\ run[w].listed =>
          run[w].att = 0 /\ run[w].end = "none" /\ run[w].pc \in {"final", "fail"}
    /\ run[w].pc = "fail" /\ run[w].end = "none" => run[w].att = 0
    /\ run[w].end # "none" => run[w].pc \in {"fail", "over"}
    /\ run[w].pc = "over" => run[w].end # "none"
    /\ run[w].att = 0 => ~run[w].amb
    /\ run[w].pc \in {"sent", "conflict", "unknown"} => run[w].att > 0
    /\ run[w].pc = "try" => run[w].att < Attempts /\ run[w].meta.cur \notin Tried(w)
    /\ run[w].pc \in {"load", "final", "try"} /\ run[w].meta.cur = table.cur => ~HasLanded(w)
    /\ run[w].pc = "sent" => \E r \in wire : r.id = <<w, run[w].att>>
    /\ run[w].pc \in {"try", "conflict"} /\ ~run[w].amb => \A r \in Of(w) : r.st = "refused"
    /\ run[w].pc = "sent" /\ ~run[w].amb =>
          \A r \in Of(w) : r.id[2] # run[w].att => r.st = "refused"
    /\ run[w].end = "err" => \A r \in Of(w) : r.st = "refused"
    /\ run[w].end = "done" => HasLanded(w)

Owned(w) == {<<w, "data">>, <<w, "del">>}

\* A writer whose commit may stand has its files in storage; one that failed has none.
MayStand(w) ==
    \/ run[w].pc \in {"try", "sent", "conflict", "unknown"}
    \/ run[w].pc = "final" /\ run[w].listed
    \/ \E r \in Of(w) : r.st # "refused"
HasNothing(w) ==
    \/ run[w].pc = "new" \/ (run[w].pc = "final" /\ ~run[w].listed)
    \/ run[w].end = "err" \/ (run[w].pc = "fail" /\ run[w].end = "none" /\ ~run[w].listed)
Held(w) ==
    /\ <<w, "del">> \in ups \cup objs => mode[w] = "merge"
    /\ MayStand(w) => Files(w) \subseteq objs
    /\ HasNothing(w) => Files(w) \cap objs = {}
    /\ run[w].pc = "final" => (run[w].rows = 1 <=> run[w].listed)
    /\ run[w].pc = "load" =>
          /\ <<w, "data">> \notin objs
          /\ mode[w] = "merge" => (<<w, "del">> \in objs <=> <<w, "del">> \notin ups)
    /\ run[w].pc = "over" /\ run[w].end = "err" => Files(w) \cap ups = {}

CommitInv ==
    /\ Types /\ Ledger
    /\ \A w \in Writers : Loop(w) /\ Held(w)

-----------------------------------------------------------------------------
\* What the types say, without the function sets.
LEMMA TableShape ==
    ASSUME NEW t \in Tables
    PROVE  /\ DOMAIN t.snaps \subseteq Ids
           /\ \A i \in DOMAIN t.snaps : t.snaps[i] \in Snapshot
<1>1. PICK D \in SUBSET Ids : t.snaps \in [D -> Snapshot]
  BY DEF Tables, Histories
<1> QED
  BY <1>1

\* Two writers share no file.
LEMMA FilesApart ==
    ASSUME NEW v, NEW w
    PROVE  /\ v # w => Owned(v) \cap Owned(w) = {}
           /\ Files(w) \subseteq Owned(w) /\ <<w, "data">> \in Files(w)
           /\ <<w, "del">> \in Files(w) <=> mode[w] = "merge"
           /\ mode[w] = "merge" => Files(w) = {<<w, "data">>, <<w, "del">>}
           /\ mode[w] # "merge" => Files(w) = {<<w, "data">>}
BY DEF Files, Kinds, Owned

\* A writer none of whose requests stands has not landed.
LEMMA RefusedNeverLanded ==
    ASSUME Ledger, NEW w, \A r \in Of(w) : r.st = "refused"
    PROVE  ~HasLanded(w)
<1> SUFFICES ASSUME NEW i \in Snaps, i[1] = w
             PROVE  FALSE
  BY DEF HasLanded
<1>1. PICK r \in wire : r.id = i
  BY DEF Ledger
<1> QED
  BY <1>1 DEF Ledger, WellFormed, Of

\* A writer that has tried nothing has no request and no snapshot.
LEMMA NothingTried ==
    ASSUME Types, Ledger, NEW w \in Writers, run[w].att = 0
    PROVE  Of(w) = {} /\ ~HasLanded(w)
<1>1. \A r \in Of(w) : FALSE
  <2> SUFFICES ASSUME NEW r \in wire, r.id[1] = w
               PROVE  FALSE
    BY DEF Of
  <2>1. r.id \in Ids
    BY DEF Types, Requests
  <2>2. r.id[2] \in 1..Attempts
    BY <2>1 DEF Ids
  <2>3. r.id[2] <= 0
    BY DEF Ledger, WellFormed
  <2> QED
    BY <2>2, <2>3 DEF Attempts
<1> QED
  BY <1>1, RefusedNeverLanded

\* Requests and the table untouched, and no count of attempts lowered.
LEMMA LedgerFrame ==
    ASSUME Types, Ledger, UNCHANGED <<mode, table, wire>>,
           \A v \in Writers : run'[v].att \in Nat /\ run[v].att <= run'[v].att
    PROVE  Ledger'
<1>1. \A r \in wire : WellFormed(r)'
  <2> SUFFICES ASSUME NEW r \in wire
               PROVE  WellFormed(r)'
    OBVIOUS
  <2>1. r.id[1] \in Writers /\ r.id[2] \in 1..Attempts /\ run[r.id[1]].att \in 0..Attempts
    BY DEF Types, Requests, Ids, Local
  <2>2. r.id[2] <= run'[r.id[1]].att
    BY <2>1 DEF Ledger, WellFormed, Attempts
  <2> QED
    BY <2>2 DEF Ledger, WellFormed, Under, HasLanded, Snaps
<1>2. Content(table)' = Content(table)
  BY DEF Content
<1> QED
  BY <1>1, <1>2 DEF Ledger, HasLanded, Snaps, WrittenForSchema

LEMMA LoopFrame ==
    ASSUME NEW v, Loop(v), UNCHANGED <<mode, table, wire>>, run'[v] = run[v]
    PROVE  Loop(v)'
BY DEF Loop, Past, Content, HasLanded, Snaps, Of, Tried

LEMMA HeldFrame ==
    ASSUME NEW v, Held(v), UNCHANGED <<mode, wire>>, run'[v] = run[v],
           \A f \in Owned(v) : (f \in objs' <=> f \in objs) /\ (f \in ups' <=> f \in ups)
    PROVE  Held(v)'
<1>1. Files(v)' = Files(v)
  BY DEF Files, Kinds
<1>2. (MayStand(v)' <=> MayStand(v)) /\ (HasNothing(v)' <=> HasNothing(v))
  BY DEF MayStand, HasNothing, Of
<1>3. Files(v) \subseteq Owned(v) /\ <<v, "data">> \in Owned(v) /\ <<v, "del">> \in Owned(v)
  BY FilesApart DEF Owned
<1> QED
  BY <1>1, <1>2, <1>3 DEF Held

\* A step of one writer that touches its own files only, and no request.
LEMMA Alone ==
    ASSUME CommitInv, NEW w \in Writers, UNCHANGED <<mode, table, wire>>,
           run' \in [Writers -> Local],
           \A v \in Writers \ {w} : run'[v] = run[v],
           run[w].att <= run'[w].att,
           \A f : f \notin Owned(w) => (f \in objs' <=> f \in objs) /\ (f \in ups' <=> f \in ups),
           Loop(w)', Held(w)'
    PROVE  CommitInv'
<1>1. Types'
  BY DEF CommitInv, Types
<1>2. Ledger'
  <2>1. \A v \in Writers : run'[v].att \in Nat /\ run[v].att <= run'[v].att
    BY DEF CommitInv, Types, Local, Attempts
  <2> QED
    BY <2>1, LedgerFrame DEF CommitInv
<1>3. ASSUME NEW v \in Writers, v # w
      PROVE  Loop(v)' /\ Held(v)'
  <2>1. Loop(v)'
    BY <1>3, LoopFrame DEF CommitInv
  <2>2. \A f \in Owned(v) : f \notin Owned(w)
    BY <1>3, FilesApart
  <2> QED
    BY <1>3, <2>1, <2>2, HeldFrame DEF CommitInv
<1> QED
  BY <1>1, <1>2, <1>3 DEF CommitInv

-----------------------------------------------------------------------------
(* Loading.                                                                *)

\* What a writer's own fields say of its loop, when nothing else moved.
LEMMA LoopMoves ==
    ASSUME CommitInv, NEW w \in Writers, UNCHANGED <<mode, table, wire>>,
           run'[w].att = run[w].att,
           run'[w].meta = run[w].meta \/ run'[w].meta = table
    PROVE  /\ Past(run[w].meta)'
           /\ HasLanded(w)' <=> HasLanded(w)
           /\ Of(w)' = Of(w) /\ Tried(w)' = Tried(w)
<1>1. Past(run[w].meta)
  BY DEF CommitInv, Loop
<1>2. Past(table)
  BY DEF CommitInv, Ledger, Past, Snaps, Content
<1>3. \A m : Past(m) => Past(m)'
  BY DEF Past, Snaps, Content
<1>4. Past(run[w].meta)'
  <2>1. CASE run'[w].meta = run[w].meta
    BY <1>1, <2>1 DEF Past, Snaps, Content
  <2>2. CASE run'[w].meta = table
    BY <1>2, <2>2 DEF Past, Snaps, Content
  <2> QED
    BY <2>1, <2>2
<1> QED
  BY <1>4 DEF HasLanded, Snaps, Of, Tried

LEMMA PrepareStep ==
    ASSUME CommitInv, UNCHANGED mode, NEW w \in Writers, Prepare(w)
    PROVE  CommitInv'
<1>0. table \in Tables /\ table.schema \in Nat
  BY DEF CommitInv, Types, Tables
<1>1. /\ run' \in [Writers -> Local] /\ \A v \in Writers \ {w} : run'[v] = run[v]
      /\ run'[w].pc = "load" /\ run'[w].meta = table /\ run'[w].att = run[w].att
      /\ run'[w].amb = run[w].amb /\ run'[w].end = run[w].end
      /\ run'[w].listed = run[w].listed /\ run'[w].rows = run[w].rows
  <2> DEFINE l == [run[w] EXCEPT !.pc = "load", !.meta = table, !.schema0 = table.schema]
  <2>1. run \in [Writers -> Local]
    BY DEF CommitInv, Types
  <2>2. run' = [run EXCEPT ![w] = l]
    BY <2>1 DEF Prepare
  <2>3. /\ l \in Local /\ l.pc = "load" /\ l.meta = table /\ l.att = run[w].att
        /\ l.amb = run[w].amb /\ l.end = run[w].end /\ l.listed = run[w].listed
        /\ l.rows = run[w].rows
    BY <1>0, <2>1 DEF Local
  <2> HIDE DEF l
  <2> QED
    BY <2>1, <2>2, <2>3
<1>2. UNCHANGED <<table, wire, objs>> /\ ups' = ups \cup Files(w) /\ run[w].pc = "new"
  BY DEF Prepare
<1>3. run[w].att = 0 /\ run[w].end = "none" /\ ~run[w].listed /\ run[w].rows = 0
  BY <1>2 DEF CommitInv, Loop
<1>4. ~HasLanded(w) /\ Of(w) = {}
  BY <1>3, NothingTried DEF CommitInv
<1>5. Loop(w)'
  BY <1>1, <1>2, <1>3, <1>4, LoopMoves DEF Loop, CommitInv
<1>6. Held(w)'
  <2>1. Files(w) \cap objs = {}
    BY <1>2 DEF CommitInv, Held, HasNothing
  <2>2. ~MayStand(w)' /\ ~HasNothing(w)'
    BY <1>1, <1>2, <1>3, <1>4 DEF MayStand, HasNothing, Of
  <2>3. Files(w)' = Files(w)
    BY DEF Files, Kinds
  <2>4. /\ <<w, "del">> \in ups \cup objs => mode[w] = "merge"
        /\ <<w, "data">> \in Files(w) /\ (<<w, "del">> \in Files(w) <=> mode[w] = "merge")
    BY FilesApart DEF CommitInv, Held
  <2> QED
    BY <1>1, <1>2, <2>1, <2>2, <2>3, <2>4 DEF Held
<1>7. \A f : f \notin Owned(w) => (f \in objs' <=> f \in objs) /\ (f \in ups' <=> f \in ups)
  BY <1>2, FilesApart
<1>8. run[w].att <= run'[w].att
  BY <1>1, <1>3
<1> QED
  BY <1>1, <1>2, <1>5, <1>6, <1>7, <1>8, Alone

\* A load that ends with no file completed, its uploads aborted as far as that went.
LEMMA LoadFails ==
    ASSUME CommitInv, UNCHANGED <<mode, table, wire>>, NEW w \in Writers, run[w].pc = "load",
           \A f : f \notin Owned(w) => (f \in objs' <=> f \in objs) /\ (f \in ups' <=> f \in ups),
           Owned(w) \cap objs' = {}, <<w, "del">> \in ups' => mode[w] = "merge",
           NEW to \in {"fail", "final"},
           run' = [run EXCEPT ![w].pc = to]
    PROVE  CommitInv'
<1>1. /\ run' \in [Writers -> Local] /\ \A v \in Writers \ {w} : run'[v] = run[v]
      /\ run'[w].pc = to /\ run'[w].meta = run[w].meta /\ run'[w].att = run[w].att
      /\ run'[w].amb = run[w].amb /\ run'[w].end = run[w].end
      /\ run'[w].listed = run[w].listed /\ run'[w].rows = run[w].rows
  BY DEF CommitInv, Types, Local
<1>3. run[w].att = 0 /\ run[w].end = "none" /\ ~run[w].listed /\ run[w].rows = 0
  BY DEF CommitInv, Loop
<1>4. ~HasLanded(w) /\ Of(w) = {}
  BY <1>3, NothingTried DEF CommitInv
<1>5. Loop(w)'
  BY <1>1, <1>3, <1>4, LoopMoves DEF Loop, CommitInv
<1>6. Held(w)'
  <2>1. ~MayStand(w)'
    BY <1>1, <1>3, <1>4 DEF MayStand, Of
  <2>2. Files(w)' = Files(w)
    BY DEF Files, Kinds
  <2>3. Files(w) \subseteq Owned(w)
    BY FilesApart
  <2> QED
    BY <1>1, <1>3, <2>1, <2>2, <2>3 DEF Held, Owned, CommitInv
<1> QED
  BY <1>1, <1>3, <1>5, <1>6, Alone

LEMMA FailStep ==
    ASSUME CommitInv, UNCHANGED mode, NEW w \in Writers,
           LoadAborted(w) \/ LoadEmpty(w) \/ DelFails(w) \/ DataFails(w)
    PROVE  CommitInv'
<1>1. /\ UNCHANGED <<mode, table, wire>> /\ run[w].pc = "load"
  BY DEF LoadAborted, LoadEmpty, DelFails, DataFails, DataReady
<1>2. Files(w) \subseteq Owned(w) /\ (<<w, "del">> \in Files(w) => mode[w] = "merge")
  BY FilesApart
<1>3. PICK to \in {"fail", "final"} : run' = [run EXCEPT ![w].pc = to]
  BY DEF LoadAborted, LoadEmpty, DelFails, DataFails, FailedLoad
<1>4. /\ <<w, "data">> \notin objs
      /\ mode[w] = "merge" => (<<w, "del">> \in objs <=> <<w, "del">> \notin ups)
      /\ <<w, "del">> \in ups \cup objs => mode[w] = "merge"
  BY <1>1 DEF CommitInv, Held
<1>5. \A f : f \notin Owned(w) => (f \in objs' <=> f \in objs) /\ (f \in ups' <=> f \in ups)
  BY <1>2 DEF LoadAborted, LoadEmpty, DelFails, DataFails, FailedLoad, Owned
<1>6. Owned(w) \cap objs' = {}
  <2>1. CASE LoadAborted(w) \/ LoadEmpty(w)
    BY <1>4, <2>1, FilesApart DEF LoadAborted, LoadEmpty, Owned
  <2>2. CASE DelFails(w)
    BY <1>4, <2>2 DEF DelFails, Owned
  <2>3. CASE DataFails(w)
    BY <1>4, <2>3 DEF DataFails, Owned
  <2> QED
    BY <2>1, <2>2, <2>3
<1>7. <<w, "del">> \in ups' => mode[w] = "merge"
  BY <1>2, <1>4 DEF LoadAborted, LoadEmpty, DelFails, DataFails, FailedLoad
<1> QED
  BY <1>1, <1>3, <1>5, <1>6, <1>7, LoadFails

LEMMA DelCompletesStep ==
    ASSUME CommitInv, UNCHANGED mode, NEW w \in Writers, DelCompletes(w)
    PROVE  CommitInv'
<1>1. /\ UNCHANGED <<mode, table, wire, run>> /\ run[w].pc = "load"
      /\ <<w, "del">> \in ups /\ ups' = ups \ {<<w, "del">>} /\ objs' = objs \cup {<<w, "del">>}
  BY DEF DelCompletes
<1>2. /\ run \in [Writers -> Local] /\ run[w].att \in 0..Attempts
      /\ run[w].att = 0 /\ run[w].end = "none" /\ ~run[w].listed
  BY <1>1 DEF CommitInv, Types, Local, Loop
<1>3. Of(w) = {}
  BY <1>2, NothingTried DEF CommitInv
<1>4. Loop(w)'
  BY <1>1, LoopFrame DEF CommitInv
<1>5. Held(w)'
  <2>1. ~MayStand(w)' /\ ~HasNothing(w)'
    BY <1>1, <1>2, <1>3 DEF MayStand, HasNothing, Of
  <2> QED
    BY <1>1, <2>1 DEF CommitInv, Held
<1>6. \A f : f \notin Owned(w) => (f \in objs' <=> f \in objs) /\ (f \in ups' <=> f \in ups)
  BY <1>1 DEF Owned
<1>7. run' \in [Writers -> Local] /\ (\A v \in Writers \ {w} : run'[v] = run[v])
      /\ run[w].att <= run'[w].att
  BY <1>1, <1>2
<1> QED
  BY <1>1, <1>4, <1>5, <1>6, <1>7, Alone

LEMMA DataCompletesStep ==
    ASSUME CommitInv, UNCHANGED mode, NEW w \in Writers, DataCompletes(w)
    PROVE  CommitInv'
<1>1. /\ UNCHANGED <<mode, table, wire>> /\ run[w].pc = "load" /\ <<w, "del">> \notin ups
      /\ ups' = ups \ Files(w) /\ objs' = objs \cup {<<w, "data">>}
  BY DEF DataCompletes, DataReady
<1>2. /\ run' \in [Writers -> Local] /\ \A v \in Writers \ {w} : run'[v] = run[v]
      /\ run'[w].pc = "final" /\ run'[w].meta = run[w].meta /\ run'[w].att = run[w].att
      /\ run'[w].amb = run[w].amb /\ run'[w].end = run[w].end
      /\ run'[w].listed = TRUE /\ run'[w].rows = 1
  <2> DEFINE l == [run[w] EXCEPT !.pc = "final", !.rows = 1, !.listed = TRUE]
  <2>1. run \in [Writers -> Local]
    BY DEF CommitInv, Types
  <2>2. run' = [run EXCEPT ![w] = l]
    BY <2>1 DEF DataCompletes
  <2>3. /\ l \in Local /\ l.pc = "final" /\ l.meta = run[w].meta /\ l.att = run[w].att
        /\ l.amb = run[w].amb /\ l.end = run[w].end /\ l.listed = TRUE
        /\ l.rows = 1
    BY <2>1 DEF Local
  <2> HIDE DEF l
  <2> QED
    BY <2>1, <2>2, <2>3
<1>3. run[w].att = 0 /\ run[w].end = "none"
  BY <1>1 DEF CommitInv, Loop
<1>4. ~HasLanded(w) /\ Of(w) = {}
  BY <1>3, NothingTried DEF CommitInv
<1>5. Loop(w)'
  BY <1>1, <1>2, <1>3, <1>4, LoopMoves DEF Loop, CommitInv
<1>6. Held(w)'
  <2>1. ~HasNothing(w)'
    BY <1>2, <1>3 DEF HasNothing
  <2>2. Files(w)' = Files(w)
    BY DEF Files, Kinds
  <2>3. Files(w) \subseteq objs'
    <3>1. mode[w] = "merge" => <<w, "del">> \in objs
      BY <1>1 DEF CommitInv, Held
    <3>2. CASE mode[w] = "merge"
      <4>1. Files(w) = {<<w, "data">>, <<w, "del">>}
        BY <3>2, FilesApart
      <4> QED
        BY <1>1, <3>1, <3>2, <4>1
    <3>3. CASE mode[w] # "merge"
      BY <1>1, <3>3, FilesApart
    <3> QED
      BY <3>2, <3>3
  <2>4. <<w, "del">> \in ups' \cup objs' => mode[w] = "merge"
    BY <1>1 DEF CommitInv, Held
  <2> QED
    BY <1>1, <1>2, <2>1, <2>2, <2>3, <2>4 DEF Held
<1>7. \A f : f \notin Owned(w) => (f \in objs' <=> f \in objs) /\ (f \in ups' <=> f \in ups)
  BY <1>1, FilesApart DEF Owned
<1>8. run[w].att <= run'[w].att
  BY <1>2, <1>3
<1> QED
  BY <1>1, <1>2, <1>5, <1>6, <1>7, <1>8, Alone

LEMMA PeerWorkerFailsStep ==
    ASSUME CommitInv, UNCHANGED mode, NEW w \in Writers, PeerWorkerFails(w)
    PROVE  CommitInv'
<1>1. UNCHANGED <<mode, table, wire, objs, ups>> /\ run[w].pc = "final"
  BY DEF PeerWorkerFails
<1>2. /\ run' \in [Writers -> Local] /\ \A v \in Writers \ {w} : run'[v] = run[v]
      /\ run'[w].pc = "fail" /\ run'[w].meta = run[w].meta /\ run'[w].att = run[w].att
      /\ run'[w].amb = run[w].amb /\ run'[w].end = run[w].end
      /\ run'[w].listed = run[w].listed
  BY DEF PeerWorkerFails, CommitInv, Types, Local
<1>3. run[w].att = 0 /\ run[w].end = "none"
  BY <1>1 DEF CommitInv, Loop
<1>4. ~HasLanded(w) /\ Of(w) = {}
  BY <1>3, NothingTried DEF CommitInv
<1>5. Loop(w)'
  BY <1>1, <1>2, <1>3, <1>4, LoopMoves DEF Loop, CommitInv
<1>6. Held(w)'
  <2>1. ~MayStand(w)' /\ (HasNothing(w)' => HasNothing(w))
    BY <1>1, <1>2, <1>3, <1>4 DEF HasNothing, MayStand, Of
  <2>2. Files(w)' = Files(w)
    BY DEF Files, Kinds
  <2> QED
    BY <1>1, <1>2, <2>1, <2>2 DEF Held, CommitInv
<1>8. run[w].att <= run'[w].att
  BY <1>2, <1>3
<1> QED
  BY <1>1, <1>2, <1>5, <1>6, <1>8, Alone

\* The pipeline's discard: a run that took no list, or took it back, sweeps nothing that a
\* commit of its own could need.
LEMMA DiscardFilesStep ==
    ASSUME CommitInv, UNCHANGED mode, NEW w \in Writers, DiscardFiles(w)
    PROVE  CommitInv'
<1> DEFINE e == IF run[w].end = "none" THEN "err" ELSE run[w].end
<1>1. /\ UNCHANGED <<mode, table, wire>> /\ run[w].pc = "fail" /\ ups' = ups \ Files(w)
      /\ objs' = IF run[w].listed THEN objs \ Files(w) ELSE objs
  BY DEF DiscardFiles
<1>2. /\ run' \in [Writers -> Local] /\ \A v \in Writers \ {w} : run'[v] = run[v]
      /\ run'[w].pc = "over" /\ run'[w].meta = run[w].meta /\ run'[w].att = run[w].att
      /\ run'[w].amb = run[w].amb /\ run'[w].end = e /\ run'[w].listed = FALSE
  <2> DEFINE l == [run[w] EXCEPT !.pc = "over", !.listed = FALSE, !.end = e]
  <2>1. run \in [Writers -> Local]
    BY DEF CommitInv, Types
  <2>2. run' = [run EXCEPT ![w] = l]
    BY <2>1 DEF DiscardFiles
  <2>3. /\ l \in Local /\ l.pc = "over" /\ l.meta = run[w].meta /\ l.att = run[w].att
        /\ l.amb = run[w].amb /\ l.end = e /\ l.listed = FALSE
    BY <2>1 DEF Local
  <2> HIDE DEF l
  <2> QED
    BY <2>1, <2>2, <2>3
<1>3. run[w].end = "none" => run[w].att = 0 /\ ~HasLanded(w) /\ Of(w) = {}
  BY <1>1, NothingTried DEF CommitInv, Loop
<1>4. Loop(w)
  BY DEF CommitInv
<1>5. Loop(w)'
  <2>1. /\ Past(run[w].meta)' /\ (HasLanded(w)' <=> HasLanded(w))
        /\ Of(w)' = Of(w) /\ Tried(w)' = Tried(w)
    BY <1>1, <1>2, LoopMoves
  <2>2. e # "none" /\ (e = "err" => \A r \in Of(w) : r.st = "refused")
        /\ (e = "done" => HasLanded(w))
    BY <1>3, <1>4 DEF Loop
  <2> QED
    BY <1>1, <1>2, <1>4, <2>1, <2>2 DEF Loop
<1>6. Held(w)'
  <2>1. Files(w)' = Files(w) /\ Of(w)' = Of(w)
    BY <1>1 DEF Files, Kinds, Of
  <2>2. MayStand(w)' => MayStand(w) /\ ~run[w].listed
    BY <1>1, <1>2, <1>3, <1>4, <2>1 DEF MayStand, Loop
  <2>3. HasNothing(w)' => Files(w) \cap objs' = {}
    <3>1. CASE run[w].listed
      BY <1>1, <3>1
    <3>2. CASE ~run[w].listed
      <4>1. HasNothing(w)' => HasNothing(w)
        BY <1>1, <1>2, <3>2 DEF HasNothing
      <4> QED
        BY <1>1, <3>2, <4>1 DEF CommitInv, Held
    <3> QED
      BY <3>1, <3>2
  <2> QED
    BY <1>1, <1>2, <2>1, <2>2, <2>3 DEF Held, CommitInv
<1>7. \A f : f \notin Owned(w) => (f \in objs' <=> f \in objs) /\ (f \in ups' <=> f \in ups)
  BY <1>1, FilesApart
<1>8. run[w].att <= run'[w].att
  BY <1>2 DEF CommitInv, Types, Local, Attempts
<1> QED
  BY <1>1, <1>2, <1>5, <1>6, <1>7, <1>8, Alone

LEMMA FinalizeEmptyStep ==
    ASSUME CommitInv, UNCHANGED mode, NEW w \in Writers, FinalizeEmpty(w)
    PROVE  CommitInv'
<1>1. /\ UNCHANGED <<mode, table, wire, ups>> /\ run[w].pc = "final" /\ run[w].rows = 0
      /\ objs' = IF run[w].listed THEN objs \ Files(w) ELSE objs
  BY DEF FinalizeEmpty
<1>2. /\ run' \in [Writers -> Local] /\ \A v \in Writers \ {w} : run'[v] = run[v]
      /\ run'[w].pc = "over" /\ run'[w].meta = run[w].meta /\ run'[w].att = run[w].att
      /\ run'[w].amb = run[w].amb /\ run'[w].end = "empty" /\ run'[w].listed = FALSE
  <2> DEFINE l == [run[w] EXCEPT !.pc = "over", !.listed = FALSE, !.end = "empty"]
  <2>1. run \in [Writers -> Local]
    BY DEF CommitInv, Types
  <2>2. run' = [run EXCEPT ![w] = l]
    BY <2>1 DEF FinalizeEmpty
  <2>3. /\ l \in Local /\ l.pc = "over" /\ l.meta = run[w].meta /\ l.att = run[w].att
        /\ l.amb = run[w].amb /\ l.end = "empty" /\ l.listed = FALSE
    BY <2>1 DEF Local
  <2> HIDE DEF l
  <2> QED
    BY <2>1, <2>2, <2>3
<1>3. run[w].att = 0 /\ run[w].end = "none"
  BY <1>1 DEF CommitInv, Loop
<1>4. ~HasLanded(w) /\ Of(w) = {}
  BY <1>3, NothingTried DEF CommitInv
<1>5. Loop(w)'
  BY <1>1, <1>2, <1>3, <1>4, LoopMoves DEF Loop, CommitInv
<1>6. Held(w)'
  <2>1. ~MayStand(w)' /\ ~HasNothing(w)'
    BY <1>1, <1>2, <1>3, <1>4 DEF HasNothing, MayStand, Of
  <2> QED
    BY <1>1, <1>2, <2>1 DEF Held, CommitInv
<1>7. \A f : f \notin Owned(w) => (f \in objs' <=> f \in objs) /\ (f \in ups' <=> f \in ups)
  BY <1>1, FilesApart
<1>8. run[w].att <= run'[w].att
  BY <1>2, <1>3
<1> QED
  BY <1>1, <1>2, <1>5, <1>6, <1>7, <1>8, Alone

LEMMA FinalizeFilesStep ==
    ASSUME CommitInv, UNCHANGED mode, NEW w \in Writers, FinalizeFiles(w)
    PROVE  CommitInv'
<1>1. UNCHANGED <<mode, table, wire, ups, objs>> /\ run[w].pc = "final" /\ run[w].rows > 0
  BY DEF FinalizeFiles
<1>2. /\ run' \in [Writers -> Local] /\ \A v \in Writers \ {w} : run'[v] = run[v]
      /\ run'[w].pc = "try" /\ run'[w].meta = run[w].meta /\ run'[w].att = run[w].att
      /\ run'[w].amb = run[w].amb /\ run'[w].end = run[w].end /\ run'[w].listed = FALSE
  BY DEF FinalizeFiles, CommitInv, Types, Local
<1>3. run[w].att = 0 /\ run[w].end = "none" /\ run[w].listed /\ ~run[w].amb
  <2>1. run[w].rows \in {0, 1}
    BY DEF CommitInv, Types, Local
  <2>2. run[w].rows = 1
    BY <1>1, <2>1
  <2>3. run[w].listed
    BY <1>1, <2>2 DEF CommitInv, Held
  <2> QED
    BY <1>1, <2>3 DEF CommitInv, Loop
<1>4. ~HasLanded(w) /\ Of(w) = {} /\ Tried(w) = {}
  BY <1>3, NothingTried DEF CommitInv, Tried
<1>5. Loop(w)'
  <2>1. /\ Past(run[w].meta)' /\ (HasLanded(w)' <=> HasLanded(w))
        /\ Of(w)' = Of(w) /\ Tried(w)' = Tried(w)
    BY <1>1, <1>2, LoopMoves
  <2>2. 0 < Attempts
    BY DEF Attempts
  <2> QED
    BY <1>1, <1>2, <1>3, <1>4, <2>1, <2>2 DEF Loop
<1>6. Held(w)'
  <2>1. ~HasNothing(w)' /\ MayStand(w)
    BY <1>1, <1>2, <1>3 DEF HasNothing, MayStand
  <2>2. Files(w)' = Files(w)
    BY DEF Files, Kinds
  <2> QED
    BY <1>1, <1>2, <2>1, <2>2 DEF Held, CommitInv
<1>8. run[w].att <= run'[w].att
  BY <1>2, <1>3
<1> QED
  BY <1>1, <1>2, <1>5, <1>6, <1>8, Alone

-----------------------------------------------------------------------------
(* The commit loop.                                                        *)

\* finalize's end.  A definite failure sweeps the files: none of its requests stands.
LEMMA EndsStep ==
    ASSUME CommitInv, UNCHANGED <<mode, table, ups, wire>>, NEW w \in Writers,
           run[w].pc \in {"try", "sent", "conflict", "unknown"},
           NEW how \in {"done", "err", "unknown"}, Ends(w, how),
           how = "err" => \A r \in Of(w) : r.st = "refused",
           how = "done" => HasLanded(w)
    PROVE  CommitInv'
<1> DEFINE to == IF how = "done" THEN "over" ELSE "fail"
<1>1. objs' = IF how = "err" THEN objs \ Files(w) ELSE objs
  BY DEF Ends
<1>2. /\ run' \in [Writers -> Local] /\ \A v \in Writers \ {w} : run'[v] = run[v]
      /\ run'[w].pc = to /\ run'[w].meta = run[w].meta /\ run'[w].att = run[w].att
      /\ run'[w].amb = run[w].amb /\ run'[w].end = how /\ run'[w].listed = run[w].listed
  <2> DEFINE l == [run[w] EXCEPT !.end = how, !.pc = to]
  <2>1. run \in [Writers -> Local]
    BY DEF CommitInv, Types
  <2>2. run' = [run EXCEPT ![w] = l]
    BY <2>1 DEF Ends
  <2>3. /\ l \in Local /\ l.pc = to /\ l.meta = run[w].meta /\ l.att = run[w].att
        /\ l.amb = run[w].amb /\ l.end = how /\ l.listed = run[w].listed
    BY <2>1 DEF Local
  <2> HIDE DEF l
  <2> QED
    BY <2>1, <2>2, <2>3
<1>3. Loop(w) /\ ~run[w].listed
  BY DEF CommitInv, Loop
<1>4. Files(w)' = Files(w) /\ Of(w)' = Of(w)
  BY DEF Files, Kinds, Of
<1>5. Loop(w)'
  <2>1. /\ Past(run[w].meta)' /\ (HasLanded(w)' <=> HasLanded(w))
        /\ Of(w)' = Of(w) /\ Tried(w)' = Tried(w)
    BY <1>2, LoopMoves
  <2> QED
    BY <1>2, <1>3, <2>1 DEF Loop
<1>6. Held(w)'
  <2>1. MayStand(w)' => MayStand(w) /\ how # "err"
    BY <1>2, <1>3, <1>4 DEF MayStand
  <2>2. HasNothing(w)' => how = "err"
    BY <1>2 DEF HasNothing
  <2>3. MayStand(w)' => Files(w) \subseteq objs'
    BY <1>1, <2>1 DEF CommitInv, Held
  <2>4. HasNothing(w)' => Files(w) \cap objs' = {}
    BY <1>1, <2>2
  <2>5. <<w, "del">> \in ups' \cup objs' => mode[w] = "merge"
    BY <1>1 DEF CommitInv, Held
  <2> QED
    BY <1>2, <1>4, <2>3, <2>4, <2>5 DEF Held
<1>7. \A f : f \notin Owned(w) => (f \in objs' <=> f \in objs) /\ (f \in ups' <=> f \in ups)
  BY <1>1, FilesApart
<1>8. run[w].att <= run'[w].att
  BY <1>2 DEF CommitInv, Types, Local, Attempts
<1> QED
  BY <1>2, <1>5, <1>6, <1>7, <1>8, Alone

LEMMA AttemptFailsStep ==
    ASSUME CommitInv, UNCHANGED mode, NEW w \in Writers, AttemptFails(w)
    PROVE  CommitInv'
<1>1. UNCHANGED <<mode, table, ups, wire>> /\ run[w].pc = "try" /\ Ends(w, ErrAs(w))
  BY DEF AttemptFails
<1>2. ErrAs(w) \in {"err", "unknown"} /\ (ErrAs(w) = "err" => ~run[w].amb)
  BY DEF ErrAs
<1>3. ~run[w].amb => \A r \in Of(w) : r.st = "refused"
  BY <1>1 DEF CommitInv, Loop
<1> QED
  BY <1>1, <1>2, <1>3, EndsStep

\* The request a waiting writer looks for is on the wire.
LEMMA MineThere ==
    ASSUME CommitInv, NEW w \in Writers, run[w].pc = "sent"
    PROVE  /\ Mine(w) \in wire /\ Mine(w).id = <<w, run[w].att>>
           /\ Mine(w) \in Of(w) /\ \A r \in wire : r.id = Mine(w).id => r = Mine(w)
<1>1. \E r \in wire : r.id = <<w, run[w].att>>
  BY DEF CommitInv, Loop
<1>2. Mine(w) \in wire /\ Mine(w).id = <<w, run[w].att>>
  BY <1>1 DEF Mine
<1> QED
  BY <1>2 DEF Of, CommitInv, Ledger

LEMMA AnswerDoneStep ==
    ASSUME CommitInv, UNCHANGED mode, NEW w \in Writers, AnswerDone(w)
    PROVE  CommitInv'
<1>1. /\ UNCHANGED <<mode, table, ups, wire>> /\ run[w].pc = "sent" /\ Ends(w, "done")
      /\ Mine(w).st = "applied"
  BY DEF AnswerDone
<1>2. Mine(w) \in wire /\ Mine(w).id[1] = w
  BY <1>1, MineThere
<1>3. HasLanded(w)
  BY <1>1, <1>2 DEF CommitInv, Ledger, WellFormed, HasLanded
<1> QED
  BY <1>1, <1>3, EndsStep

LEMMA ReloadEndsStep ==
    ASSUME CommitInv, UNCHANGED mode, NEW w \in Writers, ReloadFails(w) \/ ReloadLanded(w)
    PROVE  CommitInv'
<1>1. UNCHANGED <<mode, table, ups, wire>> /\ run[w].pc \in {"conflict", "unknown"}
  BY DEF ReloadFails, ReloadLanded
<1>2. CASE ReloadFails(w)
  BY <1>1, <1>2, EndsStep DEF ReloadFails
<1>3. CASE ReloadLanded(w)
  <2>1. HasLanded(w)
    BY <1>3 DEF ReloadLanded, Landed, Tried, HasLanded, Snaps
  <2> QED
    BY <1>1, <1>3, <2>1, EndsStep DEF ReloadLanded
<1> QED
  BY <1>2, <1>3

\* An answer that settles nothing about the files.
LEMMA AnswerStep ==
    ASSUME CommitInv, UNCHANGED mode, NEW w \in Writers, AnswerConflict(w) \/ AnswerUnknown(w)
    PROVE  CommitInv'
<1>1. UNCHANGED <<mode, table, objs, ups, wire>> /\ run[w].pc = "sent"
  BY DEF AnswerConflict, AnswerUnknown
<1>2. PICK to \in {"conflict", "unknown"} :
         /\ run' = [run EXCEPT ![w].pc = to]
         /\ to = "conflict" => Mine(w).st = "refused"
  BY DEF AnswerConflict, AnswerUnknown
<1>3. /\ run' \in [Writers -> Local] /\ \A v \in Writers \ {w} : run'[v] = run[v]
      /\ run'[w].pc = to /\ run'[w].meta = run[w].meta /\ run'[w].att = run[w].att
      /\ run'[w].amb = run[w].amb /\ run'[w].end = run[w].end
      /\ run'[w].listed = run[w].listed
  BY <1>2 DEF CommitInv, Types, Local
<1>4. /\ Loop(w) /\ ~run[w].listed /\ run[w].end = "none"
      /\ run[w].att > 0 /\ run[w].att # 0
  <2>1. run[w].att \in 0..Attempts
    BY DEF CommitInv, Types, Local
  <2> QED
    BY <1>1, <2>1 DEF CommitInv, Loop, Attempts
<1>5. to = "conflict" /\ ~run[w].amb => \A r \in Of(w) : r.st = "refused"
  <2> SUFFICES ASSUME to = "conflict", ~run[w].amb, NEW r \in Of(w)
               PROVE  r.st = "refused"
    OBVIOUS
  <2>1. CASE r.id[2] # run[w].att
    BY <1>1, <1>4, <2>1 DEF Loop
  <2>2. CASE r.id[2] = run[w].att
    <3>1. r \in wire /\ r.id \in Ids /\ r.id[1] = w
      BY DEF Of, CommitInv, Types, Requests
    <3>2. r.id = <<w, run[w].att>>
      BY <2>2, <3>1 DEF Ids
    <3> QED
      BY <1>1, <1>2, <3>1, <3>2, MineThere
  <2> QED
    BY <2>1, <2>2
<1>6. Loop(w)'
  <2>1. /\ Past(run[w].meta)' /\ (HasLanded(w)' <=> HasLanded(w))
        /\ Of(w)' = Of(w) /\ Tried(w)' = Tried(w)
    BY <1>1, <1>3, LoopMoves
  <2> QED
    BY <1>3, <1>4, <1>5, <2>1 DEF Loop
<1>7. Held(w)'
  <2>1. MayStand(w) /\ ~HasNothing(w)'
    BY <1>1, <1>3, <1>4 DEF MayStand, HasNothing
  <2>2. Files(w)' = Files(w)
    BY DEF Files, Kinds
  <2> QED
    BY <1>1, <1>3, <2>1, <2>2 DEF CommitInv, Held
<1>8. run[w].att <= run'[w].att
  BY <1>3 DEF CommitInv, Types, Local, Attempts
<1> QED
  BY <1>1, <1>3, <1>6, <1>7, <1>8, Alone

\* A reload that shows none of this run's snapshots: nothing of it landed.
LEMMA ReloadTruth ==
    ASSUME CommitInv, NEW w \in Writers, ~Landed(w, table)
    PROVE  ~HasLanded(w)
<1> SUFFICES ASSUME NEW i \in Snaps, i[1] = w
             PROVE  FALSE
  BY DEF HasLanded
<1>1. PICK r \in wire : r.id = i
  BY DEF CommitInv, Ledger
<1>2. r.id \in Ids /\ r.id[2] <= run[w].att /\ run[w].att \in 0..Attempts
  BY <1>1 DEF CommitInv, Ledger, WellFormed, Types, Requests, Local
<1>3. i = <<w, i[2]>> /\ i[2] \in 1..run[w].att
  BY <1>1, <1>2 DEF Ids, Attempts
<1> QED
  BY <1>3 DEF Landed, Tried, Snaps

LEMMA ReloadRetriesStep ==
    ASSUME IceAssumption, CommitInv, UNCHANGED mode, NEW w \in Writers, ReloadRetries(w)
    PROVE  CommitInv'
<1> DEFINE amb == run[w].amb \/ run[w].pc = "unknown"
           e == IF amb THEN "unknown" ELSE "err"
<1>1. /\ UNCHANGED <<mode, table, ups, wire>> /\ run[w].pc \in {"conflict", "unknown"}
      /\ ~Landed(w, table)
  BY DEF ReloadRetries
<1>2. ~HasLanded(w) /\ Loop(w) /\ ~run[w].listed /\ run[w].end = "none" /\ run[w].att > 0
  BY <1>1, ReloadTruth DEF CommitInv, Loop
<1>3. run \in [Writers -> Local] /\ table \in Tables /\ run[w].att \in 0..Attempts
      /\ run[w].amb \in BOOLEAN
  BY DEF CommitInv, Types, Local
<1>4. ~amb => \A r \in Of(w) : r.st = "refused"
  BY <1>1, <1>2 DEF Loop
<1>5. Files(w)' = Files(w) /\ Of(w)' = Of(w)
  BY <1>1 DEF Files, Kinds, Of
<1>6. CASE run[w].att < Attempts
  <2> DEFINE l == [run[w] EXCEPT !.pc = "try", !.meta = table, !.amb = amb]
  <2>1. run' = [run EXCEPT ![w] = l] /\ objs' = objs
    BY <1>3, <1>6 DEF ReloadRetries
  <2>2. /\ l \in Local /\ l.pc = "try" /\ l.meta = table /\ l.att = run[w].att
        /\ l.amb = amb /\ l.end = run[w].end /\ l.listed = run[w].listed
    BY <1>3 DEF Local
  <2> HIDE DEF l
  <2>3. /\ run' \in [Writers -> Local] /\ \A v \in Writers \ {w} : run'[v] = run[v]
        /\ run'[w].pc = "try" /\ run'[w].meta = table /\ run'[w].att = run[w].att
        /\ run'[w].amb = amb /\ run'[w].end = "none" /\ ~run'[w].listed
    BY <1>2, <1>3, <2>1, <2>2
  <2> HIDE DEF amb
  <2>4. table.cur \notin Tried(w)
    <3>1. table.cur \in Snaps => table.cur \notin Tried(w)
      BY <1>1 DEF Landed, Snaps
    <3>2. Tried(w) \subseteq Ids
      BY <1>3 DEF Tried, Ids, Attempts
    <3>3. table.cur = NoSnap => table.cur \notin Tried(w)
      BY <3>2 DEF IceAssumption
    <3> QED
      BY <3>1, <3>3 DEF CommitInv, Ledger
  <2>5. Loop(w)'
    <3>1. /\ Past(run[w].meta)' /\ (HasLanded(w)' <=> HasLanded(w))
          /\ Of(w)' = Of(w) /\ Tried(w)' = Tried(w)
      BY <1>1, <2>3, LoopMoves
    <3> QED
      BY <1>1, <1>2, <1>3, <1>4, <1>6, <2>3, <2>4, <3>1 DEF Loop
  <2>6. Held(w)'
    <3>1. MayStand(w) /\ ~HasNothing(w)'
      BY <1>1, <2>3 DEF MayStand, HasNothing
    <3> QED
      BY <1>1, <1>5, <2>1, <2>3, <3>1 DEF CommitInv, Held
  <2>7. run[w].att <= run'[w].att
    BY <1>3, <2>3 DEF Attempts
  <2> QED
    BY <1>1, <2>1, <2>3, <2>5, <2>6, <2>7, Alone
<1>7. CASE ~(run[w].att < Attempts)
  <2> DEFINE l == [run[w] EXCEPT !.pc = "fail", !.amb = amb, !.end = e]
  <2>1. run' = [run EXCEPT ![w] = l] /\ objs' = IF amb THEN objs ELSE objs \ Files(w)
    BY <1>3, <1>7 DEF ReloadRetries
  <2>2. /\ l \in Local /\ l.pc = "fail" /\ l.meta = run[w].meta /\ l.att = run[w].att
        /\ l.amb = amb /\ l.end = e /\ l.listed = run[w].listed
    BY <1>3 DEF Local
  <2> HIDE DEF l
  <2>3. /\ run' \in [Writers -> Local] /\ \A v \in Writers \ {w} : run'[v] = run[v]
        /\ run'[w].pc = "fail" /\ run'[w].meta = run[w].meta /\ run'[w].att = run[w].att
        /\ run'[w].amb = amb /\ run'[w].end = e /\ ~run'[w].listed
    BY <1>2, <1>3, <2>1, <2>2
  <2>4. e \in {"err", "unknown"} /\ (e = "err" <=> ~amb)
    OBVIOUS
  <2> HIDE DEF amb, e
  <2>5. Loop(w)'
    <3>1. /\ Past(run[w].meta)' /\ (HasLanded(w)' <=> HasLanded(w))
          /\ Of(w)' = Of(w) /\ Tried(w)' = Tried(w)
      BY <1>1, <2>3, LoopMoves
    <3> QED
      BY <1>2, <1>4, <2>3, <2>4, <3>1 DEF Loop
  <2>6. Held(w)'
    <3>1. MayStand(w) /\ (MayStand(w)' => amb)
      BY <1>1, <1>4, <1>5, <2>3 DEF MayStand
    <3>2. HasNothing(w)' => ~amb
      BY <2>3, <2>4 DEF HasNothing
    <3>3. <<w, "del">> \in ups' \cup objs' => mode[w] = "merge"
      BY <1>1, <2>1 DEF CommitInv, Held
    <3>4. MayStand(w)' => Files(w) \subseteq objs'
      BY <2>1, <3>1 DEF CommitInv, Held
    <3> QED
      BY <1>1, <1>5, <2>1, <2>3, <3>2, <3>3, <3>4 DEF Held
  <2>7. \A f : f \notin Owned(w) => (f \in objs' <=> f \in objs) /\ (f \in ups' <=> f \in ups)
    BY <1>1, <2>1, FilesApart
  <2>8. run[w].att <= run'[w].att
    BY <1>3, <2>3 DEF Attempts
  <2> QED
    BY <1>1, <2>3, <2>5, <2>6, <2>7, <2>8, Alone
<1> QED
  BY <1>6, <1>7

\* One attempt: the request is over the writer's metadata, a past of the table, and its id
\* is new.
LEMMA RequestFits ==
    ASSUME IceAssumption, CommitInv, NEW w \in Writers, run[w].pc = "try",
           ~WouldOverwrite(w)
    PROVE  LET q == Request(w, run[w].meta) IN
           /\ q \in Requests /\ q.id = <<w, run[w].att + 1>> /\ q.st = "open"
           /\ q.id \notin Snaps /\ \A r \in wire : r.id # q.id
           /\ q.parent \in Snaps \cup {NoSnap}
           /\ q.files = (IF mode[w] \in {"append", "merge"} THEN Under(q.parent) ELSE {})
                           \cup {w}
           /\ mode[w] = "flipped" => q.parent = NoSnap
           /\ q.wm \subseteq q.files
           /\ q.parent = table.cur => ~HasLanded(w)
<1> DEFINE m == run[w].meta
           q == Request(w, m)
<1>1. /\ Past(m) /\ run[w].att < Attempts /\ m.cur \notin Tried(w)
      /\ m.cur = table.cur => ~HasLanded(w)
  BY DEF CommitInv, Loop
<1>2. /\ m \in Tables /\ run[w].att \in 0..Attempts /\ run[w].schema0 \in Nat
      /\ table \in Tables /\ mode \in Modes /\ wire \subseteq Requests
  BY DEF CommitInv, Types, Local
<1>3. /\ m.cur \in Ids \cup {NoSnap} /\ m.wm \in SUBSET Writers
      /\ m.cur \in DOMAIN m.snaps \cup {NoSnap}
  BY <1>1, <1>2 DEF Tables, Past
<1>4. Content(m) \subseteq Writers
  <2>1. CASE m.cur = NoSnap
    BY <2>1 DEF Content
  <2>2. CASE m.cur # NoSnap
    <3>1. m.snaps[m.cur] \in Snapshot
      BY <1>2, <1>3, <2>2, TableShape
    <3> QED
      BY <2>2, <3>1 DEF Content, Snapshot
  <2> QED
    BY <2>1, <2>2
<1>5. Content(m) = Under(m.cur)
  BY <1>1, <1>3 DEF Content, Under, Past
<1>6. /\ q.id = <<w, run[w].att + 1>> /\ q.parent = m.cur /\ q.schema = run[w].schema0
      /\ q.files = Manifests(w, m) /\ q.wm = WmAfter(w, m) /\ q.st = "open"
      /\ q = [id |-> q.id, parent |-> q.parent, schema |-> q.schema, files |-> q.files,
              wm |-> q.wm, st |-> q.st]
  BY DEF Request
<1> HIDE DEF q
<1>7. q.id \in Ids
  BY <1>1, <1>2, <1>6 DEF Ids, Attempts
<1>8. Manifests(w, m) \subseteq Writers /\ WmAfter(w, m) \subseteq Writers
  BY <1>3, <1>4 DEF Manifests, WmAfter
<1>9. q \in Requests
  BY <1>2, <1>3, <1>6, <1>7, <1>8 DEF Requests
<1>10. \A r \in wire : r.id # q.id
  <2> SUFFICES ASSUME NEW r \in wire, r.id = q.id
               PROVE  FALSE
    OBVIOUS
  <2>1. r.id[1] = w /\ r.id[2] = run[w].att + 1
    BY <1>6
  <2>2. r.id[2] <= run[w].att
    BY <2>1 DEF CommitInv, Ledger, WellFormed
  <2> QED
    BY <1>2, <2>1, <2>2 DEF Attempts
<1>11. q.id \notin Snaps
  BY <1>10 DEF CommitInv, Ledger
<1>12. q.files = (IF mode[w] \in {"append", "merge"} THEN Under(q.parent) ELSE {}) \cup {w}
  BY <1>5, <1>6 DEF Manifests
<1>13. mode[w] = "flipped" => q.parent = NoSnap
  BY <1>1, <1>6 DEF WouldOverwrite, Flipped
<1>14. q.wm \subseteq q.files
  <2>1. m.wm \subseteq Content(m)
    BY <1>1 DEF Past
  <2>2. mode[w] \in {"append", "merge", "replace", "flipped"}
    BY <1>2 DEF IceAssumption
  <2> QED
    BY <1>6, <2>1, <2>2 DEF WmAfter, Manifests
<1>15. q.parent \in Snaps \cup {NoSnap}
  BY <1>1, <1>3, <1>6 DEF Past
<1> QED
  BY <1>1, <1>6, <1>9, <1>10, <1>11, <1>12, <1>13, <1>14, <1>15 DEF q

LEMMA AttemptStep ==
    ASSUME IceAssumption, CommitInv, UNCHANGED mode, NEW w \in Writers, Attempt(w)
    PROVE  CommitInv'
<1> DEFINE l == [run[w] EXCEPT !.pc = "sent", !.att = run[w].att + 1]
<1>0. /\ UNCHANGED <<mode, table, objs, ups>> /\ run[w].pc = "try"
      /\ ~WouldOverwrite(w) /\ wire' = wire \cup {Request(w, run[w].meta)}
  BY DEF Attempt
<1>2. PICK q \in Requests :
      /\ wire' = wire \cup {q} /\ q.id = <<w, run[w].att + 1>> /\ q.st = "open"
      /\ q.id \notin Snaps /\ \A r \in wire : r.id # q.id
      /\ q.parent \in Snaps \cup {NoSnap}
      /\ q.files = (IF mode[w] \in {"append", "merge"} THEN Under(q.parent) ELSE {}) \cup {w}
      /\ mode[w] = "flipped" => q.parent = NoSnap
      /\ q.wm \subseteq q.files
      /\ q.parent = table.cur => ~HasLanded(w)
  BY <1>0, RequestFits
<1>1. /\ UNCHANGED <<mode, table, objs, ups>> /\ run[w].pc = "try"
      /\ wire' = wire \cup {q}
  BY <1>0, <1>2
<1>3. /\ run \in [Writers -> Local] /\ run[w].att \in 0..Attempts /\ run[w].att < Attempts
      /\ run[w].end = "none" /\ ~run[w].listed
  BY <1>1 DEF CommitInv, Types, Local, Loop
<1>4. run' = [run EXCEPT ![w] = l]
  BY <1>3 DEF Attempt
<1>5. /\ l \in Local /\ l.pc = "sent" /\ l.meta = run[w].meta /\ l.att = run[w].att + 1
      /\ l.amb = run[w].amb /\ l.end = run[w].end /\ l.listed = run[w].listed
  <2>1. run[w].att + 1 \in 0..Attempts
    BY <1>3 DEF Attempts
  <2> QED
    BY <1>3, <2>1 DEF Local
<1> HIDE DEF l
<1>6. /\ run' \in [Writers -> Local] /\ \A v \in Writers \ {w} : run'[v] = run[v]
      /\ run'[w].pc = "sent" /\ run'[w].meta = run[w].meta /\ run'[w].att = run[w].att + 1
      /\ run'[w].amb = run[w].amb /\ run'[w].end = "none" /\ ~run'[w].listed
  BY <1>3, <1>4, <1>5
<1>7. Types'
  BY <1>1, <1>2, <1>6 DEF CommitInv, Types
<1>8. q.id[1] = w /\ q.id[2] = run[w].att + 1
  BY <1>2
<1>9. Ledger'
  <2>1. \A v \in Writers : run[v].att \in Nat /\ run'[v].att \in Nat /\ run[v].att <= run'[v].att
    BY <1>3, <1>6 DEF Local, Attempts
  <2>2. ASSUME NEW r \in wire
        PROVE  WellFormed(r)'
    <3>1. r.id[1] \in Writers /\ r.id[2] \in 1..Attempts
      BY DEF CommitInv, Types, Requests, Ids
    <3>2. r.id[2] <= run'[r.id[1]].att
      <4>1. r.id[2] <= run[r.id[1]].att
        BY DEF CommitInv, Ledger, WellFormed
      <4>2. r.id[2] \in Nat
        BY <3>1 DEF Attempts
      <4> QED
        BY <2>1, <3>1, <4>1, <4>2
    <3> QED
      BY <1>1, <3>2 DEF CommitInv, Ledger, WellFormed, Under, HasLanded, Snaps
  <2>3. WellFormed(q)'
    <3>1. q.id[2] <= run'[q.id[1]].att
      BY <1>3, <1>6, <1>8 DEF Attempts
    <3> QED
      BY <1>1, <1>2, <1>8, <3>1 DEF WellFormed, Under, HasLanded, Snaps
  <2>4. Content(table)' = Content(table)
    BY <1>1 DEF Content
  <2> QED
    BY <1>1, <1>2, <2>2, <2>3, <2>4 DEF CommitInv, Ledger, HasLanded, Snaps, WrittenForSchema
<1>10. Of(w)' = Of(w) \cup {q} /\ \A v : v # w => Of(v)' = Of(v)
  BY <1>1, <1>8 DEF Of
<1>11. Loop(w)'
  <2>1. Past(run[w].meta)'
    BY <1>1, <1>6 DEF CommitInv, Loop, Past, Snaps, Content
  <2>2. q \in wire' /\ q.id = <<w, run'[w].att>>
    BY <1>1, <1>2, <1>6
  <2>3. ~run[w].amb => \A r \in Of(w) : r.st = "refused"
    BY <1>1 DEF CommitInv, Loop
  <2>4. run[w].att + 1 > 0 /\ run[w].att + 1 # 0
    BY <1>3 DEF Attempts
  <2> QED
    BY <1>6, <1>8, <1>10, <2>1, <2>2, <2>3, <2>4 DEF Loop
<1>12. Held(w)'
  <2>1. MayStand(w) /\ ~HasNothing(w)'
    BY <1>1, <1>6 DEF MayStand, HasNothing
  <2>2. Files(w)' = Files(w)
    BY DEF Files, Kinds
  <2> QED
    BY <1>1, <1>6, <2>1, <2>2 DEF CommitInv, Held
<1>13. ASSUME NEW v \in Writers, v # w
       PROVE  Loop(v)' /\ Held(v)'
  <2>1. run'[v] = run[v] /\ Of(v)' = Of(v) /\ Files(v)' = Files(v)
    BY <1>6, <1>10, <1>13 DEF Files, Kinds
  <2>2. Past(run[v].meta)'
    BY <1>1, <2>1 DEF CommitInv, Loop, Past, Snaps, Content
  <2>3. (HasLanded(v)' <=> HasLanded(v)) /\ Tried(v)' = Tried(v)
    BY <1>1, <2>1 DEF HasLanded, Snaps, Tried
  <2>4. Loop(v)'
    BY <1>1, <2>1, <2>2, <2>3 DEF CommitInv, Loop
  <2>5. (MayStand(v)' <=> MayStand(v)) /\ (HasNothing(v)' <=> HasNothing(v))
    BY <2>1 DEF MayStand, HasNothing
  <2> QED
    BY <1>1, <2>1, <2>4, <2>5 DEF CommitInv, Held
<1> QED
  BY <1>7, <1>9, <1>11, <1>12, <1>13 DEF CommitInv

\* A request the catalog will not apply is gone: no earlier one is left either, unless some
\* answer was lost.
LEMMA AnswerFailedStep ==
    ASSUME CommitInv, UNCHANGED mode, NEW w \in Writers, AnswerFailed(w)
    PROVE  CommitInv'
<1> DEFINE q == Mine(w)
           how == ErrAs(w)
           l == [run[w] EXCEPT !.end = how, !.pc = "fail"]
<1>1. /\ UNCHANGED <<mode, table, ups>> /\ run[w].pc = "sent" /\ q.st = "open"
      /\ wire' = wire \ {q} /\ Ends(w, how)
  BY DEF AnswerFailed
<1>2. /\ q \in wire /\ q.id = <<w, run[w].att>> /\ \A r \in wire : r.id = q.id => r = q
  BY <1>1, MineThere
<1>3. /\ run \in [Writers -> Local] /\ run[w].end = "none" /\ ~run[w].listed
      /\ run[w].att \in 0..Attempts /\ run[w].att > 0 /\ Loop(w)
  BY <1>1 DEF CommitInv, Types, Local, Loop
<1>4. how \in {"err", "unknown"} /\ (how = "err" => ~run[w].amb)
  BY DEF ErrAs
<1> HIDE DEF q, how
<1>5. run' = [run EXCEPT ![w] = l] /\ objs' = IF how = "err" THEN objs \ Files(w) ELSE objs
  BY <1>1, <1>3, <1>4 DEF Ends
<1>6. /\ l \in Local /\ l.pc = "fail" /\ l.meta = run[w].meta /\ l.att = run[w].att
      /\ l.amb = run[w].amb /\ l.end = how /\ l.listed = run[w].listed
  BY <1>3, <1>4 DEF Local
<1> HIDE DEF l
<1>7. /\ run' \in [Writers -> Local] /\ \A v \in Writers \ {w} : run'[v] = run[v]
      /\ run'[w].pc = "fail" /\ run'[w].meta = run[w].meta /\ run'[w].att = run[w].att
      /\ run'[w].amb = run[w].amb /\ run'[w].end = how /\ ~run'[w].listed
  BY <1>3, <1>5, <1>6
<1>8. q.id \notin Snaps
  BY <1>1, <1>2 DEF CommitInv, Ledger, WellFormed
<1>9. Types'
  BY <1>1, <1>7 DEF CommitInv, Types
<1>10. Ledger'
  <2>1. ASSUME NEW r \in wire
        PROVE  WellFormed(r)'
    <3>1. r.id[1] \in Writers
      BY DEF CommitInv, Types, Requests, Ids
    <3>2. run'[r.id[1]].att = run[r.id[1]].att
      BY <1>7, <3>1
    <3> QED
      BY <1>1, <3>2 DEF CommitInv, Ledger, WellFormed, Under, HasLanded, Snaps
  <2>2. \A i \in Snaps : \E r \in wire' : r.id = i
    <3> SUFFICES ASSUME NEW i \in Snaps
                 PROVE  \E r \in wire' : r.id = i
      OBVIOUS
    <3>1. PICK r \in wire : r.id = i
      BY DEF CommitInv, Ledger
    <3> QED
      BY <1>1, <1>8, <3>1
  <2>3. Content(table)' = Content(table)
    BY <1>1 DEF Content
  <2> QED
    BY <1>1, <2>1, <2>2, <2>3 DEF CommitInv, Ledger, HasLanded, Snaps, WrittenForSchema
<1>11. Of(w)' = Of(w) \ {q} /\ \A v : v # w => Of(v)' = Of(v)
  BY <1>1, <1>2 DEF Of
<1>12. how = "err" => \A r \in Of(w)' : r.st = "refused"
  <2> SUFFICES ASSUME how = "err", NEW r \in Of(w), r # q
               PROVE  r.st = "refused"
    BY <1>11
  <2>1. r \in wire /\ r.id \in Ids /\ r.id[1] = w
    BY DEF Of, CommitInv, Types, Requests
  <2>2. r.id[2] # run[w].att
    BY <1>2, <2>1 DEF Ids
  <2> QED
    BY <1>1, <1>3, <1>4, <2>2 DEF Loop
<1>13. Loop(w)'
  <2>1. Past(run[w].meta)'
    BY <1>1, <1>3, <1>7 DEF Loop, Past, Snaps, Content
  <2> QED
    BY <1>3, <1>4, <1>7, <1>12, <2>1 DEF Loop
<1>14. Files(w)' = Files(w)
  BY DEF Files, Kinds
<1>15. Held(w)'
  <2>1. MayStand(w) /\ (MayStand(w)' => how # "err")
    BY <1>1, <1>7, <1>12 DEF MayStand
  <2>2. HasNothing(w)' => how = "err"
    BY <1>4, <1>7 DEF HasNothing
  <2>3. <<w, "del">> \in ups' \cup objs' => mode[w] = "merge"
    BY <1>1, <1>5 DEF CommitInv, Held
  <2>4. MayStand(w)' => Files(w) \subseteq objs'
    BY <1>5, <2>1 DEF CommitInv, Held
  <2> QED
    BY <1>1, <1>5, <1>7, <1>14, <2>2, <2>3, <2>4 DEF Held
<1>16. ASSUME NEW v \in Writers, v # w
       PROVE  Loop(v)' /\ Held(v)'
  <2>1. run'[v] = run[v] /\ Of(v)' = Of(v) /\ Files(v)' = Files(v)
    BY <1>7, <1>11, <1>16 DEF Files, Kinds
  <2>2. Past(run[v].meta)'
    BY <1>1, <2>1 DEF CommitInv, Loop, Past, Snaps, Content
  <2>3. (HasLanded(v)' <=> HasLanded(v)) /\ Tried(v)' = Tried(v)
    BY <1>1, <2>1 DEF HasLanded, Snaps, Tried
  <2>4. run[v].pc = "sent" => \E r \in wire' : r.id = <<v, run[v].att>>
    <3> SUFFICES ASSUME run[v].pc = "sent"
                 PROVE  \E r \in wire' : r.id = <<v, run[v].att>>
      OBVIOUS
    <3>1. PICK r \in wire : r.id = <<v, run[v].att>>
      BY DEF CommitInv, Loop
    <3> QED
      BY <1>1, <1>2, <1>16, <3>1
  <2>5. Loop(v)'
    BY <1>1, <2>1, <2>2, <2>3, <2>4 DEF CommitInv, Loop
  <2>6. (MayStand(v)' <=> MayStand(v)) /\ (HasNothing(v)' <=> HasNothing(v))
    BY <2>1 DEF MayStand, HasNothing
  <2>7. \A f \in Owned(v) : f \in objs' <=> f \in objs
    BY <1>5, <1>16, FilesApart
  <2>8. Files(v) \subseteq Owned(v) /\ <<v, "data">> \in Owned(v) /\ <<v, "del">> \in Owned(v)
    BY FilesApart DEF Owned
  <2>9. Held(v)'
    BY <1>1, <2>1, <2>6, <2>7, <2>8 DEF CommitInv, Held
  <2> QED
    BY <2>5, <2>9
<1> QED
  BY <1>9, <1>10, <1>13, <1>15, <1>16 DEF CommitInv

-----------------------------------------------------------------------------
(* The catalog.                                                            *)

\* A request applied is a snapshot more, on top, of a writer that had none.
LEMMA Applied ==
    ASSUME IceAssumption, CommitInv, NEW r \in wire, Apply(r)
    PROVE  /\ table' \in Tables /\ Snaps' = Snaps \cup {r.id} /\ r.id \notin Snaps
           /\ r.id # NoSnap /\ ~HasLanded(r.id[1]) /\ r.id[1] \in Writers
           /\ table'.cur = r.id /\ table'.wm = r.wm /\ table'.schema = table.schema
           /\ \A i \in Snaps : table'.snaps[i] = table.snaps[i]
           /\ table'.snaps[r.id] = [files |-> r.files, wrote |-> r.schema, schema |-> r.schema]
<1> DEFINE S == [i \in Snaps \cup {r.id} |->
                    IF i = r.id THEN [files |-> r.files, wrote |-> r.schema,
                                      schema |-> table.schema]
                                ELSE table.snaps[i]]
<1>1. /\ r.st = "open" /\ r.parent = table.cur /\ r.schema = table.schema
      /\ table' = [table EXCEPT !.cur = r.id, !.wm = r.wm, !.snaps = S]
  BY DEF Apply, Requirements, Snaps
<1>2. /\ table \in Tables /\ r \in Requests
  BY DEF CommitInv, Types
<1>3. /\ r.id \in Ids /\ r.id[1] \in Writers /\ r.wm \in SUBSET Writers
      /\ r.files \in SUBSET Writers /\ r.schema \in Nat
  BY <1>2 DEF Requests, Ids
<1>4. r.id \notin Snaps /\ ~HasLanded(r.id[1])
  BY <1>1 DEF CommitInv, Ledger, WellFormed
<1>5. /\ DOMAIN S = Snaps \cup {r.id}
      /\ \A i \in Snaps : S[i] = table.snaps[i]
      /\ S[r.id] = [files |-> r.files, wrote |-> r.schema, schema |-> r.schema]
  BY <1>1, <1>4
<1>6. S \in Histories
  <2>1. Snaps \subseteq Ids /\ \A i \in Snaps : table.snaps[i] \in Snapshot
    BY <1>2, TableShape DEF Snaps
  <2>2. S[r.id] \in Snapshot
    BY <1>3, <1>5 DEF Snapshot
  <2>3. S \in [Snaps \cup {r.id} -> Snapshot]
    BY <1>1, <1>3, <2>1, <2>2
  <2> HIDE DEF S
  <2> QED
    BY <1>3, <2>1, <2>3 DEF Histories
<1> HIDE DEF S
<1>7. /\ table' \in Tables /\ table'.snaps = S /\ table'.cur = r.id /\ table'.wm = r.wm
      /\ table'.schema = table.schema
  BY <1>1, <1>2, <1>3, <1>6 DEF Tables
<1> QED
  BY <1>3, <1>4, <1>5, <1>7 DEF Snaps, IceAssumption

\* A request settled: its answer is on the wire in its place.
LEMMA Settled ==
    ASSUME CommitInv, NEW r \in wire, NEW st \in {"applied", "refused"},
           wire' = (wire \ {r}) \cup {[r EXCEPT !.st = st]}
    PROVE  LET q == [r EXCEPT !.st = st] IN
           /\ q \in Requests /\ q.id = r.id /\ q.parent = r.parent /\ q.files = r.files
           /\ q.wm = r.wm /\ q.st = st
           /\ wire' \subseteq Requests
           /\ \A p \in wire' : p # q => p \in wire /\ p.id # r.id
           /\ \A p, s \in wire' : p.id = s.id => p = s
           /\ \A p \in wire : \E s \in wire' : s.id = p.id
           /\ \A v : v # r.id[1] => Of(v)' = Of(v)
           /\ Of(r.id[1])' = (Of(r.id[1]) \ {r}) \cup {q}
<1> DEFINE q == [r EXCEPT !.st = st]
<1>1. r \in Requests /\ wire \subseteq Requests
  BY DEF CommitInv, Types
<1>2. /\ q \in Requests /\ q.id = r.id /\ q.parent = r.parent /\ q.files = r.files
      /\ q.wm = r.wm /\ q.st = st
  BY <1>1 DEF Requests
<1> HIDE DEF q
<1>3. wire' = (wire \ {r}) \cup {q}
  BY DEF q
<1>4. \A p, s \in wire : p.id = s.id => p = s
  BY DEF CommitInv, Ledger
<1> QED
  BY <1>1, <1>2, <1>3, <1>4 DEF Of, q

LEMMA ApplyLedger ==
    ASSUME IceAssumption, CommitInv, UNCHANGED mode, NEW r \in wire, Apply(r)
    PROVE  Ledger'
<1> DEFINE w == r.id[1]
<1>0. /\ wire' = (wire \ {r}) \cup {[r EXCEPT !.st = "applied"]} /\ UNCHANGED run
      /\ r.parent = table.cur
  BY DEF Apply, Requirements
<1>1. /\ Snaps' = Snaps \cup {r.id} /\ r.id \notin Snaps /\ r.id # NoSnap /\ ~HasLanded(w)
      /\ w \in Writers /\ table'.cur = r.id /\ table'.wm = r.wm
      /\ \A i \in Snaps : table'.snaps[i] = table.snaps[i]
      /\ table'.snaps[r.id] = [files |-> r.files, wrote |-> r.schema, schema |-> r.schema]
  BY Applied
<1>2. PICK q \in Requests :
         /\ q.id = r.id /\ q.parent = r.parent /\ q.files = r.files /\ q.wm = r.wm
         /\ q.st = "applied" /\ q \in wire'
         /\ \A p \in wire' : p # q => p \in wire /\ p.id # r.id
         /\ \A p, s \in wire' : p.id = s.id => p = s
         /\ \A p \in wire : \E s \in wire' : s.id = p.id
  BY <1>0, Settled
<1> HIDE DEF w
<1>3. \A v : HasLanded(v)' <=> (HasLanded(v) \/ v = w)
  BY <1>1 DEF HasLanded, w
<1>4. \A p \in Snaps \cup {NoSnap} : Under(p)' = Under(p)
  BY <1>1 DEF Under
<1>5. WellFormed(r)
  BY DEF CommitInv, Ledger
<1>6. WellFormed(q)'
  BY <1>0, <1>1, <1>2, <1>4, <1>5 DEF WellFormed
<1>7. ASSUME NEW p \in wire', p # q
      PROVE  WellFormed(p)'
  <2>1. p \in wire /\ p.id # r.id /\ WellFormed(p)
    BY <1>2, <1>7 DEF CommitInv, Ledger
  <2>2. p.parent # r.id
    BY <1>1, <2>1 DEF WellFormed
  <2> QED
    BY <1>0, <1>1, <1>4, <2>1, <2>2 DEF WellFormed
<1>8. \A i \in Snaps' : \E p \in wire' : p.id = i
  BY <1>1, <1>2 DEF CommitInv, Ledger
<1>9. ASSUME NEW i \in Snaps', NEW v \in table'.snaps[i].files
      PROVE  HasLanded(v)'
  <2>1. CASE i \in Snaps
    BY <1>1, <1>3, <1>9, <2>1 DEF CommitInv, Ledger
  <2>2. CASE i = r.id
    <3>1. v \in r.files
      BY <1>1, <1>9, <2>2
    <3>2. v = w \/ (r.parent # NoSnap /\ v \in table.snaps[r.parent].files)
      BY <1>5, <3>1 DEF WellFormed, Under, w
    <3>3. r.parent # NoSnap => r.parent \in Snaps
      BY <1>5 DEF WellFormed
    <3> QED
      BY <1>3, <3>2, <3>3 DEF CommitInv, Ledger
  <2> QED
    BY <1>1, <1>9, <2>1, <2>2
<1>10. \A i, j \in Snaps' : i[1] = j[1] => i = j
  BY <1>1 DEF CommitInv, Ledger, HasLanded, w
<1>11. table'.wm \subseteq Content(table)'
  BY <1>1, <1>5 DEF Content, WellFormed
<1>12. WrittenForSchema'
  BY <1>1 DEF CommitInv, Ledger, WrittenForSchema, Snaps
<1> QED
  BY <1>1, <1>2, <1>6, <1>7, <1>8, <1>9, <1>10, <1>11, <1>12 DEF Ledger

LEMMA ApplyStep ==
    ASSUME IceAssumption, CommitInv, UNCHANGED mode, NEW r \in wire, Apply(r)
    PROVE  CommitInv'
<1> DEFINE w == r.id[1]
<1>0. /\ wire' = (wire \ {r}) \cup {[r EXCEPT !.st = "applied"]} /\ UNCHANGED <<objs, ups, run>>
      /\ r.st = "open"
  BY DEF Apply
<1>1. /\ table' \in Tables /\ Snaps' = Snaps \cup {r.id} /\ r.id \notin Snaps
      /\ r.id # NoSnap /\ ~HasLanded(w) /\ w \in Writers /\ table'.cur = r.id
      /\ \A i \in Snaps : table'.snaps[i] = table.snaps[i]
  BY Applied
<1>2. PICK q \in Requests :
         /\ q.id = r.id /\ q.st = "applied" /\ q \in wire' /\ wire' \subseteq Requests
         /\ \A p \in wire : \E s \in wire' : s.id = p.id
         /\ \A v : v # w => Of(v)' = Of(v)
         /\ Of(w)' = (Of(w) \ {r}) \cup {q}
  BY <1>0, Settled
<1>3. r \in Of(w)
  BY DEF Of
<1> HIDE DEF w
<1>4. Types'
  BY <1>0, <1>1, <1>2 DEF CommitInv, Types
<1>5. ASSUME NEW v \in Writers
      PROVE  Loop(v)' /\ Held(v)'
  <2>1. Loop(v) /\ Held(v)
    BY DEF CommitInv
  <2>2. Past(run[v].meta)' /\ run[v].meta.cur # table'.cur
    BY <1>0, <1>1, <2>1 DEF Loop, Past, Content
  <2>3. HasLanded(v) => HasLanded(v)'
    BY <1>1 DEF HasLanded
  <2>4. Tried(v)' = Tried(v) /\ Files(v)' = Files(v)
    BY <1>0 DEF Tried, Files, Kinds
  <2>5. (\A p \in Of(v) : p.st = "refused") => \A p \in Of(v)' : p.st = "refused"
    BY <1>0, <1>2, <1>3
  <2>6. ASSUME \A p \in Of(v) : p.id[2] # run[v].att => p.st = "refused"
        PROVE  \A p \in Of(v)' : p.id[2] # run[v].att => p.st = "refused"
    BY <1>0, <1>2, <1>3, <2>6
  <2>7. run[v].pc = "sent" => \E p \in wire' : p.id = <<v, run[v].att>>
    BY <1>2, <2>1 DEF Loop
  <2>8. Loop(v)'
    BY <1>0, <2>1, <2>2, <2>3, <2>4, <2>5, <2>6, <2>7 DEF Loop
  <2>9. MayStand(v)' => MayStand(v)
    BY <1>0, <1>2, <1>3 DEF MayStand
  <2>10. HasNothing(v)' <=> HasNothing(v)
    BY <1>0 DEF HasNothing
  <2>11. Held(v)'
    BY <1>0, <2>1, <2>4, <2>9, <2>10 DEF Held
  <2> QED
    BY <2>8, <2>11
<1> QED
  BY <1>4, <1>5, ApplyLedger DEF CommitInv

LEMMA RefuseStep ==
    ASSUME CommitInv, UNCHANGED mode, NEW r \in wire, Refuse(r)
    PROVE  CommitInv'
<1> DEFINE w == r.id[1]
<1>0. /\ wire' = (wire \ {r}) \cup {[r EXCEPT !.st = "refused"]}
      /\ UNCHANGED <<table, objs, ups, run>> /\ r.st = "open"
  BY DEF Refuse
<1>2. PICK q \in Requests :
         /\ q.id = r.id /\ q.parent = r.parent /\ q.files = r.files /\ q.wm = r.wm
         /\ q.st = "refused" /\ q \in wire' /\ wire' \subseteq Requests
         /\ \A p \in wire' : p # q => p \in wire /\ p.id # r.id
         /\ \A p, s \in wire' : p.id = s.id => p = s
         /\ \A p \in wire : \E s \in wire' : s.id = p.id
         /\ \A v : v # w => Of(v)' = Of(v)
         /\ Of(w)' = (Of(w) \ {r}) \cup {q}
  BY <1>0, Settled
<1>3. r \in Of(w)
  BY DEF Of
<1> HIDE DEF w
<1>4. Types'
  BY <1>0, <1>2 DEF CommitInv, Types
<1>5. /\ Snaps' = Snaps /\ Content(table)' = Content(table)
      /\ \A v : HasLanded(v)' <=> HasLanded(v)
      /\ \A p : Under(p)' = Under(p)
  BY <1>0 DEF Snaps, Content, HasLanded, Under
<1>6. Ledger'
  <2>1. WellFormed(r) /\ \A p \in wire : WellFormed(p)
    BY DEF CommitInv, Ledger
  <2>2. WellFormed(q)'
    BY <1>0, <1>2, <1>5, <2>1 DEF WellFormed
  <2>3. ASSUME NEW p \in wire', p # q
        PROVE  WellFormed(p)'
    BY <1>0, <1>2, <1>5, <2>1, <2>3 DEF WellFormed
  <2>4. \A i \in Snaps' : \E p \in wire' : p.id = i
    BY <1>2, <1>5 DEF CommitInv, Ledger
  <2> QED
    BY <1>0, <1>2, <1>5, <2>2, <2>3, <2>4 DEF CommitInv, Ledger, WrittenForSchema
<1>7. ASSUME NEW v \in Writers
      PROVE  Loop(v)' /\ Held(v)'
  <2>1. Loop(v) /\ Held(v)
    BY DEF CommitInv
  <2>2. Past(run[v].meta)'
    BY <1>0, <2>1 DEF Loop, Past, Content, Snaps
  <2>4. Tried(v)' = Tried(v) /\ Files(v)' = Files(v)
    BY <1>0 DEF Tried, Files, Kinds
  <2>5. (\A p \in Of(v) : p.st = "refused") => \A p \in Of(v)' : p.st = "refused"
    BY <1>0, <1>2, <1>3
  <2>6. ASSUME \A p \in Of(v) : p.id[2] # run[v].att => p.st = "refused"
        PROVE  \A p \in Of(v)' : p.id[2] # run[v].att => p.st = "refused"
    BY <1>0, <1>2, <1>3, <2>6
  <2>7. run[v].pc = "sent" => \E p \in wire' : p.id = <<v, run[v].att>>
    BY <1>2, <2>1 DEF Loop
  <2>8. Loop(v)'
    BY <1>0, <1>5, <2>1, <2>2, <2>4, <2>5, <2>6, <2>7 DEF Loop
  <2>9. MayStand(v)' => MayStand(v)
    BY <1>0, <1>2, <1>3 DEF MayStand
  <2>10. HasNothing(v)' <=> HasNothing(v)
    BY <1>0 DEF HasNothing
  <2>11. Held(v)'
    BY <1>0, <2>1, <2>4, <2>9, <2>10 DEF Held
  <2> QED
    BY <2>8, <2>11
<1> QED
  BY <1>4, <1>6, <1>7 DEF CommitInv

LEMMA EvolveStep ==
    ASSUME CommitInv, UNCHANGED mode, Evolve
    PROVE  CommitInv'
<1>1. /\ UNCHANGED <<objs, ups, run, wire>> /\ table' = [table EXCEPT !.schema = @ + 1]
  BY DEF Evolve
<1>2. /\ table' \in Tables /\ table'.cur = table.cur /\ table'.snaps = table.snaps
      /\ table'.wm = table.wm
  BY <1>1 DEF CommitInv, Types, Tables
<1>3. Types'
  BY <1>1, <1>2 DEF CommitInv, Types
<1>4. /\ Snaps' = Snaps /\ Content(table)' = Content(table)
      /\ \A v : HasLanded(v)' <=> HasLanded(v)
      /\ \A p : Under(p)' = Under(p)
      /\ \A v : Of(v)' = Of(v) /\ Tried(v)' = Tried(v) /\ Files(v)' = Files(v)
  BY <1>1, <1>2 DEF Snaps, Content, HasLanded, Under, Of, Tried, Files, Kinds
<1>5. Ledger'
  BY <1>1, <1>2, <1>4 DEF CommitInv, Ledger, WellFormed, WrittenForSchema
<1>6. ASSUME NEW v \in Writers
      PROVE  Loop(v)' /\ Held(v)'
  <2>1. Loop(v) /\ Held(v)
    BY DEF CommitInv
  <2>2. Past(run[v].meta)'
    BY <1>1, <1>2, <2>1 DEF Loop, Past, Content, Snaps
  <2>3. Loop(v)'
    BY <1>1, <1>2, <1>4, <2>1, <2>2 DEF Loop
  <2>4. Held(v)'
    BY <1>1, <1>4, <2>1 DEF Held, MayStand, HasNothing
  <2> QED
    BY <2>3, <2>4
<1> QED
  BY <1>3, <1>5, <1>6 DEF CommitInv

-----------------------------------------------------------------------------
(* Every step keeps the invariant.                                         *)

\* Before the first load the table is empty and nothing is on the wire.
LEMMA CommitStarts ==
    CommitInit => CommitInv
<1> SUFFICES ASSUME CommitInit
             PROVE  CommitInv
  OBVIOUS
<1>1. /\ mode \in Modes /\ wire = {} /\ objs = {} /\ ups = {}
      /\ table = [cur |-> NoSnap, snaps |-> [i \in {} |-> NoSnap], schema |-> 0, wm |-> {}]
      /\ run = [w \in Writers |->
                  [pc |-> "new", rows |-> 0, listed |-> FALSE, att |-> 0, amb |-> FALSE,
                   meta |-> table, schema0 |-> 0, end |-> "none"]]
  BY DEF CommitInit
<1>2. /\ table.cur = NoSnap /\ table.wm = {} /\ table.schema = 0
      /\ table.snaps = [i \in {} |-> NoSnap] /\ Snaps = {} /\ Content(table) = {}
  BY <1>1 DEF Snaps, Content
<1>3. table \in Tables
  <2>1. table.snaps \in [{} -> Snapshot]
    BY <1>2
  <2>2. table.snaps \in Histories
    BY <2>1 DEF Histories
  <2> QED
    BY <1>1, <1>2, <2>2 DEF Tables
<1>4. \A w \in Writers : run[w] \in Local
  BY <1>1, <1>3 DEF Local, Attempts
<1>5. Types
  BY <1>1, <1>3, <1>4 DEF Types
<1>6. Ledger
  BY <1>1, <1>2 DEF Ledger, WrittenForSchema, Snaps
<1>7. ASSUME NEW w \in Writers
      PROVE  Loop(w) /\ Held(w)
  <2>1. /\ run[w].pc = "new" /\ run[w].rows = 0 /\ ~run[w].listed /\ run[w].att = 0
        /\ ~run[w].amb /\ run[w].meta = table /\ run[w].end = "none"
    BY <1>1, <1>7
  <2>2. Of(w) = {} /\ ~HasLanded(w) /\ Past(run[w].meta)
    BY <1>1, <1>2, <2>1 DEF Of, HasLanded, Past, Snaps
  <2>3. Loop(w)
    BY <2>1, <2>2 DEF Loop
  <2>4. ~MayStand(w)
    BY <2>1, <2>2 DEF MayStand
  <2> QED
    BY <1>1, <2>1, <2>3, <2>4 DEF Held
<1> QED
  BY <1>5, <1>6, <1>7 DEF CommitInv

LEMMA CommitStutters ==
    ASSUME CommitInv, UNCHANGED commitVars
    PROVE  CommitInv'
<1>1. UNCHANGED <<mode, table, wire, run, objs, ups>>
  BY DEF commitVars
<1>2. Types'
  BY <1>1 DEF CommitInv, Types
<1>3. Ledger'
  <2>1. \A v \in Writers : run'[v].att \in Nat /\ run[v].att <= run'[v].att
    BY <1>1 DEF CommitInv, Types, Local, Attempts
  <2> QED
    BY <1>1, <2>1, LedgerFrame DEF CommitInv
<1>4. \A v \in Writers : Loop(v)' /\ Held(v)'
  BY <1>1, LoopFrame, HeldFrame DEF CommitInv
<1> QED
  BY <1>2, <1>3, <1>4 DEF CommitInv

LEMMA CommitStep ==
    ASSUME IceAssumption, CommitInv, [CommitNext]_commitVars
    PROVE  CommitInv'
<1>1. CASE UNCHANGED commitVars
  BY <1>1, CommitStutters
<1>2. CASE UNCHANGED mode /\ \E w \in Writers : WriterNext(w)
  <2> PICK w \in Writers : WriterNext(w)
    BY <1>2
  <2> UNCHANGED mode
    BY <1>2
  <2>1. CASE \/ Prepare(w) \/ LoadAborted(w) \/ LoadEmpty(w)
             \/ DelFails(w) \/ DelCompletes(w) \/ DataFails(w) \/ DataCompletes(w)
    BY <2>1, PrepareStep, FailStep, DelCompletesStep, DataCompletesStep
  <2>2. CASE \/ PeerWorkerFails(w) \/ DiscardFiles(w)
             \/ FinalizeEmpty(w) \/ FinalizeFiles(w)
    BY <2>2, PeerWorkerFailsStep, DiscardFilesStep, FinalizeEmptyStep, FinalizeFilesStep
  <2>3. CASE AttemptFails(w) \/ Attempt(w) \/ AnswerDone(w) \/ AnswerFailed(w)
    BY <2>3, AttemptFailsStep, AttemptStep, AnswerDoneStep, AnswerFailedStep
  <2>4. CASE \/ AnswerConflict(w) \/ AnswerUnknown(w)
             \/ ReloadFails(w) \/ ReloadLanded(w) \/ ReloadRetries(w)
    BY <2>4, AnswerStep, ReloadEndsStep, ReloadRetriesStep
  <2> QED
    BY <2>1, <2>2, <2>3, <2>4 DEF WriterNext
<1>3. CASE UNCHANGED mode /\ \E r \in wire : Apply(r) \/ Refuse(r)
  BY <1>3, ApplyStep, RefuseStep
<1>4. CASE UNCHANGED mode /\ Evolve
  BY <1>4, EvolveStep
<1> QED
  BY <1>1, <1>2, <1>3, <1>4 DEF CommitNext, Done

-----------------------------------------------------------------------------
(* What it gives.                                                          *)

\* A writer that landed has its files in storage, its request being applied.
LEMMA LandedHasFiles ==
    ASSUME CommitInv, NEW w \in Writers, HasLanded(w)
    PROVE  Files(w) \subseteq objs
<1>1. PICK i \in Snaps : i[1] = w
  BY DEF HasLanded
<1>2. PICK r \in wire : r.id = i
  BY DEF CommitInv, Ledger
<1>3. r \in Of(w) /\ r.st = "applied"
  BY <1>1, <1>2 DEF CommitInv, Ledger, WellFormed, Of
<1> QED
  BY <1>3 DEF CommitInv, Held, MayStand

LEMMA CommitGives ==
    CommitInv => IceOnce
<1> SUFFICES ASSUME CommitInv
             PROVE  IceOnce
  OBVIOUS
<1>1. OnceOnly
  <2> SUFFICES ASSUME NEW w \in Writers
               PROVE  Cardinality({i \in Snaps : i[1] = w}) <= 1
    BY DEF OnceOnly, Snaps
  <2>1. CASE {i \in Snaps : i[1] = w} = {}
    BY <2>1, FS_EmptySet
  <2>2. CASE {i \in Snaps : i[1] = w} # {}
    <3>1. PICK i \in Snaps : i[1] = w
      BY <2>2
    <3>2. {j \in Snaps : j[1] = w} = {i}
      BY <3>1 DEF CommitInv, Ledger
    <3> QED
      BY <3>2, FS_Singleton
  <2> QED
    BY <2>1, <2>2
<1>2. NoDangling
  <2> SUFFICES ASSUME NEW i \in Snaps, NEW w \in table.snaps[i].files
               PROVE  Files(w) \subseteq objs
    BY DEF NoDangling, Snaps
  <2>1. HasLanded(w)
    BY DEF CommitInv, Ledger
  <2>2. w \in Writers
    <3>1. table.snaps[i] \in Snapshot
      BY TableShape DEF CommitInv, Types, Snaps
    <3> QED
      BY <3>1 DEF Snapshot
  <2> QED
    BY <2>1, <2>2, LandedHasFiles
<1>3. Reported
  <2> SUFFICES ASSUME NEW w \in Writers
               PROVE  /\ run[w].end = "done" => HasLanded(w)
                      /\ run[w].end = "err" =>
                           ~HasLanded(w) /\ \A r \in wire : r.id[1] = w => r.st # "open"
    BY DEF Reported, HasLanded, Snaps
  <2>1. Loop(w)
    BY DEF CommitInv
  <2>2. ASSUME run[w].end = "err"
        PROVE  \A r \in Of(w) : r.st = "refused"
    BY <2>1, <2>2 DEF Loop
  <2>3. run[w].end = "err" => ~HasLanded(w)
    BY <2>2, RefusedNeverLanded DEF CommitInv
  <2> QED
    BY <2>1, <2>2, <2>3 DEF Loop, Of
<1>4. WrittenForSchema
  BY DEF CommitInv, Ledger
<1>5. WatermarkHasRows
  BY DEF CommitInv, Ledger, WatermarkHasRows
<1>6. NothingLeft
  <2> SUFFICES ASSUME NEW w \in Writers, run[w].pc = "over", run[w].end = "err"
               PROVE  Files(w) \cap objs = {} /\ Files(w) \cap ups = {}
    BY DEF NothingLeft, Files
  <2>1. HasNothing(w)
    BY DEF HasNothing
  <2> QED
    BY <2>1 DEF CommitInv, Held
<1> QED
  BY <1>1, <1>2, <1>3, <1>4, <1>5, <1>6 DEF IceOnce

\* Iceberg, for any writers in any mixture of modes and however often the schema evolves:
\* a load lands at most once, no snapshot loses a file to a cleanup, what a run reports is
\* what happened, and a watermark stands only beside its rows.
THEOREM IceOnceHolds ==
    IceAssumption => (CommitSpec => []IceOnce)
<1> SUFFICES ASSUME IceAssumption
             PROVE  CommitSpec => []IceOnce
  OBVIOUS
<1>1. CommitInit => CommitInv
  BY CommitStarts
<1>2. CommitInv /\ [CommitNext]_commitVars => CommitInv'
  BY CommitStep
<1>3. CommitInv => IceOnce
  BY CommitGives
<1> QED
  BY <1>1, <1>2, <1>3, PTL DEF CommitSpec

\* A commit that is not a replace keeps what the table showed: append and merge carry the
\* parent's files, and a flipped bootstrap is applied only to a table without a snapshot.
LEMMA KeepsPeersStep ==
    ASSUME IceAssumption, CommitInv, [CommitNext]_commitVars
    PROVE  KeepsPeers
<1> SUFFICES ASSUME table'.cur # table.cur
             PROVE  \/ mode[table'.cur[1]] = "replace"
                    \/ Content(table) \subseteq Content(table')
  BY DEF KeepsPeers
<1>1. \A w \in Writers : ~WriterNext(w)
  BY DEF WriterNext, Prepare, LoadAborted, LoadEmpty, DelFails, DelCompletes, DataFails,
         DataCompletes, PeerWorkerFails, DiscardFiles, FinalizeEmpty, FinalizeFiles,
         AttemptFails, Attempt, AnswerDone, AnswerConflict, AnswerFailed, AnswerUnknown,
         ReloadFails, ReloadLanded, ReloadRetries
<1>2. ~Evolve
  BY DEF Evolve, CommitInv, Types, Tables
<1>3. PICK r \in wire : Apply(r)
  BY <1>1, <1>2 DEF CommitNext, Done, commitVars, Refuse
<1>4. /\ table'.cur = r.id /\ r.id # NoSnap /\ r.id[1] \in Writers
      /\ table'.snaps[r.id].files = r.files
  <2>1. /\ table'.cur = r.id /\ r.id # NoSnap /\ r.id[1] \in Writers
        /\ table'.snaps[r.id] = [files |-> r.files, wrote |-> r.schema, schema |-> r.schema]
    BY <1>3, Applied, Zenon
  <2> QED
    BY <2>1
<1>5. r.parent = table.cur
  BY <1>3 DEF Apply, Requirements
<1>6. /\ r.files = (IF mode[r.id[1]] \in {"append", "merge"} THEN Under(r.parent) ELSE {})
                      \cup {r.id[1]}
      /\ mode[r.id[1]] = "flipped" => r.parent = NoSnap
  BY DEF CommitInv, Ledger, WellFormed
<1>7. Content(table) = Under(table.cur) /\ Content(table') = r.files
  BY <1>4 DEF Content, Under
<1>8. mode[r.id[1]] \in {"append", "merge", "replace", "flipped"}
  BY <1>4 DEF CommitInv, Types, IceAssumption
<1>9. CASE mode[r.id[1]] \in {"append", "merge"}
  BY <1>5, <1>6, <1>7, <1>9
<1>10. CASE mode[r.id[1]] = "flipped"
  BY <1>5, <1>6, <1>7, <1>10 DEF Under
<1> QED
  BY <1>4, <1>8, <1>9, <1>10

\* Only a replace takes a peer's rows out of the table.
THEOREM KeepsPeersHolds ==
    IceAssumption => (CommitSpec => [][KeepsPeers]_commitVars)
<1> SUFFICES ASSUME IceAssumption
             PROVE  CommitSpec => [][KeepsPeers]_commitVars
  OBVIOUS
<1>1. CommitInit => CommitInv
  BY CommitStarts
<1>2. CommitInv /\ [CommitNext]_commitVars => CommitInv'
  BY CommitStep
<1>3. CommitInv /\ [CommitNext]_commitVars => [KeepsPeers]_commitVars
  BY KeepsPeersStep
<1> QED
  BY <1>1, <1>2, <1>3, PTL DEF CommitSpec

-----------------------------------------------------------------------------
(* Every cursor value of a probed range lies in exactly one span, and no   *)
(* candidate of the planner with more than one pipe exceeds its limit.     *)

\* What integer division gives, as far as the proofs need it: the quotient and
\* the remainder it leaves.
LEMMA Division ==
    ASSUME NEW a \in Nat, NEW d \in Nat \ {0}
    PROVE  /\ a \div d \in Nat
           /\ d * (a \div d) <= a
           /\ a < d * (a \div d) + d
  BY Z3

\* The step times the number of spans covers the range, and a step is at least one.
LEMMA StepCovers ==
    ASSUME NEW lo \in Int, NEW hi \in Int, lo <= hi, NEW n \in Nat \ {0}
    PROVE  /\ Step(lo, hi, n) \in Nat \ {0}
           /\ hi - lo + 1 <= n * Step(lo, hi, n)
  <1>1. hi - lo + n \in Nat OBVIOUS
  <1> DEFINE q == Step(lo, hi, n)
  <1>2. /\ q \in Nat
        /\ n * q <= hi - lo + n
        /\ hi - lo + n < n * q + n
    BY <1>1, Division DEF Step
  <1>3. hi - lo < n * q BY <1>2, Z3
  <1>4. q # 0 BY <1>2, <1>3, Z3
  <1> QED BY <1>2, <1>3, <1>4, Z3

\* spans (source/mod.rs) covers the probed range: a row whose cursor lies in
\* [lo, hi] is read by some statement, for every range and every span count.
THEOREM SpansCover ==
    ASSUME NEW lo \in Int, NEW hi \in Int, lo <= hi, NEW n \in Nat \ {0},
           NEW x \in lo..hi
    PROVE  \E k \in Made(lo, hi, n) :
              SpanLo(lo, hi, n, k) <= x /\ x <= SpanHi(lo, hi, n, k)
  <1> DEFINE s == Step(lo, hi, n)
             k == (x - lo) \div s
  <1>1. s \in Nat \ {0} /\ hi - lo + 1 <= n * s BY StepCovers
  <1>2. x - lo \in Nat OBVIOUS
  <1> HIDE DEF s
  <1>3. k \in Nat /\ s * k <= x - lo /\ x - lo < s * k + s
    BY <1>1, <1>2, Division
  <1> HIDE DEF k
  <1>4. k < n
    <2> SUFFICES ASSUME k >= n PROVE FALSE BY <1>3
    <2>1. s * k >= s * n BY <1>1, <1>3, Z3
    <2> QED BY <2>1, <1>1, <1>3, Z3
  <1>5. k * s = s * k /\ (k + 1) * s = s * k + s BY <1>1, <1>3, Z3
  <1>6. lo + k * s <= x /\ x <= lo + (k + 1) * s - 1 BY <1>3, <1>5, <1>1, Z3
  <1>7. k \in Made(lo, hi, n)
    <2>1. k \in 0..(n - 1) BY <1>3, <1>4
    <2>2. k * s \in Int BY <1>1, <1>3
    <2>3. lo + k * s <= hi BY <1>6, <2>2
    <2>4. SpanLo(lo, hi, n, k) <= hi BY <2>3 DEF SpanLo, s
    <2> QED BY <2>1, <2>4 DEF Made
  <1>8. SpanLo(lo, hi, n, k) <= x /\ x <= SpanHi(lo, hi, n, k)
    BY <1>6, <1>1, <1>3 DEF SpanLo, SpanHi, s
  <1> QED BY <1>7, <1>8

\* No cursor value lies in two spans: a row is read once.
THEOREM SpansDisjoint ==
    ASSUME NEW lo \in Int, NEW hi \in Int, lo <= hi, NEW n \in Nat \ {0},
           NEW x \in Int, NEW j \in Made(lo, hi, n), NEW k \in Made(lo, hi, n),
           SpanLo(lo, hi, n, j) <= x, x <= SpanHi(lo, hi, n, j),
           SpanLo(lo, hi, n, k) <= x, x <= SpanHi(lo, hi, n, k)
    PROVE  j = k
  <1> DEFINE s == Step(lo, hi, n)
  <1>1. s \in Nat \ {0} BY StepCovers
  <1>2. j \in Nat /\ k \in Nat BY DEF Made
  <1>3. /\ lo + j * s <= x /\ x <= lo + (j + 1) * s - 1
        /\ lo + k * s <= x /\ x <= lo + (k + 1) * s - 1
    <2>1. (j + 1) * s \in Int /\ (k + 1) * s \in Int /\ j * s \in Int /\ k * s \in Int
      BY <1>1, <1>2
    <2> QED BY <1>1, <2>1 DEF SpanLo, SpanHi
  <1> HIDE DEF s
  <1>4. ~(j < k)
    <2> SUFFICES ASSUME j < k PROVE FALSE OBVIOUS
    <2>1. (j + 1) * s <= k * s BY <1>1, <1>2, Z3
    <2> QED BY <2>1, <1>3, <1>1, <1>2, Z3
  <1>5. ~(k < j)
    <2> SUFFICES ASSUME k < j PROVE FALSE OBVIOUS
    <2>1. (k + 1) * s <= j * s BY <1>1, <1>2, Z3
    <2> QED BY <2>1, <1>3, <1>1, <1>2, Z3
  <1> QED BY <1>2, <1>4, <1>5

\* fit (pipeline/mod.rs): whatever the prices, a shape it may choose with more
\* than one pipe peaks within the memory limit, and never above the ask.
THEOREM CandidateFits ==
    ASSUME NEW cost, cost.reserve \in Nat, cost.chunks \in Nat, cost.fixed \in Nat,
           cost.perRowGroup \in Nat,
           NEW ask \in Nat \ {0}, NEW mem \in Nat, NEW chunk \in Nat, NEW rg \in Nat,
           Score(cost, ask, mem, chunk, rg) > 1
    PROVE  /\ ModelPeak(cost, chunk, rg, Score(cost, ask, mem, chunk, rg)) <= mem
           /\ Score(cost, ask, mem, chunk, rg) <= ask
  <1> DEFINE b == PipeBytes(cost, chunk, rg)
             d == AtLeastOne(b)
             m == IF mem > cost.reserve THEN mem - cost.reserve ELSE 0
             a == Allowed(cost, chunk, rg, mem)
             p == Score(cost, ask, mem, chunk, rg)
  <1>1. b \in Nat
    <2>1. cost.chunks * chunk \in Nat /\ cost.perRowGroup * rg \in Nat OBVIOUS
    <2> QED BY <2>1 DEF PipeBytes
  <1>2. d \in Nat \ {0} /\ b <= d BY <1>1 DEF AtLeastOne
  <1>3. m \in Nat OBVIOUS
  <1>4. a = m \div d BY DEF Allowed
  <1> HIDE DEF d, m, a
  <1>5. a \in Nat /\ d * a <= m BY <1>2, <1>3, <1>4, Division
  <1>6. p \in Nat /\ p <= a /\ p <= ask /\ p > 1
    <2>1. p = AtLeastOne(IF a < ask THEN a ELSE ask) BY DEF Score, a
    <2> HIDE DEF p
    <2>2. p > 1 BY DEF p
    <2> QED BY <1>5, <2>1, <2>2 DEF AtLeastOne
  <1> HIDE DEF p, b
  <1>7. p * b <= d * a
    <2>1. p * b <= p * d BY <1>1, <1>2, <1>6, Z3
    <2>2. p * d <= a * d BY <1>2, <1>5, <1>6, Z3
    <2>3. a * d = d * a BY <1>2, <1>5, Z3
    <2>4. p * b \in Int /\ p * d \in Int /\ a * d \in Int BY <1>1, <1>2, <1>5, <1>6
    <2> QED BY <2>1, <2>2, <2>3, <2>4
  <1>8. m > 0
    <2>1. p * b \in Nat /\ d * a \in Nat BY <1>1, <1>2, <1>5, <1>6
    <2>2. d * a >= 1 BY <1>2, <1>5, <1>6, Z3
    <2> QED BY <1>3, <1>5, <2>1, <2>2
  <1>9. m = mem - cost.reserve BY <1>8 DEF m
  <1>10. p * b + cost.reserve <= mem
    <2>1. p * b \in Int /\ d * a \in Int BY <1>1, <1>2, <1>5, <1>6
    <2> QED BY <1>3, <1>5, <1>7, <1>9, <2>1
  <1> QED BY <1>6, <1>10 DEF ModelPeak, p, b

-----------------------------------------------------------------------------
(* The BigQuery loader (BqUpload), for any number of rows, files, tries and *)
(* stalls.                                                                  *)

\* The n rows that follow row a, in order.
Ivl(a, n) == [i \in 1..n |-> a + i]

Elems(s) == {s[i] : i \in DOMAIN s}

\* The rows of the files that are sealed.
Base == ld.rows - ld.file

Uploading == {"open", "put", "finish"}

\* The file being written: what the session has for certain, what is being sent, what waits.
Window ==
    ld.pc \in Uploading =>
        /\ ld.file = ld.offset + Len(ld.chunk) + Len(ld.buf) /\ ld.file <= ld.rows
        /\ ld.chunk = Ivl(Base + ld.offset, Len(ld.chunk))
        /\ ld.buf = Ivl(Base + ld.offset + Len(ld.chunk), Len(ld.buf))
        /\ IF ld.pc = "put" THEN ld.buf = <<>> /\ ld.fresh /\ sess # None
           ELSE ld.chunk = <<>> /\ ld.total = None
        /\ ld.total # None => ld.total = ld.file
        /\ ~ld.fresh => jobs = <<>>

\* The session has what the loader knows it has, and while a PUT is unanswered perhaps
\* more of it; a job is made of it when it holds the whole file.
Session ==
    ld.pc \in Uploading =>
        IF sess = None THEN ld.offset = 0
        ELSE /\ ld.offset <= Len(sess.rows) /\ Len(sess.rows) <= ld.offset + Len(ld.chunk)
             /\ sess.rows = Ivl(Base, Len(sess.rows))
             /\ sess.job # 0 => /\ sess.job \in DOMAIN jobs
                                /\ ld.total # None /\ Len(sess.rows) = ld.total

\* A job's rows follow each other and no two jobs share one; together the jobs have every
\* row of the sealed files, and only the open session's has others.
JobsFit ==
    /\ \A j \in DOMAIN jobs : \E a \in Nat : jobs[j].rows = Ivl(a, Len(jobs[j].rows))
    /\ \A j, k \in DOMAIN jobs : j # k => Elems(jobs[j].rows) \cap Elems(jobs[k].rows) = {}
    /\ ld.pc \in Uploading =>
         /\ \A j \in DOMAIN jobs :
              sess = None \/ sess.job # j => Elems(jobs[j].rows) \subseteq 1..Base
         /\ sess # None /\ sess.job # 0 => jobs[sess.job].rows = sess.rows
    /\ ld.pc \in Uploading \cup {"loaded"} =>
         /\ 1..Base \subseteq UNION {Elems(jobs[j].rows) : j \in DOMAIN jobs}
         /\ \A j \in DOMAIN jobs : Elems(jobs[j].rows) \subseteq 1..ld.rows
    /\ ld.pc = "loaded" => ld.file = 0 /\ sess = None /\ ld.pending = <<>>

Awaited(j) == \E i \in DOMAIN ld.pending : ld.pending[i].job = j

\* Every job is known to the loader until it is done; where answers arrive, also after a
\* failure until it has ended.
Known ==
    /\ \A i \in DOMAIN ld.pending : ld.pending[i].job \in DOMAIN jobs
    /\ ld.pc \in Uploading \cup {"loaded"} =>
         \A j \in DOMAIN jobs :
             jobs[j].st = "done" \/ Awaited(j) \/ (sess # None /\ sess.job = j)
    /\ ld.pc \in {"quiesce", "failed", "discarded"} /\ ~outage =>
         \A j \in DOMAIN jobs : Terminal(j) \/ Awaited(j)
    /\ ld.pc \in {"failed", "discarded"} => ld.pending = <<>>

DoneJobs == {j \in DOMAIN jobs : jobs[j].st = "done"}

OneEach(s) == \A i, k \in DOMAIN s : s[i] = s[k] => i = k

\* The staging holds the rows of the jobs that are done, each once.
LandedRows ==
    /\ ld.pc # "discarded" =>
         IF staged = None THEN DoneJobs = {}
         ELSE /\ OneEach(staged)
              /\ Elems(staged) = UNION {Elems(jobs[j].rows) : j \in DoneJobs}
    /\ ~outage => StaysDropped
    /\ ld.pc # "loaded" => wm = 0

UploadInv == UploadTypeOK /\ Window /\ Session /\ JobsFit /\ Known /\ LandedRows

\* What an interval is, as a sequence.
LEMMA IvlIs ==
  ASSUME NEW a \in Nat, NEW n \in Nat
  PROVE  /\ Ivl(a, n) \in Seq(Nat) /\ Len(Ivl(a, n)) = n /\ DOMAIN Ivl(a, n) = 1..n
         /\ \A i \in 1..n : Ivl(a, n)[i] = a + i
         /\ Elems(Ivl(a, n)) = (a + 1)..(a + n)
<1>1. Ivl(a, n) \in [1..n -> Nat] /\ \A i \in 1..n : Ivl(a, n)[i] = a + i
  BY DEF Ivl
<1>2. Ivl(a, n) \in Seq(Nat) /\ Len(Ivl(a, n)) = n
  BY <1>1
<1>3. ASSUME NEW r \in (a + 1)..(a + n) PROVE r \in Elems(Ivl(a, n))
  <2>1. r - a \in 1..n /\ Ivl(a, n)[r - a] = r
    BY <1>1, <1>3
  <2> QED
    BY <1>1, <2>1 DEF Elems
<1>4. Elems(Ivl(a, n)) \subseteq (a + 1)..(a + n)
  BY <1>1 DEF Elems
<1> QED
  BY <1>1, <1>2, <1>3, <1>4

\* A sequence that counts up from a is an interval.
LEMMA IvlOf ==
  ASSUME NEW a \in Nat, NEW s \in Seq(Nat), \A i \in 1..Len(s) : s[i] = a + i
  PROVE  s = Ivl(a, Len(s))
<1>1. Len(s) \in Nat
  BY LenProperties
<1> QED
  BY <1>1, IvlIs, SeqEqual

LEMMA IvlEmpty == ASSUME NEW a \in Nat PROVE Ivl(a, 0) = <<>>
<1> DEFINE s == Ivl(a, 0)
<1>1. s \in Seq(Nat) /\ Len(s) = 0
  BY IvlIs
<1> HIDE DEF s
<1>2. s = <<>>
  BY <1>1, EmptySeq
<1> QED
  BY <1>2 DEF s

LEMMA IvlAppend ==
  ASSUME NEW a \in Nat, NEW n \in Nat
  PROVE  Append(Ivl(a, n), a + n + 1) = Ivl(a, n + 1)
<1> DEFINE s == Append(Ivl(a, n), a + n + 1)
<1> DEFINE l == Ivl(a, n)
<1>0. l \in Seq(Nat) /\ Len(l) = n /\ \A i \in 1..n : l[i] = a + i
  BY IvlIs
<1>a. a + n + 1 \in Nat
  OBVIOUS
<1> HIDE DEF l
<1>1. Append(l, a + n + 1) \in Seq(Nat) /\ Len(Append(l, a + n + 1)) = n + 1
      /\ \A i \in 1..n + 1 : Append(l, a + n + 1)[i] = a + i
  BY <1>0, <1>a, AppendProperties
<1> USE DEF l
<1> QED
  BY <1>1, IvlOf

LEMMA IvlConcat ==
  ASSUME NEW a \in Nat, NEW n \in Nat, NEW m \in Nat
  PROVE  Ivl(a, n) \o Ivl(a + n, m) = Ivl(a, n + m)
<1> DEFINE p == Ivl(a, n)
           q == Ivl(a + n, m)
<1>1. a + n \in Nat /\ n + m \in Nat
  OBVIOUS
<1>2. p \in Seq(Nat) /\ Len(p) = n /\ \A i \in 1..n : p[i] = a + i
  BY IvlIs
<1>3. q \in Seq(Nat) /\ Len(q) = m /\ \A i \in 1..m : q[i] = (a + n) + i
  BY <1>1, IvlIs
<1> HIDE DEF p, q
<1> DEFINE s == p \o q
<1>4. s \in Seq(Nat) /\ Len(s) = n + m
      /\ \A i \in 1..n + m : s[i] = IF i <= n THEN p[i] ELSE q[i - n]
  BY <1>2, <1>3, ConcatProperties
<1> HIDE DEF s
<1>5. ASSUME NEW i \in 1..n + m PROVE s[i] = a + i
  <2>1. CASE i <= n
    BY <1>2, <1>4, <2>1
  <2>2. CASE ~(i <= n)
    <3>1. i - n \in 1..m
      BY <2>2
    <3>2. s[i] = (a + n) + (i - n)
      BY <1>3, <1>4, <2>2, <3>1
    <3> QED
      BY <3>2
  <2> QED
    BY <2>1, <2>2
<1>6. s = Ivl(a, Len(s))
  BY <1>4, <1>5, IvlOf
<1> QED
  BY <1>4, <1>6 DEF s, p, q

LEMMA IvlSub ==
  ASSUME NEW a \in Nat, NEW n \in Nat, NEW h \in 0..n, NEW k \in h..n
  PROVE  SubSeq(Ivl(a, n), h + 1, k) = Ivl(a + h, k - h)
<1> DEFINE s == SubSeq(Ivl(a, n), h + 1, k)
<1>1. \A i \in (h + 1)..k : Ivl(a, n)[i] = a + i
  BY IvlIs
<1>2. s \in Seq(Nat) /\ Len(s) = (IF h + 1 <= k THEN k - (h + 1) + 1 ELSE 0)
      /\ \A i \in 1..k - (h + 1) + 1 : s[i] = Ivl(a, n)[h + 1 + i - 1]
  BY <1>1, SubSeqProperties
<1>3. Len(s) = k - h
  BY <1>2
<1>4. ASSUME NEW i \in 1..k - h PROVE s[i] = a + h + i
  <2>1. i \in 1..k - (h + 1) + 1 /\ h + 1 + i - 1 = h + i /\ h + i \in 1..n
    OBVIOUS
  <2>2. s[i] = Ivl(a, n)[h + i]
    BY <1>2, <2>1
  <2> QED
    BY <2>1, <2>2, IvlIs
<1>5. a + h \in Nat
  OBVIOUS
<1> HIDE DEF s
<1>6. s = Ivl(a + h, Len(s))
  BY <1>2, <1>3, <1>4, <1>5, IvlOf
<1> QED
  BY <1>3, <1>6 DEF s

\* What a PUT of which n rows are persisted leaves in the session, and which job it makes.
LEMMA PutIs ==
  ASSUME BoundsAssumption, UploadTypeOK, Window, Session, JobsFit, ld.pc = "put",
         NEW n \in Persistable
  PROVE  LET s == After(n)  js == JobsAfter(s) IN
         /\ n \in 0..Len(ld.chunk) /\ ld.offset + n >= Len(sess.rows)
         /\ s \in [rows : Seq(Nat), job : Nat] /\ s # None
         /\ s.rows = Ivl(Base, ld.offset + n) /\ Len(s.rows) = ld.offset + n
         /\ js \in Seq([rows : Seq(Nat), st : {"running", "done", "failed"}])
         /\ \/ js = jobs /\ s.job = sess.job
               /\ ~(ld.total # None /\ Len(s.rows) = ld.total /\ sess.job = 0)
            \/ /\ ld.total # None /\ Len(s.rows) = ld.total /\ sess.job = 0
               /\ s.job = Len(jobs) + 1 /\ js = Append(jobs, [rows |-> s.rows, st |-> "running"])
               /\ DOMAIN js = DOMAIN jobs \cup {s.job} /\ s.job \notin DOMAIN jobs
               /\ js[s.job] = [rows |-> s.rows, st |-> "running"]
               /\ \A j \in DOMAIN jobs : js[j] = jobs[j]
         /\ s.job # 0 => /\ s.job \in DOMAIN js /\ js[s.job].rows = s.rows
                         /\ ld.total # None /\ Len(s.rows) = ld.total
<1> DEFINE a == ld.offset
           c == Len(ld.chunk)
           k == Len(sess.rows)
           s == After(n)
           js == JobsAfter(s)
           full == ld.total # None /\ Len(s.rows) = ld.total
<1>1. /\ sess # None /\ sess \in [rows : Seq(Nat), job : Nat] /\ k \in Nat /\ a \in Nat /\ c \in Nat
      /\ Base \in Nat /\ Len(jobs) \in Nat /\ DOMAIN jobs = 1..Len(jobs)
  <2>1. ld.rows \in Nat /\ ld.file \in Nat /\ ld.file <= ld.rows /\ ld.chunk \in Seq(Nat) /\ a \in Nat
    BY DEF Window, Uploading, UploadTypeOK
  <2>2. sess # None /\ sess \in [rows : Seq(Nat), job : Nat]
    BY DEF Window, Uploading, UploadTypeOK
  <2>3. sess.rows \in Seq(Nat)
    BY <2>2
  <2>4. Base \in Nat
    BY <2>1 DEF Base
  <2> QED
    BY <2>1, <2>2, <2>3, <2>4, LenProperties DEF UploadTypeOK
<1>2. /\ a <= k /\ k <= a + c /\ sess.rows = Ivl(Base, k)
      /\ sess.job # 0 => sess.job \in DOMAIN jobs /\ ld.total # None /\ k = ld.total
  BY <1>1 DEF Session, Uploading
<1>3. ld.chunk = Ivl(Base + a, c)
  BY DEF Window, Uploading
<1>4. n \in 0..c /\ a + n >= k
  BY DEF Persistable
<1> HIDE DEF a, c, k
<1>5. k - a \in 0..c /\ n \in (k - a)..c /\ Base + a \in Nat
  BY <1>1, <1>2, <1>4
<1>6. SubSeq(ld.chunk, (k - a) + 1, n) = Ivl((Base + a) + (k - a), n - (k - a))
  <2> DEFINE h == k - a
             b == Base + a
  <2>1. h \in 0..c /\ n \in h..c /\ b \in Nat /\ c \in Nat
    BY <1>1, <1>5
  <2> HIDE DEF h, b
  <2>2. SubSeq(Ivl(b, c), h + 1, n) = Ivl(b + h, n - h)
    BY <2>1, IvlSub
  <2> QED
    BY <1>3, <2>2 DEF h, b
<1>7. (Base + a) + (k - a) = Base + k /\ n - (k - a) \in Nat /\ k + (n - (k - a)) = a + n
  BY <1>1, <1>4, <1>5
<1>8. s.rows = Ivl(Base, k) \o Ivl(Base + k, n - (k - a))
  BY <1>2, <1>6, <1>7 DEF After, a, k
<1>9. s.rows = Ivl(Base, a + n)
  <2> DEFINE d == n - (k - a)
  <2>1. d \in Nat /\ k + d = a + n
    BY <1>7
  <2> HIDE DEF d
  <2>2. Ivl(Base, k) \o Ivl(Base + k, d) = Ivl(Base, k + d)
    BY <1>1, <2>1, IvlConcat
  <2> QED
    BY <1>8, <2>1, <2>2 DEF d
<1>10. a + n \in Nat
  BY <1>1, <1>4
<1> HIDE DEF s
<1>11. s.rows \in Seq(Nat) /\ Len(s.rows) = a + n
  <2> DEFINE e == a + n
  <2>1. e \in Nat /\ s.rows = Ivl(Base, e)
    BY <1>9, <1>10
  <2> HIDE DEF e
  <2>2. s.rows \in Seq(Nat) /\ Len(s.rows) = e
    BY <1>1, <2>1, IvlIs
  <2> QED
    BY <2>2 DEF e
<1>12. s.job = IF full /\ sess.job = 0 THEN Len(jobs) + 1 ELSE sess.job
  BY DEF After, s
<1>13. s = [rows |-> s.rows, job |-> s.job]
  BY DEF After, s
<1>14. s \in [rows : Seq(Nat), job : Nat] /\ s # None
  <2>1. s.job \in Nat
    BY <1>1, <1>12
  <2> QED
    BY <1>11, <1>13, <2>1 DEF BoundsAssumption
<1> HIDE DEF s
<1>15. CASE full /\ sess.job = 0
  <2>1. s.job = Len(jobs) + 1
    BY <1>12, <1>15
  <2>2. js = Append(jobs, [rows |-> s.rows, st |-> "running"])
    BY <1>1, <2>1 DEF JobsAfter
  <2>3. jobs \in Seq([rows : Seq(Nat), st : {"running", "done", "failed"}])
        /\ [rows |-> s.rows, st |-> "running"] \in [rows : Seq(Nat), st : {"running", "done", "failed"}]
    BY <1>11 DEF UploadTypeOK
  <2> HIDE DEF js
  <2>4. /\ js \in Seq([rows : Seq(Nat), st : {"running", "done", "failed"}])
        /\ Len(js) = Len(jobs) + 1 /\ js[Len(jobs) + 1] = [rows |-> s.rows, st |-> "running"]
        /\ \A j \in 1..Len(jobs) : js[j] = jobs[j]
    BY <2>2, <2>3, AppendProperties
  <2>5. DOMAIN js = 1..Len(jobs) + 1
    BY <2>4, LenProperties
  <2>6. DOMAIN js = DOMAIN jobs \cup {s.job} /\ s.job \notin DOMAIN jobs /\ s.job \in DOMAIN js
    BY <1>1, <2>1, <2>5
  <2>7. js[s.job].rows = s.rows
    BY <2>1, <2>4
  <2> QED
    BY <1>4, <1>9, <1>11, <1>14, <1>15, <2>1, <2>2, <2>4, <2>6, <2>7, <1>1 DEF js, s, a, c, k
<1>16. CASE ~(full /\ sess.job = 0)
  <2>1. s.job = sess.job
    BY <1>12, <1>16
  <2>2. s.job # 0 => s.job \in 1..Len(jobs)
    BY <1>1, <1>2, <2>1
  <2>3. js = jobs
    <3>1. ~(s.job > Len(jobs))
      BY <1>1, <2>2
    <3> QED
      BY <3>1 DEF JobsAfter
  <2>4. s.job # 0 => /\ s.job \in DOMAIN jobs /\ jobs[s.job].rows = s.rows
                     /\ ld.total # None /\ Len(s.rows) = ld.total
    <3>1. SUFFICES ASSUME s.job # 0
                   PROVE  /\ s.job \in DOMAIN jobs /\ jobs[s.job].rows = s.rows
                          /\ ld.total # None /\ Len(s.rows) = ld.total
      OBVIOUS
    <3>2. ld.total # None /\ k = ld.total /\ jobs[s.job].rows = sess.rows
      BY <1>1, <1>2, <2>1, <3>1 DEF JobsFit, Uploading
    <3>3. ld.total = a + c
      <4>1. ld.total = ld.file /\ ld.file = a + c + Len(ld.buf) /\ ld.buf = <<>>
        BY <3>2 DEF Window, Uploading, a, c
      <4> QED
        BY <1>1, <4>1, EmptySeq
    <3>4. a + n = k
      BY <1>1, <1>4, <3>2, <3>3
    <3> QED
      BY <1>1, <1>2, <1>9, <1>11, <2>1, <2>2, <3>1, <3>2, <3>4
  <2> QED
    BY <1>4, <1>9, <1>11, <1>14, <1>16, <2>1, <2>3, <2>4 DEF UploadTypeOK, s, a, c, k
<1> QED
  BY <1>15, <1>16

\* Every action keeps the types.
LEMMA UploadTypeStep ==
  ASSUME BoundsAssumption, UploadInv, [UploadNext]_uploadVars
  PROVE  UploadTypeOK'
<1> DEFINE R == Seq(Nat)
           P == Seq([job : Nat, sent : Nat])
           N == Nat \cup {None}
           S == [rows : Seq(Nat), job : Nat]
           J == Seq([rows : Seq(Nat), st : {"running", "done", "failed"}])
           Places == {"open", "put", "finish", "quiesce", "loaded", "failed", "discarded"}
           Typed == /\ outage \in BOOLEAN
                    /\ ld \in [pc : Places, rows : Nat, file : Nat, buf : R, chunk : R,
                               offset : Nat, total : N, tries : Nat, stalls : Nat,
                               fresh : BOOLEAN, pending : P, sum : Nat, files : Nat,
                               ended : BOOLEAN]
                    /\ sess \in {None} \cup S /\ jobs \in J /\ staged \in {None} \cup R /\ wm \in Nat
<1>0. UploadTypeOK /\ Window /\ Session /\ JobsFit /\ Typed
  BY DEF UploadInv, UploadTypeOK
<1>a. SUFFICES Typed'
  BY DEF UploadTypeOK
<1>b. <<>> \in R /\ None \in N /\ Nat \subseteq N
  BY EmptySeq
<1>c. Len(ld.buf) \in Nat /\ Len(ld.chunk) \in Nat
  BY <1>0, LenProperties DEF Typed
<1>d. ASSUME NEW n \in Persistable, ld.pc = "put"
      PROVE  After(n) \in S /\ JobsAfter(After(n)) \in J
  BY <1>0, <1>d, PutIs
<1>e. ld.pc = "put" => Len(ld.chunk) \in Persistable
  <2>1. SUFFICES ASSUME ld.pc = "put" PROVE Len(ld.chunk) \in Persistable
    OBVIOUS
  <2>2. sess # None /\ Len(sess.rows) <= ld.offset + Len(ld.chunk)
    BY <1>0, <2>1 DEF Window, Session, Uploading
  <2> QED
    BY <1>c, <2>2 DEF Persistable
<1>f. Append(ld.buf, ld.rows + 1) \in R
  BY <1>0, AppendProperties
<1>g. ASSUME NEW n \in Nat PROVE SubSeq(ld.chunk, n + 1, Len(ld.chunk)) \in R
  <2>1. ld.chunk \in Seq(Nat)
    BY <1>0
  <2>2. \A i \in n + 1..Len(ld.chunk) : ld.chunk[i] \in Nat
    BY <1>c, <2>1
  <2> QED
    BY <1>c, <2>2, SubSeqProperties
<1>h. ASSUME NEW p \in [job : Nat, sent : Nat] PROVE Append(ld.pending, p) \in P
  BY <1>0, AppendProperties
<1>i. ld.pending # <<>> => Head(ld.pending).sent \in Nat /\ Tail(ld.pending) \in P
  <2>1. SUFFICES ASSUME ld.pending # <<>>
                 PROVE  Head(ld.pending).sent \in Nat /\ Tail(ld.pending) \in P
    OBVIOUS
  <2>2. Head(ld.pending) \in [job : Nat, sent : Nat] /\ Tail(ld.pending) \in P
    BY <1>0, <2>1, HeadTailProperties
  <2> QED
    BY <2>2
<1>j. ASSUME NEW j \in DOMAIN jobs, NEW st \in {"done", "failed"}
      PROVE  [jobs EXCEPT ![j].st = st] \in J
  <2>1. j \in 1..Len(jobs)
    BY <1>0, LenProperties
  <2>2. jobs[j] \in [rows : Seq(Nat), st : {"running", "done", "failed"}]
    BY <1>0, <2>1, ElementOfSeq
  <2> DEFINE e == [jobs[j] EXCEPT !.st = st]
  <2>3. e \in [rows : Seq(Nat), st : {"running", "done", "failed"}]
    BY <2>2
  <2> HIDE DEF e
  <2>4. [jobs EXCEPT ![j] = e] \in J
    BY <1>0, <2>1, <2>3, ExceptSeq
  <2> QED
    BY <2>4 DEF e
<1>k. ASSUME NEW j \in DOMAIN jobs
      PROVE  (IF staged = None THEN <<>> ELSE staged) \o jobs[j].rows \in R
  <2>1. jobs[j].rows \in Seq(Nat)
    <3>1. j \in 1..Len(jobs)
      BY <1>0, LenProperties
    <3>2. jobs[j] \in [rows : Seq(Nat), st : {"running", "done", "failed"}]
      BY <1>0, <3>1, ElementOfSeq
    <3> QED
      BY <3>2
  <2>2. (IF staged = None THEN <<>> ELSE staged) \in Seq(Nat)
    BY <1>0, <1>b
  <2> QED
    BY <2>1, <2>2, ConcatProperties
<1>l. ASSUME NEW n \in Persistable, ld.pc = "put" PROVE n \in Nat
  BY <1>c, <1>l DEF Persistable
<1> HIDE DEF R, P, N, S, J, Places
<1>m. ASSUME NEW q \in Places PROVE [ld EXCEPT !.pc = q] \in [pc : Places, rows : Nat,
            file : Nat, buf : R, chunk : R, offset : Nat, total : N, tries : Nat, stalls : Nat,
            fresh : BOOLEAN, pending : P, sum : Nat, files : Nat, ended : BOOLEAN]
  BY <1>0
<1>n. Places = {"open", "put", "finish", "quiesce", "loaded", "failed", "discarded"}
  BY DEF Places
<1>1. CASE SendRow
  <2> DEFINE a == ld.rows + 1
             b == ld.file + 1
             f == Append(ld.buf, ld.rows + 1)
  <2>1. a \in Nat /\ b \in Nat /\ f \in R
    BY <1>0, <1>f
  <2>2. ld' = [ld EXCEPT !.rows = a, !.file = b, !.buf = f]
        /\ UNCHANGED <<outage, sess, jobs, staged, wm>>
    BY <1>1 DEF SendRow
  <2> HIDE DEF a, b, f
  <2> QED
    BY <1>0, <2>1, <2>2
<1>2. ASSUME NEW t \in N, Begin(t) PROVE Typed'
  <2>1. ld' \in [pc : Places, rows : Nat, file : Nat, buf : R, chunk : R, offset : Nat,
                 total : N, tries : Nat, stalls : Nat, fresh : BOOLEAN, pending : P,
                 sum : Nat, files : Nat, ended : BOOLEAN]
    BY <1>0, <1>2, <1>b, <1>n DEF Begin
  <2>2. [rows |-> <<>>, job |-> 0] \in S
    BY <1>b DEF S, R
  <2> QED
    BY <1>0, <1>2, <2>1, <2>2 DEF Begin, DropStale
<1>3. CASE Drain \/ Seal
  <2>1. ld.offset + Len(ld.buf) \in N
    BY <1>0, <1>b, <1>c
  <2> QED
    <3>1. CASE Drain
      BY <1>2, <1>b, <3>1 DEF Drain
    <3>2. CASE Seal
      BY <1>2, <2>1, <3>2 DEF Seal
    <3> QED
      BY <1>3, <3>1, <3>2
<1>4. CASE PutLost
  <2> DEFINE a == ld.tries + 1
             q == IF ld.tries + 1 = Tries THEN "quiesce" ELSE "put"
  <2>1. a \in Nat /\ q \in Places
    BY <1>0, <1>n
  <2>2. ld' = [ld EXCEPT !.tries = a, !.pc = q] /\ UNCHANGED <<outage, staged, wm>>
    BY <1>4 DEF PutLost
  <2> HIDE DEF a, q
  <2>3. sess' \in S /\ jobs' \in J
    BY <1>4, <1>d DEF PutLost
  <2> QED
    BY <1>0, <2>1, <2>2, <2>3
<1>5. CASE PutTaken
  <2> DEFINE a == ld.offset + Len(ld.chunk)
  <2>1. a \in Nat
    BY <1>0, <1>c
  <2>2. ld' = [ld EXCEPT !.pc = "open", !.offset = a, !.chunk = <<>>]
        /\ UNCHANGED <<outage, jobs, staged, wm>> /\ sess' \in S
    BY <1>5, <1>d, <1>e DEF PutTaken
  <2> HIDE DEF a
  <2> QED
    BY <1>0, <1>b, <1>n, <2>1, <2>2
<1>6. CASE PutShort
  <2>1. PICK n \in Persistable : sess' = After(n)
             /\ ld' = IF ld.stalls >= MaxStalls THEN [ld EXCEPT !.pc = "quiesce"]
                      ELSE Remainder(n)
    BY <1>6 DEF PutShort
  <2> DEFINE a == ld.stalls + 1
             b == ld.offset + n
             f == SubSeq(ld.chunk, n + 1, Len(ld.chunk))
  <2>2. ld.pc = "put" /\ UNCHANGED <<outage, jobs, staged, wm>>
    BY <1>6 DEF PutShort
  <2>3. sess' \in S /\ n \in Nat
    BY <1>d, <1>l, <2>1, <2>2
  <2>4. a \in Nat /\ b \in Nat /\ f \in R
    BY <1>0, <1>g, <2>3
  <2>5. ld' = [ld EXCEPT !.pc = "quiesce"]
        \/ ld' = [ld EXCEPT !.stalls = a, !.tries = 0, !.offset = b, !.chunk = f]
    BY <2>1 DEF Remainder
  <2> HIDE DEF a, b, f
  <2> QED
    <3>1. CASE ld' = [ld EXCEPT !.pc = "quiesce"]
      BY <1>0, <1>m, <1>n, <2>2, <2>3, <3>1
    <3>2. CASE ld' = [ld EXCEPT !.stalls = a, !.tries = 0, !.offset = b, !.chunk = f]
      BY <1>0, <2>2, <2>3, <2>4, <3>2
    <3> QED
      BY <2>5, <3>1, <3>2
<1>7. CASE PutFinal
  <2> DEFINE s == After(Len(ld.chunk))
             p == [job |-> s.job, sent |-> ld.file]
             q == IF ld.ended THEN "finish" ELSE "open"
             a == ld.files + 1
             f == Append(ld.pending, p)
  <2>1. s \in S /\ JobsAfter(s) \in J
    BY <1>7, <1>d, <1>e DEF PutFinal
  <2>2. s.job \in Nat
    BY <2>1 DEF S
  <2>3. p \in [job : Nat, sent : Nat]
    BY <1>0, <2>2
  <2>4. f \in P /\ a \in Nat /\ q \in Places
    BY <1>0, <1>h, <1>n, <2>3
  <2>5. jobs' = JobsAfter(s) /\ sess' = None /\ UNCHANGED <<outage, staged, wm>>
        /\ ld' = [ld EXCEPT !.pc = q, !.chunk = <<>>, !.offset = 0, !.total = None,
                            !.file = 0, !.files = a, !.pending = f]
    BY <1>7 DEF PutFinal
  <2> HIDE DEF s, p, q, a, f
  <2> QED
    BY <1>0, <1>b, <2>1, <2>4, <2>5
<1>8. CASE SourceEnds
  BY <1>0, <1>8, <1>n DEF SourceEnds
<1>9. CASE AbortUpload \/ DiscardStaging
  BY <1>0, <1>9, <1>m, <1>n DEF AbortUpload, DiscardStaging
<1>10. CASE UploadOver \/ UNCHANGED uploadVars
  BY <1>0, <1>10 DEF UploadOver, uploadVars
<1>11. ASSUME NEW j \in DOMAIN jobs, Load(j) \/ JobFails(j) PROVE Typed'
  <2>1. jobs' \in J
    BY <1>11, <1>j DEF Load, JobFails
  <2>2. staged' \in {None} \cup R
    BY <1>0, <1>11, <1>k DEF Load, JobFails
  <2> QED
    BY <1>0, <1>11, <2>1, <2>2 DEF Load, JobFails
<1>12. CASE AwaitDone
  <2> DEFINE a == ld.sum + Head(ld.pending).sent
             f == Tail(ld.pending)
  <2>1. a \in Nat /\ f \in P
    BY <1>0, <1>12, <1>i DEF AwaitDone
  <2>2. ld' = [ld EXCEPT !.pending = f, !.sum = a] /\ UNCHANGED <<outage, sess, jobs, staged, wm>>
    BY <1>12 DEF AwaitDone
  <2> HIDE DEF a, f
  <2> QED
    BY <1>0, <2>1, <2>2
<1>13. CASE AwaitFails \/ Settle
  <2> DEFINE f == Tail(ld.pending)
  <2>1. f \in P
    BY <1>13, <1>i DEF AwaitFails, Settle
  <2>2. (ld' = [ld EXCEPT !.pending = f, !.pc = "quiesce"] \/ ld' = [ld EXCEPT !.pending = f])
        /\ UNCHANGED <<outage, sess, jobs, staged, wm>>
    BY <1>13 DEF AwaitFails, Settle
  <2> HIDE DEF f
  <2> QED
    BY <1>0, <1>n, <2>1, <2>2
<1>14. CASE Commit
  <2>1. (ld' = [ld EXCEPT !.pc = "loaded"] \/ ld' = [ld EXCEPT !.pc = "quiesce"])
        /\ wm' \in Nat /\ UNCHANGED <<outage, sess, jobs, staged>>
    BY <1>0, <1>14 DEF Commit
  <2> QED
    BY <1>0, <1>m, <1>n, <2>1
<1>15. CASE Quiesced
  BY <1>0, <1>15, <1>m, <1>n DEF Quiesced
<1> QED
  BY <1>1, <1>3, <1>4, <1>5, <1>6, <1>7, <1>8, <1>9, <1>10, <1>11, <1>12, <1>13, <1>14,
     <1>15
  DEF UploadNext

\* What the typed fields of an uploading loader are, as numbers.
LEMMA Sizes ==
  ASSUME BoundsAssumption, UploadTypeOK, Window, ld.pc \in Uploading
  PROVE  /\ ld.rows \in Nat /\ ld.file \in Nat /\ ld.offset \in Nat /\ Base \in Nat
         /\ Len(ld.buf) \in Nat /\ Len(ld.chunk) \in Nat
         /\ ld.file = ld.offset + Len(ld.chunk) + Len(ld.buf) /\ ld.file <= ld.rows
<1>1. /\ ld.rows \in Nat /\ ld.file \in Nat /\ ld.offset \in Nat
      /\ ld.buf \in Seq(Nat) /\ ld.chunk \in Seq(Nat)
  BY DEF UploadTypeOK
<1>2. ld.file = ld.offset + Len(ld.chunk) + Len(ld.buf) /\ ld.file <= ld.rows
  BY DEF Window
<1>3. Len(ld.buf) \in Nat /\ Len(ld.chunk) \in Nat
  BY <1>1, LenProperties
<1> QED
  BY <1>1, <1>2, <1>3 DEF Base

\* An answered PUT puts the loader's window where the session stands.
LEMMA WindowStep ==
  ASSUME BoundsAssumption, UploadInv, [UploadNext]_uploadVars
  PROVE  Window'
<1>0. UploadTypeOK /\ Window /\ Session /\ JobsFit
  BY DEF UploadInv
<1>z. Len(<<>>) = 0 /\ \A a \in Nat : Ivl(a, 0) = <<>>
  BY IvlEmpty
<1>p. ld.pc = "put" => Len(ld.buf) = 0 /\ ld.buf = <<>> /\ ld.fresh /\ sess # None
  BY <1>0, <1>z DEF Window, Uploading
<1> DEFINE b == Len(ld.buf)
           c == Len(ld.chunk)
<1>1. CASE SendRow
  <2>1. ld.pc = "open" /\ ld.pc \in Uploading
    BY <1>1 DEF SendRow, Uploading
  <2>2. ld' = [ld EXCEPT !.rows = ld.rows + 1, !.file = ld.file + 1,
                         !.buf = Append(ld.buf, ld.rows + 1)] /\ UNCHANGED <<sess, jobs>>
    BY <1>1 DEF SendRow
  <2>3. /\ ld'.pc = "open" /\ ld'.rows = ld.rows + 1 /\ ld'.file = ld.file + 1
        /\ ld'.buf = Append(ld.buf, ld.rows + 1) /\ ld'.chunk = ld.chunk
        /\ ld'.offset = ld.offset /\ ld'.total = ld.total /\ ld'.fresh = ld.fresh
    BY <1>0, <2>1, <2>2 DEF UploadTypeOK
  <2>4. Base' = Base /\ ld.rows + 1 = (Base + ld.offset + c) + b + 1
        /\ Base + ld.offset + c \in Nat /\ b \in Nat
    <3>1. /\ ld.rows \in Nat /\ ld.file \in Nat /\ ld.offset \in Nat /\ Base \in Nat
          /\ b \in Nat /\ c \in Nat /\ ld.file = ld.offset + c + b /\ ld.file <= ld.rows
      BY <1>0, <2>1, Sizes
    <3> HIDE DEF b, c
    <3>2. Base = ld.rows - ld.file /\ Base' = (ld.rows + 1) - (ld.file + 1)
      BY <2>3 DEF Base
    <3> QED
      BY <3>1, <3>2
  <2>5. ld.buf = Ivl(Base + ld.offset + c, b)
    BY <1>0, <2>1 DEF Window
  <2>6. ld'.buf = Ivl(Base + ld.offset + c, b + 1)
    <3> DEFINE a == Base + ld.offset + c
    <3>1. Append(ld.buf, a + b + 1) = Ivl(a, b + 1)
      <4> HIDE DEF a, b
      <4> QED
        BY <2>4, <2>5, IvlAppend DEF a
    <3> QED
      BY <2>3, <2>4, <3>1
  <2>7. Len(ld'.buf) = b + 1
    <3>1. Len(Append(ld.buf, ld.rows + 1)) = Len(ld.buf) + 1
      <4>1. ld.buf \in Seq(Nat) /\ ld.rows + 1 \in Nat
        BY <1>0 DEF UploadTypeOK
      <4> QED
        BY <4>1, AppendProperties
    <3> QED
      BY <2>3, <3>1
  <2>8. /\ ld.file = ld.offset + c + b /\ ld.file <= ld.rows /\ c \in Nat /\ ld.offset \in Nat
        /\ ld.file \in Nat /\ ld.rows \in Nat
    BY <1>0, <2>1, Sizes
  <2>9. /\ ld.chunk = Ivl(Base + ld.offset, c) /\ ld.chunk = <<>> /\ ld.total = None
        /\ (~ld.fresh => jobs = <<>>)
    BY <1>0, <2>1 DEF Window
  <2>10. ld'.file = ld'.offset + Len(ld'.chunk) + Len(ld'.buf) /\ ld'.file <= ld'.rows
    <3>1. Len(ld'.chunk) = c
      BY <2>3
    <3>2. ld'.file = ld.file + 1 /\ ld'.rows = ld.rows + 1 /\ ld'.offset = ld.offset
      BY <2>3
    <3> DEFINE u == Len(ld'.buf)
               v == Len(ld'.chunk)
    <3>3. u = b + 1 /\ v = c /\ b \in Nat
      BY <2>4, <2>7, <3>1
    <3> HIDE DEF b, c, u, v
    <3>4. ld'.file = ld'.offset + v + u /\ ld'.file <= ld'.rows
      BY <2>8, <3>2, <3>3
    <3> QED
      BY <3>4 DEF u, v
  <2> HIDE DEF b, c
  <2> QED
    BY <2>2, <2>3, <2>4, <2>6, <2>7, <2>9, <2>10 DEF Window, b, c
<1>2. ASSUME NEW t, Begin(t), ld.pc \in {"open", "finish"}, t = None \/ t = ld.offset + b
      PROVE  Window'
  <2>1. ld.pc \in Uploading /\ ld.pc # "put"
    BY <1>2 DEF Uploading
  <2>2. /\ ld'.pc = "put" /\ ld'.rows = ld.rows /\ ld'.file = ld.file /\ ld'.buf = <<>>
        /\ ld'.chunk = ld.buf /\ ld'.offset = ld.offset /\ ld'.total = t /\ ld'.fresh
    BY <1>0, <1>2 DEF Begin, UploadTypeOK
  <2>3. sess' # None
    <3>1. [rows |-> <<>>, job |-> 0] \in [rows : Seq(Nat), job : Nat]
      BY EmptySeq
    <3> QED
      BY <1>2, <3>1 DEF Begin, BoundsAssumption
  <2>4. ld.chunk = <<>> /\ c = 0
    BY <1>0, <1>z, <2>1 DEF Window
  <2>5. /\ ld.file = ld.offset + c + b /\ ld.file <= ld.rows /\ b \in Nat /\ ld.offset \in Nat
        /\ Base \in Nat
    BY <1>0, <2>1, Sizes
  <2>6. ld.buf = Ivl(Base + ld.offset + c, b)
    BY <1>0, <2>1 DEF Window
  <2>7. Base' = Base /\ Base + ld.offset + c = Base + ld.offset /\ Base + ld.offset + b \in Nat
        /\ ld.file = ld.offset + b + 0
    BY <2>2, <2>4, <2>5 DEF Base
  <2>8. ld'.buf = Ivl(Base' + ld'.offset + Len(ld'.chunk), Len(ld'.buf)) /\ Len(ld'.buf) = 0
    BY <1>z, <2>2, <2>7
  <2>9. ld'.chunk = Ivl(Base' + ld'.offset, Len(ld'.chunk))
    BY <2>2, <2>6, <2>7
  <2> HIDE DEF b, c
  <2> QED
    BY <1>2, <2>2, <2>3, <2>4, <2>5, <2>7, <2>8, <2>9 DEF Window, b, c
<1>3. CASE Drain \/ Seal
  BY <1>2, <1>3 DEF Drain, Seal
<1>4. CASE PutLost
  <2>1. ld.pc = "put" /\ ld.pc \in Uploading /\ ld' = [ld EXCEPT !.tries = @ + 1,
                 !.pc = IF ld.tries + 1 = Tries THEN "quiesce" ELSE "put"]
    BY <1>4 DEF PutLost, Uploading
  <2>2. /\ ld'.pc \in {"put", "quiesce"} /\ ld'.rows = ld.rows /\ ld'.file = ld.file
        /\ ld'.buf = ld.buf /\ ld'.chunk = ld.chunk /\ ld'.offset = ld.offset
        /\ ld'.total = ld.total /\ ld'.fresh = ld.fresh
    BY <1>0, <2>1 DEF UploadTypeOK
  <2>3. sess' # None
    BY <1>0, <1>4, PutIs DEF PutLost
  <2>4. Base' = Base
    BY <2>2 DEF Base
  <2> QED
    BY <1>0, <1>p, <2>1, <2>2, <2>3, <2>4 DEF Window, Uploading
<1>5. CASE PutTaken
  <2>1. ld.pc = "put" /\ ld.pc \in Uploading /\ ld.total = None
    BY <1>5 DEF PutTaken, Uploading
  <2>2. /\ ld'.pc = "open" /\ ld'.rows = ld.rows /\ ld'.file = ld.file
        /\ ld'.buf = ld.buf /\ ld'.chunk = <<>> /\ ld'.offset = ld.offset + c
        /\ ld'.total = ld.total /\ ld'.fresh = ld.fresh
    BY <1>0, <1>5 DEF UploadTypeOK, PutTaken
  <2>3. /\ ld.file = ld.offset + c + b /\ ld.file <= ld.rows /\ b = 0 /\ ld.offset \in Nat
        /\ Base \in Nat /\ c \in Nat
    BY <1>0, <1>p, <2>1, Sizes
  <2>4. Base' = Base /\ Base + (ld.offset + c) \in Nat /\ Base + (ld.offset + c) + 0 \in Nat
        /\ ld.file = (ld.offset + c) + 0 + 0
    BY <2>2, <2>3 DEF Base
  <2>5. ld'.buf = <<>> /\ Len(ld'.buf) = 0 /\ Len(ld'.chunk) = 0
    BY <1>p, <1>z, <2>1, <2>2
  <2> QED
    BY <1>p, <1>z, <2>1, <2>2, <2>3, <2>4, <2>5 DEF Window
<1>6. CASE PutShort
  <2>1. PICK n \in Persistable : sess' = After(n) /\ n < c
             /\ ld' = IF ld.stalls >= MaxStalls THEN [ld EXCEPT !.pc = "quiesce"]
                      ELSE Remainder(n)
    BY <1>6 DEF PutShort
  <2>2. ld.pc = "put" /\ ld.pc \in Uploading /\ ld.total = None
    BY <1>6 DEF PutShort, Uploading
  <2>3. CASE ld.stalls >= MaxStalls
    <3>1. ld'.pc = "quiesce"
      BY <1>0, <2>1, <2>3 DEF UploadTypeOK
    <3> QED
      BY <3>1 DEF Window, Uploading
  <2>4. CASE ~(ld.stalls >= MaxStalls)
    <3>1. /\ ld'.pc = "put" /\ ld'.rows = ld.rows /\ ld'.file = ld.file
          /\ ld'.buf = ld.buf /\ ld'.chunk = SubSeq(ld.chunk, n + 1, Len(ld.chunk))
          /\ ld'.offset = ld.offset + n /\ ld'.total = ld.total /\ ld'.fresh = ld.fresh
      BY <1>0, <2>1, <2>2, <2>4 DEF UploadTypeOK, Remainder
    <3>2. /\ ld.file = ld.offset + c + b /\ ld.file <= ld.rows /\ b = 0 /\ ld.offset \in Nat
          /\ Base \in Nat /\ c \in Nat /\ n \in 0..c
      BY <1>0, <1>p, <2>1, <2>2, Sizes DEF Persistable
    <3>3. ld.chunk = Ivl(Base + ld.offset, c)
      BY <1>0, <2>2 DEF Window
    <3>4. ld'.chunk = Ivl(Base + ld.offset + n, c - n)
      <4> DEFINE a == Base + ld.offset
                 d == c
      <4>1. a \in Nat /\ d \in Nat /\ n \in 0..d /\ d \in n..d
        BY <3>2
      <4>2. ld'.chunk = SubSeq(Ivl(a, d), n + 1, d)
        BY <3>1, <3>3
      <4> HIDE DEF a, d
      <4>3. ld'.chunk = Ivl(a + n, d - n)
        BY <4>1, <4>2, IvlSub
      <4> QED
        BY <4>3 DEF a, d
    <3>5. Len(ld'.chunk) = c - n
      <4> DEFINE a == Base + ld.offset + n
                 d == c - n
      <4>1. a \in Nat /\ d \in Nat
        BY <3>2
      <4>2. ld'.chunk = Ivl(a, d)
        BY <3>4
      <4> HIDE DEF a, d
      <4>3. Len(ld'.chunk) = d
        BY <4>1, <4>2, IvlIs
      <4> QED
        BY <4>3 DEF d
    <3>6. Base' = Base /\ Base + (ld.offset + n) = Base + ld.offset + n
          /\ Base + (ld.offset + n) + (c - n) \in Nat
          /\ ld.file = (ld.offset + n) + (c - n) + 0
      BY <3>1, <3>2 DEF Base
    <3>7. ld'.buf = <<>> /\ Len(ld'.buf) = 0
      BY <1>p, <1>z, <2>2, <3>1
    <3>8. sess' # None
      BY <1>0, <2>1, <2>2, PutIs
    <3>9. ld'.chunk = Ivl(Base' + ld'.offset, Len(ld'.chunk))
      BY <3>1, <3>4, <3>5, <3>6
    <3>10. ld'.buf = Ivl(Base' + ld'.offset + Len(ld'.chunk), Len(ld'.buf))
      BY <1>z, <3>1, <3>5, <3>6, <3>7
    <3> QED
      BY <1>p, <2>2, <3>1, <3>2, <3>5, <3>6, <3>7, <3>8, <3>9, <3>10 DEF Window
  <2> QED
    BY <2>3, <2>4
<1>7. CASE PutFinal
  <2>1. ld.pc = "put" /\ ld.pc \in Uploading
    BY <1>7 DEF PutFinal, Uploading
  <2>2. /\ ld'.pc \in {"open", "finish"} /\ ld'.rows = ld.rows /\ ld'.file = 0
        /\ ld'.buf = ld.buf /\ ld'.chunk = <<>> /\ ld'.offset = 0
        /\ ld'.total = None /\ ld'.fresh = ld.fresh
    BY <1>0, <1>7 DEF UploadTypeOK, PutFinal
  <2>3. ld.rows \in Nat /\ Base' = ld.rows /\ Base' + 0 \in Nat /\ Base' + 0 + 0 \in Nat
    BY <1>0, <2>2 DEF UploadTypeOK, Base
  <2>4. ld'.buf = <<>> /\ Len(ld'.buf) = 0 /\ Len(ld'.chunk) = 0
    BY <1>p, <1>z, <2>1, <2>2
  <2> QED
    BY <1>p, <1>z, <2>1, <2>2, <2>3, <2>4 DEF Window
<1>8. CASE SourceEnds
  <2>1. ld.pc = "open" /\ ld.pc \in Uploading
    BY <1>8 DEF SourceEnds, Uploading
  <2>2. /\ ld'.pc = "finish" /\ ld'.rows = ld.rows /\ ld'.file = ld.file
        /\ ld'.buf = ld.buf /\ ld'.chunk = ld.chunk /\ ld'.offset = ld.offset
        /\ ld'.total = ld.total /\ ld'.fresh = ld.fresh /\ UNCHANGED <<sess, jobs>>
    BY <1>0, <1>8 DEF UploadTypeOK, SourceEnds
  <2>3. Base' = Base
    BY <2>2 DEF Base
  <2> QED
    BY <1>0, <2>1, <2>2, <2>3 DEF Window
<1>9. CASE AbortUpload \/ AwaitFails \/ Commit \/ Settle \/ Quiesced \/ DiscardStaging
  <2>1. ld'.pc \notin Uploading
    BY <1>0, <1>9 DEF AbortUpload, AwaitFails, Commit, Settle, Quiesced, DiscardStaging,
         UploadTypeOK, Uploading
  <2> QED
    BY <2>1 DEF Window
<1>10. CASE UploadOver \/ UNCHANGED uploadVars
  BY <1>0, <1>10 DEF UploadOver, uploadVars, Window, Base
<1>11. ASSUME NEW j \in DOMAIN jobs, Load(j) \/ JobFails(j) PROVE Window'
  <2>1. jobs # <<>> /\ UNCHANGED <<ld, sess>>
    <3>1. DOMAIN jobs = 1..Len(jobs)
      BY <1>0, LenProperties DEF UploadTypeOK
    <3>2. 1..0 = {}
      OBVIOUS
    <3>3. jobs # <<>>
      BY <1>11, <1>z, <3>1, <3>2
    <3> QED
      BY <1>11, <3>3 DEF Load, JobFails
  <2>2. Base' = Base
    BY <2>1 DEF Base
  <2> QED
    BY <1>0, <2>1, <2>2 DEF Window
<1>12. CASE AwaitDone
  <2>1. ld.pc = "finish" /\ ld.pc \in Uploading
    BY <1>12 DEF AwaitDone, Uploading
  <2>2. /\ ld'.pc = "finish" /\ ld'.rows = ld.rows /\ ld'.file = ld.file
        /\ ld'.buf = ld.buf /\ ld'.chunk = ld.chunk /\ ld'.offset = ld.offset
        /\ ld'.total = ld.total /\ ld'.fresh = ld.fresh /\ UNCHANGED <<sess, jobs>>
    BY <1>0, <1>12 DEF UploadTypeOK, AwaitDone
  <2>3. Base' = Base
    BY <2>2 DEF Base
  <2> QED
    BY <1>0, <2>1, <2>2, <2>3 DEF Window
<1> QED
  BY <1>1, <1>3, <1>4, <1>5, <1>6, <1>7, <1>8, <1>9, <1>10, <1>11, <1>12 DEF UploadNext

\* The session never has less than the loader has been told, nor more than it was sent.
LEMMA SessionStep ==
  ASSUME BoundsAssumption, UploadInv, [UploadNext]_uploadVars
  PROVE  Session'
<1>0. UploadTypeOK /\ Window /\ Session /\ JobsFit
  BY DEF UploadInv
<1>z. Len(<<>>) = 0 /\ \A a \in Nat : Ivl(a, 0) = <<>>
  BY IvlEmpty
<1> DEFINE b == Len(ld.buf)
           c == Len(ld.chunk)
<1>1. CASE SendRow
  <2>1. ld.pc = "open" /\ ld.pc \in Uploading
    BY <1>1 DEF SendRow, Uploading
  <2>2. /\ ld'.pc = "open" /\ ld'.rows = ld.rows + 1 /\ ld'.file = ld.file + 1
        /\ ld'.chunk = ld.chunk /\ ld'.offset = ld.offset /\ ld'.total = ld.total
        /\ UNCHANGED <<sess, jobs>>
    BY <1>0, <1>1 DEF SendRow, UploadTypeOK
  <2>3. Base' = Base
    BY <1>0, <2>2 DEF Base, UploadTypeOK
  <2> QED
    BY <1>0, <2>1, <2>2, <2>3 DEF Session
<1>2. ASSUME NEW t, Begin(t), ld.pc \in {"open", "finish"} PROVE Session'
  <2>1. ld.pc \in Uploading /\ ld.pc # "put"
    BY <1>2 DEF Uploading
  <2>2. /\ ld'.rows = ld.rows /\ ld'.file = ld.file /\ ld'.chunk = ld.buf
        /\ ld'.offset = ld.offset /\ UNCHANGED jobs
        /\ sess' = IF sess = None THEN [rows |-> <<>>, job |-> 0] ELSE sess
    BY <1>0, <1>2 DEF Begin, UploadTypeOK
  <2>3. b \in Nat /\ ld.offset \in Nat /\ Base \in Nat /\ Base' = Base
    BY <1>0, <2>1, <2>2, Sizes DEF Base
  <2>4. ld.chunk = <<>> /\ c = 0 /\ ld.total = None
    BY <1>0, <1>z, <2>1 DEF Window
  <2>5. CASE sess = None
    <3>1. sess'.rows = <<>> /\ sess'.job = 0 /\ ld.offset = 0
      BY <1>0, <2>1, <2>2, <2>5 DEF Session
    <3> QED
      BY <1>z, <2>2, <2>3, <3>1 DEF Session
  <2>6. CASE sess # None
    <3>1. /\ sess' = sess /\ ld.offset <= Len(sess.rows) /\ Len(sess.rows) <= ld.offset + c
          /\ sess.rows = Ivl(Base, Len(sess.rows)) /\ sess.job = 0
      BY <1>0, <2>1, <2>2, <2>4, <2>6 DEF Session
    <3>2. Len(sess.rows) = ld.offset
      <4>1. Len(sess.rows) \in Nat
        BY <1>0, <2>6, LenProperties DEF UploadTypeOK
      <4> HIDE DEF c
      <4> QED
        BY <2>3, <2>4, <3>1, <4>1
    <3>3. ld.offset <= ld.offset + b
      BY <2>3
    <3> QED
      BY <2>2, <2>3, <2>6, <3>1, <3>2, <3>3 DEF Session
  <2> QED
    BY <2>5, <2>6
<1>3. CASE Drain \/ Seal
  BY <1>2, <1>3 DEF Drain, Seal
<1>4. CASE PutLost
  <2>1. ld.pc = "put" /\ ld.pc \in Uploading
    BY <1>4 DEF PutLost, Uploading
  <2>2. /\ ld'.rows = ld.rows /\ ld'.file = ld.file /\ ld'.chunk = ld.chunk
        /\ ld'.offset = ld.offset /\ ld'.total = ld.total
    BY <1>0, <1>4 DEF UploadTypeOK, PutLost
  <2>3. PICK n \in Persistable : sess' = After(n) /\ jobs' = JobsAfter(sess')
    BY <1>4 DEF PutLost
  <2>4. /\ n \in 0..c /\ sess' # None /\ sess'.rows = Ivl(Base, ld.offset + n)
        /\ Len(sess'.rows) = ld.offset + n
        /\ sess'.job # 0 => /\ sess'.job \in DOMAIN jobs'
                            /\ ld.total # None /\ Len(sess'.rows) = ld.total
    BY <1>0, <2>1, <2>3, PutIs
  <2>5. ld.offset \in Nat /\ c \in Nat /\ Base' = Base
    BY <1>0, <2>1, <2>2, Sizes DEF Base
  <2>6. ld.offset <= ld.offset + n /\ ld.offset + n <= ld.offset + c
    <3> HIDE DEF c
    <3> QED
      BY <2>4, <2>5
  <2> QED
    BY <2>2, <2>4, <2>5, <2>6 DEF Session
<1>5. CASE PutTaken
  <2>1. ld.pc = "put" /\ ld.pc \in Uploading /\ ld.total = None /\ sess' = After(c)
    BY <1>5 DEF PutTaken, Uploading
  <2>2. /\ ld'.rows = ld.rows /\ ld'.file = ld.file /\ ld'.chunk = <<>>
        /\ ld'.offset = ld.offset + c /\ jobs' = jobs
    BY <1>0, <1>5 DEF UploadTypeOK, PutTaken
  <2>3. c \in Persistable
    <3>1. c \in Nat /\ sess # None /\ Len(sess.rows) <= ld.offset + c
      BY <1>0, <2>1, Sizes DEF Session, Window
    <3> QED
      BY <3>1 DEF Persistable
  <2>4. /\ sess' # None /\ sess'.rows = Ivl(Base, ld.offset + c)
        /\ Len(sess'.rows) = ld.offset + c /\ sess'.job = 0
    BY <1>0, <2>1, <2>3, PutIs
  <2>5. ld.offset \in Nat /\ c \in Nat /\ Base' = Base
    BY <1>0, <2>1, <2>2, Sizes DEF Base
  <2> DEFINE e == ld.offset + c
  <2>6. e \in Nat /\ ld'.offset = e /\ Len(sess'.rows) = e /\ sess'.rows = Ivl(Base, e)
    BY <2>2, <2>4, <2>5
  <2> HIDE DEF e
  <2>7. e <= e /\ e <= e + 0
    BY <2>6
  <2> QED
    BY <1>z, <2>2, <2>4, <2>5, <2>6, <2>7 DEF Session
<1>6. CASE PutShort
  <2>1. PICK n \in Persistable : sess' = After(n) /\ n < c
             /\ ld' = IF ld.stalls >= MaxStalls THEN [ld EXCEPT !.pc = "quiesce"]
                      ELSE Remainder(n)
    BY <1>6 DEF PutShort
  <2>2. ld.pc = "put" /\ ld.pc \in Uploading /\ ld.total = None
    BY <1>6 DEF PutShort, Uploading
  <2>3. CASE ld.stalls >= MaxStalls
    <3>1. ld'.pc = "quiesce"
      BY <1>0, <2>1, <2>3 DEF UploadTypeOK
    <3> QED
      BY <3>1 DEF Session, Uploading
  <2>4. CASE ~(ld.stalls >= MaxStalls)
    <3>1. /\ ld'.rows = ld.rows /\ ld'.file = ld.file /\ ld'.offset = ld.offset + n
      BY <1>0, <2>1, <2>2, <2>4 DEF UploadTypeOK, Remainder
    <3>2. /\ n \in 0..c /\ sess' # None /\ sess'.rows = Ivl(Base, ld.offset + n)
          /\ Len(sess'.rows) = ld.offset + n /\ sess'.job = 0
      BY <1>0, <2>1, <2>2, PutIs
    <3>3. ld.offset \in Nat /\ Base' = Base
      BY <1>0, <2>2, <3>1, Sizes DEF Base
    <3>4. Len(ld'.chunk) \in Nat
      <4>1. ld' \in [pc : {"open", "put", "finish", "quiesce", "loaded", "failed", "discarded"},
                     rows : Nat, file : Nat, buf : Seq(Nat), chunk : Seq(Nat),
                     offset : Nat, total : Nat \cup {None}, tries : Nat, stalls : Nat,
                     fresh : BOOLEAN, pending : Seq([job : Nat, sent : Nat]),
                     sum : Nat, files : Nat, ended : BOOLEAN]
        BY UploadTypeStep DEF UploadTypeOK
      <4> QED
        BY <4>1, LenProperties
    <3> DEFINE e == ld.offset + n
               f == Len(ld'.chunk)
    <3>5. e \in Nat /\ ld'.offset = e /\ Len(sess'.rows) = e /\ sess'.rows = Ivl(Base, e)
          /\ f \in Nat
      <4>1. n \in Nat
        BY <1>0, <2>2, <3>2, Sizes
      <4> QED
        BY <3>1, <3>2, <3>3, <3>4, <4>1
    <3> HIDE DEF e, f
    <3>6. e <= e /\ e <= e + f
      BY <3>5
    <3> QED
      BY <3>2, <3>3, <3>5, <3>6 DEF Session, f
  <2> QED
    BY <2>3, <2>4
<1>7. CASE PutFinal
  <2>1. ld'.offset = 0 /\ sess' = None
    BY <1>0, <1>7 DEF UploadTypeOK, PutFinal
  <2> QED
    BY <2>1 DEF Session
<1>8. CASE SourceEnds \/ AwaitDone
  <2>1. ld.pc \in Uploading
    BY <1>8 DEF SourceEnds, AwaitDone, Uploading
  <2>2. /\ ld'.rows = ld.rows /\ ld'.file = ld.file /\ ld'.chunk = ld.chunk
        /\ ld'.offset = ld.offset /\ ld'.total = ld.total /\ UNCHANGED <<sess, jobs>>
    BY <1>0, <1>8 DEF UploadTypeOK, SourceEnds, AwaitDone
  <2>3. Base' = Base
    BY <2>2 DEF Base
  <2> QED
    BY <1>0, <2>1, <2>2, <2>3 DEF Session
<1>9. CASE AbortUpload \/ AwaitFails \/ Commit \/ Settle \/ Quiesced \/ DiscardStaging
  <2>1. ld'.pc \notin Uploading
    BY <1>0, <1>9 DEF AbortUpload, AwaitFails, Commit, Settle, Quiesced, DiscardStaging,
         UploadTypeOK, Uploading
  <2> QED
    BY <2>1 DEF Session
<1>10. CASE UploadOver \/ UNCHANGED uploadVars
  BY <1>0, <1>10 DEF UploadOver, uploadVars, Session, Base
<1>11. ASSUME NEW j \in DOMAIN jobs, Load(j) \/ JobFails(j) PROVE Session'
  <2>1. DOMAIN jobs' = DOMAIN jobs /\ UNCHANGED <<ld, sess>>
    BY <1>11 DEF Load, JobFails
  <2>2. Base' = Base
    BY <2>1 DEF Base
  <2> QED
    BY <1>0, <2>1, <2>2 DEF Session
<1> QED
  BY <1>1, <1>3, <1>4, <1>5, <1>6, <1>7, <1>8, <1>9, <1>10, <1>11 DEF UploadNext

\* A PUT makes at most the open file a job, and no sealed row is in that file.
LEMMA PutKeepsJobs ==
  ASSUME BoundsAssumption, UploadTypeOK, Window, Session, JobsFit, ld.pc = "put",
         NEW n \in Persistable
  PROVE  LET s == After(n)  js == JobsAfter(s) IN
         /\ \A j \in DOMAIN js : \E a \in Nat : js[j].rows = Ivl(a, Len(js[j].rows))
         /\ \A j, k \in DOMAIN js : j # k => Elems(js[j].rows) \cap Elems(js[k].rows) = {}
         /\ \A j \in DOMAIN js : s.job # j => Elems(js[j].rows) \subseteq 1..Base
         /\ 1..Base \subseteq UNION {Elems(js[j].rows) : j \in DOMAIN js}
         /\ \A j \in DOMAIN js : Elems(js[j].rows) \subseteq 1..ld.rows
<1> DEFINE s == After(n)
           js == JobsAfter(s)
<1>1. /\ ld.pc \in Uploading /\ sess # None /\ Base \in Nat /\ ld.rows \in Nat /\ ld.file \in Nat
      /\ ld.file <= ld.rows /\ Base + ld.file = ld.rows
  <2>1. ld.pc \in Uploading /\ sess # None
    BY DEF Window, Uploading
  <2>2. ld.rows \in Nat /\ ld.file \in Nat /\ Base \in Nat /\ ld.file <= ld.rows
    BY <2>1, Sizes
  <2> QED
    BY <2>1, <2>2 DEF Base
<1>2. CASE js = jobs /\ s.job = sess.job
  <2>1. /\ \A j \in DOMAIN jobs : \E a \in Nat : jobs[j].rows = Ivl(a, Len(jobs[j].rows))
        /\ \A j, k \in DOMAIN jobs : j # k => Elems(jobs[j].rows) \cap Elems(jobs[k].rows) = {}
        /\ \A j \in DOMAIN jobs : sess.job # j => Elems(jobs[j].rows) \subseteq 1..Base
        /\ 1..Base \subseteq UNION {Elems(jobs[j].rows) : j \in DOMAIN jobs}
        /\ \A j \in DOMAIN jobs : Elems(jobs[j].rows) \subseteq 1..ld.rows
    BY <1>1 DEF JobsFit
  <2> HIDE DEF s, js
  <2> QED
    BY <1>2, <2>1 DEF s, js
<1>3. CASE ~(js = jobs /\ s.job = sess.job)
  <2>1. /\ ld.total # None /\ Len(s.rows) = ld.total /\ sess.job = 0
        /\ DOMAIN js = DOMAIN jobs \cup {s.job} /\ s.job \notin DOMAIN jobs
        /\ js[s.job].rows = s.rows
        /\ \A j \in DOMAIN jobs : js[j] = jobs[j]
    <3>1. \/ js = jobs /\ s.job = sess.job
          \/ /\ ld.total # None /\ Len(s.rows) = ld.total /\ sess.job = 0
             /\ DOMAIN js = DOMAIN jobs \cup {s.job} /\ s.job \notin DOMAIN jobs
             /\ js[s.job] = [rows |-> s.rows, st |-> "running"]
             /\ \A j \in DOMAIN jobs : js[j] = jobs[j]
      BY PutIs
    <3> HIDE DEF s, js
    <3> QED
      BY <1>3, <3>1
  <2>2. s.rows = Ivl(Base, ld.file) /\ Len(s.rows) = ld.file
    <3>1. Len(s.rows) = ld.offset + n /\ s.rows = Ivl(Base, ld.offset + n)
      BY PutIs
    <3>2. ld.total = ld.file
      BY <1>1, <2>1 DEF Window
    <3> HIDE DEF s
    <3> QED
      BY <2>1, <3>1, <3>2
  <2>3. Elems(s.rows) = (Base + 1)..ld.rows
    <3> HIDE DEF s
    <3> QED
      <4>1. Elems(Ivl(Base, ld.file)) = (Base + 1)..(Base + ld.file)
        BY <1>1, IvlIs
      <4> QED
        BY <1>1, <2>2, <4>1
  <2>4. 0 \notin DOMAIN jobs
    <3>1. DOMAIN jobs = 1..Len(jobs)
      BY LenProperties DEF UploadTypeOK
    <3> QED
      BY <3>1
  <2> HIDE DEF s, js
  <2>5. \A j \in DOMAIN jobs : Elems(jobs[j].rows) \subseteq 1..Base
    BY <1>1, <2>1, <2>4 DEF JobsFit
  <2>6. ASSUME NEW j \in DOMAIN js PROVE \E a \in Nat : js[j].rows = Ivl(a, Len(js[j].rows))
    <3>1. CASE j = s.job
      BY <1>1, <2>1, <2>2, <3>1
    <3>2. CASE j \in DOMAIN jobs
      BY <2>1, <3>2 DEF JobsFit
    <3> QED
      BY <2>1, <3>1, <3>2
  <2>7. ASSUME NEW j \in DOMAIN js, NEW k \in DOMAIN js, j # k
        PROVE  Elems(js[j].rows) \cap Elems(js[k].rows) = {}
    <3>1. (1..Base) \cap ((Base + 1)..ld.rows) = {}
      BY <1>1
    <3>2. CASE j \in DOMAIN jobs /\ k \in DOMAIN jobs
      BY <2>1, <2>7, <3>2 DEF JobsFit
    <3>3. CASE j \in DOMAIN jobs /\ k = s.job
      BY <2>1, <2>3, <2>5, <3>1, <3>3
    <3>4. CASE j = s.job /\ k \in DOMAIN jobs
      BY <2>1, <2>3, <2>5, <3>1, <3>4
    <3> QED
      BY <2>1, <2>7, <3>2, <3>3, <3>4
  <2>8. ASSUME NEW j \in DOMAIN js, s.job # j PROVE Elems(js[j].rows) \subseteq 1..Base
    BY <2>1, <2>5, <2>8
  <2>9. ASSUME NEW r \in 1..Base PROVE \E j \in DOMAIN js : r \in Elems(js[j].rows)
    <3>1. PICK j \in DOMAIN jobs : r \in Elems(jobs[j].rows)
      BY <1>1 DEF JobsFit
    <3> QED
      BY <2>1, <3>1
  <2>10. ASSUME NEW j \in DOMAIN js PROVE Elems(js[j].rows) \subseteq 1..ld.rows
    <3>1. 1..Base \subseteq 1..ld.rows /\ (Base + 1)..ld.rows \subseteq 1..ld.rows
      BY <1>1
    <3> QED
      BY <2>1, <2>3, <2>5, <3>1
  <2> QED
    BY <2>6, <2>7, <2>8, <2>9, <2>10 DEF s, js
<1> QED
  BY <1>2, <1>3

\* BigQuery changes a job's state, not its rows.
LEMMA StatesOnly ==
  ASSUME UploadTypeOK, NEW j \in DOMAIN jobs, Load(j) \/ JobFails(j)
  PROVE  /\ DOMAIN jobs' = DOMAIN jobs
         /\ \A k \in DOMAIN jobs : jobs'[k].rows = jobs[k].rows
         /\ \A k \in DOMAIN jobs : k # j => jobs'[k] = jobs[k]
         /\ Load(j) => jobs'[j].st = "done"
         /\ JobFails(j) => jobs'[j].st = "failed"
         /\ jobs[j].st = "running" /\ jobs[j].rows \in Seq(Nat)
<1>1. DOMAIN jobs = 1..Len(jobs)
  BY LenProperties DEF UploadTypeOK
<1>2. \A k \in DOMAIN jobs : jobs[k] \in [rows : Seq(Nat), st : {"running", "done", "failed"}]
  BY <1>1, ElementOfSeq DEF UploadTypeOK
<1>3. ASSUME NEW q, jobs' = [jobs EXCEPT ![j] = [jobs[j] EXCEPT !.st = q]]
      PROVE  /\ jobs'[j].st = q /\ jobs'[j].rows = jobs[j].rows
             /\ \A k \in DOMAIN jobs : k # j => jobs'[k] = jobs[k]
  <2>1. jobs'[j] = [jobs[j] EXCEPT !.st = q]
    BY <1>3
  <2>2. [jobs[j] EXCEPT !.st = q].rows = jobs[j].rows /\ [jobs[j] EXCEPT !.st = q].st = q
    BY <1>2
  <2> QED
    BY <1>3, <2>1, <2>2
<1>4. /\ Load(j) => jobs' = [jobs EXCEPT ![j] = [jobs[j] EXCEPT !.st = "done"]]
      /\ JobFails(j) => jobs' = [jobs EXCEPT ![j] = [jobs[j] EXCEPT !.st = "failed"]]
  BY DEF Load, JobFails
<1>5. jobs[j].st = "running" /\ DOMAIN jobs' = DOMAIN jobs
  BY DEF Load, JobFails
<1> QED
  BY <1>2, <1>3, <1>4, <1>5

\* Jobs stay disjoint runs of rows and together cover the sealed files.
LEMMA JobsStep ==
  ASSUME BoundsAssumption, UploadInv, [UploadNext]_uploadVars
  PROVE  JobsFit'
<1>0. UploadTypeOK /\ Window /\ Session /\ JobsFit
  BY DEF UploadInv
<1>1. CASE SendRow
  <2>1. ld.pc = "open" /\ ld.pc \in Uploading /\ ld.rows \in Nat /\ ld.file \in Nat
    BY <1>0, <1>1 DEF SendRow, Uploading, UploadTypeOK
  <2>2. /\ ld'.pc = "open" /\ ld'.rows = ld.rows + 1 /\ ld'.file = ld.file + 1
        /\ UNCHANGED <<sess, jobs>>
    BY <1>0, <1>1 DEF SendRow, UploadTypeOK
  <2>3. Base' = Base
    BY <2>1, <2>2 DEF Base
  <2>4. 1..ld.rows \subseteq 1..ld'.rows
    BY <2>1, <2>2
  <2> QED
    BY <1>0, <2>1, <2>2, <2>3, <2>4 DEF JobsFit
<1>2. CASE Drain \/ Seal
  <2>1. PICK t : Begin(t) /\ ld.pc \in {"open", "finish"}
    BY <1>2 DEF Drain, Seal
  <2>2. ld.pc \in Uploading
    BY <2>1 DEF Uploading
  <2>3. /\ ld'.pc = "put" /\ ld'.rows = ld.rows /\ ld'.file = ld.file /\ UNCHANGED jobs
        /\ sess' = IF sess = None THEN [rows |-> <<>>, job |-> 0] ELSE sess
    BY <1>0, <2>1 DEF Begin, UploadTypeOK
  <2>4. Base' = Base
    BY <2>3 DEF Base
  <2>5. sess = None => sess'.job = 0
    BY <2>3
  <2> QED
    BY <1>0, <2>2, <2>3, <2>4, <2>5 DEF JobsFit, Uploading
<1>3. CASE PutLost \/ PutTaken \/ PutShort
  <2>1. ld.pc = "put" /\ ld.pc \in Uploading
    BY <1>3 DEF PutLost, PutTaken, PutShort, Uploading
  <2>2. PICK n \in Persistable : sess' = After(n)
             /\ (jobs' = JobsAfter(After(n)) \/ (ld.total = None /\ jobs' = jobs))
    <3>1. Len(ld.chunk) \in Persistable
      <4>1. Len(ld.chunk) \in Nat /\ sess # None /\ Len(sess.rows) <= ld.offset + Len(ld.chunk)
        BY <1>0, <2>1, Sizes DEF Session, Window
      <4> QED
        BY <4>1 DEF Persistable
    <3>2. CASE PutLost
      <4>1. PICK n \in Persistable : sess' = After(n)
        BY <3>2 DEF PutLost
      <4>2. jobs' = JobsAfter(sess')
        BY <3>2 DEF PutLost
      <4>3. jobs' = JobsAfter(After(n))
        BY <4>1, <4>2
      <4>4. /\ sess' = After(n)
            /\ jobs' = JobsAfter(After(n)) \/ (ld.total = None /\ jobs' = jobs)
        BY <4>1, <4>3
      <4> QED
        BY <4>4
    <3>3. CASE PutTaken
      BY <3>1, <3>3 DEF PutTaken
    <3>4. CASE PutShort
      BY <3>4 DEF PutShort
    <3> QED
      BY <1>3, <3>2, <3>3, <3>4
  <2>3. jobs' = JobsAfter(After(n))
    BY <1>0, <2>1, <2>2, PutIs
  <2>4. ld'.rows = ld.rows /\ ld'.file = ld.file /\ ld'.pc # "loaded"
    BY <1>0, <1>3 DEF PutLost, PutTaken, PutShort, Remainder, UploadTypeOK
  <2>5. Base' = Base
    BY <2>4 DEF Base
  <2>6. After(n).job # 0 => JobsAfter(After(n))[After(n).job].rows = After(n).rows
    BY <1>0, <2>1, PutIs
  <2>7. After(n) # None
    BY <1>0, <2>1, PutIs
  <2> DEFINE s == After(n)
             js == JobsAfter(s)
  <2>8. /\ \A j \in DOMAIN js : \E a \in Nat : js[j].rows = Ivl(a, Len(js[j].rows))
        /\ \A j, k \in DOMAIN js : j # k => Elems(js[j].rows) \cap Elems(js[k].rows) = {}
        /\ \A j \in DOMAIN js : s.job # j => Elems(js[j].rows) \subseteq 1..Base
        /\ 1..Base \subseteq UNION {Elems(js[j].rows) : j \in DOMAIN js}
        /\ \A j \in DOMAIN js : Elems(js[j].rows) \subseteq 1..ld.rows
    BY <1>0, <2>1, PutKeepsJobs
  <2>9. sess' = s /\ jobs' = js /\ s # None /\ (s.job # 0 => js[s.job].rows = s.rows)
    BY <2>2, <2>3, <2>6, <2>7
  <2> HIDE DEF s, js
  <2> QED
    BY <2>4, <2>5, <2>8, <2>9 DEF JobsFit
<1>4. CASE PutFinal
  <2> DEFINE s == After(Len(ld.chunk))
             js == JobsAfter(s)
  <2>1. ld.pc = "put" /\ ld.pc \in Uploading /\ ld.total # None
    BY <1>4 DEF PutFinal, Uploading
  <2>2. sess' = None /\ jobs' = js
    BY <1>4 DEF PutFinal
  <2>3. ld'.rows = ld.rows /\ ld'.file = 0 /\ ld'.pc # "loaded"
    BY <1>0, <1>4 DEF PutFinal, UploadTypeOK
  <2>4. Len(ld.chunk) \in Nat /\ Len(ld.chunk) \in Persistable
    <3>1. Len(ld.chunk) \in Nat /\ sess # None /\ Len(sess.rows) <= ld.offset + Len(ld.chunk)
      BY <1>0, <2>1, Sizes DEF Session, Window
    <3> QED
      BY <3>1 DEF Persistable
  <2>5. /\ \A j \in DOMAIN js : \E a \in Nat : js[j].rows = Ivl(a, Len(js[j].rows))
        /\ \A j, k \in DOMAIN js : j # k => Elems(js[j].rows) \cap Elems(js[k].rows) = {}
        /\ \A j \in DOMAIN js : s.job # j => Elems(js[j].rows) \subseteq 1..Base
        /\ 1..Base \subseteq UNION {Elems(js[j].rows) : j \in DOMAIN js}
        /\ \A j \in DOMAIN js : Elems(js[j].rows) \subseteq 1..ld.rows
    BY <1>0, <2>1, <2>4, PutKeepsJobs
  <2>6. /\ ld.rows \in Nat /\ Base \in Nat /\ ld.file \in Nat /\ Base + ld.file = ld.rows
        /\ ld.offset + Len(ld.chunk) = ld.file
    <3>1. /\ ld.rows \in Nat /\ Base \in Nat /\ ld.file \in Nat /\ ld.offset \in Nat
          /\ ld.file = ld.offset + Len(ld.chunk) + Len(ld.buf) /\ ld.buf = <<>>
      BY <1>0, <2>1, Sizes DEF Window
    <3>2. Len(ld.buf) = 0
      BY <3>1, EmptySeq
    <3> QED
      BY <2>4, <3>1, <3>2 DEF Base
  <2>7. s.job \in DOMAIN js /\ js[s.job].rows = s.rows /\ s.rows = Ivl(Base, ld.file)
    <3>1. s.rows = Ivl(Base, ld.offset + Len(ld.chunk)) /\ Len(s.rows) = ld.offset + Len(ld.chunk)
          /\ (s.job # 0 => s.job \in DOMAIN js /\ js[s.job].rows = s.rows)
      BY <1>0, <2>1, <2>4, PutIs
    <3>2. ld.total = ld.file
      BY <1>0, <2>1 DEF Window
    <3>3. Len(s.rows) = ld.total
      BY <2>6, <3>1, <3>2
    <3>4. s.job # 0
      <4>1. \/ s.job = sess.job /\ ~(ld.total # None /\ Len(s.rows) = ld.total /\ sess.job = 0)
            \/ s.job = Len(jobs) + 1
        BY <1>0, <2>1, <2>4, PutIs
      <4>2. Len(jobs) + 1 # 0
        <5>1. Len(jobs) \in Nat
          BY <1>0, LenProperties DEF UploadTypeOK
        <5> QED
          BY <5>1
      <4> HIDE DEF s
      <4> QED
        BY <2>1, <3>3, <4>1, <4>2
    <3> QED
      BY <2>6, <3>1, <3>4
  <2> HIDE DEF s, js
  <2>8. Elems(s.rows) = (Base + 1)..ld.rows
    <3>1. Elems(Ivl(Base, ld.file)) = (Base + 1)..(Base + ld.file)
      BY <2>6, IvlIs
    <3> QED
      BY <2>6, <2>7, <3>1
  <2>9. Base' = ld.rows
    BY <2>3, <2>6 DEF Base
  <2>10. ASSUME NEW r \in 1..ld.rows PROVE \E j \in DOMAIN js : r \in Elems(js[j].rows)
    <3>1. CASE r \in 1..Base
      BY <2>5, <3>1
    <3>2. CASE r \in (Base + 1)..ld.rows
      BY <2>7, <2>8, <3>2
    <3> QED
      BY <2>6, <3>1, <3>2
  <2>11. 1..Base' \subseteq UNION {Elems(jobs'[j].rows) : j \in DOMAIN jobs'}
    BY <2>2, <2>9, <2>10
  <2>12. \A j \in DOMAIN jobs' : Elems(jobs'[j].rows) \subseteq 1..Base'
         /\ Elems(jobs'[j].rows) \subseteq 1..ld'.rows
    BY <2>2, <2>3, <2>5, <2>9
  <2> QED
    BY <2>2, <2>3, <2>5, <2>11, <2>12 DEF JobsFit
<1>5. CASE SourceEnds \/ AwaitDone
  <2>1. ld.pc \in Uploading
    BY <1>5 DEF SourceEnds, AwaitDone, Uploading
  <2>2. ld'.rows = ld.rows /\ ld'.file = ld.file /\ ld'.pc # "loaded" /\ UNCHANGED <<sess, jobs>>
    BY <1>0, <1>5 DEF UploadTypeOK, SourceEnds, AwaitDone
  <2>3. Base' = Base
    BY <2>2 DEF Base
  <2> QED
    BY <1>0, <2>1, <2>2, <2>3 DEF JobsFit
<1>6. CASE Commit
  <2>1. ld.pc \in Uploading /\ sess = None /\ ld.file = 0 /\ ld.pending = <<>>
    BY <1>6 DEF Commit, AllSealed, Uploading
  <2>2. /\ ld'.rows = ld.rows /\ ld'.file = ld.file /\ ld'.pending = ld.pending
        /\ ld'.pc \notin Uploading /\ sess' = sess /\ jobs' = jobs
    BY <1>0, <1>6 DEF UploadTypeOK, Commit, Uploading
  <2>3. Base' = Base
    BY <2>2 DEF Base
  <2>4. /\ \A j \in DOMAIN jobs : \E a \in Nat : jobs[j].rows = Ivl(a, Len(jobs[j].rows))
        /\ \A j, k \in DOMAIN jobs : j # k => Elems(jobs[j].rows) \cap Elems(jobs[k].rows) = {}
        /\ 1..Base \subseteq UNION {Elems(jobs[j].rows) : j \in DOMAIN jobs}
        /\ \A j \in DOMAIN jobs : Elems(jobs[j].rows) \subseteq 1..ld.rows
    BY <1>0, <2>1 DEF JobsFit
  <2>5. ld'.file = 0 /\ sess' = None /\ ld'.pending = <<>>
    BY <2>1, <2>2
  <2> QED
    BY <2>2, <2>3, <2>4, <2>5 DEF JobsFit
<1>7. CASE AbortUpload \/ AwaitFails \/ Settle \/ Quiesced \/ DiscardStaging
  <2>1. ld'.pc \notin Uploading \cup {"loaded"} /\ UNCHANGED jobs
    BY <1>0, <1>7 DEF AbortUpload, AwaitFails, Settle, Quiesced, DiscardStaging,
         UploadTypeOK, Uploading
  <2> QED
    BY <1>0, <2>1 DEF JobsFit
<1>8. CASE UploadOver \/ UNCHANGED uploadVars
  BY <1>0, <1>8 DEF UploadOver, uploadVars, JobsFit, Base
<1>9. ASSUME NEW j \in DOMAIN jobs, Load(j) \/ JobFails(j) PROVE JobsFit'
  <2>1. DOMAIN jobs' = DOMAIN jobs /\ UNCHANGED <<ld, sess>>
    BY <1>9 DEF Load, JobFails
  <2>2. \A k \in DOMAIN jobs : jobs'[k].rows = jobs[k].rows
    BY <1>0, <1>9, StatesOnly
  <2>3. Base' = Base
    BY <2>1 DEF Base
  <2>4. {Elems(jobs'[k].rows) : k \in DOMAIN jobs'} = {Elems(jobs[k].rows) : k \in DOMAIN jobs}
    BY <2>1, <2>2
  <2>5. ASSUME NEW k \in DOMAIN jobs'
        PROVE  \E a \in Nat : jobs'[k].rows = Ivl(a, Len(jobs'[k].rows))
    BY <1>0, <2>1, <2>2 DEF JobsFit
  <2>6. ASSUME NEW k \in DOMAIN jobs', NEW i \in DOMAIN jobs', k # i
        PROVE  Elems(jobs'[k].rows) \cap Elems(jobs'[i].rows) = {}
    BY <1>0, <2>1, <2>2, <2>6 DEF JobsFit
  <2>7. ld.pc \in Uploading =>
         /\ \A k \in DOMAIN jobs' :
              sess = None \/ sess.job # k => Elems(jobs'[k].rows) \subseteq 1..Base
         /\ sess # None /\ sess.job # 0 => jobs'[sess.job].rows = sess.rows
    BY <1>0, <2>1, <2>2 DEF JobsFit, Session
  <2>8. ld.pc \in Uploading \cup {"loaded"} =>
         /\ 1..Base \subseteq UNION {Elems(jobs'[k].rows) : k \in DOMAIN jobs'}
         /\ \A k \in DOMAIN jobs' : Elems(jobs'[k].rows) \subseteq 1..ld.rows
    BY <1>0, <2>1, <2>2, <2>4 DEF JobsFit
  <2> QED
    BY <1>0, <2>1, <2>3, <2>5, <2>6, <2>7, <2>8 DEF JobsFit
<1> QED
  BY <1>1, <1>2, <1>3, <1>4, <1>5, <1>6, <1>7, <1>8, <1>9 DEF UploadNext

\* The queue of awaited jobs without its oldest, and with a new one.
LEMMA QueueTail ==
  ASSUME UploadTypeOK, ld.pending # <<>>, ld'.pending = Tail(ld.pending)
  PROVE  /\ \A i \in DOMAIN ld'.pending : i + 1 \in DOMAIN ld.pending /\ ld'.pending[i] = ld.pending[i + 1]
         /\ \A j : Awaited(j) /\ j # Head(ld.pending).job => Awaited(j)'
         /\ 1 \in DOMAIN ld.pending /\ Head(ld.pending) = ld.pending[1]
<1> DEFINE p == ld.pending
           q == Tail(p)
           P == [job : Nat, sent : Nat]
<1>1. p \in Seq(P) /\ p # <<>>
  BY DEF UploadTypeOK
<1>2. Len(p) \in Nat /\ DOMAIN p = 1..Len(p)
  BY <1>1, LenProperties
<1>3. /\ q \in Seq(P) /\ Len(q) = Len(p) - 1 /\ \A i \in 1..Len(q) : q[i] = p[i + 1]
  BY <1>1, HeadTailProperties
<1>3a. Head(p) = p[1] /\ Len(p) # 0
  BY <1>1, EmptySeq
<1>4. DOMAIN q = 1..Len(q)
  BY <1>3, LenProperties
<1> HIDE DEF p, q
<1>5. \A i \in DOMAIN q : i + 1 \in DOMAIN p /\ q[i] = p[i + 1]
  BY <1>2, <1>3, <1>4
<1>6. ASSUME NEW j, NEW i \in DOMAIN p, p[i].job = j, j # Head(p).job
      PROVE  \E k \in DOMAIN q : q[k].job = j
  <2>1. i # 1
    BY <1>3a, <1>6
  <2>2. i - 1 \in DOMAIN q /\ (i - 1) + 1 = i
    BY <1>2, <1>3, <1>4, <2>1
  <2>3. q[i - 1] = p[(i - 1) + 1]
    BY <1>5, <2>2
  <2> QED
    BY <1>6, <2>2, <2>3
<1>7. 1 \in DOMAIN p
  BY <1>2, <1>3a
<1>8. ld'.pending = q /\ ld.pending = p
  BY DEF p, q
<1> QED
  BY <1>3a, <1>5, <1>6, <1>7, <1>8 DEF Awaited

LEMMA QueueAppend ==
  ASSUME UploadTypeOK, NEW e \in [job : Nat, sent : Nat], ld'.pending = Append(ld.pending, e)
  PROVE  /\ \A i \in DOMAIN ld'.pending : ld'.pending[i] = e \/ (i \in DOMAIN ld.pending /\ ld'.pending[i] = ld.pending[i])
         /\ \A j : Awaited(j) => Awaited(j)'
         /\ \E k \in DOMAIN ld'.pending : ld'.pending[k] = e
<1> DEFINE p == ld.pending
           q == Append(p, e)
           P == [job : Nat, sent : Nat]
<1>1. p \in Seq(P)
  BY DEF UploadTypeOK
<1>2. Len(p) \in Nat /\ DOMAIN p = 1..Len(p)
  BY <1>1, LenProperties
<1>3. q \in Seq(P) /\ Len(q) = Len(p) + 1 /\ (\A i \in 1..Len(p) : q[i] = p[i]) /\ q[Len(p) + 1] = e
  BY <1>1, AppendProperties
<1>4. DOMAIN q = 1..Len(q)
  BY <1>3, LenProperties
<1>5. ld'.pending = q /\ ld.pending = p
  OBVIOUS
<1> HIDE DEF p, q
<1>6. ASSUME NEW i \in DOMAIN q PROVE q[i] = e \/ (i \in DOMAIN p /\ q[i] = p[i])
  <2>1. i = Len(p) + 1 \/ i \in 1..Len(p)
    BY <1>2, <1>3, <1>4, <1>6
  <2> QED
    BY <1>2, <1>3, <2>1
<1>7. \A i \in DOMAIN p : i \in DOMAIN q /\ q[i] = p[i]
  BY <1>2, <1>3, <1>4
<1>8. Len(p) + 1 \in DOMAIN q
  BY <1>2, <1>3, <1>4
<1>9. ASSUME NEW j, NEW i \in DOMAIN p, p[i].job = j
      PROVE  \E k \in DOMAIN q : q[k].job = j
  BY <1>7, <1>9
<1>10. \E k \in DOMAIN q : q[k] = e
  BY <1>3, <1>8
<1> QED
  BY <1>5, <1>6, <1>9, <1>10 DEF Awaited

\* No job is forgotten before it is done, or, after a failure, before it has ended.
LEMMA KnownStep ==
  ASSUME BoundsAssumption, UploadInv, [UploadNext]_uploadVars
  PROVE  Known'
<1>0. UploadTypeOK /\ Window /\ Session /\ JobsFit /\ Known
  BY DEF UploadInv
<1> DEFINE IsDone(j) == jobs[j].st = "done"
<1>1. CASE SendRow \/ SourceEnds
  <2>1. ld.pc \in Uploading /\ ld'.pc \in Uploading
    BY <1>0, <1>1 DEF SendRow, SourceEnds, Uploading, UploadTypeOK
  <2>2. ld'.pending = ld.pending /\ UNCHANGED <<outage, sess, jobs>>
    BY <1>0, <1>1 DEF SendRow, SourceEnds, UploadTypeOK
  <2> QED
    BY <1>0, <2>1, <2>2 DEF Known, Awaited, Uploading
<1>2. CASE Drain \/ Seal
  <2>1. PICK t : Begin(t) /\ ld.pc \in {"open", "finish"}
    BY <1>2 DEF Drain, Seal
  <2>2. ld.pc \in Uploading /\ ld'.pc = "put"
    BY <1>0, <2>1 DEF Uploading, Begin, UploadTypeOK
  <2>3. /\ ld'.pending = ld.pending /\ UNCHANGED <<outage, jobs>>
        /\ sess' = IF sess = None THEN [rows |-> <<>>, job |-> 0] ELSE sess
    BY <1>0, <2>1 DEF Begin, UploadTypeOK
  <2>4. sess # None => sess' = sess
    BY <2>3
  <2> QED
    BY <1>0, <2>2, <2>3, <2>4 DEF Known, Awaited, Uploading
<1>3. CASE PutLost
  <2>1. PICK n \in Persistable : sess' = After(n)
    BY <1>3 DEF PutLost
  <2>2. ld.pc = "put" /\ ld.pc \in Uploading /\ sess # None /\ jobs' = JobsAfter(After(n))
    <3>1. ld.pc = "put" /\ ld.pc \in Uploading /\ jobs' = JobsAfter(sess')
      BY <1>3 DEF PutLost, Uploading
    <3>2. sess # None
      BY <1>0, <3>1 DEF Window
    <3>3. jobs' = JobsAfter(After(n))
      BY <2>1, <3>1
    <3> QED
      BY <3>1, <3>2, <3>3
  <2>3. /\ ld'.pending = ld.pending /\ outage' = outage
        /\ ld'.pc = "put" \/ (ld'.pc = "quiesce" /\ outage)
    <3>1. ld'.pc = IF ld.tries + 1 = Tries THEN "quiesce" ELSE "put"
      BY <1>0, <1>3 DEF PutLost, UploadTypeOK
    <3>2. ld.tries + 1 = Tries => outage
      BY <1>3 DEF PutLost
    <3>3. ld'.pending = ld.pending /\ outage' = outage
      BY <1>0, <1>3 DEF PutLost, UploadTypeOK
    <3>4. CASE ld.tries + 1 = Tries
      BY <3>1, <3>2, <3>3, <3>4
    <3>5. CASE ld.tries + 1 # Tries
      BY <3>1, <3>3, <3>5
    <3> QED
      BY <3>4, <3>5
  <2> DEFINE s == After(n)
             js == JobsAfter(s)
  <2>4. /\ s # None
        /\ \/ js = jobs /\ s.job = sess.job
           \/ /\ sess.job = 0
              /\ DOMAIN js = DOMAIN jobs \cup {s.job}
              /\ \A j \in DOMAIN jobs : js[j] = jobs[j]
    BY <1>0, <2>2, PutIs
  <2>5. 0 \notin DOMAIN jobs
    <3>1. DOMAIN jobs = 1..Len(jobs)
      BY <1>0, LenProperties DEF UploadTypeOK
    <3> QED
      BY <3>1
  <2>6. sess' = s /\ jobs' = js
    BY <2>1, <2>2
  <2> HIDE DEF s, js
  <2>7. \A i \in DOMAIN ld.pending : ld.pending[i].job \in DOMAIN js
    BY <1>0, <2>4 DEF Known
  <2>8. \A j \in DOMAIN js : js[j].st = "done" \/ Awaited(j) \/ s.job = j
    <3>1. \A j \in DOMAIN jobs : jobs[j].st = "done" \/ Awaited(j) \/ sess.job = j
      BY <1>0, <2>2 DEF Known
    <3> QED
      BY <2>4, <2>5, <3>1
  <2> QED
    BY <2>3, <2>4, <2>6, <2>7, <2>8 DEF Known, Awaited, Uploading
<1>4. CASE PutTaken \/ PutShort
  <2>1. /\ ld.pc = "put" /\ ld.pc \in Uploading /\ ld.total = None /\ sess # None
        /\ UNCHANGED <<outage, jobs>>
    <3>1. ld.pc = "put" /\ ld.pc \in Uploading /\ ld.total = None /\ UNCHANGED <<outage, jobs>>
      BY <1>4 DEF PutTaken, PutShort, Uploading
    <3> QED
      BY <1>0, <3>1 DEF Window
  <2>2. sess.job = 0
    BY <1>0, <2>1 DEF Session
  <2>3. ld'.pending = ld.pending /\ ld'.pc \in Uploading \cup {"quiesce"}
    BY <1>0, <1>4 DEF PutTaken, PutShort, Remainder, Uploading, UploadTypeOK
  <2>4. 0 \notin DOMAIN jobs
    <3>1. DOMAIN jobs = 1..Len(jobs)
      BY <1>0, LenProperties DEF UploadTypeOK
    <3> QED
      BY <3>1
  <2>5. \A j \in DOMAIN jobs : IsDone(j) \/ Awaited(j)
    BY <1>0, <2>1, <2>2, <2>4 DEF Known
  <2> QED
    BY <1>0, <2>1, <2>3, <2>5 DEF Known, Awaited, Terminal, Uploading
<1>5. CASE PutFinal
  <2> DEFINE s == After(Len(ld.chunk))
             js == JobsAfter(s)
             e == [job |-> s.job, sent |-> ld.file]
  <2>1. ld.pc = "put" /\ ld.pc \in Uploading /\ ld.total # None /\ sess # None
    <3>1. ld.pc = "put" /\ ld.pc \in Uploading /\ ld.total # None
      BY <1>5 DEF PutFinal, Uploading
    <3> QED
      BY <1>0, <3>1 DEF Window
  <2>2. sess' = None /\ jobs' = js /\ outage' = outage /\ ld'.pc \in Uploading
        /\ ld'.pending = Append(ld.pending, e)
    BY <1>0, <1>5 DEF PutFinal, Uploading, UploadTypeOK
  <2>3. Len(ld.chunk) \in Nat /\ Len(ld.chunk) \in Persistable
    <3>1. Len(ld.chunk) \in Nat /\ sess # None /\ Len(sess.rows) <= ld.offset + Len(ld.chunk)
      BY <1>0, <2>1, Sizes DEF Session, Window
    <3> QED
      BY <3>1 DEF Persistable
  <2>4. /\ s \in [rows : Seq(Nat), job : Nat]
        /\ \/ js = jobs /\ s.job = sess.job
              /\ ~(ld.total # None /\ Len(s.rows) = ld.total /\ sess.job = 0)
           \/ /\ sess.job = 0
              /\ DOMAIN js = DOMAIN jobs \cup {s.job}
              /\ \A j \in DOMAIN jobs : js[j] = jobs[j]
        /\ s.job # 0 => s.job \in DOMAIN js
    BY <1>0, <2>1, <2>3, PutIs
  <2>5. ~(s.job = 0)
    <3>1. Len(s.rows) = ld.offset + Len(ld.chunk)
          /\ ((s.job = sess.job /\ ~(ld.total # None /\ Len(s.rows) = ld.total /\ sess.job = 0))
              \/ s.job = Len(jobs) + 1)
      BY <1>0, <2>1, <2>3, PutIs
    <3>2. ld.total = ld.file /\ ld.buf = <<>> /\ ld.file = ld.offset + Len(ld.chunk) + Len(ld.buf)
          /\ ld.offset \in Nat
      BY <1>0, <2>1, Sizes DEF Window
    <3>3. Len(ld.buf) = 0
      BY <3>2, EmptySeq
    <3>4. Len(s.rows) = ld.total
      BY <2>3, <3>1, <3>2, <3>3
    <3>5. Len(jobs) + 1 # 0
      <4>1. Len(jobs) \in Nat
        BY <1>0, LenProperties DEF UploadTypeOK
      <4> QED
        BY <4>1
    <3> HIDE DEF s
    <3> QED
      BY <2>1, <3>1, <3>4, <3>5
  <2>6. e \in [job : Nat, sent : Nat] /\ e.job = s.job
    <3>1. ld.file \in Nat /\ s.job \in Nat
      BY <1>0, <2>1, <2>4, Sizes
    <3> QED
      BY <3>1
  <2> HIDE DEF s, js, e
  <2>7. /\ \A i \in DOMAIN ld'.pending : ld'.pending[i] = e \/ (i \in DOMAIN ld.pending /\ ld'.pending[i] = ld.pending[i])
        /\ \A j : Awaited(j) => Awaited(j)'
        /\ \E k \in DOMAIN ld'.pending : ld'.pending[k] = e
    BY <1>0, <2>2, <2>6, QueueAppend
  <2>8. \A i \in DOMAIN ld'.pending : ld'.pending[i].job \in DOMAIN js
    BY <1>0, <2>4, <2>5, <2>6, <2>7 DEF Known
  <2>9. 0 \notin DOMAIN jobs
    <3>1. DOMAIN jobs = 1..Len(jobs)
      BY <1>0, LenProperties DEF UploadTypeOK
    <3> QED
      BY <3>1
  <2>10. ASSUME NEW j \in DOMAIN js PROVE js[j].st = "done" \/ Awaited(j)'
    <3>1. \A k \in DOMAIN jobs : jobs[k].st = "done" \/ Awaited(k) \/ sess.job = k
      BY <1>0, <2>1 DEF Known
    <3>2. CASE j = s.job
      BY <2>6, <2>7, <3>2 DEF Awaited
    <3>3. CASE j # s.job
      <4>1. j \in DOMAIN jobs /\ js[j] = jobs[j] /\ sess.job # j
        BY <2>4, <2>9, <3>3
      <4> QED
        BY <2>7, <3>1, <4>1
    <3> QED
      BY <3>2, <3>3
  <2> QED
    BY <2>2, <2>8, <2>10 DEF Known, Awaited, Uploading
<1>6. CASE AbortUpload
  <2>1. ld.pc \in Uploading /\ ld.total = None /\ ld'.pending = ld.pending /\ ld'.pc = "quiesce"
        /\ UNCHANGED <<outage, sess, jobs>>
    <3>1. ld.pc = "open" /\ ld.pc \in Uploading /\ ld'.pending = ld.pending /\ ld'.pc = "quiesce"
          /\ UNCHANGED <<outage, sess, jobs>>
      BY <1>0, <1>6 DEF AbortUpload, Uploading, UploadTypeOK
    <3> QED
      BY <1>0, <3>1 DEF Window
  <2>2. sess # None => sess.job = 0
    BY <1>0, <2>1 DEF Session
  <2>3. 0 \notin DOMAIN jobs
    <3>1. DOMAIN jobs = 1..Len(jobs)
      BY <1>0, LenProperties DEF UploadTypeOK
    <3> QED
      BY <3>1
  <2>4. \A j \in DOMAIN jobs : IsDone(j) \/ Awaited(j)
    BY <1>0, <2>1, <2>2, <2>3 DEF Known
  <2> QED
    BY <1>0, <2>1, <2>4 DEF Known, Awaited, Terminal, Uploading
<1>7. CASE AwaitDone
  <2>1. /\ ld.pc \in Uploading /\ sess = None /\ ld.pending # <<>> /\ ld'.pending = Tail(ld.pending)
        /\ jobs[Head(ld.pending).job].st = "done"
        /\ ld'.pc \in Uploading /\ UNCHANGED <<outage, sess, jobs>>
    BY <1>0, <1>7 DEF AwaitDone, AllSealed, Uploading, UploadTypeOK
  <2>2. /\ \A i \in DOMAIN ld'.pending : i + 1 \in DOMAIN ld.pending /\ ld'.pending[i] = ld.pending[i + 1]
        /\ \A j : Awaited(j) /\ j # Head(ld.pending).job => Awaited(j)'
    BY <1>0, <2>1, QueueTail
  <2>3. \A i \in DOMAIN ld'.pending : ld'.pending[i].job \in DOMAIN jobs
    BY <1>0, <2>2 DEF Known
  <2>4. \A j \in DOMAIN jobs : IsDone(j) \/ Awaited(j)'
    BY <1>0, <2>1, <2>2 DEF Known
  <2> QED
    BY <2>1, <2>3, <2>4 DEF Known, Awaited, Uploading
<1>8. CASE AwaitFails
  <2>1. /\ ld.pc \in Uploading /\ sess = None /\ ld.pending # <<>> /\ ld'.pending = Tail(ld.pending)
        /\ ~outage => Terminal(Head(ld.pending).job)
        /\ ld'.pc = "quiesce" /\ UNCHANGED <<outage, sess, jobs>>
    BY <1>0, <1>8 DEF AwaitFails, AllSealed, Uploading, UploadTypeOK, Terminal
  <2>2. /\ \A i \in DOMAIN ld'.pending : i + 1 \in DOMAIN ld.pending /\ ld'.pending[i] = ld.pending[i + 1]
        /\ \A j : Awaited(j) /\ j # Head(ld.pending).job => Awaited(j)'
    BY <1>0, <2>1, QueueTail
  <2>3. \A i \in DOMAIN ld'.pending : ld'.pending[i].job \in DOMAIN jobs
    BY <1>0, <2>2 DEF Known
  <2>4. ~outage => \A j \in DOMAIN jobs : Terminal(j) \/ Awaited(j)'
    BY <1>0, <2>1, <2>2 DEF Known, Terminal
  <2> QED
    BY <2>1, <2>3, <2>4 DEF Known, Awaited, Terminal, Uploading
<1>9. CASE Settle
  <2>1. /\ ld.pc = "quiesce" /\ ld.pending # <<>> /\ ld'.pending = Tail(ld.pending)
        /\ ~outage => Terminal(Head(ld.pending).job)
        /\ ld'.pc = "quiesce" /\ UNCHANGED <<outage, sess, jobs>>
    BY <1>0, <1>9 DEF Settle, UploadTypeOK
  <2>2. /\ \A i \in DOMAIN ld'.pending : i + 1 \in DOMAIN ld.pending /\ ld'.pending[i] = ld.pending[i + 1]
        /\ \A j : Awaited(j) /\ j # Head(ld.pending).job => Awaited(j)'
    BY <1>0, <2>1, QueueTail
  <2>3. \A i \in DOMAIN ld'.pending : ld'.pending[i].job \in DOMAIN jobs
    BY <1>0, <2>2 DEF Known
  <2>4. ~outage => \A j \in DOMAIN jobs : Terminal(j) \/ Awaited(j)'
    BY <1>0, <2>1, <2>2 DEF Known
  <2> QED
    BY <2>1, <2>3, <2>4 DEF Known, Awaited, Terminal, Uploading
<1>10. CASE Commit
  <2>1. /\ ld.pc \in Uploading /\ sess = None /\ ld'.pending = ld.pending /\ ld.pending = <<>>
        /\ ld'.pc \in {"loaded", "quiesce"} /\ UNCHANGED <<outage, sess, jobs>>
    BY <1>0, <1>10 DEF Commit, AllSealed, Uploading, UploadTypeOK
  <2>2. \A j \in DOMAIN jobs : IsDone(j) \/ Awaited(j)
    BY <1>0, <2>1 DEF Known
  <2> QED
    BY <1>0, <2>1, <2>2 DEF Known, Awaited, Terminal, Uploading
<1>11. CASE Quiesced \/ DiscardStaging
  <2>1. /\ ld.pc \in {"quiesce", "failed"} /\ ld'.pending = ld.pending
        /\ ld'.pc \in {"failed", "discarded"} /\ UNCHANGED <<outage, jobs>>
        /\ ld.pc = "quiesce" => ld.pending = <<>>
    BY <1>0, <1>11 DEF Quiesced, DiscardStaging, UploadTypeOK
  <2> QED
    BY <1>0, <2>1 DEF Known, Awaited, Terminal, Uploading
<1>12. CASE UploadOver \/ UNCHANGED uploadVars
  BY <1>0, <1>12 DEF UploadOver, uploadVars, Known, Awaited, Terminal
<1>13. ASSUME NEW j \in DOMAIN jobs, Load(j) \/ JobFails(j) PROVE Known'
  <2>1. DOMAIN jobs' = DOMAIN jobs /\ UNCHANGED <<outage, ld, sess>>
    BY <1>0, <1>13, StatesOnly DEF Load, JobFails
  <2>2. /\ \A k \in DOMAIN jobs : k # j => jobs'[k] = jobs[k]
        /\ jobs'[j].st \in {"done", "failed"} /\ jobs[j].st = "running"
    BY <1>0, <1>13, StatesOnly
  <2>3. \A k \in DOMAIN jobs : IsDone(k) => IsDone(k)'
    BY <2>2
  <2>4. \A k \in DOMAIN jobs : Terminal(k) => Terminal(k)'
    BY <2>2 DEF Terminal
  <2> QED
    BY <1>0, <2>1, <2>3, <2>4 DEF Known, Awaited
<1> QED
  BY <1>1, <1>2, <1>3, <1>4, <1>5, <1>6, <1>7, <1>8, <1>9, <1>10, <1>11, <1>12, <1>13
     DEF UploadNext

\* Two sequences without a number in common, each with none twice, make one that has none twice.
LEMMA ConcatElems ==
  ASSUME NEW s \in Seq(Nat), NEW t \in Seq(Nat)
  PROVE  /\ Elems(s \o t) = Elems(s) \cup Elems(t)
         /\ OneEach(s) /\ OneEach(t) /\ Elems(s) \cap Elems(t) = {} => OneEach(s \o t)
<1> DEFINE u == s \o t
           m == Len(s)
           n == Len(t)
<1>1. m \in Nat /\ n \in Nat /\ DOMAIN s = 1..m /\ DOMAIN t = 1..n
  BY LenProperties
<1>2. /\ u \in Seq(Nat) /\ Len(u) = m + n
      /\ \A i \in 1..m + n : u[i] = IF i <= m THEN s[i] ELSE t[i - m]
  BY ConcatProperties
<1>3. DOMAIN u = 1..m + n
  BY <1>2, LenProperties
<1> HIDE DEF u, m, n
<1>4. \A i \in 1..m : i \in DOMAIN u /\ u[i] = s[i]
  BY <1>1, <1>2, <1>3
<1>5. ASSUME NEW i \in 1..n PROVE m + i \in DOMAIN u /\ u[m + i] = t[i]
  <2>1. m + i \in 1..m + n /\ ~(m + i <= m) /\ (m + i) - m = i
    BY <1>1, <1>5
  <2> QED
    BY <1>2, <1>3, <2>1
<1>6. ASSUME NEW i \in DOMAIN u
      PROVE  (i \in 1..m /\ u[i] = s[i]) \/ (i - m \in 1..n /\ u[i] = t[i - m])
  <2>1. CASE i <= m
    BY <1>1, <1>2, <1>3, <1>6, <2>1
  <2>2. CASE ~(i <= m)
    <3>1. i \in 1..m + n /\ i - m \in 1..n
      BY <1>1, <1>3, <1>6, <2>2
    <3> QED
      BY <1>2, <2>2, <3>1
  <2> QED
    BY <2>1, <2>2
<1>7. Elems(u) = Elems(s) \cup Elems(t)
  <2>1. Elems(u) \subseteq Elems(s) \cup Elems(t)
    BY <1>1, <1>6 DEF Elems
  <2>2. Elems(s) \subseteq Elems(u)
    BY <1>1, <1>4 DEF Elems
  <2>3. Elems(t) \subseteq Elems(u)
    BY <1>1, <1>5 DEF Elems
  <2> QED
    BY <2>1, <2>2, <2>3
<1>8. ASSUME OneEach(s), OneEach(t), Elems(s) \cap Elems(t) = {},
             NEW i \in DOMAIN u, NEW k \in DOMAIN u, u[i] = u[k]
      PROVE  i = k
  <2>1. i \in Nat /\ k \in Nat
    BY <1>1, <1>3
  <2>2. CASE i \in 1..m /\ u[i] = s[i] /\ k \in 1..m /\ u[k] = s[k]
    BY <1>1, <1>8, <2>2 DEF OneEach
  <2>3. CASE i - m \in 1..n /\ u[i] = t[i - m] /\ k - m \in 1..n /\ u[k] = t[k - m]
    <3>1. i - m = k - m
      BY <1>1, <1>8, <2>3 DEF OneEach
    <3> QED
      BY <1>1, <2>1, <3>1
  <2>4. CASE i \in 1..m /\ u[i] = s[i] /\ k - m \in 1..n /\ u[k] = t[k - m]
    <3>1. s[i] \in Elems(s) /\ t[k - m] \in Elems(t)
      BY <1>1, <2>4 DEF Elems
    <3> QED
      BY <1>8, <2>4, <3>1
  <2>5. CASE k \in 1..m /\ u[k] = s[k] /\ i - m \in 1..n /\ u[i] = t[i - m]
    <3>1. s[k] \in Elems(s) /\ t[i - m] \in Elems(t)
      BY <1>1, <2>5 DEF Elems
    <3> QED
      BY <1>8, <2>5, <3>1
  <2> QED
    BY <1>6, <2>2, <2>3, <2>4, <2>5
<1>9. OneEach(s) /\ OneEach(t) /\ Elems(s) \cap Elems(t) = {} => OneEach(u)
  BY <1>8 DEF OneEach
<1> QED
  BY <1>7, <1>9 DEF u

LEMMA IvlOneEach ==
  ASSUME NEW a \in Nat, NEW n \in Nat
  PROVE  OneEach(Ivl(a, n))
<1> DEFINE s == Ivl(a, n)
<1>1. DOMAIN s = 1..n /\ \A i \in 1..n : s[i] = a + i
  BY IvlIs
<1> HIDE DEF s
<1>2. OneEach(s)
  BY <1>1 DEF OneEach
<1> QED
  BY <1>2 DEF s

\* A load job that ends appends rows that no other job has.
LEMMA LoadLands ==
  ASSUME BoundsAssumption, UploadInv, NEW j \in DOMAIN jobs, Load(j)
  PROVE  LandedRows'
<1>0. UploadTypeOK /\ JobsFit /\ Known /\ LandedRows
  BY DEF UploadInv
<1>1. /\ DOMAIN jobs' = DOMAIN jobs /\ UNCHANGED <<outage, ld, wm>>
      /\ \A k \in DOMAIN jobs : jobs'[k].rows = jobs[k].rows
      /\ \A k \in DOMAIN jobs : k # j => jobs'[k] = jobs[k]
      /\ jobs'[j].st = "done" /\ jobs[j].st = "running" /\ jobs[j].rows \in Seq(Nat)
  BY <1>0, StatesOnly DEF Load
<1>2. DoneJobs' = DoneJobs \cup {j} /\ j \notin DoneJobs /\ DoneJobs \subseteq DOMAIN jobs
  BY <1>1 DEF DoneJobs
<1>3. CASE ld.pc = "discarded"
  <2>1. ld.pending = <<>> /\ DOMAIN ld.pending = {}
    <3>1. ld.pending = <<>>
      BY <1>0, <1>3 DEF Known
    <3>2. DOMAIN <<>> = {}
      OBVIOUS
    <3> QED
      BY <3>1, <3>2
  <2>2. outage
    <3>1. ~outage => Terminal(j) \/ Awaited(j)
      BY <1>0, <1>3 DEF Known
    <3>2. ~Terminal(j)
      BY <1>1 DEF Terminal
    <3>3. ~Awaited(j)
      BY <2>1 DEF Awaited
    <3> QED
      BY <3>1, <3>2, <3>3
  <2> QED
    BY <1>0, <1>1, <1>3, <2>2 DEF LandedRows
<1>4. CASE ld.pc # "discarded"
  <2> DEFINE r == jobs[j].rows
             s == IF staged = None THEN <<>> ELSE staged
             D == UNION {Elems(jobs[k].rows) : k \in DoneJobs}
  <2>1. staged' = s \o r /\ r \in Seq(Nat) /\ s \in Seq(Nat)
    BY <1>0, <1>1 DEF Load, UploadTypeOK
  <2>2. OneEach(s) /\ Elems(s) = D
    <3>1. CASE staged = None
      <4>1. s = <<>> /\ DOMAIN <<>> = {} /\ DoneJobs = {}
        BY <1>0, <1>4, <3>1 DEF LandedRows
      <4>2. Elems(<<>>) = {} /\ OneEach(<<>>)
        BY <4>1 DEF Elems, OneEach
      <4>3. D = {}
        BY <4>1
      <4> HIDE DEF s, D
      <4> QED
        BY <4>1, <4>2, <4>3
    <3>2. CASE staged # None
      BY <1>0, <1>4, <3>2 DEF LandedRows
    <3> QED
      BY <3>1, <3>2
  <2>3. OneEach(r)
    <3>1. PICK a \in Nat : r = Ivl(a, Len(r))
      BY <1>0 DEF JobsFit
    <3>2. Len(r) \in Nat
      BY <2>1, LenProperties
    <3> HIDE DEF r
    <3>3. OneEach(Ivl(a, Len(r)))
      BY <3>2, IvlOneEach
    <3> QED
      BY <3>1, <3>3
  <2>4. D \cap Elems(r) = {}
    BY <1>0, <1>2 DEF JobsFit
  <2>5. UNION {Elems(jobs'[k].rows) : k \in DoneJobs'} = D \cup Elems(r)
    <3>1. \A k \in DoneJobs' : jobs'[k].rows = jobs[k].rows
      BY <1>1, <1>2
    <3>2. UNION {Elems(jobs'[k].rows) : k \in DoneJobs'} = UNION {Elems(jobs[k].rows) : k \in DoneJobs'}
      BY <3>1
    <3>3. UNION {Elems(jobs[k].rows) : k \in DoneJobs \cup {j}} = D \cup Elems(r)
      OBVIOUS
    <3> QED
      BY <1>2, <3>2, <3>3
  <2> HIDE DEF r, s, D
  <2>6. s \o r \in Seq(Nat) /\ Elems(s \o r) = D \cup Elems(r) /\ OneEach(s \o r)
    <3>1. s \o r \in Seq(Nat)
      BY <2>1, ConcatProperties
    <3> QED
      BY <2>1, <2>2, <2>3, <2>4, <3>1, ConcatElems
  <2>7. staged' # None
    BY <2>1, <2>6 DEF BoundsAssumption
  <2>8. OneEach(staged)' /\ Elems(staged)' = UNION {Elems(jobs'[k].rows) : k \in DoneJobs'}
    BY <2>1, <2>5, <2>6 DEF OneEach, Elems
  <2>9. /\ ld'.pc # "discarded" /\ (ld'.pc # "loaded" => wm' = 0)
    BY <1>0, <1>1, <1>4 DEF LandedRows
  <2> QED
    BY <2>7, <2>8, <2>9 DEF LandedRows, StaysDropped
<1> QED
  BY <1>3, <1>4

\* What is staged changes only when a job lands, a stale staging is dropped before the
\* first file, or a run is discarded.
LEMMA LandedStep ==
  ASSUME BoundsAssumption, UploadInv, [UploadNext]_uploadVars
  PROVE  LandedRows'
<1>0. UploadTypeOK /\ Window /\ Session /\ JobsFit /\ Known /\ LandedRows
  BY DEF UploadInv
<1>1. ASSUME UNCHANGED <<outage, staged>>, ld.pc # "discarded", ld'.pc # "discarded",
             ld'.pc # "loaded" => wm' = 0,
             DoneJobs' = DoneJobs, \A k \in DoneJobs : jobs'[k].rows = jobs[k].rows
      PROVE  LandedRows'
  <2>1. UNION {Elems(jobs'[k].rows) : k \in DoneJobs'} = UNION {Elems(jobs[k].rows) : k \in DoneJobs}
    BY <1>1
  <2>2. OneEach(staged)' = OneEach(staged) /\ Elems(staged)' = Elems(staged)
    BY <1>1 DEF OneEach, Elems
  <2> QED
    BY <1>0, <1>1, <2>1, <2>2 DEF LandedRows, StaysDropped
<1>2. CASE SendRow \/ SourceEnds \/ AbortUpload \/ AwaitDone \/ AwaitFails \/ Settle
  <2>1. /\ ld.pc \notin {"discarded", "loaded"} /\ ld'.pc \notin {"discarded", "loaded"}
        /\ UNCHANGED <<outage, staged, wm, jobs>>
    BY <1>0, <1>2 DEF SendRow, SourceEnds, AbortUpload, AwaitDone, AwaitFails, Settle,
       UploadTypeOK
  <2>2. DoneJobs' = DoneJobs
    BY <2>1 DEF DoneJobs
  <2>3. wm' = 0
    BY <1>0, <2>1 DEF LandedRows
  <2> QED
    BY <1>1, <2>1, <2>2, <2>3
<1>3. CASE Drain \/ Seal
  <2>1. PICK t : Begin(t) /\ ld.pc \in {"open", "finish"}
    BY <1>3 DEF Drain, Seal
  <2>2. ld'.pc = "put" /\ UNCHANGED <<outage, wm, jobs>> /\ wm = 0
    BY <1>0, <2>1 DEF Begin, UploadTypeOK, LandedRows
  <2>3. DoneJobs' = DoneJobs
    BY <2>2 DEF DoneJobs
  <2>4. CASE ld.fresh
    <3>1. staged' = staged
      BY <2>1, <2>4 DEF Begin, DropStale
    <3> QED
      BY <1>1, <2>1, <2>2, <2>3, <3>1
  <2>5. CASE ~ld.fresh
    <3>1. staged' = None
      BY <2>1, <2>5 DEF Begin, DropStale
    <3>2. jobs = <<>> /\ DOMAIN <<>> = {}
      BY <1>0, <2>1, <2>5 DEF Window, Uploading
    <3>3. DoneJobs' = {}
      BY <2>3, <3>2 DEF DoneJobs
    <3> QED
      BY <2>2, <3>1, <3>3 DEF LandedRows, StaysDropped
  <2> QED
    BY <2>4, <2>5
<1>4. CASE PutLost \/ PutTaken \/ PutShort \/ PutFinal
  <2>1. /\ ld.pc = "put" /\ ld'.pc \in {"put", "open", "finish", "quiesce"}
        /\ UNCHANGED <<outage, staged, wm>> /\ wm = 0
    <3>1. /\ ld.pc = "put" /\ ld'.pc \in {"put", "open", "finish", "quiesce"}
          /\ UNCHANGED <<outage, staged, wm>>
      BY <1>0, <1>4 DEF PutLost, PutTaken, PutShort, PutFinal, Remainder, UploadTypeOK
    <3> QED
      BY <1>0, <3>1 DEF LandedRows
  <2>2. Len(ld.chunk) \in Persistable
    <3>1. ld.pc \in Uploading
      BY <2>1 DEF Uploading
    <3>2. Len(ld.chunk) \in Nat /\ sess # None /\ Len(sess.rows) <= ld.offset + Len(ld.chunk)
      BY <1>0, <2>1, <3>1, Sizes DEF Session, Window
    <3> QED
      BY <3>2 DEF Persistable
  <2>3. jobs' = jobs \/ \E n \in Persistable : jobs' = JobsAfter(After(n))
    <3>1. CASE PutLost
      <4>1. PICK n \in Persistable : sess' = After(n)
        BY <3>1 DEF PutLost
      <4>2. jobs' = JobsAfter(sess')
        BY <3>1 DEF PutLost
      <4>3. jobs' = JobsAfter(After(n))
        BY <4>1, <4>2
      <4> QED
        BY <4>3
    <3>2. CASE PutTaken \/ PutShort
      BY <3>2 DEF PutTaken, PutShort
    <3>3. CASE PutFinal
      BY <2>2, <3>3 DEF PutFinal
    <3> QED
      BY <1>4, <3>1, <3>2, <3>3
  <2>4. \/ jobs' = jobs
        \/ \E q \in Nat : /\ DOMAIN jobs' = DOMAIN jobs \cup {q} /\ jobs'[q].st = "running"
                          /\ q \notin DOMAIN jobs /\ \A j \in DOMAIN jobs : jobs'[j] = jobs[j]
    <3>1. CASE jobs' = jobs
      BY <3>1
    <3>2. ASSUME NEW n \in Persistable, jobs' = JobsAfter(After(n))
          PROVE  \/ jobs' = jobs
                 \/ \E q \in Nat : /\ DOMAIN jobs' = DOMAIN jobs \cup {q} /\ jobs'[q].st = "running"
                          /\ q \notin DOMAIN jobs /\ \A j \in DOMAIN jobs : jobs'[j] = jobs[j]
      <4> DEFINE s == After(n)
                 js == JobsAfter(s)
      <4>1. /\ s \in [rows : Seq(Nat), job : Nat]
            /\ \/ js = jobs
               \/ /\ DOMAIN js = DOMAIN jobs \cup {s.job} /\ s.job \notin DOMAIN jobs
                  /\ js[s.job] = [rows |-> s.rows, st |-> "running"]
                  /\ \A j \in DOMAIN jobs : js[j] = jobs[j]
        BY <1>0, <2>1, PutIs
      <4>2. jobs' = js
        BY <3>2
      <4> HIDE DEF s, js
      <4>3. s.job \in Nat
        BY <4>1
      <4>4. CASE js = jobs
        BY <4>2, <4>4
      <4>5. CASE js # jobs
        <5>1. /\ DOMAIN jobs' = DOMAIN jobs \cup {s.job} /\ s.job \notin DOMAIN jobs
              /\ jobs'[s.job] = [rows |-> s.rows, st |-> "running"]
              /\ \A j \in DOMAIN jobs : jobs'[j] = jobs[j]
          BY <4>1, <4>2, <4>5
        <5>2. jobs'[s.job].st = "running"
          BY <5>1
        <5> QED
          BY <4>3, <5>1, <5>2
      <4> QED
        BY <4>4, <4>5
    <3> QED
      BY <2>3, <3>1, <3>2
  <2>5. DoneJobs' = DoneJobs /\ \A k \in DoneJobs : jobs'[k].rows = jobs[k].rows
    <3>1. CASE jobs' = jobs
      BY <3>1 DEF DoneJobs
    <3>2. ASSUME NEW q \in Nat, DOMAIN jobs' = DOMAIN jobs \cup {q}, jobs'[q].st = "running",
                 q \notin DOMAIN jobs, \A j \in DOMAIN jobs : jobs'[j] = jobs[j]
          PROVE  DoneJobs' = DoneJobs /\ \A k \in DoneJobs : jobs'[k].rows = jobs[k].rows
      BY <3>2 DEF DoneJobs
    <3> QED
      BY <2>4, <3>1, <3>2
  <2> QED
    BY <1>1, <2>1, <2>5
<1>5. CASE Commit \/ Quiesced
  <2>1. /\ ld.pc \notin {"discarded", "loaded"} /\ ld'.pc # "discarded"
        /\ UNCHANGED <<outage, staged, jobs>> /\ (ld'.pc # "loaded" => wm' = wm)
    BY <1>0, <1>5 DEF Commit, Quiesced, UploadTypeOK
  <2>2. DoneJobs' = DoneJobs /\ wm = 0
    BY <1>0, <2>1 DEF DoneJobs, LandedRows
  <2> QED
    BY <1>1, <2>1, <2>2
<1>6. CASE DiscardStaging
  <2>1. ld.pc = "failed" /\ ld'.pc = "discarded" /\ staged' = None /\ wm' = wm
    BY <1>0, <1>6 DEF DiscardStaging, UploadTypeOK
  <2> QED
    BY <1>0, <2>1 DEF LandedRows, StaysDropped
<1>7. CASE UploadOver \/ UNCHANGED uploadVars
  <2>1. UNCHANGED <<outage, ld, staged, jobs, wm>>
    BY <1>7 DEF UploadOver, uploadVars
  <2>2. DoneJobs' = DoneJobs /\ OneEach(staged)' = OneEach(staged) /\ StaysDropped' = StaysDropped
    BY <2>1 DEF DoneJobs, OneEach, StaysDropped
  <2> QED
    BY <1>0, <2>1, <2>2 DEF LandedRows
<1>8. ASSUME NEW j \in DOMAIN jobs, JobFails(j) PROVE LandedRows'
  <2>1. DOMAIN jobs' = DOMAIN jobs /\ UNCHANGED <<outage, ld, staged, wm>>
    BY <1>0, <1>8, StatesOnly DEF JobFails
  <2>2. /\ \A k \in DOMAIN jobs : k # j => jobs'[k] = jobs[k]
        /\ jobs'[j].st = "failed" /\ jobs[j].st = "running"
        /\ \A k \in DOMAIN jobs : jobs'[k].rows = jobs[k].rows
    BY <1>0, <1>8, StatesOnly
  <2>3. DoneJobs' = DoneJobs /\ \A k \in DoneJobs : jobs'[k].rows = jobs[k].rows
    BY <2>1, <2>2 DEF DoneJobs
  <2>4. StaysDropped' = StaysDropped
    BY <2>1 DEF StaysDropped
  <2>5. UNION {Elems(jobs'[k].rows) : k \in DoneJobs'} = UNION {Elems(jobs[k].rows) : k \in DoneJobs}
    BY <2>3
  <2>6. OneEach(staged)' = OneEach(staged) /\ Elems(staged)' = Elems(staged)
    BY <2>1 DEF OneEach, Elems
  <2> QED
    BY <1>0, <2>1, <2>3, <2>4, <2>5, <2>6 DEF LandedRows
<1>9. ASSUME NEW j \in DOMAIN jobs, Load(j) PROVE LandedRows'
  BY <1>9, LoadLands
<1> QED
  BY <1>2, <1>3, <1>4, <1>5, <1>6, <1>7, <1>8, <1>9 DEF UploadNext

\* The invariant is inductive.
LEMMA UploadInvariant == BoundsAssumption => (UploadSpec => []UploadInv)
<1> SUFFICES ASSUME BoundsAssumption PROVE UploadSpec => []UploadInv
  OBVIOUS
<1>1. UploadInit => UploadInv
  <2> SUFFICES ASSUME UploadInit PROVE UploadInv
    OBVIOUS
  <2> USE DEF UploadInit
  <2>z. /\ Len(<<>>) = 0 /\ DOMAIN <<>> = {} /\ <<>> \in Seq(Nat)
        /\ <<>> \in Seq([job : Nat, sent : Nat])
        /\ <<>> \in Seq([rows : Seq(Nat), st : {"running", "done", "failed"}])
    OBVIOUS
  <2>1. UploadTypeOK
    BY <2>z DEF UploadTypeOK
  <2>2. Base = 0 /\ 1..0 = {} /\ Ivl(0, 0) = <<>>
    BY IvlEmpty DEF Base
  <2>3. Window
    BY <2>z, <2>2 DEF Window, Uploading
  <2>4. Session
    BY DEF Session
  <2>5. JobsFit
    BY <2>z, <2>2 DEF JobsFit
  <2>6. Known
    BY <2>z DEF Known
  <2>7. DoneJobs = {}
    BY <2>z DEF DoneJobs
  <2>8. LandedRows
    BY <2>7 DEF LandedRows, StaysDropped
  <2> QED
    BY <2>1, <2>3, <2>4, <2>5, <2>6, <2>8 DEF UploadInv
<1>2. UploadInv /\ [UploadNext]_uploadVars => UploadInv'
  <2> SUFFICES ASSUME UploadInv, [UploadNext]_uploadVars PROVE UploadInv'
    OBVIOUS
  <2> QED
    BY UploadTypeStep, WindowStep, SessionStep, JobsStep, KnownStep, LandedStep DEF UploadInv
<1> QED
  BY <1>1, <1>2, PTL DEF UploadSpec

\* A sequence that has each of 1..n once and nothing else has n elements.
LEMMA OnceCounts ==
  ASSUME NEW s \in Seq(Nat), NEW n \in Nat, OneEach(s), Elems(s) = 1..n
  PROVE  Len(s) = n
<1>1. Len(s) \in Nat /\ DOMAIN s = 1..Len(s) /\ s \in [1..Len(s) -> Nat]
  BY LenProperties
<1>2. s \in Bijection(1..Len(s), 1..n)
  <2>1. \A i \in 1..Len(s) : s[i] \in 1..n
    BY <1>1 DEF Elems
  <2>2. s \in [1..Len(s) -> 1..n]
    BY <1>1, <2>1
  <2>3. \A i, k \in 1..Len(s) : s[i] = s[k] => i = k
    BY <1>1 DEF OneEach
  <2>4. \A r \in 1..n : \E i \in 1..Len(s) : s[i] = r
    BY <1>1 DEF Elems
  <2> QED
    BY <2>2, <2>3, <2>4, Fun_IsBij
<1>3. IsFiniteSet(1..Len(s)) /\ Cardinality(1..Len(s)) = Len(s) /\ Cardinality(1..n) = n
  <2>1. 1 \in Int /\ Len(s) \in Int /\ n \in Int
    BY <1>1
  <2>2. IsFiniteSet(1..Len(s)) /\ Cardinality(1..Len(s)) = IF 1 > Len(s) THEN 0 ELSE Len(s) - 1 + 1
    BY <2>1, FS_Interval
  <2>3. Cardinality(1..n) = IF 1 > n THEN 0 ELSE n - 1 + 1
    BY <2>1, FS_Interval
  <2> QED
    BY <1>1, <2>2, <2>3
<1>4. Cardinality(1..Len(s)) = Cardinality(1..n)
  BY <1>2, <1>3, FS_Bijection DEF ExistsBijection
<1> QED
  BY <1>3, <1>4

\* A BigQuery load that reports success staged every row once and in the file's order, and
\* where answers arrive no job outlives discard, for any number of rows, files, tries and
\* stalls (put_chunk, await_jobs, quiesce).
THEOREM StagedExactlyHolds == BoundsAssumption => (UploadSpec => []StagedExactly)
<1> SUFFICES ASSUME BoundsAssumption PROVE UploadSpec => []StagedExactly
  OBVIOUS
<1>1. UploadInv => StagedExactly
  <2> SUFFICES ASSUME UploadInv PROVE StagedExactly
    OBVIOUS
  <2>0. UploadTypeOK /\ JobsFit /\ Known /\ LandedRows
    BY DEF UploadInv
  <2>1. ASSUME ld.pc = "loaded", ld.rows > 0
        PROVE  /\ staged # None /\ Len(staged) = ld.rows
               /\ {staged[i] : i \in DOMAIN staged} = 1..ld.rows
    <3>1. ld.rows \in Nat /\ ld.file = 0 /\ Base = ld.rows /\ sess = None /\ ld.pending = <<>>
          /\ DOMAIN <<>> = {}
      <4>1. ld.rows \in Nat /\ ld.file = 0 /\ sess = None /\ ld.pending = <<>>
        BY <2>0, <2>1 DEF JobsFit, UploadTypeOK
      <4> QED
        BY <4>1 DEF Base
    <3>2. DoneJobs = DOMAIN jobs
      BY <2>0, <2>1, <3>1 DEF Known, Awaited, DoneJobs
    <3>3. UNION {Elems(jobs[j].rows) : j \in DOMAIN jobs} = 1..ld.rows
      BY <2>0, <2>1, <3>1 DEF JobsFit
    <3>4. 1 \in 1..ld.rows
      BY <2>1, <3>1
    <3>5. DOMAIN jobs # {}
      BY <3>3, <3>4
    <3>6. staged # None /\ OneEach(staged) /\ Elems(staged) = 1..ld.rows
      BY <2>0, <2>1, <3>2, <3>3, <3>5 DEF LandedRows
    <3>7. staged \in Seq(Nat)
      BY <2>0, <3>6 DEF UploadTypeOK
    <3>8. Len(staged) = ld.rows
      BY <3>1, <3>6, <3>7, OnceCounts
    <3> QED
      BY <3>6, <3>8 DEF Elems
  <2>2. OnceStaged
    <3>1. ld.rows \in Nat
      BY <2>0 DEF UploadTypeOK
    <3>2. ld.rows > 0 \/ ld.rows = 0
      BY <3>1
    <3>3. wm > 0 => ld.pc = "loaded"
      BY <2>0 DEF LandedRows
    <3> QED
      BY <2>1, <3>2, <3>3 DEF OnceStaged
  <2>3. FileInOrder
    <3>1. SUFFICES ASSUME NEW j \in DOMAIN jobs, NEW i \in 1..Len(jobs[j].rows) - 1
                   PROVE  jobs[j].rows[i + 1] = jobs[j].rows[i] + 1
      BY DEF FileInOrder
    <3> DEFINE r == jobs[j].rows
               n == Len(r)
    <3>2. PICK a \in Nat : r = Ivl(a, n)
      BY <2>0 DEF JobsFit
    <3>3. r \in Seq(Nat)
      <4>1. DOMAIN jobs = 1..Len(jobs)
        BY <2>0, LenProperties DEF UploadTypeOK
      <4>2. jobs[j] \in [rows : Seq(Nat), st : {"running", "done", "failed"}]
        BY <2>0, <4>1, ElementOfSeq DEF UploadTypeOK
      <4> QED
        BY <4>2
    <3>4. n \in Nat
      BY <3>3, LenProperties
    <3>5. i \in 1..n /\ i + 1 \in 1..n
      <4>1. i \in 1..n - 1
        OBVIOUS
      <4> HIDE DEF n
      <4> QED
        BY <3>4, <4>1
    <3> HIDE DEF r, n
    <3>6. \A k \in 1..n : r[k] = a + k
      BY <3>2, <3>4, IvlIs
    <3>7. r[i] = a + i /\ r[i + 1] = a + (i + 1)
      BY <3>5, <3>6
    <3>8. r[i + 1] = r[i] + 1
      BY <3>4, <3>5, <3>7
    <3> QED
      BY <3>8 DEF r
  <2> QED
    BY <2>0, <2>2, <2>3 DEF StagedExactly, LandedRows
<1> QED
  BY <1>1, UploadInvariant, PTL
=============================================================================
