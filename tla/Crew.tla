-------------------------------- MODULE Crew --------------------------------
(***************************************************************************)
(* One parallel load into one staging table: the crew of workers of        *)
(* pipe.rs, the COPY loader each of them owns (sink/postgres.rs) with its  *)
(* sender task, and the staged block of pipeline/mod.rs that publishes the *)
(* staging or discards it.                                                 *)
(*                                                                         *)
(* A worker takes spans from a shared queue, reads each into its buffer    *)
(* and sends the buffer to its loader whenever it holds Chunk spans.  The  *)
(* loader's sender task, a thread of its own, feeds the COPY, and commits  *)
(* it into staging only when it is told to finish.  Any read, send, open   *)
(* or commit may fail, and a worker may panic.                             *)
(***************************************************************************)
EXTENDS Naturals, Sequences, FiniteSets

CONSTANTS
    Workers,    \* 1..n, in the order the loaders are opened
    Spans,      \* the statements the source was split into
    Chunk,      \* spans a worker buffers before it sends
    Slots,      \* messages the loader's channel holds
    MayPanic    \* whether finish, abort or the runtime may lose a worker

CrewAssumption ==
    /\ Chunk \in Nat \ {0} /\ Slots \in Nat \ {0}
    /\ Cardinality(Workers) > 0 /\ Workers = 1..Cardinality(Workers)
    /\ MayPanic \in BOOLEAN

VARIABLES
    load,       \* where the staged block of pipeline::run is
    latch,      \* the set's failure latch
    queue,      \* the spans nobody has taken
    pc,         \* where each worker is
    cur,        \* the span a worker is reading (a set of at most one)
    out,        \* the spans a worker has read and not sent
    first,      \* whether a worker's error claimed the latch
    outcome,    \* what a worker's task returned
    chan, tx,   \* the messages to a sender task, and whether its sender lives
    handle,     \* whether the loader still holds the sender task's handle
    task, copy, \* the sender task, and the spans in its COPY
    staging,    \* how often each span is committed in the staging table
    joined,     \* the workers the join loop has collected
    cause, lost, sawCancel,   \* the join loop's locals
    target      \* what has been published

vars == <<load, latch, queue, pc, cur, out, first, outcome, chan, tx, handle,
          task, copy, staging, joined, cause, lost, sawCancel, target>>

worker == <<pc, cur, out, first, outcome>>
loader == <<chan, tx, handle>>
sender == <<task, copy, staging>>
joins  == <<joined, cause, lost, sawCancel>>

\* A buffer, or the mark that ends the stream on purpose.
Buf(b) == [finish |-> FALSE, buf |-> b]
FinishMark == [finish |-> TRUE, buf |-> {}]
Msg == {Buf(b) : b \in SUBSET Spans} \cup {FinishMark}

Nothing == [s \in Spans |-> 0]
InBody == {"loop", "read", "send", "flush", "joining"}
TaskEnded(w) == task[w] \in {"committed", "failed"}

TypeOK ==
    /\ load \in {"open", "unopen", "crew", "finalize", "discard", "ok", "failed"}
    /\ latch \in BOOLEAN
    /\ queue \subseteq Spans
    /\ pc \in [Workers -> InBody \cup {"none", "bodyOk", "finish", "await",
               "error", "finishError", "abort", "aborting", "out"}]
    /\ cur \in [Workers -> SUBSET Spans] /\ out \in [Workers -> SUBSET Spans]
    /\ first \in [Workers -> BOOLEAN]
    /\ outcome \in [Workers -> {"none", "done", "cause", "cancelled", "joinError"}]
    /\ chan \in [Workers -> Seq(Msg)] /\ \A w \in Workers : Len(chan[w]) <= Slots
    /\ tx \in [Workers -> BOOLEAN] /\ handle \in [Workers -> BOOLEAN]
    /\ task \in [Workers -> {"none", "starting", "copying", "committed", "failed"}]
    /\ copy \in [Workers -> SUBSET Spans]
    /\ staging \in [Spans -> Nat] /\ target \in [Spans -> Nat]
    /\ joined \subseteq Workers
    /\ {cause, lost, sawCancel} \subseteq BOOLEAN

Init ==
    /\ load = "open" /\ latch = FALSE /\ queue = Spans
    /\ pc = [w \in Workers |-> "none"]
    /\ cur = [w \in Workers |-> {}] /\ out = [w \in Workers |-> {}]
    /\ first = [w \in Workers |-> FALSE]
    /\ outcome = [w \in Workers |-> "none"]
    /\ chan = [w \in Workers |-> <<>>]
    /\ tx = [w \in Workers |-> FALSE] /\ handle = [w \in Workers |-> FALSE]
    /\ task = [w \in Workers |-> "none"] /\ copy = [w \in Workers |-> {}]
    /\ staging = Nothing /\ target = Nothing
    /\ joined = {} /\ cause = FALSE /\ lost = FALSE /\ sawCancel = FALSE

-----------------------------------------------------------------------------
(* Opening: the loaders one after another, each spawning its sender task.  *)

Opened == {w \in Workers : task[w] # "none"}

OpenLoader(w) ==
    /\ load = "open" /\ w = Cardinality(Opened) + 1
    /\ task' = [task EXCEPT ![w] = "starting"]
    /\ tx' = [tx EXCEPT ![w] = TRUE] /\ handle' = [handle EXCEPT ![w] = TRUE]
    /\ UNCHANGED <<load, latch, queue, worker, chan, copy, staging, joins, target>>

\* An open that fails, or span planning that does: the open ones are aborted.
OpenFails ==
    /\ load = "open" /\ Opened # Workers
    /\ load' = "unopen"
    /\ UNCHANGED <<latch, queue, worker, loader, sender, joins, target>>

\* The loaders are aborted in order; each abort waits for its sender task.
AbortOpened(w) ==
    /\ load = "unopen" /\ w \in Opened /\ tx[w]
    /\ \A v \in Opened : v < w => ~tx[v] /\ ~handle[v]
    /\ tx' = [tx EXCEPT ![w] = FALSE]
    /\ UNCHANGED <<load, latch, queue, worker, chan, handle, sender, joins, target>>

AbortedOpened(w) ==
    /\ load = "unopen" /\ w \in Opened /\ ~tx[w] /\ handle[w] /\ TaskEnded(w)
    /\ handle' = [handle EXCEPT ![w] = FALSE]
    /\ UNCHANGED <<load, latch, queue, worker, chan, tx, sender, joins, target>>

Unopened ==
    /\ load = "unopen" /\ \A w \in Opened : ~tx[w] /\ ~handle[w]
    /\ load' = "discard"
    /\ UNCHANGED <<latch, queue, worker, loader, sender, joins, target>>

StartCrew ==
    /\ load = "open" /\ Opened = Workers
    /\ load' = "crew" /\ pc' = [w \in Workers |-> "loop"]
    /\ UNCHANGED <<latch, queue, cur, out, first, outcome, loader, sender, joins,
                   target>>

-----------------------------------------------------------------------------
(* The worker's body: take a span, read it, send what has been buffered.   *)

TakeSpan(w) ==
    /\ pc[w] = "loop"
    /\ \/ latch /\ pc' = [pc EXCEPT ![w] = "error"] /\ UNCHANGED <<queue, cur>>
       \/ ~latch /\ queue = {} /\ pc' = [pc EXCEPT ![w] = "flush"]
          /\ UNCHANGED <<queue, cur>>
       \/ /\ ~latch
          /\ \E s \in queue : queue' = queue \ {s} /\ cur' = [cur EXCEPT ![w] = {s}]
          /\ pc' = [pc EXCEPT ![w] = "read"]
    /\ UNCHANGED <<load, latch, out, first, outcome, loader, sender, joins, target>>

ReadSpan(w) ==
    /\ pc[w] = "read"
    /\ out' = [out EXCEPT ![w] = @ \cup cur[w]]
    /\ cur' = [cur EXCEPT ![w] = {}]
    /\ pc' = [pc EXCEPT ![w] = IF Cardinality(out'[w]) >= Chunk THEN "send" ELSE "loop"]
    /\ UNCHANGED <<load, latch, queue, first, outcome, loader, sender, joins, target>>

\* A source error, or a panic caught around the body.
BodyFails(w) ==
    /\ pc[w] \in InBody \ {"joining"}
    /\ pc' = [pc EXCEPT ![w] = "error"]
    /\ UNCHANGED <<load, latch, queue, cur, out, first, outcome, loader, sender,
                   joins, target>>

NothingToFlush(w) ==
    /\ pc[w] = "flush" /\ out[w] = {}
    /\ pc' = [pc EXCEPT ![w] = "bodyOk"]
    /\ UNCHANGED <<load, latch, queue, cur, out, first, outcome, loader, sender,
                   joins, target>>

\* A send into the closed channel of a task that died waits for that task.
SendIgnoringDeath(w) ==
    /\ pc[w] \in {"send", "flush"} /\ out[w] # {}
    /\ \/ latch /\ pc' = [pc EXCEPT ![w] = "error"] /\ UNCHANGED <<chan, out>>
       \/ /\ ~latch /\ Len(chan[w]) < Slots
          /\ chan' = [chan EXCEPT ![w] = Append(@, Buf(out[w]))]
          /\ out' = [out EXCEPT ![w] = {}]
          /\ pc' = [pc EXCEPT ![w] = IF @ = "send" THEN "loop" ELSE "bodyOk"]
    /\ UNCHANGED <<load, latch, queue, cur, first, outcome, tx, handle, sender,
                   joins, target>>

Send(w) ==
    /\ pc[w] \in {"send", "flush"} /\ out[w] # {}
    /\ \/ latch /\ pc' = [pc EXCEPT ![w] = "error"] /\ UNCHANGED <<chan, out>>
       \/ ~latch /\ TaskEnded(w) /\ pc' = [pc EXCEPT ![w] = "joining"]
          /\ UNCHANGED <<chan, out>>
       \/ /\ ~latch /\ ~TaskEnded(w) /\ Len(chan[w]) < Slots
          /\ chan' = [chan EXCEPT ![w] = Append(@, Buf(out[w]))]
          /\ out' = [out EXCEPT ![w] = {}]
          /\ pc' = [pc EXCEPT ![w] = IF @ = "send" THEN "loop" ELSE "bodyOk"]
    /\ UNCHANGED <<load, latch, queue, cur, first, outcome, tx, handle, sender,
                   joins, target>>

JoinDeadTask(w) ==
    /\ pc[w] = "joining"
    /\ handle' = [handle EXCEPT ![w] = FALSE]
    /\ pc' = [pc EXCEPT ![w] = "error"]
    /\ UNCHANGED <<load, latch, queue, cur, out, first, outcome, chan, tx, sender,
                   joins, target>>

-----------------------------------------------------------------------------
(* Pipe::drive after the body: finish or abort the loader, once.           *)

CheckLatch(w) ==
    /\ pc[w] = "bodyOk"
    /\ pc' = [pc EXCEPT ![w] = IF latch THEN "abort" ELSE "finish"]
    /\ UNCHANGED <<load, latch, queue, cur, out, first, outcome, loader, sender,
                   joins, target>>

Finish(w) ==
    /\ pc[w] = "finish"
    /\ \/ TaskEnded(w) /\ pc' = [pc EXCEPT ![w] = "finishError"]
          /\ UNCHANGED chan
       \/ /\ ~TaskEnded(w) /\ Len(chan[w]) < Slots
          /\ chan' = [chan EXCEPT ![w] = Append(@, FinishMark)]
          /\ pc' = [pc EXCEPT ![w] = "await"]
    /\ tx' = [tx EXCEPT ![w] = FALSE]
    /\ UNCHANGED <<load, latch, queue, cur, out, first, outcome, handle, sender,
                   joins, target>>

Finished(w) ==
    /\ pc[w] = "await" /\ TaskEnded(w)
    /\ handle' = [handle EXCEPT ![w] = FALSE]
    /\ \/ /\ task[w] = "committed"
          /\ outcome' = [outcome EXCEPT ![w] = "done"]
          /\ pc' = [pc EXCEPT ![w] = "out"]
       \/ /\ task[w] = "failed"
          /\ pc' = [pc EXCEPT ![w] = "finishError"] /\ UNCHANGED outcome
    /\ UNCHANGED <<load, latch, queue, cur, out, first, chan, tx, sender, joins,
                   target>>

FinishFailed(w) ==
    /\ pc[w] = "finishError"
    /\ latch' = TRUE
    /\ outcome' = [outcome EXCEPT ![w] = IF latch THEN "cancelled" ELSE "cause"]
    /\ pc' = [pc EXCEPT ![w] = "out"]
    /\ handle' = [handle EXCEPT ![w] = FALSE]
    /\ UNCHANGED <<load, queue, cur, out, first, chan, tx, sender, joins, target>>

\* The latch is claimed before the abort starts.
ClaimLatch(w) ==
    /\ pc[w] = "error"
    /\ latch' = TRUE
    /\ first' = [first EXCEPT ![w] = ~latch]
    /\ pc' = [pc EXCEPT ![w] = "abort"]
    /\ UNCHANGED <<load, queue, cur, out, outcome, loader, sender, joins, target>>

\* Dropping the sender without Finish makes its task abort the COPY.
Abort(w) ==
    /\ pc[w] = "abort"
    /\ tx' = [tx EXCEPT ![w] = FALSE]
    /\ pc' = [pc EXCEPT ![w] = "aborting"]
    /\ UNCHANGED <<load, latch, queue, cur, out, first, outcome, chan, handle,
                   sender, joins, target>>

Aborted(w) ==
    /\ pc[w] = "aborting" /\ (handle[w] => TaskEnded(w))
    /\ handle' = [handle EXCEPT ![w] = FALSE]
    /\ outcome' = [outcome EXCEPT ![w] = IF first[w] THEN "cause" ELSE "cancelled"]
    /\ pc' = [pc EXCEPT ![w] = "out"]
    /\ UNCHANGED <<load, latch, queue, cur, out, first, chan, tx, sender, joins,
                   target>>

\* A panic in finish or abort, or the runtime ending the worker: the loader is
\* dropped, its sender task runs on without anybody waiting for it.
LoseWorker(w) ==
    /\ MayPanic /\ pc[w] \in {"finish", "await", "abort", "aborting"}
    /\ pc' = [pc EXCEPT ![w] = "out"]
    /\ outcome' = [outcome EXCEPT ![w] = "joinError"]
    /\ tx' = [tx EXCEPT ![w] = FALSE] /\ handle' = [handle EXCEPT ![w] = FALSE]
    /\ UNCHANGED <<load, latch, queue, cur, out, first, chan, sender, joins, target>>

-----------------------------------------------------------------------------
(* The sender task of a loader.                                            *)

TaskOpens(w) ==
    /\ task[w] = "starting"
    /\ task' = [task EXCEPT ![w] = "copying"]
    /\ UNCHANGED <<load, latch, queue, worker, loader, copy, staging, joins, target>>

TaskFails(w) ==
    /\ \/ task[w] = "starting"
       \/ task[w] = "copying" /\ chan[w] # <<>>
    /\ task' = [task EXCEPT ![w] = "failed"]
    /\ UNCHANGED <<load, latch, queue, worker, loader, copy, staging, joins, target>>

TaskCopies(w) ==
    /\ task[w] = "copying" /\ chan[w] # <<>> /\ ~Head(chan[w]).finish
    /\ copy' = [copy EXCEPT ![w] = @ \cup Head(chan[w]).buf]
    /\ chan' = [chan EXCEPT ![w] = Tail(@)]
    /\ UNCHANGED <<load, latch, queue, worker, tx, handle, task, staging, joins,
                   target>>

Committed(w) == [s \in Spans |-> staging[s] + IF s \in copy[w] THEN 1 ELSE 0]

\* A commit's answer may be lost: the rows are in and the task reports a failure.
TaskCommits(w) ==
    /\ task[w] = "copying" /\ chan[w] # <<>> /\ Head(chan[w]).finish
    /\ staging' = Committed(w)
    /\ \E r \in {"committed", "failed"} : task' = [task EXCEPT ![w] = r]
    /\ chan' = [chan EXCEPT ![w] = Tail(@)]
    /\ UNCHANGED <<load, latch, queue, worker, tx, handle, copy, joins, target>>

TaskDropped(w) ==
    /\ task[w] = "copying" /\ chan[w] = <<>> /\ ~tx[w]
    /\ task' = [task EXCEPT ![w] = "failed"]
    /\ UNCHANGED <<load, latch, queue, worker, loader, copy, staging, joins, target>>

-----------------------------------------------------------------------------
(* The join loop, and what the pipeline does with its answer.              *)

Collect(w) ==
    /\ load = "crew" /\ outcome[w] # "none" /\ w \notin joined
    /\ joined' = joined \cup {w}
    /\ cause' = (cause \/ outcome[w] = "cause" \/ (outcome[w] = "joinError" /\ ~latch))
    /\ lost' = (lost \/ (outcome[w] = "joinError" /\ latch))
    /\ sawCancel' = (sawCancel \/ outcome[w] = "cancelled")
    /\ latch' = (latch \/ outcome[w] = "joinError")
    /\ UNCHANGED <<load, queue, worker, loader, sender, target>>

\* The 0.57.0 answer: a lost worker is no failure.
JoinedWithoutLost ==
    /\ load = "crew" /\ joined = Workers
    /\ load' = IF cause \/ sawCancel THEN "discard" ELSE "finalize"
    /\ UNCHANGED <<latch, queue, worker, loader, sender, joins, target>>

JoinedAll ==
    /\ load = "crew" /\ joined = Workers
    /\ load' = IF cause \/ lost \/ sawCancel THEN "discard" ELSE "finalize"
    /\ UNCHANGED <<latch, queue, worker, loader, sender, joins, target>>

Finalize ==
    /\ load = "finalize"
    /\ \/ load' = "ok" /\ target' = staging
       \/ load' = "discard" /\ UNCHANGED target
    /\ UNCHANGED <<latch, queue, worker, loader, sender, joins>>

\* Best effort: the drop may fail, the original error is what is reported.
Discard ==
    /\ load = "discard"
    /\ load' = "failed"
    /\ \/ staging' = Nothing
       \/ UNCHANGED staging
    /\ UNCHANGED <<latch, queue, worker, loader, task, copy, joins, target>>

Ended ==
    /\ load \in {"ok", "failed"} /\ \A w \in Opened : TaskEnded(w)
    /\ UNCHANGED vars

-----------------------------------------------------------------------------
WorkerStep(w) ==
    \/ TakeSpan(w) \/ ReadSpan(w) \/ NothingToFlush(w) \/ Send(w) \/ JoinDeadTask(w)
    \/ CheckLatch(w) \/ Finish(w) \/ Finished(w) \/ FinishFailed(w) \/ ClaimLatch(w)
    \/ Abort(w) \/ Aborted(w)

TaskStep(w) == TaskOpens(w) \/ TaskCopies(w) \/ TaskCommits(w) \/ TaskDropped(w)

OpenStep ==
    \/ \E w \in Workers : OpenLoader(w) \/ AbortOpened(w) \/ AbortedOpened(w)
    \/ Unopened \/ StartCrew

LoadStep == (\E w \in Workers : Collect(w)) \/ JoinedAll \/ Finalize \/ Discard

Fault ==
    \/ OpenFails
    \/ \E w \in Workers : BodyFails(w) \/ LoseWorker(w) \/ TaskFails(w)

Next ==
    \/ Fault \/ OpenStep \/ LoadStep
    \/ \E w \in Workers : WorkerStep(w) \/ TaskStep(w)
    \/ Ended

Spec == Init /\ [][Next]_vars

\* The runtime polls every task that can run; nothing has to fail.
FairSpec ==
    /\ Spec /\ WF_vars(OpenStep) /\ WF_vars(LoadStep)
    /\ \A w \in Workers : WF_vars(WorkerStep(w)) /\ WF_vars(TaskStep(w))

-----------------------------------------------------------------------------
(* Properties.                                                             *)

\* Discard and finalize start only after the last write of every worker of the
\* crew: when join_all (or the abort of a half-open set) has returned, no sender
\* task is left that could still commit into the staging table, but those of workers
\* that were lost.
QuietAfterJoin ==
    load \in {"finalize", "discard", "ok", "failed"}
        => \A w \in Opened : TaskEnded(w) \/ outcome[w] = "joinError"

\* No span is lost in a buffer, a channel or an aborted COPY of a crew that
\* answers Ok, and none is committed twice.
SpansOnce == target # Nothing => \A s \in Spans : target[s] = 1

\* One task's error is the error: a crew that fails reports a worker's own error,
\* or the loss of a worker, and never only that everybody was cancelled by a
\* sibling (the latch is claimed by a worker that reports or is lost).
FailureHasACause ==
    (load = "discard" /\ joined = Workers /\ (cause \/ lost \/ sawCancel))
        => (cause \/ lost)

\* At most one worker of a crew is told that its error is the error.
OneCause == \A v, w \in Workers : outcome[v] = "cause" /\ outcome[w] = "cause" => v = w

\* What finalize publishes holds every span exactly once, whatever failed, panicked
\* or committed on the way; nothing of the crew writes once it was joined, but what a
\* lost worker left; a failure has one cause (join_all, Pipe::drive).
PublishesWhole == SpansOnce /\ QuietAfterJoin /\ FailureHasACause /\ OneCause
=============================================================================
