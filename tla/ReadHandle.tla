------------------------------ MODULE ReadHandle -----------------------------
(***************************************************************************)
(* The delivery side of a DataFrame read (read.rs, read_impl.rs, the       *)
(* direct-Arrow workers of source/mysql.rs, and the stream capsule of the  *)
(* Python package): workers build batches, a bounded channel carries them, *)
(* a supervisor joins the workers, the consumer pulls.                     *)
(***************************************************************************)
EXTENDS Naturals, Sequences, FiniteSets

CONSTANTS
    Workers,
    SpanRows,      \* rows of each span, in statement order
    SealRows,      \* rows that seal a batch
    Cap,           \* channel capacity
    MaxFaults

VARIABLES todo, cur, acc, wst, latch, chan, sup, completed, cst, got, faults

vars == <<todo, cur, acc, wst, latch, chan, sup, completed, cst, got, faults>>

\* A row is <<span, position>>.
RowsOf(s) == [i \in 1..SpanRows[s] |-> <<s, i>>]
All == UNION {{RowsOf(s)[i] : i \in 1..SpanRows[s]} : s \in DOMAIN SpanRows}
Err == "error"

Running == {w \in Workers : wst[w] = "run"}

\* The bounded channel: a sender waits for room.
Room == Len(chan) < Cap /\ cst = "pull"

-----------------------------------------------------------------------------
\* A worker: next span, rows into the builder, a sealed batch into the channel.

\* spans.next(): a tripped latch ends the worker with the queue's refusal.
Take(w) ==
    /\ wst[w] = "run" /\ cur[w] = <<>> /\ Len(acc[w]) < SealRows
    /\ ~latch /\ todo # <<>>
    /\ cur' = [cur EXCEPT ![w] = RowsOf(Head(todo))]
    /\ todo' = Tail(todo)
    /\ UNCHANGED <<acc, wst, latch, chan, sup, completed, cst, got, faults>>

Row(w) ==
    /\ wst[w] = "run" /\ cur[w] # <<>> /\ Len(acc[w]) < SealRows
    /\ acc' = [acc EXCEPT ![w] = Append(@, Head(cur[w]))]
    /\ cur' = [cur EXCEPT ![w] = Tail(@)]
    /\ UNCHANGED <<todo, wst, latch, chan, sup, completed, cst, got, faults>>

\* take_ready: the batch is sent, waiting for room.
Seal(w) ==
    /\ wst[w] = "run" /\ Len(acc[w]) >= SealRows /\ Room
    /\ chan' = Append(chan, acc[w])
    /\ acc' = [acc EXCEPT ![w] = <<>>]
    /\ UNCHANGED <<todo, cur, wst, latch, sup, completed, cst, got, faults>>

\* The queue is empty: the rest of the builder goes out, then the sender drops.
Finish(w) ==
    /\ wst[w] = "run" /\ cur[w] = <<>> /\ todo = <<>> /\ ~latch
    /\ Len(acc[w]) < SealRows
    /\ IF acc[w] = <<>> THEN UNCHANGED chan
       ELSE Room /\ chan' = Append(chan, acc[w])
    /\ wst' = [wst EXCEPT ![w] = "ok"]
    /\ acc' = [acc EXCEPT ![w] = <<>>]
    /\ UNCHANGED <<todo, cur, latch, sup, completed, cst, got, faults>>

\* A query, a cell or a connection fails, or the body panics: the latch trips.
Fail(w) ==
    /\ wst[w] = "run" /\ faults < MaxFaults
    /\ faults' = faults + 1
    /\ wst' = [wst EXCEPT ![w] = "failed"]
    /\ latch' = TRUE
    /\ UNCHANGED <<todo, cur, acc, chan, sup, completed, cst, got>>

\* A sibling of a failed worker stops at its next span.
StopAtLatch(w) ==
    /\ wst[w] = "run" /\ latch /\ cur[w] = <<>> /\ Len(acc[w]) < SealRows
    /\ wst' = [wst EXCEPT ![w] = "failed"]
    /\ UNCHANGED <<todo, cur, acc, latch, chan, sup, completed, cst, got, faults>>

\* The supervisor was aborted: its JoinSet drops the tasks, at their next await.
Aborted(w) ==
    /\ wst[w] = "run" /\ sup = "aborted"
    /\ wst' = [wst EXCEPT ![w] = "aborted"]
    /\ UNCHANGED <<todo, cur, acc, latch, chan, sup, completed, cst, got, faults>>

\* A send into a closed channel: "read cancelled by consumer".
Cancelled(w) ==
    /\ wst[w] = "run" /\ cst \in {"gone", "error"} /\ acc[w] # <<>>
    /\ wst' = [wst EXCEPT ![w] = "failed"]
    /\ latch' = TRUE
    /\ UNCHANGED <<todo, cur, acc, chan, sup, completed, cst, got, faults>>

-----------------------------------------------------------------------------
\* The supervisor: join, report an error, mark complete, drop the last sender.

Join ==
    /\ sup = "join" /\ Running = {}
    /\ sup' = IF latch THEN "report" ELSE "store"
    /\ UNCHANGED <<todo, cur, acc, wst, latch, chan, completed, cst, got, faults>>

Report ==
    /\ sup = "report" /\ Room
    /\ chan' = Append(chan, Err)
    /\ sup' = "store"
    /\ UNCHANGED <<todo, cur, acc, wst, latch, completed, cst, got, faults>>

\* completed is stored before the last sender drops.
Store ==
    /\ sup = "store"
    /\ completed' = TRUE
    /\ sup' = "drop"
    /\ UNCHANGED <<todo, cur, acc, wst, latch, chan, cst, got, faults>>

Drop ==
    /\ sup = "drop"
    /\ sup' = "done"
    /\ UNCHANGED <<todo, cur, acc, wst, latch, chan, completed, cst, got, faults>>

\* The supervisor task dies (a panic outside the workers): its future is dropped.
SupervisorDies ==
    /\ sup \in {"join", "report"} /\ faults < MaxFaults
    /\ faults' = faults + 1
    /\ sup' = "aborted"
    /\ UNCHANGED <<todo, cur, acc, wst, latch, chan, completed, cst, got>>

SendersGone == sup \in {"late", "done", "aborted"} /\ Running = {}

-----------------------------------------------------------------------------
\* The consumer.

\* next_batch on a closed, empty channel: the end only if the scan completed.
EndOfChannel ==
    /\ cst = "pull" /\ chan = <<>> /\ SendersGone
    /\ cst' = IF completed THEN "end" ELSE "error"
    /\ UNCHANGED <<todo, cur, acc, wst, latch, chan, sup, completed, got, faults>>

Stop == IF sup = "done" THEN "done" ELSE "aborted"

\* next_batch: a batch, or an error that aborts the supervisor.
Pull ==
    /\ cst = "pull" /\ chan # <<>>
    /\ chan' = Tail(chan)
    /\ \/ /\ Head(chan) # Err
          /\ got' = got \o Head(chan)
          /\ UNCHANGED <<sup, cst>>
       \/ /\ Head(chan) = Err
          /\ cst' = "error"
          /\ sup' = Stop
          /\ UNCHANGED got
    /\ UNCHANGED <<todo, cur, acc, wst, latch, completed, faults>>

\* cancel and Drop: abort the supervisor, close the channel.
Cancel ==
    /\ cst = "pull"
    /\ cst' = "gone"
    /\ chan' = <<>>
    /\ sup' = Stop
    /\ UNCHANGED <<todo, cur, acc, wst, latch, completed, got, faults>>

-----------------------------------------------------------------------------
Init ==
    /\ todo = [s \in DOMAIN SpanRows |-> s]
    /\ cur = [w \in Workers |-> <<>>]
    /\ acc = [w \in Workers |-> <<>>]
    /\ wst = [w \in Workers |-> "run"]
    /\ latch = FALSE
    /\ chan = <<>>
    /\ sup = "join"
    /\ completed = FALSE
    /\ cst = "pull"
    /\ got = <<>>
    /\ faults = 0

Step(w) == Take(w) \/ Row(w) \/ Seal(w) \/ Finish(w) \/ StopAtLatch(w) \/ Aborted(w) \/ Cancelled(w)
Supervise == Join \/ Report \/ Store \/ Drop

Next ==
    \/ \E w \in Workers : Step(w) \/ Fail(w)
    \/ Supervise \/ SupervisorDies
    \/ Pull \/ EndOfChannel \/ Cancel

\* The runtime polls the tasks, the consumer keeps pulling.
Fairness ==
    /\ \A w \in Workers : WF_vars(Step(w))
    /\ WF_vars(Supervise)
    /\ WF_vars(Pull \/ EndOfChannel)

Spec == Init /\ [][Next]_vars /\ Fairness

-----------------------------------------------------------------------------
TypeOK ==
    /\ Len(chan) <= Cap
    /\ \A w \in Workers : Len(acc[w]) <= SealRows
    /\ cst \in {"pull", "end", "error", "gone"}
    /\ {got[i] : i \in 1..Len(got)} \subseteq All

\* The end of the stream means the scan completed: every row once, whatever
\* failed, panicked or was aborted on the way.
EndIsWhole ==
    cst = "end" => /\ {got[i] : i \in 1..Len(got)} = All
                   /\ Len(got) = Cardinality(All)

\* A read in which nothing failed never ends in an error: the flag is set before
\* the consumer can see the channel closed.
NoFalseAlarm == faults = 0 => cst # "error"

\* parallel=1 delivers the source's order.
SourceOrder ==
    Cardinality(Workers) = 1 =>
        \A i \in 1..(Len(got) - 1) :
            \/ got[i][1] < got[i + 1][1]
            \/ got[i][1] = got[i + 1][1] /\ got[i][2] < got[i + 1][2]

=============================================================================
