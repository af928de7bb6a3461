------------------------------- MODULE MyLoad -------------------------------
(* The bulk load into MySQL: loaders of several tables over one connection     *)
(* pool, each feeding a LOAD DATA LOCAL INFILE through a two-slot channel, the *)
(* registry the infile handler takes a stream from, and the KILL QUERY that    *)
(* stops an aborted load. A connection's id is what the KILL names, so who     *)
(* runs on it when the KILL lands is the point.                                *)
EXTENDS Naturals, Sequences, FiniteSets

CONSTANTS
    Tables,      \* tables of one run_many, each with a staging table of its own
    LoadersOf,   \* table -> its loaders
    Bufs,        \* buffers each loader is given
    MaxFaults    \* server errors, warnings, failed opens and source failures

Loaders == UNION {LoadersOf[t] : t \in Tables}
TableOf(l) == CHOOSE t \in Tables : l \in LoadersOf[t]

MyLoadAssumption ==
    /\ Bufs \in Nat \ {0} /\ MaxFaults \in Nat
    /\ \A t, u \in Tables : t # u => LoadersOf[t] \cap LoadersOf[u] = {}

VARIABLES
    stage,     \* each table's staging: "none", "made", "published", "dropped"
    step,      \* each loader: "new", "open", "finish", "done", "failed", "kill", "close", "ended"
    sent,      \* buffers handed to the channel
    chan,      \* the channel: "buf" and "fin"
    shut,      \* loaders whose channel is closed
    reg,       \* the registry: loaders whose stream waits for the handler
    task,      \* the LOAD DATA task: "none", "ready", "load", "ok", "err", "gone"
    fed,       \* buffers the server has been given
    rows,      \* buffers a load committed into staging
    release,   \* what the loader told its task: "none", "pool", "close"
    conn,      \* the connection id of each loader's task
    idle,      \* ids in the pool
    ids,       \* ids given out so far
    late,      \* KILLs whose answer was not awaited, still to land: ids
    foreign,   \* loaders whose statement somebody else's KILL interrupted
    faults

vars == <<stage, step, sent, chan, shut, reg, task, fed, rows, release, conn, idle, ids, late,
          foreign, faults>>

Init ==
    /\ stage = [t \in Tables |-> "none"]
    /\ step = [l \in Loaders |-> "new"] /\ sent = [l \in Loaders |-> 0]
    /\ chan = [l \in Loaders |-> << >>] /\ shut = {} /\ reg = {}
    /\ task = [l \in Loaders |-> "none"] /\ fed = [l \in Loaders |-> 0]
    /\ rows = [l \in Loaders |-> 0] /\ release = [l \in Loaders |-> "none"]
    /\ conn = [l \in Loaders |-> 0] /\ idle = {} /\ ids = 0 /\ late = {}
    /\ foreign = {} /\ faults = 0

TypeOK ==
    /\ stage \in [Tables -> {"none", "made", "published", "dropped"}]
    /\ step \in [Loaders ->
           {"new", "open", "finish", "done", "failed", "kill", "close", "ended"}]
    /\ sent \in [Loaders -> 0..Bufs] /\ fed \in [Loaders -> 0..Bufs]
    /\ rows \in [Loaders -> 0..Bufs]
    /\ \A l \in Loaders : Len(chan[l]) <= 2
    /\ shut \subseteq Loaders /\ reg \subseteq Loaders /\ foreign \subseteq Loaders
    /\ task \in [Loaders -> {"none", "ready", "load", "ok", "err", "gone"}]
    /\ release \in [Loaders -> {"none", "pool", "close"}]
    /\ idle \subseteq 1..ids /\ late \subseteq 1..ids

Fault == faults < MaxFaults /\ faults' = faults + 1

-----------------------------------------------------------------------------
\* prepare: the refusals, the announcement and the scan are passed, staging is created.
Prepare(t) ==
    /\ stage[t] = "none"
    /\ stage' = [stage EXCEPT ![t] = "made"]
    /\ UNCHANGED <<step, sent, chan, shut, reg, task, fed, rows, release, conn, idle, ids, late,
                   foreign, faults>>

\* The id a connection from the pool has: an idle one, or a new one (deadline_conn).
FromPool == IF idle = {} THEN {ids + 1} ELSE idle
Taken(c) == idle' = idle \ {c} /\ ids' = IF c > ids THEN c ELSE ids

\* loader: the stream is registered first, then the connection, its session and its id; the
\* task that will run the LOAD DATA is spawned.
Open(l) ==
    /\ step[l] = "new" /\ stage[TableOf(l)] = "made"
    /\ \A k \in LoadersOf[TableOf(l)] : step[k] \in {"new", "open"}
    /\ reg' = reg \cup {l}
    /\ \E c \in FromPool : Taken(c) /\ conn' = [conn EXCEPT ![l] = c]
    /\ step' = [step EXCEPT ![l] = "open"] /\ task' = [task EXCEPT ![l] = "ready"]
    /\ UNCHANGED <<stage, sent, chan, shut, fed, rows, release, late, foreign, faults>>

\* loader, no connection or no session: its entry of the registry is left behind.
OpenFails(l) ==
    /\ step[l] = "new" /\ stage[TableOf(l)] = "made" /\ Fault
    /\ \A k \in LoadersOf[TableOf(l)] : step[k] \in {"new", "open"}
    /\ reg' = reg \cup {l} /\ step' = [step EXCEPT ![l] = "failed"]
    /\ UNCHANGED <<stage, sent, chan, shut, task, fed, rows, release, conn, idle, ids, late, foreign>>

\* Every loader is open before a worker runs (Pipes::open).
AllOpen(t) == \A l \in LoadersOf[t] : step[l] # "new"

-----------------------------------------------------------------------------
\* The task sends LOAD DATA; the handler takes the stream out of the registry by its id, or
\* has none to give.
LoadBegins(l) ==
    /\ task[l] = "ready"
    /\ reg' = reg \ {l}
    /\ task' = [task EXCEPT ![l] = IF l \in reg THEN "load" ELSE "err"]
    /\ UNCHANGED <<stage, step, sent, chan, shut, fed, rows, release, conn, idle, ids, late,
                   foreign, faults>>

Feed(l) ==
    /\ task[l] = "load" /\ chan[l] # << >> /\ Head(chan[l]) = "buf"
    /\ chan' = [chan EXCEPT ![l] = Tail(@)] /\ fed' = [fed EXCEPT ![l] = @ + 1]
    /\ UNCHANGED <<stage, step, sent, shut, reg, task, rows, release, conn, idle, ids, late,
                   foreign, faults>>

\* FinishMarked saw Finish: the file is whole and the load commits. A warning (a row skipped
\* or changed) fails the task, with what is left of the rows committed.
Eof(l) ==
    /\ task[l] = "load" /\ chan[l] # << >> /\ Head(chan[l]) = "fin"
    /\ \/ task' = [task EXCEPT ![l] = "ok"] /\ rows' = [rows EXCEPT ![l] = fed[l]]
          /\ UNCHANGED faults
       \/ Fault /\ task' = [task EXCEPT ![l] = "err"]
          /\ \E n \in {fed[l] - 1, fed[l]} : rows' = [rows EXCEPT ![l] = n]
    /\ chan' = [chan EXCEPT ![l] = << >>]
    /\ UNCHANGED <<stage, step, sent, shut, reg, fed, release, conn, idle, ids, late, foreign>>

\* The stream ends without Finish: the client still writes the terminating packet, the server
\* commits what it has, and the task fails.
DroppedEnd(l) ==
    /\ task[l] = "load" /\ chan[l] = << >> /\ l \in shut
    /\ task' = [task EXCEPT ![l] = "err"] /\ rows' = [rows EXCEPT ![l] = fed[l]]
    /\ UNCHANGED <<stage, step, sent, chan, shut, reg, fed, release, conn, idle, ids, late,
                   foreign, faults>>

\* The server ends the statement: its transaction is rolled back, the stream is dropped.
ServerError(l) ==
    /\ task[l] = "load" /\ Fault
    /\ task' = [task EXCEPT ![l] = "err"] /\ chan' = [chan EXCEPT ![l] = << >>]
    /\ UNCHANGED <<stage, step, sent, shut, reg, fed, rows, release, conn, idle, ids, late, foreign>>

\* Mutant: the connection goes back to the pool the moment the LOAD DATA ends.
ReleaseAtOnce(l) == TRUE

\* The task keeps its connection until finish or abort releases it.
Released(l) == release[l] # "none"

\* "pool" returns it to the pool; "close", and a loader that was dropped, closes it.
TaskEnds(l) ==
    /\ task[l] \in {"ok", "err"} /\ Released(l)
    /\ idle' = IF release[l] = "close" THEN idle ELSE idle \cup {conn[l]}
    /\ step' = [step EXCEPT ![l] =
           IF @ = "finish" THEN IF task[l] = "ok" THEN "done" ELSE "failed"
           ELSE IF @ = "close" THEN "ended" ELSE @]
    /\ task' = [task EXCEPT ![l] = "gone"]
    /\ UNCHANGED <<stage, sent, chan, shut, reg, fed, rows, release, conn, ids, late, foreign,
                   faults>>

-----------------------------------------------------------------------------
Ended(l) == task[l] \in {"ok", "err", "gone"}

\* send: waits for a slot, and fails when the task has dropped the stream.
Send(l) ==
    /\ step[l] = "open" /\ AllOpen(TableOf(l)) /\ sent[l] < Bufs
    /\ ~Ended(l) /\ Len(chan[l]) < 2
    /\ chan' = [chan EXCEPT ![l] = Append(@, "buf")] /\ sent' = [sent EXCEPT ![l] = @ + 1]
    /\ UNCHANGED <<stage, step, shut, reg, task, fed, rows, release, conn, idle, ids, late,
                   foreign, faults>>

\* finish: Finish, the channel closed, the connection released to the pool; then the join.
\* A stream that closed early fails it, and the loader is dropped.
Finish(l) ==
    /\ step[l] = "open" /\ AllOpen(TableOf(l)) /\ sent[l] = Bufs
    /\ \/ /\ ~Ended(l) /\ Len(chan[l]) < 2
          /\ chan' = [chan EXCEPT ![l] = Append(@, "fin")]
          /\ step' = [step EXCEPT ![l] = "finish"] /\ release' = [release EXCEPT ![l] = "pool"]
       \/ /\ Ended(l) /\ step' = [step EXCEPT ![l] = "failed"]
          /\ release' = [release EXCEPT ![l] = "close"] /\ UNCHANGED chan
    /\ shut' = shut \cup {l}
    /\ UNCHANGED <<stage, sent, reg, task, fed, rows, conn, idle, ids, late, foreign, faults>>

\* Why a loader is aborted: its worker failed (here, its own send did), a sibling did, or the
\* source broke.
Broken(t) == \E k \in LoadersOf[t] : step[k] \in {"failed", "kill", "close", "ended"}

Abort(l) ==
    /\ step[l] = "open"
    /\ \/ Broken(TableOf(l)) /\ UNCHANGED faults
       \/ AllOpen(TableOf(l)) /\ Ended(l) /\ sent[l] < Bufs /\ UNCHANGED faults
       \/ AllOpen(TableOf(l)) /\ Fault
    /\ step' = [step EXCEPT ![l] = "kill"]
    /\ UNCHANGED <<stage, sent, chan, shut, reg, task, fed, rows, release, conn, idle, ids, late,
                   foreign>>

\* KILL QUERY on id c: whoever runs a statement there loses it; an idle connection does not
\* notice, for the flag is cleared by the next statement.
Hit(c) == {k \in Loaders : conn[k] = c /\ task[k] = "load"}
Killed(c, by) ==
    /\ task' = [k \in Loaders |-> IF k \in Hit(c) THEN "err" ELSE task[k]]
    /\ chan' = [k \in Loaders |-> IF k \in Hit(c) THEN << >> ELSE chan[k]]
    /\ foreign' = foreign \cup (Hit(c) \ by)

\* abort. The task cannot have finished: it waits for the release. kill_statement, then the close 
\* of the channel, the release and the registry in one stretch without an await; the pooled
\* connection that carried the KILL goes back.
Kill(l) ==
    /\ step[l] = "kill"
    /\ \E c \in FromPool : idle' = idle \cup {c} /\ ids' = IF c > ids THEN c ELSE ids
    /\ Killed(conn[l], {l})
    /\ step' = [step EXCEPT ![l] = IF task[l] = "gone" THEN "ended" ELSE "close"]
    /\ shut' = shut \cup {l} /\ release' = [release EXCEPT ![l] = "close"] /\ reg' = reg \ {l}
    /\ UNCHANGED <<stage, sent, fed, rows, conn, late, faults>>

\* No answer within KILL_TIMEOUT: the abort goes on, and the KILL may still land.
KillUnanswered(l) ==
    /\ step[l] = "kill"
    /\ late' \in {late, late \cup {conn[l]}}
    /\ step' = [step EXCEPT ![l] = IF task[l] = "gone" THEN "ended" ELSE "close"]
    /\ shut' = shut \cup {l} /\ release' = [release EXCEPT ![l] = "close"] /\ reg' = reg \ {l}
    /\ UNCHANGED <<stage, sent, chan, task, fed, rows, conn, idle, ids, foreign, faults>>

LateKill(c) ==
    /\ c \in late /\ late' = late \ {c}
    /\ Killed(c, {k \in Loaders : conn[k] = c /\ step[k] = "close"})
    /\ UNCHANGED <<stage, step, sent, shut, reg, fed, rows, release, conn, idle, ids, faults>>

-----------------------------------------------------------------------------
\* Every pipe finished: the swap, or the insert, publishes staging.
Publish(t) ==
    /\ stage[t] = "made" /\ \A l \in LoadersOf[t] : step[l] = "done"
    /\ stage' = [stage EXCEPT ![t] = "published"]
    /\ UNCHANGED <<step, sent, chan, shut, reg, task, fed, rows, release, conn, idle, ids, late,
                   foreign, faults>>

\* discard, after the first error, once every loader has been joined or aborted; or none was
\* opened.
Discard(t) ==
    /\ stage[t] = "made" /\ Broken(t)
    /\ \A l \in LoadersOf[t] : step[l] \in {"new", "done", "failed", "ended"}
    /\ stage' = [stage EXCEPT ![t] = "dropped"]
    /\ UNCHANGED <<step, sent, chan, shut, reg, task, fed, rows, release, conn, idle, ids, late,
                   foreign, faults>>

Over ==
    /\ \A t \in Tables : stage[t] \in {"published", "dropped"}
    /\ UNCHANGED vars

Next ==
    \/ \E t \in Tables : Prepare(t) \/ Publish(t) \/ Discard(t)
    \/ \E l \in Loaders :
        \/ Open(l) \/ OpenFails(l) \/ LoadBegins(l) \/ Feed(l) \/ Eof(l) \/ DroppedEnd(l)
        \/ ServerError(l) \/ TaskEnds(l) \/ Send(l) \/ Finish(l) \/ Abort(l) \/ Kill(l)
        \/ KillUnanswered(l)
    \/ \E c \in late : LateKill(c)
    \/ Over

Spec == Init /\ [][Next]_vars

-----------------------------------------------------------------------------
\* What a table publishes is every buffer of every loader, and an abort stops no load but its
\* own: a KILL names a connection id, and that connection serves nobody else until the abort is
\* over, however late the KILL lands (kill_statement, the release of the task's connection).
LoadsWhole ==
    /\ foreign = {}
    /\ \A t \in Tables : stage[t] = "published" => \A l \in LoadersOf[t] : rows[l] = Bufs
=============================================================================
