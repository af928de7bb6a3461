------------------------------ MODULE BqCommit ------------------------------
(***************************************************************************)
(* A group of changelog tables in BigQuery (logbased/dest_bq.rs and the    *)
(* jobs of sink/bigquery.rs).  Every window is committed by scripts: each  *)
(* one transaction, holding whole tables (rows, marker and watermark) and  *)
(* fenced on a table of the run's own.  A script is a job under a client's *)
(* id; its POST and its polls may fail without a verdict, and it may run   *)
(* long after its run gave up.  A run whose lease lapsed is collected      *)
(* while it still lives, and its successor drains from the same position.  *)
(***************************************************************************)
EXTENDS Naturals, SequencesExt, FiniteSetsExt

CONSTANTS
    Tables,      \* the group's members, in order
    None,        \* Option::None
    PerTxn,      \* tables one transaction may name
    MaxCommits,  \* bound: commits of the source
    MaxRuns,     \* bound: runs
    MaxTries     \* bound: attempts at one script after the first (5 in the code)

BqCommitAssumption ==
    /\ PerTxn \in Nat \ {0} /\ {MaxCommits, MaxTries} \subseteq Nat /\ MaxRuns \in Nat \ {0}

VARIABLES
    wal,      \* the source's commits: the tables each has one event for
    log,      \* per table the changelog's rows
    markers,  \* per table the attempts recorded in _apitap_cdc_pending
    mark,     \* per table its newest _apitap_state row
    fence,    \* per run its fence table: "none", "open", "claimed", "gone"
    client,   \* per run what it is doing
    jobs      \* every job BigQuery knows: the id it was posted under, and what it does

vars == <<wal, log, markers, mark, fence, client, jobs>>

Members == ToSet(Tables)
RunIds == 1..MaxRuns

LogRow(lsn, seq, event) == [lsn |-> lsn, seq |-> seq, event |-> event]
Marker(start, base) == [start |-> start, base |-> base]

\* at: "off", "idle", "post" (the script goes out under id), "poll", "over".
NoClient == [at |-> "off", start |-> 0, end |-> 0, chunks |-> <<>>, plan |-> None, id |-> 0, tries |-> 0]

Init ==
    /\ wal \in [1..MaxCommits -> SUBSET Members \ {{}}]
    /\ log = [t \in Members |-> <<>>] /\ markers = [t \in Members |-> {}]
    /\ mark = [t \in Members |-> 0]
    /\ fence = [r \in RunIds |-> "none"] /\ client = [r \in RunIds |-> NoClient]
    /\ jobs = {}

-----------------------------------------------------------------------------
(* Planning a window.                                                      *)

EventsOf(t, lo, hi) == SelectSeq([i \in 1..hi - lo |-> lo + i], LAMBDA e : t \in wal[e])

At(t, stamp, from) == SelectSeq(log[t], LAMBDA r : r.lsn = stamp /\ r.seq >= from)

Newest(t) == CHOOSE m \in markers[t] : \A n \in markers[t] : n.start <= m.start

\* replay_plan over what the group's probe and facts answer.
PlanOf(t, lo, hi) ==
    LET n == Len(EventsOf(t, lo, hi))
        there == At(t, lo, 0)
    IN  IF markers[t] # {} /\ Newest(t).start = lo
          THEN LET base == Newest(t).base
                   landed == Len(At(t, lo, base))
               IN  IF landed <= n
                     THEN [base |-> base, skip |-> landed, trim |-> None, marks |-> landed < n]
                     ELSE [base |-> base, skip |-> n, trim |-> base + n, marks |-> FALSE]
          ELSE [base |-> Len(there), skip |-> 0, trim |-> None, marks |-> n > 0]

Rewound(t, lo) == markers[t] # {} /\ Newest(t).start > lo

\* Whole groups, as many to a transaction as fit.
PackWholeGroups(ts) ==
    [i \in 1..((Len(ts) + PerTxn - 1) \div PerTxn) |->
        SubSeq(ts, (i - 1) * PerTxn + 1, IF i * PerTxn < Len(ts) THEN i * PerTxn ELSE Len(ts))]

Floor == Min({mark[t] : t \in Members})

\* A window may not run past the next watermark above the lowest.
Cap == LET above == {mark[t] : t \in Members} \ {Floor}
       IN  IF above = {} THEN Len(wal) ELSE Min(above)

Drain(r, hi) ==
    /\ client[r].at = "idle" /\ hi \in Floor + 1..Cap
    /\ \A t \in Members : ~Rewound(t, Floor)
    /\ client' = [client EXCEPT ![r] =
                    [at |-> "post", start |-> Floor, end |-> hi, chunks |-> PackWholeGroups(Tables),
                     plan |-> [t \in Members |-> PlanOf(t, Floor, hi)], id |-> @.id + 1, tries |-> 0]]
    /\ UNCHANGED <<wal, log, markers, mark, fence, jobs>>

-----------------------------------------------------------------------------
(* One script as a job.                                                    *)

\* No verdict on the job: asked again under its own id.
SameId(c) == [c EXCEPT !.at = "post", !.tries = @ + 1]

\* The job is DONE and committed nothing: it runs again.
NewId(c) == [c EXCEPT !.at = "post", !.id = @ + 1, !.tries = @ + 1]

\* No answer came: the same id is asked again, so that a script that ran is found by it.
AfterTransport(c) == IF c.tries < MaxTries THEN SameId(c) ELSE [c EXCEPT !.at = "over"]

Known(r) == {j \in jobs : j.run = r /\ j.id = client[r].id}

Job(c, r) ==
    [run |-> r, id |-> c.id, start |-> c.start, end |-> c.end, tables |-> Head(c.chunks),
     plan |-> c.plan, state |-> "pending"]

\* The script is posted, unless a 409 says that its id names a job already.
Posted(r) == IF Known(r) = {} THEN jobs \cup {Job(client[r], r)} ELSE jobs

\* The POST and its answer arrive; a job already there is adopted.
PostHeard(r) ==
    /\ client[r].at = "post"
    /\ jobs' = Posted(r)
    /\ client' = [client EXCEPT ![r].at = "poll"]
    /\ UNCHANGED <<wal, log, markers, mark, fence>>

\* The POST or its answer is lost.
PostUnheard(r) ==
    /\ client[r].at = "post"
    /\ jobs' \in {jobs, Posted(r)}
    /\ client' = [client EXCEPT ![r] = AfterTransport(@)]
    /\ UNCHANGED <<wal, log, markers, mark, fence>>

PollUnheard(r) ==
    /\ client[r].at = "poll"
    /\ client' = [client EXCEPT ![r] = AfterTransport(@)]
    /\ UNCHANGED <<wal, log, markers, mark, fence, jobs>>

\* Thirty minutes and no verdict, even after a cancel: not asked again.
Deadline(r) ==
    /\ client[r].at = "poll" /\ \E j \in Known(r) : j.state = "pending"
    /\ client' = [client EXCEPT ![r].at = "over"]
    /\ UNCHANGED <<wal, log, markers, mark, fence, jobs>>

\* The job is DONE: the next script goes out, or the window is closed; a
\* conflict that committed nothing is run again; a fence that fired ends the
\* run.
Answered(c, state) ==
    IF state = "committed"
      THEN IF Tail(c.chunks) = <<>> THEN [NoClient EXCEPT !.at = "idle", !.id = c.id]
           ELSE [c EXCEPT !.at = "post", !.chunks = Tail(@), !.id = @ + 1, !.tries = 0]
    ELSE IF state = "aborted" /\ c.tries < MaxTries THEN NewId(c)
    ELSE [c EXCEPT !.at = "over"]

Poll(r) ==
    \E j \in Known(r) :
        /\ client[r].at = "poll" /\ j.state # "pending"
        /\ client' = [client EXCEPT ![r] = Answered(@, j.state)]
        /\ UNCHANGED <<wal, log, markers, mark, fence, jobs>>

-----------------------------------------------------------------------------
(* BigQuery runs the scripts.                                              *)

\* One table's statements: trim, marker, rows.
Written(t, j) ==
    LET p == j.plan[t]
        es == EventsOf(t, j.start, j.end)
        kept == IF p.trim = None THEN log[t]
                ELSE SelectSeq(log[t], LAMBDA x : x.lsn # j.start \/ x.seq < p.trim)
    IN  kept \o [i \in 1..Len(es) - p.skip |-> LogRow(j.start, p.base + p.skip + i - 1, es[p.skip + i])]

\* The fence UPDATE finds its row unclaimed.
Owns(j) == fence[j.run] = "open"

\* The marker an attempt leaves: where its window starts and the base its rows are numbered from.
Attempt(j, t) == Marker(j.start, j.plan[t].base)

Settle(j, state) == jobs' = (jobs \ {j}) \cup {[j EXCEPT !.state = state]}

JobCommits(j) ==
    /\ j.state = "pending" /\ Owns(j)
    /\ Settle(j, "committed")
    /\ LET in(t) == t \in ToSet(j.tables)
       IN  /\ log' = [t \in Members |-> IF in(t) THEN Written(t, j) ELSE log[t]]
           /\ markers' = [t \in Members |-> IF in(t) /\ j.plan[t].marks
                                            THEN markers[t] \cup {Attempt(j, t)}
                                            ELSE markers[t]]
           /\ mark' = [t \in Members |-> IF in(t) THEN j.end ELSE mark[t]]
    /\ UNCHANGED <<wal, fence, client>>

\* The fence was claimed or is gone: the transaction rolls back whole.
JobFenced(j) ==
    /\ j.state = "pending" /\ ~Owns(j)
    /\ Settle(j, "lost")
    /\ UNCHANGED <<wal, log, markers, mark, fence, client>>

\* A serialization conflict, a backend error, a cancel: nothing is committed.
JobAborts(j) ==
    /\ j.state = "pending"
    /\ Settle(j, "aborted")
    /\ UNCHANGED <<wal, log, markers, mark, fence, client>>

-----------------------------------------------------------------------------
(* Runs and their fences.                                                  *)

\* The run's end alone frees its tables, whatever became of its fence.
FreeOfRuns(r) == \A q \in RunIds : q # r => fence[q] \in {"none", "gone"} \/ client[q].at = "closed"

\* The lease is taken once nothing of another run is left: its own close or a
\* collector deleted the fence.
Free(r) == \A q \in RunIds : q # r => fence[q] \in {"none", "gone"}

LeaseOpen(r) ==
    /\ client[r].at = "off" /\ fence[r] = "none" /\ Free(r)
    /\ fence' = [fence EXCEPT ![r] = "open"]
    /\ client' = [client EXCEPT ![r].at = "idle"]
    /\ UNCHANGED <<wal, log, markers, mark, jobs>>

\* The run ends: the fence is marked, then deleted; either may fail, and only
\* a deleted one lets the claim go.
CloseRun(r) ==
    /\ client[r].at \in {"idle", "over"} /\ fence[r] = "open"
    /\ \E left \in {"open", "claimed", "gone"} : fence' = [fence EXCEPT ![r] = left]
    /\ client' = [client EXCEPT ![r] = [NoClient EXCEPT !.at = "closed"]]
    /\ UNCHANGED <<wal, log, markers, mark, jobs>>

Die(r) ==
    /\ client[r].at \in {"post", "poll"}
    /\ client' = [client EXCEPT ![r] = [NoClient EXCEPT !.at = "closed"]]
    /\ UNCHANGED <<wal, log, markers, mark, fence, jobs>>

\* A lapsed lease is claimed, its run alive or not: the fence is marked, and
\* deleted after.
LeaseClaim(r) ==
    /\ fence[r] \in {"open", "claimed"}
    /\ fence' = [fence EXCEPT ![r] = IF fence[r] = "open" THEN "claimed" ELSE "gone"]
    /\ UNCHANGED <<wal, log, markers, mark, client, jobs>>

Next ==
    \/ \E r \in RunIds :
           \/ \E hi \in 1..Len(wal) : Drain(r, hi)
           \/ PostHeard(r)
           \/ PostUnheard(r)
           \/ PollUnheard(r)
           \/ Deadline(r)
           \/ Poll(r)
           \/ LeaseOpen(r)
           \/ CloseRun(r)
           \/ Die(r)
           \/ LeaseClaim(r)
    \/ \E j \in jobs : JobCommits(j) \/ JobFenced(j) \/ JobAborts(j)

Spec == Init /\ [][Next]_vars

-----------------------------------------------------------------------------

\* The variables keep their types, and a client polls only a job that exists.
TypeOK ==
    /\ \A t \in Members : mark[t] \in 0..Len(wal)
    /\ \A r \in RunIds : /\ fence[r] \in {"none", "open", "claimed", "gone"}
                       /\ client[r].at = "poll" => Cardinality(Known(r)) = 1
    /\ \A j \in jobs : j.state \in {"pending", "committed", "aborted", "lost"} /\ j.end <= Len(wal)

\* Each table's log, in order, is exactly the source's events up to its
\* watermark: nothing twice, nothing missing, and nothing past it, whatever
\* was lost on the way and however late a script ran.
Exactly ==
    \A t \in Members :
        [i \in DOMAIN log[t] |-> log[t][i].event] = EventsOf(t, 0, mark[t])

\* One script's work is committed by at most one job, however often it was
\* posted.
AtMostOnce ==
    \A i, j \in {j \in jobs : j.state = "committed"} :
        (i.run = j.run /\ i.start = j.start /\ i.tables = j.tables) => i = j

\* No attempt is recorded past the group's lowest watermark: no window would
\* be refused as a rewind.
NeverRewound == \A t \in Members : ~Rewound(t, Floor)
=============================================================================
