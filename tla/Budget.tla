------------------------------- MODULE Budget --------------------------------
(***************************************************************************)
(* Many tables through one pipe budget (run_many and Grant of              *)
(* pipeline/mod.rs), the budget fitted to the memory limit the kernel      *)
(* enforces (knobs, fit, explicit, cgroup_limit_from_proc).                *)
(*                                                                         *)
(* Sizes are in small units.  The semaphore is tokio's: FIFO, a waiter     *)
(* takes what is free when it queues and what is released afterwards.      *)
(***************************************************************************)
EXTENDS Planning, Sequences, SequencesExt, FiniteSetsExt

CONSTANTS
    Tables,
    None,                        \* model value: no limit, no pin, no parallel=
    FatChunk, ThinChunk,         \* DEFAULT_CHUNK, THIN_CHUNK
    Ladder,                      \* RowGroup::LADDER, largest first
    Costs, Limits, Asks, Explicits, Estimates,
    TableCap,                    \* Profile::table_pipe_cap
    RowsPerPipe, MaxSpans

VARIABLES
    v2, v1,      \* the limit at each cgroup level, own level first, of each hierarchy
    cost, shape, auto,
    est,         \* estimated rows, -1 unknown
    jobs,        \* tables still to be polled, largest first
    free, queue, held, st

vars == <<v2, v1, cost, shape, auto, est, jobs, free, queue, held, st>>
plan == <<v2, v1, cost, shape, auto, est>>

-----------------------------------------------------------------------------
\* The memory limit.

Least(S) == CHOOSE x \in S : \A y \in S : x <= y

\* The smallest limit on the path to the root.
SmallestUp(levels) ==
    LET set == Range(levels) \ {None} IN IF set = {} THEN None ELSE Least(set)

\* Mutant: a unified hierarchy without a limit is the answer.
UnifiedOnly(u, m) == SmallestUp(u)

\* cgroup v2 first; one that sets no limit falls through to v1.
MemLimit(u, m) == IF SmallestUp(u) # None THEN SmallestUp(u) ELSE SmallestUp(m)

\* What the kernel enforces: the memory controller is attached to one of the two.
Enforced == LET set == (Range(v2) \cup Range(v1)) \ {None}
            IN IF set = {} THEN None ELSE Least(set)

-----------------------------------------------------------------------------
\* The shape.

Rungs(c) == IF c.perRowGroup > 0 THEN Ladder ELSE <<Ladder[1]>>
Smallest(c) == Last(Rungs(c))

\* The largest rung that pays for `pipes`, else the smallest there is.
LargestRung(c, chunk, pipes, mem) ==
    LET ok == SelectSeq(Rungs(c), LAMBDA rg : Allowed(c, chunk, rg, mem) >= pipes)
    IN IF ok = <<>> THEN Smallest(c) ELSE Head(ok)

Candidates(c) ==
    FlattenSeq([i \in 1..2 |->
        [j \in 1..Len(Rungs(c)) |->
            [chunk |-> <<FatChunk, ThinChunk>>[i], rg |-> Rungs(c)[j]]]])

\* fit: fat before thin, large row groups before small; only strictly more pipes
\* replace the best; one pipe takes the fat chunk and the largest rung it fits.
Fit(ask, mem, c) ==
    IF mem = None THEN [chunk |-> FatChunk, rg |-> Ladder[1], pipes |-> ask]
    ELSE LET best == FoldLeft(LAMBDA b, x :
                 IF Score(c, ask, mem, x.chunk, x.rg) > b.pipes
                 THEN [chunk |-> x.chunk, rg |-> x.rg,
                       pipes |-> Score(c, ask, mem, x.chunk, x.rg)]
                 ELSE b,
               [chunk |-> FatChunk, rg |-> Ladder[1], pipes |-> 0], Candidates(c))
         IN IF best.pipes > 1 THEN best
            ELSE [chunk |-> FatChunk, rg |-> LargestRung(c, FatChunk, 1, mem), pipes |-> 1]

\* explicit: parallel= is never overridden, only its row group shrinks.
Explicit(p, mem, c) ==
    [chunk |-> FatChunk, pipes |-> p,
     rg |-> IF mem = None THEN Ladder[1] ELSE LargestRung(c, FatChunk, p, mem)]

Knobs(par, ask, mem, c) == IF par = None THEN Fit(ask, mem, c) ELSE Explicit(par, mem, c)

-----------------------------------------------------------------------------
\* The semaphore (external).

\* `n` permits are released: the front waiters take them first.
Give(q, n) ==
    FoldLeft(LAMBDA a, w :
        LET take == IF a.left < w.need THEN a.left ELSE w.need
        IN [left |-> a.left - take,
            q |-> IF take < w.need THEN Append(a.q, [w EXCEPT !.need = @ - take]) ELSE a.q,
            woken |-> IF take = w.need THEN a.woken \cup {w.t} ELSE a.woken],
      [left |-> n, q |-> <<>>, woken |-> {}], q)

-----------------------------------------------------------------------------
\* The tables.

Budgeted == shape.pipes

\* desired_pipes
Desired(t) ==
    LET cap == AtLeastOne(IF Budgeted < TableCap THEN Budgeted ELSE TableCap)
        n == est[t] \div RowsPerPipe
    IN IF est[t] < 0 \/ n > cap THEN cap ELSE AtLeastOne(n)

\* Grant::acquire, in the order of the sorted jobs.
Ask(t) ==
    /\ jobs # <<>> /\ t = Head(jobs)
    /\ jobs' = Tail(jobs)
    /\ LET take == IF free < Desired(t) THEN free ELSE Desired(t)
       IN /\ free' = free - take
          /\ held' = [held EXCEPT ![t] = Desired(t)]
          /\ IF take = Desired(t)
             THEN st' = [st EXCEPT ![t] = "granted"] /\ UNCHANGED queue
             ELSE /\ st' = [st EXCEPT ![t] = "waiting"]
                  /\ queue' = Append(queue, [t |-> t, need |-> Desired(t) - take])
    /\ UNCHANGED plan

\* Grant::resize to the real span count: excess goes back at once, a shortfall
\* takes what is free now and no more.
Resize(t, n) ==
    LET target == IF n < Budgeted THEN n ELSE Budgeted IN
    /\ st[t] = "granted"
    /\ IF target <= held[t]
       THEN /\ LET g == Give(queue, held[t] - target)
               IN /\ queue' = g.q
                  /\ free' = free + g.left
                  /\ st' = [x \in Tables |-> IF x = t THEN "stream"
                                             ELSE IF x \in g.woken THEN "granted" ELSE st[x]]
            /\ held' = [held EXCEPT ![t] = target]
       ELSE LET more == target - held[t]
                take == IF free < more THEN free ELSE more
            IN /\ free' = free - take
               /\ held' = [held EXCEPT ![t] = @ + take]
               /\ st' = [st EXCEPT ![t] = "stream"]
               /\ UNCHANGED queue
    /\ UNCHANGED <<plan, jobs>>

Ends(t, how) ==
    LET g == Give(queue, held[t])
    IN /\ queue' = g.q
       /\ free' = free + g.left
       /\ held' = [held EXCEPT ![t] = 0]
       /\ st' = [x \in Tables |-> IF x = t THEN how
                                  ELSE IF x \in g.woken THEN "granted" ELSE st[x]]
       /\ UNCHANGED <<plan, jobs>>

\* The load ends and its grant is dropped.
Done(t) == st[t] = "stream" /\ Ends(t, "ok")

\* An error or a panic of one table, before or after its spans are known.
Fails(t) == st[t] \in {"granted", "stream"} /\ Ends(t, "error")

-----------------------------------------------------------------------------
Rank(t) == IF est[t] < 0 THEN RowsPerPipe * 1000 ELSE est[t]

Init ==
    /\ v2 \in [1..2 -> Limits \cup {None}]
    /\ v1 \in [1..2 -> Limits \cup {None}]
    /\ (\A i \in 1..2 : v2[i] = None) \/ (\A i \in 1..2 : v1[i] = None)
    /\ cost \in Costs
    /\ \E par \in Explicits \cup {None}, ask \in Asks :
          /\ auto = (par = None)
          /\ shape = Knobs(par, ask, MemLimit(v2, v1), cost)
    /\ est \in [Tables -> Estimates]
    /\ jobs = SetToSortSeq(Tables, LAMBDA a, b : Rank(a) > Rank(b))
    /\ free = shape.pipes
    /\ queue = <<>>
    /\ held = [t \in Tables |-> 0]
    /\ st = [t \in Tables |-> "new"]

Next == \E t \in Tables :
            \/ Ask(t)
            \/ \E n \in 1..MaxSpans : Resize(t, n)
            \/ Done(t)
            \/ Fails(t)

\* Every table's future is polled, and a stream comes to an end.
Fairness == \A t \in Tables :
                /\ WF_vars(Ask(t))
                /\ WF_vars(\E n \in 1..MaxSpans : Resize(t, n))
                /\ WF_vars(Done(t))

Spec == Init /\ [][Next]_vars /\ Fairness

-----------------------------------------------------------------------------
Running == {t \in Tables : st[t] \in {"granted", "stream"}}
Pipes(S) == MapThenSumSet(LAMBDA t : held[t], S)
Partly(i) == held[queue[i].t] - queue[i].need

TypeOK ==
    /\ free \in 0..Budgeted
    /\ \A t \in Tables : held[t] \in 0..Budgeted
    /\ \A i \in 1..Len(queue) : queue[i].need \in 1..held[queue[i].t]

\* Whatever is in flight, an automatic plan of more than one pipe stays under the
\* limit the kernel enforces, on every level and in either hierarchy: "peak memory
\* is the single-table ceiling, no matter how many tables are in flight".
Peak ==
    (auto /\ Enforced # None /\ shape.pipes > 1) =>
        ModelPeak(cost, shape.chunk, shape.rg, Pipes(Running)) <= Enforced

\* Permits are neither lost nor made: what runs, what waiters already took and what
\* is free is the budget, and nothing is free while someone waits.
Conserved ==
    /\ free + Pipes(Running)
         + MapThenSumSet(LAMBDA i : Partly(i), 1..Len(queue)) = Budgeted
    /\ queue # <<>> => free = 0

=============================================================================
