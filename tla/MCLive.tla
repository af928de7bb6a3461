------------------------------- MODULE MCLive -------------------------------
(* Everything ends: runs of a group (Replica), a pass of the drain (Drain), a *)
(* load's crew (Crew), the tables of run_many (Budget), a DataFrame read      *)
(* (ReadHandle), the clean-up after a dead run (Sweep), taking a table from   *)
(* the dead (Tenure), a replication session (WalStream). Each behaviour plays *)
(* one scenario.                                                              *)
EXTENDS Naturals, Integers, Sequences

CONSTANTS g1, r1, r2, p1, p2, x1, x2, b1, b2, b3, w1, w2, lock, mrk, q1, d1, d2, NoRun, Nil, Off

VARIABLES
    which,   \* the scenario a behaviour plays; the other components are Off
    wal, slot, using, mark, held, twice, owner, pc, cur, tried, bad, loading, floors, from, stop,
    queue, pending, applied, task,
    drainWal, schema, tx, session, sent, streamed, shipped, undone, decoded, wire, announced,
    inStream, txBuf, relayout, body, layout, start, end, drainStop, streams, streamBytes, carry,
    watermark, drainApplied,
    load, latch, crewQueue, crewPc, crewCur, out, first, outcome, chan, crewTx, handle, crewTask,
    copy, staging, joined, cause, lost, sawCancel, target,
    v2, v1, cost, shape, auto, est, jobs, free, budgetQueue, budgetHeld, st,
    todo, handleCur, acc, wst, handleLatch, handleChan, sup, completed, cst, got, faults,
    marks, key, tmp, keyMade, del, lease, sweepAt, sweepBad, sweepFaults, deletes,
    tenurePc, catalog, tenureLease, made, checked, tab, seen, victim, failed, kept, unit, evicted,
    version, want, walPc, binary, alive, sock, walSent, received, quiet, wait, busy, asked,
    reported, walApplied, confirmed

replicaVars == <<wal, slot, using, mark, held, twice, owner, pc, cur, tried, bad, loading,
    floors, from, stop, queue, pending, applied, task>>
drainVars == <<drainWal, schema, tx, session, sent, streamed, shipped, undone, decoded, wire,
    announced, inStream, txBuf, relayout, body, layout, start, end, drainStop, streams,
    streamBytes, carry, watermark, drainApplied>>
crewVars == <<load, latch, crewQueue, crewPc, crewCur, out, first, outcome, chan, crewTx, handle,
    crewTask, copy, staging, joined, cause, lost, sawCancel, target>>
budgetVars == <<v2, v1, cost, shape, auto, est, jobs, free, budgetQueue, budgetHeld, st>>
handleVars == <<todo, handleCur, acc, wst, handleLatch, handleChan, sup, completed, cst, got,
    faults>>
sweepVars == <<marks, key, tmp, keyMade, del, lease, sweepAt, sweepBad, sweepFaults, deletes>>
tenureVars == <<tenurePc, catalog, tenureLease, made, checked, tab, seen, victim, failed, kept,
    unit, evicted>>
walVars == <<version, want, walPc, binary, alive, sock, walSent, received, quiet, wait, busy,
    asked, reported, walApplied, confirmed>>
vars == <<which, replicaVars, drainVars, crewVars, budgetVars, handleVars, sweepVars, tenureVars,
    walVars>>

Parquet == [reserve |-> 2, chunks |-> 1, fixed |-> 1, perRowGroup |-> 1]

Group == INSTANCE Replica WITH Runs <- {r1, r2}, Tables <- {g1}, Depth <- 1, MaxWal <- 2,
    Faults <- {"stream", "unit", "load", "source"}
Pass == INSTANCE Drain WITH None <- Nil, Txs <- {x1, x2}, Subs <- {0}, MaxOps <- 1,
    MaxWal <- 3, Schemas <- 1, Cols <- <<2>>, AlterInside <- FALSE, Budget <- 2, TxLimit <- 2, Follow <- FALSE,
    wal <- drainWal, stop <- drainStop, applied <- drainApplied
Workers2 == INSTANCE Crew WITH Workers <- {1, 2}, Spans <- {p1, p2}, Chunk <- 1, Slots <- 1,
    MayPanic <- FALSE, queue <- crewQueue, pc <- crewPc, cur <- crewCur, tx <- crewTx,
    task <- crewTask
Pipes == INSTANCE Budget WITH None <- Nil, Tables <- {b1, b2, b3}, FatChunk <- 2, ThinChunk <- 1,
    Ladder <- <<2, 1>>, Costs <- {Parquet}, Limits <- {4, 9}, Asks <- {3}, Explicits <- {},
    Estimates <- {-1, 4}, TableCap <- 2, RowsPerPipe <- 2, MaxSpans <- 3, queue <- budgetQueue,
    held <- budgetHeld
Read == INSTANCE ReadHandle WITH Workers <- {w1, w2}, SpanRows <- <<2, 1>>, SealRows <- 2,
    Cap <- 1, MaxFaults <- 1, cur <- handleCur, latch <- handleLatch, chan <- handleChan
Scratch == INSTANCE Sweep WITH Markers <- {lock, mrk}, Peers <- {q1}, MaxFaults <- 3,
    MaxDeletes <- 1, made <- keyMade, at <- sweepAt, bad <- sweepBad, faults <- sweepFaults
Claims == INSTANCE Tenure WITH Runs <- {d1, d2}, Tables <- {g1},
    Kind <- [r \in {d1, d2} |-> "Cdc"], Source <- [r \in {d1, d2} |-> 1],
    Targets <- [r \in {d1, d2} |-> {g1}], Parent <- [r \in {d1, d2} |-> NoRun],
    Faults <- {}, pc <- tenurePc, lease <- tenureLease
Stream == INSTANCE WalStream WITH None <- Nil, Silence <- 3, Latency <- 1, DrainMax <- 2,
    Versions <- {"v2"}, MaxFrames <- 1, MaxBusy <- 4, pc <- walPc, sent <- walSent, applied <- walApplied

\* The scenarios respect what each component asks of its constants.
ASSUME ScenarioConstants == Pass!DrainAssumption /\ Workers2!CrewAssumption
    /\ Claims!RunsAssumption /\ Claims!LineageAssumption
    /\ Stream!WalStreamAssumption /\ Stream!AnswersInTime

ReplicaOff == wal = Off /\ slot = Off /\ using = Off /\ mark = Off /\ held = Off /\
    twice = Off /\ owner = Off /\ pc = Off /\ cur = Off /\ tried = Off /\ bad = Off /\
    loading = Off /\ floors = Off /\ from = Off /\ stop = Off /\ queue = Off /\ pending = Off /\
    applied = Off /\ task = Off
DrainOff == drainWal = Off /\ schema = Off /\ tx = Off /\ session = Off /\ sent = Off /\
    streamed = Off /\ shipped = Off /\ undone = Off /\ decoded = Off /\ wire = Off /\
    announced = Off /\ inStream = Off /\ txBuf = Off /\ relayout = Off /\ body = Off /\
    layout = Off /\ start = Off /\ end = Off /\ drainStop = Off /\ streams = Off /\
    streamBytes = Off /\ carry = Off /\ watermark = Off /\ drainApplied = Off
CrewOff == load = Off /\ latch = Off /\ crewQueue = Off /\ crewPc = Off /\ crewCur = Off /\
    out = Off /\ first = Off /\ outcome = Off /\ chan = Off /\ crewTx = Off /\ handle = Off /\
    crewTask = Off /\ copy = Off /\ staging = Off /\ joined = Off /\ cause = Off /\ lost = Off /\
    sawCancel = Off /\ target = Off
BudgetOff == v2 = Off /\ v1 = Off /\ cost = Off /\ shape = Off /\ auto = Off /\ est = Off /\
    jobs = Off /\ free = Off /\ budgetQueue = Off /\ budgetHeld = Off /\ st = Off
HandleOff == todo = Off /\ handleCur = Off /\ acc = Off /\ wst = Off /\ handleLatch = Off /\
    handleChan = Off /\ sup = Off /\ completed = Off /\ cst = Off /\ got = Off /\ faults = Off
SweepOff == marks = Off /\ key = Off /\ tmp = Off /\ keyMade = Off /\ del = Off /\ lease = Off /\
    sweepAt = Off /\ sweepBad = Off /\ sweepFaults = Off /\ deletes = Off
TenureOff == tenurePc = Off /\ catalog = Off /\ tenureLease = Off /\ made = Off /\
    checked = Off /\ tab = Off /\ seen = Off /\ victim = Off /\ failed = Off /\ kept = Off /\
    unit = Off /\ evicted = Off
WalOff == version = Off /\ want = Off /\ walPc = Off /\ binary = Off /\ alive = Off /\
    sock = Off /\ walSent = Off /\ received = Off /\ quiet = Off /\ wait = Off /\ busy = Off /\
    asked = Off /\ reported = Off /\ walApplied = Off /\ confirmed = Off

ReplicaInit == which = "group" /\ Group!Init
DrainInit == which = "pass" /\ Pass!Init
CrewInit == which = "crew" /\ Workers2!Init
BudgetInit == which = "budget" /\ Pipes!Init
HandleInit == which = "read" /\ Read!Init
SweepInit == which = "sweep" /\ Scratch!SweepInit
TenureInit == which = "claim" /\ Claims!Init
WalInit == which = "wal" /\ Stream!Init

\* Every component but the one named is off.
AllOff(but) ==
    /\ but # "group" => ReplicaOff
    /\ but # "pass" => DrainOff
    /\ but # "crew" => CrewOff
    /\ but # "budget" => BudgetOff
    /\ but # "read" => HandleOff
    /\ but # "sweep" => SweepOff
    /\ but # "claim" => TenureOff
    /\ but # "wal" => WalOff

Init ==
    \/ ReplicaInit /\ AllOff("group")
    \/ DrainInit /\ AllOff("pass")
    \/ CrewInit /\ AllOff("crew")
    \/ BudgetInit /\ AllOff("budget")
    \/ HandleInit /\ AllOff("read")
    \/ SweepInit /\ AllOff("sweep")
    \/ TenureInit /\ AllOff("claim")
    \/ WalInit /\ AllOff("wal")

ReplicaNext == which = "group" /\ Group!Next
DrainNext == which = "pass" /\ Pass!Next
CrewNext == which = "crew" /\ Workers2!Next
BudgetNext == which = "budget" /\ Pipes!Next
HandleNext == which = "read" /\ Read!Next
SweepNext == which = "sweep" /\ Scratch!SweepNext
TenureNext == which = "claim" /\ Claims!Next
WalNext == which = "wal" /\ Stream!Next

\* Every component but the one named is left alone.
AllRest(but) ==
    /\ UNCHANGED which
    /\ but # "group" => UNCHANGED replicaVars
    /\ but # "pass" => UNCHANGED drainVars
    /\ but # "crew" => UNCHANGED crewVars
    /\ but # "budget" => UNCHANGED budgetVars
    /\ but # "read" => UNCHANGED handleVars
    /\ but # "sweep" => UNCHANGED sweepVars
    /\ but # "claim" => UNCHANGED tenureVars
    /\ but # "wal" => UNCHANGED walVars

Next ==
    \/ ReplicaNext /\ AllRest("group")
    \/ DrainNext /\ AllRest("pass")
    \/ CrewNext /\ AllRest("crew")
    \/ BudgetNext /\ AllRest("budget")
    \/ HandleNext /\ AllRest("read")
    \/ SweepNext /\ AllRest("sweep")
    \/ TenureNext /\ AllRest("claim")
    \/ WalNext /\ AllRest("wal")

Spec == Init /\ [][Next]_vars

\* What the runtime and the servers owe: a task that can go on is polled, a request is
\* answered or fails. No fault is owed, and nobody has to start a run, except that someone
\* comes to a table a dead run left (Collect).
ReplicaFair(r) ==
    /\ WF_replicaVars(which = "group" /\ Group!Work(r))
    /\ WF_replicaVars(which = "group" /\ Group!Apply(r))
DrainFair ==
    /\ WF_drainVars(which = "pass" /\ Pass!Deliver)
    /\ WF_drainVars(which = "pass" /\ Pass!TakeCarry)
    /\ WF_drainVars(which = "pass" /\ Pass!CaughtUp)
CrewFair ==
    /\ WF_crewVars(which = "crew" /\ Workers2!OpenStep)
    /\ WF_crewVars(which = "crew" /\ Workers2!LoadStep)
    /\ \A w \in {1, 2} : /\ WF_crewVars(which = "crew" /\ Workers2!WorkerStep(w))
                        /\ WF_crewVars(which = "crew" /\ Workers2!TaskStep(w))
BudgetFair(t) ==
    /\ WF_budgetVars(which = "budget" /\ Pipes!Ask(t))
    /\ WF_budgetVars(which = "budget" /\ \E n \in 1..3 : Pipes!Resize(t, n))
    /\ WF_budgetVars(which = "budget" /\ Pipes!Done(t))
HandleFair ==
    /\ \A w \in {w1, w2} : WF_handleVars(which = "read" /\ Read!Step(w))
    /\ WF_handleVars(which = "read" /\ Read!Supervise)
    /\ WF_handleVars(which = "read" /\ (Read!Pull \/ Read!EndOfChannel))
SweepFair ==
    /\ WF_sweepVars(which = "sweep" /\ Scratch!Mutation)
    /\ WF_sweepVars(which = "sweep" /\ Scratch!LapsesUnkept)
    /\ WF_sweepVars(which = "sweep" /\ Scratch!Collect(q1))
    /\ \A s \in Scratch!Sweepers : WF_sweepVars(which = "sweep" /\ Scratch!Sweeps(s))
TenureFair(r) ==
    /\ WF_tenureVars(which = "claim" /\ Claims!Work(r))
    /\ WF_tenureVars(which = "claim" /\ Claims!BeginRelease(r))
    /\ WF_tenureVars(which = "claim" /\ \E ok \in BOOLEAN : Claims!UnitStep(r, g1, ok))
WalFair ==
    /\ WF_walVars(which = "wal" /\ Stream!Client)
    /\ WF_walVars(which = "wal" /\ Stream!Tick)
    /\ WF_walVars(which = "wal" /\ Stream!Answer)

Fairness ==
    /\ \A r \in {r1, r2} : ReplicaFair(r)
    /\ \A t \in {b1, b2, b3} : BudgetFair(t)
    /\ \A r \in {d1, d2} : TenureFair(r)
    /\ DrainFair /\ CrewFair /\ HandleFair /\ SweepFair /\ WalFair

FairSpec == Spec /\ Fairness

-----------------------------------------------------------------------------
\* The n-th actor of a scenario has begun what it must end, and has ended it. (A scenario
\* with one actor has it under both numbers.)
Begun(n) ==
    CASE which = "group" -> Group!Running(<<r1, r2>>[n])
      [] which = "pass" -> session
      [] which = "claim" -> Claims!Running(<<d1, d2>>[n])
      [] which = "wal" -> ~alive
      [] OTHER -> FALSE
Ended(n) == IF which = "wal" THEN Stream!Over ELSE ~Begun(n)

\* Every run of a group and every pass of its drain ends: the drain never waits for an
\* apply task that is gone, nor the task for a channel nobody closes (drain_loop,
\* wait_for_apply, run_overlapped), and an open transaction does not hold a pass. A run
\* that takes its tables or is refused ends too (nobody waits for a peer; release waits
\* only for units that close), and a replication session whose path has died in silence
\* is found out (FrameScanner::refill, stop_replication).
RunsEnd == \A n \in {1, 2} : Begun(n) ~> Ended(n)

\* Every load of a crew ends, and every table of run_many ends in a result of its own:
\* no worker waits for a sender task that has ended, no table for permits that a waiter
\* holds (join_all, abort, Semaphore grants). A read ends for its consumer, and when the
\* consumer stops, by choice or by an error, so do the producers that wait for room in
\* the channel (Drop for ReadHandle, cancel).
LoadsEnd ==
    /\ \A t \in {b1, b2, b3} :
          <>(CASE which = "crew" -> load \in {"ok", "failed"}
               [] which = "budget" -> st[t] \in {"ok", "error"}
               [] which = "read" -> cst # "pull"
               [] OTHER -> TRUE)
    /\ (which = "read" /\ cst # "pull")
          ~> (which = "read" => Read!Running = {} /\ sup \in {"done", "aborted"})

\* The n-th actor meets what a dead run left; it is gone, or no longer in the actor's way.
Meets(n) ==
    CASE which = "sweep" -> sweepAt[Scratch!Owner] \in Scratch!Gone
      [] which = "claim" -> LET r == <<d1, d2>>[n]
                            IN  tenurePc[r] = "announce" /\ Claims!AloneWithTheDead(r)
      [] OTHER -> FALSE
Past(n) ==
    CASE which = "sweep" -> marks = {} /\ key # "own" /\ tmp # "own" /\ del = "none"
      [] which = "claim" -> LET r == <<d1, d2>>[n]
                            IN  tenurePc[r] \in {"hold", "dead"} \/ ~Claims!AloneWithTheDead(r)
      [] OTHER -> TRUE

\* What a dead ClickHouse run made before its claim was taken is cleared in the end, marker by
\* marker, by whoever meets it, also when its own sweep or a collector's failed or died half
\* way (lease_claim, sweep_run).
\* Dead drains never wedge a table: a run that announces itself among their leftovers, those of
\* a collector that died half way included, reaches the table (check_peers, lease_claim).
DeadAreCleared == \A n \in {1, 2} : Meets(n) ~> Past(n)
=============================================================================
