---------------------------- MODULE MCClickHouse ----------------------------
(* The ClickHouse destination: a window's program (ChWindow), the fence its     *)
(* statements carry (ChFence), windows in parallel (ChParallel), the rows of    *)
(* the lease table (ChLease), the sweep of a run's scratch (Sweep), and the     *)
(* publish of a bulk load (ChPublish). Each behaviour plays one scenario.       *)
EXTENDS ChLease, Sweep, ChPublish, ChFence, TLC

CONSTANTS c1, c2, k1, k2, m1, m2, n1, n2, lock, mrk, p1, p2, None, Hole, Off

VARIABLES
    which,   \* the scenario a behaviour plays; the other components are Off
    log, hist, reading, tab, journal, windowMark, end, todo, swept, deaths, high, refused,
    ops, next, held, inflight, applied, done, expected, barrier, parallelTab, parallelMark,
    parallelDeaths

leaseVars == vars
windowVars == <<log, hist, reading, tab, journal, windowMark, end, todo, swept, deaths, high,
    refused>>
parallelVars == <<ops, next, held, inflight, applied, done, expected, barrier, parallelTab,
    parallelMark, parallelDeaths>>
suiteVars == <<which, leaseVars, windowVars, fenceVars, parallelVars, sweepVars, publishVars>>

Symmetry == Permutations({k1, k2}) \cup Permutations({m1, m2}) \cup Permutations({p1, p2})
TwoCollectors == {c1, c2}
OneTableOrTwo == (SUBSET {m1, m2}) \ {{}}
OneServerOrTwo == [plain |-> {n1}, engine |-> {n1}, cluster |-> {n1, n2}]

Plain == INSTANCE ChWindow WITH Keys <- {k1, k2}, Deferred <- FALSE, InsertOnly <- FALSE,
    Moves <- TRUE, Sooner <- TRUE, MaxEvents <- 3, MaxDeaths <- 2, mark <- windowMark
Versions == INSTANCE ChWindow WITH Keys <- {k1, k2}, Deferred <- FALSE, InsertOnly <- TRUE,
    Moves <- TRUE, Sooner <- FALSE, MaxEvents <- 3, MaxDeaths <- 2, mark <- windowMark
Sooner == INSTANCE ChWindow WITH Keys <- {k1, k2}, Deferred <- FALSE, InsertOnly <- TRUE,
    Moves <- FALSE, Sooner <- TRUE, MaxEvents <- 3, MaxDeaths <- 2, mark <- windowMark
Parallel == INSTANCE ChParallel WITH Keys <- {"a", "b"}, Total <- 4, Depth <- 2, MaxDeaths <- 1,
    tab <- parallelTab, mark <- parallelMark, deaths <- parallelDeaths

\* The scenarios respect what each component asks of its constants.
ASSUME ScenarioConstants == Plain!ChWindowAssumption /\ Versions!ChWindowAssumption /\
    Sooner!ChWindowAssumption /\ Parallel!ChParallelAssumption /\ SweepAssumption /\
    FenceAssumption

LeaseOff == rows = {} /\ now = 1 /\ ttl = FALSE /\ owner = "new" /\
    col = [c \in Collectors |-> "idle"] /\ claims = {}
WindowOff == log = Off /\ hist = Off /\ reading = Off /\ tab = Off /\ journal = Off /\
    windowMark = Off /\ end = Off /\ todo = Off /\ swept = Off /\ deaths = Off /\ high = Off /\
    refused = Off
FenceOff == members = {} /\ clock = Off /\ exp = Off /\ taken = Off /\ mark = Off /\
    win = Off /\ phase = Off /\ e0 = Off /\ owed = Off /\ cache = Off /\ parts = Off /\
    lost = Off /\ sent = Off /\ landed = Off /\ group = Off
ParallelOff == ops = Off /\ next = Off /\ held = Off /\ inflight = Off /\ applied = Off /\
    done = Off /\ expected = Off /\ barrier = Off /\ parallelTab = Off /\ parallelMark = Off /\
    parallelDeaths = Off
SweepOff == marks = {} /\ key = Off /\ tmp = Off /\ made = Off /\ del = "none" /\ lease = Off /\
    at = [s \in Sweepers |-> Off] /\ bad = Off /\ faults = Off /\ deletes = Off
PublishOff == layout = "plain" /\ db = Before(Absent) /\ publish = Off /\ unsent = Off /\
    body = Off /\ outages = Off /\ crashed = Off /\ kept = Off

LeaseInit == which = "lease" /\ Init
WindowInit ==
    \/ which = "plain" /\ Plain!Init
    \/ which = "versions" /\ Versions!Init
    \/ which = "sooner" /\ Sooner!Init
TimeFenceInit == which = "fence" /\ FenceInit
ParallelInit == which = "parallel" /\ Parallel!Init
ScratchInit == which = "sweep" /\ SweepInit
SwapInit == which = "swap" /\ PublishInit

SuiteInit ==
    \/ LeaseInit /\ WindowOff /\ FenceOff /\ ParallelOff /\ SweepOff /\ PublishOff
    \/ WindowInit /\ LeaseOff /\ FenceOff /\ ParallelOff /\ SweepOff /\ PublishOff
    \/ TimeFenceInit /\ LeaseOff /\ WindowOff /\ ParallelOff /\ SweepOff /\ PublishOff
    \/ ParallelInit /\ LeaseOff /\ WindowOff /\ FenceOff /\ SweepOff /\ PublishOff
    \/ ScratchInit /\ LeaseOff /\ WindowOff /\ FenceOff /\ ParallelOff /\ PublishOff
    \/ SwapInit /\ LeaseOff /\ WindowOff /\ FenceOff /\ ParallelOff /\ SweepOff

LeaseNext == which = "lease" /\ Next
WindowNext ==
    \/ which = "plain" /\ Plain!Next
    \/ which = "versions" /\ Versions!Next
    \/ which = "sooner" /\ Sooner!Next
TimeFenceNext == which = "fence" /\ FenceNext
ParallelNext == which = "parallel" /\ Parallel!Next
ScratchNext == which = "sweep" /\ SweepNext
SwapNext == which = "swap" /\ PublishNext

SuiteNext ==
    \/ LeaseNext /\ UNCHANGED <<which, windowVars, fenceVars, parallelVars, sweepVars, publishVars>>
    \/ WindowNext /\ UNCHANGED <<which, leaseVars, fenceVars, parallelVars, sweepVars, publishVars>>
    \/ TimeFenceNext /\ UNCHANGED <<which, leaseVars, windowVars, parallelVars, sweepVars, publishVars>>
    \/ ParallelNext /\ UNCHANGED <<which, leaseVars, windowVars, fenceVars, sweepVars, publishVars>>
    \/ ScratchNext /\ UNCHANGED <<which, leaseVars, windowVars, fenceVars, parallelVars, publishVars>>
    \/ SwapNext /\ UNCHANGED <<which, leaseVars, windowVars, fenceVars, parallelVars, sweepVars>>

SuiteSpec == SuiteInit /\ [][SuiteNext]_suiteVars

-----------------------------------------------------------------------------
\* Once a window that reaches as far as every attempt has committed, the table shows the
\* source at its mark, whatever dead attempts had left, in both shapes of the table; and
\* such a window is never refused, because each journal entry a replay may use is the row
\* the source had (apply_window, the residue journal; dest_ch.rs). Windows
\* applied in parallel and settled out of order leave each key at its newest window and
\* the mark at a closed prefix, and one reads a row back only as the window before it left
\* it (apply_windows_parallel, the barrier; run.rs).
Converged ==
    /\ which = "plain" => Plain!Converged /\ Plain!OneRowPerKey /\ Plain!NeverRefused
    /\ which = "versions" => Versions!Converged /\ Versions!NeverRefused /\ Versions!JournalTrue
    /\ which = "sooner" => Sooner!Converged
    /\ which = "parallel" => Parallel!Converges /\ Parallel!ReadsInOrder
=============================================================================
