# apitap: verification project

TLA+ models of the parts of apitap that decide whether a destination table is
right: who may write it, how a change-data-capture run keeps it in step with its
source, how a bulk load is read, staged and published, through failures, crashes,
lost answers and competing runs. TLC checks the models on small instances; TLAPS
proves the core for every instance: who owns a table, what a replicated group's
watermarks, slot and tables say of each other, the fences and sweeps of two more
destinations, the replication connection and its login, the planner's arithmetic.

Paths are relative to `crates/apitap-core/src/` unless they start elsewhere.
`PROJECT.json` maps every modelling definition to the lines it stands for, lists the
hazards of the code with the properties aimed at them, and a mutant of the model for
every property.

## 1. The system

apitap moves tables between databases. A *bulk load* copies one table into a
staging object and publishes it (`replace`), appends it or merges it. A *log_based*
run replicates a *group* of tables: the first run creates a replication slot (or
notes a binlog position), loads every table and writes a watermark; every later run
drains the log from the watermark to now, applies it and ends. Nothing runs between
runs. All coordination between processes happens in the destination, through object
names and lease rows.

| Component | State | Operations | Hard because |
|---|---|---|---|
| Guard (`guard.rs`, `naming.rs`) | marker objects named by run token and table | `announce`, `check_peers`, `release` | every statement is separate; runs announce, scan and die at any point |
| Lease, keeper, tenure (`lease.rs`) | one lease row per run and table; the keeper task; the units' lock | `acquire_every`, `open`/`close`, `release`, `give_back`, renewals | a slow owner and its collector meet on one row |
| Group lifecycle (`logbased/run.rs`) | the slot, a watermark per member | `run_group`, `bootstrap_group`, `drain_group`, `apply_windows` | slot and watermarks are in two databases; members fail one by one |
| Replication connection (`wire/walsender.rs`) | session, silence clock, reported position | login, `START_REPLICATION`, keepalives, `stop` | half-open connections; what may be confirmed |
| Window drain (`logbased/drain.rs`, `window.rs`) | streamed transactions, body, layout, carry | `drain_window` | interleaved transactions, savepoints, layout changes, deadlines |
| Collapse and apply (`collapse.rs`, `resolve.rs`, `dest_*.rs`) | a slot per key, the ordered tail | `Collapser`, `resolve_window`, four applies | key moves, reused keys, TOASTed cells, windows met again |
| Changelog and replay (`changelog.rs`, `replay.rs`) | markers, sequence numbers, memo | `replay_plan` | rows and watermark are two round trips |
| MySQL source (`myrun.rs`, `mysource.rs`, `wire/mybinlog.rs`) | file and position, server identity, table ids | `run_group_mysql`, `drain_binlog` | no slot holds the log; DDL; failover |
| ClickHouse destination (`dest_ch.rs`, `sink/clickhouse.rs`) | lease versions, residue journal, scratch | windows, fence, `sweep_run`, `finalize` | no transactions; nothing rolls back |
| BigQuery, Iceberg, MySQL destinations | fence table; snapshots; row locks | `commit_group`; `commit_with_retry`; `owned_ddl` | jobs and commits that land after their run ended |
| Bulk pipeline (`pipeline/`, `pipe.rs`, `plan.rs`) | span queue, latch, loaders, permits, watermark rows | `run`, `run_many`, `join_all`, `resolve_watermark` | the first error must stop and join every sibling |
| Object stores (`sink/s3.rs`, `sink/gcs.rs`) | parts, uploads, generations | `put_chunk`, `finalize`, `discard` | no rename; each copy may fail or lose its answer |
| Reads (`source/`, `read.rs`, `read_impl.rs`) | statements, snapshot, channel | `plan_read`, `run_workers`, `ReadHandle` | the table moves between two statements; a consumer may stop |
| Value text (`dialect/`, `wire/`) | none | decoding, encoding | folded, biased and truncated encodings |

Interactions: a group run acquires a *tenure* over all members, opens one *unit* (a
fenced transaction, or fenced statements where there are none) per member and window
through it, runs its bootstrap loads as nested bulk loads that ignore the parent's
markers, and gives the tenure back. The drain feeds the apply task through a bounded
channel and learns from a watch channel what it may confirm to the slot. A bulk load
announces itself through the same guard, reads with a crew of workers, and publishes.

What makes it correct:

- two runs that may not coexist never hold a table together; a write lands only while
  its run holds the table; nothing a dead run left refuses a table for ever;
- a watermark says exactly what its table holds, through any cut of the log into
  windows and any replay of a window, and the log is let go only past it;
- a read is one state of the table; a load is published whole, once, or not at all;
- an incremental load neither skips nor repeats a row of its source;
- a reported success is durable, and every run, load and read ends.

## 2. Modules

| Module | Models | Of |
|---|---|---|
| `Tenure` (+ `TenureProofs`) | guard, lease, keeper, units, drains and bulk loads on PostgreSQL; its inductive invariant | `guard.rs`, `lease.rs`, `naming.rs`, `sink/postgres.rs`, `dest_pg.rs` |
| `Replica` (+ `ReplicaProofs`) | one group from PostgreSQL to PostgreSQL over many runs | `logbased/run.rs`, `drain.rs` |
| `Mirror` | abstract: what a group promises; `Replica` implements it | — |
| `Drain` | the messages of a session cut into windows | `logbased/drain.rs`, `window.rs` |
| `WalStream`, `PgStartup` | the replication connection; opening a session; the proofs of both are in `PgStartup` | `wire/walsender.rs` |
| `CopyPlane` | COPY bytes through five decoding lanes | `wire/walsender.rs`, `source/postgres.rs`, `wire/` |
| `CollapseOps`, `Collapse` | per-key collapse, fold, the applies of four destinations | `collapse.rs`, `resolve.rs`, `dest_pg/my/bq/ice.rs` |
| `Changelog` | append changelog, replay plan, upgrades of the numbering | `changelog.rs`, `replay.rs`, `dest_ch.rs` |
| `Binlog`, `MyGroup` | the binlog drain; the life of a MySQL group and its proofs | `mysource.rs`, `myrun.rs`, `run.rs` |
| `MyFence`, `MyLoad`, `MyValues` | MySQL units and DDL; LOAD DATA and KILL; one cell on every lane | `dest_my.rs`, `sink/mysql.rs`, `wire/mybinlog.rs`, `wire/` |
| `ChLease` (+ `ClickHouseProofs`) | lease rows as versions | `sink/clickhouse.rs` |
| `ChFence` (+ `ClickHouseProofs`) | the time fence of a unit and the close of a group | `dest_ch.rs`, `run.rs` |
| `ChWindow`, `ChParallel` | a window's program and journal; windows side by side | `dest_ch.rs`, `run.rs` |
| `Sweep`, `ChPublish` (+ `ClickHouseProofs`) | scratch of a drain, beside its own sweep and its peers'; publish of a bulk replace | `dest_ch.rs`, `sink/clickhouse.rs`, `lease.rs`, `guard.rs` |
| `BqCommit`, `BqUpload` (+ `PublishProofs`) | scripted commits; resumable uploads and load jobs | `dest_bq.rs`, `sink/bigquery.rs` |
| `IceCommit` (+ `PublishProofs`), `IceCdc` | optimistic commits of loads; of windows and stamps | `sink/iceberg.rs`, `dest_ice.rs` |
| `ObjectStore` | parts, generations, compose, discard | `sink/s3.rs`, `sink/gcs.rs` |
| `CursorLane` | incremental loads and their watermarks on every destination; its proofs | `pipeline/mod.rs`, `plan.rs`, `sink/*.rs` |
| `Crew` (+ `PublishProofs`) | workers, latch, COPY loader and its sender task | `pipe.rs`, `sink/postgres.rs`, `pipeline/mod.rs` |
| `Budget`, `Planning` (+ `PublishProofs`) | memory limit, permits of `run_many`; spans and prices | `pipeline/mod.rs`, `source/mod.rs` |
| `ReadPlane`, `ReadHandle` | statements beside writers; batches, channel, consumer | `source/*.rs`, `read_impl.rs`, `py-apitap/` |
| `GithubApi` | a crawl of a list that moves | `source/github_api.rs` |

`Replica` rests on what `Tenure` establishes: its `owner` is the run for which
`Holds` is true, and a unit commits only while `owner` is its run (`Exclusion`,
`FencedWrites`). In the same way `Drain` and `Collapse` are what a window of `Replica`
is made of, `Binlog` what one of `MyGroup` is, and `ChLease` is the row `ChFence`
reads.

### Suites

Components that share a platform are checked in one run. A suite module (`MCPgStream`,
`MCReplay`, …) instantiates each component once per scenario, with the constants of the
scenario, over disjoint variables. The variable `which` is chosen initially and never
changes; the variables of the components that do not play are `Off`. A behaviour of
the suite is thus a behaviour of exactly one instance, and a suite's property is the
conjunction, over the scenarios, of the component's properties under
`which = "..." =>`. The components that theorems are about are not instantiated but
extended, and play one scenario each, with the constants of the cfg: `MCTenure` extends
`Tenure`, `MCClickHouse` extends `ChLease`, `Sweep`, `ChPublish` and `ChFence`,
`MCPublish` extends `Crew`, `IceCommit` and `BqUpload`, `MCLoad` extends `CursorLane` (whose
variable `setup` is `NoSetup` while it does not play), `MCPgStream` extends `PgStartup`,
which extends `WalStream`, `MCMySql` extends `MyFence` and `MyGroup`, and the run `replica` checks `Replica`
itself. The definition a run checks there is the definition its theorem states. What
used to be several instances is a variable those modules choose initially and keep:
`setup` in `CursorLane` (the destination, the sources that feed its table, what an
operator does), `layout` in `ChPublish` (the branch of `finalize` and its nodes), `mode`
in `IceCommit` (how each writer loads), `members` in `ChFence` (the tables of the
group), `world` in `MyGroup` (when the URL may move, what an operator clears, how much
may fail), `outage` in `BqUpload` (whether answers may stay lost through every retry).

### Tenure

A run is one token. `Kind` says whether it is a drain (`Cdc`), a replace (`Swap`) or an
`Incremental`; `Targets` is the group it writes, `Parent` the drain a bootstrap load
runs in. `catalog` holds the objects `<<run, table, artifact>>` a scan can list;
`lease[r][t]` is the lease row: live, lapsed, collected or absent.

- `LeaseOpen`, `CreateMarker`, `AnnounceFails`, `UndoAnnounce` are `acquire_every` and
  `announce`; `BeginLoad` is the bulk load's `prepare`.
- `ListLocks`, then `MeetLive`, `MeetDrains` or `MeetNobody`, are `check_peers` with the
  two statements of `list` as two steps; `FindLapsed`, `FindOwned`, `ClaimTaken`,
  `ClaimRefused`, `DropCollected`, `CollectFails`, `CollectNext`, `CollectLast` are its
  collection of dead drains.
- `WantUnit`, `GuardUnit`, `OpenUnit`, `CloseUnit` are `Tenure::open` and `close`; an
  open unit holds the lock of its row, so a claim waits for it.
- `KeeperRenew`, `KeeperCheck`; `BeginRelease`, `StopKeeper`, `GiveBackMarker`,
  `LeaseClose`, `GiveBackDone`; `CreateStaging`, `ReleaseLock`, `Finalize`, `Discard`.
- `Expire` is the destination's clock: a live row may lapse at any moment, so no
  property depends on the TTL. `Crash` ends a process with the loads nested in it.

### Replica and Mirror

An LSN is a position in `wal`, whose entries are the members a source transaction
changed. `held[t]` is the set of positions applied to t, `mark[t]` its watermark, `slot`
what the slot has confirmed. The actions are the steps of `run_group`,
`bootstrap_group` and `drain_group` with their error paths, the drain task, the apply
task, and the world outside (`SourceCommit`, `LoseSlot`, `SessionEnds`,
`OperatorClears`). `Faults` says what may go wrong: the stream, a unit (whose COMMIT
may land though its answer is lost), a load, a source statement, the slot, the lease
(`stall`), a snapshot without rows.

`Mirror` states the promise alone: a member is unpublished or an exact prefix of the
source's log that only grows, and the log is kept from the slowest member on until the
copy is given up. `IsMirror` says that every step of `Replica` is, under the mapping
given in `Replica`, a step of `Mirror` or a stutter.

### Sweep

One run of a table on ClickHouse, `Owner`, and the `Peers` that meet its markers. `at` is
where each of them is, `marks`, `key`, `tmp` and `del` are what the server has of the run.

- `OpenUnit`, `CloseUnit` are `open_unit_at` and `close_unit`; `ResetKey` is
  `key_table_reset`, `SendDelete` and `Answered` are `delete_where`, `CopyRebuild` and
  `SwapRebuild` the two halves of `changelog_rebuild`. Opening, the DELETE and the
  EXCHANGE ask for the live lease; the two CREATEs do not, as in the code, so a run whose
  lease was claimed goes on to make them until its next `keep` refuses it (`UnitFails`).
- `Analyse`, `Registers`, `Mutates` are the server's side of a DELETE; `CreateLands` is a
  CREATE that outlives the process that sent it.
- `Lapses`, `Renews` are the lease's clock and the keeper; `Collect` is a peer's claim.
- `FirstLook`, `DropKey`, `Again`, `DropTmp`, `Kept` are `sweep_run` step by step, for the
  run's own release (`GiveBack`) and for a collector alike, and they interleave;
  `DropMarks` is `release`, or the marker drops of `check_peers`. `Dies` ends either.

## 3. Runs

| Run | Scenarios | Checks | Shows |
|---|---|---|---|
| `tenure` | a drain of two tables, its bootstrap load, a replace of one table; statements may fail | `Exclusion`, `FencedWrites`, `NoWedge`, `NoForeignDrop` | rivals never hold one table, a unit belongs to a holder, a drain's marker has a row, only claimed markers are removed by others |
| `eviction` | two drains and a replace; three incrementals of two sources and a replace; a group taken over while its run goes on; a group whose slot is lost | `ExclusiveLanes`, `LossHarmless` | lanes exclude each other as their kinds say; a run that lost its group leaves no table with a change past its watermark; after a lost slot every watermark is exact |
| `replica` | two runs, two members, three source commits; stream, unit, load and source statements fail | `Exact`, `SuccessIsDurable`, `ConfirmsApplied`, `IsMirror` | every member is exactly its watermark's prefix; the group implements `Mirror` |
| `pg_stream` | streamed transactions; layout changes; the replication connection; login; COPY | `AppliedUpToWatermark`, `ConfirmedApplied`, `ProvenBeforeReady`, `CopiedWhole` | what is applied is what was committed, whatever cuts the stream |
| `mysql` | MySQL and MariaDB logs, DDL and partition edges, failovers, faults, the unit fence, LOAD DATA, values | `Faithful`, `Whole`, `NoLateWrite`, `ValuesAgree` | the replica is the source as of its position, on the server that issued it; no write of an evicted run lands |
| `replay` | the applies of four destinations, windows met again, deferred swaps; changelogs fresh, of two earlier releases, of both, re-bootstrapped | `CollapseExact`, `CollapseConverges`, `LogFaithful`, `CurrentTrue` | a window leaves the destination where the source was; each event is in the log once |
| `clickhouse` | lease rows, windows of both table shapes, the fence of groups of one table and of two, parallel windows, a drain's scratch swept by itself and by two peers while it may still work, a publish in each of three layouts | `TakenIsCollected`, `Converged`, `WholeWindows`, `NothingOrphaned`, `NeverTorn` | a store without transactions converges all the same |
| `publish` | crews, S3, GCS and CSV publishes, a first Iceberg load beside a merge and a replace beside an append, Iceberg windows, BigQuery uploads with and without an outage | `PublishesWhole`, `WholeVersion`, `SuccessIsExact`, `IceOnce`, `StagedExactly` | what is published is one load, whole and once |
| `load` | incremental loads alone, in fan-in and first; BigQuery commits split and retried; seven reads; the DataFrame stream; crawls; the pipe budget | `CursorExact`, `OnlySwapsErase`, `BqExactly`, `ReadsExact`, `Peak` | no row of a source is skipped or repeated; a read is one state; the peak fits the limit |
| `live` | a group, a pass, a crew, `run_many`, a read, a sweep, two drains of one table, a replication session | `RunsEnd`, `LoadsEnd`, `DeadAreCleared` | everything ends; nothing dead stands in the way |
| `tenure_half` | as `tenure`, the undo may fail | `NoWedge` is violated | finding 1 |
| `cursor_fanin` | two sources append into one table | `Complete` is violated | finding 2 |

Every passing run's property has a mutant in `PROJECT.json`: a plausible slip in one
modelled definition under which TLC finds it violated.

Why the bounds are enough to be interesting:

- *Tenure*: a conflict needs two runs, a collection that dies half way a third;
  partial acquisition needs a group of two. *Replica*: with two members one can be
  ahead; with `Depth` 1 two windows are in flight while a third is drained; three
  commits give a window with a commit on each side of a member's watermark. A run that
  has ended starts again as its successor, so two runs give any number in sequence.
- *Drain*: two streamed transactions with a savepoint each, or three plain ones with
  two layouts, and a budget smaller than two of them. *CopyPlane*: windows, chunks and
  row groups smaller than a span, so every cut falls inside every element.
- *WalStream*: an apply longer than the silence budget; answers within it.
- *Collapse*, *ChWindow*: three keys (two for ClickHouse) give a chain of moves and a
  reused key; each written cell is distinct. *Changelog*: three commits, a death.
- *Binlog*: three transaction groups from the shapes the decoder tells apart, two runs,
  one crash. *MyGroup*: two servers, two members, three runs, so a position can be
  stored on one, missed on a second and met on a third, in two worlds: one whose URL
  moves, one whose statements fail and whose rows an operator clears.
- *MyValues*: byte base 4 in place of 256, years, months and fractions at their edges:
  every sign, bias, borrow and padding occurs.
- *CursorLane*: one or two sources, two runs at a time, four starts, three rows, one
  death, and one emptying of the table or one seeded state row, on each destination.
  *BqCommit*: two tables in two scripts, two runs, jobs that run late.
- *IceCommit*, *ObjectStore*, *ChPublish*: two writers or pipes, up to three faults,
  late landings. *Sweep*: two markers, two peers beside the run, three faults, two
  DELETEs: one of the three sweeps can fail and another finish. *Crew*: two workers, three spans, a channel of one slot.
- *Budget*: three tables, limits that pay for two pipes; two cgroup levels in both
  hierarchies. *ReadPlane*: three rows, two concurrent writes (one with three spans), one cut of a
  statement.

Symmetry is used in several runs, over sets the model treats alike.
Deadlock is looked for in `replica`; elsewhere a behaviour whose runs have all ended is
over, and the cfg says so.

Fairness (`live`). A process that is alive executes and a server answers or fails: weak
fairness of each run's own steps, its apply task and its units; of the drain's
deliveries; of workers, sender tasks, supervisor and consumer; of the tables of
`run_many`; of the replication client, its clock and a live server's answer to a
keepalive request; of ClickHouse analysing, registering and executing a mutation, and of
the TTL of a run that renews no more. Nothing makes
anybody start a run, the source commit, a stream break or any request fail. One
assumption is about users: for `DeadAreCleared` somebody comes to the table a dead run
left (`Collect`), because nothing runs between runs. In `Tenure`, `BeginRelease` is fair
because a run that holds a table finishes its work; in `Replica` the drain's end is part
of `Work` because deadline and stop line bound it, and `Follow` is not.

## 4. What is proved

| Module | Theorem | States |
|---|---|---|
| `TenureProofs` | `Inductive`, `TypeCorrect` | `IInv` and `TypeOK` are invariants |
| | `ExclusionHolds`, `FencedWritesHold`, `VisibleHolds` | the three safety invariants |
| | `ClaimIsFinalHolds`, `NoForeignDropHolds` | no renewal undoes a claim; only claimed drains lose objects to others |
| | `NoWedgeHolds` | `NoWedge`, when the undo of a half-announcement cannot fail |
| `ReplicaProofs` | `Inductive` | `IInv` is an invariant, when `Sound` |
| | `ExactHolds`, `SlotKeepsLog` | a watermark is exactly what its table holds; the slot has let go of nothing a member needs |
| | `ConfirmsAppliedHolds`, `SuccessIsDurableHolds` | the slot moves only up to what is applied; a success leaves everything applied and a slot to go on from |
| | `RefinesMirror` | every step of `Replica` is a step of `Mirror` or a stutter |
| | `EvictedHarmless`, `TypeCorrect` | no table holds a change past its watermark, and `TypeOK`, with every fault |
| `PgStartup` | `ConfirmedAppliedHolds` | of `WalStream`: no status goes past what is applied; a live server is never taken for dead |
| | `ProvenBeforeReadyHolds` | no session without the server's proof, on a weaker channel than asked, or after a needless second login |
| `ClickHouseProofs` | `LeaseRowsSafe`, `ClaimIsFinal` | of `ChLease`: a collector told Taken holds a claim that stands; no renewal, merge, release or ageing undoes one |
| | `NothingOrphanedHolds` | of `Sweep`: before the last marker is gone, so is all a run made before its claim was taken; a run that gave back left nothing, evicted or not |
| | `NeverTornHolds` | of `ChPublish`: on every node the old table or the new one whole; a success is published everywhere; what is left is said |
| | `WholeWindowsHolds` | of `ChFence`: a position moves only past a window written whole, and never back; nothing is written after a part that was fenced out |
| `PublishProofs` | `PublishesWholeHolds` | of `Crew`: what is published holds every span once; after the join nobody writes but a lost worker; a failure has one cause |
| | `IceOnceHolds` | of `IceCommit`: a load lands at most once, no snapshot loses a file, reports are true |
| | `KeepsPeersHolds` | of `IceCommit`: only a replace takes a peer's rows out of the table |
| | `StagedExactlyHolds` | of `BqUpload`: a success staged every row once and in the file's order; where answers arrive no job outlives the discard |
| `CursorLane` | `CursorExactHolds` | where exactness is promised, every row a successful run vouched for is there, and no row twice |
| | `OnlySwapsEraseHolds` | outside BigQuery only a replace, or the operator, removes rows |
| `MyGroup` | `WholeHolds` | in an anchored world every member holds its server's changes up to its watermark and no other server's, and a success has brought everything |
| `MyFence` | `NoLateWriteHolds` | no write of an evicted run lands on a collected member |
| `PublishProofs` | `SpansCover`, `SpansDisjoint` | of `Planning`: every cursor value of a range lies in exactly one span, for every range and count |
| | `CandidateFits` | of `Planning`: every shape with more than one pipe fits the limit and the ask, for all prices |

*Tenure*, for every set of runs, tables, kinds, sources, groups, parents and faults.
Assumptions: `NoRun` is no run; kinds, groups and parents have their types; a bulk run
loads one table; only a bulk run has a parent, a drain of that table. Only
`NoWedgeHolds` assumes more, `"undo" \notin Faults`, and `tenure_half` shows it must.
`Exclusion` is not inductive: that two runs both hold a table is only impossible because
of what each of their scans must have seen. `IInv` says that. `Announced` and
`MarkersPresent`: from its announcement until it gives back, a run's markers are in the
catalog, unless its row was taken. `Collecting`: they are removed by others only after
that. `StagingPresent`: a bulk load that has dropped its Lock has its staging. So a run
whose row is still its own can be seen at every moment. `Ordered` is the heart: of two
*rivals* at most one is *past* the other, and since a scan is two statements, the case
that one is *half* way is told apart: between its two lists a run can have missed only a
bulk load whose Lock has given way to its staging, which the second list will show.
`Units` ties an open unit to its row, which a claim cannot take while it is locked.
`RowInv` adds that a marker's row outlives the marker, for `NoWedge`. `ExclusiveLanes` of
the run `eviction` is these theorems at two more sets of runs.

*Replica*, for every set of runs and members, every depth of the pipeline and every
length of the log. `Exact` is not inductive: whether a window makes a table exact depends
on where the run that applies it has been. `IInv` therefore says of every run, from the
place it stands at (`RunInv`), what it knows:

- before its first load or window it remembers nothing (`Blank`), and on the way to a new
  slot no member is published (`Unmarked`); while it loads and publishes, the members it
  has tried hold the snapshot of the slot it made (`AtLoad`, `AtFinish`, `OwnSlot`);
- while it streams, the windows it has sent and not applied follow each other up to its
  position (`Ascending`), each member is at the end of the window before or of the window
  being applied (`Members`), and what the watch channel says is in all of them
  (`AtStream`). Here the two tasks of a run meet: the channel's length, the window one
  member has and another lacks, and the position confirmed from outside;
- `SlotBehind`: the slot is not past the slowest published member. Without it a run could
  start where the log is gone, and the first window would leave a gap;
- `Owned`, `Sessions`, `InLog`: who runs owns the group, who streams has the session, and
  nothing is past the log's end.

`RefinesMirror` then needs one lemma per kind of step: what publishes, advances, releases
or withdraws a member is `Mirror`'s action of that name under the mapping, the rest
stutters. `Sound` leaves two faults out: a run that outlives its lease (`stall`) and a
snapshot without rows (`empty`). Under each of them `Exact` is false, as the table of
departures below says, so no weaker assumption would do. A lost slot (`lose`) is only
left out of `SuccessIsDurableHolds`, whose second half is about the slot.

`EvictedHarmless` is about the rest: every fault, those two included. Several runs may then
be under way, the slot may be anybody's and a watermark may claim what its table lacks.
What stays true (`EInv`) is that only the owner writes, and that it has owned the group all
along: what a run knows of the destination (`AsOwner`: its floors are the watermarks, no
watermark is past the window it applies, no table holds more than the snapshot it loads)
is claimed only while it is the owner; what every run keeps, evicted or not, is its own
memory (`Memory`). A unit is fenced by the lease, so the windows an evicted run still has
in memory land nowhere; and the next owner starts from what it reads.

*WalStream*, for every silence budget, latency, number of frames and length of an apply.
`AnswersInTime` says that half the budget and the latency fit into the budget: what the
client's half-budget ping is made for. The invariant `InTime`: while nothing has come for
some time a request is out, since half the budget at the latest, and is not older than an
answer takes. The hard part is the time during which nobody reads: it must not count.

*PgStartup*, for every way to ask and every server: `Shape`, `Channels` and `Logins` say
what a conversation has shown from where it stands. No assumption.

*Sweep*, for every set of markers, at least one (the lock, which `announce` makes), any
number of peers that collect at once, and a run that may be at work all the while. Who
opens a unit needs a live lease; what the open unit then creates does not
(`key_table_reset`, the CTAS of `changelog_rebuild`), so a table can appear beside or
after a sweep that has dropped it. `key` and `tmp` therefore say when a table was made,
before the claim was taken or after. `Holders` ties a peer's sweep to the claim, so that
whatever is made beside it is late; `Ages` says that nothing early can appear any more
once the last marker is gone, and that no DELETE reads a late key table, since sending
one asks for the live lease; `Progress` says what a sweep that has met no failure has
removed at each step; `OwnProgress` says the same of the late tables for the run's own
sweep, which starts when its units are closed (`Fresh`). `NothingOrphaned` has both
halves: nothing early outlives the last marker, and nothing at all outlives a run that
gave back. What is left over is a late table of a run that then died, or whose own drop
failed: section 5 lists it.

*MyFence*, for any members, collectors, TTL and a pause with `Pause + Ttl/2 < Ttl`: the
constants of the code have it. `Locks`: what the transaction has locked is its own.
`Claimed`: a collector takes the row it has locked, by a clock that is not ahead.
`Covered` is why the DDL that has lost all its locks to its implicit commit is safe: it is
over by half the TTL after the renewal it published, before which no claim finds the row
lapsed.

*ChLease*, for any number of collectors, any clock range and any bias above it: a claim
is written at a sequence number biased above every renewal's, so `argMax` keeps
returning it; the invariant ranks the rows by kind and ties each collector's verdict to
a row that stands.

*ChPublish*, for any number of nodes of each layout, any load and any number of outages,
with no assumption. A statement has three ends (`Exec`): it ran, it provably did not, or
nobody knows. The third is what makes `OldOrNew` hard: after it the run discards, and
`GiveUp` shows that it may do so from everywhere, because a discard touches neither the
destination's table nor, before the swap is known, the shadow. `Loading` accounts for
every buffer: it is with the source, in the open request or in staging on every node,
and the staging that is swapped in has them all only because the loaders were joined and
the replicas read back (`SyncedWhole`). `BeforeSwap`, `DuringSwap` and `AfterSwap` say
what the three names hold at each statement of the branch.

*ChFence*, for any group of tables, margin, length of a lease, of a window and of a
statement. Assumed: a group has a table and finitely many, a statement has a part. The
property is about a part that the server skipped without a word. The invariant
(`FencedUnit`) says why the unit cannot forget it: the part failed because the row was
collected or the pinned deadline had come (`Closed`), neither of which a later renewal
undoes, and the unit had by then sent an owned statement, so every re-read must continue
the deadline it carried (`RepinWhole`) and fails. A pin is never past its row, which makes
`Closed` follow from the failed predicate. For the group (`GroupWhole`): the members'
close with no mark of their own, and one deadline stands for all; it is the lowest, so a
read within it proves each member's pin open, and none of them lost a part. With the
highest in its place the proof fails where TLC finds the trace. A unit that lost nothing
has written `Parts` for each statement sent, which is the arithmetic of `PartStep`.

*Crew*, for any number of workers and spans, any chunk and any channel. `Conserved` is
the ledger: every span is in the queue, or with exactly one worker: read, buffered, in
its channel or in its COPY. `Marks`: only a worker that left its body well sends the
mark that lets a COPY commit, and nothing follows it. `Body`: by then it has sent all it
read and nobody has more to read. So a crew whose workers all report `done` has every
span in a committed COPY, once. `Joins` and `Latch` tie what the join loop noted to what
the workers returned: without them a lost worker could be taken for one that had
finished, which is the slip of the mutant.

*IceCommit*, for any number of writers, any mixture of the four modes and any number of
schema changes. Assumed: the modes are the four, and `NoSnap` is no snapshot id. `OnceOnly`
and `NoDangling` are not inductive: whether an attempt may still land after the run gave
up depends on what is on the wire. `WellFormed` says of each request that it is over a
past of the table and, if it could still be applied, that its writer has not landed: the
parent it requires is not the table's any more once a sibling attempt has. `Loop` says
of each writer, from its place in the loop, what its earlier attempts can do: unless an
answer was ambiguous, all of them are refused; a definite failure has none that could
land. `Held` says which files are in storage: those of a writer that may stand, always;
those of one that failed, never. `ReloadTruth` and `RequestFits` are where the client's
own snapshot ids and the carried manifests enter.

*BqUpload*, for any number of rows and files, at least one try per range and any number of
short answers. Assumed (`BoundsAssumption`): `None` is no number, sequence or session.
`StagedExactly` is not inductive: what a file will hold depends on how much of a PUT the
server kept without saying so. `Window` lays the file out: what is persisted for certain,
the chunk under way and the buffer are adjacent intervals of its rows. `Session`: the
server has the first part and perhaps some of the chunk, and has made a job only of the
whole file, so a range that is sent again is appended from where the session ends.
`JobsFit`: the jobs are disjoint intervals that together have every row of the sealed
files, so no row is lost or sent twice across a seal. `Known` ties them to the queue: a job
that is not done is awaited, or is the open session's. In an outage a failed load forgets
some of them, which section 5 lists and why the discard is only claimed without one.
`LandedRows`: the staging has the rows of the jobs that are done, each once, and is
dropped as stale only while there is no job yet. A success has awaited every job, so the
staging has all the rows.

*CursorLane*, for any sources, runs, setups, rows, starts and deaths. Assumed
(`CursorConstants`): the setups are of the five kinds, a source can commit a row, and the
two marks are no numbers. `CursorExact` promises exactness where `Arbitrated` says so: one
source, whatever the destination and however runs die between its statements (on Iceberg
unless the operator empties the table), or several sources with append loads where the
state row alone is the watermark (PostgreSQL, Iceberg). Elsewhere nothing is
claimed: `cursor_fanin` is the counterexample for two sources on a destination that
consults the data, an emptied table is in the table of section 5, and a replace between the
appends of two sources is left out. It is not inductive, since a run's staged rows are right
only if nobody moved the watermark since it read it. `CursorInv` adds, in every setup
(`Shape`), what a run's fields say at its place and `Exclusive`: of two runs past their
checks neither blocks the other, because the later of the two announcements saw the
earlier. And where exactness is promised (`Counted`) there is a number `top[s]` for each
source: exactly its first `top[s]` rows have landed, once; its state row is that number,
or, with one source and separate statements, may lag behind it, and then the data tell
(`StateFits`); from its second read on an incremental run's watermark is `top`, and what it
staged is what follows (`RunFits`). Two incremental runs of one source block each other, so
nobody moves `top[s]` under a run that holds it. `OnlySwapsErase` follows from `Shape`: an append that lost the
first run is refused before it publishes.

*MyGroup*, for any servers, members, worlds and bounds. Assumed (`MyGroupAssumption`): a
group has a member, `Nobody` is no server, the worlds have their types. `Whole` is promised
where `Anchored` says so: a log that was reset stays below the positions stored of it, and
either the URL stays where it is, or nothing fails, watermarks go with their markers and no
move falls between a bootstrap's capture and its loads. What that leaves out is what
section 5 and the end of section 6 list. `Whole` is not inductive: a pass is right only if the position it
resumes means something on the server it reached. `GroupInv` adds `Fits`: a watermark of
the life of the log that stands is at one of its positions and true, and one of an earlier
life is ahead of the log, which is how `Ahead` tells; `Home`: a run is on the server that
issued the watermarks it resumes, because a marker stands beside every watermark or the URL
never moves; and `Place`, what a run knows at its phase: a loaded member holds everything up
to the captured coordinate, whatever else committed meanwhile, and in a pass the replica
holds the run's goal but for the changes between a member's mark and the stop line, which
`Apply` brings. `Steady` holds in every world: a run has a server, and the watermarks a
pass resumes from are there.

*Planning*: integer arithmetic of `span_range` (exact in the code, which uses i128) and
of `PipeCost`. No assumption but the types and positive counts.

Only model-checked: liveness (`RunsEnd`, `LoadsEnd`, `DeadAreCleared`), which is out of the
prover's reach; what recursive definitions and folds compute, which would need induction
over data (`Collapse`, `Changelog`, `ChWindow`, `Drain`, `CopyPlane`, `MyValues`, and
`Peak`, the sum in `Budget`); `ExclusiveLanes` and `LossHarmless`, which are theorems of
`Tenure` and `Replica` for all constants (`ExclusionHolds`, `FencedWritesHold`,
`VisibleHolds`, `EvictedHarmless`, `ExactHolds`) checked at further instances; and, for
now, `Binlog`, `MyLoad`, `ChParallel`, `ObjectStore`, `IceCdc`,
`BqCommit`, `ReadPlane`, `ReadHandle` and `GithubApi`.

## 5. What the runs found

1. **Half an announcement** (`tenure_half`, `lease.rs:424`). When `announce` fails at its
   second marker and the DROP of the first fails too, `acquire_every` closes the lease
   row although a marker is left. Nobody can collect a marker without a row: it refuses
   every later run until it is dropped by hand.
2. **Fan-in** (`cursor_fanin`, `sink/mysql.rs:1613`, `sink/clickhouse.rs:2392`,
   `sink/bigquery.rs:3016`). A source that has its own state row resumes at the table's
   maximum, which is another source's; its rows below it are never loaded.
   `plan.rs` says the state row alone is the truth with siblings present.

Departures met while modelling, which the scenarios above leave out by their constants or
their properties' wording (each was seen as a TLC trace of the module named):

| Where | The code says | What happens |
|---|---|---|
| `run.rs:1961` (`Replica`, `NoReplay`) | no window straddles a member's watermark | a pass ends at the first commit *past* the cap, so the member ahead applies part of a window again; rows come out the same |
| `sink/postgres.rs:1317` (`Replica`, fault `empty`) | a re-run replaces what a failed bootstrap loaded | the 0-row guard keeps the first attempt's rows when the source is empty by then |
| `run.rs:1681` (`Replica`, `stall`) | every write is a unit | the slot is none: an evicted bootstrap drops its successor's slot. Hence `LossHarmless` checks `NoneAhead`, not `Exact` |
| `window.rs:242` (`Drain`, `AlterInside`) | a transaction that changes columns between its rows is refused | only the number of columns is compared |
| `dest_pg.rs:474`, `dest_bq.rs:1347` (`Collapse`, `ReplayChangesNothing`) | a re-applied move matches nothing | it matches a row inserted later at the old key |
| `collapse.rs:405`, `resolve.rs:222` (`Collapse`, `Deferred`) | a deferred swap keeps both rows | not when the rows are alike, nor with an unchanged TOASTed cell |
| `dest_ch.rs:2508`, `dest_ch.rs:2694` (`Sweep`, `key` and `tmp` = "late") | a collected run's key table, and the rebuild's table, are swept by its collector | both are made with no lease asked, so a unit that outlives its lease can make them after the collector dropped them and the markers. The run's own release drops them; if it dies first, or that drop fails, no run names them again. Hence `NothingOrphaned` speaks of what was made before the claim, and of runs that gave back |
| `dest_ch.rs:1260` (`ChWindow`, `NoTie`) | the tail deletes before it inserts, so no tie arises; a replay re-inserts the same version | a masked move over versions does not delete at its new key; a replay that ends sooner inserts below the dead attempt's version |
| `sink/bigquery.rs:3086` (`CursorLane`) | a lost first run is refused | BigQuery's first run truncates what another source published |
| `sink/postgres.rs:1226`, `sink/iceberg.rs:1241` (`CursorLane`) | an emptied table carries no watermark | only for the first source to run after; on Iceberg for none |
| `run.rs:1942` (`IceCdc`, `NeverRefused`) | a skipped stamp is safe | the slot moves past it and the next start refuses the group |
| `run.rs:2651` (`IceCdc`) | the slot stays behind commits | two late commits of dead runs can take a table back under a window already skipped |
| `sink/bigquery.rs:1880` (`BqUpload`, `StaysDropped`) | no job outlives `discard` | a handle popped before a failing poll, or a final PUT whose answers are lost, leaves one |
| `sink/s3.rs:1308` (`ObjectStore`, `FailedCopyRemoves`) | a failed copy removes what it added | not the part whose answer was lost |
| `sink/s3.rs:791` (`ObjectStore`, `OrphansHeard`) | an operator hears of an orphan upload | a failed abort of a multipart copy is silent |
| `sink/gcs.rs:801` (`ObjectStore`) | staging is deleted by name when listing fails | not the CSV header |
| `mysource.rs:958` (`Binlog`, `FoldsCase`) | a TRUNCATE is applied or lost | names are compared case-sensitively here and not elsewhere |
| `run.rs:1413` (`MyGroup`, `world.clears`, `world.faults`) | from the first run a switch of server is refused | a re-bootstrap after cleared state rows, or a death before the stamp, leaves no marker |
| `myrun.rs:348` (`MyGroup`, `world.movesAt`) | binlog and pool are on one server | the bootstrap's own connections are not compared |
| `source/postgres.rs:431` (`ReadPlane`) | the probe proved zero rows | a pushed filter over an all-NULL cursor returns nothing |
| `sink/clickhouse.rs:2705` (`ChPublish`, `NoStaleState`) | failing here would leave a stale watermark | an EXCHANGE whose answer is lost leaves one |
| `sink/mysql.rs` prepare (`MyValues`, `RowsFit`) | a row that is accepted fits | strings deferred to LONGTEXT are not charged their 16-byte pointer, CHAR(36) counts as 16: `RowsFit` allows for it |

## 6. Abstractions and what is not modelled

Bounds that differ from the code's, and what a module leaves out of its component:

| Module | Left out or reduced |
|---|---|
| `Tenure` | a unit is one table's; a run's own scratch and the BigQuery fence; a CREATE whose answer was lost; a group's tables are taken in any order |
| `Replica` | a window's rows are a set of positions; streaming, budget and layout are a choice of where the window ends (`Drain` models them); an invalidated slot is a missing one; staging that a crashed load left is removed by the operator |
| `ChWindow`, `Changelog` | journal keys of 0.62.0; the refusal at 2^32 changes and the table that has the four meta columns already |
| `ChLease`, `ChPublish` | one run's rows, a monotone server clock, the TTL removed at the first `lease_write`; the body cap counted in buffers, `prepare`'s refusals as one action; a load of no rows, whose guard drops its staging and ignores whether that worked |
| `BqCommit`, `BqUpload` | the memo of probes is always probing, the staging load is one step, deletions of fence tables are serialised; `Tries` 2 (5), `MaxStalls` 2 (3) |
| `CursorLane` | `dest_state` is one atomic read; merge mode, plain replace beside fan-in and PostgreSQL's DDL after its commit; ClickHouse's first publish (CREATE, then ATTACH) is one step, and its clusters are out; leftovers are cleared before the next start |
| `IceCommit`, `IceCdc` | a delete that is tried succeeds, no worker is cancelled inside `finish`; two runs, three attempts |
| `ObjectStore` | announcing and scanning never fail; two runs of two pipes, two faults, one crash; `PageMax` 3 (10 000); retries of one request are folded; the operator's clearing is external; objects an earlier load left in another format |
| `CopyPlane` | the binary header is two bytes and its extension empty; caps on one field, the snapshot's BEGIN and COMMIT, `take_ready` and `seal` |
| `Binlog`, `MyGroup` | checksums; a column's kind is a number; one run at a time, prechecks of server variables and the refusal of foreign keys; `refetch_masked` is atomic |
| `MyFence`, `MyLoad` | `Pause + Ttl/2 < Ttl` is assumed, as the constants of the code have it; DDL whose answer was lost; a pool without maximum; a KILL that lands before its LOAD began may be followed by a partial commit into staging, which `discard` drops |
| `MyValues` | bytes are base 4, TIME and decimal groups are scaled; FLOAT, DOUBLE, BLOB, JSON |
| `GithubApi` | items of one second are ordered by update; entities not sorted by update, pages not anchored by a cursor, and the refusal of a missing key; a next link to another host or scheme, at which `link_next` ends the read; `Attempts` 2 (3), `MaxPages` 2 (100 000) |
| `ReadHandle`, `Budget` | the consumer stops at the first error; a pinned `chunk_bytes`, and `APITAP_MEM_BUDGET`, which replaces the limit of the cgroup |
| `Sweep` | a DELETE that is analysed registers before the second look; a CREATE whose run stopped waiting for it reaches the server before the drops of that run's own release (that of a run that died may come at any time, `CreateLands`); one table; the rows of key table and rebuild; a lapse at any moment instead of the pinned deadline, which ends earlier |

Two hazards have no property because the code itself cannot tell the cases apart: a MySQL
log that was reset and grew past the stored position (`myrun.rs:297`), and an item of
GitHub updated again inside the watermark's second in append mode.

Not modelled at all, for the reason given:

- *progress and shutdown*: one reporter thread and one flag; what the flag ends is
  an action of the modules that read it (`Replica`, `Drain`);
- credentials, TLS and the texts of errors: input and output only (the retries of the HTTP
  clients are in `GithubApi`, `ObjectStore` and `BqUpload`);
- of the Python package, argument handling and the lazy plugin, which call the modelled
  reads and loads (`ReadHandle` models the stream of batches);
- *the vendored sqlx-core*: third-party code;
- *writers of Arrow, Parquet and Avro, pgoutput's parser, the CSV and Google Analytics
  sources, the type tables of the other engines, spelling and truncation of names, column
  DDL and catalog probes*: functions from data to data with no state between calls, which
  the repository's own tests cover better than a small instance would.

## 7. Plan

In this order:

1. `ObjectStore`: that a success is exact, from the parts noted alone;
2. model the two halves of a BigQuery bootstrap that is rebuilt, and merge mode beside
   fan-in in `CursorLane`;
3. larger instances: two runs at a time in `MyGroup`.
