----------------------------- MODULE MCPublish ------------------------------
(* Bulk loads and what they publish: the worker crew (Crew), the object       *)
(* stores (ObjectStore), Iceberg commits of loads and of windows (IceCommit,  *)
(* IceCdc), BigQuery's resumable uploads (BqUpload). Each behaviour plays one *)
(* scenario.                                                                  *)
EXTENDS Crew, IceCommit, BqUpload, Integers, TLC

CONSTANTS ta, tb, kx, s1, s2, s3, Truncate, Off

VARIABLES
    which,   \* the scenario a behaviour plays; the other components are Off
    store, storeUps, storePc, wk, share, got, parts, stale, fresh, left, storeOut, clean,
    noted, page, faults, crashes,
    log, slot, ice, files, cdcWire, late, cdcRun, refused

crewVars == vars
storeVars == <<store, storeUps, storePc, wk, share, got, parts, stale, fresh, left, storeOut, clean,
    noted, page, faults, crashes>>
cdcVars == <<log, slot, ice, files, cdcWire, late, cdcRun, refused>>
suiteVars == <<which, crewVars, storeVars, commitVars, cdcVars, uploadVars>>

\* The races of two Iceberg loads: a first load beside a merge, a replace beside an append.
Races == {[w \in Writers |-> IF w = 1 THEN m[1] ELSE m[2]] :
            m \in {<<"flipped", "merge">>, <<"replace", "append">>}}

Symmetry == Permutations({ta, tb}) \cup Permutations({s1, s2, s3})

S3 == INSTANCE ObjectStore WITH Kind <- "s3", LargeCopy <- FALSE, MinIO <- TRUE,
    Shares <- {<<2, 1>>, <<0, 1>>, <<0, 0>>}, Faults <- {"refused", "lost", "list", "delete"},
    MaxFaults <- 2, MaxCrashes <- 1, pc <- storePc, out <- storeOut, ups <- storeUps
Gcs == INSTANCE ObjectStore WITH Kind <- "parquet", LargeCopy <- FALSE, MinIO <- TRUE,
    Shares <- {<<2, 1>>, <<0, 1>>, <<0, 0>>}, Faults <- {"refused", "list", "short"},
    MaxFaults <- 2, MaxCrashes <- 0, pc <- storePc, out <- storeOut, ups <- storeUps
Csv == INSTANCE ObjectStore WITH Kind <- "csv", LargeCopy <- FALSE, MinIO <- TRUE,
    Shares <- {<<2, 1>>, <<0, 1>>, <<0, 0>>}, Faults <- {"refused", "delete", "short"},
    MaxFaults <- 1, MaxCrashes <- 1, pc <- storePc, out <- storeOut, ups <- storeUps
Cdc == INSTANCE IceCdc WITH Tables <- {ta, tb}, Keys <- {kx}, MaxLog <- 2, MaxRuns <- 3,
    MaxLate <- 1, wire <- cdcWire, run <- cdcRun

\* The scenarios respect what each component asks of its constants.
ASSUME ScenarioConstants == CrewAssumption /\
    IceAssumption /\ BoundsAssumption

CrewOff == load = Off /\ latch = Off /\ queue = Off /\ pc = Off /\ cur = Off /\ out = Off /\
    first = Off /\ outcome = [w \in Workers |-> "none"] /\ chan = Off /\ tx = Off /\
    handle = Off /\ task = Off /\ copy = Off /\ staging = Off /\ joined = Off /\ cause = Off /\
    lost = Off /\ sawCancel = Off /\ target = Nothing
StoreOff == store = Off /\ storeUps = Off /\ storePc = Off /\ wk = Off /\ share = Off /\ got = Off /\
    parts = Off /\ stale = Off /\ fresh = Off /\ left = Off /\ storeOut = Off /\ clean = Off /\
    noted = Off /\ page = Off /\ faults = Off /\ crashes = Off
IceOff == mode = Off /\ table = [cur |-> NoSnap, snaps |-> <<>>, wm |-> {}] /\ objs = {} /\
    ups = {} /\ run = [w \in Writers |-> [pc |-> "none", end |-> "none"]] /\ wire = {}
CdcOff == log = Off /\ slot = Off /\ ice = Off /\ files = Off /\ cdcWire = Off /\ late = Off /\
    cdcRun = Off /\ refused = Off
BqOff == outage = TRUE /\ ld = [pc |-> "none"] /\ sess = Off /\ jobs = <<>> /\ staged = Off /\ wm = 0

CrewInit == which = "crew" /\ Init
StoreInit ==
    \/ which = "s3" /\ S3!Init
    \/ which = "gcs" /\ Gcs!Init
    \/ which = "csv" /\ Csv!Init
IceInit == which = "ice" /\ CommitInit
CdcInit == which = "cdc" /\ Cdc!Init
BqInit == which = "upload" /\ UploadInit

SuiteInit ==
    \/ CrewInit /\ StoreOff /\ IceOff /\ CdcOff /\ BqOff
    \/ StoreInit /\ CrewOff /\ IceOff /\ CdcOff /\ BqOff
    \/ IceInit /\ CrewOff /\ StoreOff /\ CdcOff /\ BqOff
    \/ CdcInit /\ CrewOff /\ StoreOff /\ IceOff /\ BqOff
    \/ BqInit /\ CrewOff /\ StoreOff /\ IceOff /\ CdcOff

CrewNext == which = "crew" /\ Next
StoreNext ==
    \/ which = "s3" /\ S3!Next
    \/ which = "gcs" /\ Gcs!Next
    \/ which = "csv" /\ Csv!Next
IceNext == which = "ice" /\ CommitNext
CdcNext == which = "cdc" /\ Cdc!Next
BqNext == which = "upload" /\ UploadNext

SuiteNext ==
    \/ CrewNext /\ UNCHANGED <<which, storeVars, commitVars, cdcVars, uploadVars>>
    \/ StoreNext /\ UNCHANGED <<which, crewVars, commitVars, cdcVars, uploadVars>>
    \/ IceNext /\ UNCHANGED <<which, crewVars, storeVars, cdcVars, uploadVars>>
    \/ CdcNext /\ UNCHANGED <<which, crewVars, storeVars, commitVars, uploadVars>>
    \/ BqNext /\ UNCHANGED <<which, crewVars, storeVars, commitVars, cdcVars>>

SuiteSpec == SuiteInit /\ [][SuiteNext]_suiteVars

-----------------------------------------------------------------------------
\* Publishing into a bucket never takes away the only whole copy, a crash in the middle
\* of finalize included; other destinations' parts survive the sweep (finalize_inner). No
\* change the slot has let go of is missing from an Iceberg replica, even when a dead
\* run's snapshot lands between a later run's bind and its commit (dest_ice.rs).
WholeVersion ==
    /\ which = "s3" => S3!WholeVersion /\ S3!OthersKept /\ S3!NothingLeft
    /\ which = "gcs" => Gcs!WholeVersion /\ Gcs!OthersKept /\ Gcs!NothingLeft
    /\ which = "csv" => Csv!WholeVersion /\ Csv!OthersKept
    /\ which = "cdc" => Cdc!NothingLost /\ Cdc!WatermarkTrue /\ Cdc!NoDangling

\* When a publish into a bucket answers Ok the destination holds exactly this run's
\* rows, each once (finalize_inner, put_chunk). A new Iceberg snapshot takes a peer's rows
\* out of the table only when it is a replace (carried manifests, the flipped refusal).
SuccessIsExact ==
    [][/\ which = "s3" => S3!OkIsExact
       /\ which = "gcs" => Gcs!OkIsExact
       /\ which = "csv" => Csv!OkIsExact
       /\ which = "ice" => KeepsPeers]_suiteVars
=============================================================================
