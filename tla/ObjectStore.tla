---------------------------- MODULE ObjectStore ----------------------------
(***************************************************************************)
(* The object-store sinks (sink/s3.rs, sink/gcs.rs).  A run announces      *)
(* itself by a lock object, stages one part per pipe under its own path    *)
(* segment (an S3 multipart upload or a GCS resumable session), and        *)
(* publishes at finalize: Parquet parts are copied under a new generation  *)
(* of names and the previous generation is deleted after, a CSV is         *)
(* composed in one step.  A failed run discards its staging.               *)
(*                                                                         *)
(* Every request may be answered, refused for good (after the retries of   *)
(* http::STORE_ATTEMPTS), or done with its answer lost.  MaxFaults bounds  *)
(* the requests that go wrong; a process may die between any two requests. *)
(* The announce/scan protocol itself is Tenure's subject; here its two     *)
(* requests never fail.                                                    *)
(***************************************************************************)
EXTENDS Integers, Sequences, FiniteSets, SequencesExt, FiniteSetsExt

CONSTANTS
    Kind,        \* "s3", "parquet" (GCS format=parquet) or "csv" (GCS format=csv)
    LargeCopy,   \* S3 only: the parts are above copy_part_bytes
    MinIO,       \* S3 only: a complete listing ends in an EMPTY marker
    Shares,      \* the shares of rows the pipes may be handed
    Faults,      \* the request outcomes other than "ok" that may occur
    MaxFaults,   \* bound on the requests that go wrong
    MaxCrashes   \* bound on the processes that die

VARIABLES
    store,     \* the bucket: object key -> the rows in it
    ups,       \* open multipart uploads / sessions: key -> the rows it holds
    pc,        \* where each run is
    wk,        \* [run -> [pipe -> "new", "open", "ended" or "failed"]]
    share,     \* [run -> [pipe -> rows the pipe is handed]]
    got,       \* [run -> [pipe -> rows the pipe has sent]]
    parts,     \* finalize's sorted listing of the run's staging
    stale,     \* finalize's listing of the table's directory
    fresh,     \* the parts of the new generation copied so far
    left,      \* previous parts that could not be deleted
    out,       \* how the run's result stands: "none", "ok", "empty", "failed", "left"
    clean,     \* no request of the run's own clean-up went wrong
    noted,     \* the uploads the operator was told about
    page,      \* discard's paging: [marker, pages, more]
    faults, crashes

vars == <<store, ups, pc, wk, share, got, parts, stale, fresh, left, out, clean,
          noted, page, faults, crashes>>

Runs  == {1, 2}
Pipes == {1, 2}
S3    == Kind = "s3"

\* A bound on a listing's pages: 10 000 in the code.
PageMax == 3

-----------------------------------------------------------------------------
(* Keys *)

Staged(r, w) == <<"staging", r, w>>          \* <staging_root><token>/part-NNNNN
Header(r)    == <<"staging", r, 0>>          \* .../00-header.csv.gz sorts before the parts
Lock(r)      == <<"lock", r, 0>>             \* <staging_root>__apitap_lock/<token>
Part(g, i)   == <<"dir", g, i>>              \* <table>/part-<generation>-NNNNN.parquet
Csv          == <<"csv", 0, 0>>              \* <table>.csv.gz
Nested       == <<"nested", 0, 1>>           \* <table>/clicks/part-00001.parquet
Users        == <<"users", 0, 0>>            \* <table>/_SUCCESS

StagingOf(r) == {k \in DOMAIN store : k[1] = "staging" /\ k[2] = r}

\* The recursive listing of `<prefix>/<table>/`.
Listing(s) == {k \in DOMAIN s : k[1] \in {"dir", "nested", "users"}}

\* A direct child of the directory with apitap's part-file name.
IsOwnPart(k) == k[1] = "dir"

Row(r, w, i)  == <<r, w, i>>
HeaderLine(r) == Row(r, 0, 0)                \* the CSV's first line
RowsOf(r, w)  == [i \in 1..share[r][w] |-> Row(r, w, i)]
TotalRows(r)  == MapThenSumSet(LAMBDA w : got[r][w], Pipes)

Put(k, c) == [x \in DOMAIN store \cup {k} |-> IF x = k THEN c ELSE store[x]]
Del(K)    == [x \in DOMAIN store \ K |-> store[x]]
PutUp(k, c) == [x \in DOMAIN ups \cup {k} |-> IF x = k THEN c ELSE ups[x]]
DelUp(K)    == [x \in DOMAIN ups \ K |-> ups[x]]

\* One request's outcome, drawn within the budget of faults.
Outcome(o) == o \in {"ok"} \cup Faults /\ (o # "ok" => faults < MaxFaults)
              /\ faults' = faults + (IF o = "ok" THEN 0 ELSE 1)
\* The server did what was asked (its answer may still be lost).
Landed(o) == o \in {"ok", "lost"}

InitStore(csvBefore) ==
    [k \in {Nested, Users} \cup (IF csvBefore THEN {Csv} ELSE {Part(0, 1), Part(0, 2)})
       |-> <<Row(0, 1, k[3])>>]

Init ==
    /\ \E csvBefore \in IF S3 THEN {FALSE} ELSE BOOLEAN : store = InitStore(csvBefore)
    /\ ups = << >> /\ noted = {}
    /\ pc = [r \in Runs |-> "idle"]
    /\ wk = [r \in Runs |-> [w \in Pipes |-> "new"]]
    /\ share \in [Runs -> Shares]
    /\ got = [r \in Runs |-> [w \in Pipes |-> 0]]
    /\ parts = [r \in Runs |-> << >>]
    /\ stale = [r \in Runs |-> {}] /\ fresh = [r \in Runs |-> {}]
    /\ left = [r \in Runs |-> {}]
    /\ out = [r \in Runs |-> "none"] /\ clean = [r \in Runs |-> TRUE]
    /\ page = [r \in Runs |-> [after |-> 0, pages |-> 0, more |-> TRUE]]
    /\ faults = 0 /\ crashes = 0

Goto(r, l) == pc' = [pc EXCEPT ![r] = l]
Result(r, v) == out' = [out EXCEPT ![r] = v]

-----------------------------------------------------------------------------
(* prepare: announce, then scan; a CSV also stages its header *)

Announce(r) ==
    /\ pc[r] = "idle" /\ \A q \in Runs : q < r => pc[q] # "idle"
    /\ store' = Put(Lock(r), << >>)
    /\ Goto(r, "scan")
    /\ UNCHANGED <<ups, wk, share, got, parts, stale, fresh, left, out, clean, noted,
                   page, faults, crashes>>

\* There is no lease store: every other run's lock or segment refuses this one.
Peers(r) == {k \in DOMAIN store : k[1] \in {"staging", "lock"} /\ k[2] # r}

ScanRefuses(r) ==
    /\ pc[r] = "scan" /\ Peers(r) # {}
    /\ store' = Del({Lock(r)})               \* Sink::release_lock
    /\ Result(r, "failed") /\ Goto(r, "done")
    /\ UNCHANGED <<ups, wk, share, got, parts, stale, fresh, left, clean, noted,
                   page, faults, crashes>>

ScanPasses(r) ==
    /\ pc[r] = "scan" /\ Peers(r) = {}
    /\ Goto(r, IF Kind = "csv" THEN "header" ELSE "load")
    /\ UNCHANGED <<store, ups, wk, share, got, parts, stale, fresh, left, out, clean,
                   noted, page, faults, crashes>>

\* A failed prepare only releases the lock: pipeline::run does not discard.
PutHeader(r) ==
    /\ pc[r] = "header"
    /\ \E o \in {"ok", "refused", "lost"} :
         /\ Outcome(o)
         /\ store' = LET s == IF Landed(o) THEN Put(Header(r), <<HeaderLine(r)>>) ELSE store
                     IN  IF o = "ok" THEN s ELSE [x \in DOMAIN s \ {Lock(r)} |-> s[x]]
         /\ Goto(r, IF o = "ok" THEN "load" ELSE "done")
         /\ Result(r, IF o = "ok" THEN "none" ELSE "failed")
    /\ UNCHANGED <<ups, wk, share, got, parts, stale, fresh, left, clean, noted,
                   page, crashes>>

-----------------------------------------------------------------------------
(* The loaders *)

Failing(r) == \E w \in Pipes : wk[r][w] = "failed"
Worker(r, w, v) == wk' = [wk EXCEPT ![r][w] = v]

\* create_multipart / begin_resumable: an upload with nothing in it yet.
BeginUpload(r, w, o) == IF o = "ok" THEN PutUp(Staged(r, w), << >>) ELSE ups

\* Pipes::open opens one loader after the other and stops at the first failure.
Open(r, w) ==
    /\ pc[r] = "load" /\ wk[r][w] = "new" /\ ~Failing(r)
    /\ \A v \in Pipes : v < w => wk[r][v] # "new"
    /\ \E o \in {"ok", "refused"} :
         /\ Outcome(o)
         /\ ups' = BeginUpload(r, w, o)
         /\ Worker(r, w, IF o = "ok" THEN "open" ELSE "failed")
    /\ UNCHANGED <<store, pc, share, got, parts, stale, fresh, left, out, clean, noted,
                   page, crashes>>

\* abort_multipart_noted (S3) / cancel (GCS): 404 counts as done; a failure is
\* told to the operator (S3) or left to the session's expiry (GCS).
AbortUpload(r, w, o) ==
    /\ ups' = IF Landed(o) THEN DelUp({Staged(r, w)}) ELSE ups
    /\ noted' = IF o = "ok" THEN noted ELSE noted \cup {Staged(r, w)}

\* put_chunk's status contract: 308 with the whole range confirmed, 2xx for the
\* final chunk; upload_part's: success and an ETag.
Accepted(o) == o = "ok"

\* A part number, or a range, put again after a lost answer replaces itself; the
\* server takes a range only where its bytes end.
UploadPart(r, w, o) ==
    IF o = "ok" /\ Len(ups[Staged(r, w)]) = got[r][w]
    THEN PutUp(Staged(r, w), Append(ups[Staged(r, w)], Row(r, w, got[r][w] + 1)))
    ELSE ups

\* One chunk is put.  "short" is GCS keeping fewer bytes and still answering 308.
Send(r, w) ==
    /\ pc[r] = "load" /\ wk[r][w] = "open" /\ \A v \in Pipes : wk[r][v] # "new"
    /\ got[r][w] < share[r][w]
    /\ \E o \in {"ok", "refused"} \cup (IF S3 THEN {} ELSE {"short"}) :
         /\ Outcome(o)
         /\ ups' = UploadPart(r, w, o)
         /\ IF Accepted(o)
            THEN got' = [got EXCEPT ![r][w] = @ + 1] /\ UNCHANGED wk
            ELSE Worker(r, w, "aborting") /\ UNCHANGED got
    /\ UNCHANGED <<store, pc, share, parts, stale, fresh, left, out, clean, noted,
                   page, crashes>>

\* The parts become one object, and the upload is gone.
CompleteUpload(r, w, o) ==
    IF Landed(o)
    THEN /\ store' = Put(Staged(r, w), ups[Staged(r, w)])
         /\ ups' = DelUp({Staged(r, w)})
    ELSE UNCHANGED <<store, ups>>

\* finish: the footer's chunk, then complete.  The object appears whole or not
\* at all; an answer lost leaves it there while the loader reports an error
\* (a complete sent again meets NoSuchUpload).
Finish(r, w) ==
    /\ pc[r] = "load" /\ wk[r][w] = "open" /\ \A v \in Pipes : wk[r][v] # "new"
    /\ got[r][w] = share[r][w]
    /\ \E o \in {"ok", "refused", "lost"} \cup (IF S3 THEN {} ELSE {"short"}) :
         /\ Outcome(o)
         /\ CompleteUpload(r, w, o)
         /\ Worker(r, w, IF Accepted(o) THEN "ended" ELSE "aborting")
    /\ UNCHANGED <<pc, share, got, parts, stale, fresh, left, out, clean, noted,
                   page, crashes>>

\* The worker's own failure, or the crew's: every loader is aborted.
Abort(r, w) ==
    /\ pc[r] = "load"
    /\ wk[r][w] = "aborting" \/ (wk[r][w] = "open" /\ Failing(r))
    /\ \E o \in {"ok", "refused"} : Outcome(o) /\ AbortUpload(r, w, o)
    /\ Worker(r, w, "failed")
    /\ UNCHANGED <<store, pc, share, got, parts, stale, fresh, left, out, clean, page, crashes>>

\* run_workers resolves only when no worker is left.
Loaded(r) ==
    /\ pc[r] = "load"
    /\ \/ \A w \in Pipes : wk[r][w] = "ended"
       \/ Failing(r) /\ \A w \in Pipes : wk[r][w] \in {"new", "ended", "failed"}
    /\ Goto(r, IF Failing(r) THEN "discard" ELSE "list")
    /\ Result(r, IF Failing(r) THEN "failed" ELSE "none")
    /\ UNCHANGED <<store, ups, wk, share, got, parts, stale, fresh, left, clean, noted,
                   page, faults, crashes>>

-----------------------------------------------------------------------------
(* finalize *)

StagedParts(r) == StagingOf(r)

\* The header's name sorts before the parts'.
Sorted(K) == SetToSortSeq(K, LAMBDA a, b : a[3] < b[3])

\* 0 rows leave the destination as it is.
AfterList(r) == CASE TotalRows(r) = 0 -> "empty"
                  [] Kind = "csv" -> "compose"
                  [] OTHER -> "listdir"

FinList(r) ==
    /\ pc[r] = "list"
    /\ \E o \in {"ok", "refused"} :
         /\ Outcome(o)
         /\ parts' = [parts EXCEPT ![r] = IF o = "ok" THEN Sorted(StagedParts(r)) ELSE @]
         /\ Goto(r, IF o = "ok" THEN AfterList(r) ELSE "release")
         /\ Result(r, IF o = "ok" THEN "none" ELSE "failed")
    /\ UNCHANGED <<store, ups, wk, share, got, stale, fresh, left, clean, noted,
                   page, crashes>>

\* The first delete that fails is the run's error; the ones before it are done.
FinEmpty(r) ==
    /\ pc[r] = "empty"
    /\ \E o \in {"ok", "refused"}, n \in 0..Len(parts[r]) :
         /\ Outcome(o) /\ (o = "ok") = (n = Len(parts[r]))
         /\ store' = Del({parts[r][i] : i \in 1..n})
         /\ Result(r, IF o = "ok" THEN "empty" ELSE "failed")
    /\ Goto(r, "release")
    /\ UNCHANGED <<ups, wk, share, got, parts, stale, fresh, left, clean, noted,
                   page, crashes>>

FinListDir(r) ==
    /\ pc[r] = "listdir"
    /\ \E o \in {"ok", "refused"} :
         /\ Outcome(o)
         /\ stale' = [stale EXCEPT ![r] = IF o = "ok" THEN Listing(store) ELSE @]
         /\ Goto(r, IF o = "ok" THEN "copy" ELSE "release")
         /\ Result(r, IF o = "ok" THEN "none" ELSE "failed")
    /\ UNCHANGED <<store, ups, wk, share, got, parts, fresh, left, clean, noted,
                   page, crashes>>

\* Mutant: the published names are the same in every generation.
DstSame(r, i) == Part(0, i)

\* part_generation: names no other publish shares.
Dst(r, i) == Part(r, i)

\* Above the limit the copy is an UploadPartCopy whose failure aborts silently.
\* A failed copy deletes what was copied before it, best effort, and fails.
Copy(r) ==
    /\ pc[r] = "copy" /\ Cardinality(fresh[r]) < Len(parts[r])
    /\ LET i == Cardinality(fresh[r]) + 1
           src == parts[r][i]
           dst == Dst(r, i)
       IN  \E o \in {"ok", "refused", "lost"} :
             LET \* a part copied and then refused stays an open upload at dst
                 \* unless its own abort lands
                 orphan == S3 /\ LargeCopy /\ o = "refused" /\ faults + 1 < MaxFaults
             IN  /\ IF o = "ok"
                    THEN /\ Outcome(o)
                         /\ store' = Put(dst, store[src])
                         /\ fresh' = [fresh EXCEPT ![r] = @ \cup {dst}]
                         /\ UNCHANGED <<ups, pc, out, clean>>
                    ELSE \E K \in SUBSET fresh[r], up \in IF orphan THEN BOOLEAN ELSE {FALSE} :
                         /\ o \in Faults
                         /\ faults' = faults + 1 + (IF K # fresh[r] THEN 1 ELSE 0)
                                             + (IF up THEN 1 ELSE 0)
                         /\ faults' <= MaxFaults
                         /\ store' = LET s == IF o = "lost" THEN Put(dst, store[src]) ELSE store
                                     IN  [x \in DOMAIN s \ K |-> s[x]]
                         /\ ups' = IF up THEN PutUp(dst, store[src]) ELSE ups
                         /\ clean' = [clean EXCEPT ![r] = @ /\ K = fresh[r]]
                         /\ Result(r, "failed") /\ Goto(r, "release") /\ UNCHANGED fresh
    /\ UNCHANGED <<wk, share, got, parts, stale, left, noted, page, crashes>>

Copied(r) ==
    /\ pc[r] = "copy" /\ Cardinality(fresh[r]) = Len(parts[r])
    /\ Goto(r, "sweep")
    /\ UNCHANGED <<store, ups, wk, share, got, parts, stale, fresh, left, out, clean,
                   noted, page, faults, crashes>>

\* Mutant: a part that would not delete is not remembered.
LeftForgotten(L, k, o) == L

\* A previous part whose delete fails is named in the run's error.
LeftOver(L, k, o) == IF o = "ok" THEN L ELSE L \cup {k}

\* The previous generation goes, one own part at a time.
Sweep(r) ==
    /\ pc[r] = "sweep"
    /\ LET todo == {k \in stale[r] \ fresh[r] : IsOwnPart(k)}
       IN  IF todo = {}
           THEN Goto(r, "tidy") /\ UNCHANGED <<store, stale, left, faults>>
           ELSE \E o \in {"ok", "refused"} :
                  LET k == CHOOSE x \in todo : TRUE
                  IN  /\ Outcome(o)
                      /\ store' = IF o = "ok" THEN Del({k}) ELSE store
                      /\ stale' = [stale EXCEPT ![r] = @ \ {k}]
                      /\ left' = [left EXCEPT ![r] = LeftOver(@, k, o)]
                      /\ UNCHANGED pc
    /\ UNCHANGED <<ups, wk, share, got, parts, fresh, out, clean, noted, page, crashes>>

\* The staged parts go, best effort; then GCS drops a previous CSV, best effort.
Tidy(r) ==
    /\ pc[r] = "tidy"
    /\ \E o \in {"ok", "refused"} :
         /\ Outcome(o)
         /\ LET csv == IF Kind = "parquet" /\ left[r] = {} THEN {Csv} ELSE {}
            IN  store' = IF o = "ok" THEN Del(ToSet(parts[r]) \cup csv)
                                     ELSE Del(ToSet(Tail(parts[r])))
         /\ clean' = [clean EXCEPT ![r] = o = "ok"]
    /\ Result(r, IF left[r] = {} THEN "ok" ELSE "left")
    /\ Goto(r, "release")
    /\ UNCHANGED <<ups, wk, share, got, parts, stale, fresh, left, noted, page, crashes>>

\* compose: the CSV appears in one metadata operation.
Compose(r) ==
    /\ pc[r] = "compose"
    /\ \E o \in {"ok", "refused", "lost"} :
         /\ Outcome(o)
         /\ store' = IF Landed(o)
                     THEN Put(Csv, FlattenSeq([i \in 1..Len(parts[r]) |-> store[parts[r][i]]]))
                     ELSE store
         /\ Result(r, IF o = "ok" THEN "ok" ELSE "failed")
         /\ Goto(r, IF o = "ok" THEN "csvtidy" ELSE "release")
    /\ UNCHANGED <<ups, wk, share, got, parts, stale, fresh, left, clean, noted,
                   page, crashes>>

\* Staged parts and the parts of a previous format=parquet run, best effort.
CsvTidy(r) ==
    /\ pc[r] = "csvtidy"
    /\ \E o \in {"ok", "refused"} :
         /\ Outcome(o)
         /\ store' = IF o = "ok"
                     THEN Del(ToSet(parts[r]) \cup {k \in Listing(store) : IsOwnPart(k)})
                     ELSE Del(ToSet(Tail(parts[r])))
         /\ clean' = [clean EXCEPT ![r] = o = "ok"]
    /\ Goto(r, "release")
    /\ UNCHANGED <<ups, wk, share, got, parts, stale, fresh, left, out, noted, page, crashes>>

\* Either outcome ends the run, so the announcement goes either way; an error
\* then takes pipeline::run's arm, which discards.
Release(r) ==
    /\ pc[r] = "release"
    /\ store' = Del({Lock(r)})
    /\ Goto(r, IF out[r] \in {"ok", "empty"} THEN "done" ELSE "discard")
    /\ UNCHANGED <<ups, wk, share, got, parts, stale, fresh, left, out, clean, noted,
                   page, faults, crashes>>

-----------------------------------------------------------------------------
(* discard *)

\* next_part numbered this run's parts: a failed list deletes them by name.
ByName(r) == {Staged(r, w) : w \in {v \in Pipes : wk[r][v] # "new"}}

\* The listing's own failure is not counted against `clean`: the code answers it.
Discard(r) ==
    /\ pc[r] = "discard"
    /\ \E o \in {"ok", "list", "delete"} :
         /\ Outcome(o)
         /\ \E keep \in IF o = "delete" THEN StagingOf(r) ELSE {Lock(r)} :
              store' = CASE o = "ok"     -> Del(StagingOf(r))
                         [] o = "list"   -> Del(ByName(r))
                         [] o = "delete" -> Del(StagingOf(r) \ {keep})
         /\ clean' = [clean EXCEPT ![r] = @ /\ o # "delete"]
    /\ Goto(r, IF S3 THEN "uploads" ELSE "unlock")
    /\ UNCHANGED <<ups, wk, share, got, parts, stale, fresh, left, out, noted, page, crashes>>

\* A marker that is absent, or empty (MinIO), ends the listing; and a listing
\* has an end: PageMax pages are refused.
MorePages(marker, pages) == marker = "key" /\ pages < PageMax

\* The belt: abort what is under this run's own prefix.
Belt(r, K) == DelUp(K)

\* One page of list_multipart_uploads(staging); the aborts follow the last one.
UploadsPage(r) ==
    /\ pc[r] = "uploads" /\ page[r].more
    /\ \E o \in {"ok", "refused"} :
         /\ Outcome(o)
         /\ LET mine  == {k \in DOMAIN ups : k[1] = "staging" /\ k[2] = r /\ k[3] > page[r].after}
                next  == IF mine = {} THEN page[r].after ELSE Min({k[3] : k \in mine})
                marker == CASE \E k \in mine : k[3] > next -> "key"
                            [] MinIO -> "empty"
                            [] OTHER -> "none"
            IN  page' = [page EXCEPT ![r] =
                  [after |-> IF o = "ok" THEN next ELSE 0, pages |-> Min({@.pages + 1, PageMax}),
                   more  |-> o = "ok" /\ MorePages(marker, @.pages + 1)]]
         /\ clean' = [clean EXCEPT ![r] = @ /\ o = "ok"]
    /\ UNCHANGED <<store, ups, pc, wk, share, got, parts, stale, fresh, left, out, noted, crashes>>

UploadsAborted(r) ==
    /\ pc[r] = "uploads" /\ ~page[r].more
    /\ ups' = Belt(r, {k \in DOMAIN ups : k[1] = "staging" /\ k[2] = r /\ k[3] <= page[r].after})
    /\ Goto(r, "unlock")
    /\ UNCHANGED <<store, wk, share, got, parts, stale, fresh, left, out, clean, noted,
                   page, faults, crashes>>

Unlock(r) ==
    /\ pc[r] = "unlock"
    /\ store' = Del({Lock(r)})
    /\ Goto(r, "done")
    /\ UNCHANGED <<ups, wk, share, got, parts, stale, fresh, left, out, clean, noted,
                   page, faults, crashes>>

-----------------------------------------------------------------------------
(* The world *)

Crash(r) ==
    /\ pc[r] \notin {"idle", "done", "dead"} /\ crashes < MaxCrashes
    /\ crashes' = crashes + 1
    /\ Goto(r, "dead")
    /\ UNCHANGED <<store, ups, wk, share, got, parts, stale, fresh, left, out, clean,
                   noted, page, faults>>

\* The operator clears what the refusal names: the segment, its uploads, the lock.
Cleared(r) ==
    /\ pc[r] = "dead"
    /\ store' = Del(StagingOf(r) \cup {Lock(r)})
    /\ ups' = DelUp({k \in DOMAIN ups : k[2] = r})
    /\ Goto(r, "gone")
    /\ UNCHANGED <<wk, share, got, parts, stale, fresh, left, out, clean, noted,
                   page, faults, crashes>>

Step(r) ==
    \/ Announce(r) \/ ScanRefuses(r) \/ ScanPasses(r) \/ PutHeader(r)
    \/ \E w \in Pipes : Open(r, w) \/ Send(r, w) \/ Finish(r, w) \/ Abort(r, w)
    \/ Loaded(r) \/ FinList(r) \/ FinEmpty(r) \/ FinListDir(r) \/ Copy(r) \/ Copied(r)
    \/ Sweep(r) \/ Tidy(r) \/ Compose(r) \/ CsvTidy(r) \/ Release(r)
    \/ Discard(r) \/ UploadsPage(r) \/ UploadsAborted(r) \/ Unlock(r)

Over == \A r \in Runs : pc[r] \in {"done", "gone"}

Next ==
    \/ \E r \in Runs : Step(r) \/ Crash(r) \/ Cleared(r)
    \/ Over /\ UNCHANGED vars

Spec     == Init /\ [][Next]_vars
LiveSpec == Spec /\ \A r \in Runs : WF_vars(Step(r))

-----------------------------------------------------------------------------
(* Properties *)

\* What a reader of the table finds: the rows of its own parts, or of its CSV.
RowsIn(K) == UNION {ToSet(store[k]) : k \in K \cap DOMAIN store}
OwnParts == {k \in Listing(store) : IsOwnPart(k)}
AllRows(r) == UNION {ToSet(RowsOf(r, w)) : w \in Pipes}

\* Publishing never takes away the only whole copy: in every state, a crash in
\* the middle of finalize included, the directory holds every row of the
\* version before it or of a run that loaded in full (finalize_inner: the stale
\* parts go only after the last copy; 0 rows publish nothing).
WholeVersion ==
    \/ Row(0, 1, 1) \in RowsIn(OwnParts) /\ Row(0, 1, 2) \in RowsIn(OwnParts)
    \/ Row(0, 1, 0) \in RowsIn({Csv})
    \/ \E r \in Runs : /\ AllRows(r) # {}
                       /\ AllRows(r) \subseteq RowsIn(OwnParts) \cup RowsIn({Csv})

\* When finalize answers Ok, the destination holds exactly this run's rows,
\* each once: no part of an earlier generation, no part a failed run left, no
\* peer's staging, and a CSV starts with its header (finalize_inner, put_chunk).
OkIsExact ==
    \A r \in Runs : out[r] # "ok" /\ out'[r] = "ok" =>
      IF Kind = "csv"
      THEN /\ Head(store'[Csv]) = HeaderLine(r)
           /\ Cardinality(ToSet(Tail(store'[Csv]))) = Len(Tail(store'[Csv]))
           /\ ToSet(Tail(store'[Csv])) = AllRows(r)
      ELSE LET K == {k \in Listing(store') : IsOwnPart(k)}
               n == MapThenSumSet(LAMBDA k : Len(store'[k]), K)
           IN  /\ UNION {ToSet(store'[k]) : k \in K} = AllRows(r)
               /\ n = Cardinality(AllRows(r))

\* Another destination's parts under the table's directory, and files apitap did
\* not write, survive every sweep (is_own_part).
OthersKept == {Nested, Users} \subseteq DOMAIN store

\* A failed run whose clean-up was answered leaves nothing under its own names:
\* no staged part, no lock, and no upload that keeps billing (discard, the belt,
\* the deletion by name when the listing fails).
NothingLeft ==
    \A r \in Runs : pc[r] = "done" /\ out[r] \in {"failed", "left"} /\ clean[r] =>
        /\ StagingOf(r) = {} /\ Lock(r) \notin DOMAIN store
        /\ S3 => \A k \in DOMAIN ups : k[1] = "staging" => k[2] # r

\* Every run of a live process ends: discard's paging included, whatever marker
\* the server sends with the last page.
Ends == \A r \in Runs : pc[r] = "scan" ~> pc[r] \in {"done", "dead", "gone"}

\* "a failed copy removes what it added and the previous generation stays whole":
\* a run that failed before its sweep leaves no part of its own generation.
FailedCopyRemoves ==
    \A r \in Runs : pc[r] = "done" /\ out[r] = "failed" /\ clean[r] =>
        \A k \in OwnParts : k[2] # r

\* "live error paths go through abort_multipart_noted so an operator hears about
\* the orphan": an upload left behind with parts in it was told to somebody.
OrphansHeard ==
    \A r \in Runs : pc[r] = "done" /\ clean[r] =>
        \A k \in DOMAIN ups : k[2] = r => ups[k] = << >> \/ k \in noted

=============================================================================
