----------------------------- MODULE IceCommit -----------------------------
(***************************************************************************)
(* The Iceberg bulk sink (sink/iceberg.rs): one loader streams a data file *)
(* (and, in merge mode, the delete file beside it) as multipart uploads,   *)
(* and finalize publishes them with an optimistic commit to a REST         *)
(* catalog.  An answer may be lost, and a request whose answer was lost    *)
(* may still be applied later.                                             *)
(*                                                                         *)
(* A snapshot's content is the set of writers whose files it references.   *)
(* The snapshot id <<w, a>> is writer w's attempt a: the id is the         *)
(* client's own choice, which is what an ambiguous answer is settled by.   *)
(***************************************************************************)
EXTENDS Naturals, FiniteSets

CONSTANTS Writers,     \* runs that load the same table
          Modes,       \* how they may load it, one function per race
          MaxEvolve,   \* how often another client evolves the schema
          NoSnap       \* the table has no current snapshot

Attempts == 3
Ids == Writers \X (1..Attempts)

IceAssumption ==
    /\ Modes \subseteq [Writers -> {"append", "merge", "replace", "flipped"}]
    /\ NoSnap \notin Ids

VARIABLES mode,    \* how each writer loads
          table,   \* the catalog's entry
          objs,    \* completed objects in storage
          ups,     \* open multipart uploads
          run,     \* each writer's local state
          wire     \* commit requests the catalog has not applied or refused

commitVars == <<mode, table, objs, ups, run, wire>>

Kinds(w) == IF mode[w] = "merge" THEN {"data", "del"} ELSE {"data"}

Files(w) == {<<w, k>> : k \in Kinds(w)}

CommitInit ==
    /\ mode \in Modes
    /\ table = [cur |-> NoSnap, snaps |-> [i \in {} |-> NoSnap], schema |-> 0, wm |-> {}]
    /\ objs = {}
    /\ ups = {}
    /\ run = [w \in Writers |->
                [pc |-> "new", rows |-> 0, listed |-> FALSE, att |-> 0, amb |-> FALSE,
                 meta |-> table, schema0 |-> 0, end |-> "none"]]
    /\ wire = {}

Content(t) == IF t.cur = NoSnap THEN {} ELSE t.snaps[t.cur].files

(***************************************************************************)
(* The loader.                                                             *)
(***************************************************************************)

\* prepare + loader: the metadata the load began with, and the uploads.
Prepare(w) ==
    /\ run[w].pc = "new"
    /\ run' = [run EXCEPT ![w].pc = "load", ![w].meta = table,
                          ![w].schema0 = table.schema]
    /\ ups' = ups \cup Files(w)
    /\ UNCHANGED <<table, objs, wire>>

\* Aborting an upload is best effort: any of them may stay open.
FailedLoad(w, keep) ==
    /\ keep \subseteq Files(w)
    /\ ups' = (ups \ Files(w)) \cup keep
    /\ run' = [run EXCEPT ![w].pc = "fail"]

\* The footer failed, the companion's keys are not one per row, or the
\* worker was stopped: both uploads are aborted, nothing completed.
LoadAborted(w) ==
    /\ run[w].pc = "load"
    /\ Files(w) \subseteq ups
    /\ \E keep \in SUBSET Files(w) : FailedLoad(w, keep)
    /\ UNCHANGED <<table, objs, wire>>

\* A worker that saw no row lands no file.
LoadEmpty(w) ==
    /\ run[w].pc = "load"
    /\ Files(w) \subseteq ups
    /\ \E keep \in SUBSET Files(w) : ups' = (ups \ Files(w)) \cup keep
    /\ run' = [run EXCEPT ![w].pc = "final"]
    /\ UNCHANGED <<table, objs, wire>>

\* The delete file did not complete: the data upload is aborted.
DelFails(w) ==
    /\ run[w].pc = "load"
    /\ <<w, "del">> \in ups
    /\ \E keep \in SUBSET Files(w) : FailedLoad(w, keep)
    /\ UNCHANGED <<table, objs, wire>>

\* The delete file completes first; it is not referenced yet.
DelCompletes(w) ==
    /\ run[w].pc = "load"
    /\ <<w, "del">> \in ups
    /\ ups' = ups \ {<<w, "del">>}
    /\ objs' = objs \cup {<<w, "del">>}
    /\ UNCHANGED <<table, run, wire>>

DataReady(w) == run[w].pc = "load" /\ <<w, "del">> \notin ups

\* The data file did not complete: the delete file beside it is deleted.
DataFails(w) ==
    /\ DataReady(w)
    /\ \E keep \in SUBSET {<<w, "data">>} : FailedLoad(w, keep)
    /\ objs' = objs \ {<<w, "del">>}
    /\ UNCHANGED <<table, wire>>

DataCompletes(w) ==
    /\ DataReady(w)
    /\ ups' = ups \ Files(w)
    /\ objs' = objs \cup {<<w, "data">>}
    /\ run' = [run EXCEPT ![w].pc = "final", ![w].rows = 1, ![w].listed = TRUE]
    /\ UNCHANGED <<table, wire>>

\* A sibling worker failed after this one listed its file: no finalize.
PeerWorkerFails(w) ==
    /\ run[w].pc = "final"
    /\ run' = [run EXCEPT ![w].pc = "fail"]
    /\ UNCHANGED <<table, objs, ups, wire>>

\* discard: abort every upload under the run's prefix, sweep the list.
DiscardFiles(w) ==
    /\ run[w].pc = "fail"
    /\ ups' = ups \ Files(w)
    /\ objs' = IF run[w].listed THEN objs \ Files(w) ELSE objs
    /\ run' = [run EXCEPT ![w].pc = "over", ![w].listed = FALSE,
                          ![w].end = IF @ = "none" THEN "err" ELSE @]
    /\ UNCHANGED <<table, wire>>

(***************************************************************************)
(* finalize and its commit loop.                                           *)
(***************************************************************************)

\* finalize takes the list; with no rows it sweeps it and reports success.
FinalizeEmpty(w) ==
    /\ run[w].pc = "final"
    /\ run[w].rows = 0
    /\ objs' = IF run[w].listed THEN objs \ Files(w) ELSE objs
    /\ run' = [run EXCEPT ![w].pc = "over", ![w].listed = FALSE, ![w].end = "empty"]
    /\ UNCHANGED <<table, ups, wire>>

FinalizeFiles(w) ==
    /\ run[w].pc = "final"
    /\ run[w].rows > 0
    /\ run' = [run EXCEPT ![w].pc = "try", ![w].listed = FALSE]
    /\ UNCHANGED <<table, objs, ups, wire>>

\* finalize's end: success, an unknown outcome that sweeps nothing, or a
\* definite failure that sweeps this run's files.  The pipeline discards a
\* run that reported an error.
Ends(w, how) ==
    /\ objs' = IF how = "err" THEN objs \ Files(w) ELSE objs
    /\ run' = [run EXCEPT ![w].end = how,
                          ![w].pc = IF how = "done" THEN "over" ELSE "fail"]

\* commit: a failure once an attempt was ambiguous is not a definite one.
ErrAs(w) == IF run[w].amb THEN "unknown" ELSE "err"

Tried(w) == {<<w, a>> : a \in 1..run[w].att}

LastTried(w, t) == <<w, run[w].att>> \in DOMAIN t.snaps

Landed(w, t) == Tried(w) \cap DOMAIN t.snaps # {}

Flipped(w) == mode[w] = "flipped"

SchemaMoved(w) == run[w].meta.schema # run[w].schema0

\* A first load that would overwrite what a peer published meanwhile.
WouldOverwrite(w) ==
    /\ Flipped(w)
    /\ run[w].meta.cur # NoSnap
    /\ run[w].meta.cur \notin Tried(w)

\* The loop's own refusals, and a manifest that could not be read or put.
AttemptFails(w) ==
    /\ run[w].pc = "try"
    /\ Ends(w, ErrAs(w))
    /\ UNCHANGED <<table, ups, wire>>

\* The files a snapshot of w lists: append and merge carry the parent's.
Manifests(w, m) ==
    IF mode[w] \in {"append", "merge"} THEN Content(m) \cup {w} ELSE {w}

\* The watermark properties after the commit: a replace strips every
\* source's; a flipped bootstrap keeps and sets its own.
WmAfter(w, m) ==
    CASE mode[w] = "replace" -> {}
      [] mode[w] = "flipped" -> {w}
      [] OTHER -> m.wm \cup {w}

Request(w, m) ==
    [id |-> <<w, run[w].att + 1>>, parent |-> m.cur, schema |-> run[w].schema0,
     files |-> Manifests(w, m), wm |-> WmAfter(w, m), st |-> "open"]

\* One attempt: a fresh snapshot id, manifests put, the commit posted.
Attempt(w) ==
    /\ run[w].pc = "try"
    /\ ~SchemaMoved(w)
    /\ ~WouldOverwrite(w)
    /\ wire' = wire \cup {Request(w, run[w].meta)}
    /\ run' = [run EXCEPT ![w].pc = "sent", ![w].att = @ + 1]
    /\ UNCHANGED <<table, objs, ups>>

Mine(w) == CHOOSE r \in wire : r.id = <<w, run[w].att>>

\* The catalog: the requirements are checked and the updates applied as one.
Requirements(r) == r.parent = table.cur /\ r.schema = table.schema

Apply(r) ==
    /\ r.st = "open"
    /\ Requirements(r)
    /\ table' = [table EXCEPT !.cur = r.id, !.wm = r.wm,
                   !.snaps = [i \in DOMAIN @ \cup {r.id} |->
                                IF i = r.id THEN [files |-> r.files, wrote |-> r.schema,
                                                  schema |-> table.schema]
                                            ELSE @[i]]]
    /\ wire' = (wire \ {r}) \cup {[r EXCEPT !.st = "applied"]}
    /\ UNCHANGED <<objs, ups, run>>

Refuse(r) ==
    /\ r.st = "open"
    /\ ~Requirements(r)
    /\ wire' = (wire \ {r}) \cup {[r EXCEPT !.st = "refused"]}
    /\ UNCHANGED <<table, objs, ups, run>>

\* Another client evolves the schema (not this program).
Evolve ==
    /\ table.schema < MaxEvolve
    /\ table' = [table EXCEPT !.schema = @ + 1]
    /\ UNCHANGED <<objs, ups, run, wire>>

\* 2xx
AnswerDone(w) ==
    /\ run[w].pc = "sent"
    /\ Mine(w).st = "applied"
    /\ Ends(w, "done")
    /\ UNCHANGED <<table, ups, wire>>

\* 409 | 412
AnswerConflict(w) ==
    /\ run[w].pc = "sent"
    /\ Mine(w).st = "refused"
    /\ run' = [run EXCEPT ![w].pc = "conflict"]
    /\ UNCHANGED <<table, objs, ups, wire>>

\* Another 4xx: the catalog did not and will not apply the request.
AnswerFailed(w) ==
    /\ run[w].pc = "sent"
    /\ Mine(w).st = "open"
    /\ wire' = wire \ {Mine(w)}
    /\ Ends(w, ErrAs(w))
    /\ UNCHANGED <<table, ups>>

\* 5xx, 408, 429 or a lost connection, whatever became of the request.
AnswerUnknown(w) ==
    /\ run[w].pc = "sent"
    /\ run' = [run EXCEPT ![w].pc = "unknown"]
    /\ UNCHANGED <<table, objs, ups, wire>>

\* The reload failed, or found no table: the outcome is unknown.
ReloadFails(w) ==
    /\ run[w].pc \in {"conflict", "unknown"}
    /\ Ends(w, "unknown")
    /\ UNCHANGED <<table, ups, wire>>

\* The reload shows that one of this run's attempts landed.
ReloadLanded(w) ==
    /\ run[w].pc \in {"conflict", "unknown"}
    /\ Landed(w, table)
    /\ Ends(w, "done")
    /\ UNCHANGED <<table, ups, wire>>

\* None landed: try again on the fresh metadata, or give up after the last.
ReloadRetries(w) ==
    /\ run[w].pc \in {"conflict", "unknown"}
    /\ ~Landed(w, table)
    /\ LET amb == run[w].amb \/ run[w].pc = "unknown"
       IN  IF run[w].att < Attempts
           THEN /\ run' = [run EXCEPT ![w].pc = "try", ![w].meta = table, ![w].amb = amb]
                /\ UNCHANGED objs
           ELSE /\ objs' = IF amb THEN objs ELSE objs \ Files(w)
                /\ run' = [run EXCEPT ![w].pc = "fail", ![w].amb = amb,
                                      ![w].end = IF amb THEN "unknown" ELSE "err"]
    /\ UNCHANGED <<table, ups, wire>>

Over == \A w \in Writers : run[w].pc = "over"

Done == Over /\ UNCHANGED commitVars

WriterNext(w) ==
    \/ Prepare(w) \/ LoadAborted(w) \/ LoadEmpty(w)
    \/ DelFails(w) \/ DelCompletes(w) \/ DataFails(w) \/ DataCompletes(w)
    \/ PeerWorkerFails(w) \/ DiscardFiles(w)
    \/ FinalizeEmpty(w) \/ FinalizeFiles(w)
    \/ AttemptFails(w) \/ Attempt(w)
    \/ AnswerDone(w) \/ AnswerConflict(w) \/ AnswerFailed(w) \/ AnswerUnknown(w)
    \/ ReloadFails(w) \/ ReloadLanded(w) \/ ReloadRetries(w)

CommitNext ==
    /\ UNCHANGED mode
    /\ \/ \E w \in Writers : WriterNext(w)
       \/ \E r \in wire : Apply(r) \/ Refuse(r)
       \/ Evolve
       \/ Done

CommitSpec == CommitInit /\ [][CommitNext]_commitVars

(***************************************************************************)
(* What makes the sink correct.                                            *)
(***************************************************************************)

\* Every variable has its type: the table's current snapshot is one of its
\* snapshots, and no writer is past the loop's last attempt.
CommitTypeOK ==
    /\ table.cur \in DOMAIN table.snaps \cup {NoSnap}
    /\ DOMAIN table.snaps \subseteq Ids
    /\ table.wm \subseteq Writers
    /\ objs \subseteq Writers \X {"data", "del"}
    /\ ups \subseteq Writers \X {"data", "del"}
    /\ \A w \in Writers : run[w].att \in 0..Attempts
    /\ \A r \in wire : r.id \in Ids /\ r.st \in {"open", "applied", "refused"}

\* No cleanup path deletes an object a committed snapshot references, however
\* late that snapshot landed (the rule of CommitEnd::Unknown, finalize's taken
\* list and snapshot_landed together).
NoDangling ==
    \A i \in DOMAIN table.snaps : \A w \in table.snaps[i].files : Files(w) \subseteq objs

\* A load's content is committed at most once: the retry after an ambiguous
\* answer never lands beside an earlier attempt that landed late (`tried`).
OnceOnly ==
    \A w \in Writers : Cardinality({i \in DOMAIN table.snaps : i[1] = w}) <= 1

\* What the run reports is what happened: a success has a snapshot, a definite
\* failure has none and can get none from a request still on the wire.
Reported ==
    \A w \in Writers :
        /\ run[w].end = "done" => \E i \in DOMAIN table.snaps : i[1] = w
        /\ run[w].end = "err" =>
             /\ \A i \in DOMAIN table.snaps : i[1] # w
             /\ \A r \in wire : r.id[1] = w => r.st # "open" \/ ~Requirements(r)

\* A watermark property stands only while the rows it speaks of are in the
\* current snapshot: both ride one commit, and a replace strips every one.
WatermarkHasRows == \A w \in table.wm : w \in Content(table)

\* A run that ended with a definite failure leaves no object and no open upload
\* behind: finalize's sweep, the loader's aborts and discard's belt together.  (An
\* ambiguous one leaves its files, which its commit may have landed with.)
NothingLeft ==
    \A w \in Writers : run[w].pc = "over" /\ run[w].end = "err" =>
        \A k \in Kinds(w) : <<w, k>> \notin objs /\ <<w, k>> \notin ups

\* A snapshot is committed only under the schema its files were written for,
\* even when another client evolves it between the reload and the commit.
WrittenForSchema ==
    \A i \in DOMAIN table.snaps : table.snaps[i].wrote = table.snaps[i].schema

\* What a loaded Iceberg table promises at every moment.
IceOnce ==
    /\ OnceOnly /\ NoDangling /\ Reported
    /\ WrittenForSchema /\ WatermarkHasRows /\ NothingLeft

\* Only a replace takes a peer's rows out of the current snapshot: an append
\* and a merge carry the parent's manifests, a flipped bootstrap refuses.
KeepsPeers ==
    table'.cur # table.cur =>
        \/ mode[table'.cur[1]] = "replace"
        \/ Content(table) \subseteq Content(table')
=============================================================================
