------------------------------ MODULE BqUpload ------------------------------
(***************************************************************************)
(* A BigQuery worker's load (BqLoader in sink/bigquery.rs): rows stream    *)
(* into a resumable upload session, a sealed file becomes a load job that  *)
(* appends to the worker's own staging table, the jobs are polled in the   *)
(* background, and a failed load brings every job to its end before the    *)
(* run's discard drops the staging.                                        *)
(*                                                                         *)
(* A row is its number and stands for its bytes.  The server keeps a       *)
(* session's bytes as the rows it persisted, in order.                     *)
(***************************************************************************)
EXTENDS Naturals, Sequences, FiniteSets

CONSTANTS MaxRows,     \* rows the source delivers
          MaxFiles,    \* files a worker may seal
          Tries,       \* PUTs of one range before the load fails (5 in the code)
          MaxStalls,   \* short answers that are re-sent (3 in the code)
          None

BoundsAssumption ==
    /\ Tries \in Nat \ {0} /\ MaxStalls \in Nat
    /\ None \notin Nat /\ None \notin Seq(Nat) /\ None \notin [rows : Seq(Nat), job : Nat]

VARIABLES outage,   \* whether answers may stay lost through every retry
          ld,       \* the loader
          sess,     \* rows persisted by the open upload session, or None
          jobs,     \* load jobs: rows and state
          staged,  \* the staging table's rows, or None
          wm        \* the staged watermark, shared with finalize

uploadVars == <<outage, ld, sess, jobs, staged, wm>>

UploadInit ==
    /\ outage \in BOOLEAN
    /\ ld = [pc |-> "open", rows |-> 0, file |-> 0, buf |-> <<>>, chunk |-> <<>>,
             offset |-> 0, total |-> None, tries |-> 0, stalls |-> 0, fresh |-> FALSE,
             pending |-> <<>>, sum |-> 0, files |-> 0, ended |-> FALSE]
    /\ sess = None
    /\ jobs = <<>>
    /\ staged = None
    /\ wm = 0

(***************************************************************************)
(* The load: send, drain_aligned, seal_file, put_chunk.                    *)
(***************************************************************************)

\* send: a row goes into the current file's encoder.
SendRow ==
    /\ ld.pc = "open"
    /\ ld.rows < MaxRows
    /\ ld' = [ld EXCEPT !.rows = @ + 1, !.file = @ + 1, !.buf = Append(@, ld.rows + 1)]
    /\ UNCHANGED <<outage, sess, jobs, staged, wm>>

\* begin_session_once: what sits under this worker's name is dropped once.
DropStale == staged' = IF ld.fresh THEN staged ELSE None

\* Open a session, when there is none, and take the buffered bytes.
Begin(total) ==
    /\ DropStale
    /\ sess' = IF sess = None THEN [rows |-> <<>>, job |-> 0] ELSE sess
    /\ ld' = [ld EXCEPT !.pc = "put", !.chunk = ld.buf, !.buf = <<>>, !.total = total,
                        !.tries = 0, !.stalls = 0, !.fresh = TRUE]
    /\ UNCHANGED <<outage, jobs, wm>>

\* drain_aligned: ship what the buffer holds.
Drain ==
    /\ ld.pc = "open"
    /\ ld.buf # <<>>
    /\ Begin(None)

\* seal_file, from a rotation or from commit: the tail is the final PUT.
Seal ==
    /\ ld.pc \in {"open", "finish"}
    /\ ld.file > 0
    /\ ld.files < MaxFiles
    /\ ld.pc = "open" => ld.files + 1 < MaxFiles
    /\ Begin(ld.offset + Len(ld.buf))

\* The rows of the PUT the session may have persisted after it: all, or a
\* prefix that keeps what it already has.
Persistable == {n \in 0..Len(ld.chunk) : ld.offset + n >= Len(sess.rows)}

\* The session after a PUT at the loader's offset of which it persisted n
\* rows; what it has is not appended again, and once it holds the total the
\* file becomes a load job, one only.
After(n) ==
    LET have == Len(sess.rows) - ld.offset
        rows == sess.rows \o SubSeq(ld.chunk, have + 1, n)
        full == ld.total # None /\ Len(rows) = ld.total
    IN  [rows |-> rows,
         job  |-> IF full /\ sess.job = 0 THEN Len(jobs) + 1 ELSE sess.job]

JobsAfter(s) ==
    IF s.job > Len(jobs) THEN Append(jobs, [rows |-> s.rows, st |-> "running"]) ELSE jobs

\* The PUT's answer is lost, or is a throttle: the range is sent again, and
\* after the last try the load fails.
PutLost ==
    /\ ld.pc = "put"
    /\ ld.tries + 1 = Tries => outage
    /\ \E n \in Persistable : sess' = After(n)
    /\ jobs' = JobsAfter(sess')
    /\ ld' = [ld EXCEPT !.tries = @ + 1,
                        !.pc = IF ld.tries + 1 = Tries THEN "quiesce" ELSE "put"]
    /\ UNCHANGED <<outage, staged, wm>>

\* 308 with everything persisted.
PutTaken ==
    /\ ld.pc = "put"
    /\ ld.total = None
    /\ sess' = After(Len(ld.chunk))
    /\ ld' = [ld EXCEPT !.pc = "open", !.offset = @ + Len(ld.chunk), !.chunk = <<>>]
    /\ UNCHANGED <<outage, jobs, staged, wm>>

\* 308 with less than was sent: the rest is sent again from there.
Remainder(n) ==
    [ld EXCEPT !.stalls = @ + 1, !.tries = 0, !.offset = @ + n,
               !.chunk = SubSeq(@, n + 1, Len(@))]

PutShort ==
    /\ ld.pc = "put"
    /\ ld.total = None
    /\ \E n \in Persistable :
          /\ n < Len(ld.chunk)
          /\ sess' = After(n)
          /\ ld' = IF ld.stalls >= MaxStalls THEN [ld EXCEPT !.pc = "quiesce"]
                   ELSE Remainder(n)
    /\ UNCHANGED <<outage, jobs, staged, wm>>

\* 200 to the final PUT: the job is polled in the background.
PutFinal ==
    /\ ld.pc = "put"
    /\ ld.total # None
    /\ LET s == After(Len(ld.chunk))
       IN  /\ jobs' = JobsAfter(s)
           /\ ld' = [ld EXCEPT !.pc = IF ld.ended THEN "finish" ELSE "open",
                               !.chunk = <<>>, !.offset = 0, !.total = None, !.file = 0,
                               !.files = @ + 1,
                               !.pending = Append(@, [job |-> s.job, sent |-> ld.file])]
    /\ sess' = None
    /\ UNCHANGED <<outage, staged, wm>>

\* The source is done: finish seals the last file and awaits the jobs.
SourceEnds ==
    /\ ld.pc = "open"
    /\ ld' = [ld EXCEPT !.pc = "finish", !.ended = TRUE]
    /\ UNCHANGED <<outage, sess, jobs, staged, wm>>

\* Another worker failed, or the source did: abort.
AbortUpload ==
    /\ ld.pc = "open"
    /\ ld' = [ld EXCEPT !.pc = "quiesce"]
    /\ UNCHANGED <<outage, sess, jobs, staged, wm>>

(***************************************************************************)
(* BigQuery: a load job appends to its table, creating it if needed.       *)
(***************************************************************************)

Load(j) ==
    /\ jobs[j].st = "running"
    /\ staged' = (IF staged = None THEN <<>> ELSE staged) \o jobs[j].rows
    /\ jobs' = [jobs EXCEPT ![j].st = "done"]
    /\ UNCHANGED <<outage, ld, sess, wm>>

JobFails(j) ==
    /\ jobs[j].st = "running"
    /\ jobs' = [jobs EXCEPT ![j].st = "failed"]
    /\ UNCHANGED <<outage, ld, sess, staged, wm>>

(***************************************************************************)
(* finish: await_jobs, commit; quiesce and the run's discard.              *)
(***************************************************************************)

AllSealed == ld.file = 0 /\ sess = None

Terminal(j) == jobs[j].st \in {"done", "failed"}

\* The oldest handle leaves the queue as it is awaited.
AwaitDone ==
    /\ ld.pc = "finish" /\ AllSealed
    /\ ld.pending # <<>>
    /\ LET p == Head(ld.pending)
       IN  /\ jobs[p.job].st = "done"
           /\ Len(jobs[p.job].rows) = p.sent
           /\ ld' = [ld EXCEPT !.pending = Tail(@), !.sum = @ + p.sent]
    /\ UNCHANGED <<outage, sess, jobs, staged, wm>>

\* The job failed, its rows do not add up, or (in an outage) its poll did.
AwaitFails ==
    /\ ld.pc = "finish" /\ AllSealed
    /\ ld.pending # <<>>
    /\ LET p == Head(ld.pending)
       IN  \/ outage
           \/ jobs[p.job].st = "failed"
           \/ jobs[p.job].st = "done" /\ Len(jobs[p.job].rows) # p.sent
    /\ ld' = [ld EXCEPT !.pending = Tail(@), !.pc = "quiesce"]
    /\ UNCHANGED <<outage, sess, jobs, staged, wm>>

CommitUnawaited ==
    /\ ld.pc = "finish" /\ AllSealed
    /\ wm' = ld.rows
    /\ ld' = [ld EXCEPT !.pc = "loaded"]
    /\ UNCHANGED <<outage, sess, jobs, staged>>

\* commit: every job landed what was sent; only now the watermark moves.
Commit ==
    /\ ld.pc = "finish" /\ AllSealed
    /\ ld.pending = <<>>
    /\ IF ld.sum = ld.rows
       THEN /\ wm' = ld.rows
            /\ ld' = [ld EXCEPT !.pc = "loaded"]
       ELSE /\ UNCHANGED wm
            /\ ld' = [ld EXCEPT !.pc = "quiesce"]
    /\ UNCHANGED <<outage, sess, jobs, staged>>

\* quiesce: the job is cancelled and then awaited to its end; the poll that
\* proves it fails only in an outage.
Settle ==
    /\ ld.pc = "quiesce"
    /\ ld.pending # <<>>
    /\ outage \/ Terminal(Head(ld.pending).job)
    /\ ld' = [ld EXCEPT !.pending = Tail(@)]
    /\ UNCHANGED <<outage, sess, jobs, staged, wm>>

\* quiesce: the session is deleted, so BigQuery makes no job of it.
Quiesced ==
    /\ ld.pc = "quiesce"
    /\ ld.pending = <<>>
    /\ sess' = None
    /\ ld' = [ld EXCEPT !.pc = "failed"]
    /\ UNCHANGED <<outage, jobs, staged, wm>>

\* The run's discard drops the staging.
DiscardStaging ==
    /\ ld.pc = "failed"
    /\ staged' = None
    /\ ld' = [ld EXCEPT !.pc = "discarded"]
    /\ UNCHANGED <<outage, sess, jobs, wm>>

UploadOver == ld.pc \in {"loaded", "discarded"} /\ UNCHANGED uploadVars

UploadNext ==
    \/ SendRow \/ Drain \/ Seal
    \/ PutLost \/ PutTaken \/ PutShort \/ PutFinal
    \/ SourceEnds \/ AbortUpload
    \/ \E j \in DOMAIN jobs : Load(j) \/ JobFails(j)
    \/ AwaitDone \/ AwaitFails \/ Commit
    \/ Settle \/ Quiesced \/ DiscardStaging
    \/ UploadOver

UploadSpec == UploadInit /\ [][UploadNext]_uploadVars

(***************************************************************************)
(* What makes the loader correct.                                          *)
(***************************************************************************)

\* Every variable has its type.
UploadTypeOK ==
    /\ outage \in BOOLEAN
    /\ ld \in [pc : {"open", "put", "finish", "quiesce", "loaded", "failed", "discarded"},
               rows : Nat, file : Nat, buf : Seq(Nat), chunk : Seq(Nat),
               offset : Nat, total : Nat \cup {None}, tries : Nat, stalls : Nat,
               fresh : BOOLEAN, pending : Seq([job : Nat, sent : Nat]),
               sum : Nat, files : Nat, ended : BOOLEAN]
    /\ sess \in {None} \cup [rows : Seq(Nat), job : Nat]
    /\ jobs \in Seq([rows : Seq(Nat), st : {"running", "done", "failed"}])
    /\ staged \in {None} \cup Seq(Nat)
    /\ wm \in Nat

\* A success staged every row once, and only then is there a staged watermark.
OnceStaged ==
    /\ ld.pc = "loaded" =>
         /\ staged # None \/ ld.rows = 0
         /\ ld.rows > 0 => /\ Len(staged) = ld.rows
                           /\ {staged[i] : i \in DOMAIN staged} = 1..ld.rows
    /\ wm > 0 => ld.pc = "loaded"

\* A session never holds bytes out of order: re-sending from the persisted
\* offset leaves neither a gap nor a repeat inside a file.
FileInOrder ==
    \A j \in DOMAIN jobs : \A i \in 1..Len(jobs[j].rows) - 1 :
        jobs[j].rows[i + 1] = jobs[j].rows[i] + 1

\* "What must NOT happen is a job outliving discard and re-creating a dropped
\* table": after discard there is no staging.
StaysDropped == ld.pc = "discarded" => staged = None

\* A BigQuery load that reports success staged every row it was sent exactly once and in
\* the file's order, whatever was re-sent, cut short or answered late; and where answers
\* arrive in the end no job outlives discard (put_chunk, await_jobs, quiesce).
StagedExactly == OnceStaged /\ FileInOrder /\ (~outage => StaysDropped)
=============================================================================
