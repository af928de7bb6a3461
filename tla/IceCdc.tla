------------------------------- MODULE IceCdc -------------------------------
(***************************************************************************)
(* A log_based group into Iceberg (logbased/dest_ice.rs, the CDC half of   *)
(* sink/iceberg.rs, and the drain's start and confirmation in run.rs).     *)
(* The destination is not guarded: no lease fences a request that a dead   *)
(* run left on the wire.  A window lands as one snapshot with the          *)
(* watermark; an idle table's watermark is stamped by a commit of its own, *)
(* at most once per IDLE_STAMP_EVERY.                                      *)
(*                                                                         *)
(* The source log is a sequence of changes; a row image is the position of *)
(* the change that wrote it, 0 when there is none.  The log is fixed at    *)
(* the start; how much of it the source has written is chosen when a run   *)
(* asks for its stop line.                                                 *)
(***************************************************************************)
EXTENDS Integers, Sequences, FiniteSets

CONSTANTS Tables, Keys,
          Truncate,     \* stands for a key in a change that empties the table
          MaxLog,       \* changes the source commits
          MaxRuns,      \* drain runs
          MaxLate,      \* requests left unapplied by a run that stopped listening
          NoSnap

VARIABLES log,      \* the source's changes: [t, k]
          slot,     \* the slot's confirmed position
          ice,      \* each table in the catalog
          files,    \* window objects in storage
          wire,     \* requests that may still be applied
          late,     \* how many of them no run listened to the end of
          run,      \* the drain run
          refused   \* a start found a watermark behind the slot

vars == <<log, slot, ice, files, wire, late, run, refused>>

Attempts == 3

Changes == [t : Tables, k : Keys \cup {Truncate}]

MinOf(S) == CHOOSE x \in S : \A y \in S : x <= y

Empty == [k \in Keys |-> 0]

\* What changes lo+1..hi of the log make of a table's rows c.
Replay(c, t, lo, hi) ==
    LET cut == {p \in lo + 1 .. hi : log[p].t = t /\ log[p].k = Truncate}
        from == IF cut = {} THEN lo ELSE CHOOSE p \in cut : \A q \in cut : q <= p
        last(k) == {p \in from + 1 .. hi : log[p].t = t /\ log[p].k = k}
    IN  [k \in Keys |->
            IF last(k) # {} THEN CHOOSE p \in last(k) : \A q \in last(k) : q <= p
            ELSE IF cut # {} THEN 0 ELSE c[k]]

StateAt(t, p) == Replay(Empty, t, 0, p)

Asleep == [on |-> FALSE, n |-> 0, floor |-> [t \in Tables |-> 0], cur |-> 0, stop |-> 0,
        end |-> 0, todo |-> {}, t |-> NoSnap, pc |-> "off", meta |-> NoSnap, att |-> 0,
        amb |-> FALSE, stamped |-> {}]

\* Bootstrapped: every table was loaded and stamped at position 0.
Init ==
    /\ log \in [1..MaxLog -> Changes]
    /\ slot = 0
    /\ ice = [t \in Tables |-> [cur |-> NoSnap, snaps |-> {}, rows |-> Empty,
                                refs |-> {}, wm |-> 0]]
    /\ files = {}
    /\ wire = {}
    /\ late = 0
    /\ run = Asleep
    /\ refused = FALSE

(***************************************************************************)
(* The drain: start, windows, confirmation.                                *)
(***************************************************************************)

Floors == [t \in Tables |-> ice[t].wm]

GroupWm == MinOf({ice[t].wm : t \in Tables})

\* The pass stops at the next member watermark above the minimum.
member_cap(min, floors) ==
    LET above == {floors[t] : t \in Tables} \cap {p \in 0..MaxLog : p > min}
    IN  IF above = {} THEN MaxLog ELSE MinOf(above)

\* Start: refuse a watermark behind the slot, else stream from the minimum.
StartRefused ==
    /\ ~run.on
    /\ run.n < MaxRuns
    /\ GroupWm < slot
    /\ refused' = TRUE
    /\ run' = [run EXCEPT !.n = @ + 1]
    /\ UNCHANGED <<log, late, slot, ice, files, wire>>

Start ==
    /\ ~run.on
    /\ run.n < MaxRuns
    /\ GroupWm >= slot
    /\ \E walEnd \in GroupWm .. MaxLog :
          LET cap == member_cap(GroupWm, Floors)
              stop == IF cap < walEnd THEN cap ELSE walEnd
          IN  run' = [Asleep EXCEPT !.on = TRUE, !.n = run.n + 1, !.floor = Floors,
                              !.cur = GroupWm, !.stop = stop, !.pc = "drain"]
    /\ UNCHANGED <<log, late, slot, ice, files, wire, refused>>

\* A window ends at the stop line, or earlier when the budget is hit.
Window ==
    /\ run.pc = "drain"
    /\ \E end \in run.cur + 1 .. run.stop :
          run' = [run EXCEPT !.end = end, !.pc = "apply",
                             !.todo = {t \in Tables : end > run.floor[t]}]
    /\ UNCHANGED <<log, late, slot, ice, files, wire, refused>>

\* Every member has the window: the slot is confirmed to its end.
Confirm ==
    /\ run.pc = "apply"
    /\ run.todo = {}
    /\ slot' = run.end
    /\ run' = [run EXCEPT !.cur = run.end, !.pc = "drain"]
    /\ UNCHANGED <<log, late, ice, files, wire, refused>>

Stop ==
    /\ run.pc = "drain"
    /\ run.cur >= run.stop
    /\ run' = [Asleep EXCEPT !.n = run.n]
    /\ UNCHANGED <<log, late, slot, ice, files, wire, refused>>

\* A run that is over: what it left on the wire stays there.
Ended == [Asleep EXCEPT !.n = run.n]

(***************************************************************************)
(* One member's window.                                                    *)
(***************************************************************************)

Traffic(t) == \E p \in run.cur + 1 .. run.end : log[p].t = t

FileOf(t) == <<run.n, t, run.end>>

\* Nothing for this table, and its stamp is not due.
IdleSkip(t) ==
    /\ run.pc = "apply"
    /\ t \in run.todo
    /\ ~Traffic(t)
    /\ t \in run.stamped
    /\ run' = [run EXCEPT !.todo = @ \ {t}]
    /\ UNCHANGED <<log, late, slot, ice, files, wire, refused>>

\* Nothing for this table: the watermark alone (cdc_set_watermark).
IdleStamp(t) ==
    /\ run.pc = "apply"
    /\ t \in run.todo
    /\ ~Traffic(t)
    /\ t \notin run.stamped
    /\ wire' = wire \cup {[kind |-> "stamp", t |-> t, id |-> <<run.n, run.end, 0>>,
                           wm |-> run.end, st |-> "open"]}
    /\ run' = [run EXCEPT !.pc = "stamp", !.t = t]
    /\ UNCHANGED <<log, late, slot, ice, files, refused>>

\* IDLE_STAMP_EVERY elapses.
Minute ==
    /\ run.on
    /\ run.stamped # {}
    /\ run' = [run EXCEPT !.stamped = {}]
    /\ UNCHANGED <<log, late, slot, ice, files, wire, refused>>

\* A table with traffic: bind loads its metadata; its objects are put.
Bind(t) ==
    /\ run.pc = "apply"
    /\ t \in run.todo
    /\ Traffic(t)
    /\ files' = files \cup {FileOf(t)}
    /\ run' = [run EXCEPT !.pc = "try", !.t = t, !.meta = ice[t], !.att = 0, !.amb = FALSE]
    /\ UNCHANGED <<log, late, slot, ice, wire, refused>>

HasTruncate(t) == \E p \in run.cur + 1 .. run.end : log[p] = [t |-> t, k |-> Truncate]

\* The snapshot over parent m: the window's deletes and rows over what the
\* carried manifests hold; a truncate carries none.
WindowRows(m, t) == Replay(m.rows, t, run.cur, run.end)

Carried(m, t) == IF HasTruncate(t) THEN {FileOf(t)} ELSE m.refs \cup {FileOf(t)}

WmOf(t) == run.end

Attempt ==
    /\ run.pc = "try"
    /\ wire' = wire \cup
         {[kind |-> "snap", t |-> run.t, id |-> <<run.n, run.end, run.att + 1>>,
           parent |-> run.meta.cur, rows |-> WindowRows(run.meta, run.t),
           refs |-> Carried(run.meta, run.t), wm |-> WmOf(run.t), st |-> "open"]}
    /\ run' = [run EXCEPT !.pc = "sent", !.att = @ + 1]
    /\ UNCHANGED <<log, late, slot, ice, files, refused>>

\* cdc_commit: the objects go only after a definite failure.
Swept == IF run.amb THEN files ELSE files \ {FileOf(run.t)}

\* The schema moved, or a manifest could not be read or put.
AttemptFails ==
    /\ run.pc = "try"
    /\ files' = Swept
    /\ run' = Ended
    /\ UNCHANGED <<log, late, slot, ice, wire, refused>>

Awaited(r) ==
    /\ run.pc \in {"sent", "stamp"}
    /\ r.t = run.t
    /\ r.id = <<run.n, run.end, IF run.pc = "stamp" THEN 0 ELSE run.att>>

Mine == CHOOSE r \in wire : Awaited(r)

\* Bound: how many requests outlive the run's interest in their answer.
MayGiveUp == Mine.st = "open" => late < MaxLate

\* The answer is read, or lost; an unapplied request stays on the wire.
Read ==
    /\ wire' = IF Mine.st = "open" THEN wire ELSE wire \ {Mine}
    /\ late' = IF Mine.st = "open" THEN late + 1 ELSE late

\* The process dies.
Die ==
    /\ run.on
    /\ run.pc \in {"sent", "stamp"} => MayGiveUp
    /\ run' = Ended
    /\ IF run.pc \in {"sent", "stamp"} THEN Read ELSE UNCHANGED <<wire, late>>
    /\ UNCHANGED <<log, slot, ice, files, refused>>

MemberDone(stamped) ==
    run' = [run EXCEPT !.pc = "apply", !.todo = @ \ {run.t}, !.stamped = stamped]

AnswerStamped ==
    /\ run.pc = "stamp"
    /\ Mine.st = "applied"
    /\ MemberDone(run.stamped \cup {run.t})
    /\ Read
    /\ UNCHANGED <<log, slot, ice, files, refused>>

\* An unknown answer to a stamp fails the run; nothing can settle it.
AnswerStampUnknown ==
    /\ run.pc = "stamp"
    /\ MayGiveUp
    /\ run' = Ended
    /\ Read
    /\ UNCHANGED <<log, slot, ice, files, refused>>

AnswerDone ==
    /\ run.pc = "sent"
    /\ Mine.st = "applied"
    /\ MemberDone(run.stamped)
    /\ Read
    /\ UNCHANGED <<log, slot, ice, files, refused>>

AnswerConflict ==
    /\ run.pc = "sent"
    /\ Mine.st = "refused"
    /\ run' = [run EXCEPT !.pc = "conflict"]
    /\ Read
    /\ UNCHANGED <<log, slot, ice, files, refused>>

AnswerUnknown ==
    /\ run.pc = "sent"
    /\ MayGiveUp
    /\ run' = [run EXCEPT !.pc = "unknown"]
    /\ Read
    /\ UNCHANGED <<log, slot, ice, files, refused>>

AnswerFailed ==
    /\ run.pc = "sent"
    /\ Mine.st = "open"
    /\ wire' = wire \ {Mine}
    /\ files' = Swept
    /\ run' = Ended
    /\ UNCHANGED <<log, late, slot, ice, refused>>

Landed == \E a \in 1..run.att : <<run.n, run.end, a>> \in ice[run.t].snaps

ReloadFails ==
    /\ run.pc \in {"conflict", "unknown"}
    /\ run' = Ended
    /\ UNCHANGED <<log, late, slot, ice, files, wire, refused>>

ReloadLanded ==
    /\ run.pc \in {"conflict", "unknown"}
    /\ Landed
    /\ MemberDone(run.stamped)
    /\ UNCHANGED <<log, late, slot, ice, files, wire, refused>>

ReloadRetries ==
    /\ run.pc \in {"conflict", "unknown"}
    /\ ~Landed
    /\ LET amb == run.amb \/ run.pc = "unknown"
       IN  IF run.att < Attempts
           THEN /\ run' = [run EXCEPT !.pc = "try", !.meta = ice[run.t], !.amb = amb]
                /\ UNCHANGED files
           ELSE /\ files' = IF amb THEN files ELSE files \ {FileOf(run.t)}
                /\ run' = Ended
    /\ UNCHANGED <<log, late, slot, ice, wire, refused>>

(***************************************************************************)
(* The catalog.                                                            *)
(***************************************************************************)

\* A snapshot requires its parent to be current; a stamp only the table.
Requirements(r) == r.kind = "snap" => r.parent = ice[r.t].cur

\* The answer waits for the run that still listens.
Answered(r, st) == (wire \ {r}) \cup IF Awaited(r) THEN {[r EXCEPT !.st = st]} ELSE {}

Apply(r) ==
    /\ r.st = "open"
    /\ Requirements(r)
    /\ ice' = [ice EXCEPT ![r.t] =
                 IF r.kind = "stamp" THEN [@ EXCEPT !.wm = r.wm]
                 ELSE [cur |-> r.id, snaps |-> @.snaps \cup {r.id}, rows |-> r.rows,
                       refs |-> r.refs, wm |-> r.wm]]
    /\ wire' = Answered(r, "applied")
    /\ UNCHANGED <<log, late, slot, files, run, refused>>

Refuse(r) ==
    /\ r.st = "open"
    /\ ~Requirements(r)
    /\ wire' = Answered(r, "refused")
    /\ UNCHANGED <<log, late, slot, ice, files, run, refused>>

Over ==
    /\ ~run.on
    /\ run.n = MaxRuns
    /\ UNCHANGED vars

Next ==
    \/ StartRefused \/ Start \/ Window \/ Confirm \/ Stop \/ Die \/ Minute
    \/ \E t \in Tables : IdleSkip(t) \/ IdleStamp(t) \/ Bind(t)
    \/ Attempt \/ AttemptFails
    \/ AnswerStamped \/ AnswerStampUnknown
    \/ AnswerDone \/ AnswerConflict \/ AnswerUnknown \/ AnswerFailed
    \/ ReloadFails \/ ReloadLanded \/ ReloadRetries
    \/ \E r \in wire : Apply(r) \/ Refuse(r)
    \/ Over

Spec == Init /\ [][Next]_vars

(***************************************************************************)
(* What makes it correct.                                                  *)
(***************************************************************************)

\* Every variable has its type; the slot and every watermark are positions
\* the log has.
TypeOK ==
    /\ log \in [1..MaxLog -> Changes]
    /\ slot \in 0..MaxLog
    /\ \A t \in Tables : /\ ice[t].wm \in 0..MaxLog
                         /\ ice[t].rows \in [Keys -> 0..MaxLog]
    /\ run.att \in 0..Attempts
    /\ \A r \in wire : r.wm \in 0..MaxLog /\ r.st \in {"open", "applied", "refused"}

Reflects(t, lo) == \A k \in Keys : \E p \in lo..MaxLog : ice[t].rows[k] = StateAt(t, p)[k]

\* No change the slot has let go of is missing from a table, even when a dead
\* run's snapshot lands between a later run's bind and its commit.
NothingLost == \A t \in Tables : Reflects(t, slot)

\* A table's watermark never claims more than its rows hold: the snapshot and
\* the LSN are one commit, and a stamp is of a window without its changes.
WatermarkTrue == \A t \in Tables : Reflects(t, ice[t].wm)

\* The current snapshot references no window object a failed commit swept.
NoDangling == \A t \in Tables : ice[t].refs \subseteq files

\* "A skipped stamp is safe": a group whose tables all hold every confirmed
\* change is never refused as tampered with at its next start.
NeverRefused == ~refused
=============================================================================
