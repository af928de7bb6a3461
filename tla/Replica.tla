------------------------------ MODULE Replica ------------------------------
(***************************************************************************)
(* One log_based group from a PostgreSQL source to a PostgreSQL            *)
(* destination, over its whole life (logbased/run.rs, logbased/drain.rs):  *)
(* the bootstrap from one exported snapshot, the windowed drain with its   *)
(* overlapped apply task, the confirmation of the slot, and every run      *)
(* after that, crashed, refused or evicted.                                *)
(*                                                                         *)
(* An LSN is a position in `wal`; the record that ends there is the set of *)
(* group tables its transaction changed, {} for foreign traffic.  What a   *)
(* table holds is the set of positions applied to it.  The guard and the   *)
(* lease are `owner`: what module Tenure proves of them is that a unit     *)
(* commits only while its run owns the table, and that one run owns it.    *)
(***************************************************************************)
EXTENDS Integers, Sequences, FiniteSetsExt
LOCAL INSTANCE TLC

CONSTANTS
    Runs,       \* run processes; one that has ended may be started again
    Tables,     \* the members of the group
    NoRun,      \* not a run
    Depth,      \* window_depth(): windows sent and not yet confirmed
    MaxWal,     \* bound: the source commits no more than this
    Faults      \* what may go wrong: subset of FaultKinds

\* stream: the walsender connection; unit: a destination transaction, whose
\* COMMIT may land although its answer is lost; load: a bulk load; source: a
\* statement on the source; lose: the source invalidates the idle slot; stall:
\* a run outlives its lease; empty: a member's snapshot has no rows.
FaultKinds == {"stream", "unit", "load", "source", "lose", "stall", "empty"}

ASSUME ReplicaAssumption ==
    /\ NoRun \notin Runs
    /\ Tables # {}
    /\ Depth \in Nat \ {0}
    /\ MaxWal \in Nat
    /\ Faults \subseteq FaultKinds

VARIABLES
    wal,        \* wal[i]: the members changed by the record ending at LSN i
    slot,       \* the slot's confirmed_flush_lsn, None without a slot
    using,      \* the run whose walsender session has the slot active
    mark,       \* mark[t]: the watermark in _apitap_state, or None
    held,       \* held[t]: the positions whose changes are in t
    twice,      \* twice[t]: those that were applied again after a later state
    owner,      \* the run that owns the group's tables
    pc,         \* pc[r]: where run r is
    cur,        \* cur[r]: its consistent point, or the end of its last window
    tried,      \* tried[r]: the members settled in the step under way
    bad,        \* bad[r]: r has an error to report
    loading,    \* loading[r]: the table whose bulk load has staging (at most one)
    floors,     \* floors[r][t]: t's watermark when r decided
    from,       \* from[r]: where the server really started r's stream
    stop,       \* stop[r]: the stop line
    queue,      \* queue[r]: the ends of the windows sent and not yet applied
    pending,    \* pending[r]: the ends of those sent and not yet confirmed
    applied,    \* applied[r]: the watch channel, the last window applied
    task        \* task[r]: r's apply task

vars == <<wal, slot, using, mark, held, twice, owner, pc, cur, tried, bad,
          loading, floors, from, stop, queue, pending, applied, task>>
dest == <<mark, held, twice>>
source == <<wal, slot, using>>
stream == <<floors, from, stop, queue, pending, applied, task>>
local == <<cur, tried, bad, loading>>

None == -1
LSN == 0..MaxWal
Phases == {"idle", "decide", "probe", "dropstale", "create", "load", "finish",
           "clear", "dropslot", "reconcile", "connect", "drain", "final", "join",
           "ok", "err"}

Touches(t, a, b) == {i \in (a + 1)..b : t \in wal[i]}
Higher(a, b) == IF a > b THEN a ELSE b
Running(r) == pc[r] # "idle"
Goto(r, p) == pc' = [pc EXCEPT ![r] = p]

\* Whether r may find a unit of its tenure refused or failed.
UnitFails(r) == owner # r \/ "unit" \in Faults

Init ==
    /\ wal = <<>>
    /\ slot = None
    /\ using = NoRun
    /\ mark = [t \in Tables |-> None]
    /\ held = [t \in Tables |-> {}]
    /\ twice = [t \in Tables |-> {}]
    /\ owner = NoRun
    /\ pc = [r \in Runs |-> "idle"]
    /\ cur = [r \in Runs |-> 0]
    /\ tried = [r \in Runs |-> {}]
    /\ bad = [r \in Runs |-> FALSE]
    /\ loading = [r \in Runs |-> {}]
    /\ floors = [r \in Runs |-> [t \in Tables |-> None]]
    /\ from = [r \in Runs |-> 0]
    /\ stop = [r \in Runs |-> 0]
    /\ queue = [r \in Runs |-> <<>>]
    /\ pending = [r \in Runs |-> <<>>]
    /\ applied = [r \in Runs |-> 0]
    /\ task = [r \in Runs |-> "off"]

\* The process is gone, and its memory with it.
Forget(r) ==
    /\ Goto(r, "idle")
    /\ cur' = [cur EXCEPT ![r] = 0]
    /\ tried' = [tried EXCEPT ![r] = {}]
    /\ bad' = [bad EXCEPT ![r] = FALSE]
    /\ loading' = [loading EXCEPT ![r] = {}]
    /\ floors' = [floors EXCEPT ![r] = [t \in Tables |-> None]]
    /\ from' = [from EXCEPT ![r] = 0]
    /\ stop' = [stop EXCEPT ![r] = 0]
    /\ queue' = [queue EXCEPT ![r] = <<>>]
    /\ pending' = [pending EXCEPT ![r] = <<>>]
    /\ applied' = [applied EXCEPT ![r] = 0]
    /\ task' = [task EXCEPT ![r] = "off"]

-----------------------------------------------------------------------------
(* run_group: the tenure, then the decision. *)

\* The members are resolved and checked (a refusal leaves everything as it is), then
\* Tenure::acquire.  A bulk load's staging refuses; the lease of a run that is
\* gone or stalls can be taken, a load's cannot.
Acquire(r) ==
    /\ pc[r] = "idle"
    /\ r # owner /\ r # using
    /\ owner = NoRun \/ "stall" \in Faults
    /\ \A q \in Runs : loading[q] = {}
    /\ owner' = r
    /\ Goto(r, "decide")
    /\ UNCHANGED <<source, dest, local, stream>>

\* No watermark: bootstrap.  All: drain.  Some: a torn group is refused.
DecideBootstrap(r) ==
    /\ pc[r] = "decide"
    /\ \A t \in Tables : mark[t] = None
    /\ Goto(r, "probe")
    /\ UNCHANGED <<source, dest, owner, local, stream>>

DecideTorn(r) ==
    /\ pc[r] = "decide"
    /\ \E t, u \in Tables : mark[t] = None /\ mark[u] # None
    /\ Goto(r, "err")
    /\ UNCHANGED <<source, dest, owner, local, stream>>

DecideDrain(r) ==
    /\ pc[r] = "decide"
    /\ \A t \in Tables : mark[t] # None
    /\ floors' = [floors EXCEPT ![r] = mark]
    /\ Goto(r, "reconcile")
    /\ UNCHANGED <<source, dest, owner, local, from, stop, queue, pending, applied, task>>

Decide(r) == DecideBootstrap(r) \/ DecideTorn(r) \/ DecideDrain(r)

-----------------------------------------------------------------------------
(* bootstrap_group. *)

\* A slot without state is a leftover, unless somebody streams from it.
ProbeSlot(r) ==
    /\ pc[r] = "probe"
    /\ Goto(r, IF slot = None THEN "create"
               ELSE IF using # NoRun THEN "err" ELSE "dropstale")
    /\ UNCHANGED <<source, dest, owner, local, stream>>

\* pg_drop_replication_slot errors if the slot is in use or gone by now.
DropStale(r) ==
    /\ pc[r] = "dropstale"
    /\ IF slot # None /\ using = NoRun
       THEN slot' = None /\ Goto(r, "create")
       ELSE slot' = slot /\ Goto(r, "err")
    /\ UNCHANGED <<wal, using, dest, owner, local, stream>>

\* CREATE_REPLICATION_SLOT .. EXPORT_SNAPSHOT: the slot is not active afterwards.
CreateSlot(r) ==
    /\ pc[r] = "create"
    /\ IF slot = None
       THEN slot' = Len(wal) /\ cur' = [cur EXCEPT ![r] = Len(wal)] /\ Goto(r, "load")
       ELSE UNCHANGED <<slot, cur>> /\ Goto(r, "err")
    /\ UNCHANGED <<wal, using, dest, owner, tried, bad, loading, stream>>

\* transfer_within: the load announces itself and is refused by anybody but its
\* parent; from here its staging refuses the others.
LoadBegin(r, t) ==
    /\ pc[r] = "load"
    /\ t \notin tried[r] /\ loading[r] = {}
    /\ owner \in {r, NoRun}
    /\ \A q \in Runs : loading[q] = {}
    /\ loading' = [loading EXCEPT ![r] = {t}]
    /\ UNCHANGED <<source, dest, owner, pc, cur, tried, bad, stream>>

\* The swap: the snapshot replaces the table, and the table's state row goes in
\* the same transaction.
Swap(r, t) ==
    /\ held' = [held EXCEPT ![t] = Touches(t, 0, cur[r])]
    /\ twice' = [twice EXCEPT ![t] = {}]
    /\ mark' = [mark EXCEPT ![t] = None]

\* Member t is settled in the fan-out under way.
Settle(r, t, ok) ==
    /\ tried' = [tried EXCEPT ![r] = @ \cup {t}]
    /\ bad' = [bad EXCEPT ![r] = @ \/ ~ok]

\* The 0-row guard of finalize: an empty load leaves the table there is as it is,
\* and succeeds.
EmptyKeepsRows(t) ==
    /\ "empty" \in Faults
    /\ held[t] # {}
    /\ UNCHANGED dest

LoadLand(r, t) ==
    /\ t \in loading[r]
    /\ Swap(r, t) \/ EmptyKeepsRows(t)
    /\ Settle(r, t, TRUE)
    /\ loading' = [loading EXCEPT ![r] = {}]
    /\ UNCHANGED <<source, owner, pc, cur, stream>>

\* A load that fails, its swap perhaps landed; or one refused by its guard.
LoadFails(r, t, landed) ==
    /\ pc[r] = "load"
    /\ \/ t \in loading[r] /\ "load" \in Faults
       \/ t \notin tried[r] /\ loading[r] = {} /\ ~landed
          /\ (owner \notin {r, NoRun} \/ \E q \in Runs : loading[q] # {})
    /\ IF landed THEN Swap(r, t) ELSE UNCHANGED dest
    /\ Settle(r, t, FALSE)
    /\ loading' = [loading EXCEPT ![r] = {}]
    /\ UNCHANGED <<source, owner, pc, cur, stream>>

\* Every load is awaited before the first error is looked at.
LoadsDone(r) ==
    /\ pc[r] = "load"
    /\ tried[r] = Tables
    /\ tried' = [tried EXCEPT ![r] = {}]
    /\ Goto(r, IF bad[r] THEN "dropslot" ELSE "finish")
    /\ UNCHANGED <<source, dest, owner, cur, bad, loading, stream>>

\* bootstrap_finish: each member's watermark, in a unit of its own.
Finish(r, t) ==
    /\ pc[r] = "finish"
    /\ t \notin tried[r]
    /\ owner = r
    /\ mark' = [mark EXCEPT ![t] = cur[r]]
    /\ Settle(r, t, TRUE)
    /\ UNCHANGED <<source, held, twice, owner, pc, cur, loading, stream>>

FinishFails(r, t, landed) ==
    /\ pc[r] = "finish"
    /\ t \notin tried[r]
    /\ UnitFails(r)
    /\ landed => owner = r
    /\ mark' = IF landed THEN [mark EXCEPT ![t] = cur[r]] ELSE mark
    /\ Settle(r, t, FALSE)
    /\ UNCHANGED <<source, held, twice, owner, pc, cur, loading, stream>>

FinishesDone(r) ==
    /\ pc[r] = "finish"
    /\ tried[r] = Tables
    /\ tried' = [tried EXCEPT ![r] = {}]
    /\ Goto(r, IF bad[r] THEN "clear" ELSE "ok")
    /\ UNCHANGED <<source, dest, owner, cur, bad, loading, stream>>

\* clear_group: every member's watermark is removed, best effort.
ClearMember(r, t, ok) ==
    /\ pc[r] = "clear"
    /\ t \notin tried[r]
    /\ IF ok THEN owner = r ELSE UnitFails(r)
    /\ mark' = IF ok THEN [mark EXCEPT ![t] = None] ELSE mark
    /\ tried' = [tried EXCEPT ![r] = @ \cup {t}]
    /\ UNCHANGED <<source, held, twice, owner, pc, cur, bad, loading, stream>>

ClearsDone(r) ==
    /\ pc[r] = "clear"
    /\ tried[r] = Tables
    /\ Goto(r, "dropslot")
    /\ UNCHANGED <<source, dest, owner, local, stream>>

\* drop_slot, its error ignored.  The server refuses to drop an active slot.
DropSlot(r, ok) ==
    /\ pc[r] = "dropslot"
    /\ IF ok THEN slot # None /\ using = NoRun
             ELSE slot = None \/ using # NoRun \/ "source" \in Faults
    /\ slot' = IF ok THEN None ELSE slot
    /\ Goto(r, "err")
    /\ UNCHANGED <<wal, using, dest, owner, local, stream>>

\* A statement on the source fails before the stream is up: the run returns the
\* error as it is.  A slot may have been dropped or created although the answer
\* was lost.
SourceFails(r, landed) ==
    /\ "source" \in Faults
    /\ pc[r] \in {"decide", "probe", "dropstale", "create", "reconcile", "connect"}
    /\ landed => \/ pc[r] = "dropstale" /\ slot # None /\ using = NoRun
                 \/ pc[r] = "create" /\ slot = None
    /\ slot' = IF ~landed THEN slot ELSE IF pc[r] = "create" THEN Len(wal) ELSE None
    /\ Goto(r, "err")
    /\ UNCHANGED <<wal, using, dest, owner, local, stream>>

-----------------------------------------------------------------------------
(* drain_group, drain_loop and drain: the streaming side. *)

Lowest(r) == Min({floors[r][t] : t \in Tables})

\* member_cap: the lowest watermark above the group's minimum.
Ahead(r) == {floors[r][t] : t \in Tables} \ {Lowest(r)}

\* The slot must exist, be idle and not have confirmed past the watermark; the
\* stop line is the end of the source's WAL, or the next member's watermark.
Reconcile(r) ==
    /\ pc[r] = "reconcile"
    /\ IF slot = None \/ using # NoRun \/ Lowest(r) < slot
       THEN Goto(r, "err") /\ UNCHANGED stop
       ELSE /\ Goto(r, "connect")
            /\ stop' = [stop EXCEPT ![r] = Min(Ahead(r) \cup {Len(wal)})]
    /\ UNCHANGED <<source, dest, owner, local, floors, from, queue, pending, applied, task>>

\* START_REPLICATION at the watermark: the server starts no earlier than what
\* the slot has confirmed, and says nothing about it.  The apply task is spawned.
StartReplication(r) ==
    /\ pc[r] = "connect"
    /\ IF slot = None \/ using # NoRun
       THEN Goto(r, "err") /\ UNCHANGED <<using, cur, from, applied, task>>
       ELSE /\ Goto(r, "drain")
            /\ using' = r
            /\ cur' = [cur EXCEPT ![r] = Lowest(r)]
            /\ from' = [from EXCEPT ![r] = Higher(slot, Lowest(r))]
            /\ applied' = [applied EXCEPT ![r] = Lowest(r)]
            /\ task' = [task EXCEPT ![r] = "on"]
    /\ UNCHANGED <<wal, slot, dest, owner, tried, bad, loading, floors, stop, queue, pending>>

\* Where drain may end a window that starts at cur: at a commit, up to the first
\* one at or past the stop line, or at the stop line itself, when a keepalive says
\* that the server has got there.
WindowEnds(r) ==
    LET Streamed(i) == i > Higher(cur[r], from[r]) /\ wal[i] # {}
    IN  {e \in (cur[r] + 1)..Len(wal) :
            /\ Streamed(e) \/ e = stop[r]
            /\ \A i \in (stop[r]..(e - 1)) \ {0} : ~Streamed(i)}

\* Whether drain_loop goes round again after a window that ended at e: the byte
\* budget or a layout change cut it short, or the run follows the source, which a
\* capped pass does not.
GoesOn(r, e) == e < stop[r] \/ Ahead(r) = {}

\* One window is decoded and sent to the apply task.
DrainWindow(r, e, more) ==
    /\ pc[r] = "drain"
    /\ Len(pending[r]) <= Depth
    /\ task[r] # "off"
    /\ e \in WindowEnds(r)
    /\ more => GoesOn(r, e)
    /\ cur' = [cur EXCEPT ![r] = e]
    /\ queue' = [queue EXCEPT ![r] = Append(@, e)]
    /\ pending' = [pending EXCEPT ![r] = Append(@, e)]
    /\ Goto(r, IF more THEN "drain" ELSE "final")
    /\ UNCHANGED <<source, dest, owner, tried, bad, loading, floors, from, stop, applied, task>>

\* The loop ends without another window: nothing new, the window's or the follow
\* deadline, SIGTERM, or the apply task is gone and the window is thrown away.
DrainStops(r) ==
    /\ pc[r] = "drain"
    /\ Len(pending[r]) <= Depth
    /\ Goto(r, "final")
    /\ UNCHANGED <<source, dest, owner, local, stream>>

\* Follow mode: the stop line rolls on.
Follow(r) ==
    /\ pc[r] = "drain"
    /\ Ahead(r) = {}
    /\ cur[r] >= stop[r] /\ Len(wal) > stop[r]
    /\ stop' = [stop EXCEPT ![r] = Len(wal)]
    /\ UNCHANGED <<source, dest, owner, pc, local, floors, from, queue, pending, applied, task>>

\* A keepalive that asks for a reply, and wait_for_apply's tick: the standby
\* status carries the last window applied.
KeepaliveReply(r) ==
    /\ pc[r] \in {"drain", "final"}
    /\ using = r
    /\ slot' = Higher(slot, applied[r])
    /\ UNCHANGED <<wal, using, dest, owner, pc, local, stream>>

\* The oldest window is confirmed once it is applied: when more than Depth are
\* unconfirmed, and at the end.
Confirming(r) ==
    /\ pending[r] # <<>>
    /\ pc[r] = "final" \/ (pc[r] = "drain" /\ Len(pending[r]) > Depth)

Confirm(r) ==
    /\ Confirming(r)
    /\ applied[r] >= Head(pending[r])
    /\ slot' = Higher(slot, Head(pending[r]))
    /\ pending' = [pending EXCEPT ![r] = Tail(@)]
    /\ UNCHANGED <<wal, using, dest, owner, pc, local, floors, from, stop, queue, applied, task>>

\* Mutant: the wait goes on although the watch channel has closed.
WaitBrokenNever(r) ==
    /\ Confirming(r)
    /\ task[r] = "off"
    /\ applied[r] < Head(pending[r])
    /\ UNCHANGED vars

\* The apply task died before that window: the wait ends, nothing is confirmed.
WaitBroken(r) ==
    /\ Confirming(r)
    /\ task[r] = "off"
    /\ applied[r] < Head(pending[r])
    /\ pending' = [pending EXCEPT ![r] = Tail(@)]
    /\ Goto(r, "final")
    /\ UNCHANGED <<source, dest, owner, local, floors, from, stop, queue, applied, task>>

DrainDone(r) ==
    /\ pc[r] = "final"
    /\ pending[r] = <<>>
    /\ Goto(r, "join")
    /\ UNCHANGED <<source, dest, owner, local, stream>>

\* The stream, or a standby status, fails: drain_loop returns its error.
StreamFails(r) ==
    /\ "stream" \in Faults
    /\ pc[r] \in {"drain", "final"}
    /\ bad' = [bad EXCEPT ![r] = TRUE]
    /\ pending' = [pending EXCEPT ![r] = <<>>]
    /\ Goto(r, "join")
    /\ UNCHANGED <<source, dest, owner, cur, tried, loading, floors, from, stop, queue,
                   applied, task>>

\* Mutant: only the drain's own outcome is returned, at once.
JoinDrainOnly(r) ==
    /\ pc[r] = "join"
    /\ Goto(r, "ok")
    /\ UNCHANGED <<source, dest, owner, local, stream>>

\* run_overlapped: the apply task is joined on every path.
Join(r) ==
    /\ pc[r] = "join"
    /\ task[r] = "off"
    /\ Goto(r, IF bad[r] THEN "err" ELSE "ok")
    /\ UNCHANGED <<source, dest, owner, local, stream>>

-----------------------------------------------------------------------------
(* apply_windows and apply_member: the apply task. *)

\* The oldest window sent starts where the last one applied ended.
WindowEnd(r) == Head(queue[r])
Changes(r, t) == Touches(t, Higher(applied[r], from[r]), WindowEnd(r))

Applying(r, t) ==
    /\ task[r] # "off"
    /\ queue[r] # <<>>
    /\ t \notin tried[r]

\* A member at or past the window's end has it already.
SkipMember(r, t) ==
    /\ Applying(r, t)
    /\ WindowEnd(r) <= floors[r][t]
    /\ tried' = [tried EXCEPT ![r] = @ \cup {t}]
    /\ UNCHANGED <<source, dest, owner, pc, cur, bad, loading, stream>>

\* The member's changes and its watermark, in one transaction.
Land(r, t) ==
    /\ held' = [held EXCEPT ![t] = @ \cup Changes(r, t)]
    /\ twice' = [twice EXCEPT ![t] = @ \cup (held[t] \cap Changes(r, t))]
    /\ mark' = [mark EXCEPT ![t] = WindowEnd(r)]

\* Mutants: the watermark says what was drained; the unit is not fenced.
ApplyMemberCur(r, t) ==
    /\ Applying(r, t)
    /\ WindowEnd(r) > floors[r][t]
    /\ owner = r
    /\ held' = [held EXCEPT ![t] = @ \cup Changes(r, t)]
    /\ mark' = [mark EXCEPT ![t] = cur[r]]
    /\ tried' = [tried EXCEPT ![r] = @ \cup {t}]
    /\ UNCHANGED <<source, twice, owner, pc, cur, bad, loading, stream>>
ApplyMemberUnfenced(r, t) ==
    /\ Applying(r, t)
    /\ WindowEnd(r) > floors[r][t]
    /\ Land(r, t)
    /\ tried' = [tried EXCEPT ![r] = @ \cup {t}]
    /\ UNCHANGED <<source, owner, pc, cur, bad, loading, stream>>

ApplyMember(r, t) ==
    /\ Applying(r, t)
    /\ WindowEnd(r) > floors[r][t]
    /\ owner = r
    /\ Land(r, t)
    /\ tried' = [tried EXCEPT ![r] = @ \cup {t}]
    /\ UNCHANGED <<source, owner, pc, cur, bad, loading, stream>>

\* A unit refused or failed.  With lanes the siblings are still tried.
ApplyFails(r, t, landed) ==
    /\ Applying(r, t)
    /\ WindowEnd(r) > floors[r][t]
    /\ UnitFails(r)
    /\ IF landed THEN owner = r /\ Land(r, t) ELSE UNCHANGED dest
    /\ tried' = [tried EXCEPT ![r] = @ \cup {t}]
    /\ task' = [task EXCEPT ![r] = "failing"]
    /\ UNCHANGED <<source, owner, pc, cur, bad, loading, floors, from, stop, queue,
                   pending, applied>>

\* Mutant: a window is reported once one member has it.
WindowAppliedEarly(r) ==
    /\ task[r] = "on"
    /\ tried[r] # {}
    /\ applied' = [applied EXCEPT ![r] = WindowEnd(r)]
    /\ queue' = [queue EXCEPT ![r] = Tail(@)]
    /\ tried' = [tried EXCEPT ![r] = {}]
    /\ UNCHANGED <<source, dest, owner, pc, cur, bad, loading, floors, from, stop,
                   pending, task>>

\* Every member has it: the watch says so.
WindowApplied(r) ==
    /\ task[r] = "on"
    /\ queue[r] # <<>>
    /\ tried[r] = Tables
    /\ applied' = [applied EXCEPT ![r] = WindowEnd(r)]
    /\ queue' = [queue EXCEPT ![r] = Tail(@)]
    /\ tried' = [tried EXCEPT ![r] = {}]
    /\ UNCHANGED <<source, dest, owner, pc, cur, bad, loading, floors, from, stop,
                   pending, task>>

\* The task returns its error: its windows are lost and the watch closes.
ApplyDies(r) ==
    /\ task[r] = "failing"
    /\ task' = [task EXCEPT ![r] = "off"]
    /\ queue' = [queue EXCEPT ![r] = <<>>]
    /\ tried' = [tried EXCEPT ![r] = {}]
    /\ bad' = [bad EXCEPT ![r] = TRUE]
    /\ UNCHANGED <<source, dest, owner, pc, cur, loading, floors, from, stop,
                   pending, applied>>

\* The channel is closed and empty: everything sent has been applied.
ApplyEnds(r) ==
    /\ task[r] = "on"
    /\ pc[r] = "join"
    /\ queue[r] = <<>>
    /\ task' = [task EXCEPT ![r] = "off"]
    /\ UNCHANGED <<source, dest, owner, pc, local, floors, from, stop, queue, pending, applied>>

-----------------------------------------------------------------------------
(* The end of a run, and the world around it. *)

\* The session is closed, the tenure given back, the outcome returned.
Release(r) ==
    /\ pc[r] \in {"ok", "err"}
    /\ owner' = IF owner = r THEN NoRun ELSE owner
    /\ using' = IF using = r THEN NoRun ELSE using
    /\ Forget(r)
    /\ UNCHANGED <<wal, slot, dest>>

\* The process dies: its tenure and its session outlive it.  The staging of a
\* load is taken for removed, which is the operator's.
Crash(r) ==
    /\ Running(r)
    /\ Forget(r)
    /\ UNCHANGED <<source, dest, owner>>

\* The lease of a dead run lapses and is collected.
CollectDead(r) ==
    /\ owner = r /\ ~Running(r)
    /\ owner' = NoRun
    /\ UNCHANGED <<source, dest, pc, local, stream>>

\* The server notices that a dead run's session is gone.
SessionEnds(r) ==
    /\ using = r /\ ~Running(r)
    /\ using' = NoRun
    /\ UNCHANGED <<wal, slot, dest, owner, pc, local, stream>>

\* A source transaction commits.
SourceCommit(S) ==
    /\ Len(wal) < MaxWal
    /\ wal' = Append(wal, S)
    /\ UNCHANGED <<slot, using, dest, owner, pc, local, stream>>

\* max_slot_wal_keep_size: an idle slot is lost, which a drain refuses as it
\* refuses a missing one.
LoseSlot ==
    /\ "lose" \in Faults
    /\ slot # None /\ using = NoRun
    /\ slot' = None
    /\ UNCHANGED mark

\* What drain_group and run_group tell the operator to do: clear the state rows.
OperatorClears ==
    /\ \A r \in Runs : ~Running(r)
    /\ \E t \in Tables : mark[t] # None
    /\ \E t \in Tables : mark[t] = None \/ slot = None \/ mark[t] < slot
    /\ mark' = [t \in Tables |-> None]
    /\ UNCHANGED slot

\* What happens to the group between and beside its runs.
Outside ==
    /\ LoseSlot \/ OperatorClears
    /\ UNCHANGED <<wal, using, held, twice, owner, pc, local, stream>>

-----------------------------------------------------------------------------

Bootstrap(r) ==
    \/ ProbeSlot(r) \/ DropStale(r) \/ CreateSlot(r)
    \/ LoadsDone(r) \/ FinishesDone(r) \/ ClearsDone(r)
    \/ \E ok \in BOOLEAN : DropSlot(r, ok)
    \/ \E t \in Tables : LoadBegin(r, t) \/ LoadLand(r, t) \/ Finish(r, t)
    \/ \E t \in Tables, b \in BOOLEAN :
        LoadFails(r, t, b) \/ FinishFails(r, t, b) \/ ClearMember(r, t, b)

Drain(r) ==
    \/ Reconcile(r) \/ StartReplication(r) \/ DrainStops(r)
    \/ Confirm(r) \/ WaitBroken(r) \/ DrainDone(r) \/ Join(r)
    \/ \E e \in LSN, more \in BOOLEAN : DrainWindow(r, e, more)

Apply(r) ==
    \/ WindowApplied(r) \/ ApplyDies(r) \/ ApplyEnds(r)
    \/ \E t \in Tables : SkipMember(r, t) \/ ApplyMember(r, t)
    \/ \E t \in Tables, landed \in BOOLEAN : ApplyFails(r, t, landed)

Work(r) == Decide(r) \/ Bootstrap(r) \/ Drain(r) \/ Release(r)

Next ==
    \/ \E r \in Runs :
        \/ Acquire(r) \/ Work(r) \/ Apply(r)
        \/ Follow(r) \/ KeepaliveReply(r) \/ StreamFails(r)
        \/ Crash(r) \/ CollectDead(r) \/ SessionEnds(r)
        \/ \E landed \in BOOLEAN : SourceFails(r, landed)
    \/ \E S \in SUBSET Tables : SourceCommit(S)
    \/ Outside

Spec == Init /\ [][Next]_vars

\* A process that is alive executes, in the drain and in the apply task.  Nobody
\* has to start a run, and the source, the keepalives, a follow's next round and
\* a broken stream are not the run's to promise.
Fairness == \A r \in Runs : WF_vars(Work(r)) /\ WF_vars(Apply(r))

FairSpec == Spec /\ Fairness

-----------------------------------------------------------------------------
(* Properties. *)

TypeOK ==
    /\ wal \in Seq(SUBSET Tables) /\ Len(wal) <= MaxWal
    /\ slot \in LSN \cup {None}
    /\ using \in Runs \cup {NoRun}
    /\ mark \in [Tables -> LSN \cup {None}]
    /\ held \in [Tables -> SUBSET LSN]
    /\ twice \in [Tables -> SUBSET LSN]
    /\ owner \in Runs \cup {NoRun}
    /\ pc \in [Runs -> Phases]
    /\ cur \in [Runs -> LSN]
    /\ tried \in [Runs -> SUBSET Tables]
    /\ bad \in [Runs -> BOOLEAN]
    /\ loading \in [Runs -> SUBSET Tables]
    /\ floors \in [Runs -> [Tables -> LSN \cup {None}]]
    /\ from \in [Runs -> LSN]
    /\ stop \in [Runs -> LSN]
    /\ queue \in [Runs -> Seq(LSN)]
    /\ pending \in [Runs -> Seq(LSN)]
    /\ applied \in [Runs -> LSN]
    /\ task \in [Runs -> {"on", "failing", "off"}]

\* A watermark is the truth: the table it stands for holds every change up to it
\* and none past it, whatever crashed, was refused, evicted or applied by halves
\* on the way (run.rs apply_member, bootstrap_group's gap-free hand-off).
Exact ==
    \A t \in Tables : mark[t] # None => held[t] = Touches(t, 0, mark[t])

\* No table holds a change past its watermark, not even one a run wrote whose
\* tables had been taken from it: a window is not applied again on top of what
\* came later (dest_pg.rs open_unit and close_unit, lease.rs open).
NoneAhead ==
    \A t \in Tables : mark[t] # None => held[t] \subseteq 1..mark[t]

\* Nothing is applied to a member a second time: run.rs drain_group's "every
\* member either applies a window whole or skips it whole".
NoReplay == \A t \in Tables : twice[t] = {}

\* A confirmation never goes past a member, even one sent by a run whose tables
\* were taken from it in the meantime (run.rs drain_loop, wait_for_apply).
ConfirmsApplied ==
    [][\A t \in Tables : slot # None /\ slot' > slot /\ slot # slot' /\ mark[t] # None
                            => slot' <= mark[t]]_vars

\* A run that reports success has applied everything it read to every member,
\* and leaves a slot from which the next run goes on (run.rs run_overlapped,
\* drain_group, bootstrap_group).
SuccessIsDurable ==
    [][\A r \in Runs : pc[r] # "ok" /\ pc'[r] = "ok" =>
        /\ \A t \in Tables : mark[t] >= cur[r]
        /\ slot # None /\ \A t \in Tables : slot <= mark[t]]_vars

\* Every run ends: the drain never waits for an apply task that is gone, the task
\* never for a channel nobody closes, and the queue between them never fills up
\* with both waiting (run.rs drain_loop, wait_for_apply, run_overlapped).
RunsEnd == \A r \in Runs : Running(r) ~> ~Running(r)
-----------------------------------------------------------------------------
(* What the group is for: a reader who trusts the watermarks sees a mirror. *)

M == INSTANCE Mirror
     WITH log <- wal, at <- mark, kept <- slot, Absent <- None,
          rows <- [t \in Tables |-> IF mark[t] = None THEN {} ELSE held[t]]

\* The group implements Mirror: each published member is an exact prefix of the
\* source's log and only grows, out of a slot that still has what it needs, through
\* every crash, failure and re-run (run.rs run_group, drain_group, apply_member,
\* drain.rs's confirmations).
IsMirror == M!Spec

\* For model checking: the runs are alike, and so are the members.
Symmetry == Permutations(Runs) \cup Permutations(Tables)
=============================================================================
