------------------------------- MODULE Tenure -------------------------------
(***************************************************************************)
(* Who may write a destination table: the announce / scan / collect guard  *)
(* (guard.rs), the lease and the tenure built on it (lease.rs) and their   *)
(* PostgreSQL statements (sink/postgres.rs, logbased/dest_pg.rs), with     *)
(* both lanes as clients: the CDC drain and the bulk load.                 *)
(*                                                                         *)
(* A run is one minted token (naming.rs RunId).  A drain ("Cdc") announces *)
(* every table of its group with two empty markers, proves its liveness    *)
(* with one lease row per table, and writes only inside units, that is     *)
(* transactions whose first statement locks its own lease row.  A bulk     *)
(* load ("Swap" or "Incremental") announces one table with a Lock, creates *)
(* its Staging object, drops the Lock and lands; it has no lease.          *)
(*                                                                         *)
(* Every catalog or lease statement is one step.  The lease's expiry is on *)
(* the destination's clock: a live row may lapse at any moment.            *)
(***************************************************************************)

CONSTANTS
    Runs,       \* run tokens
    Tables,     \* destination tables
    NoRun,      \* not a run
    Kind,       \* [Runs -> {"Swap", "Incremental", "Cdc"}]
    Source,     \* [Runs -> a source hash], what two incrementals compare
    Targets,    \* [Runs -> SUBSET Tables]
    Parent,     \* [Runs -> Runs \cup {NoRun}], the drain a bootstrap load runs within
    Faults      \* the statements that may fail: subset of FaultKinds

LandKind == {"Swap", "Incremental", "Cdc"}
Artifacts == {"Lock", "Staging"}
FaultKinds == {"create", "undo", "check", "drop", "close"}

ASSUME NoRunAssumption == NoRun \notin Runs
ASSUME RunsAssumption ==
    /\ Kind \in [Runs -> LandKind]
    /\ Targets \in [Runs -> SUBSET Tables]
    /\ Parent \in [Runs -> Runs \cup {NoRun}]
    /\ Faults \subseteq FaultKinds
\* A bulk run loads one table; only a bulk run has a parent, and that is a
\* drain of the table.
ASSUME LineageAssumption ==
    \A r \in Runs :
        /\ Kind[r] # "Cdc" => \E t \in Tables : Targets[r] = {t}
        /\ Parent[r] # NoRun => /\ Kind[r] # "Cdc"
                                /\ Kind[Parent[r]] = "Cdc"
                                /\ Targets[r] \subseteq Targets[Parent[r]]

VARIABLES
    pc,         \* pc[r]: where run r is
    catalog,    \* the <<run, table, artifact>> objects that exist
    lease,      \* lease[r][t]: r's row for t in _apitap_lease
    made,       \* made[r][t]: the markers r holds on t (Announced.names)
    checked,    \* checked[r]: the tables whose peers r has cleared
    tab,        \* tab[r]: the tables r is scanning or undoing now (at most one)
    seen,       \* seen[r]: the <<peer, artifact>> blockers the scan found
    victim,     \* victim[r]: the runs whose claim r is taking (at most one)
    failed,     \* failed[r]: a marker of the victim could not be dropped
    kept,       \* kept[r]: tables whose announcement or row r had to abandon
    unit,       \* unit[r][t]: the write unit r has on t
    evicted     \* evicted[r]: r's keeper saw one of its rows taken

vars == <<pc, catalog, lease, made, checked, tab, seen, victim, failed, kept,
          unit, evicted>>
scanVars == <<checked, tab, seen, victim, failed>>
unitVars == <<unit, evicted>>

Drains == {r \in Runs : Kind[r] = "Cdc"}
Bulks == Runs \ Drains

ScanPhases == {"scan", "scan2", "collect", "claim", "drop"}
Phases == {"idle", "announce", "undo", "hold", "closing", "giveback",
           "stage", "unlock", "load", "release", "done", "dead"} \cup ScanPhases

\* The "live" and "lapsed" rows are the ones owner_verdict and the fence accept.
LeaseStates == {"none", "live", "lapsed", "collected"}
Owned == {"live", "lapsed"}

\* naming.rs compat::markers, created in this order: the Lock first.
Markers(k) == IF k = "Cdc" THEN {"Lock", "Staging"} ELSE {"Lock"}

\* naming.rs peer_blocks: a swap and a drain stand alone; two incrementals
\* coexist exactly when their sources differ.
PeerBlocks(r, q) ==
    \/ Kind[r] # "Incremental"
    \/ Kind[q] # "Incremental"
    \/ Source[r] = Source[q]

\* naming.rs classify: what r makes of an object of q.  Its own and its
\* parent's are no peer's.
Blocks(r, q) == q # r /\ q # Parent[r] /\ PeerBlocks(r, q)

\* naming.rs collectable: only what a drain announces has an owner to ask.
Collectable(q) == Kind[q] = "Cdc"

\* Mutant: GUARDED in the other order, the Stagings before the Locks.
ListedSwapped(r, t, a) ==
    LET k == IF a = "Lock" THEN "Staging" ELSE "Lock"
    IN  {b \in Runs \X {k} : Blocks(r, b[1]) /\ <<b[1], t, k>> \in catalog}

\* GuardStore::list, one artifact kind at a time, and naming.rs blockers.
Listed(r, t, a) == {b \in Runs \X {a} : Blocks(r, b[1]) /\ <<b[1], t, a>> \in catalog}

\* Lease::lapsed
Lapsed(q, t) == lease[q][t] \in {"lapsed", "collected"}

\* The row lock of lease[q][t]: an open unit took it FOR UPDATE.
RowLocked(q, t) == unit[q][t] = "open"

\* Whether a statement of this kind succeeds.
Outcomes(fault) == IF fault \in Faults THEN BOOLEAN ELSE {TRUE}

\* The children of a drain run inside its process.
Children(r) == {c \in Runs : Parent[c] = r}
Running(r) == pc[r] \notin {"idle", "done", "dead"}

Init ==
    /\ pc = [r \in Runs |-> "idle"]
    /\ catalog = {}
    /\ lease = [r \in Runs |-> [t \in Tables |-> "none"]]
    /\ made = [r \in Runs |-> [t \in Tables |-> {}]]
    /\ checked = [r \in Runs |-> {}]
    /\ tab = [r \in Runs |-> {}]
    /\ seen = [r \in Runs |-> {}]
    /\ victim = [r \in Runs |-> {}]
    /\ failed = [r \in Runs |-> FALSE]
    /\ kept = [r \in Runs |-> {}]
    /\ unit = [r \in Runs |-> [t \in Tables |-> "none"]]
    /\ evicted = [r \in Runs |-> FALSE]

-----------------------------------------------------------------------------
(* Announcing. *)

\* Tenure::acquire_every opens a row for every table of the group, first.
LeaseOpen(r) ==
    /\ r \in Drains
    /\ pc[r] = "idle"
    /\ pc' = [pc EXCEPT ![r] = "announce"]
    /\ lease' = [lease EXCEPT ![r] = [t \in Tables |->
                    IF t \in Targets[r] THEN "live" ELSE "none"]]
    /\ UNCHANGED <<catalog, made, scanVars, kept, unitVars>>

\* A bulk run enters Sink::prepare; a bootstrap's load only while its drain holds.
BeginLoad(r) ==
    /\ r \in Bulks
    /\ pc[r] = "idle"
    /\ Parent[r] # NoRun => pc[Parent[r]] = "hold"
    /\ pc' = [pc EXCEPT ![r] = "announce"]
    /\ UNCHANGED <<catalog, lease, made, scanVars, kept, unitVars>>

\* The marker announce creates next on t.  A table is finished before the next.
NextMarker(r, t, a) ==
    /\ t \in Targets[r]
    /\ a \in Markers(Kind[r]) \ made[r][t]
    /\ a = "Staging" => "Lock" \in made[r][t]
    /\ \A u \in Targets[r] \ {t} : made[r][u] \in {{}, Markers(Kind[r])}

\* guard.rs announce: nothing is listed here, the scan comes after.
CreateMarker(r, t, a) ==
    /\ pc[r] = "announce"
    /\ NextMarker(r, t, a)
    /\ catalog' = catalog \cup {<<r, t, a>>}
    /\ made' = [made EXCEPT ![r][t] = @ \cup {a}]
    /\ pc' = [pc EXCEPT ![r] =
                IF \A u \in Targets[r] : made'[r][u] = Markers(Kind[r])
                THEN "scan" ELSE "announce"]
    /\ UNCHANGED <<lease, scanVars, kept, unitVars>>

\* A CREATE fails: the markers of this table already made are to be undone.
AnnounceFails(r, t, a) ==
    /\ "create" \in Faults
    /\ pc[r] = "announce"
    /\ NextMarker(r, t, a)
    /\ pc' = [pc EXCEPT ![r] = IF made[r][t] # {} THEN "undo"
                               ELSE IF r \in Drains THEN "giveback" ELSE "done"]
    /\ tab' = [tab EXCEPT ![r] = IF made[r][t] # {} THEN {t} ELSE {}]
    /\ UNCHANGED <<catalog, lease, made, checked, seen, victim, failed, kept, unitVars>>

\* announce drops what it had made of a half-announcement and ignores whether
\* the drop succeeded; the caller takes the table as never announced.
UndoAnnounce(r, t, ok) ==
    /\ pc[r] = "undo"
    /\ t \in tab[r]
    /\ ok \in Outcomes("undo")
    /\ catalog' = IF ok THEN catalog \ {<<r, t, a>> : a \in made[r][t]} ELSE catalog
    /\ made' = [made EXCEPT ![r][t] = {}]
    /\ pc' = [pc EXCEPT ![r] = "giveback"]
    /\ tab' = [tab EXCEPT ![r] = {}]
    /\ UNCHANGED <<lease, checked, seen, victim, failed, kept, unitVars>>

-----------------------------------------------------------------------------
(* Scanning and collecting: guard.rs check_peers. *)

\* A drain gives everything back; Sink::prepare's caller releases the Lock.
Refused(r) == IF r \in Drains THEN "giveback" ELSE "release"

\* Where a run goes that has cleared table t.
Cleared(r, t) ==
    IF checked[r] \cup {t} # Targets[r] THEN "scan"
    ELSE IF r \in Drains THEN "hold" ELSE "stage"

\* check_peers returns, to phase p: its locals are gone.  Cleared tables count.
Leave(r, p) ==
    /\ pc' = [pc EXCEPT ![r] = p]
    /\ tab' = [tab EXCEPT ![r] = {}]
    /\ seen' = [seen EXCEPT ![r] = {}]
    /\ victim' = [victim EXCEPT ![r] = {}]
    /\ failed' = [failed EXCEPT ![r] = FALSE]

Refuse(r) == Leave(r, Refused(r)) /\ checked' = [checked EXCEPT ![r] = {}]

Pass(r, t) == Leave(r, Cleared(r, t)) /\ checked' = [checked EXCEPT ![r] = @ \cup {t}]

\* GUARDED lists the Locks before the Stagings: two statements.
ListLocks(r, t) ==
    /\ pc[r] = "scan"
    /\ t \in Targets[r] \ checked[r]
    /\ tab' = [tab EXCEPT ![r] = {t}]
    /\ seen' = [seen EXCEPT ![r] = Listed(r, t, "Lock")]
    /\ pc' = [pc EXCEPT ![r] = "scan2"]
    /\ UNCHANGED <<catalog, lease, made, checked, victim, failed, kept, unitVars>>

\* The second list.  What r may meet in both:
Met(r, t) == seen[r] \cup Listed(r, t, "Staging")

\* - an uncollectable blocker, which refuses before any lease is read;
MeetLive(r, t) ==
    /\ pc[r] = "scan2"
    /\ t \in tab[r]
    /\ \E b \in Met(r, t) : ~Collectable(b[1])
    /\ Refuse(r)
    /\ UNCHANGED <<catalog, lease, made, kept, unitVars>>

\* - drains only, which may be dead;
MeetDrains(r, t) ==
    /\ pc[r] = "scan2"
    /\ t \in tab[r]
    /\ Met(r, t) # {}
    /\ \A b \in Met(r, t) : Collectable(b[1])
    /\ pc' = [pc EXCEPT ![r] = "collect"]
    /\ seen' = [seen EXCEPT ![r] = Met(r, t)]
    /\ UNCHANGED <<catalog, lease, made, checked, tab, victim, failed, kept, unitVars>>

\* - nobody.
MeetNobody(r, t) ==
    /\ pc[r] = "scan2"
    /\ t \in tab[r]
    /\ Met(r, t) = {}
    /\ Pass(r, t)
    /\ UNCHANGED <<catalog, lease, made, kept, unitVars>>

Scan(r, t) == ListLocks(r, t) \/ MeetLive(r, t) \/ MeetDrains(r, t) \/ MeetNobody(r, t)

\* Mutant: a lapsed peer's markers are dropped without a claim.
FindLapsedUnclaimed(r, t, q) ==
    /\ pc[r] = "collect"
    /\ t \in tab[r]
    /\ \E a \in Artifacts : <<q, a>> \in seen[r]
    /\ Lapsed(q, t)
    /\ victim' = [victim EXCEPT ![r] = {q}]
    /\ pc' = [pc EXCEPT ![r] = "drop"]
    /\ UNCHANGED <<catalog, lease, made, checked, tab, seen, failed, kept, unitVars>>

\* One decision per token.  lease_get must find a row, and find it lapsed;
FindLapsed(r, t, q) ==
    /\ pc[r] = "collect"
    /\ t \in tab[r]
    /\ \E a \in Artifacts : <<q, a>> \in seen[r]
    /\ Lapsed(q, t)
    /\ victim' = [victim EXCEPT ![r] = {q}]
    /\ pc' = [pc EXCEPT ![r] = "claim"]
    /\ UNCHANGED <<catalog, lease, made, checked, tab, seen, failed, kept, unitVars>>

FindOwned(r, t, q) ==
    /\ pc[r] = "collect"
    /\ t \in tab[r]
    /\ \E a \in Artifacts : <<q, a>> \in seen[r]
    /\ ~Lapsed(q, t)
    /\ Refuse(r)
    /\ UNCHANGED <<catalog, lease, made, kept, unitVars>>

\* Mutants: the claim only looks at the row; it does not wait for the row's lock.
ClaimUnmarked(r, t, q) ==
    /\ pc[r] = "claim"
    /\ t \in tab[r]
    /\ q \in victim[r]
    /\ Lapsed(q, t) /\ ~RowLocked(q, t)
    /\ pc' = [pc EXCEPT ![r] = "drop"]
    /\ UNCHANGED <<lease, catalog, made, scanVars, kept, unitVars>>
\* then lease_claim, an UPDATE .. FOR UPDATE NOWAIT, takes the row if it is still
\* lapsed; a row renewed, closed or locked since lease_get refuses.
ClaimTaken(r, t, q) ==
    /\ pc[r] = "claim"
    /\ t \in tab[r]
    /\ q \in victim[r]
    /\ Lapsed(q, t) /\ ~RowLocked(q, t)
    /\ lease' = [lease EXCEPT ![q][t] = "collected"]
    /\ pc' = [pc EXCEPT ![r] = "drop"]
    /\ UNCHANGED <<catalog, made, scanVars, kept, unitVars>>

ClaimRefused(r, t, q) ==
    /\ pc[r] = "claim"
    /\ t \in tab[r]
    /\ q \in victim[r]
    /\ ~Lapsed(q, t) \/ RowLocked(q, t)
    /\ Refuse(r)
    /\ UNCHANGED <<catalog, lease, made, kept, unitVars>>

\* The victim's markers the scan saw are dropped one by one, and every one is
\* tried.  The victim's row is never closed.
DropOne(r, t, q, a, ok) ==
    /\ pc[r] = "drop"
    /\ t \in tab[r]
    /\ q \in victim[r]
    /\ <<q, a>> \in seen[r]
    /\ ok \in Outcomes("drop")
    /\ catalog' = IF ok THEN catalog \ {<<q, t, a>>} ELSE catalog
    /\ UNCHANGED <<lease, made, kept, unitVars>>

\* Another marker of the victim is left.
DropCollected(r, t, q, a, ok) ==
    /\ DropOne(r, t, q, a, ok)
    /\ \E b \in seen[r] : b[1] = q /\ b[2] # a
    /\ seen' = [seen EXCEPT ![r] = @ \ {<<q, a>>}]
    /\ failed' = [failed EXCEPT ![r] = @ \/ ~ok]
    /\ UNCHANGED <<pc, checked, tab, victim>>

\* It was the victim's last, and one of them is still there: refuse.  The claim
\* stays taken.
CollectFails(r, t, q, a, ok) ==
    /\ DropOne(r, t, q, a, ok)
    /\ \A b \in seen[r] : b[1] = q => b[2] = a
    /\ failed[r] \/ ~ok
    /\ Refuse(r)

\* It was the victim's last and there are others: on to the next token.
CollectNext(r, t, q, a, ok) ==
    /\ DropOne(r, t, q, a, ok)
    /\ \A b \in seen[r] : b[1] = q => b[2] = a
    /\ seen[r] # {<<q, a>>}
    /\ seen' = [seen EXCEPT ![r] = @ \ {<<q, a>>}]
    /\ victim' = [victim EXCEPT ![r] = {}]
    /\ pc' = [pc EXCEPT ![r] = "collect"]
    /\ UNCHANGED <<checked, tab, failed>>

\* It was the last of all: the table is clear.
CollectLast(r, t, q, a, ok) ==
    /\ DropOne(r, t, q, a, ok)
    /\ seen[r] = {<<q, a>>}
    /\ Pass(r, t)

\* All the victim's markers are gone.
Collected(r, t, q, a, ok) ==
    /\ ok /\ ~failed[r]
    /\ CollectNext(r, t, q, a, ok) \/ CollectLast(r, t, q, a, ok)

\* A list, a lease_get or a lease_claim that errors ends the check as a refusal.
CheckFails(r) ==
    /\ "check" \in Faults
    /\ pc[r] \in {"scan", "scan2", "collect", "claim"}
    /\ Refuse(r)
    /\ UNCHANGED <<catalog, lease, made, kept, unitVars>>

Decide(r, t, q) ==
    \/ FindLapsed(r, t, q)
    \/ FindOwned(r, t, q)
    \/ ClaimTaken(r, t, q)
    \/ ClaimRefused(r, t, q)

Collect(r, t, q, a, ok) ==
    \/ DropCollected(r, t, q, a, ok)
    \/ CollectFails(r, t, q, a, ok)
    \/ Collected(r, t, q, a, ok)

-----------------------------------------------------------------------------
(* Writing under a tenure: lease.rs open_inner and close, dest_pg.rs. *)

\* open_inner's first look: neither winding down nor evicted.
WantUnit(r, t) ==
    /\ pc[r] = "hold"
    /\ r \in Drains
    /\ t \in Targets[r]
    /\ ~evicted[r]
    /\ unit[r][t] = "none"
    /\ unit' = [unit EXCEPT ![r][t] = "want"]
    /\ UNCHANGED <<pc, catalog, lease, made, scanVars, kept, evicted>>

\* The read guard of `units` is taken, then closing is looked at again.
GuardUnit(r, t) ==
    /\ unit[r][t] = "want"
    /\ unit' = [unit EXCEPT ![r][t] = IF pc[r] = "hold" THEN "guarded" ELSE "none"]
    /\ UNCHANGED <<pc, catalog, lease, made, scanVars, kept, evicted>>

\* open_unit: SELECT .. WHERE NOT collected FOR UPDATE.  No row is no owner;
\* expiry is not looked at.
OpenUnit(r, t) ==
    /\ unit[r][t] = "guarded"
    /\ unit' = [unit EXCEPT ![r][t] = IF lease[r][t] \in Owned THEN "open" ELSE "none"]
    /\ UNCHANGED <<pc, catalog, lease, made, scanVars, kept, evicted>>

\* close_unit: the marks, the renewal of the row, COMMIT.  An error anywhere, or
\* a renewal that finds no row, rolls back.
CloseUnit(r, t, ok) ==
    /\ unit[r][t] = "open"
    /\ unit' = [unit EXCEPT ![r][t] = "none"]
    /\ lease' = [lease EXCEPT ![r][t] = IF ok /\ @ \in Owned THEN "live" ELSE @]
    /\ UNCHANGED <<pc, catalog, made, scanVars, kept, evicted>>

\* Keeper tick, first half: one UPDATE of the group's uncollected rows, SKIP
\* LOCKED.  It runs from the end of acquire until release stops it.
KeeperRenew(r) ==
    /\ r \in Drains
    /\ pc[r] \in {"hold", "closing"}
    /\ lease' = [lease EXCEPT ![r] = [t \in Tables |->
                    IF lease[r][t] \in Owned /\ ~RowLocked(r, t) THEN "live"
                    ELSE lease[r][t]]]
    /\ UNCHANGED <<pc, catalog, made, scanVars, kept, unitVars>>

\* Keeper tick, second half: lease_unclaimed; a key that is missing evicts.
KeeperCheck(r) ==
    /\ r \in Drains
    /\ pc[r] \in {"hold", "closing"}
    /\ \E t \in Targets[r] : lease[r][t] \notin Owned
    /\ evicted' = [evicted EXCEPT ![r] = TRUE]
    /\ UNCHANGED <<pc, catalog, lease, made, scanVars, kept, unit>>

-----------------------------------------------------------------------------
(* Giving back: Tenure::release, give_back_run, guard.rs release. *)

\* release sets closing.  The drain awaits its bootstrap loads before that.
BeginRelease(r) ==
    /\ pc[r] = "hold"
    /\ r \in Drains
    /\ \A c \in Children(r) : ~Running(c)
    /\ pc' = [pc EXCEPT ![r] = "closing"]
    /\ UNCHANGED <<catalog, lease, made, scanVars, kept, unitVars>>

\* Mutant: release does not wait for the units.
StopKeeperAtOnce(r) ==
    /\ pc[r] = "closing"
    /\ pc' = [pc EXCEPT ![r] = "giveback"]
    /\ UNCHANGED <<catalog, lease, made, scanVars, kept, unitVars>>

\* The write guard waits for every unit; then the keeper stops.
StopKeeper(r) ==
    /\ pc[r] = "closing"
    /\ \A t \in Targets[r] : unit[r][t] \in {"none", "want"}
    /\ pc' = [pc EXCEPT ![r] = "giveback"]
    /\ UNCHANGED <<catalog, lease, made, scanVars, kept, unitVars>>

\* guard.rs release: every marker is tried; one that stays keeps the lease.
GiveBackMarker(r, t, a, ok) ==
    /\ pc[r] = "giveback"
    /\ a \in made[r][t]
    /\ a = "Staging" => "Lock" \notin made[r][t]
    /\ ok \in Outcomes("drop")
    /\ made' = [made EXCEPT ![r][t] = @ \ {a}]
    /\ catalog' = IF ok THEN catalog \ {<<r, t, a>>} ELSE catalog
    /\ kept' = [kept EXCEPT ![r] = IF ok THEN @ ELSE @ \cup {t}]
    /\ UNCHANGED <<pc, lease, scanVars, unitVars>>

\* Mutant: the row is closed although a marker of the table could not be dropped.
LeaseCloseKept(r, t, ok) ==
    /\ pc[r] = "giveback"
    /\ t \in Targets[r]
    /\ made[r][t] = {}
    /\ lease[r][t] # "none"
    /\ ok \in Outcomes("close")
    /\ lease' = [lease EXCEPT ![r][t] = IF ok THEN "none" ELSE @]
    /\ kept' = [kept EXCEPT ![r] = IF ok THEN @ ELSE @ \cup {t}]
    /\ UNCHANGED <<pc, catalog, made, scanVars, unitVars>>

\* lease_close of a table whose markers are gone or were never made; a row
\* that cannot be deleted stays.
LeaseClose(r, t, ok) ==
    /\ pc[r] = "giveback"
    /\ t \in Targets[r] \ kept[r]
    /\ made[r][t] = {}
    /\ lease[r][t] # "none"
    /\ ok \in Outcomes("close")
    /\ lease' = [lease EXCEPT ![r][t] = IF ok THEN "none" ELSE @]
    /\ kept' = [kept EXCEPT ![r] = IF ok THEN @ ELSE @ \cup {t}]
    /\ UNCHANGED <<pc, catalog, made, scanVars, unitVars>>

GiveBackDone(r) ==
    /\ pc[r] = "giveback"
    /\ \A t \in Targets[r] : made[r][t] = {} /\ (t \in kept[r] \/ lease[r][t] = "none")
    /\ pc' = [pc EXCEPT ![r] = "done"]
    /\ UNCHANGED <<catalog, lease, made, scanVars, kept, unitVars>>

-----------------------------------------------------------------------------
(* The bulk lane past its check: sink/postgres.rs, pipeline/mod.rs run. *)

\* CREATE TABLE staging; a failure ends prepare.
CreateStaging(r, t, ok) ==
    /\ pc[r] = "stage"
    /\ t \in Targets[r]
    /\ ok \in Outcomes("create")
    /\ catalog' = IF ok THEN catalog \cup {<<r, t, "Staging">>} ELSE catalog
    /\ pc' = [pc EXCEPT ![r] = IF ok THEN "unlock" ELSE "release"]
    /\ UNCHANGED <<lease, made, scanVars, kept, unitVars>>

\* PgSink::release drops the Lock, best effort: staging is what peers see now
\* (end of prepare), or the run is over (release_lock).
ReleaseLock(r, t, ok) ==
    /\ pc[r] \in {"unlock", "release"}
    /\ t \in Targets[r]
    /\ made' = [made EXCEPT ![r][t] = {}]
    /\ ok \in Outcomes("drop")
    /\ catalog' = IF ok THEN catalog \ {<<r, t, "Lock">>} ELSE catalog
    /\ pc' = [pc EXCEPT ![r] = IF pc[r] = "unlock" THEN "load" ELSE "done"]
    /\ UNCHANGED <<lease, scanVars, kept, unitVars>>

\* finalize: one transaction lands the rows and consumes staging.
Finalize(r, t) ==
    /\ pc[r] = "load"
    /\ t \in Targets[r]
    /\ catalog' = catalog \ {<<r, t, "Staging">>}
    /\ pc' = [pc EXCEPT ![r] = "done"]
    /\ UNCHANGED <<lease, made, scanVars, kept, unitVars>>

\* An empty load, or a failed one: staging is dropped, best effort.
Discard(r, t, ok) ==
    /\ pc[r] = "load"
    /\ t \in Targets[r]
    /\ ok \in Outcomes("drop")
    /\ catalog' = IF ok THEN catalog \ {<<r, t, "Staging">>} ELSE catalog
    /\ pc' = [pc EXCEPT ![r] = "done"]
    /\ UNCHANGED <<lease, made, scanVars, kept, unitVars>>

-----------------------------------------------------------------------------
(* The environment. *)

\* The destination's clock passes a row's expires_at.
Expire(r, t) ==
    /\ lease[r][t] = "live"
    /\ lease' = [lease EXCEPT ![r][t] = "lapsed"]
    /\ UNCHANGED <<pc, catalog, made, scanVars, kept, unitVars>>

\* The process of r dies: its memory is gone and its transactions roll back;
\* its objects and rows stay.
Crash(r) ==
    LET gone == {r} \cup {c \in Children(r) : Running(c)}
        Forget(f, v) == [q \in Runs |-> IF q \in gone THEN v ELSE f[q]]
    IN  /\ Running(r)
        /\ Parent[r] = NoRun
        /\ pc' = Forget(pc, "dead")
        /\ unit' = Forget(unit, [t \in Tables |-> "none"])
        /\ made' = Forget(made, [t \in Tables |-> {}])
        /\ checked' = Forget(checked, {})
        /\ tab' = Forget(tab, {})
        /\ seen' = Forget(seen, {})
        /\ victim' = Forget(victim, {})
        /\ failed' = Forget(failed, FALSE)
        /\ kept' = Forget(kept, {})
        /\ evicted' = Forget(evicted, FALSE)
        /\ UNCHANGED <<catalog, lease>>

-----------------------------------------------------------------------------
(* What a run does by itself, and the whole system. *)

Start(r) == LeaseOpen(r) \/ BeginLoad(r)

Announce(r, t, a) == CreateMarker(r, t, a) \/ AnnounceFails(r, t, a)

UnitStep(r, t, ok) == GuardUnit(r, t) \/ OpenUnit(r, t) \/ CloseUnit(r, t, ok)

Keeper(r) == KeeperRenew(r) \/ KeeperCheck(r)

GiveBack(r) == StopKeeper(r) \/ GiveBackDone(r)

Bulk(r, t, ok) ==
    \/ CreateStaging(r, t, ok)
    \/ ReleaseLock(r, t, ok)
    \/ Finalize(r, t)
    \/ Discard(r, t, ok)

\* What the code of a started run does next, without waiting for anyone.
Work(r) ==
    \/ CheckFails(r)
    \/ GiveBack(r)
    \/ \E t \in Tables : Scan(r, t)
    \/ \E t \in Tables, a \in Artifacts : Announce(r, t, a)
    \/ \E t \in Tables, q \in Runs : Decide(r, t, q)
    \/ \E t \in Tables, ok \in BOOLEAN :
        UndoAnnounce(r, t, ok) \/ LeaseClose(r, t, ok) \/ Bulk(r, t, ok)
    \/ \E t \in Tables, a \in Artifacts, ok \in BOOLEAN : GiveBackMarker(r, t, a, ok)
    \/ \E t \in Tables, q \in Runs, a \in Artifacts, ok \in BOOLEAN : Collect(r, t, q, a, ok)

Next ==
    \E r \in Runs :
        \/ Start(r)
        \/ Work(r)
        \/ BeginRelease(r)
        \/ Keeper(r)
        \/ Crash(r)
        \/ \E t \in Tables : WantUnit(r, t) \/ Expire(r, t)
        \/ \E t \in Tables, ok \in BOOLEAN : UnitStep(r, t, ok)

Spec == Init /\ [][Next]_vars

\* A process that has not died keeps executing: it never waits for a peer, and
\* a started drain's unit and its release are awaited by the code that started
\* them.  Starting a run, dying and a keeper's tick are nobody's obligation.
Fairness ==
    \A r \in Runs :
        /\ WF_vars(Work(r))
        /\ WF_vars(BeginRelease(r))
        /\ \A t \in Tables : WF_vars(\E ok \in BOOLEAN : UnitStep(r, t, ok))

FairSpec == Spec /\ Fairness

-----------------------------------------------------------------------------
(* Properties. *)

TypeOK ==
    /\ pc \in [Runs -> Phases]
    /\ catalog \subseteq Runs \X Tables \X Artifacts
    /\ lease \in [Runs -> [Tables -> LeaseStates]]
    /\ made \in [Runs -> [Tables -> SUBSET Artifacts]]
    /\ checked \in [Runs -> SUBSET Tables]
    /\ tab \in [Runs -> SUBSET Tables]
    /\ seen \in [Runs -> SUBSET (Runs \X Artifacts)]
    /\ victim \in [Runs -> SUBSET Runs]
    /\ failed \in [Runs -> BOOLEAN]
    /\ kept \in [Runs -> SUBSET Tables]
    /\ unit \in [Runs -> [Tables -> {"none", "want", "guarded", "open"}]]
    /\ evicted \in [Runs -> BOOLEAN]

\* r may write t: a bulk run past its check, a drain past its check whose row
\* nobody has taken.
Holds(r, t) ==
    /\ t \in Targets[r]
    /\ IF r \in Drains THEN pc[r] \in {"hold", "closing"} /\ lease[r][t] \in Owned
                       ELSE pc[r] \in {"stage", "unlock", "load"}

Related(r, q) == Parent[r] = q \/ Parent[q] = r

\* Two runs that may not coexist (naming.rs peer_blocks) never hold one table
\* together, whatever the order of their announcements, scans, renewals and
\* claims: what guard.rs means by "the scan that decides must be taken AFTER
\* the announcement it protects".
Exclusion ==
    \A t \in Tables : \A r, q \in Runs :
        r # q /\ ~Related(r, q) /\ Holds(r, t) /\ Holds(q, t) => ~PeerBlocks(r, q)

\* While a write transaction is open its run still holds the table: neither a
\* collector's claim nor the run's own release can take the row from under it
\* (dest_pg.rs open_unit, lease.rs `units`).
FencedWrites ==
    \A r \in Runs, t \in Tables : unit[r][t] = "open" => Holds(r, t)

\* A run that may write is visible to every scan, at every moment between its
\* check and its end: a bulk run's staging exists before its Lock goes, and no
\* collector removes a marker of a drain whose row it did not take.
Visible ==
    \A r \in Runs, t \in Tables :
        Holds(r, t) => \E a \in Artifacts : <<r, t, a>> \in catalog

\* Every marker of a drain has a lease row, so a later run can ask for it and
\* collect it once it lapses; a marker without a row would refuse every later
\* run for ever (sink/postgres.rs lease_close, lease.rs give_back).
NoWedge ==
    \A r \in Drains, t \in Tables, a \in Artifacts :
        <<r, t, a>> \in catalog => lease[r][t] # "none"

\* The lease rows never go back from collected or closed to owned.
NeverReowned ==
    \A r \in Runs, t \in Tables :
        /\ lease[r][t] = "collected" => lease'[r][t] \in {"collected", "none"}
        /\ lease[r][t] = "none" /\ pc[r] # "idle" => lease'[r][t] = "none"

\* A claim is final: no renewal, by the keeper or in a unit, gives a collected
\* row back to its owner, and a closed row never reappears
\* (sink/postgres.rs lease_renew, dest_pg.rs close_unit).
ClaimIsFinal == [][NeverReowned]_vars

\* The objects of r that disappear in a step r takes no part in.
DropsAreClaimed ==
    \A r \in Runs, t \in Tables, a \in Artifacts :
        /\ <<r, t, a>> \in catalog
        /\ <<r, t, a>> \notin catalog'
        /\ pc'[r] = pc[r] /\ made'[r] = made[r]
        => r \in Drains /\ lease[r][t] \in {"collected", "none"}

\* Nobody removes another run's object unless that run is a drain whose row was
\* taken first: guard.rs check_peers never drops a live run's marker, nor ever
\* a bulk run's lock or staging.
NoForeignDrop == [][DropsAreClaimed]_vars

\* r runs alone among what dead drains left, all of it lapsed or half collected.
AloneWithTheDead(r) ==
    /\ \A q \in Runs \ {r} : ~Running(q)
    /\ \A b \in catalog : b[1] # r =>
            b[1] \in Drains /\ lease[b[1]][b[2]] \in {"lapsed", "collected"}

-----------------------------------------------------------------------------
(* The inductive invariant behind Exclusion, FencedWrites and NoWedge.       *)

\* Phases in which a run's check of its peers still counts.
Acting(r) == pc[r] \in ScanPhases \cup {"hold", "closing", "stage", "unlock", "load"}

\* Nobody took r's row for t: what the fence of a drain's next unit will find.
Valid(r, t) == r \in Drains => lease[r][t] \in Owned

\* A run has a row, and is known to the catalog and to its peers, only once it
\* has started.
Started ==
    /\ \A r \in Runs, t \in Tables : lease[r][t] # "none" => pc[r] # "idle"
    /\ \A b \in catalog : pc[b[1]] # "idle"
    /\ \A r \in Runs : \A b \in seen[r] : pc[b[1]] # "idle"
    /\ \A r \in Runs : \A q \in victim[r] : pc[q] # "idle"

\* A scan looks at one table of the run, and remembers nothing once it is over.
Scanning ==
    \A r \in Runs :
        /\ \A t \in tab[r] : tab[r] = {t} /\ t \in Targets[r]
        /\ pc[r] \in {"idle", "announce", "scan"} => tab[r] = {}
        /\ pc[r] \in {"idle", "announce"} => checked[r] = {}
        /\ checked[r] \subseteq Targets[r]
        /\ pc[r] \in {"hold", "closing", "stage", "unlock", "load"} =>
                checked[r] = Targets[r] /\ tab[r] = {}

\* Which phases belong to which lane.
Lanes ==
    \A r \in Runs :
        /\ pc[r] \in {"hold", "closing", "giveback", "undo"} => r \in Drains
        /\ pc[r] \in {"stage", "unlock", "load", "release"} => r \in Bulks

\* Until it gives back, an announced run holds every one of its markers.
Announced ==
    \A r \in Runs, t \in Tables :
        /\ made[r][t] \subseteq Markers(Kind[r])
        /\ pc[r] = "idle" => made[r][t] = {}
        /\ t \in Targets[r] /\ pc[r] \in ScanPhases \cup {"hold", "closing", "stage", "unlock"}
                => made[r][t] = Markers(Kind[r])

\* A marker a run holds exists unless the run's row was taken first.
MarkersPresent ==
    \A r \in Runs, t \in Tables : \A a \in made[r][t] :
        Valid(r, t) => <<r, t, a>> \in catalog

\* A bulk run past its announcement has its staging.
StagingPresent ==
    \A r \in Runs, t \in Tables :
        pc[r] \in {"unlock", "load"} /\ t \in Targets[r] => <<r, t, "Staging">> \in catalog

\* A collector claims drains only, and drops only what it has claimed.
Collecting ==
    \A r \in Runs :
        /\ pc[r] \in {"collect", "claim", "drop"} =>
                \A b \in seen[r] : b[1] \in Drains
        /\ \A q \in victim[r] : victim[r] = {q} /\ q \in Drains
        /\ pc[r] = "drop" => \A q \in victim[r], t \in tab[r] : lease[q][t] \notin Owned

\* r has listed the Locks of t and q's was not among them.
Half(r, q, t) == pc[r] = "scan2" /\ t \in tab[r] /\ <<q, "Lock">> \notin seen[r]

\* r has finished listing t, or cleared it, without q as a blocker.
Past(r, q, t) ==
    \/ t \in checked[r]
    \/ /\ t \in tab[r]
       /\ pc[r] \in {"collect", "claim", "drop"}
       /\ \A a \in Artifacts : <<q, a>> \notin seen[r]

\* r and q are peers that may not coexist on t, both acting and unclaimed.
Rivals(r, q, t) ==
    /\ r # q
    /\ t \in Targets[r] /\ t \in Targets[q]
    /\ Blocks(r, q) /\ Blocks(q, r)
    /\ Acting(r) /\ Acting(q)
    /\ Valid(r, t) /\ Valid(q, t)

\* Of two rivals at most one gets past the other: whoever announced second
\* lists after the first one's announcement.  Between its two lists a run can
\* have missed only a bulk rival whose Lock has already given way to Staging.
Ordered ==
    \A r, q \in Runs, t \in Tables :
        Rivals(r, q, t) =>
            /\ ~(Past(r, q, t) /\ Past(q, r, t))
            /\ ~(Half(r, q, t) /\ Half(q, r, t))
            /\ Half(r, q, t) /\ Past(q, r, t) => pc[q] \in {"unlock", "load"}

\* A unit belongs to a drain that has passed its check and not yet given back;
\* an open one holds its row.
Units ==
    \A r \in Runs, t \in Tables :
        /\ unit[r][t] # "none" => r \in Drains /\ t \in Targets[r]
        /\ unit[r][t] \in {"guarded", "open"} => pc[r] \in {"hold", "closing"}
        /\ unit[r][t] = "open" => lease[r][t] \in Owned

\* A drain has a row for every table of its group until it gives back.
Leased ==
    \A r \in Drains : pc[r] \notin {"idle", "giveback", "done", "dead"} =>
        \A t \in Targets[r] : lease[r][t] # "none"

\* A drain's marker has its row, and the drain still accounts for it: it holds
\* the marker, or has given up on the table and keeps the row.
Accounted ==
    \A r \in Drains, t \in Tables, a \in Artifacts :
        <<r, t, a>> \in catalog =>
            /\ t \in Targets[r]
            /\ lease[r][t] # "none"
            /\ pc[r] \notin {"done", "dead"} => a \in made[r][t] \/ t \in kept[r]

\* What each run knows and does, apart from its rivals.
Local == Started /\ Scanning /\ Lanes /\ Announced /\ Collecting /\ Units

\* The inductive invariant of Exclusion, FencedWrites, Visible, NoForeignDrop.
IInv == TypeOK /\ Local /\ MarkersPresent /\ StagingPresent /\ Ordered

\* With it, that of NoWedge.
RowInv == Leased /\ Accounted
=============================================================================
