-------------------------------- MODULE Sweep --------------------------------
(***************************************************************************)
(* The scratch of a drain on ClickHouse, from its windows to its end: the  *)
(* key table its DELETE mutations read, a changelog rebuild, its markers   *)
(* and its lease (dest_ch.rs, lease.rs give_back, guard.rs check_peers,    *)
(* sink/clickhouse.rs sweep_run).  The drain gives them back, or dies; the *)
(* runs that meet its markers once the lease has lapsed collect them, also *)
(* while it is still at work: a unit that is open makes its scratch with   *)
(* statements no claim refuses.  Every sweep may fail or die half way.     *)
(***************************************************************************)
EXTENDS Naturals, FiniteSets

CONSTANTS Markers, Peers, MaxFaults, MaxDeletes

\* The drain; Peers are the runs that may collect what it leaves.
Owner == "owner"
Sweepers == Peers \cup {Owner}

\* A run has at least its lock marker (announce).
SweepAssumption == Markers # {} /\ Owner \notin Peers

VARIABLES
    marks,     \* markers of the run that stand
    key, tmp,  \* its key table and its rebuild: "none", or made before its claim
               \* was taken ("own") or after ("late")
    made,      \* the key table was made (`first_time`): from now on it is truncated
    del,       \* its DELETE: "none", "sent", "analysed", "running", "stuck"
    lease,     \* "live", "lapsed", "collected", "closed"
    at,        \* where each sweeper is: Running, a Sweeping phase, or an end
    bad,       \* a step of its sweep failed (`first` in sweep_run)
    faults, deletes

sweepVars == <<marks, key, tmp, made, del, lease, at, bad, faults, deletes>>
Server == <<marks, key, tmp, del>>

Running == {"out", "open", "keyed", "asked", "copied"}
Sweeping == {"look", "key", "again", "tmp", "kept", "marks"}

Fault == faults < MaxFaults /\ faults' = faults + 1
Goes(s, phase) == at' = [at EXCEPT ![s] = phase]

-----------------------------------------------------------------------------
\* The run's windows.  A unit opens under a pin of the live lease; what makes scratch
\* inside it asks for no lease, what writes or publishes asks again (`keep`).

\* The age of what is made now.
AgeNow == IF lease = "collected" THEN "late" ELSE "own"

OpenUnit ==
    /\ at[Owner] = "out" /\ lease = "live" /\ Goes(Owner, "open")
    /\ UNCHANGED <<Server, made, lease, bad, faults, deletes>>

CloseUnit ==
    /\ at[Owner] = "open" /\ Goes(Owner, "out")
    /\ UNCHANGED <<Server, made, lease, bad, faults, deletes>>

\* DROP and CREATE once per run, then a TRUNCATE, which wants the table.
ResetKey ==
    /\ at[Owner] = "open" /\ Goes(Owner, "keyed")
    /\ \/ ~made /\ key' = AgeNow /\ made' = TRUE
       \/ made /\ key # "none" /\ UNCHANGED <<key, made>>
    /\ UNCHANGED <<marks, tmp, del, lease, bad, faults, deletes>>

SendDelete ==
    /\ at[Owner] = "keyed" /\ lease = "live" /\ deletes < MaxDeletes
    /\ del' = "sent" /\ deletes' = deletes + 1
    /\ Goes(Owner, "asked")
    /\ UNCHANGED <<marks, key, tmp, made, lease, bad, faults>>

Answered ==
    /\ at[Owner] = "asked" /\ del = "none" /\ Goes(Owner, "open")
    /\ UNCHANGED <<Server, made, lease, bad, faults, deletes>>

\* The rebuild is copied, however long that takes, and swapped in under a fresh pin;
\* its drop after that is best effort.
CopyRebuild ==
    /\ at[Owner] = "open" /\ Goes(Owner, "copied")
    /\ tmp' = AgeNow
    /\ UNCHANGED <<marks, key, made, del, lease, bad, faults, deletes>>

SwapRebuild ==
    /\ at[Owner] = "copied" /\ lease = "live" /\ Goes(Owner, "open")
    /\ \/ tmp' = "none" /\ UNCHANGED faults
       \/ Fault /\ UNCHANGED tmp
    /\ UNCHANGED <<marks, key, made, del, lease, bad, deletes>>

\* A step of the unit is refused or fails (a CREATE perhaps after it was done), or its
\* deadline passes: the run releases, whatever became of its lease.
UnitFails ==
    /\ at[Owner] \in Running \ {"out"} /\ Goes(Owner, "look")
    /\ \/ UNCHANGED <<key, tmp, faults>>
       \/ /\ at[Owner] = "open" /\ Fault
          /\ \/ ~made /\ key' \in {"none", AgeNow} /\ UNCHANGED tmp
             \/ tmp' \in {"none", AgeNow} /\ UNCHANGED key
    /\ UNCHANGED <<marks, made, del, lease, bad, deletes>>

\* The server: a DELETE is analysed, becomes a mutation, and reads the key table part by
\* part; it fails for good on a part it meets without it.
Analyse ==
    /\ del = "sent"
    /\ del' = IF key = "none" THEN "none" ELSE "analysed"
    /\ UNCHANGED <<marks, key, tmp, made, lease, at, bad, faults, deletes>>

Registers ==
    /\ del = "analysed"
    /\ del' = "running"
    /\ UNCHANGED <<marks, key, tmp, made, lease, at, bad, faults, deletes>>

Mutates ==
    /\ del = "running"
    /\ del' = IF key = "none" THEN "stuck" ELSE "none"
    /\ UNCHANGED <<marks, key, tmp, made, lease, at, bad, faults, deletes>>

\* The TTL passes with no renewal: the run is gone, or slow.
Lapses ==
    /\ lease = "live"
    /\ lease' = "lapsed"
    /\ UNCHANGED <<Server, made, at, bad, faults, deletes>>

\* A run that is gone, or whose own sweep failed, renews no more: its lease lapses.
Gone == {"cut", "dead", "failed"}
LapsesUnkept == at[Owner] \in Gone /\ Lapses

\* A renewal revives a row that lapsed, never one that was claimed.
Renews ==
    /\ lease = "lapsed" /\ at[Owner] \in Running
    /\ lease' = "live"
    /\ UNCHANGED <<Server, made, at, bad, faults, deletes>>

-----------------------------------------------------------------------------
\* give_back: no unit is open, and the keeper has stopped.  The lease is not asked.
GiveBack ==
    /\ at[Owner] = "out" /\ Goes(Owner, "look")
    /\ UNCHANGED <<Server, made, lease, bad, faults, deletes>>

\* Mutant: a lease that was claimed once is never claimed again.
CollectOnce(c) ==
    /\ at[c] = "none" /\ lease = "lapsed" /\ marks # {}
    /\ lease' = "collected"
    /\ Goes(c, "look") /\ bad' = [bad EXCEPT ![c] = FALSE]
    /\ UNCHANGED <<Server, made, faults, deletes>>

\* check_peers: a later run meets the markers of a lapsed or collected lease,
\* claims it and sweeps, whoever else is sweeping.
Collect(c) ==
    /\ at[c] = "none" /\ lease \in {"lapsed", "collected"} /\ marks # {}
    /\ lease' = "collected"
    /\ Goes(c, "look") /\ bad' = [bad EXCEPT ![c] = FALSE]
    /\ UNCHANGED <<Server, made, faults, deletes>>

Unfinished == del \in {"running", "stuck"}

\* kill_readers: nothing to kill; killed; or it could not be asked or killed.
Kill(s, next) ==
    \/ ~Unfinished /\ Goes(s, next) /\ UNCHANGED <<del, bad, faults>>
    \/ Unfinished /\ del' = "none" /\ Goes(s, next) /\ UNCHANGED <<bad, faults>>
    \/ /\ Fault /\ Goes(s, "tmp") /\ bad' = [bad EXCEPT ![s] = TRUE]
       /\ del' \in {del, IF Unfinished THEN "none" ELSE del}

FirstLook(s) ==
    /\ at[s] = "look" /\ Kill(s, "key")
    /\ UNCHANGED <<marks, key, tmp, made, lease, deletes>>

DropKey(s) ==
    /\ at[s] = "key"
    /\ \/ key' = "none" /\ Goes(s, "again") /\ UNCHANGED <<bad, faults>>
       \/ /\ Fault /\ key' \in {key, "none"}
          /\ Goes(s, "tmp") /\ bad' = [bad EXCEPT ![s] = TRUE]
    /\ UNCHANGED <<marks, tmp, made, del, lease, deletes>>

\* Mutant: one look is taken for enough.
AgainNot(s) ==
    /\ at[s] = "again" /\ Goes(s, "tmp")
    /\ UNCHANGED <<Server, made, lease, bad, faults, deletes>>

\* The second look.  The round trip of the drop is longer than the server takes
\* from analysing a DELETE to registering it.
Again(s) ==
    /\ at[s] = "again" /\ del # "analysed"
    /\ Kill(s, "tmp")
    /\ UNCHANGED <<marks, key, tmp, made, lease, deletes>>

\* The rebuild is dropped whatever came before; then the sweep answers.
DropTmp(s) ==
    /\ at[s] = "tmp"
    /\ \/ tmp' = "none" /\ UNCHANGED faults /\ Goes(s, IF bad[s] THEN "kept" ELSE "marks")
       \/ Fault /\ tmp' \in {tmp, "none"} /\ Goes(s, "kept")
    /\ UNCHANGED <<marks, key, made, del, lease, bad, deletes>>

\* A failed sweep keeps the markers and the lease for the next run: the owner is
\* through, a peer reports and may come again.
Kept(s) ==
    /\ at[s] = "kept" /\ Goes(s, IF s = Owner THEN "failed" ELSE "none")
    /\ UNCHANGED <<Server, made, lease, bad, faults, deletes>>

\* release and check_peers' drops: every marker is tried; with every one dropped the
\* owner closes its lease as well as it can, with one not the claim stands.
DropMarks(s) ==
    /\ at[s] = "marks"
    /\ \/ /\ marks' = {} /\ UNCHANGED faults
          /\ Goes(s, IF s = Owner THEN "released" ELSE "none")
          /\ lease' \in IF s = Owner THEN {"closed", lease} ELSE {lease}
       \/ /\ Fault /\ marks' \in SUBSET marks
          /\ Goes(s, IF s = Owner THEN "failed" ELSE "none")
          /\ UNCHANGED lease
    /\ UNCHANGED <<key, tmp, made, del, bad, deletes>>

\* A process dies.  The owner's last CREATE may be on its way.
Dies(s) ==
    /\ \/ /\ s = Owner /\ at[s] \in Running \cup Sweeping /\ UNCHANGED faults
          /\ \E end \in {"dead"} \cup (IF at[s] = "open" THEN {"cut"} ELSE {}) : Goes(s, end)
       \/ s # Owner /\ at[s] \in Sweeping /\ Fault /\ Goes(s, "none")
    /\ UNCHANGED <<Server, made, lease, bad, deletes>>

CreateLands ==
    /\ at[Owner] = "cut" /\ Goes(Owner, "dead")
    /\ \/ ~made /\ key' = AgeNow /\ UNCHANGED tmp
       \/ tmp' = AgeNow /\ UNCHANGED key
    /\ UNCHANGED <<marks, made, del, lease, bad, faults, deletes>>

SweepInit ==
    /\ marks = Markers
    /\ key = "none" /\ tmp = "none" /\ made = FALSE
    /\ del = "none"
    /\ lease = "live"
    /\ at = [s \in Sweepers |-> IF s = Owner THEN "out" ELSE "none"]
    /\ bad = [s \in Sweepers |-> FALSE]
    /\ faults = 0 /\ deletes = 0

Units == OpenUnit \/ CloseUnit \/ ResetKey \/ SendDelete \/ Answered \/ CopyRebuild
    \/ SwapRebuild \/ UnitFails \/ CreateLands
Mutation == Analyse \/ Registers \/ Mutates
Sweeps(s) == FirstLook(s) \/ DropKey(s) \/ Again(s) \/ DropTmp(s) \/ Kept(s) \/ DropMarks(s)

SweepNext ==
    \/ Units \/ Mutation \/ Lapses \/ Renews \/ GiveBack
    \/ \E c \in Peers : Collect(c)
    \/ \E s \in Sweepers : Sweeps(s) \/ Dies(s)

SweepSpec == SweepInit /\ [][SweepNext]_sweepVars

-----------------------------------------------------------------------------
SweepTypeOK ==
    /\ marks \subseteq Markers
    /\ key \in {"none", "own", "late"} /\ tmp \in {"none", "own", "late"}
    /\ made \in BOOLEAN
    /\ del \in {"none", "sent", "analysed", "running", "stuck"}
    /\ lease \in {"live", "lapsed", "collected", "closed"}
    /\ at \in [Sweepers -> Running \cup Sweeping
                              \cup {"none", "cut", "released", "failed", "dead"}]
    /\ bad \in [Sweepers -> BOOLEAN]

\* Once its last marker is gone no run finds a drain's scratch any more, so by then all it
\* made before its claim was taken is gone, and no mutation blocks every later one of the
\* table, whichever of the sweeps at work together failed or died (sweep_run, check_peers).
\* What it made after, in a unit that was open, is past the peers' sweeps: its own release
\* takes it, and a run that gave back leaves nothing, evicted or not (give_back).
NothingOrphaned ==
    /\ marks = {} => key # "own" /\ tmp # "own" /\ del # "stuck"
    /\ at[Owner] = "released" => marks = {} /\ key = "none" /\ tmp = "none"
=============================================================================
