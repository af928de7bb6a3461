----------------------------- MODULE MCEviction -----------------------------
(* Runs that meet and runs that lose what they had: two drains and a replace   *)
(* of one table; incremental loads of two sources beside a replace (Tenure); a *)
(* drain whose group is taken over while it works, and one whose slot is lost  *)
(* (Replica). Each behaviour plays one.                                        *)
EXTENDS Naturals, Integers, Sequences, TLC

CONSTANTS d1, d2, s1, i1, i2, i3, t1, r1, r2, g1, g2, NoRun, Off

VARIABLES
    which,   \* the scenario a behaviour plays; the other components are Off
    pc, catalog, lease, made, checked, tab, seen, victim, failed, kept, unit, evicted,
    wal, slot, using, mark, held, twice, owner, replicaPc, cur, tried, bad, loading, floors,
    from, stop, queue, pending, applied, task

tenureVars == <<pc, catalog, lease, made, checked, tab, seen, victim, failed, kept, unit, evicted>>
replicaVars == <<wal, slot, using, mark, held, twice, owner, replicaPc, cur, tried, bad, loading,
    floors, from, stop, queue, pending, applied, task>>
vars == <<which, tenureVars, replicaVars>>

\* The two drains are alike, and so are the runs of a group and its members.
Symmetry == Permutations({d1, d2}) \cup Permutations({r1, r2}) \cup Permutations({g1, g2})

Lanes == INSTANCE Tenure WITH Runs <- {d1, d2, s1},
    Kind <- [r \in {d1, d2, s1} |-> IF r = s1 THEN "Swap" ELSE "Cdc"],
    Source <- [r \in {d1, d2, s1} |-> 1], Targets <- [r \in {d1, d2, s1} |-> {t1}],
    Parent <- [r \in {d1, d2, s1} |-> NoRun], Tables <- {t1}, Faults <- {}
FanIn == INSTANCE Tenure WITH Runs <- {i1, i2, i3, s1},
    Kind <- [r \in {i1, i2, i3, s1} |-> IF r = s1 THEN "Swap" ELSE "Incremental"],
    Source <- [r \in {i1, i2, i3, s1} |-> IF r = i3 THEN 2 ELSE 1],
    Targets <- [r \in {i1, i2, i3, s1} |-> {t1}], Parent <- [r \in {i1, i2, i3, s1} |-> NoRun],
    Tables <- {t1}, Faults <- {"create"}
Stall == INSTANCE Replica WITH Runs <- {r1, r2}, Tables <- {g1}, Depth <- 1, MaxWal <- 2,
    Faults <- {"unit", "lose", "stall", "empty"}, pc <- replicaPc
Lost == INSTANCE Replica WITH Runs <- {r1, r2}, Tables <- {g1, g2}, Depth <- 1, MaxWal <- 2,
    Faults <- {"stream", "unit", "lose"}, pc <- replicaPc

TenureOff == pc = Off /\ catalog = Off /\ lease = Off /\ made = Off /\ checked = Off /\
    tab = Off /\ seen = Off /\ victim = Off /\ failed = Off /\ kept = Off /\ unit = Off /\
    evicted = Off
ReplicaOff == wal = Off /\ slot = Off /\ using = Off /\ mark = Off /\ held = Off /\
    twice = Off /\ owner = Off /\ replicaPc = Off /\ cur = Off /\ tried = Off /\ bad = Off /\
    loading = Off /\ floors = Off /\ from = Off /\ stop = Off /\ queue = Off /\ pending = Off /\
    applied = Off /\ task = Off

TenureInit ==
    \/ which = "lanes" /\ Lanes!Init
    \/ which = "fanin" /\ FanIn!Init
ReplicaInit ==
    \/ which = "stall" /\ Stall!Init
    \/ which = "lost" /\ Lost!Init

Init ==
    \/ TenureInit /\ ReplicaOff
    \/ ReplicaInit /\ TenureOff

TenureNext ==
    \/ which = "lanes" /\ Lanes!Next
    \/ which = "fanin" /\ FanIn!Next
ReplicaNext ==
    \/ which = "stall" /\ Stall!Next
    \/ which = "lost" /\ Lost!Next

Next ==
    \/ TenureNext /\ UNCHANGED <<which, replicaVars>>
    \/ ReplicaNext /\ UNCHANGED <<which, tenureVars>>

Spec == Init /\ [][Next]_vars

-----------------------------------------------------------------------------
\* Two runs that would disturb each other never hold one table, whichever announced
\* first, died, was claimed or was only slow (check_peers, peer_blocks, lease_claim);
\* and a run that may write is visible to every scan.
ExclusiveLanes ==
    /\ which = "lanes" => Lanes!Exclusion /\ Lanes!FencedWrites
    /\ which = "fanin" => FanIn!Exclusion /\ FanIn!Visible

\* A run that was evicted and goes on with the windows it has in memory leaves no member
\* with a change past its watermark, so what the next run applies never lands on top of
\* what came later (open_unit's fence, close_unit); and after a slot is lost no run goes
\* on past the gap: every watermark stays exact (drain_group's reconcile).
LossHarmless ==
    /\ which = "stall" => Stall!NoneAhead
    /\ which = "lost" => Lost!Exact
=============================================================================
