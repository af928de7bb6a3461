------------------------------- MODULE ChFence -------------------------------
(***************************************************************************)
(* The time fence of a ClickHouse unit (logbased/dest_ch.rs, mod store)    *)
(* and the group close that rests on it (logbased/run.rs, apply_windows).  *)
(*                                                                         *)
(* Nothing rolls back: every statement carries the predicate "this run     *)
(* still owns the table", evaluated by the server part by part, and a part *)
(* that fails it writes nothing and says nothing.  So a mark may be        *)
(* written only when every earlier part is known to have passed.  When a   *)
(* unit reads its pin again is decided by the client's clock, which        *)
(* nothing here trusts: it may happen before any statement.                *)
(***************************************************************************)
EXTENDS Naturals, FiniteSets, FiniteSetsExt

CONSTANTS
    Groups,    \* the groups of tables looked at
    TTL,       \* a renewal's length
    Margin,    \* owned_margin_secs
    Stmts,     \* bound: statements of a window
    Parts,     \* bound: parts the server evaluates a statement over
    FenceTime, \* bound: the server's clock
    Windows    \* bound: positions a window may end at

FenceAssumption ==
    /\ \A M \in Groups : IsFiniteSet(M) /\ M # {}
    /\ {TTL, Margin, Stmts, Parts, FenceTime, Windows} \subseteq Nat
    /\ Margin < TTL /\ Parts > 0 /\ Stmts > 0

VARIABLES
    members, \* the group's tables
    clock,   \* the server's clock
    exp,     \* _apitap_lease: each key's expires_at
    taken,   \* a peer collected the row
    mark,    \* _apitap_state: each member's position
    win,     \* the window in hand, 0 when there is none
    phase,   \* each member's unit
    e0,      \* its pinned deadline
    owed,    \* an owned statement was sent since the pin
    cache,   \* the last pin of the key, 0 when there is none
    parts,   \* parts the running statement has left
    lost,    \* a part of this window was fenced out
    sent,    \* statements of this window that ran
    landed,  \* parts of this window that wrote
    group    \* the group close: its pin, whether one is owed, the members left to mark

row == <<exp, taken>>
unit == <<phase, e0, owed, cache, parts, lost, sent, landed>>
fenceVars == <<members, clock, row, mark, win, unit, group>>

NoGroup == [e0 |-> 0, owed |-> FALSE, todo |-> {}, one |-> FALSE]

FenceInit ==
    /\ members \in Groups
    /\ clock = 0
    /\ exp = [m \in members |-> TTL] /\ taken = [m \in members |-> FALSE]
    /\ mark = [m \in members |-> 0] /\ win = 0
    /\ phase = [m \in members |-> "none"] /\ e0 = [m \in members |-> 0]
    /\ owed = [m \in members |-> FALSE] /\ cache = [m \in members |-> 0]
    /\ parts = [m \in members |-> 0] /\ lost = [m \in members |-> FALSE]
    /\ sent = [m \in members |-> 0] /\ landed = [m \in members |-> 0]
    /\ group = NoGroup

-----------------------------------------------------------------------------
(* The lease row.                                                          *)

FenceTick ==
    /\ clock < FenceTime
    /\ clock' = clock + 1
    /\ UNCHANGED <<row, mark, win, unit, group>>

\* A renewal revives a lapsed row that nobody collected.
KeeperRenews ==
    /\ \E m \in members : ~taken[m] /\ exp[m] < clock + TTL
    /\ exp' = [m \in members |-> IF taken[m] THEN exp[m] ELSE clock + TTL]
    /\ UNCHANGED <<clock, taken, mark, win, unit, group>>

\* A peer's sweep collects a row that has lapsed.
PeerClaims(m) ==
    /\ ~taken[m] /\ exp[m] <= clock
    /\ taken' = [taken EXCEPT ![m] = TRUE]
    /\ UNCHANGED <<clock, exp, mark, win, unit, group>>

-----------------------------------------------------------------------------
(* The fence.                                                              *)

\* owner_pred: the row is there, not collected, with more than the margin left.
OwnerPred(m) == ~taken[m] /\ clock + Margin < exp[m]
PinnedPred(deadline) == clock + Margin < deadline

RepinAnew(keys, prev) == \A m \in keys : OwnerPred(m)
\* repin: every row live, and the read itself still inside the deadline carried so far (0: none).
Repin(keys, prev) ==
    /\ \A m \in keys : OwnerPred(m)
    /\ prev = 0 \/ PinnedPred(prev)

PinOf(keys) == Min({exp[m] : m \in keys})

\* The deadline a re-read must still pass: the unit's, once it sent a statement.
Prev(m) == IF owed[m] THEN e0[m] ELSE 0

Pinned(m, deadline) ==
    /\ e0' = [e0 EXCEPT ![m] = deadline]
    /\ cache' = [cache EXCEPT ![m] = deadline]

Fail(m) ==
    /\ phase' = [phase EXCEPT ![m] = "failed"]
    /\ UNCHANGED <<e0, owed, cache, parts, lost, sent, landed>>

\* ChUnit::keep, then a statement: the pin is as it was, or is read again.
PassesFence(m) ==
    \/ UNCHANGED <<e0, cache>>
    \/ Repin({m}, Prev(m)) /\ Pinned(m, exp[m])

-----------------------------------------------------------------------------
(* A window: a unit per member, then one close for the group.              *)

\* The group drains from its lowest member; one already past the window skips it.
BeginWindow ==
    /\ win = 0
    /\ \E w \in Min({mark[m] : m \in members}) + 1..Windows :
           /\ win' = w
           /\ phase' = [m \in members |-> IF mark[m] >= w THEN "skipped" ELSE "idle"]
    /\ lost' = [m \in members |-> FALSE] /\ sent' = [m \in members |-> 0]
    /\ landed' = [m \in members |-> 0]
    /\ UNCHANGED <<clock, row, mark, e0, owed, cache, parts, group>>

\* open_unit: the cached pin, or a read of the row.
Open(m) ==
    /\ phase[m] = "idle"
    /\ \/ /\ cache[m] # 0
          /\ e0' = [e0 EXCEPT ![m] = cache[m]] /\ UNCHANGED cache
       \/ Repin({m}, 0) /\ Pinned(m, exp[m])
    /\ phase' = [phase EXCEPT ![m] = "open"] /\ owed' = [owed EXCEPT ![m] = FALSE]
    /\ UNCHANGED <<clock, row, mark, win, parts, lost, sent, landed, group>>

SendOwned(m) ==
    /\ phase[m] = "open" /\ sent[m] < Stmts
    /\ PassesFence(m)
    /\ owed' = [owed EXCEPT ![m] = TRUE]
    /\ phase' = [phase EXCEPT ![m] = "running"] /\ parts' = [parts EXCEPT ![m] = Parts]
    /\ UNCHANGED <<clock, row, mark, win, lost, sent, landed, group>>

\* The unit's re-read finds a row that is gone, or a deadline that has passed.
RefuseUnit(m) ==
    /\ \/ phase[m] = "idle" /\ ~Repin({m}, 0)
       \/ phase[m] = "open" /\ ~Repin({m}, Prev(m))
    /\ Fail(m)
    /\ UNCHANGED <<clock, row, mark, win, group>>

\* The server evaluates the predicate for one part of the statement.
Part(m) ==
    /\ phase[m] = "running"
    /\ \/ /\ OwnerPred(m) /\ PinnedPred(e0[m])
          /\ landed' = [landed EXCEPT ![m] = @ + 1] /\ UNCHANGED lost
       \/ /\ ~(OwnerPred(m) /\ PinnedPred(e0[m]))
          /\ lost' = [lost EXCEPT ![m] = TRUE] /\ UNCHANGED landed
    /\ parts' = [parts EXCEPT ![m] = @ - 1]
    /\ phase' = [phase EXCEPT ![m] = IF parts[m] = 1 THEN "open" ELSE "running"]
    /\ sent' = [sent EXCEPT ![m] = IF parts[m] = 1 THEN @ + 1 ELSE @]
    /\ UNCHANGED <<clock, row, mark, win, e0, owed, cache, group>>

\* apply_member_pending: the unit closes with no mark, its deadline rides back.
Pend(m) ==
    /\ Cardinality(members) > 1
    /\ phase[m] = "open" /\ sent[m] = Stmts
    /\ phase' = [phase EXCEPT ![m] = "pending"]
    /\ UNCHANGED <<clock, row, mark, win, e0, owed, cache, parts, lost, sent, landed, group>>

\* The member's own apply fails: the others still close.
ApplyFails(m) ==
    /\ phase[m] \in {"idle", "open", "running"}
    /\ Fail(m)
    /\ UNCHANGED <<clock, row, mark, win, group>>

Pending == {m \in members : phase[m] = "pending"}
Applied == win # 0 /\ \A m \in members : phase[m] \in {"pending", "skipped", "failed"}

\* A run of its own for the next attempt: new claims, nothing cached.
EndRun ==
    /\ win' = 0 /\ group' = NoGroup
    /\ cache' = [m \in members |-> 0] /\ phase' = [m \in members |-> "none"]
    /\ exp' = [m \in members |-> clock + TTL] /\ taken' = [m \in members |-> FALSE]
    /\ UNCHANGED <<clock, e0, owed, parts, lost, sent, landed>>

\* The window is done; a failed member ends the run.
EndWindow ==
    IF \A m \in members : phase[m] # "failed"
    THEN /\ win' = 0 /\ group' = NoGroup
         /\ phase' = [m \in members |-> "none"]
         /\ UNCHANGED <<clock, row, e0, owed, cache, parts, lost, sent, landed>>
    ELSE EndRun

\* The lowest of the members' deadlines, which the group's pin must continue.
GroupDeadline == Min({e0[m] : m \in Pending})

GroupOpen ==
    /\ Applied /\ group = NoGroup
    /\ \/ /\ Pending = {}
          /\ EndWindow
       \/ /\ Pending # {} /\ Repin(Pending, GroupDeadline)
          /\ group' = [e0 |-> PinOf(Pending), owed |-> FALSE, todo |-> Pending, one |-> FALSE]
          /\ UNCHANGED <<clock, row, win, unit>>
       \/ /\ Pending # {} /\ ~Repin(Pending, GroupDeadline)
          /\ EndRun
    /\ UNCHANGED mark

\* One INSERT for every mark, each row fenced by its own lease; fewer rows than marks is an
\* error.  Without a count from the server the marks are sent one by one.
CloseBatch ==
    /\ group.todo # {} /\ ~group.one /\ Cardinality(group.todo) > 1
    /\ LET wrote == {m \in group.todo : OwnerPred(m) /\ PinnedPred(group.e0)} IN
       /\ mark' = [m \in members |-> IF m \in wrote THEN win ELSE mark[m]]
       /\ \/ wrote = group.todo /\ EndWindow
          \/ wrote # group.todo /\ EndRun
          \/ /\ group' = [group EXCEPT !.one = TRUE, !.owed = TRUE]
             /\ UNCHANGED <<clock, row, win, unit>>

\* A mark of its own, under every key of the unit.
CloseOne(m) ==
    /\ m \in group.todo /\ (group.one \/ Cardinality(group.todo) = 1)
    /\ \/ /\ \A k \in Pending : OwnerPred(k)
          /\ PinnedPred(group.e0)
          /\ mark' = [mark EXCEPT ![m] = win]
          /\ IF group.todo = {m} THEN EndWindow
             ELSE /\ group' = [group EXCEPT !.todo = @ \ {m}, !.owed = TRUE]
                  /\ UNCHANGED <<clock, row, win, unit>>
       \/ /\ ~((\A k \in Pending : OwnerPred(k)) /\ PinnedPred(group.e0))
          /\ EndRun /\ UNCHANGED mark

\* keep before a mark.
KeepGroup ==
    /\ group.todo # {}
    /\ LET prev == IF group.owed THEN group.e0 ELSE 0 IN
       \/ /\ Repin(Pending, prev) /\ PinOf(Pending) # group.e0
          /\ group' = [group EXCEPT !.e0 = PinOf(Pending), !.owed = FALSE]
          /\ UNCHANGED <<clock, row, win, unit>>
       \/ ~Repin(Pending, prev) /\ EndRun
    /\ UNCHANGED mark

\* A unit of one table marks itself.
CloseOwn(m) ==
    /\ Cardinality(members) = 1 /\ phase[m] = "open" /\ sent[m] = Stmts
    /\ LET wrote(d) == OwnerPred(m) /\ PinnedPred(d) IN
       \E again \in BOOLEAN :
           /\ again => Repin({m}, Prev(m))
           /\ LET d == IF again THEN exp[m] ELSE e0[m] IN
              \/ /\ wrote(d)
                 /\ mark' = [mark EXCEPT ![m] = win]
                 /\ win' = 0 /\ phase' = [phase EXCEPT ![m] = "none"]
                 /\ cache' = [cache EXCEPT ![m] = IF again THEN d ELSE @]
                 /\ UNCHANGED <<clock, row, e0, owed, parts, lost, sent, landed, group>>
              \/ ~wrote(d) /\ EndRun /\ UNCHANGED mark

UnitNext(m) ==
    \/ PeerClaims(m) \/ Open(m) \/ SendOwned(m) \/ RefuseUnit(m) \/ Part(m) \/ Pend(m)
    \/ ApplyFails(m) \/ CloseOne(m) \/ CloseOwn(m)

FenceNext ==
    /\ UNCHANGED members
    /\ \/ FenceTick \/ KeeperRenews \/ BeginWindow \/ GroupOpen \/ CloseBatch \/ KeepGroup
       \/ \E m \in members : UnitNext(m)

FenceSpec == FenceInit /\ [][FenceNext]_fenceVars

-----------------------------------------------------------------------------
FenceTypeOK ==
    /\ clock \in 0..FenceTime /\ exp \in [members -> 0..FenceTime + TTL]
    /\ taken \in [members -> BOOLEAN] /\ mark \in [members -> 0..Windows] /\ win \in 0..Windows
    /\ phase \in [members -> {"none", "idle", "open", "running", "pending", "skipped", "failed"}]
    /\ parts \in [members -> 0..Parts] /\ landed \in [members -> 0..Stmts * Parts]
    /\ sent \in [members -> 0..Stmts]
    /\ group.todo \subseteq Pending

\* A member's position moves only past a window every part of which was written: no pin, own,
\* reused or the group's, covers a statement that a lapse emptied (dest_ch.rs 1459-1472,
\* run.rs 2366-2374).
MovesPastWhole == \A m \in members : mark'[m] > mark[m] => ~lost[m] /\ landed[m] = Stmts * Parts

\* The fence only closes: after a part that was fenced out nothing of the window is written,
\* also when a renewal has revived the row (dest_ch.rs 1462-1468).
FenceOnlyCloses == \A m \in members : win' = win /\ landed'[m] > landed[m] => ~lost[m]

\* No position moves back (run.rs 2688-2692: a member past the window leaves its own mark).
MarksRise == \A m \in members : mark'[m] >= mark[m]

\* A member's position moves only past a window every part of which was written, though a
\* lease may lapse and be revived between two parts of a statement, and never moves back;
\* what the fence has closed stays closed (pin, owned, close).
WholeWindows == [][MovesPastWhole /\ FenceOnlyCloses /\ MarksRise]_fenceVars
=============================================================================
