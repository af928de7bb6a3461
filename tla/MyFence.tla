------------------------------ MODULE MyFence -------------------------------
(* The fence of a log_based run that writes into MySQL: the lease rows of      *)
(* _apitap_lease, the transaction a unit writes in (MyTx), the DDL that cannot *)
(* ride it (owned_ddl), and the claim a later run takes a lapsed row with.     *)
(* InnoDB's row locks decide every race; the server's clock is the only one.   *)
EXTENDS Naturals, FiniteSets, WellFoundedInduction, TLAPS

CONSTANTS
    LeaseKeys,   \* the members of the group, as the naturals their names sort to
    Collectors,  \* later runs that meet this run's artifacts
    Ttl,         \* ttl_secs
    Pause,       \* the longest the process stops between two statements of owned_ddl
    MaxTime, MaxUnits

\* Mutant: the DDL may wait as long as the lease lasts.
owned_margin_whole == Ttl

\* How long the DDL may wait for its metadata lock.
owned_margin_secs == Ttl \div 2

\* A process that pauses inside owned_ddl is back before the other half is over.
MyFenceAssumption ==
    /\ LeaseKeys \subseteq Nat /\ LeaseKeys # {}
    /\ Ttl \in Nat /\ Pause \in Nat
    /\ Pause + Ttl \div 2 < Ttl
    /\ Collectors \cap {"none", "unit"} = {}

VARIABLES
    now,      \* UTC_TIMESTAMP(6), the server's
    rows,     \* committed lease rows: [exp, collected] for the keys that have one
    lock,     \* who holds each row: "none", "unit" or a collector
    run,      \* the process: "idle", "begin", "tx", "mark", "lock", "renew", "ddl", "failed",
              \* "done", "dead"
    held,     \* keys the open transaction has locked
    fresh,    \* its uncommitted renewals: key -> expiry
    since,    \* when the step that a deadline bounds began
    ddl,      \* owned DDL at the server: "none" or "wait" (for the metadata lock)
    claim,    \* what each collector does: [pc, key, at]
    units     \* units opened so far

vars == <<now, rows, lock, run, held, fresh, since, ddl, claim, units>>

NoClaim == [pc |-> "idle", key |-> 0, at |-> 0]

TypeOK ==
    /\ now \in 0..MaxTime
    /\ DOMAIN rows \subseteq LeaseKeys
    /\ \A k \in DOMAIN rows : rows[k] \in [exp : 0..(MaxTime + Ttl), collected : BOOLEAN]
    /\ lock \in [LeaseKeys -> {"none", "unit"} \cup Collectors]
    /\ run \in {"idle", "begin", "tx", "mark", "lock", "renew", "ddl", "failed", "done", "dead"}
    /\ held \subseteq LeaseKeys /\ DOMAIN fresh \subseteq held
    /\ since \in 0..MaxTime
    /\ ddl \in {"none", "wait"}
    /\ units \in 0..MaxUnits

\* lease_open has run: one row per key.
Init ==
    /\ now = 0
    /\ rows = [k \in LeaseKeys |-> [exp |-> Ttl, collected |-> FALSE]]
    /\ lock = [k \in LeaseKeys |-> "none"]
    /\ run = "idle" /\ held = {} /\ fresh = << >> /\ since = 0 /\ ddl = "none"
    /\ claim = [c \in Collectors |-> NoClaim]
    /\ units = 0

-----------------------------------------------------------------------------
Owned(k) == k \in DOMAIN rows /\ ~rows[k].collected

\* The next key of the sorted order, of the ones still to lock.
Next1(ks) == CHOOSE k \in ks : \A j \in ks : k <= j

\* ROLLBACK, from MyTx's Drop or by the server when the connection is gone.
RollBack ==
    /\ lock' = [k \in LeaseKeys |-> IF lock[k] = "unit" THEN "none" ELSE lock[k]]
    /\ held' = {} /\ fresh' = << >>

Refuse ==
    /\ run' = "failed" /\ RollBack
    /\ UNCHANGED <<now, rows, since, ddl, claim, units>>

\* open_unit: a session, no transaction yet. A window that truncates, and a bootstrap
\* that adds the primary key, go through owned_ddl before the first write.
OpenUnit ==
    /\ run = "idle" /\ units < MaxUnits
    /\ units' = units + 1
    /\ run' \in {"begin", "lock"}
    /\ UNCHANGED <<now, rows, lock, held, fresh, since, ddl, claim>>

\* begin (and owned_ddl's Lock steps): each key's row FOR UPDATE, in sorted order; a row
\* that is not there, or is collected, is not ours. Expiry is ignored.
LockNext ==
    /\ run \in {"begin", "lock"} /\ held # LeaseKeys
    /\ LET k == Next1(LeaseKeys \ held) IN
        /\ lock[k] = "none"
        /\ IF Owned(k)
           THEN /\ lock' = [lock EXCEPT ![k] = "unit"] /\ held' = held \cup {k}
                /\ UNCHANGED <<now, rows, run, fresh, since, ddl, claim, units>>
           ELSE Refuse

Locked ==
    /\ run \in {"begin", "lock"} /\ held = LeaseKeys
    /\ run' = IF run = "begin" THEN "tx" ELSE "renew"
    /\ since' = IF run = "begin" THEN 0 ELSE now
    /\ UNCHANGED <<now, rows, lock, held, fresh, ddl, claim, units>>

\* exec, load, exists, no_warnings: a write inside the transaction fails and the unit is
\* dropped; what succeeds shows only at COMMIT.
WriteFails == run = "tx" /\ Refuse

Renewed(ks) == [k \in DOMAIN fresh \cup ks |-> IF k \in ks THEN now + Ttl ELSE fresh[k]]

\* close_unit: the marks, then per key the renewal and a read of the row.
CloseUnit ==
    /\ run = "tx"
    /\ \A k \in LeaseKeys : Owned(k)
    /\ run' = "mark" /\ fresh' = Renewed(LeaseKeys)
    /\ UNCHANGED <<now, rows, lock, held, since, ddl, claim, units>>

\* close_unit: COMMIT. Rows, watermark and renewals appear together.
Commit ==
    /\ run = "mark"
    /\ rows' = [k \in DOMAIN rows |-> IF k \in DOMAIN fresh
                                      THEN [rows[k] EXCEPT !.exp = fresh[k]] ELSE rows[k]]
    /\ run' = "idle" /\ RollBack
    /\ UNCHANGED <<now, since, ddl, claim, units>>

\* owned_ddl: renew every row and read it back uncollected ...
OwnedRenew ==
    /\ run = "renew" /\ fresh = << >>
    /\ \A k \in LeaseKeys : Owned(k)
    /\ fresh' = Renewed(LeaseKeys) /\ since' = now
    /\ UNCHANGED <<now, rows, lock, run, held, ddl, claim, units>>

\* ... then the DDL, whose implicit commit publishes the renewals and frees the rows
\* before it has its metadata lock.
OwnedDdl ==
    /\ run = "renew" /\ fresh # << >>
    /\ rows' = [k \in DOMAIN rows |-> [rows[k] EXCEPT !.exp = fresh[k]]]
    /\ run' = "ddl" /\ ddl' = "wait" /\ since' = now /\ RollBack
    /\ UNCHANGED <<now, claim, units>>

\* The metadata lock comes within lock_wait_timeout, and the DDL takes effect; or it does
\* not, and the statement fails. The server goes on waiting for a client that has died.
DdlRuns ==
    /\ ddl = "wait" /\ ddl' = "none" /\ since' = 0
    /\ run' = IF run = "ddl" THEN "begin" ELSE run
    /\ UNCHANGED <<now, rows, lock, held, fresh, claim, units>>

DdlTimesOut ==
    /\ ddl = "wait" /\ ddl' = "none" /\ since' = 0
    /\ run' = IF run = "ddl" THEN "failed" ELSE run
    /\ UNCHANGED <<now, rows, lock, held, fresh, claim, units>>

\* lease_renew, the keeper's: a row its own unit holds is skipped (1205), a collected one
\* is not touched.
KeeperRenew(k) ==
    /\ run \notin {"dead", "done"}
    /\ lock[k] = "none" /\ Owned(k) /\ rows[k].exp # now + Ttl
    /\ rows' = [rows EXCEPT ![k].exp = now + Ttl]
    /\ UNCHANGED <<now, lock, run, held, fresh, since, ddl, claim, units>>

\* lease_close, when the run ends and still owns every row.
LeaseClose ==
    /\ run \in {"idle", "failed"} /\ \A k \in LeaseKeys : lock[k] = "none" /\ Owned(k)
    /\ rows' = << >> /\ run' = "done"
    /\ UNCHANGED <<now, lock, held, fresh, since, ddl, claim, units>>

Die ==
    /\ run \notin {"dead", "done"}
    /\ run' = "dead" /\ RollBack
    /\ since' = IF ddl = "wait" THEN since ELSE 0
    /\ UNCHANGED <<now, rows, ddl, claim, units>>

-----------------------------------------------------------------------------
\* lease_claim: START TRANSACTION and the locking read are sent; UTC_TIMESTAMP is the
\* statement's start, not the moment the lock is granted.
ClaimBegin(c, k) ==
    /\ claim[c].pc = "idle"
    /\ claim' = [claim EXCEPT ![c] = [pc |-> "asked", key |-> k, at |-> now]]
    /\ UNCHANGED <<now, rows, lock, run, held, fresh, since, ddl, units>>

\* The row, locked: Taken when it is collected already or has lapsed, else refused;
\* absent when there is none.
ClaimReads(c) ==
    /\ claim[c].pc = "asked"
    /\ LET k == claim[c].key IN
        /\ lock[k] = "none"
        /\ IF k \in DOMAIN rows /\ (rows[k].collected \/ rows[k].exp <= claim[c].at)
           THEN /\ lock' = [lock EXCEPT ![k] = c]
                /\ claim' = [claim EXCEPT ![c].pc = "taking"]
           ELSE claim' = [claim EXCEPT ![c] = NoClaim] /\ UNCHANGED lock
    /\ UNCHANGED <<now, rows, run, held, fresh, since, ddl, units>>

\* 1205 after a second: the owner is inside an apply.
ClaimTimesOut(c) ==
    /\ claim[c].pc = "asked" /\ lock[claim[c].key] # "none"
    /\ claim' = [claim EXCEPT ![c] = NoClaim]
    /\ UNCHANGED <<now, rows, lock, run, held, fresh, since, ddl, units>>

\* UPDATE and COMMIT, or the connection goes and the claim with it.
ClaimCommits(c) ==
    /\ claim[c].pc = "taking"
    /\ LET k == claim[c].key IN
        /\ lock' = [lock EXCEPT ![k] = "none"]
        /\ rows' \in {rows, [rows EXCEPT ![k].collected = TRUE]}
    /\ claim' = [claim EXCEPT ![c] = NoClaim]
    /\ UNCHANGED <<now, run, held, fresh, since, ddl, units>>

-----------------------------------------------------------------------------
\* Time passes, but not past what bounds a step: the pause inside owned_ddl, the DDL's wait
\* for its lock (SET SESSION lock_wait_timeout), the second a claim waits for a row.
Tick ==
    /\ now < MaxTime
    /\ ddl = "wait" => now < since + owned_margin_secs
    /\ run = "renew" => now < since + Pause
    /\ \A c \in Collectors : claim[c].pc = "asked" => now <= claim[c].at
    /\ now' = now + 1
    /\ UNCHANGED <<rows, lock, run, held, fresh, since, ddl, claim, units>>

Next ==
    \/ OpenUnit \/ LockNext \/ Locked \/ WriteFails \/ CloseUnit \/ Commit
    \/ OwnedRenew \/ OwnedDdl \/ DdlRuns \/ DdlTimesOut
    \/ LeaseClose \/ Die \/ Tick
    \/ \E k \in LeaseKeys : KeeperRenew(k)
    \/ \E c \in Collectors : ClaimReads(c) \/ ClaimTimesOut(c) \/ ClaimCommits(c)
    \/ \E c \in Collectors, k \in LeaseKeys : ClaimBegin(c, k)

Spec == Init /\ [][Next]_vars

-----------------------------------------------------------------------------
\* While a write of this run can still land, in its transaction or as a DDL that waits for
\* its metadata lock, no later run has collected a member's claim: what a collector loads is
\* never truncated or overwritten by the run it evicted (MyTx::begin, owned_ddl, lease_claim).
NoLateWrite ==
    run \in {"tx", "mark", "renew"} \/ ddl = "wait" => \A k \in LeaseKeys : Owned(k)
-----------------------------------------------------------------------------
\* The proof.  The parts of the inductive invariant: what the variables hold ...
Typed ==
    /\ now \in Nat /\ since \in Nat
    /\ run # "done" => rows \in [LeaseKeys -> [exp : Nat, collected : BOOLEAN]]
    /\ run = "done" => rows = << >> /\ ddl = "none"
    /\ fresh = << >> \/ (run \in {"mark", "renew"} /\ fresh \in [LeaseKeys -> Nat])
    /\ run = "mark" => fresh \in [LeaseKeys -> Nat]
    /\ claim \in [Collectors -> [pc : {"idle", "asked", "taking"}, key : LeaseKeys \cup {0},
                               at : Nat]]
    /\ lock \in [LeaseKeys -> {"none", "unit"} \cup Collectors]
    /\ held \subseteq LeaseKeys /\ ddl \in {"none", "wait"}

\* ... who holds which row: what the unit has locked is its own for as long ...
Locks ==
    /\ \A k \in LeaseKeys : lock[k] = "unit" <=> k \in held
    /\ held # {} => run \in {"begin", "lock", "tx", "mark", "renew"}
    /\ run \in {"tx", "mark", "renew"} => held = LeaseKeys
    /\ \A k \in held : Owned(k)

\* ... a claim reads with a clock that is not ahead, and takes only the row it holds ...
Claimed ==
    \A c \in Collectors :
        /\ claim[c].at <= now
        /\ claim[c].pc # "idle" => claim[c].key \in LeaseKeys
        /\ claim[c].pc = "taking" => lock[claim[c].key] = c /\ run # "done"

\* ... and the DDL that waits without locks is covered by the renewal it published.
Covered ==
    /\ run = "renew" => since <= now /\ now <= since + Pause
    /\ run = "renew" /\ fresh # << >> => \A k \in LeaseKeys : fresh[k] = since + Ttl
    /\ ddl = "wait" =>
        /\ run \in {"ddl", "dead"}
        /\ since <= now /\ now <= since + Ttl \div 2
        /\ \A k \in LeaseKeys : Owned(k) /\ since + Ttl <= rows[k].exp + Pause
        /\ \A c \in Collectors : claim[c].pc # "taking"

IInv == Typed /\ Locks /\ Claimed /\ Covered

\* The key LockNext locks next is one of the keys not yet locked.
LEMMA Next1In ==
  ASSUME MyFenceAssumption, held \subseteq LeaseKeys, held # LeaseKeys
  PROVE  Next1(LeaseKeys \ held) \in LeaseKeys \ held
<1>1. LeaseKeys \ held # {} /\ LeaseKeys \ held \subseteq Nat
  BY DEF MyFenceAssumption
<1>2. \E k \in LeaseKeys \ held : \A j \in LeaseKeys \ held : k <= j
  <2>. DEFINE R == {p \in Nat \X Nat : p[1] < p[2]}
  <2>1. IsWellFoundedOn(R, Nat)
    BY NatLessThanWellFounded, Zenon DEF OpToRel
  <2>2. \E k \in LeaseKeys \ held : \A j \in LeaseKeys \ held : ~(<<j, k>> \in R)
    <3>. HIDE DEF R
    <3>. QED
      BY <1>1, <2>1, WFMin, Zenon
  <2>3. \A k, j \in Nat : <<j, k>> \in R \/ k <= j
    OBVIOUS
  <2>. QED
    <3>. HIDE DEF R
    <3>. QED
      BY <1>1, <2>2, <2>3
<1>. QED
  BY <1>2 DEF Next1

\* What ROLLBACK leaves: no row of the unit, and every other lock.
LEMMA RolledBack ==
  ASSUME Typed, RollBack
  PROVE  /\ lock' \in [LeaseKeys -> {"none", "unit"} \cup Collectors]
         /\ \A k \in LeaseKeys : lock'[k] # "unit" /\ (lock[k] # "unit" => lock'[k] = lock[k])
         /\ held' = {} /\ fresh' = << >>
  BY DEF Typed, RollBack

\* A unit's renewal covers every key with one expiry.
LEMMA RenewedAll ==
  ASSUME Typed, fresh = << >> \/ fresh \in [LeaseKeys -> Nat]
  PROVE  Renewed(LeaseKeys) = [k \in LeaseKeys |-> now + Ttl]
  BY DEF Renewed

\* Every step keeps what the variables hold.
LEMMA TypedStep ==
  ASSUME MyFenceAssumption, IInv, [Next]_vars
  PROVE  Typed'
<1>. USE DEF IInv, Typed
<1>1. CASE OpenUnit \/ Locked \/ DdlRuns \/ DdlTimesOut
  BY <1>1 DEF OpenUnit, Locked, DdlRuns, DdlTimesOut, Covered
<1>2. CASE LockNext
  <2>. DEFINE n == Next1(LeaseKeys \ held)
  <2>1. n \in LeaseKeys
    BY <1>2, Next1In DEF LockNext
  <2>2. CASE Refuse
    BY <1>2, <2>2, RolledBack DEF LockNext, Refuse
  <2>3. CASE /\ lock' = [lock EXCEPT ![n] = "unit"] /\ held' = held \cup {n}
             /\ UNCHANGED <<now, rows, run, fresh, since, ddl, claim, units>>
    BY <2>1, <2>3
  <2>. QED
    BY <1>2, <2>2, <2>3 DEF LockNext
<1>3. CASE WriteFails
  BY <1>3, RolledBack DEF WriteFails, Refuse
<1>4. CASE CloseUnit
  BY <1>4, RenewedAll DEF CloseUnit, MyFenceAssumption
<1>5. CASE Commit
  <2>1. rows' \in [LeaseKeys -> [exp : Nat, collected : BOOLEAN]]
    BY <1>5 DEF Commit
  <2>. QED
    BY <1>5, <2>1, RolledBack DEF Commit
<1>6. CASE OwnedRenew
  BY <1>6, RenewedAll DEF OwnedRenew, MyFenceAssumption
<1>7. CASE OwnedDdl
  <2>1. rows' \in [LeaseKeys -> [exp : Nat, collected : BOOLEAN]]
    BY <1>7 DEF OwnedDdl
  <2>. QED
    BY <1>7, <2>1, RolledBack DEF OwnedDdl
<1>8. CASE LeaseClose
  BY <1>8 DEF LeaseClose, Covered
<1>9. CASE Die
  BY <1>9, RolledBack DEF Die
<1>10. CASE Tick
  BY <1>10 DEF Tick
<1>11. ASSUME NEW k \in LeaseKeys, KeeperRenew(k)
       PROVE  Typed'
  <2>1. rows \in [LeaseKeys -> [exp : Nat, collected : BOOLEAN]] /\ now + Ttl \in Nat
    BY <1>11 DEF KeeperRenew, MyFenceAssumption
  <2>2. rows' = [rows EXCEPT ![k] = [rows[k] EXCEPT !.exp = now + Ttl]]
    BY <1>11, <2>1 DEF KeeperRenew
  <2>3. [rows[k] EXCEPT !.exp = now + Ttl] \in [exp : Nat, collected : BOOLEAN]
    BY <2>1
  <2>4. rows' \in [LeaseKeys -> [exp : Nat, collected : BOOLEAN]]
    BY <2>1, <2>2, <2>3
  <2>. QED
    BY <1>11, <2>4 DEF KeeperRenew
<1>12. ASSUME NEW c \in Collectors, ClaimReads(c)
       PROVE  Typed'
  <2>. DEFINE Claim == [pc : {"idle", "asked", "taking"}, key : LeaseKeys \cup {0}, at : Nat]
  <2>1. claim[c] \in Claim /\ claim[c].key \in LeaseKeys
    BY <1>12 DEF ClaimReads, Claimed
  <2>2. NoClaim \in Claim /\ [claim[c] EXCEPT !.pc = "taking"] \in Claim
    BY <2>1 DEF NoClaim
  <2>3. claim' \in [Collectors -> Claim]
    BY <1>12, <2>2 DEF ClaimReads
  <2>4. lock' \in [LeaseKeys -> {"none", "unit"} \cup Collectors]
    BY <1>12, <2>1 DEF ClaimReads
  <2>. QED
    BY <1>12, <2>3, <2>4 DEF ClaimReads
<1>13. ASSUME NEW c \in Collectors, ClaimTimesOut(c)
       PROVE  Typed'
  BY <1>13 DEF ClaimTimesOut, NoClaim
<1>14. ASSUME NEW c \in Collectors, ClaimCommits(c)
       PROVE  Typed'
  <2>. DEFINE k == claim[c].key
  <2>1. k \in LeaseKeys /\ run # "done"
    BY <1>14 DEF ClaimCommits, Claimed
  <2>2. rows' = rows \/ rows' = [rows EXCEPT ![k] = [rows[k] EXCEPT !.collected = TRUE]]
    BY <1>14, <2>1 DEF ClaimCommits
  <2>3. [rows[k] EXCEPT !.collected = TRUE] \in [exp : Nat, collected : BOOLEAN]
    BY <2>1
  <2>4. rows' \in [LeaseKeys -> [exp : Nat, collected : BOOLEAN]]
    BY <2>1, <2>2, <2>3
  <2>. QED
    BY <1>14, <2>1, <2>4 DEF ClaimCommits, NoClaim
<1>15. ASSUME NEW c \in Collectors, NEW k \in LeaseKeys, ClaimBegin(c, k)
       PROVE  Typed'
  BY <1>15 DEF ClaimBegin
<1>16. CASE UNCHANGED vars
  BY <1>16 DEF vars
<1>. QED
  BY <1>1, <1>2, <1>3, <1>4, <1>5, <1>6, <1>7, <1>8, <1>9, <1>10, <1>11, <1>12, <1>13,
     <1>14, <1>15, <1>16 DEF Next

\* A row the unit holds is not collected while it holds it: a claim commits only on a row
\* the collector itself has locked.
LEMMA LocksStep ==
  ASSUME MyFenceAssumption, IInv, [Next]_vars
  PROVE  Locks'
<1>. USE DEF IInv, Locks
<1>1. CASE OpenUnit \/ Locked
  BY <1>1 DEF OpenUnit, Locked, Owned
<1>2. CASE LockNext
  <2>. DEFINE n == Next1(LeaseKeys \ held)
  <2>1. n \in LeaseKeys \ held
    BY <1>2, Next1In DEF LockNext, Typed
  <2>2. CASE Refuse
    BY <2>2, RolledBack DEF Refuse
  <2>3. CASE /\ lock' = [lock EXCEPT ![n] = "unit"] /\ held' = held \cup {n} /\ Owned(n)
             /\ UNCHANGED <<now, rows, run, fresh, since, ddl, claim, units>>
    BY <1>2, <2>1, <2>3 DEF Owned, Typed, LockNext
  <2>. QED
    BY <1>2, <2>2, <2>3 DEF LockNext
<1>3. CASE WriteFails
  BY <1>3, RolledBack DEF WriteFails, Refuse
<1>4. CASE CloseUnit \/ OwnedRenew
  BY <1>4 DEF CloseUnit, OwnedRenew, Owned
<1>5. CASE Commit
  BY <1>5, RolledBack DEF Commit
<1>6. CASE DdlRuns \/ DdlTimesOut
  BY <1>6 DEF DdlRuns, DdlTimesOut, Owned, Covered
<1>7. CASE OwnedDdl
  BY <1>7, RolledBack DEF OwnedDdl
<1>8. CASE LeaseClose
  BY <1>8 DEF LeaseClose, Owned, Typed
<1>9. CASE Die
  BY <1>9, RolledBack DEF Die
<1>10. CASE Tick
  BY <1>10 DEF Tick, Owned
<1>11. ASSUME NEW k \in LeaseKeys, KeeperRenew(k)
       PROVE  Locks'
  BY <1>11 DEF KeeperRenew, Owned, Typed
<1>12. ASSUME NEW c \in Collectors, ClaimReads(c)
       PROVE  Locks'
  BY <1>12 DEF ClaimReads, Claimed, Owned, Typed, MyFenceAssumption
<1>13. ASSUME NEW c \in Collectors, ClaimTimesOut(c)
       PROVE  Locks'
  BY <1>13 DEF ClaimTimesOut, Owned
<1>14. ASSUME NEW c \in Collectors, ClaimCommits(c)
       PROVE  Locks'
  <2>. DEFINE j == claim[c].key
  <2>1. j \in LeaseKeys /\ lock[j] = c /\ run # "done" /\ c \notin {"none", "unit"}
    BY <1>14 DEF ClaimCommits, Claimed, MyFenceAssumption
  <2>2. j \notin held /\ lock' = [lock EXCEPT ![j] = "none"] /\ UNCHANGED <<run, held>>
    BY <1>14, <2>1 DEF ClaimCommits
  <2>3. ASSUME NEW k \in held
        PROVE  Owned(k)'
    <3>1. /\ k \in LeaseKeys /\ k # j /\ Owned(k)
          /\ rows \in [LeaseKeys -> [exp : Nat, collected : BOOLEAN]]
      BY <2>1, <2>2 DEF Typed
    <3>2. DOMAIN rows' = DOMAIN rows /\ rows'[k] = rows[k]
      BY <1>14, <3>1 DEF ClaimCommits
    <3>. QED
      BY <3>1, <3>2 DEF Owned
  <2>. QED
    BY <2>1, <2>2, <2>3 DEF Typed
<1>15. ASSUME NEW c \in Collectors, NEW k \in LeaseKeys, ClaimBegin(c, k)
       PROVE  Locks'
  BY <1>15 DEF ClaimBegin, Owned
<1>16. CASE UNCHANGED vars
  BY <1>16 DEF vars, Owned
<1>. QED
  BY <1>1, <1>2, <1>3, <1>4, <1>5, <1>6, <1>7, <1>8, <1>9, <1>10, <1>11, <1>12, <1>13,
     <1>14, <1>15, <1>16 DEF Next

\* A claim's lock is its own until it commits or gives up, and its clock was read before.
LEMMA ClaimedStep ==
  ASSUME MyFenceAssumption, IInv, [Next]_vars
  PROVE  Claimed'
<1>. USE DEF IInv, Claimed
<1>1. ASSUME RollBack, UNCHANGED <<now, claim>>, run' # "done"
      PROVE  Claimed'
  <2>1. ASSUME NEW c \in Collectors, claim[c].pc = "taking"
        PROVE  lock'[claim[c].key] = c
    BY <1>1, <2>1, RolledBack DEF MyFenceAssumption
  <2>. QED
    BY <1>1, <2>1
<1>2. CASE OpenUnit \/ Locked \/ CloseUnit \/ OwnedRenew \/ DdlRuns \/ DdlTimesOut
  BY <1>2 DEF OpenUnit, Locked, CloseUnit, OwnedRenew, DdlRuns, DdlTimesOut
<1>3. CASE WriteFails \/ Commit \/ OwnedDdl \/ Die
  BY <1>1, <1>3 DEF WriteFails, Refuse, Commit, OwnedDdl, Die
<1>4. CASE LockNext
  <2>. DEFINE n == Next1(LeaseKeys \ held)
  <2>1. n \in LeaseKeys /\ lock[n] = "none"
    BY <1>4, Next1In DEF LockNext, Typed
  <2>2. CASE Refuse
    BY <1>1, <2>2 DEF Refuse
  <2>3. CASE /\ lock' = [lock EXCEPT ![n] = "unit"] /\ held' = held \cup {n}
             /\ UNCHANGED <<now, rows, run, fresh, since, ddl, claim, units>>
    BY <2>1, <2>3 DEF Typed, MyFenceAssumption
  <2>. QED
    BY <1>4, <2>2, <2>3 DEF LockNext
<1>5. CASE LeaseClose
  BY <1>5 DEF LeaseClose, MyFenceAssumption
<1>6. CASE Tick
  BY <1>6 DEF Tick, Typed
<1>7. ASSUME NEW k \in LeaseKeys, KeeperRenew(k)
      PROVE  Claimed'
  BY <1>7 DEF KeeperRenew
<1>8. ASSUME NEW c \in Collectors, NEW d \in Collectors,
             ClaimReads(c) \/ ClaimTimesOut(c) \/ ClaimCommits(c) \/
             (\E k \in LeaseKeys : ClaimBegin(c, k))
      PROVE  /\ claim'[d].at <= now'
             /\ claim'[d].pc # "idle" => claim'[d].key \in LeaseKeys
             /\ claim'[d].pc = "taking" => lock'[claim'[d].key] = d /\ run' # "done"
  <2>1. now' = now /\ run' = run
    BY <1>8 DEF ClaimReads, ClaimTimesOut, ClaimCommits, ClaimBegin
  <2>2. CASE d # c
    <3>1. claim'[d] = claim[d]
      BY <1>8, <2>2 DEF ClaimReads, ClaimTimesOut, ClaimCommits, ClaimBegin, Typed
    <3>2. ASSUME claim[d].pc = "taking"
          PROVE  lock'[claim[d].key] = d
      <4>1. claim[d].key \in LeaseKeys /\ lock[claim[d].key] = d /\ d # "none"
        BY <3>2 DEF MyFenceAssumption
      <4>2. \/ lock' = lock
            \/ lock[claim[c].key] = "none" /\ lock' = [lock EXCEPT ![claim[c].key] = c]
            \/ lock[claim[c].key] = c /\ lock' = [lock EXCEPT ![claim[c].key] = "none"]
        BY <1>8 DEF ClaimReads, ClaimTimesOut, ClaimCommits, ClaimBegin
      <4>. QED
        BY <2>2, <4>1, <4>2 DEF Typed
    <3>. QED
      BY <2>1, <3>1, <3>2
  <2>3. CASE d = c
    <3>1. NoClaim.at <= now /\ NoClaim.pc = "idle"
      BY DEF NoClaim, Typed
    <3>2. CASE claim' = [claim EXCEPT ![c] = NoClaim]
      BY <2>1, <2>3, <3>1, <3>2 DEF Typed
    <3>3. CASE ClaimReads(c) /\ claim' # [claim EXCEPT ![c] = NoClaim]
      <4>1. claim[c].key \in LeaseKeys
        BY <3>3 DEF ClaimReads
      <4>2. /\ lock' = [lock EXCEPT ![claim[c].key] = c]
            /\ claim' = [claim EXCEPT ![c].pc = "taking"]
            /\ claim[c].key \in DOMAIN rows
        BY <3>3 DEF ClaimReads
      <4>3. claim'[c].key = claim[c].key /\ claim'[c].at = claim[c].at
        BY <4>2 DEF Typed
      <4>4. run # "done"
        BY <4>2 DEF Typed
      <4>. QED
        BY <2>1, <2>3, <4>1, <4>2, <4>3, <4>4 DEF Typed
    <3>4. ASSUME NEW k \in LeaseKeys, ClaimBegin(c, k)
          PROVE  claim'[c].at = now /\ claim'[c].pc = "asked" /\ claim'[c].key \in LeaseKeys
      BY <3>4 DEF ClaimBegin, Typed
    <3>5. CASE \E k \in LeaseKeys : ClaimBegin(c, k)
      BY <2>1, <2>3, <3>4, <3>5 DEF Typed
    <3>6. CASE ClaimTimesOut(c) \/ ClaimCommits(c)
      BY <3>2, <3>6 DEF ClaimTimesOut, ClaimCommits
    <3>. QED
      BY <1>8, <3>2, <3>3, <3>5, <3>6
  <2>. QED
    BY <2>2, <2>3
<1>9. CASE UNCHANGED vars
  BY <1>9 DEF vars
<1>. QED
  BY <1>2, <1>3, <1>4, <1>5, <1>6, <1>7, <1>8, <1>9 DEF Next

\* The DDL waits at most half a TTL and was renewed at most Pause before it was sent, so no
\* claim finds its rows lapsed; and none was under way when it was sent.
LEMMA CoveredStep ==
  ASSUME MyFenceAssumption, IInv, [Next]_vars
  PROVE  Covered'
<1>. USE DEF IInv
<1>0. Ttl \in Nat /\ Pause \in Nat /\ Ttl \div 2 \in Nat /\ Pause + Ttl \div 2 < Ttl
  BY DEF MyFenceAssumption
<1>1. ASSUME ddl' # "wait", run' # "renew"
      PROVE  Covered'
  BY <1>1 DEF Covered
<1>2. CASE OpenUnit \/ LockNext \/ WriteFails \/ CloseUnit \/ Commit \/ LeaseClose
  <2>1. ddl # "wait" /\ ddl' = ddl
    BY <1>2 DEF OpenUnit, LockNext, WriteFails, Refuse, CloseUnit, Commit, LeaseClose, Covered,
                Typed
  <2>2. run' # "renew"
    BY <1>2 DEF OpenUnit, LockNext, WriteFails, Refuse, CloseUnit, Commit, LeaseClose
  <2>. QED
    BY <1>1, <2>1, <2>2
<1>3. CASE DdlRuns \/ DdlTimesOut
  BY <1>1, <1>3 DEF DdlRuns, DdlTimesOut, Covered
<1>4. CASE Locked
  <2>1. ddl # "wait" /\ ddl' = ddl /\ fresh' = fresh /\ fresh = << >> /\ now' = now
    BY <1>4 DEF Locked, Covered, Typed
  <2>2. run' = "renew" => since' = now
    BY <1>4 DEF Locked
  <2>. QED
    BY <1>0, <2>1, <2>2 DEF Covered, Typed
<1>5. CASE OwnedRenew
  <2>1. /\ fresh' = [k \in LeaseKeys |-> now + Ttl]
        /\ ddl # "wait" /\ ddl' = ddl /\ since' = now /\ now' = now
    BY <1>5, RenewedAll DEF OwnedRenew, Covered, Typed
  <2>. QED
    BY <1>0, <2>1 DEF Covered, Typed
<1>6. CASE OwnedDdl
  <2>1. /\ run' = "ddl" /\ since' = now /\ now' = now /\ claim' = claim
        /\ rows \in [LeaseKeys -> [exp : Nat, collected : BOOLEAN]]
        /\ \A k \in LeaseKeys : fresh[k] = since + Ttl /\ Owned(k)
        /\ now <= since + Pause
    BY <1>6 DEF OwnedDdl, Covered, Typed, Locks
  <2>2. ASSUME NEW k \in LeaseKeys
        PROVE  Owned(k)' /\ since' + Ttl <= rows'[k].exp + Pause
    <3>1. DOMAIN rows' = LeaseKeys /\ rows'[k] = [rows[k] EXCEPT !.exp = fresh[k]]
      BY <1>6, <2>1 DEF OwnedDdl
    <3>2. rows'[k].exp = since + Ttl /\ rows'[k].collected = rows[k].collected
      BY <2>1, <3>1
    <3>. QED
      BY <1>0, <2>1, <3>1, <3>2 DEF Owned, Typed
  <2>3. ASSUME NEW c \in Collectors
        PROVE  claim[c].pc # "taking"
    BY <1>6 DEF OwnedDdl, Locks, Claimed, MyFenceAssumption
  <2>. QED
    BY <1>0, <2>1, <2>2, <2>3 DEF Covered, Typed
<1>7. CASE Die
  BY <1>7 DEF Die, Covered, Owned, Typed
<1>8. CASE Tick
  BY <1>0, <1>8 DEF Tick, Covered, Owned, Typed, owned_margin_secs
<1>9. ASSUME NEW k \in LeaseKeys, KeeperRenew(k)
      PROVE  Covered'
  <2>1. CASE ddl = "wait"
    <3>1. ASSUME NEW j \in LeaseKeys
          PROVE  Owned(j)' /\ since + Ttl <= rows'[j].exp + Pause
      <4>1. rows \in [LeaseKeys -> [exp : Nat, collected : BOOLEAN]] /\ since <= now
        BY <1>9, <2>1 DEF KeeperRenew, Typed, Covered
      <4>2. DOMAIN rows' = LeaseKeys /\ rows'[j].collected = rows[j].collected
            /\ rows'[j].exp \in {rows[j].exp, now + Ttl}
        BY <1>9, <4>1 DEF KeeperRenew
      <4>. QED
        BY <1>0, <2>1, <4>1, <4>2 DEF Covered, Owned, Typed
    <3>. QED
      BY <1>9, <2>1, <3>1 DEF KeeperRenew, Covered
  <2>2. CASE ddl # "wait"
    BY <1>9, <2>2 DEF KeeperRenew, Covered
  <2>. QED
    BY <2>1, <2>2
<1>10. ASSUME NEW c \in Collectors,
              ClaimReads(c) \/ ClaimTimesOut(c) \/ ClaimCommits(c) \/
              (\E k \in LeaseKeys : ClaimBegin(c, k))
       PROVE  Covered'
  <2>1. UNCHANGED <<now, run, fresh, since, ddl>>
    BY <1>10 DEF ClaimReads, ClaimTimesOut, ClaimCommits, ClaimBegin
  <2>2. CASE ddl = "wait"
    <3>1. ~ClaimCommits(c)
      BY <2>2 DEF ClaimCommits, Covered
    <3>2. rows' = rows
      BY <1>10, <3>1 DEF ClaimReads, ClaimTimesOut, ClaimBegin
    <3>3. claim'[c].pc # "taking"
      <4>1. CASE ClaimReads(c)
        <5>1. claim[c].key \in LeaseKeys /\ claim[c].at <= now /\ claim[c].at \in Nat
          BY <4>1 DEF ClaimReads, Claimed, Typed
        <5>2. /\ since + Ttl <= rows[claim[c].key].exp + Pause /\ now <= since + Ttl \div 2
              /\ rows[claim[c].key].exp \in Nat /\ ~rows[claim[c].key].collected
          BY <2>2, <5>1 DEF Covered, Owned, Typed
        <5>3. ~(rows[claim[c].key].exp <= claim[c].at)
          BY <1>0, <5>1, <5>2 DEF Typed
        <5>4. claim' = [claim EXCEPT ![c] = NoClaim]
          BY <4>1, <5>2, <5>3 DEF ClaimReads
        <5>. QED
          BY <5>4 DEF NoClaim, Typed
      <4>2. CASE ClaimTimesOut(c)
        BY <4>2 DEF ClaimTimesOut, NoClaim, Typed
      <4>3. CASE \E k \in LeaseKeys : ClaimBegin(c, k)
        BY <4>3 DEF ClaimBegin, Typed
      <4>. QED
        BY <1>10, <3>1, <4>1, <4>2, <4>3
    <3>4. ASSUME NEW d \in Collectors, d # c
          PROVE  claim'[d] = claim[d]
      BY <1>10, <3>4 DEF ClaimReads, ClaimTimesOut, ClaimCommits, ClaimBegin, Typed
    <3>. QED
      BY <2>1, <2>2, <3>2, <3>3, <3>4 DEF Covered, Owned
  <2>3. CASE ddl # "wait"
    BY <2>1, <2>3 DEF Covered
  <2>. QED
    BY <2>2, <2>3
<1>11. CASE UNCHANGED vars
  BY <1>11 DEF vars, Covered, Owned
<1>. QED
  BY <1>2, <1>3, <1>4, <1>5, <1>6, <1>7, <1>8, <1>9, <1>10, <1>11 DEF Next

\* No write of a run lands on a member a later run has collected, for any number of members
\* and of collectors, any TTL, and any pause that leaves half of it: rows the transaction
\* locked are its own, and a DDL that holds no lock is over before its renewal can lapse
\* (MyTx::begin, owned_ddl, lease_claim).
THEOREM NoLateWriteHolds ==
  MyFenceAssumption => (Spec => []NoLateWrite)
<1>1. ASSUME MyFenceAssumption
      PROVE  Spec => []NoLateWrite
  <2>1. Init => IInv
    <3>. SUFFICES ASSUME Init PROVE IInv
      OBVIOUS
    <3>1. Typed
      BY <1>1 DEF Init, Typed, NoClaim, MyFenceAssumption
    <3>2. Locks /\ Covered
      BY <1>1 DEF Init, Locks, Covered
    <3>3. Claimed
      BY <1>1 DEF Init, Claimed, NoClaim
    <3>. QED
      BY <3>1, <3>2, <3>3 DEF IInv
  <2>2. IInv /\ [Next]_vars => IInv'
    BY <1>1, TypedStep, LocksStep, ClaimedStep, CoveredStep DEF IInv
  <2>3. IInv => NoLateWrite
    BY DEF IInv, Locks, Covered, NoLateWrite
  <2>. QED
    BY <2>1, <2>2, <2>3, PTL DEF Spec
<1>. QED
  BY <1>1
=============================================================================
