------------------------------- MODULE ChLease -------------------------------
(***************************************************************************)
(* The lease rows of one run in ClickHouse (sink/clickhouse.rs): versions  *)
(* of a ReplacingMergeTree, read by argMax(_, seq), with no transaction    *)
(* between a read and a write.  The owner acquires, renews and releases,   *)
(* collectors claim, a table made by 0.56.0 ages its rows out until a      *)
(* first contact removes the TTL.                                          *)
(***************************************************************************)
EXTENDS Naturals, FiniteSets

CONSTANTS Collectors, Ttl, MaxTime, Bias

ASSUME BiasAssumption == MaxTime \in Nat /\ Ttl \in Nat /\ Bias \in Nat /\ Bias > MaxTime /\ MaxTime > 0

VARIABLES
    rows,      \* versions: [seq, expires, collected]
    now,       \* the server's clock
    ttl,       \* the table still has 0.56.0's TTL clause
    owner,     \* "new", "held", "read" (a renewal between its two halves), "lost", "done"
    col,       \* what each collector is doing
    claims     \* collectors told Taken

vars == <<rows, now, ttl, owner, col, claims>>

Latest == CHOOSE r \in rows : \A q \in rows : q.seq <= r.seq
Collected == \E r \in rows : r.collected /\ \A q \in rows : q.seq <= r.seq
Live == rows # {} /\ Latest.expires > now

\* lease_seq: a claim outranks every renewal.
LeaseSeq(collected, micros) == micros + (IF collected THEN Bias ELSE 0)

\* lease_write: the TTL clause goes, then one version.
Version(expires, collected) ==
    [seq |-> LeaseSeq(collected, now), expires |-> expires, collected |-> collected]
Write(v) == rows' = rows \cup {v}

-----------------------------------------------------------------------------
Acquire ==
    /\ owner = "new" /\ owner' = "held"
    /\ Write(Version(now + Ttl, FALSE))
    /\ ttl' = FALSE
    /\ UNCHANGED <<now, col, claims>>

\* lease_renew's SELECT: a version is written only while one exists and the last
\* is not collected; otherwise the run has lost the table.
Renew ==
    /\ owner = "held"
    /\ owner' = IF rows # {} /\ ~Collected THEN "read" ELSE "lost"
    /\ UNCHANGED <<rows, now, ttl, col, claims>>

\* lease_renew's INSERT; a claim may have come in between.
RenewWrite ==
    /\ owner = "read" /\ owner' = "held"
    /\ Write(Version(now + Ttl, FALSE))
    /\ UNCHANGED <<now, ttl, col, claims>>

\* lease_close: best effort, an explicit epoch and a claim of its own.
Close ==
    /\ owner \in {"held", "lost"} /\ owner' = "done"
    /\ \/ Write(Version(0, TRUE)) /\ ttl' = FALSE
       \/ UNCHANGED <<rows, ttl>>
    /\ UNCHANGED <<now, col, claims>>

\* lease_claim reads lease_get: absent, taken, refused, or it goes on to write.
Look(c) ==
    /\ col[c] = "idle"
    /\ \/ rows = {} /\ UNCHANGED <<col, claims>>
       \/ rows # {} /\ Collected /\ col' = [col EXCEPT ![c] = "taken"]
                    /\ claims' = claims \cup {c}
       \/ rows # {} /\ ~Collected /\ Live /\ UNCHANGED <<col, claims>>
       \/ rows # {} /\ ~Collected /\ ~Live /\ col' = [col EXCEPT ![c] = "claim"]
                    /\ UNCHANGED claims
    /\ UNCHANGED <<rows, now, ttl, owner>>

\* Mutant: a claim that did not land is reported as taken.
ClaimUnlanded(c) ==
    /\ col[c] = "claim"
    /\ col' = [col EXCEPT ![c] = "taken"] /\ claims' = claims \cup {c}
    /\ \/ Write(Version(now + Ttl, TRUE)) /\ ttl' = FALSE
       \/ UNCHANGED <<rows, ttl>>
    /\ UNCHANGED <<now, owner>>

\* The write: it lands and is answered, lands unanswered, or does not land.
Claim(c) ==
    /\ col[c] = "claim"
    /\ \/ /\ Write(Version(now + Ttl, TRUE)) /\ ttl' = FALSE
          /\ \/ col' = [col EXCEPT ![c] = "taken"] /\ claims' = claims \cup {c}
             \/ col' = [col EXCEPT ![c] = "failed"] /\ UNCHANGED claims
       \/ col' = [col EXCEPT ![c] = "failed"] /\ UNCHANGED <<claims, rows, ttl>>
    /\ UNCHANGED <<now, owner>>

\* A merge keeps the highest of the versions it meets.
Merge ==
    /\ \E S \in SUBSET rows :
          /\ Cardinality(S) = 2
          /\ rows' = rows \ {r \in S : \E q \in S : q.seq > r.seq}
    /\ UNCHANGED <<now, ttl, owner, col, claims>>

\* 0.56.0's TTL deletes what aged out, part by part.
AgesOut ==
    /\ ttl
    /\ \E r \in rows : r.expires < now /\ rows' = rows \ {r}
    /\ UNCHANGED <<now, ttl, owner, col, claims>>

Tick ==
    /\ now < MaxTime
    /\ now' = now + 1
    /\ UNCHANGED <<rows, ttl, owner, col, claims>>

\* A fresh table, or one that 0.56.0 made, maybe with the row of a dead run in it.
Init ==
    /\ ttl \in BOOLEAN
    /\ now = 1
    /\ \/ rows = {} /\ owner = "new"
       \/ ttl /\ owner = "done" /\ rows = {[seq |-> 0, expires |-> Ttl, collected |-> FALSE]}
    /\ col = [c \in Collectors |-> "idle"]
    /\ claims = {}

Next ==
    \/ Acquire \/ Renew \/ RenewWrite \/ Close
    \/ \E c \in Collectors : Look(c) \/ Claim(c)
    \/ Merge \/ AgesOut \/ Tick

Spec == Init /\ [][Next]_vars

-----------------------------------------------------------------------------
TypeOK ==
    /\ \A r \in rows : r.seq \in (IF r.collected THEN Bias..(Bias + MaxTime) ELSE 0..MaxTime)
    /\ owner \in {"new", "held", "read", "lost", "done"}
    /\ now \in 1..MaxTime /\ ttl \in BOOLEAN

\* A claim, once it landed, is never undone: not by a renewal read before it and
\* written after it, not by a merge, and not by 0.56.0's TTL.
ClaimSticks == [][Collected => Collected']_vars

\* A collector told Taken means the run's row says so, from then on.
TakenIsCollected == claims # {} => Collected
=============================================================================
