------------------------------ MODULE ChPublish ------------------------------
(***************************************************************************)
(* A bulk replace into ClickHouse (sink/clickhouse.rs): the loader's       *)
(* requests into staging, the replica barrier, the swap, the state rows,   *)
(* and the discard of a failed run, over HTTP that loses answers.          *)
(*                                                                         *)
(* A table is what it holds on each node: a generation and the buffers of  *)
(* the load.  `layout` is the branch of finalize: "plain" (MergeTree),     *)
(* "engine" (the user's engine, through a shadow), "cluster" (ON CLUSTER   *)
(* behind a balancer).                                                     *)
(***************************************************************************)
EXTENDS Naturals, Sequences, FiniteSets

CONSTANTS
    NodesOf,             \* the nodes of a destination of each layout
    Buffers, BodyCap,    \* the load, and how much of it a request carries
    Absent, MaxOutages

VARIABLES
    layout,    \* the destination's
    db,        \* [tab: name on node, state: the destination's state rows]
    publish,
    unsent,    \* buffers the source still holds
    body,      \* buffers of the open request
    outages, crashed, kept   \* kept: a drop was tried and failed

publishVars == <<layout, db, publish, unsent, body, outages, crashed, kept>>

Nodes == NodesOf[layout]
Names == {"final", "staging", "shadow"}
Old == [gen |-> "old", rows |-> {}]
New(S) == [gen |-> "new", rows |-> S]
Whole == New(Buffers)

Tab(n, t) == db.tab[n][t]
\* A name set to what f(n) says, on every node.
Put(t, f) == [db EXCEPT !.tab = [n \in Nodes |-> [@[n] EXCEPT ![t] = f[n]]]]
Everywhere(x) == [n \in Nodes |-> x]
Made(t, x) == Put(t, [n \in Nodes |-> IF Tab(n, t) = Absent THEN x ELSE Tab(n, t)])
Dropped(t) == Put(t, Everywhere(Absent))
Swapped(a, b) ==
    [db EXCEPT !.tab = [n \in Nodes |-> [@[n] EXCEPT ![a] = Tab(n, b), ![b] = Tab(n, a)]]]
Attached(t) == Put(t, [n \in Nodes |->
                  [Tab(n, t) EXCEPT !.rows = @ \cup Tab(n, "staging").rows]])

-----------------------------------------------------------------------------
\* Statements.

Outage == outages < MaxOutages /\ outages' = outages + 1

\* exec_inner: the statement ran; it provably did not run and is tried again
\* (no connection, a proxy's 503); or the run fails, and whether it ran is not
\* known (a 502 or 504, a timeout, an exception).
Exec(after, next) ==
    \/ db' = after /\ publish' = next /\ UNCHANGED outages
    \/ Outage /\ UNCHANGED db /\ publish' = publish
    \/ Outage /\ db' \in {db, after} /\ publish' = "discard"

\* drop_own where a failure is not the run's: the outcome is only noted.
BestEffort(after, next) ==
    /\ publish' = next
    /\ \/ db' = after /\ UNCHANGED <<outages, kept>>
       \/ Outage /\ db' \in {db, after} /\ kept' = TRUE

-----------------------------------------------------------------------------
\* prepare: what does not fit is refused before anything exists.
Refuse ==
    /\ publish = "prepare"
    /\ publish' = "discard"
    /\ UNCHANGED <<db, unsent, body, outages, crashed, kept>>

CreateStaging ==
    /\ publish = "prepare"
    /\ Exec(Put("staging", Everywhere(New({}))), "load")
    /\ UNCHANGED <<unsent, body, crashed, kept>>

\* The balancer puts a request's rows on one node; the others fetch them.
Lands(n, S) == [db EXCEPT !.tab[n]["staging"].rows = @ \cup S]

\* A request ends with Finish and commits; its answer may be lost, or the request
\* fails and nothing of it stays.
Commits(next) ==
    \/ \E n \in Nodes : db' = Lands(n, body) /\ publish' = next /\ body' = {} /\ UNCHANGED outages
    \/ /\ Outage
       /\ \/ \E n \in Nodes : db' = Lands(n, body)
          \/ UNCHANGED db
       /\ publish' = "discard" /\ body' = {}

Send(b) ==
    /\ publish = "load" /\ b \in unsent /\ Cardinality(body) < BodyCap
    /\ body' = body \cup {b}
    /\ unsent' = unsent \ {b}
    /\ UNCHANGED <<db, publish, outages, crashed, kept>>

\* roll: before the buffer that would cross the cap, the request is closed, joined
\* and a fresh one opened.
Roll ==
    /\ publish = "load" /\ unsent # {} /\ Cardinality(body) = BodyCap
    /\ Commits("load")
    /\ UNCHANGED <<unsent, crashed, kept>>

\* Mutant: the last request's answer is not awaited.
FinishUnjoined ==
    /\ publish = "load" /\ unsent = {}
    /\ publish' = "count" /\ body' = {}
    /\ \/ \E n \in Nodes : db' = Lands(n, body) /\ UNCHANGED outages
       \/ Outage /\ UNCHANGED db
    /\ UNCHANGED <<unsent, crashed, kept>>

Finish ==
    /\ publish = "load" /\ unsent = {}
    /\ Commits("count")
    /\ UNCHANGED <<unsent, crashed, kept>>

\* The source or a sibling fails: the open request is aborted and discarded by the
\* server, earlier ones stay committed in staging.
AbortLoad ==
    /\ publish = "load" /\ Outage
    /\ body' = {}
    /\ publish' = "discard"
    /\ UNCHANGED <<db, unsent, crashed, kept>>

\* Replication: a node fetches what another one has, while the name is staging.
Fetch(n, m) ==
    /\ Tab(n, "staging") # Absent /\ Tab(m, "staging") # Absent
    /\ Tab(m, "staging").gen = "new" /\ Tab(n, "staging").gen = "new"
    /\ Tab(m, "staging").rows \ Tab(n, "staging").rows # {}
    /\ db' = Lands(n, Tab(m, "staging").rows)
    /\ UNCHANGED <<publish, unsent, body, outages, crashed, kept>>

\* sync_cluster_replicas: SYSTEM SYNC REPLICA ... ON CLUSTER returned.
Synced == \A n, m \in Nodes : Tab(n, "staging") = Tab(m, "staging")

\* rows_staged: the barrier, then the count.
Count ==
    /\ publish = "count"
    /\ \/ Synced /\ publish' = "sync" /\ UNCHANGED outages
       \/ Outage /\ publish' = "discard"
    /\ UNCHANGED <<db, unsent, body, crashed, kept>>

\* finalize_inner: the barrier again, before any name moves.
Sync ==
    /\ publish = "sync"
    /\ \/ Synced /\ publish' = "swap" /\ UNCHANGED outages
       \/ Outage /\ publish' = "discard"
    /\ UNCHANGED <<db, unsent, body, crashed, kept>>

-----------------------------------------------------------------------------
\* The swap.

CreateFinal(next) == Exec(Made("final", New({})), next)
Rest == <<unsent, body, crashed, kept>>

\* plain: an empty final if there is none, one EXCHANGE; staging goes last.
PlainCreate ==
    /\ layout = "plain" /\ publish = "swap"
    /\ CreateFinal("exchange")
    /\ UNCHANGED Rest
PlainExchange ==
    /\ layout = "plain" /\ publish = "exchange"
    /\ Exec(Swapped("staging", "final"), "state")
    /\ UNCHANGED Rest

\* cluster: the same ON CLUSTER; the old data in the staging name goes at once.
ClusterCreate ==
    /\ layout = "cluster" /\ publish = "swap"
    /\ CreateFinal("exchange")
    /\ UNCHANGED Rest
ClusterExchange ==
    /\ layout = "cluster" /\ publish = "exchange"
    /\ Exec(Swapped("staging", "final"), "dropold")
    /\ UNCHANGED Rest
ClusterDrop ==
    /\ layout = "cluster" /\ publish = "dropold"
    /\ BestEffort(Dropped("staging"), "state")
    /\ UNCHANGED <<unsent, body, crashed>>

\* engine, no table yet: the final takes the parts itself.
FinalExists == \E n \in Nodes : Tab(n, "final") # Absent
EngineFirst ==
    /\ layout = "engine" /\ publish = "swap" /\ ~FinalExists
    /\ CreateFinal("attach")
    /\ UNCHANGED Rest
EngineAttach ==
    /\ layout = "engine" /\ publish = "attach"
    /\ Exec(Attached("final"), "state")
    /\ UNCHANGED Rest

\* engine, replacing: a shadow takes the parts and is exchanged in.
EngineShadow ==
    /\ layout = "engine" /\ publish = "swap" /\ FinalExists
    /\ Exec(Put("shadow", Everywhere(New({}))), "fill")
    /\ UNCHANGED Rest

EngineFill ==
    /\ layout = "engine" /\ publish = "fill"
    /\ Exec(Attached("shadow"), "exchange")
    /\ UNCHANGED Rest
EngineExchange ==
    /\ layout = "engine" /\ publish = "exchange"
    /\ Exec(Swapped("shadow", "final"), "dropshadow")
    /\ UNCHANGED Rest
EngineDrop ==
    /\ layout = "engine" /\ publish = "dropshadow"
    /\ BestEffort(Dropped("shadow"), "state")
    /\ UNCHANGED <<unsent, body, crashed>>

\* A replace destroyed every source's rows: their state rows go.
ClearState ==
    /\ publish = "state"
    /\ Exec([db EXCEPT !.state = "clear"], "dropstaging")
    /\ UNCHANGED Rest

DropStaging ==
    /\ publish = "dropstaging"
    /\ BestEffort(Dropped("staging"), "ok")
    /\ UNCHANGED <<unsent, body, crashed>>

\* discard: staging and the shadow, each tried whatever the other answers.
Discard ==
    /\ \/ publish = "discard" /\ BestEffort(Dropped("staging"), "discard2")
       \/ publish = "discard2" /\ BestEffort(Dropped("shadow"), "failed")
    /\ UNCHANGED <<unsent, body, crashed>>

\* The process dies anywhere; what it left stays for an operator.
Crash ==
    /\ publish \notin {"ok", "failed"} /\ Outage
    /\ publish' = "failed"
    /\ crashed' = TRUE
    /\ UNCHANGED <<db, unsent, body, kept>>

-----------------------------------------------------------------------------
\* The destination before the run: a table of that name, or none.
Before(was) ==
    [tab |-> [n \in Nodes |-> [t \in Names |-> IF t = "final" THEN was ELSE Absent]],
     state |-> IF was = Absent THEN "clear" ELSE "old"]

PublishInit ==
    /\ layout \in DOMAIN NodesOf
    /\ \E was \in {Absent, Old} : db = Before(was)
    /\ publish = "prepare"
    /\ unsent = Buffers
    /\ body = {}
    /\ outages = 0
    /\ crashed = FALSE
    /\ kept = FALSE

PublishNext ==
    /\ UNCHANGED layout
    /\ \/ Refuse \/ CreateStaging
       \/ \E b \in Buffers : Send(b)
       \/ Roll \/ Finish \/ AbortLoad
       \/ \E n, m \in Nodes : Fetch(n, m)
       \/ Count \/ Sync
       \/ PlainCreate \/ PlainExchange
       \/ ClusterCreate \/ ClusterExchange \/ ClusterDrop
       \/ EngineFirst \/ EngineAttach \/ EngineShadow \/ EngineFill \/ EngineExchange \/ EngineDrop
       \/ ClearState \/ DropStaging \/ Discard \/ Crash

PublishSpec == PublishInit /\ [][PublishNext]_publishVars

-----------------------------------------------------------------------------
Content == {Absent, Old} \cup {New(R) : R \in SUBSET Buffers}

PublishTypeOK ==
    /\ layout \in DOMAIN NodesOf
    /\ db \in [tab : [Nodes -> [Names -> Content]], state : {"clear", "old"}]
    /\ unsent \subseteq Buffers /\ body \subseteq Buffers
    /\ crashed \in BOOLEAN /\ kept \in BOOLEAN

\* What a reader of the destination sees on any node, at any time: the old table
\* whole, the new one whole, or (where there was none) a shell that is still empty.
\* No lost answer, failed request, lagging replica or crash shows a part of a load.
OldOrNew ==
    \A n \in Nodes :
        Tab(n, "final") \in {Absent, Old, Whole, New({})}

\* A run that reports success published its whole load on every node, and the
\* state rows of what it replaced are gone.
SuccessPublishes ==
    publish = "ok" => (\A n \in Nodes : Tab(n, "final") = Whole) /\ db.state = "clear"

\* A run that ends, well or not, leaves none of its tables, unless it died or a
\* drop failed (which it says).
NothingLeft ==
    (publish \in {"ok", "failed"} /\ ~crashed /\ ~kept) =>
        \A n \in Nodes : Tab(n, "staging") = Absent /\ Tab(n, "shadow") = Absent

\* The new table is never paired with the old one's watermarks once the run ended:
\* "a stale-high watermark and silent skips".
NoStaleState ==
    publish \in {"ok", "failed"} =>
        ((\E n \in Nodes : Tab(n, "final") = Whole) => db.state = "clear")

\* A reader of the destination sees on every node the old table or the new one whole,
\* a run that reports success published its load everywhere, and one that ends leaves
\* nothing behind that it does not say (finalize, publish_engine, discard).
NeverTorn == OldOrNew /\ SuccessPublishes /\ NothingLeft
=============================================================================
