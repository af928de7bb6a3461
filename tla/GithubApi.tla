----------------------------- MODULE GithubApi ------------------------------
(* Crawling a GitHub list that is sorted by its update clock: pages followed by *)
(* the Link header while items go on being updated, the watermark an            *)
(* incremental run asks since, the pull requests interleaved with issues, and   *)
(* the retries of a request.                                                    *)
EXTENDS Integers, Sequences, FiniteSets

CONSTANTS
    Items,      \* ids of the list's objects
    Pulls,      \* the ones that are pull requests
    Mode,       \* "replace", "merge" (op >=) or "append" (op >)
    PageSize, MaxPages,
    Attempts,   \* tries of one request (3)
    MaxClock, MaxUpdates, MaxRuns, MaxFaults

\* The catalogue, as far as it decides a crawl: what may be dropped, and what can be asked since.
Entities ==
    {[name |-> "issues", since |-> TRUE, drops |-> TRUE],
     [name |-> "issue_comments", since |-> TRUE, drops |-> FALSE],
     [name |-> "pull_requests", since |-> FALSE, drops |-> FALSE]}

VARIABLES
    entity,
    clock,     \* the server's clock, in the seconds updated_at is given in
    list,      \* the objects: id -> [t, n], n counting updates: the list's order
    count,     \* updates so far
    pc,        \* the run: "idle", "fetch", "failed"
    since,     \* its watermark, or -1
    cursor,    \* the n its next page starts after
    pages, attempt,
    start,     \* the list when the crawl began
    staged,    \* rows sent: <<id, t, n>>
    dest,      \* rows published
    again,     \* a published row was published again
    good,      \* rows every successful run vouched for: id -> n
    runs, faults

vars == <<entity, clock, list, count, pc, since, cursor, pages, attempt, start, staged, dest,
          again, good, runs, faults>>

Init ==
    /\ entity \in Entities
    /\ clock = 1 /\ count = 0 /\ list = [i \in {} |-> 0]
    /\ pc = "idle" /\ since = -1 /\ cursor = 0 /\ pages = 0 /\ attempt = 0
    /\ start = list /\ staged = {} /\ dest = {} /\ again = FALSE /\ good = list
    /\ runs = 0 /\ faults = 0

TypeOK ==
    /\ entity \in Entities /\ clock \in 1..MaxClock /\ count \in 0..MaxUpdates
    /\ DOMAIN list \subseteq Items
    /\ pc \in {"idle", "fetch", "failed"} /\ since \in -1..MaxClock
    /\ pages \in 0..MaxPages /\ attempt \in 0..Attempts

-----------------------------------------------------------------------------
\* An object is made or updated.
Touch(i) ==
    /\ count < MaxUpdates
    /\ count' = count + 1
    /\ list' = [j \in DOMAIN list \cup {i} |-> IF j = i THEN [t |-> clock, n |-> count + 1] ELSE list[j]]
    /\ UNCHANGED <<entity, clock, pc, since, cursor, pages, attempt, start, staged, dest, again,
                   good, runs, faults>>

Tick ==
    /\ clock < MaxClock /\ clock' = clock + 1
    /\ UNCHANGED <<entity, list, count, pc, since, cursor, pages, attempt, start, staged, dest,
                   again, good, runs, faults>>

\* The page the API answers with, in the order of the update clock from the cursor on; the Link
\* header names a next page while there is more.
Listed == {i \in DOMAIN list : list[i].n > cursor /\ list[i].t >= since}
Before(i, s) == Cardinality({j \in s : list[j].n < list[i].n})
Page == {i \in Listed : Before(i, Listed) < PageSize}
HasNext == Listed # Page
LastOf(s) == CHOOSE n \in {list[i].n : i \in s} : \A i \in s : list[i].n <= n

-----------------------------------------------------------------------------
\* The watermark is the newest row published; there is none on the first run.
Watermark == IF dest = {} THEN -1 ELSE CHOOSE t \in {r[2] : r \in dest} : \A r \in dest : r[2] <= t

\* span_stmts: an entity without a since filter is refused an incremental run.
Start ==
    /\ pc = "idle" /\ runs < MaxRuns
    /\ Mode # "replace" => entity.since
    /\ runs' = runs + 1 /\ pc' = "fetch"
    /\ since' = IF Mode = "replace" THEN -1 ELSE Watermark
    /\ cursor' = 0 /\ pages' = 0 /\ attempt' = 0 /\ start' = list /\ staged' = {}
    /\ UNCHANGED <<entity, clock, list, count, dest, again, good, faults>>

Dropped(i) == entity.drops /\ i \in Pulls

\* since= is inclusive at the server: an append does not land the watermark's row again.
OverWatermark(i) == since = -1 \/ (IF Mode = "append" THEN list[i].t > since ELSE list[i].t >= since)
Kept == {i \in Page : ~Dropped(i) /\ OverWatermark(i)}

\* next_page: the end is a page without a next link or without objects.
LastPage == ~HasNext \/ Page = {}

\* A page arrives (send succeeds): its rows go to the pipe; then the next one, the end, or the
\* refusal to page without end. At the end the pipe is finished and the load published.
Fetched ==
    /\ pc = "fetch" /\ pages < MaxPages
    /\ pages' = pages + 1 /\ attempt' = 0
    /\ LET rows == staged \cup {<<i, list[i].t, list[i].n>> : i \in Kept} IN
        \/ /\ ~LastPage /\ pages' < MaxPages
           /\ cursor' = LastOf(Page) /\ staged' = rows
           /\ UNCHANGED <<pc, dest, again, good>>
        \/ /\ ~LastPage /\ pages' = MaxPages
           /\ pc' = "failed" /\ staged' = {}
           /\ UNCHANGED <<cursor, dest, again, good>>
        \/ /\ LastPage
           /\ dest' = IF Mode = "replace" THEN rows ELSE dest \cup rows
           /\ again' = (again \/ (Mode = "append" /\ dest \cap rows # {}))
           /\ good' = start /\ staged' = {} /\ pc' = "idle"
           /\ UNCHANGED cursor
    /\ UNCHANGED <<entity, clock, list, count, since, start, runs, faults>>

\* A 5xx, a dead connection, or a rate limit that says when to come back: tried again, and the
\* last try's failure is the run's. Another status fails at once.
RequestFails ==
    /\ pc = "fetch" /\ faults < MaxFaults /\ faults' = faults + 1
    /\ \/ attempt + 1 < Attempts /\ attempt' = attempt + 1 /\ UNCHANGED <<pc, staged>>
       \/ attempt' = 0 /\ pc' = "failed" /\ staged' = {}
    /\ UNCHANGED <<entity, clock, list, count, since, cursor, pages, start, dest, again, good, runs>>

\* The loader was aborted and its staging dropped.
Ended ==
    /\ pc = "failed" /\ pc' = "idle"
    /\ UNCHANGED <<entity, clock, list, count, since, cursor, pages, attempt, start, staged, dest,
                   again, good, runs, faults>>

Next ==
    \/ \E i \in Items : Touch(i)
    \/ Tick \/ Start \/ Fetched \/ RequestFails \/ Ended

Spec == Init /\ [][Next]_vars

-----------------------------------------------------------------------------
\* Every object of the list when a crawl that succeeded began is published, at the version it
\* had then or a newer one, although pages were read while the list moved and pull requests were
\* dropped from it; an append publishes no version twice (GhApiBody::run, next_page, the boundary
\* filter). A merge's second look at the watermark's second is what makes it hold over runs.
CrawlsWhole ==
    /\ ~again
    /\ Mode # "append" =>
        \A i \in DOMAIN good : Dropped(i) \/ \E r \in dest : r[1] = i /\ r[3] >= good[i].n
=============================================================================
