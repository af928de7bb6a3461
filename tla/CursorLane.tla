----------------------------- MODULE CursorLane -----------------------------
(***************************************************************************)
(* The cursor lane: append loads that resume from a watermark kept beside  *)
(* the destination, and plain replaces of the same table.                  *)
(*                                                                         *)
(* A run reads the destination's state (Sink::dest_state) before anybody   *)
(* can see it, announces itself, checks its peers, reads the state again,  *)
(* stages the source's rows above the watermark and publishes them         *)
(* (Sink::finalize). What differs between destinations is how the          *)
(* watermark is resolved and which of rows, stale state and new state land *)
(* together: one transaction on PostgreSQL and MySQL appends, one catalog  *)
(* commit on Iceberg, separate statements on ClickHouse, on BigQuery and   *)
(* in a MySQL replace. A run may die between any two of them.              *)
(*                                                                         *)
(* Rows are numbered by their cursor value, which grows with the source's  *)
(* commits. dest counts the copies of every row.                           *)
(***************************************************************************)
EXTENDS Integers, FiniteSets, FiniteSetsExt, WellFoundedInduction, TLAPS

CONSTANTS
  Sources,      \* the sources there are
  Runs,         \* the run slots
  Setups,       \* the destination, the sources that feed its one table, what an operator does
  MaxRow,       \* the highest cursor value a source reaches
  MaxStarts,    \* how many runs are started
  MaxDeaths,    \* how many runs die
  None,         \* no watermark
  Refused       \* dest_state is an error

CursorConstants ==
  /\ Setups \subseteq
       [kind      : {"pg", "my", "ch", "bq", "ice"},
        feeds     : SUBSET Sources,
        modes     : SUBSET {"append", "replace"},  \* what an operator starts
        truncates : Nat,                           \* how often he empties the table
        seeds     : Nat]                           \* how many state rows he seeds
  /\ {MaxRow, MaxStarts, MaxDeaths} \subseteq Nat  /\ MaxRow > 0
  /\ None \notin Int /\ Refused \notin Int /\ None # Refused

VARIABLES
  setup,     \* one of Setups, for good
  source,    \* source[s]: the highest cursor value committed at s
  exists,    \* the destination table exists
  dest,      \* dest[s][i]: copies of row i of source s
  state,     \* state[s]: the watermark of s in _apitap_state, or None
  run,       \* run[r]: where run r stands
  claimed,   \* claimed[s]: the rows of s a successful run vouched for
  budget     \* starts, deaths, truncates and seeds left

cursorVars == <<setup, source, exists, dest, state, run, claimed, budget>>
kind == setup.kind

Rows == 1..MaxRow
Watermark == 0..MaxRow \cup {None}
Idle == [pc |-> "idle", src |-> None, kindOf |-> "none", land |-> "none",
         wm |-> None, staged |-> {}]
NoRows == [s \in Sources |-> [i \in Rows |-> 0]]

RunRec ==
  [pc : {"idle", "read", "announced", "checked", "load", "staged", "landed", "cleared"},
   src : Sources \cup {None}, kindOf : {"none", "Incremental", "Swap"},
   land : {"none", "append", "replace"}, wm : Watermark, staged : SUBSET Rows]

CursorTypeOK ==
  /\ setup \in Setups
  /\ source \in [Sources -> 0..MaxRow]
  /\ exists \in BOOLEAN
  /\ dest \in [Sources -> [Rows -> Nat]]
  /\ state \in [Sources -> Watermark]
  /\ run \in [Runs -> RunRec]
  /\ claimed \in [Sources -> 0..MaxRow]
  /\ budget \in [starts : Nat, deaths : Nat, truncates : Nat, seeds : Nat]

CursorInit ==
  /\ setup \in Setups
  /\ source \in [Sources -> {0, 1}]
  /\ exists = FALSE
  /\ dest = NoRows
  /\ state = [s \in Sources |-> None]
  /\ run = [r \in Runs |-> Idle]
  /\ claimed = [s \in Sources |-> 0]
  /\ budget = [starts |-> MaxStarts, deaths |-> MaxDeaths, truncates |-> setup.truncates,
               seeds |-> setup.seeds]

-----------------------------------------------------------------------------
\* What dest_state answers.

Present == {i \in Rows : \E s \in Sources : dest[s][i] > 0}
DataMax == IF Present = {} THEN None ELSE Max(Present)

\* plan.rs: the fresher of a state watermark and a data watermark.
wm_pick(s, d) == IF d = None THEN s ELSE Max({s, d})

Siblings(s) == \E t \in Sources \ {s} : state[t] # None
Empty == Present = {}

\* plan.rs: resolve_watermark, under its two arbitrations.
AuthoritativeAlone(own, data, siblings) == IF own # None THEN own ELSE data
Authoritative(own, data, siblings) ==
  IF own # None THEN own ELSE IF siblings THEN Refused ELSE data
Greatest(own, data, siblings) ==
  IF own # None
    THEN IF siblings THEN own ELSE wm_pick(own, data)
    ELSE IF siblings THEN Refused ELSE data

\* PostgreSQL: the state row alone; siblings count when there is none.
PgDestState(s) == IF Empty THEN None ELSE Authoritative(state[s], DataMax, Siblings(s))

\* MySQL and ClickHouse look for siblings only when their own row is missing.
MyDestState(s) ==
  IF Empty THEN None ELSE Greatest(state[s], DataMax, state[s] = None /\ Siblings(s))
ChDestState(s) ==
  IF Empty THEN None ELSE Greatest(state[s], DataMax, state[s] = None /\ Siblings(s))

\* BigQuery decides by itself: the state row never stands alone.
BqDestState(s) ==
  CASE Empty -> None
    [] ~Empty /\ state[s] = None /\ Siblings(s) -> Refused
    [] ~Empty /\ state[s] = None /\ ~Siblings(s) -> DataMax
    [] OTHER -> wm_pick(state[s], DataMax)

\* Iceberg reads the data only when no state is there, and never asks
\* whether the table is empty.
IceDestState(s) == Authoritative(state[s], DataMax, Siblings(s))

DestState(s) ==
  CASE ~exists -> None
    [] exists /\ kind = "pg"  -> PgDestState(s)
    [] exists /\ kind = "my"  -> MyDestState(s)
    [] exists /\ kind = "ch"  -> ChDestState(s)
    [] exists /\ kind = "bq"  -> BqDestState(s)
    [] exists /\ kind = "ice" -> IceDestState(s)

-----------------------------------------------------------------------------
\* The run, up to the load.

Announced(r) == run[r].pc \in {"announced", "checked", "load", "staged", "landed", "cleared"}

\* naming.rs: peer_blocks. A swap excludes everyone, appends of one source
\* exclude each other.
peer_blocks(p, r) ==
  \/ "Swap" \in {run[p].kindOf, run[r].kindOf}
  \/ run[p].src = run[r].src

Ended(r) == run' = [run EXCEPT ![r] = Idle]

\* pipeline::run up to prepare: an append reads the watermark, and lands as a
\* replace when there is no table.
Start(r, s, m) ==
  /\ run[r].pc = "idle" /\ budget.starts > 0
  /\ m = "append" => DestState(s) # Refused
  /\ run' = [run EXCEPT ![r] =
       [pc |-> "read", src |-> s,
        kindOf |-> IF m = "replace" THEN "Swap" ELSE "Incremental",
        land |-> IF m = "replace" \/ ~exists THEN "replace" ELSE "append",
        wm |-> IF m = "replace" THEN None ELSE DestState(s),
        staged |-> {}]]
  /\ budget' = [budget EXCEPT !.starts = @ - 1]
  /\ UNCHANGED <<setup, source, exists, dest, state, claimed>>

\* Sink::prepare, its first half. Iceberg creates the table first.
Announce(r) ==
  /\ run[r].pc = "read"
  /\ run' = [run EXCEPT ![r].pc = "announced"]
  /\ exists' = (exists \/ kind = "ice")
  /\ UNCHANGED <<setup, source, dest, state, claimed, budget>>

\* Sink::prepare, its second half: a blocking peer refuses this run.
CheckPeers(r) ==
  /\ run[r].pc = "announced"
  /\ IF \E p \in Runs \ {r} : Announced(p) /\ peer_blocks(p, r)
       THEN Ended(r)
       ELSE run' = [run EXCEPT ![r].pc = "checked"]
  /\ UNCHANGED <<setup, source, exists, dest, state, claimed, budget>>

watermark_moved(r) ==
  run[r].kindOf = "Incremental" /\ DestState(run[r].src) # run[r].wm

\* pipeline::run after prepare: the second read, and the refusal that takes
\* back the staging and the announcement.
ReRead(r) ==
  /\ run[r].pc = "checked"
  /\ IF watermark_moved(r) THEN Ended(r) ELSE run' = [run EXCEPT ![r].pc = "load"]
  /\ UNCHANGED <<setup, source, exists, dest, state, claimed, budget>>

Delta(r) == {i \in 1..source[run[r].src] : run[r].wm = None \/ i > run[r].wm}

\* The workers stage the source's rows past the watermark. A load of no rows
\* touches nothing and the run ends well.
Load(r) ==
  /\ run[r].pc = "load"
  /\ IF Delta(r) = {}
       THEN /\ Ended(r)
            /\ claimed' = [claimed EXCEPT ![run[r].src] =
                             IF run[r].land = "append" THEN source[run[r].src] ELSE @]
       ELSE /\ run' = [run EXCEPT ![r].pc = "staged", ![r].staged = Delta(r)]
            /\ UNCHANGED claimed
  /\ UNCHANGED <<setup, source, exists, dest, state, budget>>

-----------------------------------------------------------------------------
\* Publication.

Flipped(r) == run[r].kindOf = "Incremental" /\ run[r].land = "replace"

\* The staged rows as the whole table, or on top of it.
Landed(r) ==
  [s \in Sources |-> [i \in Rows |->
     (IF run[r].land = "append" THEN dest[s][i] ELSE 0)
       + (IF s = run[r].src /\ i \in run[r].staged THEN 1 ELSE 0)]]

\* A replace that was asked for tracks no cursor and writes no state row.
Own(r) == IF run[r].kindOf = "Incremental" THEN Max(run[r].staged) ELSE None
Kept(r) == [state EXCEPT ![run[r].src] = Own(r)]
Alone(r) == [s \in Sources |-> IF s = run[r].src THEN Own(r) ELSE None]
NoState == [s \in Sources |-> None]

\* A run that lands vouches for every row it and the runs before it saw; a
\* replace destroys the other sources' rows, so nobody vouches for them.
Vouched(r) ==
  [s \in Sources |-> IF s = run[r].src THEN Max(run[r].staged)
                     ELSE IF run[r].kindOf = "Swap" THEN 0 ELSE claimed[s]]

\* A first run of an append whose table appeared meanwhile has lost it.
LostNever(r) == FALSE
LostFirstRun(r) == Flipped(r) /\ (IF kind = "ice" THEN ~Empty ELSE exists)

Refuse(r) ==
  /\ run[r].pc = "staged" /\ kind # "bq" /\ LostFirstRun(r)
  /\ Ended(r)
  /\ UNCHANGED <<setup, source, exists, dest, state, claimed, budget>>

\* Rows and watermark in one commit, and the run ends.
Whole(r, newState) ==
  /\ exists' = TRUE /\ dest' = Landed(r) /\ state' = newState /\ claimed' = Vouched(r)
  /\ Ended(r)
  /\ UNCHANGED <<setup, source, budget>>

\* The rows are live; the state still speaks of the table before.
RowsOnly(r, pc) ==
  /\ exists' = TRUE /\ dest' = Landed(r)
  /\ run' = [run EXCEPT ![r].pc = pc]
  /\ UNCHANGED <<setup, source, state, claimed, budget>>

\* A state row of its own, which ends the run.
StateOnly(r, newState) ==
  /\ state' = newState /\ claimed' = Vouched(r)
  /\ Ended(r)
  /\ UNCHANGED <<setup, source, exists, dest, budget>>

\* PostgreSQL: DROP, RENAME, the state rows, or INSERT .. SELECT and the state
\* row, in one transaction.
PgReplace(r) ==
  /\ run[r].pc = "staged" /\ kind = "pg" /\ run[r].land = "replace" /\ ~LostFirstRun(r)
  /\ Whole(r, Alone(r))
PgAppend(r) ==
  /\ run[r].pc = "staged" /\ kind = "pg" /\ run[r].land = "append"
  /\ Whole(r, Kept(r))

\* MySQL: the append is one transaction; the replace is RENAME, then DELETE of
\* every source's state, then the new row.
MyAppend(r) ==
  /\ run[r].pc = "staged" /\ kind = "my" /\ run[r].land = "append"
  /\ Whole(r, Kept(r))
MyRename(r) ==
  /\ run[r].pc = "staged" /\ kind = "my" /\ run[r].land = "replace" /\ ~LostFirstRun(r)
  /\ RowsOnly(r, "landed")
MyClear(r) ==
  /\ run[r].pc = "landed" /\ kind = "my"
  /\ state' = NoState
  /\ run' = [run EXCEPT ![r].pc = "cleared"]
  /\ UNCHANGED <<setup, source, exists, dest, claimed, budget>>
MyState(r) ==
  /\ run[r].pc = "cleared" /\ kind = "my"
  /\ StateOnly(r, Kept(r))

\* ClickHouse: ATTACH or EXCHANGE, the DELETE (a first run deletes only its
\* own row), and the new row are statements of their own.
ChAttach(r) ==
  /\ run[r].pc = "staged" /\ kind = "ch" /\ run[r].land = "append"
  /\ RowsOnly(r, "cleared")
ChExchange(r) ==
  /\ run[r].pc = "staged" /\ kind = "ch" /\ run[r].land = "replace" /\ ~LostFirstRun(r)
  /\ RowsOnly(r, "landed")
ChClear(r) ==
  /\ run[r].pc = "landed" /\ kind = "ch"
  /\ state' = IF Flipped(r) THEN [state EXCEPT ![run[r].src] = None] ELSE NoState
  /\ run' = [run EXCEPT ![r].pc = "cleared"]
  /\ UNCHANGED <<setup, source, exists, dest, claimed, budget>>
ChState(r) ==
  /\ run[r].pc = "cleared" /\ kind = "ch"
  /\ StateOnly(r, Kept(r))

\* BigQuery: one copy job over all stagings, truncating on a first run too;
\* then one load job, the barrier of a replace beside the new row.
BqCopy(r) ==
  /\ run[r].pc = "staged" /\ kind = "bq"
  /\ RowsOnly(r, "cleared")
BqBarrier(r) ==
  /\ run[r].pc = "cleared" /\ kind = "bq" /\ run[r].land = "replace"
  /\ StateOnly(r, Alone(r))
BqState(r) ==
  /\ run[r].pc = "cleared" /\ kind = "bq" /\ run[r].land = "append"
  /\ StateOnly(r, Kept(r))

\* Iceberg: the snapshot and the properties in one catalog commit.
IceCommit(r) ==
  /\ run[r].pc = "staged" /\ kind = "ice" /\ ~LostFirstRun(r)
  /\ Whole(r, IF run[r].land = "append" THEN Kept(r) ELSE Alone(r))

-----------------------------------------------------------------------------
\* The world around the runs.

SourceCommits(s) ==
  /\ source[s] < MaxRow
  /\ source' = [source EXCEPT ![s] = @ + 1]
  /\ UNCHANGED <<setup, exists, dest, state, run, claimed, budget>>

\* A run dies; what it announced is cleared away before the next one starts.
Die(r) ==
  /\ run[r].pc # "idle" /\ budget.deaths > 0
  /\ Ended(r)
  /\ budget' = [budget EXCEPT !.deaths = @ - 1]
  /\ UNCHANGED <<setup, source, exists, dest, state, claimed>>

\* An operator empties the table between runs, to have it loaded again.
Truncate ==
  /\ budget.truncates > 0 /\ Present # {}
  /\ \A r \in Runs : run[r].pc = "idle"
  /\ dest' = NoRows
  /\ claimed' = [s \in Sources |-> 0]
  /\ budget' = [budget EXCEPT !.truncates = @ - 1]
  /\ UNCHANGED <<setup, source, exists, state, run>>

\* What the refusal asks for when a second source joins a table: a state row
\* written by hand, below every row of that source.
Seed(s) ==
  /\ budget.seeds > 0 /\ exists /\ state[s] = None /\ Siblings(s)
  /\ \A r \in Runs : run[r].pc = "idle"
  /\ state' = [state EXCEPT ![s] = 0]
  /\ budget' = [budget EXCEPT !.seeds = @ - 1]
  /\ UNCHANGED <<setup, source, exists, dest, run, claimed>>

Step(r) ==
  \/ Announce(r) \/ CheckPeers(r) \/ ReRead(r) \/ Load(r)
  \/ Refuse(r) \/ PgReplace(r) \/ PgAppend(r)
  \/ MyAppend(r) \/ MyRename(r) \/ MyClear(r) \/ MyState(r)
  \/ ChAttach(r) \/ ChExchange(r) \/ ChClear(r) \/ ChState(r)
  \/ BqCopy(r) \/ BqBarrier(r) \/ BqState(r) \/ IceCommit(r)

CursorNext ==
  \/ \E r \in Runs :
       Step(r) \/ Die(r) \/ \E s \in setup.feeds, m \in setup.modes : Start(r, s, m)
  \/ \E s \in setup.feeds : SourceCommits(s) \/ Seed(s)
  \/ Truncate

CursorSpec == CursorInit /\ [][CursorNext]_cursorVars

\* Two sources side by side where the table's data take part in the answer.
FanInSetups ==
  [kind : {"my", "ch", "bq"}, feeds : {Sources}, modes : {{"append"}}, truncates : {0},
   seeds : {1}]

-----------------------------------------------------------------------------
\* Every row a successful run vouched for is in the destination: a resolved
\* watermark never skips a row of its own source, whoever else wrote the
\* table and wherever a run died between its statements.
Complete == \A s \in Sources : \A i \in 1..claimed[s] : dest[s][i] > 0

\* No row is landed twice: a peer that committed between a run's first read
\* and its announcement, or a death between rows and watermark, is noticed.
NoDuplicate == \A s \in Sources, i \in Rows : dest[s][i] <= 1

\* Where exactness is promised: one source, or sources side by side where the state row alone
\* is the watermark. An emptied table is loaded again from the start for the first source to
\* come, and on Iceberg for none.
Arbitrated ==
  \/ /\ \E s \in Sources : setup.feeds = {s}
     /\ kind = "ice" => setup.truncates = 0
  \/ kind \in {"pg", "ice"} /\ "replace" \notin setup.modes /\ setup.truncates = 0

\* Every row a successful incremental run vouched for is in the destination once: a resolved
\* watermark skips no row of its own source and lands none again, whoever else wrote the
\* table and wherever a run died (resolve_watermark, watermark_moved, dest_state).
CursorExact == Arbitrated => Complete /\ NoDuplicate

\* Only a replace that was asked for, or the operator, removes a row: the first run of an
\* append never replaces what another source published while it loaded (lost_first_run; on
\* BigQuery it may).
OnlySwapsErase ==
  [][kind # "bq" /\ (\E s \in Sources, i \in Rows : dest'[s][i] < dest[s][i]) =>
       \/ \E r \in Runs : run[r].kindOf = "Swap" /\ run'[r] # run[r]
       \/ budget'.truncates # budget.truncates]_cursorVars

-----------------------------------------------------------------------------
(* Exactness is proved for every set of sources, runs and setups.          *)

Past(r) == run[r].pc \in {"checked", "load", "staged", "landed", "cleared"}
OneFeed == \E s \in Sources : setup.feeds = {s}

\* Of two runs past their checks neither blocks the other: the one that announced itself
\* second saw the first.
Exclusive == \A p, r \in Runs : p # r /\ Past(p) /\ Past(r) => ~peer_blocks(p, r)

\* What a run's fields say of it.
RunShape(r) ==
  run[r].pc # "idle" =>
    /\ run[r].src \in setup.feeds /\ run[r].kindOf # "none" /\ run[r].land # "none"
    /\ run[r].kindOf = "Swap" => run[r].land = "replace" /\ "replace" \in setup.modes
    /\ run[r].land = "replace" => run[r].wm = None
    /\ run[r].pc \in {"staged", "landed", "cleared"} => run[r].staged # {}
    /\ run[r].pc \in {"landed", "cleared"} => exists /\ kind \in {"my", "ch", "bq"}

\* What holds in every setup.
Shape ==
  /\ CursorTypeOK
  /\ budget.truncates <= setup.truncates
  /\ ~exists => dest = NoRows /\ state = NoState
  /\ \A s \in Sources \ setup.feeds : dest[s] = [i \in Rows |-> 0] /\ state[s] = None
  /\ \A r \in Runs : RunShape(r)
  /\ Exclusive

\* The rows of a source that landed are the first ones, top[s] of them, and its state row is
\* their number; with one source and two statements it may lag behind, and the rows tell.
StateFits(s, t) ==
  IF t = 0 THEN (OneFeed /\ kind # "ice") \/ state[s] \in {None, 0}
           ELSE \/ state[s] = t
                \/ OneFeed /\ (state[s] = None \/ (kind \in {"my", "ch", "bq"} /\ state[s] < t))

Prefixes(top) == [s \in Sources |-> [i \in Rows |-> IF i <= top[s] THEN 1 ELSE 0]]

TopFits(top) ==
  /\ top \in [Sources -> 0..MaxRow] /\ dest = Prefixes(top)
  /\ \A s \in Sources :
        /\ top[s] <= source[s] /\ claimed[s] <= top[s]
        /\ state[s] # None => state[s] <= source[s]
        /\ StateFits(s, top[s])

\* From the second read on a run knows where its source stands, and it stages what follows.
RunFits(r, top) ==
  LET t == top[run[r].src] IN
    /\ run[r].pc \in {"load", "staged"} /\ run[r].kindOf = "Incremental" =>
         run[r].wm = t \/ (run[r].wm = None /\ t = 0)
    /\ run[r].pc = "staged" => \E x \in 1..source[run[r].src] :
         /\ t <= x /\ run[r].staged = {i \in 1..x : run[r].wm = None \/ i > run[r].wm}
         /\ state[run[r].src] # None => state[run[r].src] <= x
    /\ run[r].pc \in {"landed", "cleared"} => Max(run[r].staged) = t

Counted == \E top \in [Sources -> 0..MaxRow] :
             TopFits(top) /\ \A r \in Runs : RunFits(r, top)

CursorInv == Shape /\ (Arbitrated => Counted)

-----------------------------------------------------------------------------
Less == {p \in Nat \X Nat : p[1] < p[2]}

\* A set of numbers up to some bound has a maximum.
LEMMA MaxGreatest ==
    ASSUME NEW N \in Nat, NEW S \in SUBSET (0..N), S # {}
    PROVE  Max(S) \in S /\ \A x \in S : x <= Max(S)
<1> DEFINE T == {N - x : x \in S}
<1>1. \A x \in S : x \in Nat /\ N - x \in Nat /\ N - x \in T
  OBVIOUS
<1>2. T \in SUBSET Nat /\ T # {} /\ \A y \in T : \E x \in S : y = N - x
  BY <1>1
<1> HIDE DEF T
<1>3. OpToRel(<, Nat) = Less
  BY DEF OpToRel, Less
<1>4. PICK m \in T : \A y \in T : ~(<<y, m>> \in Less)
  BY <1>2, <1>3, NatLessThanWellFounded, WFMin
<1>5. \A a, b \in Nat : a < b => <<a, b>> \in Less
  BY DEF Less
<1>6. PICK g \in S : m = N - g
  BY <1>2
<1>7. \A x \in S : x <= g
  <2> TAKE x \in S
  <2>1. ~(N - x < m)
    BY <1>1, <1>2, <1>4, <1>5
  <2> QED
    BY <1>1, <1>6, <2>1
<1>8. \A x \in S : g >= x
  BY <1>1, <1>7
<1>9. Max(S) \in S /\ \A x \in S : Max(S) >= x
  BY <1>8 DEF Max
<1> QED
  BY <1>1, <1>9

\* It is the one that no other exceeds.
LEMMA MaxIs ==
    ASSUME NEW N \in Nat, NEW S \in SUBSET (0..N), NEW g \in S, \A x \in S : x <= g
    PROVE  Max(S) = g
<1> DEFINE m == Max(S)
<1>1. S # {}
  OBVIOUS
<1>2. m \in S /\ \A x \in S : x <= m
  BY <1>1, MaxGreatest
<1> HIDE DEF m
<1>3. g \in 0..N /\ m \in 0..N
  BY <1>2
<1>4. g <= m /\ m <= g
  BY <1>2
<1>5. m = g
  BY <1>3, <1>4
<1> QED
  BY <1>5 DEF m

-----------------------------------------------------------------------------
(* What a destination answers.                                             *)

\* The resolved watermark has its type.
LEMMA Resolves ==
    ASSUME CursorConstants, CursorTypeOK, NEW s \in Sources
    PROVE  DestState(s) \in Watermark \cup {Refused}
<1>1. MaxRow \in Nat /\ state[s] \in Watermark
  BY DEF CursorConstants, CursorTypeOK
<1>2. DataMax \in Watermark
  <2>1. CASE Present = {}
    BY <2>1 DEF DataMax, Watermark
  <2>2. CASE Present # {}
    <3>1. Present \in SUBSET (0..MaxRow)
      BY <1>1 DEF Present, Rows
    <3>2. Max(Present) \in Present
      BY <1>1, <2>2, <3>1, MaxGreatest
    <3> QED
      BY <2>2, <3>1, <3>2 DEF DataMax, Watermark
  <2> QED
    BY <2>1, <2>2
<1>3. \A a, b \in Watermark : a # None => wm_pick(a, b) \in Watermark
  <2> SUFFICES ASSUME NEW a \in Watermark, NEW b \in Watermark, a # None, b # None
               PROVE  Max({a, b}) \in Watermark
    BY DEF wm_pick
  <2>1. {a, b} \in SUBSET (0..MaxRow) /\ {a, b} # {}
    BY DEF Watermark
  <2>2. Max({a, b}) \in {a, b}
    BY <1>1, <2>1, MaxGreatest
  <2> QED
    BY <2>1, <2>2 DEF Watermark
<1>4. None \in Watermark
  BY DEF Watermark
<1> HIDE DEF DataMax
<1>5. \A a, b \in Watermark : \A sib \in BOOLEAN :
         /\ Authoritative(a, b, sib) \in Watermark \cup {Refused}
         /\ Greatest(a, b, sib) \in Watermark \cup {Refused}
  BY <1>3 DEF Authoritative, Greatest
<1>6. Siblings(s) \in BOOLEAN /\ (state[s] = None /\ Siblings(s)) \in BOOLEAN
  BY DEF Siblings
<1>7. exists \in BOOLEAN /\ kind \in {"pg", "my", "ch", "bq", "ice"}
  BY DEF CursorConstants, CursorTypeOK, kind
<1>8. /\ PgDestState(s) \in Watermark \cup {Refused}
      /\ MyDestState(s) \in Watermark \cup {Refused}
      /\ ChDestState(s) \in Watermark \cup {Refused}
      /\ IceDestState(s) \in Watermark \cup {Refused}
  BY <1>1, <1>2, <1>4, <1>5, <1>6 DEF PgDestState, MyDestState, ChDestState, IceDestState
<1>9. BqDestState(s) \in Watermark \cup {Refused}
  BY <1>1, <1>2, <1>3, <1>4, <1>6 DEF BqDestState
<1> QED
  BY <1>4, <1>7, <1>8, <1>9 DEF DestState

\* The rows that are there.
LEMMA PresentRows ==
    ASSUME CursorConstants, NEW top, TopFits(top)
    PROVE  /\ \A s \in Sources, i \in Rows : dest[s][i] = IF i <= top[s] THEN 1 ELSE 0
           /\ \A s \in Sources : top[s] \in 0..MaxRow
           /\ Present = {i \in Rows : \E s \in Sources : i <= top[s]}
           /\ \A s \in Sources : top[s] > 0 => 1 \in Present /\ top[s] \in Present
<1>1. /\ \A s \in Sources, i \in Rows : dest[s][i] = IF i <= top[s] THEN 1 ELSE 0
      /\ \A s \in Sources : top[s] \in 0..MaxRow
      /\ MaxRow \in Nat
  BY DEF TopFits, Prefixes, CursorConstants
<1>2. Present = {i \in Rows : \E s \in Sources : i <= top[s]}
  BY <1>1 DEF Present
<1>3. \A s \in Sources : top[s] > 0 => 1 \in Present /\ top[s] \in Present
  BY <1>1, <1>2 DEF Rows
<1> QED
  BY <1>1, <1>2, <1>3

\* With one source the data say how far it got.
LEMMA AloneData ==
    ASSUME CursorConstants, Shape, NEW top, TopFits(top), NEW s \in Sources, setup.feeds = {s}
    PROVE  /\ ~Siblings(s)
           /\ Empty <=> top[s] = 0
           /\ DataMax = IF top[s] = 0 THEN None ELSE top[s]
<1>1. \A t \in Sources \ {s} : state[t] = None /\ top[t] = 0
  <2> TAKE t \in Sources \ {s}
  <2>1. state[t] = None /\ dest[t] = [i \in Rows |-> 0]
    BY DEF Shape
  <2>2. ~(top[t] > 0)
    BY <2>1, PresentRows DEF Present
  <2> QED
    BY <2>1, <2>2, PresentRows
<1>2. MaxRow \in Nat /\ top[s] \in 0..MaxRow
  BY PresentRows DEF CursorConstants
<1>3. Present = 1..top[s]
  <2>1. Present = {i \in Rows : i <= top[s]}
    BY <1>1, PresentRows DEF Rows
  <2> QED
    BY <1>2, <2>1 DEF Rows
<1>4. ~Siblings(s)
  BY <1>1 DEF Siblings
<1>5. Empty <=> top[s] = 0
  BY <1>2, <1>3 DEF Empty
<1>6. DataMax = IF top[s] = 0 THEN None ELSE top[s]
  <2>1. CASE top[s] = 0
    BY <1>2, <1>3, <2>1 DEF DataMax
  <2>2. CASE top[s] # 0
    <3>1. /\ Present \in SUBSET (0..MaxRow) /\ top[s] \in Present
          /\ \A x \in Present : x <= top[s]
      BY <1>2, <1>3, <2>2
    <3>2. Max(Present) = top[s]
      BY <1>2, <3>1, MaxIs
    <3> QED
      BY <2>2, <3>1, <3>2 DEF DataMax
  <2> QED
    BY <2>1, <2>2
<1> QED
  BY <1>4, <1>5, <1>6

\* A watermark that is resolved is where the source stands.
LEMMA ResolvesTop ==
    ASSUME CursorConstants, Shape, Arbitrated, NEW top, TopFits(top), NEW s \in setup.feeds,
           DestState(s) # Refused
    PROVE  DestState(s) = top[s] \/ (DestState(s) = None /\ top[s] = 0)
<1>1. /\ s \in Sources /\ top[s] \in 0..MaxRow /\ MaxRow \in Nat /\ state[s] \in Watermark
      /\ None \notin Int /\ StateFits(s, top[s]) /\ exists \in BOOLEAN
      /\ kind \in {"pg", "my", "ch", "bq", "ice"}
  BY PresentRows DEF Shape, CursorTypeOK, CursorConstants, TopFits, kind
<1>2. CASE ~exists
  <2>1. DestState(s) = None
    BY <1>2 DEF DestState
  <2>2. dest = NoRows
    BY <1>2 DEF Shape
  <2>3. ~(top[s] > 0)
    BY <1>1, <2>2, PresentRows DEF NoRows, Present
  <2> QED
    BY <1>1, <2>1, <2>3
<1>3. CASE exists /\ setup.feeds = {s}
  <2>1. /\ ~Siblings(s)
        /\ Empty <=> top[s] = 0
        /\ DataMax = IF top[s] = 0 THEN None ELSE top[s]
    BY <1>1, <1>3, AloneData
  <2>2. \A a \in 0..top[s] : Max({a, top[s]}) = top[s]
    <3> TAKE a \in 0..top[s]
    <3>1. {a, top[s]} \in SUBSET (0..MaxRow) /\ \A x \in {a, top[s]} : x <= top[s]
      BY <1>1
    <3> QED
      BY <1>1, <3>1, MaxIs
  <2>3. CASE top[s] = 0
    <3>1. kind # "ice" => DestState(s) = None
      BY <1>1, <1>3, <2>1, <2>3 DEF DestState, PgDestState, MyDestState, ChDestState, BqDestState
    <3>2. kind = "ice" => state[s] \in {None, 0}
      BY <1>1, <2>3 DEF StateFits
    <3>3. kind = "ice" => DestState(s) \in {None, 0}
      BY <1>3, <2>1, <2>3, <3>2 DEF DestState, IceDestState, Authoritative
    <3> QED
      BY <2>3, <3>1, <3>3
  <2>4. CASE top[s] # 0
    <3>1. /\ state[s] = top[s] \/ state[s] = None
             \/ (kind \in {"my", "ch", "bq"} /\ state[s] < top[s])
      BY <1>1, <2>4 DEF StateFits
    <3>2. state[s] # None => state[s] \in Nat
      BY <1>1 DEF Watermark
    <3>3. kind \in {"my", "ch", "bq"} /\ state[s] # None => state[s] \in 0..top[s]
      BY <1>1, <3>1, <3>2
    <3>4. CASE kind \in {"pg", "ice"}
      BY <1>3, <2>1, <2>4, <3>1, <3>4
         DEF DestState, PgDestState, IceDestState, Authoritative
    <3>5. CASE kind \in {"my", "ch", "bq"}
      BY <1>1, <1>3, <2>1, <2>2, <2>4, <3>3, <3>5
         DEF DestState, MyDestState, ChDestState, BqDestState, Greatest, wm_pick
    <3> QED
      BY <1>1, <3>4, <3>5
  <2> QED
    BY <2>3, <2>4
<1>4. CASE exists /\ setup.feeds # {s}
  <2>1. kind \in {"pg", "ice"} /\ ~OneFeed
    BY <1>4 DEF Arbitrated, OneFeed
  <2>2. \A t \in Sources : IF top[t] = 0 THEN state[t] \in {None, 0} ELSE state[t] = top[t]
    BY <2>1 DEF TopFits, StateFits
  <2>3. CASE state[s] # None
    <3>1. state[s] = top[s]
      BY <1>1, <2>2, <2>3
    <3>2. kind = "pg" => IF Empty THEN DestState(s) = None ELSE DestState(s) = top[s]
      BY <1>4, <2>3, <3>1 DEF DestState, PgDestState, Authoritative
    <3>3. Empty => top[s] = 0
      BY <1>1, PresentRows DEF Empty
    <3>4. kind = "ice" => DestState(s) = top[s]
      BY <1>4, <2>3, <3>1 DEF DestState, IceDestState, Authoritative
    <3> QED
      BY <2>1, <3>2, <3>3, <3>4
  <2>4. CASE state[s] = None
    <3>1. top[s] = 0
      BY <1>1, <2>2, <2>4
    <3>2. CASE Empty
      <4>1. DataMax = None
        BY <3>2 DEF Empty, DataMax
      <4> QED
        BY <1>4, <2>1, <2>4, <3>1, <3>2, <4>1
           DEF DestState, PgDestState, IceDestState, Authoritative
    <3>3. CASE ~Empty
      <4>1. PICK t \in Sources : top[t] > 0
        BY <3>3, PresentRows DEF Empty, Rows
      <4>2. Siblings(s)
        BY <1>1, <2>2, <2>4, <3>1, <4>1, PresentRows DEF Siblings
      <4> QED
        BY <1>4, <2>1, <2>4, <3>3, <4>2
           DEF DestState, PgDestState, IceDestState, Authoritative
    <3> QED
      BY <3>2, <3>3
  <2> QED
    BY <2>3, <2>4
<1> QED
  BY <1>1, <1>2, <1>3, <1>4

-----------------------------------------------------------------------------
(* Every setup: types, exclusion, what a run's fields say.                 *)

\* The statements of a publication, whatever the engine.
Publishes(r) ==
  /\ run[r].pc = "staged" /\ kind \in {"pg", "my", "ice"} /\ ~LostFirstRun(r)
  /\ Whole(r, IF run[r].land = "append" THEN Kept(r) ELSE Alone(r))
Lands(r) ==
  /\ run[r].pc = "staged" /\ kind \in {"my", "ch", "bq"} /\ (kind # "bq" => ~LostFirstRun(r))
  /\ \E pc \in {"landed", "cleared"} : RowsOnly(r, pc)
Forgotten(r) == [state EXCEPT ![run[r].src] = None]
ClearsState(r) ==
  /\ run[r].pc = "landed"
  /\ state' \in {NoState, Forgotten(r)}
  /\ run' = [run EXCEPT ![r].pc = "cleared"]
  /\ UNCHANGED <<setup, source, exists, dest, claimed, budget>>
WritesState(r) ==
  /\ run[r].pc = "cleared"
  /\ StateOnly(r, Kept(r)) \/ StateOnly(r, Alone(r))

LEMMA StepForms ==
    ASSUME NEW r \in Runs, Step(r)
    PROVE  \/ Announce(r) \/ CheckPeers(r) \/ ReRead(r) \/ Load(r) \/ Refuse(r)
           \/ Publishes(r) \/ Lands(r) \/ ClearsState(r) \/ WritesState(r)
<1>1. CASE Announce(r) \/ CheckPeers(r) \/ ReRead(r) \/ Load(r) \/ Refuse(r)
  BY <1>1
<1>2. CASE PgReplace(r) \/ PgAppend(r) \/ MyAppend(r) \/ IceCommit(r)
  BY <1>2 DEF PgReplace, PgAppend, MyAppend, IceCommit, Publishes, LostFirstRun, Flipped
<1>3. CASE MyRename(r) \/ ChAttach(r) \/ ChExchange(r) \/ BqCopy(r)
  BY <1>3 DEF MyRename, ChAttach, ChExchange, BqCopy, Lands, LostFirstRun, Flipped
<1>4. CASE MyClear(r) \/ ChClear(r)
  BY <1>4 DEF MyClear, ChClear, ClearsState, Forgotten
<1>5. CASE MyState(r) \/ ChState(r) \/ BqBarrier(r) \/ BqState(r)
  BY <1>5 DEF MyState, ChState, BqBarrier, BqState, WritesState
<1> QED
  BY <1>1, <1>2, <1>3, <1>4, <1>5 DEF Step

\* A run that was past its checks stays what it was, or steps back.
LEMMA ExclusiveKept ==
    ASSUME Exclusive, NEW r \in Runs, run \in [Runs -> RunRec], NEW rec \in RunRec,
           run' = [run EXCEPT ![r] = rec],
           rec.pc \notin {"checked", "load", "staged", "landed", "cleared"}
             \/ (Past(r) /\ rec.src = run[r].src /\ rec.kindOf = run[r].kindOf)
    PROVE  Exclusive'
<1>1. \A p \in Runs \ {r} : run'[p] = run[p]
  OBVIOUS
<1>2. run'[r] = rec
  OBVIOUS
<1> SUFFICES ASSUME NEW p \in Runs, NEW q \in Runs, p # q, Past(p)', Past(q)'
             PROVE  ~peer_blocks(p, q)'
  BY DEF Exclusive
<1>3. \A o \in {p, q} : Past(o) /\ run'[o].src = run[o].src /\ run'[o].kindOf = run[o].kindOf
  BY <1>1, <1>2 DEF Past
<1> QED
  BY <1>3 DEF Exclusive, peer_blocks

\* What a step of one run, or of the world around it, has to show.
LEMMA ShapeKept ==
    ASSUME CursorConstants, Shape, setup' = setup,
           source' \in [Sources -> 0..MaxRow], exists' \in BOOLEAN,
           dest' \in [Sources -> [Rows -> Nat]], state' \in [Sources -> Watermark],
           claimed' \in [Sources -> 0..MaxRow],
           budget' \in [starts : Nat, deaths : Nat, truncates : Nat, seeds : Nat],
           budget'.truncates <= budget.truncates,
           exists => exists', ~exists' => dest' = NoRows /\ state' = NoState,
           \A s \in Sources \ setup.feeds : dest'[s] = [i \in Rows |-> 0] /\ state'[s] = None,
           NEW r \in Runs, NEW rec \in RunRec, run' = [run EXCEPT ![r] = rec], RunShape(r)',
           Exclusive'
    PROVE  Shape'
<1>1. CursorTypeOK' /\ budget'.truncates <= setup'.truncates
  <2>1. run' \in [Runs -> RunRec]
    BY DEF Shape, CursorTypeOK
  <2>2. budget.truncates \in Nat /\ budget'.truncates \in Nat
    BY DEF Shape, CursorTypeOK
  <2>3. budget.truncates <= setup.truncates /\ setup \in Setups /\ setup.truncates \in Nat
    BY DEF Shape, CursorTypeOK, CursorConstants
  <2>4. budget'.truncates <= setup'.truncates
    BY <2>2, <2>3
  <2>5. CursorTypeOK'
    BY <2>1, <2>3 DEF CursorTypeOK
  <2> QED
    BY <2>4, <2>5
<1>2. ASSUME NEW p \in Runs, p # r
      PROVE  RunShape(p)'
  <2>1. run'[p] = run[p]
    BY <1>2 DEF Shape, CursorTypeOK
  <2> QED
    BY <2>1 DEF Shape, RunShape, kind
<1> QED
  BY <1>1, <1>2 DEF Shape, NoRows, NoState, Rows

\* A run that takes its next step keeps what else it is.
PCs == {"announced", "checked", "load", "staged", "landed", "cleared"}
SetsPc(r, pc) == run' = [run EXCEPT ![r].pc = pc]
Moved(r, pc, rec) ==
  /\ run' = [run EXCEPT ![r] = rec] /\ run'[r] = rec
  /\ rec.pc = pc /\ rec.src = run[r].src /\ rec.kindOf = run[r].kindOf
  /\ rec.land = run[r].land /\ rec.wm = run[r].wm /\ rec.staged = run[r].staged

LEMMA MovesOn ==
    ASSUME NEW r \in Runs, run \in [Runs -> RunRec], NEW pc \in PCs, SetsPc(r, pc)
    PROVE  \E rec \in RunRec : Moved(r, pc, rec)
<1> DEFINE rec == [run[r] EXCEPT !.pc = pc]
<1>1. run' = [run EXCEPT ![r] = rec]
  BY DEF SetsPc
<1>2. /\ rec \in RunRec
      /\ rec.pc = pc /\ rec.src = run[r].src /\ rec.kindOf = run[r].kindOf
      /\ rec.land = run[r].land /\ rec.wm = run[r].wm /\ rec.staged = run[r].staged
  BY DEF RunRec, PCs
<1> HIDE DEF rec
<1>3. run'[r] = rec
  BY <1>1
<1> QED
  BY <1>1, <1>2, <1>3 DEF Moved

\* It excludes and is excluded as before.
LEMMA MovesExclusive ==
    ASSUME Exclusive, NEW r \in Runs, run \in [Runs -> RunRec], NEW pc \in PCs, SetsPc(r, pc),
           pc = "announced" \/ Past(r)
    PROVE  Exclusive'
<1>1. PICK rec \in RunRec : Moved(r, pc, rec)
  BY MovesOn
<1> QED
  BY <1>1, ExclusiveKept DEF Moved

\* The types of what a step leaves alone.
LEMMA Types ==
    ASSUME CursorConstants, Shape
    PROVE  /\ setup \in Setups /\ source \in [Sources -> 0..MaxRow] /\ exists \in BOOLEAN
           /\ dest \in [Sources -> [Rows -> Nat]] /\ state \in [Sources -> Watermark]
           /\ run \in [Runs -> RunRec] /\ claimed \in [Sources -> 0..MaxRow]
           /\ budget \in [starts : Nat, deaths : Nat, truncates : Nat, seeds : Nat]
           /\ budget.truncates <= budget.truncates
           /\ setup.feeds \subseteq Sources /\ MaxRow \in Nat
           /\ kind \in {"pg", "my", "ch", "bq", "ice"}
           /\ None \in Watermark /\ 0 \in Watermark
           /\ Idle \in RunRec /\ Idle.pc = "idle"
           /\ ~exists => dest = NoRows /\ state = NoState
           /\ \A s \in Sources \ setup.feeds : dest[s] = [i \in Rows |-> 0] /\ state[s] = None
BY DEF Shape, CursorTypeOK, CursorConstants, kind, Watermark, Idle, RunRec

\* A run that ends leaves the shape as it was.
LEMMA EndsShape ==
    ASSUME CursorConstants, Shape, NEW r \in Runs, Ended(r)
    PROVE  /\ run' = [run EXCEPT ![r] = Idle] /\ Idle \in RunRec
           /\ RunShape(r)' /\ Exclusive'
<1>1. run' = [run EXCEPT ![r] = Idle] /\ Idle \in RunRec /\ run \in [Runs -> RunRec]
      /\ Idle.pc = "idle"
  BY Types DEF Ended
<1>2. run'[r] = Idle
  BY <1>1
<1>3. RunShape(r)'
  BY <1>1, <1>2 DEF RunShape
<1>4. Exclusive
  BY DEF Shape
<1>5. Exclusive'
  BY <1>1, <1>4, ExclusiveKept
<1> QED
  BY <1>1, <1>3, <1>5

LEMMA StartShape ==
    ASSUME CursorConstants, Shape, NEW r \in Runs, NEW s \in setup.feeds, NEW m \in setup.modes,
           Start(r, s, m)
    PROVE  Shape'
<1> DEFINE rec == [pc |-> "read", src |-> s,
        kindOf |-> IF m = "replace" THEN "Swap" ELSE "Incremental",
        land |-> IF m = "replace" \/ ~exists THEN "replace" ELSE "append",
        wm |-> IF m = "replace" THEN None ELSE DestState(s),
        staged |-> {}]
<1>1. run' = [run EXCEPT ![r] = rec]
  BY DEF Start
<1>2. m \in {"append", "replace"} /\ s \in Sources
  BY Types DEF CursorConstants
<1>3. DestState(s) \in Watermark \cup {Refused}
  BY <1>2, Resolves DEF Shape
<1>4. m # "replace" => DestState(s) \in Watermark
  BY <1>2, <1>3 DEF Start
<1>5. rec.wm \in Watermark /\ (m = "replace" => rec.wm = None) /\ (~exists => rec.wm = None)
  BY <1>4, Types DEF DestState
<1>6. rec \in RunRec
  <2>1. rec.wm \in Watermark
    BY <1>5
  <2> QED
    BY <1>2, <2>1 DEF RunRec
<1>7. /\ rec.pc = "read" /\ rec.src = s /\ rec.kindOf \in {"Swap", "Incremental"}
      /\ rec.land \in {"replace", "append"} /\ (rec.kindOf = "Swap" => m = "replace")
      /\ (m = "replace" => rec.land = "replace")
      /\ (rec.land = "replace" => rec.wm = None)
  BY <1>2, <1>5
<1> HIDE DEF rec
<1>8. run'[r] = rec /\ setup' = setup
  BY <1>1, Types DEF Start
<1>9. RunShape(r)'
  BY <1>2, <1>7, <1>8 DEF RunShape
<1>10. Exclusive'
  <2>1. Exclusive /\ run \in [Runs -> RunRec]
    BY Types DEF Shape
  <2> QED
    BY <1>1, <1>6, <1>7, <2>1, ExclusiveKept
<1>11. /\ setup' = setup /\ source' = source /\ exists' = exists /\ dest' = dest
       /\ state' = state /\ claimed' = claimed
       /\ budget' \in [starts : Nat, deaths : Nat, truncates : Nat, seeds : Nat]
       /\ budget'.truncates = budget.truncates
  BY Types DEF Start
<1>12. budget'.truncates <= budget.truncates
  BY <1>11, Types
<1> QED
  BY <1>1, <1>6, <1>9, <1>10, <1>11, <1>12, Types, ShapeKept

\* The steps that move one run and touch nothing else but exists and claimed.
LEMMA EarlyShape ==
    ASSUME CursorConstants, Shape, NEW r \in Runs,
           Announce(r) \/ CheckPeers(r) \/ ReRead(r) \/ Refuse(r)
    PROVE  Shape'
<1>1. run[r] \in RunRec /\ run \in [Runs -> RunRec]
  BY Types
<1>2. /\ setup' = setup /\ source' = source /\ exists' \in BOOLEAN /\ (exists => exists')
      /\ dest' = dest /\ state' = state /\ claimed' = claimed /\ budget' = budget
  <2>1. exists \in BOOLEAN
    BY Types
  <2>2. (exists \/ kind = "ice") \in BOOLEAN
    OBVIOUS
  <2>3. CASE Announce(r)
    BY <2>2, <2>3 DEF Announce
  <2>4. CASE CheckPeers(r) \/ ReRead(r) \/ Refuse(r)
    BY <2>1, <2>4 DEF CheckPeers, ReRead, Refuse
  <2> QED
    BY <2>3, <2>4
<1>3. ~exists' => dest' = NoRows /\ state' = NoState
  BY <1>2, Types
<1>4. ASSUME Ended(r)
      PROVE  Shape'
  BY <1>2, <1>3, <1>4, EndsShape, Types, ShapeKept
<1>5. ASSUME NEW pc \in {"announced", "checked", "load"}, SetsPc(r, pc),
             run[r].pc # "idle", Exclusive'
      PROVE  Shape'
  <2>1. PICK rec \in RunRec : Moved(r, pc, rec)
    BY <1>1, <1>5, MovesOn DEF PCs
  <2>2. RunShape(r)
    BY DEF Shape
  <2>3. RunShape(r)'
    BY <1>2, <1>5, <2>1, <2>2 DEF RunShape, Moved
  <2>4. run' = [run EXCEPT ![r] = rec]
    BY <2>1 DEF Moved
  <2> QED
    BY <1>2, <1>3, <1>5, <2>3, <2>4, Types, ShapeKept
<1>7. Exclusive
  BY DEF Shape
<1>8. CASE Announce(r)
  <2>1. SetsPc(r, "announced") /\ run[r].pc # "idle"
    BY <1>8 DEF Announce, SetsPc
  <2>2. Exclusive'
    BY <1>1, <1>7, <2>1, MovesExclusive DEF PCs
  <2> QED
    BY <1>5, <2>1, <2>2
<1>9. CASE ReRead(r)
  <2>1. CASE Ended(r)
    BY <1>4, <2>1
  <2>2. CASE SetsPc(r, "load")
    <3>1. Past(r) /\ run[r].pc # "idle"
      BY <1>9 DEF ReRead, Past
    <3>2. Exclusive'
      BY <1>1, <1>7, <2>2, <3>1, MovesExclusive DEF PCs
    <3> QED
      BY <1>5, <2>2, <3>1, <3>2
  <2> QED
    BY <1>9, <2>1, <2>2 DEF ReRead, SetsPc
<1>10. CASE CheckPeers(r)
  <2>1. CASE Ended(r)
    BY <1>4, <2>1
  <2>2. CASE ~Ended(r)
    <3>1. /\ SetsPc(r, "checked") /\ run[r].pc # "idle"
          /\ \A p \in Runs \ {r} : Announced(p) => ~peer_blocks(p, r)
      BY <1>10, <2>2 DEF CheckPeers, SetsPc
    <3>2. PICK rec \in RunRec : Moved(r, "checked", rec)
      BY <1>1, <3>1, MovesOn DEF PCs
    <3>3. run'[r].src = run[r].src /\ run'[r].kindOf = run[r].kindOf
      BY <3>2 DEF Moved
    <3>4. \A p \in Runs \ {r} : run'[p] = run[p] /\ (Past(p)' => Announced(p) /\ Past(p))
      BY <1>1, <3>2 DEF Past, Announced, Moved
    <3>5. \A p \in Runs \ {r} : Past(p)' => ~peer_blocks(p, r)' /\ ~peer_blocks(r, p)'
      BY <3>1, <3>3, <3>4 DEF peer_blocks
    <3>6. ASSUME NEW p \in Runs, NEW q \in Runs, p # q, Past(p)', Past(q)'
          PROVE  ~peer_blocks(p, q)'
      <4>1. CASE p = r \/ q = r
        BY <3>5, <3>6, <4>1
      <4>2. CASE p # r /\ q # r
        BY <1>7, <3>4, <3>6, <4>2 DEF Exclusive, peer_blocks
      <4> QED
        BY <4>1, <4>2
    <3>7. Exclusive'
      BY <3>6 DEF Exclusive
    <3> QED
      BY <1>5, <3>1, <3>7
  <2> QED
    BY <2>1, <2>2
<1>11. CASE Refuse(r)
  BY <1>4, <1>11 DEF Refuse
<1> QED
  BY <1>8, <1>9, <1>10, <1>11

\* What a run that publishes writes.
LEMMA Writes ==
    ASSUME CursorConstants, Shape, NEW r \in Runs, run[r].pc \in {"staged", "landed", "cleared"}
    PROVE  /\ run[r].src \in setup.feeds /\ run[r].src \in Sources
           /\ run[r].staged \subseteq Rows /\ run[r].staged # {}
           /\ Max(run[r].staged) \in run[r].staged /\ Max(run[r].staged) \in 1..MaxRow
           /\ \A x \in run[r].staged : x <= Max(run[r].staged)
           /\ Landed(r) \in [Sources -> [Rows -> Nat]]
           /\ \A s \in Sources \ setup.feeds : Landed(r)[s] = [i \in Rows |-> 0]
           /\ Vouched(r) \in [Sources -> 0..MaxRow]
           /\ Own(r) \in Watermark
           /\ \A new \in {Kept(r), Alone(r), NoState, Forgotten(r)} :
                 /\ new \in [Sources -> Watermark]
                 /\ \A s \in Sources \ setup.feeds : new[s] = None
<1>1. run[r] \in RunRec /\ RunShape(r)
  BY Types DEF Shape
<1>2. /\ run[r].src \in setup.feeds /\ run[r].src \in Sources
      /\ run[r].staged \subseteq Rows /\ run[r].staged # {}
  BY <1>1, Types DEF RunShape, RunRec
<1>3. MaxRow \in Nat /\ run[r].staged \in SUBSET (0..MaxRow)
  BY <1>2, Types DEF Rows
<1> DEFINE m == Max(run[r].staged)
<1>4. m \in run[r].staged /\ \A x \in run[r].staged : x <= m
  BY <1>2, <1>3, MaxGreatest
<1>5. m \in 1..MaxRow
  BY <1>2, <1>4 DEF Rows
<1> HIDE DEF m
<1>6. 1..MaxRow \subseteq 0..MaxRow /\ 0 \in 0..MaxRow
  BY <1>3
<1>7. Own(r) \in Watermark
  BY <1>5, <1>6 DEF Own, Watermark, m
<1>8. \A s \in Sources, i \in Rows : dest[s][i] \in Nat
  BY Types
<1>9. Landed(r) \in [Sources -> [Rows -> Nat]]
  <2>1. \A s \in Sources, i \in Rows : 
           (IF run[r].land = "append" THEN dest[s][i] ELSE 0)
             + (IF s = run[r].src /\ i \in run[r].staged THEN 1 ELSE 0) \in Nat
    BY <1>8
  <2> QED
    BY <2>1 DEF Landed
<1>10. \A s \in Sources \ setup.feeds : Landed(r)[s] = [i \in Rows |-> 0]
  <2> TAKE s \in Sources \ setup.feeds
  <2>1. s # run[r].src /\ dest[s] = [i \in Rows |-> 0]
    BY <1>2, Types
  <2>2. \A i \in Rows : dest[s][i] = 0
    BY <2>1
  <2>3. Landed(r)[s] = [i \in Rows |-> (IF run[r].land = "append" THEN dest[s][i] ELSE 0)
             + (IF s = run[r].src /\ i \in run[r].staged THEN 1 ELSE 0)]
    BY DEF Landed
  <2>4. \A i \in Rows : (IF run[r].land = "append" THEN dest[s][i] ELSE 0)
             + (IF s = run[r].src /\ i \in run[r].staged THEN 1 ELSE 0) = 0
    BY <2>1, <2>2
  <2> QED
    BY <2>3, <2>4
<1>11. Vouched(r) \in [Sources -> 0..MaxRow]
  <2>1. claimed \in [Sources -> 0..MaxRow] /\ m \in 0..MaxRow
    BY <1>5, <1>6, Types
  <2> QED
    BY <1>6, <2>1 DEF Vouched, m
<1>12. /\ Kept(r) \in [Sources -> Watermark] /\ Alone(r) \in [Sources -> Watermark]
       /\ NoState \in [Sources -> Watermark]
       /\ Forgotten(r) \in [Sources -> Watermark]
  BY <1>7, Types DEF Kept, Alone, NoState, Forgotten
<1>13. ASSUME NEW s \in Sources \ setup.feeds
       PROVE  /\ Kept(r)[s] = None /\ Alone(r)[s] = None /\ NoState[s] = None
              /\ Forgotten(r)[s] = None
  <2>1. s # run[r].src /\ state[s] = None /\ s \in Sources /\ state \in [Sources -> Watermark]
    BY <1>2, Types
  <2> QED
    BY <2>1 DEF Kept, Alone, NoState, Forgotten
<1> QED
  BY <1>2, <1>4, <1>5, <1>7, <1>9, <1>10, <1>11, <1>12, <1>13 DEF m

LEMMA PublishesShape ==
    ASSUME CursorConstants, Shape, NEW r \in Runs, Publishes(r)
    PROVE  Shape'
<1>1. /\ run[r].pc = "staged" /\ exists' = TRUE /\ dest' = Landed(r) /\ claimed' = Vouched(r)
      /\ state' \in {Kept(r), Alone(r)} /\ Ended(r)
      /\ setup' = setup /\ source' = source /\ budget' = budget
  BY DEF Publishes, Whole
<1>2. /\ dest' \in [Sources -> [Rows -> Nat]] /\ state' \in [Sources -> Watermark]
      /\ claimed' \in [Sources -> 0..MaxRow]
      /\ \A s \in Sources \ setup.feeds : dest'[s] = [i \in Rows |-> 0] /\ state'[s] = None
  BY <1>1, Writes
<1> QED
  BY <1>1, <1>2, EndsShape, Types, ShapeKept

\* A run keeps its shape when it takes its next step.
LEMMA MovesShape ==
    ASSUME CursorConstants, Shape, NEW r \in Runs, NEW pc \in {"landed", "cleared"},
           SetsPc(r, pc), run[r].pc \in {"staged", "landed"}, exists', setup' = setup,
           kind \in {"my", "ch", "bq"}
    PROVE  /\ \E rec \in RunRec : Moved(r, pc, rec)
           /\ RunShape(r)' /\ Exclusive'
<1>1. run \in [Runs -> RunRec] /\ RunShape(r) /\ Exclusive /\ Past(r)
  BY Types DEF Shape, Past
<1>2. PICK rec \in RunRec : Moved(r, pc, rec)
  BY <1>1, MovesOn DEF PCs
<1>3. Exclusive'
  BY <1>1, MovesExclusive DEF PCs
<1>4. kind' = kind
  BY DEF kind
<1>5. RunShape(r)'
  BY <1>1, <1>2, <1>4 DEF RunShape, Moved
<1> QED
  BY <1>2, <1>3, <1>5

LEMMA LandsShape ==
    ASSUME CursorConstants, Shape, NEW r \in Runs, Lands(r)
    PROVE  Shape'
<1>1. PICK pc \in {"landed", "cleared"} :
        /\ SetsPc(r, pc) /\ run[r].pc = "staged" /\ kind \in {"my", "ch", "bq"}
        /\ exists' = TRUE /\ dest' = Landed(r) /\ claimed' = claimed /\ state' = state
        /\ setup' = setup /\ source' = source /\ budget' = budget
  BY DEF Lands, RowsOnly, SetsPc
<1>2. /\ dest' \in [Sources -> [Rows -> Nat]]
      /\ \A s \in Sources \ setup.feeds : dest'[s] = [i \in Rows |-> 0] /\ state'[s] = None
  BY <1>1, Writes, Types
<1>3. /\ RunShape(r)' /\ Exclusive'
      /\ \E rec \in RunRec : Moved(r, pc, rec)
  BY <1>1, MovesShape
<1>4. PICK rec \in RunRec : run' = [run EXCEPT ![r] = rec]
  BY <1>3 DEF Moved
<1> QED
  BY <1>1, <1>2, <1>3, <1>4, Types, ShapeKept

LEMMA ClearsShape ==
    ASSUME CursorConstants, Shape, NEW r \in Runs, ClearsState(r)
    PROVE  Shape'
<1>1. /\ SetsPc(r, "cleared") /\ run[r].pc = "landed"
      /\ state' \in {NoState, Forgotten(r)}
      /\ exists' = exists /\ dest' = dest /\ claimed' = claimed
      /\ setup' = setup /\ source' = source /\ budget' = budget
  BY DEF ClearsState, SetsPc
<1>2. exists /\ kind \in {"my", "ch", "bq"}
  BY <1>1 DEF Shape, RunShape
<1>3. /\ state' \in [Sources -> Watermark]
      /\ \A s \in Sources \ setup.feeds : dest'[s] = [i \in Rows |-> 0] /\ state'[s] = None
  BY <1>1, Writes, Types
<1>4. /\ RunShape(r)' /\ Exclusive'
      /\ \E rec \in RunRec : Moved(r, "cleared", rec)
  BY <1>1, <1>2, MovesShape
<1>5. PICK rec \in RunRec : run' = [run EXCEPT ![r] = rec]
  BY <1>4 DEF Moved
<1> QED
  BY <1>1, <1>2, <1>3, <1>4, <1>5, Types, ShapeKept

LEMMA StatesShape ==
    ASSUME CursorConstants, Shape, NEW r \in Runs, WritesState(r)
    PROVE  Shape'
<1>1. /\ run[r].pc = "cleared" /\ state' \in {Kept(r), Alone(r)} /\ claimed' = Vouched(r)
      /\ Ended(r) /\ exists' = exists /\ dest' = dest
      /\ setup' = setup /\ source' = source /\ budget' = budget
  BY DEF WritesState, StateOnly
<1>2. exists
  BY <1>1 DEF Shape, RunShape
<1>3. /\ state' \in [Sources -> Watermark] /\ claimed' \in [Sources -> 0..MaxRow]
      /\ \A s \in Sources \ setup.feeds : dest'[s] = [i \in Rows |-> 0] /\ state'[s] = None
  BY <1>1, Writes, Types
<1> QED
  BY <1>1, <1>2, <1>3, EndsShape, Types, ShapeKept

LEMMA LoadShape ==
    ASSUME CursorConstants, Shape, NEW r \in Runs, Load(r)
    PROVE  Shape'
<1>1. /\ run[r].pc = "load" /\ exists' = exists /\ dest' = dest /\ state' = state
      /\ setup' = setup /\ source' = source /\ budget' = budget
  BY DEF Load
<1>2. run[r] \in RunRec /\ run \in [Runs -> RunRec] /\ RunShape(r) /\ Exclusive
  BY Types DEF Shape
<1>3. run[r].src \in Sources /\ source[run[r].src] \in 0..MaxRow
  BY <1>1, <1>2, Types DEF RunShape
<1>4. CASE Delta(r) = {}
  <2>1. Ended(r) /\ claimed' = [claimed EXCEPT ![run[r].src] =
                   IF run[r].land = "append" THEN source[run[r].src] ELSE @]
    BY <1>4 DEF Load
  <2>2. claimed \in [Sources -> 0..MaxRow]
    BY Types
  <2>3. claimed' \in [Sources -> 0..MaxRow]
    BY <1>3, <2>1, <2>2
  <2> QED
    BY <1>1, <2>1, <2>3, EndsShape, Types, ShapeKept
<1>5. CASE Delta(r) # {}
  <2> DEFINE rec == [run[r] EXCEPT !.pc = "staged", !.staged = Delta(r)]
  <2>1. run' = [run EXCEPT ![r].pc = "staged", ![r].staged = Delta(r)] /\ claimed' = claimed
    BY <1>5 DEF Load
  <2>2. Delta(r) \subseteq Rows
    BY <1>3, Types DEF Delta, Rows
  <2>3. run' = [run EXCEPT ![r] = rec]
    BY <1>2, <2>1
  <2>4. /\ rec \in RunRec /\ rec.pc = "staged" /\ rec.src = run[r].src
        /\ rec.kindOf = run[r].kindOf /\ rec.land = run[r].land /\ rec.wm = run[r].wm
        /\ rec.staged = Delta(r)
    BY <1>2, <2>2 DEF RunRec
  <2> HIDE DEF rec
  <2>5. run'[r] = rec /\ Past(r)
    BY <1>1, <1>2, <2>3 DEF Past
  <2>6. Exclusive'
    BY <1>2, <2>3, <2>4, <2>5, ExclusiveKept
  <2>7. RunShape(r)'
    BY <1>1, <1>2, <1>5, <2>4, <2>5 DEF RunShape
  <2> QED
    BY <1>1, <2>1, <2>3, <2>4, <2>6, <2>7, Types, ShapeKept
<1> QED
  BY <1>4, <1>5

LEMMA DieShape ==
    ASSUME CursorConstants, Shape, NEW r \in Runs, Die(r)
    PROVE  Shape'
<1>1. /\ Ended(r) /\ exists' = exists /\ dest' = dest /\ state' = state
      /\ claimed' = claimed /\ setup' = setup /\ source' = source
      /\ budget' = [budget EXCEPT !.deaths = @ - 1] /\ budget.deaths > 0
  BY DEF Die
<1>2. /\ budget' \in [starts : Nat, deaths : Nat, truncates : Nat, seeds : Nat]
      /\ budget'.truncates = budget.truncates
  BY <1>1, Types
<1>3. budget'.truncates <= budget.truncates
  BY <1>2, Types
<1> QED
  BY <1>1, <1>2, <1>3, EndsShape, Types, ShapeKept

\* The world around the runs.
LEMMA WorldShape ==
    ASSUME CursorConstants, Shape,
           (\E s \in setup.feeds : SourceCommits(s) \/ Seed(s)) \/ Truncate \/ UNCHANGED cursorVars
    PROVE  Shape'
<1>1. /\ setup' = setup /\ run' = run /\ exists' = exists
      /\ source' \in [Sources -> 0..MaxRow] /\ dest' \in [Sources -> [Rows -> Nat]]
      /\ state' \in [Sources -> Watermark] /\ claimed' \in [Sources -> 0..MaxRow]
      /\ budget' \in [starts : Nat, deaths : Nat, truncates : Nat, seeds : Nat]
      /\ budget'.truncates <= budget.truncates
      /\ ~exists => dest' = NoRows /\ state' = NoState
      /\ \A s \in Sources \ setup.feeds : dest'[s] = [i \in Rows |-> 0] /\ state'[s] = None
  <2>1. ASSUME NEW s \in setup.feeds, SourceCommits(s)
        PROVE  <1>1!:
    <3>1. /\ source' = [source EXCEPT ![s] = @ + 1] /\ source[s] < MaxRow
          /\ source[s] \in 0..MaxRow /\ s \in Sources /\ source \in [Sources -> 0..MaxRow]
      BY <2>1, Types DEF SourceCommits
    <3>2. source[s] + 1 \in 0..MaxRow
      BY <3>1, Types
    <3>3. source' \in [Sources -> 0..MaxRow]
      BY <3>1, <3>2
    <3> QED
      BY <2>1, <3>3, Types DEF SourceCommits
  <2>2. ASSUME NEW s \in setup.feeds, Seed(s)
        PROVE  <1>1!:
    <3>1. state' = [state EXCEPT ![s] = 0] /\ exists /\ state \in [Sources -> Watermark]
          /\ s \in Sources /\ 0 \in Watermark
      BY <2>2, Types DEF Seed
    <3>2. state' \in [Sources -> Watermark] /\ \A t \in Sources \ {s} : state'[t] = state[t]
      BY <3>1
    <3>3. \A t \in Sources \ setup.feeds : state'[t] = None
      BY <3>2, Types
    <3>4. budget' = [budget EXCEPT !.seeds = @ - 1] /\ budget.seeds > 0
      BY <2>2 DEF Seed
    <3>5. /\ budget' \in [starts : Nat, deaths : Nat, truncates : Nat, seeds : Nat]
          /\ budget'.truncates = budget.truncates
      BY <3>4, Types
    <3> QED
      BY <2>2, <3>1, <3>2, <3>3, <3>5, Types DEF Seed
  <2>3. ASSUME Truncate
        PROVE  <1>1!:
    <3>1. budget' = [budget EXCEPT !.truncates = @ - 1] /\ budget.truncates > 0
          /\ dest' = NoRows /\ claimed' = [s \in Sources |-> 0]
      BY <2>3 DEF Truncate
    <3>2. /\ budget' \in [starts : Nat, deaths : Nat, truncates : Nat, seeds : Nat]
          /\ budget'.truncates = budget.truncates - 1 /\ budget.truncates \in Nat
      BY <3>1, Types
    <3>3. /\ dest' \in [Sources -> [Rows -> Nat]] /\ claimed' \in [Sources -> 0..MaxRow]
          /\ \A s \in Sources : dest'[s] = [i \in Rows |-> 0]
      BY <3>1, Types DEF NoRows
    <3>4. budget'.truncates <= budget.truncates
      BY <3>2
    <3> QED
      BY <2>3, <3>2, <3>1, <3>3, <3>4, Types DEF Truncate
  <2>4. ASSUME UNCHANGED cursorVars
        PROVE  <1>1!:
    BY <2>4, Types DEF cursorVars
  <2> QED
    BY <2>1, <2>2, <2>3, <2>4
<1>2. \A r \in Runs : RunShape(r)'
  BY <1>1 DEF Shape, RunShape, kind
<1>3. Exclusive'
  BY <1>1 DEF Shape, Exclusive, Past, peer_blocks
<1>4. budget'.truncates <= setup'.truncates
  <2>1. setup \in Setups /\ setup.truncates \in Nat
    BY Types DEF CursorConstants
  <2> QED
    BY <1>1, <2>1 DEF Shape, CursorTypeOK
<1>5. CursorTypeOK'
  BY <1>1, Types DEF CursorTypeOK
<1> QED
  BY <1>1, <1>2, <1>3, <1>4, <1>5 DEF Shape, NoRows, NoState, Rows

LEMMA ShapeStep ==
    ASSUME CursorConstants, Shape, [CursorNext]_cursorVars
    PROVE  Shape'
<1>1. ASSUME NEW r \in Runs, Step(r)
      PROVE  Shape'
  BY <1>1, StepForms, EarlyShape, LoadShape, PublishesShape, LandsShape, ClearsShape, StatesShape
<1>2. ASSUME NEW r \in Runs, Die(r)
      PROVE  Shape'
  BY <1>2, DieShape
<1>3. ASSUME NEW r \in Runs, NEW s \in setup.feeds, NEW m \in setup.modes, Start(r, s, m)
      PROVE  Shape'
  BY <1>3, StartShape
<1> QED
  BY <1>1, <1>2, <1>3, WorldShape DEF CursorNext

LEMMA ShapeInit ==
    ASSUME CursorConstants, CursorInit
    PROVE  Shape
<1>1. /\ setup \in Setups /\ setup.truncates \in Nat /\ setup.seeds \in Nat
      /\ {MaxRow, MaxStarts, MaxDeaths} \subseteq Nat
  BY DEF CursorInit, CursorConstants
<1>2. Idle \in RunRec /\ Idle.pc = "idle" /\ None \in Watermark
  BY DEF Idle, RunRec, Watermark
<1>3. /\ budget \in [starts : Nat, deaths : Nat, truncates : Nat, seeds : Nat]
      /\ budget.truncates = setup.truncates
  BY <1>1 DEF CursorInit
<1>4. /\ dest \in [Sources -> [Rows -> Nat]] /\ \A s \in Sources : dest[s] = [i \in Rows |-> 0]
      /\ state \in [Sources -> Watermark] /\ \A s \in Sources : state[s] = None
      /\ run \in [Runs -> RunRec] /\ \A r \in Runs : run[r] = Idle
  BY <1>2 DEF CursorInit, NoRows
<1>5. claimed \in [Sources -> 0..MaxRow] /\ exists = FALSE /\ dest = NoRows /\ state = NoState
  BY <1>1 DEF CursorInit, NoState
<1>6. MaxRow > 0 => source \in [Sources -> 0..MaxRow]
  BY <1>1 DEF CursorInit
<1>7. MaxRow > 0 /\ setup.truncates <= setup.truncates
  BY <1>1 DEF CursorConstants
<1>8. CursorTypeOK
  BY <1>1, <1>3, <1>4, <1>5, <1>6, <1>7 DEF CursorTypeOK
<1>9. \A r \in Runs : RunShape(r)
  BY <1>2, <1>4 DEF RunShape
<1>10. Exclusive
  BY <1>2, <1>4 DEF Exclusive, Past
<1> QED
  BY <1>3, <1>4, <1>5, <1>7, <1>8, <1>9, <1>10 DEF Shape

-----------------------------------------------------------------------------
(* Arbitrated setups: where the sources stand.                             *)

\* The facts about a source's count, one by one.
LEMMA Fits ==
    ASSUME CursorConstants, Shape, NEW top, TopFits(top), NEW s \in Sources
    PROVE  /\ top \in [Sources -> 0..MaxRow] /\ dest = Prefixes(top)
           /\ top[s] \in 0..MaxRow /\ source[s] \in 0..MaxRow /\ claimed[s] \in 0..MaxRow
           /\ state[s] \in Watermark /\ top[s] <= source[s] /\ claimed[s] <= top[s]
           /\ state[s] # None => state[s] \in 0..MaxRow /\ state[s] <= source[s]
           /\ StateFits(s, top[s]) /\ MaxRow \in Nat /\ None \notin Int
BY Types DEF TopFits, CursorConstants, Watermark

\* Several sources go with one statement and no replace that was asked for.
LEMMA SetupForms ==
    ASSUME CursorConstants, Shape, Arbitrated
    PROVE  /\ OneFeed \/ (kind \in {"pg", "ice"} /\ "replace" \notin setup.modes)
           /\ setup.truncates > 0 => OneFeed /\ kind # "ice"
<1>1. setup.truncates \in Nat
  BY Types DEF CursorConstants
<1> QED
  BY <1>1 DEF Arbitrated, OneFeed

\* With one source no other run is past its checks, and no other source has rows.
LEMMA OnlyOne ==
    ASSUME CursorConstants, Shape, OneFeed, NEW top, TopFits(top), NEW r \in Runs, Past(r)
    PROVE  /\ run[r].src \in Sources /\ setup.feeds = {run[r].src}
           /\ \A p \in Runs \ {r} : ~Past(p)
           /\ \A s \in Sources \ {run[r].src} : top[s] = 0 /\ state[s] = None
<1>1. PICK s \in Sources : setup.feeds = {s}
  BY DEF OneFeed
<1>2. \A p \in Runs : Past(p) => run[p].src = s
  BY <1>1 DEF Shape, RunShape, Past
<1>3. \A p \in Runs \ {r} : ~Past(p)
  BY <1>2 DEF Shape, Exclusive, peer_blocks
<1>4. \A t \in Sources \ {s} : top[t] = 0 /\ state[t] = None
  <2> TAKE t \in Sources \ {s}
  <2>1. dest[t] = [i \in Rows |-> 0] /\ state[t] = None
    BY <1>1, Types
  <2>2. ~(top[t] > 0)
    BY <2>1, PresentRows DEF Present
  <2> QED
    BY <2>1, <2>2, PresentRows
<1> QED
  BY <1>1, <1>2, <1>3, <1>4

\* A run that stages lands the rows that follow, up to the last it staged.
LEMMA StagedTop ==
    ASSUME CursorConstants, Shape, Arbitrated, NEW top, TopFits(top), NEW r \in Runs,
           RunFits(r, top), run[r].pc = "staged", kind # "bq" => ~LostFirstRun(r),
           NEW s, s = run[r].src, NEW m, m = Max(run[r].staged),
           NEW new, new[s] = m, \A u \in Sources \ {s} : new[u] = top[u]
    PROVE  /\ s \in Sources /\ m \in 1..MaxRow /\ m <= source[s] /\ top[s] <= m
           /\ state[s] # None => state[s] <= m
           /\ Landed(r) = Prefixes(new)
           /\ run[r].land = "replace" => \A u \in Sources \ {s} : top[u] = 0
<1>1. /\ s \in Sources /\ m \in run[r].staged /\ m \in 1..MaxRow
      /\ run[r].staged \subseteq Rows
  BY Writes
<1>2. /\ run[r] \in RunRec /\ RunShape(r) /\ Past(r)
  BY Types DEF Shape, Past
<1>3. /\ run[r].kindOf \in {"Incremental", "Swap"} /\ run[r].land \in {"append", "replace"}
      /\ run[r].wm \in Watermark /\ (run[r].kindOf = "Swap" => run[r].land = "replace")
      /\ (run[r].land = "replace" => run[r].wm = None)
      /\ (run[r].kindOf = "Swap" => "replace" \in setup.modes)
  BY <1>2 DEF RunShape, RunRec
<1>4. /\ top \in [Sources -> 0..MaxRow] /\ top[s] \in 0..MaxRow /\ MaxRow \in Nat
      /\ source[s] \in 0..MaxRow /\ None \notin Int /\ dest = Prefixes(top)
  BY <1>1, Fits
<1>5. PICK x \in 1..source[s] :
         /\ top[s] <= x /\ run[r].staged = {i \in 1..x : run[r].wm = None \/ i > run[r].wm}
         /\ state[s] # None => state[s] <= x
  BY DEF RunFits
<1>6. run[r].kindOf = "Incremental" =>
         run[r].wm = top[s] \/ (run[r].wm = None /\ top[s] = 0)
  BY DEF RunFits
<1>7. run[r].wm = None \/ run[r].wm = top[s]
  BY <1>3, <1>6
<1>8. x \in 0..MaxRow /\ x \in Nat
  BY <1>4, <1>5
<1>9. x \in run[r].staged /\ \A i \in run[r].staged : i <= x
  <2>1. 1 <= x /\ (x > top[s] \/ x = top[s])
    BY <1>4, <1>5
  <2>2. \A i \in run[r].staged : i <= x
    BY <1>5
  <2>3. CASE run[r].wm = None
    BY <1>5, <1>8, <2>1, <2>2, <2>3
  <2>4. CASE run[r].wm = top[s] /\ run[r].wm # None
    <3>1. m \in 1..x /\ m > top[s]
      BY <1>1, <1>5, <2>4
    <3>2. x > top[s] /\ x \in 1..x
      BY <1>4, <1>8, <3>1
    <3>3. x \in run[r].staged
      BY <1>5, <2>4, <3>2
    <3> QED
      BY <2>2, <3>3
  <2> QED
    BY <1>7, <2>3, <2>4
<1>10. m = x
  <2>1. run[r].staged \in SUBSET (0..MaxRow)
    BY <1>1, <1>4 DEF Rows
  <2>2. Max(run[r].staged) = x
    BY <1>4, <1>9, <2>1, MaxIs
  <2> QED
    BY <2>2
<1>11. run[r].land = "replace" => \A u \in Sources \ {s} : top[u] = 0
  <2> SUFFICES ASSUME run[r].land = "replace", NEW u \in Sources \ {s}
               PROVE  top[u] = 0
    OBVIOUS
  <2>1. CASE OneFeed
    BY <1>2, <2>1, OnlyOne
  <2>2. CASE ~OneFeed
    <3>1. kind \in {"pg", "ice"} /\ "replace" \notin setup.modes
      BY <2>2, SetupForms
    <3>2. Flipped(r) /\ ~LostFirstRun(r)
      BY <1>3, <3>1 DEF Flipped
    <3>3. Present = {}
      <4>1. CASE kind = "ice"
        BY <3>2, <4>1 DEF LostFirstRun, Empty
      <4>2. CASE kind = "pg"
        <5>1. ~exists
          BY <3>2, <4>2 DEF LostFirstRun
        <5>2. dest = NoRows
          BY <5>1, Types
        <5> QED
          BY <5>2 DEF Present, NoRows
      <4> QED
        BY <3>1, <4>1, <4>2
    <3>4. top[u] \in 0..MaxRow /\ ~(top[u] > 0)
      BY <3>3, PresentRows
    <3> QED
      BY <3>4
  <2> QED
    BY <2>1, <2>2
<1>12. Landed(r) = Prefixes(new)
  <2>1. new[s] = m /\ \A u \in Sources \ {s} : new[u] = top[u]
    OBVIOUS
  <2>2. ASSUME NEW u \in Sources, NEW i \in Rows
        PROVE  (IF run[r].land = "append" THEN dest[u][i] ELSE 0)
                 + (IF u = run[r].src /\ i \in run[r].staged THEN 1 ELSE 0)
               = (IF i <= new[u] THEN 1 ELSE 0)
    <3>1. dest[u][i] = (IF i <= top[u] THEN 1 ELSE 0)
      BY PresentRows
    <3>2. i \in 1..MaxRow /\ top[u] \in 0..MaxRow
      BY <1>4 DEF Rows
    <3>3. CASE u # s
      <4>1. new[u] = top[u]
        BY <2>1, <3>3
      <4>2. CASE run[r].land = "append"
        BY <3>1, <3>3, <4>1, <4>2
      <4>3. CASE run[r].land = "replace"
        <5>1. top[u] = 0 /\ ~(i <= 0)
          BY <1>4, <1>11, <3>2, <3>3, <4>3
        <5> QED
          BY <3>3, <4>1, <4>3, <5>1
      <4> QED
        BY <1>3, <4>2, <4>3
    <3>4. CASE u = s
      <4>1. new[u] = x
        BY <1>10, <2>1, <3>4
      <4>2. i \in run[r].staged <=> i <= x /\ (run[r].wm = None \/ i > run[r].wm)
        BY <1>4, <1>5, <3>2
      <4>3. CASE run[r].land = "append" /\ run[r].wm = top[s]
        <5>1. i \in run[r].staged <=> i <= x /\ i > top[s]
          BY <1>4, <4>2, <4>3
        <5>2. i <= top[s] => i <= x
          BY <1>5, <1>8, <3>2, <1>4
        <5>3. CASE i <= top[s]
          <6>1. i \notin run[r].staged /\ i <= x
            BY <1>4, <3>2, <5>1, <5>2, <5>3
          <6> QED
            BY <3>1, <3>4, <4>1, <4>3, <5>3, <6>1
        <5>4. CASE ~(i <= top[s])
          <6>1. i \in run[r].staged <=> i <= x
            BY <1>4, <3>2, <5>1, <5>4
          <6> QED
            BY <3>1, <3>4, <4>1, <4>3, <5>4, <6>1
        <5> QED
          BY <5>3, <5>4
      <4>4. CASE run[r].land = "append" /\ run[r].wm = None
        <5>1. top[s] = 0 /\ ~(i <= top[s])
          BY <1>3, <1>4, <1>6, <3>2, <4>4
        <5>2. i \in run[r].staged <=> i <= x
          BY <4>2, <4>4
        <5> QED
          BY <3>1, <3>4, <4>1, <4>4, <5>1, <5>2
      <4>5. CASE run[r].land = "replace"
        <5>1. i \in run[r].staged <=> i <= x
          BY <1>3, <4>2, <4>5
        <5> QED
          BY <3>4, <4>1, <4>5, <5>1
      <4> QED
        BY <1>3, <1>7, <4>3, <4>4, <4>5
    <3> QED
      BY <3>3, <3>4
  <2> QED
    BY <2>2 DEF Landed, Prefixes
<1>13. m <= source[s] /\ top[s] <= m /\ (state[s] # None => state[s] <= m)
  BY <1>5, <1>10
<1> QED
  BY <1>1, <1>11, <1>12, <1>13

\* Where the data stay as they are the sources stand where they did.
LEMMA TopStays ==
    ASSUME CursorConstants, Shape, NEW top, TopFits(top), setup' = setup, source' = source,
           dest' = dest, state' = state, claimed' = claimed
    PROVE  TopFits(top)'
<1>1. kind' = kind /\ OneFeed' = OneFeed
  BY DEF kind, OneFeed
<1>2. Prefixes(top)' = Prefixes(top)
  BY DEF Prefixes, Rows
<1>3. \A s \in Sources : StateFits(s, top[s])' <=> StateFits(s, top[s])
  BY <1>1 DEF StateFits
<1> QED
  BY <1>2, <1>3 DEF TopFits

\* A run nothing happens to.
LEMMA RunStays ==
    ASSUME NEW p \in Runs, NEW top, NEW new, RunFits(p, top), run'[p] = run[p],
           Past(p) => /\ new[run[p].src] = top[run[p].src]
                      /\ source'[run[p].src] = source[run[p].src]
                      /\ state'[run[p].src] \in {state[run[p].src], None}
    PROVE  RunFits(p, new)'
<1>1. CASE ~Past(p)
  BY <1>1 DEF RunFits, Past
<1>2. CASE Past(p)
  BY <1>2 DEF RunFits
<1> QED
  BY <1>1, <1>2

\* A run that says nothing yet of where its source stands.
LEMMA RunQuiet ==
    ASSUME NEW r \in Runs, NEW top, run'[r].pc \notin {"load", "staged", "landed", "cleared"}
    PROVE  RunFits(r, top)'
BY DEF RunFits

\* Steps that leave the data alone.
LEMMA QuietCounted ==
    ASSUME CursorConstants, Shape, NEW top, TopFits(top), \A p \in Runs : RunFits(p, top),
           setup' = setup, source' = source, dest' = dest, state' = state, claimed' = claimed,
           NEW r \in Runs, \A p \in Runs \ {r} : run'[p] = run[p], RunFits(r, top)'
    PROVE  Counted'
<1>1. TopFits(top)'
  BY TopStays
<1>2. ASSUME NEW p \in Runs \ {r}
      PROVE  RunFits(p, top)'
  BY <1>2, RunStays
<1>3. top \in [Sources -> 0..MaxRow]
  BY DEF TopFits
<1> QED
  BY <1>1, <1>2, <1>3 DEF Counted

LEMMA EarlyCounted ==
    ASSUME CursorConstants, Shape, Arbitrated, Counted, NEW r \in Runs,
           \/ \E s \in setup.feeds, m \in setup.modes : Start(r, s, m)
           \/ Announce(r) \/ CheckPeers(r) \/ ReRead(r) \/ Refuse(r) \/ Die(r)
    PROVE  Counted'
<1>1. PICK top \in [Sources -> 0..MaxRow] : TopFits(top) /\ \A p \in Runs : RunFits(p, top)
  BY DEF Counted
<1>2. /\ setup' = setup /\ source' = source /\ dest' = dest /\ state' = state
      /\ claimed' = claimed
  BY DEF Start, Announce, CheckPeers, ReRead, Refuse, Die
<1>3. run \in [Runs -> RunRec] /\ Idle.pc = "idle" /\ run[r] \in RunRec
  BY Types
<1>4. ASSUME Ended(r)
      PROVE  Counted'
  <2>1. run'[r].pc = "idle" /\ \A p \in Runs \ {r} : run'[p] = run[p]
    BY <1>3, <1>4 DEF Ended
  <2>2. RunFits(r, top)'
    BY <2>1, RunQuiet
  <2> QED
    BY <1>1, <1>2, <2>1, <2>2, QuietCounted
<1>5. ASSUME NEW pc \in {"announced", "checked"}, SetsPc(r, pc)
      PROVE  Counted'
  <2>1. PICK rec \in RunRec : Moved(r, pc, rec)
    BY <1>3, <1>5, MovesOn DEF PCs
  <2>2. run'[r].pc = pc /\ \A p \in Runs \ {r} : run'[p] = run[p]
    BY <1>3, <2>1 DEF Moved
  <2>3. RunFits(r, top)'
    BY <1>5, <2>2, RunQuiet
  <2> QED
    BY <1>1, <1>2, <2>2, <2>3, QuietCounted
<1>6. CASE \E s \in setup.feeds, m \in setup.modes : Start(r, s, m)
  <2>1. run'[r].pc = "read" /\ \A p \in Runs \ {r} : run'[p] = run[p]
    BY <1>3, <1>6 DEF Start
  <2>2. RunFits(r, top)'
    BY <2>1, RunQuiet
  <2> QED
    BY <1>1, <1>2, <2>1, <2>2, QuietCounted
<1>7. CASE ReRead(r) /\ ~Ended(r)
  <2>1. SetsPc(r, "load") /\ ~watermark_moved(r) /\ run[r].pc = "checked"
    BY <1>7 DEF ReRead, SetsPc
  <2>2. PICK rec \in RunRec : Moved(r, "load", rec)
    BY <1>3, <2>1, MovesOn DEF PCs
  <2>3. /\ run'[r] = rec /\ rec.pc = "load" /\ rec.src = run[r].src
        /\ rec.kindOf = run[r].kindOf /\ rec.wm = run[r].wm
        /\ \A p \in Runs \ {r} : run'[p] = run[p]
    BY <1>3, <2>2 DEF Moved
  <2>4. run[r].src \in setup.feeds /\ run[r].wm # Refused
    <3>1. RunShape(r) /\ run[r].wm \in Watermark
      BY <1>3 DEF Shape, RunRec
    <3> QED
      BY <2>1, <3>1 DEF RunShape, Watermark, CursorConstants
  <2>5. run[r].kindOf = "Incremental" => DestState(run[r].src) = run[r].wm
    BY <2>1 DEF watermark_moved
  <2>6. run[r].kindOf = "Incremental" =>
          \/ run[r].wm = top[run[r].src]
          \/ run[r].wm = None /\ top[run[r].src] = 0
    BY <1>1, <2>4, <2>5, ResolvesTop
  <2>7. RunFits(r, top)'
    BY <2>3, <2>6 DEF RunFits
  <2> QED
    BY <1>1, <1>2, <2>3, <2>7, QuietCounted
<1>8. CASE Announce(r)
  BY <1>5, <1>8 DEF Announce, SetsPc
<1>9. CASE CheckPeers(r)
  BY <1>4, <1>5, <1>9 DEF CheckPeers, SetsPc
<1>10. CASE Refuse(r) \/ Die(r) \/ Ended(r)
  BY <1>4, <1>10 DEF Refuse, Die
<1> QED
  BY <1>6, <1>7, <1>8, <1>9, <1>10

LEMMA LoadCounted ==
    ASSUME CursorConstants, Shape, Counted, NEW r \in Runs, Load(r)
    PROVE  Counted'
<1>1. PICK top \in [Sources -> 0..MaxRow] : TopFits(top) /\ \A p \in Runs : RunFits(p, top)
  BY DEF Counted
<1> DEFINE s == run[r].src
<1>2. /\ setup' = setup /\ source' = source /\ dest' = dest /\ state' = state
      /\ run[r].pc = "load"
  BY DEF Load
<1>3. /\ run \in [Runs -> RunRec] /\ Idle.pc = "idle" /\ run[r] \in RunRec /\ RunShape(r)
      /\ claimed \in [Sources -> 0..MaxRow]
  BY Types DEF Shape
<1>4. /\ s \in Sources
      /\ run[r].kindOf \in {"Incremental", "Swap"} /\ run[r].wm \in Watermark
      /\ (run[r].kindOf = "Swap" => run[r].land = "replace")
      /\ (run[r].land = "replace" => run[r].wm = None)
  BY <1>2, <1>3, Types DEF RunShape, RunRec
<1>5. /\ top[s] \in 0..MaxRow /\ source[s] \in 0..MaxRow /\ top[s] <= source[s]
      /\ MaxRow \in Nat /\ None \notin Int
      /\ state[s] # None => state[s] <= source[s]
  BY <1>1, <1>4, Fits
<1>6. run[r].kindOf = "Incremental" => run[r].wm = top[s] \/ (run[r].wm = None /\ top[s] = 0)
  BY <1>1, <1>2 DEF RunFits
<1>7. Delta(r) = {i \in 1..source[s] : run[r].wm = None \/ i > run[r].wm}
  BY DEF Delta
<1> HIDE DEF s
<1>8. CASE Delta(r) = {}
  <2>1. /\ Ended(r)
        /\ claimed' = [claimed EXCEPT ![s] = IF run[r].land = "append" THEN source[s] ELSE @]
    BY <1>8 DEF Load, s
  <2>2. run'[r].pc = "idle" /\ \A p \in Runs \ {r} : run'[p] = run[p]
    BY <1>3, <2>1 DEF Ended
  <2>3. run[r].land = "append" => source[s] <= top[s]
    <3>1. CASE run[r].wm = None
      <4>1. source[s] \notin 1..source[s]
        BY <1>7, <1>8, <3>1
      <4> QED
        BY <1>5, <4>1
    <3>2. CASE run[r].wm = top[s]
      <4>1. source[s] \notin 1..source[s] \/ ~(source[s] > top[s])
        BY <1>7, <1>8, <3>2
      <4> QED
        BY <1>5, <4>1
    <3> QED
      BY <1>4, <1>6, <3>1, <3>2
  <2>4. \A u \in Sources : claimed'[u] <= top[u]
    <3> TAKE u \in Sources
    <3>1. claimed[u] <= top[u] /\ claimed[u] \in 0..MaxRow
      BY <1>1, Fits
    <3>2. claimed'[u] = IF u = s /\ run[r].land = "append" THEN source[s] ELSE claimed[u]
      BY <1>3, <1>4, <2>1
    <3> QED
      BY <2>3, <3>1, <3>2
  <2>5. TopFits(top)'
    <3>1. kind' = kind /\ OneFeed' = OneFeed /\ Prefixes(top)' = Prefixes(top)
      BY <1>2 DEF kind, OneFeed, Prefixes, Rows
    <3>2. \A u \in Sources : StateFits(u, top[u])' <=> StateFits(u, top[u])
      BY <1>2, <3>1 DEF StateFits
    <3> QED
      BY <1>1, <1>2, <2>4, <3>1, <3>2 DEF TopFits
  <2>6. RunFits(r, top)'
    BY <2>2, RunQuiet
  <2>7. ASSUME NEW p \in Runs \ {r}
        PROVE  RunFits(p, top)'
    BY <1>1, <1>2, <2>2, <2>7, RunStays
  <2> QED
    BY <1>1, <2>5, <2>6, <2>7 DEF Counted
<1>9. CASE Delta(r) # {}
  <2> DEFINE rec == [run[r] EXCEPT !.pc = "staged", !.staged = Delta(r)]
  <2>1. run' = [run EXCEPT ![r].pc = "staged", ![r].staged = Delta(r)] /\ claimed' = claimed
    BY <1>9 DEF Load
  <2>2. run' = [run EXCEPT ![r] = rec]
    BY <1>3, <2>1
  <2>3. /\ rec.pc = "staged" /\ rec.src = s /\ rec.kindOf = run[r].kindOf
        /\ rec.wm = run[r].wm /\ rec.staged = Delta(r)
    BY <1>3 DEF RunRec, s
  <2> HIDE DEF rec
  <2>4. run'[r] = rec /\ \A p \in Runs \ {r} : run'[p] = run[p]
    BY <1>3, <2>2
  <2>5. source[s] \in 1..source[s]
    <3>1. PICK i : i \in 1..source[s]
      BY <1>7, <1>9
    <3> QED
      BY <1>5, <3>1
  <2>6. RunFits(r, top)'
    <3>1. run'[r].kindOf = "Incremental" =>
            run'[r].wm = top[run'[r].src] \/ (run'[r].wm = None /\ top[run'[r].src] = 0)
      BY <1>6, <2>3, <2>4
    <3>2. \E x \in 1..source'[run'[r].src] :
            /\ top[run'[r].src] <= x
            /\ run'[r].staged = {i \in 1..x : run'[r].wm = None \/ i > run'[r].wm}
            /\ state'[run'[r].src] # None => state'[run'[r].src] <= x
      <4>1. run'[r].src = s /\ run'[r].wm = run[r].wm /\ run'[r].staged = Delta(r)
        BY <2>3, <2>4
      <4> QED
        BY <1>2, <1>5, <1>7, <2>5, <4>1
    <3>3. run'[r].pc = "staged"
      BY <2>3, <2>4
    <3> QED
      BY <3>1, <3>2, <3>3 DEF RunFits
  <2> QED
    BY <1>1, <1>2, <2>1, <2>4, <2>6, QuietCounted
<1> QED
  BY <1>8, <1>9

\* Publication moves a source to the last row it staged.
LEMMA PublishCounted ==
    ASSUME CursorConstants, Shape, Arbitrated, Counted, NEW r \in Runs, Publishes(r)
    PROVE  Counted'
<1>1. PICK top \in [Sources -> 0..MaxRow] : TopFits(top) /\ \A p \in Runs : RunFits(p, top)
  BY DEF Counted
<1>s. PICK s \in Sources : s = run[r].src
  BY Writes DEF Publishes, Lands
<1>m. PICK m \in 1..MaxRow : m = Max(run[r].staged)
  BY Writes DEF Publishes, Lands
<1>n. PICK new \in [Sources -> 0..MaxRow] :
        new[s] = m /\ \A u \in Sources \ {s} : new[u] = top[u]
  <2>1. /\ [top EXCEPT ![s] = m] \in [Sources -> 0..MaxRow]
        /\ [top EXCEPT ![s] = m][s] = m
        /\ \A u \in Sources \ {s} : [top EXCEPT ![s] = m][u] = top[u]
    BY Types
  <2> QED
    BY <2>1
<1>2. /\ run[r].pc = "staged" /\ ~LostFirstRun(r) /\ Past(r)
      /\ setup' = setup /\ source' = source /\ dest' = Landed(r) /\ claimed' = Vouched(r)
      /\ state' = IF run[r].land = "append" THEN Kept(r) ELSE Alone(r)
      /\ Ended(r)
  BY DEF Publishes, Whole, Past
<1>3. /\ run \in [Runs -> RunRec] /\ Idle.pc = "idle" /\ run[r] \in RunRec /\ RunShape(r)
      /\ claimed \in [Sources -> 0..MaxRow] /\ state \in [Sources -> Watermark]
      /\ MaxRow \in Nat
  BY Types DEF Shape
<1>4. /\ s \in Sources /\ m \in 1..MaxRow /\ m <= source[s] /\ top[s] <= m
      /\ Landed(r) = Prefixes(new)
      /\ run[r].land = "replace" => \A u \in Sources \ {s} : top[u] = 0
  BY <1>1, <1>2, <1>s, <1>m, <1>n, StagedTop
<1>5. /\ run[r].kindOf \in {"Incremental", "Swap"} /\ run[r].land \in {"append", "replace"}
      /\ (run[r].kindOf = "Swap" => run[r].land = "replace" /\ "replace" \in setup.modes)
  BY <1>2, <1>3 DEF RunShape, RunRec
<1>6. Own(r) = IF run[r].kindOf = "Incremental" THEN m ELSE None
  BY <1>m DEF Own
<1>7. Vouched(r) = [u \in Sources |-> IF u = s THEN m
                                      ELSE IF run[r].kindOf = "Swap" THEN 0 ELSE claimed[u]]
  BY <1>s, <1>m DEF Vouched
<1>8. Kept(r) = [state EXCEPT ![s] = Own(r)]
  BY <1>s DEF Kept
<1>9. Alone(r) = [u \in Sources |-> IF u = s THEN Own(r) ELSE None]
  BY <1>s DEF Alone
<1>10. new \in [Sources -> 0..MaxRow] /\ new[s] = m /\ \A u \in Sources \ {s} : new[u] = top[u]
  BY <1>n
<1>11. ASSUME NEW p \in Runs \ {r}, Past(p)
       PROVE  run[p].src \in Sources /\ run[p].src # s
  <2>1. run[p].src # s
    BY <1>2, <1>11, <1>s DEF Shape, Exclusive, peer_blocks
  <2>2. RunShape(p)
    BY <1>11 DEF Shape
  <2> QED
    BY <1>11, <2>1, <2>2, Types DEF RunShape, Past
<1>12. state'[s] = Own(r)
  BY <1>2, <1>3, <1>4, <1>8, <1>9
<1>13. ASSUME NEW u \in Sources \ {s}
       PROVE  /\ state'[u] = state[u] \/ (state'[u] = None /\ new[u] = 0)
              /\ claimed'[u] <= new[u]
  <2>1. state'[u] = state[u] \/ (state'[u] = None /\ run[r].land = "replace")
    BY <1>2, <1>3, <1>4, <1>5, <1>8, <1>9
  <2>2. claimed'[u] = 0 \/ claimed'[u] = claimed[u]
    BY <1>2, <1>4, <1>7
  <2>3. new[u] = top[u] /\ top[u] \in 0..MaxRow /\ claimed[u] <= top[u]
    BY <1>1, <1>10, Fits
  <2> QED
    BY <1>4, <2>1, <2>2, <2>3
<1>14. /\ kind' = kind /\ OneFeed' = OneFeed /\ Prefixes(new)' = Prefixes(new)
  BY <1>2 DEF kind, OneFeed, Prefixes, Rows
<1>15. run[r].kindOf = "Swap" => OneFeed
  BY <1>5, SetupForms
<1>16. ASSUME NEW u \in Sources
       PROVE  /\ new[u] <= source'[u] /\ claimed'[u] <= new[u]
              /\ state'[u] # None => state'[u] <= source'[u]
              /\ StateFits(u, new[u])'
  <2>1. CASE u = s
    <3>1. claimed'[s] = m /\ new[s] = m
      BY <1>2, <1>4, <1>7, <1>10
    <3>2. state'[s] = m \/ (state'[s] = None /\ OneFeed)
      BY <1>5, <1>6, <1>12, <1>15
    <3>3. StateFits(s, m)'
      BY <1>4, <1>14, <3>2 DEF StateFits
    <3> QED
      BY <1>2, <1>4, <2>1, <3>1, <3>2, <3>3
  <2>2. CASE u # s
    <3>1. /\ new[u] = top[u] /\ top[u] <= source[u] /\ StateFits(u, top[u])
          /\ state[u] # None => state[u] <= source[u]
      BY <1>1, <1>10, <2>2, Fits
    <3>2. StateFits(u, new[u])'
      BY <1>13, <1>14, <2>2, <3>1 DEF StateFits
    <3> QED
      BY <1>2, <1>13, <2>2, <3>1, <3>2
  <2> QED
    BY <2>1, <2>2
<1>17. TopFits(new)'
  BY <1>2, <1>4, <1>10, <1>14, <1>16 DEF TopFits
<1>18. run'[r].pc = "idle" /\ \A p \in Runs \ {r} : run'[p] = run[p]
  BY <1>2, <1>3 DEF Ended
<1>19. RunFits(r, new)'
  BY <1>18, RunQuiet
<1>20. ASSUME NEW p \in Runs \ {r}
       PROVE  RunFits(p, new)'
  <2>1. Past(p) => /\ new[run[p].src] = top[run[p].src]
                   /\ source'[run[p].src] = source[run[p].src]
                   /\ state'[run[p].src] \in {state[run[p].src], None}
    BY <1>2, <1>10, <1>11, <1>13, <1>20
  <2> QED
    BY <1>1, <1>18, <1>20, <2>1, RunStays
<1> QED
  BY <1>10, <1>17, <1>19, <1>20 DEF Counted

\* The rows of one source in a statement of their own.
LEMMA LandCounted ==
    ASSUME CursorConstants, Shape, Arbitrated, Counted, NEW r \in Runs, Lands(r)
    PROVE  Counted'
<1>1. PICK top \in [Sources -> 0..MaxRow] : TopFits(top) /\ \A p \in Runs : RunFits(p, top)
  BY DEF Counted
<1>s. PICK s \in Sources : s = run[r].src
  BY Writes DEF Publishes, Lands
<1>m. PICK m \in 1..MaxRow : m = Max(run[r].staged)
  BY Writes DEF Publishes, Lands
<1>n. PICK new \in [Sources -> 0..MaxRow] :
        new[s] = m /\ \A u \in Sources \ {s} : new[u] = top[u]
  <2>1. /\ [top EXCEPT ![s] = m] \in [Sources -> 0..MaxRow]
        /\ [top EXCEPT ![s] = m][s] = m
        /\ \A u \in Sources \ {s} : [top EXCEPT ![s] = m][u] = top[u]
    BY Types
  <2> QED
    BY <2>1
<1>2. PICK pc \in {"landed", "cleared"} :
      /\ run[r].pc = "staged" /\ (kind # "bq" => ~LostFirstRun(r)) /\ SetsPc(r, pc) /\ Past(r)
      /\ kind \in {"my", "ch", "bq"}
      /\ setup' = setup /\ source' = source /\ dest' = Landed(r) /\ claimed' = claimed
      /\ state' = state
  BY DEF Lands, RowsOnly, Past, SetsPc
<1>3. /\ run \in [Runs -> RunRec] /\ state \in [Sources -> Watermark] /\ MaxRow \in Nat
      /\ None \notin Int
  BY Types DEF CursorConstants
<1>4. /\ s \in Sources /\ m \in 1..MaxRow /\ m <= source[s] /\ top[s] <= m
      /\ state[s] # None => state[s] <= m
      /\ Landed(r) = Prefixes(new)
  BY <1>1, <1>2, <1>s, <1>m, <1>n, StagedTop
<1>5. new \in [Sources -> 0..MaxRow] /\ new[s] = m /\ \A u \in Sources \ {s} : new[u] = top[u]
  BY <1>n
<1>6. OneFeed
  BY <1>2, SetupForms
<1>7. \A p \in Runs \ {r} : ~Past(p)
  BY <1>1, <1>2, <1>6, OnlyOne
<1>8. PICK rec \in RunRec : Moved(r, pc, rec)
  BY <1>2, <1>3, MovesOn DEF PCs
<1>9. /\ run'[r].pc = pc /\ run'[r].src = s /\ Max(run'[r].staged) = m
      /\ \A p \in Runs \ {r} : run'[p] = run[p]
  BY <1>3, <1>8, <1>s, <1>m DEF Moved
<1>10. /\ kind' = kind /\ OneFeed' = OneFeed /\ Prefixes(new)' = Prefixes(new)
  BY <1>2 DEF kind, OneFeed, Prefixes, Rows
<1>11. ASSUME NEW u \in Sources
       PROVE  /\ new[u] <= source'[u] /\ claimed'[u] <= new[u]
              /\ state'[u] # None => state'[u] <= source'[u]
              /\ StateFits(u, new[u])'
  <2>1. /\ top[u] <= source[u] /\ claimed[u] <= top[u] /\ StateFits(u, top[u])
        /\ state[u] # None => state[u] \in 0..MaxRow /\ state[u] <= source[u]
        /\ top[u] \in 0..MaxRow /\ claimed[u] \in 0..MaxRow
    BY <1>1, Fits
  <2>2. CASE u = s
    <3>1. claimed[s] <= m
      BY <1>3, <1>4, <2>1, <2>2
    <3>2. state[s] = None \/ state[s] = m \/ state[s] < m
      BY <1>3, <1>4, <2>1, <2>2
    <3>3. StateFits(s, m)'
      BY <1>2, <1>4, <1>6, <1>10, <3>2 DEF StateFits
    <3> QED
      BY <1>2, <1>4, <1>5, <2>1, <2>2, <3>1, <3>3
  <2>3. CASE u # s
    <3>1. StateFits(u, new[u])'
      BY <1>2, <1>5, <1>10, <2>1, <2>3 DEF StateFits
    <3> QED
      BY <1>2, <1>5, <2>1, <2>3, <3>1
  <2> QED
    BY <2>2, <2>3
<1>12. TopFits(new)'
  BY <1>2, <1>4, <1>5, <1>10, <1>11 DEF TopFits
<1>13. RunFits(r, new)'
  BY <1>2, <1>5, <1>9 DEF RunFits
<1>14. ASSUME NEW p \in Runs \ {r}
       PROVE  RunFits(p, new)'
  BY <1>1, <1>7, <1>9, <1>14, RunStays
<1> QED
  BY <1>5, <1>12, <1>13, <1>14 DEF Counted

\* The state rows of one source in statements of their own.
LEMMA StateCounted ==
    ASSUME CursorConstants, Shape, Arbitrated, Counted, NEW r \in Runs,
           ClearsState(r) \/ WritesState(r)
    PROVE  Counted'
<1>1. PICK top \in [Sources -> 0..MaxRow] : TopFits(top) /\ \A p \in Runs : RunFits(p, top)
  BY DEF Counted
<1>s. PICK s \in Sources : s = run[r].src
  BY Writes DEF ClearsState, WritesState
<1>m. PICK m \in 1..MaxRow : m = Max(run[r].staged)
  BY Writes DEF ClearsState, WritesState
<1>2. /\ run[r].pc \in {"landed", "cleared"} /\ Past(r) /\ setup' = setup /\ source' = source
      /\ dest' = dest
  BY DEF ClearsState, WritesState, StateOnly, Past
<1>3. kind \in {"my", "ch", "bq"} /\ OneFeed
  <2>1. RunShape(r)
    BY DEF Shape
  <2> QED
    BY <1>2, <2>1, SetupForms DEF RunShape
<1>4. /\ s \in Sources /\ \A p \in Runs \ {r} : ~Past(p)
      /\ \A u \in Sources \ {s} : top[u] = 0 /\ state[u] = None
  BY <1>1, <1>2, <1>3, <1>s, OnlyOne
<1>5. /\ run \in [Runs -> RunRec] /\ Idle.pc = "idle" /\ run[r] \in RunRec
      /\ claimed \in [Sources -> 0..MaxRow] /\ state \in [Sources -> Watermark]
      /\ MaxRow \in Nat /\ None \notin Int
  BY Types DEF CursorConstants
<1>6. m = top[s] /\ m \in 1..MaxRow
  BY <1>1, <1>2, <1>s, <1>m DEF RunFits
<1>7. kind' = kind /\ OneFeed' = OneFeed /\ Prefixes(top)' = Prefixes(top)
  BY <1>2 DEF kind, OneFeed, Prefixes, Rows
<1>8. ASSUME \A u \in Sources \ {s} : state'[u] = None, state'[s] \in {None, m},
             \A u \in Sources : claimed'[u] <= top[u]
      PROVE  TopFits(top)'
  <2>1. ASSUME NEW u \in Sources
        PROVE  /\ state'[u] # None => state'[u] <= source'[u]
               /\ StateFits(u, top[u])'
    <3>1. top[u] <= source[u]
      BY <1>1, Fits
    <3>2. CASE u = s
      <4>1. StateFits(s, top[s])'
        BY <1>3, <1>6, <1>7, <1>8 DEF StateFits
      <4> QED
        BY <1>2, <1>6, <1>8, <3>1, <3>2, <4>1
    <3>3. CASE u # s
      <4>1. state'[u] = None /\ top[u] = 0
        BY <1>4, <1>8, <3>3
      <4> QED
        BY <4>1 DEF StateFits
    <3> QED
      BY <3>2, <3>3
  <2> QED
    BY <1>1, <1>2, <1>7, <1>8, <2>1 DEF TopFits
<1>9. \A u \in Sources : claimed[u] <= top[u] /\ top[u] \in 0..MaxRow
  BY <1>1, Fits
<1>10. CASE ClearsState(r)
  <2>1. SetsPc(r, "cleared") /\ state' \in {NoState, Forgotten(r)} /\ claimed' = claimed
    BY <1>10 DEF ClearsState, SetsPc
  <2>2. PICK rec \in RunRec : Moved(r, "cleared", rec)
    BY <1>5, <2>1, MovesOn DEF PCs
  <2>3. /\ run'[r].pc = "cleared" /\ run'[r].src = s /\ Max(run'[r].staged) = m
        /\ \A p \in Runs \ {r} : run'[p] = run[p]
    BY <1>5, <2>2, <1>s, <1>m DEF Moved
  <2>4. state'[s] = None /\ \A u \in Sources \ {s} : state'[u] = None
    <3>1. Forgotten(r) = [state EXCEPT ![s] = None]
      BY <1>s DEF Forgotten
    <3> QED
      BY <1>4, <1>5, <2>1, <3>1 DEF NoState
  <2>5. TopFits(top)'
    BY <1>8, <1>9, <2>1, <2>4
  <2>6. RunFits(r, top)'
    BY <1>6, <2>3 DEF RunFits
  <2>7. ASSUME NEW p \in Runs \ {r}
        PROVE  RunFits(p, top)'
    BY <1>1, <1>4, <2>3, <2>7, RunStays
  <2> QED
    BY <1>1, <2>5, <2>6, <2>7 DEF Counted
<1>11. CASE WritesState(r)
  <2>1. Ended(r) /\ claimed' = Vouched(r) /\ state' \in {Kept(r), Alone(r)}
    BY <1>11 DEF WritesState, StateOnly
  <2>2. run'[r].pc = "idle" /\ \A p \in Runs \ {r} : run'[p] = run[p]
    BY <1>5, <2>1 DEF Ended
  <2>3. Own(r) \in {None, m}
    BY <1>m DEF Own
  <2>4. Kept(r) = [state EXCEPT ![s] = Own(r)]
    BY <1>s DEF Kept
  <2>5. Alone(r) = [u \in Sources |-> IF u = s THEN Own(r) ELSE None]
    BY <1>s DEF Alone
  <2>6. Vouched(r) = [u \in Sources |-> IF u = s THEN m
                                        ELSE IF run[r].kindOf = "Swap" THEN 0 ELSE claimed[u]]
    BY <1>s, <1>m DEF Vouched
  <2>7. state'[s] \in {None, m} /\ \A u \in Sources \ {s} : state'[u] = None
    BY <1>4, <1>5, <2>1, <2>3, <2>4, <2>5
  <2>8. \A u \in Sources : claimed'[u] <= top[u]
    <3> TAKE u \in Sources
    <3>1. claimed'[u] = IF u = s THEN m ELSE IF run[r].kindOf = "Swap" THEN 0 ELSE claimed[u]
      BY <2>1, <2>6
    <3> QED
      BY <1>5, <1>6, <1>9, <3>1
  <2>9. TopFits(top)'
    BY <1>8, <2>7, <2>8
  <2>10. RunFits(r, top)'
    BY <2>2, RunQuiet
  <2>11. ASSUME NEW p \in Runs \ {r}
         PROVE  RunFits(p, top)'
    BY <1>1, <1>4, <2>2, <2>11, RunStays
  <2> QED
    BY <1>1, <2>9, <2>10, <2>11 DEF Counted
<1> QED
  BY <1>10, <1>11

LEMMA WorldCounted ==
    ASSUME CursorConstants, Shape, Arbitrated, Counted,
           (\E s \in setup.feeds : SourceCommits(s) \/ Seed(s)) \/ Truncate \/ UNCHANGED cursorVars
    PROVE  Counted'
<1>1. PICK top \in [Sources -> 0..MaxRow] : TopFits(top) /\ \A p \in Runs : RunFits(p, top)
  BY DEF Counted
<1>2. run' = run /\ setup' = setup /\ MaxRow \in Nat /\ setup.feeds \subseteq Sources
  BY Types DEF SourceCommits, Seed, Truncate, cursorVars
<1>3. /\ kind' = kind /\ OneFeed' = OneFeed /\ \A t : Prefixes(t)' = Prefixes(t)
  BY <1>2 DEF kind, OneFeed, Prefixes, Rows
<1>4. ASSUME NEW s \in setup.feeds, SourceCommits(s)
      PROVE  Counted'
  <2>1. /\ s \in Sources /\ source' = [source EXCEPT ![s] = @ + 1]
        /\ source \in [Sources -> 0..MaxRow]
        /\ dest' = dest /\ state' = state /\ claimed' = claimed
    BY <1>2, <1>4, Types DEF SourceCommits
  <2>2. \A u \in Sources : source'[u] \in Nat /\ source[u] \in Nat /\ source[u] <= source'[u]
    BY <1>2, <2>1
  <2>3. ASSUME NEW u \in Sources
        PROVE  /\ top[u] <= source'[u] /\ claimed'[u] <= top[u]
               /\ state'[u] # None => state'[u] <= source'[u]
               /\ StateFits(u, top[u])'
    <3>1. /\ top[u] \in 0..MaxRow /\ top[u] <= source[u] /\ claimed[u] <= top[u]
          /\ StateFits(u, top[u])
          /\ state[u] # None => state[u] \in 0..MaxRow /\ state[u] <= source[u]
      BY <1>1, Fits
    <3>2. StateFits(u, top[u])'
      BY <1>3, <2>1, <3>1 DEF StateFits
    <3> QED
      BY <1>2, <2>1, <2>2, <3>1, <3>2
  <2>4. TopFits(top)'
    BY <1>1, <1>3, <2>1, <2>3 DEF TopFits
  <2>5. ASSUME NEW p \in Runs
        PROVE  RunFits(p, top)'
    <3>1. CASE ~Past(p)
      <4>1. run'[p].pc \notin {"load", "staged", "landed", "cleared"}
        BY <1>2, <3>1 DEF Past
      <4> QED
        BY <4>1, RunQuiet
    <3>2. CASE Past(p)
      <4>1. RunShape(p)
        BY DEF Shape
      <4>2. run[p].src \in Sources
        BY <1>2, <3>2, <4>1 DEF RunShape, Past
      <4>3. 1..source[run[p].src] \subseteq 1..source'[run[p].src]
        BY <2>2, <4>2
      <4> DEFINE Staged(x) == /\ top[run[p].src] <= x
                              /\ run[p].staged = {i \in 1..x : run[p].wm = None \/ i > run[p].wm}
                              /\ state[run[p].src] # None => state[run[p].src] <= x
      <4>4. run[p].pc = "staged" => \E x \in 1..source[run[p].src] : Staged(x)
        BY <1>1 DEF RunFits
      <4>5. run[p].pc = "staged" => \E x \in 1..source'[run[p].src] : Staged(x)
        <5> HIDE DEF Staged
        <5> QED
          BY <4>3, <4>4
      <4>6. RunFits(p, top)
        BY <1>1
      <4> QED
        BY <1>2, <2>1, <4>5, <4>6 DEF RunFits
    <3> QED
      BY <3>1, <3>2
  <2> QED
    BY <1>1, <2>4, <2>5 DEF Counted
<1>5. ASSUME NEW s \in setup.feeds, Seed(s)
      PROVE  Counted'
  <2>1. /\ s \in Sources /\ state' = [state EXCEPT ![s] = 0] /\ state[s] = None /\ Siblings(s)
        /\ state \in [Sources -> Watermark]
        /\ source' = source /\ dest' = dest /\ claimed' = claimed
        /\ \A r \in Runs : run'[r].pc = "idle"
    BY <1>2, <1>5, Types DEF Seed
  <2>2. ~OneFeed
    <3> SUFFICES ASSUME NEW f \in Sources, setup.feeds = {f}
                 PROVE  FALSE
      BY DEF OneFeed
    <3>1. s = f /\ \A t \in Sources \ {s} : state[t] = None
      BY <1>5, Types
    <3> QED
      BY <2>1, <3>1 DEF Siblings
  <2>3. ASSUME NEW u \in Sources
        PROVE  /\ top[u] <= source'[u] /\ claimed'[u] <= top[u]
               /\ state'[u] # None => state'[u] <= source'[u]
               /\ StateFits(u, top[u])'
    <3>1. /\ top[u] \in 0..MaxRow /\ top[u] <= source[u] /\ claimed[u] <= top[u]
          /\ source[u] \in 0..MaxRow /\ StateFits(u, top[u]) /\ None \notin Int
          /\ state[u] # None => state[u] \in 0..MaxRow /\ state[u] <= source[u]
      BY <1>1, Fits
    <3>2. CASE u = s
      <4>1. top[u] = 0
        BY <2>1, <2>2, <3>1, <3>2 DEF StateFits
      <4>2. state'[u] = 0
        BY <2>1, <3>2
      <4>3. StateFits(u, top[u])'
        BY <4>1, <4>2 DEF StateFits
      <4> QED
        BY <1>2, <2>1, <3>1, <4>2, <4>3
    <3>3. CASE u # s
      <4>1. state'[u] = state[u]
        BY <2>1, <3>3
      <4>2. StateFits(u, top[u])'
        BY <1>3, <3>1, <4>1 DEF StateFits
      <4> QED
        BY <2>1, <3>1, <4>1, <4>2
    <3> QED
      BY <3>2, <3>3
  <2>4. TopFits(top)'
    BY <1>1, <1>3, <2>1, <2>3 DEF TopFits
  <2>5. \A p \in Runs : RunFits(p, top)'
    BY <2>1, RunQuiet
  <2> QED
    BY <1>1, <2>4, <2>5 DEF Counted
<1>6. ASSUME Truncate
      PROVE  Counted'
  <2>1. /\ budget.truncates > 0 /\ dest' = NoRows /\ claimed' = [s \in Sources |-> 0]
        /\ state' = state /\ source' = source
        /\ \A r \in Runs : run'[r].pc = "idle"
    BY <1>2, <1>6 DEF Truncate
  <2>2. setup.truncates > 0
    <3>1. budget.truncates \in Nat /\ setup.truncates \in Nat
          /\ budget.truncates <= setup.truncates
      BY Types DEF Shape, CursorConstants
    <3> QED
      BY <2>1, <3>1
  <2>3. OneFeed /\ kind # "ice"
    BY <2>2, SetupForms
  <2>4. PICK none \in [Sources -> 0..MaxRow] : \A u \in Sources : none[u] = 0
    <3>1. [u \in Sources |-> 0] \in [Sources -> 0..MaxRow]
      BY <1>2
    <3> QED
      BY <3>1
  <2>5. dest' = Prefixes(none)'
    <3>1. \A u \in Sources, i \in Rows : (IF i <= none[u] THEN 1 ELSE 0) = 0
      BY <1>2, <2>4 DEF Rows
    <3> QED
      BY <1>3, <2>1, <3>1 DEF NoRows, Prefixes
  <2>6. ASSUME NEW u \in Sources
        PROVE  /\ none[u] <= source'[u] /\ claimed'[u] <= none[u]
               /\ state'[u] # None => state'[u] <= source'[u]
               /\ StateFits(u, none[u])'
    <3>1. source[u] \in 0..MaxRow /\ (state[u] # None => state[u] <= source[u])
      BY <1>1, Fits
    <3>2. none[u] = 0 /\ claimed'[u] = 0
      BY <2>1, <2>4
    <3>3. StateFits(u, none[u])'
      BY <1>3, <2>3, <3>2 DEF StateFits
    <3> QED
      BY <1>2, <2>1, <3>1, <3>2, <3>3
  <2>7. TopFits(none)'
    BY <2>5, <2>6 DEF TopFits
  <2>8. \A p \in Runs : RunFits(p, none)'
    BY <2>1, RunQuiet
  <2> QED
    BY <2>7, <2>8 DEF Counted
<1>7. ASSUME UNCHANGED cursorVars
      PROVE  Counted'
  <2>1. /\ source' = source /\ dest' = dest /\ state' = state /\ claimed' = claimed
    BY <1>7 DEF cursorVars
  <2>2. TopFits(top)'
    BY <1>1, <1>2, <2>1, TopStays
  <2>3. ASSUME NEW p \in Runs
        PROVE  RunFits(p, top)'
    BY <1>1, <1>2, <2>1, <2>3, RunStays
  <2> QED
    BY <1>1, <2>2, <2>3 DEF Counted
<1> QED
  BY <1>4, <1>5, <1>6, <1>7

LEMMA CountedStep ==
    ASSUME CursorConstants, Shape, Arbitrated, Counted, [CursorNext]_cursorVars
    PROVE  Counted'
<1>1. ASSUME NEW r \in Runs, Step(r)
      PROVE  Counted'
  BY <1>1, StepForms, EarlyCounted, LoadCounted, PublishCounted, LandCounted, StateCounted
<1>2. ASSUME NEW r \in Runs, Die(r)
      PROVE  Counted'
  BY <1>2, EarlyCounted
<1>3. ASSUME NEW r \in Runs, \E s \in setup.feeds, m \in setup.modes : Start(r, s, m)
      PROVE  Counted'
  BY <1>3, EarlyCounted
<1> QED
  BY <1>1, <1>2, <1>3, WorldCounted DEF CursorNext

LEMMA CountedInit ==
    ASSUME CursorConstants, CursorInit
    PROVE  Counted
<1>1. MaxRow \in Nat /\ Shape
  BY ShapeInit DEF CursorConstants
<1>2. PICK none \in [Sources -> 0..MaxRow] : \A u \in Sources : none[u] = 0
  <2>1. [u \in Sources |-> 0] \in [Sources -> 0..MaxRow]
    BY <1>1
  <2> QED
    BY <2>1
<1>3. dest = Prefixes(none)
  <2>1. \A u \in Sources, i \in Rows : (IF i <= none[u] THEN 1 ELSE 0) = 0
    BY <1>1, <1>2 DEF Rows
  <2> QED
    BY <2>1 DEF CursorInit, NoRows, Prefixes
<1>4. \A u \in Sources : /\ state[u] = None /\ claimed[u] = 0 /\ source[u] \in 0..MaxRow
  BY <1>1, Types DEF CursorInit
<1>5. TopFits(none)
  BY <1>1, <1>2, <1>3, <1>4 DEF TopFits, StateFits
<1>6. \A p \in Runs : run[p].pc \notin {"load", "staged", "landed", "cleared"}
  BY DEF CursorInit, Idle
<1>7. \A p \in Runs : RunFits(p, none)
  BY <1>6 DEF RunFits
<1> QED
  BY <1>5, <1>7 DEF Counted

\* What the counts say is what a reader of the table sees.
LEMMA CountedExact ==
    ASSUME CursorConstants, Shape, Counted
    PROVE  Complete /\ NoDuplicate
<1>1. PICK top \in [Sources -> 0..MaxRow] : TopFits(top)
  BY DEF Counted
<1>2. \A s \in Sources, i \in Rows : dest[s][i] = IF i <= top[s] THEN 1 ELSE 0
  BY <1>1, PresentRows
<1>3. NoDuplicate
  BY <1>2 DEF NoDuplicate
<1>4. Complete
  <2> SUFFICES ASSUME NEW s \in Sources, NEW i \in 1..claimed[s]
               PROVE  dest[s][i] > 0
    BY DEF Complete
  <2>1. claimed[s] <= top[s] /\ claimed[s] \in 0..MaxRow /\ top[s] \in 0..MaxRow
        /\ MaxRow \in Nat
    BY <1>1, Fits
  <2>2. i \in Rows /\ i <= top[s]
    BY <2>1 DEF Rows
  <2> QED
    BY <1>2, <2>2
<1> QED
  BY <1>3, <1>4

\* Every row a successful incremental run vouched for is in the destination once, in every
\* arbitrated setup: whichever runs of whichever sources interleave, and wherever they die
\* (resolve_watermark, watermark_moved, finalize).
THEOREM CursorExactHolds == CursorConstants => (CursorSpec => []CursorExact)
<1> SUFFICES ASSUME CursorConstants
             PROVE  CursorSpec => []CursorExact
  OBVIOUS
<1>1. CursorInit => CursorInv
  BY ShapeInit, CountedInit DEF CursorInv
<1>2. CursorInv /\ [CursorNext]_cursorVars => CursorInv'
  <2> SUFFICES ASSUME CursorInv, [CursorNext]_cursorVars
               PROVE  CursorInv'
    OBVIOUS
  <2>1. Shape /\ Shape'
    BY ShapeStep DEF CursorInv
  <2>2. setup' = setup
    BY DEF CursorNext, cursorVars, Step, Start, Announce, CheckPeers, ReRead, Load, Refuse,
           PgReplace, PgAppend, MyAppend, MyRename, MyClear, MyState, ChAttach, ChExchange,
           ChClear, ChState, BqCopy, BqBarrier, BqState, IceCommit, Whole, RowsOnly, StateOnly,
           SourceCommits, Die, Truncate, Seed
  <2>3. Arbitrated' = Arbitrated
    BY <2>2 DEF Arbitrated, kind
  <2>4. Arbitrated => Counted'
    BY <2>1, CountedStep DEF CursorInv
  <2> QED
    BY <2>1, <2>3, <2>4 DEF CursorInv
<1>3. CursorInv => CursorExact
  BY CountedExact DEF CursorInv, CursorExact
<1> QED
  BY <1>1, <1>2, <1>3, PTL DEF CursorSpec

\* A step that removes rows is of a replace that was asked for, or of the operator.
LEMMA ErasesNothing ==
    ASSUME CursorConstants, Shape, NEW r \in Runs, run[r].pc = "staged", kind # "bq",
           ~LostFirstRun(r), dest' = Landed(r), run'[r].pc # "staged"
    PROVE  \/ run[r].kindOf = "Swap" /\ run'[r] # run[r]
           \/ \A s \in Sources, i \in Rows : ~(dest'[s][i] < dest[s][i])
<1>1. run[r] \in RunRec /\ RunShape(r)
  BY Types DEF Shape
<1>2. run[r].kindOf \in {"Incremental", "Swap"} /\ run[r].land \in {"append", "replace"}
  BY <1>1 DEF RunShape, RunRec
<1>3. \A s \in Sources, i \in Rows : dest[s][i] \in Nat
  BY Types
<1>4. \A s \in Sources, i \in Rows :
        dest'[s][i] = (IF run[r].land = "append" THEN dest[s][i] ELSE 0)
                        + (IF s = run[r].src /\ i \in run[r].staged THEN 1 ELSE 0)
  BY DEF Landed
<1>5. CASE run[r].kindOf = "Swap"
  BY <1>5
<1>6. CASE run[r].kindOf = "Incremental" /\ run[r].land = "append"
  <2> SUFFICES ASSUME NEW s \in Sources, NEW i \in Rows
               PROVE  ~(dest'[s][i] < dest[s][i])
    OBVIOUS
  <2>1. dest'[s][i] = dest[s][i] \/ dest'[s][i] = dest[s][i] + 1
    BY <1>3, <1>4, <1>6
  <2> QED
    BY <1>3, <2>1
<1>7. CASE run[r].kindOf = "Incremental" /\ run[r].land = "replace"
  <2>1. Flipped(r)
    BY <1>7 DEF Flipped
  <2>2. Present = {}
    <3>1. CASE kind = "ice"
      BY <2>1, <3>1 DEF LostFirstRun, Empty
    <3>2. CASE kind # "ice"
      <4>1. dest = NoRows
        BY <2>1, <3>2, Types DEF LostFirstRun
      <4> QED
        BY <4>1 DEF Present, NoRows
    <3> QED
      BY <3>1, <3>2
  <2> SUFFICES ASSUME NEW s \in Sources, NEW i \in Rows
               PROVE  ~(dest'[s][i] < dest[s][i])
    OBVIOUS
  <2>3. dest[s][i] = 0
    BY <1>3, <2>2 DEF Present
  <2>4. dest'[s][i] \in Nat
    BY <1>3, <1>4
  <2> QED
    BY <2>3, <2>4
<1> QED
  BY <1>2, <1>5, <1>6, <1>7

\* Only a replace that was asked for, or the operator, removes a row, for every number of
\* sources and runs (lost_first_run).
THEOREM OnlySwapsEraseHolds == CursorConstants => (CursorSpec => OnlySwapsErase)
<1> SUFFICES ASSUME CursorConstants
             PROVE  CursorSpec => OnlySwapsErase
  OBVIOUS
<1> DEFINE Shrinks == \E s \in Sources, i \in Rows : dest'[s][i] < dest[s][i]
           Asked == \/ \E r \in Runs : run[r].kindOf = "Swap" /\ run'[r] # run[r]
                    \/ budget'.truncates # budget.truncates
<1>1. CursorInit => Shape
  BY ShapeInit
<1>2. Shape /\ [CursorNext]_cursorVars => Shape'
  BY ShapeStep
<1>3. Shape /\ [CursorNext]_cursorVars => [kind # "bq" /\ Shrinks => Asked]_cursorVars
  <2> SUFFICES ASSUME Shape, CursorNext, kind # "bq", Shrinks
               PROVE  Asked
    OBVIOUS
  <2>1. dest' # dest
    <3>1. \A s \in Sources, i \in Rows : ~(dest[s][i] < dest[s][i])
      BY Types
    <3> QED
      BY <3>1
  <2>2. ASSUME NEW r \in Runs, Step(r)
        PROVE  Asked
    <3>1. Publishes(r) \/ Lands(r)
      BY <2>1, <2>2, StepForms
         DEF Announce, CheckPeers, ReRead, Load, Refuse, ClearsState, WritesState, StateOnly
    <3>2. /\ run[r].pc = "staged" /\ ~LostFirstRun(r) /\ dest' = Landed(r)
      BY <3>1 DEF Publishes, Lands, Whole, RowsOnly
    <3>3. run'[r].pc # "staged"
      <4>1. run \in [Runs -> RunRec] /\ Idle.pc = "idle"
        BY Types
      <4>2. CASE Publishes(r)
        BY <4>1, <4>2 DEF Publishes, Whole, Ended
      <4>3. CASE Lands(r)
        <5>1. PICK pc \in {"landed", "cleared"} : SetsPc(r, pc)
          BY <4>3 DEF Lands, RowsOnly, SetsPc
        <5>2. PICK rec \in RunRec : Moved(r, pc, rec)
          BY <4>1, <5>1, MovesOn DEF PCs
        <5> QED
          BY <5>1, <5>2 DEF Moved
      <4> QED
        BY <3>1, <4>2, <4>3
    <3> QED
      BY <3>2, <3>3, ErasesNothing
  <2>3. ASSUME Truncate
        PROVE  Asked
    <3>1. budget' = [budget EXCEPT !.truncates = @ - 1] /\ budget.truncates \in Nat
          /\ budget \in [starts : Nat, deaths : Nat, truncates : Nat, seeds : Nat]
      BY <2>3, Types DEF Truncate
    <3>2. budget'.truncates = budget.truncates - 1
      BY <3>1
    <3> QED
      BY <3>1, <3>2
  <2> QED
    BY <2>1, <2>2, <2>3 DEF CursorNext, Die, Start, SourceCommits, Seed
<1> QED
  BY <1>1, <1>2, <1>3, PTL DEF CursorSpec, OnlySwapsErase
=============================================================================
