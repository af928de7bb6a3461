------------------------------ MODULE MyGroup ------------------------------
(***************************************************************************)
(* The life of a log_based group fed by MySQL: run_group_mysql             *)
(* (logbased/run.rs), the bootstrap and the guards of drain_windows        *)
(* (logbased/myrun.rs), and the questions they ask the server              *)
(* (logbased/mysource.rs).                                                 *)
(*                                                                         *)
(* What a stored position means is the subject: it belongs to one server   *)
(* and one life of that server's log, and nothing in a URL says which      *)
(* server answers it.  A change is a number; a server's log is a sequence  *)
(* of changes, a position an index of it.  What happens inside a window is *)
(* Binlog's subject, the tenure Tenure's: one run at a time here.          *)
(***************************************************************************)
EXTENDS Integers, Sequences, FiniteSets, FiniteSetsExt, WellFoundedInduction, TLAPS

CONSTANTS
    Servers,     \* the servers the source URL may reach
    Members,     \* the group's tables
    Worlds,      \* what may happen to a group
    MaxRuns, MaxClears, MaxResets, MaxPurges

Phases == {"idle", "marks", "load", "finish", "dial", "apply", "stamp"}

Spent == {"changes", "runs", "moves", "faults", "clears", "resets", "purges"}

None   == -1
Nobody == "nobody"
Nothing == <<Nobody, 0>>

MyGroupAssumption ==
    /\ Members # {} /\ Nobody \notin Servers
    /\ Worlds \subseteq
         [movesAt : SUBSET Phases,          \* when the URL may move to another server
          clears : SUBSET {"rows", "all"},  \* an operator clears watermarks; markers too
          regrows : BOOLEAN,                \* a reset log may grow past a stored position
          changes : Nat, moves : Nat, faults : Nat]

VARIABLES
    world,      \* one of Worlds, for good
    log,        \* log[s]: the changes in s's binlog
    data,       \* data[s]: the changes its table holds
    oldest,     \* oldest[s]: the first binlog file s still has
    life,       \* life[s]: which life of the log this is (RESET MASTER)
    route,      \* the server a new connection reaches
    pc, srv,    \* the run's phase and the server its pool reached
    adopt,      \* members without a marker
    at,         \* the captured coordinate, or the stop line of the pass
    todo,       \* members the phase still has to do
    res,        \* how the last run ended
    goal,       \* what a successful drain has to have brought
    mark,       \* the destination's watermark of each member, None if absent
    marker,     \* its server-identity row, Nobody if absent
    by,         \* ghost: the server and life that issued the watermark
    replica,    \* the destination table of each member
    used        \* what the bounds have left behind them

groupVars == <<world, log, data, oldest, life, route, pc, srv, adopt, at, todo, res, goal,
               mark, marker, by, replica, used>>
source == <<world, log, data, oldest, life>>
dest == <<mark, marker, by, replica>>

Use(what) == used' = [used EXCEPT ![what] = @ + 1]
More(what, max) == used[what] < max

GroupInit ==
    /\ world \in Worlds
    /\ log = [s \in Servers |-> << >>] /\ data = [s \in Servers |-> {}]
    /\ oldest = [s \in Servers |-> 0] /\ life = [s \in Servers |-> 0]
    /\ route \in Servers
    /\ pc = "idle" /\ srv = Nobody /\ adopt = {} /\ at = 0 /\ todo = {} /\ res = "none" /\ goal = {}
    /\ mark = [m \in Members |-> None] /\ marker = [m \in Members |-> Nobody]
    /\ by = [m \in Members |-> Nothing] /\ replica = [m \in Members |-> {}]
    /\ used = [w \in Spent |-> 0]

-----------------------------------------------------------------------------
(* The servers and the network *)

File(p) == p \div 2

\* m's watermark was issued by an earlier life of s's log than l.
Stale(m, s, l) == by[m][1] = s /\ by[m][2] # l

Change(s) ==
    /\ More("changes", world.changes) /\ Use("changes")
    /\ world.regrows \/ \A m \in Members : Stale(m, s, life[s]) => Len(log[s]) + 1 < mark[m]
    /\ log' = [log EXCEPT ![s] = Append(@, used["changes"] + 1)]
    /\ data' = [data EXCEPT ![s] = @ \union {used["changes"] + 1}]
    /\ UNCHANGED <<world, oldest, life, route, pc, srv, adopt, at, todo, res, goal, dest>>

\* The server's own retention.
Purge(s) ==
    /\ More("purges", MaxPurges) /\ oldest[s] < File(Len(log[s])) /\ Use("purges")
    /\ oldest' = [oldest EXCEPT ![s] = @ + 1]
    /\ UNCHANGED <<world, log, data, life, route, pc, srv, adopt, at, todo, res, goal, dest>>

\* RESET MASTER: the table keeps its rows.
Reset(s) ==
    /\ More("resets", MaxResets) /\ pc = "idle" /\ Use("resets")
    /\ world.regrows \/ \A m \in Members : Stale(m, s, life[s] + 1) => mark[m] > 0
    /\ log' = [log EXCEPT ![s] = << >>] /\ life' = [life EXCEPT ![s] = @ + 1]
    /\ oldest' = [oldest EXCEPT ![s] = 0]
    /\ UNCHANGED <<world, data, route, pc, srv, adopt, at, todo, res, goal, dest>>

\* A failover, a moved DNS record, a VIP.
Move(s) ==
    /\ More("moves", world.moves) /\ pc \in world.movesAt /\ s # route /\ Use("moves")
    /\ route' = s
    /\ UNCHANGED <<source, pc, srv, adopt, at, todo, res, goal, dest>>

Clear(what) ==
    /\ More("clears", MaxClears) /\ pc = "idle" /\ Use("clears")
    /\ mark' = [m \in Members |-> None] /\ by' = [m \in Members |-> Nothing]
    /\ marker' = IF what = "all" THEN [m \in Members |-> Nobody] ELSE marker
    /\ UNCHANGED <<source, route, pc, srv, adopt, at, todo, res, goal, replica>>

-----------------------------------------------------------------------------
(* A run *)

End(r) == pc' = "idle" /\ res' = r

\* A member was last drained from a different server.
Stranger(s) == \E m \in Members : marker[m] \notin {Nobody, s}

Identify ==
    /\ pc = "idle" /\ More("runs", MaxRuns) /\ Use("runs")
    /\ srv' = route
    /\ IF Stranger(route) THEN End("refused") /\ UNCHANGED adopt
       ELSE /\ adopt' = {m \in Members : marker[m] = Nobody}
            /\ pc' = "marks" /\ res' = "none"
    /\ UNCHANGED <<source, route, at, todo, goal, dest>>

Present == {m \in Members : mark[m] # None}

Torn ==
    /\ pc = "marks" /\ Present \notin {{}, Members} /\ End("refused")
    /\ UNCHANGED <<source, route, srv, adopt, at, todo, goal, dest, used>>

\* The coordinate is captured before the load.
Capture ==
    /\ pc = "marks" /\ Present = {}
    /\ at' = Len(log[srv]) /\ goal' = data[srv] /\ todo' = Members /\ pc' = "load"
    /\ UNCHANGED <<source, route, srv, adopt, res, dest, used>>

\* Replace: the rows, and every state row of the destination table.  The bulk
\* load connects by itself.
Load(m) ==
    /\ pc = "load" /\ m \in todo
    /\ replica' = [replica EXCEPT ![m] = data[route]]
    /\ mark' = [mark EXCEPT ![m] = None] /\ by' = [by EXCEPT ![m] = Nothing]
    /\ marker' = [marker EXCEPT ![m] = Nobody]
    /\ IF todo = {m} THEN todo' = Members /\ pc' = "finish"
                     ELSE todo' = todo \ {m} /\ UNCHANGED pc
    /\ UNCHANGED <<source, route, srv, adopt, at, res, goal, used>>

\* The watermark is the coordinate captured before the load.
FinishAt == at

Finish(m) ==
    /\ pc = "finish" /\ m \in todo
    /\ mark' = [mark EXCEPT ![m] = FinishAt] /\ by' = [by EXCEPT ![m] = <<srv, life[srv]>>]
    /\ todo' = todo \ {m}
    /\ pc' = IF todo = {m} THEN "stamp" ELSE "finish"
    /\ UNCHANGED <<source, route, srv, adopt, at, res, goal, marker, replica, used>>

\* clear_group names every member; each clear is best-effort.
ClearedGroup == Members

FinishFails ==
    /\ pc = "finish" /\ More("faults", world.faults) /\ Use("faults")
    /\ LET gone == IF More("faults", world.faults - 1) THEN {ClearedGroup, {}} ELSE {ClearedGroup}
       IN  \E c \in gone :
            /\ mark' = [m \in Members |-> IF m \in c THEN None ELSE mark[m]]
            /\ by' = [m \in Members |-> IF m \in c THEN Nothing ELSE by[m]]
    /\ End("failed")
    /\ UNCHANGED <<source, route, srv, adopt, at, todo, goal, marker, replica>>

Low == Min({mark[m] : m \in Members})

\* member_cap: the next member position above the minimum.
MemberCap == {mark[m] : m \in Members} \ {Low}

Stop == Min({Len(log[srv])} \union MemberCap)

\* A log only grows: a position ahead of it is another log's.
Ahead(p, s) == p > Len(log[s])

Drain ==
    /\ pc = "marks" /\ Present = Members
    /\ at' = Stop
    /\ goal' = IF MemberCap = {} THEN data[srv] ELSE {}
    /\ \/ Ahead(Low, srv) /\ End("refused") /\ UNCHANGED todo
       \/ ~Ahead(Low, srv) /\ Low >= Stop /\ pc' = "stamp" /\ UNCHANGED <<res, todo>>
       \/ /\ ~Ahead(Low, srv) /\ Low < Stop
          /\ IF File(Low) < oldest[srv] THEN End("refused") /\ UNCHANGED todo
             ELSE pc' = "dial" /\ todo' = {m \in Members : mark[m] < Stop} /\ UNCHANGED res
    /\ UNCHANGED <<source, route, srv, adopt, dest, used>>

\* Mutant: any node whose log reaches the stop line.
AnyNode == Len(log[route]) >= at

\* The binlog connection must be on the server the pool is on.
SameNode == route = srv

\* The server itself answers a position it has purged with an error.
Dial ==
    /\ pc = "dial"
    /\ IF SameNode /\ File(Low) >= oldest[route]
       THEN pc' = "apply" /\ srv' = route /\ UNCHANGED res
       ELSE End("refused") /\ UNCHANGED srv
    /\ UNCHANGED <<source, route, adopt, at, todo, goal, dest, used>>

\* One unit per member: its rows and its watermark.  A server whose log is
\* shorter than the stop line sends what it has.
Apply(m) ==
    /\ pc = "apply" /\ m \in todo
    /\ replica' = [replica EXCEPT ![m] =
                     @ \union {log[srv][i] : i \in (mark[m] + 1)..Min({at, Len(log[srv])})}]
    /\ mark' = [mark EXCEPT ![m] = at]
    /\ todo' = todo \ {m}
    /\ pc' = IF todo = {m} THEN "stamp" ELSE "apply"
    /\ UNCHANGED <<source, route, srv, adopt, at, res, goal, marker, by, used>>

\* The marker is written once the run's own state is durable, for the members
\* that had none when the run began.
Stamp ==
    /\ pc = "stamp"
    /\ marker' = [m \in Members |-> IF m \in adopt THEN srv ELSE marker[m]]
    /\ End("ok")
    /\ UNCHANGED <<source, route, srv, adopt, at, todo, goal, mark, by, replica, used>>

Crash ==
    /\ pc # "idle" /\ More("faults", world.faults) /\ Use("faults") /\ End("failed")
    /\ UNCHANGED <<source, route, srv, adopt, at, todo, goal, dest>>

Run == Identify \/ Torn \/ Capture \/ Drain \/ Dial \/ Stamp
       \/ \E m \in Members : Load(m) \/ Finish(m) \/ Apply(m)
Env == Crash \/ FinishFails \/ (\E s \in Servers : Change(s) \/ Purge(s) \/ Reset(s) \/ Move(s))
       \/ \E c \in world.clears : Clear(c)
Rest == pc = "idle" /\ UNCHANGED groupVars

GroupNext == Run \/ Env \/ Rest
GroupSpec == GroupInit /\ [][GroupNext]_groupVars

-----------------------------------------------------------------------------
(* Properties *)

\* Where a position is worth something: a reset log stays below it, and either the URL stays
\* where it is, or nothing fails, no watermark is cleared without its marker and no load is
\* under way when it moves.
Anchored ==
    /\ ~world.regrows
    /\ \/ world.movesAt = {}
       \/ /\ world.faults = 0 /\ "rows" \notin world.clears
          /\ world.movesAt \cap {"marks", "load"} = {}

\* A watermark's rows are the issuing server's: whatever the URL reached in
\* between, nothing of another server's log is applied to the table a stored
\* position stands for (server_identity, the marker rows, the wire check).
Pure == \A m \in Present : by[m][1] # Nobody => replica[m] \subseteq data[by[m][1]]

\* The destination holds everything up to its watermark, as the issuing server's
\* log counts it (capture before load, clear_group, member_cap).
NoGap ==
    \A m \in Present : LET s == by[m][1] IN
        s # Nobody /\ by[m][2] = life[s] =>
            data[s] \ {log[s][i] : i \in (mark[m] + 1)..Len(log[s])} \subseteq replica[m]

\* A run that reports success brought every change its server had when the stop
\* line was read: never zero changes over a hole (the AHEAD and purge guards).
SuccessIsWhole == res = "ok" => \A m \in Members : goal \subseteq replica[m]

\* Every member holds its server's changes up to its watermark without a gap and nothing of
\* another server's, and a run that reports success has brought what the server had when it
\* began, through crashes, failed clean-ups, purges, resets of the log and moves of the URL
\* (bootstrap_mysql, drain_windows, check_server, stamp).
Whole == Anchored => Pure /\ NoGap /\ SuccessIsWhole

-----------------------------------------------------------------------------
(* Wholeness is proved for every set of servers and members and every world. *)

GroupTypeOK ==
    /\ world \in Worlds
    /\ log \in [Servers -> Seq(Nat)] /\ data \in [Servers -> SUBSET Nat]
    /\ oldest \in [Servers -> Nat] /\ life \in [Servers -> Nat]
    /\ route \in Servers
    /\ pc \in Phases /\ srv \in Servers \cup {Nobody} /\ adopt \subseteq Members
    /\ at \in Nat /\ todo \subseteq Members
    /\ res \in {"none", "ok", "refused", "failed"} /\ goal \subseteq Nat
    /\ mark \in [Members -> Nat \cup {None}]
    /\ marker \in [Members -> Servers \cup {Nobody}]
    /\ by \in [Members -> (Servers \cup {Nobody}) \X Nat]
    /\ replica \in [Members -> SUBSET Nat]
    /\ used \in [Spent -> Nat]

\* The changes of a log past p and up to q.
Between(l, p, q) == {l[i] : i \in (p + 1)..q}

\* Everything s holds that its log does not name after p.
UpTo(s, p) == data[s] \ Between(log[s], p, Len(log[s]))

\* A watermark of the log that stands is at one of its positions and true; one of an earlier
\* life of that log is ahead of it.
MemberFits(m) ==
    LET s == by[m][1] IN
        /\ s \in Servers /\ by[m][2] <= life[s]
        /\ replica[m] \subseteq data[s]
        /\ \/ by[m][2] = life[s] /\ mark[m] <= Len(log[s]) /\ UpTo(s, mark[m]) \subseteq replica[m]
           \/ by[m][2] < life[s] /\ mark[m] > Len(log[s])

Fits ==
    /\ \A s \in Servers : Between(log[s], 0, Len(log[s])) \subseteq data[s]
    /\ \A m \in Present : MemberFits(m)

\* While the URL moves, a marker stands beside every watermark a finished run left.
Marked ==
    /\ \A m \in Members : IF mark[m] = None THEN marker[m] = Nobody
                          ELSE marker[m] = by[m][1] \/ (pc \in {"finish", "stamp"} /\ m \in adopt)
    /\ pc = "marks" => adopt = {m \in Members : marker[m] = Nobody}
    /\ pc \in {"load", "finish"} => adopt = Members

\* A run is on the server that issued the watermarks it resumes from.
Home ==
    /\ pc # "idle" => \A m \in Present : by[m][1] = srv
    /\ pc \in {"marks", "load"} => route = srv
    /\ IF world.movesAt = {}
       THEN (pc # "idle" => srv = route) /\ \A m \in Present : by[m][1] = route
       ELSE Marked

\* A loaded member holds all the server had when the coordinate was captured, and more.
Loaded(m) == goal \subseteq replica[m] /\ UpTo(srv, at) \subseteq replica[m]
             /\ replica[m] \subseteq data[srv]

\* What holds in every world.
Steady ==
    /\ pc # "idle" => srv \in Servers
    /\ pc = "finish" => \A m \in Members \ todo : mark[m] # None
    /\ pc \in {"dial", "apply", "stamp"} => Present = Members

\* What a run knows at its phase.
Place ==
    /\ pc # "idle" => res = "none"
    /\ res = "ok" \/ pc = "stamp" => \A m \in Members : goal \subseteq replica[m]
    /\ pc \in {"load", "finish", "dial", "apply"} => at <= Len(log[srv])
    /\ pc = "load" =>
         Present = {} /\ goal \subseteq data[srv] /\ \A m \in Members \ todo : Loaded(m)
    /\ pc = "finish" => \A m \in Members : Loaded(m)
    /\ pc \in {"dial", "apply"} => \A m \in Members :
         /\ m \in todo <=> mark[m] < at
         /\ goal \ Between(log[srv], mark[m], at) \subseteq replica[m]

GroupInv == GroupTypeOK /\ Steady /\ (Anchored => Fits /\ Home /\ Place)

-----------------------------------------------------------------------------
Less == {p \in Nat \X Nat : p[1] < p[2]}

\* A set of naturals has a least member, and Min is it.
LEMMA MinLeast ==
    ASSUME NEW S \in SUBSET Nat, S # {}
    PROVE  Min(S) \in S /\ \A x \in S : Min(S) <= x
<1>1. OpToRel(<, Nat) = Less
  BY DEF OpToRel, Less
<1>2. PICK g \in S : \A y \in S : ~(<<y, g>> \in Less)
  BY <1>1, NatLessThanWellFounded, WFMin
<1>3. \A a, b \in Nat : a < b => <<a, b>> \in Less
  BY DEF Less
<1>4. \A x \in S : g <= x
  <2> TAKE x \in S
  <2>1. x \in Nat /\ g \in Nat /\ ~(x < g)
    BY <1>2, <1>3
  <2> QED
    BY <2>1
<1>5. Min(S) \in S /\ \A x \in S : Min(S) <= x
  BY <1>4 DEF Min
<1> QED
  BY <1>5

LEMMA GroupTypeInit == MyGroupAssumption /\ GroupInit => GroupTypeOK
BY DEF MyGroupAssumption, GroupInit, GroupTypeOK, Phases, None, Nobody, Nothing, Spent

\* What a world is.
LEMMA WorldIs ==
    ASSUME MyGroupAssumption, GroupTypeOK
    PROVE  /\ world.movesAt \in SUBSET Phases /\ world.clears \in SUBSET {"rows", "all"}
           /\ world.changes \in Nat /\ world.moves \in Nat /\ world.faults \in Nat
BY DEF MyGroupAssumption, GroupTypeOK

\* Counting what happened keeps its type.
LEMMA UseType ==
    ASSUME GroupTypeOK, NEW w \in Spent, Use(w)
    PROVE  used' \in [Spent -> Nat]
BY DEF GroupTypeOK, Use

LEMMA EnvTypes ==
    ASSUME MyGroupAssumption, GroupTypeOK, Env
    PROVE  GroupTypeOK'
<1> USE DEF GroupTypeOK
<1>0. \A w \in Spent : used[w] \in Nat
  OBVIOUS
<1>1. ASSUME NEW s \in Servers, Change(s)
      PROVE  GroupTypeOK'
  <2>1. used["changes"] + 1 \in Nat
    BY <1>0 DEF Spent
  <2>2. log' \in [Servers -> Seq(Nat)] /\ data' \in [Servers -> SUBSET Nat]
    BY <1>1, <2>1 DEF Change
  <2>3. used' \in [Spent -> Nat]
    BY <1>1, UseType DEF Change, Spent
  <2> QED
    BY <1>1, <2>2, <2>3 DEF Change, source, dest
<1>2. ASSUME NEW s \in Servers, Purge(s)
      PROVE  GroupTypeOK'
  <2>1. used' \in [Spent -> Nat]
    BY <1>2, UseType DEF Purge, Spent
  <2> QED
    BY <1>2, <2>1 DEF Purge, dest
<1>3. ASSUME NEW s \in Servers, Reset(s)
      PROVE  GroupTypeOK'
  <2>1. used' \in [Spent -> Nat]
    BY <1>3, UseType DEF Reset, Spent
  <2> QED
    BY <1>3, <2>1 DEF Reset, dest
<1>4. ASSUME NEW s \in Servers, Move(s)
      PROVE  GroupTypeOK'
  <2>1. used' \in [Spent -> Nat]
    BY <1>4, UseType DEF Move, Spent
  <2> QED
    BY <1>4, <2>1 DEF Move, source, dest
<1>5. ASSUME NEW c \in world.clears, Clear(c)
      PROVE  GroupTypeOK'
  <2>1. used' \in [Spent -> Nat]
    BY <1>5, UseType DEF Clear, Spent
  <2>2. /\ mark' \in [Members -> Nat \cup {None}]
        /\ by' \in [Members -> (Servers \cup {Nobody}) \X Nat]
        /\ marker' \in [Members -> Servers \cup {Nobody}]
    BY <1>5 DEF Clear, Nothing
  <2> QED
    BY <1>5, <2>1, <2>2 DEF Clear, source
<1>6. CASE Crash
  <2>1. used' \in [Spent -> Nat]
    BY <1>6, UseType DEF Crash, Spent
  <2> QED
    BY <1>6, <2>1 DEF Crash, End, Phases, source, dest
<1>7. CASE FinishFails
  <2>1. used' \in [Spent -> Nat]
    BY <1>7, UseType DEF FinishFails, Spent
  <2>2. /\ mark' \in [Members -> Nat \cup {None}]
        /\ by' \in [Members -> (Servers \cup {Nobody}) \X Nat]
    BY <1>7 DEF FinishFails, Nothing
  <2> QED
    BY <1>7, <2>1, <2>2 DEF FinishFails, End, Phases, source
<1> QED
  BY <1>1, <1>2, <1>3, <1>4, <1>5, <1>6, <1>7 DEF Env

\* The lowest watermark and the stop line of a pass.
LEMMA PassIs ==
    ASSUME MyGroupAssumption, GroupTypeOK, Present = Members, srv \in Servers
    PROVE  /\ \A m \in Members : mark[m] \in Nat
           /\ Low \in Nat /\ \E m \in Members : mark[m] = Low
           /\ Stop \in Nat /\ Stop <= Len(log[srv])
           /\ MemberCap = {} => Stop = Len(log[srv]) /\ \A m \in Members : mark[m] = Low
<1>1. \A m \in Members : mark[m] \in Nat
  BY DEF GroupTypeOK, Present
<1>2. {mark[m] : m \in Members} \in SUBSET Nat /\ {mark[m] : m \in Members} # {}
  BY <1>1 DEF MyGroupAssumption
<1>3. Low \in {mark[m] : m \in Members}
  BY <1>2, MinLeast DEF Low
<1>4. Len(log[srv]) \in Nat
  BY DEF GroupTypeOK
<1> DEFINE L == Len(log[srv])
           S == {L} \union MemberCap
<1>5. S \in SUBSET Nat /\ L \in S
  BY <1>2, <1>4 DEF MemberCap
<1> HIDE DEF L
<1>6. Min(S) \in S /\ Min(S) <= L
  BY <1>5, MinLeast
<1>7. Stop = Min(S)
  BY DEF Stop, L
<1>8. MemberCap = {} => S = {L}
  OBVIOUS
<1>9. MemberCap = {} => \A m \in Members : mark[m] = Low
  BY DEF MemberCap
<1> HIDE DEF S
<1>10. Stop \in Nat /\ Stop <= L
  BY <1>5, <1>6, <1>7
<1>11. MemberCap = {} => Stop = L
  BY <1>6, <1>7, <1>8
<1> QED
  BY <1>1, <1>2, <1>3, <1>9, <1>10, <1>11 DEF L

LEMMA RunTypes ==
    ASSUME MyGroupAssumption, GroupTypeOK, Run,
           Steady
    PROVE  GroupTypeOK'
<1> USE DEF GroupTypeOK
<1>0. pc # "idle" => /\ srv \in Servers /\ Len(log[srv]) \in Nat
                      /\ data[srv] \in SUBSET Nat /\ life[srv] \in Nat
  BY DEF Steady
<1>1. CASE Identify
  <2>1. used' \in [Spent -> Nat]
    BY <1>1, UseType DEF Identify, Spent
  <2> QED
    BY <1>1, <2>1 DEF Identify, End, Phases, source, dest
<1>2. CASE Torn
  BY <1>2 DEF Torn, End, Phases, source, dest
<1>3. CASE Capture
  BY <1>0, <1>3 DEF Capture, Phases, source, dest
<1>4. CASE Drain
  <2>1. pc = "marks" /\ Present = Members
    BY <1>4 DEF Drain
  <2>2. Stop \in Nat
    BY <1>0, <2>1, PassIs
  <2>3. at' \in Nat /\ goal' \subseteq Nat
    BY <1>0, <1>4, <2>1, <2>2 DEF Drain
  <2>4. todo' \subseteq Members /\ pc' \in Phases
        /\ res' \in {"none", "ok", "refused", "failed"}
    BY <1>4 DEF Drain, End, Phases
  <2> QED
    BY <1>4, <2>3, <2>4 DEF Drain, source, dest
<1>5. CASE Dial
  BY <1>5 DEF Dial, End, Phases, source, dest
<1>6. CASE Stamp
  BY <1>0, <1>6 DEF Stamp, End, Phases, source
<1>7. ASSUME NEW m \in Members, Load(m)
      PROVE  GroupTypeOK'
  <2>1. data[route] \in SUBSET Nat
    OBVIOUS
  <2>2. /\ replica' \in [Members -> SUBSET Nat]
        /\ mark' \in [Members -> Nat \cup {None}]
        /\ by' \in [Members -> (Servers \cup {Nobody}) \X Nat]
        /\ marker' \in [Members -> Servers \cup {Nobody}]
    BY <1>7, <2>1 DEF Load, Nothing
  <2> QED
    BY <1>7, <2>2 DEF Load, Phases, source
<1>8. ASSUME NEW m \in Members, Finish(m)
      PROVE  GroupTypeOK'
  <2>1. /\ mark' \in [Members -> Nat \cup {None}]
        /\ by' \in [Members -> (Servers \cup {Nobody}) \X Nat]
    BY <1>0, <1>8 DEF Finish, FinishAt
  <2> QED
    BY <1>8, <2>1 DEF Finish, Phases, source
<1>9. ASSUME NEW m \in Members, Apply(m), srv \in Servers,
             Between(log[srv], mark[m], Min({at, Len(log[srv])})) \in SUBSET Nat
      PROVE  GroupTypeOK'
  <2>1. /\ replica' \in [Members -> SUBSET Nat]
        /\ mark' \in [Members -> Nat \cup {None}]
    BY <1>9 DEF Apply, Between
  <2> QED
    BY <1>9, <2>1 DEF Apply, Phases, source
<1>10. ASSUME NEW m \in Members, Apply(m)
       PROVE  srv \in Servers /\ Between(log[srv], mark[m], Min({at, Len(log[srv])})) \in SUBSET Nat
  <2>1. srv \in Servers /\ at \in Nat /\ Len(log[srv]) \in Nat
    BY <1>0, <1>10 DEF Apply
  <2>2. {at, Len(log[srv])} \in SUBSET Nat /\ {at, Len(log[srv])} # {}
    BY <2>1
  <2> DEFINE M == Min({at, Len(log[srv])})
  <2>3. M \in Nat /\ M <= Len(log[srv])
    BY <2>2, MinLeast
  <2> HIDE DEF M
  <2>4. mark[m] \in Nat \cup {-1}
    BY DEF None
  <2>5. log[srv] \in Seq(Nat)
    BY <2>1
  <2>6. ASSUME NEW i \in (mark[m] + 1)..M
        PROVE  log[srv][i] \in Nat
    <3>1. i \in 1..Len(log[srv]) \/ mark[m] = -1
      BY <2>1, <2>3, <2>4
    <3>2. mark[m] # -1
      BY <1>10 DEF Apply, Steady, Present, None
    <3> QED
      BY <2>5, <3>1, <3>2
  <2> QED
    BY <2>1, <2>6 DEF Between, M
<1> QED
  BY <1>1, <1>2, <1>3, <1>4, <1>5, <1>6, <1>7, <1>8, <1>9, <1>10 DEF Run

LEMMA SteadyStep ==
    ASSUME MyGroupAssumption, GroupTypeOK, Steady, GroupNext
    PROVE  Steady'
<1> USE DEF Steady, Present
<1>1. CASE Identify
  BY <1>1 DEF Identify, End, source, dest, GroupTypeOK
<1>2. CASE Torn
  BY <1>2 DEF Torn, End
<1>3. CASE Capture
  BY <1>3 DEF Capture, dest
<1>4. CASE Drain
  BY <1>4 DEF Drain, End, dest
<1>5. CASE Dial
  BY <1>5 DEF Dial, End, dest, GroupTypeOK
<1>6. CASE Stamp
  BY <1>6 DEF Stamp, End
<1>7. ASSUME NEW m \in Members, Load(m)
      PROVE  Steady'
  BY <1>7 DEF Load
<1>8. ASSUME NEW m \in Members, Finish(m)
      PROVE  Steady'
  <2>1. mark' = [mark EXCEPT ![m] = at] /\ at # None
    BY <1>8 DEF Finish, FinishAt, GroupTypeOK, None
  <2>2. \A p \in Members \ todo' : mark'[p] # None
    BY <1>8, <2>1 DEF Finish, GroupTypeOK
  <2> QED
    BY <1>8, <2>2 DEF Finish
<1>9. ASSUME NEW m \in Members, Apply(m)
      PROVE  Steady'
  <2>1. mark' = [mark EXCEPT ![m] = at] /\ at # None
    BY <1>9 DEF Apply, GroupTypeOK, None
  <2> QED
    BY <1>9, <2>1 DEF Apply, GroupTypeOK
<1>10. ASSUME NEW s \in Servers, Change(s) \/ Purge(s) \/ Reset(s) \/ Move(s)
       PROVE  Steady'
  BY <1>10 DEF Change, Purge, Reset, Move, source, dest
<1>11. ASSUME NEW c \in world.clears, Clear(c)
       PROVE  Steady'
  BY <1>11 DEF Clear
<1>12. CASE Crash \/ FinishFails
  BY <1>12 DEF Crash, FinishFails, End
<1>13. CASE Rest
  BY <1>13 DEF Rest, groupVars
<1> QED
  BY <1>1, <1>2, <1>3, <1>4, <1>5, <1>6, <1>7, <1>8, <1>9, <1>10, <1>11, <1>12, <1>13
     DEF GroupNext, Run, Env

\* The types and the shape carry over every step.
LEMMA TypeStep ==
    MyGroupAssumption /\ GroupTypeOK /\ Steady /\ [GroupNext]_groupVars
      => GroupTypeOK' /\ Steady'
<1> SUFFICES ASSUME MyGroupAssumption, GroupTypeOK, Steady, [GroupNext]_groupVars
             PROVE  GroupTypeOK' /\ Steady'
  OBVIOUS
<1>1. CASE Run
  BY <1>1, RunTypes, SteadyStep DEF GroupNext
<1>2. CASE Env
  BY <1>2, EnvTypes, SteadyStep DEF GroupNext
<1>3. CASE UNCHANGED groupVars
  BY <1>3 DEF groupVars, GroupTypeOK, Steady, Present
<1> QED
  BY <1>1, <1>2, <1>3 DEF GroupNext, Rest

-----------------------------------------------------------------------------
(* What the servers and the operator do.                                     *)

Core == /\ MyGroupAssumption /\ GroupTypeOK /\ GroupTypeOK' /\ Steady /\ Steady'
        /\ Anchored /\ Fits /\ Home /\ Place
Kept == Fits' /\ Home' /\ Place'

\* A change goes to the end of the log.
LEMMA BetweenAppend ==
    ASSUME NEW l \in Seq(Nat), NEW x \in Nat, NEW p \in Nat
    PROVE  /\ Len(Append(l, x)) = Len(l) + 1
           /\ \A q \in Nat : q <= Len(l) => Between(Append(l, x), p, q) = Between(l, p, q)
           /\ p <= Len(l) =>
                Between(Append(l, x), p, Len(l) + 1) = Between(l, p, Len(l)) \cup {x}
<1>1. Len(Append(l, x)) = Len(l) + 1 /\ Len(l) \in Nat
      /\ Append(l, x)[Len(l) + 1] = x /\ \A i \in 1..Len(l) : Append(l, x)[i] = l[i]
  OBVIOUS
<1>2. ASSUME NEW q \in Nat, q <= Len(l)
      PROVE  Between(Append(l, x), p, q) = Between(l, p, q)
  <2>1. \A i \in (p + 1)..q : i \in 1..Len(l)
    BY <1>1, <1>2
  <2> QED
    BY <1>1, <2>1 DEF Between
<1>3. ASSUME p <= Len(l)
      PROVE  Between(Append(l, x), p, Len(l) + 1) = Between(l, p, Len(l)) \cup {x}
  <2>1. \A i \in (p + 1)..(Len(l) + 1) : i \in (p + 1)..Len(l) \/ i = Len(l) + 1
    BY <1>1
  <2>2. \A i \in (p + 1)..Len(l) : i \in (p + 1)..(Len(l) + 1) /\ Append(l, x)[i] = l[i]
    BY <1>1
  <2>3. Len(l) + 1 \in (p + 1)..(Len(l) + 1)
    BY <1>1, <1>3
  <2> QED
    BY <1>1, <2>1, <2>2, <2>3 DEF Between
<1> QED
  BY <1>1, <1>2, <1>3

\* What a server holds up to one of its positions does not grow.
LEMMA ChangeGrows ==
    ASSUME GroupTypeOK, NEW s \in Servers, Change(s), NEW t \in Servers
    PROVE  /\ Len(log[t]) \in Nat /\ Len(log'[t]) \in Nat /\ Len(log[t]) <= Len(log'[t])
           /\ data[t] \subseteq data'[t]
           /\ \A p, q \in Nat : q <= Len(log[t]) => Between(log'[t], p, q) = Between(log[t], p, q)
           /\ \A p \in Nat : p <= Len(log[t]) =>
                data'[t] \ Between(log'[t], p, Len(log'[t])) \subseteq UpTo(t, p)
           /\ Between(log[t], 0, Len(log[t])) \subseteq data[t] =>
                Between(log'[t], 0, Len(log'[t])) \subseteq data'[t]
           /\ Len(log'[t]) = IF t = s THEN Len(log[t]) + 1 ELSE Len(log[t])
<1>1. log[t] \in Seq(Nat) /\ Len(log[t]) \in Nat
  BY DEF GroupTypeOK
<1>2. CASE t # s
  <2>1. log'[t] = log[t] /\ data'[t] = data[t]
    BY <1>2 DEF Change, GroupTypeOK
  <2> QED
    BY <1>1, <1>2, <2>1 DEF UpTo
<1>3. CASE t = s
  <2> DEFINE x == used["changes"] + 1
  <2>1. x \in Nat
    BY DEF GroupTypeOK, Spent
  <2>2. log'[t] = Append(log[t], x) /\ data'[t] = data[t] \cup {x}
    BY <1>3 DEF Change, GroupTypeOK
  <2> HIDE DEF x
  <2>3. Len(log'[t]) = Len(log[t]) + 1
    BY <1>1, <2>1, <2>2, BetweenAppend, 0 \in Nat
  <2>4. \A p, q \in Nat : q <= Len(log[t]) => Between(log'[t], p, q) = Between(log[t], p, q)
    BY <1>1, <2>1, <2>2, BetweenAppend
  <2>5. ASSUME NEW p \in Nat, p <= Len(log[t])
        PROVE  Between(log'[t], p, Len(log'[t])) = Between(log[t], p, Len(log[t])) \cup {x}
    <3>1. Between(Append(log[t], x), p, Len(log[t]) + 1)
            = Between(log[t], p, Len(log[t])) \cup {x}
      BY <1>1, <2>1, <2>5, BetweenAppend
    <3> QED
      BY <2>2, <2>3, <3>1
  <2>6. \A p \in Nat : p <= Len(log[t]) =>
           data'[t] \ Between(log'[t], p, Len(log'[t])) \subseteq UpTo(t, p)
    BY <2>2, <2>5 DEF UpTo
  <2>7. Between(log'[t], 0, Len(log'[t])) = Between(log[t], 0, Len(log[t])) \cup {x}
    BY <1>1, <2>5
  <2> QED
    BY <1>1, <1>3, <2>2, <2>3, <2>4, <2>6, <2>7
<1> QED
  BY <1>2, <1>3

LEMMA ChangeKeeps ==
    ASSUME Core, NEW s \in Servers, Change(s)
    PROVE  Kept
<1>1. UNCHANGED <<world, oldest, life, route, pc, srv, adopt, at, todo, res, goal,
                  mark, marker, by, replica>>
  BY DEF Change, dest
<1>2. Present' = Present
  BY <1>1 DEF Present
<1>3. \A m \in Present : mark[m] \in Nat /\ m \in Members
  BY DEF Core, GroupTypeOK, Present
<1>4. ASSUME NEW m \in Present
      PROVE  MemberFits(m)'
  <2> DEFINE t == by[m][1]
  <2>1. MemberFits(m) /\ mark[m] \in Nat /\ m \in Members
    BY <1>3 DEF Core, Fits
  <2>2. t \in Servers /\ replica[m] \subseteq data'[t] /\ life[t] \in Nat /\ by[m][2] \in Nat
    BY <2>1, ChangeGrows DEF Core, MemberFits, GroupTypeOK
  <2>3. CASE by[m][2] = life[t] /\ mark[m] <= Len(log[t]) /\ UpTo(t, mark[m]) \subseteq replica[m]
    <3>1. /\ mark[m] <= Len(log'[t])
          /\ data'[t] \ Between(log'[t], mark[m], Len(log'[t])) \subseteq replica[m]
      BY <2>1, <2>2, <2>3, ChangeGrows DEF Core
    <3> QED
      BY <1>1, <2>2, <2>3, <3>1 DEF MemberFits, UpTo
  <2>4. CASE by[m][2] < life[t] /\ mark[m] > Len(log[t])
    <3>1. t = s => Len(log[s]) + 1 < mark[m]
      BY <2>1, <2>2, <2>4 DEF Change, Stale, Core, Anchored
    <3>2. mark[m] > Len(log'[t])
      BY <2>1, <2>2, <2>4, <3>1, ChangeGrows DEF Core
    <3> QED
      BY <1>1, <2>2, <2>4, <3>2 DEF MemberFits
  <2> QED
    BY <2>1, <2>3, <2>4 DEF MemberFits
<1>5. Fits'
  <2>1. \A t \in Servers : Between(log'[t], 0, Len(log'[t])) \subseteq data'[t]
    BY ChangeGrows DEF Core, Fits
  <2> QED
    BY <1>2, <1>4, <2>1 DEF Fits
<1>6. Home'
  BY <1>1, <1>2 DEF Core, Home, Marked
<1>7. pc # "idle" => srv \in Servers /\ at \in Nat
  BY DEF Core, Steady, GroupTypeOK
<1>8. ASSUME NEW m \in Members, pc \in {"load", "finish"}, Loaded(m)
      PROVE  Loaded(m)'
  <2>1. at <= Len(log[srv])
    BY <1>8 DEF Core, Place
  <2>2. data'[srv] \ Between(log'[srv], at, Len(log'[srv])) \subseteq UpTo(srv, at)
        /\ data[srv] \subseteq data'[srv]
    BY <1>7, <1>8, <2>1, ChangeGrows DEF Core
  <2> QED
    BY <1>1, <1>8, <2>2 DEF Loaded, UpTo
<1>9. ASSUME pc \in {"dial", "apply"}, NEW m \in Members
      PROVE  Between(log'[srv], mark[m], at) = Between(log[srv], mark[m], at)
  <2>1. at <= Len(log[srv]) /\ mark[m] \in Nat
    BY <1>3, <1>9 DEF Core, Place, Steady
  <2> QED
    BY <1>7, <1>9, <2>1, ChangeGrows DEF Core
<1>10. pc \in {"load", "finish", "dial", "apply"} => at <= Len(log'[srv])
       /\ data[srv] \subseteq data'[srv]
  <2>1. pc \in {"load", "finish", "dial", "apply"} => at <= Len(log[srv])
    BY DEF Core, Place
  <2> QED
    BY <1>7, <2>1, ChangeGrows DEF Core
<1>11. Place'
  BY <1>1, <1>2, <1>8, <1>9, <1>10 DEF Core, Place
<1> QED
  BY <1>5, <1>6, <1>11 DEF Kept

\* What a step leaves alone.
LEMMA FitsSame ==
    ASSUME Fits, UNCHANGED <<log, data, life, mark, by, replica>>
    PROVE  Fits'
BY DEF Fits, MemberFits, UpTo, Present

LEMMA PurgeKeeps ==
    ASSUME Core, NEW s \in Servers, Purge(s)
    PROVE  Kept
<1>1. UNCHANGED <<world, log, data, life, route, pc, srv, adopt, at, todo, res, goal,
                  mark, marker, by, replica>>
  BY DEF Purge, dest
<1> QED
  BY <1>1, FitsSame DEF Core, Kept, Home, Marked, Place, Loaded, UpTo, Present

LEMMA ResetKeeps ==
    ASSUME Core, NEW s \in Servers, Reset(s)
    PROVE  Kept
<1>1. /\ UNCHANGED <<world, data, route, pc, srv, adopt, at, todo, res, goal,
                     mark, marker, by, replica>>
      /\ pc = "idle" /\ log' = [log EXCEPT ![s] = << >>]
      /\ life' = [life EXCEPT ![s] = @ + 1]
  BY DEF Reset, dest
<1>2. Present' = Present
  BY <1>1 DEF Present
<1>3. \A t \in Servers : Between(log'[t], 0, Len(log'[t])) \subseteq data'[t]
  <2> TAKE t \in Servers
  <2>1. CASE t = s
    <3>1. log'[t] = << >> /\ Len(log'[t]) = 0
      BY <1>1, <2>1 DEF Core, GroupTypeOK
    <3>2. Between(log'[t], 0, 0) = {}
      BY DEF Between
    <3> QED
      BY <3>1, <3>2
  <2>2. CASE t # s
    <3>1. log'[t] = log[t]
      BY <1>1, <2>2 DEF Core, GroupTypeOK
    <3> QED
      BY <1>1, <3>1 DEF Core, Fits
  <2> QED
    BY <2>1, <2>2
<1>4. ASSUME NEW m \in Present
      PROVE  MemberFits(m)'
  <2> DEFINE t == by[m][1]
  <2>1. MemberFits(m) /\ mark[m] \in Nat /\ m \in Members
    BY DEF Core, Fits, Present, GroupTypeOK
  <2>2. t \in Servers /\ replica[m] \subseteq data[t] /\ life[t] \in Nat /\ by[m][2] \in Nat
        /\ by[m][2] <= life[t]
    BY <2>1 DEF Core, MemberFits, GroupTypeOK
  <2>3. CASE t = s
    <3>1. log'[t] = << >> /\ Len(log'[t]) = 0 /\ life'[t] = life[t] + 1
      BY <1>1, <2>2, <2>3 DEF Core, GroupTypeOK
    <3>2. Stale(m, s, life[s] + 1)
      BY <2>2, <2>3 DEF Stale
    <3>3. mark[m] > 0
      BY <2>1, <3>2 DEF Reset, Core, Anchored
    <3> QED
      BY <1>1, <2>2, <2>3, <3>1, <3>3 DEF MemberFits
  <2>4. CASE t # s
    <3>1. log'[t] = log[t] /\ life'[t] = life[t]
      BY <1>1, <2>2, <2>4 DEF Core, GroupTypeOK
    <3> QED
      BY <1>1, <2>1, <3>1 DEF MemberFits, UpTo
  <2> QED
    BY <2>3, <2>4
<1>5. Fits'
  BY <1>2, <1>3, <1>4 DEF Fits
<1>6. Home'
  BY <1>1, <1>2 DEF Core, Home, Marked
<1>7. Place'
  BY <1>1, <1>2 DEF Core, Place
<1> QED
  BY <1>5, <1>6, <1>7 DEF Kept

LEMMA MoveKeeps ==
    ASSUME Core, NEW s \in Servers, Move(s)
    PROVE  Kept
<1>1. /\ UNCHANGED <<world, log, data, life, pc, srv, adopt, at, todo, res, goal,
                     mark, marker, by, replica>>
      /\ pc \in world.movesAt
  BY DEF Move, source, dest
<1>2. world.movesAt # {} /\ pc \notin {"marks", "load"}
  BY <1>1 DEF Core, Anchored
<1>3. Home'
  BY <1>1, <1>2 DEF Core, Home, Marked, Present
<1> QED
  BY <1>1, <1>3, FitsSame DEF Core, Kept, Place, Loaded, UpTo, Present

LEMMA ClearKeeps ==
    ASSUME Core, NEW c \in world.clears, Clear(c)
    PROVE  Kept
<1>1. /\ UNCHANGED <<world, log, data, life, route, pc, srv, adopt, at, todo, res, goal,
                     replica>>
      /\ pc = "idle" /\ mark' = [m \in Members |-> None]
      /\ marker' = IF c = "all" THEN [m \in Members |-> Nobody] ELSE marker
  BY DEF Clear, source
<1>2. Present' = {}
  BY <1>1 DEF Present
<1>3. world.movesAt # {} => c = "all"
  BY WorldIs DEF Core, Anchored
<1>4. Fits'
  BY <1>1, <1>2 DEF Core, Fits
<1>5. Home'
  BY <1>1, <1>2, <1>3 DEF Core, Home, Marked
<1> QED
  BY <1>1, <1>4, <1>5 DEF Core, Kept, Place

\* A run that ends leaves what it wrote.
LEMMA EndKeeps ==
    ASSUME Core, UNCHANGED <<world, log, data, life, route, adopt, mark, marker, by, replica>>,
           pc' = "idle", res' \in {"refused", "failed"},
           world.movesAt # {} => pc \notin {"finish", "stamp"}
    PROVE  Kept
<1>1. Home'
  BY DEF Core, Home, Marked, Present
<1> QED
  BY <1>1, FitsSame DEF Core, Kept, Place

\* Nothing fails in a world without faults.
LEMMA FaultsMeant ==
    ASSUME Core, More("faults", world.faults)
    PROVE  world.faults # 0
<1>1. used["faults"] \in Nat
  BY DEF Core, GroupTypeOK, Spent
<1>2. world.faults \in Nat
  BY WorldIs DEF Core
<1> QED
  BY <1>1, <1>2 DEF More

LEMMA CrashKeeps ==
    ASSUME Core, Crash
    PROVE  Kept
<1>1. world.faults # 0
  BY FaultsMeant DEF Crash
<1> QED
  BY <1>1, EndKeeps DEF Crash, End, source, dest, Core, Anchored

LEMMA FinishFailsKeeps ==
    ASSUME Core, FinishFails
    PROVE  Kept
<1>1. /\ UNCHANGED <<world, log, data, life, route, goal, replica>>
      /\ pc' = "idle" /\ res' = "failed"
  BY DEF FinishFails, End, source
<1>2. world.faults # 0
  BY FaultsMeant DEF FinishFails
<1>3. world.movesAt = {}
  BY <1>2 DEF Core, Anchored
<1>4. PICK c \in SUBSET Members :
        /\ mark' = [m \in Members |-> IF m \in c THEN None ELSE mark[m]]
        /\ by' = [m \in Members |-> IF m \in c THEN Nothing ELSE by[m]]
  BY DEF FinishFails, ClearedGroup
<1>5. \A m \in Present' : m \in Present /\ mark'[m] = mark[m] /\ by'[m] = by[m]
  BY <1>4 DEF Present
<1>6. Fits'
  BY <1>1, <1>5 DEF Core, Fits, MemberFits, UpTo
<1>7. Home'
  BY <1>1, <1>3, <1>5 DEF Core, Home
<1> QED
  BY <1>1, <1>6, <1>7 DEF Core, Kept, Place

-----------------------------------------------------------------------------
(* What a run does.                                                          *)

LEMMA IdentifyKeeps ==
    ASSUME Core, Identify
    PROVE  Kept
<1>1. /\ UNCHANGED <<world, log, data, life, route, at, todo, goal, mark, marker, by, replica>>
      /\ pc = "idle" /\ srv' = route
      /\ \/ Stranger(route) /\ pc' = "idle" /\ res' = "refused" /\ adopt' = adopt
         \/ /\ ~Stranger(route) /\ pc' = "marks" /\ res' = "none"
            /\ adopt' = {m \in Members : marker[m] = Nobody}
  BY DEF Identify, End, source, dest
<1>2. route \in Servers /\ Nobody \notin Servers
  BY DEF Core, GroupTypeOK, MyGroupAssumption
<1>3. Home'
  <2>1. CASE world.movesAt = {}
    BY <1>1, <2>1 DEF Core, Home, Present
  <2>2. CASE world.movesAt # {} /\ pc' = "idle"
    BY <1>1, <2>2 DEF Core, Home, Marked, Present
  <2>3. CASE world.movesAt # {} /\ pc' = "marks"
    <3>1. \A m \in Present : by[m][1] \in Servers /\ marker[m] = by[m][1]
      BY <1>1, <2>3 DEF Core, Fits, MemberFits, Home, Marked, Present
    <3>2. \A m \in Present : by[m][1] = route
      BY <1>1, <1>2, <2>3, <3>1 DEF Stranger, Present
    <3>3. Marked'
      BY <1>1, <2>3, <3>1 DEF Core, Home, Marked, Present
    <3> QED
      BY <1>1, <2>3, <3>2, <3>3 DEF Home, Present
  <2> QED
    BY <1>1, <2>1, <2>2, <2>3
<1> QED
  BY <1>1, <1>3, FitsSame DEF Core, Kept, Place

LEMMA TornKeeps ==
    ASSUME Core, Torn
    PROVE  Kept
BY EndKeeps DEF Torn, End, source, dest

LEMMA CaptureKeeps ==
    ASSUME Core, Capture
    PROVE  Kept
<1>1. /\ UNCHANGED <<world, log, data, life, route, srv, adopt, res, mark, marker, by, replica>>
      /\ pc = "marks" /\ pc' = "load" /\ Present = {}
      /\ at' = Len(log[srv]) /\ goal' = data[srv] /\ todo' = Members
  BY DEF Capture, source, dest
<1>2. srv \in Servers /\ Len(log[srv]) \in Nat
  BY <1>1 DEF Core, Steady, GroupTypeOK
<1>3. Marked => adopt = Members
  BY <1>1 DEF Marked, Present
<1>4. Home'
  BY <1>1, <1>3 DEF Core, Home, Marked, Present
<1>5. Place'
  BY <1>1, <1>2 DEF Core, Place, Present
<1> QED
  BY <1>1, <1>4, <1>5, FitsSame DEF Core, Kept

LEMMA LoadKeeps ==
    ASSUME Core, NEW m \in Members, Load(m)
    PROVE  Kept
<1>1. /\ UNCHANGED <<world, log, data, life, route, srv, adopt, at, res, goal>>
      /\ pc = "load" /\ m \in todo
      /\ replica' = [replica EXCEPT ![m] = data[route]]
      /\ mark' = [mark EXCEPT ![m] = None] /\ marker' = [marker EXCEPT ![m] = Nobody]
      /\ \/ todo = {m} /\ todo' = Members /\ pc' = "finish"
         \/ todo # {m} /\ todo' = todo \ {m} /\ pc' = "load"
  BY DEF Load, source
<1>2. /\ Present = {} /\ route = srv /\ srv \in Servers /\ goal \subseteq data[srv]
      /\ at <= Len(log[srv]) /\ res = "none" /\ \A p \in Members \ todo : Loaded(p)
  BY <1>1 DEF Core, Place, Home, Steady
<1>3. Present' = {} /\ \A p \in Members : mark'[p] = None
  BY <1>1, <1>2 DEF Present, Core, GroupTypeOK
<1>4. Fits'
  BY <1>1, <1>3 DEF Core, Fits
<1>5. Home'
  BY <1>1, <1>2, <1>3 DEF Core, Home, Marked, Present, GroupTypeOK
<1>6. replica'[m] = data[srv] /\ \A p \in Members \ {m} : replica'[p] = replica[p]
  BY <1>1, <1>2 DEF Core, GroupTypeOK
<1>7. \A p \in (Members \ todo) \cup {m} : Loaded(p)'
  BY <1>1, <1>2, <1>6 DEF Loaded, UpTo
<1>8. Place'
  BY <1>1, <1>2, <1>3, <1>7 DEF Core, Place
<1> QED
  BY <1>4, <1>5, <1>8 DEF Kept

LEMMA FinishKeeps ==
    ASSUME Core, NEW m \in Members, Finish(m)
    PROVE  Kept
<1>1. /\ UNCHANGED <<world, log, data, life, route, srv, adopt, at, res, goal, marker, replica>>
      /\ pc = "finish" /\ m \in todo /\ todo' = todo \ {m}
      /\ mark' = [mark EXCEPT ![m] = at] /\ by' = [by EXCEPT ![m] = <<srv, life[srv]>>]
      /\ pc' = IF todo = {m} THEN "stamp" ELSE "finish"
  BY DEF Finish, FinishAt, source
<1>2. /\ srv \in Servers /\ at <= Len(log[srv]) /\ res = "none"
      /\ \A p \in Members : Loaded(p)
      /\ life[srv] \in Nat /\ at \in Nat
  BY <1>1 DEF Core, Place, Steady, GroupTypeOK
<1>3. /\ mark'[m] = at /\ by'[m] = <<srv, life[srv]>>
      /\ \A p \in Members \ {m} : mark'[p] = mark[p] /\ by'[p] = by[p]
  BY <1>1 DEF Core, GroupTypeOK
<1>4. \A p \in Present' : p = m \/ p \in Present
  BY <1>3 DEF Present
<1>5. MemberFits(m)'
  BY <1>1, <1>2, <1>3 DEF MemberFits, Loaded, UpTo
<1>6. \A p \in Present' : MemberFits(p)'
  <2> TAKE p \in Present'
  <2>1. CASE p = m
    BY <1>5, <2>1
  <2>2. CASE p # m
    <3>1. p \in Members \ {m} /\ MemberFits(p)
      BY <1>4, <2>2 DEF Core, Fits, Present
    <3>2. mark'[p] = mark[p] /\ by'[p] = by[p]
      BY <1>3, <3>1
    <3> QED
      BY <1>1, <3>1, <3>2 DEF MemberFits, UpTo
  <2> QED
    BY <2>1, <2>2
<1>7. Fits'
  BY <1>1, <1>6 DEF Core, Fits
<1>8. Home'
  <2>1. \A p \in Present' : by'[p][1] = srv
    BY <1>1, <1>3, <1>4 DEF Core, Home, Present
  <2>2. CASE world.movesAt = {}
    BY <1>1, <2>1, <2>2 DEF Core, Home
  <2>3. CASE world.movesAt # {}
    <3>1. adopt = Members
      BY <1>1, <2>3 DEF Core, Home, Marked
    <3>2. \A p \in Members : mark'[p] = None => mark[p] = None
      BY <1>2, <1>3 DEF None
    <3>3. Marked'
      BY <1>1, <2>3, <3>1, <3>2 DEF Core, Home, Marked
    <3> QED
      BY <1>1, <2>1, <2>3, <3>3 DEF Home
  <2> QED
    BY <2>2, <2>3
<1>9. Place'
  BY <1>1, <1>2 DEF Core, Place, Loaded, UpTo
<1> QED
  BY <1>7, <1>8, <1>9 DEF Kept

LEMMA DrainKeeps ==
    ASSUME Core, Drain
    PROVE  Kept
<1>1. /\ UNCHANGED <<world, log, data, life, route, srv, adopt, mark, marker, by, replica>>
      /\ pc = "marks" /\ Present = Members /\ at' = Stop
      /\ goal' = IF MemberCap = {} THEN data[srv] ELSE {}
  BY DEF Drain, source, dest
<1>2. /\ srv \in Servers /\ Len(log[srv]) \in Nat /\ res = "none" /\ route = srv
      /\ \A m \in Members : by[m][1] = srv /\ MemberFits(m)
  BY <1>1 DEF Core, Steady, Home, Place, Fits, GroupTypeOK
<1>3. /\ \A m \in Members : mark[m] \in Nat
      /\ Low \in Nat /\ Stop \in Nat /\ Stop <= Len(log[srv])
      /\ MemberCap = {} => Stop = Len(log[srv]) /\ \A m \in Members : mark[m] = Low
  BY <1>1, <1>2, PassIs DEF Core
<1>4. Fits'
  BY <1>1, FitsSame DEF Core
\* A watermark the log reaches is of the log that stands.
<1>5. ASSUME NEW m \in Members, mark[m] <= Len(log[srv])
      PROVE  UpTo(srv, mark[m]) \subseteq replica[m]
  BY <1>2, <1>3, <1>5 DEF MemberFits
<1>6. CASE pc' = "idle" /\ res' = "refused"
  <2>1. adopt' = adopt /\ pc \notin {"finish", "stamp"}
    BY <1>1 DEF Drain
  <2> QED
    BY <1>1, <1>6, <2>1, EndKeeps
<1>7. CASE ~Ahead(Low, srv) /\ Low >= Stop /\ pc' = "stamp" /\ res' = res
  <2>1. ASSUME NEW m \in Members
        PROVE  goal' \subseteq replica[m]
    <3>1. CASE MemberCap = {}
      <4>1. mark[m] = Len(log[srv])
        BY <1>2, <1>3, <1>7, <3>1 DEF Ahead
      <4>2. Between(log[srv], mark[m], Len(log[srv])) = {}
        BY <1>2, <4>1 DEF Between
      <4> QED
        BY <1>1, <1>2, <1>5, <3>1, <4>1, <4>2 DEF UpTo
    <3>2. CASE MemberCap # {}
      BY <1>1, <3>2
    <3> QED
      BY <3>1, <3>2
  <2>2. Home'
    BY <1>1, <1>7 DEF Core, Home, Marked, Present
  <2>3. Place'
    BY <1>1, <1>2, <1>7, <2>1 DEF Place
  <2> QED
    BY <1>4, <2>2, <2>3 DEF Kept
<1>8. CASE /\ ~Ahead(Low, srv) /\ Low < Stop /\ pc' = "dial" /\ res' = res
           /\ todo' = {m \in Members : mark[m] < Stop}
  <2>1. ASSUME NEW m \in Members
        PROVE  goal' \ Between(log[srv], mark[m], Stop) \subseteq replica[m]
    <3>1. CASE MemberCap = {}
      BY <1>1, <1>2, <1>3, <1>5, <1>8, <3>1 DEF UpTo
    <3>2. CASE MemberCap # {}
      BY <1>1, <3>2
    <3> QED
      BY <3>1, <3>2
  <2>2. Home'
    BY <1>1, <1>8 DEF Core, Home, Marked, Present
  <2>3. Place'
    BY <1>1, <1>2, <1>3, <1>8, <2>1 DEF Place
  <2> QED
    BY <1>4, <2>2, <2>3 DEF Kept
<1>9. /\ \/ pc' = "idle" /\ res' = "refused"
         \/ ~Ahead(Low, srv) /\ Low >= Stop /\ pc' = "stamp" /\ res' = res
         \/ /\ ~Ahead(Low, srv) /\ Low < Stop /\ pc' = "dial" /\ res' = res
            /\ todo' = {m \in Members : mark[m] < Stop}
  BY DEF Drain, End
<1> QED
  BY <1>6, <1>7, <1>8, <1>9

LEMMA DialKeeps ==
    ASSUME Core, Dial
    PROVE  Kept
<1>1. CASE ~(SameNode /\ File(Low) >= oldest[route])
  BY <1>1, EndKeeps DEF Dial, End, source, dest
<1>2. CASE SameNode /\ File(Low) >= oldest[route]
  <2>1. /\ UNCHANGED <<world, log, data, life, route, srv, adopt, at, todo, res, goal,
                       mark, marker, by, replica>>
        /\ pc = "dial" /\ pc' = "apply"
    BY <1>2 DEF Dial, SameNode, source, dest
  <2>2. Home'
    BY <2>1 DEF Core, Home, Marked, Present
  <2>3. Place'
    BY <2>1 DEF Core, Place
  <2> QED
    BY <2>1, <2>2, <2>3, FitsSame DEF Core, Kept
<1> QED
  BY <1>1, <1>2

LEMMA ApplyKeeps ==
    ASSUME Core, NEW m \in Members, Apply(m)
    PROVE  Kept
<1> DEFINE L == Len(log[srv])
<1>1. /\ UNCHANGED <<world, log, data, life, route, srv, adopt, at, res, goal, marker, by>>
      /\ pc = "apply" /\ m \in todo /\ todo' = todo \ {m}
      /\ replica' = [replica EXCEPT ![m] = @ \cup Between(log[srv], mark[m], Min({at, L}))]
      /\ mark' = [mark EXCEPT ![m] = at]
      /\ pc' = IF todo = {m} THEN "stamp" ELSE "apply"
  BY DEF Apply, Between, source
<1>2. /\ srv \in Servers /\ L \in Nat /\ at \in Nat /\ at <= L /\ res = "none"
      /\ Present = Members /\ mark[m] \in Nat /\ mark[m] < at
      /\ by[m][1] = srv /\ MemberFits(m)
  BY <1>1 DEF Core, Steady, Place, Home, Fits, GroupTypeOK, Present, None
<1>3. Min({at, L}) = at
  <2>1. {at, L} \in SUBSET Nat /\ {at, L} # {}
    BY <1>2
  <2>2. Min({at, L}) \in {at, L} /\ \A x \in {at, L} : Min({at, L}) <= x
    BY <2>1, MinLeast
  <2> QED
    BY <1>2, <2>2
<1>4. /\ mark'[m] = at /\ replica'[m] = replica[m] \cup Between(log[srv], mark[m], at)
      /\ \A p \in Members \ {m} : mark'[p] = mark[p] /\ replica'[p] = replica[p]
  BY <1>1, <1>3 DEF Core, GroupTypeOK
<1>5. Present' = Members
  <2>1. \A p \in Members : mark[p] # None
    BY <1>2 DEF Present
  <2>2. at # None
    BY <1>2 DEF None
  <2>3. \A p \in Members : mark'[p] # None
    BY <1>4, <2>1, <2>2
  <2> QED
    BY <2>3 DEF Present
\* What the log names is named before the stop line or past it.
<1>6. /\ Between(log[srv], mark[m], L) \subseteq
           Between(log[srv], mark[m], at) \cup Between(log[srv], at, L)
      /\ Between(log[srv], mark[m], at) \subseteq Between(log[srv], 0, L)
  <2>1. \A i \in (mark[m] + 1)..L : i \in (mark[m] + 1)..at \/ i \in (at + 1)..L
    BY <1>2
  <2>2. \A i \in (mark[m] + 1)..at : i \in 1..L
    BY <1>2
  <2> QED
    BY <2>1, <2>2 DEF Between
<1>7. MemberFits(m)'
  <2>1. /\ by[m][2] = life[srv] /\ UpTo(srv, mark[m]) \subseteq replica[m]
        /\ replica[m] \subseteq data[srv] /\ by[m][2] <= life[srv]
    BY <1>2 DEF MemberFits
  <2>2. UpTo(srv, at) \subseteq replica'[m]
    BY <1>4, <1>6, <2>1 DEF UpTo
  <2>3. replica'[m] \subseteq data[srv]
    BY <1>2, <1>4, <1>6, <2>1 DEF Core, Fits
  <2> QED
    BY <1>1, <1>2, <1>4, <2>1, <2>2, <2>3 DEF MemberFits, UpTo
<1>8. Fits'
  <2>1. \A p \in Members \ {m} : MemberFits(p)'
    BY <1>1, <1>2, <1>4 DEF Core, Fits, MemberFits, UpTo
  <2> QED
    BY <1>1, <1>5, <1>7, <2>1 DEF Core, Fits
<1>9. Home'
  <2>1. \A p \in Members : mark[p] # None /\ mark'[p] # None
    BY <1>2, <1>5 DEF Present
  <2> QED
    BY <1>1, <1>2, <1>5, <2>1 DEF Core, Home, Marked
<1>10. Place'
  <2>1. \A p \in Members : goal \ Between(log[srv], mark'[p], at) \subseteq replica'[p]
    <3>1. goal \subseteq replica'[m]
      BY <1>1, <1>4 DEF Core, Place
    <3> QED
      BY <1>1, <1>4, <3>1 DEF Core, Place
  <2>2. \A p \in Members : p \in todo' <=> mark'[p] < at
    BY <1>1, <1>2, <1>4 DEF Core, Place
  <2>3. ASSUME todo = {m}, NEW p \in Members
        PROVE  goal \subseteq replica'[p]
    <3>1. mark'[p] \in Nat /\ ~(mark'[p] < at)
      BY <1>1, <1>2, <1>5, <2>2, <2>3 DEF Core, GroupTypeOK, Present, None
    <3>2. Between(log[srv], mark'[p], at) = {}
      BY <1>2, <3>1 DEF Between
    <3> QED
      BY <2>1, <3>2
  <2> QED
    BY <1>1, <1>2, <2>1, <2>2, <2>3 DEF Place
<1> QED
  BY <1>8, <1>9, <1>10 DEF Kept

LEMMA StampKeeps ==
    ASSUME Core, Stamp
    PROVE  Kept
<1>1. /\ UNCHANGED <<world, log, data, life, route, srv, adopt, at, todo, goal, mark, by, replica>>
      /\ pc = "stamp" /\ pc' = "idle" /\ res' = "ok"
      /\ marker' = [m \in Members |-> IF m \in adopt THEN srv ELSE marker[m]]
  BY DEF Stamp, End, source
<1>2. Present = Members /\ \A m \in Members : by[m][1] = srv
  BY <1>1 DEF Core, Steady, Home
<1>3. Home'
  <2>1. \A m \in Members : mark[m] # None
    BY <1>2 DEF Present
  <2> QED
    BY <1>1, <1>2, <2>1 DEF Core, Home, Marked, Present
<1> QED
  BY <1>1, <1>3, FitsSame DEF Core, Kept, Place

-----------------------------------------------------------------------------
LEMMA GroupInvInit == MyGroupAssumption /\ GroupInit => GroupInv
<1> SUFFICES ASSUME MyGroupAssumption, GroupInit
             PROVE  GroupInv
  OBVIOUS
<1>1. GroupTypeOK
  BY GroupTypeInit
<1>2. Present = {} /\ pc = "idle" /\ res = "none" /\ \A m \in Members : marker[m] = Nobody
  BY DEF GroupInit, Present
<1>3. \A s \in Servers : Between(log[s], 0, Len(log[s])) \subseteq data[s]
  BY DEF GroupInit, Between
<1>4. \A m \in Members : mark[m] = None
  BY DEF GroupInit
<1> QED
  BY <1>1, <1>2, <1>3, <1>4 DEF GroupInv, Steady, Fits, Home, Marked, Place

LEMMA GroupInvStep == MyGroupAssumption /\ GroupInv /\ [GroupNext]_groupVars => GroupInv'
<1> SUFFICES ASSUME MyGroupAssumption, GroupInv, [GroupNext]_groupVars
             PROVE  GroupInv'
  OBVIOUS
<1>1. GroupTypeOK' /\ Steady'
  BY TypeStep DEF GroupInv
<1>2. world' = world
  BY DEF GroupNext, Run, Env, Rest, groupVars, Identify, Torn, Capture, Drain, Dial, Stamp, Load,
         Finish, Apply, Crash, FinishFails, Change, Purge, Reset, Move, Clear, source
<1>3. Anchored' = Anchored
  BY <1>2 DEF Anchored
<1>4. ASSUME Anchored
      PROVE  Kept
  <2>1. Core
    BY <1>1, <1>4 DEF Core, GroupInv
  <2>2. CASE Run
    BY <2>1, <2>2, IdentifyKeeps, TornKeeps, CaptureKeeps, DrainKeeps, DialKeeps, StampKeeps,
       LoadKeeps, FinishKeeps, ApplyKeeps DEF Run
  <2>3. CASE Env
    BY <2>1, <2>3, CrashKeeps, FinishFailsKeeps, ChangeKeeps, PurgeKeeps, ResetKeeps, MoveKeeps,
       ClearKeeps DEF Env
  <2>4. CASE UNCHANGED groupVars
    BY <2>1, <2>4, FitsSame
       DEF Core, Kept, groupVars, Home, Marked, Place, Loaded, UpTo, Present
  <2> QED
    BY <2>2, <2>3, <2>4 DEF GroupNext, Rest
<1> QED
  BY <1>1, <1>3, <1>4 DEF GroupInv, Kept

\* Every member of a MySQL group holds its server's changes up to its watermark without a gap
\* and nothing of another server's, and a success has brought what the server had: for every
\* set of servers and members, in every world that is Anchored (bootstrap_mysql, drain_windows,
\* check_server, stamp).
THEOREM WholeHolds == MyGroupAssumption => (GroupSpec => []Whole)
<1> SUFFICES ASSUME MyGroupAssumption
             PROVE  GroupSpec => []Whole
  OBVIOUS
<1>1. GroupInv => Whole
  <2> SUFFICES ASSUME GroupInv, Anchored
               PROVE  Pure /\ NoGap /\ SuccessIsWhole
    BY DEF Whole
  <2>1. \A m \in Present : MemberFits(m) /\ mark[m] \in Nat /\ by[m][2] \in Nat
    BY DEF GroupInv, Fits, Present, GroupTypeOK
  <2>2. \A s \in Servers : life[s] \in Nat
    BY DEF GroupInv, GroupTypeOK
  <2>3. Pure
    BY <2>1 DEF Pure, MemberFits
  <2>4. NoGap
    BY <2>1, <2>2 DEF NoGap, MemberFits, UpTo, Between
  <2>5. SuccessIsWhole
    BY DEF GroupInv, Place, SuccessIsWhole
  <2> QED
    BY <2>3, <2>4, <2>5
<1>2. GroupInit => GroupInv
  BY GroupInvInit
<1>3. GroupInv /\ [GroupNext]_groupVars => GroupInv'
  BY GroupInvStep
<1> QED
  BY <1>1, <1>2, <1>3, PTL DEF GroupSpec
=============================================================================
