--------------------------- MODULE ClickHouseProofs ---------------------------
(***************************************************************************)
(* What is proved of the ClickHouse destination: a claim of a lease is     *)
(* final (ChLease), a sweep leaves nothing that no marker names (Sweep),   *)
(* a bulk replace shows no reader a part of its load (ChPublish), and a    *)
(* table's position moves only past windows that were written whole        *)
(* (ChFence).                                                              *)
(***************************************************************************)
EXTENDS ChLease, Sweep, ChPublish, ChFence, FiniteSetTheorems, WellFoundedInduction, TLAPS

-----------------------------------------------------------------------------
(* A claim of a ClickHouse lease is final, for any number of collectors,   *)
(* any clock range and any bias above it.                                  *)

\* Every version carries the rank of its kind, stamped no later than now.
Ranked ==
    \A r \in rows :
        /\ r.collected \in BOOLEAN
        /\ r.seq \in Nat
        /\ r.collected => r.seq >= Bias /\ r.seq <= Bias + now
        /\ ~r.collected => r.seq <= now

\* The inductive invariant: nothing is collected while the TTL clause stands.
LeaseInv ==
    /\ TypeOK
    /\ Ranked
    /\ ttl => \A r \in rows : ~r.collected
    /\ TakenIsCollected

\* What a version written now looks like.
LEMMA VersionRanked ==
    ASSUME LeaseInv, NEW e, NEW c \in BOOLEAN
    PROVE  /\ Version(e, c).collected = c
           /\ Version(e, c).seq \in Nat
           /\ c => Version(e, c).seq = Bias + now
           /\ ~c => Version(e, c).seq = now
  BY BiasAssumption DEF LeaseInv, TypeOK, Version, LeaseSeq

\* A write keeps the ranks, and what was collected stays so; a claim collects.
LEMMA WriteKeeps ==
    ASSUME LeaseInv, NEW e, NEW c \in BOOLEAN, Write(Version(e, c)), now' = now
    PROVE  /\ Ranked'
           /\ \A r \in rows' : r.seq \in (IF r.collected THEN Bias..(Bias + MaxTime) ELSE 0..MaxTime)
           /\ Collected => Collected'
           /\ c => Collected'
  <1> DEFINE v == Version(e, c)
  <1> v.collected = c /\ v.seq \in Nat /\ (c => v.seq = Bias + now) /\ (~c => v.seq = now)
    BY VersionRanked
  <1> rows' = rows \cup {v}
    BY DEF Write
  <1> now \in Nat /\ now <= MaxTime /\ Bias \in Nat /\ Bias > MaxTime /\ MaxTime \in Nat
    BY BiasAssumption DEF LeaseInv, TypeOK
  <1> Ranked
    BY DEF LeaseInv
  <1> HIDE DEF v
  <1>1. Ranked'
    BY DEF Ranked
  <1>2. \A r \in rows' : r.seq \in (IF r.collected THEN Bias..(Bias + MaxTime) ELSE 0..MaxTime)
    BY <1>1 DEF Ranked
  <1>3. ASSUME c PROVE Collected'
    <2>1. v.collected /\ v \in rows'
      BY <1>3
    <2>2. v.seq = Bias + now
      BY <1>3
    <2>3. \A q \in rows' : q.seq <= v.seq
      BY <2>2 DEF Ranked
    <2> QED
      BY <2>1, <2>3 DEF Collected
  <1>4. ASSUME Collected, ~c PROVE Collected'
    BY <1>4 DEF Collected, Ranked
  <1> QED
    BY <1>1, <1>2, <1>3, <1>4

LEMMA LeaseStarts == Init => LeaseInv
  <1> SUFFICES ASSUME Init PROVE LeaseInv
    OBVIOUS
  <1> USE BiasAssumption
  <1>1. ttl \in BOOLEAN /\ now = 1 /\ claims = {} /\ owner \in {"new", "done"}
    BY DEF Init
  <1>2. \A r \in rows : r.collected = FALSE /\ r.seq = 0
    BY DEF Init
  <1>3. TypeOK
    BY <1>1, <1>2 DEF TypeOK
  <1>4. Ranked
    <2> SUFFICES ASSUME NEW r \in rows
                 PROVE  /\ r.collected \in BOOLEAN
                        /\ r.seq \in Nat
                        /\ r.collected => r.seq >= Bias /\ r.seq <= Bias + now
                        /\ ~r.collected => r.seq <= now
      BY DEF Ranked
    <2>1. r.collected = FALSE /\ r.seq = 0
      BY <1>2
    <2>2. r.collected \in BOOLEAN /\ ~r.collected
      BY <2>1
    <2>3. r.seq \in Nat /\ r.seq <= now
      BY <1>1, <2>1
    <2> QED
      BY <2>2, <2>3
  <1> QED
    BY <1>1, <1>2, <1>3, <1>4 DEF LeaseInv, TakenIsCollected

\* One step keeps the invariant and what is collected.
LEMMA LeaseStep == LeaseInv /\ [Next]_vars => LeaseInv' /\ (Collected => Collected')
  <1> SUFFICES ASSUME LeaseInv, [Next]_vars PROVE LeaseInv' /\ (Collected => Collected')
    OBVIOUS
  <1> USE BiasAssumption
  <1>1. CASE Acquire
    <2> Write(Version(now + Ttl, FALSE)) /\ now' = now /\ ttl' = FALSE
      BY <1>1 DEF Acquire
    <2> Ranked' /\ (Collected => Collected')
        /\ \A r \in rows' : r.seq \in (IF r.collected THEN Bias..(Bias + MaxTime) ELSE 0..MaxTime)
      BY WriteKeeps
    <2> QED
      BY <1>1 DEF Acquire, LeaseInv, TypeOK, TakenIsCollected
  <1>2. CASE Renew
    BY <1>2 DEF Renew, LeaseInv, TypeOK, Ranked, TakenIsCollected, Collected
  <1>3. CASE RenewWrite
    <2> Write(Version(now + Ttl, FALSE)) /\ now' = now /\ ttl' = ttl
      BY <1>3 DEF RenewWrite
    <2> Ranked' /\ (Collected => Collected')
        /\ \A r \in rows' : r.seq \in (IF r.collected THEN Bias..(Bias + MaxTime) ELSE 0..MaxTime)
      BY WriteKeeps
    <2> ttl' => \A r \in rows' : ~r.collected
      BY VersionRanked DEF LeaseInv, Write
    <2> QED
      BY <1>3 DEF RenewWrite, LeaseInv, TypeOK, TakenIsCollected
  <1>4. CASE Close
    <2>1. CASE Write(Version(0, TRUE)) /\ ttl' = FALSE
      <3> now' = now
        BY <1>4 DEF Close
      <3> Ranked' /\ (Collected => Collected')
          /\ \A r \in rows' : r.seq \in (IF r.collected THEN Bias..(Bias + MaxTime) ELSE 0..MaxTime)
        BY <2>1, WriteKeeps
      <3> QED
        BY <1>4, <2>1 DEF Close, LeaseInv, TypeOK, TakenIsCollected
    <2>2. CASE UNCHANGED <<rows, ttl>>
      BY <1>4, <2>2 DEF Close, LeaseInv, TypeOK, Ranked, TakenIsCollected, Collected
    <2> QED
      BY <1>4, <2>1, <2>2 DEF Close
  <1>5. ASSUME NEW k \in Collectors, Look(k) PROVE LeaseInv' /\ (Collected => Collected')
    BY <1>5 DEF Look, LeaseInv, TypeOK, Ranked, TakenIsCollected, Collected
  <1>6. ASSUME NEW k \in Collectors, Claim(k) PROVE LeaseInv' /\ (Collected => Collected')
    <2>1. CASE Write(Version(now + Ttl, TRUE)) /\ ttl' = FALSE
      <3> now' = now /\ owner' = owner
        BY <1>6 DEF Claim
      <3> Ranked' /\ Collected'
          /\ \A r \in rows' : r.seq \in (IF r.collected THEN Bias..(Bias + MaxTime) ELSE 0..MaxTime)
        BY <2>1, WriteKeeps
      <3> QED
        BY <2>1 DEF LeaseInv, TypeOK, TakenIsCollected
    <2>2. CASE UNCHANGED <<claims, rows, ttl>>
      BY <1>6, <2>2 DEF Claim, LeaseInv, TypeOK, Ranked, TakenIsCollected, Collected
    <2> QED
      BY <1>6, <2>1, <2>2 DEF Claim
  <1>7. CASE Merge
    <2> PICK S \in SUBSET rows : rows' = rows \ {r \in S : \E q \in S : q.seq > r.seq}
      BY <1>7 DEF Merge
    <2> Collected => Collected'
      BY DEF Collected, LeaseInv, Ranked
    <2> QED
      BY <1>7 DEF Merge, LeaseInv, TypeOK, Ranked, TakenIsCollected
  <1>8. CASE AgesOut
    <2> ~Collected /\ claims = {}
      BY <1>8 DEF AgesOut, LeaseInv, Collected, TakenIsCollected
    <2> QED
      BY <1>8 DEF AgesOut, LeaseInv, TypeOK, Ranked, TakenIsCollected
  <1>9. CASE Tick
    BY <1>9 DEF Tick, LeaseInv, TypeOK, Ranked, TakenIsCollected, Collected
  <1>10. CASE UNCHANGED vars
    BY <1>10 DEF vars, LeaseInv, TypeOK, Ranked, TakenIsCollected, Collected
  <1> QED
    BY <1>1, <1>2, <1>3, <1>4, <1>5, <1>6, <1>7, <1>8, <1>9, <1>10 DEF Next

\* The lease rows are well formed, and who was told Taken holds a claim that
\* stands (lease_write, lease_claim).
THEOREM LeaseRowsSafe == Spec => [](TypeOK /\ TakenIsCollected)
  <1>1. Init => LeaseInv
    BY LeaseStarts
  <1>2. LeaseInv /\ [Next]_vars => LeaseInv'
    BY LeaseStep
  <1>3. LeaseInv => TypeOK /\ TakenIsCollected
    BY DEF LeaseInv
  <1> QED
    BY <1>1, <1>2, <1>3, PTL DEF Spec

\* No renewal, merge, release or ageing undoes a claim: the bias of lease_seq is
\* above every stamp a renewal can carry.
THEOREM ClaimIsFinal == Spec => ClaimSticks
  <1>1. Init => LeaseInv
    BY LeaseStarts
  <1>2. LeaseInv /\ [Next]_vars => LeaseInv'
    BY LeaseStep
  <1>3. LeaseInv /\ [Next]_vars => [Collected => Collected']_vars
    BY LeaseStep
  <1> QED
    BY <1>1, <1>2, <1>3, PTL DEF Spec, ClaimSticks
-----------------------------------------------------------------------------
(* The sweep of a run's scratch, for any set of its markers and any number *)
(* of runs that collect them at once.                                      *)

\* Who sweeps has closed its units or claimed the lease; only a release closes it.
Holders ==
    /\ \A c \in Peers : at[c] \in Sweeping \cup {"none"}
    /\ \A c \in Peers : at[c] # "none" => lease \in {"collected", "closed"}
    /\ at[Owner] # "none"
    /\ lease = "closed" => at[Owner] = "released"

\* The run may still make scratch, and what it makes counts as its own.
Makes == lease \in {"live", "lapsed"} /\ at[Owner] \in Running \cup {"cut"}

\* What is late was made under a claim; a DELETE is out only while its unit waits for it,
\* or later; and the last marker goes when nothing that counts is left or can come.
Ages ==
    /\ key = "late" => del = "none" /\ lease \in {"collected", "closed"}
    /\ tmp = "late" => lease \in {"collected", "closed"}
    /\ at[Owner] \in (Running \ {"asked"}) \cup {"cut"} => del = "none"
    /\ marks = {} => key # "own" /\ tmp # "own" /\ del \in {"none", "sent"} /\ ~Makes

\* A sweep that has met no failure so far.
Clean(s) == at[s] = "tmp" /\ ~bad[s]

\* How far a sweep has come says what is gone.
Progress(s) ==
    /\ at[s] \in {"look", "key", "again"} => ~bad[s]
    /\ at[s] \in {"again", "marks"} \/ Clean(s) => key # "own"
    /\ at[s] = "marks" \/ Clean(s) => del \in {"none", "sent"}
    /\ at[s] = "marks" => tmp # "own"

\* The owner's own sweep takes what is late, too: nothing is made beside it.
OwnProgress ==
    /\ at[Owner] \in {"again", "marks", "released"} \/ Clean(Owner) => key = "none"
    /\ at[Owner] \in {"marks", "released"} => tmp = "none"
    /\ at[Owner] = "released" => marks = {}

\* Before the owner sweeps, its sweep has failed at nothing.
Fresh == at[Owner] \in Running => ~bad[Owner]

SweepInv ==
    /\ SweepTypeOK /\ Holders /\ Ages /\ Fresh
    /\ \A s \in Sweepers : Progress(s)
    /\ OwnProgress

\* The windows of the run make scratch whatever became of its lease, and what they make
\* under a claim is late (key_table_reset, changelog_rebuild).
LEMMA UnitsStep == SweepAssumption /\ SweepInv /\ Units => SweepInv'
<1>. SUFFICES ASSUME SweepAssumption, SweepInv, Units PROVE SweepInv'
  OBVIOUS
<1>. USE DEF SweepAssumption, SweepInv, SweepTypeOK, Holders, Makes, Ages, Clean, Progress, OwnProgress, Fresh, Server,
     Goes, Sweepers, Running, Sweeping, AgeNow
<1>1. CASE OpenUnit \/ CloseUnit \/ Answered
  BY <1>1 DEF OpenUnit, CloseUnit, Answered
<1>2. CASE ResetKey
  BY <1>2 DEF ResetKey
<1>3. CASE SendDelete
  BY <1>3 DEF SendDelete
<1>4. CASE CopyRebuild
  BY <1>4 DEF CopyRebuild
<1>5. CASE SwapRebuild
  BY <1>5 DEF SwapRebuild, Fault
<1>6. CASE UnitFails
  BY <1>6 DEF UnitFails, Fault
<1>7. CASE CreateLands
  BY <1>7 DEF CreateLands
<1>. QED
  BY <1>1, <1>2, <1>3, <1>4, <1>5, <1>6, <1>7 DEF Units

\* The server's mutation, the clock and the keeper: a mutation has nothing to read once the
\* key table is gone, and a claimed lease is not revived.
LEMMA ServerStep ==
  SweepAssumption /\ SweepInv /\ (Mutation \/ Lapses \/ Renews \/ UNCHANGED sweepVars) => SweepInv'
<1>. SUFFICES ASSUME SweepAssumption, SweepInv, Mutation \/ Lapses \/ Renews \/ UNCHANGED sweepVars
              PROVE SweepInv'
  OBVIOUS
<1>. USE DEF SweepAssumption, SweepInv, SweepTypeOK, Holders, Makes, Ages, Clean, Progress, OwnProgress, Fresh, Server,
     Sweepers, Running, Sweeping
<1>1. CASE Mutation
  BY <1>1 DEF Mutation, Analyse, Registers, Mutates
<1>2. CASE Lapses \/ Renews
  BY <1>2 DEF Lapses, Renews
<1>3. CASE UNCHANGED sweepVars
  BY <1>3 DEF sweepVars
<1>. QED
  BY <1>1, <1>2, <1>3

\* A sweep begins: the run's own, with its units closed, or a peer's, with its claim.
LEMMA BeginStep == SweepAssumption /\ SweepInv /\ (GiveBack \/ \E c \in Peers : Collect(c)) => SweepInv'
<1>. SUFFICES ASSUME SweepAssumption, SweepInv, GiveBack \/ \E c \in Peers : Collect(c)
              PROVE SweepInv'
  OBVIOUS
<1>. USE DEF SweepAssumption, SweepInv, SweepTypeOK, Holders, Makes, Ages, Clean, Progress, OwnProgress, Fresh, Server,
     Goes, Sweepers, Running, Sweeping
<1>1. CASE GiveBack
  BY <1>1 DEF GiveBack
<1>2. ASSUME NEW c \in Peers, Collect(c) PROVE SweepInv'
  BY <1>2 DEF Collect
<1>. QED
  BY <1>1, <1>2

\* A step of a sweep, the run's own or a peer's, and its death: what it has dropped stays
\* dropped, or comes back late.
LEMMA SweepsStep ==
  ASSUME SweepAssumption, SweepInv, NEW s \in Sweepers, Sweeps(s) \/ Dies(s)
  PROVE  SweepInv'
<1>. USE DEF SweepAssumption, SweepInv, SweepTypeOK, Holders, Makes, Ages, Clean, Progress, OwnProgress, Fresh, Server,
     Goes, Sweepers, Running, Sweeping
<1>1. CASE FirstLook(s)
  <2>1. CASE Fault /\ Goes(s, "tmp") /\ bad' = [bad EXCEPT ![s] = TRUE]
    BY <1>1, <2>1 DEF FirstLook, Kill, Fault, Unfinished
  <2>2. CASE Goes(s, "key") /\ UNCHANGED bad
    BY <1>1, <2>2 DEF FirstLook, Kill, Fault, Unfinished
  <2>. QED
    BY <1>1, <2>1, <2>2 DEF FirstLook, Kill
<1>2. CASE DropKey(s)
  <2>1. CASE key' = "none" /\ Goes(s, "again") /\ UNCHANGED bad
    BY <1>2, <2>1 DEF DropKey
  <2>2. CASE key' \in {key, "none"} /\ Goes(s, "tmp") /\ bad' = [bad EXCEPT ![s] = TRUE]
    BY <1>2, <2>2 DEF DropKey
  <2>. QED
    BY <1>2, <2>1, <2>2 DEF DropKey
<1>3. CASE Again(s)
  <2>1. CASE Fault /\ Goes(s, "tmp") /\ bad' = [bad EXCEPT ![s] = TRUE]
    BY <1>3, <2>1 DEF Again, Kill, Fault, Unfinished
  <2>2. CASE Goes(s, "tmp") /\ UNCHANGED bad /\ del' \in {"none", "sent"}
    BY <1>3, <2>2 DEF Again, Kill, Unfinished
  <2>. QED
    BY <1>3, <2>1, <2>2 DEF Again, Kill, Unfinished
<1>4. CASE DropTmp(s)
  BY <1>4 DEF DropTmp, Fault
<1>5. CASE Kept(s)
  BY <1>5 DEF Kept
<1>6. CASE DropMarks(s)
  BY <1>6 DEF DropMarks, Fault
<1>7. CASE Dies(s)
  BY <1>7 DEF Dies, Fault
<1>. QED
  BY <1>1, <1>2, <1>3, <1>4, <1>5, <1>6, <1>7 DEF Sweeps

\* Before the last marker is gone, so is all the run made before its claim was taken, and a run
\* that gave back left nothing, evicted or not: for every set of markers and of peers that
\* collect at once, while the run is at work or not, and however many sweeps fail or die
\* (sweep_run, give_back, check_peers).
THEOREM NothingOrphanedHolds ==
  SweepAssumption => (SweepSpec => []NothingOrphaned)
<1>1. ASSUME SweepAssumption
      PROVE  SweepSpec => []NothingOrphaned
  <2>1. SweepInit => SweepInv
    BY <1>1 DEF SweepAssumption, SweepInit, SweepInv, SweepTypeOK, Holders, Makes, Ages, Clean, Progress,
       OwnProgress, Fresh, Sweepers, Running, Sweeping
  <2>2. SweepInv /\ [SweepNext]_sweepVars => SweepInv'
    BY <1>1, UnitsStep, ServerStep, BeginStep, SweepsStep DEF SweepNext
  <2>3. SweepInv => NothingOrphaned
    BY DEF SweepInv, Ages, OwnProgress, NothingOrphaned
  <2>. QED
    BY <2>1, <2>2, <2>3, PTL DEF SweepSpec
<1>. QED
  BY <1>1
-----------------------------------------------------------------------------
(* The publish of a bulk load, for any load, any number of nodes and any   *)
(* number of outages.                                                      *)

\* What each name holds, on every node.
Staged(x) == \A n \in Nodes : Tab(n, "staging") = x
Shadow(x) == \A n \in Nodes : Tab(n, "shadow") = x
Final(X) == \A n \in Nodes : Tab(n, "final") \in X

\* While it loads, every buffer is with the source, in the open request or on some node.
Loading ==
    /\ \A n \in Nodes : Tab(n, "staging") \in {New(R) : R \in SUBSET Buffers}
    /\ \A b \in Buffers : b \in unsent \/ b \in body
                          \/ \E n \in Nodes : b \in Tab(n, "staging").rows

\* Where a run stands says what the names hold.
BeforeSwap ==
    /\ publish = "prepare" =>
          Staged(Absent) /\ Shadow(Absent) /\ unsent = Buffers /\ body = {}
    /\ publish \in {"load", "count"} => Loading /\ Shadow(Absent)
    /\ publish = "count" => unsent = {} /\ body = {}
    /\ publish \in {"sync", "swap"} => Staged(Whole) /\ Shadow(Absent)
    /\ publish \in {"prepare", "load", "count", "sync", "swap"} => Final({Absent, Old})

DuringSwap ==
    /\ publish = "exchange" /\ layout # "engine" => Staged(Whole) /\ Final({Old, New({})})
    /\ publish = "exchange" /\ layout = "engine" => Shadow(Whole)
    /\ publish = "attach" => Staged(Whole) /\ Shadow(Absent) /\ Final({New({})})
    /\ publish = "fill" => Staged(Whole) /\ Shadow(New({}))
    /\ publish \in {"exchange", "fill"} /\ layout = "engine" => Final({Absent, Old})
    /\ publish \in {"attach", "fill", "dropshadow"} => layout = "engine"
    /\ layout # "engine" => Shadow(Absent)

AfterSwap ==
    /\ publish \in {"dropold", "dropshadow", "state", "dropstaging", "ok"} => Final({Whole})
    /\ publish \in {"state", "dropstaging", "ok"} /\ ~kept => Shadow(Absent)
    /\ publish \in {"dropstaging", "ok"} => db.state = "clear"
    /\ publish \in {"ok", "discard2"} /\ ~kept => Staged(Absent)
    /\ publish = "failed" /\ ~crashed /\ ~kept => Staged(Absent) /\ Shadow(Absent)

PublishInv == PublishTypeOK /\ OldOrNew /\ BeforeSwap /\ DuringSwap /\ AfterSwap

Db == [tab : [Nodes -> [Names -> Content]], state : {"clear", "old"}]
Readable == {Absent, Old, Whole, New({})}

\* What no failed statement may break, whatever it left behind.
Sound(d) ==
    /\ d \in Db
    /\ \A n \in Nodes : d.tab[n]["final"] \in Readable
    /\ layout # "engine" => \A n \in Nodes : d.tab[n]["shadow"] = Absent

LEMMA Contents ==
    /\ Absent \in Content /\ Old \in Content /\ Whole \in Content /\ New({}) \in Content
    /\ \A R \in SUBSET Buffers : New(R) \in Content /\ New(R).rows = R /\ New(R).gen = "new"
    /\ Readable \subseteq Content
<1>1. \A R \in SUBSET Buffers : New(R) \in Content /\ New(R).rows = R /\ New(R).gen = "new"
  BY DEF Content, New
<1>2. Absent \in Content /\ Old \in Content
  BY DEF Content
<1>3. Whole \in Content /\ New({}) \in Content
  BY <1>1 DEF Whole
<1> QED
  BY <1>1, <1>2, <1>3 DEF Readable

\* A statement on one name touches no other.
LEMMA PutTabs ==
    ASSUME db \in Db, NEW t \in Names, NEW f \in [Nodes -> Content]
    PROVE  /\ Put(t, f) \in Db /\ Put(t, f).state = db.state
           /\ \A n \in Nodes, u \in Names :
                 Put(t, f).tab[n][u] = IF u = t THEN f[n] ELSE Tab(n, u)
<1> DEFINE T == [n \in Nodes |-> [db.tab[n] EXCEPT ![t] = f[n]]]
<1>1. Put(t, f) = [db EXCEPT !.tab = T]
  BY DEF Put
<1>2. db.tab \in [Nodes -> [Names -> Content]] /\ db.state \in {"clear", "old"}
  BY DEF Db
<1>3. T \in [Nodes -> [Names -> Content]]
  BY <1>2
<1>4. \A n \in Nodes, u \in Names : T[n][u] = IF u = t THEN f[n] ELSE db.tab[n][u]
  BY <1>2
<1>5. Put(t, f) \in Db /\ Put(t, f).tab = T /\ Put(t, f).state = db.state
  <2> HIDE DEF T
  <2> QED
    BY <1>1, <1>2, <1>3 DEF Db
<1> QED
  BY <1>4, <1>5 DEF Tab

LEMMA DroppedTabs ==
    ASSUME db \in Db, NEW t \in Names
    PROVE  /\ Dropped(t) \in Db /\ Dropped(t).state = db.state
           /\ \A n \in Nodes, u \in Names :
                 Dropped(t).tab[n][u] = IF u = t THEN Absent ELSE Tab(n, u)
<1>1. Everywhere(Absent) \in [Nodes -> Content] /\ \A n \in Nodes : Everywhere(Absent)[n] = Absent
  BY Contents DEF Everywhere
<1> QED
  BY <1>1, PutTabs DEF Dropped

LEMMA MadeTabs ==
    ASSUME db \in Db, NEW t \in Names, NEW x \in Content
    PROVE  /\ Made(t, x) \in Db /\ Made(t, x).state = db.state
           /\ \A n \in Nodes, u \in Names :
                 Made(t, x).tab[n][u] =
                    IF u = t /\ Tab(n, t) = Absent THEN x ELSE Tab(n, u)
<1> DEFINE f == [n \in Nodes |-> IF Tab(n, t) = Absent THEN x ELSE Tab(n, t)]
<1>1. f \in [Nodes -> Content]
  BY DEF Db, Tab
<1>2. \A n \in Nodes : f[n] = IF Tab(n, t) = Absent THEN x ELSE Tab(n, t)
  OBVIOUS
<1>3. Made(t, x) = Put(t, f)
  BY DEF Made
<1> HIDE DEF f
<1> QED
  BY <1>1, <1>2, <1>3, PutTabs

LEMMA FreshTabs ==
    ASSUME db \in Db, NEW t \in Names
    PROVE  /\ Put(t, Everywhere(New({}))) \in Db
           /\ Put(t, Everywhere(New({}))).state = db.state
           /\ \A n \in Nodes, u \in Names :
                 Put(t, Everywhere(New({}))).tab[n][u] = IF u = t THEN New({}) ELSE Tab(n, u)
<1>1. /\ Everywhere(New({})) \in [Nodes -> Content]
      /\ \A n \in Nodes : Everywhere(New({}))[n] = New({})
  BY Contents DEF Everywhere
<1> QED
  BY <1>1, PutTabs

LEMMA AttachedTabs ==
    ASSUME db \in Db, NEW t \in Names, Staged(Whole), \A n \in Nodes : Tab(n, t) = New({})
    PROVE  /\ Attached(t) \in Db /\ Attached(t).state = db.state
           /\ \A n \in Nodes, u \in Names :
                 Attached(t).tab[n][u] = IF u = t THEN Whole ELSE Tab(n, u)
<1> DEFINE f == [n \in Nodes |-> [Tab(n, t) EXCEPT !.rows = @ \cup Tab(n, "staging").rows]]
<1>1. \A n \in Nodes : f[n] = Whole
  BY DEF Staged, Whole, New
<1>2. f \in [Nodes -> Content]
  <2>1. Whole \in Content
    BY Contents
  <2>2. f = [n \in Nodes |-> f[n]]
    OBVIOUS
  <2> HIDE DEF f
  <2> QED
    BY <1>1, <2>1, <2>2
<1>3. Attached(t) = Put(t, f)
  BY DEF Attached
<1> HIDE DEF f
<1> QED
  BY <1>1, <1>2, <1>3, PutTabs

LEMMA SwappedTabs ==
    ASSUME db \in Db, NEW a \in Names, NEW b \in Names, a # b
    PROVE  /\ Swapped(a, b) \in Db /\ Swapped(a, b).state = db.state
           /\ \A n \in Nodes, u \in Names :
                 Swapped(a, b).tab[n][u] =
                    IF u = a THEN Tab(n, b) ELSE IF u = b THEN Tab(n, a) ELSE Tab(n, u)
<1> DEFINE T == [n \in Nodes |-> [db.tab[n] EXCEPT ![a] = Tab(n, b), ![b] = Tab(n, a)]]
<1>1. Swapped(a, b) = [db EXCEPT !.tab = T]
  BY DEF Swapped
<1>2. db.tab \in [Nodes -> [Names -> Content]] /\ db.state \in {"clear", "old"}
  BY DEF Db
<1>3. T \in [Nodes -> [Names -> Content]]
  BY <1>2 DEF Tab
<1>4. \A n \in Nodes, u \in Names : T[n][u] =
          IF u = a THEN Tab(n, b) ELSE IF u = b THEN Tab(n, a) ELSE db.tab[n][u]
  BY <1>2
<1>5. Swapped(a, b) \in Db /\ Swapped(a, b).tab = T /\ Swapped(a, b).state = db.state
  <2> HIDE DEF T
  <2> QED
    BY <1>1, <1>2, <1>3 DEF Db
<1> QED
  BY <1>4, <1>5 DEF Tab

\* Rows land on one node's staging and touch nothing else.
LEMMA LandsTabs ==
    ASSUME db \in Db, NEW k \in Nodes, NEW S \in SUBSET Buffers,
           NEW R \in SUBSET Buffers, Tab(k, "staging") = New(R)
    PROVE  /\ Lands(k, S) \in Db /\ Lands(k, S).state = db.state
           /\ Lands(k, S).tab[k]["staging"] = New(R \cup S)
           /\ \A n \in Nodes, u \in Names :
                 (n # k \/ u # "staging") => Lands(k, S).tab[n][u] = Tab(n, u)
<1> DEFINE T == [db.tab EXCEPT ![k]["staging"].rows = @ \cup S]
<1>1. Lands(k, S) = [db EXCEPT !.tab = T]
  BY DEF Lands, Db
<1>2. db.tab \in [Nodes -> [Names -> Content]] /\ db.state \in {"clear", "old"}
  BY DEF Db
<1>3. "staging" \in Names
  BY DEF Names
<1>4. [db.tab[k]["staging"] EXCEPT !.rows = @ \cup S] = New(R \cup S)
  BY DEF Tab, New
<1>5. T = [db.tab EXCEPT ![k] = [db.tab[k] EXCEPT !["staging"] = New(R \cup S)]]
  BY <1>2, <1>3, <1>4
<1>6. New(R \cup S) \in Content
  BY Contents
<1>7. /\ T \in [Nodes -> [Names -> Content]] /\ T[k]["staging"] = New(R \cup S)
      /\ \A n \in Nodes, u \in Names : (n # k \/ u # "staging") => T[n][u] = db.tab[n][u]
  <2> HIDE DEF T
  <2> QED
    BY <1>2, <1>3, <1>5, <1>6
<1>8. Lands(k, S) \in Db /\ Lands(k, S).tab = T /\ Lands(k, S).state = db.state
  <2> HIDE DEF T
  <2> QED
    BY <1>1, <1>2, <1>7 DEF Db
<1> QED
  BY <1>7, <1>8 DEF Tab

LEMMA SoundNow ==
    ASSUME PublishInv
    PROVE  Sound(db) /\ db \in Db
BY DEF PublishInv, PublishTypeOK, OldOrNew, DuringSwap, Sound, Db, Readable, Shadow, Tab

\* A run that gives up owes only that the names are sound: discard does the rest.
LEMMA GiveUp ==
    ASSUME PublishInv, UNCHANGED layout, Sound(db'), publish' = "discard",
           unsent' \subseteq Buffers, body' \subseteq Buffers,
           crashed' \in BOOLEAN, kept' \in BOOLEAN
    PROVE  PublishInv'
<1>0. Nodes' = Nodes
  BY DEF Nodes
<1>1. PublishTypeOK' /\ OldOrNew'
  BY <1>0 DEF PublishInv, PublishTypeOK, OldOrNew, Sound, Db, Readable, Tab, Content, Names,
         Old, New, Whole
<1>2. BeforeSwap' /\ AfterSwap'
  BY DEF BeforeSwap, AfterSwap
<1>3. DuringSwap'
  BY <1>0 DEF DuringSwap, Sound, Shadow, Tab
<1> QED
  BY <1>1, <1>2, <1>3 DEF PublishInv

\* Nothing the invariant speaks of moved.
LEMMA Same ==
    ASSUME PublishInv, UNCHANGED <<layout, db, publish, unsent, body, crashed, kept>>
    PROVE  PublishInv'
BY DEF PublishInv, PublishTypeOK, OldOrNew, BeforeSwap, DuringSwap, AfterSwap, Loading, Staged,
       Shadow, Final, Tab, Nodes

\* A statement that fails, or is tried again, keeps the invariant: what is left to show
\* of a step is the branch in which it ran.
LEMMA ExecStep ==
    ASSUME PublishInv, UNCHANGED layout, UNCHANGED Rest,
           NEW after, NEW next, Sound(after), Exec(after, next)
    PROVE  PublishInv' \/ (db' = after /\ publish' = next)
<1>0. /\ unsent' \subseteq Buffers /\ body' \subseteq Buffers
      /\ crashed' \in BOOLEAN /\ kept' \in BOOLEAN
  BY DEF PublishInv, PublishTypeOK, Rest
<1>1. CASE db' = after /\ publish' = next
  BY <1>1
<1>2. CASE UNCHANGED db /\ publish' = publish
  BY <1>2, Same DEF Rest
<1>3. CASE db' \in {db, after} /\ publish' = "discard"
  BY <1>0, <1>3, GiveUp, SoundNow
<1> QED
  BY <1>1, <1>2, <1>3 DEF Exec

\* What the run stands on between the statements of one phase.
LEMMA Reached ==
    ASSUME PublishInv, UNCHANGED layout, db' \in Db,
           unsent' \subseteq Buffers, body' \subseteq Buffers,
           crashed' \in BOOLEAN, kept' \in BOOLEAN,
           \A n \in Nodes : db'.tab[n]["final"] \in Readable,
           BeforeSwap', DuringSwap', AfterSwap'
    PROVE  PublishInv'
<1>0. Nodes' = Nodes
  BY DEF Nodes
<1>1. PublishTypeOK' /\ OldOrNew'
  BY <1>0 DEF PublishInv, PublishTypeOK, OldOrNew, Db, Readable, Tab, Content, Names,
         Old, New, Whole
<1> QED
  BY <1>1 DEF PublishInv

LEMMA CreateStagingStep ==
    ASSUME PublishInv, UNCHANGED layout, CreateStaging
    PROVE  PublishInv'
<1> DEFINE after == Put("staging", Everywhere(New({})))
<1>0. Nodes' = Nodes /\ db \in Db /\ Sound(db) /\ "staging" \in Names /\ "final" \in Names
      /\ "shadow" \in Names
  BY SoundNow DEF Nodes, Names
<1>1. /\ after \in Db
      /\ \A n \in Nodes, u \in Names :
            after.tab[n][u] = IF u = "staging" THEN New({}) ELSE Tab(n, u)
  BY <1>0, FreshTabs
<1> HIDE DEF after
<1>2. Sound(after)
  BY <1>0, <1>1 DEF Sound, Tab
<1>3. PublishInv' \/ (db' = after /\ publish' = "load")
  BY <1>2, ExecStep DEF CreateStaging, after, Rest
<1>4. ASSUME db' = after, publish' = "load"
      PROVE  PublishInv'
  <2>1. unsent' = Buffers /\ body' = {} /\ crashed' = crashed /\ kept' = kept
    BY DEF CreateStaging, PublishInv, BeforeSwap
  <2>2. Shadow(Absent)' /\ Final({Absent, Old})'
    BY <1>0, <1>1, <1>4 DEF CreateStaging, PublishInv, BeforeSwap, Shadow, Final, Tab
  <2>3. Loading'
    <3>1. \A n \in Nodes : db'.tab[n]["staging"] = New({})
      BY <1>0, <1>1, <1>4
    <3> QED
      BY <1>0, <2>1, <3>1 DEF Loading, Tab
  <2>4. BeforeSwap' /\ AfterSwap'
    BY <1>4, <2>2, <2>3 DEF BeforeSwap, AfterSwap
  <2>5. DuringSwap'
    BY <1>4, <2>2 DEF DuringSwap
  <2>6. \A n \in Nodes : db'.tab[n]["final"] \in Readable
    BY <1>2, <1>4 DEF Sound
  <2>7. crashed' \in BOOLEAN /\ kept' \in BOOLEAN
    BY <2>1 DEF PublishInv, PublishTypeOK
  <2> QED
    BY <1>1, <1>4, <2>1, <2>4, <2>5, <2>6, <2>7, Reached
<1> QED
  BY <1>3, <1>4

\* The same for a statement that ran and moved no variable of the loader.
LEMMA Ran ==
    ASSUME PublishInv, UNCHANGED layout, UNCHANGED Rest, Sound(db'),
           BeforeSwap', DuringSwap', AfterSwap'
    PROVE  PublishInv'
<1>1. /\ unsent' \subseteq Buffers /\ body' \subseteq Buffers
      /\ crashed' \in BOOLEAN /\ kept' \in BOOLEAN
  BY DEF PublishInv, PublishTypeOK, Rest
<1>2. db' \in Db /\ \A n \in Nodes : db'.tab[n]["final"] \in Readable
  BY DEF Sound, Nodes
<1> QED
  BY <1>1, <1>2, Reached

LEMMA CreateFinalStep ==
    ASSUME PublishInv, UNCHANGED layout, UNCHANGED Rest, publish = "swap",
           NEW next, CreateFinal(next),
           \/ next = "exchange" /\ layout # "engine"
           \/ next = "attach" /\ layout = "engine" /\ ~FinalExists
    PROVE  PublishInv'
<1> DEFINE after == Made("final", New({}))
<1>0. /\ Nodes' = Nodes /\ db \in Db /\ Sound(db)
      /\ "staging" \in Names /\ "final" \in Names /\ "shadow" \in Names
  BY SoundNow DEF Nodes, Names
<1>1. /\ after \in Db
      /\ \A n \in Nodes, u \in Names : after.tab[n][u] =
            IF u = "final" /\ Tab(n, "final") = Absent THEN New({}) ELSE Tab(n, u)
  BY <1>0, MadeTabs, Contents
<1> HIDE DEF after
<1>2. Sound(after)
  BY <1>0, <1>1 DEF Sound, Tab, Readable
<1>3. PublishInv' \/ (db' = after /\ publish' = next)
  BY <1>2, ExecStep DEF CreateFinal, after
<1>4. ASSUME db' = after, publish' = next
      PROVE  PublishInv'
  <2>1. Staged(Whole) /\ Shadow(Absent) /\ Final({Absent, Old})
    BY DEF PublishInv, BeforeSwap
  <2>2. Staged(Whole)' /\ Shadow(Absent)' /\ Final({Old, New({})})'
    <3>1. Whole' = Whole /\ New({})' = New({}) /\ Old' = Old
      BY DEF Whole, New, Old
    <3> QED
      BY <1>0, <1>1, <1>4, <2>1, <3>1 DEF Staged, Shadow, Final, Tab
  <2>3. next = "attach" => Final({New({})})'
    BY <1>0, <1>1, <1>4 DEF FinalExists, Final, Tab
  <2>4. BeforeSwap' /\ AfterSwap'
    BY <1>4 DEF BeforeSwap, AfterSwap
  <2>5. DuringSwap'
    BY <1>4, <2>2, <2>3 DEF DuringSwap
  <2> QED
    BY <1>2, <1>4, <2>4, <2>5, Ran DEF Sound, Nodes, Db
<1> QED
  BY <1>3, <1>4

LEMMA ExchangeStep ==
    ASSUME PublishInv, UNCHANGED layout, UNCHANGED Rest, publish = "exchange",
           layout # "engine", NEW next \in {"state", "dropold"},
           Exec(Swapped("staging", "final"), next)
    PROVE  PublishInv'
<1> DEFINE after == Swapped("staging", "final")
<1>0. /\ Nodes' = Nodes /\ db \in Db /\ Sound(db)
      /\ "staging" \in Names /\ "final" \in Names /\ "shadow" \in Names
  BY SoundNow DEF Nodes, Names
<1>1. /\ after \in Db
      /\ \A n \in Nodes, u \in Names : after.tab[n][u] =
            IF u = "staging" THEN Tab(n, "final")
            ELSE IF u = "final" THEN Tab(n, "staging") ELSE Tab(n, u)
  BY <1>0, SwappedTabs
<1> HIDE DEF after
<1>2. Staged(Whole) /\ Shadow(Absent)
  BY DEF PublishInv, DuringSwap
<1>3. Sound(after)
  BY <1>0, <1>1, <1>2 DEF Sound, Tab, Readable, Staged, Shadow
<1>4. PublishInv' \/ (db' = after /\ publish' = next)
  BY <1>3, ExecStep DEF after
<1>5. ASSUME db' = after, publish' = next
      PROVE  PublishInv'
  <2>1. Final({Whole})' /\ Shadow(Absent)'
    BY <1>0, <1>1, <1>2, <1>5 DEF Staged, Shadow, Final, Tab, Whole, New
  <2>2. BeforeSwap' /\ DuringSwap' /\ AfterSwap'
    BY <1>5, <2>1 DEF BeforeSwap, DuringSwap, AfterSwap
  <2> QED
    BY <1>3, <1>5, <2>2, Ran DEF Sound, Nodes, Db
<1> QED
  BY <1>4, <1>5

LEMMA EngineAttachStep ==
    ASSUME PublishInv, UNCHANGED layout, EngineAttach
    PROVE  PublishInv'
<1> DEFINE after == Attached("final")
<1>0. /\ Nodes' = Nodes /\ db \in Db /\ Sound(db)
      /\ "staging" \in Names /\ "final" \in Names /\ "shadow" \in Names
  BY SoundNow DEF Nodes, Names
<1>1. Staged(Whole) /\ Shadow(Absent) /\ Final({New({})})
  BY DEF PublishInv, DuringSwap, EngineAttach
<1>2. /\ after \in Db
      /\ \A n \in Nodes, u \in Names :
            after.tab[n][u] = IF u = "final" THEN Whole ELSE Tab(n, u)
  BY <1>0, <1>1, AttachedTabs DEF Final
<1> HIDE DEF after
<1>3. Sound(after)
  BY <1>0, <1>1, <1>2 DEF Sound, Tab, Readable, Shadow
<1>4. PublishInv' \/ (db' = after /\ publish' = "state")
  BY <1>3, ExecStep DEF after, EngineAttach
<1>5. ASSUME db' = after, publish' = "state"
      PROVE  PublishInv'
  <2>1. Final({Whole})' /\ Shadow(Absent)'
    BY <1>0, <1>1, <1>2, <1>5 DEF Shadow, Final, Tab, Whole, New
  <2>2. BeforeSwap' /\ DuringSwap' /\ AfterSwap'
    BY <1>5, <2>1 DEF BeforeSwap, DuringSwap, AfterSwap
  <2> QED
    BY <1>3, <1>5, <2>2, Ran DEF Sound, Nodes, Db, EngineAttach
<1> QED
  BY <1>4, <1>5

LEMMA EngineShadowStep ==
    ASSUME PublishInv, UNCHANGED layout, EngineShadow
    PROVE  PublishInv'
<1> DEFINE after == Put("shadow", Everywhere(New({})))
<1>0. /\ Nodes' = Nodes /\ db \in Db /\ Sound(db) /\ layout = "engine"
      /\ "staging" \in Names /\ "final" \in Names /\ "shadow" \in Names
  BY SoundNow DEF Nodes, Names, EngineShadow
<1>1. Staged(Whole) /\ Final({Absent, Old})
  BY DEF PublishInv, BeforeSwap, EngineShadow
<1>2. /\ after \in Db
      /\ \A n \in Nodes, u \in Names :
            after.tab[n][u] = IF u = "shadow" THEN New({}) ELSE Tab(n, u)
  BY <1>0, FreshTabs
<1> HIDE DEF after
<1>3. Sound(after)
  BY <1>0, <1>1, <1>2 DEF Sound, Tab
<1>4. PublishInv' \/ (db' = after /\ publish' = "fill")
  BY <1>3, ExecStep DEF after, EngineShadow
<1>5. ASSUME db' = after, publish' = "fill"
      PROVE  PublishInv'
  <2>1. Staged(Whole)' /\ Shadow(New({}))' /\ Final({Absent, Old})'
    BY <1>0, <1>1, <1>2, <1>5 DEF Staged, Shadow, Final, Tab, Whole, New
  <2>2. BeforeSwap' /\ DuringSwap' /\ AfterSwap'
    BY <1>0, <1>5, <2>1 DEF BeforeSwap, DuringSwap, AfterSwap
  <2> QED
    BY <1>3, <1>5, <2>2, Ran DEF Sound, Nodes, Db, EngineShadow
<1> QED
  BY <1>4, <1>5

LEMMA EngineFillStep ==
    ASSUME PublishInv, UNCHANGED layout, EngineFill
    PROVE  PublishInv'
<1> DEFINE after == Attached("shadow")
<1>0. /\ Nodes' = Nodes /\ db \in Db /\ Sound(db) /\ layout = "engine"
      /\ "staging" \in Names /\ "final" \in Names /\ "shadow" \in Names
  BY SoundNow DEF Nodes, Names, EngineFill
<1>1. Staged(Whole) /\ Shadow(New({})) /\ Final({Absent, Old})
  BY DEF PublishInv, DuringSwap, EngineFill
<1>2. /\ after \in Db
      /\ \A n \in Nodes, u \in Names :
            after.tab[n][u] = IF u = "shadow" THEN Whole ELSE Tab(n, u)
  BY <1>0, <1>1, AttachedTabs DEF Shadow
<1> HIDE DEF after
<1>3. Sound(after)
  BY <1>0, <1>1, <1>2 DEF Sound, Tab
<1>4. PublishInv' \/ (db' = after /\ publish' = "exchange")
  BY <1>3, ExecStep DEF after, EngineFill
<1>5. ASSUME db' = after, publish' = "exchange"
      PROVE  PublishInv'
  <2>1. Shadow(Whole)' /\ Final({Absent, Old})'
    BY <1>0, <1>1, <1>2, <1>5 DEF Shadow, Final, Tab, Whole, New
  <2>2. BeforeSwap' /\ DuringSwap' /\ AfterSwap'
    BY <1>0, <1>5, <2>1 DEF BeforeSwap, DuringSwap, AfterSwap
  <2> QED
    BY <1>3, <1>5, <2>2, Ran DEF Sound, Nodes, Db, EngineFill
<1> QED
  BY <1>4, <1>5

LEMMA EngineExchangeStep ==
    ASSUME PublishInv, UNCHANGED layout, EngineExchange
    PROVE  PublishInv'
<1> DEFINE after == Swapped("shadow", "final")
<1>0. /\ Nodes' = Nodes /\ db \in Db /\ Sound(db) /\ layout = "engine"
      /\ "staging" \in Names /\ "final" \in Names /\ "shadow" \in Names
  BY SoundNow DEF Nodes, Names, EngineExchange
<1>1. Shadow(Whole)
  BY DEF PublishInv, DuringSwap, EngineExchange
<1>2. /\ after \in Db
      /\ \A n \in Nodes, u \in Names : after.tab[n][u] =
            IF u = "shadow" THEN Tab(n, "final")
            ELSE IF u = "final" THEN Tab(n, "shadow") ELSE Tab(n, u)
  BY <1>0, SwappedTabs
<1> HIDE DEF after
<1>3. Sound(after)
  BY <1>0, <1>1, <1>2 DEF Sound, Tab, Readable, Shadow
<1>4. PublishInv' \/ (db' = after /\ publish' = "dropshadow")
  BY <1>3, ExecStep DEF after, EngineExchange
<1>5. ASSUME db' = after, publish' = "dropshadow"
      PROVE  PublishInv'
  <2>1. Final({Whole})'
    BY <1>0, <1>1, <1>2, <1>5 DEF Shadow, Final, Tab, Whole, New
  <2>2. BeforeSwap' /\ DuringSwap' /\ AfterSwap'
    BY <1>0, <1>5, <2>1 DEF BeforeSwap, DuringSwap, AfterSwap
  <2> QED
    BY <1>3, <1>5, <2>2, Ran DEF Sound, Nodes, Db, EngineExchange
<1> QED
  BY <1>4, <1>5

LEMMA ClearStateStep ==
    ASSUME PublishInv, UNCHANGED layout, ClearState
    PROVE  PublishInv'
<1> DEFINE after == [db EXCEPT !.state = "clear"]
<1>0. Nodes' = Nodes /\ db \in Db /\ Sound(db)
  BY SoundNow DEF Nodes
<1>1. after \in Db /\ after.tab = db.tab /\ after.state = "clear"
  BY <1>0 DEF Db
<1> HIDE DEF after
<1>2. Sound(after)
  BY <1>0, <1>1 DEF Sound
<1>3. PublishInv' \/ (db' = after /\ publish' = "dropstaging")
  BY <1>2, ExecStep DEF after, ClearState
<1>4. ASSUME db' = after, publish' = "dropstaging"
      PROVE  PublishInv'
  <2>1. Final({Whole}) /\ (~kept => Shadow(Absent)) /\ (layout # "engine" => Shadow(Absent))
    BY DEF PublishInv, AfterSwap, DuringSwap, ClearState
  <2>2. UNCHANGED kept /\ db'.tab = db.tab /\ db'.state = "clear"
    BY <1>1, <1>4 DEF ClearState, Rest
  <2>3. /\ Final({Whole})'
        /\ (~kept => Shadow(Absent))'
        /\ (layout # "engine" => Shadow(Absent))'
    BY <1>0, <2>1, <2>2 DEF Shadow, Final, Tab, Whole, New
  <2>4. BeforeSwap' /\ DuringSwap' /\ AfterSwap'
    BY <1>4, <2>2, <2>3 DEF BeforeSwap, DuringSwap, AfterSwap
  <2> QED
    BY <1>2, <1>4, <2>4, Ran DEF Sound, Nodes, Db, ClearState
<1> QED
  BY <1>3, <1>4

\* A drop nobody waits for: the name is gone, or the run notes that it may not be.
LEMMA DropStep ==
    ASSUME PublishInv, UNCHANGED layout, NEW t \in {"staging", "shadow"}, NEW next,
           BestEffort(Dropped(t), next)
    PROVE  /\ Sound(db') /\ db'.state = db.state /\ kept' \in BOOLEAN
           /\ \A n \in Nodes, u \in Names : u # t => db'.tab[n][u] = Tab(n, u)
           /\ \A n \in Nodes, u \in Names : Tab(n, u) = Absent => db'.tab[n][u] = Absent
           /\ ~kept' => ~kept /\ \A n \in Nodes : db'.tab[n][t] = Absent
<1> DEFINE after == Dropped(t)
<1>0. /\ Nodes' = Nodes /\ db \in Db /\ Sound(db) /\ t \in Names /\ kept \in BOOLEAN
      /\ "staging" \in Names /\ "final" \in Names /\ "shadow" \in Names
  BY SoundNow DEF Nodes, Names, PublishInv, PublishTypeOK
<1>1. /\ after \in Db /\ after.state = db.state
      /\ \A n \in Nodes, u \in Names :
            after.tab[n][u] = IF u = t THEN Absent ELSE Tab(n, u)
  BY <1>0, DroppedTabs
<1> HIDE DEF after
<1>2. Sound(after)
  BY <1>0, <1>1 DEF Sound, Tab
<1>3. (db' = after /\ kept' = kept) \/ (db' \in {db, after} /\ kept' = TRUE)
  BY DEF BestEffort, after
<1> QED
  BY <1>0, <1>1, <1>2, <1>3 DEF Tab

LEMMA ClusterDropStep ==
    ASSUME PublishInv, UNCHANGED layout, ClusterDrop
    PROVE  PublishInv'
<1>0. /\ Nodes' = Nodes /\ publish' = "state" /\ layout = "cluster"
      /\ UNCHANGED <<unsent, body, crashed>>
      /\ "staging" \in Names /\ "final" \in Names /\ "shadow" \in Names
  BY DEF Nodes, Names, ClusterDrop, BestEffort
<1>1. /\ Sound(db') /\ kept' \in BOOLEAN
      /\ \A n \in Nodes, u \in Names : u # "staging" => db'.tab[n][u] = Tab(n, u)
  BY DropStep DEF ClusterDrop
<1>2. Final({Whole}) /\ Shadow(Absent)
  BY <1>0 DEF PublishInv, AfterSwap, DuringSwap, ClusterDrop
<1>3. Final({Whole})' /\ Shadow(Absent)'
  BY <1>0, <1>1, <1>2 DEF Shadow, Final, Tab, Whole, New
<1>4. BeforeSwap' /\ DuringSwap' /\ AfterSwap'
  BY <1>0, <1>3 DEF BeforeSwap, DuringSwap, AfterSwap
<1> QED
  BY <1>0, <1>1, <1>4, Reached DEF Sound, Db, Nodes, PublishInv, PublishTypeOK

LEMMA EngineDropStep ==
    ASSUME PublishInv, UNCHANGED layout, EngineDrop
    PROVE  PublishInv'
<1>0. /\ Nodes' = Nodes /\ publish' = "state" /\ layout = "engine"
      /\ UNCHANGED <<unsent, body, crashed>>
      /\ "staging" \in Names /\ "final" \in Names /\ "shadow" \in Names
  BY DEF Nodes, Names, EngineDrop, BestEffort
<1>1. /\ Sound(db') /\ kept' \in BOOLEAN
      /\ \A n \in Nodes, u \in Names : u # "shadow" => db'.tab[n][u] = Tab(n, u)
      /\ ~kept' => \A n \in Nodes : db'.tab[n]["shadow"] = Absent
  BY DropStep DEF EngineDrop
<1>2. Final({Whole})
  BY <1>0 DEF PublishInv, AfterSwap, EngineDrop
<1>3. Final({Whole})' /\ (~kept => Shadow(Absent))'
  BY <1>0, <1>1, <1>2 DEF Shadow, Final, Tab, Whole, New
<1>4. BeforeSwap' /\ DuringSwap' /\ AfterSwap'
  BY <1>0, <1>3 DEF BeforeSwap, DuringSwap, AfterSwap
<1> QED
  BY <1>0, <1>1, <1>4, Reached DEF Sound, Db, Nodes, PublishInv, PublishTypeOK

LEMMA DropStagingStep ==
    ASSUME PublishInv, UNCHANGED layout, DropStaging
    PROVE  PublishInv'
<1>0. /\ Nodes' = Nodes /\ publish' = "ok" /\ UNCHANGED <<unsent, body, crashed>>
      /\ "staging" \in Names /\ "final" \in Names /\ "shadow" \in Names
  BY DEF Nodes, Names, DropStaging, BestEffort
<1>1. /\ Sound(db') /\ kept' \in BOOLEAN /\ db'.state = db.state
      /\ \A n \in Nodes, u \in Names : u # "staging" => db'.tab[n][u] = Tab(n, u)
      /\ ~kept' => ~kept /\ \A n \in Nodes : db'.tab[n]["staging"] = Absent
  BY DropStep DEF DropStaging
<1>2. /\ Final({Whole}) /\ (~kept => Shadow(Absent)) /\ (layout # "engine" => Shadow(Absent))
      /\ db.state = "clear"
  BY <1>0 DEF PublishInv, AfterSwap, DuringSwap, DropStaging
<1>3. /\ Final({Whole})' /\ (~kept => Shadow(Absent))' /\ (~kept => Staged(Absent))'
      /\ (layout # "engine" => Shadow(Absent))'
  BY <1>0, <1>1, <1>2 DEF Shadow, Staged, Final, Tab, Whole, New
<1>4. BeforeSwap' /\ DuringSwap' /\ AfterSwap'
  BY <1>0, <1>1, <1>2, <1>3 DEF BeforeSwap, DuringSwap, AfterSwap
<1> QED
  BY <1>0, <1>1, <1>4, Reached DEF Sound, Db, Nodes, PublishInv, PublishTypeOK

LEMMA DiscardStep ==
    ASSUME PublishInv, UNCHANGED layout, Discard
    PROVE  PublishInv'
<1>0. /\ Nodes' = Nodes /\ UNCHANGED <<unsent, body, crashed>>
      /\ "staging" \in Names /\ "final" \in Names /\ "shadow" \in Names
  BY DEF Nodes, Names, Discard
<1>1. layout # "engine" => Shadow(Absent)
  BY DEF PublishInv, DuringSwap
<1>2. CASE publish = "discard" /\ BestEffort(Dropped("staging"), "discard2")
  <2>1. /\ Sound(db') /\ kept' \in BOOLEAN /\ publish' = "discard2"
        /\ \A n \in Nodes, u \in Names : u # "staging" => db'.tab[n][u] = Tab(n, u)
        /\ ~kept' => \A n \in Nodes : db'.tab[n]["staging"] = Absent
    BY <1>2, DropStep DEF BestEffort
  <2>2. (~kept => Staged(Absent))' /\ (layout # "engine" => Shadow(Absent))'
    BY <1>0, <1>1, <2>1 DEF Shadow, Staged, Tab
  <2>3. BeforeSwap' /\ DuringSwap' /\ AfterSwap'
    BY <2>1, <2>2 DEF BeforeSwap, DuringSwap, AfterSwap
  <2> QED
    BY <1>0, <2>1, <2>3, Reached DEF Sound, Db, Nodes, PublishInv, PublishTypeOK
<1>3. CASE publish = "discard2" /\ BestEffort(Dropped("shadow"), "failed")
  <2>1. /\ Sound(db') /\ kept' \in BOOLEAN /\ publish' = "failed"
        /\ \A n \in Nodes, u \in Names : u # "shadow" => db'.tab[n][u] = Tab(n, u)
        /\ \A n \in Nodes, u \in Names : Tab(n, u) = Absent => db'.tab[n][u] = Absent
        /\ ~kept' => ~kept /\ \A n \in Nodes : db'.tab[n]["shadow"] = Absent
    BY <1>3, DropStep DEF BestEffort
  <2>2. ~kept => Staged(Absent)
    BY <1>3 DEF PublishInv, AfterSwap
  <2>3. (~kept => Staged(Absent) /\ Shadow(Absent))' /\ (layout # "engine" => Shadow(Absent))'
    BY <1>0, <1>1, <2>1, <2>2 DEF Shadow, Staged, Tab
  <2>4. BeforeSwap' /\ DuringSwap' /\ AfterSwap'
    BY <2>1, <2>3 DEF BeforeSwap, DuringSwap, AfterSwap
  <2> QED
    BY <1>0, <2>1, <2>4, Reached DEF Sound, Db, Nodes, PublishInv, PublishTypeOK
<1> QED
  BY <1>2, <1>3 DEF Discard

\* A request that commits, whole or lost with its answer: no buffer goes missing that the
\* run does not notice.
LEMMA CommitsStep ==
    ASSUME PublishInv, UNCHANGED <<layout, unsent, crashed, kept>>, publish = "load",
           NEW next \in {"load", "count"}, next = "count" => unsent = {}, Commits(next)
    PROVE  PublishInv'
<1>0. /\ Nodes' = Nodes /\ db \in Db /\ Sound(db)
      /\ "staging" \in Names /\ "final" \in Names /\ "shadow" \in Names
  BY SoundNow DEF Nodes, Names
<1>1. Loading /\ Shadow(Absent) /\ Final({Absent, Old}) /\ body \in SUBSET Buffers
  BY DEF PublishInv, BeforeSwap, PublishTypeOK
<1>2. body' = {} /\ crashed' \in BOOLEAN /\ kept' \in BOOLEAN /\ unsent' \subseteq Buffers
  BY DEF Commits, PublishInv, PublishTypeOK
<1>3. ASSUME NEW k \in Nodes
      PROVE  /\ Lands(k, body) \in Db
             /\ \E R \in SUBSET Buffers :
                   /\ Tab(k, "staging") = New(R)
                   /\ Lands(k, body).tab[k]["staging"] = New(R \cup body)
             /\ \A n \in Nodes, u \in Names :
                   (n # k \/ u # "staging") => Lands(k, body).tab[n][u] = Tab(n, u)
  <2>1. PICK R \in SUBSET Buffers : Tab(k, "staging") = New(R)
    BY <1>1 DEF Loading
  <2> QED
    BY <1>0, <1>1, <2>1, LandsTabs
<1>4. \A k \in Nodes : Sound(Lands(k, body))
  BY <1>0, <1>3 DEF Sound, Tab
<1>5. CASE publish' = "discard" /\ (db' = db \/ \E n \in Nodes : db' = Lands(n, body))
  BY <1>0, <1>2, <1>4, <1>5, GiveUp
<1>6. ASSUME NEW k \in Nodes, db' = Lands(k, body), publish' = next
      PROVE  PublishInv'
  <2> DEFINE after == Lands(k, body)
  <2>1. PICK R \in SUBSET Buffers :
           Tab(k, "staging") = New(R) /\ after.tab[k]["staging"] = New(R \cup body)
    BY <1>3
  <2>2. \A n \in Nodes, u \in Names :
           (n # k \/ u # "staging") => after.tab[n][u] = Tab(n, u)
    BY <1>3
  <2>3. db' = after /\ Sound(after)
    BY <1>4, <1>6
  <2> HIDE DEF after
  <2>4. Shadow(Absent)' /\ Final({Absent, Old})'
    BY <1>0, <1>1, <2>2, <2>3 DEF Shadow, Final, Tab
  <2>5. Loading'
    <3>1. \A n \in Nodes : db'.tab[n]["staging"] \in {New(S) : S \in SUBSET Buffers}
      BY <1>0, <1>1, <2>1, <2>2, <2>3 DEF Loading
    <3>2. ASSUME NEW b \in Buffers
          PROVE  b \in unsent \/ \E n \in Nodes : b \in db'.tab[n]["staging"].rows
      <4>1. CASE b \in unsent
        BY <4>1
      <4>2. CASE b \in body
        BY <1>6, <2>1, <2>3, <4>2 DEF New
      <4>3. CASE \E n \in Nodes : b \in Tab(n, "staging").rows
        <5>1. PICK n \in Nodes : b \in Tab(n, "staging").rows
          BY <4>3
        <5>2. CASE n = k
          BY <2>1, <2>3, <5>1, <5>2 DEF New
        <5>3. CASE n # k
          BY <1>0, <2>2, <2>3, <5>1, <5>3
        <5> QED
          BY <5>2, <5>3
      <4> QED
        BY <1>1, <4>1, <4>2, <4>3 DEF Loading
    <3> QED
      BY <1>0, <3>1, <3>2 DEF Loading, Tab, New
  <2>6. BeforeSwap' /\ AfterSwap' /\ DuringSwap'
    BY <1>2, <1>6, <2>4, <2>5 DEF BeforeSwap, AfterSwap, DuringSwap
  <2> QED
    BY <1>0, <1>2, <2>3, <2>6, Reached DEF Sound
<1> QED
  BY <1>5, <1>6 DEF Commits

LEMMA SendStep ==
    ASSUME PublishInv, UNCHANGED layout, NEW b \in Buffers, Send(b)
    PROVE  PublishInv'
<1>0. /\ Nodes' = Nodes /\ db \in Db /\ Sound(db)
      /\ UNCHANGED <<db, publish, crashed, kept>> /\ publish = "load"
  BY SoundNow DEF Nodes, Send
<1>1. Loading /\ Shadow(Absent) /\ Final({Absent, Old})
  BY <1>0 DEF PublishInv, BeforeSwap
<1>2. Loading' /\ Shadow(Absent)' /\ Final({Absent, Old})'
  BY <1>0, <1>1 DEF Loading, Shadow, Final, Tab, Send, New
<1>3. BeforeSwap' /\ AfterSwap' /\ DuringSwap'
  BY <1>0, <1>2 DEF BeforeSwap, AfterSwap, DuringSwap
<1>4. unsent' \subseteq Buffers /\ body' \subseteq Buffers
  BY DEF Send, PublishInv, PublishTypeOK
<1> QED
  BY <1>0, <1>3, <1>4, Reached DEF Sound, PublishInv, PublishTypeOK

\* A replica that catches up: where all agree there is nothing to fetch, and while it loads
\* the rows are on one node more.
LEMMA FetchStep ==
    ASSUME PublishInv, UNCHANGED layout,
           NEW k \in Nodes, NEW m \in Nodes, Fetch(k, m)
    PROVE  PublishInv'
<1> DEFINE S == Tab(m, "staging").rows
           after == Lands(k, S)
<1>0. /\ Nodes' = Nodes /\ db \in Db /\ Sound(db)
      /\ "staging" \in Names /\ "final" \in Names /\ "shadow" \in Names
      /\ UNCHANGED <<publish, unsent, body, crashed, kept>> /\ db' = after
  BY SoundNow DEF Nodes, Names, Fetch
<1>1. Tab(k, "staging") \in Content /\ Tab(m, "staging") \in Content
  BY <1>0 DEF Db, Tab
<1>2. PICK R \in SUBSET Buffers : Tab(k, "staging") = New(R)
  BY <1>1 DEF Fetch, Content, Old
<1>3. PICK Q \in SUBSET Buffers : Tab(m, "staging") = New(Q)
  BY <1>1 DEF Fetch, Content, Old
<1>4. S = Q
  BY <1>3 DEF New
<1>5. /\ after \in Db /\ after.state = db.state
      /\ after.tab[k]["staging"] = New(R \cup Q)
      /\ \A n \in Nodes, u \in Names :
            (n # k \/ u # "staging") => after.tab[n][u] = Tab(n, u)
  BY <1>0, <1>2, <1>4, LandsTabs
<1>6. ~Staged(Absent) /\ ~Staged(Whole)
  <2>1. ~Staged(Absent)
    BY DEF Fetch, Staged
  <2>2. ~Staged(Whole)
    BY DEF Fetch, Staged
  <2> QED
    BY <2>1, <2>2
<1> HIDE DEF after, S
<1>7. \A x : (Shadow(x) => Shadow(x)') /\ (Final(x) => Final(x)')
  BY <1>0, <1>5 DEF Shadow, Final, Tab
<1>8. Loading => Loading'
  <2> SUFFICES ASSUME Loading PROVE Loading'
    OBVIOUS
  <2>1. \A n \in Nodes : db'.tab[n]["staging"] \in {New(T) : T \in SUBSET Buffers}
    BY <1>0, <1>2, <1>3, <1>5 DEF Loading
  <2>2. \A n \in Nodes : Tab(n, "staging").rows \subseteq db'.tab[n]["staging"].rows
    <3>1. \A n \in Nodes : n # k => db'.tab[n]["staging"] = Tab(n, "staging")
      BY <1>0, <1>5
    <3>2. Tab(k, "staging").rows \subseteq db'.tab[k]["staging"].rows
      BY <1>0, <1>2, <1>5 DEF New
    <3> QED
      BY <3>1, <3>2
  <2> QED
    BY <1>0, <2>1, <2>2 DEF Loading, Tab, New
<1>9. BeforeSwap'
  BY <1>0, <1>6, <1>7, <1>8 DEF PublishInv, BeforeSwap, Old
<1>10. DuringSwap'
  <2>1. /\ publish # "attach" /\ publish # "fill"
        /\ ~(publish = "exchange" /\ layout # "engine")
    BY <1>6 DEF PublishInv, DuringSwap
  <2>2. Shadow(Whole) => Shadow(Whole)'
    BY <1>7 DEF Whole, New
  <2>3. Final({Absent, Old}) => Final({Absent, Old})'
    BY <1>7 DEF Old
  <2>4. Shadow(Absent) => Shadow(Absent)'
    BY <1>7
  <2> QED
    BY <1>0, <2>1, <2>2, <2>3, <2>4 DEF PublishInv, DuringSwap
<1>11. AfterSwap'
  <2>1. Final({Whole}) => Final({Whole})'
    BY <1>7 DEF Whole, New
  <2>2. Shadow(Absent) => Shadow(Absent)'
    BY <1>7
  <2> QED
    BY <1>0, <1>5, <1>6, <2>1, <2>2 DEF PublishInv, AfterSwap
<1>12. \A n \in Nodes : db'.tab[n]["final"] \in Readable
  BY <1>0, <1>5 DEF Sound, Tab
<1> QED
  BY <1>0, <1>5, <1>9, <1>10, <1>11, <1>12, Reached DEF PublishInv, PublishTypeOK

\* Where every node holds the same rows and no buffer is elsewhere, every node holds them all.
LEMMA SyncedWhole ==
    ASSUME Loading, unsent = {}, body = {}, Synced
    PROVE  Staged(Whole)
<1> SUFFICES ASSUME NEW n \in Nodes
             PROVE  Tab(n, "staging") = Whole
  BY DEF Staged
<1>1. PICK R \in SUBSET Buffers : Tab(n, "staging") = New(R)
  BY DEF Loading
<1>2. \A b \in Buffers : b \in Tab(n, "staging").rows
  <2> SUFFICES ASSUME NEW b \in Buffers
               PROVE  b \in Tab(n, "staging").rows
    OBVIOUS
  <2>1. PICK m \in Nodes : b \in Tab(m, "staging").rows
    BY DEF Loading
  <2>2. Tab(n, "staging") = Tab(m, "staging")
    BY DEF Synced
  <2> QED
    BY <2>1, <2>2
<1>3. R = Buffers
  <2>1. Tab(n, "staging").rows = R
    BY <1>1 DEF New
  <2> QED
    BY <1>2, <2>1
<1> QED
  BY <1>1, <1>3 DEF Whole

LEMMA BarrierStep ==
    ASSUME PublishInv, UNCHANGED layout, Count \/ Sync
    PROVE  PublishInv'
<1>0. /\ Nodes' = Nodes /\ db \in Db /\ Sound(db)
      /\ UNCHANGED <<db, unsent, body, crashed, kept>>
      /\ unsent \subseteq Buffers /\ body \subseteq Buffers
      /\ crashed \in BOOLEAN /\ kept \in BOOLEAN
  BY SoundNow DEF Nodes, Count, Sync, PublishInv, PublishTypeOK
<1>1. CASE publish' = "discard"
  BY <1>0, <1>1, GiveUp
<1>2. ASSUME Synced, publish \in {"count", "sync"}, publish' \in {"sync", "swap"}
      PROVE  PublishInv'
  <2>1. Shadow(Absent) /\ Final({Absent, Old})
    BY <1>2 DEF PublishInv, BeforeSwap
  <2>2. Staged(Whole)
    BY <1>2, SyncedWhole DEF PublishInv, BeforeSwap
  <2>3. Staged(Whole)' /\ Shadow(Absent)' /\ Final({Absent, Old})'
    BY <1>0, <2>1, <2>2 DEF Staged, Shadow, Final, Tab, Whole, New
  <2>4. BeforeSwap' /\ AfterSwap' /\ DuringSwap'
    BY <1>2, <2>3 DEF BeforeSwap, AfterSwap, DuringSwap
  <2>5. \A n \in Nodes : db'.tab[n]["final"] \in Readable
    BY <1>0 DEF Sound
  <2> QED
    BY <1>0, <2>4, <2>5, Reached
<1> QED
  BY <1>1, <1>2 DEF Count, Sync

\* The run gives up, or dies where it stands.
LEMMA AbandonStep ==
    ASSUME PublishInv, UNCHANGED layout, Refuse \/ AbortLoad \/ Crash
    PROVE  PublishInv'
<1>0. /\ Nodes' = Nodes /\ db \in Db /\ Sound(db) /\ UNCHANGED <<db, kept>>
      /\ unsent' \subseteq Buffers /\ body' \subseteq Buffers
      /\ crashed' \in BOOLEAN /\ kept' \in BOOLEAN
  BY SoundNow DEF Nodes, Refuse, AbortLoad, Crash, PublishInv, PublishTypeOK
<1>1. CASE Refuse \/ AbortLoad
  BY <1>0, <1>1, GiveUp DEF Refuse, AbortLoad
<1>2. CASE Crash
  <2>1. layout # "engine" => Shadow(Absent)
    BY DEF PublishInv, DuringSwap
  <2>2. (layout # "engine" => Shadow(Absent))'
    BY <1>0, <2>1 DEF Shadow, Tab
  <2>3. BeforeSwap' /\ AfterSwap' /\ DuringSwap'
    BY <1>2, <2>2 DEF Crash, BeforeSwap, AfterSwap, DuringSwap
  <2>4. \A n \in Nodes : db'.tab[n]["final"] \in Readable
    BY <1>0 DEF Sound
  <2> QED
    BY <1>0, <2>3, <2>4, Reached
<1> QED
  BY <1>1, <1>2

LEMMA PublishStep ==
    ASSUME PublishInv, PublishNext
    PROVE  PublishInv'
<1>0. UNCHANGED layout
  BY DEF PublishNext
<1>1. CASE Refuse \/ AbortLoad \/ Crash
  BY <1>0, <1>1, AbandonStep
<1>2. CASE CreateStaging
  BY <1>0, <1>2, CreateStagingStep
<1>3. CASE \E b \in Buffers : Send(b)
  BY <1>0, <1>3, SendStep
<1>4. CASE Roll
  BY <1>0, <1>4, CommitsStep DEF Roll
<1>5. CASE Finish
  BY <1>0, <1>5, CommitsStep DEF Finish
<1>6. CASE \E n, m \in Nodes : Fetch(n, m)
  BY <1>0, <1>6, FetchStep
<1>7. CASE Count \/ Sync
  BY <1>0, <1>7, BarrierStep
<1>8. CASE PlainCreate \/ ClusterCreate
  BY <1>0, <1>8, CreateFinalStep DEF PlainCreate, ClusterCreate
<1>9. CASE EngineFirst
  BY <1>0, <1>9, CreateFinalStep DEF EngineFirst
<1>10. CASE PlainExchange \/ ClusterExchange
  BY <1>0, <1>10, ExchangeStep DEF PlainExchange, ClusterExchange
<1>11. CASE ClusterDrop \/ EngineDrop \/ DropStaging \/ Discard
  BY <1>0, <1>11, ClusterDropStep, EngineDropStep, DropStagingStep, DiscardStep
<1>12. CASE EngineAttach \/ EngineShadow \/ EngineFill \/ EngineExchange
  BY <1>0, <1>12, EngineAttachStep, EngineShadowStep, EngineFillStep, EngineExchangeStep
<1>13. CASE ClearState
  BY <1>0, <1>13, ClearStateStep
<1> QED
  BY <1>1, <1>2, <1>3, <1>4, <1>5, <1>6, <1>7, <1>8, <1>9, <1>10, <1>11, <1>12, <1>13
     DEF PublishNext

LEMMA PublishStarts ==
    ASSUME PublishInit
    PROVE  PublishInv
<1>1. PICK was \in {Absent, Old} : db = Before(was)
  BY DEF PublishInit
<1>2. was \in Content /\ Absent \in Content
  BY Contents, <1>1
<1>3. /\ db.tab = [n \in Nodes |-> [t \in Names |-> IF t = "final" THEN was ELSE Absent]]
      /\ db.state \in {"clear", "old"} /\ db = [tab |-> db.tab, state |-> db.state]
  BY <1>1 DEF Before
<1>4. db.tab \in [Nodes -> [Names -> Content]]
  BY <1>2, <1>3
<1>5. db \in Db
  BY <1>3, <1>4 DEF Db
<1>6. \A n \in Nodes, t \in Names : Tab(n, t) = IF t = "final" THEN was ELSE Absent
  BY <1>3 DEF Tab
<1>7. Staged(Absent) /\ Shadow(Absent) /\ Final({Absent, Old})
  BY <1>6 DEF Staged, Shadow, Final, Names
<1>8. PublishTypeOK /\ OldOrNew
  BY <1>5, <1>7 DEF PublishInit, PublishTypeOK, Db, OldOrNew, Final
<1>9. BeforeSwap /\ DuringSwap /\ AfterSwap
  BY <1>7 DEF PublishInit, BeforeSwap, DuringSwap, AfterSwap
<1> QED
  BY <1>8, <1>9 DEF PublishInv

\* A reader of the destination sees the old table or the new one whole on every node, a run
\* that reports success published its load everywhere, and one that ends leaves nothing it
\* does not name, whatever answers were lost, whichever replica lagged, wherever it died
\* (finalize_inner, publish_engine, discard; sink/clickhouse.rs).
THEOREM NeverTornHolds == PublishSpec => []NeverTorn
<1>1. PublishInit => PublishInv
  BY PublishStarts
<1>2. PublishInv /\ [PublishNext]_publishVars => PublishInv'
  BY PublishStep, Same DEF publishVars
<1>3. PublishInv => NeverTorn
  BY DEF PublishInv, AfterSwap, NeverTorn, SuccessPublishes, NothingLeft, Final, Staged, Shadow
<1> QED
  BY <1>1, <1>2, <1>3, PTL DEF PublishSpec

-----------------------------------------------------------------------------
(* A position moves only past whole windows, for every group of tables,    *)
(* margin, length of a lease, of a window and of a statement.              *)

InUnit == {"open", "running", "pending"}

FenceTypes ==
    /\ members \in Groups /\ clock \in Nat /\ win \in Nat
    /\ exp \in [members -> Nat] /\ taken \in [members -> BOOLEAN] /\ mark \in [members -> Nat]
    /\ phase \in [members ->
                    {"none", "idle", "open", "running", "pending", "skipped", "failed"}]
    /\ e0 \in [members -> Nat] /\ owed \in [members -> BOOLEAN] /\ cache \in [members -> Nat]
    /\ parts \in [members -> Nat] /\ lost \in [members -> BOOLEAN]
    /\ sent \in [members -> Nat] /\ landed \in [members -> Nat]
    /\ group \in [e0 : Nat, owed : BOOLEAN, todo : SUBSET members, one : BOOLEAN]

\* No predicate that carries this unit's pin can pass any more.
Closed(m) == taken[m] \/ e0[m] <= clock + Margin

\* A pin is never past its row, and a unit that lost a part carries a pin that has closed: it
\* has sent a statement under it, so a re-read must continue it.  A unit that lost none has
\* written every part there was.
FencedUnit(m) ==
    /\ e0[m] <= exp[m] /\ cache[m] <= exp[m] /\ exp[m] <= clock + TTL
    /\ phase[m] = "idle" => ~lost[m] /\ sent[m] = 0 /\ landed[m] = 0
    /\ phase[m] \in InUnit => e0[m] > 0
    /\ phase[m] \in InUnit /\ lost[m] => owed[m] /\ Closed(m)
    /\ phase[m] = "open" => owed[m] \/ sent[m] = 0
    /\ phase[m] = "running" =>
          /\ owed[m] /\ parts[m] \in 1..Parts
          /\ ~lost[m] => landed[m] + parts[m] = sent[m] * Parts + Parts
    /\ phase[m] \in {"open", "pending"} /\ ~lost[m] => landed[m] = sent[m] * Parts
    /\ phase[m] = "pending" => sent[m] = Stmts
    /\ phase[m] \in {"idle"} \cup InUnit => mark[m] <= win

\* A group that closes has read every row within the lowest pin of its members.
GroupWhole ==
    /\ group.todo \subseteq Pending
    /\ group.todo # {} => Applied /\ \A m \in Pending : ~lost[m]

FenceInv == FenceTypes /\ GroupWhole /\ \A m \in members : FencedUnit(m)

-----------------------------------------------------------------------------
Less == {p \in Nat \X Nat : p[1] < p[2]}

\* A set of naturals that is not empty has a minimum.
LEMMA MinLeast ==
    ASSUME NEW S \in SUBSET Nat, S # {}
    PROVE  Min(S) \in S /\ \A x \in S : Min(S) <= x
<1>1. OpToRel(<, Nat) = Less
  BY DEF OpToRel, Less
<1>2. PICK m \in S : \A x \in S : ~(<<x, m>> \in Less)
  BY <1>1, NatLessThanWellFounded, WFMin
<1>3. \A a, b \in Nat : a < b => <<a, b>> \in Less
  BY DEF Less
<1>4. \A x \in S : m <= x
  <2> TAKE x \in S
  <2>1. ~(x < m)
    BY <1>2, <1>3
  <2> QED
    BY <2>1
<1> QED
  BY <1>4 DEF Min

\* What a unit knows survives the clock, renewals and claims.
LEMMA UnitFrame ==
    ASSUME FenceAssumption, NEW m \in members, FenceTypes, FencedUnit(m),
           clock' \in Nat, clock <= clock', exp'[m] \in Nat, exp[m] <= exp'[m],
           exp'[m] <= clock' + TTL, taken[m] => taken'[m],
           mark'[m] = mark[m] \/ mark'[m] = win, UNCHANGED <<win, unit>>
    PROVE  FencedUnit(m)'
<1>1. /\ e0[m] \in Nat /\ cache[m] \in Nat /\ exp[m] \in Nat /\ Margin \in Nat /\ TTL \in Nat
      /\ mark[m] \in Nat /\ win \in Nat /\ clock \in Nat
  BY DEF FenceTypes, FenceAssumption
<1>2. Closed(m) => Closed(m)'
  BY <1>1 DEF Closed, unit
<1> QED
  BY <1>1, <1>2 DEF FencedUnit, unit, InUnit

\* A step of one member's unit while the group is not closing.
LEMMA UnitAlone ==
    ASSUME FenceAssumption, FenceInv, NEW m \in members,
           UNCHANGED <<members, clock, row, mark, win, group>>,
           phase[m] \in {"idle", "open", "running"},
           FenceTypes',
           \A k \in members \ {m} :
              /\ phase'[k] = phase[k] /\ e0'[k] = e0[k] /\ owed'[k] = owed[k]
              /\ cache'[k] = cache[k] /\ parts'[k] = parts[k] /\ lost'[k] = lost[k]
              /\ sent'[k] = sent[k] /\ landed'[k] = landed[k],
           FencedUnit(m)'
    PROVE  FenceInv'
<1>1. group.todo = {}
  BY DEF FenceInv, GroupWhole, Applied
<1>2. GroupWhole'
  BY <1>1 DEF GroupWhole
<1>3. ASSUME NEW k \in members, k # m
      PROVE  FencedUnit(k)'
  BY <1>3 DEF FenceInv, FencedUnit, Closed, row
<1> QED
  BY <1>2, <1>3 DEF FenceInv

\* The window or the run is over.
LEMMA WindowOver ==
    ASSUME FenceAssumption, FenceInv, UNCHANGED members, EndRun \/ EndWindow,
           mark' \in [members -> Nat]
    PROVE  FenceInv'
<1>1. /\ win' = 0 /\ group' = NoGroup /\ phase' = [m \in members |-> "none"]
      /\ UNCHANGED <<clock, e0, owed, parts, lost, sent, landed>>
      /\ \/ UNCHANGED <<exp, taken, cache>>
         \/ /\ cache' = [m \in members |-> 0] /\ exp' = [m \in members |-> clock + TTL]
            /\ taken' = [m \in members |-> FALSE]
  BY DEF EndRun, EndWindow, row
<1>2. TTL \in Nat /\ clock \in Nat
  BY DEF FenceAssumption, FenceInv, FenceTypes
<1>3. /\ exp' \in [members -> Nat] /\ taken' \in [members -> BOOLEAN]
      /\ cache' \in [members -> Nat]
  <2>1. CASE UNCHANGED <<exp, taken, cache>>
    BY <2>1 DEF FenceInv, FenceTypes
  <2>2. CASE /\ cache' = [m \in members |-> 0] /\ exp' = [m \in members |-> clock + TTL]
             /\ taken' = [m \in members |-> FALSE]
    BY <1>2, <2>2
  <2> QED
    BY <1>1, <2>1, <2>2
<1>4. FenceTypes'
  BY <1>1, <1>3 DEF FenceInv, FenceTypes, NoGroup
<1>5. GroupWhole'
  BY <1>1 DEF GroupWhole, NoGroup
<1>6. ASSUME NEW m \in members
      PROVE  FencedUnit(m)'
  <2>1. e0[m] \in Nat /\ exp[m] \in Nat /\ cache[m] \in Nat
    BY DEF FenceInv, FenceTypes
  <2>2. e0[m] <= exp[m] /\ cache[m] <= exp[m] /\ exp[m] <= clock + TTL
    BY DEF FenceInv, FencedUnit
  <2>3. e0'[m] <= exp'[m] /\ cache'[m] <= exp'[m] /\ exp'[m] <= clock' + TTL
    BY <1>1, <1>2, <2>1, <2>2
  <2>4. phase'[m] = "none"
    BY <1>1
  <2> QED
    BY <2>3, <2>4 DEF FencedUnit, InUnit
<1> QED
  BY <1>1, <1>4, <1>5, <1>6 DEF FenceInv

-----------------------------------------------------------------------------
(* The lease rows and the units.                                           *)

\* The clock moves, the keeper renews, a peer claims.
LEMMA RowStep ==
    ASSUME FenceAssumption, FenceInv, UNCHANGED members,
           FenceTick \/ KeeperRenews \/ \E m \in members : PeerClaims(m)
    PROVE  FenceInv'
<1>1. UNCHANGED <<mark, win, unit, group>>
  BY DEF FenceTick, KeeperRenews, PeerClaims
<1>2. /\ clock \in Nat /\ TTL \in Nat /\ exp \in [members -> Nat]
      /\ taken \in [members -> BOOLEAN]
  BY DEF FenceAssumption, FenceInv, FenceTypes
<1>3. ASSUME NEW m \in members
      PROVE  exp[m] <= clock + TTL
  BY DEF FenceInv, FencedUnit
<1> DEFINE Rises ==
       /\ clock' \in Nat /\ clock <= clock' /\ exp' \in [members -> Nat]
       /\ taken' \in [members -> BOOLEAN]
       /\ \A m \in members :
             exp[m] <= exp'[m] /\ exp'[m] <= clock' + TTL /\ (taken[m] => taken'[m])
<1>4. Rises
  <2>1. CASE FenceTick
    BY <1>2, <1>3, <2>1 DEF FenceTick, row
  <2>2. CASE KeeperRenews
    BY <1>2, <1>3, <2>2 DEF KeeperRenews
  <2>3. ASSUME NEW m \in members, PeerClaims(m)
        PROVE  Rises
    BY <1>2, <1>3, <2>3 DEF PeerClaims
  <2> QED
    BY <2>1, <2>2, <2>3
<1>5. FenceTypes'
  BY <1>1, <1>4 DEF FenceInv, FenceTypes, unit
<1>6. GroupWhole'
  BY <1>1 DEF FenceInv, GroupWhole, Applied, Pending, unit
<1>7. ASSUME NEW m \in members
      PROVE  FencedUnit(m)'
  BY <1>1, <1>4, UnitFrame DEF FenceInv, FenceTypes
<1> QED
  BY <1>5, <1>6, <1>7 DEF FenceInv

\* The numbers of a unit.
LEMMA UnitNumbers ==
    ASSUME FenceAssumption, FenceTypes, NEW m \in members
    PROVE  /\ exp[m] \in Nat /\ e0[m] \in Nat /\ cache[m] \in Nat /\ parts[m] \in Nat
           /\ sent[m] \in Nat /\ landed[m] \in Nat /\ mark[m] \in Nat /\ win \in Nat
           /\ clock \in Nat /\ Margin \in Nat /\ TTL \in Nat /\ Parts \in Nat \ {0}
           /\ Stmts \in Nat \ {0} /\ sent[m] * Parts \in Nat
           /\ taken[m] \in BOOLEAN /\ owed[m] \in BOOLEAN /\ lost[m] \in BOOLEAN
BY DEF FenceAssumption, FenceTypes

LEMMA OpenStep ==
    ASSUME FenceAssumption, FenceInv, UNCHANGED members, NEW m \in members, Open(m)
    PROVE  FenceInv'
<1>1. /\ phase[m] = "idle" /\ UNCHANGED <<clock, row, mark, win, parts, lost, sent, landed, group>>
      /\ phase' = [phase EXCEPT ![m] = "open"] /\ owed' = [owed EXCEPT ![m] = FALSE]
  BY DEF Open
<1>2. FencedUnit(m) /\ FenceTypes
  BY DEF FenceInv
<1>3. /\ e0' \in [members -> Nat] /\ cache' \in [members -> Nat]
      /\ \A k \in members \ {m} : e0'[k] = e0[k] /\ cache'[k] = cache[k]
      /\ e0'[m] > 0 /\ e0'[m] <= exp[m] /\ cache'[m] <= exp[m]
  <2>1. CASE cache[m] # 0 /\ e0' = [e0 EXCEPT ![m] = cache[m]] /\ UNCHANGED cache
    BY <1>2, <2>1, UnitNumbers DEF FencedUnit, FenceTypes
  <2>2. CASE Repin({m}, 0) /\ Pinned(m, exp[m])
    <3>1. exp[m] > 0 /\ exp[m] \in Nat
      BY <1>2, <2>2, UnitNumbers DEF Repin, OwnerPred
    <3> QED
      BY <1>2, <2>2, <3>1 DEF Pinned, FenceTypes
  <2> QED
    BY <2>1, <2>2 DEF Open
<1>4. FenceTypes'
  BY <1>1, <1>2, <1>3 DEF FenceTypes, row
<1>5. FencedUnit(m)'
  <2>1. /\ phase'[m] = "open" /\ ~owed'[m] /\ ~lost'[m]
        /\ sent'[m] = 0 /\ landed'[m] = 0 /\ mark'[m] <= win' /\ exp'[m] = exp[m]
        /\ clock' = clock /\ exp[m] <= clock + TTL
    BY <1>1, <1>2, <1>3 DEF FenceTypes, FencedUnit, row
  <2>2. sent'[m] * Parts = 0
    BY <1>2, <2>1, UnitNumbers
  <2> QED
    BY <1>3, <2>1, <2>2 DEF FencedUnit, InUnit
<1> QED
  BY <1>1, <1>2, <1>3, <1>4, <1>5, UnitAlone DEF FenceTypes, row

\* A unit that lost a part cannot read its pin again.
LEMMA RepinWhole ==
    ASSUME FenceAssumption, FenceInv, NEW m \in members, phase[m] = "open",
           OwnerPred(m), Prev(m) = 0 \/ PinnedPred(Prev(m))
    PROVE  ~lost[m]
<1>1. FencedUnit(m) /\ FenceTypes
  BY DEF FenceInv
<1> QED
  BY <1>1, UnitNumbers DEF FencedUnit, InUnit, Closed, OwnerPred, Prev, PinnedPred

LEMMA SendOwnedStep ==
    ASSUME FenceAssumption, FenceInv, UNCHANGED members, NEW m \in members, SendOwned(m)
    PROVE  FenceInv'
<1>1. /\ phase[m] = "open" /\ UNCHANGED <<clock, row, mark, win, lost, sent, landed, group>>
      /\ phase' = [phase EXCEPT ![m] = "running"] /\ parts' = [parts EXCEPT ![m] = Parts]
      /\ owed' = [owed EXCEPT ![m] = TRUE]
  BY DEF SendOwned
<1>2. FencedUnit(m) /\ FenceTypes
  BY DEF FenceInv
<1>3. /\ e0' \in [members -> Nat] /\ cache' \in [members -> Nat]
      /\ \A k \in members \ {m} : e0'[k] = e0[k] /\ cache'[k] = cache[k]
      /\ e0'[m] > 0 /\ e0'[m] <= exp[m] /\ cache'[m] <= exp[m]
      /\ lost[m] => e0'[m] = e0[m]
  <2>1. CASE UNCHANGED <<e0, cache>>
    BY <1>1, <1>2, <2>1 DEF FencedUnit, FenceTypes, InUnit
  <2>2. CASE Repin({m}, Prev(m)) /\ Pinned(m, exp[m])
    <3>1. OwnerPred(m) /\ (Prev(m) = 0 \/ PinnedPred(Prev(m)))
      BY <2>2 DEF Repin
    <3>2. ~lost[m]
      BY <1>1, <3>1, RepinWhole
    <3>3. exp[m] > 0 /\ exp[m] \in Nat
      BY <1>2, <3>1, UnitNumbers DEF OwnerPred
    <3> QED
      BY <1>2, <2>2, <3>2, <3>3 DEF Pinned, FenceTypes
  <2> QED
    BY <2>1, <2>2 DEF SendOwned, PassesFence
<1>4. FenceTypes'
  BY <1>1, <1>2, <1>3, UnitNumbers DEF FenceTypes, row
<1>5. FencedUnit(m)'
  <2>1. /\ phase'[m] = "running" /\ owed'[m]
        /\ lost'[m] = lost[m] /\ parts'[m] = Parts
        /\ sent'[m] = sent[m] /\ landed'[m] = landed[m] /\ mark'[m] <= win' /\ exp'[m] = exp[m]
        /\ taken'[m] = taken[m] /\ clock' = clock /\ exp[m] <= clock + TTL
    BY <1>1, <1>2, <1>3 DEF FenceTypes, FencedUnit, InUnit, row
  <2>2. ~lost[m] => landed[m] + Parts = sent[m] * Parts + Parts
    BY <1>1, <1>2 DEF FencedUnit
  <2>3. Parts \in 1..Parts
    BY <1>2, UnitNumbers
  <2>4. lost[m] => Closed(m)'
    BY <1>1, <1>2, <1>3, <2>1 DEF FencedUnit, InUnit, Closed
  <2> QED
    BY <1>3, <2>1, <2>2, <2>3, <2>4 DEF FencedUnit, InUnit
<1> QED
  BY <1>1, <1>2, <1>3, <1>4, <1>5, UnitAlone DEF FenceTypes, row

\* A unit that fails says nothing any more.
LEMMA UnitFailsStep ==
    ASSUME FenceAssumption, FenceInv, UNCHANGED members, NEW m \in members,
           RefuseUnit(m) \/ ApplyFails(m)
    PROVE  FenceInv'
<1>1. /\ phase[m] \in {"idle", "open", "running"}
      /\ UNCHANGED <<clock, row, mark, win, group, e0, owed, cache, parts, lost, sent, landed>>
      /\ phase' = [phase EXCEPT ![m] = "failed"]
  BY DEF RefuseUnit, ApplyFails, Fail
<1>2. FencedUnit(m) /\ FenceTypes
  BY DEF FenceInv
<1>3. FenceTypes'
  BY <1>1, <1>2 DEF FenceTypes, row
<1>4. FencedUnit(m)'
  BY <1>1, <1>2 DEF FenceTypes, FencedUnit, InUnit, row
<1> QED
  BY <1>1, <1>2, <1>3, <1>4, UnitAlone DEF FenceTypes

\* A part passes only under a pin that is open; a part that is fenced out leaves it closed.
LEMMA PartWhole ==
    ASSUME FenceAssumption, FenceInv, NEW m \in members, phase[m] = "running"
    PROVE  IF OwnerPred(m) /\ PinnedPred(e0[m]) THEN ~lost[m] ELSE Closed(m)
<1>1. FencedUnit(m) /\ FenceTypes
  BY DEF FenceInv
<1> QED
  BY <1>1, UnitNumbers DEF FencedUnit, InUnit, Closed, OwnerPred, PinnedPred

LEMMA PartStep ==
    ASSUME FenceAssumption, FenceInv, UNCHANGED members, NEW m \in members, Part(m)
    PROVE  FenceInv'
<1> DEFINE open == OwnerPred(m) /\ PinnedPred(e0[m])
           last == parts[m] = 1
<1>1. /\ phase[m] = "running" /\ UNCHANGED <<clock, row, mark, win, e0, owed, cache, group>>
      /\ parts' = [parts EXCEPT ![m] = @ - 1]
      /\ phase' = [phase EXCEPT ![m] = IF last THEN "open" ELSE "running"]
      /\ sent' = [sent EXCEPT ![m] = IF last THEN @ + 1 ELSE @]
      /\ \/ open /\ landed' = [landed EXCEPT ![m] = @ + 1] /\ UNCHANGED lost
         \/ ~open /\ lost' = [lost EXCEPT ![m] = TRUE] /\ UNCHANGED landed
  BY DEF Part
<1>2. FencedUnit(m) /\ FenceTypes /\ IF open THEN ~lost[m] ELSE Closed(m)
  BY <1>1, PartWhole DEF FenceInv
<1> HIDE DEF open
<1>3. parts[m] \in 1..Parts /\ owed[m] /\ parts[m] \in Nat /\ parts[m] - 1 \in Nat
  BY <1>1, <1>2, UnitNumbers DEF FencedUnit
<1>4. FenceTypes'
  <2>1. parts' \in [members -> Nat]
    <3>1. parts \in [members -> Nat]
      BY <1>2 DEF FenceTypes
    <3> QED
      BY <1>1, <1>3, <3>1
  <2>3. sent' \in [members -> Nat]
    <3>1. sent \in [members -> Nat] /\ sent[m] + 1 \in Nat
      BY <1>2 DEF FenceTypes
    <3> QED
      BY <1>1, <3>1
  <2>2. landed' \in [members -> Nat] /\ lost' \in [members -> BOOLEAN]
    <3>1. landed \in [members -> Nat] /\ landed[m] + 1 \in Nat /\ lost \in [members -> BOOLEAN]
      BY <1>2 DEF FenceTypes
    <3>2. landed' = landed \/ landed' = [landed EXCEPT ![m] = @ + 1]
      BY <1>1
    <3>3. lost' = lost \/ lost' = [lost EXCEPT ![m] = TRUE]
      BY <1>1
    <3>4. landed' \in [members -> Nat]
      BY <3>1, <3>2
    <3>5. lost' \in [members -> BOOLEAN]
      BY <3>1, <3>3
    <3> QED
      BY <3>4, <3>5
  <2> QED
    BY <1>1, <1>2, <2>1, <2>2, <2>3 DEF FenceTypes, row
<1>5. FencedUnit(m)'
  <2>1. /\ phase'[m] = (IF last THEN "open" ELSE "running") /\ parts'[m] = parts[m] - 1
        /\ sent'[m] = (IF last THEN sent[m] + 1 ELSE sent[m])
        /\ owed'[m] /\ e0'[m] = e0[m] /\ cache'[m] = cache[m]
        /\ exp'[m] = exp[m] /\ taken'[m] = taken[m] /\ mark'[m] = mark[m]
        /\ win' = win /\ clock' = clock
    BY <1>1, <1>2, <1>3 DEF FenceTypes, row
  <2>2. lost'[m] => Closed(m)'
    BY <1>1, <1>2, <2>1 DEF FenceTypes, FencedUnit, InUnit, Closed
  <2>3. ~lost'[m] => ~lost[m] /\ landed'[m] = landed[m] + 1
    BY <1>1, <1>2 DEF FenceTypes
  <2>4. /\ sent[m] \in Nat /\ landed[m] \in Nat /\ Parts \in Nat /\ sent[m] * Parts \in Nat
        /\ (sent[m] + 1) * Parts = sent[m] * Parts + Parts
    BY <1>2, UnitNumbers
  <2>5. ~lost[m] => landed[m] + parts[m] = sent[m] * Parts + Parts
    BY <1>1, <1>2 DEF FencedUnit
  <2>6. CASE last
    <3>1. ~lost'[m] => landed'[m] = sent'[m] * Parts
      BY <2>1, <2>3, <2>4, <2>5, <2>6
    <3> QED
      BY <1>1, <1>2, <2>1, <2>2, <2>6, <3>1 DEF FencedUnit, InUnit
  <2>7. CASE ~last
    <3>1. ~lost'[m] => landed'[m] + parts'[m] = sent'[m] * Parts + Parts
      BY <1>3, <2>1, <2>3, <2>4, <2>5, <2>7
    <3>2. parts'[m] \in 1..Parts
      BY <1>3, <2>1, <2>4, <2>7
    <3> QED
      BY <1>1, <1>2, <2>1, <2>2, <2>7, <3>1, <3>2 DEF FencedUnit, InUnit
  <2> QED
    BY <2>6, <2>7
<1>6. \A k \in members \ {m} :
         /\ phase'[k] = phase[k] /\ parts'[k] = parts[k] /\ lost'[k] = lost[k]
         /\ sent'[k] = sent[k] /\ landed'[k] = landed[k]
  BY <1>1, <1>2 DEF FenceTypes
<1> QED
  BY <1>1, <1>4, <1>5, <1>6, UnitAlone

\* A unit that has sent every statement waits for the group.
LEMMA PendStep ==
    ASSUME FenceAssumption, FenceInv, UNCHANGED members, NEW m \in members, Pend(m)
    PROVE  FenceInv'
<1>1. /\ phase[m] = "open" /\ sent[m] = Stmts /\ phase' = [phase EXCEPT ![m] = "pending"]
      /\ UNCHANGED <<clock, row, mark, win, e0, owed, cache, parts, lost, sent, landed, group>>
  BY DEF Pend
<1>2. FencedUnit(m) /\ FenceTypes
  BY DEF FenceInv
<1>3. FenceTypes'
  BY <1>1, <1>2 DEF FenceTypes, row
<1>4. FencedUnit(m)'
  BY <1>1, <1>2 DEF FenceTypes, FencedUnit, InUnit, Closed, row
<1> QED
  BY <1>1, <1>2, <1>3, <1>4, UnitAlone DEF FenceTypes

-----------------------------------------------------------------------------
(* The window.                                                             *)

\* The least of some values.
LEMMA LeastOf ==
    ASSUME NEW K, K # {}, NEW f, \A k \in K : f[k] \in Nat
    PROVE  LET least == Min({f[k] : k \in K})
           IN  /\ least \in Nat /\ \A k \in K : least <= f[k]
               /\ \E k \in K : least = f[k]
<1> DEFINE S == {f[k] : k \in K}
<1>1. S \in SUBSET Nat /\ S # {} /\ \A k \in K : f[k] \in S
  OBVIOUS
<1>2. \A x \in S : \E k \in K : x = f[k]
  OBVIOUS
<1> HIDE DEF S
<1>3. Min(S) \in S /\ \A x \in S : Min(S) <= x
  BY <1>1, MinLeast
<1>4. /\ Min(S) \in Nat /\ \A k \in K : Min(S) <= f[k]
      /\ \E k \in K : Min(S) = f[k]
  BY <1>1, <1>2, <1>3
<1> QED
  BY <1>4 DEF S

LEMMA BeginWindowStep ==
    ASSUME FenceAssumption, FenceInv, UNCHANGED members, BeginWindow
    PROVE  FenceInv'
<1>1. FenceTypes /\ members # {} /\ mark \in [members -> Nat]
  BY DEF FenceInv, FenceTypes, FenceAssumption
<1>2. Min({mark[m] : m \in members}) \in Nat
  BY <1>1, LeastOf
<1>3. PICK w \in Nat :
         /\ win' = w
         /\ phase' = [m \in members |-> IF mark[m] >= w THEN "skipped" ELSE "idle"]
  BY <1>2 DEF BeginWindow, FenceAssumption
<1>4. /\ win = 0 /\ UNCHANGED <<clock, exp, taken, mark, e0, owed, cache, parts, group>>
      /\ lost' = [m \in members |-> FALSE] /\ sent' = [m \in members |-> 0]
      /\ landed' = [m \in members |-> 0]
  BY DEF BeginWindow, row
<1>5. FenceTypes'
  BY <1>1, <1>3, <1>4 DEF FenceTypes
<1>6. GroupWhole'
  <2>1. group.todo = {}
    BY <1>4 DEF FenceInv, GroupWhole, Applied
  <2> QED
    BY <1>4, <2>1 DEF GroupWhole
<1>7. ASSUME NEW m \in members
      PROVE  FencedUnit(m)'
  <2>1. FencedUnit(m)
    BY DEF FenceInv
  <2>2. /\ phase'[m] \in {"skipped", "idle"} /\ ~lost'[m] /\ sent'[m] = 0 /\ landed'[m] = 0
        /\ phase'[m] = "idle" => ~(mark[m] >= w)
    BY <1>3, <1>4
  <2>3. phase'[m] = "idle" => mark'[m] <= win'
    BY <1>1, <1>3, <1>4, <2>2
  <2> QED
    BY <1>4, <2>1, <2>2, <2>3 DEF FencedUnit, InUnit
<1> QED
  BY <1>5, <1>6, <1>7 DEF FenceInv

\* The least pin of the members, and of their rows.
LEMMA LeastPin ==
    ASSUME FenceTypes, Pending # {}
    PROVE  /\ PinOf(Pending) \in Nat /\ GroupDeadline \in Nat
           /\ \A m \in Pending : GroupDeadline <= e0[m]
           /\ \E m \in Pending : GroupDeadline = e0[m]
<1>1. \A m \in Pending : exp[m] \in Nat /\ e0[m] \in Nat
  BY DEF FenceTypes, Pending
<1> QED
  BY <1>1, LeastOf DEF PinOf, GroupDeadline

\* The group opens only when no pin of its members has closed, so none of them lost a part.
LEMMA GroupOpenStep ==
    ASSUME FenceAssumption, FenceInv, UNCHANGED members, GroupOpen
    PROVE  FenceInv'
<1>1. mark' \in [members -> Nat]
  BY DEF GroupOpen, FenceInv, FenceTypes
<1>2. CASE EndWindow \/ EndRun
  BY <1>1, <1>2, WindowOver
<1>3. CASE /\ Applied /\ Pending # {} /\ Repin(Pending, GroupDeadline)
           /\ group' = [e0 |-> PinOf(Pending), owed |-> FALSE, todo |-> Pending, one |-> FALSE]
           /\ UNCHANGED <<clock, row, win, unit, mark>>
  <2>1. FenceTypes /\ UNCHANGED <<clock, exp, taken, win, mark, phase, e0, owed, cache, parts,
                                  lost, sent, landed>>
    BY <1>3 DEF FenceInv, row, unit
  <2>2. FenceTypes'
    BY <1>3, <2>1, LeastPin DEF FenceTypes, Pending
  <2>3. ASSUME NEW m \in Pending
        PROVE  ~lost[m]
    <3>1. m \in members /\ phase[m] = "pending" /\ FencedUnit(m)
      BY DEF Pending, FenceInv
    <3>2. PICK k \in Pending : GroupDeadline = e0[k]
      BY <1>3, <2>1, LeastPin
    <3>3. GroupDeadline # 0
      BY <3>2 DEF Pending, FenceInv, FencedUnit, InUnit
    <3>4. clock + Margin < GroupDeadline /\ ~taken[m] /\ GroupDeadline <= e0[m]
      BY <1>3, <2>1, <3>3, LeastPin DEF Repin, PinnedPred, OwnerPred
    <3> QED
      BY <2>1, <3>1, <3>4, UnitNumbers, LeastPin DEF FencedUnit, InUnit, Closed
  <2>4. GroupWhole'
    BY <1>3, <2>1, <2>3 DEF GroupWhole, Applied, Pending
  <2>5. \A m \in members : FencedUnit(m)'
    BY <2>1 DEF FenceInv, FencedUnit, Closed
  <2> QED
    BY <2>2, <2>4, <2>5 DEF FenceInv
<1> QED
  BY <1>2, <1>3 DEF GroupOpen

-----------------------------------------------------------------------------
(* The close.                                                              *)

\* A mark of the window in hand for some members, while the units stay as they are.
LEMMA GroupMarks ==
    ASSUME FenceAssumption, FenceInv,
           UNCHANGED <<members, clock, row, win, unit>>,
           NEW K \in SUBSET members,
           mark' = [m \in members |-> IF m \in K THEN win ELSE mark[m]],
           group' \in [e0 : Nat, owed : BOOLEAN, todo : SUBSET members, one : BOOLEAN],
           group'.todo \subseteq group.todo
    PROVE  FenceInv'
<1>1. FenceTypes /\ UNCHANGED <<clock, exp, taken, win, phase, e0, owed, cache, parts, lost,
                                sent, landed>>
  BY DEF FenceInv, row, unit
<1>2. mark' \in [members -> Nat] /\ \A m \in members : mark'[m] = mark[m] \/ mark'[m] = win
  BY <1>1 DEF FenceTypes
<1>3. FenceTypes'
  BY <1>1, <1>2 DEF FenceTypes
<1>4. GroupWhole'
  BY <1>1 DEF FenceInv, GroupWhole, Applied, Pending
<1>5. ASSUME NEW m \in members
      PROVE  FencedUnit(m)'
  <2>1. FencedUnit(m)
    BY DEF FenceInv
  <2>2. exp[m] <= clock + TTL /\ exp[m] \in Nat /\ clock \in Nat
    BY <1>1, <2>1, UnitNumbers DEF FencedUnit
  <2> QED
    BY <1>1, <1>2, <2>1, <2>2, UnitFrame
<1> QED
  BY <1>3, <1>4, <1>5 DEF FenceInv

LEMMA KeepGroupStep ==
    ASSUME FenceAssumption, FenceInv, UNCHANGED members, KeepGroup
    PROVE  FenceInv'
<1>1. FenceTypes /\ mark' = mark /\ mark \in [members -> Nat] /\ Pending # {}
  BY DEF KeepGroup, FenceInv, FenceTypes, GroupWhole
<1>2. CASE EndRun
  BY <1>1, <1>2, WindowOver
<1>3. CASE /\ group' = [group EXCEPT !.e0 = PinOf(Pending), !.owed = FALSE]
           /\ UNCHANGED <<clock, row, win, unit>>
  <2>1. /\ group' \in [e0 : Nat, owed : BOOLEAN, todo : SUBSET members, one : BOOLEAN]
        /\ group'.todo \subseteq group.todo
    BY <1>1, <1>3, LeastPin DEF FenceTypes
  <2> DEFINE none == {k \in members : FALSE}
  <2>2. none \in SUBSET members /\ mark' = [m \in members |-> IF m \in none THEN win ELSE mark[m]]
    BY <1>1
  <2> HIDE DEF none
  <2> QED
    BY <1>3, <2>1, <2>2, GroupMarks
<1> QED
  BY <1>2, <1>3 DEF KeepGroup

LEMMA CloseBatchStep ==
    ASSUME FenceAssumption, FenceInv, UNCHANGED members, CloseBatch
    PROVE  FenceInv'
<1> DEFINE wrote == {m \in group.todo : OwnerPred(m) /\ PinnedPred(group.e0)}
<1>1. /\ mark' = [m \in members |-> IF m \in wrote THEN win ELSE mark[m]]
      /\ \/ EndWindow
         \/ EndRun
         \/ /\ group' = [group EXCEPT !.one = TRUE, !.owed = TRUE]
            /\ UNCHANGED <<clock, row, win, unit>>
  BY DEF CloseBatch
<1>2. FenceTypes /\ wrote \in SUBSET members
  BY DEF FenceInv, FenceTypes
<1> HIDE DEF wrote
<1>3. mark' \in [members -> Nat]
  BY <1>1, <1>2 DEF FenceTypes
<1>4. CASE EndWindow \/ EndRun
  BY <1>3, <1>4, WindowOver
<1>5. CASE /\ group' = [group EXCEPT !.one = TRUE, !.owed = TRUE]
           /\ UNCHANGED <<clock, row, win, unit>>
  <2>1. /\ group' \in [e0 : Nat, owed : BOOLEAN, todo : SUBSET members, one : BOOLEAN]
        /\ group'.todo = group.todo
    BY <1>2, <1>5 DEF FenceTypes
  <2> QED
    BY <1>1, <1>2, <1>5, <2>1, GroupMarks
<1> QED
  BY <1>1, <1>4, <1>5

LEMMA CloseOneStep ==
    ASSUME FenceAssumption, FenceInv, UNCHANGED members, NEW m \in members, CloseOne(m)
    PROVE  FenceInv'
<1>1. FenceTypes /\ mark \in [members -> Nat] /\ win \in Nat
  BY DEF FenceInv, FenceTypes
<1>2. mark' = mark \/ mark' = [mark EXCEPT ![m] = win]
  BY DEF CloseOne
<1>3. mark' \in [members -> Nat]
  BY <1>1, <1>2
<1>4. CASE EndWindow \/ EndRun
  BY <1>3, <1>4, WindowOver
<1>5. CASE /\ mark' = [mark EXCEPT ![m] = win]
           /\ group' = [group EXCEPT !.todo = @ \ {m}, !.owed = TRUE]
           /\ UNCHANGED <<clock, row, win, unit>>
  <2>1. /\ group' \in [e0 : Nat, owed : BOOLEAN, todo : SUBSET members, one : BOOLEAN]
        /\ group'.todo \subseteq group.todo
    BY <1>1, <1>5 DEF FenceTypes
  <2>2. mark' = [k \in members |-> IF k \in {m} THEN win ELSE mark[k]]
    BY <1>1, <1>5
  <2> QED
    BY <1>5, <2>1, <2>2, GroupMarks
<1> QED
  BY <1>4, <1>5 DEF CloseOne

LEMMA CloseOwnStep ==
    ASSUME FenceAssumption, FenceInv, UNCHANGED members, NEW m \in members, CloseOwn(m)
    PROVE  FenceInv'
<1>1. FenceTypes /\ FencedUnit(m) /\ mark \in [members -> Nat] /\ phase[m] = "open"
  BY DEF FenceInv, FenceTypes, CloseOwn
<1>2. CASE EndRun /\ UNCHANGED mark
  BY <1>1, <1>2, WindowOver
<1>3. ASSUME NEW again \in BOOLEAN,
             /\ mark' = [mark EXCEPT ![m] = win]
             /\ win' = 0 /\ phase' = [phase EXCEPT ![m] = "none"]
             /\ cache' = [cache EXCEPT
                             ![m] = IF again THEN (IF again THEN exp[m] ELSE e0[m]) ELSE @]
             /\ UNCHANGED <<clock, row, e0, owed, parts, lost, sent, landed, group>>
      PROVE  FenceInv'
  <2>1. members = {m}
    <3>1. IsFiniteSet(members) /\ Cardinality(members) = 1
      BY <1>1 DEF FenceAssumption, FenceTypes, CloseOwn
    <3> QED
      BY <3>1, FS_Singleton
  <2>2. group.todo = {}
    BY <1>1 DEF FenceInv, GroupWhole, Applied
  <2>3. /\ cache' \in [members -> Nat] /\ cache'[m] <= exp[m]
        /\ mark' \in [members -> Nat]
    BY <1>1, <1>3, UnitNumbers DEF FenceTypes, FencedUnit
  <2>4. FenceTypes'
    BY <1>1, <1>3, <2>3 DEF FenceTypes, row
  <2>5. GroupWhole'
    BY <1>3, <2>2 DEF GroupWhole
  <2>6. FencedUnit(m)'
    BY <1>1, <1>3, <2>3 DEF FenceTypes, FencedUnit, InUnit, row
  <2> QED
    BY <2>1, <2>4, <2>5, <2>6 DEF FenceInv
<1> QED
  BY <1>2, <1>3 DEF CloseOwn

-----------------------------------------------------------------------------
(* The run.                                                                *)

LEMMA FenceStarts == FenceAssumption /\ FenceInit => FenceInv
<1> SUFFICES ASSUME FenceAssumption, FenceInit
             PROVE  FenceInv
  OBVIOUS
<1>1. FenceTypes
  BY DEF FenceAssumption, FenceInit, FenceTypes, NoGroup
<1>2. GroupWhole
  BY DEF FenceInit, GroupWhole, NoGroup
<1>3. \A m \in members : FencedUnit(m)
  BY DEF FenceAssumption, FenceInit, FencedUnit, InUnit
<1> QED
  BY <1>1, <1>2, <1>3 DEF FenceInv

\* Every step keeps the invariant.
LEMMA FenceStep == FenceAssumption /\ FenceInv /\ [FenceNext]_fenceVars => FenceInv'
<1> SUFFICES ASSUME FenceAssumption, FenceInv, [FenceNext]_fenceVars
             PROVE  FenceInv'
  OBVIOUS
<1>1. CASE UNCHANGED fenceVars
  <2>1. UNCHANGED <<members, clock, exp, taken, mark, win, phase, e0, owed, cache, parts, lost,
                    sent, landed, group>>
    BY <1>1 DEF fenceVars, row, unit
  <2> QED
    BY <2>1 DEF FenceInv, FenceTypes, GroupWhole, Applied, Pending, FencedUnit, Closed
<1>2. CASE UNCHANGED members /\ (FenceTick \/ KeeperRenews)
  BY <1>2, RowStep
<1>3. CASE UNCHANGED members /\ BeginWindow
  BY <1>3, BeginWindowStep
<1>4. CASE UNCHANGED members /\ GroupOpen
  BY <1>4, GroupOpenStep
<1>5. CASE UNCHANGED members /\ CloseBatch
  BY <1>5, CloseBatchStep
<1>6. CASE UNCHANGED members /\ KeepGroup
  BY <1>6, KeepGroupStep
<1>7. ASSUME NEW m \in members, UNCHANGED members, UnitNext(m)
      PROVE  FenceInv'
  <2>1. CASE PeerClaims(m)
    BY <1>7, <2>1, RowStep
  <2>2. CASE Open(m)
    BY <1>7, <2>2, OpenStep
  <2>3. CASE SendOwned(m)
    BY <1>7, <2>3, SendOwnedStep
  <2>4. CASE RefuseUnit(m) \/ ApplyFails(m)
    BY <1>7, <2>4, UnitFailsStep
  <2>5. CASE Part(m)
    BY <1>7, <2>5, PartStep
  <2>6. CASE Pend(m)
    BY <1>7, <2>6, PendStep
  <2>7. CASE CloseOne(m)
    BY <1>7, <2>7, CloseOneStep
  <2>8. CASE CloseOwn(m)
    BY <1>7, <2>8, CloseOwnStep
  <2> QED
    BY <1>7, <2>1, <2>2, <2>3, <2>4, <2>5, <2>6, <2>7, <2>8 DEF UnitNext
<1> QED
  BY <1>1, <1>2, <1>3, <1>4, <1>5, <1>6, <1>7 DEF FenceNext

-----------------------------------------------------------------------------
(* What a step writes.                                                     *)

\* The whole window of a member was written, and its position is behind it.
WroteWindow(m) == ~lost[m] /\ landed[m] = Stmts * Parts /\ mark[m] <= win

\* A unit that has sent every statement and lost no part wrote the whole window.
LEMMA SentIsWritten ==
    ASSUME FenceInv, NEW m \in members, phase[m] \in {"open", "pending"}, sent[m] = Stmts,
           ~lost[m]
    PROVE  WroteWindow(m)
BY DEF FenceInv, FencedUnit, InUnit, WroteWindow

LEMMA TodoWritten ==
    ASSUME FenceInv, NEW m \in group.todo
    PROVE  m \in members /\ WroteWindow(m)
<1>1. m \in Pending /\ ~lost[m]
  BY DEF FenceInv, GroupWhole
<1>2. m \in members /\ phase[m] = "pending" /\ FencedUnit(m)
  BY <1>1 DEF Pending, FenceInv
<1>3. sent[m] = Stmts
  BY <1>2 DEF FencedUnit
<1> QED
  BY <1>1, <1>2, <1>3, SentIsWritten

\* A unit that marks itself does so under a pin that is open.
LEMMA OwnWritten ==
    ASSUME FenceAssumption, FenceInv, NEW m \in members, CloseOwn(m), mark' # mark
    PROVE  WroteWindow(m)
<1>1. FencedUnit(m) /\ FenceTypes /\ phase[m] = "open" /\ sent[m] = Stmts
  BY DEF FenceInv, CloseOwn
<1>2. PICK again \in BOOLEAN :
         /\ again => Repin({m}, Prev(m))
         /\ OwnerPred(m) /\ PinnedPred(IF again THEN exp[m] ELSE e0[m])
  BY DEF CloseOwn
<1>3. ~lost[m]
  <2>1. CASE again
    BY <1>1, <1>2, <2>1, RepinWhole DEF Repin
  <2>2. CASE ~again
    BY <1>1, <1>2, <2>2, UnitNumbers DEF FencedUnit, InUnit, Closed, OwnerPred, PinnedPred
  <2> QED
    BY <2>1, <2>2
<1> QED
  BY <1>1, <1>3, SentIsWritten

\* A position stays, or moves to the end of a window that was written whole.
LEMMA MarkStep ==
    ASSUME FenceAssumption, FenceInv, FenceNext, NEW m \in members
    PROVE  mark'[m] = mark[m] \/ (mark'[m] = win /\ WroteWindow(m))
<1>1. FenceTypes /\ mark \in [members -> Nat]
  BY DEF FenceInv, FenceTypes
<1>2. CASE FenceTick \/ KeeperRenews \/ BeginWindow \/ GroupOpen \/ KeepGroup
  BY <1>2 DEF FenceTick, KeeperRenews, BeginWindow, GroupOpen, KeepGroup
<1>3. CASE CloseBatch
  <2>1. mark'[m] = (IF m \in {k \in group.todo : OwnerPred(k) /\ PinnedPred(group.e0)}
                    THEN win ELSE mark[m])
    BY <1>3 DEF CloseBatch
  <2> QED
    BY <2>1, TodoWritten
<1>4. ASSUME NEW k \in members, UnitNext(k)
      PROVE  mark'[m] = mark[m] \/ (mark'[m] = win /\ WroteWindow(m))
  <2>1. CASE CloseOne(k)
    <3>1. k \in group.todo /\ (mark' = mark \/ mark' = [mark EXCEPT ![k] = win])
      BY <2>1 DEF CloseOne
    <3> QED
      BY <1>1, <3>1, TodoWritten
  <2>2. CASE CloseOwn(k)
    <3>1. mark' = mark \/ mark' = [mark EXCEPT ![k] = win]
      BY <2>2 DEF CloseOwn
    <3> QED
      BY <1>1, <2>2, <3>1, OwnWritten
  <2>3. CASE PeerClaims(k) \/ Open(k) \/ SendOwned(k) \/ RefuseUnit(k) \/ Part(k) \/ Pend(k)
             \/ ApplyFails(k)
    BY <2>3 DEF PeerClaims, Open, SendOwned, RefuseUnit, Part, Pend, ApplyFails
  <2> QED
    BY <1>4, <2>1, <2>2, <2>3 DEF UnitNext
<1> QED
  BY <1>2, <1>3, <1>4 DEF FenceNext

\* A part is written by a unit that lost none, and a window that begins has none.
LEMMA LandedStep ==
    ASSUME FenceAssumption, FenceInv, FenceNext, NEW m \in members
    PROVE  landed'[m] > landed[m] => ~lost[m]
<1>1. FenceTypes /\ landed \in [members -> Nat]
  BY DEF FenceInv, FenceTypes
<1>2. CASE BeginWindow
  BY <1>1, <1>2 DEF BeginWindow
<1>3. CASE UNCHANGED landed
  BY <1>1, <1>3
<1>4. ASSUME NEW k \in members, Part(k)
      PROVE  landed'[m] > landed[m] => ~lost[m]
  <2>1. CASE OwnerPred(k) /\ PinnedPred(e0[k]) /\ landed' = [landed EXCEPT ![k] = @ + 1]
    <3>1. ~lost[k]
      BY <1>4, <2>1, PartWhole DEF Part
    <3> QED
      BY <1>1, <2>1, <3>1
  <2> QED
    BY <1>3, <1>4, <2>1 DEF Part
<1>5. ASSUME NEW k \in members, UnitNext(k), ~Part(k)
      PROVE  UNCHANGED landed
  <2>1. CASE PeerClaims(k) \/ Open(k) \/ SendOwned(k) \/ RefuseUnit(k) \/ Pend(k) \/ ApplyFails(k)
    BY <2>1 DEF PeerClaims, Open, SendOwned, RefuseUnit, Pend, ApplyFails, Fail, unit
  <2>2. CASE CloseOne(k) \/ CloseOwn(k)
    BY <2>2 DEF CloseOne, CloseOwn, EndWindow, EndRun, unit
  <2> QED
    BY <1>5, <2>1, <2>2 DEF UnitNext
<1>6. CASE FenceTick \/ KeeperRenews \/ GroupOpen \/ CloseBatch \/ KeepGroup
  <2>1. UNCHANGED landed
    BY <1>6 DEF FenceTick, KeeperRenews, GroupOpen, CloseBatch, KeepGroup, EndWindow, EndRun, unit
  <2> QED
    BY <1>3, <2>1
<1> QED
  BY <1>2, <1>3, <1>4, <1>5, <1>6 DEF FenceNext

\* For every group of tables, margin and length of a lease, a window and a statement: a
\* position moves only past a window every part of which was written, and never back, and
\* nothing is written after a part that was fenced out.
THEOREM WholeWindowsHolds == FenceAssumption => (FenceSpec => WholeWindows)
<1>1. ASSUME FenceAssumption, FenceInv, [FenceNext]_fenceVars
      PROVE  [MovesPastWhole /\ FenceOnlyCloses /\ MarksRise]_fenceVars
  <2>1. CASE UNCHANGED fenceVars
    BY <2>1
  <2>2. CASE FenceNext
    <3>1. ASSUME NEW m \in members
          PROVE  /\ mark'[m] > mark[m] => ~lost[m] /\ landed[m] = Stmts * Parts
                 /\ mark'[m] >= mark[m]
                 /\ landed'[m] > landed[m] => ~lost[m]
      <4>1. mark[m] \in Nat /\ win \in Nat
        BY <1>1 DEF FenceInv, FenceTypes
      <4> QED
        BY <1>1, <2>2, <4>1, MarkStep, LandedStep DEF WroteWindow
    <3> QED
      BY <3>1 DEF MovesPastWhole, FenceOnlyCloses, MarksRise
  <2> QED
    BY <1>1, <2>1, <2>2
<1>2. ASSUME FenceAssumption
      PROVE  FenceSpec => WholeWindows
  <2>1. FenceInit => FenceInv
    BY <1>2, FenceStarts
  <2>2. FenceInv /\ [FenceNext]_fenceVars => FenceInv'
    BY <1>2, FenceStep
  <2>3. FenceInv /\ [FenceNext]_fenceVars
        => [MovesPastWhole /\ FenceOnlyCloses /\ MarksRise]_fenceVars
    BY <1>1, <1>2
  <2> QED
    BY <2>1, <2>2, <2>3, PTL DEF FenceSpec, WholeWindows
<1> QED
  BY <1>2
=============================================================================
