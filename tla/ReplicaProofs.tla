--------------------------- MODULE ReplicaProofs ---------------------------
(***************************************************************************)
(* Proofs about module Replica, for every set of runs and members, every   *)
(* depth of the pipeline and every length of the log.                      *)
(*                                                                         *)
(* Two faults are left out of the first part (Sound): a run that outlives  *)
(* its lease, and a member whose snapshot is empty.  Under each of them    *)
(* Exact is false.  The last part is about every fault of the model: what  *)
(* a run that was evicted can still do.                                    *)
(***************************************************************************)
EXTENDS Replica, SequenceTheorems, WellFoundedInduction, NaturalsInduction, TLAPS

\* No run outlives its lease, and no load keeps the rows there were.
Sound == "stall" \notin Faults /\ "empty" \notin Faults

Early == {"idle", "decide", "probe", "dropstale", "create", "reconcile", "connect"}
Streaming == {"drain", "final", "join"}
Unmarked == \A t \in Tables : mark[t] = None
AllMarked == \A t \in Tables : mark[t] # None

\* Whoever runs owns the group, so nobody else runs.
Owned == \A r \in Runs : Running(r) => owner = r

\* A session has a slot, and a run that streams has the session.
Sessions ==
    /\ using # NoRun => slot # None
    /\ \A r \in Runs : pc[r] \in Streaming => using = r

\* Nothing is past the end of the log.
InLog ==
    /\ \A t \in Tables : mark[t] <= Len(wal)
    /\ \A r \in Runs : cur[r] <= Len(wal)

\* The slot still has what every published member needs.
SlotBehind == slot # None => \A t \in Tables : mark[t] # None => slot <= mark[t]

\* Before its first step, and up to its first load or window, a run has no memory.
Blank(r) ==
    /\ tried[r] = {} /\ ~bad[r] /\ loading[r] = {}
    /\ queue[r] = <<>> /\ task[r] = "off"

\* The slot r has created, unless the source has lost it.
OwnSlot(r) == slot = cur[r] \/ (slot = None /\ "lose" \in Faults)

\* bootstrap_group, before the first watermark: the members tried hold the snapshot.
AtLoad(r) ==
    /\ Unmarked
    /\ OwnSlot(r)
    /\ \A t \in loading[r] : t \notin tried[r]
    /\ \A t \in tried[r] : ~bad[r] => held[t] = Touches(t, 0, cur[r])

\* All members hold the snapshot; those tried may have their watermark.
AtFinish(r) ==
    /\ OwnSlot(r)
    /\ \A t \in Tables :
          /\ held[t] = Touches(t, 0, cur[r])
          /\ t \notin tried[r] => mark[t] = None
          /\ mark[t] \in {None, cur[r]}
          /\ t \in tried[r] /\ ~bad[r] => mark[t] = cur[r]

\* The windows sent and not applied follow each other up to cur.
Ascending(r) ==
    /\ \A i \in 1..Len(queue[r]) : applied[r] < queue[r][i] /\ queue[r][i] <= cur[r]
    /\ \A i, j \in 1..Len(queue[r]) : i < j => queue[r][i] < queue[r][j]
    /\ IF queue[r] = <<>> THEN applied[r] = cur[r] ELSE queue[r][Len(queue[r])] = cur[r]

\* Where the members are while the task applies the oldest window.
Members(r) ==
    \A t \in Tables :
        \/ t \notin tried[r] /\ mark[t] = Higher(floors[r][t], applied[r])
        \/ /\ t \in tried[r] /\ queue[r] # <<>>
           /\ \/ mark[t] = Higher(floors[r][t], WindowEnd(r))
              \/ task[r] = "failing" /\ mark[t] = Higher(floors[r][t], applied[r])

\* What the watch channel says is applied is in every member.
AtStream(r) ==
    /\ from[r] <= applied[r] /\ applied[r] <= cur[r]
    /\ \A t \in Tables : floors[r][t] # None /\ mark[t] # None /\ applied[r] <= mark[t]
    /\ task[r] # "off" => Ascending(r) /\ Members(r)
    /\ task[r] = "off" =>
          /\ queue[r] = <<>> /\ tried[r] = {}
          /\ ~bad[r] => pc[r] = "join" /\ applied[r] = cur[r]

RunInv(r) ==
    /\ pc[r] \in Early => Blank(r)
    /\ pc[r] \in {"probe", "dropstale", "create"} => Unmarked
    /\ pc[r] \in {"reconcile", "connect"} => floors[r] = mark /\ AllMarked
    /\ pc[r] = "load" => AtLoad(r)
    /\ pc[r] = "finish" => AtFinish(r)
    /\ pc[r] \in Streaming => AtStream(r)
    /\ pc[r] \notin Streaming => task[r] = "off" /\ queue[r] = <<>>
    /\ pc[r] # "load" => loading[r] = {}

IInv ==
    /\ TypeOK /\ Owned /\ Sessions /\ InLog /\ SlotBehind /\ Exact
    /\ \A r \in Runs : RunInv(r)

-----------------------------------------------------------------------------
(* Facts about the operators of the model. *)

Less == {p \in Nat \X Nat : p[1] < p[2]}

\* The order on the naturals, as a relation.
LEMMA LessPairs == \A a, b \in Nat : a < b => <<a, b>> \in Less
BY DEF Less

\* A set of naturals that is not empty has a minimum.
LEMMA MinLeast ==
    ASSUME NEW S \in SUBSET Nat, S # {}
    PROVE  /\ Min(S) \in S
           /\ \A x \in S : Min(S) <= x
<1>1. IsWellFoundedOn(Less, Nat)
  <2>1. OpToRel(<, Nat) = Less
    BY DEF OpToRel, Less
  <2>. QED
    BY <2>1, NatLessThanWellFounded
<1>2. PICK m \in S : \A x \in S : ~(<<x, m>> \in Less)
  BY <1>1, WFMin
<1>3. \A x \in S : m <= x
  <2>. TAKE x \in S
  <2>1. x \in Nat /\ m \in Nat
    OBVIOUS
  <2>2. x < m => <<x, m>> \in Less
    BY <2>1, LessPairs
  <2>3. ~(x < m)
    BY <2>2, <1>2, Zenon
  <2>. QED
    BY <2>1, <2>3
<1>. QED
  BY <1>3 DEF Min

\* What a transaction changed up to b, from what it changed up to m and from a on.
LEMMA TouchesJoin ==
    ASSUME NEW t \in Tables, NEW a \in Nat, NEW m \in Nat, NEW b \in Nat, a <= m, m <= b
    PROVE  Touches(t, 0, m) \cup Touches(t, a, b) = Touches(t, 0, b)
BY DEF Touches

\* The log only grows, so what it says up to b stands.
LEMMA TouchesStand ==
    ASSUME wal \in Seq(SUBSET Tables), NEW S \in SUBSET Tables, wal' = Append(wal, S),
           NEW t \in Tables, NEW b \in Int, b <= Len(wal)
    PROVE  Touches(t, 0, b)' = Touches(t, 0, b)
<1>1. \A i \in 1..b : wal'[i] = wal[i]
  BY AppendProperties, LenProperties
<1>. QED
  BY <1>1 DEF Touches

\* A position of the log is a natural number.
LEMMA LsnNat == \A x \in LSN : x \in Nat /\ x \in Int /\ x <= MaxWal /\ x # None
BY ReplicaAssumption DEF LSN, None

\* The positions of the model are integers.
LEMMA Positions ==
    ASSUME TypeOK, NEW r \in Runs, NEW t \in Tables
    PROVE  /\ Len(wal) \in LSN /\ LSN \subseteq Nat
           /\ cur[r] \in Nat /\ applied[r] \in Nat /\ from[r] \in Nat
           /\ mark[t] \in Int /\ (mark[t] # None => mark[t] \in LSN)
           /\ floors[r][t] \in Int /\ (floors[r][t] # None => floors[r][t] \in LSN)
<1>1. Len(wal) \in Nat
  BY LenProperties DEF TypeOK
<1>2. Len(wal) \in LSN /\ LSN \subseteq Nat
  BY <1>1, ReplicaAssumption DEF TypeOK, LSN
<1>3. cur[r] \in LSN /\ applied[r] \in LSN /\ from[r] \in LSN
  BY DEF TypeOK
<1>4. mark[t] \in LSN \cup {None} /\ floors[r][t] \in LSN \cup {None}
  BY DEF TypeOK
<1>5. \A x \in LSN \cup {None} : x \in Int /\ (x # None => x \in LSN)
  BY <1>2 DEF None
<1>. QED
  BY <1>2, <1>3, <1>4, <1>5

\* The oldest window of a queue, and what is left behind it.
LEMMA Windows ==
    ASSUME TypeOK, NEW r \in Runs, queue[r] # <<>>
    PROVE  /\ Len(queue[r]) \in Nat \ {0}
           /\ WindowEnd(r) = queue[r][1] /\ WindowEnd(r) \in LSN
           /\ Tail(queue[r]) \in Seq(LSN)
           /\ Len(Tail(queue[r])) = Len(queue[r]) - 1
           /\ \A i \in 1..Len(queue[r]) - 1 : Tail(queue[r])[i] = queue[r][i + 1]
           /\ Tail(queue[r]) = <<>> => Len(queue[r]) = 1
<1>1. queue[r] \in Seq(LSN)
  BY DEF TypeOK
<1>2. Len(queue[r]) \in Nat \ {0}
  BY <1>1, EmptySeq
<1>3. WindowEnd(r) = queue[r][1] /\ WindowEnd(r) \in LSN
  BY <1>1, <1>2, HeadTailProperties DEF WindowEnd
<1>4. /\ Tail(queue[r]) \in Seq(LSN)
      /\ Len(Tail(queue[r])) = Len(queue[r]) - 1
      /\ \A i \in 1..Len(Tail(queue[r])) : Tail(queue[r])[i] = queue[r][i + 1]
  BY <1>1, HeadTailProperties
<1>5. ASSUME Tail(queue[r]) = <<>>
      PROVE  Len(queue[r]) = 1
  <2>1. Len(<<>>) = 0
    BY EmptySeq
  <2>2. Len(Tail(queue[r])) = 0
    BY <2>1, <1>5, Zenon
  <2>. QED
    BY <2>2, <1>4, <1>2
<1>6. \A i \in 1..Len(queue[r]) - 1 : Tail(queue[r])[i] = queue[r][i + 1]
  BY <1>4, Zenon
<1>. QED
  BY <1>2, <1>3, <1>4, <1>5, <1>6

\* The oldest window is past what is applied.
LEMMA WindowIsNext ==
    ASSUME TypeOK, NEW r \in Runs, queue[r] # <<>>, Ascending(r)
    PROVE  applied[r] < WindowEnd(r) /\ WindowEnd(r) <= cur[r]
BY Windows DEF Ascending

-----------------------------------------------------------------------------
(* A run that runs is alone. *)

\* Nothing of q's memory that the invariant speaks of has changed.
SameMemory(q) ==
    /\ pc'[q] = pc[q] /\ cur'[q] = cur[q]
    /\ tried'[q] = tried[q] /\ bad'[q] = bad[q] /\ loading'[q] = loading[q]
    /\ queue'[q] = queue[q] /\ task'[q] = task[q]

\* A window sent after the others.
LEMMA AscendingGrows ==
    ASSUME TypeOK, NEW r \in Runs, NEW e \in LSN, Ascending(r), applied[r] < e, cur[r] < e,
           applied' = applied, cur'[r] = e, queue'[r] = Append(queue[r], e)
    PROVE  Ascending(r)'
<1>1. queue[r] \in Seq(LSN) /\ Len(queue[r]) \in Nat
  BY LenProperties DEF TypeOK
<1>2. /\ queue'[r] \in Seq(LSN) /\ Len(queue'[r]) = Len(queue[r]) + 1
      /\ \A i \in 1..Len(queue[r]) : queue'[r][i] = queue[r][i]
      /\ queue'[r][Len(queue[r]) + 1] = e
  BY <1>1, AppendProperties
<1>3. queue'[r] # <<>>
  BY <1>1, <1>2, EmptySeq
<1>4. /\ applied[r] \in Int /\ cur[r] \in Int /\ e \in Int
      /\ \A i \in 1..Len(queue[r]) : queue[r][i] \in Int
  <2>1. \A i \in 1..Len(queue[r]) : queue[r][i] \in LSN
    BY <1>1, ElementOfSeq
  <2>. QED
    BY <2>1, LsnNat DEF TypeOK
<1>5. ASSUME NEW i \in 1..Len(queue'[r])
      PROVE  applied[r] < queue'[r][i] /\ queue'[r][i] <= e
  <2>1. CASE i \in 1..Len(queue[r])
    <3>1. /\ queue'[r][i] = queue[r][i] /\ queue[r][i] \in Int
          /\ applied[r] < queue[r][i] /\ queue[r][i] <= cur[r]
      BY <1>2, <1>4, <2>1 DEF Ascending
    <3>. QED
      BY <1>4, <3>1
  <2>2. CASE i = Len(queue[r]) + 1
    BY <1>2, <1>4, <2>2
  <2>. QED
    BY <1>1, <1>2, <2>1, <2>2
<1>6. ASSUME NEW i \in 1..Len(queue'[r]), NEW j \in 1..Len(queue'[r]), i < j
      PROVE  queue'[r][i] < queue'[r][j]
  <2>1. i \in 1..Len(queue[r])
    BY <1>1, <1>2, <1>6
  <2>2. queue'[r][i] = queue[r][i] /\ queue[r][i] \in Int /\ queue[r][i] <= cur[r]
    BY <1>2, <1>4, <2>1 DEF Ascending
  <2>3. CASE j \in 1..Len(queue[r])
    BY <1>2, <1>6, <2>1, <2>3 DEF Ascending
  <2>4. CASE j = Len(queue[r]) + 1
    BY <1>2, <1>4, <2>2, <2>4
  <2>. QED
    BY <1>1, <1>2, <2>3, <2>4
<1>. QED
  BY <1>2, <1>3, <1>5, <1>6 DEF Ascending

\* The oldest window is applied, and the next is the oldest.
LEMMA AscendingShrinks ==
    ASSUME TypeOK, NEW r \in Runs, queue[r] # <<>>, Ascending(r), cur' = cur,
           applied'[r] = WindowEnd(r), queue'[r] = Tail(queue[r]), TypeOK'
    PROVE  Ascending(r)'
<1>1. /\ Len(queue[r]) \in Nat \ {0} /\ WindowEnd(r) = queue[r][1]
      /\ Len(queue'[r]) = Len(queue[r]) - 1
      /\ \A i \in 1..Len(queue[r]) - 1 : queue'[r][i] = queue[r][i + 1]
      /\ queue'[r] = <<>> => Len(queue[r]) = 1
  BY Windows
<1>2. ASSUME NEW i \in 1..Len(queue'[r])
      PROVE  applied'[r] < queue'[r][i] /\ queue'[r][i] <= cur[r]
  BY <1>1, <1>2 DEF Ascending
<1>3. ASSUME NEW i \in 1..Len(queue'[r]), NEW j \in 1..Len(queue'[r]), i < j
      PROVE  queue'[r][i] < queue'[r][j]
  BY <1>1, <1>3 DEF Ascending
<1>4. CASE queue'[r] = <<>>
  BY <1>1, <1>2, <1>3, <1>4 DEF Ascending
<1>5. CASE queue'[r] # <<>>
  <2>1. Len(queue'[r]) \in Nat \ {0}
    BY <1>5, EmptySeq DEF TypeOK
  <2>2. queue'[r][Len(queue'[r])] = cur[r]
    BY <1>1, <2>1 DEF Ascending
  <2>. QED
    BY <1>2, <1>3, <1>5, <2>2 DEF Ascending
<1>. QED
  BY <1>4, <1>5

\* What an action that leaves the log and all runs but one, all of them idle, alone
\* has to show.
LEMMA IdleFrame ==
    ASSUME IInv, NEW r \in Runs, \A q \in Runs \ {r} : pc[q] = "idle", wal' = wal,
           \A q \in Runs \ {r} : SameMemory(q),
           TypeOK', RunInv(r)', SlotBehind', Exact',
           Running(r)' => owner' = r,
           using' # NoRun => slot' # None,
           pc'[r] \in Streaming => using' = r,
           cur'[r] <= Len(wal),
           \A t \in Tables : mark'[t] <= Len(wal)
    PROVE  IInv'
<1>1. ASSUME NEW q \in Runs, q # r
      PROVE  pc'[q] = "idle" /\ Blank(q)' /\ cur'[q] <= Len(wal)
  <2>1. pc[q] = "idle" /\ Blank(q) /\ cur[q] <= Len(wal)
    BY <1>1 DEF IInv, InLog, RunInv, Early
  <2>2. SameMemory(q)
    BY <1>1
  <2>. QED
    BY <2>1, <2>2 DEF SameMemory, Blank
<1>2. \A q \in Runs : RunInv(q)'
  <2>1. ASSUME NEW q \in Runs, q # r
        PROVE  RunInv(q)'
    BY <2>1, <1>1 DEF RunInv, Blank, Early, Streaming
  <2>. QED
    BY <2>1
<1>3. Owned'
  BY <1>1 DEF Owned, Running
<1>4. Sessions'
  BY <1>1 DEF Sessions, Streaming
<1>5. InLog'
  BY <1>1 DEF InLog
<1>. QED
  BY <1>2, <1>3, <1>4, <1>5 DEF IInv

\* The same for an action of r, which runs: the others are idle.
LEMMA Frame ==
    ASSUME IInv, NEW r \in Runs, Running(r), wal' = wal,
           \A q \in Runs \ {r} : SameMemory(q),
           TypeOK', RunInv(r)', SlotBehind', Exact',
           Running(r)' => owner' = r,
           using' # NoRun => slot' # None,
           pc'[r] \in Streaming => using' = r,
           cur'[r] <= Len(wal),
           \A t \in Tables : mark'[t] <= Len(wal)
    PROVE  IInv'
<1>1. \A q \in Runs \ {r} : pc[q] = "idle"
  BY DEF IInv, Owned, Running
<1>. QED
  BY <1>1, IdleFrame

\* The same for an action that leaves source, destination and owner alone as well.
LEMMA QuietFrame ==
    ASSUME IInv, NEW r \in Runs, Running(r),
           UNCHANGED <<source, dest, owner>>, cur' = cur,
           \A q \in Runs \ {r} : SameMemory(q),
           TypeOK', RunInv(r)',
           pc'[r] \in Streaming => pc[r] \in Streaming
    PROVE  IInv'
<1>1. UNCHANGED <<wal, slot, using, mark, held, owner>>
  BY DEF source, dest
<1>2. owner = r
  BY DEF IInv, Owned
<1>3. SlotBehind' /\ Exact'
  BY <1>1 DEF IInv, SlotBehind, Exact, Touches
<1>. QED
  BY <1>1, <1>2, <1>3, Frame DEF IInv, Sessions, InLog

\* No member is published from the decision on.
LEMMA DecideBootstrapStep ==
    ASSUME IInv, NEW r \in Runs, DecideBootstrap(r)
    PROVE  IInv'
<1>1. Running(r)
  BY DEF DecideBootstrap, Running, IInv, RunInv, Streaming
<1>2. \A q \in Runs \ {r} : SameMemory(q)
  BY DEF IInv, TypeOK, DecideBootstrap, SameMemory, Goto, local, stream
<1>3. TypeOK'
  BY ReplicaAssumption DEF IInv, TypeOK, DecideBootstrap, Goto, Settle, Phases, source, dest,
     local, stream
<1>4. RunInv(r)'
  BY DEF IInv, TypeOK, DecideBootstrap, Goto, RunInv, Early, Streaming, Blank, source, dest,
     local, stream, Unmarked
<1>. QED
  BY <1>1, <1>2, <1>3, <1>4, QuietFrame DEF DecideBootstrap, local, Goto, IInv, TypeOK, Streaming

\* A torn group is refused.
LEMMA DecideTornStep ==
    ASSUME IInv, NEW r \in Runs, DecideTorn(r)
    PROVE  IInv'
<1>1. Running(r)
  BY DEF DecideTorn, Running, IInv, RunInv, Streaming
<1>2. \A q \in Runs \ {r} : SameMemory(q)
  BY DEF IInv, TypeOK, DecideTorn, SameMemory, Goto, local, stream
<1>3. TypeOK'
  BY ReplicaAssumption DEF IInv, TypeOK, DecideTorn, Goto, Settle, Phases, source, dest, local,
     stream
<1>4. RunInv(r)'
  BY DEF IInv, TypeOK, DecideTorn, Goto, RunInv, Early, Streaming, Blank, source, dest, local,
     stream
<1>. QED
  BY <1>1, <1>2, <1>3, <1>4, QuietFrame DEF DecideTorn, local, Goto, IInv, TypeOK, Streaming

\* The floors are the watermarks.
LEMMA DecideDrainStep ==
    ASSUME IInv, NEW r \in Runs, DecideDrain(r)
    PROVE  IInv'
<1>1. Running(r)
  BY DEF DecideDrain, Running, IInv, RunInv, Streaming
<1>2. \A q \in Runs \ {r} : SameMemory(q)
  BY DEF IInv, TypeOK, DecideDrain, SameMemory, Goto, local, stream
<1>3. TypeOK'
  BY ReplicaAssumption DEF IInv, TypeOK, DecideDrain, Goto, Settle, Phases, source, dest, local,
     stream
<1>4. RunInv(r)'
  BY DEF IInv, TypeOK, DecideDrain, Goto, RunInv, Early, Streaming, Blank, source, dest, local,
     stream, AllMarked
<1>. QED
  BY <1>1, <1>2, <1>3, <1>4, QuietFrame DEF DecideDrain, local, Goto, IInv, TypeOK, Streaming

\* The probe changes nothing.
LEMMA ProbeSlotStep ==
    ASSUME IInv, NEW r \in Runs, ProbeSlot(r)
    PROVE  IInv'
<1>1. Running(r)
  BY DEF ProbeSlot, Running, IInv, RunInv, Streaming
<1>2. \A q \in Runs \ {r} : SameMemory(q)
  BY DEF IInv, TypeOK, ProbeSlot, SameMemory, Goto, local, stream
<1>3. TypeOK'
  BY ReplicaAssumption DEF IInv, TypeOK, ProbeSlot, Goto, Settle, Phases, source, dest, local,
     stream
<1>4. RunInv(r)'
  BY DEF IInv, TypeOK, ProbeSlot, Goto, RunInv, Early, Streaming, Blank, source, dest, local,
     stream, Unmarked
<1>. QED
  BY <1>1, <1>2, <1>3, <1>4, QuietFrame DEF ProbeSlot, local, Goto, IInv, TypeOK, Streaming

\* A load stages.
LEMMA LoadBeginStep ==
    ASSUME IInv, NEW r \in Runs, NEW t \in Tables, LoadBegin(r, t)
    PROVE  IInv'
<1>1. Running(r)
  BY DEF LoadBegin, Running, IInv, RunInv, Streaming
<1>2. \A q \in Runs \ {r} : SameMemory(q)
  BY DEF IInv, TypeOK, LoadBegin, SameMemory, Goto, local, stream
<1>3. TypeOK'
  BY ReplicaAssumption DEF IInv, TypeOK, LoadBegin, Goto, Settle, Phases, source, dest, local,
     stream
<1>4. RunInv(r)'
  <2>1. pc[r] = "load" /\ AtLoad(r) /\ task[r] = "off" /\ queue[r] = <<>>
    BY DEF LoadBegin, IInv, RunInv, Streaming
  <2>2. UNCHANGED <<wal, slot, mark, held, cur, tried, bad, task, queue, pc>>
    BY DEF LoadBegin, source, dest, stream
  <2>3. \A u \in loading'[r] : u \notin tried[r]
    BY DEF LoadBegin, IInv, TypeOK
  <2>4. AtLoad(r)'
    BY <2>1, <2>2, <2>3 DEF AtLoad, Unmarked, OwnSlot, Touches
  <2>. QED
    BY <2>1, <2>2, <2>4 DEF RunInv, Early, Streaming
<1>. QED
  BY <1>1, <1>2, <1>3, <1>4, QuietFrame DEF LoadBegin, local, Goto, IInv, TypeOK, Streaming

\* All loaded, or the slot goes.
LEMMA LoadsDoneStep ==
    ASSUME IInv, NEW r \in Runs, LoadsDone(r)
    PROVE  IInv'
<1>1. Running(r)
  BY DEF LoadsDone, Running, IInv, RunInv, Streaming
<1>2. \A q \in Runs \ {r} : SameMemory(q)
  BY DEF IInv, TypeOK, LoadsDone, SameMemory, Goto, local, stream
<1>3. TypeOK'
  BY ReplicaAssumption DEF IInv, TypeOK, LoadsDone, Goto, Settle, Phases, source, dest, local,
     stream
<1>4. RunInv(r)'
  <2>1. pc[r] = "load" /\ AtLoad(r) /\ task[r] = "off" /\ queue[r] = <<>>
    BY DEF LoadsDone, IInv, RunInv, Streaming
  <2>2. UNCHANGED <<wal, slot, mark, held, cur, bad, loading, task, queue>> /\ tried'[r] = {}
    BY DEF LoadsDone, source, dest, stream, IInv, TypeOK
  <2>3. tried[r] = Tables /\ pc'[r] = IF bad[r] THEN "dropslot" ELSE "finish"
    BY DEF LoadsDone, Goto, IInv, TypeOK
  <2>4. loading'[r] = {}
    BY <2>1, <2>2, <2>3 DEF AtLoad, IInv, TypeOK
  <2>5. ASSUME ~bad[r]
        PROVE  AtFinish(r)'
    BY <2>1, <2>2, <2>3, <2>5 DEF AtLoad, AtFinish, Unmarked, OwnSlot, Touches
  <2>. QED
    BY <2>1, <2>2, <2>3, <2>4, <2>5 DEF RunInv, Early, Streaming
<1>. QED
  BY <1>1, <1>2, <1>3, <1>4, QuietFrame DEF LoadsDone, local, Goto, IInv, TypeOK, Streaming

\* All published, or all cleared.
LEMMA FinishesDoneStep ==
    ASSUME IInv, NEW r \in Runs, FinishesDone(r)
    PROVE  IInv'
<1>1. Running(r)
  BY DEF FinishesDone, Running, IInv, RunInv, Streaming
<1>2. \A q \in Runs \ {r} : SameMemory(q)
  BY DEF IInv, TypeOK, FinishesDone, SameMemory, Goto, local, stream
<1>3. TypeOK'
  BY ReplicaAssumption DEF IInv, TypeOK, FinishesDone, Goto, Settle, Phases, source, dest, local,
     stream
<1>4. RunInv(r)'
  BY DEF IInv, TypeOK, FinishesDone, Goto, RunInv, Early, Streaming, Blank, source, dest, local,
     stream
<1>. QED
  BY <1>1, <1>2, <1>3, <1>4, QuietFrame DEF FinishesDone, local, Goto, IInv, TypeOK, Streaming

\* The clean-up goes on to the slot.
LEMMA ClearsDoneStep ==
    ASSUME IInv, NEW r \in Runs, ClearsDone(r)
    PROVE  IInv'
<1>1. Running(r)
  BY DEF ClearsDone, Running, IInv, RunInv, Streaming
<1>2. \A q \in Runs \ {r} : SameMemory(q)
  BY DEF IInv, TypeOK, ClearsDone, SameMemory, Goto, local, stream
<1>3. TypeOK'
  BY ReplicaAssumption DEF IInv, TypeOK, ClearsDone, Goto, Settle, Phases, source, dest, local,
     stream
<1>4. RunInv(r)'
  BY DEF IInv, TypeOK, ClearsDone, Goto, RunInv, Early, Streaming, Blank, source, dest, local,
     stream
<1>. QED
  BY <1>1, <1>2, <1>3, <1>4, QuietFrame DEF ClearsDone, local, Goto, IInv, TypeOK, Streaming

\* The windows in flight stay.
LEMMA DrainStopsStep ==
    ASSUME IInv, NEW r \in Runs, DrainStops(r)
    PROVE  IInv'
<1>1. Running(r)
  BY DEF DrainStops, Running, IInv, RunInv, Streaming
<1>2. \A q \in Runs \ {r} : SameMemory(q)
  BY DEF IInv, TypeOK, DrainStops, SameMemory, Goto, local, stream
<1>3. TypeOK'
  BY ReplicaAssumption DEF IInv, TypeOK, DrainStops, Goto, Settle, Phases, source, dest, local,
     stream
<1>4. RunInv(r)'
  BY DEF IInv, TypeOK, DrainStops, Goto, RunInv, Early, Streaming, Blank, source, dest, local,
     stream, AtStream, Ascending, Members, WindowEnd
<1>. QED
  BY <1>1, <1>2, <1>3, <1>4, QuietFrame DEF DrainStops, local, Goto, IInv, TypeOK, Streaming

\* The stop line moves.
LEMMA FollowStep ==
    ASSUME IInv, NEW r \in Runs, Follow(r)
    PROVE  IInv'
<1>1. Running(r)
  BY DEF Follow, Running, IInv, RunInv, Streaming
<1>2. \A q \in Runs \ {r} : SameMemory(q)
  BY DEF IInv, TypeOK, Follow, SameMemory, Goto, local, stream
<1>3. TypeOK'
  <2>1. Len(wal) \in LSN
    BY LenProperties, ReplicaAssumption DEF IInv, TypeOK, LSN
  <2>. QED
    BY <2>1 DEF IInv, TypeOK, Follow, Goto, Settle, Phases, source, dest, local, stream
<1>4. RunInv(r)'
  BY DEF IInv, TypeOK, Follow, Goto, RunInv, Early, Streaming, Blank, source, dest, local,
     stream, AtStream, Ascending, Members, WindowEnd
<1>. QED
  BY <1>1, <1>2, <1>3, <1>4, QuietFrame DEF Follow, local, Goto, IInv, TypeOK, Streaming

\* Nothing is confirmed.
LEMMA WaitBrokenStep ==
    ASSUME IInv, NEW r \in Runs, WaitBroken(r)
    PROVE  IInv'
<1>1. Running(r)
  BY DEF WaitBroken, Confirming, Running, IInv, RunInv, Streaming
<1>2. \A q \in Runs \ {r} : SameMemory(q)
  BY DEF IInv, TypeOK, WaitBroken, Confirming, SameMemory, Goto, local, stream
<1>3. TypeOK'
  BY ReplicaAssumption DEF IInv, TypeOK, WaitBroken, Confirming, Goto, Settle, Phases, source,
     dest, local, stream
<1>4. RunInv(r)'
  BY DEF IInv, TypeOK, WaitBroken, Confirming, Goto, RunInv, Early, Streaming, Blank, source,
     dest, local, stream, AtStream, Ascending, Members, WindowEnd
<1>. QED
  BY <1>1, <1>2, <1>3, <1>4, QuietFrame DEF WaitBroken, Confirming, local, Goto, IInv, TypeOK,
     Streaming

\* The drain ends.
LEMMA DrainDoneStep ==
    ASSUME IInv, NEW r \in Runs, DrainDone(r)
    PROVE  IInv'
<1>1. Running(r)
  BY DEF DrainDone, Running, IInv, RunInv, Streaming
<1>2. \A q \in Runs \ {r} : SameMemory(q)
  BY DEF IInv, TypeOK, DrainDone, SameMemory, Goto, local, stream
<1>3. TypeOK'
  BY ReplicaAssumption DEF IInv, TypeOK, DrainDone, Goto, Settle, Phases, source, dest, local,
     stream
<1>4. RunInv(r)'
  BY DEF IInv, TypeOK, DrainDone, Goto, RunInv, Early, Streaming, Blank, source, dest, local,
     stream, AtStream, Ascending, Members, WindowEnd
<1>. QED
  BY <1>1, <1>2, <1>3, <1>4, QuietFrame DEF DrainDone, local, Goto, IInv, TypeOK, Streaming

\* The stream breaks.
LEMMA StreamFailsStep ==
    ASSUME IInv, NEW r \in Runs, StreamFails(r)
    PROVE  IInv'
<1>1. Running(r)
  BY DEF StreamFails, Running, IInv, RunInv, Streaming
<1>2. \A q \in Runs \ {r} : SameMemory(q)
  BY DEF IInv, TypeOK, StreamFails, SameMemory, Goto, local, stream
<1>3. TypeOK'
  BY ReplicaAssumption DEF IInv, TypeOK, StreamFails, Goto, Settle, Phases, source, dest, local,
     stream
<1>4. RunInv(r)'
  BY DEF IInv, TypeOK, StreamFails, Goto, RunInv, Early, Streaming, Blank, source, dest, local,
     stream, AtStream, Ascending, Members, WindowEnd
<1>. QED
  BY <1>1, <1>2, <1>3, <1>4, QuietFrame DEF StreamFails, local, Goto, IInv, TypeOK, Streaming

\* The task is off when the run ends.
LEMMA JoinStep ==
    ASSUME IInv, NEW r \in Runs, Join(r)
    PROVE  IInv'
<1>1. Running(r)
  BY DEF Join, Running, IInv, RunInv, Streaming
<1>2. \A q \in Runs \ {r} : SameMemory(q)
  BY DEF IInv, TypeOK, Join, SameMemory, Goto, local, stream
<1>3. TypeOK'
  BY ReplicaAssumption DEF IInv, TypeOK, Join, Goto, Settle, Phases, source, dest, local, stream
<1>4. RunInv(r)'
  BY DEF IInv, TypeOK, Join, Goto, RunInv, Early, Streaming, Blank, source, dest, local, stream,
     AtStream
<1>. QED
  BY <1>1, <1>2, <1>3, <1>4, QuietFrame DEF Join, local, Goto, IInv, TypeOK, Streaming

\* A member ahead of the window skips it.
LEMMA SkipMemberStep ==
    ASSUME IInv, NEW r \in Runs, NEW t \in Tables, SkipMember(r, t)
    PROVE  IInv'
<1>1. Running(r)
  BY DEF SkipMember, Applying, Running, IInv, RunInv, Streaming
<1>2. \A q \in Runs \ {r} : SameMemory(q)
  BY DEF IInv, TypeOK, SkipMember, Applying, SameMemory, Goto, local, stream
<1>3. TypeOK'
  BY ReplicaAssumption DEF IInv, TypeOK, SkipMember, Applying, Goto, Settle, Phases, source,
     dest, local, stream
<1>4. RunInv(r)'
  <2>1. pc[r] \in Streaming /\ AtStream(r) /\ loading[r] = {}
    BY DEF SkipMember, Applying, IInv, RunInv, Streaming
  <2>2. UNCHANGED <<mark, cur, bad, loading, floors, from, queue, applied, task, pc>>
    BY DEF SkipMember, dest, stream
  <2>3. tried'[r] = tried[r] \cup {t} /\ task[r] # "off" /\ queue[r] # <<>>
    BY DEF SkipMember, Applying, IInv, TypeOK
  <2>4. t \notin tried[r] /\ WindowEnd(r) <= floors[r][t] /\ applied[r] < WindowEnd(r)
    <3>1. applied[r] < WindowEnd(r)
      BY <2>1, <2>3, WindowIsNext DEF AtStream, IInv
    <3>. QED
      BY <3>1 DEF SkipMember, Applying
  <2>5. mark[t] = Higher(floors[r][t], WindowEnd(r))
    <3>1. mark[t] = Higher(floors[r][t], applied[r])
      BY <2>1, <2>3, <2>4 DEF AtStream, Members
    <3>2. floors[r][t] \in Int /\ applied[r] \in Int /\ WindowEnd(r) \in Int
      BY <2>3, Positions, Windows DEF IInv
    <3>. QED
      BY <2>4, <3>1, <3>2 DEF Higher
  <2>6. AtStream(r)'
    <3>1. Members(r)'
      BY <2>1, <2>2, <2>3, <2>5 DEF AtStream, Members, WindowEnd, Higher
    <3>2. Ascending(r)'
      BY <2>1, <2>2, <2>3 DEF AtStream, Ascending
    <3>. QED
      BY <2>1, <2>2, <2>3, <3>1, <3>2 DEF AtStream
  <2>. QED
    BY <2>1, <2>2, <2>6 DEF RunInv, Early, Streaming
<1>. QED
  BY <1>1, <1>2, <1>3, <1>4, QuietFrame DEF SkipMember, Applying, local, Goto, IInv, TypeOK,
     Streaming

\* The windows of a failed task are gone, and the run has an error.
LEMMA ApplyDiesStep ==
    ASSUME IInv, NEW r \in Runs, ApplyDies(r)
    PROVE  IInv'
<1>1. Running(r)
  BY DEF ApplyDies, Running, IInv, RunInv, Streaming
<1>2. \A q \in Runs \ {r} : SameMemory(q)
  BY DEF IInv, TypeOK, ApplyDies, SameMemory, Goto, local, stream
<1>3. TypeOK'
  BY ReplicaAssumption DEF IInv, TypeOK, ApplyDies, Goto, Settle, Phases, source, dest, local,
     stream
<1>4. RunInv(r)'
  BY DEF IInv, TypeOK, ApplyDies, Goto, RunInv, Early, Streaming, Blank, source, dest, local,
     stream, AtStream
<1>. QED
  BY <1>1, <1>2, <1>3, <1>4, QuietFrame DEF ApplyDies, local, Goto, IInv, TypeOK, Streaming

\* The task ends with everything applied.
LEMMA ApplyEndsStep ==
    ASSUME IInv, NEW r \in Runs, ApplyEnds(r)
    PROVE  IInv'
<1>1. Running(r)
  BY DEF ApplyEnds, Running, IInv, RunInv, Streaming
<1>2. \A q \in Runs \ {r} : SameMemory(q)
  BY DEF IInv, TypeOK, ApplyEnds, SameMemory, Goto, local, stream
<1>3. TypeOK'
  BY ReplicaAssumption DEF IInv, TypeOK, ApplyEnds, Goto, Settle, Phases, source, dest, local,
     stream
<1>4. RunInv(r)'
  <2>1. pc[r] = "join" /\ AtStream(r) /\ loading[r] = {} /\ task[r] = "on" /\ queue[r] = <<>>
    BY DEF ApplyEnds, IInv, RunInv, Streaming
  <2>2. UNCHANGED <<mark, cur, tried, bad, loading, floors, from, queue, applied, pc>>
        /\ task'[r] = "off"
    BY DEF ApplyEnds, dest, local, IInv, TypeOK
  <2>3. tried[r] = {} /\ applied[r] = cur[r]
    BY <2>1 DEF AtStream, Ascending, Members, IInv, TypeOK
  <2>4. AtStream(r)'
    BY <2>1, <2>2, <2>3 DEF AtStream
  <2>. QED
    BY <2>1, <2>2, <2>4 DEF RunInv, Early, Streaming
<1>. QED
  BY <1>1, <1>2, <1>3, <1>4, QuietFrame DEF ApplyEnds, local, Goto, IInv, TypeOK, Streaming

\* The group's minimum is one of the members' watermarks, and the stop line an LSN.
LEMMA LowestFloor ==
    ASSUME TypeOK, NEW r \in Runs, \A t \in Tables : floors[r][t] # None
    PROVE  /\ Lowest(r) \in LSN
           /\ \A t \in Tables : Lowest(r) <= floors[r][t]
           /\ \E t \in Tables : Lowest(r) = floors[r][t]
           /\ Min(Ahead(r) \cup {Len(wal)}) \in LSN
<1>. DEFINE F == {floors[r][t] : t \in Tables}
<1>1. Len(wal) \in LSN /\ LSN \subseteq Nat
  BY Positions, ReplicaAssumption
<1>2. F \in SUBSET LSN /\ F # {}
  BY Positions, ReplicaAssumption
<1>3. Min(F) \in F /\ \A x \in F : Min(F) <= x
  BY <1>1, <1>2, MinLeast
<1>4. Min(Ahead(r) \cup {Len(wal)}) \in Ahead(r) \cup {Len(wal)}
  <2>1. Ahead(r) \cup {Len(wal)} \in SUBSET Nat
    BY <1>1, <1>2 DEF Ahead
  <2>. QED
    BY <2>1, MinLeast
<1>. QED
  BY <1>1, <1>2, <1>3, <1>4 DEF Lowest, Ahead

\* The stop line is drawn.
LEMMA ReconcileStep ==
    ASSUME IInv, NEW r \in Runs, Reconcile(r)
    PROVE  IInv'
<1>1. Running(r)
  BY DEF Reconcile, Running
<1>2. \A q \in Runs \ {r} : SameMemory(q)
  BY DEF IInv, TypeOK, Reconcile, SameMemory, Goto, local
<1>3. TypeOK'
  <2>1. \A t \in Tables : floors[r][t] # None
    BY DEF Reconcile, IInv, RunInv, AllMarked
  <2>2. Min(Ahead(r) \cup {Len(wal)}) \in LSN
    BY <2>1, LowestFloor DEF IInv
  <2>3. stop' \in [Runs -> LSN]
    BY <2>2 DEF IInv, TypeOK, Reconcile
  <2>4. pc' \in [Runs -> Phases]
    <3>1. \/ pc' = [pc EXCEPT ![r] = "err"]
          \/ pc' = [pc EXCEPT ![r] = "connect"]
      BY DEF Reconcile, Goto
    <3>. QED
      BY <3>1 DEF IInv, TypeOK, Phases
  <2>. QED
    BY <2>3, <2>4 DEF IInv, TypeOK, Reconcile, source, dest, local
<1>4. RunInv(r)'
  BY DEF IInv, TypeOK, Reconcile, Goto, RunInv, Early, Streaming, Blank, AllMarked, source, dest,
         local
<1>. QED
  BY <1>1, <1>2, <1>3, <1>4, QuietFrame DEF Reconcile, local, Goto, IInv, TypeOK, Streaming

\* Every member has the window: the watch moves on.
LEMMA WindowAppliedStep ==
    ASSUME IInv, NEW r \in Runs, WindowApplied(r)
    PROVE  IInv'
<1>1. pc[r] \in Streaming /\ Running(r)
  BY DEF WindowApplied, Running, IInv, RunInv, Streaming
<1>2. \A q \in Runs \ {r} : SameMemory(q)
  BY DEF IInv, TypeOK, WindowApplied, SameMemory
<1>3. queue[r] # <<>> /\ task[r] = "on" /\ tried[r] = Tables
  BY DEF WindowApplied
<1>4. TypeOK'
  BY <1>3, Windows DEF IInv, TypeOK, WindowApplied, source, dest
<1>5. /\ UNCHANGED <<mark, cur, bad, loading, floors, from, task, pc>>
      /\ applied'[r] = WindowEnd(r) /\ queue'[r] = Tail(queue[r]) /\ tried'[r] = {}
  BY DEF WindowApplied, dest, IInv, TypeOK
<1>6. AtStream(r) /\ Ascending(r) /\ Members(r)
  BY <1>1, <1>3 DEF IInv, RunInv, AtStream
<1>7. applied[r] < WindowEnd(r) /\ WindowEnd(r) <= cur[r]
  BY <1>3, <1>6, WindowIsNext DEF IInv
<1>8. \A t \in Tables : mark[t] = Higher(floors[r][t], WindowEnd(r))
  BY <1>3, <1>6 DEF Members
<1>9. Ascending(r)'
  BY <1>3, <1>4, <1>5, <1>6, AscendingShrinks DEF IInv
<1>10. Members(r)'
  BY <1>5, <1>8 DEF Members, Higher
<1>11. \A t \in Tables : applied'[r] <= mark[t]
  BY <1>3, <1>5, <1>8, Positions, Windows DEF IInv, Higher
<1>12. AtStream(r)'
  <2>1. from[r] <= applied[r] /\ from[r] \in Nat /\ applied[r] \in Nat /\ WindowEnd(r) \in Nat
    BY <1>3, <1>6, Positions, Windows, ReplicaAssumption DEF AtStream, IInv
  <2>2. from[r] <= WindowEnd(r)
    BY <1>7, <2>1
  <2>. QED
    BY <1>3, <1>5, <1>6, <1>7, <1>9, <1>10, <1>11, <2>2 DEF AtStream
<1>13. RunInv(r)'
  BY <1>1, <1>5, <1>12 DEF IInv, RunInv, Early, Streaming
<1>. QED
  BY <1>1, <1>2, <1>4, <1>5, <1>13, QuietFrame DEF WindowApplied

\* A leftover slot goes.
LEMMA DropStaleStep ==
    ASSUME IInv, NEW r \in Runs, DropStale(r)
    PROVE  IInv'
<1>1. pc[r] = "dropstale" /\ Running(r) /\ owner = r
  BY DEF DropStale, Running, IInv, Owned
<1>2. \A q \in Runs \ {r} : SameMemory(q)
  BY DEF IInv, TypeOK, DropStale, SameMemory, Goto, local, stream
<1>3. UNCHANGED <<wal, using, mark, held, owner, cur>>
  BY DEF DropStale, dest, local
<1>4. \/ slot' = None /\ using = NoRun /\ pc'[r] = "create"
      \/ slot' = slot /\ pc'[r] = "err"
  BY DEF DropStale, Goto, IInv, TypeOK
<1>5. TypeOK'
  BY DEF IInv, TypeOK, DropStale, Goto, Phases, dest, local, stream
<1>6. RunInv(r)'
  BY <1>1, <1>3, <1>4 DEF DropStale, local, stream, IInv, RunInv, Early, Streaming, Blank,
     Unmarked
<1>7. SlotBehind' /\ Exact'
  BY <1>3, <1>4 DEF IInv, SlotBehind, Exact, Touches
<1>. QED
  BY <1>1, <1>2, <1>3, <1>4, <1>5, <1>6, <1>7, Frame DEF IInv, Sessions, InLog, Streaming

\* The consistent point is the end of the log.
LEMMA CreateSlotStep ==
    ASSUME IInv, NEW r \in Runs, CreateSlot(r)
    PROVE  IInv'
<1>1. pc[r] = "create" /\ Running(r) /\ owner = r /\ Unmarked /\ Blank(r)
  BY DEF CreateSlot, Running, IInv, Owned, RunInv, Early
<1>2. \A q \in Runs \ {r} : SameMemory(q)
  BY DEF IInv, TypeOK, CreateSlot, SameMemory, Goto, stream
<1>3. UNCHANGED <<wal, using, mark, held, owner, tried, bad, loading, queue, task>>
  BY DEF CreateSlot, dest, stream
<1>4. \/ slot' = Len(wal) /\ cur'[r] = Len(wal) /\ pc'[r] = "load"
      \/ slot' = slot /\ cur' = cur /\ pc'[r] = "err"
  BY DEF CreateSlot, Goto, IInv, TypeOK
<1>5. Len(wal) \in LSN /\ LSN \subseteq Nat
  BY LenProperties, ReplicaAssumption DEF IInv, TypeOK, LSN
<1>6. TypeOK'
  <2>1. slot' \in LSN \cup {None}
    BY <1>4, <1>5 DEF IInv, TypeOK
  <2>2. cur' \in [Runs -> LSN]
    BY <1>5 DEF CreateSlot, IInv, TypeOK
  <2>3. pc' \in [Runs -> Phases]
    <3>1. \/ pc' = [pc EXCEPT ![r] = "load"]
          \/ pc' = [pc EXCEPT ![r] = "err"]
      BY DEF CreateSlot, Goto
    <3>. QED
      BY <3>1 DEF IInv, TypeOK, Phases
  <2>. QED
    BY <2>1, <2>2, <2>3 DEF IInv, TypeOK, CreateSlot, dest, stream
<1>7. RunInv(r)'
  BY <1>1, <1>3, <1>4 DEF RunInv, Early, Streaming, Blank, AtLoad, Unmarked, OwnSlot
<1>8. SlotBehind' /\ Exact'
  BY <1>1, <1>3 DEF IInv, SlotBehind, Exact, Touches, Unmarked
<1>9. cur'[r] <= Len(wal)
  BY <1>4, <1>5 DEF IInv, InLog
<1>10. using' # NoRun => slot' # None
  BY <1>3, <1>4, <1>5 DEF IInv, Sessions, None
<1>. QED
  BY <1>1, <1>2, <1>3, <1>4, <1>6, <1>7, <1>8, <1>9, <1>10, Frame DEF IInv, InLog, Streaming

\* The slot goes.
LEMMA DropSlotStep ==
    ASSUME IInv, NEW r \in Runs, NEW ok \in BOOLEAN, DropSlot(r, ok)
    PROVE  IInv'
<1>1. pc[r] = "dropslot" /\ Running(r) /\ owner = r
  BY DEF DropSlot, Running, IInv, Owned
<1>2. \A q \in Runs \ {r} : SameMemory(q)
  BY DEF IInv, TypeOK, DropSlot, SameMemory, Goto, local, stream
<1>3. UNCHANGED <<wal, using, mark, held, owner, cur>>
  BY DEF DropSlot, dest, local
<1>4. /\ pc'[r] = "err"
      /\ slot' = slot \/ (slot' = None /\ using = NoRun)
  BY DEF DropSlot, Goto, IInv, TypeOK
<1>5. TypeOK'
  BY DEF IInv, TypeOK, DropSlot, Goto, Phases, dest, local, stream
<1>6. RunInv(r)'
  BY <1>1, <1>4 DEF DropSlot, local, stream, IInv, RunInv, Early, Streaming
<1>7. SlotBehind' /\ Exact'
  BY <1>3, <1>4 DEF IInv, SlotBehind, Exact, Touches
<1>. QED
  BY <1>1, <1>2, <1>3, <1>4, <1>5, <1>6, <1>7, Frame DEF IInv, Sessions, InLog, Streaming

\* A statement fails, its effect there or not.
LEMMA SourceFailsStep ==
    ASSUME IInv, NEW r \in Runs, NEW landed \in BOOLEAN, SourceFails(r, landed)
    PROVE  IInv'
<1>1. pc[r] \in Early /\ Running(r) /\ owner = r
  BY DEF SourceFails, Running, IInv, Owned, Early
<1>2. \A q \in Runs \ {r} : SameMemory(q)
  BY DEF IInv, TypeOK, SourceFails, SameMemory, Goto, local, stream
<1>3. UNCHANGED <<wal, using, mark, held, owner, cur>> /\ pc'[r] = "err"
  BY DEF SourceFails, Goto, dest, local, IInv, TypeOK
<1>4. \/ slot' = slot
      \/ slot' = None /\ using = NoRun
      \/ slot' = Len(wal) /\ pc[r] = "create"
  BY DEF SourceFails
<1>5. Len(wal) \in LSN /\ LSN \subseteq Nat
  BY LenProperties, ReplicaAssumption DEF IInv, TypeOK, LSN
<1>6. TypeOK'
  BY <1>4, <1>5 DEF IInv, TypeOK, SourceFails, Goto, Phases, dest, local, stream
<1>7. RunInv(r)'
  BY <1>1, <1>3 DEF SourceFails, local, stream, IInv, RunInv, Early, Streaming, Blank
<1>8. SlotBehind' /\ Exact'
  BY <1>3, <1>4 DEF IInv, SlotBehind, Exact, Touches, RunInv, Unmarked
<1>9. using' # NoRun => slot' # None
  BY <1>3, <1>4, <1>5 DEF IInv, Sessions, None
<1>. QED
  BY <1>1, <1>2, <1>3, <1>6, <1>7, <1>8, <1>9, Frame DEF IInv, InLog, Streaming

\* A confirmation sent by a run that streams goes no further than what is applied.
LEMMA ConfirmedStep ==
    ASSUME IInv, NEW r \in Runs, NEW p \in Int,
           pc[r] \in Streaming, p <= applied[r], slot' = Higher(slot, p)
    PROVE  /\ slot' \in LSN
           /\ \A t \in Tables : mark[t] # None /\ slot' <= mark[t]
<1>1. slot # None /\ AtStream(r)
  <2>1. using = r
    BY DEF IInv, Sessions
  <2>2. r # NoRun
    BY ReplicaAssumption
  <2>. QED
    BY <2>1, <2>2 DEF IInv, Sessions, RunInv
<1>2. slot \in LSN /\ applied[r] \in LSN /\ LSN \subseteq Nat
  BY <1>1, ReplicaAssumption DEF IInv, TypeOK, LSN
<1>3. \A t \in Tables :
         mark[t] # None /\ mark[t] \in Int /\ slot <= mark[t] /\ applied[r] <= mark[t]
  BY <1>1, Positions DEF IInv, SlotBehind, AtStream
<1>4. slot' \in LSN /\ (slot' = slot \/ slot' = p)
  <2>1. slot \in Nat /\ applied[r] \in Nat /\ applied[r] <= MaxWal /\ MaxWal \in Nat
    BY <1>2, ReplicaAssumption DEF LSN
  <2>2. CASE slot > p
    BY <1>2, <2>2 DEF Higher
  <2>3. CASE ~(slot > p)
    <3>1. slot' = p
      BY <2>3 DEF Higher
    <3>2. 0 <= p /\ p <= MaxWal
      BY <2>1, <2>3
    <3>. QED
      BY <2>1, <3>1, <3>2 DEF LSN
  <2>. QED
    BY <2>2, <2>3
<1>. QED
  <2>1. ASSUME NEW t \in Tables
        PROVE  p <= mark[t]
    <3>1. applied[r] \in Int /\ mark[t] \in Int /\ applied[r] <= mark[t]
      BY <1>2, <1>3
    <3>. QED
      BY <3>1
  <2>. QED
    BY <1>3, <1>4, <2>1

\* A reply carries what is applied.
LEMMA KeepaliveReplyStep ==
    ASSUME IInv, NEW r \in Runs, KeepaliveReply(r)
    PROVE  IInv'
<1>1. pc[r] \in Streaming /\ Running(r) /\ owner = r
  BY DEF KeepaliveReply, Running, IInv, Owned, Streaming
<1>2. \A q \in Runs \ {r} : SameMemory(q)
  BY DEF IInv, TypeOK, KeepaliveReply, SameMemory, Goto, local, stream
<1>3. UNCHANGED <<wal, using, mark, held, owner, pc, local, stream>>
  BY DEF KeepaliveReply, dest
<1>4. slot' \in LSN /\ \A t \in Tables : mark[t] # None /\ slot' <= mark[t]
  <2>1. applied[r] \in Int /\ applied[r] <= applied[r]
    BY Positions, ReplicaAssumption DEF IInv
  <2>. QED
    BY <1>1, <2>1, ConfirmedStep DEF KeepaliveReply
<1>5. TypeOK'
  BY <1>4 DEF IInv, TypeOK, KeepaliveReply, dest, local, stream
<1>6. RunInv(r)'
  <2>1. UNCHANGED <<cur, tried, bad, loading, floors, from, queue, applied, task>>
    BY <1>3 DEF local, stream
  <2>2. AtStream(r) => AtStream(r)'
    BY <1>3, <2>1 DEF AtStream, Ascending, Members, WindowEnd
  <2>. QED
    BY <1>1, <1>3, <2>1, <2>2 DEF IInv, RunInv, Early, Streaming
<1>7. SlotBehind' /\ Exact'
  BY <1>3, <1>4 DEF IInv, SlotBehind, Exact, Touches
<1>8. slot' # None
  BY <1>4, ReplicaAssumption DEF LSN, None
<1>. QED
  BY <1>1, <1>2, <1>3, <1>5, <1>6, <1>7, <1>8, Frame DEF IInv, Sessions, InLog, local

\* A window is confirmed after it was applied.
LEMMA ConfirmStep ==
    ASSUME IInv, NEW r \in Runs, Confirm(r)
    PROVE  IInv'
<1>1. pc[r] \in Streaming /\ Running(r) /\ owner = r
  BY DEF Confirm, Confirming, Running, IInv, Owned, Streaming
<1>2. \A q \in Runs \ {r} : SameMemory(q)
  BY DEF IInv, TypeOK, Confirm, SameMemory, local
<1>3. UNCHANGED <<wal, using, mark, held, owner, pc, cur, tried, bad, loading, floors, from, queue,
                  applied, task>>
  BY DEF Confirm, dest, local
<1>4. /\ pending[r] # <<>> /\ pending[r] \in Seq(LSN)
      /\ Head(pending[r]) \in LSN /\ Tail(pending[r]) \in Seq(LSN)
  BY HeadTailProperties DEF Confirm, Confirming, IInv, TypeOK
<1>5. slot' \in LSN /\ \A t \in Tables : mark[t] # None /\ slot' <= mark[t]
  <2>1. Head(pending[r]) \in Int
    BY <1>4 DEF LSN
  <2>2. Head(pending[r]) <= applied[r]
    BY <2>1, Positions, ReplicaAssumption DEF Confirm, IInv
  <2>. QED
    BY <1>1, <2>1, <2>2, ConfirmedStep DEF Confirm
<1>6. TypeOK'
  BY <1>4, <1>5 DEF IInv, TypeOK, Confirm, dest, local
<1>7. RunInv(r)'
  <2>1. AtStream(r) => AtStream(r)'
    BY <1>3 DEF AtStream, Ascending, Members, WindowEnd
  <2>. QED
    BY <1>1, <1>3, <2>1 DEF IInv, RunInv, Early, Streaming
<1>8. SlotBehind' /\ Exact'
  BY <1>3, <1>5 DEF IInv, SlotBehind, Exact, Touches
<1>9. slot' # None
  BY <1>5, ReplicaAssumption DEF LSN, None
<1>. QED
  BY <1>1, <1>2, <1>3, <1>6, <1>7, <1>8, <1>9, Frame DEF IInv, Sessions, InLog

\* The stream starts at the lowest watermark, since the slot is behind it.
LEMMA StartReplicationStep ==
    ASSUME IInv, NEW r \in Runs, StartReplication(r)
    PROVE  IInv'
<1>1. /\ pc[r] = "connect" /\ Running(r) /\ owner = r
      /\ Blank(r) /\ floors[r] = mark /\ AllMarked
  BY DEF StartReplication, Running, IInv, Owned, RunInv, Early
<1>2. \A q \in Runs \ {r} : SameMemory(q)
  BY DEF IInv, TypeOK, StartReplication, SameMemory, Goto
<1>3. UNCHANGED <<wal, slot, mark, held, owner, tried, bad, loading, floors, queue>>
  BY DEF StartReplication, dest
<1>4. /\ Lowest(r) \in LSN
      /\ \A t \in Tables : Lowest(r) <= mark[t] /\ mark[t] # None
      /\ \E t \in Tables : Lowest(r) = mark[t]
  BY <1>1, LowestFloor DEF IInv, AllMarked
<1>5. Lowest(r) <= Len(wal)
  BY <1>4 DEF IInv, InLog
<1>6. SlotBehind' /\ Exact'
  BY <1>3 DEF IInv, SlotBehind, Exact, Touches
<1>7. CASE slot = None \/ using # NoRun
  <2>1. UNCHANGED <<using, cur, from, applied, task>> /\ Goto(r, "err")
    BY <1>7 DEF StartReplication
  <2>2. TypeOK'
    BY <2>1 DEF IInv, TypeOK, StartReplication, Goto, Phases, dest
  <2>3. pc'[r] = "err"
    BY <2>1 DEF Goto, IInv, TypeOK
  <2>4. RunInv(r)'
    BY <1>1, <1>3, <2>1, <2>3 DEF RunInv, Early, Streaming, Blank
  <2>. QED
    BY <1>1, <1>2, <1>3, <1>6, <2>1, <2>2, <2>3, <2>4, Frame DEF IInv, Sessions, InLog, Streaming
<1>8. CASE slot # None /\ using = NoRun
  <2>1. slot \in LSN /\ LSN \subseteq Nat /\ \A t \in Tables : slot <= mark[t]
    BY <1>4, <1>8, ReplicaAssumption DEF IInv, TypeOK, LSN, SlotBehind
  <2>2. Higher(slot, Lowest(r)) = Lowest(r)
    <3>1. slot <= Lowest(r)
      BY <1>4, <2>1
    <3>2. slot \in Int /\ Lowest(r) \in Int
      BY <1>4, <2>1, LsnNat
    <3>. QED
      BY <3>1, <3>2 DEF Higher
  <2>3. /\ pc' = [pc EXCEPT ![r] = "drain"] /\ using' = r
        /\ cur' = [cur EXCEPT ![r] = Lowest(r)]
        /\ from' = [from EXCEPT ![r] = Lowest(r)]
        /\ applied' = [applied EXCEPT ![r] = Lowest(r)]
        /\ task' = [task EXCEPT ![r] = "on"]
    BY <1>8, <2>2 DEF StartReplication, Goto
  <2>4. /\ pc'[r] = "drain" /\ cur'[r] = Lowest(r) /\ from'[r] = Lowest(r)
        /\ applied'[r] = Lowest(r) /\ task'[r] = "on"
    BY <2>3 DEF IInv, TypeOK
  <2>5. TypeOK'
    BY <1>4, <2>3 DEF IInv, TypeOK, StartReplication, Phases, dest
  <2>6. AtStream(r)'
    <3>1. queue'[r] = <<>> /\ tried'[r] = {} /\ bad'[r] = FALSE /\ floors'[r] = mark
      BY <1>1, <1>3 DEF Blank, IInv, TypeOK
    <3>2. Ascending(r)'
      BY <2>4, <3>1, EmptySeq DEF Ascending
    <3>3. \A t \in Tables : Higher(mark[t], Lowest(r)) = mark[t]
      BY <1>4, Positions DEF IInv, Higher
    <3>4. Members(r)'
      BY <1>3, <2>4, <3>1, <3>3 DEF Members, Higher
    <3>. QED
      BY <1>3, <1>4, <2>1, <2>4, <3>1, <3>2, <3>4 DEF AtStream
  <2>7. RunInv(r)'
    BY <1>1, <1>3, <2>4, <2>6 DEF RunInv, Early, Streaming, Blank
  <2>. QED
    BY <1>1, <1>2, <1>3, <1>5, <1>6, <1>8, <2>3, <2>4, <2>5, <2>7, Frame DEF IInv, InLog
<1>. QED
  BY <1>7, <1>8

\* What the swap of a load that is under way leaves behind.
LEMMA Swapped ==
    ASSUME IInv, NEW r \in Runs, NEW t \in Tables, pc[r] = "load", Swap(r, t)
    PROVE  /\ mark' = mark
           /\ held' = [held EXCEPT ![t] = Touches(t, 0, cur[r])]
           /\ held' \in [Tables -> SUBSET LSN] /\ twice' \in [Tables -> SUBSET LSN]
<1>1. Unmarked
  BY DEF IInv, RunInv, AtLoad
<1>2. mark' = mark
  BY <1>1 DEF Swap, Unmarked, IInv, TypeOK
<1>3. Touches(t, 0, cur[r]) \subseteq LSN
  <2>1. cur[r] \in LSN /\ MaxWal \in Nat
    BY ReplicaAssumption DEF IInv, TypeOK
  <2>. QED
    BY <2>1 DEF Touches, LSN
<1>. QED
  BY <1>2, <1>3 DEF Swap, IInv, TypeOK

\* A load is settled, the member swapped or left as it is.
LEMMA Loaded ==
    ASSUME IInv, NEW r \in Runs, NEW t \in Tables, NEW ok \in BOOLEAN, pc[r] = "load",
           UNCHANGED <<source, owner, pc, cur, stream>>,
           Swap(r, t) \/ (~ok /\ UNCHANGED dest),
           Settle(r, t, ok), loading' = [loading EXCEPT ![r] = {}]
    PROVE  IInv'
<1>1. Running(r) /\ owner = r /\ AtLoad(r)
  BY DEF Running, IInv, Owned, RunInv
<1>2. \A q \in Runs \ {r} : SameMemory(q)
  BY DEF IInv, TypeOK, SameMemory, Settle, stream
<1>3. UNCHANGED <<wal, slot, using, owner, pc, cur, queue, task>>
  BY DEF source, stream
<1>4. /\ mark' = mark
      /\ held' = [held EXCEPT ![t] = Touches(t, 0, cur[r])] \/ (~ok /\ held' = held)
      /\ held' \in [Tables -> SUBSET LSN] /\ twice' \in [Tables -> SUBSET LSN]
  BY Swapped DEF dest, IInv, TypeOK
<1>5. TypeOK'
  BY <1>4 DEF IInv, TypeOK, Settle, source, stream
<1>6. tried'[r] = tried[r] \cup {t} /\ bad'[r] = (bad[r] \/ ~ok) /\ loading'[r] = {}
  BY DEF Settle, IInv, TypeOK
<1>7. SlotBehind' /\ Exact'
  BY <1>1, <1>3, <1>4 DEF IInv, SlotBehind, Exact, AtLoad, Unmarked
<1>8. AtLoad(r)'
  <2>1. ASSUME NEW u \in tried'[r], ~bad'[r]
        PROVE  held'[u] = Touches(u, 0, cur[r])
    <3>1. ok /\ ~bad[r] /\ held' = [held EXCEPT ![t] = Touches(t, 0, cur[r])]
      BY <1>4, <1>6, <2>1
    <3>2. u \in tried[r] => held[u] = Touches(u, 0, cur[r])
      BY <1>1, <3>1 DEF AtLoad
    <3>. QED
      BY <1>6, <2>1, <3>1, <3>2 DEF IInv, TypeOK
  <2>2. \A u \in tried'[r] : ~bad'[r] => held'[u] = Touches(u, 0, cur[r])'
    BY <1>3, <2>1 DEF Touches
  <2>. QED
    BY <1>1, <1>3, <1>4, <1>6, <2>2 DEF AtLoad, Unmarked, OwnSlot
<1>9. RunInv(r)'
  BY <1>3, <1>6, <1>8 DEF IInv, RunInv, Early, Streaming
<1>. QED
  BY <1>1, <1>2, <1>3, <1>4, <1>5, <1>7, <1>9, Frame DEF IInv, Sessions, InLog

\* A load lands.
LEMMA LoadLandStep ==
    ASSUME IInv, Sound, NEW r \in Runs, NEW t \in Tables, LoadLand(r, t)
    PROVE  IInv'
<1>1. pc[r] = "load"
  BY DEF LoadLand, IInv, RunInv
<1>2. Swap(r, t)
  BY DEF LoadLand, EmptyKeepsRows, Sound
<1>. QED
  BY <1>1, <1>2, Loaded DEF LoadLand

\* A load fails.
LEMMA LoadFailsStep ==
    ASSUME IInv, NEW r \in Runs, NEW t \in Tables, NEW landed \in BOOLEAN,
           LoadFails(r, t, landed)
    PROVE  IInv'
<1>1. pc[r] = "load" /\ (Swap(r, t) \/ (~FALSE /\ UNCHANGED dest))
  BY DEF LoadFails
<1>. QED
  BY <1>1, Loaded DEF LoadFails

\* A member's unit of bootstrap_finish is settled, its watermark written or not.
LEMMA Finished ==
    ASSUME IInv, NEW r \in Runs, NEW t \in Tables, NEW ok \in BOOLEAN, pc[r] = "finish",
           t \notin tried[r],
           UNCHANGED <<source, held, twice, owner, pc, cur, loading, stream>>,
           mark' = [mark EXCEPT ![t] = cur[r]] \/ (~ok /\ mark' = mark),
           Settle(r, t, ok)
    PROVE  IInv'
<1>1. Running(r) /\ owner = r /\ AtFinish(r)
  BY DEF Running, IInv, Owned, RunInv
<1>2. \A q \in Runs \ {r} : SameMemory(q)
  BY DEF IInv, TypeOK, SameMemory, Settle, stream
<1>3. UNCHANGED <<wal, slot, using, owner, pc, cur, queue, task, loading>>
  BY DEF source, stream
<1>4. TypeOK'
  BY DEF IInv, TypeOK, Settle, source, stream
<1>5. tried'[r] = tried[r] \cup {t} /\ bad'[r] = (bad[r] \/ ~ok)
  BY DEF Settle, IInv, TypeOK
<1>6. ASSUME NEW u \in Tables
      PROVE  /\ held'[u] = Touches(u, 0, cur[r])'
             /\ u \notin tried'[r] => mark'[u] = None
             /\ mark'[u] \in {None, cur[r]}
             /\ u \in tried'[r] /\ ~bad'[r] => mark'[u] = cur[r]
  <2>1. /\ held'[u] = Touches(u, 0, cur[r])'
        /\ u \notin tried[r] => mark[u] = None
        /\ mark[u] \in {None, cur[r]}
        /\ u \in tried[r] /\ ~bad[r] => mark[u] = cur[r]
    BY <1>1, <1>3 DEF AtFinish, Touches
  <2>2. \/ mark'[u] = IF u = t THEN cur[r] ELSE mark[u]
        \/ ~ok /\ mark'[u] = mark[u]
    BY DEF IInv, TypeOK
  <2>. QED
    BY <1>5, <2>1, <2>2
<1>7. AtFinish(r)'
  BY <1>1, <1>3, <1>6 DEF AtFinish, OwnSlot
<1>8. SlotBehind' /\ Exact'
  <2>1. slot # None => slot = cur[r]
    BY <1>1 DEF AtFinish, OwnSlot
  <2>2. \A u \in Tables : mark'[u] # None => mark'[u] = cur[r]
    BY <1>6
  <2>3. cur[r] <= cur[r]
    BY <1>1, Positions DEF IInv
  <2>. QED
    BY <1>3, <1>6, <2>1, <2>2, <2>3 DEF SlotBehind, Exact
<1>9. \A u \in Tables : mark'[u] <= Len(wal)
  <2>1. Len(wal) \in Nat /\ cur[r] <= Len(wal) /\ None <= Len(wal)
    BY LenProperties DEF IInv, InLog, TypeOK, None
  <2>. QED
    BY <1>6, <2>1
<1>10. RunInv(r)'
  BY <1>3, <1>7 DEF IInv, RunInv, Early, Streaming
<1>. QED
  BY <1>1, <1>2, <1>3, <1>4, <1>8, <1>9, <1>10, Frame DEF IInv, Sessions, InLog

\* A member is published.
LEMMA FinishStep ==
    ASSUME IInv, NEW r \in Runs, NEW t \in Tables, Finish(r, t)
    PROVE  IInv'
BY Finished DEF Finish

\* Its unit fails, landed or not.
LEMMA FinishFailsStep ==
    ASSUME IInv, NEW r \in Runs, NEW t \in Tables, NEW landed \in BOOLEAN,
           FinishFails(r, t, landed)
    PROVE  IInv'
<1>1. mark' = [mark EXCEPT ![t] = cur[r]] \/ (~FALSE /\ mark' = mark)
  BY DEF FinishFails
<1>. QED
  BY <1>1, Finished DEF FinishFails

\* A member is withdrawn.
LEMMA ClearMemberStep ==
    ASSUME IInv, NEW r \in Runs, NEW t \in Tables, NEW ok \in BOOLEAN, ClearMember(r, t, ok)
    PROVE  IInv'
<1>1. pc[r] = "clear" /\ Running(r) /\ owner = r
  BY DEF ClearMember, Running, IInv, Owned
<1>2. \A q \in Runs \ {r} : SameMemory(q)
  BY DEF IInv, TypeOK, ClearMember, SameMemory, stream
<1>3. UNCHANGED <<wal, slot, using, held, owner, pc, cur, bad, loading, queue, task>>
  BY DEF ClearMember, source, stream
<1>4. TypeOK'
  BY DEF IInv, TypeOK, ClearMember, source, stream
<1>5. \A u \in Tables : mark'[u] = mark[u] \/ mark'[u] = None
  BY DEF ClearMember, IInv, TypeOK
<1>6. SlotBehind' /\ Exact'
  BY <1>3, <1>5 DEF IInv, SlotBehind, Exact, Touches
<1>7. \A u \in Tables : mark'[u] <= Len(wal)
  <2>1. Len(wal) \in Nat /\ None <= Len(wal)
    BY LenProperties DEF IInv, TypeOK, None
  <2>. QED
    BY <1>5, <2>1 DEF IInv, InLog
<1>8. RunInv(r)'
  BY <1>1, <1>3 DEF IInv, RunInv, Early, Streaming
<1>. QED
  BY <1>1, <1>2, <1>3, <1>4, <1>6, <1>7, <1>8, Frame DEF IInv, Sessions, InLog

\* What a unit of the apply task that lands leaves behind: the member goes from
\* where it was to the window's end, and nothing of the window is in it twice.
LEMMA Landed ==
    ASSUME IInv, NEW r \in Runs, NEW t \in Tables, Applying(r, t), WindowEnd(r) > floors[r][t],
           Land(r, t)
    PROVE  /\ mark[t] < WindowEnd(r) /\ mark[t] # None
           /\ Touches(t, 0, WindowEnd(r)) \subseteq LSN
           /\ held' = [held EXCEPT ![t] = Touches(t, 0, WindowEnd(r))]
           /\ mark' = [mark EXCEPT ![t] = WindowEnd(r)]
           /\ twice' \in [Tables -> SUBSET LSN]
           /\ Higher(floors[r][t], WindowEnd(r)) = WindowEnd(r)
           /\ WindowEnd(r) <= Len(wal) /\ applied[r] < WindowEnd(r)
<1>1. /\ queue[r] # <<>> /\ task[r] # "off" /\ t \notin tried[r]
      /\ AtStream(r) /\ Ascending(r) /\ Members(r)
  BY DEF Applying, IInv, RunInv, AtStream
<1>2. /\ WindowEnd(r) \in LSN /\ applied[r] \in LSN /\ LSN \subseteq Nat
      /\ mark[t] \in LSN /\ from[r] \in LSN /\ floors[r][t] \in LSN
  BY <1>1, Windows, Positions, ReplicaAssumption DEF IInv, TypeOK, AtStream
<1>3. applied[r] < WindowEnd(r) /\ WindowEnd(r) <= cur[r] /\ cur[r] <= Len(wal)
  BY <1>1, WindowIsNext DEF IInv, InLog
<1>4. mark[t] = Higher(floors[r][t], applied[r])
  BY <1>1 DEF Members
<1>5. mark[t] < WindowEnd(r) /\ Higher(floors[r][t], WindowEnd(r)) = WindowEnd(r)
  <2>1. WindowEnd(r) \in Int /\ applied[r] \in Int /\ floors[r][t] \in Int
    BY <1>2, LsnNat
  <2>. QED
    BY <2>1, <1>3, <1>4 DEF Higher
<1>6. Changes(r, t) = Touches(t, applied[r], WindowEnd(r))
  <2>1. Higher(applied[r], from[r]) = applied[r]
    <3>1. from[r] <= applied[r] /\ from[r] \in Int /\ applied[r] \in Int
      BY <1>1, <1>2, LsnNat DEF AtStream
    <3>. QED
      BY <3>1 DEF Higher
  <2>. QED
    BY <2>1 DEF Changes
<1>7. held[t] = Touches(t, 0, mark[t])
  BY <1>1 DEF IInv, Exact, AtStream
<1>8. held[t] \cup Changes(r, t) = Touches(t, 0, WindowEnd(r))
  <2>1. /\ applied[r] \in Nat /\ mark[t] \in Nat /\ WindowEnd(r) \in Nat
        /\ applied[r] <= mark[t] /\ mark[t] <= WindowEnd(r)
    <3>1. applied[r] \in Nat /\ mark[t] \in Nat /\ WindowEnd(r) \in Nat
      BY <1>2, LsnNat
    <3>. QED
      BY <1>1, <1>5, <3>1 DEF AtStream
  <2>. QED
    BY <1>6, <1>7, <2>1, TouchesJoin
<1>9. Touches(t, 0, WindowEnd(r)) \subseteq LSN
  <2>1. WindowEnd(r) \in 0..MaxWal /\ MaxWal \in Nat
    BY <1>2, ReplicaAssumption DEF LSN
  <2>. QED
    BY <2>1 DEF Touches, LSN
<1>10. twice' \in [Tables -> SUBSET LSN]
  <2>1. held[t] \cap Changes(r, t) \subseteq LSN
    BY DEF IInv, TypeOK
  <2>. QED
    BY <2>1 DEF Land, IInv, TypeOK
<1>11. WindowEnd(r) <= Len(wal)
  <2>1. WindowEnd(r) \in Int /\ cur[r] \in Int /\ Len(wal) \in Int
    BY <1>2, Positions DEF IInv
  <2>. QED
    BY <2>1, <1>3
<1>. QED
  BY <1>1, <1>3, <1>5, <1>8, <1>9, <1>10, <1>11 DEF Land, IInv, TypeOK, AtStream

\* The apply task has settled one member of the window.
LEMMA MemberSettled ==
    ASSUME IInv, NEW r \in Runs, NEW t \in Tables, Applying(r, t), WindowEnd(r) > floors[r][t],
           Land(r, t) \/ (task'[r] = "failing" /\ UNCHANGED dest),
           tried' = [tried EXCEPT ![r] = @ \cup {t}],
           task' = task \/ task' = [task EXCEPT ![r] = "failing"],
           UNCHANGED <<source, owner, pc, cur, bad, loading, floors, from, stop, queue, pending,
                       applied>>
    PROVE  IInv'
<1>1. /\ queue[r] # <<>> /\ task[r] # "off" /\ t \notin tried[r]
      /\ pc[r] \in Streaming /\ Running(r) /\ owner = r
      /\ AtStream(r) /\ Ascending(r) /\ Members(r)
  BY DEF Applying, IInv, RunInv, AtStream, Owned, Running, Streaming
<1>2. \A q \in Runs \ {r} : SameMemory(q)
  BY DEF IInv, TypeOK, SameMemory
<1>3. UNCHANGED <<wal, slot, using>> /\ WindowEnd(r)' = WindowEnd(r)
  BY DEF source, WindowEnd
<1>4. /\ tried'[r] = tried[r] \cup {t}
      /\ task'[r] # "off" /\ (task[r] = "failing" => task'[r] = "failing")
  BY <1>1 DEF IInv, TypeOK
<1>5. /\ WindowEnd(r) \in LSN /\ WindowEnd(r) \in Nat
      /\ \A u \in Tables : mark[u] \in Nat /\ applied[r] \in Nat /\ applied[r] <= mark[u]
  BY <1>1, Windows, Positions, ReplicaAssumption DEF IInv, AtStream
<1>6. /\ mark' \in [Tables -> LSN \cup {None}] /\ held' \in [Tables -> SUBSET LSN]
      /\ twice' \in [Tables -> SUBSET LSN]
  <2>1. CASE Land(r, t)
    <3>1. /\ held' = [held EXCEPT ![t] = Touches(t, 0, WindowEnd(r))]
          /\ mark' = [mark EXCEPT ![t] = WindowEnd(r)]
          /\ twice' \in [Tables -> SUBSET LSN]
          /\ Touches(t, 0, WindowEnd(r)) \subseteq LSN
      BY <2>1, Landed
    <3>. QED
      BY <1>5, <3>1 DEF IInv, TypeOK
  <2>. QED
    BY <2>1 DEF IInv, TypeOK, dest
<1>7. TypeOK'
  BY <1>6 DEF IInv, TypeOK, source
<1>8. ASSUME NEW u \in Tables
      PROVE  /\ mark'[u] # None /\ mark[u] <= mark'[u] /\ applied[r] <= mark'[u]
             /\ mark'[u] <= Len(wal)
             /\ held'[u] = Touches(u, 0, mark'[u])
  <2>1. mark[u] # None /\ mark[u] <= Len(wal) /\ held[u] = Touches(u, 0, mark[u])
    BY <1>1 DEF IInv, InLog, Exact, AtStream
  <2>2. CASE mark'[u] = mark[u] /\ held'[u] = held[u]
    BY <1>5, <2>1, <2>2
  <2>3. CASE u = t /\ Land(r, t)
    <3>1. mark'[t] = WindowEnd(r) /\ held'[t] = Touches(t, 0, WindowEnd(r))
      BY <2>3, Landed DEF IInv, TypeOK
    <3>2. mark[t] < WindowEnd(r) /\ applied[r] < WindowEnd(r) /\ WindowEnd(r) <= Len(wal)
      BY <2>3, Landed
    <3>. QED
      BY <1>5, <2>3, <3>1, <3>2 DEF None
  <2>4. CASE u # t /\ Land(r, t)
    BY <2>2, <2>4 DEF Land, IInv, TypeOK
  <2>. QED
    BY <2>2, <2>3, <2>4 DEF dest
<1>9. Exact'
  BY <1>3, <1>8 DEF Exact, Touches
<1>10. SlotBehind'
  <2>1. ASSUME NEW u \in Tables, slot # None
        PROVE  slot <= mark'[u]
    <3>1. slot \in Int /\ slot <= mark[u]
      BY <1>1, <2>1 DEF IInv, TypeOK, SlotBehind, AtStream, LSN
    <3>2. mark'[u] \in LSN
      BY <1>6, <1>8
    <3>3. mark[u] \in Int /\ mark'[u] \in Int /\ mark[u] <= mark'[u]
      BY <1>5, <1>8, <3>2, LsnNat
    <3>. QED
      BY <3>1, <3>3
  <2>. QED
    BY <1>3, <2>1 DEF SlotBehind
<1>11. Members(r)'
  <2>1. ASSUME NEW u \in Tables, u # t
        PROVE  mark'[u] = mark[u] /\ (u \in tried'[r] <=> u \in tried[r])
    BY <1>4, <2>1 DEF Land, dest, IInv, TypeOK
  <2>2. \/ mark'[t] = Higher(floors[r][t], WindowEnd(r))
        \/ task'[r] = "failing" /\ mark'[t] = Higher(floors[r][t], applied[r])
    <3>1. CASE Land(r, t)
      BY <3>1, Landed DEF IInv, TypeOK
    <3>2. CASE task'[r] = "failing" /\ UNCHANGED dest
      BY <1>1, <3>2 DEF Members, dest
    <3>. QED
      BY <3>1, <3>2
  <2>3. ASSUME NEW u \in Tables, u # t
        PROVE  \/ u \notin tried'[r] /\ mark'[u] = Higher(floors[r][u], applied[r])
               \/ /\ u \in tried'[r]
                  /\ \/ mark'[u] = Higher(floors[r][u], WindowEnd(r))
                     \/ task'[r] = "failing" /\ mark'[u] = Higher(floors[r][u], applied[r])
    BY <1>1, <1>4, <2>1, <2>3 DEF Members
  <2>. QED
    BY <1>1, <1>3, <1>4, <2>2, <2>3 DEF Members, Higher
<1>12. AtStream(r)'
  <2>1. Ascending(r)'
    BY <1>1 DEF Ascending
  <2>. QED
    BY <1>1, <1>4, <1>8, <1>11, <2>1 DEF AtStream
<1>13. RunInv(r)'
  BY <1>1, <1>12 DEF IInv, RunInv, Early, Streaming
<1>. QED
  BY <1>1, <1>2, <1>3, <1>7, <1>8, <1>9, <1>10, <1>13, Frame DEF IInv, Sessions, InLog

\* A member takes the window.
LEMMA ApplyMemberStep ==
    ASSUME IInv, NEW r \in Runs, NEW t \in Tables, ApplyMember(r, t)
    PROVE  IInv'
BY MemberSettled DEF ApplyMember, stream

\* Its unit fails, landed or not.
LEMMA ApplyFailsStep ==
    ASSUME IInv, NEW r \in Runs, NEW t \in Tables, NEW landed \in BOOLEAN,
           ApplyFails(r, t, landed)
    PROVE  IInv'
<1>1. Land(r, t) \/ (task'[r] = "failing" /\ UNCHANGED dest)
  BY DEF ApplyFails, IInv, TypeOK
<1>. QED
  BY <1>1, MemberSettled DEF ApplyFails

\* A window is sent, past all the others.
LEMMA DrainWindowStep ==
    ASSUME IInv, NEW r \in Runs, NEW e \in LSN, NEW more \in BOOLEAN, DrainWindow(r, e, more)
    PROVE  IInv'
<1>1. /\ pc[r] = "drain" /\ task[r] # "off" /\ Running(r) /\ owner = r
      /\ AtStream(r) /\ Ascending(r) /\ Members(r)
  BY DEF DrainWindow, IInv, Owned, Running, RunInv, AtStream, Streaming
<1>2. \A q \in Runs \ {r} : SameMemory(q)
  BY DEF IInv, TypeOK, DrainWindow, SameMemory, Goto
<1>3. UNCHANGED <<wal, slot, using, mark, held, owner, tried, bad, loading, floors, from, applied,
                  task>>
  BY DEF DrainWindow, source, dest
<1>4. queue[r] \in Seq(LSN) /\ Len(queue[r]) \in Nat
  BY LenProperties DEF IInv, TypeOK
<1>5. /\ cur'[r] = e /\ queue'[r] = Append(queue[r], e)
      /\ pc'[r] = "drain" \/ pc'[r] = "final"
  BY DEF DrainWindow, Goto, IInv, TypeOK
<1>6. /\ queue'[r] \in Seq(LSN) /\ Len(queue'[r]) = Len(queue[r]) + 1
      /\ \A i \in 1..Len(queue[r]) : queue'[r][i] = queue[r][i]
      /\ queue'[r][Len(queue[r]) + 1] = e
  BY <1>4, <1>5, AppendProperties
<1>7. queue'[r] # <<>>
  BY <1>4, <1>6, EmptySeq
<1>8. cur[r] < e /\ e <= Len(wal)
  <2>1. e \in (cur[r] + 1)..Len(wal)
    BY DEF DrainWindow, WindowEnds
  <2>. QED
    BY <2>1, <1>1, Positions, ReplicaAssumption DEF IInv
<1>9. TypeOK'
  <2>1. pc' = [pc EXCEPT ![r] = "drain"] \/ pc' = [pc EXCEPT ![r] = "final"]
    BY DEF DrainWindow, Goto
  <2>2. pc' \in [Runs -> Phases]
    BY <2>1 DEF IInv, TypeOK, Phases
  <2>3. queue' \in [Runs -> Seq(LSN)] /\ pending' \in [Runs -> Seq(LSN)]
    <3>1. Append(pending[r], e) \in Seq(LSN) /\ Append(queue[r], e) \in Seq(LSN)
      BY AppendProperties DEF IInv, TypeOK
    <3>. QED
      BY <3>1 DEF DrainWindow, IInv, TypeOK
  <2>. QED
    BY <2>2, <2>3 DEF DrainWindow, IInv, TypeOK, source, dest
<1>10. /\ applied[r] \in Int /\ cur[r] \in Int /\ e \in Int /\ applied[r] < e
       /\ \A i \in 1..Len(queue[r]) : queue[r][i] \in Int
  <2>1. applied[r] \in Int /\ cur[r] \in Int /\ e \in Int /\ applied[r] <= cur[r]
    BY <1>1, LsnNat DEF IInv, TypeOK, AtStream
  <2>2. \A i \in 1..Len(queue[r]) : queue[r][i] \in LSN
    BY <1>4, ElementOfSeq
  <2>3. applied[r] < e
    BY <1>8, <2>1
  <2>. QED
    BY <2>1, <2>2, <2>3, LsnNat
<1>11. Ascending(r)'
  BY <1>1, <1>3, <1>5, <1>8, <1>10, AscendingGrows DEF IInv
<1>12. Members(r)'
  <2>1. CASE queue[r] = <<>>
    <3>1. \A t \in Tables : t \notin tried[r] /\ mark[t] = Higher(floors[r][t], applied[r])
      BY <1>1, <2>1 DEF Members
    <3>. QED
      BY <1>3, <3>1 DEF Members, Higher
  <2>2. CASE queue[r] # <<>>
    <3>1. WindowEnd(r)' = WindowEnd(r)
      <4>1. Len(queue[r]) \in Nat \ {0} /\ WindowEnd(r) = queue[r][1]
        BY <2>2, Windows DEF IInv
      <4>2. Head(queue'[r]) = queue'[r][1]
        BY <1>6, <1>7, HeadTailProperties
      <4>. QED
        BY <1>6, <4>1, <4>2 DEF WindowEnd
    <3>. QED
      BY <1>1, <1>3, <1>7, <3>1 DEF Members, Higher
  <2>. QED
    BY <2>1, <2>2
<1>13. AtStream(r)'
  BY <1>1, <1>3, <1>5, <1>8, <1>10, <1>11, <1>12 DEF AtStream
<1>14. RunInv(r)'
  BY <1>1, <1>3, <1>5, <1>13 DEF IInv, RunInv, Early, Streaming
<1>15. SlotBehind' /\ Exact'
  BY <1>3 DEF IInv, SlotBehind, Exact, Touches
<1>. QED
  BY <1>1, <1>2, <1>3, <1>5, <1>8, <1>9, <1>14, <1>15, Frame DEF IInv, Sessions, InLog, Streaming

\* A run starts, when no other runs.
LEMMA AcquireStep ==
    ASSUME IInv, Sound, NEW r \in Runs, Acquire(r)
    PROVE  IInv'
<1>1. owner = NoRun /\ pc[r] = "idle"
  BY DEF Acquire, Sound
<1>2. \A q \in Runs : pc[q] = "idle"
  BY <1>1, ReplicaAssumption DEF IInv, Owned, Running
<1>3. \A q \in Runs \ {r} : SameMemory(q)
  BY DEF IInv, TypeOK, Acquire, SameMemory, Goto, local, stream
<1>4. UNCHANGED <<wal, slot, using, mark, held, cur, tried, bad, loading, queue, task>>
  BY DEF Acquire, source, dest, local, stream
<1>5. pc'[r] = "decide" /\ owner' = r
  BY DEF Acquire, Goto, IInv, TypeOK
<1>6. TypeOK'
  BY DEF IInv, TypeOK, Acquire, Goto, Phases, source, dest, local, stream
<1>7. RunInv(r)'
  BY <1>1, <1>4, <1>5 DEF IInv, RunInv, Early, Streaming, Blank
<1>8. SlotBehind' /\ Exact'
  BY <1>4 DEF IInv, SlotBehind, Exact, Touches
<1>. QED
  BY <1>2, <1>3, <1>4, <1>5, <1>6, <1>7, <1>8, IdleFrame DEF IInv, Sessions, InLog, Streaming

\* A run that has forgotten everything has no memory.
LEMMA Forgotten ==
    ASSUME IInv, NEW r \in Runs, Forget(r)
    PROVE  /\ pc'[r] = "idle" /\ cur'[r] = 0 /\ RunInv(r)'
           /\ \A q \in Runs \ {r} : SameMemory(q)
           /\ UNCHANGED <<wal, slot, using, dest, owner>> => TypeOK'
<1>1. 0 \in LSN
  BY ReplicaAssumption DEF LSN
<1>2. <<>> \in Seq(LSN)
  BY EmptySeq
<1>3. /\ pc'[r] = "idle" /\ cur'[r] = 0 /\ tried'[r] = {} /\ bad'[r] = FALSE
      /\ loading'[r] = {} /\ queue'[r] = <<>> /\ task'[r] = "off"
  BY DEF Forget, Goto, IInv, TypeOK
<1>4. RunInv(r)'
  BY <1>3 DEF RunInv, Early, Streaming, Blank
<1>5. \A q \in Runs \ {r} : SameMemory(q)
  BY DEF Forget, Goto, IInv, TypeOK, SameMemory
<1>6. /\ pc' \in [Runs -> Phases] /\ cur' \in [Runs -> LSN] /\ tried' \in [Runs -> SUBSET Tables]
      /\ bad' \in [Runs -> BOOLEAN] /\ loading' \in [Runs -> SUBSET Tables]
      /\ from' \in [Runs -> LSN] /\ stop' \in [Runs -> LSN] /\ applied' \in [Runs -> LSN]
      /\ task' \in [Runs -> {"on", "failing", "off"}]
  BY <1>1 DEF Forget, Goto, IInv, TypeOK, Phases
<1>7. /\ floors' \in [Runs -> [Tables -> LSN \cup {None}]]
      /\ queue' \in [Runs -> Seq(LSN)] /\ pending' \in [Runs -> Seq(LSN)]
  BY <1>2 DEF Forget, IInv, TypeOK
<1>8. UNCHANGED <<wal, slot, using, dest, owner>> => TypeOK'
  BY <1>6, <1>7 DEF IInv, TypeOK, dest
<1>. QED
  BY <1>3, <1>4, <1>5, <1>8

\* The process dies.
LEMMA CrashStep ==
    ASSUME IInv, NEW r \in Runs, Crash(r)
    PROVE  IInv'
<1>1. Running(r) /\ Forget(r) /\ UNCHANGED <<wal, slot, using, dest, owner>>
  BY DEF Crash, source
<1>2. /\ pc'[r] = "idle" /\ cur'[r] = 0 /\ RunInv(r)' /\ TypeOK'
      /\ \A q \in Runs \ {r} : SameMemory(q)
  BY <1>1, Forgotten
<1>3. SlotBehind' /\ Exact' /\ \A t \in Tables : mark'[t] <= Len(wal)
  BY <1>1 DEF IInv, SlotBehind, Exact, Touches, InLog, dest
<1>4. 0 <= Len(wal)
  BY LenProperties DEF IInv, TypeOK
<1>. QED
  BY <1>1, <1>2, <1>3, <1>4, Frame DEF IInv, Sessions, Streaming, Running

\* The run ends.
LEMMA ReleaseStep ==
    ASSUME IInv, NEW r \in Runs, Release(r)
    PROVE  IInv'
<1>1. /\ Running(r) /\ Forget(r) /\ UNCHANGED <<wal, slot, mark, held, twice>>
      /\ owner' \in {owner, NoRun} /\ using' \in {using, NoRun}
  BY DEF Release, dest, Running
<1>2. /\ pc'[r] = "idle" /\ cur'[r] = 0 /\ RunInv(r)'
      /\ \A q \in Runs \ {r} : SameMemory(q)
  BY <1>1, Forgotten
<1>3. TypeOK'
  <2>1. 0 \in LSN /\ <<>> \in Seq(LSN)
    BY ReplicaAssumption, EmptySeq DEF LSN
  <2>2. /\ pc' \in [Runs -> Phases] /\ cur' \in [Runs -> LSN]
        /\ tried' \in [Runs -> SUBSET Tables]
        /\ bad' \in [Runs -> BOOLEAN] /\ loading' \in [Runs -> SUBSET Tables]
        /\ from' \in [Runs -> LSN] /\ stop' \in [Runs -> LSN] /\ applied' \in [Runs -> LSN]
        /\ task' \in [Runs -> {"on", "failing", "off"}]
    BY <1>1, <2>1 DEF Forget, Goto, IInv, TypeOK, Phases
  <2>3. /\ floors' \in [Runs -> [Tables -> LSN \cup {None}]]
        /\ queue' \in [Runs -> Seq(LSN)] /\ pending' \in [Runs -> Seq(LSN)]
    BY <1>1, <2>1 DEF Forget, IInv, TypeOK
  <2>. QED
    BY <1>1, <2>2, <2>3 DEF IInv, TypeOK
<1>4. SlotBehind' /\ Exact' /\ \A t \in Tables : mark'[t] <= Len(wal)
  BY <1>1 DEF IInv, SlotBehind, Exact, Touches, InLog
<1>5. 0 <= Len(wal)
  BY LenProperties DEF IInv, TypeOK
<1>. QED
  BY <1>1, <1>2, <1>3, <1>4, <1>5, Frame DEF IInv, Sessions, Streaming, Running

\* A run that has died leaves its tenure, or its session.
LEMMA DeadEndsStep ==
    ASSUME IInv, NEW r \in Runs, CollectDead(r) \/ SessionEnds(r)
    PROVE  IInv'
<1>1. /\ UNCHANGED <<wal, slot, mark, held, pc, cur, tried, bad, loading, floors, from, queue,
                     applied, task>>
      /\ pc[r] = "idle"
  BY DEF CollectDead, SessionEnds, source, dest, local, stream, Running
<1>2. TypeOK'
  BY DEF IInv, TypeOK, CollectDead, SessionEnds, source, dest, local, stream
<1>3. Owned'
  BY <1>1 DEF IInv, Owned, Running, CollectDead, SessionEnds
<1>4. Sessions'
  BY <1>1 DEF IInv, Sessions, Streaming, CollectDead, SessionEnds, source
<1>5. InLog' /\ SlotBehind' /\ Exact'
  BY <1>1 DEF IInv, InLog, SlotBehind, Exact, Touches
<1>6. \A q \in Runs : RunInv(q)'
  BY <1>1 DEF IInv, RunInv, Blank, Unmarked, AllMarked, AtLoad, AtFinish, OwnSlot, AtStream,
              Ascending, Members, WindowEnd, Touches
<1>. QED
  BY <1>2, <1>3, <1>4, <1>5, <1>6 DEF IInv

\* The log grows.
LEMMA SourceCommitStep ==
    ASSUME IInv, NEW S \in SUBSET Tables, SourceCommit(S)
    PROVE  IInv'
<1>1. UNCHANGED <<slot, using, mark, held, twice, owner, pc, cur, tried, bad, loading, floors, from,
                  stop, queue, pending, applied, task>>
  BY DEF SourceCommit, dest, local, stream
<1>2. wal' = Append(wal, S) /\ Len(wal) < MaxWal /\ wal \in Seq(SUBSET Tables)
  BY DEF SourceCommit, IInv, TypeOK
<1>3. wal' \in Seq(SUBSET Tables) /\ Len(wal') = Len(wal) + 1 /\ Len(wal) \in Nat
  BY <1>2, AppendProperties, LenProperties
<1>4. Len(wal') <= MaxWal
  BY <1>2, <1>3, ReplicaAssumption
<1>5. TypeOK'
  BY <1>1, <1>3, <1>4 DEF IInv, TypeOK
<1>6. \A t \in Tables, b \in Int : b <= Len(wal) => Touches(t, 0, b)' = Touches(t, 0, b)
  <2>1. \A i \in 1..Len(wal) : wal'[i] = wal[i]
    BY <1>2, AppendProperties
  <2>. QED
    BY <1>3, <2>1 DEF Touches
<1>7. /\ \A t \in Tables : mark[t] <= Len(wal) /\ mark[t] \in Int
      /\ \A q \in Runs : cur[q] <= Len(wal) /\ cur[q] \in Int
  BY ReplicaAssumption, LsnNat DEF IInv, TypeOK, InLog, None
<1>8. Exact'
  BY <1>1, <1>6, <1>7 DEF IInv, Exact
<1>9. InLog'
  BY <1>1, <1>3, <1>7 DEF InLog
<1>10. ASSUME NEW q \in Runs
       PROVE  RunInv(q)'
  <2>1. \A t \in Tables : Touches(t, 0, cur[q])' = Touches(t, 0, cur[q])
    BY <1>1, <1>6, <1>7
  <2>2. AtLoad(q) => AtLoad(q)'
    BY <1>1, <2>1 DEF AtLoad, OwnSlot, Unmarked, IInv, TypeOK
  <2>3. AtFinish(q) => AtFinish(q)'
    BY <1>1, <2>1 DEF AtFinish, OwnSlot
  <2>4. AtStream(q) => AtStream(q)'
    BY <1>1 DEF AtStream, Ascending, Members, WindowEnd
  <2>. QED
    BY <1>1, <2>2, <2>3, <2>4 DEF IInv, RunInv, Blank, Unmarked, AllMarked
<1>11. Owned' /\ Sessions' /\ SlotBehind'
  BY <1>1 DEF IInv, Owned, Running, Sessions, SlotBehind
<1>. QED
  BY <1>5, <1>8, <1>9, <1>10, <1>11 DEF IInv

\* The slot is lost, or the operator clears the group.
LEMMA OutsideStep ==
    ASSUME IInv, Outside
    PROVE  IInv'
<1>1. UNCHANGED <<wal, using, held, twice, owner, pc, cur, tried, bad, loading, floors, from,
                  queue, applied, task>>
  BY DEF Outside, local, stream
<1>2. CASE LoseSlot
  <2>1. slot' = None /\ mark' = mark /\ using = NoRun /\ "lose" \in Faults
    BY <1>2 DEF LoseSlot
  <2>2. TypeOK'
    BY <2>1 DEF Outside, local, stream, IInv, TypeOK
  <2>3. Owned' /\ Sessions' /\ InLog' /\ SlotBehind' /\ Exact'
    BY <1>1, <2>1 DEF IInv, Owned, Running, Sessions, InLog, SlotBehind, Exact, Touches
  <2>4. \A q \in Runs : RunInv(q)'
    BY <1>1, <2>1 DEF IInv, RunInv, Blank, Unmarked, AllMarked, AtLoad, AtFinish, OwnSlot,
                      AtStream, Ascending, Members, WindowEnd, Touches
  <2>. QED
    BY <2>2, <2>3, <2>4 DEF IInv
<1>3. CASE OperatorClears
  <2>1. /\ slot' = slot /\ mark' = [t \in Tables |-> None]
        /\ \A q \in Runs : pc[q] = "idle"
    BY <1>3 DEF OperatorClears, Running
  <2>2. TypeOK'
    BY <2>1 DEF Outside, local, stream, IInv, TypeOK
  <2>3. InLog' /\ SlotBehind' /\ Exact'
    <3>1. None <= Len(wal)
      BY LenProperties DEF IInv, TypeOK, None
    <3>. QED
      BY <1>1, <2>1, <3>1 DEF IInv, InLog, SlotBehind, Exact
  <2>4. Owned' /\ Sessions'
    BY <1>1, <2>1 DEF IInv, Owned, Running, Sessions
  <2>5. \A q \in Runs : RunInv(q)'
    BY <1>1, <2>1 DEF IInv, RunInv, Early, Streaming, Blank
  <2>. QED
    BY <2>2, <2>3, <2>4, <2>5 DEF IInv
<1>. QED
  BY <1>2, <1>3 DEF Outside

-----------------------------------------------------------------------------
(* The invariant is inductive. *)

\* A group that was never run.
LEMMA InitInv ==
    ASSUME Init
    PROVE  IInv
<1>1. 0 \in LSN /\ None \in Int
  BY ReplicaAssumption DEF LSN, None
<1>2. <<>> \in Seq(LSN) /\ wal \in Seq(SUBSET Tables) /\ Len(wal) = 0
  BY EmptySeq DEF Init
<1>3. TypeOK
  BY <1>1, <1>2, ReplicaAssumption DEF Init, TypeOK, Phases
<1>4. Owned /\ Sessions /\ InLog /\ SlotBehind /\ Exact
  BY <1>2 DEF Init, Owned, Running, Sessions, Streaming, InLog, SlotBehind, Exact, None
<1>5. \A r \in Runs : RunInv(r)
  BY DEF Init, RunInv, Early, Streaming, Blank
<1>. QED
  BY <1>3, <1>4, <1>5 DEF IInv

\* A step that changes nothing.
LEMMA StutterInv ==
    ASSUME IInv, UNCHANGED vars
    PROVE  IInv'
BY DEF IInv, vars, TypeOK, Owned, Running, Sessions, InLog, SlotBehind, Exact, Touches, RunInv,
       Blank, Unmarked, AllMarked, AtLoad, AtFinish, OwnSlot, AtStream, Ascending, Members,
       WindowEnd

\* Every step keeps the invariant.
LEMMA NextInv ==
    ASSUME IInv, Sound, [Next]_vars
    PROVE  IInv'
<1>1. ASSUME NEW r \in Runs, Decide(r)
      PROVE  IInv'
  BY <1>1, DecideBootstrapStep, DecideTornStep, DecideDrainStep DEF Decide
<1>2. ASSUME NEW r \in Runs, Bootstrap(r)
      PROVE  IInv'
  <2>1. CASE ProbeSlot(r) \/ DropStale(r) \/ CreateSlot(r)
    BY <2>1, ProbeSlotStep, DropStaleStep, CreateSlotStep
  <2>2. CASE LoadsDone(r) \/ FinishesDone(r) \/ ClearsDone(r)
    BY <2>2, LoadsDoneStep, FinishesDoneStep, ClearsDoneStep
  <2>3. CASE \E ok \in BOOLEAN : DropSlot(r, ok)
    BY <2>3, DropSlotStep
  <2>4. CASE \E t \in Tables : LoadBegin(r, t) \/ LoadLand(r, t) \/ Finish(r, t)
    BY <2>4, LoadBeginStep, LoadLandStep, FinishStep
  <2>5. CASE \E t \in Tables, b \in BOOLEAN :
                LoadFails(r, t, b) \/ FinishFails(r, t, b) \/ ClearMember(r, t, b)
    BY <2>5, LoadFailsStep, FinishFailsStep, ClearMemberStep
  <2>. QED
    BY <1>2, <2>1, <2>2, <2>3, <2>4, <2>5 DEF Bootstrap
<1>3. ASSUME NEW r \in Runs, Drain(r)
      PROVE  IInv'
  <2>1. CASE Reconcile(r) \/ StartReplication(r) \/ DrainStops(r)
    BY <2>1, ReconcileStep, StartReplicationStep, DrainStopsStep
  <2>2. CASE Confirm(r) \/ WaitBroken(r) \/ DrainDone(r) \/ Join(r)
    BY <2>2, ConfirmStep, WaitBrokenStep, DrainDoneStep, JoinStep
  <2>3. CASE \E e \in LSN, more \in BOOLEAN : DrainWindow(r, e, more)
    BY <2>3, DrainWindowStep
  <2>. QED
    BY <1>3, <2>1, <2>2, <2>3 DEF Drain
<1>4. ASSUME NEW r \in Runs, Apply(r)
      PROVE  IInv'
  <2>1. CASE WindowApplied(r) \/ ApplyDies(r) \/ ApplyEnds(r)
    BY <2>1, WindowAppliedStep, ApplyDiesStep, ApplyEndsStep
  <2>2. CASE \E t \in Tables : SkipMember(r, t) \/ ApplyMember(r, t)
    BY <2>2, SkipMemberStep, ApplyMemberStep
  <2>3. CASE \E t \in Tables, landed \in BOOLEAN : ApplyFails(r, t, landed)
    BY <2>3, ApplyFailsStep
  <2>. QED
    BY <1>4, <2>1, <2>2, <2>3 DEF Apply
<1>5. ASSUME NEW r \in Runs,
             Acquire(r) \/ Release(r) \/ Crash(r) \/ CollectDead(r) \/ SessionEnds(r)
      PROVE  IInv'
  BY <1>5, AcquireStep, ReleaseStep, CrashStep, DeadEndsStep
<1>6. ASSUME NEW r \in Runs, Follow(r) \/ KeepaliveReply(r) \/ StreamFails(r)
      PROVE  IInv'
  BY <1>6, FollowStep, KeepaliveReplyStep, StreamFailsStep
<1>7. ASSUME NEW r \in Runs, \E landed \in BOOLEAN : SourceFails(r, landed)
      PROVE  IInv'
  BY <1>7, SourceFailsStep
<1>. QED
  BY <1>1, <1>2, <1>3, <1>4, <1>5, <1>6, <1>7, SourceCommitStep, OutsideStep, StutterInv
     DEF Next, Work

\* Whoever runs is alone and owns the group, the slot is behind every watermark,
\* a watermark is exact, the windows in flight follow each other, and what the
\* watch channel reports is in every member: IInv, in every reachable state, for
\* all sets of runs and members, depths and logs (run.rs run_group to run_overlapped).
THEOREM Inductive == Sound => (Spec => []IInv)
<1>1. ASSUME Sound
      PROVE  Spec => []IInv
  <2>1. Init => IInv
    BY InitInv
  <2>2. IInv /\ [Next]_vars => IInv'
    BY <1>1, NextInv
  <2>. QED
    BY <2>1, <2>2, PTL DEF Spec
<1>. QED
  BY <1>1

-----------------------------------------------------------------------------
(* The group implements Mirror. *)

\* What a reader who trusts the watermarks sees.
Rows == [t \in Tables |-> IF mark[t] = None THEN {} ELSE held[t]]

\* A step that the readers and the source do not see.
LEMMA MirrorStutters ==
    ASSUME UNCHANGED <<wal, slot, mark>>, \A t \in Tables : mark[t] # None => held'[t] = held[t]
    PROVE  UNCHANGED M!mvars
BY DEF M!mvars

\* The slot is dropped or lost.
LEMMA MirrorLoses ==
    ASSUME UNCHANGED <<wal, mark, held>>, slot # None, slot' = None
    PROVE  M!Next
BY DEF M!Next, M!Lose

\* A fresh slot is created while no member is published.
LEMMA MirrorEstablishes ==
    ASSUME UNCHANGED <<wal, mark, held>>, slot = None, slot' = Len(wal), Unmarked
    PROVE  M!Next
BY DEF M!Next, M!Establish, M!Published, Unmarked

\* A confirmation.
LEMMA MirrorReleases ==
    ASSUME IInv, UNCHANGED <<wal, mark, held>>, NEW p \in Int, slot' = Higher(slot, p),
           slot # None, \A t \in Tables : mark[t] # None /\ slot' <= mark[t]
    PROVE  M!Next \/ UNCHANGED M!mvars
<1>1. slot \in Int /\ Len(wal) \in Int
  BY LsnNat, LenProperties DEF IInv, TypeOK
<1>2. CASE slot > p
  <2>1. slot' = slot
    BY <1>2 DEF Higher
  <2>. QED
    BY <2>1, MirrorStutters
<1>3. CASE slot = p
  <2>1. slot' = slot
    BY <1>3 DEF Higher
  <2>. QED
    BY <2>1, MirrorStutters
<1>4. CASE slot < p
  <2>1. slot' = p
    BY <1>1, <1>4 DEF Higher
  <2>2. PICK t \in Tables : TRUE
    BY ReplicaAssumption
  <2>3. p <= mark[t] /\ mark[t] <= Len(wal) /\ mark[t] \in Int
    BY <2>1, LsnNat DEF IInv, InLog, TypeOK
  <2>4. p \in (slot + 1)..Len(wal)
    BY <1>1, <1>4, <2>3
  <2>5. M!Release
    BY <2>1, <2>4 DEF M!Release
  <2>. QED
    BY <2>5 DEF M!Next
<1>. QED
  BY <1>1, <1>2, <1>3, <1>4

\* A member is published, at the prefix it holds.
LEMMA MirrorPublishes ==
    ASSUME IInv, NEW r \in Runs, NEW t \in Tables, pc[r] = "finish", t \notin tried[r],
           UNCHANGED <<wal, slot, held>>, mark' = [mark EXCEPT ![t] = cur[r]]
    PROVE  M!Next
<1>1. AtFinish(r) /\ cur[r] <= Len(wal)
  BY DEF IInv, RunInv, InLog
<1>2. cur[r] \in 0..Len(wal) /\ cur[r] # None /\ cur[r] <= cur[r]
  <2>1. cur[r] \in Nat /\ cur[r] # None /\ Len(wal) \in Nat
    BY LsnNat, LenProperties DEF IInv, TypeOK
  <2>. QED
    BY <1>1, <2>1
<1>3. mark[t] = None /\ held[t] = Touches(t, 0, cur[r]) /\ (slot # None => slot <= cur[r])
  BY <1>1, <1>2 DEF AtFinish, OwnSlot
<1>4. held[t] = {i \in 1..cur[r] : t \in wal[i]}
  BY <1>3 DEF Touches
<1>5. Rows' = [Rows EXCEPT ![t] = {i \in 1..cur[r] : t \in wal[i]}]
  BY <1>2, <1>4 DEF Rows, IInv, TypeOK
<1>6. \E u \in Tables, p \in 0..Len(wal) :
          /\ mark[u] = None /\ (slot # None => slot <= p)
          /\ mark' = [mark EXCEPT ![u] = p]
          /\ Rows' = [Rows EXCEPT ![u] = {i \in 1..p : u \in wal[i]}]
  BY <1>2, <1>3, <1>5, Zenon
<1>. QED
  BY <1>6 DEF M!Next, M!Publish, M!Published, M!Set, M!Prefix, Rows

\* A member takes a window.
LEMMA MirrorAdvances ==
    ASSUME IInv, NEW r \in Runs, NEW t \in Tables, Applying(r, t), WindowEnd(r) > floors[r][t],
           Land(r, t), UNCHANGED <<wal, slot>>
    PROVE  M!Next
<1>1. /\ mark[t] < WindowEnd(r) /\ mark[t] # None
      /\ held' = [held EXCEPT ![t] = Touches(t, 0, WindowEnd(r))]
      /\ mark' = [mark EXCEPT ![t] = WindowEnd(r)]
      /\ WindowEnd(r) <= Len(wal)
  BY Landed
<1>2. WindowEnd(r) \in 0..Len(wal) /\ WindowEnd(r) # None
  <2>1. WindowEnd(r) \in Nat /\ WindowEnd(r) # None /\ Len(wal) \in Nat
    BY LsnNat, LenProperties, Windows DEF IInv, TypeOK, Applying
  <2>. QED
    BY <1>1, <2>1
<1>3. slot # None /\ slot <= mark[t]
  <2>1. using = r /\ r # NoRun
    BY ReplicaAssumption DEF Applying, IInv, RunInv, Sessions
  <2>. QED
    BY <1>1, <2>1 DEF IInv, Sessions, SlotBehind
<1>4. Rows' = [Rows EXCEPT ![t] = {i \in 1..WindowEnd(r) : t \in wal[i]}]
  <2>1. Touches(t, 0, WindowEnd(r)) = {i \in 1..WindowEnd(r) : t \in wal[i]}
    BY DEF Touches
  <2>. QED
    BY <1>1, <1>2, <2>1 DEF Rows, IInv, TypeOK
<1>5. \E u \in Tables, p \in 0..Len(wal) :
          /\ mark[u] # None /\ mark[u] < p /\ slot # None /\ slot <= mark[u]
          /\ mark' = [mark EXCEPT ![u] = p]
          /\ Rows' = [Rows EXCEPT ![u] = {i \in 1..p : u \in wal[i]}]
  BY <1>1, <1>2, <1>3, <1>4, Zenon
<1>. QED
  BY <1>5 DEF M!Next, M!Advance, M!Published, M!Set, M!Prefix, Rows

\* Members are withdrawn.
LEMMA MirrorWithdraws ==
    ASSUME NEW T \in SUBSET Tables, T # {}, UNCHANGED <<wal, slot, held>>,
           mark' = [t \in Tables |-> IF t \in T THEN None ELSE mark[t]]
    PROVE  M!Next
<1>1. Rows' = [t \in Tables |-> IF t \in T THEN {} ELSE Rows[t]]
  BY DEF Rows
<1>. QED
  BY <1>1 DEF M!Next, M!Withdraw, Rows

\* The steps of bootstrap_group.
LEMMA BootstrapMirrors ==
    ASSUME IInv, Sound, NEW r \in Runs, Bootstrap(r)
    PROVE  M!Next \/ UNCHANGED M!mvars
<1>1. CASE \/ ProbeSlot(r) \/ LoadsDone(r) \/ FinishesDone(r) \/ ClearsDone(r)
           \/ \E t \in Tables : LoadBegin(r, t)
  <2>1. UNCHANGED <<wal, slot, mark, held>>
    BY <1>1 DEF ProbeSlot, LoadsDone, FinishesDone, ClearsDone, LoadBegin, source, dest
  <2>. QED
    BY <2>1, MirrorStutters
<1>2. CASE DropStale(r) \/ \E ok \in BOOLEAN : DropSlot(r, ok)
  <2>1. UNCHANGED <<wal, mark, held>> /\ (slot' = slot \/ (slot' = None /\ slot # None))
    BY <1>2 DEF DropStale, DropSlot, dest
  <2>. QED
    BY <2>1, MirrorStutters, MirrorLoses
<1>3. CASE CreateSlot(r)
  <2>1. Unmarked
    BY <1>3 DEF CreateSlot, IInv, RunInv
  <2>2. UNCHANGED <<wal, mark, held>> /\ (slot' = slot \/ (slot' = Len(wal) /\ slot = None))
    BY <1>3 DEF CreateSlot, dest
  <2>. QED
    BY <2>1, <2>2, MirrorStutters, MirrorEstablishes
<1>4. ASSUME NEW t \in Tables, LoadLand(r, t) \/ \E b \in BOOLEAN : LoadFails(r, t, b)
      PROVE  UNCHANGED M!mvars
  <2>1. pc[r] = "load"
    BY <1>4 DEF LoadLand, LoadFails, IInv, RunInv
  <2>2. Unmarked /\ UNCHANGED <<wal, slot>>
    BY <1>4, <2>1 DEF IInv, RunInv, AtLoad, LoadLand, LoadFails, source
  <2>3. Swap(r, t) \/ UNCHANGED dest
    BY <1>4 DEF LoadLand, LoadFails, EmptyKeepsRows
  <2>4. mark' = mark
    BY <2>1, <2>3, Swapped DEF dest
  <2>. QED
    BY <2>2, <2>4, MirrorStutters DEF Unmarked
<1>5. ASSUME NEW t \in Tables, Finish(r, t) \/ \E b \in BOOLEAN : FinishFails(r, t, b)
      PROVE  M!Next \/ UNCHANGED M!mvars
  <2>1. /\ pc[r] = "finish" /\ t \notin tried[r] /\ UNCHANGED <<wal, slot, held>>
        /\ mark' = [mark EXCEPT ![t] = cur[r]] \/ mark' = mark
    BY <1>5 DEF Finish, FinishFails, source
  <2>. QED
    BY <2>1, MirrorStutters, MirrorPublishes
<1>6. ASSUME NEW t \in Tables, NEW b \in BOOLEAN, ClearMember(r, t, b)
      PROVE  M!Next \/ UNCHANGED M!mvars
  <2>1. /\ UNCHANGED <<wal, slot, held>>
        /\ mark' = [mark EXCEPT ![t] = None] \/ mark' = mark
    BY <1>6 DEF ClearMember, source
  <2>2. CASE mark' = [mark EXCEPT ![t] = None]
    <3>1. mark' = [u \in Tables |-> IF u \in {t} THEN None ELSE mark[u]]
      BY <2>2 DEF IInv, TypeOK
    <3>2. {t} \in SUBSET Tables /\ {t} # {}
      OBVIOUS
    <3>. QED
      BY <2>1, <3>1, <3>2, MirrorWithdraws
  <2>. QED
    BY <2>1, <2>2, MirrorStutters
<1>. QED
  BY <1>1, <1>2, <1>3, <1>4, <1>5, <1>6 DEF Bootstrap

\* The steps of drain_group and drain_loop.
LEMMA DrainMirrors ==
    ASSUME IInv, NEW r \in Runs, Drain(r) \/ KeepaliveReply(r)
    PROVE  M!Next \/ UNCHANGED M!mvars
<1>1. CASE \/ Reconcile(r) \/ StartReplication(r) \/ DrainStops(r) \/ WaitBroken(r) \/ DrainDone(r)
           \/ Join(r) \/ \E e \in LSN, more \in BOOLEAN : DrainWindow(r, e, more)
  <2>1. UNCHANGED <<wal, slot, mark, held>>
    BY <1>1 DEF Reconcile, StartReplication, DrainStops, WaitBroken, DrainDone, Join, DrainWindow,
                source, dest
  <2>. QED
    BY <2>1, MirrorStutters
<1>2. ASSUME NEW p \in Int, p <= applied[r], pc[r] \in Streaming, slot' = Higher(slot, p),
             UNCHANGED <<wal, mark, held>>
      PROVE  M!Next \/ UNCHANGED M!mvars
  <2>1. using = r /\ r # NoRun
    BY <1>2, ReplicaAssumption DEF IInv, Sessions
  <2>2. slot # None
    BY <2>1 DEF IInv, Sessions
  <2>3. \A t \in Tables : mark[t] # None /\ slot' <= mark[t]
    BY <1>2, ConfirmedStep
  <2>. QED
    BY <1>2, <2>2, <2>3, MirrorReleases
<1>3. CASE Confirm(r)
  <2>1. /\ pc[r] \in Streaming /\ UNCHANGED <<wal, mark, held>>
        /\ slot' = Higher(slot, Head(pending[r]))
    BY <1>3 DEF Confirm, Confirming, Streaming, dest
  <2>2. Head(pending[r]) \in LSN
    BY <1>3, HeadTailProperties DEF Confirm, Confirming, IInv, TypeOK
  <2>3. Head(pending[r]) \in Int /\ applied[r] \in Int
    BY <2>2, LsnNat DEF IInv, TypeOK
  <2>4. Head(pending[r]) <= applied[r]
    BY <1>3, <2>3 DEF Confirm
  <2>. QED
    BY <1>2, <2>1, <2>3, <2>4
<1>4. CASE KeepaliveReply(r)
  <2>1. pc[r] \in Streaming /\ UNCHANGED <<wal, mark, held>> /\ slot' = Higher(slot, applied[r])
    BY <1>4 DEF KeepaliveReply, Streaming, dest
  <2>2. applied[r] \in Int /\ applied[r] <= applied[r]
    BY LsnNat DEF IInv, TypeOK
  <2>. QED
    BY <1>2, <2>1, <2>2
<1>. QED
  BY <1>1, <1>3, <1>4 DEF Drain

\* The steps of apply_windows.
LEMMA ApplyMirrors ==
    ASSUME IInv, NEW r \in Runs, Apply(r)
    PROVE  M!Next \/ UNCHANGED M!mvars
<1>1. CASE \/ WindowApplied(r) \/ ApplyDies(r) \/ ApplyEnds(r) \/ \E t \in Tables : SkipMember(r, t)
  <2>1. UNCHANGED <<wal, slot, mark, held>>
    BY <1>1 DEF WindowApplied, ApplyDies, ApplyEnds, SkipMember, source, dest
  <2>. QED
    BY <2>1, MirrorStutters
<1>2. ASSUME NEW t \in Tables, ApplyMember(r, t) \/ \E b \in BOOLEAN : ApplyFails(r, t, b)
      PROVE  M!Next \/ UNCHANGED M!mvars
  <2>1. /\ Applying(r, t) /\ WindowEnd(r) > floors[r][t] /\ UNCHANGED <<wal, slot>>
        /\ Land(r, t) \/ UNCHANGED <<mark, held>>
    BY <1>2 DEF ApplyMember, ApplyFails, source, dest
  <2>. QED
    BY <2>1, MirrorStutters, MirrorAdvances
<1>. QED
  BY <1>1, <1>2 DEF Apply

\* The source's commits, a lost slot, the operator.
LEMMA WorldMirrors ==
    ASSUME IInv, Outside \/ \E S \in SUBSET Tables : SourceCommit(S)
    PROVE  M!Next
<1>1. CASE \E S \in SUBSET Tables : SourceCommit(S)
  BY <1>1 DEF SourceCommit, dest, M!Next, M!Commit
<1>2. CASE Outside /\ LoseSlot
  BY <1>2, MirrorLoses DEF Outside, LoseSlot
<1>3. CASE Outside /\ OperatorClears
  <2>1. mark' = [t \in Tables |-> IF t \in Tables THEN None ELSE mark[t]]
    BY <1>3 DEF OperatorClears
  <2>2. UNCHANGED <<wal, slot, held>>
    BY <1>3 DEF Outside, OperatorClears
  <2>. QED
    BY <2>1, <2>2, MirrorWithdraws, ReplicaAssumption
<1>. QED
  BY <1>1, <1>2, <1>3 DEF Outside

\* Every step.
LEMMA StepMirrors ==
    ASSUME IInv, Sound, [Next]_vars
    PROVE  M!Next \/ UNCHANGED M!mvars
<1>1. ASSUME NEW r \in Runs,
             \/ Acquire(r) \/ Decide(r) \/ Release(r) \/ Follow(r) \/ StreamFails(r) \/ Crash(r)
             \/ CollectDead(r) \/ SessionEnds(r)
      PROVE  UNCHANGED M!mvars
  <2>1. UNCHANGED <<wal, slot, mark, held>>
    BY <1>1 DEF Acquire, Decide, DecideBootstrap, DecideTorn, DecideDrain, Release, Follow,
                StreamFails, Crash, CollectDead, SessionEnds, source, dest
  <2>. QED
    BY <2>1, MirrorStutters
<1>2. ASSUME NEW r \in Runs, NEW landed \in BOOLEAN, SourceFails(r, landed)
      PROVE  M!Next \/ UNCHANGED M!mvars
  <2>1. /\ UNCHANGED <<wal, mark, held>>
        /\ \/ slot' = slot
           \/ slot' = None /\ slot # None
           \/ slot' = Len(wal) /\ slot = None /\ pc[r] = "create"
    BY <1>2 DEF SourceFails, dest
  <2>2. pc[r] = "create" => Unmarked
    BY DEF IInv, RunInv
  <2>. QED
    BY <2>1, <2>2, MirrorStutters, MirrorLoses, MirrorEstablishes
<1>3. CASE UNCHANGED vars
  BY <1>3, MirrorStutters DEF vars
<1>. QED
  BY <1>1, <1>2, <1>3, BootstrapMirrors, DrainMirrors, ApplyMirrors, WorldMirrors DEF Next, Work

-----------------------------------------------------------------------------
(* The theorems. *)

\* The group implements Mirror, for every group and every log: each step of a run,
\* of its apply task, of the source and of the operator is one step of the mirror
\* or invisible to it (run.rs run_group, drain_group, apply_member; drain.rs).
THEOREM RefinesMirror == Sound => (Spec => IsMirror)
<1>1. ASSUME Sound
      PROVE  Spec => IsMirror
  <2>1. Init => M!Init
    BY DEF Init, M!Init
  <2>2. IInv /\ [Next]_vars => [M!Next]_(M!mvars)
    BY <1>1, StepMirrors
  <2>3. Spec => []IInv
    BY <1>1, Inductive
  <2>. QED
    BY <2>1, <2>2, <2>3, PTL DEF Spec, IsMirror, M!Spec
<1>. QED
  BY <1>1

\* A watermark is the truth: the table holds every change up to it and none past it,
\* for every group and every log, whatever crashed, failed or was lost on the way
\* (run.rs apply_member, bootstrap_group's hand-off).
THEOREM ExactHolds == Sound => (Spec => []Exact)
<1>1. IInv => Exact
  BY DEF IInv
<1>2. ASSUME Sound
      PROVE  Spec => []Exact
  <2>1. Spec => []IInv
    BY <1>2, Inductive
  <2>. QED
    BY <1>1, <2>1, PTL
<1>. QED
  BY <1>2

\* The slot has not confirmed past any published member: whoever drains next finds
\* the log from its watermark on (run.rs drain_group's reconciliation never has to
\* refuse a group of its own making; drain_loop, wait_for_apply).
THEOREM SlotKeepsLog == Sound => (Spec => []SlotBehind)
<1>1. IInv => SlotBehind
  BY DEF IInv
<1>2. ASSUME Sound
      PROVE  Spec => []SlotBehind
  <2>1. Spec => []IInv
    BY <1>2, Inductive
  <2>. QED
    BY <1>1, <2>1, PTL
<1>. QED
  BY <1>2

\* Only a release moves a slot on, and it stays behind the published members.
LEMMA ReleaseIsApplied ==
    ASSUME IInv, M!Next \/ UNCHANGED M!mvars, NEW t \in Tables,
           slot # None, slot' > slot, slot # slot', mark[t] # None
    PROVE  slot' <= mark[t]
<1>1. slot \in Int /\ ~(None > slot)
  BY ReplicaAssumption DEF IInv, TypeOK, LSN, None
<1>2. M!Release
  BY <1>1 DEF M!Next, M!mvars, M!Commit, M!Establish, M!Publish, M!Advance, M!Withdraw, M!Lose
<1>. QED
  BY <1>2 DEF M!Release, M!Published

\* A confirmation never goes past a member (run.rs drain_loop, wait_for_apply and
\* the keepalive replies of drain.rs), at any depth of the pipeline.
THEOREM ConfirmsAppliedHolds == Sound => (Spec => ConfirmsApplied)
<1>1. ASSUME Sound
      PROVE  Spec => ConfirmsApplied
  <2>1. IInv /\ [Next]_vars =>
            [\A t \in Tables : slot # None /\ slot' > slot /\ slot # slot' /\ mark[t] # None
                                 => slot' <= mark[t]]_vars
    BY <1>1, StepMirrors, ReleaseIsApplied
  <2>2. Spec => []IInv
    BY <1>1, Inductive
  <2>. QED
    BY <2>1, <2>2, PTL DEF Spec, ConfirmsApplied
<1>. QED
  BY <1>1

\* A step by which a run turns to success.
LEMMA Succeeds ==
    ASSUME IInv, [Next]_vars, NEW r \in Runs, pc[r] # "ok", pc'[r] = "ok"
    PROVE  FinishesDone(r) \/ Join(r)
<1>. USE DEF IInv, TypeOK, Goto
<1>1. ASSUME NEW q \in Runs, Acquire(q) \/ Decide(q) \/ Release(q)
      PROVE  FALSE
  BY <1>1 DEF Acquire, Decide, DecideBootstrap, DecideTorn, DecideDrain, Release, Forget
<1>2. ASSUME NEW q \in Runs, Bootstrap(q)
      PROVE  FinishesDone(r)
  <2>1. CASE ProbeSlot(q) \/ DropStale(q) \/ CreateSlot(q) \/ LoadsDone(q) \/ ClearsDone(q)
    BY <2>1 DEF ProbeSlot, DropStale, CreateSlot, LoadsDone, ClearsDone
  <2>2. CASE \E ok \in BOOLEAN : DropSlot(q, ok)
    BY <2>2 DEF DropSlot
  <2>3. CASE \/ \E t \in Tables : LoadBegin(q, t) \/ LoadLand(q, t) \/ Finish(q, t)
             \/ \E t \in Tables, b \in BOOLEAN :
                   LoadFails(q, t, b) \/ FinishFails(q, t, b) \/ ClearMember(q, t, b)
    BY <2>3 DEF LoadBegin, LoadLand, Finish, LoadFails, FinishFails, ClearMember
  <2>4. CASE FinishesDone(q)
    <3>1. q = r
      BY <2>4 DEF FinishesDone
    <3>. QED
      BY <2>4, <3>1
  <2>. QED
    BY <1>2, <2>1, <2>2, <2>3, <2>4 DEF Bootstrap
<1>3. ASSUME NEW q \in Runs, Drain(q)
      PROVE  Join(r)
  <2>1. CASE Reconcile(q) \/ StartReplication(q)
    BY <2>1 DEF Reconcile, StartReplication
  <2>2. CASE DrainStops(q) \/ Confirm(q) \/ WaitBroken(q) \/ DrainDone(q)
    BY <2>2 DEF DrainStops, Confirm, WaitBroken, DrainDone
  <2>3. CASE \E e \in LSN, more \in BOOLEAN : DrainWindow(q, e, more)
    BY <2>3 DEF DrainWindow
  <2>4. CASE Join(q)
    <3>1. q = r
      BY <2>4 DEF Join
    <3>. QED
      BY <2>4, <3>1
  <2>. QED
    BY <1>3, <2>1, <2>2, <2>3, <2>4 DEF Drain
<1>4. ASSUME NEW q \in Runs, Apply(q)
      PROVE  FALSE
  <2>1. pc' = pc
    BY <1>4 DEF Apply, WindowApplied, ApplyDies, ApplyEnds, SkipMember, ApplyMember, ApplyFails
  <2>. QED
    BY <2>1
<1>5. ASSUME NEW q \in Runs,
             \/ Follow(q) \/ KeepaliveReply(q) \/ StreamFails(q) \/ Crash(q)
             \/ CollectDead(q) \/ SessionEnds(q) \/ \E landed \in BOOLEAN : SourceFails(q, landed)
      PROVE  FALSE
  BY <1>5 DEF Follow, KeepaliveReply, StreamFails, Crash, CollectDead, SessionEnds, SourceFails,
              Forget
<1>6. ASSUME Outside \/ UNCHANGED vars \/ \E S \in SUBSET Tables : SourceCommit(S)
      PROVE  FALSE
  BY <1>6 DEF Outside, vars, SourceCommit
<1>. QED
  BY <1>1, <1>2, <1>3, <1>4, <1>5, <1>6 DEF Next, Work

\* What holds when a run turns to success.
LEMMA Durable ==
    ASSUME IInv, "lose" \notin Faults, [Next]_vars, NEW r \in Runs, pc[r] # "ok", pc'[r] = "ok"
    PROVE  /\ \A t \in Tables : mark[t] >= cur[r]
           /\ slot # None /\ \A t \in Tables : slot <= mark[t]
<1>1. \A t \in Tables : mark[t] \in Int /\ cur[r] \in Nat
  BY Positions DEF IInv
<1>2. CASE FinishesDone(r)
  <2>1. AtFinish(r) /\ tried[r] = Tables /\ ~bad[r]
    BY <1>2 DEF FinishesDone, Goto, IInv, TypeOK, RunInv
  <2>2. slot = cur[r] /\ \A t \in Tables : mark[t] = cur[r]
    BY <2>1 DEF AtFinish, OwnSlot
  <2>3. cur[r] # None
    BY LsnNat DEF IInv, TypeOK
  <2>. QED
    BY <1>1, <2>2, <2>3
<1>3. CASE Join(r)
  <2>1. pc[r] = "join" /\ task[r] = "off" /\ ~bad[r]
    BY <1>3 DEF Join, Goto, IInv, TypeOK
  <2>2. AtStream(r) /\ using = r /\ r # NoRun
    BY <2>1, ReplicaAssumption DEF IInv, RunInv, Sessions, Streaming
  <2>3. slot # None
    BY <2>2 DEF IInv, Sessions
  <2>4. \A t \in Tables : mark[t] # None /\ cur[r] <= mark[t]
    BY <2>1, <2>2 DEF AtStream
  <2>. QED
    BY <1>1, <2>3, <2>4 DEF IInv, SlotBehind
<1>. QED
  BY <1>2, <1>3, Succeeds

\* A run that reports success has applied everything it read to every member, and
\* leaves a slot from which the next one goes on (run.rs run_overlapped,
\* bootstrap_group).  That takes a source that does not lose the slot meanwhile.
THEOREM SuccessIsDurableHolds ==
    Sound /\ "lose" \notin Faults => (Spec => SuccessIsDurable)
<1>1. ASSUME Sound, "lose" \notin Faults
      PROVE  Spec => SuccessIsDurable
  <2>1. IInv /\ [Next]_vars =>
            [\A r \in Runs : pc[r] # "ok" /\ pc'[r] = "ok" =>
                /\ \A t \in Tables : mark[t] >= cur[r]
                /\ slot # None /\ \A t \in Tables : slot <= mark[t]]_vars
    BY <1>1, Durable
  <2>2. Spec => []IInv
    BY <1>1, Inductive
  <2>. QED
    BY <2>1, <2>2, PTL DEF Spec, SuccessIsDurable
<1>. QED
  BY <1>1

-----------------------------------------------------------------------------
(* Evictions: what holds although a run outlives its lease, and whatever else fails. *)

\* What a run's memory says of itself, whoever owns the group.
Memory(r) ==
    /\ loading[r] # {} => pc[r] = "load" /\ owner \in {r, NoRun}
    /\ loading[r] \cap tried[r] = {}
    /\ \A t \in Tables : floors[r][t] <= Len(wal)
    /\ pc[r] \in {"reconcile", "connect"} \cup Streaming => \A t \in Tables : floors[r][t] # None
    /\ task[r] # "off" => pc[r] \in Streaming /\ applied[r] <= cur[r] /\ Ascending(r)
    /\ task[r] = "off" => queue[r] = <<>>

\* What it knows of the destination, for as long as the group is its own.
AsOwner(r) ==
    /\ pc[r] \in {"load", "finish"} => \A t \in Tables : held[t] \subseteq 1..cur[r]
    /\ pc[r] \in {"reconcile", "connect"} => floors[r] = mark
    /\ task[r] # "off" => \A t \in Tables :
          /\ mark[t] # None
          /\ \/ mark[t] <= Higher(floors[r][t], applied[r])
             \/ t \in tried[r] /\ queue[r] # <<>> /\ mark[t] <= Higher(floors[r][t], WindowEnd(r))

InHeld == \A t \in Tables : held[t] \subseteq 1..Len(wal)

\* Without Sound: nothing of Owned, Sessions, SlotBehind or Exact.
EInv ==
    /\ TypeOK /\ InLog /\ InHeld /\ NoneAhead
    /\ \A r \in Runs : Memory(r) /\ (owner = r => AsOwner(r))

\* What r reads of its own memory, and other runs do not write.
SameRun(q) ==
    /\ pc'[q] = pc[q] /\ cur'[q] = cur[q] /\ tried'[q] = tried[q] /\ loading'[q] = loading[q]
    /\ floors'[q] = floors[q] /\ queue'[q] = queue[q] /\ applied'[q] = applied[q]
    /\ task'[q] = task[q]

\* What an action of r has to show that leaves the destination and the tenure alone.
LEMMA EvictedQuiet ==
    ASSUME EInv, NEW r \in Runs, UNCHANGED <<wal, mark, held, owner>>,
           \A q \in Runs \ {r} : SameRun(q),
           TypeOK', cur'[r] <= Len(wal), Memory(r)', owner = r => AsOwner(r)'
    PROVE  EInv'
<1>1. ASSUME NEW q \in Runs, q # r
      PROVE  Memory(q)' /\ (owner = q => AsOwner(q)') /\ cur'[q] <= Len(wal)
  <2>1. SameRun(q) /\ Memory(q) /\ (owner = q => AsOwner(q)) /\ cur[q] <= Len(wal)
    BY <1>1 DEF EInv, InLog
  <2>2. Memory(q)'
    BY <2>1 DEF Memory, SameRun, Ascending
  <2>3. owner = q => AsOwner(q)'
    BY <2>1 DEF AsOwner, SameRun, WindowEnd, Higher
  <2>. QED
    BY <2>1, <2>2, <2>3 DEF SameRun
<1>2. InLog' /\ InHeld' /\ NoneAhead'
  BY <1>1 DEF EInv, InLog, InHeld, NoneAhead
<1>. QED
  BY <1>1, <1>2 DEF EInv

\* What an action of r has to show that writes to the destination: no other run owns it.
LEMMA EvictedWrites ==
    ASSUME EInv, NEW r \in Runs, owner \in {r, NoRun}, UNCHANGED <<wal, owner>>,
           \A q \in Runs \ {r} : SameRun(q),
           TypeOK', cur'[r] <= Len(wal), Memory(r)', owner = r => AsOwner(r)',
           InHeld', NoneAhead', \A t \in Tables : mark'[t] <= Len(wal)
    PROVE  EInv'
<1>1. ASSUME NEW q \in Runs, q # r
      PROVE  Memory(q)' /\ owner # q /\ cur'[q] <= Len(wal)
  <2>1. SameRun(q) /\ Memory(q) /\ cur[q] <= Len(wal)
    BY <1>1 DEF EInv, InLog
  <2>2. Memory(q)'
    BY <2>1 DEF Memory, SameRun, Ascending
  <2>. QED
    BY <1>1, <2>1, <2>2, ReplicaAssumption DEF SameRun
<1>2. InLog'
  BY <1>1 DEF InLog
<1>. QED
  BY <1>1, <1>2 DEF EInv

\* No member is published.
LEMMA EvictedDecideBootstrap ==
    ASSUME EInv, NEW r \in Runs, DecideBootstrap(r)
    PROVE  EInv'
<1>1. UNCHANGED <<wal, mark, held, owner>> /\ cur'[r] = cur[r] /\ cur[r] <= Len(wal)
  BY DEF InLog, EInv, TypeOK, DecideBootstrap, Goto, source, dest, local, stream
<1>2. \A q \in Runs \ {r} : SameRun(q)
  BY DEF EInv, TypeOK, DecideBootstrap, Goto, source, dest, local, stream, SameRun
<1>3. TypeOK'
  BY EmptySeq, ReplicaAssumption DEF EInv, TypeOK, DecideBootstrap, Goto, source, dest, local,
     stream, Settle, Phases, Higher
<1>4. Memory(r)'
  BY DEF EInv, TypeOK, DecideBootstrap, Goto, source, dest, local, stream, Memory, Streaming,
     Ascending
<1>5. owner = r => AsOwner(r)'
  BY DEF EInv, TypeOK, DecideBootstrap, Goto, source, dest, local, stream, Memory, AsOwner,
     Streaming, WindowEnd, Higher
<1>. QED
  BY <1>1, <1>2, <1>3, <1>4, <1>5, EvictedQuiet

\* A torn group is refused.
LEMMA EvictedDecideTorn ==
    ASSUME EInv, NEW r \in Runs, DecideTorn(r)
    PROVE  EInv'
<1>1. UNCHANGED <<wal, mark, held, owner>> /\ cur'[r] = cur[r] /\ cur[r] <= Len(wal)
  BY DEF InLog, EInv, TypeOK, DecideTorn, Goto, source, dest, local, stream
<1>2. \A q \in Runs \ {r} : SameRun(q)
  BY DEF EInv, TypeOK, DecideTorn, Goto, source, dest, local, stream, SameRun
<1>3. TypeOK'
  BY EmptySeq, ReplicaAssumption DEF EInv, TypeOK, DecideTorn, Goto, source, dest, local, stream,
     Settle, Phases, Higher
<1>4. Memory(r)'
  BY DEF EInv, TypeOK, DecideTorn, Goto, source, dest, local, stream, Memory, Streaming, Ascending
<1>5. owner = r => AsOwner(r)'
  BY DEF EInv, TypeOK, DecideTorn, Goto, source, dest, local, stream, Memory, AsOwner, Streaming,
     WindowEnd, Higher
<1>. QED
  BY <1>1, <1>2, <1>3, <1>4, <1>5, EvictedQuiet

\* The floors are the watermarks.
LEMMA EvictedDecideDrain ==
    ASSUME EInv, NEW r \in Runs, DecideDrain(r)
    PROVE  EInv'
<1>1. UNCHANGED <<wal, mark, held, owner>> /\ cur'[r] = cur[r] /\ cur[r] <= Len(wal)
  BY DEF InLog, EInv, TypeOK, DecideDrain, Goto, source, dest, local, stream
<1>2. \A q \in Runs \ {r} : SameRun(q)
  BY DEF EInv, TypeOK, DecideDrain, Goto, source, dest, local, stream, SameRun
<1>3. TypeOK'
  BY EmptySeq, ReplicaAssumption DEF EInv, TypeOK, DecideDrain, Goto, source, dest, local, stream,
     Settle, Phases, Higher
<1>4. Memory(r)'
  BY DEF EInv, TypeOK, DecideDrain, Goto, source, dest, local, stream, Memory, Streaming,
     Ascending, InLog
<1>5. owner = r => AsOwner(r)'
  BY DEF EInv, TypeOK, DecideDrain, Goto, source, dest, local, stream, Memory, AsOwner, Streaming,
     WindowEnd, Higher
<1>. QED
  BY <1>1, <1>2, <1>3, <1>4, <1>5, EvictedQuiet

\* A slot without state is looked at.
LEMMA EvictedProbeSlot ==
    ASSUME EInv, NEW r \in Runs, ProbeSlot(r)
    PROVE  EInv'
<1>1. UNCHANGED <<wal, mark, held, owner>> /\ cur'[r] = cur[r] /\ cur[r] <= Len(wal)
  BY DEF InLog, EInv, TypeOK, ProbeSlot, Goto, source, dest, local, stream
<1>2. \A q \in Runs \ {r} : SameRun(q)
  BY DEF EInv, TypeOK, ProbeSlot, Goto, source, dest, local, stream, SameRun
<1>3. TypeOK'
  BY EmptySeq, ReplicaAssumption DEF EInv, TypeOK, ProbeSlot, Goto, source, dest, local, stream,
     Settle, Phases, Higher
<1>4. Memory(r)'
  BY DEF EInv, TypeOK, ProbeSlot, Goto, source, dest, local, stream, Memory, Streaming, Ascending
<1>5. owner = r => AsOwner(r)'
  BY DEF EInv, TypeOK, ProbeSlot, Goto, source, dest, local, stream, Memory, AsOwner, Streaming,
     WindowEnd, Higher
<1>. QED
  BY <1>1, <1>2, <1>3, <1>4, <1>5, EvictedQuiet

\* A leftover slot goes.
LEMMA EvictedDropStale ==
    ASSUME EInv, NEW r \in Runs, DropStale(r)
    PROVE  EInv'
<1>1. UNCHANGED <<wal, mark, held, owner>> /\ cur'[r] = cur[r] /\ cur[r] <= Len(wal)
  BY DEF InLog, EInv, TypeOK, DropStale, Goto, source, dest, local, stream
<1>2. \A q \in Runs \ {r} : SameRun(q)
  BY DEF EInv, TypeOK, DropStale, Goto, source, dest, local, stream, SameRun
<1>3. TypeOK'
  BY EmptySeq, ReplicaAssumption DEF EInv, TypeOK, DropStale, Goto, source, dest, local, stream,
     Settle, Phases, Higher
<1>4. Memory(r)'
  BY DEF EInv, TypeOK, DropStale, Goto, source, dest, local, stream, Memory, Streaming, Ascending
<1>5. owner = r => AsOwner(r)'
  BY DEF EInv, TypeOK, DropStale, Goto, source, dest, local, stream, Memory, AsOwner, Streaming,
     WindowEnd, Higher
<1>. QED
  BY <1>1, <1>2, <1>3, <1>4, <1>5, EvictedQuiet

\* A load announces itself.
LEMMA EvictedLoadBegin ==
    ASSUME EInv, NEW r \in Runs, NEW t \in Tables, LoadBegin(r, t)
    PROVE  EInv'
<1>1. UNCHANGED <<wal, mark, held, owner>> /\ cur'[r] = cur[r] /\ cur[r] <= Len(wal)
  BY DEF InLog, EInv, TypeOK, LoadBegin, Goto, source, dest, local, stream
<1>2. \A q \in Runs \ {r} : SameRun(q)
  BY DEF EInv, TypeOK, LoadBegin, Goto, source, dest, local, stream, SameRun
<1>3. TypeOK'
  BY EmptySeq, ReplicaAssumption DEF EInv, TypeOK, LoadBegin, Goto, source, dest, local, stream,
     Settle, Phases, Higher
<1>4. Memory(r)'
  BY DEF EInv, TypeOK, LoadBegin, Goto, source, dest, local, stream, Memory, Streaming, Ascending
<1>5. owner = r => AsOwner(r)'
  BY DEF EInv, TypeOK, LoadBegin, Goto, source, dest, local, stream, Memory, AsOwner, Streaming,
     WindowEnd, Higher
<1>. QED
  BY <1>1, <1>2, <1>3, <1>4, <1>5, EvictedQuiet

\* All loads are awaited.
LEMMA EvictedLoadsDone ==
    ASSUME EInv, NEW r \in Runs, LoadsDone(r)
    PROVE  EInv'
<1>1. UNCHANGED <<wal, mark, held, owner>> /\ cur'[r] = cur[r] /\ cur[r] <= Len(wal)
  BY DEF InLog, EInv, TypeOK, LoadsDone, Goto, source, dest, local, stream
<1>2. \A q \in Runs \ {r} : SameRun(q)
  BY DEF EInv, TypeOK, LoadsDone, Goto, source, dest, local, stream, SameRun
<1>3. TypeOK'
  BY EmptySeq, ReplicaAssumption DEF EInv, TypeOK, LoadsDone, Goto, source, dest, local, stream,
     Settle, Phases, Higher
<1>4. Memory(r)'
  BY DEF EInv, TypeOK, LoadsDone, Goto, source, dest, local, stream, Memory, Streaming, Ascending
<1>5. owner = r => AsOwner(r)'
  BY DEF EInv, TypeOK, LoadsDone, Goto, source, dest, local, stream, Memory, AsOwner, Streaming,
     WindowEnd, Higher
<1>. QED
  BY <1>1, <1>2, <1>3, <1>4, <1>5, EvictedQuiet

\* All watermarks are tried.
LEMMA EvictedFinishesDone ==
    ASSUME EInv, NEW r \in Runs, FinishesDone(r)
    PROVE  EInv'
<1>1. UNCHANGED <<wal, mark, held, owner>> /\ cur'[r] = cur[r] /\ cur[r] <= Len(wal)
  BY DEF InLog, EInv, TypeOK, FinishesDone, Goto, source, dest, local, stream
<1>2. \A q \in Runs \ {r} : SameRun(q)
  BY DEF EInv, TypeOK, FinishesDone, Goto, source, dest, local, stream, SameRun
<1>3. TypeOK'
  BY EmptySeq, ReplicaAssumption DEF EInv, TypeOK, FinishesDone, Goto, source, dest, local,
     stream, Settle, Phases, Higher
<1>4. Memory(r)'
  BY DEF EInv, TypeOK, FinishesDone, Goto, source, dest, local, stream, Memory, Streaming,
     Ascending
<1>5. owner = r => AsOwner(r)'
  BY DEF EInv, TypeOK, FinishesDone, Goto, source, dest, local, stream, Memory, AsOwner,
     Streaming, WindowEnd, Higher
<1>. QED
  BY <1>1, <1>2, <1>3, <1>4, <1>5, EvictedQuiet

\* All watermarks are cleared, or were tried.
LEMMA EvictedClearsDone ==
    ASSUME EInv, NEW r \in Runs, ClearsDone(r)
    PROVE  EInv'
<1>1. UNCHANGED <<wal, mark, held, owner>> /\ cur'[r] = cur[r] /\ cur[r] <= Len(wal)
  BY DEF InLog, EInv, TypeOK, ClearsDone, Goto, source, dest, local, stream
<1>2. \A q \in Runs \ {r} : SameRun(q)
  BY DEF EInv, TypeOK, ClearsDone, Goto, source, dest, local, stream, SameRun
<1>3. TypeOK'
  BY EmptySeq, ReplicaAssumption DEF EInv, TypeOK, ClearsDone, Goto, source, dest, local, stream,
     Settle, Phases, Higher
<1>4. Memory(r)'
  BY DEF EInv, TypeOK, ClearsDone, Goto, source, dest, local, stream, Memory, Streaming, Ascending
<1>5. owner = r => AsOwner(r)'
  BY DEF EInv, TypeOK, ClearsDone, Goto, source, dest, local, stream, Memory, AsOwner, Streaming,
     WindowEnd, Higher
<1>. QED
  BY <1>1, <1>2, <1>3, <1>4, <1>5, EvictedQuiet

\* The slot goes, or stays.
LEMMA EvictedDropSlot ==
    ASSUME EInv, NEW r \in Runs, NEW ok \in BOOLEAN, DropSlot(r, ok)
    PROVE  EInv'
<1>1. UNCHANGED <<wal, mark, held, owner>> /\ cur'[r] = cur[r] /\ cur[r] <= Len(wal)
  BY DEF InLog, EInv, TypeOK, DropSlot, Goto, source, dest, local, stream
<1>2. \A q \in Runs \ {r} : SameRun(q)
  BY DEF EInv, TypeOK, DropSlot, Goto, source, dest, local, stream, SameRun
<1>3. TypeOK'
  BY EmptySeq, ReplicaAssumption DEF EInv, TypeOK, DropSlot, Goto, source, dest, local, stream,
     Settle, Phases, Higher
<1>4. Memory(r)'
  BY DEF EInv, TypeOK, DropSlot, Goto, source, dest, local, stream, Memory, Streaming, Ascending
<1>5. owner = r => AsOwner(r)'
  BY DEF EInv, TypeOK, DropSlot, Goto, source, dest, local, stream, Memory, AsOwner, Streaming,
     WindowEnd, Higher
<1>. QED
  BY <1>1, <1>2, <1>3, <1>4, <1>5, EvictedQuiet

\* A statement on the source fails.
LEMMA EvictedSourceFails ==
    ASSUME EInv, NEW r \in Runs, NEW landed \in BOOLEAN, SourceFails(r, landed)
    PROVE  EInv'
<1>1. UNCHANGED <<wal, mark, held, owner>> /\ cur'[r] = cur[r] /\ cur[r] <= Len(wal)
  BY DEF InLog, EInv, TypeOK, SourceFails, Goto, source, dest, local, stream
<1>2. \A q \in Runs \ {r} : SameRun(q)
  BY DEF EInv, TypeOK, SourceFails, Goto, source, dest, local, stream, SameRun
<1>3. TypeOK'
  <2>1. Len(wal) \in LSN
    BY Positions, ReplicaAssumption, LenProperties DEF EInv, TypeOK, LSN
  <2>. QED
    BY <2>1 DEF SourceFails, Goto, Phases, EInv, TypeOK, dest, local, stream
<1>4. Memory(r)'
  BY DEF EInv, TypeOK, SourceFails, Goto, source, dest, local, stream, Memory, Streaming,
     Ascending
<1>5. owner = r => AsOwner(r)'
  BY DEF EInv, TypeOK, SourceFails, Goto, source, dest, local, stream, Memory, AsOwner, Streaming,
     WindowEnd, Higher
<1>. QED
  BY <1>1, <1>2, <1>3, <1>4, <1>5, EvictedQuiet

\* The loop ends.
LEMMA EvictedDrainStops ==
    ASSUME EInv, NEW r \in Runs, DrainStops(r)
    PROVE  EInv'
<1>1. UNCHANGED <<wal, mark, held, owner>> /\ cur'[r] = cur[r] /\ cur[r] <= Len(wal)
  BY DEF InLog, EInv, TypeOK, DrainStops, Goto, source, dest, local, stream
<1>2. \A q \in Runs \ {r} : SameRun(q)
  BY DEF EInv, TypeOK, DrainStops, Goto, source, dest, local, stream, SameRun
<1>3. TypeOK'
  BY EmptySeq, ReplicaAssumption DEF EInv, TypeOK, DrainStops, Goto, source, dest, local, stream,
     Settle, Phases, Higher
<1>4. Memory(r)'
  BY DEF EInv, TypeOK, DrainStops, Goto, source, dest, local, stream, Memory, Streaming, Ascending
<1>5. owner = r => AsOwner(r)'
  BY DEF EInv, TypeOK, DrainStops, Goto, source, dest, local, stream, Memory, AsOwner, Streaming,
     WindowEnd, Higher
<1>. QED
  BY <1>1, <1>2, <1>3, <1>4, <1>5, EvictedQuiet

\* Nothing is left to confirm.
LEMMA EvictedDrainDone ==
    ASSUME EInv, NEW r \in Runs, DrainDone(r)
    PROVE  EInv'
<1>1. UNCHANGED <<wal, mark, held, owner>> /\ cur'[r] = cur[r] /\ cur[r] <= Len(wal)
  BY DEF InLog, EInv, TypeOK, DrainDone, Goto, source, dest, local, stream
<1>2. \A q \in Runs \ {r} : SameRun(q)
  BY DEF EInv, TypeOK, DrainDone, Goto, source, dest, local, stream, SameRun
<1>3. TypeOK'
  BY EmptySeq, ReplicaAssumption DEF EInv, TypeOK, DrainDone, Goto, source, dest, local, stream,
     Settle, Phases, Higher
<1>4. Memory(r)'
  BY DEF EInv, TypeOK, DrainDone, Goto, source, dest, local, stream, Memory, Streaming, Ascending
<1>5. owner = r => AsOwner(r)'
  BY DEF EInv, TypeOK, DrainDone, Goto, source, dest, local, stream, Memory, AsOwner, Streaming,
     WindowEnd, Higher
<1>. QED
  BY <1>1, <1>2, <1>3, <1>4, <1>5, EvictedQuiet

\* Nothing is confirmed.
LEMMA EvictedWaitBroken ==
    ASSUME EInv, NEW r \in Runs, WaitBroken(r)
    PROVE  EInv'
<1>1. UNCHANGED <<wal, mark, held, owner>> /\ cur'[r] = cur[r] /\ cur[r] <= Len(wal)
  BY DEF InLog, EInv, TypeOK, WaitBroken, Confirming, Goto, source, dest, local, stream
<1>2. \A q \in Runs \ {r} : SameRun(q)
  BY DEF EInv, TypeOK, WaitBroken, Confirming, Goto, source, dest, local, stream, SameRun
<1>3. TypeOK'
  <2>1. pending[r] # <<>> /\ pending[r] \in Seq(LSN)
    BY DEF WaitBroken, Confirming, EInv, TypeOK
  <2>2. Tail(pending[r]) \in Seq(LSN)
    BY <2>1, HeadTailProperties
  <2>. QED
    BY <2>2 DEF WaitBroken, Goto, Phases, EInv, TypeOK, source, dest, local
<1>4. Memory(r)'
  BY DEF EInv, TypeOK, WaitBroken, Confirming, Goto, source, dest, local, stream, Memory,
     Streaming, Ascending
<1>5. owner = r => AsOwner(r)'
  BY DEF EInv, TypeOK, WaitBroken, Confirming, Goto, source, dest, local, stream, Memory, AsOwner,
     Streaming, WindowEnd, Higher
<1>. QED
  BY <1>1, <1>2, <1>3, <1>4, <1>5, EvictedQuiet

\* The slot moves on, whoever owns the group.
LEMMA EvictedKeepaliveReply ==
    ASSUME EInv, NEW r \in Runs, KeepaliveReply(r)
    PROVE  EInv'
<1>1. UNCHANGED <<wal, mark, held, owner>> /\ cur'[r] = cur[r] /\ cur[r] <= Len(wal)
  BY DEF InLog, EInv, TypeOK, KeepaliveReply, Goto, source, dest, local, stream
<1>2. \A q \in Runs \ {r} : SameRun(q)
  BY DEF EInv, TypeOK, KeepaliveReply, Goto, source, dest, local, stream, SameRun
<1>3. TypeOK'
  BY EmptySeq, ReplicaAssumption DEF EInv, TypeOK, KeepaliveReply, Goto, source, dest, local,
     stream, Settle, Phases, Higher
<1>4. Memory(r)'
  BY DEF EInv, TypeOK, KeepaliveReply, Goto, source, dest, local, stream, Memory, Streaming,
     Ascending
<1>5. owner = r => AsOwner(r)'
  BY DEF EInv, TypeOK, KeepaliveReply, Goto, source, dest, local, stream, Memory, AsOwner,
     Streaming, WindowEnd, Higher
<1>. QED
  BY <1>1, <1>2, <1>3, <1>4, <1>5, EvictedQuiet

\* So it does when a window is confirmed.
LEMMA EvictedConfirm ==
    ASSUME EInv, NEW r \in Runs, Confirm(r)
    PROVE  EInv'
<1>1. UNCHANGED <<wal, mark, held, owner>> /\ cur'[r] = cur[r] /\ cur[r] <= Len(wal)
  BY DEF InLog, EInv, TypeOK, Confirm, Confirming, Goto, source, dest, local, stream
<1>2. \A q \in Runs \ {r} : SameRun(q)
  BY DEF EInv, TypeOK, Confirm, Confirming, Goto, source, dest, local, stream, SameRun
<1>3. TypeOK'
  <2>1. pending[r] # <<>> /\ pending[r] \in Seq(LSN)
    BY DEF Confirm, Confirming, EInv, TypeOK
  <2>2. Tail(pending[r]) \in Seq(LSN) /\ Head(pending[r]) \in LSN
    BY <2>1, HeadTailProperties
  <2>3. slot' \in LSN \cup {None}
    BY <2>2 DEF Confirm, Higher, EInv, TypeOK
  <2>. QED
    BY <2>2, <2>3 DEF Confirm, EInv, TypeOK, dest, local
<1>4. Memory(r)'
  BY DEF EInv, TypeOK, Confirm, Confirming, Goto, source, dest, local, stream, Memory, Streaming,
     Ascending
<1>5. owner = r => AsOwner(r)'
  BY DEF EInv, TypeOK, Confirm, Confirming, Goto, source, dest, local, stream, Memory, AsOwner,
     Streaming, WindowEnd, Higher
<1>. QED
  BY <1>1, <1>2, <1>3, <1>4, <1>5, EvictedQuiet

\* The stream fails.
LEMMA EvictedStreamFails ==
    ASSUME EInv, NEW r \in Runs, StreamFails(r)
    PROVE  EInv'
<1>1. UNCHANGED <<wal, mark, held, owner>> /\ cur'[r] = cur[r] /\ cur[r] <= Len(wal)
  BY DEF InLog, EInv, TypeOK, StreamFails, Goto, source, dest, local, stream
<1>2. \A q \in Runs \ {r} : SameRun(q)
  BY DEF EInv, TypeOK, StreamFails, Goto, source, dest, local, stream, SameRun
<1>3. TypeOK'
  BY EmptySeq, ReplicaAssumption DEF EInv, TypeOK, StreamFails, Goto, source, dest, local, stream,
     Settle, Phases, Higher
<1>4. Memory(r)'
  BY DEF EInv, TypeOK, StreamFails, Goto, source, dest, local, stream, Memory, Streaming,
     Ascending
<1>5. owner = r => AsOwner(r)'
  BY DEF EInv, TypeOK, StreamFails, Goto, source, dest, local, stream, Memory, AsOwner, Streaming,
     WindowEnd, Higher
<1>. QED
  BY <1>1, <1>2, <1>3, <1>4, <1>5, EvictedQuiet

\* The task is joined.
LEMMA EvictedJoin ==
    ASSUME EInv, NEW r \in Runs, Join(r)
    PROVE  EInv'
<1>1. UNCHANGED <<wal, mark, held, owner>> /\ cur'[r] = cur[r] /\ cur[r] <= Len(wal)
  BY DEF InLog, EInv, TypeOK, Join, Goto, source, dest, local, stream
<1>2. \A q \in Runs \ {r} : SameRun(q)
  BY DEF EInv, TypeOK, Join, Goto, source, dest, local, stream, SameRun
<1>3. TypeOK'
  BY EmptySeq, ReplicaAssumption DEF EInv, TypeOK, Join, Goto, source, dest, local, stream,
     Settle, Phases, Higher
<1>4. Memory(r)'
  BY DEF EInv, TypeOK, Join, Goto, source, dest, local, stream, Memory, Streaming, Ascending
<1>5. owner = r => AsOwner(r)'
  BY DEF EInv, TypeOK, Join, Goto, source, dest, local, stream, Memory, AsOwner, Streaming,
     WindowEnd, Higher
<1>. QED
  BY <1>1, <1>2, <1>3, <1>4, <1>5, EvictedQuiet

\* A member that is ahead is skipped.
LEMMA EvictedSkipMember ==
    ASSUME EInv, NEW r \in Runs, NEW t \in Tables, SkipMember(r, t)
    PROVE  EInv'
<1>1. UNCHANGED <<wal, mark, held, owner>> /\ cur'[r] = cur[r] /\ cur[r] <= Len(wal)
  BY DEF InLog, EInv, TypeOK, SkipMember, Applying, Goto, source, dest, local, stream
<1>2. \A q \in Runs \ {r} : SameRun(q)
  BY DEF EInv, TypeOK, SkipMember, Applying, Goto, source, dest, local, stream, SameRun
<1>3. TypeOK'
  BY EmptySeq, ReplicaAssumption DEF EInv, TypeOK, SkipMember, Applying, Goto, source, dest,
     local, stream, Settle, Phases, Higher
<1>4. Memory(r)'
  BY DEF EInv, TypeOK, SkipMember, Applying, Goto, source, dest, local, stream, Memory, Streaming,
     Ascending
<1>5. owner = r => AsOwner(r)'
  BY DEF EInv, TypeOK, SkipMember, Applying, Goto, source, dest, local, stream, Memory, AsOwner,
     Streaming, WindowEnd, Higher
<1>. QED
  BY <1>1, <1>2, <1>3, <1>4, <1>5, EvictedQuiet

\* The windows of a failed task are gone.
LEMMA EvictedApplyDies ==
    ASSUME EInv, NEW r \in Runs, ApplyDies(r)
    PROVE  EInv'
<1>1. UNCHANGED <<wal, mark, held, owner>> /\ cur'[r] = cur[r] /\ cur[r] <= Len(wal)
  BY DEF InLog, EInv, TypeOK, ApplyDies, Goto, source, dest, local, stream
<1>2. \A q \in Runs \ {r} : SameRun(q)
  BY DEF EInv, TypeOK, ApplyDies, Goto, source, dest, local, stream, SameRun
<1>3. TypeOK'
  BY EmptySeq, ReplicaAssumption DEF EInv, TypeOK, ApplyDies, Goto, source, dest, local, stream,
     Settle, Phases, Higher
<1>4. Memory(r)'
  BY DEF EInv, TypeOK, ApplyDies, Goto, source, dest, local, stream, Memory, Streaming, Ascending
<1>5. owner = r => AsOwner(r)'
  BY DEF EInv, TypeOK, ApplyDies, Goto, source, dest, local, stream, Memory, AsOwner, Streaming,
     WindowEnd, Higher
<1>. QED
  BY <1>1, <1>2, <1>3, <1>4, <1>5, EvictedQuiet

\* The task ends.
LEMMA EvictedApplyEnds ==
    ASSUME EInv, NEW r \in Runs, ApplyEnds(r)
    PROVE  EInv'
<1>1. UNCHANGED <<wal, mark, held, owner>> /\ cur'[r] = cur[r] /\ cur[r] <= Len(wal)
  BY DEF InLog, EInv, TypeOK, ApplyEnds, Goto, source, dest, local, stream
<1>2. \A q \in Runs \ {r} : SameRun(q)
  BY DEF EInv, TypeOK, ApplyEnds, Goto, source, dest, local, stream, SameRun
<1>3. TypeOK'
  BY EmptySeq, ReplicaAssumption DEF EInv, TypeOK, ApplyEnds, Goto, source, dest, local, stream,
     Settle, Phases, Higher
<1>4. Memory(r)'
  BY DEF EInv, TypeOK, ApplyEnds, Goto, source, dest, local, stream, Memory, Streaming, Ascending
<1>5. owner = r => AsOwner(r)'
  BY DEF EInv, TypeOK, ApplyEnds, Goto, source, dest, local, stream, Memory, AsOwner, Streaming,
     WindowEnd, Higher
<1>. QED
  BY <1>1, <1>2, <1>3, <1>4, <1>5, EvictedQuiet

\* The snapshot is of the whole log, so nothing in a table is past it.
LEMMA EvictedCreateSlot ==
    ASSUME EInv, NEW r \in Runs, CreateSlot(r)
    PROVE  EInv'
<1>1. UNCHANGED <<wal, mark, held, owner, loading, tried, floors, queue, applied, task>>
  BY DEF CreateSlot, dest, stream
<1>2. Len(wal) \in LSN /\ Len(wal) \in Int
  BY LenProperties, ReplicaAssumption DEF EInv, TypeOK, LSN
<1>3. pc[r] = "create" /\ cur[r] <= Len(wal) /\ task[r] = "off"
  BY DEF CreateSlot, EInv, InLog, Memory, Streaming, TypeOK
<1>4. \A q \in Runs \ {r} : SameRun(q)
  BY DEF EInv, TypeOK, CreateSlot, Goto, SameRun, stream
<1>5. CASE slot = None
  <2>1. cur'[r] = Len(wal) /\ pc'[r] = "load"
    BY <1>5 DEF CreateSlot, Goto, EInv, TypeOK
  <2>2. TypeOK'
    <3>1. /\ slot' = Len(wal) /\ cur' = [cur EXCEPT ![r] = Len(wal)]
          /\ pc' = [pc EXCEPT ![r] = "load"]
      BY <1>5 DEF CreateSlot, Goto
    <3>. QED
      BY <1>2, <3>1 DEF CreateSlot, EInv, TypeOK, Phases, dest, stream
  <2>3. Memory(r)'
    BY <1>1, <1>3, <2>1 DEF EInv, Memory, Streaming
  <2>4. AsOwner(r)'
    BY <1>1, <1>3, <2>1 DEF EInv, AsOwner, InHeld
  <2>. QED
    BY <1>1, <1>2, <1>4, <2>1, <2>2, <2>3, <2>4, EvictedQuiet
<1>6. CASE slot # None
  <2>1. cur' = cur /\ pc'[r] = "err"
    BY <1>6 DEF CreateSlot, Goto, EInv, TypeOK
  <2>2. TypeOK'
    BY <1>6 DEF CreateSlot, Goto, EInv, TypeOK, Phases, dest, stream
  <2>3. Memory(r)' /\ AsOwner(r)'
    BY <1>1, <1>3, <2>1 DEF EInv, Memory, AsOwner, Streaming
  <2>. QED
    BY <1>1, <1>3, <1>4, <2>1, <2>2, <2>3, EvictedQuiet
<1>. QED
  BY <1>5, <1>6

\* The stop line is drawn.
LEMMA EvictedReconcile ==
    ASSUME EInv, NEW r \in Runs, Reconcile(r)
    PROVE  EInv'
<1>1. UNCHANGED <<wal, mark, held, owner, cur, loading, tried, floors, queue, applied, task>>
  BY DEF Reconcile, source, dest, local
<1>2. /\ pc[r] = "reconcile" /\ cur[r] <= Len(wal) /\ task[r] = "off"
      /\ \A t \in Tables : floors[r][t] # None
  BY DEF Reconcile, EInv, InLog, Memory, Streaming, TypeOK
<1>3. \A q \in Runs \ {r} : SameRun(q)
  BY <1>1 DEF EInv, TypeOK, Reconcile, Goto, SameRun
<1>4. pc' = [pc EXCEPT ![r] = "err"] \/ pc' = [pc EXCEPT ![r] = "connect"]
  BY DEF Reconcile, Goto
<1>5. TypeOK'
  <2>1. Min(Ahead(r) \cup {Len(wal)}) \in LSN
    BY <1>2, LowestFloor DEF EInv
  <2>2. stop' \in [Runs -> LSN]
    BY <2>1 DEF EInv, TypeOK, Reconcile
  <2>3. pc' \in [Runs -> Phases]
    BY <1>4 DEF EInv, TypeOK, Phases
  <2>. QED
    BY <2>2, <2>3 DEF EInv, TypeOK, Reconcile, source, dest, local
<1>6. pc'[r] \in {"err", "connect"}
  BY <1>4 DEF EInv, TypeOK
<1>7. Memory(r)' /\ (owner = r => AsOwner(r)')
  BY <1>1, <1>2, <1>6 DEF EInv, Memory, AsOwner, Streaming
<1>. QED
  BY <1>1, <1>2, <1>3, <1>5, <1>7, EvictedQuiet

\* The stream starts at the lowest floor; an owner's floors are still the watermarks.
LEMMA EvictedStartReplication ==
    ASSUME EInv, NEW r \in Runs, StartReplication(r)
    PROVE  EInv'
<1>1. UNCHANGED <<wal, slot, mark, held, owner, tried, loading, floors, queue>>
  BY DEF StartReplication, dest
<1>2. /\ pc[r] = "connect" /\ cur[r] <= Len(wal) /\ task[r] = "off" /\ queue[r] = <<>>
      /\ loading[r] = {} /\ \A t \in Tables : floors[r][t] # None
  BY DEF StartReplication, EInv, InLog, Memory, Streaming, TypeOK
<1>3. \A q \in Runs \ {r} : SameRun(q)
  BY <1>1 DEF EInv, TypeOK, StartReplication, Goto, SameRun
<1>4. CASE slot = None \/ using # NoRun
  <2>1. UNCHANGED <<using, cur, from, applied, task>> /\ Goto(r, "err")
    BY <1>4 DEF StartReplication
  <2>2. TypeOK'
    BY <2>1 DEF EInv, TypeOK, StartReplication, Goto, Phases, dest
  <2>3. pc'[r] = "err"
    BY <2>1 DEF Goto, EInv, TypeOK
  <2>4. Memory(r)' /\ AsOwner(r)'
    BY <1>1, <1>2, <2>1, <2>3 DEF EInv, Memory, AsOwner, Streaming
  <2>. QED
    BY <1>1, <1>2, <1>3, <2>1, <2>2, <2>4, EvictedQuiet
<1>5. CASE slot # None /\ using = NoRun
  <2>1. /\ Lowest(r) \in LSN /\ \A t \in Tables : Lowest(r) <= floors[r][t]
        /\ slot \in LSN
    BY <1>2, <1>5, LowestFloor DEF EInv, TypeOK
  <2>2. Higher(slot, Lowest(r)) \in LSN
    BY <2>1 DEF Higher
  <2>3. /\ pc' = [pc EXCEPT ![r] = "drain"] /\ using' = r
        /\ cur' = [cur EXCEPT ![r] = Lowest(r)]
        /\ from' = [from EXCEPT ![r] = Higher(slot, Lowest(r))]
        /\ applied' = [applied EXCEPT ![r] = Lowest(r)]
        /\ task' = [task EXCEPT ![r] = "on"]
    BY <1>5 DEF StartReplication, Goto
  <2>4. pc'[r] = "drain" /\ cur'[r] = Lowest(r) /\ applied'[r] = Lowest(r) /\ task'[r] = "on"
    BY <2>3 DEF EInv, TypeOK
  <2>5. TypeOK'
    BY <2>1, <2>2, <2>3 DEF EInv, TypeOK, StartReplication, Phases, dest
  <2>6. Memory(r)'
    <3>1. Ascending(r)'
      BY <1>1, <1>2, <2>4, EmptySeq DEF Ascending
    <3>2. Lowest(r) <= Lowest(r)
      BY <2>1, LsnNat
    <3>. QED
      BY <1>1, <1>2, <2>4, <3>1, <3>2 DEF EInv, Memory, Streaming
  <2>7. owner = r => AsOwner(r)'
    <3>1. ASSUME owner = r, NEW t \in Tables
          PROVE  mark[t] # None /\ mark[t] <= Higher(floors[r][t], Lowest(r))
      <4>1. floors[r][t] = mark[t] /\ floors[r][t] # None
        BY <1>2, <3>1 DEF EInv, AsOwner
      <4>2. mark[t] \in Int /\ Lowest(r) \in Int
        BY <2>1, LsnNat, Positions DEF EInv
      <4>. QED
        BY <4>1, <4>2 DEF Higher
    <3>. QED
      BY <1>1, <2>4, <3>1 DEF AsOwner, Higher
  <2>8. Lowest(r) <= Len(wal)
    <3>1. PICK t \in Tables : Lowest(r) = floors[r][t]
      BY <1>2, LowestFloor DEF EInv
    <3>. QED
      BY <3>1 DEF EInv, Memory
  <2>. QED
    BY <1>1, <1>3, <2>4, <2>5, <2>6, <2>7, <2>8, EvictedQuiet
<1>. QED
  BY <1>4, <1>5

\* A window is sent, past all the others; the oldest stays the oldest.
LEMMA EvictedDrainWindow ==
    ASSUME EInv, NEW r \in Runs, NEW e \in LSN, NEW more \in BOOLEAN, DrainWindow(r, e, more)
    PROVE  EInv'
<1>1. /\ pc[r] = "drain" /\ task[r] # "off" /\ applied[r] <= cur[r] /\ Ascending(r)
      /\ loading[r] = {}
  BY DEF DrainWindow, EInv, Memory
<1>2. \A q \in Runs \ {r} : SameRun(q)
  BY DEF EInv, TypeOK, DrainWindow, SameRun, Goto
<1>3. UNCHANGED <<wal, mark, held, owner, tried, loading, floors, applied, task>>
  BY DEF DrainWindow, source, dest
<1>4. queue[r] \in Seq(LSN) /\ Len(queue[r]) \in Nat
  BY LenProperties DEF EInv, TypeOK
<1>5. cur'[r] = e /\ queue'[r] = Append(queue[r], e) /\ pc'[r] \in {"drain", "final"}
  BY DEF DrainWindow, Goto, EInv, TypeOK
<1>6. /\ queue'[r] \in Seq(LSN) /\ Len(queue'[r]) = Len(queue[r]) + 1
      /\ \A i \in 1..Len(queue[r]) : queue'[r][i] = queue[r][i]
      /\ queue'[r][Len(queue[r]) + 1] = e
  BY <1>4, <1>5, AppendProperties
<1>7. queue'[r] # <<>>
  BY <1>4, <1>6, EmptySeq
<1>8. cur[r] < e /\ e <= Len(wal)
  <2>1. e \in (cur[r] + 1)..Len(wal)
    BY DEF DrainWindow, WindowEnds
  <2>2. cur[r] \in Int /\ Len(wal) \in Int
    BY LsnNat, LenProperties DEF EInv, TypeOK
  <2>. QED
    BY <2>1, <2>2
<1>9. TypeOK'
  <2>1. pc' = [pc EXCEPT ![r] = "drain"] \/ pc' = [pc EXCEPT ![r] = "final"]
    BY DEF DrainWindow, Goto
  <2>2. pc' \in [Runs -> Phases]
    BY <2>1 DEF EInv, TypeOK, Phases
  <2>3. queue' \in [Runs -> Seq(LSN)] /\ pending' \in [Runs -> Seq(LSN)]
    <3>1. Append(pending[r], e) \in Seq(LSN) /\ Append(queue[r], e) \in Seq(LSN)
      BY AppendProperties DEF EInv, TypeOK
    <3>. QED
      BY <3>1 DEF DrainWindow, EInv, TypeOK
  <2>. QED
    BY <2>2, <2>3 DEF DrainWindow, EInv, TypeOK, source, dest
<1>10. applied[r] < e /\ applied[r] <= e
  <2>1. applied[r] \in Int /\ cur[r] \in Int /\ e \in Int
    BY LsnNat DEF EInv, TypeOK
  <2>. QED
    BY <1>1, <1>8, <2>1
<1>11. Ascending(r)'
  BY <1>1, <1>3, <1>5, <1>8, <1>10, AscendingGrows DEF EInv
<1>12. Memory(r)'
  BY <1>1, <1>3, <1>5, <1>10, <1>11 DEF EInv, Memory, Streaming
<1>13. owner = r => AsOwner(r)'
  <2>1. ASSUME queue[r] # <<>>
        PROVE  WindowEnd(r)' = WindowEnd(r)
    <3>1. Len(queue[r]) \in Nat \ {0} /\ WindowEnd(r) = queue[r][1]
      BY <2>1, Windows DEF EInv
    <3>2. Head(queue'[r]) = queue'[r][1]
      BY <1>6, <1>7, HeadTailProperties
    <3>. QED
      BY <1>6, <3>1, <3>2 DEF WindowEnd
  <2>. QED
    BY <1>1, <1>3, <1>5, <1>7, <2>1 DEF EInv, AsOwner, Higher
<1>. QED
  BY <1>2, <1>3, <1>5, <1>8, <1>9, <1>12, <1>13, EvictedQuiet

\* The stop line moves.
LEMMA EvictedFollow ==
    ASSUME EInv, NEW r \in Runs, Follow(r)
    PROVE  EInv'
<1>1. UNCHANGED <<wal, mark, held, owner, pc, cur, tried, loading, floors, queue, applied, task>>
  BY DEF Follow, source, dest, local
<1>2. TypeOK'
  <2>1. Len(wal) \in LSN
    BY LenProperties, ReplicaAssumption DEF EInv, TypeOK, LSN
  <2>. QED
    BY <2>1 DEF EInv, TypeOK, Follow, source, dest, local
<1>3. Memory(r)' /\ (owner = r => AsOwner(r)')
  BY <1>1 DEF EInv, Memory, AsOwner, Ascending, WindowEnd, Higher
<1>. QED
  BY <1>1, <1>2, <1>3, EvictedQuiet DEF SameRun, EInv, InLog

\* Every member has the window, or the run is not the owner any more.
LEMMA EvictedWindowApplied ==
    ASSUME EInv, NEW r \in Runs, WindowApplied(r)
    PROVE  EInv'
<1>1. /\ queue[r] # <<>> /\ task[r] = "on" /\ pc[r] \in Streaming /\ applied[r] <= cur[r]
      /\ Ascending(r) /\ loading[r] = {} /\ cur[r] <= Len(wal)
  BY DEF WindowApplied, EInv, Memory, InLog, Streaming
<1>2. \A q \in Runs \ {r} : SameRun(q)
  BY DEF EInv, TypeOK, WindowApplied, SameRun
<1>3. TypeOK'
  BY <1>1, Windows DEF EInv, TypeOK, WindowApplied, source, dest
<1>4. /\ UNCHANGED <<wal, mark, held, owner, cur, loading, floors, task, pc>>
      /\ applied'[r] = WindowEnd(r) /\ queue'[r] = Tail(queue[r]) /\ tried'[r] = {}
  BY DEF WindowApplied, source, dest, EInv, TypeOK
<1>5. applied[r] < WindowEnd(r) /\ WindowEnd(r) <= cur[r]
  BY <1>1, WindowIsNext DEF EInv
<1>6. Ascending(r)'
  BY <1>1, <1>3, <1>4, AscendingShrinks DEF EInv
<1>7. Memory(r)'
  BY <1>1, <1>4, <1>5, <1>6 DEF EInv, Memory, Streaming
<1>8. owner = r => AsOwner(r)'
  <2>1. ASSUME owner = r, NEW t \in Tables
        PROVE  mark[t] # None /\ mark[t] <= Higher(floors[r][t], WindowEnd(r))
    <3>0. mark[t] # None
      BY <1>1, <2>1 DEF EInv, AsOwner
    <3>1. \/ mark[t] <= Higher(floors[r][t], applied[r])
          \/ mark[t] <= Higher(floors[r][t], WindowEnd(r))
      BY <1>1, <2>1 DEF EInv, AsOwner
    <3>2. /\ mark[t] \in Int /\ floors[r][t] \in Int /\ applied[r] \in Int
          /\ WindowEnd(r) \in Int
      BY <1>1, Positions, Windows, LsnNat DEF EInv
    <3>. QED
      BY <1>5, <3>0, <3>1, <3>2 DEF Higher
  <2>. QED
    BY <1>1, <1>4, <2>1 DEF AsOwner, Streaming, Higher
<1>. QED
  BY <1>1, <1>2, <1>3, <1>4, <1>7, <1>8, EvictedQuiet

\* A swap puts back the snapshot, which is behind the log, and withdraws the watermark.
LEMMA EvictedSwap ==
    ASSUME EInv, NEW r \in Runs, NEW t \in Tables, t \in loading[r], Swap(r, t) \/ UNCHANGED dest,
           NEW ok \in BOOLEAN, Settle(r, t, ok), loading' = [loading EXCEPT ![r] = {}],
           UNCHANGED <<source, owner, pc, cur, stream>>
    PROVE  EInv'
<1>1. /\ UNCHANGED <<wal, slot, using, owner, pc, cur, floors, queue, applied, task>>
      /\ pc[r] = "load" /\ owner \in {r, NoRun} /\ task[r] = "off" /\ queue[r] = <<>>
      /\ cur[r] <= Len(wal) /\ loading'[r] = {}
  BY DEF source, stream, EInv, Memory, InLog, TypeOK, Streaming
<1>2. \A q \in Runs \ {r} : SameRun(q)
  BY <1>1 DEF EInv, TypeOK, SameRun, Settle
<1>3. cur[r] \in Nat /\ Len(wal) \in Nat /\ Len(wal) <= MaxWal /\ MaxWal \in Nat
  BY LsnNat, LenProperties, ReplicaAssumption DEF EInv, TypeOK
<1>4. Touches(t, 0, cur[r]) \subseteq 1..cur[r] /\ Touches(t, 0, cur[r]) \subseteq LSN
  BY <1>1, <1>3 DEF Touches, LSN
<1>5. /\ mark' \in [Tables -> LSN \cup {None}] /\ held' \in [Tables -> SUBSET LSN]
      /\ twice' \in [Tables -> SUBSET LSN]
  <2>1. CASE Swap(r, t)
    BY <1>4, <2>1 DEF Swap, EInv, TypeOK
  <2>2. CASE UNCHANGED dest
    BY <2>2 DEF dest, EInv, TypeOK
  <2>. QED
    BY <2>1, <2>2
<1>6. TypeOK'
  BY <1>5 DEF EInv, TypeOK, Settle, source, stream
<1>7. ASSUME NEW u \in Tables
      PROVE  \/ mark'[u] = mark[u] /\ held'[u] = held[u]
             \/ u = t /\ mark'[u] = None /\ held'[u] = Touches(t, 0, cur[r])
  BY DEF Swap, dest, EInv, TypeOK
<1>8. ASSUME NEW u \in Tables
      PROVE  /\ held'[u] \subseteq 1..Len(wal) /\ mark'[u] <= Len(wal)
             /\ mark'[u] # None => held'[u] \subseteq 1..mark'[u]
             /\ owner = r => held'[u] \subseteq 1..cur[r]
  <2>1. CASE mark'[u] = mark[u] /\ held'[u] = held[u]
    BY <1>1, <2>1 DEF EInv, InHeld, InLog, NoneAhead, AsOwner
  <2>2. CASE mark'[u] = None /\ held'[u] = Touches(t, 0, cur[r])
    BY <1>1, <1>3, <1>4, <2>2 DEF None
  <2>. QED
    BY <1>7, <2>1, <2>2
<1>9. InHeld' /\ NoneAhead'
  BY <1>1, <1>8 DEF InHeld, NoneAhead
<1>10. Memory(r)' /\ (owner = r => AsOwner(r)')
  BY <1>1, <1>8 DEF EInv, Memory, AsOwner, Streaming
<1>. QED
  BY <1>1, <1>2, <1>6, <1>8, <1>9, <1>10, EvictedWrites

\* A load lands, or keeps the rows there were.
LEMMA EvictedLoadLand ==
    ASSUME EInv, NEW r \in Runs, NEW t \in Tables, LoadLand(r, t)
    PROVE  EInv'
BY EvictedSwap DEF LoadLand, EmptyKeepsRows

\* A load fails, its swap perhaps landed.
LEMMA EvictedLoadFails ==
    ASSUME EInv, NEW r \in Runs, NEW t \in Tables, NEW landed \in BOOLEAN, LoadFails(r, t, landed)
    PROVE  EInv'
<1>1. CASE t \in loading[r]
  BY <1>1, EvictedSwap DEF LoadFails
<1>2. CASE t \notin loading[r]
  <2>1. UNCHANGED <<wal, slot, using, mark, held, twice, owner, pc, cur, floors, queue, applied,
                    task>>
        /\ loading'[r] = {} /\ pc[r] = "load"
    BY <1>2 DEF LoadFails, source, dest, stream, EInv, TypeOK
  <2>2. \A q \in Runs \ {r} : SameRun(q)
    BY <2>1 DEF EInv, TypeOK, SameRun, LoadFails, Settle
  <2>3. TypeOK'
    BY <2>1 DEF EInv, TypeOK, LoadFails, Settle, stream
  <2>4. Memory(r)' /\ (owner = r => AsOwner(r)')
    BY <2>1 DEF EInv, Memory, AsOwner, Streaming
  <2>. QED
    BY <2>1, <2>2, <2>3, <2>4, EvictedQuiet DEF EInv, InLog
<1>. QED
  BY <1>1, <1>2

\* A watermark is written by the owner, at the consistent point, or is withdrawn.
LEMMA EvictedMarks ==
    ASSUME EInv, NEW r \in Runs, NEW t \in Tables, pc[r] \in {"finish", "clear"},
           \/ mark' = mark
           \/ owner = r /\ mark' = [mark EXCEPT ![t] = None]
           \/ owner = r /\ pc[r] = "finish" /\ mark' = [mark EXCEPT ![t] = cur[r]],
           tried' = [tried EXCEPT ![r] = @ \cup {t}], bad' \in [Runs -> BOOLEAN],
           UNCHANGED <<source, held, twice, owner, pc, cur, loading, stream>>
    PROVE  EInv'
<1>1. /\ UNCHANGED <<wal, slot, using, held, twice, owner, pc, cur, loading, floors, queue, applied,
                     task>>
      /\ task[r] = "off" /\ queue[r] = <<>> /\ loading[r] = {} /\ cur[r] <= Len(wal)
      /\ cur[r] \in LSN
  BY DEF source, stream, EInv, Memory, InLog, TypeOK, Streaming
<1>2. \A q \in Runs \ {r} : SameRun(q)
  BY <1>1 DEF EInv, TypeOK, SameRun
<1>3. TypeOK'
  BY <1>1 DEF EInv, TypeOK, source, stream
<1>4. Memory(r)' /\ (owner = r => AsOwner(r)')
  BY <1>1 DEF EInv, Memory, AsOwner, Streaming
<1>5. CASE mark' = mark
  BY <1>1, <1>2, <1>3, <1>4, <1>5, EvictedQuiet
<1>6. CASE mark' # mark
  <2>1. ASSUME NEW u \in Tables
        PROVE  mark'[u] <= Len(wal) /\ (mark'[u] # None => held[u] \subseteq 1..mark'[u])
    <3>1. \/ mark'[u] = mark[u] \/ mark'[u] = None
          \/ owner = r /\ pc[r] = "finish" /\ mark'[u] = cur[r]
      BY DEF EInv, TypeOK
    <3>2. None <= Len(wal)
      BY LenProperties DEF EInv, TypeOK, None
    <3>. QED
      BY <1>1, <3>1, <3>2 DEF EInv, InLog, NoneAhead, AsOwner
  <2>2. InHeld' /\ NoneAhead'
    BY <1>1, <2>1 DEF EInv, InHeld, NoneAhead
  <2>. QED
    BY <1>1, <1>2, <1>3, <1>4, <1>6, <2>1, <2>2, EvictedWrites
<1>. QED
  BY <1>5, <1>6

\* bootstrap_finish and clear_group.
LEMMA EvictedFinish ==
    ASSUME EInv, NEW r \in Runs, NEW t \in Tables, NEW b \in BOOLEAN,
           Finish(r, t) \/ FinishFails(r, t, b) \/ ClearMember(r, t, b)
    PROVE  EInv'
<1>1. bad' \in [Runs -> BOOLEAN]
  BY DEF Finish, FinishFails, ClearMember, Settle, EInv, TypeOK
<1>. QED
  BY <1>1, EvictedMarks DEF Finish, FinishFails, ClearMember, Settle

\* A unit of the apply task: it lands only while its run owns the group, and then no member
\* holds anything past the window.
LEMMA EvictedUnit ==
    ASSUME EInv, NEW r \in Runs, NEW t \in Tables, Applying(r, t), WindowEnd(r) > floors[r][t],
           (owner = r /\ Land(r, t)) \/ UNCHANGED dest,
           tried' = [tried EXCEPT ![r] = @ \cup {t}],
           task' = task \/ task' = [task EXCEPT ![r] = "failing"],
           UNCHANGED <<source, owner, pc, cur, bad, loading, floors, from, stop, queue, pending,
                       applied>>
    PROVE  EInv'
<1>1. /\ queue[r] # <<>> /\ task[r] # "off" /\ task'[r] # "off" /\ t \notin tried[r]
      /\ pc[r] \in Streaming /\ Ascending(r) /\ applied[r] <= cur[r] /\ loading[r] = {}
      /\ cur[r] <= Len(wal) /\ tried'[r] = tried[r] \cup {t}
  BY DEF Applying, EInv, Memory, InLog, TypeOK, Streaming
<1>2. \A q \in Runs \ {r} : SameRun(q)
  BY DEF EInv, TypeOK, SameRun
<1>3. UNCHANGED <<wal, slot, using>> /\ WindowEnd(r)' = WindowEnd(r)
  BY DEF source, WindowEnd
<1>4. /\ WindowEnd(r) \in LSN /\ WindowEnd(r) \in Nat /\ Len(wal) \in Nat /\ applied[r] \in Nat
      /\ cur[r] \in Nat /\ from[r] \in Nat
      /\ \A u \in Tables : mark[u] \in Int /\ floors[r][u] \in Int
  BY <1>1, Windows, Positions, LenProperties, LsnNat DEF EInv, TypeOK
<1>5. applied[r] < WindowEnd(r) /\ WindowEnd(r) <= cur[r] /\ WindowEnd(r) <= Len(wal)
  BY <1>1, <1>4, WindowIsNext DEF EInv
<1>6. Changes(r, t) \subseteq 1..WindowEnd(r) /\ Changes(r, t) \subseteq LSN
  <2>1. Higher(applied[r], from[r]) \in Nat
    BY <1>4 DEF Higher
  <2>2. WindowEnd(r) <= MaxWal /\ MaxWal \in Nat
    BY <1>4, LsnNat, ReplicaAssumption
  <2>. QED
    BY <1>4, <2>1, <2>2 DEF Changes, Touches, LSN
<1>7. /\ mark' \in [Tables -> LSN \cup {None}] /\ held' \in [Tables -> SUBSET LSN]
      /\ twice' \in [Tables -> SUBSET LSN]
  <2>1. CASE Land(r, t)
    <3>1. held[t] \cup Changes(r, t) \in SUBSET LSN
          /\ twice[t] \cup (held[t] \cap Changes(r, t)) \in SUBSET LSN
      BY <1>6 DEF EInv, TypeOK
    <3>. QED
      BY <1>4, <2>1, <3>1 DEF Land, EInv, TypeOK
  <2>. QED
    BY <2>1 DEF EInv, TypeOK, dest
<1>8. TypeOK'
  BY <1>7 DEF EInv, TypeOK, source
<1>9. Memory(r)'
  BY <1>1, <1>3 DEF EInv, Memory, Ascending, Streaming
<1>10. CASE UNCHANGED dest
  <2>1. UNCHANGED <<mark, held>>
    BY <1>10 DEF dest
  <2>2. owner = r => AsOwner(r)'
    BY <1>1, <1>3, <2>1 DEF EInv, AsOwner, Streaming, Higher
  <2>. QED
    BY <1>1, <1>2, <1>3, <1>8, <1>9, <2>1, <2>2, EvictedQuiet
<1>11. CASE owner = r /\ Land(r, t)
  <2>1. mark'[t] = WindowEnd(r) /\ held'[t] = held[t] \cup Changes(r, t)
        /\ \A u \in Tables : u # t => mark'[u] = mark[u] /\ held'[u] = held[u]
    BY <1>11 DEF Land, EInv, TypeOK
  <2>2. mark[t] < WindowEnd(r)
    <3>1. mark[t] <= Higher(floors[r][t], applied[r])
      BY <1>1, <1>11 DEF EInv, AsOwner
    <3>2. floors[r][t] < WindowEnd(r)
      BY <1>4
    <3>. QED
      BY <1>4, <1>5, <3>1, <3>2 DEF Higher
  <2>3. held'[t] \subseteq 1..WindowEnd(r)
    <3>1. held[t] \subseteq 1..mark[t]
      BY <1>1, <1>11 DEF EInv, AsOwner, NoneAhead
    <3>. QED
      BY <1>4, <1>6, <2>1, <2>2, <3>1
  <2>4. InHeld' /\ NoneAhead' /\ \A u \in Tables : mark'[u] <= Len(wal)
    <3>1. ASSUME NEW u \in Tables
          PROVE  /\ held'[u] \subseteq 1..Len(wal) /\ mark'[u] <= Len(wal)
                 /\ mark'[u] # None => held'[u] \subseteq 1..mark'[u]
      <4>1. CASE u = t
        BY <1>4, <1>5, <2>1, <2>3, <4>1
      <4>2. CASE u # t
        BY <2>1, <4>2 DEF EInv, InHeld, InLog, NoneAhead
      <4>. QED
        BY <4>1, <4>2
    <3>. QED
      BY <1>3, <3>1 DEF InHeld, NoneAhead
  <2>5. AsOwner(r)'
    <3>1. ASSUME NEW u \in Tables
          PROVE  /\ mark'[u] # None
                 /\ \/ mark'[u] <= Higher(floors[r][u], applied[r])
                    \/ u \in tried'[r] /\ mark'[u] <= Higher(floors[r][u], WindowEnd(r))
      <4>1. CASE u = t
        BY <1>1, <1>4, <2>1, <4>1 DEF Higher, None
      <4>2. CASE u # t
        BY <1>1, <1>11, <2>1, <4>2 DEF EInv, AsOwner
      <4>. QED
        BY <4>1, <4>2
    <3>. QED
      BY <1>1, <1>3, <3>1 DEF AsOwner, Streaming, Higher
  <2>. QED
    BY <1>1, <1>2, <1>3, <1>8, <1>9, <1>11, <2>4, <2>5, EvictedWrites
<1>. QED
  BY <1>10, <1>11

\* apply_member, with its unit landed or not.
LEMMA EvictedApply ==
    ASSUME EInv, NEW r \in Runs, NEW t \in Tables, NEW landed \in BOOLEAN,
           ApplyMember(r, t) \/ ApplyFails(r, t, landed)
    PROVE  EInv'
BY EvictedUnit DEF ApplyMember, ApplyFails, stream

\* A run starts, though another may go on: the one that went on owns nothing now.
LEMMA EvictedAcquire ==
    ASSUME EInv, NEW r \in Runs, Acquire(r)
    PROVE  EInv'
<1>1. UNCHANGED <<wal, slot, using, mark, held, twice, cur, tried, loading, floors, queue, applied,
                  task>>
  BY DEF Acquire, source, dest, local, stream
<1>2. pc[r] = "idle" /\ owner' = r /\ \A q \in Runs : loading[q] = {}
  BY DEF Acquire
<1>3. pc'[r] = "decide" /\ \A q \in Runs \ {r} : pc'[q] = pc[q]
  BY DEF Acquire, Goto, EInv, TypeOK
<1>4. TypeOK'
  BY DEF EInv, TypeOK, Acquire, Goto, Phases, source, dest, local, stream
<1>5. ASSUME NEW q \in Runs
      PROVE  Memory(q)'
  <2>1. CASE q = r
    BY <1>1, <1>2, <1>3, <2>1 DEF EInv, Memory, Ascending, Streaming
  <2>2. CASE q # r
    BY <1>1, <1>2, <1>3, <2>2 DEF EInv, Memory, Ascending
  <2>. QED
    BY <2>1, <2>2
<1>6. AsOwner(r)'
  BY <1>1, <1>2, <1>3 DEF EInv, Memory, AsOwner, Streaming
<1>7. InLog' /\ InHeld' /\ NoneAhead'
  BY <1>1 DEF EInv, InLog, InHeld, NoneAhead
<1>. QED
  BY <1>2, <1>4, <1>5, <1>6, <1>7 DEF EInv

\* A run forgets everything, at its end or because its process died.
LEMMA EvictedForgets ==
    ASSUME EInv, NEW r \in Runs, Crash(r) \/ Release(r)
    PROVE  EInv'
<1>1. /\ UNCHANGED <<wal, slot, mark, held, twice>> /\ Forget(r)
      /\ owner' = owner \/ (owner' = NoRun /\ owner = r)
      /\ using' = using \/ using' = NoRun
  BY DEF Crash, Release, source, dest
<1>2. 0 \in LSN /\ <<>> \in Seq(LSN) /\ 0 <= Len(wal) /\ None <= Len(wal)
  BY ReplicaAssumption, EmptySeq, LenProperties DEF LSN, EInv, TypeOK, None
<1>3. TypeOK'
  <2>1. /\ pc' \in [Runs -> Phases] /\ cur' \in [Runs -> LSN]
        /\ tried' \in [Runs -> SUBSET Tables]
        /\ bad' \in [Runs -> BOOLEAN] /\ loading' \in [Runs -> SUBSET Tables]
        /\ from' \in [Runs -> LSN] /\ stop' \in [Runs -> LSN] /\ applied' \in [Runs -> LSN]
        /\ task' \in [Runs -> {"on", "failing", "off"}]
    BY <1>1, <1>2 DEF Forget, Goto, EInv, TypeOK, Phases
  <2>2. /\ floors' \in [Runs -> [Tables -> LSN \cup {None}]]
        /\ queue' \in [Runs -> Seq(LSN)] /\ pending' \in [Runs -> Seq(LSN)]
    BY <1>1, <1>2 DEF Forget, EInv, TypeOK
  <2>. QED
    BY <1>1, <2>1, <2>2 DEF EInv, TypeOK
<1>4. /\ pc'[r] = "idle" /\ cur'[r] = 0 /\ tried'[r] = {} /\ loading'[r] = {}
      /\ queue'[r] = <<>> /\ task'[r] = "off" /\ \A t \in Tables : floors'[r][t] = None
  BY <1>1 DEF Forget, Goto, EInv, TypeOK
<1>5. Memory(r)' /\ AsOwner(r)'
  BY <1>1, <1>2, <1>4 DEF Memory, AsOwner, Streaming
<1>6. ASSUME NEW q \in Runs, q # r
      PROVE  Memory(q)' /\ (owner' = q => AsOwner(q)') /\ cur'[q] <= Len(wal)
  <2>1. SameRun(q)
    BY <1>1, <1>6 DEF Forget, Goto, EInv, TypeOK, SameRun
  <2>2. Memory(q) /\ (owner = q => AsOwner(q)) /\ cur[q] <= Len(wal)
    BY DEF EInv, InLog
  <2>3. owner' = q => owner = q
    BY <1>1, ReplicaAssumption
  <2>4. Memory(q)'
    BY <1>1, <1>6, <2>1, <2>2 DEF Memory, SameRun, Ascending
  <2>5. owner' = q => AsOwner(q)'
    BY <1>1, <2>1, <2>2, <2>3 DEF AsOwner, SameRun, WindowEnd, Higher
  <2>. QED
    BY <2>1, <2>2, <2>4, <2>5 DEF SameRun
<1>7. InLog' /\ InHeld' /\ NoneAhead'
  BY <1>1, <1>2, <1>4, <1>6 DEF EInv, InLog, InHeld, NoneAhead
<1>. QED
  BY <1>3, <1>5, <1>6, <1>7 DEF EInv

\* The tenure or the session of a dead run ends, the slot is lost, or the operator clears
\* the group, with no run left.
LEMMA EvictedOutside ==
    ASSUME EInv, Outside \/ (\E r \in Runs : CollectDead(r) \/ SessionEnds(r)) \/ UNCHANGED vars
    PROVE  EInv'
<1>1. /\ UNCHANGED <<wal, held, twice, pc, cur, tried, bad, loading, floors, from, stop, queue,
                     pending, applied, task>>
      /\ owner' \in {owner, NoRun} /\ using' \in {using, NoRun}
      /\ slot' \in {slot, None}
  BY DEF Outside, LoseSlot, OperatorClears, CollectDead, SessionEnds, source, dest, local, stream,
         vars
<1>2. \/ mark' = mark
      \/ mark' = [t \in Tables |-> None] /\ \A q \in Runs : pc[q] = "idle"
  BY DEF Outside, LoseSlot, OperatorClears, CollectDead, SessionEnds, source, dest, local, stream,
         vars, Running
<1>3. TypeOK'
  BY <1>1, <1>2 DEF EInv, TypeOK
<1>4. InLog' /\ InHeld' /\ NoneAhead'
  <2>1. None <= Len(wal)
    BY LenProperties DEF EInv, TypeOK, None
  <2>. QED
    BY <1>1, <1>2, <2>1 DEF EInv, InLog, InHeld, NoneAhead
<1>5. ASSUME NEW q \in Runs
      PROVE  Memory(q)' /\ (owner' = q => AsOwner(q)')
  <2>1. Memory(q)'
    BY <1>1 DEF EInv, Memory, Ascending
  <2>2. CASE mark' = mark
    BY <1>1, <2>1, <2>2, ReplicaAssumption DEF EInv, AsOwner, WindowEnd, Higher
  <2>3. CASE pc[q] = "idle"
    BY <1>1, <2>1, <2>3 DEF EInv, Memory, AsOwner, Streaming
  <2>. QED
    BY <1>2, <2>2, <2>3
<1>. QED
  BY <1>3, <1>4, <1>5 DEF EInv

\* The log grows.
LEMMA EvictedSourceCommit ==
    ASSUME EInv, NEW S \in SUBSET Tables, SourceCommit(S)
    PROVE  EInv'
<1>1. UNCHANGED <<slot, using, mark, held, twice, owner, pc, cur, tried, bad, loading, floors, from,
                  stop, queue, pending, applied, task>>
  BY DEF SourceCommit, dest, local, stream
<1>2. wal' = Append(wal, S) /\ Len(wal) < MaxWal /\ wal \in Seq(SUBSET Tables)
  BY DEF SourceCommit, EInv, TypeOK
<1>3. wal' \in Seq(SUBSET Tables) /\ Len(wal') = Len(wal) + 1 /\ Len(wal) \in Nat
  BY <1>2, AppendProperties, LenProperties
<1>4. Len(wal') <= MaxWal
  BY <1>2, <1>3, ReplicaAssumption
<1>5. TypeOK'
  BY <1>1, <1>3, <1>4 DEF EInv, TypeOK
<1>6. /\ \A t \in Tables : mark[t] \in Int
      /\ \A q \in Runs : cur[q] \in Int /\ \A t \in Tables : floors[q][t] \in Int
  BY LsnNat, Positions DEF EInv, TypeOK, None
<1>7. InLog' /\ InHeld' /\ NoneAhead'
  BY <1>1, <1>3, <1>6 DEF EInv, InLog, InHeld, NoneAhead
<1>8. ASSUME NEW q \in Runs
      PROVE  Memory(q)' /\ (owner = q => AsOwner(q)')
  <2>1. \A t \in Tables : floors[q][t] <= Len(wal')
    BY <1>3, <1>6 DEF EInv, Memory
  <2>2. Memory(q)'
    BY <1>1, <2>1 DEF EInv, Memory, Ascending
  <2>. QED
    BY <1>1, <2>2 DEF EInv, AsOwner, WindowEnd, Higher
<1>. QED
  BY <1>1, <1>5, <1>7, <1>8 DEF EInv

\* A group that was never run.
LEMMA EvictedInit ==
    ASSUME Init
    PROVE  EInv
<1>1. TypeOK /\ InLog
  BY InitInv DEF IInv
<1>2. InHeld /\ NoneAhead
  BY DEF Init, InHeld, NoneAhead
<1>3. \A r \in Runs : Memory(r) /\ (owner = r => AsOwner(r))
  <2>1. None <= Len(wal)
    BY <1>1, LenProperties DEF TypeOK, None
  <2>. QED
    BY <2>1 DEF Init, Memory, AsOwner, Streaming
<1>. QED
  BY <1>1, <1>2, <1>3 DEF EInv

\* Every step keeps it.
LEMMA EvictedNext ==
    ASSUME EInv, [Next]_vars
    PROVE  EInv'
<1>1. ASSUME NEW r \in Runs, Decide(r)
      PROVE  EInv'
  BY <1>1, EvictedDecideBootstrap, EvictedDecideTorn, EvictedDecideDrain DEF Decide
<1>2. ASSUME NEW r \in Runs, Bootstrap(r)
      PROVE  EInv'
  <2>1. CASE ProbeSlot(r) \/ DropStale(r) \/ CreateSlot(r)
    BY <2>1, EvictedProbeSlot, EvictedDropStale, EvictedCreateSlot
  <2>2. CASE LoadsDone(r) \/ FinishesDone(r) \/ ClearsDone(r)
    BY <2>2, EvictedLoadsDone, EvictedFinishesDone, EvictedClearsDone
  <2>3. CASE \E ok \in BOOLEAN : DropSlot(r, ok)
    BY <2>3, EvictedDropSlot
  <2>4. CASE \E t \in Tables : LoadBegin(r, t) \/ LoadLand(r, t) \/ Finish(r, t)
    BY <2>4, EvictedLoadBegin, EvictedLoadLand, EvictedFinish
  <2>5. CASE \E t \in Tables, b \in BOOLEAN :
                LoadFails(r, t, b) \/ FinishFails(r, t, b) \/ ClearMember(r, t, b)
    BY <2>5, EvictedLoadFails, EvictedFinish
  <2>. QED
    BY <1>2, <2>1, <2>2, <2>3, <2>4, <2>5 DEF Bootstrap
<1>3. ASSUME NEW r \in Runs, Drain(r)
      PROVE  EInv'
  <2>1. CASE Reconcile(r) \/ StartReplication(r) \/ DrainStops(r)
    BY <2>1, EvictedReconcile, EvictedStartReplication, EvictedDrainStops
  <2>2. CASE Confirm(r) \/ WaitBroken(r) \/ DrainDone(r) \/ Join(r)
    BY <2>2, EvictedConfirm, EvictedWaitBroken, EvictedDrainDone, EvictedJoin
  <2>3. CASE \E e \in LSN, more \in BOOLEAN : DrainWindow(r, e, more)
    BY <2>3, EvictedDrainWindow
  <2>. QED
    BY <1>3, <2>1, <2>2, <2>3 DEF Drain
<1>4. ASSUME NEW r \in Runs, Apply(r)
      PROVE  EInv'
  <2>1. CASE WindowApplied(r) \/ ApplyDies(r) \/ ApplyEnds(r)
    BY <2>1, EvictedWindowApplied, EvictedApplyDies, EvictedApplyEnds
  <2>2. CASE \E t \in Tables : SkipMember(r, t) \/ ApplyMember(r, t)
    BY <2>2, EvictedSkipMember, EvictedApply
  <2>3. CASE \E t \in Tables, landed \in BOOLEAN : ApplyFails(r, t, landed)
    BY <2>3, EvictedApply
  <2>. QED
    BY <1>4, <2>1, <2>2, <2>3 DEF Apply
<1>5. ASSUME NEW r \in Runs, Acquire(r) \/ Release(r) \/ Crash(r)
      PROVE  EInv'
  BY <1>5, EvictedAcquire, EvictedForgets
<1>6. ASSUME NEW r \in Runs, Follow(r) \/ KeepaliveReply(r) \/ StreamFails(r)
      PROVE  EInv'
  BY <1>6, EvictedFollow, EvictedKeepaliveReply, EvictedStreamFails
<1>7. ASSUME NEW r \in Runs, \E landed \in BOOLEAN : SourceFails(r, landed)
      PROVE  EInv'
  BY <1>7, EvictedSourceFails
<1>. QED
  BY <1>1, <1>2, <1>3, <1>4, <1>5, <1>6, <1>7, EvictedSourceCommit, EvictedOutside
     DEF Next, Work

\* No table ever holds a change past its watermark, with every fault of the model: runs that
\* outlive their lease and go on with the windows, loads and confirmations they have in
\* memory, empty snapshots, a lost slot.  So what the next run applies is never older than
\* what a table holds (open_unit and close_unit of dest_pg.rs, lease.rs open).
THEOREM EvictedHarmless == Spec => []NoneAhead
<1>1. Init => EInv
  BY EvictedInit
<1>2. EInv /\ [Next]_vars => EInv'
  BY EvictedNext
<1>3. EInv => NoneAhead
  BY DEF EInv
<1>. QED
  BY <1>1, <1>2, <1>3, PTL DEF Spec

\* Every variable of Replica keeps its type, whatever fails: positions stay within the
\* log's bound, a run is in one of run_group's phases, its queues hold window ends.
THEOREM TypeCorrect == Spec => []TypeOK
<1>1. Init => EInv
  BY EvictedInit
<1>2. EInv /\ [Next]_vars => EInv'
  BY EvictedNext
<1>3. EInv => TypeOK
  BY DEF EInv
<1>. QED
  BY <1>1, <1>2, <1>3, PTL DEF Spec
=============================================================================
