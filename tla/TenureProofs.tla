---------------------------- MODULE TenureProofs ----------------------------
(***************************************************************************)
(* Proofs about Tenure, for every set of runs and tables, every mix of     *)
(* lanes and any subset of failing statements.  One lemma per part of the  *)
(* inductive invariant says that every step preserves it, with one step    *)
(* per action that touches its variables.                                  *)
(***************************************************************************)
EXTENDS Tenure, TLAPS

\* A scan cannot overlook a rival that is acting: its Lock is listed until it
\* loads, its Staging from before the Lock goes.
LEMMA RivalListed ==
    ASSUME IInv, NEW r \in Runs, NEW q \in Runs, NEW t \in Tables, Rivals(r, q, t)
    PROVE  /\ pc[q] # "load" => <<q, "Lock">> \in Listed(r, t, "Lock")
           /\ pc[q] \in {"unlock", "load"} => <<q, "Staging">> \in Listed(r, t, "Staging")
<1>1. pc[q] # "load" => "Lock" \in made[q][t]
  BY DEF IInv, Local, Announced, Rivals, Acting, ScanPhases, Markers
<1>2. pc[q] # "load" => <<q, t, "Lock">> \in catalog
  BY <1>1 DEF IInv, MarkersPresent, Rivals
<1>3. pc[q] \in {"unlock", "load"} => <<q, t, "Staging">> \in catalog
  BY DEF IInv, StagingPresent, Rivals
<1> QED
  BY <1>2, <1>3 DEF Listed, Rivals

\* Every action keeps the types.
LEMMA TypeStep == IInv /\ [Next]_vars => TypeOK'
<1> SUFFICES ASSUME IInv, [Next]_vars PROVE TypeOK'
  OBVIOUS
<1> USE RunsAssumption DEF IInv, TypeOK, Phases, ScanPhases, LeaseStates, Artifacts, Drains,
   Bulks, Owned, scanVars, unitVars
<1>u. ASSUME UNCHANGED <<pc, catalog, lease, made, checked, tab, seen, victim, failed, kept,
   unit, evicted>> PROVE TypeOK'
  BY <1>u
<1>1. ASSUME NEW r \in Runs, Start(r) PROVE TypeOK'
  <2>1. CASE LeaseOpen(r)
    BY <2>1 DEF LeaseOpen
  <2>2. CASE BeginLoad(r)
    BY <2>2 DEF BeginLoad
  <2> QED
    BY <1>1, <2>1, <2>2 DEF Start
<1>2. ASSUME NEW r \in Runs, NEW t \in Tables, NEW a \in Artifacts, Announce(r, t, a) PROVE
   TypeOK'
  <2>1. CASE CreateMarker(r, t, a)
    BY <2>1 DEF CreateMarker, NextMarker
  <2>2. CASE AnnounceFails(r, t, a)
    BY <2>2 DEF AnnounceFails, NextMarker
  <2> QED
    BY <1>2, <2>1, <2>2 DEF Announce
<1>3. ASSUME NEW r \in Runs, NEW t \in Tables, NEW ok \in BOOLEAN, UndoAnnounce(r, t, ok)
   PROVE TypeOK'
  BY <1>3 DEF UndoAnnounce
<1>4. ASSUME NEW r \in Runs, NEW t \in Tables, Scan(r, t) PROVE TypeOK'
  <2>1. CASE ListLocks(r, t)
    BY <2>1 DEF ListLocks, Listed
  <2>2. CASE MeetLive(r, t)
    BY <2>2 DEF MeetLive, Met, Listed, Refuse, Leave, Refused, Collectable
  <2>3. CASE MeetDrains(r, t)
    BY <2>3 DEF MeetDrains, Met, Listed, Collectable
  <2>4. CASE MeetNobody(r, t)
    BY <2>4 DEF MeetNobody, Met, Listed, Pass, Leave, Cleared
  <2> QED
    BY <1>4, <2>1, <2>2, <2>3, <2>4 DEF Scan
<1>5. ASSUME NEW r \in Runs, NEW t \in Tables, NEW q \in Runs, Decide(r, t, q) PROVE TypeOK'
  <2>1. CASE FindLapsed(r, t, q)
    BY <2>1 DEF FindLapsed, Lapsed
  <2>2. CASE FindOwned(r, t, q)
    BY <2>2 DEF FindOwned, Refuse, Leave, Refused, Lapsed
  <2>3. CASE ClaimTaken(r, t, q)
    BY <2>3 DEF ClaimTaken, Lapsed, RowLocked
  <2>4. CASE ClaimRefused(r, t, q)
    BY <2>4 DEF ClaimRefused, Refuse, Leave, Refused
  <2> QED
    BY <1>5, <2>1, <2>2, <2>3, <2>4 DEF Decide
<1>6. ASSUME NEW r \in Runs, CheckFails(r) PROVE TypeOK'
  BY <1>6 DEF CheckFails, Refuse, Leave, Refused
<1>7. ASSUME NEW r \in Runs, NEW t \in Tables, NEW q \in Runs, NEW a \in Artifacts, NEW ok \in
   BOOLEAN, Collect(r, t, q, a, ok) PROVE TypeOK'
  <2>1. CASE DropCollected(r, t, q, a, ok)
    BY <2>1 DEF DropCollected, DropOne
  <2>2. CASE CollectFails(r, t, q, a, ok)
    BY <2>2 DEF CollectFails, DropOne, Refuse, Leave, Refused
  <2>3. CASE CollectNext(r, t, q, a, ok)
    BY <2>3 DEF CollectNext, DropOne
  <2>4. CASE CollectLast(r, t, q, a, ok)
    BY <2>4 DEF CollectLast, DropOne, Pass, Leave, Cleared
  <2> QED
    BY <1>7, <2>1, <2>2, <2>3, <2>4 DEF Collect, Collected
<1>8. ASSUME NEW r \in Runs, NEW t \in Tables, WantUnit(r, t) PROVE TypeOK'
  BY <1>8 DEF WantUnit
<1>9. ASSUME NEW r \in Runs, NEW t \in Tables, NEW ok \in BOOLEAN, UnitStep(r, t, ok) PROVE
   TypeOK'
  <2>1. CASE GuardUnit(r, t)
    BY <2>1 DEF GuardUnit
  <2>2. CASE OpenUnit(r, t)
    BY <2>2 DEF OpenUnit
  <2>3. CASE CloseUnit(r, t, ok)
    BY <2>3 DEF CloseUnit
  <2> QED
    BY <1>9, <2>1, <2>2, <2>3 DEF UnitStep
<1>10. ASSUME NEW r \in Runs, Keeper(r) PROVE TypeOK'
  <2>1. CASE KeeperRenew(r)
    BY <2>1 DEF KeeperRenew, RowLocked
  <2>2. CASE KeeperCheck(r)
    BY <2>2 DEF KeeperCheck
  <2> QED
    BY <1>10, <2>1, <2>2 DEF Keeper
<1>11. ASSUME NEW r \in Runs, BeginRelease(r) PROVE TypeOK'
  BY <1>11 DEF BeginRelease, Running, Children
<1>12. ASSUME NEW r \in Runs, GiveBack(r) PROVE TypeOK'
  <2>1. CASE StopKeeper(r)
    BY <2>1 DEF StopKeeper
  <2>2. CASE GiveBackDone(r)
    BY <2>2 DEF GiveBackDone
  <2> QED
    BY <1>12, <2>1, <2>2 DEF GiveBack
<1>13. ASSUME NEW r \in Runs, NEW t \in Tables, NEW a \in Artifacts, NEW ok \in BOOLEAN,
   GiveBackMarker(r, t, a, ok) PROVE TypeOK'
  BY <1>13 DEF GiveBackMarker
<1>14. ASSUME NEW r \in Runs, NEW t \in Tables, NEW ok \in BOOLEAN, LeaseClose(r, t, ok) PROVE
   TypeOK'
  BY <1>14 DEF LeaseClose
<1>15. ASSUME NEW r \in Runs, NEW t \in Tables, NEW ok \in BOOLEAN, Bulk(r, t, ok) PROVE
   TypeOK'
  <2>1. CASE CreateStaging(r, t, ok)
    BY <2>1 DEF CreateStaging
  <2>2. CASE ReleaseLock(r, t, ok)
    BY <2>2 DEF ReleaseLock
  <2>3. CASE Finalize(r, t)
    BY <2>3 DEF Finalize
  <2>4. CASE Discard(r, t, ok)
    BY <2>4 DEF Discard
  <2> QED
    BY <1>15, <2>1, <2>2, <2>3, <2>4 DEF Bulk
<1>16. ASSUME NEW r \in Runs, NEW t \in Tables, Expire(r, t) PROVE TypeOK'
  BY <1>16 DEF Expire
<1>17. ASSUME NEW r \in Runs, Crash(r) PROVE TypeOK'
  BY <1>17 DEF Crash, Running, Children
<1> HIDE DEF TypeOK, Phases, ScanPhases, LeaseStates, Artifacts, Drains, Bulks, Owned
<1> QED
  BY <1>1, <1>2, <1>3, <1>4, <1>5, <1>6, <1>7, <1>8, <1>9, <1>10, <1>11, <1>12, <1>13, <1>14,
     <1>15, <1>16, <1>17, <1>u DEF Next, Work, vars

\* Every action keeps what a run knows about itself: started runs only, one table at a
\* time, one lane, its own markers, claims before drops, units inside the tenure.
LEMMA LocalStep == IInv /\ [Next]_vars => Local'
<1> SUFFICES ASSUME IInv, [Next]_vars PROVE Local'
  OBVIOUS
<1> USE RunsAssumption, LineageAssumption DEF IInv, Local, TypeOK, Drains, Bulks, scanVars,
   unitVars
<1>u. ASSUME UNCHANGED <<pc, catalog, lease, made, checked, tab, seen, victim, unit>> PROVE
   Local'
  BY <1>u DEF Started, Scanning, ScanPhases, Lanes, Announced, Markers, Artifacts, Collecting,
     Owned, LeaseStates, Units
<1>1. ASSUME NEW r \in Runs, Start(r) PROVE Local'
  <2>1. CASE LeaseOpen(r)
    BY <2>1 DEF LeaseOpen, Started, Scanning, ScanPhases, Lanes, Announced, Markers,
       Artifacts, Collecting, Owned, LeaseStates, Units
  <2>2. CASE BeginLoad(r)
    BY <2>2 DEF BeginLoad, Started, Scanning, ScanPhases, Lanes, Announced, Markers,
       Artifacts, Collecting, Owned, LeaseStates, Units
  <2> QED
    BY <1>1, <2>1, <2>2 DEF Start
<1>2. ASSUME NEW r \in Runs, NEW t \in Tables, NEW a \in Artifacts, Announce(r, t, a) PROVE
   Local'
  <2>1. CASE CreateMarker(r, t, a)
    BY <2>1 DEF CreateMarker, NextMarker, Started, Scanning, ScanPhases, Lanes, Announced,
       Markers, Artifacts, Collecting, Owned, LeaseStates, Units
  <2>2. CASE AnnounceFails(r, t, a)
    BY <2>2 DEF AnnounceFails, NextMarker, Started, Scanning, ScanPhases, Lanes, Announced,
       Markers, Artifacts, Collecting, Owned, LeaseStates, Units
  <2> QED
    BY <1>2, <2>1, <2>2 DEF Announce
<1>3. ASSUME NEW r \in Runs, NEW t \in Tables, NEW ok \in BOOLEAN, UndoAnnounce(r, t, ok)
   PROVE Local'
  BY <1>3 DEF UndoAnnounce, Started, Scanning, ScanPhases, Lanes, Announced, Markers,
     Artifacts, Collecting, Owned, LeaseStates, Units
<1>4. ASSUME NEW r \in Runs, NEW t \in Tables, Scan(r, t) PROVE Local'
  <2>1. CASE ListLocks(r, t)
    BY <2>1 DEF ListLocks, Listed, Started, Scanning, ScanPhases, Lanes, Announced, Markers,
       Artifacts, Collecting, Owned, LeaseStates, Units
  <2>2. CASE MeetLive(r, t)
    BY <2>2 DEF MeetLive, Met, Listed, Refuse, Leave, Refused, Collectable, Started, Scanning,
       ScanPhases, Lanes, Announced, Markers, Artifacts, Collecting, Owned, LeaseStates, Units
  <2>3. CASE MeetDrains(r, t)
    BY <2>3 DEF MeetDrains, Met, Listed, Collectable, Started, Scanning, ScanPhases, Lanes,
       Announced, Markers, Artifacts, Collecting, Owned, LeaseStates, Units
  <2>4. CASE MeetNobody(r, t)
    BY <2>4 DEF MeetNobody, Met, Listed, Pass, Leave, Cleared, Started, Scanning, ScanPhases,
       Lanes, Announced, Markers, Artifacts, Collecting, Owned, LeaseStates, Units
  <2> QED
    BY <1>4, <2>1, <2>2, <2>3, <2>4 DEF Scan
<1>5. ASSUME NEW r \in Runs, NEW t \in Tables, NEW q \in Runs, Decide(r, t, q) PROVE Local'
  <2>1. CASE FindLapsed(r, t, q)
    BY <2>1 DEF FindLapsed, Lapsed, Started, Scanning, ScanPhases, Lanes, Announced, Markers,
       Artifacts, Collecting, Owned, LeaseStates, Units
  <2>2. CASE FindOwned(r, t, q)
    BY <2>2 DEF FindOwned, Refuse, Leave, Refused, Lapsed, Started, Scanning, ScanPhases,
       Lanes, Announced, Markers, Artifacts, Collecting, Owned, LeaseStates, Units
  <2>3. CASE ClaimTaken(r, t, q)
    BY <2>3 DEF ClaimTaken, Lapsed, RowLocked, Started, Scanning, ScanPhases, Lanes,
       Announced, Markers, Artifacts, Collecting, Owned, LeaseStates, Units
  <2>4. CASE ClaimRefused(r, t, q)
    BY <2>4 DEF ClaimRefused, Refuse, Leave, Refused, Started, Scanning, ScanPhases, Lanes,
       Announced, Markers, Artifacts, Collecting, Owned, LeaseStates, Units
  <2> QED
    BY <1>5, <2>1, <2>2, <2>3, <2>4 DEF Decide
<1>6. ASSUME NEW r \in Runs, CheckFails(r) PROVE Local'
  BY <1>6 DEF CheckFails, Refuse, Leave, Refused, Started, Scanning, ScanPhases, Lanes,
     Announced, Markers, Artifacts, Collecting, Owned, LeaseStates, Units
<1>7. ASSUME NEW r \in Runs, NEW t \in Tables, NEW q \in Runs, NEW a \in Artifacts, NEW ok \in
   BOOLEAN, Collect(r, t, q, a, ok) PROVE Local'
  <2>1. CASE DropCollected(r, t, q, a, ok)
    BY <2>1 DEF DropCollected, DropOne, Started, Scanning, ScanPhases, Lanes, Announced,
       Markers, Artifacts, Collecting, Owned, LeaseStates, Units
  <2>2. CASE CollectFails(r, t, q, a, ok)
    BY <2>2 DEF CollectFails, DropOne, Refuse, Leave, Refused, Started, Scanning, ScanPhases,
       Lanes, Announced, Markers, Artifacts, Collecting, Owned, LeaseStates, Units
  <2>3. CASE CollectNext(r, t, q, a, ok)
    BY <2>3 DEF CollectNext, DropOne, Started, Scanning, ScanPhases, Lanes, Announced,
       Markers, Artifacts, Collecting, Owned, LeaseStates, Units
  <2>4. CASE CollectLast(r, t, q, a, ok)
    <3>1. Started'
      BY <2>4 DEF CollectLast, DropOne, Pass, Leave, Cleared, Started
    <3>2. Scanning'
      <4>1. t \in tab[r] /\ Pass(r, t)
        BY <2>4 DEF CollectLast, DropOne
      <4> QED
        BY <4>1 DEF Pass, Leave, Cleared, Scanning
    <3>3. Lanes'
      BY <2>4 DEF CollectLast, DropOne, Pass, Leave, Cleared, Lanes, ScanPhases, Announced,
         Markers
    <3>4. Announced'
      BY <2>4 DEF CollectLast, DropOne, Pass, Leave, Cleared, Announced, ScanPhases, Markers,
         Artifacts, Lanes
    <3>5. Collecting'
      BY <2>4 DEF CollectLast, DropOne, Pass, Leave, Cleared, Collecting, Owned, LeaseStates,
         Started, Scanning
    <3>6. Units'
      BY <2>4 DEF CollectLast, DropOne, Pass, Leave, Cleared, Units, Owned
    <3> QED
      BY <3>1, <3>2, <3>3, <3>4, <3>5, <3>6
  <2> QED
    BY <1>7, <2>1, <2>2, <2>3, <2>4 DEF Collect, Collected
<1>8. ASSUME NEW r \in Runs, NEW t \in Tables, WantUnit(r, t) PROVE Local'
  BY <1>8 DEF WantUnit, Started, Scanning, ScanPhases, Lanes, Announced, Markers, Artifacts,
     Collecting, Owned, LeaseStates, Units
<1>9. ASSUME NEW r \in Runs, NEW t \in Tables, NEW ok \in BOOLEAN, UnitStep(r, t, ok) PROVE
   Local'
  <2>1. CASE GuardUnit(r, t)
    BY <2>1 DEF GuardUnit, Started, Scanning, ScanPhases, Lanes, Announced, Markers,
       Artifacts, Collecting, Owned, LeaseStates, Units
  <2>2. CASE OpenUnit(r, t)
    BY <2>2 DEF OpenUnit, Started, Scanning, ScanPhases, Lanes, Announced, Markers, Artifacts,
       Collecting, Owned, LeaseStates, Units
  <2>3. CASE CloseUnit(r, t, ok)
    BY <2>3 DEF CloseUnit, Started, Scanning, ScanPhases, Lanes, Announced, Markers,
       Artifacts, Collecting, Owned, LeaseStates, Units
  <2> QED
    BY <1>9, <2>1, <2>2, <2>3 DEF UnitStep
<1>10. ASSUME NEW r \in Runs, Keeper(r) PROVE Local'
  <2>1. CASE KeeperRenew(r)
    BY <2>1 DEF KeeperRenew, RowLocked, Started, Scanning, ScanPhases, Lanes, Announced,
       Markers, Artifacts, Collecting, Owned, LeaseStates, Units
  <2> QED
    BY <1>10, <2>1, <1>u DEF Keeper, KeeperCheck
<1>11. ASSUME NEW r \in Runs, BeginRelease(r) PROVE Local'
  BY <1>11 DEF BeginRelease, Running, Children, Started, Scanning, ScanPhases, Lanes,
     Announced, Markers, Artifacts, Collecting, Owned, LeaseStates, Units
<1>12. ASSUME NEW r \in Runs, GiveBack(r) PROVE Local'
  <2>1. CASE StopKeeper(r)
    <3>1. Started'
      BY <2>1 DEF StopKeeper, Started
    <3>2. Scanning'
      BY <2>1 DEF StopKeeper, Scanning, ScanPhases, Lanes
    <3>3. Lanes'
      BY <2>1 DEF StopKeeper, Lanes, ScanPhases, Announced, Markers
    <3>4. Announced'
      BY <2>1 DEF StopKeeper, Announced, ScanPhases, Markers, Artifacts, Lanes
    <3>5. Collecting'
      BY <2>1 DEF StopKeeper, Collecting, Owned, LeaseStates, Started, Scanning
    <3>6. Units'
      <4>1. \A t \in Tables : unit[r][t] \notin {"guarded", "open"}
        BY <2>1 DEF StopKeeper, Units
      <4> QED
        BY <4>1, <2>1 DEF StopKeeper, Units
    <3> QED
      BY <3>1, <3>2, <3>3, <3>4, <3>5, <3>6
  <2>2. CASE GiveBackDone(r)
    BY <2>2 DEF GiveBackDone, Started, Scanning, ScanPhases, Lanes, Announced, Markers,
       Artifacts, Collecting, Owned, LeaseStates, Units
  <2> QED
    BY <1>12, <2>1, <2>2 DEF GiveBack
<1>13. ASSUME NEW r \in Runs, NEW t \in Tables, NEW a \in Artifacts, NEW ok \in BOOLEAN,
   GiveBackMarker(r, t, a, ok) PROVE Local'
  BY <1>13 DEF GiveBackMarker, Started, Scanning, ScanPhases, Lanes, Announced, Markers,
     Artifacts, Collecting, Owned, LeaseStates, Units
<1>14. ASSUME NEW r \in Runs, NEW t \in Tables, NEW ok \in BOOLEAN, LeaseClose(r, t, ok) PROVE
   Local'
  BY <1>14 DEF LeaseClose, Started, Scanning, ScanPhases, Lanes, Announced, Markers,
     Artifacts, Collecting, Owned, LeaseStates, Units
<1>15. ASSUME NEW r \in Runs, NEW t \in Tables, NEW ok \in BOOLEAN, Bulk(r, t, ok) PROVE
   Local'
  <2>1. CASE CreateStaging(r, t, ok)
    BY <2>1 DEF CreateStaging, Started, Scanning, ScanPhases, Lanes, Announced, Markers,
       Artifacts, Collecting, Owned, LeaseStates, Units
  <2>2. CASE ReleaseLock(r, t, ok)
    BY <2>2 DEF ReleaseLock, Started, Scanning, ScanPhases, Lanes, Announced, Markers,
       Artifacts, Collecting, Owned, LeaseStates, Units
  <2>3. CASE Finalize(r, t)
    BY <2>3 DEF Finalize, Started, Scanning, ScanPhases, Lanes, Announced, Markers, Artifacts,
       Collecting, Owned, LeaseStates, Units
  <2>4. CASE Discard(r, t, ok)
    BY <2>4 DEF Discard, Started, Scanning, ScanPhases, Lanes, Announced, Markers, Artifacts,
       Collecting, Owned, LeaseStates, Units
  <2> QED
    BY <1>15, <2>1, <2>2, <2>3, <2>4 DEF Bulk
<1>16. ASSUME NEW r \in Runs, NEW t \in Tables, Expire(r, t) PROVE Local'
  BY <1>16 DEF Expire, Started, Scanning, ScanPhases, Lanes, Announced, Markers, Artifacts,
     Collecting, Owned, LeaseStates, Units
<1>17. ASSUME NEW r \in Runs, Crash(r) PROVE Local'
  BY <1>17 DEF Crash, Running, Children, Started, Scanning, ScanPhases, Lanes, Announced,
     Markers, Artifacts, Collecting, Owned, LeaseStates, Units
<1> HIDE DEF Local, TypeOK, Drains, Bulks
<1> QED
  BY <1>1, <1>2, <1>3, <1>4, <1>5, <1>6, <1>7, <1>8, <1>9, <1>10, <1>11, <1>12, <1>13, <1>14,
     <1>15, <1>16, <1>17, <1>u DEF Next, Work, vars

\* Markers and stagings a run counts on stay in the catalog: a collector drops only
\* what it has claimed, and a bulk run's staging is there before its Lock goes.
LEMMA PresentStep == IInv /\ [Next]_vars => (MarkersPresent /\ StagingPresent)'
<1> SUFFICES ASSUME IInv, [Next]_vars PROVE (MarkersPresent /\ StagingPresent)'
  OBVIOUS
<1> USE RunsAssumption DEF IInv, Local, Valid, TypeOK, Drains, Bulks, scanVars, unitVars
<1>u. ASSUME UNCHANGED <<pc, catalog, lease, made>> PROVE (MarkersPresent /\ StagingPresent)'
  BY <1>u DEF MarkersPresent, StagingPresent
<1>1. ASSUME NEW r \in Runs, Start(r) PROVE (MarkersPresent /\ StagingPresent)'
  <2>1. CASE LeaseOpen(r)
    <3>1. MarkersPresent'
      BY <2>1 DEF LeaseOpen, MarkersPresent, Announced
    <3>2. StagingPresent'
      BY <2>1 DEF LeaseOpen, StagingPresent
    <3> QED
      BY <3>1, <3>2
  <2>2. CASE BeginLoad(r)
    BY <2>2 DEF BeginLoad, MarkersPresent, StagingPresent
  <2> QED
    BY <1>1, <2>1, <2>2 DEF Start
<1>2. ASSUME NEW r \in Runs, NEW t \in Tables, NEW a \in Artifacts, Announce(r, t, a) PROVE
   (MarkersPresent /\ StagingPresent)'
  <2>1. CASE CreateMarker(r, t, a)
    BY <2>1 DEF CreateMarker, NextMarker, MarkersPresent, StagingPresent
  <2>2. CASE AnnounceFails(r, t, a)
    BY <2>2 DEF AnnounceFails, NextMarker, MarkersPresent, StagingPresent
  <2> QED
    BY <1>2, <2>1, <2>2 DEF Announce
<1>3. ASSUME NEW r \in Runs, NEW t \in Tables, NEW ok \in BOOLEAN, UndoAnnounce(r, t, ok)
   PROVE (MarkersPresent /\ StagingPresent)'
  BY <1>3 DEF UndoAnnounce, MarkersPresent, StagingPresent
<1>4. ASSUME NEW r \in Runs, NEW t \in Tables, Scan(r, t) PROVE (MarkersPresent /\
   StagingPresent)'
  <2>1. CASE ListLocks(r, t)
    BY <2>1 DEF ListLocks, Listed, MarkersPresent, StagingPresent
  <2>2. CASE MeetLive(r, t)
    BY <2>2 DEF MeetLive, Met, Listed, Refuse, Leave, Refused, Collectable, MarkersPresent,
       StagingPresent
  <2>3. CASE MeetDrains(r, t)
    BY <2>3 DEF MeetDrains, Met, Listed, Collectable, MarkersPresent, StagingPresent
  <2>4. CASE MeetNobody(r, t)
    BY <2>4 DEF MeetNobody, Met, Listed, Pass, Leave, Cleared, MarkersPresent, StagingPresent
  <2> QED
    BY <1>4, <2>1, <2>2, <2>3, <2>4 DEF Scan
<1>5. ASSUME NEW r \in Runs, NEW t \in Tables, NEW q \in Runs, Decide(r, t, q) PROVE
   (MarkersPresent /\ StagingPresent)'
  <2>1. CASE FindLapsed(r, t, q)
    BY <2>1 DEF FindLapsed, Lapsed, MarkersPresent, StagingPresent
  <2>2. CASE FindOwned(r, t, q)
    BY <2>2 DEF FindOwned, Refuse, Leave, Refused, Lapsed, MarkersPresent, StagingPresent
  <2>3. CASE ClaimTaken(r, t, q)
    <3>1. MarkersPresent'
      BY <2>3 DEF ClaimTaken, MarkersPresent, Owned, Lapsed
    <3>2. StagingPresent'
      BY <2>3 DEF ClaimTaken, Lapsed, RowLocked, StagingPresent
    <3> QED
      BY <3>1, <3>2
  <2>4. CASE ClaimRefused(r, t, q)
    BY <2>4 DEF ClaimRefused, Refuse, Leave, Refused, MarkersPresent, StagingPresent
  <2> QED
    BY <1>5, <2>1, <2>2, <2>3, <2>4 DEF Decide
<1>6. ASSUME NEW r \in Runs, CheckFails(r) PROVE (MarkersPresent /\ StagingPresent)'
  BY <1>6 DEF CheckFails, Refuse, Leave, Refused, MarkersPresent, StagingPresent
<1>7. ASSUME NEW r \in Runs, NEW t \in Tables, NEW q \in Runs, NEW a \in Artifacts, NEW ok \in
   BOOLEAN, Collect(r, t, q, a, ok) PROVE (MarkersPresent /\ StagingPresent)'
  <2>1. DropOne(r, t, q, a, ok)
    BY <1>7 DEF Collect, Collected, DropCollected, CollectFails, CollectNext, CollectLast
  <2>2. q \in Drains /\ lease[q][t] \notin Owned
    BY <2>1 DEF DropOne, Collecting
  <2>3. catalog \ {<<q, t, a>>} \subseteq catalog' /\ UNCHANGED <<made, lease>>
    BY <2>1 DEF DropOne
  <2>4. pc'[r] \notin {"unlock", "load"} /\ \A p \in Runs : p # r => pc'[p] = pc[p]
    <3>1. CASE DropCollected(r, t, q, a, ok)
      BY <3>1 DEF DropCollected, DropOne
    <3>2. CASE CollectFails(r, t, q, a, ok)
      BY <3>2 DEF CollectFails, Refuse, Refused, Leave
    <3>3. CASE CollectNext(r, t, q, a, ok)
      BY <3>3 DEF CollectNext
    <3>4. CASE CollectLast(r, t, q, a, ok)
      BY <3>4 DEF CollectLast, Pass, Cleared, Leave
    <3> QED
      BY <1>7, <3>1, <3>2, <3>3, <3>4 DEF Collect, Collected
  <2>5. MarkersPresent'
    BY <2>2, <2>3 DEF MarkersPresent
  <2>6. StagingPresent'
    BY <2>2, <2>3, <2>4 DEF StagingPresent, Lanes
  <2> QED
    BY <2>5, <2>6
<1>8. ASSUME NEW r \in Runs, NEW t \in Tables, NEW ok \in BOOLEAN, UnitStep(r, t, ok) PROVE
   (MarkersPresent /\ StagingPresent)'
  <2>1. CASE CloseUnit(r, t, ok)
    BY <2>1 DEF CloseUnit, MarkersPresent, StagingPresent
  <2> QED
    BY <1>8, <2>1, <1>u DEF UnitStep, GuardUnit, OpenUnit
<1>9. ASSUME NEW r \in Runs, Keeper(r) PROVE (MarkersPresent /\ StagingPresent)'
  <2>1. CASE KeeperRenew(r)
    BY <2>1 DEF KeeperRenew, RowLocked, MarkersPresent, StagingPresent
  <2> QED
    BY <1>9, <2>1, <1>u DEF Keeper, KeeperCheck
<1>10. ASSUME NEW r \in Runs, BeginRelease(r) PROVE (MarkersPresent /\ StagingPresent)'
  BY <1>10 DEF BeginRelease, Running, Children, MarkersPresent, StagingPresent
<1>11. ASSUME NEW r \in Runs, GiveBack(r) PROVE (MarkersPresent /\ StagingPresent)'
  <2>1. CASE StopKeeper(r)
    BY <2>1 DEF StopKeeper, MarkersPresent, StagingPresent
  <2>2. CASE GiveBackDone(r)
    BY <2>2 DEF GiveBackDone, MarkersPresent, StagingPresent
  <2> QED
    BY <1>11, <2>1, <2>2 DEF GiveBack
<1>12. ASSUME NEW r \in Runs, NEW t \in Tables, NEW a \in Artifacts, NEW ok \in BOOLEAN,
   GiveBackMarker(r, t, a, ok) PROVE (MarkersPresent /\ StagingPresent)'
  BY <1>12 DEF GiveBackMarker, MarkersPresent, StagingPresent
<1>13. ASSUME NEW r \in Runs, NEW t \in Tables, NEW ok \in BOOLEAN, LeaseClose(r, t, ok) PROVE
   (MarkersPresent /\ StagingPresent)'
  BY <1>13 DEF LeaseClose, MarkersPresent, StagingPresent
<1>14. ASSUME NEW r \in Runs, NEW t \in Tables, NEW ok \in BOOLEAN, Bulk(r, t, ok) PROVE
   (MarkersPresent /\ StagingPresent)'
  <2>1. CASE CreateStaging(r, t, ok)
    <3>1. MarkersPresent'
      BY <2>1 DEF CreateStaging, MarkersPresent
    <3>2. StagingPresent'
      <4>1. Targets[r] = {t}
        BY <2>1, LineageAssumption DEF CreateStaging, Lanes
      <4> QED
        BY <4>1, <2>1 DEF CreateStaging, StagingPresent
    <3> QED
      BY <3>1, <3>2
  <2>2. CASE ReleaseLock(r, t, ok)
    BY <2>2 DEF ReleaseLock, MarkersPresent, StagingPresent
  <2>3. CASE Finalize(r, t)
    <3>1. MarkersPresent'
      <4>1. "Staging" \notin made[r][t]
        BY <2>3 DEF Finalize, Announced, Markers, Lanes
      <4> QED
        BY <4>1, <2>3 DEF Finalize, MarkersPresent
    <3>2. StagingPresent'
      BY <2>3 DEF Finalize, StagingPresent
    <3> QED
      BY <3>1, <3>2
  <2>4. CASE Discard(r, t, ok)
    <3>1. MarkersPresent'
      <4>1. "Staging" \notin made[r][t]
        BY <2>4 DEF Discard, Announced, Markers, Lanes
      <4> QED
        BY <4>1, <2>4 DEF Discard, MarkersPresent
    <3>2. StagingPresent'
      BY <2>4 DEF Discard, StagingPresent
    <3> QED
      BY <3>1, <3>2
  <2> QED
    BY <1>14, <2>1, <2>2, <2>3, <2>4 DEF Bulk
<1>15. ASSUME NEW r \in Runs, NEW t \in Tables, Expire(r, t) PROVE (MarkersPresent /\
   StagingPresent)'
  <2>1. StagingPresent'
    BY <1>15 DEF Expire, StagingPresent
  <2>2. MarkersPresent'
    BY <1>15 DEF Expire, MarkersPresent, Owned, Lapsed
  <2> QED
    BY <2>1, <2>2
<1>16. ASSUME NEW r \in Runs, Crash(r) PROVE (MarkersPresent /\ StagingPresent)'
  BY <1>16 DEF Crash, Running, Children, MarkersPresent, StagingPresent
<1> HIDE DEF Local, Valid, TypeOK, Drains, Bulks
<1> QED
  BY <1>1, <1>2, <1>3, <1>4, <1>5, <1>6, <1>7, <1>8, <1>9, <1>10, <1>11, <1>12, <1>13, <1>14,
     <1>15, <1>16, <1>u DEF Next, Work, vars, WantUnit

\* The heart of the argument: whichever of two rivals lists second finds the first.
LEMMA OrderedStep == IInv /\ [Next]_vars => Ordered'
<1> SUFFICES ASSUME IInv, [Next]_vars PROVE Ordered'
  OBVIOUS
<1> USE DEF IInv, Local, scanVars, unitVars
<1>u. ASSUME UNCHANGED <<pc, lease, checked, tab, seen>> PROVE Ordered'
  BY <1>u DEF Ordered, Rivals, Past, Half, Acting, Valid, ScanPhases, TypeOK
<1>1. ASSUME NEW r \in Runs, Start(r) PROVE Ordered'
  <2>1. CASE LeaseOpen(r)
    BY <2>1 DEF LeaseOpen, Ordered, Rivals, Past, Half, Acting, Valid, ScanPhases, TypeOK
  <2>2. CASE BeginLoad(r)
    BY <2>2 DEF BeginLoad, Ordered, Rivals, Past, Half, Acting, Valid, ScanPhases, TypeOK
  <2> QED
    BY <1>1, <2>1, <2>2 DEF Start
<1>2. ASSUME NEW r \in Runs, NEW t \in Tables, NEW a \in Artifacts, Announce(r, t, a) PROVE
   Ordered'
  <2>1. CASE CreateMarker(r, t, a)
    <3>1. \A q \in Runs, t_1 \in Tables : ~Past(r, q, t_1)' /\ ~Half(r, q, t_1)'
      BY <2>1 DEF CreateMarker, Past, Half, Scanning, TypeOK
    <3>2. \A p, q \in Runs, u \in Tables : p # r /\ q # r /\ Rivals(p, q, u)' => Rivals(p, q, u)
      BY <2>1 DEF CreateMarker, Rivals, Acting, Valid, TypeOK
    <3>3. \A p, q \in Runs, u \in Tables : p # r =>
              /\ Past(p, q, u)' <=> Past(p, q, u)
              /\ Half(p, q, u)' <=> Half(p, q, u)
              /\ pc'[p] = pc[p]
      BY <2>1 DEF CreateMarker, Past, Half, TypeOK
    <3> QED
      BY <3>1, <3>2, <3>3 DEF Ordered
  <2>2. CASE AnnounceFails(r, t, a)
    BY <2>2 DEF AnnounceFails, NextMarker, Ordered, Rivals, Past, Half, Acting, Valid,
       ScanPhases, TypeOK
  <2> QED
    BY <1>2, <2>1, <2>2 DEF Announce
<1>3. ASSUME NEW r \in Runs, NEW t \in Tables, NEW ok \in BOOLEAN, UndoAnnounce(r, t, ok)
   PROVE Ordered'
  BY <1>3 DEF UndoAnnounce, Ordered, Rivals, Past, Half, Acting, Valid, ScanPhases, TypeOK
<1>4. ASSUME NEW r \in Runs, NEW t \in Tables, Scan(r, t) PROVE Ordered'
  <2>1. CASE ListLocks(r, t)
    <3>1. \A q \in Runs : Rivals(r, q, t) /\ Half(r, q, t)' => pc[q] = "load"
      BY <2>1, RivalListed DEF ListLocks, Half, TypeOK
    <3>2. \A p, q \in Runs, u \in Tables : Rivals(p, q, u)' => Rivals(p, q, u)
      BY <2>1 DEF ListLocks, Rivals, Acting, ScanPhases, Valid, TypeOK
    <3>3. \A p, q \in Runs, u \in Tables : Past(p, q, u)' => Past(p, q, u)
      BY <2>1 DEF ListLocks, Past, TypeOK
    <3>4. \A p, q \in Runs, u \in Tables : p # r => (Half(p, q, u)' <=> Half(p, q, u)) /\ pc'[p] = pc[p]
      BY <2>1 DEF ListLocks, Half, TypeOK
    <3>5. \A q \in Runs, u \in Tables : Half(r, q, u)' => u = t
      BY <2>1 DEF ListLocks, Half, TypeOK
    <3>6. pc[r] = "scan" /\ \A q \in Runs, u \in Tables : pc[q] = "load" => ~Half(q, r, u)
      BY <2>1 DEF ListLocks, Half
    <3>7. \A p, q \in Runs, u \in Tables : Rivals(p, q, u) => Rivals(q, p, u)
      BY DEF Rivals
    <3> QED
      BY <3>1, <3>2, <3>3, <3>4, <3>5, <3>6, <3>7 DEF Ordered
  <2>2. CASE MeetLive(r, t)
    BY <2>2 DEF MeetLive, Met, Listed, Refuse, Leave, Refused, Collectable, Ordered, Rivals,
       Past, Half, Acting, Valid, ScanPhases, TypeOK
  <2>3. CASE MeetDrains(r, t)
    <3>1. \A q \in Runs : Rivals(r, q, t) /\ Past(r, q, t)' /\ ~Past(r, q, t) =>
                  Half(r, q, t) /\ pc[q] \notin {"unlock", "load"}
      BY <2>3, RivalListed DEF MeetDrains, Past, Half, Met, Listed, Artifacts, TypeOK
    <3>2. \A q \in Runs : Rivals(r, q, t) /\ Past(r, q, t)' /\ ~Past(r, q, t) =>
                  ~Past(q, r, t) /\ ~Half(q, r, t)
      BY <3>1 DEF Ordered
    <3>3. \A p, q \in Runs, u \in Tables : Rivals(p, q, u)' => p # q /\ Rivals(p, q, u) /\ Rivals(q, p, u)
      BY <2>3 DEF MeetDrains, Rivals, Acting, ScanPhases, Valid, TypeOK
    <3>4. \A p, q \in Runs, u \in Tables : Past(p, q, u)' => Past(p, q, u) \/ (p = r /\ u = t)
      BY <2>3 DEF MeetDrains, Past, TypeOK, Scanning
    <3>5. \A p, q \in Runs, u \in Tables : Half(p, q, u)' => Half(p, q, u) /\ p # r
      BY <2>3 DEF MeetDrains, Half, TypeOK
    <3>6. pc[r] = "scan2" /\ \A p \in Runs : p # r => pc'[p] = pc[p]
      BY <2>3 DEF MeetDrains, TypeOK
    <3> QED
      BY <3>2, <3>3, <3>4, <3>5, <3>6 DEF Ordered
  <2>4. CASE MeetNobody(r, t)
    <3>1. \A q \in Runs : Rivals(r, q, t) /\ Past(r, q, t)' /\ ~Past(r, q, t) =>
                  Half(r, q, t) /\ pc[q] \notin {"unlock", "load"}
      BY <2>4, RivalListed DEF MeetNobody, Pass, Leave, Cleared, Past, Half, Met, Listed,
         Artifacts, TypeOK
    <3>2. \A q \in Runs : Rivals(r, q, t) /\ Past(r, q, t)' /\ ~Past(r, q, t) =>
                  ~Past(q, r, t) /\ ~Half(q, r, t)
      BY <3>1 DEF Ordered
    <3>3. \A p, q \in Runs, u \in Tables : Rivals(p, q, u)' => p # q /\ Rivals(p, q, u) /\ Rivals(q, p, u)
      BY <2>4 DEF MeetNobody, Pass, Leave, Cleared, Rivals, Acting, ScanPhases, Valid, TypeOK
    <3>4. \A p, q \in Runs, u \in Tables : Past(p, q, u)' => Past(p, q, u) \/ (p = r /\ u = t)
      BY <2>4 DEF MeetNobody, Pass, Leave, Cleared, Past, TypeOK, Scanning
    <3>5. \A p, q \in Runs, u \in Tables : Half(p, q, u)' => Half(p, q, u) /\ p # r
      BY <2>4 DEF MeetNobody, Pass, Leave, Cleared, Half, TypeOK
    <3>6. pc[r] = "scan2" /\ \A p \in Runs : p # r => pc'[p] = pc[p]
      BY <2>4 DEF MeetNobody, Pass, Leave, Cleared, TypeOK
    <3> QED
      BY <3>2, <3>3, <3>4, <3>5, <3>6 DEF Ordered
  <2> QED
    BY <1>4, <2>1, <2>2, <2>3, <2>4 DEF Scan
<1>5. ASSUME NEW r \in Runs, NEW t \in Tables, NEW q \in Runs, Decide(r, t, q) PROVE Ordered'
  <2>1. CASE FindLapsed(r, t, q)
    BY <2>1 DEF FindLapsed, Lapsed, Ordered, Rivals, Past, Half, Acting, Valid, ScanPhases,
       TypeOK
  <2>2. CASE FindOwned(r, t, q)
    BY <2>2 DEF FindOwned, Refuse, Leave, Refused, Lapsed, Ordered, Rivals, Past, Half,
       Acting, Valid, ScanPhases, TypeOK
  <2>3. CASE ClaimTaken(r, t, q)
    <3>1. \A p, s \in Runs, u \in Tables : Rivals(p, s, u)' => Rivals(p, s, u)
      BY <2>3 DEF ClaimTaken, Owned, Rivals, Acting, ScanPhases, Valid, TypeOK
    <3>2. \A p, s \in Runs, u \in Tables : Rivals(p, s, u) /\ Past(p, s, u)' => Past(p, s, u)
      BY <2>3 DEF ClaimTaken, Owned, Past, TypeOK
    <3>3. \A p, s \in Runs, u \in Tables : Half(p, s, u)' => Half(p, s, u)
      BY <2>3 DEF ClaimTaken, Owned, Half, TypeOK
    <3>4. \A p \in Runs : pc[p] \in {"unlock", "load"} => pc'[p] \in {"unlock", "load"}
      BY <2>3 DEF ClaimTaken, Owned, TypeOK
    <3>5. \A p, s \in Runs, u \in Tables : Rivals(p, s, u) => Rivals(s, p, u)
      BY DEF Rivals
    <3> QED
      BY <3>1, <3>2, <3>3, <3>4, <3>5 DEF Ordered
  <2>4. CASE ClaimRefused(r, t, q)
    BY <2>4 DEF ClaimRefused, Refuse, Leave, Refused, Ordered, Rivals, Past, Half, Acting,
       Valid, ScanPhases, TypeOK
  <2> QED
    BY <1>5, <2>1, <2>2, <2>3, <2>4 DEF Decide
<1>6. ASSUME NEW r \in Runs, CheckFails(r) PROVE Ordered'
  BY <1>6 DEF CheckFails, Refuse, Leave, Refused, Ordered, Rivals, Past, Half, Acting, Valid,
     ScanPhases, TypeOK
<1>7. ASSUME NEW r \in Runs, NEW t \in Tables, NEW q \in Runs, NEW a \in Artifacts, NEW ok \in
   BOOLEAN, Collect(r, t, q, a, ok) PROVE Ordered'
  <2>1. CASE DropCollected(r, t, q, a, ok)
    <3>0. \A p \in Runs : Rivals(r, p, t) => p # q
      BY <2>1 DEF DropCollected, DropOne, Collecting, Rivals, Valid
    <3>1. \A p, s \in Runs, u \in Tables : Rivals(p, s, u)' => Rivals(p, s, u)
      BY <2>1 DEF DropCollected, DropOne, Rivals, Acting, ScanPhases, Valid, TypeOK
    <3>2. \A p, s \in Runs, u \in Tables : Rivals(p, s, u) /\ Past(p, s, u)' => Past(p, s, u)
      BY <3>0, <2>1 DEF DropCollected, DropOne, Past, TypeOK, Scanning
    <3>3. \A p, s \in Runs, u \in Tables : Half(p, s, u)' => Half(p, s, u)
      BY <2>1 DEF DropCollected, DropOne, Half, TypeOK
    <3>4. \A p \in Runs : pc[p] \in {"unlock", "load"} => pc'[p] \in {"unlock", "load"}
      BY <2>1 DEF DropCollected, DropOne, TypeOK
    <3>5. \A p, s \in Runs, u \in Tables : Rivals(p, s, u) => Rivals(s, p, u)
      BY DEF Rivals
    <3> QED
      BY <3>1, <3>2, <3>3, <3>4, <3>5 DEF Ordered
  <2>2. CASE CollectFails(r, t, q, a, ok)
    BY <2>2 DEF CollectFails, DropOne, Refuse, Leave, Refused, Ordered, Rivals, Past, Half,
       Acting, Valid, ScanPhases, TypeOK
  <2>3. CASE CollectNext(r, t, q, a, ok)
    <3>0. \A p \in Runs : Rivals(r, p, t) => p # q
      BY <2>3 DEF CollectNext, DropOne, Collecting, Rivals, Valid
    <3>1. \A p, s \in Runs, u \in Tables : Rivals(p, s, u)' => Rivals(p, s, u)
      BY <2>3 DEF CollectNext, DropOne, Rivals, Acting, ScanPhases, Valid, TypeOK
    <3>2. \A p, s \in Runs, u \in Tables : Rivals(p, s, u) /\ Past(p, s, u)' => Past(p, s, u)
      BY <3>0, <2>3 DEF CollectNext, DropOne, Past, TypeOK, Scanning
    <3>3. \A p, s \in Runs, u \in Tables : Half(p, s, u)' => Half(p, s, u)
      BY <2>3 DEF CollectNext, DropOne, Half, TypeOK
    <3>4. \A p \in Runs : pc[p] \in {"unlock", "load"} => pc'[p] \in {"unlock", "load"}
      BY <2>3 DEF CollectNext, DropOne, TypeOK
    <3>5. \A p, s \in Runs, u \in Tables : Rivals(p, s, u) => Rivals(s, p, u)
      BY DEF Rivals
    <3> QED
      BY <3>1, <3>2, <3>3, <3>4, <3>5 DEF Ordered
  <2>4. CASE CollectLast(r, t, q, a, ok)
    <3>0. \A p \in Runs : Rivals(r, p, t) => p # q
      BY <2>4 DEF CollectLast, DropOne, Collecting, Rivals, Valid
    <3>1. \A p, s \in Runs, u \in Tables : Rivals(p, s, u)' => Rivals(p, s, u)
      BY <2>4 DEF CollectLast, DropOne, Pass, Leave, Cleared, Rivals, Acting, ScanPhases,
         Valid, TypeOK
    <3>2. \A p, s \in Runs, u \in Tables : Rivals(p, s, u) /\ Past(p, s, u)' => Past(p, s, u)
      BY <3>0, <2>4 DEF CollectLast, DropOne, Pass, Leave, Cleared, Past, TypeOK, Scanning
    <3>3. \A p, s \in Runs, u \in Tables : Half(p, s, u)' => Half(p, s, u)
      BY <2>4 DEF CollectLast, DropOne, Pass, Leave, Cleared, Half, TypeOK
    <3>4. \A p \in Runs : pc[p] \in {"unlock", "load"} => pc'[p] \in {"unlock", "load"}
      BY <2>4 DEF CollectLast, DropOne, Pass, Leave, Cleared, TypeOK
    <3>5. \A p, s \in Runs, u \in Tables : Rivals(p, s, u) => Rivals(s, p, u)
      BY DEF Rivals
    <3> QED
      BY <3>1, <3>2, <3>3, <3>4, <3>5 DEF Ordered
  <2> QED
    BY <1>7, <2>1, <2>2, <2>3, <2>4 DEF Collect, Collected
<1>8. ASSUME NEW r \in Runs, NEW t \in Tables, NEW ok \in BOOLEAN, UnitStep(r, t, ok) PROVE
   Ordered'
  <2>1. CASE CloseUnit(r, t, ok)
    BY <2>1 DEF CloseUnit, Ordered, Rivals, Past, Half, Acting, Valid, ScanPhases, TypeOK
  <2> QED
    BY <1>8, <2>1, <1>u DEF UnitStep, GuardUnit, OpenUnit
<1>9. ASSUME NEW r \in Runs, Keeper(r) PROVE Ordered'
  <2>1. CASE KeeperRenew(r)
    BY <2>1 DEF KeeperRenew, RowLocked, Ordered, Rivals, Past, Half, Acting, Valid,
       ScanPhases, TypeOK
  <2> QED
    BY <1>9, <2>1, <1>u DEF Keeper, KeeperCheck
<1>10. ASSUME NEW r \in Runs, BeginRelease(r) PROVE Ordered'
  BY <1>10 DEF BeginRelease, Running, Children, Ordered, Rivals, Past, Half, Acting, Valid,
     ScanPhases, TypeOK
<1>11. ASSUME NEW r \in Runs, GiveBack(r) PROVE Ordered'
  <2>1. CASE StopKeeper(r)
    BY <2>1 DEF StopKeeper, Ordered, Rivals, Past, Half, Acting, Valid, ScanPhases, TypeOK
  <2>2. CASE GiveBackDone(r)
    <3>1. \A p, s \in Runs, u \in Tables : Rivals(p, s, u)' => Rivals(p, s, u)
      BY <2>2 DEF GiveBackDone, Rivals, Acting, ScanPhases, Valid, TypeOK
    <3>2. \A p, s \in Runs, u \in Tables : Rivals(p, s, u) /\ Past(p, s, u)' => Past(p, s, u)
      BY <2>2 DEF GiveBackDone, Past, TypeOK
    <3>3. \A p, s \in Runs, u \in Tables : Half(p, s, u)' => Half(p, s, u)
      BY <2>2 DEF GiveBackDone, Half, TypeOK
    <3>4. \A p \in Runs : pc[p] \in {"unlock", "load"} => pc'[p] \in {"unlock", "load"}
      BY <2>2 DEF GiveBackDone, TypeOK
    <3>5. \A p, s \in Runs, u \in Tables : Rivals(p, s, u) => Rivals(s, p, u)
      BY DEF Rivals
    <3> QED
      BY <3>1, <3>2, <3>3, <3>4, <3>5 DEF Ordered
  <2> QED
    BY <1>11, <2>1, <2>2 DEF GiveBack
<1>12. ASSUME NEW r \in Runs, NEW t \in Tables, NEW ok \in BOOLEAN, LeaseClose(r, t, ok) PROVE
   Ordered'
  BY <1>12 DEF LeaseClose, Ordered, Rivals, Past, Half, Acting, Valid, ScanPhases, TypeOK
<1>13. ASSUME NEW r \in Runs, NEW t \in Tables, NEW ok \in BOOLEAN, Bulk(r, t, ok) PROVE
   Ordered'
  <2>1. CASE CreateStaging(r, t, ok)
    <3>1. \A p, s \in Runs, u \in Tables : Rivals(p, s, u)' => Rivals(p, s, u)
      BY <2>1 DEF CreateStaging, Rivals, Acting, ScanPhases, Valid, TypeOK
    <3>2. \A p, s \in Runs, u \in Tables : Rivals(p, s, u) /\ Past(p, s, u)' => Past(p, s, u)
      BY <2>1 DEF CreateStaging, Past, TypeOK
    <3>3. \A p, s \in Runs, u \in Tables : Half(p, s, u)' => Half(p, s, u)
      BY <2>1 DEF CreateStaging, Half, TypeOK
    <3>4. \A p \in Runs : pc[p] \in {"unlock", "load"} => pc'[p] \in {"unlock", "load"}
      BY <2>1 DEF CreateStaging, TypeOK
    <3>5. \A p, s \in Runs, u \in Tables : Rivals(p, s, u) => Rivals(s, p, u)
      BY DEF Rivals
    <3> QED
      BY <3>1, <3>2, <3>3, <3>4, <3>5 DEF Ordered
  <2>2. CASE ReleaseLock(r, t, ok)
    <3>1. \A p, s \in Runs, u \in Tables : Rivals(p, s, u)' => Rivals(p, s, u)
      BY <2>2 DEF ReleaseLock, Rivals, Acting, ScanPhases, Valid, TypeOK
    <3>2. \A p, s \in Runs, u \in Tables : Rivals(p, s, u) /\ Past(p, s, u)' => Past(p, s, u)
      BY <2>2 DEF ReleaseLock, Past, TypeOK
    <3>3. \A p, s \in Runs, u \in Tables : Half(p, s, u)' => Half(p, s, u)
      BY <2>2 DEF ReleaseLock, Half, TypeOK
    <3>4. \A p \in Runs : pc[p] \in {"unlock", "load"} => pc'[p] \in {"unlock", "load"}
      BY <2>2 DEF ReleaseLock, TypeOK
    <3>5. \A p, s \in Runs, u \in Tables : Rivals(p, s, u) => Rivals(s, p, u)
      BY DEF Rivals
    <3> QED
      BY <3>1, <3>2, <3>3, <3>4, <3>5 DEF Ordered
  <2>3. CASE Finalize(r, t)
    BY <2>3 DEF Finalize, Ordered, Rivals, Past, Half, Acting, Valid, ScanPhases, TypeOK
  <2>4. CASE Discard(r, t, ok)
    BY <2>4 DEF Discard, Ordered, Rivals, Past, Half, Acting, Valid, ScanPhases, TypeOK
  <2> QED
    BY <1>13, <2>1, <2>2, <2>3, <2>4 DEF Bulk
<1>14. ASSUME NEW r \in Runs, NEW t \in Tables, Expire(r, t) PROVE Ordered'
  <2>1. \A p, s \in Runs, u \in Tables : Rivals(p, s, u)' => Rivals(p, s, u)
    BY <1>14 DEF Expire, Owned, Rivals, Acting, ScanPhases, Valid, TypeOK
  <2>2. \A p, s \in Runs, u \in Tables : Rivals(p, s, u) /\ Past(p, s, u)' => Past(p, s, u)
    BY <1>14 DEF Expire, Owned, Past, TypeOK
  <2>3. \A p, s \in Runs, u \in Tables : Half(p, s, u)' => Half(p, s, u)
    BY <1>14 DEF Expire, Owned, Half, TypeOK
  <2>4. \A p \in Runs : pc[p] \in {"unlock", "load"} => pc'[p] \in {"unlock", "load"}
    BY <1>14 DEF Expire, Owned, TypeOK
  <2>5. \A p, s \in Runs, u \in Tables : Rivals(p, s, u) => Rivals(s, p, u)
    BY DEF Rivals
  <2> QED
    BY <2>1, <2>2, <2>3, <2>4, <2>5 DEF Ordered
<1>15. ASSUME NEW r \in Runs, Crash(r) PROVE Ordered'
  BY <1>15 DEF Crash, Running, Children, Ordered, Rivals, Past, Half, Acting, Valid,
     ScanPhases, TypeOK
<1> HIDE DEF Local
<1> QED
  BY <1>1, <1>2, <1>3, <1>4, <1>5, <1>6, <1>7, <1>8, <1>9, <1>10, <1>11, <1>12, <1>13, <1>14,
     <1>15, <1>u DEF Next, Work, vars, WantUnit, GiveBackMarker

\* If no undo DROP fails, a drain loses track of none of its markers.
LEMMA RowStep ==
    ASSUME "undo" \notin Faults, IInv, RowInv, [Next]_vars
    PROVE  RowInv'
<1> USE RunsAssumption DEF IInv, Local, RowInv, TypeOK, Drains, Bulks, scanVars, unitVars
<1>u. ASSUME UNCHANGED <<pc, catalog, lease, made, kept>> PROVE RowInv'
  BY <1>u DEF Leased, Accounted
<1>1. ASSUME NEW r \in Runs, Start(r) PROVE RowInv'
  <2>1. CASE LeaseOpen(r)
    BY <2>1 DEF LeaseOpen, Leased, Accounted
  <2>2. CASE BeginLoad(r)
    <3>1. Leased'
      BY <2>2 DEF BeginLoad, Leased
    <3>2. Accounted'
      BY <2>2 DEF BeginLoad, Accounted
    <3> QED
      BY <3>1, <3>2
  <2> QED
    BY <1>1, <2>1, <2>2 DEF Start
<1>2. ASSUME NEW r \in Runs, NEW t \in Tables, NEW a \in Artifacts, Announce(r, t, a) PROVE
   RowInv'
  <2>1. CASE CreateMarker(r, t, a)
    <3>1. Leased'
      BY <2>1 DEF CreateMarker, NextMarker, Leased
    <3>2. Accounted'
      <4>1. t \in Targets[r] /\ (r \in Drains => lease[r][t] # "none")
        BY <2>1 DEF CreateMarker, NextMarker, Leased
      <4>2. catalog' = catalog \cup {<<r, t, a>>} /\ a \in made'[r][t] /\ UNCHANGED <<lease, kept>>
        BY <2>1 DEF CreateMarker
      <4>3. pc[r] = "announce" /\ \A p \in Runs : p # r => pc'[p] = pc[p] /\ made'[p] = made[p]
        BY <2>1 DEF CreateMarker
      <4>4. \A u \in Tables : made[r][u] \subseteq made'[r][u]
        BY <2>1 DEF CreateMarker
      <4> QED
        BY <4>1, <4>2, <4>3, <4>4 DEF Accounted
    <3> QED
      BY <3>1, <3>2
  <2>2. CASE AnnounceFails(r, t, a)
    BY <2>2 DEF AnnounceFails, NextMarker, Leased, Accounted
  <2> QED
    BY <1>2, <2>1, <2>2 DEF Announce
<1>3. ASSUME NEW r \in Runs, NEW t \in Tables, NEW ok \in BOOLEAN, UndoAnnounce(r, t, ok)
   PROVE RowInv'
  <2>1. Leased'
    BY <1>3 DEF UndoAnnounce, Leased
  <2>2. Accounted'
    BY <1>3 DEF UndoAnnounce, Outcomes, Accounted
  <2> QED
    BY <2>1, <2>2
<1>4. ASSUME NEW r \in Runs, NEW t \in Tables, Scan(r, t) PROVE RowInv'
  <2>1. CASE ListLocks(r, t)
    BY <2>1 DEF ListLocks, Listed, Leased, Accounted
  <2>2. CASE MeetLive(r, t)
    BY <2>2 DEF MeetLive, Met, Listed, Refuse, Leave, Refused, Collectable, Leased, Accounted
  <2>3. CASE MeetDrains(r, t)
    BY <2>3 DEF MeetDrains, Met, Listed, Collectable, Leased, Accounted
  <2>4. CASE MeetNobody(r, t)
    BY <2>4 DEF MeetNobody, Met, Listed, Pass, Leave, Cleared, Leased, Accounted
  <2> QED
    BY <1>4, <2>1, <2>2, <2>3, <2>4 DEF Scan
<1>5. ASSUME NEW r \in Runs, NEW t \in Tables, NEW q \in Runs, Decide(r, t, q) PROVE RowInv'
  <2>1. CASE FindLapsed(r, t, q)
    BY <2>1 DEF FindLapsed, Lapsed, Leased, Accounted
  <2>2. CASE FindOwned(r, t, q)
    BY <2>2 DEF FindOwned, Refuse, Leave, Refused, Lapsed, Leased, Accounted
  <2>3. CASE ClaimTaken(r, t, q)
    BY <2>3 DEF ClaimTaken, Lapsed, RowLocked, Leased, Accounted
  <2>4. CASE ClaimRefused(r, t, q)
    BY <2>4 DEF ClaimRefused, Refuse, Leave, Refused, Leased, Accounted
  <2> QED
    BY <1>5, <2>1, <2>2, <2>3, <2>4 DEF Decide
<1>6. ASSUME NEW r \in Runs, CheckFails(r) PROVE RowInv'
  BY <1>6 DEF CheckFails, Refuse, Leave, Refused, Leased, Accounted
<1>7. ASSUME NEW r \in Runs, NEW t \in Tables, NEW q \in Runs, NEW a \in Artifacts, NEW ok \in
   BOOLEAN, Collect(r, t, q, a, ok) PROVE RowInv'
  <2>1. CASE DropCollected(r, t, q, a, ok)
    BY <2>1 DEF DropCollected, DropOne, Leased, Accounted
  <2>2. CASE CollectFails(r, t, q, a, ok)
    BY <2>2 DEF CollectFails, DropOne, Refuse, Leave, Refused, Leased, Accounted
  <2>3. CASE CollectNext(r, t, q, a, ok)
    BY <2>3 DEF CollectNext, DropOne, Leased, Accounted
  <2>4. CASE CollectLast(r, t, q, a, ok)
    BY <2>4 DEF CollectLast, DropOne, Pass, Leave, Cleared, Leased, Accounted
  <2> QED
    BY <1>7, <2>1, <2>2, <2>3, <2>4 DEF Collect, Collected
<1>8. ASSUME NEW r \in Runs, NEW t \in Tables, NEW ok \in BOOLEAN, UnitStep(r, t, ok) PROVE
   RowInv'
  <2>1. CASE CloseUnit(r, t, ok)
    BY <2>1 DEF CloseUnit, Leased, Accounted
  <2> QED
    BY <1>8, <2>1, <1>u DEF UnitStep, GuardUnit, OpenUnit
<1>9. ASSUME NEW r \in Runs, Keeper(r) PROVE RowInv'
  <2>1. CASE KeeperRenew(r)
    BY <2>1 DEF KeeperRenew, RowLocked, Leased, Accounted
  <2> QED
    BY <1>9, <2>1, <1>u DEF Keeper, KeeperCheck
<1>10. ASSUME NEW r \in Runs, BeginRelease(r) PROVE RowInv'
  BY <1>10 DEF BeginRelease, Running, Children, Leased, Accounted
<1>11. ASSUME NEW r \in Runs, GiveBack(r) PROVE RowInv'
  <2>1. CASE StopKeeper(r)
    BY <2>1 DEF StopKeeper, Leased, Accounted
  <2>2. CASE GiveBackDone(r)
    BY <2>2 DEF GiveBackDone, Leased, Accounted
  <2> QED
    BY <1>11, <2>1, <2>2 DEF GiveBack
<1>12. ASSUME NEW r \in Runs, NEW t \in Tables, NEW a \in Artifacts, NEW ok \in BOOLEAN,
   GiveBackMarker(r, t, a, ok) PROVE RowInv'
  BY <1>12 DEF GiveBackMarker, Leased, Accounted
<1>13. ASSUME NEW r \in Runs, NEW t \in Tables, NEW ok \in BOOLEAN, LeaseClose(r, t, ok) PROVE
   RowInv'
  BY <1>13 DEF LeaseClose, Leased, Accounted
<1>14. ASSUME NEW r \in Runs, NEW t \in Tables, NEW ok \in BOOLEAN, Bulk(r, t, ok) PROVE
   RowInv'
  <2>1. CASE CreateStaging(r, t, ok)
    <3>1. Leased'
      BY <2>1 DEF CreateStaging, Leased
    <3>2. Accounted'
      <4>1. r \notin Drains
        BY <2>1 DEF CreateStaging, Lanes
      <4> QED
        BY <4>1, <2>1 DEF CreateStaging, Accounted
    <3> QED
      BY <3>1, <3>2
  <2>2. CASE ReleaseLock(r, t, ok)
    <3>1. Leased'
      BY <2>2 DEF ReleaseLock, Leased
    <3>2. Accounted'
      <4>1. r \notin Drains
        BY <2>2 DEF ReleaseLock, Lanes
      <4> QED
        BY <4>1, <2>2 DEF ReleaseLock, Accounted
    <3> QED
      BY <3>1, <3>2
  <2>3. CASE Finalize(r, t)
    BY <2>3 DEF Finalize, Leased, Accounted
  <2>4. CASE Discard(r, t, ok)
    BY <2>4 DEF Discard, Leased, Accounted
  <2> QED
    BY <1>14, <2>1, <2>2, <2>3, <2>4 DEF Bulk
<1>15. ASSUME NEW r \in Runs, NEW t \in Tables, Expire(r, t) PROVE RowInv'
  BY <1>15 DEF Expire, Leased, Accounted
<1>16. ASSUME NEW r \in Runs, Crash(r) PROVE RowInv'
  BY <1>16 DEF Crash, Running, Children, Leased, Accounted
<1> HIDE DEF Local, RowInv, TypeOK, Drains, Bulks
<1> QED
  BY <1>1, <1>2, <1>3, <1>4, <1>5, <1>6, <1>7, <1>8, <1>9, <1>10, <1>11, <1>12, <1>13, <1>14,
     <1>15, <1>16, <1>u DEF Next, Work, vars, WantUnit

-----------------------------------------------------------------------------
(* The inductive invariant. *)

\* The invariant holds initially.
LEMMA InitIInv == Init => IInv
<1> SUFFICES ASSUME Init PROVE IInv
  OBVIOUS
<1> USE DEF Init
<1>1. TypeOK
  BY DEF TypeOK, Phases, LeaseStates
<1>2. Started /\ Scanning /\ Lanes /\ Collecting
  BY DEF Started, Scanning, Lanes, Collecting
<1>3. Announced /\ Units
  BY DEF Announced, Units, ScanPhases
<1>4. MarkersPresent /\ StagingPresent
  BY DEF MarkersPresent, StagingPresent
<1>5. Ordered
  BY DEF Ordered, Rivals, Acting, ScanPhases
<1> QED
  BY <1>1, <1>2, <1>3, <1>4, <1>5 DEF IInv, Local

\* Every step preserves the whole invariant.
LEMMA NextIInv == IInv /\ [Next]_vars => IInv'
  BY TypeStep, LocalStep, PresentStep, OrderedStep DEF IInv

\* IInv is an invariant of the specification.
THEOREM Inductive == Spec => []IInv
  BY InitIInv, NextIInv, PTL DEF Spec

\* The specification is type correct.
THEOREM TypeCorrect == Spec => []TypeOK
<1>1. IInv => TypeOK
  BY DEF IInv
<1> QED
  BY <1>1, Inductive, PTL

\* Mutual exclusion of the guard (guard.rs check_peers, lease.rs Tenure): two
\* runs that may not coexist never hold one table together.
THEOREM ExclusionHolds == Spec => []Exclusion
<1>1. IInv => Exclusion
  <2> SUFFICES ASSUME IInv, NEW t \in Tables, NEW r \in Runs, NEW q \in Runs,
                      r # q, ~Related(r, q), Holds(r, t), Holds(q, t), PeerBlocks(r, q)
               PROVE  FALSE
    BY DEF Exclusion
  <2>1. PeerBlocks(q, r)
    BY DEF PeerBlocks
  <2>2. Blocks(r, q) /\ Blocks(q, r)
    BY <2>1 DEF Blocks, Related
  <2>3. Rivals(r, q, t)
    BY <2>2 DEF Rivals, Holds, Acting, Valid, ScanPhases
  <2>4. Past(r, q, t) /\ Past(q, r, t)
    BY DEF IInv, Local, Scanning, Holds, Past
  <2> QED
    BY <2>3, <2>4 DEF IInv, Ordered
<1> QED
  BY <1>1, Inductive, PTL

\* An open write unit's run still holds the table (dest_pg.rs open_unit and the
\* `units` lock of lease.rs): no claim and no release overtakes a write.
THEOREM FencedWritesHold == Spec => []FencedWrites
<1>1. IInv => FencedWrites
  BY DEF IInv, Local, Units, FencedWrites, Holds
<1> QED
  BY <1>1, Inductive, PTL

\* A run that may write is in the catalog for every scan to see: the staging
\* of a bulk load exists before its Lock goes, and no live drain is collected.
THEOREM VisibleHolds == Spec => []Visible
<1>1. IInv => Visible
  <2> SUFFICES ASSUME IInv, NEW r \in Runs, NEW t \in Tables, Holds(r, t)
               PROVE  \E a \in Artifacts : <<r, t, a>> \in catalog
    BY DEF Visible
  <2>1. CASE pc[r] \in {"hold", "closing", "stage"}
    <3>1. "Lock" \in made[r][t]
      BY <2>1 DEF IInv, Local, Announced, Holds, Markers
    <3>2. Valid(r, t)
      BY DEF Holds, Valid
    <3> QED
      BY <3>1, <3>2 DEF IInv, MarkersPresent, Artifacts
  <2>2. CASE pc[r] \in {"unlock", "load"}
    BY <2>2 DEF IInv, StagingPresent, Holds, Artifacts
  <2> QED
    BY <2>1, <2>2 DEF Holds
<1> QED
  BY <1>1, Inductive, PTL

\* A row collected by a peer, or closed, is never owned again by its drain:
\* neither the keeper's renewal nor a unit's (sink/postgres.rs lease_renew,
\* dest_pg.rs close_unit) takes back what a claim took.
THEOREM ClaimIsFinalHolds == Spec => ClaimIsFinal
<1>1. IInv /\ [Next]_vars => [NeverReowned]_vars
  <2> SUFFICES ASSUME TypeOK, Started, Next PROVE NeverReowned
    BY DEF IInv, Local
  <2> USE DEF TypeOK, NeverReowned, Owned
  <2>u. ASSUME UNCHANGED lease PROVE NeverReowned
    BY <2>u
  <2>1. ASSUME NEW r \in Runs, LeaseOpen(r) PROVE NeverReowned
    BY <2>1 DEF LeaseOpen, Started
  <2>2. ASSUME NEW r \in Runs, NEW t \in Tables, NEW q \in Runs, ClaimTaken(r, t, q)
        PROVE  NeverReowned
    BY <2>2 DEF ClaimTaken, Lapsed
  <2>3. ASSUME NEW r \in Runs, NEW t \in Tables, NEW ok \in BOOLEAN, CloseUnit(r, t, ok)
        PROVE  NeverReowned
    BY <2>3 DEF CloseUnit
  <2>4. ASSUME NEW r \in Runs, KeeperRenew(r) PROVE NeverReowned
    BY <2>4 DEF KeeperRenew
  <2>5. ASSUME NEW r \in Runs, NEW t \in Tables, NEW ok \in BOOLEAN, LeaseClose(r, t, ok)
        PROVE  NeverReowned
    BY <2>5 DEF LeaseClose
  <2>6. ASSUME NEW r \in Runs, NEW t \in Tables, Expire(r, t) PROVE NeverReowned
    BY <2>6 DEF Expire
  <2> HIDE DEF TypeOK, NeverReowned, Owned
  <2>7. ASSUME NEW r \in Runs, NEW t \in Tables, NEW q \in Runs, Decide(r, t, q)
        PROVE  NeverReowned
    BY <2>7, <2>2, <2>u DEF Decide, FindLapsed, FindOwned, ClaimRefused
  <2>8. ASSUME NEW r \in Runs, NEW t \in Tables, NEW q \in Runs, NEW a \in Artifacts,
               NEW ok \in BOOLEAN, Collect(r, t, q, a, ok)
        PROVE  NeverReowned
    BY <2>8, <2>u DEF Collect, Collected, DropCollected, CollectFails, CollectNext, CollectLast, DropOne
  <2>9. ASSUME NEW r \in Runs, NEW t \in Tables, NEW ok \in BOOLEAN, Bulk(r, t, ok)
        PROVE  NeverReowned
    BY <2>9, <2>u DEF Bulk, CreateStaging, ReleaseLock, Finalize, Discard
  <2>10. ASSUME NEW r \in Runs, Work(r) PROVE NeverReowned
    BY <2>10, <2>5, <2>7, <2>8, <2>9, <2>u DEF Work, CheckFails, GiveBack, StopKeeper, GiveBackDone,
       Announce, CreateMarker, AnnounceFails, UndoAnnounce, GiveBackMarker, Scan, ListLocks,
       MeetLive, MeetDrains, MeetNobody
  <2> QED
    BY <2>1, <2>3, <2>4, <2>6, <2>10, <2>u DEF Next, Start, BeginLoad, BeginRelease, Keeper,
       KeeperCheck, Crash, WantUnit, UnitStep, GuardUnit, OpenUnit
<1> QED
  BY <1>1, Inductive, PTL DEF Spec, ClaimIsFinal

\* A collector removes only the markers of a drain whose row it took first, and
\* nobody ever removes a bulk run's lock or staging (guard.rs check_peers).
THEOREM NoForeignDropHolds == Spec => NoForeignDrop
<1>1. IInv /\ [Next]_vars => [DropsAreClaimed]_vars
  <2> SUFFICES ASSUME IInv, Next PROVE DropsAreClaimed
    OBVIOUS
  <2> USE DEF IInv, TypeOK, DropsAreClaimed
  <2>u. ASSUME catalog \subseteq catalog' PROVE DropsAreClaimed
    BY <2>u
  <2>1. ASSUME NEW r \in Runs, NEW t \in Tables, NEW q \in Runs, NEW a \in Artifacts,
               NEW ok \in BOOLEAN, DropOne(r, t, q, a, ok)
        PROVE  DropsAreClaimed
    <3>1. q \in Drains /\ lease[q][t] \in {"collected", "none"}
      BY <2>1 DEF DropOne, Local, Collecting, Owned, LeaseStates, Drains
    <3>2. \A b \in catalog : b \notin catalog' => b = <<q, t, a>>
      BY <2>1 DEF DropOne
    <3> QED
      BY <3>1, <3>2
  <2>2. ASSUME NEW r \in Runs, NEW t \in Tables, NEW ok \in BOOLEAN, UndoAnnounce(r, t, ok)
        PROVE  DropsAreClaimed
    BY <2>2 DEF UndoAnnounce
  <2>3. ASSUME NEW r \in Runs, NEW t \in Tables, NEW a \in Artifacts, NEW ok \in BOOLEAN,
               GiveBackMarker(r, t, a, ok)
        PROVE  DropsAreClaimed
    BY <2>3 DEF GiveBackMarker
  <2>4. ASSUME NEW r \in Runs, NEW t \in Tables, NEW ok \in BOOLEAN, Bulk(r, t, ok)
        PROVE  DropsAreClaimed
    <3>1. CASE CreateStaging(r, t, ok)
      BY <3>1 DEF CreateStaging
    <3>2. CASE ReleaseLock(r, t, ok)
      BY <3>2 DEF ReleaseLock
    <3>3. CASE Finalize(r, t)
      BY <3>3 DEF Finalize
    <3>4. CASE Discard(r, t, ok)
      BY <3>4 DEF Discard
    <3> QED
      BY <2>4, <3>1, <3>2, <3>3, <3>4 DEF Bulk
  <2>5. ASSUME NEW r \in Runs, NEW t \in Tables, NEW a \in Artifacts, Announce(r, t, a)
        PROVE  catalog \subseteq catalog'
    BY <2>5 DEF Announce, CreateMarker, AnnounceFails
  <2> HIDE DEF TypeOK, DropsAreClaimed
  <2>6. ASSUME NEW r \in Runs, Work(r) PROVE DropsAreClaimed
    BY <2>6, <2>1, <2>2, <2>3, <2>4, <2>5, <2>u DEF Work, CheckFails, GiveBack, StopKeeper, GiveBackDone,
       LeaseClose, Scan, ListLocks, MeetLive, MeetDrains, MeetNobody, Decide, FindLapsed,
       FindOwned, ClaimTaken, ClaimRefused, Collect, Collected, DropCollected, CollectFails, CollectNext,
       CollectLast
  <2> QED
    BY <2>6, <2>u DEF Next, Start, LeaseOpen, BeginLoad, BeginRelease, Keeper, KeeperRenew,
       KeeperCheck, Crash, WantUnit, Expire, UnitStep, GuardUnit, OpenUnit, CloseUnit
<1> QED
  BY <1>1, Inductive, PTL DEF Spec, NoForeignDrop

-----------------------------------------------------------------------------
(* No wedge, when the undo of a half-announcement cannot fail. *)

\* Every marker of a drain has the lease row that lets a later run collect it
\* (lease.rs give_back keeps the row of a table whose markers it could not
\* drop), provided the DROPs that undo a half-announcement succeed; the
\* TenureHalf run shows the proviso is needed.
THEOREM NoWedgeHolds ==
    ASSUME "undo" \notin Faults
    PROVE  Spec => []NoWedge
<1>1. Init => RowInv
  BY DEF Init, RowInv, Leased, Accounted, Drains
<1>2. IInv /\ RowInv /\ [Next]_vars => RowInv'
  BY RowStep
<1>3. RowInv => NoWedge
  BY DEF RowInv, Accounted, NoWedge
<1> QED
  BY <1>1, <1>2, <1>3, Inductive, PTL DEF Spec
=============================================================================
