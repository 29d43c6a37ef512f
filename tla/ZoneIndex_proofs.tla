-------------------------- MODULE ZoneIndex_proofs --------------------------
(***************************************************************************)
(* What becomes of a room that was saved, for every set of rooms, threads  *)
(* and sessions, and any number of edits, faults and calls under way.      *)
(*                                                                         *)
(* The argument: once this dashboard has re-indexed, a room that nothing   *)
(* has given up on has its present rectangle on the way to memory.  Either *)
(* a handler or the timer still has to call, and all of them would call    *)
(* with it; or the last call for the room carries it; or no call is left   *)
(* and memory has it.  A step moves the room along this chain, starts it   *)
(* again, or gives it up.                                                  *)
(***************************************************************************)
EXTENDS ZoneIndex, SemanticMemory_proofs, SequenceTheorems

\* Whoever still has to call for the room read its present rectangle.
PendingAgrees(r) ==
  /\ \A e \in reading : e.room = r => e.area = zones[r]
  /\ \A t \in Thread :
       thread[t] # Resting /\ thread[t].entry.room = r => thread[t].entry.area = zones[r]

LastCall(r) ==
  \E i \in 1..Len(calls) :
    /\ calls[i].room = r /\ calls[i].area = zones[r]
    /\ \A j \in (i + 1)..Len(calls) : calls[j].room # r

NoCall(r) == \A i \in 1..Len(calls) : calls[i].room # r

OnItsWay(r) == PendingAgrees(r) /\ (Pending(r) \/ LastCall(r) \/ (NoCall(r) /\ Agrees(r)))

AllOnTheirWay == reindexed => \A r \in Room \ loose : zones[r] # NoArea => OnItsWay(r)

\* The dashboard's own types.
ZoneParts ==
  /\ zones \in Table
  /\ up \in BOOLEAN /\ found \in BOOLEAN /\ reindexed \in BOOLEAN
  /\ thread \in [Thread -> [pc: {"save"}, entry: Entry] \cup {Resting}]
  /\ reading \subseteq Entry
  /\ \A e, f \in reading : e.room = f.room => e = f
  /\ calls \in Seq(Entry) /\ Len(calls) <= QueueDepth
  /\ loose \subseteq Room
  /\ edits \in 0..MaxEdits /\ faults \in 0..MaxFaults
  /\ ~up => reading = {} /\ ~reindexed /\ \A t \in Thread : thread[t] = Resting

ZoneInv == IInv /\ ZoneParts /\ AllOnTheirWay

-----------------------------------------------------------------------------
LEMMA ZoneConstants ==
  /\ Room \subseteq Zone /\ NoArea \notin Area
  /\ \A a \in Area : Centre[a] \in Position
  /\ \A r \in Room : ZoneId[r] \in PlainId /\ ZoneId[r] \in Id
  /\ \A r, s \in Room : r # s => ZoneId[r] # ZoneId[s]
  /\ MaxEdits \in Nat /\ MaxFaults \in Nat /\ QueueDepth \in Nat \ {0}
BY ZoneAssumption DEF Id

\* What a thread or the timer still has to call with.
LEMMA PendingEntries ==
  ASSUME ZoneParts
  PROVE  /\ \A e \in reading : e \in Entry
         /\ \A t \in Thread : thread[t] # Resting => thread[t].entry \in Entry
BY DEF ZoneParts

LEMMA EntryFacts ==
  ASSUME NEW e \in Entry
  PROVE  e.room \in Room /\ e.area \in Area
BY DEF Entry

LEMMA CallFacts ==
  ASSUME ZoneParts
  PROVE  /\ calls \in Seq(Entry) /\ Len(calls) \in Nat
         /\ \A i \in 1..Len(calls) : calls[i] \in Entry
BY DEF ZoneParts

\* The rooms use rag_node as SemanticMemory describes it.
LEMMA StepsOfMemory ==
  ASSUME ZoneParts, [ZoneNext]_allVars
  PROVE  [Next]_vars
<1>1. CASE \E rs \in Card : ForgetCard(rs)
  <2>1. PICK rs \in Card : ForgetCard(rs)
    BY <1>1
  <2>2. {ZoneId[r] : r \in rs} \in SUBSET Id
    BY ZoneConstants DEF Card
  <2> QED
    BY <2>1, <2>2 DEF ForgetCard, Next
<1>2. CASE StartRag \/ CrashRag
  BY <1>2 DEF StartRag, CrashRag, Next
<1>3. CASE HandleCall
  <2>1. calls \in Seq(Entry) /\ calls # <<>>
    BY <1>3, CallFacts DEF HandleCall
  <2>2. Head(calls) \in Entry
    BY <2>1, HeadTailProperties
  <2> DEFINE e == Head(calls)
  <2>3. e.room \in Room /\ e.area \in Area
    BY <2>2, EntryFacts
  <2>4. ZoneId[e.room] \in PlainId /\ Centre[e.area] \in Position /\ e.room \in Zone
    BY <2>3, ZoneConstants
  <2>5. Index(ZoneId[e.room], Centre[e.area], e.room) \/ UNCHANGED vars
    BY <1>3 DEF HandleCall
  <2> HIDE DEF e
  <2> QED
    BY <2>4, <2>5 DEF Next
<1>4. CASE \E s \in Session : NameMap(s)
  BY <1>4 DEF NameMap, Next
<1>5. CASE \E s \in Session \cup {NoSession} : RelaunchAll(s)
  BY <1>5 DEF RelaunchAll, Next
<1>6. CASE UNCHANGED vars
  BY <1>6
<1> QED
  BY <1>1, <1>2, <1>3, <1>4, <1>5, <1>6
     DEF ZoneNext, SaveZone, IndexZone, DeleteZone, ReadZones, Reindex, Discover,
         StartDashboard, CrashDashboard, allVars

-----------------------------------------------------------------------------
\* The dashboard's types

\* Calls made, handled and lost are still calls.
LEMMA CallsType ==
  ASSUME NEW s \in Seq(Entry), Len(s) <= QueueDepth
  PROVE  /\ \A e \in Entry : Len(s) < QueueDepth =>
              Append(s, e) \in Seq(Entry) /\ Len(Append(s, e)) <= QueueDepth
         /\ \A e \in Entry : Len(s) = QueueDepth =>
              /\ s # <<>> /\ Tail(s) \in Seq(Entry)
              /\ Append(Tail(s), e) \in Seq(Entry) /\ Len(Append(Tail(s), e)) <= QueueDepth
         /\ s # <<>> => Tail(s) \in Seq(Entry) /\ Len(Tail(s)) <= QueueDepth
         /\ \A n \in 0..Len(s) : SubSeq(s, 1, n) \in Seq(Entry) /\ Len(SubSeq(s, 1, n)) <= QueueDepth
         /\ <<>> \in Seq(Entry) /\ Len(<<>>) <= QueueDepth
<1>1. QueueDepth \in Nat \ {0} /\ Len(s) \in Nat
  BY ZoneConstants
<1>2. ASSUME NEW e \in Entry, Len(s) < QueueDepth
      PROVE  Append(s, e) \in Seq(Entry) /\ Len(Append(s, e)) <= QueueDepth
  BY <1>1, <1>2, AppendProperties
<1>3. ASSUME s # <<>>
      PROVE  Tail(s) \in Seq(Entry) /\ Len(Tail(s)) <= QueueDepth
  <2>1. Tail(s) \in Seq(Entry) /\ Len(Tail(s)) = Len(s) - 1
    BY <1>3, HeadTailProperties
  <2> QED
    BY <1>1, <2>1
<1>4. ASSUME NEW n \in 0..Len(s)
      PROVE  SubSeq(s, 1, n) \in Seq(Entry) /\ Len(SubSeq(s, 1, n)) <= QueueDepth
  <2>1. SubSeq(s, 1, n) \in Seq(Entry) /\ Len(SubSeq(s, 1, n)) = n
    BY <1>1, <1>4, SubSeqProperties
  <2> QED
    BY <1>1, <1>4, <2>1
<1>5. <<>> \in Seq(Entry) /\ Len(<<>>) <= QueueDepth
  BY <1>1, EmptySeq
<1>6. ASSUME NEW e \in Entry, Len(s) = QueueDepth
      PROVE  /\ s # <<>> /\ Tail(s) \in Seq(Entry)
             /\ Append(Tail(s), e) \in Seq(Entry) /\ Len(Append(Tail(s), e)) <= QueueDepth
  <2>1. s # <<>>
    BY <1>6, EmptySeq, ZoneConstants
  <2>2. Tail(s) \in Seq(Entry) /\ Len(Tail(s)) = Len(s) - 1
    BY <2>1, HeadTailProperties
  <2> QED
    BY <1>1, <1>6, <2>1, <2>2, AppendProperties
<1> QED
  BY <1>2, <1>3, <1>4, <1>5, <1>6

\* Rooms are given up with the calls that are lost.
LEMMA LostRooms ==
  ASSUME ZoneParts, NEW cs, \A i \in DOMAIN cs : cs[i] \in Entry, Lose(cs)
  PROVE  loose' \subseteq Room
BY EntryFacts DEF ZoneParts, Lose

LEMMA IndexCallType ==
  ASSUME ZoneParts, NEW e \in Entry, IndexCall(e)
  PROVE  loose' \subseteq Room /\ calls' \in Seq(Entry) /\ Len(calls') <= QueueDepth
<1>1. calls \in Seq(Entry) /\ Len(calls) <= QueueDepth /\ loose \subseteq Room /\ e.room \in Room
  BY EntryFacts DEF ZoneParts
<1>2. ASSUME Len(calls) = QueueDepth PROVE Head(calls).room \in Room
  <2>1. calls # <<>>
    BY <1>1, <1>2, CallsType
  <2> QED
    BY <1>1, <2>1, HeadTailProperties, EntryFacts
<1> QED
  BY <1>1, <1>2, CallsType DEF IndexCall, DropOldest

LEMMA Counters ==
  ASSUME ZoneParts
  PROVE  (Edit => edits' \in 0..MaxEdits) /\ (Fault => faults' \in 0..MaxFaults)
BY ZoneConstants DEF ZoneParts, Edit, Fault

LEMMA TypeStep ==
  ASSUME IInv, ZoneParts, [ZoneNext]_allVars
  PROVE  ZoneParts'
<1>1. ASSUME NEW t \in Thread, NEW e \in Entry, SaveZone(t, e)
      PROVE  ZoneParts'
  <2>1. zones' \in Table
    BY <1>1, EntryFacts DEF SaveZone, ZoneParts, Table
  <2>2. thread' \in [Thread -> [pc: {"save"}, entry: Entry] \cup {Resting}]
    BY <1>1 DEF SaveZone, ZoneParts
  <2>3. loose' \subseteq Room
    BY <1>1, EntryFacts DEF SaveZone, ZoneParts
  <2>4. up' /\ edits' \in 0..MaxEdits
    BY <1>1, Counters, Zenon DEF SaveZone
  <2>5. UNCHANGED <<up, found, reindexed, reading, calls, faults>>
    BY <1>1 DEF SaveZone
  <2> QED
    BY <2>1, <2>2, <2>3, <2>4, <2>5 DEF ZoneParts
<1>2. ASSUME NEW t \in Thread, IndexZone(t)
      PROVE  ZoneParts'
  <2>1. thread[t].entry \in Entry
    BY <1>2, PendingEntries DEF IndexZone
  <2>2. loose' \subseteq Room /\ calls' \in Seq(Entry) /\ Len(calls') <= QueueDepth
    BY <1>2, <2>1, IndexCallType DEF IndexZone
  <2>3. thread' \in [Thread -> [pc: {"save"}, entry: Entry] \cup {Resting}]
    BY <1>2 DEF IndexZone, ZoneParts
  <2>4. ~up => \A s \in Thread : thread'[s] = Resting
    BY <1>2 DEF IndexZone, ZoneParts
  <2>5. UNCHANGED <<zones, up, found, reindexed, reading, edits, faults>>
    BY <1>2 DEF IndexZone
  <2> QED
    BY <2>2, <2>3, <2>4, <2>5 DEF ZoneParts
<1>3. ASSUME NEW r \in Room, DeleteZone(r)
      PROVE  ZoneParts'
  <2>1. zones' \in Table
    BY <1>3 DEF DeleteZone, ZoneParts, Table
  <2>2. edits' \in 0..MaxEdits
    BY <1>3, Counters DEF DeleteZone
  <2> QED
    BY <1>3, <2>1, <2>2 DEF DeleteZone, dashVars, ZoneParts
<1>4. ASSUME NEW rs \in Card, ForgetCard(rs)
      PROVE  ZoneParts'
  <2>1. loose' \subseteq Room
    BY <1>4 DEF ForgetCard, Card, ZoneParts
  <2>2. edits' \in 0..MaxEdits
    BY <1>4, Counters DEF ForgetCard
  <2> QED
    BY <1>4, <2>1, <2>2 DEF ForgetCard, dashVars, ZoneParts
<1>5. CASE ReadZones
  <2>1. reading' \subseteq Entry /\ \A e, f \in reading' : e.room = f.room => e = f
    BY <1>5 DEF ReadZones, ZoneParts, Table, Entry
  <2>2. loose' \subseteq Room
    BY <1>5 DEF ReadZones
  <2>3. up' /\ reindexed' \in BOOLEAN
    BY <1>5, Zenon DEF ReadZones
  <2>4. UNCHANGED <<zones, up, found, thread, calls, edits, faults>>
    BY <1>5 DEF ReadZones
  <2> QED
    BY <2>1, <2>2, <2>3, <2>4 DEF ZoneParts
<1>6. ASSUME NEW e \in Entry, Reindex(e)
      PROVE  ZoneParts'
  <2>1. loose' \subseteq Room /\ calls' \in Seq(Entry) /\ Len(calls') <= QueueDepth
    BY <1>6, IndexCallType DEF Reindex
  <2>2. reading' \subseteq reading
    BY <1>6 DEF Reindex
  <2>3. UNCHANGED <<zones, up, found, thread, reindexed, edits, faults>>
    BY <1>6 DEF Reindex
  <2> QED
    BY <2>1, <2>2, <2>3 DEF ZoneParts
<1>7. CASE Discover
  <2>1. found' \in BOOLEAN
    BY <1>7, Zenon DEF Discover, IInv, TypeOK
  <2> QED
    BY <1>7, <2>1 DEF Discover, ZoneParts
<1>8. CASE StartRag
  BY <1>8 DEF StartRag, dashVars, ZoneParts
<1>9. CASE HandleCall
  <2>1. calls \in Seq(Entry) /\ Len(calls) <= QueueDepth /\ calls # <<>> /\ calls' = Tail(calls)
    BY <1>9 DEF HandleCall, ZoneParts
  <2>2. calls' \in Seq(Entry) /\ Len(calls') <= QueueDepth /\ Head(calls).room \in Room
    BY <2>1, CallsType, HeadTailProperties, EntryFacts
  <2>3. UNCHANGED <<zones, dashVars, edits>>
    BY <1>9 DEF HandleCall
  <2>4. loose' \subseteq Room /\ faults' \in 0..MaxFaults
    <3>1. UNCHANGED <<loose, faults>> \/ (Fault /\ loose' = loose \cup {Head(calls).room})
      BY <1>9 DEF HandleCall
    <3> QED
      BY <2>2, <3>1, Counters DEF ZoneParts
  <2> QED
    BY <2>2, <2>3, <2>4 DEF dashVars, ZoneParts
<1>10. CASE CrashRag
  <2>1. calls' = <<>> /\ Lose(calls) /\ Fault /\ UNCHANGED <<zones, dashVars, edits>>
    BY <1>10 DEF CrashRag
  <2>2. loose' \subseteq Room
    BY <2>1, CallFacts, LostRooms
  <2>3. calls' \in Seq(Entry) /\ Len(calls') <= QueueDepth /\ faults' \in 0..MaxFaults
    BY <2>1, CallFacts, CallsType, Counters DEF ZoneParts
  <2> QED
    BY <2>1, <2>2, <2>3 DEF dashVars, ZoneParts
<1>11. ASSUME NEW s \in Session, NameMap(s)
       PROVE  ZoneParts'
  <2>1. faults' \in 0..MaxFaults
    BY <1>11, Counters DEF NameMap
  <2> QED
    BY <1>11, <2>1 DEF NameMap, dashVars, ZoneParts
<1>12. CASE StartDashboard
  <2>1. UNCHANGED <<zones, thread, reindexed, reading, calls, loose, edits, faults>>
    BY <1>12 DEF StartDashboard
  <2>2. up' /\ up' \in BOOLEAN /\ found' \in BOOLEAN
    BY <1>12, Zenon DEF StartDashboard
  <2> QED
    BY <2>1, <2>2 DEF ZoneParts
<1>13. ASSUME Gone
       PROVE  /\ up' \in BOOLEAN /\ found' \in BOOLEAN /\ reindexed' \in BOOLEAN /\ reading' = {}
              /\ thread' \in [Thread -> [pc: {"save"}, entry: Entry] \cup {Resting}]
              /\ ~reindexed' /\ \A t \in Thread : thread'[t] = Resting
  <2>1. up' \in BOOLEAN /\ found' \in BOOLEAN /\ reindexed' \in BOOLEAN /\ ~reindexed' /\ reading' = {}
    BY <1>13, Zenon DEF Gone
  <2> QED
    BY <1>13, <2>1 DEF Gone
<1>14. CASE CrashDashboard
  <2>1. Gone /\ Fault /\ UNCHANGED <<zones, edits>>
    BY <1>14 DEF CrashDashboard
  <2>2. PICK n \in 0..Len(calls) :
          calls' = SubSeq(calls, 1, n) /\ Lose(SubSeq(calls, n + 1, Len(calls)))
    BY <1>14 DEF CrashDashboard
  <2>3. calls' \in Seq(Entry) /\ Len(calls') <= QueueDepth
    BY <2>2, CallsType DEF ZoneParts
  <2> DEFINE lost == SubSeq(calls, n + 1, Len(calls))
  <2>4. lost \in Seq(Entry)
    BY CallFacts, SubSeqProperties
  <2>5. \A i \in DOMAIN lost : lost[i] \in Entry
    <3> HIDE DEF lost
    <3> QED
      BY <2>4
  <2>6. loose' \subseteq Room
    <3>1. Lose(lost)
      BY <2>2
    <3> HIDE DEF lost
    <3> QED
      BY <2>5, <3>1, LostRooms
  <2> QED
    BY <1>13, <2>1, <2>3, <2>6, Counters DEF ZoneParts
<1>15. ASSUME NEW s \in Session \cup {NoSession}, RelaunchAll(s)
       PROVE  ZoneParts'
  <2>1. Gone /\ Fault /\ calls' = <<>> /\ Lose(calls) /\ UNCHANGED <<zones, edits>>
    BY <1>15 DEF RelaunchAll
  <2>2. loose' \subseteq Room
    BY <2>1, CallFacts, LostRooms
  <2>3. calls' \in Seq(Entry) /\ Len(calls') <= QueueDepth
    BY <2>1, CallFacts, CallsType DEF ZoneParts
  <2> QED
    BY <1>13, <2>1, <2>2, <2>3, Counters DEF ZoneParts
<1>16. CASE UNCHANGED allVars
  BY <1>16 DEF allVars, zoneVars, dashVars, ZoneParts
<1> QED
  BY <1>1, <1>2, <1>3, <1>4, <1>5, <1>6, <1>7, <1>8, <1>9, <1>10, <1>11, <1>12, <1>14, <1>15, <1>16
     DEF ZoneNext

-----------------------------------------------------------------------------
\* A room on its way stays on its way

\* Whatever does not concern the room.
LEMMA Unconcerned ==
  ASSUME NEW r \in Room, OnItsWay(r), UNCHANGED <<zones, thread, reading, calls, mapId>>,
         store'[ZoneId[r]] = store[ZoneId[r]]
  PROVE  OnItsWay(r)'
BY DEF OnItsWay, PendingAgrees, Pending, LastCall, NoCall, Agrees

LEMMA SaveOnItsWay ==
  ASSUME ZoneParts, NEW t \in Thread, NEW e \in Entry, SaveZone(t, e),
         NEW r \in Room, r \notin loose', zones'[r] # NoArea,
         r \notin loose /\ zones[r] # NoArea => OnItsWay(r)
  PROVE  OnItsWay(r)'
<1>1. thread \in [Thread -> [pc: {"save"}, entry: Entry] \cup {Resting}] /\ zones \in Table
  BY DEF ZoneParts
<1>2. /\ zones' = [zones EXCEPT ![e.room] = e.area]
      /\ thread' = [thread EXCEPT ![t] = [pc |-> "save", entry |-> e]] /\ thread[t] = Resting
      /\ loose' = IF Pending(e.room) THEN loose \cup {e.room} ELSE loose
      /\ UNCHANGED <<vars, reading, calls>>
  BY DEF SaveZone
<1>3. thread'[t].entry = e /\ thread'[t] # Resting /\ \A u \in Thread : u # t => thread'[u] = thread[u]
  BY <1>1, <1>2 DEF Resting
<1>4. CASE r = e.room
  <2>1. ~Pending(r) /\ zones'[r] = e.area
    BY <1>1, <1>2, <1>4 DEF Table
  <2>2. PendingAgrees(r)'
    BY <1>2, <1>3, <2>1 DEF PendingAgrees, Pending
  <2>3. Pending(r)'
    BY <1>3, <1>4 DEF Pending
  <2> QED
    BY <2>2, <2>3 DEF OnItsWay
<1>5. CASE r # e.room
  <2>1. zones'[r] = zones[r] /\ OnItsWay(r)
    BY <1>1, <1>2, <1>5 DEF Table
  <2>2. PendingAgrees(r)'
    BY <1>2, <1>3, <1>5, <2>1 DEF OnItsWay, PendingAgrees
  <2>3. Pending(r) => Pending(r)'
    BY <1>2, <1>3 DEF Pending
  <2>4. LastCall(r) => LastCall(r)'
    BY <1>2, <2>1 DEF LastCall
  <2>5. NoCall(r) /\ Agrees(r) => NoCall(r)' /\ Agrees(r)'
    BY <1>2, <2>1 DEF NoCall, Agrees, vars
  <2> QED
    BY <2>1, <2>2, <2>3, <2>4, <2>5 DEF OnItsWay
<1> QED
  BY <1>4, <1>5

\* A full queue without its oldest call and with a new one.
LEMMA Overtaken ==
  ASSUME calls \in Seq(Entry), Len(calls) = QueueDepth, NEW e \in Entry,
         calls' = Append(Tail(calls), e)
  PROVE  /\ Len(calls) \in Nat \ {0} /\ Len(calls') = Len(calls) /\ Head(calls) = calls[1]
         /\ DOMAIN calls' = 1..Len(calls') /\ calls'[Len(calls)] = e
         /\ \A i \in 1..(Len(calls) - 1) : calls'[i] = calls[i + 1]
<1>1. Len(calls) \in Nat \ {0} /\ calls # <<>>
  BY EmptySeq, ZoneConstants
<1>2. /\ Tail(calls) \in Seq(Entry) /\ Len(Tail(calls)) = Len(calls) - 1
      /\ Head(calls) = calls[1]
      /\ \A i \in 1..(Len(calls) - 1) : Tail(calls)[i] = calls[i + 1]
  BY <1>1, HeadTailProperties
<1>3. /\ calls' \in Seq(Entry) /\ Len(calls') = Len(calls)
      /\ \A i \in 1..(Len(calls) - 1) : calls'[i] = Tail(calls)[i]
      /\ calls'[Len(calls)] = e
  BY <1>1, <1>2, AppendProperties
<1> QED
  BY <1>1, <1>2, <1>3

\* A call is made by one of those that had to: for its room it is the last one
\* and carries the present rectangle, for another it changes nothing.
LEMMA CallOnItsWay ==
  ASSUME ZoneParts, NEW e \in Entry, IndexCall(e), UNCHANGED <<vars, zones>>,
         NEW r \in Room, r \notin loose', OnItsWay(r), PendingAgrees(r)',
         e.room = r => e.area = zones[r],
         e.room # r /\ Pending(r) => Pending(r)'
  PROVE  OnItsWay(r)'
<1>1. calls \in Seq(Entry) /\ Len(calls) \in Nat
  BY CallFacts
<1>2. CASE e.room = r
  <2>1. calls' = Append(calls, e) \/ (Len(calls) = QueueDepth /\ calls' = Append(Tail(calls), e))
    BY <1>2 DEF IndexCall
  <2>2. Len(calls') \in Nat \ {0} /\ calls'[Len(calls')] = e
    <3>1. CASE calls' = Append(calls, e)
      BY <1>1, <3>1, AppendProperties
    <3>2. CASE Len(calls) = QueueDepth /\ calls' = Append(Tail(calls), e)
      BY <1>1, <3>2, Overtaken
    <3> QED
      BY <2>1, <3>1, <3>2
  <2>3. LastCall(r)'
    BY <1>2, <2>2 DEF LastCall
  <2> QED
    BY <2>3 DEF OnItsWay
<1>3. CASE e.room # r
  <2>1. CASE calls' = calls
    <3>1. (LastCall(r) => LastCall(r)') /\ (NoCall(r) /\ Agrees(r) => NoCall(r)' /\ Agrees(r)')
      BY <2>1 DEF LastCall, NoCall, Agrees, vars
    <3> QED
      BY <1>3, <3>1 DEF OnItsWay
  <2>2. CASE calls' = Append(calls, e)
    <3>1. /\ Len(calls') = Len(calls) + 1 /\ calls'[Len(calls) + 1] = e
          /\ \A i \in 1..Len(calls) : calls'[i] = calls[i]
      BY <1>1, <2>2, AppendProperties
    <3>2. ASSUME LastCall(r)
          PROVE  LastCall(r)'
      <4>1. PICK i \in 1..Len(calls) :
              /\ calls[i].room = r /\ calls[i].area = zones[r]
              /\ \A j \in (i + 1)..Len(calls) : calls[j].room # r
        BY <3>2 DEF LastCall
      <4>2. i \in 1..Len(calls') /\ calls'[i].room = r /\ calls'[i].area = zones'[r]
        BY <1>1, <3>1, <4>1
      <4>3. ASSUME NEW j \in (i + 1)..Len(calls')
            PROVE  calls'[j].room # r
        <5>1. (j \in (i + 1)..Len(calls) /\ j \in 1..Len(calls)) \/ j = Len(calls) + 1
          BY <1>1, <3>1
        <5> QED
          BY <1>3, <3>1, <4>1, <5>1
      <4> QED
        BY <4>2, <4>3 DEF LastCall
    <3>3. ASSUME NoCall(r)
          PROVE  NoCall(r)'
      <4>1. ASSUME NEW j \in 1..Len(calls')
            PROVE  calls'[j].room # r
        <5>1. j \in 1..Len(calls) \/ j = Len(calls) + 1
          BY <1>1, <3>1
        <5> QED
          BY <1>3, <3>1, <3>3, <5>1 DEF NoCall
      <4> QED
        BY <4>1 DEF NoCall
    <3>4. Agrees(r) => Agrees(r)'
      BY DEF Agrees, vars
    <3> QED
      BY <1>3, <3>2, <3>3, <3>4 DEF OnItsWay
  <2>3. CASE Len(calls) = QueueDepth /\ calls' = Append(Tail(calls), e) /\ DropOldest
    <3>1. /\ Len(calls') = Len(calls) /\ calls'[Len(calls)] = e /\ Head(calls) = calls[1]
          /\ Len(calls) \in Nat \ {0}
          /\ \A i \in 1..(Len(calls) - 1) : calls'[i] = calls[i + 1]
      BY <1>1, <2>3, Overtaken
    <3>2. ASSUME LastCall(r)
          PROVE  LastCall(r)'
      <4>1. PICK i \in 1..Len(calls) :
              /\ calls[i].room = r /\ calls[i].area = zones[r]
              /\ \A j \in (i + 1)..Len(calls) : calls[j].room # r
        BY <3>2 DEF LastCall
      <4>2. \A j \in i..Len(calls') : j >= 1 => calls'[j].room # r
        <5>1. ASSUME NEW j \in i..Len(calls') PROVE calls'[j].room # r
          <6>1. j = Len(calls) \/ (j \in 1..(Len(calls) - 1) /\ j + 1 \in (i + 1)..Len(calls))
            BY <1>1, <3>1
          <6> QED
            BY <1>3, <3>1, <4>1, <6>1
        <5> QED
          BY <5>1
      <4>3. i # 1
        <5> SUFFICES ASSUME i = 1 PROVE FALSE
          OBVIOUS
        <5>1. DOMAIN calls' = 1..Len(calls') /\ Head(calls).room = r
          BY <1>1, <2>3, <3>1, <4>1, Overtaken
        <5>2. \A j \in DOMAIN calls' : calls'[j].room # r
          BY <4>2, <5>1
        <5> QED
          BY <2>3, <5>1, <5>2 DEF DropOldest
      <4>4. i - 1 \in 1..Len(calls') /\ calls'[i - 1] = calls[i] /\ (i - 1) + 1 = i
        BY <1>1, <3>1, <4>3
      <4>5. \A j \in ((i - 1) + 1)..Len(calls') : calls'[j].room # r
        BY <4>2, <4>4
      <4> QED
        BY <4>1, <4>4, <4>5 DEF LastCall
    <3>3. ASSUME NoCall(r)
          PROVE  NoCall(r)'
      <4>1. ASSUME NEW j \in 1..Len(calls')
            PROVE  calls'[j].room # r
        <5>1. j = Len(calls) \/ (j \in 1..(Len(calls) - 1) /\ j + 1 \in 1..Len(calls))
          BY <1>1, <3>1
        <5> QED
          BY <1>3, <3>1, <3>3, <5>1 DEF NoCall
      <4> QED
        BY <4>1 DEF NoCall
    <3>4. Agrees(r) => Agrees(r)'
      BY DEF Agrees, vars
    <3> QED
      BY <1>3, <3>2, <3>3, <3>4 DEF OnItsWay
  <2> QED
    BY <2>1, <2>2, <2>3 DEF IndexCall
<1> QED
  BY <1>2, <1>3

\* The oldest call is served: memory has what it carries if it was the last one.
LEMMA ServedOnItsWay ==
  ASSUME IInv, ZoneParts, HandleCall, NEW r \in Room, r \notin loose', OnItsWay(r)
  PROVE  OnItsWay(r)'
<1> DEFINE e == Head(calls)
<1>1. /\ calls \in Seq(Entry) /\ Len(calls) \in Nat \ {0} /\ calls' = Tail(calls)
      /\ UNCHANGED <<zones, thread, reading>>
  BY CallFacts, EmptySeq DEF HandleCall, dashVars
<1>2. /\ e = calls[1] /\ e \in Entry /\ Len(calls') = Len(calls) - 1
      /\ \A i \in 1..Len(calls') : calls'[i] = calls[i + 1]
  BY <1>1, HeadTailProperties
<1>3. e.room \in Room /\ e.area \in Area
  BY <1>2, EntryFacts
<1>4. PendingAgrees(r)' /\ (Pending(r) => Pending(r)')
  BY <1>1 DEF OnItsWay, PendingAgrees, Pending
<1>5. ASSUME NoCall(r), Agrees(r)
      PROVE  NoCall(r)' /\ Agrees(r)'
  <2>1. e.room # r /\ NoCall(r)'
    BY <1>1, <1>2, <1>5 DEF NoCall
  <2>2. ZoneId[e.room] # ZoneId[r] /\ ZoneId[r] \in Id /\ ZoneId[e.room] \in Id
    BY <1>3, <2>1, ZoneConstants
  <2>3. store'[ZoneId[r]] = store[ZoneId[r]] /\ mapId' = mapId
    BY <2>2 DEF HandleCall, Index, vars, IInv, TypeOK
  <2> QED
    BY <1>1, <1>5, <2>1, <2>3 DEF Agrees
<1>6. ASSUME LastCall(r)
      PROVE  LastCall(r)' \/ (NoCall(r)' /\ Agrees(r)')
  <2>1. PICK i \in 1..Len(calls) :
          /\ calls[i].room = r /\ calls[i].area = zones[r]
          /\ \A j \in (i + 1)..Len(calls) : calls[j].room # r
    BY <1>6 DEF LastCall
  <2>2. CASE i = 1
    <3>1. \A j \in 1..Len(calls') : j + 1 \in 2..Len(calls)
      BY <1>1, <1>2
    <3>2. NoCall(r)'
      BY <1>2, <2>1, <2>2, <3>1 DEF NoCall
    <3>3. e.room = r /\ e.area = zones[r] /\ r \notin loose'
      BY <1>2, <2>1, <2>2
    <3>4. Index(ZoneId[e.room], Centre[e.area], e.room)
      BY <3>3 DEF HandleCall
    <3>5. store'[ZoneId[r]] = NewMemory(mapId, NoLook, r, Centre[zones[r]]) /\ mapId' = mapId
      BY <3>3, <3>4, ZoneConstants DEF Index, IInv, TypeOK
    <3> QED
      BY <1>1, <3>2, <3>5 DEF Agrees
  <2>3. CASE i # 1
    <3>1. i - 1 \in 1..Len(calls') /\ calls'[i - 1] = calls[i]
      BY <1>1, <1>2, <2>3
    <3>2. ASSUME NEW j \in ((i - 1) + 1)..Len(calls')
          PROVE  calls'[j].room # r
      <4>1. j \in 1..Len(calls') /\ j + 1 \in (i + 1)..Len(calls)
        BY <1>1, <1>2, <2>3
      <4> QED
        BY <1>2, <2>1, <4>1
    <3>3. calls'[i - 1].room = r /\ calls'[i - 1].area = zones'[r]
      BY <1>1, <2>1, <3>1
    <3> QED
      BY <3>1, <3>2, <3>3 DEF LastCall
  <2> QED
    BY <2>2, <2>3
<1> QED
  BY <1>4, <1>5, <1>6 DEF OnItsWay

\* The process died with the calls it had: the rooms that are not given up had none.
LEMMA CrashOnItsWay ==
  ASSUME ZoneParts, CrashRag, NEW r \in Room, r \notin loose', OnItsWay(r)
  PROVE  OnItsWay(r)'
<1>1. /\ calls' = <<>> /\ loose' = loose \cup {calls[i].room : i \in DOMAIN calls}
      /\ UNCHANGED <<zones, thread, reading, store, mapId>>
  BY DEF CrashRag, Crash, Lose, dashVars
<1>2. DOMAIN calls = 1..Len(calls)
  BY CallFacts
<1>3. NoCall(r)
  BY <1>1, <1>2 DEF NoCall
<1>4. ~LastCall(r)
  BY <1>3 DEF LastCall, NoCall
<1>5. NoCall(r)'
  BY <1>1 DEF NoCall
<1>6. PendingAgrees(r)' /\ (Pending(r) => Pending(r)') /\ (Agrees(r) => Agrees(r)')
  BY <1>1 DEF OnItsWay, PendingAgrees, Pending, Agrees
<1> QED
  BY <1>4, <1>5, <1>6 DEF OnItsWay

\* The timer reads every room; one that a handler would call for with another
\* rectangle is given up.
LEMMA ReadOnItsWay ==
  ASSUME ZoneParts, ReadZones, NEW r \in Room, r \notin loose', zones'[r] # NoArea
  PROVE  OnItsWay(r)'
<1>1. /\ reading' = {[room |-> q, area |-> zones[q]] : q \in {p \in Room : zones[p] # NoArea}}
      /\ loose' = {q \in Room : \E t \in Thread : thread[t] # Resting /\ thread[t].entry.room = q
                                            /\ thread[t].entry.area # zones[q]}
      /\ UNCHANGED <<zones, thread>>
  BY DEF ReadZones
<1>2. \A e \in reading' : e.area = zones[e.room]
  BY <1>1
<1>3. [room |-> r, area |-> zones[r]] \in reading'
  BY <1>1
<1>4. PendingAgrees(r)'
  BY <1>1, <1>2 DEF PendingAgrees
<1>5. Pending(r)'
  BY <1>3 DEF Pending
<1> QED
  BY <1>4, <1>5 DEF OnItsWay

LEMMA OnItsWayStep ==
  ASSUME ZoneInv, [ZoneNext]_allVars
  PROVE  AllOnTheirWay'
<1> SUFFICES ASSUME reindexed', NEW r \in Room, r \notin loose', zones'[r] # NoArea
             PROVE  OnItsWay(r)'
  BY Zenon DEF AllOnTheirWay
<1>0. IInv /\ ZoneParts /\ (reindexed /\ r \notin loose /\ zones[r] # NoArea => OnItsWay(r))
  BY DEF ZoneInv, AllOnTheirWay
<1>1. ASSUME NEW t \in Thread, NEW e \in Entry, SaveZone(t, e)
      PROVE  OnItsWay(r)'
  <2>1. reindexed
    BY <1>1 DEF SaveZone
  <2> QED
    BY <1>0, <1>1, <2>1, SaveOnItsWay
<1>2. ASSUME NEW t \in Thread, IndexZone(t)
      PROVE  OnItsWay(r)'
  <2> DEFINE e == thread[t].entry
  <2>1. /\ e \in Entry /\ IndexCall(e) /\ thread[t] # Resting /\ thread' = [thread EXCEPT ![t] = Resting]
        /\ UNCHANGED <<vars, zones, reading, reindexed>>
    BY <1>0, <1>2, PendingEntries DEF IndexZone
  <2>2. loose \subseteq loose'
    BY <2>1 DEF IndexCall, DropOldest
  <2>3. OnItsWay(r) /\ PendingAgrees(r)
    BY <1>0, <2>1, <2>2 DEF OnItsWay
  <2>4. thread'[t] = Resting /\ \A u \in Thread : u # t => thread'[u] = thread[u]
    BY <1>0, <2>1 DEF ZoneParts
  <2>5. PendingAgrees(r)' /\ (e.room = r => e.area = zones[r])
    BY <2>1, <2>3, <2>4 DEF PendingAgrees
  <2>6. e.room # r /\ Pending(r) => Pending(r)'
    BY <2>1, <2>4 DEF Pending
  <2> HIDE DEF e
  <2> QED
    BY <1>0, <2>1, <2>3, <2>5, <2>6, CallOnItsWay
<1>3. ASSUME NEW q \in Room, DeleteZone(q)
      PROVE  OnItsWay(r)'
  <2>1. zones' = [zones EXCEPT ![q] = NoArea] /\ UNCHANGED <<vars, dashVars, calls, loose>>
    BY <1>3 DEF DeleteZone
  <2>2. zones'[r] = zones[r] /\ OnItsWay(r)
    BY <1>0, <2>1 DEF ZoneParts, Table, dashVars
  <2> QED
    BY <2>1, <2>2 DEF OnItsWay, PendingAgrees, Pending, LastCall, NoCall, Agrees, dashVars, vars
<1>4. ASSUME NEW rs \in Card, ForgetCard(rs)
      PROVE  OnItsWay(r)'
  <2>1. /\ Delete({ZoneId[q] : q \in rs}) /\ loose' = loose \cup rs
        /\ UNCHANGED <<zones, dashVars, calls>>
    BY <1>4 DEF ForgetCard
  <2>2. OnItsWay(r) /\ r \notin rs
    BY <1>0, <2>1 DEF dashVars
  <2>3. ZoneId[r] \in Id /\ ZoneId[r] \notin {ZoneId[q] : q \in rs}
    BY <2>2, ZoneConstants DEF Card
  <2>4. store'[ZoneId[r]] = store[ZoneId[r]] /\ mapId' = mapId
    BY <2>1, <2>3 DEF Delete
  <2> QED
    BY <2>1, <2>2, <2>4, Unconcerned DEF dashVars
<1>5. CASE ReadZones
  BY <1>0, <1>5, ReadOnItsWay
<1>6. ASSUME NEW e \in Entry, Reindex(e)
      PROVE  OnItsWay(r)'
  <2>1. /\ IndexCall(e) /\ e \in reading /\ reading' = reading \ {e}
        /\ UNCHANGED <<vars, zones, thread, reindexed>>
    BY <1>6 DEF Reindex
  <2>2. loose \subseteq loose'
    BY <2>1 DEF IndexCall, DropOldest
  <2>3. OnItsWay(r) /\ PendingAgrees(r)
    BY <1>0, <2>1, <2>2 DEF OnItsWay
  <2>4. PendingAgrees(r)' /\ (e.room = r => e.area = zones[r])
    BY <2>1, <2>3 DEF PendingAgrees
  <2>5. e.room # r /\ Pending(r) => Pending(r)'
    BY <2>1 DEF Pending
  <2> QED
    BY <1>0, <2>1, <2>3, <2>4, <2>5, CallOnItsWay
<1>7. CASE StartRag
  <2>1. mapId' = mapId /\ loose' = loose
    BY <1>7 DEF StartRag
  <2> QED
    BY <1>0, <1>7, <2>1, Unconcerned DEF StartRag, Start, dashVars
<1>8. CASE HandleCall
  <2>1. reindexed /\ loose \subseteq loose' /\ zones' = zones
    BY <1>8 DEF HandleCall, dashVars
  <2> QED
    BY <1>0, <1>8, <2>1, ServedOnItsWay
<1>9. CASE CrashRag
  <2>1. reindexed /\ loose \subseteq loose' /\ zones' = zones
    BY <1>9 DEF CrashRag, Lose, dashVars
  <2> QED
    BY <1>0, <1>9, <2>1, CrashOnItsWay
<1>10. CASE StartDashboard
  <2>1. ~reindexed /\ reindexed' = reindexed
    BY <1>0, <1>10 DEF StartDashboard, ZoneParts
  <2> QED
    BY <2>1
<1>11. CASE CrashDashboard \/ \E s \in Session \cup {NoSession} : RelaunchAll(s)
  <2>1. ~reindexed'
    BY <1>11 DEF CrashDashboard, RelaunchAll, Gone
  <2> QED
    BY <2>1
<1>12. ASSUME UNCHANGED <<zones, thread, reading, reindexed, calls, loose, store, mapId>>
       PROVE  OnItsWay(r)'
  BY <1>0, <1>12, Unconcerned
<1>13. CASE Discover \/ \E s \in Session : NameMap(s)
  BY <1>12, <1>13 DEF Discover, NameMap, PinFile, dashVars, vars
<1>14. CASE UNCHANGED allVars
  BY <1>12, <1>14 DEF allVars, zoneVars, dashVars, vars
<1> QED
  BY <1>1, <1>2, <1>3, <1>4, <1>5, <1>6, <1>7, <1>8, <1>9, <1>10, <1>11, <1>13, <1>14 DEF ZoneNext

LEMMA InitZones == ZoneInit => ZoneInv
<1> SUFFICES ASSUME ZoneInit
             PROVE  ZoneInv
  OBVIOUS
<1>1. IInv
  BY InitIInv DEF ZoneInit
<1>2. /\ up \in BOOLEAN /\ found \in BOOLEAN /\ reindexed \in BOOLEAN /\ ~reindexed
      /\ reading = {}
  BY Zenon DEF ZoneInit
<1>3. /\ calls \in Seq(Entry) /\ Len(calls) <= QueueDepth
      /\ edits \in 0..MaxEdits /\ faults \in 0..MaxFaults
  BY ZoneConstants, EmptySeq DEF ZoneInit
<1>4. ZoneParts
  BY <1>2, <1>3 DEF ZoneInit, ZoneParts, Table
<1> QED
  BY <1>1, <1>2, <1>4 DEF ZoneInv, AllOnTheirWay

LEMMA StepZones == ZoneInv /\ [ZoneNext]_allVars => ZoneInv'
<1> SUFFICES ASSUME ZoneInv, [ZoneNext]_allVars
             PROVE  ZoneInv'
  OBVIOUS
<1>1. IInv'
  BY StepsOfMemory, NextStep DEF ZoneInv
<1>2. ZoneParts'
  BY TypeStep DEF ZoneInv
<1> QED
  BY <1>1, <1>2, OnItsWayStep DEF ZoneInv

LEMMA ZoneInvariant == ZoneSpec => []ZoneInv
BY InitZones, StepZones, PTL DEF ZoneSpec

-----------------------------------------------------------------------------
\* The state of the dashboard, of its threads and its timer, of the calls and of
\* rag_node stays well-formed; a dashboard that is gone has nothing under way.
THEOREM ZonesTypeCorrect == ZoneSpec => []ZoneTypeOK
<1>1. ZoneInv => ZoneTypeOK
  BY DEF ZoneInv, ZoneParts, IInv, ZoneTypeOK
<1> QED
  BY <1>1, ZoneInvariant, PTL

\* "Once rag_node answers, every zone is indexed again into the active session":
\* when nothing is under way the rooms in SQLite are in memory as they are there,
\* however two saves, the timer, deletions, deaths and late discovery interleave,
\* except for those whose last call was given up.
THEOREM RoomsAreRemembered == ZoneSpec => []SettledZonesAgree
<1>1. ZoneInv => SettledZonesAgree
  <2> SUFFICES ASSUME ZoneInv, Settled, NEW r \in Room, r \notin loose, zones[r] # NoArea
               PROVE  Agrees(r)
    BY DEF SettledZonesAgree
  <2>1. OnItsWay(r)
    BY DEF ZoneInv, AllOnTheirWay, Settled
  <2>2. ~Pending(r)
    BY DEF Pending, Settled
  <2>3. ~LastCall(r)
    <3>1. Len(calls) = 0
      BY EmptySeq DEF Settled
    <3> QED
      BY <3>1 DEF LastCall
  <2> QED
    BY <2>1, <2>2, <2>3 DEF OnItsWay
<1> QED
  BY <1>1, ZoneInvariant, PTL
=============================================================================
