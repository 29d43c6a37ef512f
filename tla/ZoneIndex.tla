----------------------------- MODULE ZoneIndex -----------------------------
(***************************************************************************)
(* Rooms named in the dashboard: the zones table in SQLite and the entries *)
(* that make a room retrievable, indexed through /rag/update_map one by    *)
(* one on save and all of them once per start of the dashboard             *)
(* (zone_store.py, web_api.py, dashboard_node.py over SemanticMemory).     *)
(*                                                                         *)
(* Handlers run on the web server's threads, the re-index timer on the     *)
(* node's executor.  A call is not awaited and its answer is not looked    *)
(* at; calls of one client arrive in the order they were made.  Discovery  *)
(* is late both ways: the client believes in a service that has gone, and  *)
(* not yet in one that is there.                                           *)
(***************************************************************************)
EXTENDS SemanticMemory, Sequences

CONSTANTS
  Area,        \* rectangles rooms may have
  NoArea,      \* no such room
  Centre,      \* the centre of an area
  Room,        \* names of rooms: the zones of SemanticMemory
  ZoneId,      \* the memory id of a room
  Thread,      \* threads of the web server
  MaxEdits,    \* bound on rooms saved, deleted or forgotten
  MaxFaults,   \* bound on deaths, relaunches and failed calls
  QueueDepth   \* depth of the queue of /rag/update_map (10 by default)

ASSUME ZoneAssumption ==
  /\ Room \subseteq Zone /\ NoArea \notin Area
  /\ Centre \in [Area -> Position]
  /\ ZoneId \in [Room -> PlainId]
  /\ \A r, s \in Room : ZoneId[r] = ZoneId[s] => r = s
  /\ MaxEdits \in Nat /\ MaxFaults \in Nat /\ QueueDepth \in Nat \ {0}

Table == [Room -> Area \cup {NoArea}]

\* What a request becomes: a normalised name, a rectangle with its corners in
\* order or a box around the robot.
Entry == [room: Room, area: Area]

Resting == [pc |-> "rest"]

VARIABLES
  zones,       \* the zones table
  up,          \* is the dashboard running?
  found,       \* does its client believe /rag/update_map is there?
  thread,      \* what each web server thread still has to index
  reindexed,   \* _zones_reindexed of this dashboard process
  reading,     \* zones the timer has loaded and not indexed yet
  calls,       \* calls that reached rag_node's queue
  loose,       \* history: rooms whose entry nothing will bring up to date
  edits, faults

dashVars == <<up, found, thread, reindexed, reading>>
zoneVars == <<zones, dashVars, calls, loose, edits, faults>>
allVars == <<vars, zoneVars>>

ZoneTypeOK ==
  /\ TypeOK
  /\ zones \in Table
  /\ up \in BOOLEAN /\ found \in BOOLEAN /\ reindexed \in BOOLEAN
  /\ thread \in [Thread -> [pc: {"save"}, entry: Entry] \cup {Resting}]
  /\ reading \subseteq Entry
  /\ \A e, f \in reading : e.room = f.room => e = f
  /\ calls \in Seq(Entry) /\ Len(calls) <= QueueDepth
  /\ loose \subseteq Room
  /\ edits \in 0..MaxEdits /\ faults \in 0..MaxFaults
  /\ ~up => reading = {} /\ ~reindexed /\ \A t \in Thread : thread[t] = Resting

ZoneInit ==
  /\ Init
  /\ zones = [r \in Room |-> NoArea]
  /\ up = FALSE /\ found = FALSE /\ reindexed = FALSE /\ reading = {}
  /\ thread = [t \in Thread |-> Resting]
  /\ calls = <<>> /\ loose = {} /\ edits = 0 /\ faults = 0

Fault == faults < MaxFaults /\ faults' = faults + 1
Edit == edits < MaxEdits /\ edits' = edits + 1

-----------------------------------------------------------------------------
\* index_zone_in_memory: skipped, lost or queued; a full queue drops its oldest call

\* The oldest call goes; its room is out of date unless a later call is for it.
DropOldest ==
  IF \E i \in DOMAIN calls' : calls'[i].room = Head(calls).room
  THEN UNCHANGED loose ELSE loose' = loose \cup {Head(calls).room}

IndexCall(e) ==
  \/ ~found /\ loose' = loose \cup {e.room} /\ UNCHANGED calls
  \/ found /\ ~running /\ loose' = loose \cup {e.room} /\ UNCHANGED calls
  \/ /\ found /\ running /\ Len(calls) < QueueDepth
     /\ calls' = Append(calls, e) /\ UNCHANGED loose
  \/ /\ found /\ running /\ Len(calls) = QueueDepth
     /\ calls' = Append(Tail(calls), e) /\ DropOldest

\* A save or a re-index that has read the room and not called yet: it will call
\* with what it read, whatever is stored or called meanwhile.
Pending(r) ==
  \/ \E e \in reading : e.room = r
  \/ \E t \in Thread : thread[t] # Resting /\ thread[t].entry.room = r

\* The handlers of POST /api/zones and /api/zones/here: SQLite first.
SaveZone(t, e) ==
  /\ up /\ thread[t] = Resting /\ Edit
  /\ zones' = [zones EXCEPT ![e.room] = e.area]
  /\ thread' = [thread EXCEPT ![t] = [pc |-> "save", entry |-> e]]
  /\ loose' = IF Pending(e.room) THEN loose \cup {e.room} ELSE loose
  /\ UNCHANGED <<vars, up, found, reindexed, reading, calls, faults>>

\* ... then the index call.
IndexZone(t) ==
  /\ thread[t] # Resting
  /\ IndexCall(thread[t].entry)
  /\ thread' = [thread EXCEPT ![t] = Resting]
  /\ UNCHANGED <<vars, zones, up, found, reindexed, reading, edits, faults>>

\* DELETE /api/zones: the entry in memory stays.
DeleteZone(r) ==
  /\ up /\ zones[r] # NoArea /\ Edit
  /\ zones' = [zones EXCEPT ![r] = NoArea]
  /\ UNCHANGED <<vars, dashVars, calls, loose, faults>>

\* The memory viewer shows entries that lie at one point as one card, so a card
\* may stand for several rooms.
Card == SUBSET Room \ {{}}

\* ... and deletes all of a card's entries, as they were when it was loaded.
ForgetCard(rs) ==
  /\ up /\ Edit
  /\ Delete({ZoneId[r] : r \in rs})
  /\ loose' = loose \cup rs
  /\ UNCHANGED <<zones, dashVars, calls, faults>>

-----------------------------------------------------------------------------
\* The re-index timer

\* Mutant: the attempt counts although the service is not there.
ReadZonesOnce ==
  /\ up /\ ~reindexed /\ reading = {}
  /\ reading' = IF found THEN {[room |-> r, area |-> zones[r]] : r \in {q \in Room : zones[q] # NoArea}} ELSE {}
  /\ reindexed' = TRUE /\ loose' = IF found THEN {} ELSE loose
  /\ UNCHANGED <<vars, zones, up, found, thread, calls, edits, faults>>

\* Every zone is loaded; a handler that is between its two steps for one of them
\* may still call with what it stored before another one stored its own.
ReadZones ==
  /\ up /\ ~reindexed /\ found
  /\ reading' = {[room |-> r, area |-> zones[r]] : r \in {q \in Room : zones[q] # NoArea}}
  /\ reindexed' = TRUE
  /\ loose' = {r \in Room : \E t \in Thread : thread[t] # Resting /\ thread[t].entry.room = r
                                         /\ thread[t].entry.area # zones[r]}
  /\ UNCHANGED <<vars, zones, up, found, thread, calls, edits, faults>>

\* ... and indexed one after the other, in the order of their names.
Reindex(e) ==
  /\ e \in reading
  /\ IndexCall(e)
  /\ reading' = reading \ {e}
  /\ UNCHANGED <<vars, zones, up, found, thread, reindexed, edits, faults>>

-----------------------------------------------------------------------------
\* rag_node

Discover ==
  /\ up /\ found # running /\ found' = running
  /\ UNCHANGED <<vars, zones, up, thread, reindexed, reading, calls, loose, edits, faults>>

\* Under another session nothing that is stored counts any more.
StartRag ==
  /\ Start
  /\ loose' = IF mapId' = mapId THEN loose ELSE Room
  /\ UNCHANGED <<zones, dashVars, calls, edits, faults>>

\* Mutant: calls are served in any order.
HandleAnyCall ==
  /\ running
  /\ \E i \in DOMAIN calls :
       /\ calls' = SubSeq(calls, 1, i - 1) \o SubSeq(calls, i + 1, Len(calls))
       /\ Index(ZoneId[calls[i].room], Centre[calls[i].area], calls[i].room)
  /\ UNCHANGED <<zones, dashVars, loose, edits, faults>>

\* The oldest call is handled: the zone is stored, or an embedding failed and
\* nobody looks at the answer.
HandleCall ==
  /\ running /\ calls # <<>> /\ calls' = Tail(calls)
  /\ LET e == Head(calls)
     IN  \/ /\ Index(ZoneId[e.room], Centre[e.area], e.room)
            /\ UNCHANGED <<loose, faults>>
         \/ Fault /\ loose' = loose \cup {e.room} /\ UNCHANGED vars
  /\ UNCHANGED <<zones, dashVars, edits>>

Lose(cs) == loose' = loose \cup {cs[i].room : i \in DOMAIN cs}

\* rag_node dies with what it has not handled.
CrashRag ==
  /\ Crash /\ Fault
  /\ calls' = <<>> /\ Lose(calls)
  /\ UNCHANGED <<zones, dashVars, edits>>

\* A map saved under a name re-pins session.json.
NameMap(s) ==
  /\ s # session /\ PinFile(s) /\ Fault
  /\ UNCHANGED <<zones, dashVars, calls, loose, edits>>

-----------------------------------------------------------------------------
\* The dashboard's own life

StartDashboard ==
  /\ ~up /\ up' = TRUE /\ found' = FALSE
  /\ UNCHANGED <<vars, zones, thread, reindexed, reading, calls, loose, edits, faults>>

\* Mutant: a new dashboard believes it has re-indexed.
GoneButIndexed ==
  /\ up' = FALSE /\ found' = FALSE /\ UNCHANGED reindexed
  /\ thread' = [t \in Thread |-> Resting] /\ reading' = {}

Gone ==
  /\ up' = FALSE /\ found' = FALSE /\ reindexed' = FALSE
  /\ thread' = [t \in Thread |-> Resting] /\ reading' = {}

\* What it has called reaches rag_node or, from some call on, does not.
CrashDashboard ==
  /\ up /\ Gone /\ Fault
  /\ \E n \in 0..Len(calls) :
       calls' = SubSeq(calls, 1, n) /\ Lose(SubSeq(calls, n + 1, Len(calls)))
  /\ UNCHANGED <<vars, zones, edits>>

\* The whole stack is stopped and launched again.
RelaunchAll(s) ==
  /\ up /\ Relaunch(s) /\ Gone /\ Fault
  /\ calls' = <<>> /\ Lose(calls)
  /\ UNCHANGED <<zones, edits>>

ZoneNext ==
  \/ \E t \in Thread, e \in Entry : SaveZone(t, e)
  \/ \E t \in Thread : IndexZone(t)
  \/ \E r \in Room : DeleteZone(r)
  \/ \E rs \in Card : ForgetCard(rs)
  \/ ReadZones
  \/ \E e \in Entry : Reindex(e)
  \/ Discover \/ StartRag \/ HandleCall \/ CrashRag
  \/ \E s \in Session : NameMap(s)
  \/ StartDashboard \/ CrashDashboard
  \/ \E s \in Session \cup {NoSession} : RelaunchAll(s)

\* The launch respawns what died, discovery catches up, the timer fires and
\* handlers run; people and faults are under no obligation.
ZoneFairness ==
  /\ WF_allVars(StartRag) /\ WF_allVars(StartDashboard) /\ WF_allVars(Discover)
  /\ WF_allVars(ReadZones) /\ WF_allVars(\E e \in Entry : Reindex(e))
  /\ WF_allVars(HandleCall /\ faults' = faults)
  /\ \A t \in Thread : WF_allVars(IndexZone(t))

ZoneSpec == ZoneInit /\ [][ZoneNext]_allVars /\ ZoneFairness

-----------------------------------------------------------------------------
\* Properties

\* Retrieval answers with the room's present place, in the active session.
Agrees(r) ==
  store[ZoneId[r]] = NewMemory(mapId, NoLook, r, Centre[zones[r]])

Settled ==
  /\ up /\ running /\ reindexed /\ reading = {} /\ calls = <<>>
  /\ \A t \in Thread : thread[t] = Resting

\* "Once rag_node answers, every zone is indexed again into the active session"
\* (dashboard_node.__init__): when nothing is under way, every room in SQLite is
\* in memory as it is there, unless its last call was skipped, lost or failed,
\* was made with an older rectangle, or the session or the entry went away since
\* this dashboard re-indexed.  Interleavings of two saves, the timer, deletions,
\* deaths of either process and late discovery end there all the same.
SettledZonesAgree ==
  Settled => \A r \in Room \ loose : zones[r] # NoArea => Agrees(r)

\* Every room that is stored becomes retrievable and stays so, with the same
\* exceptions: a start of the dashboard mends what the one before it left, also
\* a handler that died between SQLite and its call.
RoomsComeBack ==
  <>[](running /\ \A r \in Room \ loose : zones[r] # NoArea => Agrees(r))
=============================================================================
