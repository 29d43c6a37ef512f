--------------------------- MODULE SemanticMemory ---------------------------
(***************************************************************************)
(* rag_node and the "semantic_map" collection it owns: places the robot    *)
(* remembers, each tagged with the map session it was written under.       *)
(*                                                                         *)
(* rag_node serves its requests one at a time (rclpy.spin), so a handler   *)
(* is one step.  Documents, embeddings and descriptions are left out: a    *)
(* memory is its metadata.  Scene observations come from the skills        *)
(* executor and carry a group key (the "look"); zones and benchmark        *)
(* landmarks carry none and are written by id.                             *)
(***************************************************************************)
EXTENDS Integers, FiniteSets

CONSTANTS
  Position,         \* map-frame poses
  Dist(_, _),       \* distance between two poses
  Cell,             \* the scene id a pose proposes: its 0.5 m grid cell
  Look,             \* group keys: dominant colours and clutter class
  Zone,             \* room_zone values, the empty one included
  PlainId,          \* ids of memories without a group key (zones, landmarks)
  Session,          \* map-session ids
  NoLook,           \* the empty group key
  NoSession,        \* no session id: an empty launch argument, no session.json
  Absent,           \* no memory is stored under an id
  Radius,           \* scene_merge_radius
  CandidateLimit,   \* MERGE_CANDIDATE_LIMIT
  MaxObservations   \* bound on one memory's observation count

SceneId == {Cell[p] : p \in Position}
Id == SceneId \cup PlainId

Memory == [mapId: Session, look: Look \cup {NoLook}, zone: Zone,
           pos: Position, count: Nat \ {0}]

\* Distance is a distance as far as the merge rule needs one, and a radius is
\* in use (<= 0 disables merging, which gives up the invariants below).
ASSUME DistAssumption ==
  /\ \A p, q \in Position : Dist(p, q) \in Nat
  /\ \A p, q \in Position : Dist(p, q) = Dist(q, p)
  /\ \A p \in Position : Dist(p, p) = 0
  /\ Radius \in Nat \ {0}

\* A grid cell fits in the radius: a 0.5 m cell is at most 0.71 m across, the
\* default radius is 2 m.
ASSUME CellAssumption ==
  /\ DOMAIN Cell = Position
  /\ \A p, q \in Position : Cell[p] = Cell[q] => Dist(p, q) <= Radius

\* The scan limit is never reached by places that keep the radius between them
\* (500 places 2 m apart do not fit in a house).
FarApart(S) == \A p, q \in S : p # q => Dist(p, q) > Radius
ASSUME PackingAssumption ==
  /\ IsFiniteSet(Position)
  /\ CandidateLimit \in Nat
  /\ \A S \in SUBSET Position : FarApart(S) => Cardinality(S) <= CandidateLimit

ASSUME SentinelAssumption ==
  /\ NoLook \notin Look
  /\ NoSession \notin Session
  /\ Absent \notin Memory
  /\ SceneId \cap PlainId = {}
  /\ MaxObservations \in Nat

VARIABLES
  store,     \* the semantic_map collection: id -> memory or Absent
  running,   \* is the rag_node process up?
  mapId,     \* rag_node's _map_id, read once when it starts
  session,   \* map_id in session.json
  pin        \* the launch's map_session_id argument

vars == <<store, running, mapId, session, pin>>

-----------------------------------------------------------------------------

Stored(i) == store[i] # Absent

InGroup(m, s, l, z) == m # Absent /\ m.mapId = s /\ m.look = l /\ m.zone = z

Group(s, l, z) == {i \in Id : InGroup(store[i], s, l, z)}

\* list_documents returns the whole group, or as many as the limit allows.
Scanned(G) ==
  IF Cardinality(G) <= CandidateLimit
  THEN {G}
  ELSE {C \in SUBSET G : Cardinality(C) = CandidateLimit}

\* Mutant: the boundary is left out.
InRadiusStrict(p, q) == Radius > 0 /\ Dist(p, q) < Radius

InRadius(p, q) == Radius > 0 /\ Dist(p, q) <= Radius

\* Mutant: every candidate of the group, however far.
NearAnywhere(C, p) == C

\* The candidates within the radius of p, and the nearest of some memories: the
\* list order breaks ties.
Near(C, p) == {i \in C : InRadius(store[i].pos, p)}

Nearest(S, p) ==
  {i \in S : \A j \in S : Dist(store[i].pos, p) <= Dist(store[j].pos, p)}

\* Mutant: the count starts at zero.
UncountedMemory(s, l, z, p) ==
  [mapId |-> s, look |-> l, zone |-> z, pos |-> p, count |-> 0]

NewMemory(s, l, z, p) ==
  [mapId |-> s, look |-> l, zone |-> z, pos |-> p, count |-> 1]

\* Folding keeps the target's id and anchor and counts one more observation.
Folded(m) == [m EXCEPT !.count = m.count + 1]

-----------------------------------------------------------------------------

TypeOK ==
  /\ store \in [Id -> Memory \cup {Absent}]
  /\ running \in BOOLEAN
  /\ mapId \in Session \cup {NoSession}
  /\ session \in Session \cup {NoSession}
  /\ pin \in Session \cup {NoSession}
  /\ running => mapId \in Session

\* A first launch: an empty store, no session file.
Init ==
  /\ store = [i \in Id |-> Absent]
  /\ running = FALSE
  /\ mapId = NoSession
  /\ session = NoSession
  /\ pin \in Session \cup {NoSession}

\* RagNode.__init__: pin the session the launch names, else continue the one
\* in session.json, else mint an id nothing was stored under.
Fresh(s) == s # session /\ \A i \in Id : Stored(i) => store[i].mapId # s

\* Mutant: a persisted session wins over the one the launch names.
StartContinuing ==
  /\ ~running
  /\ running' = TRUE
  /\ \/ session # NoSession /\ mapId' = session /\ UNCHANGED session
     \/ /\ session = NoSession
        /\ \E s \in Session : Fresh(s) /\ mapId' = s /\ session' = s
  /\ UNCHANGED <<store, pin>>

Start ==
  /\ ~running
  /\ running' = TRUE
  /\ \/ pin # NoSession /\ mapId' = pin /\ session' = pin
     \/ pin = NoSession /\ session # NoSession /\ mapId' = session /\ UNCHANGED session
     \/ /\ pin = NoSession /\ session = NoSession
        /\ \E s \in Session : Fresh(s) /\ mapId' = s /\ session' = s
  /\ UNCHANGED <<store, pin>>

\* The process dies; launch respawns it with the same argument (Start).
Crash ==
  /\ running
  /\ running' = FALSE
  /\ UNCHANGED <<store, mapId, session, pin>>

\* The stack is stopped and launched again, on a saved or a fresh map.
Relaunch(s) ==
  /\ running' = FALSE
  /\ pin' = s
  /\ UNCHANGED <<store, mapId, session>>

\* Another process pins session.json: the skills executor, after a save_map
\* that was given a name.  rag_node does not read the file again.
PinFile(s) ==
  /\ session' = s
  /\ UNCHANGED <<store, running, mapId, pin>>

\* Mutant: the anchor follows the last observation.
ObserveMovingAnchor(p, l, z) ==
  /\ running
  /\ \E C \in Scanned(Group(mapId, l, z)) :
       \/ /\ Near(C, p) = {}
          /\ store' = [store EXCEPT ![Cell[p]] = NewMemory(mapId, l, z, p)]
       \/ \E t \in Nearest(Near(C, p), p) :
            /\ store[t].count < MaxObservations
            /\ store' = [store EXCEPT ![t] = [Folded(store[t]) EXCEPT !.pos = p]]
  /\ UNCHANGED <<running, mapId, session, pin>>

\* /rag/update_map with a group key: fold into the nearest memory of the same
\* look, session and zone within the radius, or store under the cell's id.
Observe(p, l, z) ==
  /\ running
  /\ \E C \in Scanned(Group(mapId, l, z)) :
       \/ /\ Near(C, p) = {}
          /\ store' = [store EXCEPT ![Cell[p]] = NewMemory(mapId, l, z, p)]
       \/ \E t \in Nearest(Near(C, p), p) :
            /\ store[t].count < MaxObservations
            /\ store' = [store EXCEPT ![t] = Folded(store[t])]
  /\ UNCHANGED <<running, mapId, session, pin>>

\* /rag/update_map without a group key: plain upsert by id.
Index(i, p, z) ==
  /\ running
  /\ store' = [store EXCEPT ![i] = NewMemory(mapId, NoLook, z, p)]
  /\ UNCHANGED <<running, mapId, session, pin>>

\* /rag/delete: the ids that exist are removed, whatever session they are of.
Delete(ids) ==
  /\ running
  /\ \E i \in ids : Stored(i)
  /\ store' = [i \in Id |-> IF i \in ids THEN Absent ELSE store[i]]
  /\ UNCHANGED <<running, mapId, session, pin>>

\* What /rag/query can answer from: the memories of the active session.
Visible == {i \in Id : Stored(i) /\ store[i].mapId = mapId}

Next ==
  \/ Start
  \/ Crash
  \/ \E s \in Session \cup {NoSession} : Relaunch(s)
  \/ \E s \in Session : PinFile(s)
  \/ \E p \in Position, l \in Look, z \in Zone : Observe(p, l, z)
  \/ \E i \in PlainId, p \in Position, z \in Zone : Index(i, p, z)
  \/ \E ids \in SUBSET Id : Delete(ids)

Spec == Init /\ [][Next]_vars

-----------------------------------------------------------------------------
\* Properties

\* The invariant scene_merge.py and ADR-025 claim of merging on write: no two
\* memories of the same look, zone and map session lie within one radius.
NoCloseDuplicates ==
  \A i, j \in Id :
    /\ i # j
    /\ Stored(i) /\ store[i].look # NoLook
    /\ Stored(j) /\ InGroup(store[j], store[i].mapId, store[i].look, store[i].zone)
    => Dist(store[i].pos, store[j].pos) > Radius

\* A scene memory is anchored in the cell that named it: merging never moved it.
AnchoredInCell ==
  \A i \in SceneId : Stored(i) => store[i].look \in Look /\ Cell[store[i].pos] = i

\* While a memory stays one of its group its anchor does not move and what it
\* has counted is not lost, across merges, overwrites, crashes and relaunches:
\* "the anchor pose is the first observation's and never moves".
AnchorStep ==
  \A i \in SceneId :
    /\ Stored(i)
    /\ InGroup(store'[i], store[i].mapId, store[i].look, store[i].zone)
    => store'[i].pos = store[i].pos /\ store'[i].count >= store[i].count
AnchorsStay == [][AnchorStep]_vars

\* An observation leaves a memory of its own look, zone and session within one
\* radius of where it was made: folding never remembers a place too far away.
ObservationsRemembered ==
  [][\A p \in Position, l \in Look, z \in Zone :
       Observe(p, l, z) =>
         \E i \in Id : InGroup(store'[i], mapId, l, z) /\ Dist(store'[i].pos, p) <= Radius]_vars

\* Memories of other map sessions are kept by whatever the robot observes now:
\* "Filtering by session id keeps every memory, and simply scopes what is
\* visible now" (ADR-019).  Only a deletion may remove one.
KeepsOtherSessions ==
  [][\A p \in Position, l \in Look, z \in Zone :
       Observe(p, l, z) =>
         \A i \in Id : Stored(i) /\ store[i].mapId # mapId => store'[i] = store[i]]_vars

\* The places that are remembered, without their ids and counts.
PlaceOf(m) == [mapId |-> m.mapId, look |-> m.look, zone |-> m.zone, pos |-> m.pos]
Places == {PlaceOf(store[i]) : i \in {j \in SceneId : Stored(j)}}

Abstract == INSTANCE PlaceMemory WITH places <- Places

\* rag_node with its ids, cells, folding, scan limit, crashes and sessions is a
\* memory of places: an observation adds a place nothing like it is near to, or
\* changes nothing, and what it overwrites in its cell is near and only one.
RemembersPlaces == Abstract!Spec
=============================================================================
