------------------------ MODULE SemanticMemory_proofs ------------------------
(***************************************************************************)
(* What merging on write guarantees, for every house, radius and store.    *)
(*                                                                         *)
(* The argument: keyed memories are anchored in the cell that names them,  *)
(* so an observation that lands on an occupied cell of its own group is    *)
(* always within the radius and merges; memories of one group are far      *)
(* apart, so there are never more of them than the scan reads; hence an    *)
(* observation that finds no target really has no near memory.             *)
(***************************************************************************)
EXTENDS SemanticMemory, FiniteSetTheorems, TLAPS

\* Memories without a group key and memories with one never share an id.
PlainKeyless == \A i \in PlainId : Stored(i) => store[i].look = NoLook

IInv == TypeOK /\ AnchoredInCell /\ PlainKeyless /\ NoCloseDuplicates

-----------------------------------------------------------------------------
\* The observation count bound and the counters stay within their types.
LEMMA NewMemoryType ==
  ASSUME NEW s \in Session, NEW l \in Look \cup {NoLook}, NEW z \in Zone,
         NEW p \in Position
  PROVE  NewMemory(s, l, z, p) \in Memory
BY DEF NewMemory, Memory

LEMMA FoldedType ==
  ASSUME NEW m \in Memory
  PROVE  /\ Folded(m) \in Memory
         /\ Folded(m).mapId = m.mapId /\ Folded(m).look = m.look
         /\ Folded(m).zone = m.zone /\ Folded(m).pos = m.pos
         /\ Folded(m).count >= m.count
BY DEF Folded, Memory

\* The scan of list_documents reads the whole group of a keyed observation: the
\* group keeps the radius between its anchors, so the limit is never reached.
LEMMA ScanComplete ==
  ASSUME IInv, NEW s \in Session, NEW l \in Look, NEW z \in Zone
  PROVE  Scanned(Group(s, l, z)) = {Group(s, l, z)}
<1> DEFINE G == Group(s, l, z)
           P == {store[i].pos : i \in G}
           f == [i \in G |-> store[i].pos]
<1>1. \A i \in G : /\ i \in Id
                   /\ store[i] \in Memory /\ Stored(i) /\ store[i].look = l
                   /\ InGroup(store[i], s, l, z)
  BY SentinelAssumption DEF IInv, TypeOK, Group, InGroup, Stored
<1>2. P \in SUBSET Position
  BY <1>1 DEF Memory
<1>3. \A i, j \in G : i # j => Dist(store[i].pos, store[j].pos) > Radius
  <2> SUFFICES ASSUME NEW i \in G, NEW j \in G, i # j
               PROVE  Dist(store[i].pos, store[j].pos) > Radius
    OBVIOUS
  <2>1. Stored(i) /\ Stored(j) /\ store[i].look # NoLook
    BY <1>1, SentinelAssumption
  <2>2. InGroup(store[j], store[i].mapId, store[i].look, store[i].zone)
    BY <1>1 DEF InGroup
  <2> QED
    BY <1>1, <2>1, <2>2 DEF IInv, NoCloseDuplicates
<1>4. FarApart(P)
  <2> SUFFICES ASSUME NEW p \in P, NEW q \in P, p # q
               PROVE  Dist(p, q) > Radius
    BY DEF FarApart
  <2>1. PICK i \in G, j \in G : p = store[i].pos /\ q = store[j].pos
    OBVIOUS
  <2> QED
    BY <2>1, <1>3
<1>5. f \in Injection(G, P)
  <2>1. \A i, j \in G : f[i] = f[j] => i = j
    <3> SUFFICES ASSUME NEW i \in G, NEW j \in G, store[i].pos = store[j].pos, i # j
                 PROVE  FALSE
      OBVIOUS
    <3>1. store[i].pos \in Position
      BY <1>1 DEF Memory
    <3>2. Dist(store[i].pos, store[j].pos) = 0
      BY <3>1, DistAssumption
    <3>3. Dist(store[i].pos, store[j].pos) > Radius
      BY <1>3
    <3>4. Radius \in Nat
      BY DistAssumption
    <3> HIDE DEF G
    <3> QED
      BY <3>2, <3>3, <3>4
  <2>2. f \in [G -> P]
    OBVIOUS
  <2> QED
    BY <2>1, <2>2 DEF Injection, IsInjective
<1>6. IsFiniteSet(P) /\ Cardinality(P) <= CandidateLimit
  BY <1>2, <1>4, PackingAssumption, FS_Subset
<1>7. Cardinality(G) <= Cardinality(P) /\ IsFiniteSet(G)
  BY <1>5, <1>6, FS_Injection
<1>8. Cardinality(G) <= CandidateLimit
  BY <1>6, <1>7, FS_CardinalityType, PackingAssumption
<1> QED
  BY <1>8 DEF Scanned

-----------------------------------------------------------------------------
\* Type correctness and the strengthened invariant, one step per action.

LEMMA InitIInv == Init => IInv
<1> SUFFICES ASSUME Init PROVE IInv
  OBVIOUS
<1>1. TypeOK
  BY DEF Init, TypeOK
<1>2. \A i \in Id : ~Stored(i)
  BY DEF Init, Stored
<1>3. AnchoredInCell /\ PlainKeyless
  BY <1>2 DEF AnchoredInCell, PlainKeyless, Id
<1>4. NoCloseDuplicates
  BY <1>2 DEF NoCloseDuplicates
<1> QED
  BY <1>1, <1>3, <1>4 DEF IInv

\* The store alone carries the memory invariants: a step that keeps it keeps them.
LEMMA SameStore ==
  ASSUME IInv, TypeOK', store' = store
  PROVE  IInv'
<1>1. AnchoredInCell'
  BY DEF IInv, AnchoredInCell, Stored
<1>2. PlainKeyless'
  BY DEF IInv, PlainKeyless, Stored
<1>3. NoCloseDuplicates'
  BY DEF IInv, NoCloseDuplicates, Stored, InGroup
<1> QED
  BY <1>1, <1>2, <1>3 DEF IInv

LEMMA IndexStep ==
  ASSUME IInv, NEW i \in PlainId, NEW p \in Position, NEW z \in Zone, Index(i, p, z)
  PROVE  IInv'
<1> DEFINE m == NewMemory(mapId, NoLook, z, p)
<1>1. /\ store' = [store EXCEPT ![i] = m] /\ running
      /\ mapId' = mapId /\ session' = session /\ pin' = pin /\ running' = running
  BY DEF Index
<1>2. mapId \in Session /\ i \in Id /\ store \in [Id -> Memory \cup {Absent}]
  BY <1>1 DEF IInv, TypeOK, Id
<1>3. m \in Memory /\ m.look = NoLook
  BY <1>2, NewMemoryType DEF NewMemory
<1> HIDE DEF m
<1>4. TypeOK'
  <2>1. store' \in [Id -> Memory \cup {Absent}]
    BY <1>1, <1>2, <1>3
  <2> QED
    BY <2>1, <1>1 DEF IInv, TypeOK
<1>5. /\ \A j \in Id : j # i => store'[j] = store[j]
      /\ store'[i] = m
  BY <1>1, <1>2
<1>6. AnchoredInCell'
  <2>1. \A j \in SceneId : j \in Id /\ j # i
    BY SentinelAssumption DEF Id
  <2> QED
    BY <2>1, <1>5 DEF IInv, AnchoredInCell, Stored
<1>7. PlainKeyless'
  BY <1>3, <1>5 DEF IInv, PlainKeyless, Stored, Id
<1>8. NoCloseDuplicates'
  BY <1>3, <1>5 DEF IInv, NoCloseDuplicates, Stored, InGroup
<1> QED
  BY <1>4, <1>6, <1>7, <1>8 DEF IInv

LEMMA DeleteStep ==
  ASSUME IInv, NEW ids \in SUBSET Id, Delete(ids)
  PROVE  IInv'
<1>1. /\ store' = [i \in Id |-> IF i \in ids THEN Absent ELSE store[i]]
      /\ mapId' = mapId /\ session' = session /\ pin' = pin /\ running' = running
  BY DEF Delete
<1>2. TypeOK'
  BY <1>1 DEF IInv, TypeOK
<1>3. \A i \in Id : Stored(i)' => Stored(i) /\ store'[i] = store[i]
  BY <1>1 DEF Stored
<1>4. AnchoredInCell'
  BY <1>3 DEF IInv, AnchoredInCell, Id
<1>5. PlainKeyless'
  BY <1>3 DEF IInv, PlainKeyless, Id
<1>6. NoCloseDuplicates'
  BY <1>3 DEF IInv, NoCloseDuplicates
<1> QED
  BY <1>2, <1>4, <1>5, <1>6 DEF IInv

\* An observation either folds into a target of its own group, or finds its
\* whole group out of the radius.
LEMMA ObserveCases ==
  ASSUME IInv, NEW p \in Position, NEW l \in Look, NEW z \in Zone, Observe(p, l, z)
  PROVE  \/ /\ store' = [store EXCEPT ![Cell[p]] = NewMemory(mapId, l, z, p)]
            /\ \A i \in Group(mapId, l, z) : Dist(store[i].pos, p) > Radius
         \/ \E t \in Group(mapId, l, z) :
              /\ Dist(store[t].pos, p) <= Radius
              /\ store' = [store EXCEPT ![t] = Folded(store[t])]
<1> DEFINE G == Group(mapId, l, z)
<1>1. running /\ mapId \in Session
  BY DEF Observe, IInv, TypeOK
<1>2. Scanned(G) = {G}
  BY <1>1, ScanComplete
<1>3. \A i \in G : store[i] \in Memory /\ store[i].pos \in Position
  BY DEF IInv, TypeOK, Group, InGroup, Memory
<1>4. \A i \in G : Dist(store[i].pos, p) \in Nat
  BY <1>3, DistAssumption
<1> HIDE DEF G
<1>5. \/ /\ Near(G, p) = {}
         /\ store' = [store EXCEPT ![Cell[p]] = NewMemory(mapId, l, z, p)]
      \/ \E t \in Nearest(Near(G, p), p) : store' = [store EXCEPT ![t] = Folded(store[t])]
  BY <1>2 DEF Observe, G
<1>6. \A t \in Nearest(Near(G, p), p) : t \in G /\ Dist(store[t].pos, p) <= Radius
  BY DEF Nearest, Near, InRadius
<1>7. Near(G, p) = {} => \A i \in G : Dist(store[i].pos, p) > Radius
  BY <1>4, DistAssumption DEF Near, InRadius
<1> QED
  BY <1>5, <1>6, <1>7 DEF G
LEMMA ObserveStep ==
  ASSUME IInv, NEW p \in Position, NEW l \in Look, NEW z \in Zone, Observe(p, l, z)
  PROVE  IInv' /\ AnchorStep
<1>1. /\ mapId \in Session /\ store \in [Id -> Memory \cup {Absent}]
      /\ mapId' = mapId /\ session' = session /\ pin' = pin /\ running' = running
  BY DEF Observe, IInv, TypeOK
<1>2. CASE /\ store' = [store EXCEPT ![Cell[p]] = NewMemory(mapId, l, z, p)]
           /\ \A i \in Group(mapId, l, z) : Dist(store[i].pos, p) > Radius
  <2> DEFINE c == Cell[p]
             m == NewMemory(mapId, l, z, p)
  <2>1. c \in SceneId /\ c \in Id
    BY DEF SceneId, Id
  <2>2. /\ m \in Memory /\ m.mapId = mapId /\ m.look = l /\ m.zone = z /\ m.pos = p
    BY <1>1, NewMemoryType DEF NewMemory
  <2> HIDE DEF m
  <2>3. store'[c] = m /\ \A i \in Id : i # c => store'[i] = store[i]
    BY <1>1, <1>2, <2>1 DEF m
  <2>4. TypeOK'
    <3>1. store' \in [Id -> Memory \cup {Absent}]
      BY <1>1, <1>2, <2>1, <2>2 DEF m
    <3> QED
      BY <1>1, <3>1 DEF IInv, TypeOK
  <2>5. AnchoredInCell'
    BY <2>1, <2>2, <2>3 DEF IInv, AnchoredInCell, Stored, Id
  <2>6. PlainKeyless'
    BY <2>1, <2>3, SentinelAssumption DEF IInv, PlainKeyless, Stored, Id
  <2>7. \A i \in Id : i # c /\ Stored(i) /\ InGroup(store[i], mapId, l, z)
                      => /\ Dist(store[i].pos, p) > Radius
                         /\ Dist(p, store[i].pos) > Radius
    <3> SUFFICES ASSUME NEW i \in Id, InGroup(store[i], mapId, l, z)
                 PROVE  /\ Dist(store[i].pos, p) > Radius
                        /\ Dist(p, store[i].pos) > Radius
      OBVIOUS
    <3>1. store[i].pos \in Position
      BY <1>1 DEF InGroup, Memory
    <3>2. Dist(store[i].pos, p) > Radius
      BY <1>2 DEF Group
    <3> QED
      BY <3>1, <3>2, DistAssumption
  <2>8. NoCloseDuplicates'
    <3> SUFFICES ASSUME NEW i \in Id, NEW j \in Id, i # j,
                        store'[i] # Absent, store'[i].look # NoLook,
                        InGroup(store'[j], store'[i].mapId, store'[i].look, store'[i].zone)
                 PROVE  Dist(store'[i].pos, store'[j].pos) > Radius
      BY DEF NoCloseDuplicates, Stored, InGroup
    <3>1. CASE i = c
      BY <3>1, <2>2, <2>3, <2>7 DEF InGroup, Stored
    <3>2. CASE j = c
      <4>1. store'[i] = store[i] /\ i # c
        BY <3>2, <2>3
      <4>2. InGroup(store[i], mapId, l, z)
        BY <4>1, <3>2, <2>2, <2>3 DEF InGroup
      <4> QED
        BY <4>1, <4>2, <3>2, <2>2, <2>3, <2>7 DEF Stored, InGroup
    <3>3. CASE i # c /\ j # c
      BY <3>3, <2>3 DEF IInv, NoCloseDuplicates, Stored, InGroup
    <3> QED
      BY <3>1, <3>2, <3>3
  <2>9. AnchorStep
    <3> SUFFICES ASSUME NEW i \in SceneId, Stored(i),
                        InGroup(store'[i], store[i].mapId, store[i].look, store[i].zone)
                 PROVE  store'[i].pos = store[i].pos /\ store'[i].count >= store[i].count
      BY DEF AnchorStep
    <3>1. i \in Id /\ store[i] \in Memory
      BY <1>1 DEF Stored, Id
    <3>2. CASE i # c
      BY <3>1, <3>2, <2>3 DEF Memory
    <3>3. CASE i = c
      <4>1. InGroup(store[i], mapId, l, z)
        BY <3>3, <3>1, <2>2, <2>3 DEF InGroup, Stored
      <4>2. Dist(store[i].pos, p) > Radius
        BY <4>1, <3>1, <1>2 DEF Group
      <4>3. Cell[store[i].pos] = Cell[p]
        BY <3>3 DEF IInv, AnchoredInCell
      <4>4. store[i].pos \in Position
        BY <3>1 DEF Memory
      <4>5. Dist(store[i].pos, p) <= Radius
        BY <4>3, <4>4, CellAssumption
      <4>6. Dist(store[i].pos, p) \in Nat /\ Radius \in Nat
        BY <4>4, DistAssumption
      <4> QED
        BY <4>2, <4>5, <4>6
    <3> QED
      BY <3>2, <3>3
  <2> QED
    BY <2>4, <2>5, <2>6, <2>8, <2>9 DEF IInv
<1>3. ASSUME NEW t \in Group(mapId, l, z),
             store' = [store EXCEPT ![t] = Folded(store[t])]
      PROVE  IInv' /\ AnchorStep
  <2>1. t \in Id /\ store[t] \in Memory
    BY <1>1 DEF Group, InGroup
  <2>2. /\ store'[t] \in Memory
        /\ store'[t].mapId = store[t].mapId /\ store'[t].look = store[t].look
        /\ store'[t].zone = store[t].zone /\ store'[t].pos = store[t].pos
        /\ store'[t].count >= store[t].count
    BY <1>1, <1>3, <2>1, FoldedType
  <2>3. \A i \in Id : i # t => store'[i] = store[i]
    BY <1>1, <1>3
  <2>4. \A i \in Id : /\ Stored(i)' <=> Stored(i)
                      /\ Stored(i) => /\ store'[i].mapId = store[i].mapId
                                      /\ store'[i].look = store[i].look
                                      /\ store'[i].zone = store[i].zone
                                      /\ store'[i].pos = store[i].pos
                                      /\ store'[i].count >= store[i].count
    <3> SUFFICES ASSUME NEW i \in Id
                 PROVE  /\ Stored(i)' <=> Stored(i)
                        /\ Stored(i) => /\ store'[i].mapId = store[i].mapId
                                        /\ store'[i].look = store[i].look
                                        /\ store'[i].zone = store[i].zone
                                        /\ store'[i].pos = store[i].pos
                                        /\ store'[i].count >= store[i].count
      OBVIOUS
    <3>1. CASE i = t
      BY <3>1, <2>1, <2>2, SentinelAssumption DEF Stored
    <3>2. CASE i # t
      BY <3>2, <2>3, <1>1 DEF Stored, Memory
    <3> QED
      BY <3>1, <3>2
  <2>5. TypeOK'
    <3>1. store' \in [Id -> Memory \cup {Absent}]
      BY <1>1, <1>3, <2>1, FoldedType
    <3> QED
      BY <1>1, <3>1 DEF IInv, TypeOK
  <2>6. AnchoredInCell'
    BY <2>4 DEF IInv, AnchoredInCell, Id
  <2>7. PlainKeyless'
    BY <2>4 DEF IInv, PlainKeyless, Id
  <2>8. NoCloseDuplicates'
    BY <2>4 DEF IInv, NoCloseDuplicates, InGroup, Stored
  <2>9. AnchorStep
    BY <2>4 DEF AnchorStep, Id
  <2> QED
    BY <2>5, <2>6, <2>7, <2>8, <2>9 DEF IInv
<1> QED
  BY <1>2, <1>3, ObserveCases

\* A step that writes no scene memory moves no anchor.
LEMMA OtherAnchorStep ==
  ASSUME IInv,
         \A i \in SceneId : store'[i] = store[i] \/ store'[i] = Absent
  PROVE  AnchorStep
<1> SUFFICES ASSUME NEW i \in SceneId, Stored(i), store'[i] = store[i]
             PROVE  store'[i].pos = store[i].pos /\ store'[i].count >= store[i].count
  BY DEF AnchorStep, InGroup
<1>1. store[i] \in Memory
  BY DEF IInv, TypeOK, Stored, Id
<1> QED
  BY <1>1 DEF Memory

LEMMA NextStep == IInv /\ [Next]_vars => IInv' /\ AnchorStep
<1> SUFFICES ASSUME IInv, [Next]_vars PROVE IInv' /\ AnchorStep
  OBVIOUS
<1>1. CASE Start
  <2>1. store' = store /\ TypeOK'
    BY <1>1 DEF Start, IInv, TypeOK
  <2> QED
    BY <2>1, SameStore, OtherAnchorStep
<1>2. CASE Crash
  <2>1. store' = store /\ TypeOK'
    BY <1>2 DEF Crash, IInv, TypeOK
  <2> QED
    BY <2>1, SameStore, OtherAnchorStep
<1>3. ASSUME NEW s \in Session \cup {NoSession}, Relaunch(s)
      PROVE  IInv' /\ AnchorStep
  <2>1. store' = store /\ TypeOK'
    BY <1>3 DEF Relaunch, IInv, TypeOK
  <2> QED
    BY <2>1, SameStore, OtherAnchorStep
<1>4. ASSUME NEW s \in Session, PinFile(s)
      PROVE  IInv' /\ AnchorStep
  <2>1. store' = store /\ TypeOK'
    BY <1>4 DEF PinFile, IInv, TypeOK
  <2> QED
    BY <2>1, SameStore, OtherAnchorStep
<1>5. ASSUME NEW p \in Position, NEW l \in Look, NEW z \in Zone, Observe(p, l, z)
      PROVE  IInv' /\ AnchorStep
  BY <1>5, ObserveStep
<1>6. ASSUME NEW i \in PlainId, NEW p \in Position, NEW z \in Zone, Index(i, p, z)
      PROVE  IInv' /\ AnchorStep
  <2>1. \A j \in SceneId : store'[j] = store[j]
    BY <1>6, SentinelAssumption DEF Index, IInv, TypeOK, Id
  <2> QED
    BY <1>6, <2>1, IndexStep, OtherAnchorStep
<1>7. ASSUME NEW ids \in SUBSET Id, Delete(ids)
      PROVE  IInv' /\ AnchorStep
  <2>1. \A j \in SceneId : store'[j] = store[j] \/ store'[j] = Absent
    BY <1>7 DEF Delete, Id
  <2> QED
    BY <1>7, <2>1, DeleteStep, OtherAnchorStep
<1>8. CASE UNCHANGED vars
  <2>1. store' = store /\ TypeOK'
    BY <1>8 DEF vars, IInv, TypeOK
  <2> QED
    BY <2>1, SameStore, OtherAnchorStep
<1> QED
  BY <1>1, <1>2, <1>3, <1>4, <1>5, <1>6, <1>7, <1>8 DEF Next

-----------------------------------------------------------------------------
\* Every memory, id and tag keeps its type, and a running rag_node has a session.
THEOREM TypeCorrect == Spec => []TypeOK
<1>1. IInv => TypeOK
  BY DEF IInv
<1> QED
  BY <1>1, InitIInv, NextStep, PTL DEF Spec

\* scene_merge.py's invariant: no two memories of the same look, zone and map
\* session ever lie within one merge radius of each other, for every radius a
\* cell fits in, and although the scan for a target is cut at a limit.
THEOREM MergeInvariant == Spec => []NoCloseDuplicates
<1>1. IInv => NoCloseDuplicates
  BY DEF IInv
<1> QED
  BY <1>1, InitIInv, NextStep, PTL DEF Spec

\* The anchor of a memory never moves and its count never drops while it stays
\* a memory of its group, whatever is observed, deleted, crashes or relaunches.
THEOREM AnchorsStayPut == Spec => AnchorsStay
<1>1. IInv /\ [Next]_vars => [AnchorStep]_vars
  BY NextStep
<1> QED
  BY <1>1, InitIInv, NextStep, PTL DEF Spec, AnchorsStay

\* A scene memory always lies in the cell its id names, so an id tells where the
\* robot was to within one cell, whatever has been merged into it.
THEOREM AnchorsInTheirCells == Spec => []AnchoredInCell
<1>1. IInv => AnchoredInCell
  BY DEF IInv
<1> QED
  BY <1>1, InitIInv, NextStep, PTL DEF Spec

-----------------------------------------------------------------------------
\* What an observation leaves behind.

LEMMA ObservationRemembered ==
  ASSUME IInv, NEW p \in Position, NEW l \in Look, NEW z \in Zone, Observe(p, l, z)
  PROVE  \E i \in Id : InGroup(store'[i], mapId, l, z) /\ Dist(store'[i].pos, p) <= Radius
<1>1. mapId \in Session /\ store \in [Id -> Memory \cup {Absent}]
  BY DEF Observe, IInv, TypeOK
<1>2. CASE store' = [store EXCEPT ![Cell[p]] = NewMemory(mapId, l, z, p)]
  <2> DEFINE m == NewMemory(mapId, l, z, p)
  <2>1. Cell[p] \in Id
    BY DEF SceneId, Id
  <2>2. /\ m \in Memory /\ m.mapId = mapId /\ m.look = l /\ m.zone = z /\ m.pos = p
    BY <1>1, NewMemoryType DEF NewMemory
  <2> HIDE DEF m
  <2>3. store'[Cell[p]] = m
    BY <1>1, <1>2, <2>1 DEF m
  <2>4. InGroup(m, mapId, l, z)
    BY <2>2, SentinelAssumption DEF InGroup
  <2>5. Dist(m.pos, p) <= Radius
    BY <2>2, DistAssumption
  <2> QED
    BY <2>1, <2>3, <2>4, <2>5
<1>3. ASSUME NEW t \in Group(mapId, l, z), Dist(store[t].pos, p) <= Radius,
             store' = [store EXCEPT ![t] = Folded(store[t])]
      PROVE  \E i \in Id : InGroup(store'[i], mapId, l, z) /\ Dist(store'[i].pos, p) <= Radius
  <2>1. t \in Id /\ store[t] \in Memory /\ InGroup(store[t], mapId, l, z)
    BY <1>1 DEF Group, InGroup
  <2>2. store'[t] = Folded(store[t])
    BY <1>1, <1>3, <2>1
  <2>3. InGroup(Folded(store[t]), mapId, l, z)
    BY <2>1, FoldedType, SentinelAssumption DEF InGroup
  <2>4. Folded(store[t]).pos = store[t].pos
    BY <2>1, FoldedType
  <2> QED
    BY <1>3, <2>1, <2>2, <2>3, <2>4
<1> QED
  BY <1>2, <1>3, ObserveCases

\* Every observation leaves a memory of its own look, zone and session within
\* one radius: no house is so full, and no scan so short, that a place is lost.
THEOREM NothingSeenIsLost == Spec => ObservationsRemembered
<1> DEFINE Kept == \A p \in Position, l \in Look, z \in Zone :
             Observe(p, l, z) =>
               \E i \in Id : InGroup(store'[i], mapId, l, z) /\ Dist(store'[i].pos, p) <= Radius
<1>1. IInv => Kept
  BY ObservationRemembered
<1>2. IInv /\ [Next]_vars => [Kept]_vars
  BY <1>1
<1> QED
  BY <1>2, InitIInv, NextStep, PTL DEF Spec, ObservationsRemembered

-----------------------------------------------------------------------------
\* rag_node implements PlaceMemory.  An id is the cell of its memory's anchor, so
\* no two ids hold the same place, and what an observation overwrites lies in the
\* cell it was made in; an observation that is stored found nothing of its group
\* near, as ObserveCases says.

\* A step that keeps what the scene memories say of their places stutters.
LEMMA PlacesKept ==
  ASSUME \A i \in SceneId : /\ Stored(i)' <=> Stored(i)
                            /\ Stored(i) => PlaceOf(store'[i]) = PlaceOf(store[i])
  PROVE  Places' = Places
BY DEF Places, Stored

LEMMA PlaceType ==
  ASSUME IInv, NEW i \in SceneId, Stored(i)
  PROVE  /\ store[i] \in Memory /\ store[i].look \in Look /\ store[i].pos \in Position
         /\ Cell[store[i].pos] = i
         /\ PlaceOf(store[i]) \in Abstract!Place
<1>1. store[i] \in Memory
  BY DEF IInv, TypeOK, Stored, Id
<1>2. store[i].look \in Look /\ Cell[store[i].pos] = i
  BY DEF IInv, AnchoredInCell
<1> QED
  BY <1>1, <1>2 DEF Memory, PlaceOf, Abstract!Place

LEMMA DeletedPlaces ==
  ASSUME NEW ids \in SUBSET Id, Delete(ids)
  PROVE  [Abstract!Next]_Places
<1>1. \A i \in SceneId : Stored(i)' => Stored(i) /\ store'[i] = store[i]
  BY DEF Delete, Stored, Id
<1>2. Places' \subseteq Places
  BY <1>1 DEF Places, Stored
<1>3. CASE Places' # Places
  <2> DEFINE gone == Places \ Places'
  <2>1. gone \in SUBSET Places /\ gone # {} /\ Places' = Places \ gone
    BY <1>2, <1>3
  <2> QED
    BY <2>1 DEF Abstract!Next, Abstract!Forget
<1> QED
  BY <1>3

LEMMA ObservedPlaces ==
  ASSUME IInv, NEW p \in Position, NEW l \in Look, NEW z \in Zone, Observe(p, l, z)
  PROVE  [Abstract!Next]_Places
<1>1. mapId \in Session /\ store \in [Id -> Memory \cup {Absent}]
  BY DEF Observe, IInv, TypeOK
<1>2. CASE /\ store' = [store EXCEPT ![Cell[p]] = NewMemory(mapId, l, z, p)]
           /\ \A i \in Group(mapId, l, z) : Dist(store[i].pos, p) > Radius
  <2> DEFINE c == Cell[p]
             m == NewMemory(mapId, l, z, p)
             a == PlaceOf(m)
  <2>1. c \in SceneId /\ c \in Id
    BY DEF SceneId, Id
  <2>2. m \in Memory /\ m.mapId = mapId /\ m.look = l /\ m.zone = z /\ m.pos = p
    BY <1>1, NewMemoryType DEF NewMemory
  <2> HIDE DEF m
  <2>3. store'[c] = m /\ m # Absent /\ \A i \in Id : i # c => store'[i] = store[i]
    BY <1>1, <1>2, <2>1, <2>2, SentinelAssumption DEF m
  <2>4. a \in Abstract!Place /\ a.pos = p
    BY <1>1, <2>2 DEF PlaceOf, Abstract!Place
  <2>5. \A b \in Places : Abstract!Alike(a, b) => ~Abstract!Near(b, a)
    <3> SUFFICES ASSUME NEW i \in SceneId, Stored(i), Abstract!Alike(a, PlaceOf(store[i]))
                 PROVE  ~Abstract!Near(PlaceOf(store[i]), a)
      BY DEF Places
    <3>1. i \in Group(mapId, l, z)
      BY <2>2 DEF Abstract!Alike, PlaceOf, Group, InGroup, Stored, Id
    <3>2. Dist(store[i].pos, p) > Radius
      BY <1>2, <3>1
    <3>3. Dist(store[i].pos, p) \in Nat /\ Radius \in Nat
      BY PlaceType, DistAssumption
    <3> QED
      BY <3>2, <3>3, <2>4 DEF Abstract!Near, PlaceOf
  <2>6. CASE ~Stored(c)
    <3>1. Places' = Places \cup {a}
      BY <2>1, <2>3, <2>6 DEF Places, Stored, Id
    <3> QED
      BY <3>1, <2>4, <2>5 DEF Abstract!Next, Abstract!Discover
  <2>7. CASE Stored(c)
    <3> DEFINE b == PlaceOf(store[c])
    <3>1. b \in Places /\ b.pos \in Position /\ Cell[b.pos] = c
      BY <2>1, <2>7, PlaceType DEF Places, PlaceOf
    <3>2. Abstract!Near(b, a)
      BY <3>1, <2>4, CellAssumption DEF Abstract!Near
    <3>3. \A i \in SceneId : Stored(i) /\ PlaceOf(store[i]) = b => i = c
      BY <3>1, PlaceType DEF PlaceOf
    <3>4. Places' = (Places \ {b}) \cup {a}
      <4>1. Places' = {PlaceOf(store[i]) : i \in {j \in SceneId : Stored(j) /\ j # c}} \cup {a}
        BY <2>1, <2>3 DEF Places, Stored, Id
      <4>2. Places \ {b} = {PlaceOf(store[i]) : i \in {j \in SceneId : Stored(j) /\ j # c}}
        BY <3>3, <2>1, <2>7 DEF Places
      <4> QED
        BY <4>1, <4>2
    <3> QED
      BY <3>1, <3>2, <3>4, <2>4, <2>5 DEF Abstract!Next, Abstract!Discover
  <2> QED
    BY <2>6, <2>7
<1>3. ASSUME NEW t \in Group(mapId, l, z), store' = [store EXCEPT ![t] = Folded(store[t])]
      PROVE  [Abstract!Next]_Places
  <2>1. t \in Id /\ store[t] \in Memory
    BY <1>1 DEF Group, InGroup
  <2>2. /\ store'[t] \in Memory /\ store'[t] # Absent /\ store[t] # Absent
        /\ PlaceOf(store'[t]) = PlaceOf(store[t])
    BY <1>1, <1>3, <2>1, FoldedType, SentinelAssumption DEF PlaceOf
  <2>3. \A i \in Id : i # t => store'[i] = store[i]
    BY <1>1, <1>3
  <2>4. \A i \in SceneId : /\ Stored(i)' <=> Stored(i)
                           /\ Stored(i) => PlaceOf(store'[i]) = PlaceOf(store[i])
    BY <2>2, <2>3 DEF Stored, Id
  <2> QED
    BY <2>4, PlacesKept
<1> QED
  BY <1>2, <1>3, ObserveCases

LEMMA StepImplements == IInv /\ [Next]_vars => [Abstract!Next]_Places
<1> SUFFICES ASSUME IInv, [Next]_vars PROVE [Abstract!Next]_Places
  OBVIOUS
<1>1. CASE store' = store
  BY <1>1, PlacesKept DEF Stored
<1>2. CASE \/ Start \/ Crash \/ \E s \in Session \cup {NoSession} : Relaunch(s)
           \/ \E s \in Session : PinFile(s)
           \/ UNCHANGED vars
  BY <1>1, <1>2 DEF Start, Crash, Relaunch, PinFile, vars
<1>3. ASSUME NEW p \in Position, NEW l \in Look, NEW z \in Zone, Observe(p, l, z)
      PROVE  [Abstract!Next]_Places
  BY <1>3, ObservedPlaces
<1>4. ASSUME NEW i \in PlainId, NEW p \in Position, NEW z \in Zone, Index(i, p, z)
      PROVE  [Abstract!Next]_Places
  <2>1. \A j \in SceneId : store'[j] = store[j]
    BY <1>4, SentinelAssumption DEF Index, IInv, TypeOK, Id
  <2> QED
    BY <2>1, PlacesKept DEF Stored
<1>5. ASSUME NEW ids \in SUBSET Id, Delete(ids)
      PROVE  [Abstract!Next]_Places
  BY <1>5, DeletedPlaces
<1> QED
  BY <1>2, <1>3, <1>4, <1>5 DEF Next

\* The detailed memory implements the abstract one: whoever queries it may think
\* of it as a set of places, each new one away from all that are like it.
THEOREM Implements == Spec => RemembersPlaces
<1>1. Init => Places = {}
  BY DEF Init, Places, Stored, Id
<1> QED
  BY <1>1, InitIInv, NextStep, StepImplements, PTL DEF Spec, RemembersPlaces, Abstract!Spec
=============================================================================
