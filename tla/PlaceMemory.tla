----------------------------- MODULE PlaceMemory -----------------------------
(***************************************************************************)
(* What the scene memory promises to whoever explores and whoever asks     *)
(* (scene_merge.py, ADR-025): a set of places, each seen under a look, in  *)
(* a zone, during a map session.  No ids, cells, counts or scan limits.    *)
(***************************************************************************)
EXTENDS Integers

CONSTANTS Position, Dist(_, _), Look, Zone, Session, Radius

VARIABLE places

Place == [mapId: Session, look: Look, zone: Zone, pos: Position]

Alike(a, b) == a.mapId = b.mapId /\ a.look = b.look /\ a.zone = b.zone
Near(a, b) == Dist(a.pos, b.pos) <= Radius

\* A place is new where no place like it is near.  Remembering it costs at most
\* one other, and one that is near.
Discover(a) ==
  /\ \A b \in places : Alike(a, b) => ~Near(b, a)
  /\ \/ places' = places \cup {a}
     \/ \E b \in places : Near(b, a) /\ places' = (places \ {b}) \cup {a}

Forget(gone) == gone # {} /\ places' = places \ gone

Next ==
  \/ \E a \in Place : Discover(a)
  \/ \E gone \in SUBSET places : Forget(gone)

Spec == places = {} /\ [][Next]_places
=============================================================================
