---------------------------- MODULE MC_ZoneIndex ----------------------------
(***************************************************************************)
(* Two rooms, two rectangles, two web server threads, two map sessions.    *)
(***************************************************************************)
EXTENDS ZoneIndex

CONSTANTS kitchen, hall

MCPosition == {0, 9}
MCDist(p, q) == IF p >= q THEN p - q ELSE q - p
MCCell == [p \in MCPosition |-> <<p>>]
MCArea == {0, 9}
MCCentre == [a \in MCArea |-> a]
MCRoom == {kitchen, hall}
MCZoneId == [r \in MCRoom |-> <<r>>]
MCPlainId == {MCZoneId[r] : r \in MCRoom}
=============================================================================
