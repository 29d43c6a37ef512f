----------------------------- MODULE MC_Mission -----------------------------
(***************************************************************************)
(* A room of four by two cells with a door in its far wall, one room, one *)
(* remembered place, plans of up to two steps.                             *)
(***************************************************************************)
EXTENDS Mission

CONSTANTS kitchen, Kitchen, lamp, Lamp, depot, east

Rows == 0..3
Columns == 0..4
MCGrid == Rows \X Columns
MCInterior == {1, 2} \X (1..3)
MCWalls == {c \in MCGrid : c \notin MCInterior /\ c # <<0, 3>>}

Apart(a, b) == IF a >= b THEN a - b ELSE b - a
Ring(c, d) ==
  LET r == Apart(c[1], d[1])
      s == Apart(c[2], d[2])
  IN  IF r >= s THEN r ELSE s
MCMetres == [c \in MCGrid |-> [d \in MCGrid |-> Ring(c, d)]]
MCWithin == [c \in MCGrid |-> [k \in 1..1 |-> {d \in MCGrid : Ring(c, d) <= k}]]
MCSees == [c \in MCGrid |-> MCWithin[c][1]]
MCPoint == {<<1, 1>>, <<1, 2>>, <<1, 3>>, <<2, 3>>}
MCStart == <<1, 1>>
MCClose(p, q) == p = q

MCKey == [x \in {kitchen, Kitchen, lamp, Lamp, depot} |->
            CASE x = Lamp -> lamp [] x = Kitchen -> kitchen [] OTHER -> x]
MCCentre == [a \in {east} |-> <<1, 3>>]
MCInside == [a \in {east} |-> Rows \X (2..4)]
MCRemembered == {[label |-> lamp, pos |-> <<2, 3>>]}

NavigateTo(z, p) == [skill |-> "navigate", zone |-> z, point |-> p]
Exploring(z) == [skill |-> "explore", zone |-> z, point |-> None]
Perceiving == [skill |-> "perceive", zone |-> None, point |-> None]

Common ==
  {NavigateTo(kitchen, None), NavigateTo(Kitchen, None),
   NavigateTo(None, <<2, 3>>), NavigateTo(None, <<1, 2>>)}
Odd ==
  {NavigateTo(None, None), NavigateTo(None, <<1, 1>>), NavigateTo(Null, <<2, 3>>),
   NavigateTo(kitchen, <<1, 1>>), Exploring(None), Exploring(kitchen)}
MCWritten ==
  {<<>>, <<Perceiving>>} \cup {<<s, t>> : s, t \in Common} \cup {<<s>> : s \in Odd}
  \cup {<<NavigateTo(Kitchen, None), Exploring(kitchen)>>}
=============================================================================
