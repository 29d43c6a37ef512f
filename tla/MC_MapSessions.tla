--------------------------- MODULE MC_MapSessions ---------------------------
(***************************************************************************)
(* Two frames, a zone whose centre lies where the second one begins, one   *)
(* name an operator may give, one spot to remember.                        *)
(***************************************************************************)
EXTENDS MapSessions

CONSTANTS freshA, freshB

MCPosition == {0}
MCDist(p, q) == IF p >= q THEN p - q ELSE q - p
MCCell == [p \in MCPosition |-> p]
MCFreshId == [f \in {0, 2} |-> IF f = 0 THEN freshA ELSE freshB]
=============================================================================
