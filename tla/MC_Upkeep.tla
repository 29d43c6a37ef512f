------------------------------ MODULE MC_Upkeep ------------------------------
(***************************************************************************)
(* Four places in a row whose names are not in the order they lie in: the  *)
(* two that are read last bring clusters together that a first pass keeps  *)
(* apart.  A place holds an old memory of one of three sessions, or one    *)
(* that was merged on write, or nothing.                                   *)
(***************************************************************************)
EXTENDS Upkeep

CONSTANTS old, now, none, gray, kitchen

MCPosition == {0, 2, 3, 5}
MCDist(p, q) == IF p >= q THEN p - q ELSE q - p
MCCell == [p \in MCPosition |-> p]
MCRank == [p \in MCPosition |-> CASE p = 0 -> 1 [] p = 5 -> 2 [] p = 2 -> 3 [] OTHER -> 4]
MCFromMean(P, p) ==
  LET n == Cardinality(P) * p  sum == MapThenSumSet(LAMBDA q : q, P)
  IN  IF n >= sum THEN n - sum ELSE sum - n
MCSays == [i \in MCPosition |-> gray]
MCRetags == {<<old, now>>}

MCOld(s, p) == [mapId |-> s, look |-> NoLook, zone |-> kitchen, pos |-> p, count |-> 1]
MCMerged(p) == [mapId |-> now, look |-> gray, zone |-> kitchen, pos |-> p, count |-> 2]

\* What was merged on write lies apart.
MCStores ==
  {[p \in MCPosition |-> CASE p = 0 -> MCOld(now, 0) [] p = 2 -> b [] p = 3 -> c [] OTHER -> d] :
     b \in {MCOld(now, 2), MCOld(old, 2)},
     c \in {MCOld(now, 3), MCOld(none, 3)}, d \in {MCOld(now, 5), MCMerged(5), Absent}}
=============================================================================
