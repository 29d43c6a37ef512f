-------------------------- MODULE MC_SemanticMemory --------------------------
(***************************************************************************)
(* SemanticMemory on a corridor.  Positions are quarter metres; a cell is  *)
(* 0.5 m and Python's round() takes halves to the even cell.               *)
(***************************************************************************)
EXTENDS SemanticMemory

MCPosition == {0, 1, 3, 5, 8}
MCDist(p, q) == IF p >= q THEN p - q ELSE q - p
MCCell == [p \in MCPosition |->
             CASE p % 4 = 1 -> (p - 1) \div 2
               [] p % 4 = 3 -> (p + 1) \div 2
               [] OTHER -> p \div 2]
=============================================================================
