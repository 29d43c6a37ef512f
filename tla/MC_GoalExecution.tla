--------------------------- MODULE MC_GoalExecution ---------------------------
(***************************************************************************)
(* GoalExecution for TLC: two goals of up to two steps, so that a step or  *)
(* a report given up on can be overtaken by the next goal.                 *)
(***************************************************************************)
EXTENDS GoalExecution
=============================================================================
