----------------------------- MODULE GoalService -----------------------------
(***************************************************************************)
(* What the goal pipeline promises to whoever publishes on /robot/goal:    *)
(* goals are taken up one at a time in the order they came, each is handed *)
(* over for its answer at most once, and answers come in the order they    *)
(* were handed over.  A goal may be dropped before it is taken up, given   *)
(* up before it is handed over, or lost with the process that had it.      *)
(***************************************************************************)
EXTENDS Sequences

CONSTANTS Goal, None

VARIABLES
  asked,      \* goals that were published
  waiting,    \* goals not taken up yet
  working,    \* the goal that is worked on
  handed,     \* was it handed over for its answer?
  due,        \* answers that were handed over and are not published yet
  answered    \* goals in the order of their answers

vars == <<asked, waiting, working, handed, due, answered>>

Init ==
  /\ asked = {} /\ waiting = <<>> /\ working = None /\ handed = FALSE
  /\ due = <<>> /\ answered = <<>>

Ask(g) ==
  /\ g \notin asked /\ asked' = asked \cup {g}
  /\ \/ waiting' \in {waiting, Append(waiting, g)}
     \/ waiting # <<>> /\ waiting' = Append(Tail(waiting), g)
  /\ UNCHANGED <<working, handed, due, answered>>

Take ==
  /\ working = None /\ waiting # <<>>
  /\ working' = Head(waiting) /\ waiting' = Tail(waiting)
  /\ UNCHANGED <<asked, handed, due, answered>>

HandOver ==
  /\ working # None /\ ~handed
  /\ handed' = TRUE /\ due' = Append(due, working)
  /\ UNCHANGED <<asked, waiting, working, answered>>

\* The planner is free again, or gone with what it had.
Leave ==
  /\ working # None /\ working' = None /\ handed' = FALSE
  /\ waiting' \in {waiting, <<>>}
  /\ UNCHANGED <<asked, due, answered>>

Clear ==
  /\ working = None /\ waiting # <<>> /\ waiting' = <<>>
  /\ UNCHANGED <<asked, working, handed, due, answered>>

Answer ==
  /\ due # <<>> /\ due' = Tail(due) /\ answered' = Append(answered, Head(due))
  /\ UNCHANGED <<asked, waiting, working, handed>>

LoseAnswers ==
  /\ due # <<>> /\ due' = <<>>
  /\ UNCHANGED <<asked, waiting, working, handed, answered>>

Next ==
  \/ \E g \in Goal : Ask(g)
  \/ Take \/ HandOver \/ Leave \/ Clear \/ Answer \/ LoseAnswers

Service == Init /\ [][Next]_vars

\* Whatever a goal runs into, the next one gets its turn.
Fairness == WF_vars(Leave) /\ WF_vars(Take)

Spec == Service /\ Fairness
=============================================================================
