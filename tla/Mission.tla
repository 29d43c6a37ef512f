------------------------------ MODULE Mission ------------------------------
(***************************************************************************)
(* One goal from its plan to the last step that is executed: what the      *)
(* planner checks against the places it read (PlanCheck), and what the     *)
(* skills executor does with it while people name and delete rooms and the *)
(* map grows (Explore).  Calls, waits and reports are GoalExecution's.     *)
(***************************************************************************)
EXTENDS PlanCheck, Explore

CONSTANTS
  Inside,       \* the cells of an area
  TopK,         \* hits asked of a search
  MaxRows,      \* rows a query may return
  MaxEdits      \* bound on rooms saved or deleted

ASSUME MissionAssumption ==
  /\ Point \subseteq Free
  /\ Inside \in [Area -> SUBSET Grid]
  /\ \A a \in Area : Centre[a] \in Inside[a]
  /\ TopK \in Nat /\ MaxRows \in Nat /\ MaxEdits \in Nat

VARIABLES
  zones,      \* the zones in SQLite
  edits,      \* how often they were changed
  pc,         \* planning, checking, executing or done
  todo,       \* steps still to execute
  refused     \* the step the executor refused for an unknown zone, or NoTarget

missionVars == <<zones, edits, pc, todo, refused>>
allVars == <<checkVars, exploreVars, missionVars>>

MissionTypeOK ==
  /\ CheckTypeOK /\ ExploreTypeOK
  /\ zones \in Table /\ edits \in 0..MaxEdits
  /\ pc \in {"planning", "checking", "executing", "done"}
  /\ todo \in Seq(Step) /\ Len(todo) <= MaxSteps
  /\ refused \in Step \cup {NoTarget}
  /\ phase # "off" => pc = "executing"

MissionInit ==
  /\ ExploreInit
  /\ zones \in Table /\ edits = 0
  /\ known = zones /\ memory = {}
  /\ steps = <<>> /\ result = <<>> /\ n = 1
  /\ resolution = NotAsked /\ calls = 0
  /\ pc = "planning" /\ todo = <<>> /\ refused = NoTarget

-----------------------------------------------------------------------------
\* The planner

UpTo(k) == {ps \in SUBSET Remembered : Cardinality(ps) <= k}

\* What a search of the place memory brings back: its best hits, those above the
\* threshold, or none when rag_node is away, late or failing.
Found == UpTo(TopK)

\* The other source: rows of a query the model writes over a table of places, or
\* none when it is no good.
Selected == UpTo(MaxRows)

\* Retrieval, the zones as they are now, and whatever the model writes.
MakePlan ==
  /\ pc = "planning" /\ pc' = "checking"
  /\ \E plan \in Written, places \in Found \cup Selected : BeginCheck(plan, places, zones)
  /\ UNCHANGED <<exploreVars, zones, edits, todo, refused>>

CheckStep ==
  /\ pc = "checking" /\ CheckNext
  /\ UNCHANGED <<exploreVars, missionVars>>

\* Retrieval and the check are over; the zones read stay for the properties.
Execute ==
  /\ pc = "checking" /\ ~Checking
  /\ pc' = "executing" /\ todo' = CheckedPlan
  /\ memory' = {} /\ resolution' = NotAsked
  /\ steps' = <<>> /\ result' = <<>> /\ n' = 1 /\ calls' = 0
  /\ UNCHANGED <<known, exploreVars, zones, edits, refused>>

-----------------------------------------------------------------------------
\* The executor

Ready == pc = "executing" /\ phase = "off" /\ todo # <<>>
NamesZone(s) == s.zone # None

\* The zone is looked up in SQLite, whatever else the step says.
ZoneExists(s) == s.zone \in ZoneName /\ zones[s.zone] # None

StopPlan == pc' = "done" /\ todo' = <<>>

\* "Unknown zone": the skill raises and the plan stops.
Refuse ==
  /\ Ready /\ Head(todo).skill \in {"navigate", "explore"}
  /\ NamesZone(Head(todo)) /\ ~ZoneExists(Head(todo))
  /\ StopPlan /\ refused' = Head(todo)
  /\ UNCHANGED <<checkVars, exploreVars, zones, edits>>

Destination(s) == IF NamesZone(s) THEN Centre[zones[s.zone]] ELSE s.point

\* Nav2 gets there, or the skill returns all the same from where the robot stands.
Navigate ==
  /\ Ready /\ Head(todo).skill = "navigate"
  /\ IF NamesZone(Head(todo)) THEN ZoneExists(Head(todo)) ELSE ByPoint(Head(todo))
  /\ \E c \in {Destination(Head(todo)), robot} : MoveTo(c)
  /\ todo' = Tail(todo)
  /\ UNCHANGED <<checkVars, loopVars, zones, edits, pc, refused>>

\* Neither a zone nor a point.
NavigateNowhere ==
  /\ Ready /\ Head(todo).skill = "navigate"
  /\ ~NamesZone(Head(todo)) /\ ~ByPoint(Head(todo))
  /\ StopPlan
  /\ UNCHANGED <<checkVars, exploreVars, zones, edits, refused>>

StartExploring ==
  /\ Ready /\ Head(todo).skill = "explore"
  /\ NamesZone(Head(todo)) => ZoneExists(Head(todo))
  /\ BeginExplore(IF NamesZone(Head(todo)) THEN Inside[zones[Head(todo).zone]] ELSE Grid)
  /\ todo' = Tail(todo)
  /\ UNCHANGED <<checkVars, zones, edits, pc, refused>>

ExploreStepOn ==
  /\ pc = "executing" /\ ExploreNext
  /\ UNCHANGED <<checkVars, missionVars>>

\* The robot looks around; the place is remembered or the skill raises.
Perceive ==
  /\ Ready /\ Head(todo).skill = "perceive"
  /\ \/ todo' = Tail(todo) /\ UNCHANGED pc
     \/ StopPlan
  /\ UNCHANGED <<checkVars, exploreVars, zones, edits, refused>>

Finish ==
  /\ pc = "executing" /\ phase = "off" /\ todo = <<>>
  /\ StopPlan
  /\ UNCHANGED <<checkVars, exploreVars, zones, edits, refused>>

-----------------------------------------------------------------------------
\* Beside them

PublishMap == MapPublished /\ UNCHANGED <<checkVars, missionVars>>

\* A room is named, redrawn or deleted in the dashboard.
EditZones ==
  /\ pc # "done" /\ edits < MaxEdits
  /\ edits' = edits + 1
  /\ \E z \in ZoneName, a \in Area \cup {None} : zones' = [zones EXCEPT ![z] = a]
  /\ UNCHANGED <<checkVars, exploreVars, pc, todo, refused>>

MissionNext ==
  \/ MakePlan \/ CheckStep \/ Execute
  \/ Refuse \/ Navigate \/ NavigateNowhere \/ StartExploring \/ ExploreStepOn
  \/ Perceive \/ Finish
  \/ PublishMap \/ EditZones

\* Calls return, so the planner and the executor go on, and maps are published.
\* Nothing is assumed of the clock: that an exploration ends does not rest on
\* its duration.
GoesOn == edits' = edits /\ MissionNext /\ (late' => late)

MissionFairness == WF_allVars(GoesOn) /\ WF_allVars(PublishMap)

MissionSpec == MissionInit /\ [][MissionNext]_allVars /\ MissionFairness

-----------------------------------------------------------------------------
\* Properties

\* A navigate step of a checked plan is refused for its zone only if the zone
\* was deleted after the planner read it, or if the step also names a point, or
\* a null zone: the check looks at the point then, the executor at the zone.
RefusedOnlyIfGone ==
  [][refused # refused' /\ refused'.skill = "navigate" =>
       \/ refused'.zone = Null \/ ByPoint(refused')
       \/ /\ refused'.zone \in ZoneName
          /\ known[refused'.zone] # None /\ zones[refused'.zone] = None]_allVars

\* Every plan comes to its end, although navigations fail, the map grows and the
\* time given to an exploration never passes: no frontier is tried again.
MissionEnds == <>(pc = "done")
=============================================================================
