------------------------------ MODULE Explore ------------------------------
(***************************************************************************)
(* The explore skill: drive to the frontier worth most, again and again,   *)
(* until the time is up or no frontier is left (explore_skill.py and       *)
(* SkillsExecutorNode._run_explore).                                       *)
(*                                                                         *)
(* The house is a grid that does not change; SLAM has mapped a part of it, *)
(* and the executor holds the last map SLAM published.  Nav2 gets the      *)
(* robot to a target or leaves it somewhere.  Describing a place that was  *)
(* reached is best effort and is SemanticMemory's Observe.                 *)
(***************************************************************************)
EXTENDS Integers, FiniteSets

CONSTANTS
  Grid,             \* cells of the occupancy grid
  Interior,         \* those that are not on its border
  Walls,            \* occupied cells
  Within,           \* Within[c][k]: the cells at most k rows and columns from c
  Metres,           \* Metres[c][d]: the distance between two cells
  Sees,             \* what the scan shows from a cell
  MinCells,         \* MIN_CLUSTER_CELLS
  Reach,            \* TARGET_CLEARANCE_M in cells
  MinDistance,      \* min_distance
  ExclusionRadius,  \* exclusion_radius
  Strategy,         \* values of explore_strategy
  Start,            \* where the robot is launched
  NoTarget          \* no leg is under way

Free == Grid \ Walls

ASSUME ExploreAssumption ==
  /\ IsFiniteSet(Grid) /\ Interior \subseteq Grid /\ Walls \subseteq Grid
  /\ Within \in [Grid -> [1..Reach -> SUBSET Grid]]
  /\ Metres \in [Grid -> [Grid -> Nat]]
  /\ \A c \in Grid : Metres[c][c] = 0
  /\ Sees \in [Grid -> SUBSET Grid]
  /\ Start \in Free /\ NoTarget \notin Grid
  /\ MinCells \in Nat /\ Reach \in Nat \ {0} /\ MinDistance \in Nat
  /\ ExclusionRadius \in Nat \ {0}
  /\ Strategy \subseteq {"clusters", "nearest"}

VARIABLES
  robot,        \* the cell the robot stands on
  seen,         \* cells SLAM has mapped
  latest,       \* cells of the map the executor holds
  phase,        \* off, moving in, waiting, looking or driving
  bounds,       \* cells the exploration is restricted to
  target,       \* the frontier the robot drives to
  attempted,    \* frontiers it was sent to
  visited,      \* how many it reached
  late          \* has duration_sec passed?

mapVars == <<robot, seen, latest>>
loopVars == <<phase, bounds, target, attempted, visited, late>>
exploreVars == <<mapVars, loopVars>>

ExploreTypeOK ==
  /\ robot \in Free /\ seen \subseteq Grid /\ latest \subseteq seen
  /\ phase \in {"off", "entering", "waiting", "looking", "driving"}
  /\ bounds \subseteq Grid /\ attempted \subseteq bounds
  /\ target \in Grid \cup {NoTarget}
  /\ phase = "driving" => target \in attempted
  /\ visited \in 0..Cardinality(attempted)
  /\ late \in BOOLEAN

ExploreInit ==
  /\ robot = Start /\ seen = Sees[Start] /\ latest = {}
  /\ phase = "off" /\ bounds = Grid /\ target = NoTarget
  /\ attempted = {} /\ visited = 0 /\ late = FALSE

-----------------------------------------------------------------------------
\* Frontiers of the map the executor holds

Around(c) == Within[c][1]

Frontier ==
  {c \in Interior \cap Free \cap latest \cap bounds : ~(Around(c) \subseteq latest)}

\* What is reached from c in k steps between neighbouring cells of F.
Part(F, c) ==
  LET spread[k \in 0..Cardinality(F)] ==
        IF k = 0 THEN {c} ELSE F \cap UNION {Around(d) : d \in spread[k - 1]}
  IN  spread[Cardinality(F)]

\* (F is bound and not defined: TLC then evaluates it once.)
Clusters ==
  UNION {{S \in {Part(F, c) : c \in F} : Cardinality(S) >= MinCells} : F \in {Frontier}}

\* Cells around c that are known to be free of obstacles, up to Reach.
Clearance(c) ==
  Cardinality({k \in 1..Reach : Within[c][k] \cap Walls \cap latest = {}})

\* Mutant: what was attempted is not remembered.
EligibleAgain(c) == Metres[robot][c] >= MinDistance

\* Far enough to be worth driving to, and not where the robot was sent before.
Eligible(c) ==
  /\ Metres[robot][c] >= MinDistance
  /\ \A a \in attempted : Metres[c][a] >= ExclusionRadius

\* Mutant: a cluster whose clearest cell is not eligible is skipped.
BestOfClearest(S) ==
  {c \in S : Eligible(c) /\ \A d \in S : Clearance(d) <= Clearance(c)}

\* The clearest eligible cells of a cluster; the centroid breaks ties.
BestOf(S) ==
  {c \in S : Eligible(c) /\ \A d \in S : Eligible(d) => Clearance(d) <= Clearance(c)}

Offers ==
  {o \in {[size |-> Cardinality(S), cells |-> BestOf(S)] : S \in Clusters} : o.cells # {}}

\* size / (1 + distance), compared for two clusters and the cells they offer.
Outscores(o, c, p, d) ==
  o.size * (1 + Metres[robot][d]) >= p.size * (1 + Metres[robot][c])

BestAmong(O) ==
  UNION {{c \in o.cells : \A p \in O : \E d \in p.cells : Outscores(o, c, p, d)} : o \in O}

BestFrontier == UNION {BestAmong(O) : O \in {Offers}}

ClosestOf(F) ==
  {c \in F : Eligible(c) /\ \A d \in F : Eligible(d) => Metres[robot][c] <= Metres[robot][d]}

NearestFrontier == UNION {ClosestOf(F) : F \in {Frontier}}

Choices(strategy) == IF strategy = "nearest" THEN NearestFrontier ELSE BestFrontier

-----------------------------------------------------------------------------
\* The loop

\* Nav2 leaves the robot on a cell; SLAM maps what is seen from there.
MoveTo(c) == robot' = c /\ seen' = seen \cup Sees[c] /\ UNCHANGED latest

Loop(p) == phase' = p /\ UNCHANGED <<bounds, attempted, late>>

\* The skill returns; what it kept was its own.
Return ==
  /\ phase' = "off" /\ bounds' = Grid /\ target' = NoTarget
  /\ attempted' = {} /\ visited' = 0 /\ late' = FALSE

\* The zone's rectangle, or none; a robot outside it is sent to its centre first.
BeginExplore(B) ==
  /\ bounds' = B /\ attempted' = {} /\ visited' = 0
  /\ late' = FALSE /\ target' = NoTarget
  /\ phase' = IF robot \in B THEN "waiting" ELSE "entering"
  /\ UNCHANGED mapVars

\* It may not get there: the exploration goes on all the same.
MoveIn ==
  /\ phase = "entering"
  /\ \E c \in (bounds \cup {robot}) \cap Free : MoveTo(c)
  /\ Loop("waiting") /\ UNCHANGED <<target, visited>>

\* The deadline is looked at, and a second is slept.
Wait ==
  /\ phase = "waiting" /\ ~late
  /\ Loop("looking") /\ UNCHANGED <<mapVars, target, visited>>

TimeUp ==
  /\ phase = "waiting" /\ late
  /\ Return /\ UNCHANGED mapVars

\* There is no map yet.
LookAgain ==
  /\ phase = "looking" /\ latest = {}
  /\ Loop("waiting") /\ UNCHANGED <<mapVars, target, visited>>

\* The frontier counts as attempted before the robot moves.
SetOut ==
  /\ phase = "looking" /\ latest # {} /\ phase' = "driving"
  /\ \E s \in Strategy : \E c \in Choices(s) :
       target' = c /\ attempted' = attempted \cup {c}
  /\ UNCHANGED <<mapVars, bounds, visited, late>>

NothingLeft ==
  /\ phase = "looking" /\ latest # {} /\ Return
  /\ \E s \in Strategy : Choices(s) = {}
  /\ UNCHANGED mapVars

Reached ==
  /\ phase = "driving"
  /\ MoveTo(target) /\ visited' = visited + 1
  /\ target' = NoTarget /\ Loop("waiting")

\* The leg fails and the robot has not moved, or is somewhere in the known map.
NotReached ==
  /\ phase = "driving"
  /\ \E c \in (latest \cap Free) \cup {robot} : MoveTo(c)
  /\ target' = NoTarget /\ Loop("waiting") /\ UNCHANGED visited

DurationPasses ==
  /\ phase # "off" /\ ~late /\ late' = TRUE
  /\ UNCHANGED <<mapVars, phase, bounds, target, attempted, visited>>

\* The /map subscription runs beside the skill.
MapPublished ==
  /\ latest # seen /\ latest' = seen
  /\ UNCHANGED <<robot, seen, loopVars>>

ExploreNext ==
  \/ MoveIn \/ Wait \/ TimeUp \/ LookAgain \/ SetOut \/ NothingLeft
  \/ Reached \/ NotReached \/ DurationPasses

-----------------------------------------------------------------------------
\* Properties

\* "Skipping the whole cluster for that ended exploration on its first step"
\* (find_best_frontier): an exploration that ends before its time leaves no
\* frontier worth a drive, but for cells beside the robot or beside a place it
\* was sent to, on the map it had then.
LeavesNothing ==
  [][phase = "looking" /\ phase' = "off" =>
       \A S \in Clusters : \A c \in S :
         \/ Metres[robot][c] < MinDistance
         \/ \E a \in attempted : Metres[c][a] < ExclusionRadius]_exploreVars
=============================================================================
