----------------------------- MODULE PlanCheck -----------------------------
(***************************************************************************)
(* The plan check of llm_planner_node (plan_validation.py): one navigate   *)
(* step after another is kept, replaced by an exploration or dropped.      *)
(*                                                                         *)
(* Places are what the planner was shown: retrieved memories and the       *)
(* centres of the zones it read.  The resolver is a language model: it may *)
(* answer anything, or fail.  A name stands for its spelling; Key is what  *)
(* _normalize makes of it.  Which of several places near a point is the    *)
(* nearest only words the note, so it is left out, as are the notes.       *)
(***************************************************************************)
EXTENDS Integers, Sequences, FiniteSets

CONSTANTS
  Point,          \* map-frame points a step may name or a place lie at
  Close(_, _),    \* within GROUNDING_TOLERANCE_M of each other
  Name,           \* names of zones and memories, and names a goal may use
  Wanted,         \* names the resolver may report as missing
  Key,            \* a name without accents, case, spaces and punctuation
  ZoneName,       \* names zones may have
  Area,           \* rectangles zones may have
  Centre,         \* the centre of an area
  Remembered,     \* places retrieval may bring back
  Written,        \* plans the language model may write
  MaxSteps,       \* max_plan_steps
  None,           \* no such parameter, no such zone
  Null,           \* a parameter that is there and null
  NotAsked,       \* the resolver has not been called
  Failed          \* the resolver failed

Table == [ZoneName -> Area \cup {None}]
Place == [label: Name, pos: Point]
Step == [skill: {"navigate", "explore", "perceive"},
         zone: Name \cup {None, Null}, point: Point \cup {None}]

\* Numbers outside the list are dropped by parse_resolution.
Resolution(places) == [places: SUBSET places, missing: SUBSET Wanted]

ASSUME PlanAssumption ==
  /\ \A p \in Point : Close(p, p)
  /\ ZoneName \subseteq Name /\ Wanted \subseteq Name /\ DOMAIN Key = Name
  /\ Centre \in [Area -> Point]
  /\ Remembered \subseteq Place /\ MaxSteps \in Nat
  /\ Written \subseteq UNION {[1..k -> Step] : k \in 0..MaxSteps}
  /\ None \notin Area \cup Name \cup Point /\ Null \notin Name /\ None # Null
  /\ NotAsked # Failed
  /\ {NotAsked, Failed} \cap Resolution(Place) = {}

VARIABLES
  known,        \* the zones as the planner read them
  memory,       \* the places retrieval brought back
  steps,        \* the plan as it was written
  result,       \* validate_plan's copy: what becomes of each step
  n,            \* the step to look at next
  resolution,   \* what the resolver answered
  calls         \* history: how often the resolver was called

checkVars == <<known, memory, steps, result, n, resolution, calls>>

ExploreStep == [skill |-> "explore", zone |-> None, point |-> None]
Dropped == [skill |-> "dropped", zone |-> None, point |-> None]

Candidates ==
  memory \cup {[label |-> z, pos |-> Centre[known[z]]] : z \in {y \in ZoneName : known[y] # None}}

CheckTypeOK ==
  /\ known \in Table /\ memory \subseteq Remembered
  /\ steps \in Seq(Step) /\ Len(steps) <= MaxSteps
  /\ result \in Seq(Step \cup {Dropped}) /\ Len(result) = Len(steps)
  /\ n \in 1..(Len(steps) + 1)
  /\ resolution \in Resolution(Place) \cup {NotAsked, Failed}
  /\ calls \in Nat

-----------------------------------------------------------------------------

Grounded(p) == \E c \in Candidates : Close(p, c.pos)

\* Mutant: a point near any place at all belongs to the goal.
BelongsAnywhere(p) == Grounded(p)

\* The point is that of a place the goal asks for.
Belongs(p) == \E c \in resolution.places : Close(p, c.pos)

\* What the goal asks for and the robot does not know under any spelling.
TrulyMissing ==
  {m \in resolution.missing : \A c \in Candidates : Key[c.label] # Key[m]}

Checking == n <= Len(steps)
ByZone(s) == s.zone \in Name /\ s.point = None
ByPoint(s) == s.point # None

Keep == n' = n + 1 /\ UNCHANGED result

\* Mutant: any exploration of the plan will do.
ReplaceByAny ==
  /\ result' = [result EXCEPT ![n] =
       IF \E i \in 1..Len(result) : result[i].skill = "explore" THEN Dropped ELSE ExploreStep]
  /\ n' = n + 1

\* A rejected step becomes an exploration, or nothing if one precedes it.
\* (The search stops at the first exploration and so never meets a dropped step.)
Replace ==
  /\ result' = [result EXCEPT ![n] =
       IF \E i \in 1..(n - 1) : result[i].skill = "explore" THEN Dropped ELSE ExploreStep]
  /\ n' = n + 1

BeginCheck(plan, places, table) ==
  /\ known' = table /\ memory' = places
  /\ steps' = plan /\ result' = plan /\ n' = 1
  /\ resolution' = NotAsked /\ calls' = 0

\* Only navigate steps that name a place are looked at.
LeaveStep ==
  /\ Checking
  /\ steps[n].skill # "navigate" \/ (~ByZone(steps[n]) /\ ~ByPoint(steps[n]))
  /\ Keep
  /\ UNCHANGED <<known, memory, steps, resolution, calls>>

\* Mutant: the spelling does not matter.
ZoneSpelled(z) == \E y \in ZoneName : known[y] # None /\ Key[y] = Key[z]

ZoneKnown(z) == z \in ZoneName /\ known[z] # None

\* A zone without a point: it must be one that exists, spelled as it is.
CheckZone ==
  /\ Checking
  /\ steps[n].skill = "navigate" /\ ByZone(steps[n])
  /\ IF ZoneKnown(steps[n].zone) THEN Keep ELSE Replace
  /\ UNCHANGED <<known, memory, steps, resolution, calls>>

\* The resolver is a language model: it may name any of the places it was given
\* and call anything missing, or its call or its answer is no good.
Answer == Resolution(Candidates) \cup {Failed}

Here(grounded) ==
  /\ Checking
  /\ steps[n].skill = "navigate" /\ ByPoint(steps[n])
  /\ Grounded(steps[n].point) = grounded

\* A point no known place lies at.
CheckGrounding ==
  /\ Here(FALSE)
  /\ Replace
  /\ UNCHANGED <<known, memory, steps, resolution, calls>>

\* Mutant: a failure is forgotten.
AskUntilAnswered ==
  /\ Here(TRUE) /\ resolution = NotAsked
  /\ calls' = calls + 1
  /\ \/ resolution' \in Resolution(Candidates) /\ UNCHANGED n
     \/ UNCHANGED resolution /\ n' = n + 1
  /\ UNCHANGED <<known, memory, steps, result>>

\* The first grounded point has the resolver asked; it may fail.
AskResolver ==
  /\ Here(TRUE) /\ resolution = NotAsked
  /\ calls' = calls + 1
  /\ resolution' \in Answer
  /\ UNCHANGED <<known, memory, steps, result, n>>

\* A known place is replaced only if the goal asks for one that is missing and
\* not for this one.  Without an answer the step is kept.
CheckBorrowing ==
  /\ Here(TRUE) /\ resolution # NotAsked
  /\ \/ resolution = Failed /\ Keep
     \/ /\ resolution # Failed
        /\ IF ~Belongs(steps[n].point) /\ TrulyMissing # {} THEN Replace ELSE Keep
  /\ UNCHANGED <<known, memory, steps, resolution, calls>>

CheckNext == LeaveStep \/ CheckZone \/ CheckGrounding \/ AskResolver \/ CheckBorrowing

\* The first i steps without those that were dropped.
Kept[i \in 0..Len(result)] ==
  IF i = 0 THEN <<>>
  ELSE IF result[i] = Dropped THEN Kept[i - 1] ELSE Append(Kept[i - 1], result[i])

\* The steps that are executed.
CheckedPlan == Kept[Len(result)]

-----------------------------------------------------------------------------
\* Properties

\* "A plan only goes to places the robot knows, and to none in place of one it
\* does not": every step that survived stands up to all three checks again, with
\* the answer that came in after some of them were looked at.
Stands(s) ==
  /\ ByZone(s) => s.zone \in ZoneName /\ known[s.zone] # None
  /\ ByPoint(s) =>
       /\ \E c \in Candidates : Close(s.point, c.pos)
       /\ \/ resolution \in {NotAsked, Failed}
          \/ \A m \in resolution.missing : \E c \in Candidates : Key[c.label] = Key[m]
          \/ \E c \in resolution.places : Close(s.point, c.pos)
SurvivorsStand ==
  \A i \in 1..(n - 1) : result[i].skill = "navigate" => Stands(result[i])

\* A step that is not executed as written leaves an exploration at its place or
\* before it: the plan never goes on as if the robot had been there, and a
\* plan with steps keeps at least one.
ExploresInstead ==
  \A i \in 1..(n - 1) : result[i] # steps[i] =>
    \E j \in 1..i : result[j].skill = "explore"

\* "The resolver is called at most once, and only when a navigate(x, y) step
\* lands on a known place", also when it fails.
AsksOnce ==
  /\ calls <= 1
  /\ calls = 1 => \E i \in 1..Len(steps) :
                    steps[i].skill = "navigate" /\ ByPoint(steps[i]) /\ Grounded(steps[i].point)
=============================================================================
