--------------------------- MODULE Mission_proofs ---------------------------
(***************************************************************************)
(* What holds of plans, their check, their steps and the explorations they *)
(* start, for every house, set of places, names, zones and plans, whatever *)
(* the resolver answers and wherever Nav2 leaves the robot.                *)
(*                                                                         *)
(* The argument for the check: what is not yet looked at is as it was      *)
(* written, what was is one of three things, and a point is kept only when *)
(* the resolver was asked, so that its answer can no longer change.  For   *)
(* the exploration: every leg goes to a frontier that was not tried, and   *)
(* a search among finitely many cells finds a best one if there is any.    *)
(***************************************************************************)
EXTENDS Mission, FiniteLemmas, SequenceTheorems

\* Steps not yet looked at are as they were written, the others kept or replaced.
Looked ==
  /\ \A i \in 1..Len(steps) : i >= n => result[i] = steps[i]
  /\ \A i \in 1..Len(steps) : result[i] \in {steps[i], ExploreStep, Dropped}

\* Points are kept only once the resolver was asked, which happens once.
AskedFirst ==
  /\ resolution = NotAsked => calls = 0
  /\ resolution = NotAsked =>
       \A i \in 1..(n - 1) : result[i].skill = "navigate" => ~ByPoint(result[i])

CheckInv == CheckTypeOK /\ Looked /\ AskedFirst /\ SurvivorsStand /\ ExploresInstead /\ AsksOnce

\* A zone the executor looks up was known to the planner.
ZoneWasKnown(s) ==
  s.skill = "navigate" =>
    \/ s.zone \in {None, Null} \/ ByPoint(s)
    \/ s.zone \in ZoneName /\ known[s.zone] # None

MissionParts ==
  /\ zones \in Table /\ edits \in 0..MaxEdits
  /\ pc \in {"planning", "checking", "executing", "done"}
  /\ todo \in Seq(Step) /\ Len(todo) <= MaxSteps
  /\ refused \in Step \cup {NoTarget}
  /\ phase # "off" => pc = "executing"

TodoStands ==
  /\ \A i \in 1..Len(todo) : ZoneWasKnown(todo[i])
  /\ pc = "planning" => todo = <<>>

-----------------------------------------------------------------------------
LEMMA Constants ==
  /\ ZoneName \subseteq Name /\ Remembered \subseteq Place /\ MaxSteps \in Nat
  /\ Written \subseteq UNION {[1..k -> Step] : k \in 0..MaxSteps}
  /\ None \notin Area \cup Name \cup Point /\ Null \notin Name /\ None # Null
  /\ NotAsked # Failed /\ NotAsked \notin Resolution(Place) /\ Failed \notin Resolution(Place)
  /\ Centre \in [Area -> Point]
BY PlanAssumption

LEMMA StepFacts ==
  ASSUME NEW s \in Step
  PROVE  /\ s.skill \in {"navigate", "explore", "perceive"}
         /\ s.zone \in Name \cup {None, Null} /\ s.point \in Point \cup {None}
         /\ s # Dropped /\ s.skill # "dropped"
BY DEF Step, Dropped

LEMMA Replacements ==
  /\ ExploreStep \in Step /\ ExploreStep.skill = "explore"
  /\ Dropped.skill = "dropped" /\ Dropped # ExploreStep
BY DEF ExploreStep, Dropped, Step

LEMMA PlanFacts ==
  ASSUME NEW p \in Written
  PROVE  p \in Seq(Step) /\ Len(p) \in 0..MaxSteps
<1>1. PICK k \in 0..MaxSteps : p \in [1..k -> Step]
  BY Constants
<1>2. k \in Nat
  BY Constants
<1> QED
  BY <1>1, <1>2

\* The places the planner was shown are places.
LEMMA CandidatesArePlaces ==
  ASSUME known \in Table, memory \subseteq Remembered
  PROVE  Candidates \subseteq Place
<1>1. memory \subseteq Place
  BY Constants
<1>2. ASSUME NEW z \in ZoneName, known[z] # None
      PROVE  [label |-> z, pos |-> Centre[known[z]]] \in Place
  <2>1. known[z] \in Area
    BY <1>2 DEF Table
  <2>2. z \in Name /\ Centre[known[z]] \in Point
    BY <2>1, Constants
  <2> QED
    BY <2>2 DEF Place
<1> QED
  BY <1>1, <1>2 DEF Candidates

-----------------------------------------------------------------------------
\* The check

\* Where the check stands when it still has a step to look at.
LEMMA CheckFacts ==
  ASSUME CheckTypeOK, Checking
  PROVE  /\ Len(steps) \in Nat /\ n \in 1..Len(steps) /\ n \in Nat
         /\ Len(result) = Len(steps) /\ DOMAIN result = 1..Len(steps)
         /\ steps[n] \in Step /\ \A i \in 1..Len(steps) : steps[i] \in Step
         /\ n + 1 \in 1..(Len(steps) + 1)
BY DEF CheckTypeOK, Checking

\* A step is kept that stands up to the checks.
LEMMA KeepsStep ==
  ASSUME CheckInv, Checking, Keep,
         UNCHANGED <<known, memory, steps, resolution, calls>>,
         steps[n].skill = "navigate" => Stands(steps[n]),
         resolution = NotAsked /\ steps[n].skill = "navigate" => ~ByPoint(steps[n])
  PROVE  CheckInv'
<1>1. CheckTypeOK /\ n' = n + 1 /\ result' = result
  BY DEF CheckInv, Keep
<1>2. n \in 1..Len(steps) /\ Len(steps) \in Nat /\ n \in Nat
  BY <1>1, CheckFacts
<1>3. CheckTypeOK'
  BY <1>1, CheckFacts DEF CheckTypeOK
<1>4. result[n] = steps[n]
  BY <1>2 DEF CheckInv, Looked
<1>5. Looked'
  BY <1>1, <1>2 DEF CheckInv, Looked
<1>6. \A i \in 1..(n' - 1) : i = n \/ i \in 1..(n - 1)
  BY <1>1, <1>2
<1>7. AskedFirst'
  BY <1>1, <1>4, <1>6 DEF CheckInv, AskedFirst
<1>8. SurvivorsStand'
  <2>1. Candidates' = Candidates
    BY DEF Candidates
  <2>2. ASSUME NEW i \in 1..(n' - 1), result[i].skill = "navigate"
        PROVE  Stands(result[i])
    BY <1>4, <1>6, <2>2 DEF CheckInv, SurvivorsStand
  <2> QED
    BY <1>1, <2>1, <2>2 DEF SurvivorsStand, Stands
<1>9. ExploresInstead'
  BY <1>1, <1>4, <1>6 DEF CheckInv, ExploresInstead
<1>10. AsksOnce'
  <2>1. Candidates' = Candidates
    BY DEF Candidates
  <2> QED
    BY <2>1 DEF CheckInv, AsksOnce, Grounded
<1> QED
  BY <1>3, <1>5, <1>7, <1>8, <1>9, <1>10 DEF CheckInv

\* A step is rejected.
LEMMA ReplacesStep ==
  ASSUME CheckInv, Checking, Replace,
         UNCHANGED <<known, memory, steps, resolution, calls>>
  PROVE  CheckInv'
<1> DEFINE new == IF \E i \in 1..(n - 1) : result[i].skill = "explore" THEN Dropped ELSE ExploreStep
<1>1. CheckTypeOK /\ n' = n + 1 /\ result' = [result EXCEPT ![n] = new]
  BY DEF CheckInv, Replace
<1>2. /\ new \in {ExploreStep, Dropped} /\ new \in Step \cup {Dropped}
      /\ new.skill # "navigate"
      /\ new.skill = "explore" \/ \E i \in 1..(n - 1) : result[i].skill = "explore"
  BY Replacements
<1> HIDE DEF new
<1>3. /\ n \in 1..Len(steps) /\ Len(steps) \in Nat /\ n \in Nat /\ Len(result) = Len(steps)
      /\ result \in Seq(Step \cup {Dropped})
  BY <1>1, CheckFacts DEF CheckTypeOK
<1>4. /\ result' \in Seq(Step \cup {Dropped}) /\ Len(result') = Len(result)
      /\ \A i \in 1..Len(steps) : result'[i] = IF i = n THEN new ELSE result[i]
  BY <1>1, <1>2, <1>3, ExceptSeq
<1>5. CheckTypeOK'
  BY <1>1, <1>4, CheckFacts DEF CheckTypeOK
<1>6. Looked'
  BY <1>1, <1>2, <1>3, <1>4 DEF CheckInv, Looked
<1>7. \A i \in 1..(n' - 1) : (i = n \/ i \in 1..(n - 1)) /\ i \in 1..Len(steps)
  BY <1>1, <1>3
<1>8. AskedFirst'
  BY <1>2, <1>4, <1>7 DEF CheckInv, AskedFirst
<1>9. SurvivorsStand'
  <2>1. Candidates' = Candidates
    BY DEF Candidates
  <2>2. ASSUME NEW i \in 1..(n' - 1), result'[i].skill = "navigate"
        PROVE  Stands(result'[i])
    <3>1. i \in 1..(n - 1) /\ i # n
      BY <1>2, <1>3, <1>4, <1>7, <2>2
    <3>2. result'[i] = result[i]
      BY <1>4, <1>7, <3>1
    <3> QED
      BY <2>2, <3>1, <3>2 DEF CheckInv, SurvivorsStand
  <2> QED
    BY <2>1, <2>2 DEF SurvivorsStand, Stands
<1>10. ExploresInstead'
  <2>1. \A i \in 1..(n - 1) : result'[i] = result[i] /\ i \in 1..(n' - 1)
    BY <1>1, <1>3, <1>4
  <2>2. ASSUME NEW i \in 1..(n' - 1), result'[i] # steps[i]
        PROVE  \E j \in 1..i : result'[j].skill = "explore"
    <3>1. CASE i = n
      <4>1. result'[n] = new
        BY <1>3, <1>4
      <4>2. 1..(n - 1) \subseteq 1..n /\ n \in 1..n
        BY <1>3
      <4> QED
        BY <1>2, <2>1, <3>1, <4>1, <4>2
    <3>2. CASE i \in 1..(n - 1)
      <4>1. \E j \in 1..i : result[j].skill = "explore"
        BY <2>1, <2>2, <3>2 DEF CheckInv, ExploresInstead
      <4>2. 1..i \subseteq 1..(n - 1)
        BY <1>3, <3>2
      <4> QED
        BY <2>1, <4>1, <4>2
    <3> QED
      BY <1>7, <3>1, <3>2
  <2> QED
    BY <2>2 DEF ExploresInstead
<1>11. AsksOnce'
  <2>1. Candidates' = Candidates
    BY DEF Candidates
  <2> QED
    BY <2>1 DEF CheckInv, AsksOnce, Grounded
<1> QED
  BY <1>5, <1>6, <1>8, <1>9, <1>10, <1>11 DEF CheckInv

LEMMA AsksStep ==
  ASSUME CheckInv, AskResolver
  PROVE  CheckInv'
<1>1. /\ UNCHANGED <<known, memory, steps, result, n>> /\ calls' = calls + 1 /\ calls = 0
      /\ resolution = NotAsked /\ resolution' \in Resolution(Candidates) \cup {Failed}
      /\ Checking /\ steps[n].skill = "navigate" /\ ByPoint(steps[n]) /\ Grounded(steps[n].point)
  BY DEF AskResolver, Answer, Here, CheckInv, AskedFirst
<1>2. CheckTypeOK /\ Candidates \subseteq Place
  BY CandidatesArePlaces DEF CheckInv, CheckTypeOK
<1>3. resolution' \in Resolution(Place) \cup {Failed}
  BY <1>1, <1>2 DEF Resolution
<1>4. CheckTypeOK'
  BY <1>1, <1>2, <1>3 DEF CheckTypeOK
<1>5. resolution' # NotAsked
  BY <1>3, Constants
<1>6. Looked' /\ AskedFirst' /\ ExploresInstead'
  BY <1>1, <1>5 DEF CheckInv, Looked, AskedFirst, ExploresInstead
<1>7. Candidates' = Candidates
  BY <1>1 DEF Candidates
<1>8. SurvivorsStand'
  BY <1>1, <1>7 DEF CheckInv, AskedFirst, SurvivorsStand, Stands
<1>9. AsksOnce'
  <2>1. n \in 1..Len(steps)
    BY <1>1, <1>2, CheckFacts
  <2> QED
    BY <1>1, <1>7, <2>1 DEF AsksOnce, Grounded
<1> QED
  BY <1>4, <1>6, <1>8, <1>9 DEF CheckInv

LEMMA CheckStepInv ==
  ASSUME CheckInv, CheckNext
  PROVE  CheckInv'
<1>1. Checking => steps[n] \in Step
  BY CheckFacts DEF CheckInv
<1>2. CASE LeaveStep
  BY <1>2, KeepsStep DEF LeaveStep, Stands
<1>3. CASE CheckZone
  <2>1. Checking /\ UNCHANGED <<known, memory, steps, resolution, calls>> /\ ByZone(steps[n])
    BY <1>3 DEF CheckZone
  <2>2. CASE ZoneKnown(steps[n].zone) /\ Keep
    BY <2>1, <2>2, KeepsStep DEF Stands, ZoneKnown, ByZone, ByPoint
  <2>3. CASE Replace
    BY <2>1, <2>3, ReplacesStep
  <2> QED
    BY <1>3, <2>2, <2>3 DEF CheckZone
<1>4. CASE CheckGrounding
  BY <1>4, ReplacesStep DEF CheckGrounding, Here
<1>5. CASE AskResolver
  BY <1>5, AsksStep
<1>6. CASE CheckBorrowing
  <2>1. /\ Checking /\ UNCHANGED <<known, memory, steps, resolution, calls>>
        /\ resolution # NotAsked /\ Grounded(steps[n].point) /\ ByPoint(steps[n])
    BY <1>6 DEF CheckBorrowing, Here
  <2>2. CASE Replace
    BY <2>1, <2>2, ReplacesStep
  <2>3. CASE Keep /\ (resolution = Failed \/ Belongs(steps[n].point) \/ TrulyMissing = {})
    <3>1. Stands(steps[n])
      BY <2>1, <2>3 DEF Stands, Grounded, Belongs, TrulyMissing, ByZone, ByPoint
    <3> QED
      BY <2>1, <2>3, <3>1, KeepsStep
  <2> QED
    BY <1>6, <2>2, <2>3 DEF CheckBorrowing
<1> QED
  BY <1>2, <1>3, <1>4, <1>5, <1>6 DEF CheckNext

-----------------------------------------------------------------------------
\* What the recursive functions compute

LEMMA KeptDef ==
  ASSUME CheckTypeOK
  PROVE  Kept = [i \in 0..Len(result) |->
                   IF i = 0 THEN <<>>
                   ELSE IF result[i] = Dropped THEN Kept[i - 1]
                   ELSE Append(Kept[i - 1], result[i])]
<1> DEFINE B(v, i) == IF i = 0 THEN <<>>
                      ELSE IF result[i] = Dropped THEN v ELSE Append(v, result[i])
           N == Len(result)
           V == Seq(Step \cup {Dropped})
           G == [p \in V \X (1..N) |-> B(p[1], p[2])]
<1>1. N \in Nat /\ <<>> \in V /\ \A i \in 1..N : result[i] \in Step \cup {Dropped}
  <2>1. result \in Seq(Step \cup {Dropped})
    BY DEF CheckTypeOK
  <2> QED
    BY <2>1, EmptySeq
<1> HIDE DEF N
<1>2. G \in [V \X (1..N) -> V]
  <2>1. ASSUME NEW v \in V, NEW i \in 1..N
        PROVE  B(v, i) \in V
    BY <1>1, <2>1
  <2> HIDE DEF B, V
  <2> QED
    BY <2>1
<1> HIDE DEF V
<1>3. PICK f \in [0..N -> V] : f[0] = <<>> /\ \A i \in 1..N : f[i] = G[<<f[i - 1], i>>]
  <2> HIDE DEF G
  <2>1. Iterates(N, V, <<>>, G)
    BY <1>1, <1>2, RecursiveFunction
  <2> QED
    BY <2>1 DEF Iterates
<1>4. \A i \in 0..N : f[i] = B(f[i - 1], i)
  <2>1. ASSUME NEW i \in 1..N
        PROVE  f[i] = B(f[i - 1], i)
    <3>1. <<f[i - 1], i>> \in V \X (1..N)
      BY <1>1, <1>3
    <3> HIDE DEF B
    <3> QED
      BY <1>3, <3>1
  <2>2. f[0] = B(f[0 - 1], 0)
    BY <1>3
  <2> HIDE DEF B
  <2> QED
    BY <1>1, <2>1, <2>2
<1>5. \E g : g = [i \in 0..N |-> B(g[i - 1], i)]
  <2> HIDE DEF B
  <2> QED
    BY <1>3, <1>4
<1> QED
  BY <1>5, Zenon DEF Kept, N

\* What is executed are steps of the checked plan, none of them dropped.
LEMMA CheckedPlanFacts ==
  ASSUME CheckTypeOK
  PROVE  /\ CheckedPlan \in Seq(Step) /\ Len(CheckedPlan) <= MaxSteps
         /\ \A j \in 1..Len(CheckedPlan) : \E i \in 1..Len(result) : CheckedPlan[j] = result[i]
<1> DEFINE P(k) == /\ Kept[k] \in Seq(Step) /\ Len(Kept[k]) <= k
                   /\ \A j \in 1..Len(Kept[k]) : \E i \in 1..Len(result) : Kept[k][j] = result[i]
           T == {k \in Nat : k <= Len(result) => P(k)}
<1>1. Len(result) \in Nat /\ Len(result) <= MaxSteps /\ result \in Seq(Step \cup {Dropped})
  BY DEF CheckTypeOK
<1>2. /\ Kept[0] = <<>>
      /\ \A k \in 1..Len(result) :
           Kept[k] = IF result[k] = Dropped THEN Kept[k - 1] ELSE Append(Kept[k - 1], result[k])
  <2> DEFINE B(v, i) == IF i = 0 THEN <<>>
                        ELSE IF result[i] = Dropped THEN v ELSE Append(v, result[i])
  <2>1. Kept = [i \in 0..Len(result) |-> B(Kept[i - 1], i)]
    BY KeptDef, Zenon
  <2>2. B(Kept[0 - 1], 0) = <<>>
    OBVIOUS
  <2>3. \A k \in 1..Len(result) : B(Kept[k - 1], k) =
           IF result[k] = Dropped THEN Kept[k - 1] ELSE Append(Kept[k - 1], result[k])
    OBVIOUS
  <2> HIDE DEF B
  <2>4. \A i \in 0..Len(result) : Kept[i] = B(Kept[i - 1], i)
    BY <2>1
  <2>5. Kept[0] = <<>>
    BY <1>1, <2>2, <2>4
  <2> QED
    BY <1>1, <2>3, <2>4, <2>5
<1>3. P(0)
  <2>1. Kept[0] \in Seq(Step) /\ Len(Kept[0]) = 0
    <3>1. <<>> \in Seq(Step) /\ Len(<<>>) = 0
      BY EmptySeq
    <3> QED
      BY <1>2, <3>1, Zenon
  <2>2. \A j \in 1..0 : \E i \in 1..Len(result) : Kept[0][j] = result[i]
    OBVIOUS
  <2>3. Len(Kept[0]) <= 0
    BY <2>1
  <2> QED
    BY <2>1, <2>2, <2>3, Zenon
<1>4. ASSUME NEW k \in Nat, k \in T
      PROVE  k + 1 \in T
  <2> SUFFICES ASSUME k + 1 <= Len(result)
               PROVE  P(k + 1)
    OBVIOUS
  <2>1. k + 1 \in 1..Len(result) /\ (k + 1) - 1 = k /\ P(k)
    BY <1>1, <1>4
  <2> HIDE DEF T
  <2>2. CASE result[k + 1] = Dropped
    <3>1. Kept[k + 1] = Kept[k]
      BY <1>2, <2>1, <2>2
    <3> QED
      BY <2>1, <3>1
  <2>3. CASE result[k + 1] # Dropped
    <3> DEFINE x == result[k + 1]
               s == Kept[k]
    <3>1. x \in Step /\ s \in Seq(Step) /\ Len(s) \in Nat
      BY <1>1, <2>1, <2>3
    <3>2. Kept[k + 1] = Append(s, x)
      BY <1>2, <2>1, <2>3
    <3>3. \A j \in 1..Len(s) : \E i \in 1..Len(result) : s[j] = result[i]
      BY <2>1
    <3>4. \E i \in 1..Len(result) : x = result[i]
      BY <2>1
    <3>5. Len(s) <= k
      BY <2>1
    <3> HIDE DEF x, s, P
    <3>6. /\ Append(s, x) \in Seq(Step) /\ Len(Append(s, x)) <= k + 1
          /\ \A j \in 1..Len(Append(s, x)) : \E i \in 1..Len(result) : Append(s, x)[j] = result[i]
      <4>1. Append(s, x) \in Seq(Step) /\ Len(Append(s, x)) = Len(s) + 1
        BY <3>1
      <4>2. ASSUME NEW j \in 1..(Len(s) + 1)
            PROVE  \E i \in 1..Len(result) : Append(s, x)[j] = result[i]
        <5>1. CASE j \in 1..Len(s)
          <6>1. Append(s, x)[j] = s[j]
            BY <3>1, <5>1
          <6> QED
            BY <3>3, <5>1, <6>1
        <5>2. CASE j = Len(s) + 1
          <6>1. Append(s, x)[j] = x
            BY <3>1, <5>2
          <6> QED
            BY <3>4, <6>1
        <5> QED
          BY <3>1, <5>1, <5>2
      <4> QED
        BY <3>1, <3>5, <4>1, <4>2
    <3> QED
      BY <3>2, <3>6 DEF P
  <2> QED
    BY <2>2, <2>3
<1>5. P(Len(result))
  <2>1. 0 \in T
    BY <1>3
  <2>2. \A k \in Nat : k \in T
    <3> HIDE DEF T
    <3> QED
      BY <1>4, <2>1, SetInduction
  <2> QED
    BY <1>1, <2>2
<1>6. Len(CheckedPlan) \in Nat /\ Len(CheckedPlan) <= Len(result)
  BY <1>5 DEF CheckedPlan
<1> QED
  BY <1>1, <1>5, <1>6, Constants DEF CheckedPlan

-----------------------------------------------------------------------------
\* The exploration

LEMMA ExploreConstants ==
  /\ IsFiniteSet(Grid) /\ Interior \subseteq Grid /\ Free \subseteq Grid /\ Start \in Free
  /\ \A c \in Grid : Sees[c] \subseteq Grid
  /\ \A c, d \in Grid : Metres[c][d] \in Nat
  /\ \A c \in Grid : Metres[c][c] = 0
  /\ NoTarget \notin Grid /\ ExclusionRadius \in Nat \ {0} /\ MinDistance \in Nat
  /\ Strategy \subseteq {"clusters", "nearest"}
BY ExploreAssumption DEF Free

\* A cluster grows within the frontier, however the cells lie.
LEMMA PartWithin ==
  ASSUME NEW F, IsFiniteSet(F), NEW c \in F
  PROVE  Part(F, c) \subseteq F
<1> DEFINE N == Cardinality(F)
           B(v, k) == IF k = 0 THEN {c} ELSE F \cap UNION {Around(d) : d \in v}
           G == [p \in (SUBSET F) \X (1..N) |-> B(p[1], p[2])]
<1>1. N \in Nat
  BY FS_CardinalityType
<1> HIDE DEF N
<1>2. G \in [(SUBSET F) \X (1..N) -> SUBSET F]
  OBVIOUS
<1>3. PICK f \in [0..N -> SUBSET F] : f[0] = {c} /\ \A k \in 1..N : f[k] = G[<<f[k - 1], k>>]
  <2> DEFINE V == SUBSET F
  <2>1. {c} \in V /\ G \in [V \X (1..N) -> V]
    BY <1>2
  <2> HIDE DEF G, V
  <2>2. Iterates(N, V, {c}, G)
    BY <1>1, <2>1, RecursiveFunction
  <2>3. PICK f \in [0..N -> V] : f[0] = {c} /\ \A k \in 1..N : f[k] = G[<<f[k - 1], k>>]
    BY <2>2 DEF Iterates
  <2> QED
    BY <2>3 DEF V
<1>4. \A k \in 0..N : f[k] = B(f[k - 1], k)
  <2>1. ASSUME NEW k \in 0..N, k # 0
        PROVE  f[k] = B(f[k - 1], k)
    <3>1. k \in 1..N /\ k - 1 \in 0..N
      BY <1>1, <2>1
    <3>2. <<f[k - 1], k>> \in (SUBSET F) \X (1..N)
      BY <1>3, <3>1
    <3> QED
      BY <1>3, <3>1, <3>2
  <2> QED
    BY <1>3, <2>1
<1>5. ASSUME NEW v, NEW k \in 0..N
      PROVE  B(v, k) \subseteq F
  OBVIOUS
<1> HIDE DEF B
<1>6. f = [k \in 0..N |-> B(f[k - 1], k)]
  BY <1>3, <1>4
<1>7. \E spread : spread = [k \in 0..N |-> B(spread[k - 1], k)]
  BY <1>6
<1> DEFINE s == CHOOSE spread : spread = [k \in 0..N |-> B(spread[k - 1], k)]
<1>8. s = [k \in 0..N |-> B(s[k - 1], k)]
  BY <1>7
<1>9. Part(F, c) = s[N]
  BY Zenon DEF Part, B, N
<1>10. s[N] = B(s[N - 1], N)
  <2> HIDE DEF s
  <2> QED
    BY <1>1, <1>8
<1>11. B(s[N - 1], N) \subseteq F
  <2> HIDE DEF s
  <2> QED
    BY <1>1, <1>5
<1> HIDE DEF s
<1> QED
  BY <1>9, <1>10, <1>11

\* A frontier is a cell the robot can stand on, within the bounds.
LEMMA FrontierFacts ==
  /\ Frontier \subseteq Free /\ Frontier \subseteq bounds /\ Frontier \subseteq Grid
  /\ IsFiniteSet(Frontier)
  /\ \A S \in Clusters : S \subseteq Frontier
<1>1. Frontier \subseteq Free /\ Frontier \subseteq bounds /\ Frontier \subseteq Grid
  BY ExploreConstants DEF Frontier
<1>2. IsFiniteSet(Frontier)
  BY <1>1, ExploreConstants, FS_Subset
<1>3. ASSUME NEW S \in Clusters
      PROVE  S \subseteq Frontier
  <2>1. PICK c \in Frontier : S = Part(Frontier, c)
    BY DEF Clusters
  <2> QED
    BY <1>2, <2>1, PartWithin
<1> QED
  BY <1>1, <1>2, <1>3

\* What is chosen is such a cell, and eligible.
LEMMA ChoiceFacts ==
  ASSUME NEW s \in Strategy, NEW c \in Choices(s)
  PROVE  c \in Frontier /\ Eligible(c)
<1>1. CASE s = "nearest"
  BY <1>1 DEF Choices, NearestFrontier, ClosestOf
<1>2. CASE s # "nearest"
  <2>1. c \in BestAmong(Offers)
    BY <1>2 DEF Choices, BestFrontier
  <2>2. PICK o \in Offers : c \in o.cells
    BY <2>1 DEF BestAmong
  <2>3. PICK S \in Clusters : o = [size |-> Cardinality(S), cells |-> BestOf(S)]
    BY <2>2 DEF Offers
  <2>4. c \in BestOf(S)
    BY <2>2, <2>3
  <2> QED
    BY <2>4, FrontierFacts DEF BestOf
<1> QED
  BY <1>1, <1>2

\* The loop of an exploration, with what its types rest on: a leg set out for is
\* a frontier of its own that can be stood on, at most one is under way, and the
\* others were reached or not.
Legs ==
  /\ attempted \subseteq Free /\ IsFiniteSet(attempted)
  /\ phase = "driving" => visited < Cardinality(attempted)
  /\ phase # "driving" => target = NoTarget

ExploreInv == ExploreTypeOK /\ Legs

LEMMA ExploreFacts ==
  ASSUME ExploreInv
  PROVE  /\ robot \in Free /\ seen \subseteq Grid /\ latest \subseteq seen
         /\ bounds \subseteq Grid /\ attempted \subseteq bounds /\ attempted \subseteq Free
         /\ IsFiniteSet(attempted) /\ Cardinality(attempted) \in Nat
         /\ visited \in Nat /\ visited <= Cardinality(attempted)
         /\ phase = "driving" => target \in attempted /\ visited + 1 <= Cardinality(attempted)
         /\ phase # "driving" => target = NoTarget
         /\ late \in BOOLEAN
<1>1. Cardinality(attempted) \in Nat
  BY FS_CardinalityType DEF ExploreInv, Legs
<1> QED
  BY <1>1 DEF ExploreInv, ExploreTypeOK, Legs

\* The robot is moved and the loop goes on as it was.
LEMMA MovesOn ==
  ASSUME ExploreInv, NEW c \in Free, MoveTo(c)
  PROVE  robot' \in Free /\ seen' \subseteq Grid /\ latest' \subseteq seen'
BY ExploreFacts, ExploreConstants DEF MoveTo

LEMMA LoopStutters ==
  ASSUME ExploreInv, UNCHANGED loopVars,
         robot' \in Free, seen' \subseteq Grid, latest' \subseteq seen'
  PROVE  ExploreInv'
BY DEF ExploreInv, ExploreTypeOK, Legs, loopVars

\* An exploration that has not set out.
LEMMA NoLegs ==
  ASSUME robot' \in Free, seen' \subseteq Grid, latest' \subseteq seen',
         phase' \in {"off", "entering", "waiting"}, bounds' \subseteq Grid,
         attempted' = {}, visited' = 0, target' = NoTarget, late' = FALSE
  PROVE  ExploreInv'
<1>1. IsFiniteSet(attempted') /\ Cardinality(attempted') = 0
  BY FS_EmptySet
<1>2. visited' \in 0..Cardinality(attempted')
  BY <1>1
<1>3. late' \in BOOLEAN
  BY Zenon
<1>4. ExploreTypeOK'
  BY <1>2, <1>3 DEF ExploreTypeOK
<1> QED
  BY <1>1, <1>4 DEF ExploreInv, Legs

\* Waiting again after a leg, or looking: attempts stay, none is under way.
LEMMA BetweenLegs ==
  ASSUME ExploreInv, robot' \in Free, seen' \subseteq Grid, latest' \subseteq seen',
         UNCHANGED <<bounds, attempted>>, phase' \in {"entering", "waiting", "looking"},
         target' = NoTarget, visited' \in Nat, visited' <= Cardinality(attempted),
         late' \in BOOLEAN
  PROVE  ExploreInv'
<1>1. visited' \in 0..Cardinality(attempted)
  BY ExploreFacts
<1>2. visited' \in 0..Cardinality(attempted')
  BY <1>1, Zenon
<1>3. bounds' \subseteq Grid /\ attempted' \subseteq bounds'
  BY ExploreFacts
<1>4. phase' \in {"off", "entering", "waiting", "looking", "driving"} /\ phase' # "driving"
  OBVIOUS
<1>5. ExploreTypeOK'
  BY <1>2, <1>3, <1>4, Zenon DEF ExploreTypeOK
<1> QED
  BY <1>4, <1>5, ExploreFacts DEF ExploreInv, Legs

\* A frontier that is chosen was not attempted before.
LEMMA SetsOut ==
  ASSUME ExploreInv, SetOut
  PROVE  ExploreInv'
<1>0. PICK s \in Strategy : \E c \in Choices(s) : target' = c /\ attempted' = attempted \cup {c}
  BY DEF SetOut
<1>1. PICK c \in Choices(s) : target' = c /\ attempted' = attempted \cup {c}
  BY <1>0
<1>2. c \in Free /\ c \in bounds /\ c \in Grid /\ Eligible(c)
  BY ChoiceFacts, FrontierFacts
<1>3. c \notin attempted
  <2> SUFFICES ASSUME c \in attempted
               PROVE  FALSE
    OBVIOUS
  <2>1. Metres[c][c] >= ExclusionRadius
    BY <1>2 DEF Eligible
  <2> QED
    BY <1>2, <2>1, ExploreConstants
<1>4. IsFiniteSet(attempted') /\ Cardinality(attempted') = Cardinality(attempted) + 1
  BY <1>1, <1>3, ExploreFacts, FS_AddElement
<1>5. /\ UNCHANGED <<robot, seen, latest, bounds, visited, late>> /\ phase' = "driving"
  BY DEF SetOut, mapVars
<1>6. visited' \in 0..Cardinality(attempted') /\ visited' < Cardinality(attempted')
  BY <1>4, <1>5, ExploreFacts
<1>7. ExploreTypeOK'
  BY <1>1, <1>2, <1>5, <1>6, ExploreFacts DEF ExploreTypeOK
<1> QED
  BY <1>1, <1>2, <1>4, <1>5, <1>6, <1>7, ExploreFacts DEF ExploreInv, Legs

LEMMA ExploreStepInv ==
  ASSUME ExploreInv, ExploreNext
  PROVE  ExploreInv'
<1>1. CASE MoveIn
  <2>1. PICK c \in (bounds \cup {robot}) \cap Free : MoveTo(c)
    BY <1>1 DEF MoveIn
  <2>2. phase = "entering" /\ Loop("waiting") /\ UNCHANGED <<target, visited>>
    BY <1>1 DEF MoveIn
  <2>3. robot' \in Free /\ seen' \subseteq Grid /\ latest' \subseteq seen'
    BY <2>1, MovesOn
  <2> QED
    BY <2>2, <2>3, ExploreFacts, BetweenLegs DEF Loop
<1>2. CASE Wait
  BY <1>2, ExploreFacts, BetweenLegs DEF Wait, Loop, mapVars
<1>3. CASE TimeUp \/ NothingLeft
  <2>1. Return /\ UNCHANGED mapVars
    BY <1>3 DEF TimeUp, NothingLeft
  <2> QED
    BY <2>1, ExploreFacts, NoLegs DEF Return, mapVars
<1>4. CASE LookAgain
  BY <1>4, ExploreFacts, BetweenLegs DEF LookAgain, Loop, mapVars
<1>5. CASE SetOut
  BY <1>5, SetsOut
<1>6. CASE Reached
  <2>1. /\ phase = "driving" /\ MoveTo(target) /\ visited' = visited + 1
        /\ target' = NoTarget /\ Loop("waiting")
    BY <1>6 DEF Reached
  <2>2. robot' \in Free /\ seen' \subseteq Grid /\ latest' \subseteq seen'
    BY <2>1, ExploreFacts, MovesOn
  <2> QED
    BY <2>1, <2>2, ExploreFacts, BetweenLegs DEF Loop
<1>7. CASE NotReached
  <2>1. PICK c \in (latest \cap Free) \cup {robot} : MoveTo(c)
    BY <1>7 DEF NotReached
  <2>2. target' = NoTarget /\ Loop("waiting") /\ UNCHANGED visited
    BY <1>7 DEF NotReached
  <2>3. robot' \in Free /\ seen' \subseteq Grid /\ latest' \subseteq seen'
    BY <2>1, ExploreFacts, MovesOn
  <2> QED
    BY <2>2, <2>3, ExploreFacts, BetweenLegs DEF Loop
<1>8. CASE DurationPasses
  BY <1>8 DEF DurationPasses, mapVars, ExploreInv, ExploreTypeOK, Legs
<1> QED
  BY <1>1, <1>2, <1>3, <1>4, <1>5, <1>6, <1>7, <1>8 DEF ExploreNext

-----------------------------------------------------------------------------
\* What a search for the best finds

\* a / x >= b / y and b / y >= c / z give a / x >= c / z.
LEMMA CrossTransitive ==
  ASSUME NEW a \in Nat, NEW b \in Nat, NEW c \in Nat,
         NEW x \in Nat \ {0}, NEW y \in Nat \ {0}, NEW z \in Nat \ {0},
         a * y >= b * x, b * z >= c * y
  PROVE  a * z >= c * x
<1>1. \A p, q, r \in Nat : p >= q => r * p >= r * q
  OBVIOUS
<1>2. z * (a * y) >= z * (b * x) /\ x * (b * z) >= x * (c * y)
  BY <1>1
<1>3. z * (b * x) = x * (b * z) /\ z * (a * y) = y * (a * z) /\ x * (c * y) = y * (c * x)
  OBVIOUS
<1>4. y * (a * z) >= y * (c * x)
  BY <1>2, <1>3
<1>5. \A p, q, r \in Nat : r # 0 /\ r * p >= r * q => p >= q
  OBVIOUS
<1> QED
  BY <1>4, <1>5

LEMMA ScoreConstants ==
  ASSUME ExploreInv
  PROVE  /\ robot \in Grid /\ MinDistance \in Nat
         /\ \A c \in Grid : Metres[robot][c] \in Nat
BY ExploreFacts, ExploreConstants

\* If a frontier is eligible the nearest one is found.
LEMMA NearestFound ==
  ASSUME ExploreInv, NEW c \in Frontier, Eligible(c)
  PROVE  NearestFrontier # {}
<1> DEFINE S == {d \in Frontier : Eligible(d)}
<1>1. IsFiniteSet(S) /\ S # {} /\ S \subseteq Grid
  BY FrontierFacts, FS_Subset
<1>2. \A d \in S : Metres[robot][d] \in Nat
  BY <1>1, ScoreConstants
<1>3. PICK d \in S : \A e \in S : Metres[robot][d] <= Metres[robot][e]
  <2> HIDE DEF S
  <2> QED
    BY <1>1, <1>2, SmallestExists
<1>4. d \in ClosestOf(Frontier)
  BY <1>3 DEF ClosestOf
<1> QED
  BY <1>4 DEF NearestFrontier

\* A cluster with an eligible cell offers its clearest one.
LEMMA BestOffered ==
  ASSUME NEW S \in Clusters, NEW c \in S, Eligible(c)
  PROVE  BestOf(S) # {}
<1> DEFINE E == {d \in S : Eligible(d)}
           f == [d \in E |-> Clearance(d)]
<1>1. IsFiniteSet(E) /\ E # {} /\ E \subseteq Grid
  BY FrontierFacts, FS_Subset
<1>2. ASSUME NEW d
      PROVE  Clearance(d) \in Nat
  <2> DEFINE K == {k \in 1..Reach : Within[d][k] \cap Walls \cap latest = {}}
  <2>1. IsFiniteSet(1..Reach)
    BY FS_Interval, ExploreAssumption
  <2>2. IsFiniteSet(K)
    BY <2>1, FS_Subset
  <2> QED
    BY <2>2, FS_CardinalityType DEF Clearance
<1>3. \A d \in E : f[d] \in Nat
  BY <1>2
<1>4. PICK d \in E : \A e \in E : f[e] <= f[d]
  <2> HIDE DEF E, f
  <2> QED
    BY <1>1, <1>3, GreatestExists
<1>5. d \in BestOf(S)
  BY <1>4 DEF BestOf
<1> QED
  BY <1>5

\* Among offers the best by size and distance is found.
LEMMA BestFound ==
  ASSUME ExploreInv, NEW S \in Clusters, NEW c \in S, Eligible(c)
  PROVE  BestFrontier # {}
<1> DEFINE Sizes == 0..Cardinality(Grid)
           E == {p \in Sizes \X Grid : \E o \in Offers : o.size = p[1] /\ p[2] \in o.cells}
           Cost(p) == 1 + Metres[robot][p[2]]
           R == {pq \in E \X E : pq[1][1] * Cost(pq[2]) >= pq[2][1] * Cost(pq[1])}
<1>1. ASSUME NEW o \in Offers, NEW d \in o.cells
      PROVE  <<o.size, d>> \in E
  <2>1. PICK U \in Clusters : o = [size |-> Cardinality(U), cells |-> BestOf(U)]
    BY DEF Offers
  <2>2. U \subseteq Grid /\ d \in U
    BY <2>1, FrontierFacts DEF BestOf
  <2>3. Cardinality(Grid) \in Nat /\ Cardinality(U) \in Nat /\ Cardinality(U) <= Cardinality(Grid)
    BY <2>2, ExploreConstants, FS_Subset, FS_CardinalityType
  <2> QED
    BY <2>1, <2>2, <2>3
<1>2. IsFiniteSet(E)
  <2>1. IsFiniteSet(Sizes) /\ IsFiniteSet(Grid)
    BY ExploreConstants, FS_CardinalityType, FS_Interval
  <2>2. IsFiniteSet(Sizes \X Grid)
    BY <2>1, FS_Product
  <2> QED
    BY <2>2, FS_Subset
<1>3. E # {}
  <2> DEFINE o == [size |-> Cardinality(S), cells |-> BestOf(S)]
  <2>1. o \in Offers /\ o.cells # {}
    BY BestOffered DEF Offers
  <2> HIDE DEF o, E
  <2> QED
    BY <1>1, <2>1
<1>4. \A p \in E : p[1] \in Nat /\ Cost(p) \in Nat \ {0}
  <2>1. \A p \in E : p[1] \in Nat /\ p[2] \in Grid
    BY ExploreConstants, FS_CardinalityType
  <2> HIDE DEF E
  <2> QED
    BY <2>1, ScoreConstants
<1>5. \A p, q \in E : <<p, q>> \in R <=> p[1] * Cost(q) >= q[1] * Cost(p)
  <2> HIDE DEF E
  <2> QED
    OBVIOUS
<1>6. PICK p \in E : \A q \in E : <<p, q>> \in R
  <2> HIDE DEF E, R, Cost
  <2>1. ASSUME NEW x \in E, NEW y \in E
        PROVE  <<x, y>> \in R \/ <<y, x>> \in R
    <3>1. x[1] * Cost(y) \in Nat /\ y[1] * Cost(x) \in Nat
      BY <1>4
    <3> QED
      BY <1>5, <3>1
  <2>2. ASSUME NEW x \in E, NEW y \in E, NEW z \in E, <<x, y>> \in R, <<y, z>> \in R
        PROVE  <<x, z>> \in R
    <3>1. x[1] * Cost(y) >= y[1] * Cost(x) /\ y[1] * Cost(z) >= z[1] * Cost(y)
      BY <1>5, <2>2
    <3>2. x[1] * Cost(z) >= z[1] * Cost(x)
      BY <1>4, <3>1, CrossTransitive
    <3> QED
      BY <1>5, <3>2
  <2> QED
    BY <1>2, <1>3, <2>1, <2>2, BestExists
<1>7. PICK o \in Offers : o.size = p[1] /\ p[2] \in o.cells
  OBVIOUS
<1>8. ASSUME NEW q \in Offers
      PROVE  \E d \in q.cells : Outscores(o, p[2], q, d)
  <2>1. PICK d \in q.cells : TRUE
    BY DEF Offers
  <2>2. <<q.size, d>> \in E /\ p \in E
    BY <1>1
  <2> HIDE DEF E, R
  <2>3. p[1] * (1 + Metres[robot][d]) >= q.size * (1 + Metres[robot][p[2]])
    BY <1>5, <1>6, <2>2
  <2> QED
    BY <1>7, <2>3 DEF Outscores
<1>9. p[2] \in BestAmong(Offers)
  BY <1>7, <1>8 DEF BestAmong
<1> QED
  BY <1>9 DEF BestFrontier

\* Whatever the strategy, a cluster cell that may be driven to is not passed over.
LEMMA SearchFinds ==
  ASSUME ExploreInv, NEW S \in Clusters, NEW c \in S, Eligible(c), NEW s \in Strategy
  PROVE  Choices(s) # {}
<1>1. c \in Frontier
  BY FrontierFacts
<1> QED
  BY <1>1, NearestFound, BestFound DEF Choices

-----------------------------------------------------------------------------
\* The plan and its steps

LEMMA StutterCheck ==
  ASSUME CheckInv, UNCHANGED checkVars
  PROVE  CheckInv'
<1>1. Candidates' = Candidates
  BY DEF Candidates, checkVars
<1>2. CheckTypeOK' /\ Looked' /\ AskedFirst' /\ ExploresInstead'
  BY DEF CheckInv, CheckTypeOK, Looked, AskedFirst, ExploresInstead, checkVars
<1>3. SurvivorsStand' /\ AsksOnce'
  BY <1>1 DEF CheckInv, SurvivorsStand, Stands, AsksOnce, Grounded, checkVars
<1> QED
  BY <1>2, <1>3 DEF CheckInv

\* A check that has not looked at anything.
LEMMA NothingLooked ==
  ASSUME known' \in Table, memory' \subseteq Remembered,
         steps' \in Seq(Step), Len(steps') <= MaxSteps, result' = steps', n' = 1,
         resolution' = NotAsked, calls' = 0
  PROVE  CheckInv'
<1>1. Len(steps') \in Nat
  OBVIOUS
<1>2. result' \in Seq(Step \cup {Dropped})
  BY SeqMonotonic
<1>3. CheckTypeOK'
  BY <1>1, <1>2 DEF CheckTypeOK
<1>4. Looked' /\ AskedFirst'
  BY DEF Looked, AskedFirst
<1>5. SurvivorsStand' /\ ExploresInstead' /\ AsksOnce'
  BY DEF SurvivorsStand, ExploresInstead, AsksOnce
<1> QED
  BY <1>3, <1>4, <1>5 DEF CheckInv

MissionInv == CheckInv /\ MissionParts /\ TodoStands

LEMMA TodoHead ==
  ASSUME MissionParts, todo # <<>>
  PROVE  /\ Len(todo) \in Nat \ {0} /\ Head(todo) = todo[1] /\ todo[1] \in Step
         /\ Tail(todo) \in Seq(Step) /\ Len(Tail(todo)) = Len(todo) - 1
         /\ \A k \in 1..Len(Tail(todo)) : Tail(todo)[k] = todo[k + 1]
<1>1. todo \in Seq(Step) /\ Len(todo) \in Nat \ {0}
  <2>1. todo \in Seq(Step)
    BY DEF MissionParts
  <2> QED
    BY <2>1, EmptySeq
<1> QED
  BY <1>1, HeadTailProperties, ElementOfSeq

\* The rest of the plan stands if all of it did.
LEMMA TailStands ==
  ASSUME MissionParts, TodoStands, todo # <<>>, todo' = Tail(todo), known' = known, pc' = pc
  PROVE  todo' \in Seq(Step) /\ Len(todo') <= MaxSteps /\ TodoStands'
<1>1. Len(todo) <= MaxSteps /\ Len(todo) \in Nat
  BY TodoHead DEF MissionParts
<1>2. \A k \in 1..Len(todo') : k + 1 \in 1..Len(todo) /\ todo'[k] = todo[k + 1]
  BY <1>1, TodoHead
<1>3. pc # "planning"
  BY DEF TodoStands
<1> QED
  BY <1>1, <1>2, <1>3, TodoHead, Constants DEF TodoStands, ZoneWasKnown

LEMMA StopStands ==
  ASSUME StopPlan
  PROVE  todo' \in Seq(Step) /\ Len(todo') <= MaxSteps /\ TodoStands'
BY Constants DEF StopPlan, TodoStands

LEMMA StepMission == MissionInv /\ [MissionNext]_allVars => MissionInv'
<1> SUFFICES ASSUME MissionInv, [MissionNext]_allVars
             PROVE  CheckInv' /\ MissionParts' /\ TodoStands'
  BY DEF MissionInv
<1>0. CheckInv /\ MissionParts /\ TodoStands
  BY DEF MissionInv
<1>1. CASE MakePlan
  <2>1. PICK plan \in Written, places \in Found \cup Selected : BeginCheck(plan, places, zones)
    BY <1>1 DEF MakePlan
  <2>2. places \subseteq Remembered
    BY DEF Found, Selected, UpTo
  <2>3. plan \in Seq(Step) /\ Len(plan) <= MaxSteps
    BY PlanFacts, Constants
  <2>4. CheckInv'
    BY <1>0, <2>1, <2>2, <2>3, NothingLooked DEF BeginCheck, MissionParts
  <2>5. MissionParts' /\ TodoStands'
    <3>1. phase' = phase /\ phase = "off"
      BY <1>0, <1>1 DEF MakePlan, MissionParts, exploreVars, loopVars
    <3>2. MissionParts'
      BY <1>0, <1>1, <3>1 DEF MakePlan, MissionParts
    <3>3. TodoStands'
      BY <1>0, <1>1 DEF MakePlan, TodoStands, MissionParts
    <3> QED
      BY <3>2, <3>3
  <2> QED
    BY <2>4, <2>5
<1>2. CASE CheckStep
  <2>1. CheckInv'
    BY <1>0, <1>2, CheckStepInv DEF CheckStep
  <2>2. known' = known
    BY <1>2 DEF CheckStep, CheckNext, LeaveStep, CheckZone, CheckGrounding, AskResolver, CheckBorrowing
  <2>3. MissionParts' /\ TodoStands'
    BY <1>0, <1>2, <2>2
       DEF CheckStep, missionVars, exploreVars, loopVars, MissionParts, TodoStands, ZoneWasKnown
  <2> QED
    BY <2>1, <2>3
<1>3. CASE Execute
  <2>1. CheckTypeOK /\ n = Len(steps) + 1 /\ Len(result) = Len(steps) /\ Len(steps) \in Nat
    BY <1>0, <1>3 DEF Execute, Checking, CheckInv, CheckTypeOK
  <2>2. CheckInv'
    BY <1>3, <2>1, NothingLooked, Constants DEF Execute, CheckTypeOK
  <2>3. MissionParts'
    BY <1>0, <1>3, <2>1, CheckedPlanFacts DEF Execute, MissionParts, exploreVars, loopVars
  <2>4. TodoStands'
    <3>1. ASSUME NEW j \in 1..Len(CheckedPlan)
          PROVE  ZoneWasKnown(CheckedPlan[j])
      <4>1. PICK i \in 1..Len(result) : CheckedPlan[j] = result[i]
        BY <2>1, CheckedPlanFacts
      <4>2. i \in 1..(n - 1)
        BY <2>1
      <4>3. result[i].skill = "navigate" => Stands(result[i])
        BY <1>0, <4>2 DEF CheckInv, SurvivorsStand
      <4>4. CheckedPlan[j] \in Step
        BY <2>1, CheckedPlanFacts
      <4>5. CheckedPlan[j].zone \in Name \cup {None, Null} /\ CheckedPlan[j].point \in Point \cup {None}
        BY <4>4, StepFacts
      <4> QED
        BY <4>1, <4>3, <4>5 DEF ZoneWasKnown, Stands, ByZone, ByPoint
    <3> QED
      BY <1>3, <3>1 DEF Execute, TodoStands, ZoneWasKnown
  <2> QED
    BY <2>2, <2>3, <2>4
<1>4. CASE Refuse
  <2>1. UNCHANGED <<checkVars, exploreVars, zones, edits>> /\ StopPlan /\ Ready /\ refused' = Head(todo)
    BY <1>4 DEF Refuse
  <2>2. CheckInv' /\ TodoStands' /\ todo' \in Seq(Step) /\ Len(todo') <= MaxSteps
    BY <1>0, <2>1, StutterCheck, StopStands
  <2>3. refused' \in Step
    BY <1>0, <2>1, TodoHead DEF Ready
  <2>4. MissionParts'
    BY <1>0, <2>1, <2>2, <2>3 DEF MissionParts, StopPlan, Ready, exploreVars, loopVars
  <2> QED
    BY <2>2, <2>4
<1>5. CASE Navigate
  <2>1. /\ UNCHANGED <<checkVars, loopVars, zones, edits, pc, refused>>
        /\ todo' = Tail(todo) /\ todo # <<>> /\ known' = known
    BY <1>5 DEF Navigate, Ready, checkVars
  <2>2. CheckInv' /\ TodoStands' /\ todo' \in Seq(Step) /\ Len(todo') <= MaxSteps
    BY <1>0, <2>1, StutterCheck, TailStands
  <2>3. MissionParts'
    BY <1>0, <2>1, <2>2 DEF MissionParts, loopVars
  <2> QED
    BY <2>2, <2>3
<1>6. CASE NavigateNowhere \/ Finish
  <2>1. UNCHANGED <<checkVars, exploreVars, zones, edits, refused>> /\ StopPlan /\ phase = "off"
    BY <1>6 DEF NavigateNowhere, Ready, Finish
  <2>2. CheckInv' /\ TodoStands' /\ todo' \in Seq(Step) /\ Len(todo') <= MaxSteps
    BY <1>0, <2>1, StutterCheck, StopStands
  <2>3. MissionParts'
    BY <1>0, <2>1, <2>2 DEF MissionParts, StopPlan, exploreVars, loopVars
  <2> QED
    BY <2>2, <2>3
<1>7. CASE StartExploring
  <2>1. /\ UNCHANGED <<checkVars, zones, edits, pc, refused>> /\ pc = "executing"
        /\ todo' = Tail(todo) /\ todo # <<>> /\ known' = known
    BY <1>7 DEF StartExploring, Ready, checkVars
  <2>2. CheckInv' /\ TodoStands' /\ todo' \in Seq(Step) /\ Len(todo') <= MaxSteps
    BY <1>0, <2>1, StutterCheck, TailStands
  <2>3. MissionParts'
    BY <1>0, <2>1, <2>2 DEF MissionParts
  <2> QED
    BY <2>2, <2>3
<1>8. CASE ExploreStepOn
  <2>1. UNCHANGED <<checkVars, zones, edits, pc, todo, refused>> /\ pc = "executing" /\ known' = known
    BY <1>8 DEF ExploreStepOn, missionVars, checkVars
  <2>2. CheckInv'
    BY <1>0, <2>1, StutterCheck
  <2>3. MissionParts' /\ TodoStands'
    BY <1>0, <2>1 DEF MissionParts, TodoStands, ZoneWasKnown
  <2> QED
    BY <2>2, <2>3
<1>9. CASE Perceive
  <2>1. /\ UNCHANGED <<checkVars, exploreVars, zones, edits, refused>> /\ phase = "off"
        /\ todo # <<>> /\ known' = known
    BY <1>9 DEF Perceive, Ready, checkVars
  <2>2. (StopPlan \/ (todo' = Tail(todo) /\ pc' = pc)) /\ pc = "executing"
    BY <1>9 DEF Perceive, Ready
  <2>3. CheckInv' /\ TodoStands' /\ todo' \in Seq(Step) /\ Len(todo') <= MaxSteps
    BY <1>0, <2>1, <2>2, StutterCheck, StopStands, TailStands
  <2>4. MissionParts'
    BY <1>0, <2>1, <2>2, <2>3 DEF MissionParts, StopPlan, exploreVars, loopVars
  <2> QED
    BY <2>3, <2>4
<1>10. CASE PublishMap \/ UNCHANGED allVars
  <2>1. UNCHANGED <<checkVars, missionVars, loopVars>> /\ known' = known
    BY <1>10 DEF PublishMap, MapPublished, allVars, exploreVars, checkVars
  <2>2. CheckInv'
    BY <1>0, <2>1, StutterCheck
  <2>3. MissionParts' /\ TodoStands'
    BY <1>0, <2>1 DEF MissionParts, TodoStands, ZoneWasKnown, missionVars, loopVars
  <2> QED
    BY <2>2, <2>3
<1>11. CASE EditZones
  <2>1. UNCHANGED <<checkVars, exploreVars, pc, todo, refused>> /\ known' = known
    BY <1>11 DEF EditZones, checkVars
  <2>2. CheckInv'
    BY <1>0, <2>1, StutterCheck
  <2>3. zones' \in Table /\ edits' \in 0..MaxEdits
    <3>1. zones \in Table /\ edits \in 0..MaxEdits /\ MaxEdits \in Nat
      BY <1>0, MissionAssumption DEF MissionParts
    <3>2. PICK z \in ZoneName, a \in Area \cup {None} : zones' = [zones EXCEPT ![z] = a]
      BY <1>11 DEF EditZones
    <3> QED
      BY <1>11, <3>1, <3>2 DEF EditZones, Table
  <2>4. MissionParts' /\ TodoStands'
    BY <1>0, <2>1, <2>3 DEF MissionParts, TodoStands, ZoneWasKnown, exploreVars, loopVars
  <2> QED
    BY <2>2, <2>4
<1> QED
  BY <1>1, <1>2, <1>3, <1>4, <1>5, <1>6, <1>7, <1>8, <1>9, <1>10, <1>11 DEF MissionNext

\* Where a step that can be executed sends the robot is free.
LEMMA DestinationFree ==
  ASSUME MissionParts, todo # <<>>,
         IF NamesZone(Head(todo)) THEN ZoneExists(Head(todo)) ELSE ByPoint(Head(todo))
  PROVE  Destination(Head(todo)) \in Free
<1>1. Head(todo) \in Step /\ zones \in Table
  BY TodoHead DEF MissionParts
<1>2. Point \subseteq Free
  BY MissionAssumption
<1>3. CASE NamesZone(Head(todo))
  <2>1. zones[Head(todo).zone] \in Area
    BY <1>1, <1>3 DEF ZoneExists, Table
  <2> QED
    BY <1>2, <1>3, <2>1, Constants DEF Destination
<1>4. CASE ~NamesZone(Head(todo))
  BY <1>1, <1>2, <1>4, StepFacts DEF Destination, ByPoint
<1> QED
  BY <1>3, <1>4

LEMMA BeginsWithin ==
  ASSUME ExploreInv, NEW B \in SUBSET Grid, BeginExplore(B)
  PROVE  ExploreInv'
BY ExploreFacts, NoLegs DEF BeginExplore, mapVars

LEMMA StepExplore ==
  ASSUME MissionInv, ExploreInv, [MissionNext]_allVars
  PROVE  ExploreInv'
<1>0. MissionParts
  BY DEF MissionInv
<1>1. CASE ExploreStepOn
  BY <1>1, ExploreStepInv DEF ExploreStepOn
<1>2. CASE Navigate
  <2>1. PICK c \in {Destination(Head(todo)), robot} : MoveTo(c)
    BY <1>2 DEF Navigate
  <2>2. c \in Free /\ UNCHANGED loopVars
    BY <1>0, <1>2, <2>1, DestinationFree, ExploreFacts DEF Navigate, Ready
  <2> QED
    BY <2>1, <2>2, MovesOn, LoopStutters
<1>3. CASE StartExploring
  <2> DEFINE B == IF NamesZone(Head(todo)) THEN Inside[zones[Head(todo).zone]] ELSE Grid
  <2>1. BeginExplore(B)
    BY <1>3 DEF StartExploring
  <2>2. B \in SUBSET Grid
    <3>1. CASE NamesZone(Head(todo))
      <4>1. zones[Head(todo).zone] \in Area
        BY <1>0, <1>3, <3>1 DEF StartExploring, ZoneExists, MissionParts, Table
      <4> QED
        BY <3>1, <4>1, MissionAssumption
    <3> QED
      BY <3>1
  <2> HIDE DEF B
  <2> QED
    BY <2>1, <2>2, BeginsWithin
<1>4. CASE PublishMap
  <2>1. UNCHANGED <<robot, seen, loopVars>> /\ latest' = seen
    BY <1>4 DEF PublishMap, MapPublished
  <2> QED
    BY <2>1, ExploreFacts, LoopStutters
<1>5. CASE UNCHANGED exploreVars
  <2>1. UNCHANGED <<robot, seen, latest, loopVars>>
    BY <1>5 DEF exploreVars, mapVars
  <2> QED
    BY <2>1, ExploreFacts, LoopStutters
<1> QED
  BY <1>1, <1>2, <1>3, <1>4, <1>5
     DEF MissionNext, MakePlan, CheckStep, Execute, Refuse, NavigateNowhere, Perceive, Finish,
         EditZones, missionVars, allVars

LEMMA InitMission == MissionInit => MissionInv
<1> SUFFICES ASSUME MissionInit
             PROVE  MissionInv
  OBVIOUS
<1>1. CheckTypeOK
  BY Constants DEF MissionInit, CheckTypeOK, Table
<1>2. Looked /\ AskedFirst /\ SurvivorsStand /\ ExploresInstead /\ AsksOnce
  BY DEF MissionInit, Looked, AskedFirst, SurvivorsStand, ExploresInstead, AsksOnce
<1>3. MissionParts /\ TodoStands
  BY Constants, MissionAssumption DEF MissionInit, ExploreInit, MissionParts, TodoStands
<1> QED
  BY <1>1, <1>2, <1>3 DEF MissionInv, CheckInv

LEMMA InitExplore == MissionInit => ExploreInv
<1> SUFFICES ASSUME MissionInit
             PROVE  ExploreInv
  OBVIOUS
<1>1. IsFiniteSet(attempted) /\ Cardinality(attempted) = 0 /\ late \in BOOLEAN
  BY FS_EmptySet, Zenon DEF MissionInit, ExploreInit
<1>2. visited \in 0..Cardinality(attempted)
  BY <1>1 DEF MissionInit, ExploreInit
<1>3. ExploreTypeOK
  BY <1>1, <1>2, ExploreConstants DEF MissionInit, ExploreInit, ExploreTypeOK
<1> QED
  BY <1>1, <1>3 DEF MissionInit, ExploreInit, ExploreInv, Legs

LEMMA Invariants == MissionSpec => []MissionInv /\ []ExploreInv
<1>1. MissionInit => MissionInv /\ ExploreInv
  BY InitMission, InitExplore
<1>2. MissionInv /\ ExploreInv /\ [MissionNext]_allVars => MissionInv' /\ ExploreInv'
  BY StepMission, StepExplore
<1> QED
  BY <1>1, <1>2, PTL DEF MissionSpec

-----------------------------------------------------------------------------
\* The planner's and the executor's state stays what the code assumes of it: a
\* step of a plan is a step, an exploration is under way only while a plan is
\* executed, and it has reached no more frontiers than it was sent to.
THEOREM MissionTypeCorrect == MissionSpec => []MissionTypeOK
<1>1. MissionInv /\ ExploreInv => MissionTypeOK
  BY DEF MissionInv, CheckInv, MissionParts, ExploreInv, MissionTypeOK
<1> QED
  BY <1>1, Invariants, PTL

\* validate_plan's promise: a plan only goes to places the robot knows, and to
\* none in place of one it does not, although the resolver answers when some of
\* the steps have been looked at.
THEOREM PlansStand == MissionSpec => []SurvivorsStand
<1>1. MissionInv => SurvivorsStand
  BY DEF MissionInv, CheckInv
<1> QED
  BY <1>1, Invariants, PTL

\* _replace never leaves a gap: where a step was dropped an exploration went
\* before it, so the plan does not go on as if the robot had been there.
THEOREM RejectedStepsExplore == MissionSpec => []ExploresInstead
<1>1. MissionInv => ExploresInstead
  BY DEF MissionInv, CheckInv
<1> QED
  BY <1>1, Invariants, PTL

\* The resolver costs at most one call, which only a step to a known place
\* brings about, also when the call fails.
THEOREM OneCall == MissionSpec => []AsksOnce
<1>1. MissionInv => AsksOnce
  BY DEF MissionInv, CheckInv
<1> QED
  BY <1>1, Invariants, PTL

\* A checked plan is refused by the executor for a zone only if somebody deleted
\* it in between, or if the step says two things at once.
THEOREM RefusalsExplained == MissionSpec => RefusedOnlyIfGone
<1>1. ASSUME MissionInv, [MissionNext]_allVars, refused # refused', refused'.skill = "navigate"
      PROVE  \/ refused'.zone = Null \/ ByPoint(refused')
             \/ refused'.zone \in ZoneName /\ known[refused'.zone] # None /\ zones[refused'.zone] = None
  <2>1. Refuse
    BY <1>1 DEF MissionNext, MakePlan, CheckStep, Execute, Navigate, NavigateNowhere, StartExploring,
                ExploreStepOn, Perceive, Finish, PublishMap, EditZones, missionVars, allVars
  <2>2. MissionParts /\ todo # <<>> /\ refused' = Head(todo)
    BY <1>1, <2>1 DEF MissionInv, Refuse, Ready
  <2>3. Head(todo) = todo[1] /\ 1 \in 1..Len(todo) /\ ZoneWasKnown(Head(todo))
    BY <1>1, <2>2, TodoHead DEF MissionInv, TodoStands
  <2> QED
    BY <1>1, <2>1, <2>2, <2>3 DEF Refuse, NamesZone, ZoneExists, ZoneWasKnown
<1>2. MissionInv /\ [MissionNext]_allVars =>
        [refused # refused' /\ refused'.skill = "navigate" =>
           \/ refused'.zone = Null \/ ByPoint(refused')
           \/ /\ refused'.zone \in ZoneName
              /\ known[refused'.zone] # None /\ zones[refused'.zone] = None]_allVars
  BY <1>1
<1> QED
  BY <1>2, Invariants, PTL DEF MissionSpec, RefusedOnlyIfGone

\* "Skipping the whole cluster for that ended exploration on its first step":
\* when run_explore gives up before its time, no cell of a cluster could have been
\* driven to, whichever strategy looked for one.
THEOREM NothingWorthADriveIsLeft == MissionSpec => LeavesNothing
<1>1. ASSUME ExploreInv, MissionInv, [MissionNext]_allVars, phase = "looking", phase' = "off",
             NEW S \in Clusters, NEW c \in S
      PROVE  \/ Metres[robot][c] < MinDistance
             \/ \E a \in attempted : Metres[c][a] < ExclusionRadius
  <2>1. NothingLeft
    BY <1>1 DEF MissionNext, MakePlan, CheckStep, Execute, Refuse, Navigate, NavigateNowhere, Ready,
                StartExploring, ExploreStepOn, Perceive, Finish, PublishMap, MapPublished, EditZones,
                exploreVars, loopVars, allVars, ExploreNext, MoveIn, Wait, TimeUp, LookAgain, SetOut,
                Reached, NotReached, DurationPasses, Loop
  <2>2. ~Eligible(c)
    BY <1>1, <2>1, SearchFinds DEF NothingLeft
  <2>3. c \in Grid /\ attempted \subseteq Grid
    BY <1>1, FrontierFacts, ExploreFacts
  <2> QED
    BY <1>1, <2>2, <2>3, ScoreConstants, ExploreConstants DEF Eligible
<1>2. ExploreInv /\ MissionInv /\ [MissionNext]_allVars =>
        [phase = "looking" /\ phase' = "off" =>
           \A S \in Clusters : \A c \in S :
             \/ Metres[robot][c] < MinDistance
             \/ \E a \in attempted : Metres[c][a] < ExclusionRadius]_exploreVars
  BY <1>1
<1> QED
  BY <1>2, Invariants, PTL DEF MissionSpec, LeavesNothing
=============================================================================
