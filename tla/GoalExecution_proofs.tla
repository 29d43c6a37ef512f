------------------------ MODULE GoalExecution_proofs ------------------------
(***************************************************************************)
(* What holds of goals, steps and answers for every number of goals and of *)
(* steps, whatever the planner gives up on and whichever process dies.     *)
(*                                                                         *)
(* The argument: at the executor a goal has at most one step, followed by  *)
(* at most its report.  The planner moves on when the response has come,   *)
(* the request then being gone, or when it has given up, and then the only *)
(* thing it still asks for is the report.                                  *)
(***************************************************************************)
EXTENDS GoalExecution, SequenceTheorems, TLAPS

\* The requests of goals at the executor, in their order: 0 is being executed.
Line ==
  {e \in Nat \X Request :
     (e[1] = 0 /\ running = e[2]) \/ (e[1] \in 1..Len(queue) /\ queue[e[1]] = e[2])}

\* What each phase of the planner keeps.
Phases ==
  /\ goal = Maintenance <=> pc \in {"idle", "down"}
  /\ pc \in {"idle", "down", "thinking"} => plan = <<>> /\ results = <<>>
  /\ pc \in {"idle", "down", "thinking", "stepping"} => awaited = NoRequest
  /\ pc = "waiting" => ~Over /\ awaited = [goal |-> goal, n |-> Len(results) + 1]
  /\ pc = "reporting" => awaited \in {NoRequest, [goal |-> goal, n |-> 0]}

\* The planner stops at the first failure: what came before it was done.
DoneSoFar ==
  \A k \in 1..Len(results) : k < Len(results) => results[k] = "done"

\* A goal not published, or not taken up, has left no trace.
Fresh(g) == g \notin sent \/ \E i \in 1..Len(inbox) : inbox[i] = g

FreshGoals ==
  /\ \A i, j \in 1..Len(inbox) : i # j => inbox[i] # inbox[j]
  /\ \A i \in 1..Len(inbox) : inbox[i] \in sent
  /\ \A g \in Goal : Fresh(g) =>
       /\ g # goal
       /\ \A n \in 1..MaxSteps : outcome[g][n] = "none"
       /\ \A i \in 1..Len(answers) : answers[i] # g
       /\ \A e \in Line : e[2].goal # g
       /\ \A reply \in replies : reply.request.goal # g

\* Two requests of a goal are a step and, behind it, the report.
StepThenReport ==
  \A e, f \in Line : e[1] < f[1] /\ e[2].goal = f[2].goal => e[2].n > 0 /\ f[2].n = 0

\* A step waits after all earlier ones were done and before it has started.
InTurn ==
  \A e \in Line : e[2].n > 0 =>
    /\ \A m \in 1..(e[2].n - 1) : outcome[e[2].goal][m] = "done"
    /\ outcome[e[2].goal][e[2].n] = (IF e[1] = 0 THEN "running" ELSE "none")

\* A response is to a request that is over, and says what became of it.
RepliesAreTrue ==
  \A reply \in replies :
    /\ \A e \in Line : e[2] # reply.request
    /\ reply.request.n > 0 => outcome[reply.request.goal][reply.request.n] = reply.result

\* The last step the planner has asked for.
Reached == Len(results) + (IF pc = "waiting" THEN 1 ELSE 0)

\* Of the planner's goal nothing further was asked for or has happened.
NotAhead ==
  goal \in Goal =>
    /\ \A n \in 1..MaxSteps : n > Reached => outcome[goal][n] = "none"
    /\ \A e \in Line : e[2].goal = goal =>
         e[2].n <= Reached /\ (e[2].n = 0 => e[2] = awaited)
    /\ \A reply \in replies : reply.request.goal = goal =>
         reply.request.n <= Reached /\ (reply.request.n = 0 => reply.request = awaited)
    /\ \A i \in 1..Len(answers) : answers[i] = goal => pc = "reporting" /\ awaited # NoRequest

\* While steps remain, the executor has nothing of the goal but what the
\* planner waits for.
Alone ==
  pc \in {"stepping", "waiting"} /\ ~Over => \A e \in Line : e[2].goal = goal => e[2] = awaited

\* Nothing of an answered goal is left at the executor.
AnsweredGone ==
  \A i \in 1..Len(answers) : \A e \in Line : e[2].goal # answers[i]

\* The answers due are the reports at the executor, in their order.
DueIsLine ==
  /\ \A k \in 1..Len(due) : \E e \in Line : e[2] = [goal |-> due[k], n |-> 0]
  /\ \A e \in Line : e[2].n = 0 => \E k \in 1..Len(due) : due[k] = e[2].goal
  /\ \A k, l \in 1..Len(due) : \A e, f \in Line :
       k < l /\ e[2] = [goal |-> due[k], n |-> 0] /\ f[2] = [goal |-> due[l], n |-> 0]
       => e[1] < f[1]
Executor == StepThenReport /\ InTurn /\ RepliesAreTrue /\ StepsInOrder
Planner == Phases /\ DoneSoFar /\ NotAhead /\ Alone /\ ResultsAreOwn
IInv == TypeOK /\ Executor /\ Planner /\ FreshGoals /\ AnsweredGone /\ DueIsLine

-----------------------------------------------------------------------------
LEMMA Constants ==
  /\ Unknown \notin Skill /\ Maintenance \notin Goal
  /\ MaxSteps \in Nat /\ InboxDepth \in Nat \ {0} /\ MaxQueue \in Nat
  /\ NoRequest \notin Request /\ NoRequest # SaveRequest
  /\ SaveRequest \notin Request
BY GoalAssumption DEF Request, SaveRequest

\* A sequence without its first element.
LEMMA TailFacts ==
  ASSUME NEW S, NEW s \in Seq(S), s # <<>>
  PROVE  /\ Len(s) \in Nat \ {0} /\ Head(s) = s[1] /\ s[1] \in S
         /\ Tail(s) \in Seq(S) /\ Len(Tail(s)) = Len(s) - 1
         /\ \A k \in 1..Len(Tail(s)) : Tail(s)[k] = s[k + 1]
<1>1. Len(s) \in Nat \ {0}
  BY EmptySeq
<1> QED
  BY <1>1, HeadTailProperties, ElementOfSeq

LEMMA AppendFacts ==
  ASSUME NEW S, NEW s \in Seq(S), NEW x \in S
  PROVE  /\ Append(s, x) \in Seq(S) /\ Len(Append(s, x)) = Len(s) + 1
         /\ \A k \in 1..Len(s) : Append(s, x)[k] = s[k]
         /\ Append(s, x)[Len(s) + 1] = x
OBVIOUS

\* The executor takes the request that came first.
LEMMA ServeTakesFirst ==
  ASSUME TypeOK, Serve
  PROVE  /\ running = NoRequest /\ queue # <<>>
         /\ running' = queue[1] /\ queue' = Tail(queue)
         /\ outcome' = IF IsStep(queue[1])
                       THEN [outcome EXCEPT ![queue[1].goal][queue[1].n] = "running"]
                       ELSE outcome
<1>1. queue \in Seq(Request \cup {SaveRequest})
  BY DEF TypeOK
<1>2. PICK i \in TakenNext :
        /\ running' = queue[i]
        /\ queue' = SubSeq(queue, 1, i - 1) \o SubSeq(queue, i + 1, Len(queue))
        /\ outcome' = IF IsStep(queue[i])
                      THEN [outcome EXCEPT ![queue[i].goal][queue[i].n] = "running"]
                      ELSE outcome
  BY Zenon DEF Serve
<1>3. i = 1 /\ 1 \in 1..Len(queue)
  BY <1>2 DEF TakenNext
<1>4. queue # <<>> /\ Len(queue) \in Nat
  BY <1>1, <1>3
<1>5. SubSeq(queue, 1, 0) = <<>>
  BY SubSeqEmpty
<1>6. SubSeq(queue, 2, Len(queue)) = Tail(queue) /\ Tail(queue) \in Seq(Request \cup {SaveRequest})
  BY <1>1, <1>4, TailIsSubSeq, HeadTailProperties
<1>7. <<>> \o Tail(queue) = Tail(queue)
  BY <1>6, ConcatEmptySeq
<1>8. queue' = Tail(queue)
  <2>1. i - 1 = 0 /\ i + 1 = 2
    BY <1>3
  <2> QED
    BY <1>2, <1>5, <1>6, <1>7, <2>1, Zenon
<1>9. running = NoRequest
  BY DEF Serve
<1> QED
  BY <1>2, <1>3, <1>4, <1>8, <1>9, Zenon

\* The fate of one step is written down, those of the others stay.
LEMMA Mark ==
  ASSUME TypeOK, NEW r \in Request, r.n > 0, NEW v \in Result \cup {"none", "running"},
         outcome' = [outcome EXCEPT ![r.goal][r.n] = v]
  PROVE  /\ outcome' \in [Goal -> [1..MaxSteps -> Result \cup {"none", "running"}]]
         /\ \A g \in Goal : \A n \in 1..MaxSteps :
              outcome'[g][n] = IF g = r.goal /\ n = r.n THEN v ELSE outcome[g][n]
<1>1. outcome \in [Goal -> [1..MaxSteps -> Result \cup {"none", "running"}]]
  BY DEF TypeOK
<1>2. r.goal \in Goal /\ r.n \in 1..MaxSteps
  BY Constants DEF Request
<1>3. [outcome[r.goal] EXCEPT ![r.n] = v] \in [1..MaxSteps -> Result \cup {"none", "running"}]
  BY <1>1, <1>2
<1> QED
  BY <1>1, <1>2, <1>3

-----------------------------------------------------------------------------
\* What each operation does to the line

LEMMA LineType ==
  ASSUME TypeOK, NEW e \in Line
  PROVE  /\ e = <<e[1], e[2]>> /\ e[1] \in Nat /\ e[1] <= Len(queue) /\ e[2] \in Request
         /\ e[2].goal \in Goal /\ e[2].n \in 0..MaxSteps /\ e[2].n \in Nat
         /\ e[2] = [goal |-> e[2].goal, n |-> e[2].n]
BY Constants DEF Line, TypeOK, Request

LEMMA LineSteps ==
  ASSUME TypeOK, NEW e \in Line, e[2].n > 0
  PROVE  /\ e[2] \in Request /\ e[2].goal \in Goal /\ e[2].n \in 1..MaxSteps
         /\ \A m \in 1..(e[2].n - 1) : m \in 1..MaxSteps
<1>1. e[2] \in Request /\ e[2].goal \in Goal /\ e[2].n \in 0..MaxSteps
  BY LineType, Zenon
<1> QED
  BY <1>1, Constants

LEMMA LineSame == UNCHANGED <<queue, running>> => Line' = Line
BY DEF Line

LEMMA LineCall ==
  ASSUME TypeOK, UNCHANGED running, NEW r \in Request, queue' = Append(queue, r)
  PROVE  /\ Line' = Line \cup {<<Len(queue) + 1, r>>}
         /\ \A e \in Line : e[1] < Len(queue) + 1
<1>1. queue \in Seq(Request \cup {SaveRequest}) /\ Len(queue) \in Nat
  BY DEF TypeOK
<1>2. /\ Len(queue') = Len(queue) + 1 /\ queue'[Len(queue) + 1] = r
      /\ \A k \in 1..Len(queue) : queue'[k] = queue[k]
  BY <1>1, AppendFacts
<1> QED
  BY <1>1, <1>2 DEF Line

LEMMA LineSave ==
  ASSUME TypeOK, SaveMap
  PROVE  Line' = Line
<1>1. queue \in Seq(Request \cup {SaveRequest}) /\ Len(queue) \in Nat
  BY DEF TypeOK
<1>2. /\ Len(queue') = Len(queue) + 1 /\ queue'[Len(queue) + 1] = SaveRequest
      /\ \A k \in 1..Len(queue) : queue'[k] = queue[k]
  BY <1>1, AppendFacts DEF SaveMap
<1> QED
  BY <1>1, <1>2, Constants DEF Line, SaveMap

LEMMA LineServe ==
  ASSUME TypeOK, Serve
  PROVE  /\ \A e \in Line : e[1] > 0 /\ <<e[1] - 1, e[2]>> \in Line'
         /\ \A e \in Line' : <<e[1] + 1, e[2]>> \in Line
<1>1. queue \in Seq(Request \cup {SaveRequest}) /\ Len(queue) \in Nat
  BY DEF TypeOK
<1>2. running = NoRequest /\ queue # <<>> /\ running' = queue[1]
  BY ServeTakesFirst
<1>3. /\ Len(queue') = Len(queue) - 1
      /\ \A k \in 1..Len(queue') : queue'[k] = queue[k + 1]
      /\ Len(queue) \in Nat \ {0}
  BY <1>1, <1>2, ServeTakesFirst, TailFacts
<1> QED
  BY <1>1, <1>2, <1>3, Constants DEF Line

LEMMA LineFinish ==
  ASSUME TypeOK, Finish
  PROVE  Line' = {e \in Line : e[1] > 0}
BY Constants DEF Line, Finish

LEMMA LineDies == ExecutorDies => Line' = {}
BY Constants DEF Line, ExecutorDies

-----------------------------------------------------------------------------
\* Types

LEMMA PlanFacts ==
  ASSUME NEW p \in Plan
  PROVE  /\ p \in Seq(Skill \cup {Unknown}) /\ Len(p) \in 0..MaxSteps
         /\ \A k \in 1..Len(p) : k \in 1..MaxSteps
<1>1. PICK k \in 0..MaxSteps : p \in [1..k -> Skill \cup {Unknown}]
  BY DEF Plan
<1>2. p \in Seq(Skill \cup {Unknown}) /\ Len(p) = k
  BY <1>1, Constants
<1> QED
  BY <1>2, Constants

LEMMA EmptyPlan == <<>> \in Plan
<1>1. <<>> \in [1..0 -> Skill \cup {Unknown}]
  OBVIOUS
<1> QED
  BY <1>1, Constants DEF Plan

LEMMA IdleType ==
  ASSUME Idle
  PROVE  /\ pc' = "idle" /\ goal' = Maintenance /\ plan' \in Plan
         /\ results' = <<>> /\ results' \in Seq(Result) /\ Len(results') <= Len(plan')
         /\ awaited' = NoRequest
BY EmptyPlan DEF Idle

\* One more result than before.
LEMMA Recorded ==
  ASSUME TypeOK, NEW r \in Result, Record(r)
  PROVE  /\ results' \in Seq(Result) /\ Len(results') = Len(results) + 1
         /\ \A k \in 1..Len(results) : results'[k] = results[k]
         /\ results'[Len(results) + 1] = r
         /\ awaited' = NoRequest /\ pc' = "stepping"
BY AppendFacts DEF TypeOK, Record

\* While the plan is not over, one more step of it can be called.
LEMMA Remaining ==
  ASSUME TypeOK, ~Over
  PROVE  /\ Len(results) \in Nat /\ Len(results) + 1 <= Len(plan)
         /\ Len(results) + 1 \in 1..MaxSteps /\ plan[Len(results) + 1] \in Skill \cup {Unknown}
<1>1. /\ Len(plan) \in 0..MaxSteps /\ plan \in Seq(Skill \cup {Unknown})
      /\ Len(results) \in Nat /\ Len(results) <= Len(plan)
  BY PlanFacts DEF TypeOK
<1>2. Len(results) # Len(plan)
  BY DEF Over
<1> QED
  BY <1>1, <1>2, Constants

LEMMA InitTypeOK == Init => TypeOK
<1> SUFFICES ASSUME Init
             PROVE  TypeOK
  OBVIOUS
<1>1. outcome \in [Goal -> [1..MaxSteps -> Result \cup {"none", "running"}]]
  BY DEF Init
<1>2. up \in BOOLEAN
  BY DEF Init
<1> QED
  BY <1>1, <1>2, EmptyPlan, Constants DEF Init, TypeOK

\* The parts of the type invariant.
PlannerTyped ==
  /\ pc \in {"idle", "thinking", "stepping", "waiting", "reporting", "down"}
  /\ goal \in Goal \cup {Maintenance} /\ plan \in Plan
  /\ results \in Seq(Result) /\ Len(results) <= Len(plan)
  /\ awaited \in Request \cup {NoRequest}

ExecutorTyped ==
  /\ up \in BOOLEAN
  /\ queue \in Seq(Request \cup {SaveRequest})
  /\ running \in Request \cup {SaveRequest, NoRequest}

HistoryTyped ==
  /\ sent \subseteq Goal /\ lost \subseteq Goal
  /\ outcome \in [Goal -> [1..MaxSteps -> Result \cup {"none", "running"}]]
  /\ answers \in Seq(Goal) /\ due \in Seq(Goal)

InboxTyped == inbox \in Seq(Goal) /\ Len(inbox) <= InboxDepth
RepliesTyped == replies \subseteq [request: Request, result: Result]

LEMMA TypeParts ==
  InboxTyped' /\ PlannerTyped' /\ ExecutorTyped' /\ RepliesTyped' /\ HistoryTyped' => TypeOK'
BY DEF TypeOK, InboxTyped, PlannerTyped, ExecutorTyped, RepliesTyped, HistoryTyped

LEMMA TypeUnchanged ==
  ASSUME TypeOK
  PROVE  /\ UNCHANGED inbox => InboxTyped'
         /\ UNCHANGED planner => PlannerTyped'
         /\ UNCHANGED executor => ExecutorTyped'
         /\ replies' \subseteq replies => RepliesTyped'
         /\ UNCHANGED history => HistoryTyped'
BY DEF TypeOK, InboxTyped, PlannerTyped, ExecutorTyped, RepliesTyped, HistoryTyped,
       planner, executor, history

\* Who works has a goal.
LEMMA Working ==
  ASSUME TypeOK, Phases
  PROVE  pc \notin {"idle", "down"} <=> goal \in Goal
BY Constants DEF TypeOK, Phases

\* The report that is being made is the first answer due.
LEMMA FirstDue ==
  ASSUME TypeOK, DueIsLine, running # NoRequest, running.goal \in Goal, running.n = 0
  PROVE  due # <<>> /\ Head(due) = running.goal
<1>1. running \in Request
  BY Constants DEF TypeOK, SaveRequest
<1>2. <<0, running>> \in Line
  BY <1>1 DEF Line
<1>3. running = [goal |-> running.goal, n |-> 0]
  BY <1>1 DEF Request
<1>4. PICK k \in 1..Len(due) : due[k] = running.goal
  BY <1>2 DEF DueIsLine
<1>5. due \in Seq(Goal) /\ Len(due) \in Nat /\ due # <<>> /\ 1 \in 1..Len(due)
  BY <1>4 DEF TypeOK
<1>6. k = 1
  <2>1. PICK e \in Line : e[2] = [goal |-> due[1], n |-> 0]
    BY <1>5 DEF DueIsLine
  <2>2. e[1] \in Nat
    BY LineType
  <2>3. ~(1 < k)
    BY SMTT(30), <1>2, <1>3, <1>4, <1>5, <2>1, <2>2 DEF DueIsLine
  <2> QED
    BY <1>5, <2>3
<1> QED
  BY <1>4, <1>5, <1>6, TailFacts

LEMMA StepTypeOK == TypeOK /\ Phases /\ DueIsLine /\ [Next]_vars => TypeOK'
<1> SUFFICES ASSUME TypeOK, Phases, DueIsLine, [Next]_vars
             PROVE  InboxTyped' /\ PlannerTyped' /\ ExecutorTyped' /\ RepliesTyped' /\ HistoryTyped'
  BY TypeParts
<1> USE TypeUnchanged
<1>1. ASSUME NEW g \in Goal, PublishGoal(g)
      PROVE  InboxTyped' /\ PlannerTyped' /\ ExecutorTyped' /\ RepliesTyped' /\ HistoryTyped'
  <2>1. InboxTyped'
    <3>1. CASE UNCHANGED inbox
      BY <3>1
    <3>2. CASE Len(inbox) < InboxDepth /\ inbox' = Append(inbox, g)
      BY <3>2, AppendFacts, Constants DEF TypeOK, InboxTyped
    <3>3. CASE Len(inbox) = InboxDepth /\ inbox' = Append(Tail(inbox), g)
      <4>1. inbox \in Seq(Goal) /\ inbox # <<>>
        BY <3>3, Constants DEF TypeOK
      <4>2. Tail(inbox) \in Seq(Goal) /\ Len(Tail(inbox)) = Len(inbox) - 1 /\ Len(inbox) \in Nat
        BY <4>1, TailFacts
      <4> QED
        BY <3>3, <4>2, AppendFacts, Constants DEF InboxTyped
    <3> QED
      BY <1>1, <3>1, <3>2, <3>3 DEF PublishGoal
  <2>2. HistoryTyped'
    <3>1. lost' \subseteq Goal
      <4>1. CASE Len(inbox) = InboxDepth
        <5>1. inbox \in Seq(Goal) /\ inbox # <<>>
          BY <4>1, Constants DEF TypeOK
        <5>2. Head(inbox) \in Goal
          BY <5>1, TailFacts
        <5> QED
          BY <1>1, <5>2 DEF PublishGoal, TypeOK
      <4>2. CASE Len(inbox) # InboxDepth
        BY <1>1, <4>2 DEF PublishGoal, TypeOK
      <4> QED
        BY <4>1, <4>2
    <3> QED
      BY <1>1, <3>1 DEF PublishGoal, TypeOK, HistoryTyped
  <2> QED
    BY <1>1, <2>1, <2>2 DEF PublishGoal
<1>2. CASE TakeGoal
  <2>1. inbox \in Seq(Goal) /\ inbox # <<>>
    BY <1>2 DEF TakeGoal, TypeOK
  <2>2. /\ Head(inbox) \in Goal /\ Tail(inbox) \in Seq(Goal)
        /\ Len(Tail(inbox)) = Len(inbox) - 1 /\ Len(inbox) \in Nat
    BY <2>1, TailFacts
  <2>3. InboxTyped'
    <3>1. Len(inbox) <= InboxDepth /\ InboxDepth \in Nat /\ inbox' = Tail(inbox)
      BY <1>2, Constants DEF TakeGoal, TypeOK
    <3>2. inbox' \in Seq(Goal) /\ Len(inbox') = Len(inbox) - 1 /\ Len(inbox) \in Nat
      BY <2>2, <3>1, Zenon
    <3>3. \A a, b, c \in Int : a <= b /\ c = a - 1 => c <= b
      OBVIOUS
    <3>4. Len(inbox') <= InboxDepth
      <4> HIDE TypeUnchanged
      <4>1. Len(inbox) \in Int /\ Len(inbox') \in Int /\ InboxDepth \in Int
        BY <3>1, <3>2
      <4> QED
        BY <3>1, <3>2, <3>3, <4>1, Zenon
    <3> QED
      BY <3>2, <3>4, Zenon DEF InboxTyped
  <2>4. PlannerTyped'
    BY <1>2, <2>2 DEF TakeGoal, TypeOK, PlannerTyped
  <2> QED
    BY <1>2, <2>3, <2>4 DEF TakeGoal
<1>3. CASE Think
  <2>1. PlannerTyped'
    <3>1. CASE Idle
      BY <3>1, IdleType DEF PlannerTyped
    <3>2. CASE \E p \in Plan : plan' = p /\ pc' = "stepping" /\ UNCHANGED <<goal, results, awaited, lost>>
      BY <1>3, <3>2 DEF Think, Phases, TypeOK, PlannerTyped
    <3>3. CASE pc' = "reporting" /\ UNCHANGED <<goal, plan, results, awaited, lost>>
      BY <3>3 DEF TypeOK, PlannerTyped
    <3> QED
      BY <1>3, <3>1, <3>2, <3>3 DEF Think
  <2>2. HistoryTyped'
    <3>1. goal \in Goal
      BY <1>3, Working DEF Think
    <3> QED
      BY <1>3, <3>1 DEF Think, TypeOK, HistoryTyped
  <2> QED
    BY <1>3, <2>1, <2>2 DEF Think
<1>4. CASE PlannerDies
  <2>1. PlannerTyped' /\ InboxTyped'
    BY <1>4, EmptyPlan, Constants DEF PlannerDies, PlannerTyped, InboxTyped
  <2>2. HistoryTyped'
    <3>1. inbox \in Seq(Goal) /\ lost \subseteq Goal
      BY DEF TypeOK
    <3>2. {inbox[i] : i \in 1..Len(inbox)} \subseteq Goal
      BY <3>1
    <3>3. pc # "idle" => pc = "down" \/ goal \in Goal
      BY Working
    <3>4. lost' \subseteq Goal
      BY <1>4, <3>1, <3>2, <3>3 DEF PlannerDies
    <3> QED
      BY <1>4, <3>4 DEF PlannerDies, TypeOK, HistoryTyped
  <2> QED
    BY <1>4, <2>1, <2>2 DEF PlannerDies
<1>5. CASE PlannerRespawns
  BY <1>5 DEF PlannerRespawns, TypeOK, PlannerTyped
<1>6. CASE NextStep
  <2> DEFINE k == Len(results) + 1
  <2>1. ~Over /\ pc = "stepping" /\ goal \in Goal
    BY <1>6, Working DEF NextStep
  <2>2. Len(results) \in Nat /\ k <= Len(plan) /\ k \in 1..MaxSteps
    BY <2>1, Remaining
  <2>3. CASE Record("error") /\ UNCHANGED queue
    <3>1. PlannerTyped'
      BY <1>6, <2>2, <2>3, Recorded DEF NextStep, TypeOK, PlannerTyped, Result
    <3> QED
      BY <1>6, <2>3, <3>1 DEF NextStep, TypeOK, ExecutorTyped
  <2>4. CASE Call([goal |-> goal, n |-> k]) /\ pc' = "waiting" /\ UNCHANGED results
    <3>1. [goal |-> goal, n |-> k] \in Request
      BY <2>1, <2>2, Constants DEF Request
    <3>2. PlannerTyped'
      BY <1>6, <2>4, <3>1 DEF NextStep, Call, TypeOK, PlannerTyped
    <3>3. queue' \in Seq(Request \cup {SaveRequest})
      BY <2>4, <3>1, AppendFacts DEF Call, TypeOK
    <3>4. ExecutorTyped'
      BY <1>6, <3>3 DEF NextStep, TypeOK, ExecutorTyped
    <3> QED
      BY <1>6, <3>2, <3>4 DEF NextStep
  <2> QED
    BY <1>6, <2>3, <2>4 DEF NextStep
<1>7. CASE StepReply
  <2>1. ~Over /\ pc = "waiting"
    BY <1>7 DEF StepReply, Phases
  <2>2. PICK reply \in replies : replies' = replies \ {reply} /\ Record(reply.result)
    BY <1>7 DEF StepReply
  <2>3. reply.result \in Result
    BY DEF TypeOK
  <2>4. PlannerTyped'
    BY <1>7, <2>1, <2>2, <2>3, Remaining, Recorded DEF StepReply, TypeOK, PlannerTyped
  <2> QED
    BY <1>7, <2>2, <2>4 DEF StepReply
<1>8. CASE StepTimeout
  <2>1. ~Over /\ pc = "waiting"
    BY <1>8 DEF StepTimeout, Phases
  <2>2. PlannerTyped'
    BY <1>8, <2>1, Remaining, Recorded DEF StepTimeout, GiveUp, TypeOK, PlannerTyped, Result
  <2> QED
    BY <1>8, <2>2 DEF StepTimeout
<1>9. CASE WriteAnswer
  BY <1>9 DEF WriteAnswer, TypeOK, PlannerTyped
<1>10. CASE AskReport
  <2> DEFINE r == [goal |-> goal, n |-> 0]
  <2>1. goal \in Goal /\ r \in Request
    BY <1>10, Working, Constants DEF AskReport, Request
  <2>2. CASE Call(r) /\ due' = Append(due, goal) /\ UNCHANGED <<pc, goal, plan, results, lost>>
    <3>1. PlannerTyped'
      BY <2>1, <2>2 DEF Call, TypeOK, PlannerTyped
    <3>2. queue' \in Seq(Request \cup {SaveRequest})
      BY <2>1, <2>2, AppendFacts DEF Call, TypeOK
    <3>3. due' \in Seq(Goal)
      BY <2>1, <2>2, AppendFacts DEF TypeOK
    <3>4. ExecutorTyped' /\ HistoryTyped'
      BY <1>10, <2>2, <3>2, <3>3 DEF AskReport, TypeOK, ExecutorTyped, HistoryTyped
    <3> QED
      BY <1>10, <3>1, <3>4 DEF AskReport
  <2>3. CASE Idle /\ lost' = lost \cup {goal} /\ UNCHANGED <<queue, due>>
    <3>1. PlannerTyped'
      BY <2>3, IdleType DEF PlannerTyped
    <3>2. ExecutorTyped' /\ HistoryTyped'
      BY <1>10, <2>1, <2>3 DEF AskReport, TypeOK, ExecutorTyped, HistoryTyped
    <3> QED
      BY <1>10, <3>1, <3>2 DEF AskReport
  <2> QED
    BY <1>10, <2>2, <2>3 DEF AskReport
<1>11. CASE ReportReply
  <2>1. PlannerTyped'
    BY <1>11, IdleType DEF ReportReply, PlannerTyped
  <2>2. replies' \subseteq replies
    BY <1>11 DEF ReportReply
  <2> QED
    BY <1>11, <2>1, <2>2 DEF ReportReply
<1>12. CASE ReportTimeout
  BY <1>12, IdleType DEF ReportTimeout, PlannerTyped
<1>13. CASE DropReply
  <2>1. replies' \subseteq replies
    BY <1>13 DEF DropReply
  <2> QED
    BY <1>13, <2>1 DEF DropReply
<1>14. CASE SaveMap
  <2>1. queue' \in Seq(Request \cup {SaveRequest})
    BY <1>14, AppendFacts DEF SaveMap, TypeOK
  <2>2. ExecutorTyped'
    BY <1>14, <2>1 DEF SaveMap, TypeOK, ExecutorTyped
  <2> QED
    BY <1>14, <2>2 DEF SaveMap
<1>15. CASE Serve
  <2>1. queue \in Seq(Request \cup {SaveRequest}) /\ queue # <<>>
    BY <1>15, ServeTakesFirst DEF TypeOK
  <2>2. queue[1] \in Request \cup {SaveRequest} /\ Tail(queue) \in Seq(Request \cup {SaveRequest})
    BY <2>1, TailFacts
  <2>3. ExecutorTyped'
    BY <1>15, <2>2, ServeTakesFirst DEF Serve, TypeOK, ExecutorTyped
  <2>4. outcome' \in [Goal -> [1..MaxSteps -> Result \cup {"none", "running"}]]
    <3>1. CASE IsStep(queue[1])
      <4>1. queue[1] \in Request /\ queue[1].n > 0
        BY <2>2, <3>1 DEF IsStep, SaveRequest, Request
      <4>2. outcome' = [outcome EXCEPT ![queue[1].goal][queue[1].n] = "running"]
        BY <1>15, <3>1, ServeTakesFirst
      <4> QED
        BY <4>1, <4>2, Mark
    <3>2. CASE ~IsStep(queue[1])
      BY <1>15, <3>2, ServeTakesFirst DEF TypeOK
    <3> QED
      BY <3>1, <3>2
  <2>5. HistoryTyped'
    BY <1>15, <2>4 DEF Serve, TypeOK, HistoryTyped
  <2> QED
    BY <1>15, <2>3, <2>5 DEF Serve
<1>16. CASE Finish
  <2>1. ExecutorTyped'
    BY <1>16 DEF Finish, TypeOK, ExecutorTyped
  <2>2. running \in Request \cup {SaveRequest}
    BY <1>16 DEF Finish, TypeOK
  <2>3. PICK res \in Result :
          /\ replies' = IF running = SaveRequest THEN replies
                        ELSE replies \cup {[request |-> running, result |-> res]}
          /\ outcome' = IF IsStep(running)
                        THEN [outcome EXCEPT ![running.goal][running.n] = res] ELSE outcome
    BY <1>16, Zenon DEF Finish
  <2>4. RepliesTyped'
    BY <2>2, <2>3 DEF TypeOK, RepliesTyped
  <2>5. outcome' \in [Goal -> [1..MaxSteps -> Result \cup {"none", "running"}]]
    <3>1. CASE IsStep(running)
      <4>1. running \in Request /\ running.n > 0
        BY <2>2, <3>1 DEF IsStep, SaveRequest, Request
      <4>2. outcome' = [outcome EXCEPT ![running.goal][running.n] = res]
        BY <2>3, <3>1
      <4> QED
        BY <4>1, <4>2, Mark
    <3>2. CASE ~IsStep(running)
      BY <2>3, <3>2 DEF TypeOK
    <3> QED
      BY <3>1, <3>2
  <2>6. answers' \in Seq(Goal) /\ due' \in Seq(Goal)
    <3>1. CASE running.goal \in Goal /\ running.n = 0
      <4>1. answers' = Append(answers, running.goal) /\ due' = Tail(due)
        BY <1>16, <3>1, Zenon DEF Finish
      <4>2. answers \in Seq(Goal) /\ due \in Seq(Goal) /\ due # <<>>
        BY <1>16, <3>1, FirstDue DEF Finish, TypeOK
      <4> QED
        BY <3>1, <4>1, <4>2, AppendFacts, TailFacts
    <3>2. CASE ~(running.goal \in Goal /\ running.n = 0)
      BY <1>16, <3>2 DEF Finish, TypeOK
    <3> QED
      BY <3>1, <3>2
  <2>7. HistoryTyped'
    BY <1>16, <2>5, <2>6 DEF Finish, TypeOK, HistoryTyped
  <2> QED
    BY <1>16, <2>1, <2>4, <2>7 DEF Finish
<1>17. CASE ExecutorDies
  <2>1. ExecutorTyped'
    <3>1. up' \in BOOLEAN
      BY <1>17, Zenon DEF ExecutorDies
    <3>2. queue' = <<>> /\ running' = NoRequest
      BY <1>17 DEF ExecutorDies
    <3> QED
      BY <3>1, <3>2 DEF ExecutorTyped
  <2>2. {r.goal : r \in {x \in {queue[i] : i \in 1..Len(queue)} \cup {running} :
                           x # NoRequest /\ x.goal \in Goal /\ x.n = 0}} \subseteq Goal
    OBVIOUS
  <2>3. HistoryTyped'
    BY <1>17, <2>2 DEF ExecutorDies, TypeOK, HistoryTyped
  <2> QED
    BY <1>17, <2>1, <2>3 DEF ExecutorDies
<1>18. CASE ExecutorRespawns
  BY <1>18 DEF ExecutorRespawns, TypeOK, ExecutorTyped
<1>19. CASE UNCHANGED vars
  BY <1>19 DEF vars
<1> QED
  BY <1>1, <1>2, <1>3, <1>4, <1>5, <1>6, <1>7, <1>8, <1>9, <1>10, <1>11, <1>12, <1>13,
     <1>14, <1>15, <1>16, <1>17, <1>18, <1>19 DEF Next

-----------------------------------------------------------------------------
\* What is kept by a step that leaves the line, or what it is about, alone

LEMMA ExecutorKept ==
  ASSUME Executor, Line' \subseteq Line, replies' \subseteq replies, UNCHANGED outcome
  PROVE  Executor'
<1>1. StepThenReport' /\ InTurn' /\ RepliesAreTrue'
  BY DEF Executor, StepThenReport, InTurn, RepliesAreTrue
<1>2. StepsInOrder'
  BY DEF Executor, StepsInOrder
<1> QED
  BY <1>1, <1>2 DEF Executor

LEMMA PlannerKept ==
  ASSUME Planner, UNCHANGED <<planner, outcome, answers>>,
         Line' \subseteq Line, replies' \subseteq replies
  PROVE  Planner'
<1>1. Phases' /\ DoneSoFar' /\ ResultsAreOwn'
  BY DEF Planner, Phases, DoneSoFar, ResultsAreOwn, Over, planner
<1>2. NotAhead'
  BY DEF Planner, NotAhead, Reached, planner
<1>3. Alone'
  BY DEF Planner, Alone, Over, planner
<1> QED
  BY <1>1, <1>2, <1>3 DEF Planner

LEMMA FreshKept ==
  ASSUME FreshGoals, UNCHANGED <<inbox, sent, outcome, answers>>,
         Line' \subseteq Line, replies' \subseteq replies,
         goal' = goal \/ goal' = Maintenance
  PROVE  FreshGoals'
<1>1. \A g : Fresh(g)' <=> Fresh(g)
  BY DEF Fresh
<1> QED
  BY <1>1, Constants DEF FreshGoals

LEMMA GoneKept ==
  ASSUME AnsweredGone, UNCHANGED answers, Line' \subseteq Line
  PROVE  AnsweredGone'
BY DEF AnsweredGone

LEMMA DueKept ==
  ASSUME DueIsLine, UNCHANGED due, Line' = Line
  PROVE  DueIsLine'
BY DEF DueIsLine

\* A planner that works on nothing.
LEMMA IdlePlanner ==
  ASSUME pc' \in {"idle", "down"}, goal' = Maintenance, plan' = <<>>, results' = <<>>,
         awaited' = NoRequest
  PROVE  Planner'
<1>1. Len(results') = 0
  OBVIOUS
<1>2. Phases' /\ DoneSoFar' /\ ResultsAreOwn'
  BY <1>1 DEF Phases, DoneSoFar, ResultsAreOwn
<1>3. NotAhead' /\ Alone'
  BY Constants DEF NotAhead, Alone
<1> QED
  BY <1>2, <1>3 DEF Planner

\* The planner lets go of what it worked on.
LEMMA LetsGo ==
  ASSUME IInv, pc' \in {"idle", "down"}, goal' = Maintenance, plan' = <<>>, results' = <<>>,
         awaited' = NoRequest, UNCHANGED <<queue, running, outcome, answers, due>>,
         replies' \subseteq replies
  PROVE  Executor' /\ Planner' /\ AnsweredGone' /\ DueIsLine'
BY IdlePlanner, LineSame, ExecutorKept, GoneKept, DueKept DEF IInv

\* The executor's side of a step that only others take.
LEMMA OnlyPlanner ==
  ASSUME IInv, UNCHANGED <<queue, running, outcome, answers, due>>, replies' \subseteq replies
  PROVE  Line' = Line /\ Executor' /\ AnsweredGone' /\ DueIsLine'
BY LineSame, ExecutorKept, GoneKept, DueKept DEF IInv

-----------------------------------------------------------------------------
\* Goals

LEMMA InitIInv == Init => IInv
<1> SUFFICES ASSUME Init
             PROVE  IInv
  OBVIOUS
<1>1. TypeOK
  BY InitTypeOK
<1>2. Line = {}
  BY Constants DEF Init, Line
<1>3. Executor
  BY <1>2, Constants DEF Init, Executor, StepThenReport, InTurn, RepliesAreTrue, StepsInOrder
<1>4. Planner
  BY <1>2, Constants
     DEF Init, Planner, Phases, DoneSoFar, NotAhead, Alone, ResultsAreOwn
<1>5. FreshGoals
  BY <1>2, Constants DEF Init, FreshGoals
<1>6. AnsweredGone /\ DueIsLine
  BY <1>2 DEF Init, AnsweredGone, DueIsLine
<1> QED
  BY <1>1, <1>3, <1>4, <1>5, <1>6 DEF IInv

LEMMA PublishGoalStep ==
  ASSUME IInv, NEW g \in Goal, PublishGoal(g)
  PROVE  Executor' /\ Planner' /\ FreshGoals' /\ AnsweredGone' /\ DueIsLine'
<1>1. /\ UNCHANGED <<planner, queue, running, replies, outcome, answers, due>>
      /\ g \notin sent /\ sent' = sent \cup {g}
  BY DEF PublishGoal, executor
<1>2. Line' = Line /\ Executor' /\ AnsweredGone' /\ DueIsLine'
  BY <1>1, OnlyPlanner
<1>3. Planner'
  BY <1>1, <1>2, PlannerKept DEF IInv
<1>4. FreshGoals'
  <2>1. inbox \in Seq(Goal) /\ Len(inbox) \in Nat
    BY DEF IInv, TypeOK
  <2>2. /\ \A i, j \in 1..Len(inbox) : i # j => inbox[i] # inbox[j]
        /\ \A i \in 1..Len(inbox) : inbox[i] \in sent
    BY DEF IInv, FreshGoals
  <2>3. /\ \A i, j \in 1..Len(inbox') : i # j => inbox'[i] # inbox'[j]
        /\ \A i \in 1..Len(inbox') : inbox'[i] = g \/ \E j \in 1..Len(inbox) : inbox'[i] = inbox[j]
    <3>1. CASE UNCHANGED inbox
      BY <2>2, <3>1
    <3>2. CASE inbox' = Append(inbox, g)
      <4>1. /\ Len(inbox') = Len(inbox) + 1 /\ inbox'[Len(inbox) + 1] = g
            /\ \A k \in 1..Len(inbox) : inbox'[k] = inbox[k]
        BY <2>1, <3>2, AppendFacts
      <4> QED
        BY <1>1, <2>1, <2>2, <4>1
    <3>3. CASE Len(inbox) = InboxDepth /\ inbox' = Append(Tail(inbox), g)
      <4>1. inbox # <<>>
        BY <3>3, Constants
      <4>2. /\ Tail(inbox) \in Seq(Goal) /\ Len(Tail(inbox)) = Len(inbox) - 1 /\ Len(inbox) >= 1
            /\ \A k \in 1..Len(Tail(inbox)) : Tail(inbox)[k] = inbox[k + 1]
        BY <2>1, <4>1, TailFacts
      <4>3. /\ Len(inbox') = Len(inbox) /\ inbox'[Len(inbox)] = g
            /\ \A k \in 1..(Len(inbox) - 1) : inbox'[k] = inbox[k + 1]
        BY <2>1, <3>3, <4>2, AppendFacts
      <4> HIDE <3>3
      <4> QED
        BY SMTT(30), <1>1, <2>1, <2>2, <4>3
    <3> QED
      BY <3>1, <3>2, <3>3 DEF PublishGoal
  <2>4. \A i \in 1..Len(inbox') : inbox'[i] \in sent'
    BY <1>1, <2>2, <2>3
  <2>5. ASSUME NEW h \in Goal, Fresh(h)'
        PROVE  Fresh(h)
    BY <1>1, <2>3, <2>5 DEF Fresh
  <2>6. goal' = goal
    BY <1>1 DEF planner
  <2> QED
    BY <1>1, <1>2, <2>3, <2>4, <2>5, <2>6 DEF IInv, FreshGoals
<1> QED
  BY <1>2, <1>3, <1>4

LEMMA TakeGoalStep ==
  ASSUME IInv, TakeGoal
  PROVE  Executor' /\ Planner' /\ FreshGoals' /\ AnsweredGone' /\ DueIsLine'
<1>1. UNCHANGED <<plan, results, awaited, queue, running, replies, sent, outcome, answers, due>>
  BY DEF TakeGoal, executor, history
<1>2. Line' = Line /\ Executor' /\ AnsweredGone' /\ DueIsLine'
  BY <1>1, OnlyPlanner
<1>3. /\ inbox \in Seq(Goal) /\ Len(inbox) \in Nat \ {0} /\ goal' = inbox[1] /\ inbox[1] \in Goal
      /\ Len(inbox') = Len(inbox) - 1 /\ \A k \in 1..Len(inbox') : inbox'[k] = inbox[k + 1]
  <2>1. inbox \in Seq(Goal) /\ inbox # <<>>
    BY DEF IInv, TypeOK, TakeGoal
  <2> QED
    BY <2>1, TailFacts DEF TakeGoal
<1>4. Fresh(inbox[1]) /\ inbox[1] \in sent
  BY <1>3 DEF IInv, FreshGoals, Fresh
<1>5. /\ pc = "idle" /\ pc' = "thinking" /\ results' = <<>> /\ plan' = <<>> /\ awaited' = NoRequest
      /\ Len(results') = 0
  BY <1>1 DEF TakeGoal, IInv, Planner, Phases
<1>6. /\ \A n \in 1..MaxSteps : outcome[goal'][n] = "none"
      /\ \A i \in 1..Len(answers) : answers[i] # goal'
      /\ \A e \in Line : e[2].goal # goal'
      /\ \A reply \in replies : reply.request.goal # goal'
  BY <1>3, <1>4 DEF IInv, FreshGoals
<1>7. Planner'
  <2>1. Phases' /\ DoneSoFar' /\ ResultsAreOwn' /\ Alone'
    BY <1>3, <1>5, Constants DEF Phases, DoneSoFar, ResultsAreOwn, Alone
  <2>2. NotAhead'
    BY <1>1, <1>2, <1>6 DEF NotAhead
  <2> QED
    BY <2>1, <2>2 DEF Planner
<1>8. FreshGoals'
  <2>1. /\ \A i, j \in 1..Len(inbox') : i # j => inbox'[i] # inbox'[j]
        /\ \A i \in 1..Len(inbox') : inbox'[i] \in sent' /\ inbox'[i] # inbox[1]
    <3>1. /\ \A i, j \in 1..Len(inbox) : i # j => inbox[i] # inbox[j]
          /\ \A i \in 1..Len(inbox) : inbox[i] \in sent
      BY DEF IInv, FreshGoals
    <3>2. \A k \in 1..Len(inbox') :
            /\ k + 1 \in 1..Len(inbox) /\ 1 \in 1..Len(inbox) /\ k + 1 # 1
            /\ inbox'[k] = inbox[k + 1]
      BY <1>3
    <3>3. ASSUME NEW i \in 1..Len(inbox'), NEW j \in 1..Len(inbox'), i # j
          PROVE  inbox'[i] # inbox'[j]
      <4>1. i + 1 # j + 1
        BY <3>3
      <4> QED
        BY <3>1, <3>2, <4>1
    <3>4. ASSUME NEW i \in 1..Len(inbox')
          PROVE  inbox'[i] \in sent' /\ inbox'[i] # inbox[1]
      BY <1>1, <3>1, <3>2
    <3> QED
      BY <3>3, <3>4
  <2>2. ASSUME NEW h \in Goal, Fresh(h)'
        PROVE  Fresh(h) /\ h # goal'
    BY <1>1, <1>3, <1>4, <2>1, <2>2 DEF Fresh
  <2> QED
    BY <1>1, <1>2, <2>1, <2>2 DEF IInv, FreshGoals
<1> QED
  BY <1>2, <1>7, <1>8

\* What the executor has of the planner's goal.
LEMMA OwnRequests ==
  ASSUME IInv, goal \in Goal, NEW e \in Line, e[2].goal = goal
  PROVE  /\ e[2] \in Request /\ e[2].n \in Nat
         /\ e[2].n <= Reached /\ (e[2].n = 0 => e[2] = awaited)
<1>1. e[2] \in Request /\ e[2].n \in Nat
  <2>1. TypeOK
    BY DEF IInv
  <2> QED
    BY <2>1, LineType, Zenon
<1>2. e[2].n <= Reached /\ (e[2].n = 0 => e[2] = awaited)
  <2>1. NotAhead
    BY DEF IInv, Planner
  <2> QED
    BY <2>1 DEF NotAhead
<1> QED
  BY <1>1, <1>2

LEMMA ThinkStep ==
  ASSUME IInv, Think
  PROVE  Executor' /\ Planner' /\ FreshGoals' /\ AnsweredGone' /\ DueIsLine'
<1>1. /\ UNCHANGED <<inbox, queue, running, replies, sent, outcome, answers, due>>
      /\ pc = "thinking"
  BY DEF Think, executor
<1>2. Line' = Line /\ Executor' /\ AnsweredGone' /\ DueIsLine'
  BY <1>1, OnlyPlanner
<1>3. CASE Idle
  <2>1. Planner'
    BY <1>3, IdlePlanner DEF Idle
  <2>2. FreshGoals'
    BY <1>1, <1>2, <1>3, FreshKept DEF IInv, Idle
  <2> QED
    BY <1>2, <2>1, <2>2
<1>4. CASE pc' \in {"stepping", "reporting"} /\ UNCHANGED <<goal, results, awaited>>
  <2>1. results = <<>> /\ awaited = NoRequest /\ goal # Maintenance /\ Len(results) = 0
    BY <1>1 DEF IInv, Planner, Phases
  <2>2. Phases' /\ DoneSoFar' /\ ResultsAreOwn'
    BY <1>4, <2>1 DEF Phases, DoneSoFar, ResultsAreOwn
  <2>3. Reached' = 0 /\ Reached = 0
    BY <1>1, <1>4, <2>1 DEF Reached
  <2>4. NotAhead'
    BY <1>1, <1>2, <1>4, <2>1, <2>3 DEF IInv, Planner, NotAhead
  <2>5. Alone'
    <3>1. goal \in Goal
      BY <2>1 DEF IInv, TypeOK
    <3>2. ASSUME NEW e \in Line, e[2].goal = goal
          PROVE  e[2] = awaited
      <4>1. e[2].n \in Nat /\ e[2].n <= 0
        BY <2>3, <3>1, <3>2, OwnRequests
      <4> QED
        BY <3>1, <3>2, <4>1, OwnRequests
    <3> QED
      BY <1>2, <1>4, <3>2 DEF Alone
  <2>6. FreshGoals'
    BY <1>1, <1>2, <1>4, FreshKept DEF IInv
  <2> QED
    BY <1>2, <2>2, <2>4, <2>5, <2>6 DEF Planner
<1> QED
  BY <1>3, <1>4 DEF Think

LEMMA PlannerDiesStep ==
  ASSUME IInv, PlannerDies
  PROVE  Executor' /\ Planner' /\ FreshGoals' /\ AnsweredGone' /\ DueIsLine'
<1>1. /\ UNCHANGED <<queue, running, replies, sent, outcome, answers, due>>
      /\ pc' \in {"idle", "down"} /\ goal' = Maintenance /\ plan' = <<>> /\ results' = <<>>
      /\ awaited' = NoRequest /\ inbox' = <<>>
  BY DEF PlannerDies, executor
<1>2. Executor' /\ Planner' /\ AnsweredGone' /\ DueIsLine' /\ Line' = Line
  BY <1>1, LetsGo, OnlyPlanner
<1>3. FreshGoals'
  <2>1. Len(inbox') = 0
    BY <1>1
  <2>2. ASSUME NEW g \in Goal, Fresh(g)'
        PROVE  Fresh(g)
    BY <1>1, <2>1, <2>2 DEF Fresh
  <2> QED
    BY <1>1, <1>2, <2>1, <2>2, Constants DEF IInv, FreshGoals
<1> QED
  BY <1>2, <1>3

LEMMA PlannerRespawnsStep ==
  ASSUME IInv, PlannerRespawns
  PROVE  Executor' /\ Planner' /\ FreshGoals' /\ AnsweredGone' /\ DueIsLine'
<1>1. /\ UNCHANGED <<inbox, goal, plan, results, awaited, queue, running, replies, sent,
                     outcome, answers, due>>
      /\ pc' \in {"idle", "down"} /\ goal = Maintenance /\ plan = <<>> /\ results = <<>>
      /\ awaited = NoRequest
  BY DEF PlannerRespawns, executor, history, IInv, Planner, Phases
<1>2. Executor' /\ Planner' /\ AnsweredGone' /\ DueIsLine' /\ Line' = Line
  BY <1>1, LetsGo, OnlyPlanner
<1> QED
  BY <1>1, <1>2, FreshKept DEF IInv

-----------------------------------------------------------------------------
\* Steps and their results

\* A result is recorded: the step's own, or that there is none.
LEMMA RecordStep ==
  ASSUME IInv, pc \in {"stepping", "waiting"}, ~Over,
         UNCHANGED <<inbox, goal, plan, queue, running, sent, outcome, answers, due>>,
         replies' \subseteq replies,
         NEW r \in Result, Record(r),
         r # "error" => /\ outcome[goal][Len(results) + 1] = r
                        /\ \A e \in Line : e[2].goal # goal
  PROVE  Executor' /\ Planner' /\ FreshGoals' /\ AnsweredGone' /\ DueIsLine'
<1>1. Line' = Line /\ Executor' /\ AnsweredGone' /\ DueIsLine'
  BY OnlyPlanner
<1> DEFINE k == Len(results) + 1
<1>2. /\ results' \in Seq(Result) /\ Len(results') = k /\ Len(results) \in Nat
      /\ \A j \in 1..Len(results) : results'[j] = results[j]
      /\ results'[k] = r /\ awaited' = NoRequest /\ pc' = "stepping"
      /\ k \in 1..MaxSteps
  BY Recorded, Remaining DEF IInv
<1>3. goal \in Goal /\ goal # Maintenance
  BY Working DEF IInv, Planner, Phases
<1>4. Phases'
  BY <1>2, <1>3 DEF Phases
<1>5. \A j \in 1..Len(results) : results[j] = "done"
  <2>1. Len(results) \in 1..Len(results) => results[Len(results)] \in Result
    BY DEF IInv, TypeOK
  <2>2. Len(results) \in 1..Len(results) => results[Len(results)] = "done"
    BY <2>1 DEF Over, Result
  <2> QED
    BY <1>2, <2>2 DEF IInv, Planner, DoneSoFar
<1>6. DoneSoFar'
  BY <1>2, <1>5 DEF DoneSoFar
<1>7. Reached' = k /\ Reached \in {Len(results), k}
  BY <1>2 DEF Reached
<1>8. NotAhead'
  <2>1. \A n \in 1..MaxSteps : n > k => outcome[goal][n] = "none"
    BY <1>2, <1>3, <1>7, Constants DEF IInv, Planner, NotAhead
  <2>2. awaited = NoRequest \/ awaited.n = k
    BY DEF IInv, Planner, Phases
  <2>3. ASSUME NEW q \in Request, q.n = 0
        PROVE  q # awaited
    BY <1>2, <2>2, <2>3, Constants
  <2>4. ASSUME NEW e \in Line, e[2].goal = goal
        PROVE  e[2].n <= k /\ e[2].n # 0
    <3>1. e[2] \in Request /\ e[2].n \in Nat /\ e[2].n <= Reached
      BY <1>3, <2>4, OwnRequests
    <3> QED
      BY <1>2, <1>3, <1>7, <2>3, <2>4, <3>1, OwnRequests
  <2>5. ASSUME NEW reply \in replies, reply.request.goal = goal
        PROVE  reply.request.n <= k /\ reply.request.n # 0
    <3>1. reply.request \in Request /\ reply.request.n \in Nat /\ reply.request.n <= Reached
      BY <1>3, <2>5, Constants DEF IInv, TypeOK, Request, Planner, NotAhead
    <3> QED
      BY <1>2, <1>3, <1>7, <2>3, <2>5, <3>1 DEF IInv, Planner, NotAhead
  <2>6. \A i \in 1..Len(answers) : answers[i] # goal
    BY <1>3 DEF IInv, Planner, NotAhead
  <2> QED
    BY <1>1, <1>7, <2>1, <2>4, <2>5, <2>6 DEF NotAhead
<1>9. Alone'
  <2>1. CASE r = "error"
    <3>1. results' # <<>> /\ results'[Len(results')] = "error"
      BY <1>2, <2>1
    <3> QED
      BY <3>1 DEF Alone, Over
  <2>2. CASE r # "error"
    BY <1>1, <2>2 DEF Alone
  <2> QED
    BY <2>1, <2>2
<1>10. ResultsAreOwn'
  BY <1>2 DEF IInv, Planner, ResultsAreOwn
<1>11. FreshGoals'
  BY <1>1, FreshKept DEF IInv
<1> QED
  BY <1>1, <1>4, <1>6, <1>8, <1>9, <1>10, <1>11 DEF Planner

LEMMA StepReplyStep ==
  ASSUME IInv, StepReply
  PROVE  Executor' /\ Planner' /\ FreshGoals' /\ AnsweredGone' /\ DueIsLine'
<1>1. PICK reply \in replies :
        reply.request = awaited /\ replies' = replies \ {reply} /\ Record(reply.result)
  BY DEF StepReply, Awaited
<1>2. pc = "waiting" /\ ~Over /\ awaited = [goal |-> goal, n |-> Len(results) + 1]
  BY DEF StepReply, IInv, Planner, Phases
<1>3. reply.result \in Result
  BY DEF IInv, TypeOK
<1>4. outcome[goal][Len(results) + 1] = reply.result
  <2>1. Len(results) + 1 > 0
    BY <1>2, Remaining DEF IInv
  <2> QED
    BY <1>1, <1>2, <2>1 DEF IInv, Executor, RepliesAreTrue
<1>5. \A e \in Line : e[2].goal # goal
  BY <1>1, <1>2 DEF IInv, Executor, RepliesAreTrue, Planner, Alone
<1>6. UNCHANGED <<inbox, goal, plan, queue, running, sent, outcome, answers, due>>
  BY DEF StepReply, executor, history
<1>7. replies' \subseteq replies
  BY <1>1
<1> QED
  BY <1>1, <1>2, <1>3, <1>4, <1>5, <1>6, <1>7, RecordStep

LEMMA StepTimeoutStep ==
  ASSUME IInv, StepTimeout
  PROVE  Executor' /\ Planner' /\ FreshGoals' /\ AnsweredGone' /\ DueIsLine'
<1>1. pc = "waiting" /\ ~Over /\ Record("error") /\ "error" \in Result
  BY DEF StepTimeout, GiveUp, IInv, Planner, Phases, Result
<1>2. UNCHANGED <<inbox, goal, plan, queue, running, replies, sent, outcome, answers, due>>
  BY DEF StepTimeout, executor, history
<1> QED
  BY <1>1, <1>2, RecordStep

LEMMA NextStepStep ==
  ASSUME IInv, NextStep
  PROVE  Executor' /\ Planner' /\ FreshGoals' /\ AnsweredGone' /\ DueIsLine'
<1> DEFINE k == Len(results) + 1
           r == [goal |-> goal, n |-> k]
<1>1. /\ pc = "stepping" /\ ~Over
      /\ UNCHANGED <<inbox, goal, plan, running, replies, sent, outcome, answers, due>>
  BY DEF NextStep, history
<1>2. CASE Record("error") /\ UNCHANGED queue
  BY <1>1, <1>2, RecordStep DEF Result
<1>3. CASE Call(r) /\ pc' = "waiting" /\ UNCHANGED results
  <2>1. goal \in Goal /\ goal # Maintenance /\ awaited = NoRequest
    BY <1>1, Working DEF IInv, Planner, Phases
  <2>2. k \in 1..MaxSteps /\ Len(results) \in Nat /\ k > 0
    BY <1>1, Remaining DEF IInv
  <2>3. r \in Request /\ r.goal = goal /\ r.n = k
    BY <2>1, <2>2, Constants DEF Request
  <2>4. queue' = Append(queue, r) /\ awaited' = r
    BY <1>3, Zenon DEF Call
  <2>5. /\ Line' = Line \cup {<<Len(queue) + 1, r>>}
        /\ \A e \in Line : e[1] < Len(queue) + 1
        /\ Len(queue) \in Nat
    BY <1>1, <2>3, <2>4, LineCall DEF IInv, TypeOK
  <2>6. \A e \in Line : e[2].goal # goal
    BY <1>1, <2>1, LineType, Constants DEF IInv, Planner, Alone
  <2>7. Reached = Len(results) /\ Reached' = k
    BY <1>1, <1>3, <2>2 DEF Reached
  <2>8. /\ outcome[goal][k] = "none" /\ \A n \in 1..MaxSteps : n > k => outcome[goal][n] = "none"
        /\ \A reply \in replies : reply.request.goal = goal =>
             reply.request.n <= Len(results) /\ reply.request.n # 0
        /\ \A i \in 1..Len(answers) : answers[i] # goal
    <3>1. \A reply \in replies : reply.request \in Request
      BY DEF IInv, TypeOK
    <3> QED
      BY <1>1, <2>1, <2>2, <2>7, <3>1, Constants DEF IInv, Planner, NotAhead
  <2>9. \A m \in 1..(k - 1) : outcome[goal][m] = "done"
    <3>1. \A j \in 1..Len(results) : results[j] \in Result
      BY DEF IInv, TypeOK
    <3>2. \A j \in 1..Len(results) : results[j] = "done"
      BY <1>1, <2>2, <3>1 DEF Over, Result, IInv, Planner, DoneSoFar
    <3> QED
      BY <2>2, <3>2 DEF IInv, Planner, ResultsAreOwn
  <2> HIDE DEF r
  <2>10. Executor'
    <3>1. StepThenReport'
      BY <2>3, <2>5, <2>6, LineType DEF IInv, Executor, StepThenReport
    <3>2. InTurn'
      <4>1. \A e \in Line' : e \in Line \/ (e[1] # 0 /\ e[2] = r)
        BY <2>5
      <4>2. /\ \A m \in 1..(r.n - 1) : outcome'[r.goal][m] = "done"
            /\ outcome'[r.goal][r.n] = "none"
        BY <1>1, <2>3, <2>8, <2>9
      <4> QED
        BY <1>1, <4>1, <4>2 DEF IInv, Executor, InTurn
    <3>3. RepliesAreTrue'
      <4>1. \A reply \in replies : r # reply.request
        BY <2>2, <2>3, <2>8
      <4> QED
        BY <1>1, <2>5, <4>1 DEF IInv, Executor, RepliesAreTrue
    <3>4. StepsInOrder'
      BY <1>1 DEF IInv, Executor, StepsInOrder
    <3> QED
      BY <3>1, <3>2, <3>3, <3>4 DEF Executor
  <2>11. Planner'
    <3>1. Phases'
      BY <1>1, <1>3, <2>1, <2>4 DEF Phases, Over, r
    <3>2. DoneSoFar' /\ ResultsAreOwn'
      BY <1>1, <1>3 DEF IInv, Planner, DoneSoFar, ResultsAreOwn
    <3>3. \A e \in Line' : e[2].goal = goal => e[2] = r
      BY <2>5, <2>6
    <3>4. NotAhead'
      <4>1. \A n \in 1..MaxSteps : n > k => outcome'[goal'][n] = "none"
        BY <1>1, <2>8
      <4>2. \A e \in Line' : e[2].goal = goal' =>
              e[2].n <= k /\ (e[2].n = 0 => e[2] = awaited')
        BY <1>1, <2>2, <2>3, <2>4, <3>3
      <4>3. \A reply \in replies' : reply.request.goal = goal' =>
              reply.request.n <= k /\ reply.request.n # 0
        <5>1. \A reply \in replies : reply.request.n \in Int
          BY Constants DEF IInv, TypeOK, Request
        <5> QED
          BY <1>1, <2>2, <2>8, <5>1
      <4> QED
        BY <1>1, <2>7, <2>8, <4>1, <4>2, <4>3 DEF NotAhead
    <3>5. Alone'
      BY <1>1, <2>4, <3>3 DEF Alone
    <3> QED
      BY <3>1, <3>2, <3>4, <3>5 DEF Planner
  <2>12. FreshGoals'
    <3>1. \A g : Fresh(g)' <=> Fresh(g)
      BY <1>1 DEF Fresh
    <3> QED
      BY SMTT(30), <1>1, <2>3, <2>5, <3>1 DEF IInv, FreshGoals
  <2>13. AnsweredGone'
    BY <1>1, <2>3, <2>5, <2>8 DEF IInv, AnsweredGone
  <2>14. DueIsLine'
    <3>1. \A e \in Line' : e[2].n = 0 => e \in Line
      BY <2>2, <2>3, <2>5
    <3>2. Line \subseteq Line'
      BY <2>5
    <3> QED
      BY <1>1, <3>1, <3>2 DEF IInv, DueIsLine
  <2> QED
    BY <2>10, <2>11, <2>12, <2>13, <2>14
<1> QED
  BY <1>2, <1>3 DEF NextStep

-----------------------------------------------------------------------------
\* The report

LEMMA WriteAnswerStep ==
  ASSUME IInv, WriteAnswer
  PROVE  Executor' /\ Planner' /\ FreshGoals' /\ AnsweredGone' /\ DueIsLine'
<1>1. /\ UNCHANGED <<inbox, goal, plan, results, awaited, queue, running, replies, sent,
                     outcome, answers, due>>
      /\ pc = "stepping" /\ pc' = "reporting" /\ awaited = NoRequest /\ goal # Maintenance
  BY DEF WriteAnswer, executor, history, IInv, Planner, Phases
<1>2. Line' = Line /\ Executor' /\ AnsweredGone' /\ DueIsLine'
  BY <1>1, OnlyPlanner
<1>3. Phases' /\ DoneSoFar' /\ ResultsAreOwn' /\ Alone'
  BY <1>1 DEF IInv, Planner, Phases, DoneSoFar, ResultsAreOwn, Alone
<1>4. NotAhead'
  <2>1. Reached' = Reached
    BY <1>1 DEF Reached
  <2> QED
    BY <1>1, <1>2, <2>1 DEF IInv, Planner, NotAhead
<1>5. FreshGoals'
  BY <1>1, <1>2, FreshKept DEF IInv
<1> QED
  BY <1>2, <1>3, <1>4, <1>5 DEF Planner

\* The planner leaves its goal to the executor, or with the response.
LEMMA LeaveStep ==
  ASSUME IInv, ReportReply \/ ReportTimeout
  PROVE  Executor' /\ Planner' /\ FreshGoals' /\ AnsweredGone' /\ DueIsLine'
<1>1. /\ UNCHANGED <<inbox, queue, running, sent, outcome, answers, due>>
      /\ replies' \subseteq replies /\ Idle
  BY DEF ReportReply, ReportTimeout, executor, history
<1>2. Executor' /\ Planner' /\ AnsweredGone' /\ DueIsLine' /\ Line' = Line
  BY <1>1, LetsGo, OnlyPlanner DEF Idle
<1> QED
  BY <1>1, <1>2, FreshKept DEF IInv, Idle

LEMMA AskReportStep ==
  ASSUME IInv, AskReport
  PROVE  Executor' /\ Planner' /\ FreshGoals' /\ AnsweredGone' /\ DueIsLine'
<1> DEFINE r == [goal |-> goal, n |-> 0]
<1>1. /\ pc = "reporting" /\ awaited = NoRequest
      /\ UNCHANGED <<inbox, running, replies, sent, outcome, answers>>
  BY DEF AskReport
<1>2. CASE Idle /\ UNCHANGED <<queue, due>>
  <2>1. Executor' /\ Planner' /\ AnsweredGone' /\ DueIsLine' /\ Line' = Line
    BY <1>1, <1>2, LetsGo, OnlyPlanner DEF Idle
  <2> QED
    BY <1>1, <1>2, <2>1, FreshKept DEF IInv, Idle
<1>3. CASE Call(r) /\ due' = Append(due, goal) /\ UNCHANGED <<pc, goal, plan, results>>
  <2>1. goal \in Goal /\ goal # Maintenance
    BY <1>1, Working DEF IInv, Planner, Phases
  <2>2. r \in Request /\ r.goal = goal /\ r.n = 0
    BY <2>1, Constants DEF Request
  <2>3. queue' = Append(queue, r) /\ awaited' = r
    BY <1>3, Zenon DEF Call
  <2>4. /\ Line' = Line \cup {<<Len(queue) + 1, r>>}
        /\ \A e \in Line : e[1] < Len(queue) + 1 /\ e[1] \in Nat
        /\ Len(queue) \in Nat
    <3>1. TypeOK /\ Len(queue) \in Nat
      BY DEF IInv, TypeOK
    <3>2. \A e \in Line : e[1] \in Nat
      BY <3>1, LineType, Zenon
    <3>3. Line' = Line \cup {<<Len(queue) + 1, r>>} /\ \A e \in Line : e[1] < Len(queue) + 1
      BY <1>1, <2>2, <2>3, <3>1, LineCall
    <3> QED
      BY <3>1, <3>2, <3>3
  <2>5. \A e \in Line : e[2].goal = goal => e[2].n > 0
    <3>1. ASSUME NEW e \in Line, e[2].goal = goal
          PROVE  e[2].n \in Nat /\ e[2].n # 0
      BY <1>1, <2>1, <3>1, OwnRequests, Constants
    <3> QED
      BY <3>1
  <2>6. /\ \A reply \in replies : reply.request.goal = goal => reply.request.n # 0
        /\ \A i \in 1..Len(answers) : answers[i] # goal
    <3>1. \A reply \in replies : reply.request \in Request
      BY DEF IInv, TypeOK
    <3> QED
      BY <1>1, <2>1, <3>1, Constants DEF IInv, Planner, NotAhead
  <2> HIDE DEF r
  <2>7. Executor'
    <3>1. StepThenReport'
      BY <2>2, <2>4, <2>5 DEF IInv, Executor, StepThenReport
    <3>2. InTurn'
      BY <1>1, <2>2, <2>4 DEF IInv, Executor, InTurn
    <3>3. RepliesAreTrue'
      <4>1. \A reply \in replies : r # reply.request
        BY <2>2, <2>6
      <4> QED
        BY <1>1, <2>4, <4>1 DEF IInv, Executor, RepliesAreTrue
    <3>4. StepsInOrder'
      BY <1>1 DEF IInv, Executor, StepsInOrder
    <3> QED
      BY <3>1, <3>2, <3>3, <3>4 DEF Executor
  <2>8. Planner'
    <3>1. Phases' /\ DoneSoFar' /\ ResultsAreOwn' /\ Alone'
      <4>1. Phases'
        BY <1>1, <1>3, <2>1, <2>3 DEF Phases, r
      <4> QED
        BY <1>1, <1>3, <4>1 DEF IInv, Planner, DoneSoFar, ResultsAreOwn, Alone
    <3>2. Reached' = Reached /\ Reached \in Nat
      BY <1>1, <1>3 DEF Reached, IInv, TypeOK
    <3>3. \A n \in 1..MaxSteps : n > Reached => outcome[goal][n] = "none"
      BY <2>1 DEF IInv, Planner, NotAhead
    <3>4. \A e \in Line : e[2].goal = goal => e[2].n <= Reached /\ e[2].n # 0
      BY <2>1, <2>5, OwnRequests
    <3>5. \A e \in Line' : e[2].goal = goal => e[2].n <= Reached /\ (e[2].n = 0 => e[2] = r)
      BY <2>2, <2>4, <3>2, <3>4
    <3>6. \A reply \in replies : reply.request.goal = goal =>
            reply.request.n <= Reached /\ reply.request.n # 0
      BY <2>1, <2>6 DEF IInv, Planner, NotAhead
    <3>7. NotAhead'
      BY <1>1, <1>3, <2>3, <2>6, <3>2, <3>3, <3>5, <3>6 DEF NotAhead
    <3> QED
      BY <3>1, <3>7 DEF Planner
  <2>9. FreshGoals'
    <3>1. \A g : Fresh(g)' <=> Fresh(g)
      BY <1>1 DEF Fresh
    <3> QED
      BY <1>1, <1>3, <2>2, <2>4, <3>1 DEF IInv, FreshGoals
  <2>10. AnsweredGone'
    BY <1>1, <2>2, <2>4, <2>6 DEF IInv, AnsweredGone
  <2>11. DueIsLine'
    <3> DEFINE new == <<Len(queue) + 1, r>>
    <3>1. /\ due \in Seq(Goal) /\ Len(due) \in Nat /\ Len(due') = Len(due) + 1
          /\ due'[Len(due) + 1] = goal /\ \A k \in 1..Len(due) : due'[k] = due[k]
      BY <1>3, <2>1, AppendFacts DEF IInv, TypeOK
    <3>2. \A e \in Line : e[2] # r
      BY <2>2, <2>5
    <3>3. \A k \in 1..Len(due) : due[k] # goal
      BY <3>2 DEF IInv, DueIsLine, r
    <3>4. \A k \in 1..Len(due') : \E e \in Line' : e[2] = [goal |-> due'[k], n |-> 0]
      <4>1. \A k \in 1..Len(due) : \E e \in Line' : e[2] = [goal |-> due'[k], n |-> 0]
        BY <2>4, <3>1 DEF IInv, DueIsLine
      <4>2. new \in Line' /\ new[2] = [goal |-> due'[Len(due) + 1], n |-> 0]
        BY <2>4, <3>1 DEF r
      <4> QED
        BY <3>1, <4>1, <4>2
    <3>5. \A e \in Line' : e[2].n = 0 => \E k \in 1..Len(due') : due'[k] = e[2].goal
      <4>1. \A e \in Line : e[2].n = 0 => \E k \in 1..Len(due') : due'[k] = e[2].goal
        BY <3>1 DEF IInv, DueIsLine
      <4>2. due'[Len(due) + 1] = r.goal /\ Len(due) + 1 \in 1..Len(due')
        BY <2>2, <3>1
      <4> QED
        BY <2>4, <4>1, <4>2
    <3>6. ASSUME NEW k \in 1..Len(due'), NEW l \in 1..Len(due'), NEW e \in Line', NEW f \in Line',
                 k < l, e[2] = [goal |-> due'[k], n |-> 0], f[2] = [goal |-> due'[l], n |-> 0]
          PROVE  e[1] < f[1]
      <4>1. k \in 1..Len(due) /\ due'[k] = due[k] /\ due[k] # goal
        BY <3>1, <3>3, <3>6
      <4>2. e \in Line
        <5>1. e[2].goal # goal
          BY <3>6, <4>1
        <5> QED
          BY <2>2, <2>4, <5>1
      <4>3. CASE l = Len(due) + 1
        <5>1. f[2].goal = goal /\ f[2].n = 0
          BY <3>1, <3>6, <4>3
        <5>2. f = new
          BY <2>4, <2>5, <5>1
        <5> QED
          BY <2>4, <4>2, <5>2
      <4>4. CASE l \in 1..Len(due)
        <5>1. due'[l] = due[l] /\ due[l] # goal
          BY <3>1, <3>3, <4>4
        <5>2. f \in Line
          <6>1. f[2].goal # goal
            BY <3>6, <5>1
          <6> QED
            BY <2>2, <2>4, <6>1
        <5> QED
          BY <3>6, <4>1, <4>2, <4>4, <5>1, <5>2 DEF IInv, DueIsLine
      <4> QED
        BY <3>1, <4>3, <4>4
    <3> QED
      BY <3>4, <3>5, <3>6 DEF DueIsLine
  <2> QED
    BY <2>7, <2>8, <2>9, <2>10, <2>11
<1> QED
  BY <1>2, <1>3 DEF AskReport

-----------------------------------------------------------------------------
\* The executor

\* Skills run one at a time: the only fate that changes is that of the request
\* served or finished, and it was not yet done.
LEMMA OutcomeStep ==
  ASSUME IInv, Serve \/ Finish
  PROVE  /\ \A g \in Goal : \A n \in 1..MaxSteps :
              \/ outcome'[g][n] = outcome[g][n]
              \/ \E e \in Line : /\ e[2].goal = g /\ e[2].n = n /\ e[1] = (IF Serve THEN 1 ELSE 0)
                                 /\ outcome[g][n] \in {"none", "running"}
<1> DEFINE at == IF Serve THEN 1 ELSE 0
           r == IF Serve THEN queue[1] ELSE running
<1> USE DEF IInv
<1>1. CASE outcome' = outcome
  BY <1>1
<1>2. CASE outcome' # outcome
  <2>1. r \in Request /\ r.n > 0 /\ <<at, r>> \in Line
    <3>1. CASE Serve
      <4>1. IsStep(queue[1]) /\ queue \in Seq(Request \cup {SaveRequest}) /\ queue # <<>>
        BY <1>2, <3>1, ServeTakesFirst DEF TypeOK
      <4>2. queue[1] \in Request \cup {SaveRequest} /\ 1 \in 1..Len(queue)
        BY <4>1, TailFacts
      <4>3. queue[1] \in Request /\ queue[1].n > 0
        BY <4>1, <4>2 DEF IsStep, SaveRequest, Request
      <4> QED
        BY <3>1, <4>2, <4>3 DEF Line
    <3>2. CASE ~Serve
      <4>1. IsStep(running)
        BY <1>2, <3>2, Zenon DEF Finish
      <4>2. running \in Request /\ running.n > 0
        BY <4>1 DEF TypeOK, IsStep, SaveRequest, Request
      <4> QED
        BY <3>2, <4>2 DEF Line
    <3> QED
      BY <3>1, <3>2
  <2>2. \E v \in Result \cup {"none", "running"} : outcome' = [outcome EXCEPT ![r.goal][r.n] = v]
    <3>1. CASE Serve
      <4>1. outcome' = [outcome EXCEPT ![queue[1].goal][queue[1].n] = "running"]
        BY <1>2, <3>1, ServeTakesFirst
      <4> QED
        BY <3>1, <4>1
    <3>2. CASE ~Serve
      <4>1. \E v \in Result : outcome' = [outcome EXCEPT ![running.goal][running.n] = v]
        BY <1>2, <3>2, Zenon DEF Finish
      <4> QED
        BY <3>2, <4>1
    <3> QED
      BY <3>1, <3>2
  <2> DEFINE e == <<at, r>>
  <2>3. outcome[r.goal][r.n] \in {"none", "running"}
    <3>1. e \in Line /\ e[2] = r
      BY <2>1
    <3> HIDE DEF e, r, at
    <3> QED
      BY <2>1, <3>1 DEF Executor, InTurn
  <2>4. e \in Line /\ e[1] = at /\ e[2] = r
    BY <2>1
  <2> HIDE DEF e, r
  <2> QED
    BY <2>1, <2>2, <2>3, <2>4, Mark
<1> QED
  BY <1>1, <1>2

\* What follows whichever fate it is.
LEMMA OutcomeKeeps ==
  ASSUME IInv, Serve \/ Finish, UNCHANGED planner
  PROVE  /\ StepsInOrder' /\ ResultsAreOwn'
         /\ \A g \in Goal : \A n \in 1..MaxSteps : outcome[g][n] = "done" => outcome'[g][n] = "done"
         /\ \A reply \in replies : reply.request.n > 0 =>
              outcome'[reply.request.goal][reply.request.n] = reply.result
         /\ goal \in Goal => \A n \in 1..MaxSteps : n > Reached => outcome'[goal][n] = "none"
         /\ \A g \in Goal : Fresh(g) => \A n \in 1..MaxSteps : outcome'[g][n] = "none"
<1>1. \A g \in Goal : \A n \in 1..MaxSteps : outcome[g][n] = "done" => outcome'[g][n] = "done"
  BY OutcomeStep
<1>2. StepsInOrder'
  <2>1. ASSUME NEW g \in Goal, NEW n \in 1..MaxSteps, outcome'[g][n] # "none"
        PROVE  \A m \in 1..(n - 1) : outcome[g][m] = "done"
    <3>1. CASE outcome'[g][n] = outcome[g][n]
      BY <2>1, <3>1 DEF IInv, Executor, StepsInOrder
    <3>2. CASE \E e \in Line : e[2].goal = g /\ e[2].n = n
      BY <3>2 DEF IInv, Executor, InTurn
    <3> QED
      BY <3>1, <3>2, OutcomeStep
  <2> QED
    BY <1>1, <2>1, Constants DEF StepsInOrder
<1>3. ResultsAreOwn'
  <2>1. ASSUME NEW n \in 1..Len(results), results[n] # "error"
        PROVE  outcome'[goal][n] = results[n]
    <3>1. outcome[goal][n] = results[n] /\ results[n] = "done"
      BY <2>1 DEF IInv, TypeOK, Result, Planner, ResultsAreOwn
    <3>2. goal \in Goal
      <4>1. Len(results) # 0
        BY <2>1
      <4>2. results # <<>>
        BY <4>1
      <4> QED
        BY <4>2, Working DEF IInv, Planner, Phases
    <3>3. n \in 1..MaxSteps
      <4>1. Len(results) <= Len(plan) /\ Len(plan) \in 0..MaxSteps /\ Len(results) \in Nat
        BY PlanFacts DEF IInv, TypeOK
      <4> QED
        BY <4>1, Constants
    <3> QED
      BY <1>1, <3>1, <3>2, <3>3
  <2> QED
    BY <2>1 DEF ResultsAreOwn, planner
<1>4. ASSUME NEW reply \in replies, reply.request.n > 0
      PROVE  outcome'[reply.request.goal][reply.request.n] = reply.result
  <2>1. reply.request \in Request
    BY DEF IInv, TypeOK
  <2>2. reply.request.goal \in Goal /\ reply.request.n \in 1..MaxSteps
    BY <1>4, <2>1, Constants DEF Request
  <2>3. \A e \in Line : ~(e[2].goal = reply.request.goal /\ e[2].n = reply.request.n)
    <3>1. \A e \in Line : e[2] \in Request
      BY LineType, Zenon DEF IInv
    <3>2. \A e \in Line : e[2] # reply.request
      BY DEF IInv, Executor, RepliesAreTrue
    <3> QED
      BY <2>1, <3>1, <3>2 DEF Request
  <2>4. outcome[reply.request.goal][reply.request.n] = reply.result
    BY <1>4 DEF IInv, Executor, RepliesAreTrue
  <2> QED
    BY <2>2, <2>3, <2>4, OutcomeStep
<1>5. ASSUME goal \in Goal, NEW n \in 1..MaxSteps, n > Reached
      PROVE  outcome'[goal][n] = "none"
  <2>1. \A e \in Line : ~(e[2].goal = goal /\ e[2].n = n)
    <3>1. Reached \in Int
      BY DEF Reached, IInv, TypeOK
    <3> QED
      BY <1>5, <3>1, OwnRequests
  <2>2. outcome[goal][n] = "none"
    BY <1>5 DEF IInv, Planner, NotAhead
  <2> QED
    BY <1>5, <2>1, <2>2, OutcomeStep
<1>6. ASSUME NEW g \in Goal, Fresh(g), NEW n \in 1..MaxSteps
      PROVE  outcome'[g][n] = "none"
  BY <1>6, OutcomeStep DEF IInv, FreshGoals
<1> QED
  BY <1>1, <1>2, <1>3, <1>4, <1>5, <1>6

LEMMA ServeStep ==
  ASSUME IInv, Serve
  PROVE  Executor' /\ Planner' /\ FreshGoals' /\ AnsweredGone' /\ DueIsLine'
<1>1. UNCHANGED <<inbox, planner, replies, sent, answers, due>>
  BY DEF Serve
<1>2. TypeOK
  BY DEF IInv
<1>3. \A e \in Line : e[1] > 0 /\ e[1] \in Nat /\ <<e[1] - 1, e[2]>> \in Line'
  BY <1>2, LineServe, LineType, Zenon
<1>4. \A e \in Line' : <<e[1] + 1, e[2]>> \in Line /\ e[1] \in Nat
  <2>1. \A e \in Line' : <<e[1] + 1, e[2]>> \in Line
    BY <1>2, LineServe
  <2>2. \A e \in Line' : e[1] \in Nat
    BY DEF Line
  <2> QED
    BY <2>1, <2>2
<1>5. \A e \in Line' : \E f \in Line : f[1] = e[1] + 1 /\ f[2] = e[2] /\ e[1] \in Nat
  BY <1>4
<1>6. Executor'
  <2>1. StepThenReport'
    <3>1. ASSUME NEW e \in Line', NEW f \in Line', e[1] < f[1], e[2].goal = f[2].goal
          PROVE  e[2].n > 0 /\ f[2].n = 0
      <4>1. PICK d \in Line : d[1] = e[1] + 1 /\ d[2] = e[2] /\ e[1] \in Nat
        BY <1>5
      <4>2. PICK h \in Line : h[1] = f[1] + 1 /\ h[2] = f[2] /\ f[1] \in Nat
        BY <1>5
      <4>3. d[1] < h[1]
        BY <3>1, <4>1, <4>2
      <4> QED
        BY <3>1, <4>1, <4>2, <4>3 DEF IInv, Executor, StepThenReport
    <3> QED
      BY <3>1 DEF StepThenReport
  <2>2. InTurn'
    <3>1. ASSUME NEW e \in Line', e[2].n > 0
          PROVE  /\ \A m \in 1..(e[2].n - 1) : outcome'[e[2].goal][m] = "done"
                 /\ outcome'[e[2].goal][e[2].n] = (IF e[1] = 0 THEN "running" ELSE "none")
      <4>1. PICK f \in Line : f[1] = e[1] + 1 /\ f[2] = e[2] /\ e[1] \in Nat
        BY <1>5
      <4>2. /\ e[2] \in Request /\ e[2].goal \in Goal /\ e[2].n \in 1..MaxSteps
            /\ \A m \in 1..(e[2].n - 1) : m \in 1..MaxSteps
        BY <1>2, <3>1, <4>1, LineSteps
      <4>3. \A m \in 1..(e[2].n - 1) : outcome[e[2].goal][m] = "done"
        BY <3>1, <4>1 DEF IInv, Executor, InTurn
      <4>4. \A m \in 1..(e[2].n - 1) : outcome'[e[2].goal][m] = "done"
        BY <1>1, <4>2, <4>3, OutcomeKeeps
      <4>5. outcome[e[2].goal][e[2].n] = "none"
        BY <3>1, <4>1 DEF IInv, Executor, InTurn
      <4>6. CASE e[1] = 0
        <5>1. e[2] = queue[1]
          BY <4>1, <4>6 DEF Line
        <5>2. IsStep(queue[1])
          BY <3>1, <4>2, <5>1, Constants DEF IsStep
        <5>3. outcome' = [outcome EXCEPT ![e[2].goal][e[2].n] = "running"]
          BY <1>2, <5>1, <5>2, ServeTakesFirst
        <5>4. outcome'[e[2].goal][e[2].n] = "running"
          BY <1>2, <3>1, <4>2, <5>3, Mark
        <5> QED
          BY <4>4, <4>6, <5>4
      <4>7. CASE e[1] # 0
        <5>1. ~\E d \in Line : d[2].goal = e[2].goal /\ d[2].n = e[2].n /\ d[1] = 1
          <6>1. ASSUME NEW d \in Line, d[2].goal = e[2].goal, d[1] = 1
                PROVE  FALSE
            <7>1. d[1] < f[1] /\ d[2].goal = f[2].goal
              BY <4>1, <4>7, <6>1
            <7>2. f[2].n = 0
              BY <7>1 DEF IInv, Executor, StepThenReport
            <7> QED
              BY <3>1, <4>1, <7>2
          <6> QED
            BY <6>1
        <5>2. outcome'[e[2].goal][e[2].n] = outcome[e[2].goal][e[2].n]
          BY <4>2, <5>1, OutcomeStep
        <5> QED
          BY <4>4, <4>5, <4>7, <5>2
      <4> QED
        BY <4>6, <4>7
    <3> QED
      BY <3>1 DEF InTurn
  <2>3. RepliesAreTrue'
    <3>1. \A reply \in replies : \A e \in Line' : e[2] # reply.request
      BY <1>5 DEF IInv, Executor, RepliesAreTrue
    <3> QED
      BY <1>1, <3>1, OutcomeKeeps DEF RepliesAreTrue
  <2> QED
    BY <1>1, <2>1, <2>2, <2>3, OutcomeKeeps DEF Executor
<1>7. Planner'
  <2>1. Phases' /\ DoneSoFar'
    BY <1>1 DEF IInv, Planner, Phases, DoneSoFar, Over, planner
  <2>2. Reached' = Reached
    BY <1>1 DEF Reached, planner
  <2>3. NotAhead'
    BY <1>1, <1>5, <2>2, OutcomeKeeps DEF IInv, Planner, NotAhead, planner
  <2>4. Alone'
    BY <1>1, <1>5 DEF IInv, Planner, Alone, Over, planner
  <2> QED
    BY <1>1, <2>1, <2>3, <2>4, OutcomeKeeps DEF Planner
<1>8. FreshGoals'
  <2>1. \A g : Fresh(g)' <=> Fresh(g)
    BY <1>1 DEF Fresh
  <2>2. goal' = goal
    BY <1>1 DEF planner
  <2> QED
    BY <1>1, <1>5, <2>1, <2>2, OutcomeKeeps DEF IInv, FreshGoals
<1>9. AnsweredGone'
  BY <1>1, <1>5 DEF IInv, AnsweredGone
<1>10. DueIsLine'
  <2>1. \A k \in 1..Len(due) : \E e \in Line' : e[2] = [goal |-> due[k], n |-> 0]
    <3>1. \A e \in Line : \E f \in Line' : f[2] = e[2]
      BY <1>3
    <3> QED
      BY <3>1 DEF IInv, DueIsLine
  <2>2. \A e \in Line' : e[2].n = 0 => \E k \in 1..Len(due) : due[k] = e[2].goal
    BY <1>5 DEF IInv, DueIsLine
  <2>3. ASSUME NEW k \in 1..Len(due), NEW l \in 1..Len(due), NEW e \in Line', NEW f \in Line',
               k < l, e[2] = [goal |-> due[k], n |-> 0], f[2] = [goal |-> due[l], n |-> 0]
        PROVE  e[1] < f[1]
    <3>1. PICK d \in Line : d[1] = e[1] + 1 /\ d[2] = e[2] /\ e[1] \in Nat
      BY <1>5
    <3>2. PICK h \in Line : h[1] = f[1] + 1 /\ h[2] = f[2] /\ f[1] \in Nat
      BY <1>5
    <3>3. d[1] < h[1]
      BY <2>3, <3>1, <3>2 DEF IInv, DueIsLine
    <3> QED
      BY <3>1, <3>2, <3>3
  <2> QED
    BY <1>1, <2>1, <2>2, <2>3 DEF DueIsLine
<1> QED
  BY <1>6, <1>7, <1>8, <1>9, <1>10

LEMMA FinishStep ==
  ASSUME IInv, Finish
  PROVE  Executor' /\ Planner' /\ FreshGoals' /\ AnsweredGone' /\ DueIsLine'
<1>1. UNCHANGED <<inbox, planner, queue, sent>> /\ running # NoRequest
  BY DEF Finish
<1>2. TypeOK
  BY DEF IInv
<1>3. Line' = {e \in Line : e[1] > 0} /\ \A e \in Line : e[1] \in Nat
  BY <1>2, LineFinish, LineType, Zenon
<1>4. PICK res \in Result :
        /\ replies' = IF running = SaveRequest THEN replies
                      ELSE replies \cup {[request |-> running, result |-> res]}
        /\ outcome' = IF IsStep(running)
                      THEN [outcome EXCEPT ![running.goal][running.n] = res] ELSE outcome
  BY Zenon DEF Finish
<1>5. running = SaveRequest \/ running \in Request
  BY <1>1, <1>2 DEF TypeOK
<1> DEFINE d == <<0, running>>
<1>6. running \in Request => d \in Line /\ d[1] = 0 /\ d[2] = running
  BY DEF Line
<1> HIDE DEF d
\* Nothing else of that goal is left but its report.
<1>7. running \in Request => \A e \in Line' : e[2].goal = running.goal => running.n > 0 /\ e[2].n = 0
  BY <1>3, <1>6 DEF IInv, Executor, StepThenReport
<1>8. running.goal \in Goal /\ running.n = 0 => running \in Request
  BY <1>5, Constants DEF SaveRequest
<1>9. /\ running.goal \in Goal /\ running.n = 0 =>
           answers' = Append(answers, running.goal) /\ due' = Tail(due)
      /\ ~(running.goal \in Goal /\ running.n = 0) => UNCHANGED <<answers, due>>
  BY Zenon DEF Finish
<1>10. Executor'
  <2>1. StepThenReport'
    BY <1>3 DEF IInv, Executor, StepThenReport
  <2>2. InTurn'
    <3>1. ASSUME NEW e \in Line', e[2].n > 0
          PROVE  /\ \A m \in 1..(e[2].n - 1) : outcome'[e[2].goal][m] = "done"
                 /\ outcome'[e[2].goal][e[2].n] = (IF e[1] = 0 THEN "running" ELSE "none")
      <4>1. e \in Line /\ e[1] > 0 /\ e[1] \in Nat
        BY <1>3
      <4>2. /\ e[2].goal \in Goal /\ e[2].n \in 1..MaxSteps
            /\ \A m \in 1..(e[2].n - 1) : m \in 1..MaxSteps
        BY <1>2, <3>1, <4>1, LineSteps
      <4>3. /\ \A m \in 1..(e[2].n - 1) : outcome[e[2].goal][m] = "done"
            /\ outcome[e[2].goal][e[2].n] = "none"
        BY <3>1, <4>1 DEF IInv, Executor, InTurn
      <4>4. \A m \in 1..(e[2].n - 1) : outcome'[e[2].goal][m] = "done"
        BY <1>1, <4>2, <4>3, OutcomeKeeps
      <4>5. ASSUME NEW f \in Line, f[2].goal = e[2].goal, f[1] = 0
            PROVE  FALSE
        <5>1. e[2].n = 0
          BY <4>1, <4>5 DEF IInv, Executor, StepThenReport
        <5> QED
          BY <3>1, <5>1
      <4>6. ~Serve
        BY <1>1 DEF Serve
      <4>7. outcome'[e[2].goal][e[2].n] = outcome[e[2].goal][e[2].n]
        BY <4>2, <4>5, <4>6, OutcomeStep
      <4> QED
        BY <4>1, <4>3, <4>4, <4>7
    <3> QED
      BY <3>1 DEF InTurn
  <2>3. RepliesAreTrue'
    <3>1. ASSUME NEW reply \in replies
          PROVE  /\ \A e \in Line' : e[2] # reply.request
                 /\ reply.request.n > 0 =>
                      outcome'[reply.request.goal][reply.request.n] = reply.result
      BY <1>1, <1>3, OutcomeKeeps DEF IInv, Executor, RepliesAreTrue
    <3>2. CASE running = SaveRequest
      BY <1>4, <3>1, <3>2 DEF RepliesAreTrue
    <3>3. CASE running # SaveRequest
      <4> DEFINE new == [request |-> running, result |-> res]
      <4>1. running \in Request /\ new.request = running /\ new.result = res
        BY <1>5, <3>3
      <4>2. replies' = replies \cup {new}
        BY <1>4, <3>3
      <4> HIDE DEF new
      <4>3. \A e \in Line' : e[2] # running
        <5>1. ASSUME NEW e \in Line', e[2] = running
              PROVE  FALSE
          <6>1. running.n > 0 /\ running.n = 0
            BY <1>7, <4>1, <5>1
          <6> QED
            BY <6>1
        <5> QED
          BY <5>1
      <4>4. running.n > 0 => outcome'[running.goal][running.n] = res
        <5>1. ASSUME running.n > 0
              PROVE  outcome'[running.goal][running.n] = res
          <6>1. /\ IsStep(running) /\ running.goal \in Goal /\ running.n \in 1..MaxSteps
                /\ res \in Result \cup {"none", "running"}
            BY <4>1, <5>1, Constants DEF IsStep, Request
          <6>2. outcome' = [outcome EXCEPT ![running.goal][running.n] = res]
            BY <1>4, <6>1
          <6> QED
            BY <1>2, <4>1, <5>1, <6>1, <6>2, Mark
        <5> QED
          BY <5>1
      <4> QED
        BY <3>1, <4>1, <4>2, <4>3, <4>4 DEF RepliesAreTrue
    <3> QED
      BY <3>2, <3>3
  <2> QED
    BY <1>1, <2>1, <2>2, <2>3, OutcomeKeeps DEF Executor
<1>11. Planner'
  <2>1. Phases' /\ DoneSoFar'
    BY <1>1 DEF IInv, Planner, Phases, DoneSoFar, Over, planner
  <2>2. Reached' = Reached /\ pc' = pc /\ goal' = goal /\ awaited' = awaited
    BY <1>1 DEF Reached, planner
  <2>3. NotAhead'
    <3> SUFFICES ASSUME goal \in Goal
                 PROVE  /\ \A n \in 1..MaxSteps : n > Reached => outcome'[goal][n] = "none"
                        /\ \A e \in Line' : e[2].goal = goal =>
                             e[2].n <= Reached /\ (e[2].n = 0 => e[2] = awaited)
                        /\ \A reply \in replies' : reply.request.goal = goal =>
                             reply.request.n <= Reached
                             /\ (reply.request.n = 0 => reply.request = awaited)
                        /\ \A i \in 1..Len(answers') : answers'[i] = goal =>
                             pc = "reporting" /\ awaited # NoRequest
      BY <2>2, Zenon DEF NotAhead
    <3>1. \A n \in 1..MaxSteps : n > Reached => outcome'[goal][n] = "none"
      BY <1>1, OutcomeKeeps
    <3>2. \A e \in Line' : e[2].goal = goal =>
            e[2].n <= Reached /\ (e[2].n = 0 => e[2] = awaited)
      BY <1>3 DEF IInv, Planner, NotAhead
    <3>3. running \in Request /\ running.goal = goal =>
            running.n <= Reached /\ (running.n = 0 => running = awaited)
      BY <1>6 DEF IInv, Planner, NotAhead
    <3>4. \A reply \in replies' : reply \in replies \/ (running \in Request /\ reply.request = running)
      BY <1>4, <1>5
    <3>5. \A reply \in replies' : reply.request.goal = goal =>
            reply.request.n <= Reached /\ (reply.request.n = 0 => reply.request = awaited)
      BY <3>3, <3>4 DEF IInv, Planner, NotAhead
    <3>6. running \in Request /\ running.goal = goal /\ running.n = 0 =>
            pc = "reporting" /\ awaited # NoRequest
      <4>1. ASSUME running \in Request, running.goal = goal, running.n = 0
            PROVE  pc = "reporting" /\ awaited # NoRequest
        <5>1. awaited = running /\ awaited # NoRequest
          BY <1>1, <3>3, <4>1
        <5>2. Len(results) + 1 # 0
          BY <1>2 DEF TypeOK
        <5>3. pc # "waiting"
          BY <4>1, <5>1, <5>2 DEF IInv, Planner, Phases
        <5> QED
          BY <1>2, <5>1, <5>3 DEF IInv, Planner, Phases, TypeOK
      <4> QED
        BY <4>1
    <3>7. \A i \in 1..Len(answers') : answers'[i] = goal => pc = "reporting" /\ awaited # NoRequest
      <4>1. \A i \in 1..Len(answers) : answers[i] = goal => pc = "reporting" /\ awaited # NoRequest
        BY DEF IInv, Planner, NotAhead
      <4>2. CASE running.goal \in Goal /\ running.n = 0
        <5>1. answers \in Seq(Goal) /\ Len(answers) \in Nat
          BY <1>2 DEF TypeOK
        <5>2. /\ Len(answers') = Len(answers) + 1 /\ answers'[Len(answers) + 1] = running.goal
              /\ \A k \in 1..Len(answers) : answers'[k] = answers[k]
          BY <1>9, <4>2, <5>1, AppendFacts
        <5> QED
          BY <1>8, <3>6, <4>1, <4>2, <5>1, <5>2
      <4>3. CASE ~(running.goal \in Goal /\ running.n = 0)
        BY <1>9, <4>1, <4>3
      <4> QED
        BY <4>2, <4>3
    <3> QED
      BY <3>1, <3>2, <3>5, <3>7
  <2>4. Alone'
    BY <1>1, <1>3 DEF IInv, Planner, Alone, Over, planner
  <2> QED
    BY <1>1, <2>1, <2>3, <2>4, OutcomeKeeps DEF Planner
\* Answers are those there were and the one now made.
<1>12. \A i \in 1..Len(answers') :
         \/ \E j \in 1..Len(answers) : answers'[i] = answers[j]
         \/ running \in Request /\ running.n = 0 /\ answers'[i] = running.goal
  <2>1. CASE running.goal \in Goal /\ running.n = 0
    <3>1. answers \in Seq(Goal) /\ Len(answers) \in Nat
      BY <1>2 DEF TypeOK
    <3>2. /\ Len(answers') = Len(answers) + 1 /\ answers'[Len(answers) + 1] = running.goal
          /\ \A k \in 1..Len(answers) : answers'[k] = answers[k]
      BY <1>9, <2>1, <3>1, AppendFacts
    <3> QED
      BY <1>8, <2>1, <3>1, <3>2
  <2>2. CASE ~(running.goal \in Goal /\ running.n = 0)
    BY <1>9, <2>2
  <2> QED
    BY <2>1, <2>2
<1>13. FreshGoals'
  <2>1. \A g : Fresh(g)' <=> Fresh(g)
    BY <1>1 DEF Fresh
  <2>2. goal' = goal
    BY <1>1 DEF planner
  <2>3. ASSUME NEW g \in Goal, Fresh(g)
        PROVE  /\ g # goal
               /\ \A n \in 1..MaxSteps : outcome'[g][n] = "none"
               /\ \A i \in 1..Len(answers') : answers'[i] # g
               /\ \A e \in Line' : e[2].goal # g
               /\ \A reply \in replies' : reply.request.goal # g
    <3>1. g # goal /\ \A n \in 1..MaxSteps : outcome'[g][n] = "none"
      BY <1>1, <2>3, OutcomeKeeps DEF IInv, FreshGoals
    <3>2. running \in Request => running.goal # g
      BY <1>6, <2>3 DEF IInv, FreshGoals
    <3>3. \A i \in 1..Len(answers') : answers'[i] # g
      BY <1>12, <2>3, <3>2 DEF IInv, FreshGoals
    <3>4. \A e \in Line' : e[2].goal # g
      BY <1>3, <2>3 DEF IInv, FreshGoals
    <3>5. \A reply \in replies' : reply \in replies \/ (running \in Request /\ reply.request = running)
      BY <1>4, <1>5
    <3>6. \A reply \in replies' : reply.request.goal # g
      BY <2>3, <3>2, <3>5 DEF IInv, FreshGoals
    <3> QED
      BY <3>1, <3>3, <3>4, <3>6
  <2> QED
    BY <1>1, <2>1, <2>2, <2>3 DEF IInv, FreshGoals
<1>14. AnsweredGone'
  <2>1. ASSUME NEW e \in Line', running \in Request, running.n = 0
        PROVE  e[2].goal # running.goal
    BY <1>7, <2>1
  <2> QED
    BY <1>3, <1>12, <2>1 DEF IInv, AnsweredGone
<1>15. DueIsLine'
  <2>1. CASE running.goal \in Goal /\ running.n = 0
    <3>1. due # <<>> /\ Head(due) = running.goal /\ due \in Seq(Goal)
      BY <1>1, <1>2, <2>1, FirstDue DEF IInv, TypeOK
    <3>2. /\ Len(due) \in Nat \ {0} /\ due[1] = running.goal /\ Len(due') = Len(due) - 1
          /\ \A k \in 1..Len(due') : due'[k] = due[k + 1]
      BY SMTT(30), <1>9, <2>1, <3>1, TailFacts
    <3>3. running \in Request /\ d \in Line /\ d[1] = 0 /\ d[2] = running
      BY <1>6, <1>8, <2>1
    <3>4. running = [goal |-> due[1], n |-> 0]
      BY <2>1, <3>2, <3>3 DEF Request
    <3>5. \A k \in 1..Len(due) : k > 1 => \E e \in Line' : e[2] = [goal |-> due[k], n |-> 0]
      <4>1. ASSUME NEW k \in 1..Len(due), k > 1
            PROVE  \E e \in Line' : e[2] = [goal |-> due[k], n |-> 0]
        <5>1. PICK e \in Line : e[2] = [goal |-> due[k], n |-> 0]
          BY DEF IInv, DueIsLine
        <5>2. 1 \in 1..Len(due) /\ 1 < k
          BY <3>2, <4>1
        <5>3. d[1] < e[1]
          BY <3>3, <3>4, <5>1, <5>2 DEF IInv, DueIsLine
        <5>4. e \in Line'
          BY <1>3, <3>3, <5>3
        <5> QED
          BY <5>1, <5>4
      <4> QED
        BY <4>1
    <3>6. \A e \in Line' : e[2].n = 0 => \E k \in 1..Len(due) : k > 1 /\ due[k] = e[2].goal
      <4>1. ASSUME NEW e \in Line', e[2].n = 0
            PROVE  \E k \in 1..Len(due) : k > 1 /\ due[k] = e[2].goal
        <5>1. e \in Line
          BY <1>3
        <5>2. PICK k \in 1..Len(due) : due[k] = e[2].goal
          BY <4>1, <5>1 DEF IInv, DueIsLine
        <5>3. e[2].goal # running.goal
          BY <1>7, <2>1, <3>3, <4>1
        <5>4. k # 1
          BY <3>2, <5>2, <5>3
        <5> QED
          BY <3>2, <5>2, <5>4
      <4> QED
        BY <4>1
    <3>7. \A k \in 1..Len(due') : k + 1 \in 1..Len(due) /\ k + 1 > 1 /\ due'[k] = due[k + 1]
      BY <3>2
    <3>8. \A k \in 1..Len(due) : k > 1 => k - 1 \in 1..Len(due') /\ due'[k - 1] = due[k]
      <4>1. ASSUME NEW k \in 1..Len(due), k > 1
            PROVE  k - 1 \in 1..Len(due') /\ due'[k - 1] = due[k]
        <5>1. k - 1 \in 1..Len(due') /\ (k - 1) + 1 = k
          BY <3>2, <4>1
        <5> QED
          BY <3>2, <5>1
      <4> QED
        BY <4>1
    <3>9. ASSUME NEW k \in 1..Len(due'), NEW l \in 1..Len(due'), NEW e \in Line', NEW f \in Line',
                 k < l, e[2] = [goal |-> due'[k], n |-> 0], f[2] = [goal |-> due'[l], n |-> 0]
          PROVE  e[1] < f[1]
      <4>1. k + 1 < l + 1 /\ e \in Line /\ f \in Line
        BY <1>3, <3>9
      <4>2. \A m, o \in 1..Len(due) : \A x, y \in Line :
              m < o /\ x[2] = [goal |-> due[m], n |-> 0] /\ y[2] = [goal |-> due[o], n |-> 0]
              => x[1] < y[1]
        BY DEF IInv, DueIsLine
      <4>3. /\ k + 1 \in 1..Len(due) /\ l + 1 \in 1..Len(due)
            /\ e[2] = [goal |-> due[k + 1], n |-> 0] /\ f[2] = [goal |-> due[l + 1], n |-> 0]
        BY <3>7, <3>9
      <4> HIDE <3>7, <3>9
      <4> QED
        BY <4>1, <4>2, <4>3
    <3> QED
      BY <3>5, <3>6, <3>7, <3>8, <3>9 DEF DueIsLine
  <2>2. CASE ~(running.goal \in Goal /\ running.n = 0)
    <3>1. UNCHANGED due
      BY <1>9, <2>2
    <3>2. \A k \in 1..Len(due) : \E e \in Line' : e[2] = [goal |-> due[k], n |-> 0]
      <4>1. ASSUME NEW k \in 1..Len(due)
            PROVE  \E e \in Line' : e[2] = [goal |-> due[k], n |-> 0]
        <5>1. PICK e \in Line : e[2] = [goal |-> due[k], n |-> 0]
          BY DEF IInv, DueIsLine
        <5>2. e[1] # 0
          <6>1. e[1] = 0 => e[2] = running
            BY DEF Line
          <6>2. due[k] \in Goal
            BY <1>2 DEF TypeOK
          <6> QED
            BY <2>2, <5>1, <6>1, <6>2
        <5> QED
          BY <1>3, <5>1, <5>2
      <4> QED
        BY <4>1
    <3> QED
      BY <1>3, <3>1, <3>2 DEF IInv, DueIsLine
  <2> QED
    BY <2>1, <2>2
<1> QED
  BY <1>10, <1>11, <1>13, <1>14, <1>15

LEMMA ExecutorDiesStep ==
  ASSUME IInv, ExecutorDies
  PROVE  Executor' /\ Planner' /\ FreshGoals' /\ AnsweredGone' /\ DueIsLine'
<1>1. UNCHANGED <<inbox, planner, replies, sent, outcome, answers>> /\ Line' = {} /\ due' = <<>>
  BY LineDies DEF ExecutorDies
<1>2. Executor' /\ Planner' /\ AnsweredGone'
  BY <1>1, ExecutorKept, PlannerKept, GoneKept DEF IInv
<1>3. FreshGoals'
  <2>1. goal' = goal
    BY <1>1 DEF planner
  <2> QED
    BY <1>1, <2>1, FreshKept DEF IInv
<1>4. DueIsLine'
  BY <1>1 DEF DueIsLine
<1> QED
  BY <1>2, <1>3, <1>4

\* Steps that neither side of the argument is about.
LEMMA OtherStep ==
  ASSUME IInv, DropReply \/ SaveMap \/ ExecutorRespawns \/ UNCHANGED vars
  PROVE  Executor' /\ Planner' /\ FreshGoals' /\ AnsweredGone' /\ DueIsLine'
<1>1. UNCHANGED <<inbox, planner, sent, outcome, answers, due>> /\ replies' \subseteq replies
  BY DEF DropReply, SaveMap, ExecutorRespawns, vars, history
<1>2. Line' = Line
  BY LineSame, LineSave DEF DropReply, SaveMap, ExecutorRespawns, vars, executor, IInv
<1>3. Executor' /\ Planner' /\ AnsweredGone' /\ DueIsLine'
  BY <1>1, <1>2, ExecutorKept, PlannerKept, GoneKept, DueKept DEF IInv
<1>4. FreshGoals'
  <2>1. goal' = goal
    BY <1>1 DEF planner
  <2> QED
    BY <1>1, <1>2, <2>1, FreshKept DEF IInv
<1> QED
  BY <1>3, <1>4

LEMMA StepIInv == IInv /\ [Next]_vars => IInv'
<1> SUFFICES ASSUME IInv, [Next]_vars
             PROVE  IInv'
  OBVIOUS
<1>1. TypeOK'
  BY StepTypeOK DEF IInv, Planner
<1>2. Executor' /\ Planner' /\ FreshGoals' /\ AnsweredGone' /\ DueIsLine'
  BY PublishGoalStep, TakeGoalStep, ThinkStep, PlannerDiesStep, PlannerRespawnsStep,
     NextStepStep, StepReplyStep, StepTimeoutStep, WriteAnswerStep, AskReportStep, LeaveStep,
     ServeStep, FinishStep, ExecutorDiesStep, OtherStep DEF Next
<1> QED
  BY <1>1, <1>2 DEF IInv

LEMMA Invariant == Spec => []IInv
BY InitIInv, StepIInv, PTL DEF Spec

-----------------------------------------------------------------------------
\* The states are those the planner's and the executor's variables are meant to
\* have: a plan has at most max_plan_steps steps, never more results than steps.
THEOREM GoalTypeCorrect == Spec => []TypeOK
<1>1. IInv => TypeOK
  BY DEF IInv
<1> QED
  BY <1>1, Invariant, PTL

\* execute_plan's promise, whatever is given up on, dropped or restarted: a step
\* has started only if every earlier step of its goal has returned well.
THEOREM StepsRunInOrder == Spec => []StepsInOrder
<1>1. IInv => StepsInOrder
  BY DEF IInv, Executor
<1> QED
  BY <1>1, Invariant, PTL

\* What the planner tells of a step is what that step of that goal returned: the
\* response to a call given up on is never taken for that of a later one.
THEOREM ResultsBelong == Spec => []ResultsAreOwn
<1>1. IInv => ResultsAreOwn
  BY DEF IInv, Planner
<1> QED
  BY <1>1, Invariant, PTL

\* The executor has nothing of a goal left once it has published its answer,
\* although the planner may long have gone on to the next.
THEOREM AnswersComeLast == Spec => []AnswerIsLast
<1>1. IInv => AnswerIsLast
  <2> SUFFICES ASSUME IInv, NEW i \in 1..Len(answers)
               PROVE  /\ ~(running # NoRequest /\ running.goal = answers[i])
                      /\ \A j \in 1..Len(queue) :
                           ~(queue[j] # NoRequest /\ queue[j].goal = answers[i])
    BY Zenon DEF AnswerIsLast
  <2>1. answers[i] \in Goal /\ \A e \in Line : e[2].goal # answers[i]
    BY DEF IInv, TypeOK, AnsweredGone
  <2>2. \A x \in Request \cup {SaveRequest, NoRequest} :
          x # NoRequest /\ x.goal = answers[i] => x \in Request
    BY <2>1, Constants DEF SaveRequest
  <2>3. running \in Request => <<0, running>> \in Line
    BY DEF Line
  <2>4. running \in Request => running.goal # answers[i]
    BY <2>1, <2>3
  <2>5. ASSUME NEW j \in 1..Len(queue), queue[j] \in Request
        PROVE  queue[j].goal # answers[i]
    <3>1. <<j, queue[j]>> \in Line
      BY <2>5 DEF Line
    <3> QED
      BY <2>1, <3>1
  <2>6. running \in Request \cup {SaveRequest, NoRequest}
    BY DEF IInv, TypeOK
  <2>7. \A j \in 1..Len(queue) : queue[j] \in Request \cup {SaveRequest, NoRequest}
    BY DEF IInv, TypeOK
  <2> QED
    BY <2>2, <2>4, <2>5, <2>6, <2>7
<1> QED
  BY <1>1, Invariant, PTL

-----------------------------------------------------------------------------
\* The goal service

LEMMA HandedTruth ==
  /\ Handed \in BOOLEAN
  /\ (pc # "reporting" => Handed = FALSE)
  /\ (awaited = NoRequest => Handed = FALSE)
  /\ (pc = "reporting" /\ awaited # NoRequest => Handed = TRUE)
BY Zenon DEF Handed

LEMMA HandedAfter ==
  /\ (pc' # "reporting" => Handed' = FALSE)
  /\ (awaited' = NoRequest => Handed' = FALSE)
  /\ (pc' = "reporting" /\ awaited' # NoRequest => Handed' = TRUE)
  /\ (UNCHANGED <<pc, awaited>> => Handed' = Handed)
BY Zenon DEF Handed

LEMMA InitService == Init => Abstract!Init
<1>1. Init => Handed = FALSE
  BY Zenon DEF Init, Handed
<1> QED
  BY <1>1 DEF Init, Abstract!Init

\* The planner lets go of its goal.
LEMMA LeavesService ==
  ASSUME IInv, pc \notin {"idle", "down"}, goal' = Maintenance, awaited' = NoRequest,
         inbox' = inbox \/ inbox' = <<>>, UNCHANGED <<sent, due, answers>>
  PROVE  Abstract!Leave
<1>1. goal # Maintenance
  BY DEF IInv, Planner, Phases
<1>2. Handed' = FALSE
  BY HandedAfter
<1> QED
  BY <1>1, <1>2 DEF Abstract!Leave

\* The planner or the executor works on, and the service sees nothing of it.
LEMMA Unseen ==
  ASSUME IInv,
         UNCHANGED <<sent, inbox, goal, due, answers>>,
         \/ UNCHANGED <<pc, awaited>>
         \/ (awaited = NoRequest \/ pc # "reporting") /\ (awaited' = NoRequest \/ pc' # "reporting")
  PROVE  UNCHANGED Abstract!vars
<1>1. Handed' = Handed
  BY HandedTruth, HandedAfter
<1> QED
  BY <1>1 DEF Abstract!vars

LEMMA Untouched ==
  ASSUME UNCHANGED <<sent, inbox, goal, due, answers, pc, awaited>>
  PROVE  UNCHANGED Abstract!vars
<1>1. Handed' = Handed
  BY HandedAfter
<1> QED
  BY <1>1 DEF Abstract!vars

LEMMA StepService == IInv /\ [Next]_vars => [Abstract!Next]_(Abstract!vars)
<1> SUFFICES ASSUME IInv, [Next]_vars
             PROVE  Abstract!Next \/ UNCHANGED Abstract!vars
  BY Zenon
<1>1. ASSUME NEW g \in Goal, PublishGoal(g)
      PROVE  Abstract!Ask(g)
  <2>1. UNCHANGED <<goal, due, answers>> /\ Handed' = Handed
    BY <1>1, HandedAfter DEF PublishGoal, planner
  <2>2. \/ inbox' \in {inbox, Append(inbox, g)}
        \/ inbox # <<>> /\ inbox' = Append(Tail(inbox), g)
    <3>1. Len(inbox) = InboxDepth => inbox # <<>>
      BY Constants
    <3> QED
      BY <1>1, <3>1 DEF PublishGoal
  <2> QED
    BY <1>1, <2>1, <2>2 DEF PublishGoal, Abstract!Ask
<1>2. CASE TakeGoal
  <2>1. goal = Maintenance /\ awaited = NoRequest /\ awaited' = NoRequest
    BY <1>2 DEF TakeGoal, IInv, Planner, Phases
  <2>2. Handed' = Handed
    BY <2>1, HandedTruth, HandedAfter
  <2>3. Abstract!Take
    BY <1>2, <2>1, <2>2 DEF TakeGoal, history, Abstract!Take
  <2> QED
    BY <2>3 DEF Abstract!Next
<1>3. CASE Think
  <2>1. CASE Idle
    <3>1. Abstract!Leave
      BY <1>3, <2>1, LeavesService DEF Think, Idle
    <3> QED
      BY <3>1 DEF Abstract!Next
  <2>2. CASE ~Idle
    <3>1. awaited = NoRequest
      BY <1>3 DEF Think, IInv, Planner, Phases
    <3> QED
      BY <1>3, <2>2, <3>1, Unseen DEF Think
  <2> QED
    BY <2>1, <2>2
<1>4. CASE PlannerDies
  <2>1. /\ UNCHANGED <<sent, due, answers>> /\ goal' = Maintenance /\ awaited' = NoRequest
        /\ inbox' = <<>> /\ pc # "down"
    BY <1>4 DEF PlannerDies
  <2>2. CASE pc # "idle"
    <3>1. Abstract!Leave
      BY <2>1, <2>2, LeavesService
    <3> QED
      BY <3>1 DEF Abstract!Next
  <2>3. CASE pc = "idle"
    <3>1. goal = Maintenance /\ awaited = NoRequest
      BY <2>3 DEF IInv, Planner, Phases
    <3>2. Handed' = Handed
      BY <2>1, <3>1, HandedTruth, HandedAfter
    <3>3. inbox # <<>> => Abstract!Clear
      BY <2>1, <3>1, <3>2 DEF Abstract!Clear
    <3>4. inbox = <<>> => UNCHANGED Abstract!vars
      BY <2>1, <3>1, <3>2 DEF Abstract!vars
    <3> QED
      BY <3>3, <3>4 DEF Abstract!Next
  <2> QED
    BY <2>2, <2>3
<1>5. CASE PlannerRespawns \/ NextStep \/ StepReply \/ StepTimeout \/ WriteAnswer
  <2>1. UNCHANGED <<sent, inbox, goal, due, answers>>
    BY <1>5 DEF PlannerRespawns, NextStep, StepReply, StepTimeout, WriteAnswer, history
  <2>2. awaited = NoRequest \/ pc # "reporting"
    BY <1>5 DEF PlannerRespawns, NextStep, StepReply, StepTimeout, WriteAnswer,
                IInv, Planner, Phases
  <2>3. awaited' = NoRequest \/ pc' # "reporting"
    BY <1>5, <2>2 DEF PlannerRespawns, NextStep, StepReply, StepTimeout, GiveUp, Record, WriteAnswer,
                      IInv, Planner, Phases
  <2> QED
    BY <2>1, <2>2, <2>3, Unseen
<1>6. CASE AskReport
  <2>1. /\ pc = "reporting" /\ awaited = NoRequest /\ UNCHANGED <<inbox, sent, answers>>
    BY <1>6 DEF AskReport
  <2>2. CASE Idle /\ UNCHANGED <<queue, due>>
    <3>1. Abstract!Leave
      BY <2>1, <2>2, LeavesService DEF Idle
    <3> QED
      BY <3>1 DEF Abstract!Next
  <2>3. CASE Call([goal |-> goal, n |-> 0]) /\ due' = Append(due, goal) /\ UNCHANGED <<pc, goal>>
    <3>1. goal \in Goal /\ goal # Maintenance
      BY <2>1, Working DEF IInv, Planner, Phases
    <3>2. awaited' # NoRequest
      <4>1. [goal |-> goal, n |-> 0] \in Request
        BY <3>1, Constants DEF Request
      <4> QED
        BY <2>3, <4>1, Constants DEF Call
    <3>3. Handed = FALSE /\ Handed' = TRUE
      BY <2>1, <2>3, <3>2, HandedTruth, HandedAfter
    <3>4. Abstract!HandOver
      BY <2>1, <2>3, <3>1, <3>3 DEF Abstract!HandOver
    <3> QED
      BY <3>4 DEF Abstract!Next
  <2> QED
    BY <1>6, <2>2, <2>3 DEF AskReport
<1>7. CASE ReportReply \/ ReportTimeout
  <2>1. Abstract!Leave
    BY <1>7, LeavesService DEF ReportReply, ReportTimeout, Idle, history
  <2> QED
    BY <2>1 DEF Abstract!Next
<1>8. CASE DropReply \/ SaveMap \/ Serve \/ ExecutorRespawns \/ UNCHANGED vars
  <2>1. UNCHANGED <<sent, inbox, goal, due, answers, pc, awaited>>
    BY <1>8 DEF DropReply, SaveMap, Serve, ExecutorRespawns, vars, planner, history
  <2> QED
    BY <2>1, Untouched
<1>9. CASE Finish
  <2>1. UNCHANGED <<sent, inbox, goal, pc, awaited>> /\ running # NoRequest
    BY <1>9 DEF Finish, planner
  <2>2. Handed' = Handed
    BY <2>1, HandedAfter
  <2>3. CASE running.goal \in Goal /\ running.n = 0
    <3>1. due # <<>> /\ Head(due) = running.goal
      BY <2>1, <2>3, FirstDue DEF IInv
    <3>2. answers' = Append(answers, running.goal) /\ due' = Tail(due)
      BY <1>9, <2>3, Zenon DEF Finish
    <3>3. Abstract!Answer
      BY <2>1, <2>2, <3>1, <3>2 DEF Abstract!Answer
    <3> QED
      BY <3>3 DEF Abstract!Next
  <2>4. CASE ~(running.goal \in Goal /\ running.n = 0)
    <3>1. UNCHANGED <<answers, due>>
      BY <1>9, <2>4, Zenon DEF Finish
    <3> QED
      BY <2>1, <3>1, Untouched
  <2> QED
    BY <2>3, <2>4
<1>10. CASE ExecutorDies
  <2>1. UNCHANGED <<sent, inbox, goal, pc, awaited, answers>> /\ due' = <<>>
    BY <1>10 DEF ExecutorDies, planner
  <2>2. Handed' = Handed
    BY <2>1, HandedAfter
  <2>3. due # <<>> => Abstract!LoseAnswers
    BY <2>1, <2>2 DEF Abstract!LoseAnswers
  <2>4. due = <<>> => UNCHANGED Abstract!vars
    BY <2>1, <2>2 DEF Abstract!vars
  <2> QED
    BY <2>3, <2>4 DEF Abstract!Next
<1> QED
  BY <1>1, <1>2, <1>3, <1>4, <1>5, <1>6, <1>7, <1>8, <1>9, <1>10 DEF Next, Abstract!Next

\* Planner and executor are the goal service as far as safety goes: goals are
\* taken up in the order they came, each is handed over for its answer at most
\* once, and the answers come in the order they were handed over.  That the next
\* goal gets its turn, as long as model calls end, is checked in the run.
THEOREM ServesSafely == Spec => Abstract!Service
BY InitService, StepService, Invariant, PTL DEF Spec, Abstract!Service
=============================================================================
