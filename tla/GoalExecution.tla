---------------------------- MODULE GoalExecution ----------------------------
(***************************************************************************)
(* One goal after another: llm_planner_node plans, calls the skills        *)
(* executor step by step and has the answer published by its report skill. *)
(*                                                                         *)
(* The planner handles one goal at a time and waits for each call at most  *)
(* 120 s; the executor serves one request at a time, the dashboard's too,  *)
(* for as long as the skill takes, and does not learn that nobody waits    *)
(* any more.  Either process may die; it is respawned with nothing         *)
(* remembered.  Retrieval, prompts and the plan check decide what the plan *)
(* is: here it is any plan.  A skill returned or raised: a navigation that *)
(* did not get there has returned.  What the answer says is left out.      *)
(* A call of the model has no timeout: it may never end.                   *)
(***************************************************************************)
EXTENDS Integers, Sequences, FiniteSets

CONSTANTS
  Goal,         \* goals people publish, each of them once
  Skill,        \* skills a step may name
  Unknown,      \* a step naming none of VALID_SKILLS
  MaxSteps,     \* max_plan_steps
  InboxDepth,   \* depth of the /robot/goal subscription
  Maintenance,  \* the goal of the dashboard's save_map call
  MaxQueue,     \* bound on requests waiting at the executor for others to be made
  NoRequest     \* nothing is awaited or running

Result == {"done", "error"}
Plan == UNION {[1..k -> Skill \cup {Unknown}] : k \in 0..MaxSteps}

\* Request n of a goal is its n-th step, request 0 publishes its answer.
Request == [goal: Goal, n: 0..MaxSteps]
SaveRequest == [goal |-> Maintenance, n |-> 0]

ASSUME GoalAssumption ==
  /\ Unknown \notin Skill /\ Maintenance \notin Goal
  /\ MaxSteps \in Nat /\ InboxDepth \in Nat \ {0} /\ MaxQueue \in Nat
  /\ NoRequest \notin Request \cup {SaveRequest}

VARIABLES
  inbox,      \* goals the subscription holds
  pc,         \* planner: idle, thinking, stepping, waiting, reporting or down
  goal,       \* planner: the goal it works on
  plan,       \* planner: its steps
  results,    \* planner: results of the steps it has called
  awaited,    \* planner: the request it waits for
  up,         \* is the executor running?
  queue,      \* executor: requests not yet taken
  running,    \* executor: the request it executes
  replies,    \* responses on their way
  sent,       \* history: goals published
  outcome,    \* history: what became of each step
  answers,    \* history: goals in the order their answers were published
  due,        \* history: answers the executor was asked for and still has to publish
  lost        \* history: goals that get no answer

planner == <<pc, goal, plan, results, awaited>>
executor == <<up, queue, running>>
history == <<sent, outcome, answers, due, lost>>
vars == <<inbox, planner, executor, replies, history>>

TypeOK ==
  /\ inbox \in Seq(Goal) /\ Len(inbox) <= InboxDepth
  /\ pc \in {"idle", "thinking", "stepping", "waiting", "reporting", "down"}
  /\ goal \in Goal \cup {Maintenance} /\ plan \in Plan
  /\ results \in Seq(Result) /\ Len(results) <= Len(plan)
  /\ awaited \in Request \cup {NoRequest}
  /\ up \in BOOLEAN
  /\ queue \in Seq(Request \cup {SaveRequest})
  /\ running \in Request \cup {SaveRequest, NoRequest}
  /\ replies \subseteq [request: Request, result: Result]
  /\ sent \subseteq Goal /\ lost \subseteq Goal
  /\ outcome \in [Goal -> [1..MaxSteps -> Result \cup {"none", "running"}]]
  /\ answers \in Seq(Goal) /\ due \in Seq(Goal)

\* goal is Maintenance while the planner works on none.
Init ==
  /\ inbox = <<>>
  /\ pc = "idle" /\ goal = Maintenance /\ plan = <<>> /\ results = <<>>
  /\ awaited = NoRequest
  /\ up = TRUE /\ queue = <<>> /\ running = NoRequest
  /\ replies = {}
  /\ sent = {} /\ answers = <<>> /\ due = <<>> /\ lost = {}
  /\ outcome = [g \in Goal |-> [n \in 1..MaxSteps |-> "none"]]

-----------------------------------------------------------------------------
\* Goals and plans

\* Mutant: nothing is dropped.
PublishGoalUnbounded(g) ==
  /\ g \notin sent
  /\ sent' = sent \cup {g} /\ inbox' = Append(inbox, g)
  /\ UNCHANGED <<planner, executor, replies, outcome, answers, due, lost>>

\* A goal is published.  A full subscription drops its oldest, a planner that
\* is down hears nothing.
PublishGoal(g) ==
  /\ g \notin sent
  /\ sent' = sent \cup {g}
  /\ \/ pc = "down" /\ lost' = lost \cup {g} /\ UNCHANGED inbox
     \/ pc # "down" /\ Len(inbox) < InboxDepth /\ inbox' = Append(inbox, g) /\ UNCHANGED lost
     \/ /\ pc # "down" /\ Len(inbox) = InboxDepth
        /\ inbox' = Append(Tail(inbox), g) /\ lost' = lost \cup {Head(inbox)}
  /\ UNCHANGED <<planner, executor, replies, outcome, answers, due>>

TakeGoal ==
  /\ pc = "idle" /\ inbox # <<>>
  /\ pc' = "thinking" /\ goal' = Head(inbox) /\ inbox' = Tail(inbox)
  /\ UNCHANGED <<plan, results, awaited, executor, replies, history>>

\* The callback returns.
Idle ==
  /\ pc' = "idle" /\ goal' = Maintenance /\ plan' = <<>> /\ results' = <<>>
  /\ awaited' = NoRequest

\* The model answers: with a plan, with something that is not one, or with a
\* plan in dry_run, when nothing is executed or answered.
Think ==
  /\ pc = "thinking"
  /\ \/ \E p \in Plan : plan' = p /\ pc' = "stepping" /\ UNCHANGED <<goal, results, awaited, lost>>
     \/ pc' = "reporting" /\ UNCHANGED <<goal, plan, results, awaited, lost>>
     \/ Idle /\ lost' = lost \cup {goal}
  /\ UNCHANGED <<inbox, executor, replies, sent, outcome, answers, due>>

\* The process ends, as it does when the model refuses a call: what it
\* worked on and what it had not taken up is gone.
PlannerDies ==
  /\ pc # "down"
  /\ pc' = "down" /\ goal' = Maintenance /\ plan' = <<>> /\ results' = <<>>
  /\ awaited' = NoRequest
  /\ inbox' = <<>>
  /\ lost' = lost \cup {inbox[i] : i \in 1..Len(inbox)} \cup
             (IF pc = "idle" THEN {} ELSE {goal})
  /\ UNCHANGED <<executor, replies, sent, outcome, answers, due>>

PlannerRespawns ==
  /\ pc = "down" /\ pc' = "idle"
  /\ UNCHANGED <<inbox, goal, plan, results, awaited, executor, replies, history>>

-----------------------------------------------------------------------------
\* execute_plan and the report

\* The plan is done with: all steps are, or one failed.
Over == Len(results) = Len(plan) \/ (results # <<>> /\ results[Len(results)] = "error")

Record(r) == results' = Append(results, r) /\ awaited' = NoRequest /\ pc' = "stepping"

Call(r) == up /\ queue' = Append(queue, r) /\ awaited' = r

NextStep ==
  /\ pc = "stepping" /\ ~Over
  /\ LET n == Len(results) + 1
     IN  \/ plan[n] = Unknown /\ Record("error") /\ UNCHANGED queue
         \/ plan[n] # Unknown /\ ~up /\ Record("error") /\ UNCHANGED queue
         \/ /\ plan[n] # Unknown
            /\ Call([goal |-> goal, n |-> n]) /\ pc' = "waiting"
            /\ UNCHANGED results
  /\ UNCHANGED <<inbox, goal, plan, up, running, replies, history>>

\* Mutant: any response of the service will do.
AwaitedAny(reply) == TRUE

\* The response is that of the call the planner waits for.
Awaited(reply) == reply.request = awaited

\* Mutant: no response is no error.
GiveUpQuietly == Record("done")

\* "service call timed out": execute_plan records an error and stops.
GiveUp == Record("error")

StepReply ==
  /\ pc = "waiting"
  /\ \E reply \in replies :
       Awaited(reply) /\ replies' = replies \ {reply} /\ Record(reply.result)
  /\ UNCHANGED <<inbox, goal, plan, executor, history>>

\* The request of an answer: publishing it and writing its log takes no time to speak of.
IsReport(r) == r # NoRequest /\ r.goal \in Goal /\ r.n = 0

\* A wait lasts 120 s only behind a skill that drives or saves, or for a request that
\* is no longer queued: an idle executor takes the next one at once.
HeldUp ==
  \/ running # NoRequest /\ ~IsReport(running)
  \/ \A i \in 1..Len(queue) : queue[i] # awaited

\* Mutant: the wait for a step has no limit.
StepTimeoutNever == FALSE

\* 120 s pass: the request stays where it is.
StepTimeout ==
  /\ pc = "waiting" /\ HeldUp
  /\ GiveUp
  /\ UNCHANGED <<inbox, goal, plan, executor, replies, history>>

\* _report_from_results: the model writes the answer, summarize_results does if
\* it fails, and a plan without steps has a fixed one.
WriteAnswer ==
  /\ pc = "stepping" /\ Over
  /\ pc' = "reporting"
  /\ UNCHANGED <<inbox, goal, plan, results, awaited, executor, replies, history>>

AskReport ==
  /\ pc = "reporting" /\ awaited = NoRequest
  /\ \/ /\ Call([goal |-> goal, n |-> 0]) /\ due' = Append(due, goal)
        /\ UNCHANGED <<pc, goal, plan, results, lost>>
     \/ ~up /\ Idle /\ lost' = lost \cup {goal} /\ UNCHANGED <<queue, due>>
  /\ UNCHANGED <<inbox, up, running, replies, sent, outcome, answers>>

\* The report was made or failed.
ReportReply ==
  /\ pc = "reporting" /\ awaited # NoRequest
  /\ \E reply \in replies : Awaited(reply) /\ replies' = replies \ {reply}
  /\ Idle
  /\ UNCHANGED <<inbox, executor, history>>

\* Mutant: giving up withdraws the request.
ReportTimeoutWithdrawn ==
  /\ pc = "reporting" /\ awaited # NoRequest /\ HeldUp
  /\ queue' = SelectSeq(queue, LAMBDA r : r # awaited)
  /\ Idle
  /\ UNCHANGED <<inbox, up, running, replies, history>>

\* Mutant: the report is asked for once more.
ReportTimeoutRetried ==
  /\ pc = "reporting" /\ awaited # NoRequest /\ HeldUp
  /\ awaited' = NoRequest
  /\ UNCHANGED <<inbox, pc, goal, plan, results, executor, replies, history>>

\* 120 s pass: the request stays where it is, and is served when its turn comes.
ReportTimeout ==
  /\ pc = "reporting" /\ awaited # NoRequest /\ HeldUp
  /\ Idle
  /\ UNCHANGED <<inbox, executor, replies, history>>

\* A response nobody waits for any longer.
DropReply ==
  /\ \E reply \in replies : ~Awaited(reply) /\ replies' = replies \ {reply}
  /\ UNCHANGED <<inbox, planner, executor, history>>

-----------------------------------------------------------------------------
\* The skills executor

\* Mutant: requests are taken in any order.
TakenNextAny == 1..Len(queue)

\* Requests are taken in the order they came.
TakenNext == {i \in 1..Len(queue) : i = 1}

SaveMap ==
  /\ up /\ Len(queue) < MaxQueue
  /\ queue' = Append(queue, SaveRequest)
  /\ UNCHANGED <<inbox, planner, up, running, replies, history>>

IsStep(r) == r # NoRequest /\ r.goal \in Goal /\ r.n > 0

\* _handle_execute begins: skill callbacks are serialized.
Serve ==
  /\ up /\ running = NoRequest
  /\ \E i \in TakenNext :
       /\ running' = queue[i]
       /\ queue' = SubSeq(queue, 1, i - 1) \o SubSeq(queue, i + 1, Len(queue))
       /\ outcome' = IF IsStep(queue[i])
                     THEN [outcome EXCEPT ![queue[i].goal][queue[i].n] = "running"]
                     ELSE outcome
  /\ UNCHANGED <<inbox, planner, up, replies, sent, answers, due, lost>>

\* It ends: the skill returns or raises.  report publishes before it can fail.
Finish ==
  /\ running # NoRequest
  /\ \E res \in Result :
       /\ replies' = IF running = SaveRequest THEN replies
                     ELSE replies \cup {[request |-> running, result |-> res]}
       /\ outcome' = IF IsStep(running)
                     THEN [outcome EXCEPT ![running.goal][running.n] = res] ELSE outcome
  /\ IF running.goal \in Goal /\ running.n = 0
     THEN answers' = Append(answers, running.goal) /\ due' = Tail(due)
     ELSE UNCHANGED <<answers, due>>
  /\ running' = NoRequest
  /\ UNCHANGED <<inbox, planner, up, queue, sent, lost>>

\* Requests it had die with it.
ExecutorDies ==
  /\ up
  /\ up' = FALSE /\ queue' = <<>> /\ running' = NoRequest /\ due' = <<>>
  /\ lost' = lost \cup {r.goal : r \in {x \in {queue[i] : i \in 1..Len(queue)} \cup {running} :
                                          x # NoRequest /\ x.goal \in Goal /\ x.n = 0}}
  /\ UNCHANGED <<inbox, planner, replies, sent, outcome, answers>>

ExecutorRespawns == ~up /\ up' = TRUE /\ UNCHANGED <<inbox, planner, queue, running, replies, history>>

-----------------------------------------------------------------------------
Next ==
  \/ \E g \in Goal : PublishGoal(g)
  \/ TakeGoal \/ Think \/ PlannerDies \/ PlannerRespawns
  \/ NextStep \/ StepReply \/ StepTimeout
  \/ WriteAnswer \/ AskReport \/ ReportReply \/ ReportTimeout \/ DropReply
  \/ SaveMap \/ Serve \/ Finish \/ ExecutorDies \/ ExecutorRespawns

\* The planner goes on, waits time out, the executor takes requests, and launch
\* respawns what died.  Nothing is assumed of a model call, which has no timeout, nor
\* of a skill other than report: wait_until_active waits for Nav2 for ever.  The
\* answer to a plan without steps is written without the model.
Fairness ==
  /\ WF_vars(TakeGoal) /\ WF_vars(PlannerRespawns)
  /\ WF_vars(NextStep) /\ WF_vars(StepReply \/ StepTimeout)
  /\ WF_vars(results = <<>> /\ WriteAnswer)
  /\ WF_vars(AskReport) /\ WF_vars(ReportReply \/ ReportTimeout)
  /\ WF_vars(DropReply) /\ WF_vars(Serve) /\ WF_vars(IsReport(running) /\ Finish)
  /\ WF_vars(ExecutorRespawns)

Spec == Init /\ [][Next]_vars /\ Fairness

-----------------------------------------------------------------------------
\* Properties

\* "Execution stops at the first failing step", and never runs ahead: a step
\* starts only after every earlier step of its goal has returned, whatever was
\* given up on, dropped or restarted in between.
StepsInOrder ==
  \A g \in Goal : \A n \in 1..MaxSteps : outcome[g][n] # "none" =>
    \A m \in 1..(n - 1) : outcome[g][m] = "done"

\* What the planner reports a step to have returned is what that step of that
\* goal returned: no late response is taken for another call's.
ResultsAreOwn ==
  \A n \in 1..Len(results) : results[n] # "error" => outcome[goal][n] = results[n]

\* Nothing of a goal is executed once it is answered, although its steps may
\* outlive the calls that asked for them.
AnswerIsLast ==
  \A i \in 1..Len(answers) :
    LET mine(r) == r # NoRequest /\ r.goal = answers[i]
    IN  ~mine(running) /\ \A j \in 1..Len(queue) : ~mine(queue[j])

\* The planner is in a call of the model: for the plan (and what it needs for it) or
\* for the answer.
Asking == pc = "thinking" \/ (pc = "stepping" /\ Over /\ results # <<>>)

\* Every call of the model ends, with an answer or an error.  Between two of them the
\* planner does something else.
ModelCallsEnd == []<>~Asking

\* The planner gets back to listening, with an executor that never answers too,
\* as long as every call of the model ends: ollama.Client has no timeout.
PlannerRecovers == ModelCallsEnd => (pc # "idle" ~> pc = "idle")

\* As long as skills and calls of the model end, a goal taken up is answered,
\* even if the wait for the report was given up, unless a process died with it
\* or it was a dry run.
GoalsAnswered ==
  ModelCallsEnd /\ []<>(running = NoRequest) =>
    \A g \in Goal : goal = g ~> (g \in lost \/ \E i \in 1..Len(answers) : answers[i] = g)

\* "Execution stops at the first failing step" (toolkit.execute_plan): no step
\* starts after the planner recorded it, or one before it, as failed.
NothingStartsAfterFailure ==
  [][running' # running /\ IsStep(running') /\ running'.goal = goal
     => results = <<>> \/ results[Len(results)] # "error"]_vars

\* The executor was asked for the answer to the planner's goal.
Handed == pc = "reporting" /\ awaited # NoRequest

Abstract == INSTANCE GoalService WITH
  None <- Maintenance, asked <- sent, waiting <- inbox, working <- goal,
  handed <- Handed, due <- due, answered <- answers

\* Planner and executor, with their plans, calls, 120 s waits and deaths, are a
\* service that answers goals in order, each at most once, and that comes to the
\* next one as long as every call of the model ends.
ServesGoals == Abstract!Service /\ (ModelCallsEnd => Abstract!Fairness)
=============================================================================
