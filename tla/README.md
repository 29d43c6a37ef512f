# A verification of roboRAG in TLA+

roboRAG is a ROS 2 robot that takes goals in natural language, plans them with
a language model over a memory of places, and can be driven by hand from a
browser. This directory holds TLA+ modules translated from its source, the TLC
configurations that check them, and theorems that the TLA+ proof system checks
for every value of the constants. Paths below are relative to the repository's
`src/` directory of ROS packages (`robot_rag/robot_rag/rag_node.py` and so on).

1. [The system](#the-system) · 2. [Hard behaviours](#hard-behaviours) ·
3. [Modules](#modules) · 4. [Runs](#runs) · 5. [Fairness](#fairness) ·
6. [Proofs](#proofs) · 7. [Disagreements found](#disagreements-found) ·
8. [Not modelled](#not-modelled) · 9. [Plan](#plan)

## The system

Five processes form the agent. They are started by `agent.launch.py` with
`respawn=True` (2 s), talk over ROS services and topics, and share files under
`data/`: the ChromaDB store, `maps/session.json`, saved maps, task logs and the
SQLite table of zones. A sixth, `cmd_vel_mux_node`, belongs to the simulation.

| component | state it keeps | operations | talks to |
|---|---|---|---|
| `rag_node` (robot_rag) | three collections in ChromaDB; `_map_id`, read once at start | `/rag/query`, `/rag/update_map`, `/rag/delete`, `/rag/inspect`; re-ingestion at start | embedder (Ollama), `session.json` |
| map sessions (robot_rag, robot_bringup) | `session.json`; `maps/<id>/map.{posegraph,data,yaml,pgm}` | launch pins an id; `current_id`, `set_id`; `save_map` | SLAM Toolbox |
| `skills_executor_node` (robot_skills) | latest scan, image, map; nothing durable | `/skills/execute`: navigate, explore, perceive, scan_360, report, save_map, one at a time | Nav2, SLAM Toolbox, `rag_node`, zones |
| `llm_planner_node` (robot_brain) | the goal it works on | `/robot/goal`: retrieve, plan, check the plan, execute, report | model (Ollama), `rag_node`, executor, zones |
| `dashboard_node` (robot_dashboard) | `TeleopState`, event buffer, one-shot re-index flag | HTTP: goals, zones, memory viewer, save map, driving; 20 Hz timer | everything above, the mux |
| `cmd_vel_mux_node` (robot_skills) | when each source was last heard | arbitrates manual driving over Nav2 | `/cmd_vel` |
| zones (robot_zones) | SQLite table of rectangles | load, save, delete | read by planner and executor |
| offline tools | the store, when `rag_node` is down | compaction, benchmark seeding | ChromaDB |

What makes each of them correct:

- *memory*: one memory per spot, look, zone and session; anchors do not move; what the robot saw is remembered; memories of another map are not shown, and not lost.
- *map sessions*: the map, the session and the memories that are active together belong together; a save that is reported is on disk, whole.
- *manual driving*: the robot stops when nobody asks it to move; an idle dashboard does not disturb Nav2; control is exclusive and always handed back.
- *goal execution*: steps run in order and stop at a failure; results belong to their steps; goals taken up are answered and the planner gets to the next, if what it waits for ends.
- *plan check*: a plan only goes to places that exist and were asked for.
- *zones*: what SQLite holds and what retrieval returns agree.
- *exploration*: it ends, and does not return to a frontier it tried.
- *event feed*: a page sees every event the buffer still holds, across restarts.

## Hard behaviours

`PROJECT.json` lists the hazards at their lines. They come from five sources:

1. a value read once and used for ever: `rag_node._map_id` beside
   `session.json`, which `save_map` rewrites;
2. a caller that waits for a limited time while the callee goes on: the
   planner's 120 s over skills that may last, the skill's 30 s over SLAM Toolbox;
3. threads: HTTP handlers and the publish timer share `TeleopState` without a lock;
4. processes that die and are respawned with nothing remembered;
5. numbers at a boundary: the merge radius over a half-metre grid, timeouts of
   the deadman and of the mux.

## Modules

| module | models | state and actions in the code |
|---|---|---|
| `SemanticMemory` | the semantic_map collection and the session `rag_node` tags it with | `store` is the collection (a memory is its metadata), `mapId` is `RagNode._map_id`, `session` is `session.json`, `pin` the launch argument. `Start` is `RagNode.__init__`, `Observe` is `SemanticMap.upsert_object` with a group key (scan, nearest target, fold or store), `Index` without one, `Delete` is `/rag/delete`, `PinFile` is `MapSession.set_id` called by another process |
| `PlaceMemory` | abstract: what the scene memory promises, a set of places | implemented by `SemanticMemory` under `Places`, its scene memories without ids and counts |
| `MapSessions` | launches, saved maps and memories together; EXTENDS `SemanticMemory` and drives its actions | `frame` is the world position of the origin of the map that is open, `mapping` whether SLAM runs, `disk` the four files of every id (`Files`: two pairs) by the frame they hold, `save` the skill's local state between its two calls, with what its stamps tell it (`Timed`, `Exists`, `Wrote`), `slam` the requests SLAM Toolbox has not served. `LaunchFresh`, `LaunchSaved`, `LaunchFails` are what `full_system.launch.py` and `simulation.launch.py` come to: spawn pose, start zone, session, SLAM or AMCL. `BeginSave`, `CheckGraph`, `CheckImage` are the stages of `_run_save_map`, `ServeSlam` is the external service |
| `DriveChain` | manual driving from the browser to the base | `vel`, `age`, `stops` are `TeleopState`; `TickCheck`, `TickStop`, `Publish` are the three segments of the timer callback between which other threads may run; `Update` and `Stop` are what HTTP handlers call; `seen` is the mux's `_last_seen`; `base` is what the simulator last received |
| `GoalExecution` | planner, toolkit and executor queue | `pc`, `goal`, `plan`, `results`, `awaited` are the locals of `_on_goal` and `execute_plan`; `queue` and `running` are the executor's; `Serve` and `Finish` are the two ends of `_handle_execute`; `replies` are responses on their way; `Asking` says that the planner is inside a call of the model |
| `GoalService` | abstract: goals taken up, handed over and answered in order | implemented by `GoalExecution` under `Abstract`: what waits is the subscription's queue, what is due is the reports the executor has, which the history variable `due` lists and `Handed` tells of the planner's own |
| `PlanCheck` | `validate_plan` step by step | `result`, `n`, `resolution` are its copy of the plan, the loop's position and the one resolver call; `LeaveStep`, `CheckZone`, `CheckGrounding`, `AskResolver`, `CheckBorrowing` are the branches of its loop, `Replace` is `_replace` |
| `Explore` | `find_best_frontier`, `find_nearest_frontier` and `_run_explore` | `latest` is the executor's copy of `/map`, `attempted` and `visited` the loop's own; `Frontier`, `Clusters`, `BestFrontier`, `NearestFrontier` are the two strategies over the grid; `SetOut`, `Reached`, `NotReached`, `TimeUp`, `NothingLeft` are the loop's turns |
| `Mission` | one goal from retrieval over the check to the last step; EXTENDS `PlanCheck` and `Explore` | `MakePlan` is retrieval (vectors or rows of a query), the read of the zones and the model; `Refuse`, `Navigate`, `StartExploring`, `Perceive` are what the executor's `_dispatch` does with a step (`skills_executor_node.py:216-240`); `EditZones` and `PublishMap` happen beside it |
| `ZoneIndex` | zones in SQLite and their entries in memory; EXTENDS `SemanticMemory` | `zones` is the table, `thread` the web server's threads between storing a zone and calling `/rag/update_map`, `reindexed` and `reading` the one-shot timer, `calls` the queue of `/rag/update_map`, which drops its oldest when it is full (`DropOldest`); `ForgetCard` is the memory viewer's deletion of a card |
| `Compaction` | the `compact_memory` tool; EXTENDS `SemanticMemory` | `tool` is how far `compact` has come; `Bucket`, `Pass`, `Clusters` and `Fold` are the loops of `plan_compaction`, `Medoid` the kept member; `MoveSession`, `UpdateCounts`, `DeleteDropped` are its three writes |
| `Ingestion` | what `rag_node` does before it serves; EXTENDS `SemanticMemory` | `boot` is how far `__init__` has come; `Compare`, `Replace`, `Fill` are `KnowledgeBase.ingest`, `Scan` and `Tag` are `TaskHistoryStore.ingest`; `OpenLog`, `WriteLog` are the report skill's |
| `Upkeep` | the tool and `rag_node` over one store; EXTENDS `Compaction`, `Ingestion` | launch respawns `rag_node` in the middle of a compaction |
| `SemanticMemory_proofs`, `MapSessions_proofs`, `DriveChain_proofs`, `GoalExecution_proofs`, `Mission_proofs`, `ZoneIndex_proofs`, `Upkeep_proofs` | theorems | one module per component; [Proofs](#proofs) tells their arguments |
| `FiniteLemmas` | lemmas on numbers, finite sets and recursive functions that those proofs share | nothing of the code |
| `MC_*` | instances for TLC | |

History variables (`madeIn`, `kept`, `keptOwn`; `quiet`, `zeros`, `crashed`,
`engaged`; `sent`, `outcome`, `answers`, `due`, `lost`; `calls` of `PlanCheck`,
`refused`; `loose`; `touched`, `before`) record what happened for the
properties; no action of the code is guarded by them, except that a goal is
published once.

What is abstracted, and why nothing is lost for the properties:

- A pose is one of a set of positions with an abstract distance; the cell that
  names a scene is a function of it. The configuration puts positions on a
  corridor in quarter metres and rounds like Python (halves to even), so cells
  are uneven and the boundary of the radius is met exactly.
- The candidates `list_documents` returns are the whole group, or any subset of
  the limit's size; ties in distance are broken either way. Benchmark seeds,
  which `find_merge_target` skips, carry no group key in what writes them and so
  are never candidates; they are `PlainId` memories.
- A file is the map frame it holds; a map is four of them. A modification time is
  only ever compared with an earlier one, so it is modelled by whether the file was
  written since the stamp was taken, and only for the files whose time the code looks
  at: `.posegraph`, and the newer of `.yaml` and `.pgm`. What is inside a file that
  was cut short is left out: such a file counts as written.
  A frame is one coordinate: what the code adds and subtracts for x it does for
  y as well, and yaw is passed on.
- SLAM Toolbox serves its requests in order. It may write a pair, one file of it
  (`HalfPairs` names the parts) or nothing, and answer early or after the skill gave
  up. A late answer is dropped. A wait
  that ends and a wait that does not are the same steps; only their order differs.
- A wait of 120 s in `GoalExecution` ends only where it can last so long (`HeldUp`):
  behind a skill that drives, looks or saves, or for a request that is not in the
  queue any more. An idle executor takes the next request at once, and a report
  publishes and writes a small file. How long a skill lasts is not modelled.
- In `GoalExecution` a plan is any sequence of steps up to `max_plan_steps`; which
  of them survive the check is `Mission`'s subject.
- A name of a zone or a memory is a value, and what `_normalize` makes of it a
  second one; the two lists a resolver answers with are any subsets of what it
  was given.
- The grid of an exploration is the true house; what SLAM has mapped of it
  only grows. A frontier's score is compared without division. Cells are equally
  good where the code's order of iteration decides.
- Speeds are left out: every operation of `TeleopState` and the mux tells zero
  from non-zero only. Keys that cancel send a zero, as `twist_from_keys` does.
- The compaction's lists of clusters are sets: the code sorts a bucket by id and
  every cluster keeps the place of the one others joined, so a list is its clusters
  in the order of the first name in each (`First`). `Rank`, the order of names, is
  any one-to-one numbering of scene ids, and `FromMean`, the distance from a mean,
  any function of the positions.
- Knowledge files and the stored chunks are one version; a task log is the
  session it names.
- Time in `DriveChain` counts periods of the publish timer. `Elapse` stops when
  the timer, or a message on its way, is as late as `MaxLate` and `MaxDelay`
  allow: these two and `MaxLosses` are the assumptions about the machine and the
  link that the time bounds are stated in. Two named assumptions relate them to the
  code's numbers: `HoldAssumption`, two late periods and a delay fit into the mux's
  hold (0.5 s, ten periods of the timer: `cmd_vel_mux_node.py:49`), and
  `LossAssumption`, the link loses fewer messages in a row than `STOP_REPEATS`
  (`teleop.py:45-48`: three, so that no single lost one matters).

## Runs

All finish within four minutes with two workers.

| run | instance | checked |
|---|---|---|
| `memory` | 5 positions, 2 looks, 2 sessions, radius 0.75 m, count up to 2; 41 thousand states | `TypeOK`, `NoCloseDuplicates`, `AnchoredInCell`, `AnchorsStay`, `ObservationsRemembered`, `RemembersPlaces` |
| `sessions` | 2 frames, one saved name, one start zone, one scene and one zone entry, 2 requests at SLAM Toolbox, pose graphs of which `.data` may be missing; 960 thousand states | `MapTypeOK`, `VisibleInFrame`, `OwnSessionComesBack`, `SuccessMeansSaved` |
| `drive` | deadman 3, mux holds 2 and 1 periods, 2 stop messages, 1 late period, 1 loss in a row; 374 thousand states | `TypeOK`, `NoRunaway`, `SilentWhenIdle`, `ManualKeepsControl`, `ControlReturns` |
| `goals` | 2 goals of up to 2 steps, subscription of depth 1, one waiting request of others; 358 thousand states | `TypeOK`, `StepsInOrder`, `ResultsAreOwn`, `AnswerIsLast`, `PlannerRecovers`, `GoalsAnswered`, `ServesGoals` |
| `mission` | a room of 2 by 3 cells with a door, plans of up to 2 steps out of 25 written ones, one zone that one edit may change | `MissionTypeOK`, `SurvivorsStand`, `ExploresInstead`, `AsksOnce`, `RefusedOnlyIfGone`, `LeavesNothing`, `MissionEnds` |
| `zones` | 2 rooms, 2 rectangles, 2 web threads, 2 sessions, 3 edits, 1 fault, a service queue of 2; 567 thousand states | `ZoneTypeOK`, `SettledZonesAgree`, `RoomsComeBack` |
| `store` | 4 places, 3 sessions, 12 stores to begin with, 2 versions of the knowledge, 1 log, 2 runs of the tool, 2 other events; 1.2 million states | `UpkeepTypeOK`, `CompactedApart`, `CountsKept`, `ServesWhatItRead`, `TasksInTheirSession`, `ServesAgain` |
| `named_save`, `reused_name`, `other_sessions`, `dashboard_restart`, `timed_out_step` | the instances above, where needed with an assumption dropped or another bound | one statement each of a document or comment; TLC finds it violated (see below) |

What the passing runs show:

- **memory.** Whatever is observed, in any order, and however often the process
  dies, is re-pinned or relaunched, two memories of one look, zone and session
  are farther apart than the radius, every one is anchored in the cell that
  names it, anchors do not move, counts do not drop, and an observation leaves a
  memory of its own kind within the radius. To whoever asks, the collection is a
  set of places (`RemembersPlaces`): a discovery adds a place where none of its
  kind is near and costs at most one other, the one its cell held. Five
  positions are the fewest with two in one cell, one exactly a radius apart from
  another, and two that are both near a third and far from each other. One zone
  is enough: zones act in the code as looks do, as one more equality of the group.
- **sessions.** Two frames and three ids are the fewest in which a memory could
  be shown on the wrong map. A saved map opens in its own frame in both modes, from
  its first pose or from a zone. The run assumes three things of the operator, each
  a constant: a name is not given to a second frame's map (`ReuseNames`; the run
  `reused_name` drops it), no map is saved before `rag_node` has started
  (`SaveEarly`), and the robot starts where its map places it (`AnyStart`). The last
  two are described below: with either TRUE, TLC finds `VisibleInFrame` violated.
  SLAM Toolbox may be a request behind, so that a pair is written for the save that
  was given up on while the next one waits, and a disk that fills up may leave a pose
  graph without its `.data` (`HalfPairs`; `SavesArePresent` is proved for any part of
  either pair). What success then means is less than the skill's docstring says: all
  four files of the id are there, none of them another frame's, and of each pair at
  least one is new. Folding is the subject of `memory`: here a memory counts 1.
- **drive.** While the dashboard lives, a manual motion ends at most
  `Deadman + (MaxLosses + 2) * MaxLate + MaxDelay` periods after the last
  request for it was handled; TLC finds the bound violated when it is one
  smaller. At most `STOP_REPEATS` zeros are sent after each request. Nav2 has no
  say between the first motion the mux hears and the moment the timer finds the
  command over, provided `TeleopHold >= 2 * MaxLate + MaxDelay` (0.5 s against
  a 50 ms timer in the code). Timeouts are scaled down with their order kept:
  the deadman (0.6 s) is longer than the mux's hold (0.5 s), and that is several
  periods. One stop message more than the link may lose in a row is what
  `STOP_REPEATS` is for, so 2 stops with 1 loss stand for 3 with 2.
- **goals.** With waits that may end at any moment, responses that arrive late
  and either process dying at any point, no step starts before the earlier ones
  returned, no response is taken for another call's, nothing of a goal runs
  after its answer, and, as long as calls of the model end, the planner gets back to
  listening and goals taken up are answered. The whole is a service that takes goals
  up in order, answers each at most once in that order, and under the same condition
  gets to the next (`ServesGoals`, with the abstract service's own fairness). Two
  goals and one foreign request are the fewest with which a request given up on
  can be overtaken; a subscription of depth 1 (10 in the code) makes its overflow
  happen.
- **mission.** Every step that survives the check stands up to all its rules
  again, with the answer the resolver gave after some steps were passed; a step
  that is not executed as written leaves an exploration before it; the resolver is
  called at most once, also when it fails. A checked step is refused by the
  executor only if its zone was deleted meanwhile, or if it is one of two kinds the
  check does not judge by zone (below). An exploration ends by itself, before its
  duration and however many legs fail, because no frontier is tried twice, and
  what it leaves is not worth a drive. The plans written are those in which a zone
  is known, misspelled or unknown, a point is a place's, another place's or
  nobody's, and two explorations meet. `MIN_CLUSTER_CELLS`
  (2 here) leaves single cells out.
- **zones.** When nothing is under way, each stored room is retrievable at its
  present place in the active session, but for those in `loose`: rooms whose last
  call was skipped because the service was not there, was lost with a process,
  failed, was dropped by a full queue, was made with an older rectangle by another
  thread, or whose entry was
  deleted or left behind by a new session. A start of the dashboard mends them
  (`RoomsComeBack`). Two threads and a timer are what can overtake each other; two
  rooms are needed for a card of the viewer and for a re-index that is halfway.
- **store.** A compaction that comes to its end leaves no two memories of one
  session, zone and look within the radius and neither loses nor invents an
  observation; killed half way it has counted too many, never too few. The tool is
  started twice, so this holds of the second run over what a first one, killed
  between any two of its writes, left behind. `rag_node` may come up between the
  tool's check and its writes; these properties except what follows (`touched`). What
  `rag_node` serves are the knowledge files as it read them, also after a start that
  died between deleting and adding; a task is retrievable under the session its log
  names only, and a torn log keeps nothing from coming up (`ServesAgain`). The four
  places are the fewest in which a first pass leaves two clusters within the radius.

Bounds: `MaxObservations` caps a memory's count, `SlamQueue` the unserved requests,
`MaxRequests` HTTP requests of one kind in flight, `MaxQueue` requests waiting when
the dashboard adds its own (0: it never does, as in `timed_out_step`), `MaxSteps` is
the code's `max_plan_steps`, `InboxDepth` the subscription's depth, `TopK` and
`MaxRows` the hits and rows asked of retrieval. `MaxEdits` bounds rooms saved,
redrawn or deleted, `MaxFaults` deaths, relaunches and failed calls, `QueueDepth` is
the depth of `/rag/update_map`'s queue (10 by default; 2 makes it overflow),
`MaxRuns` runs of the tool and `MaxEvents` everything else that happens to the store
(observations, deaths, relaunches, kills, edits, new logs). Ages and histories in
`DriveChain` saturate one above the last value anything compares them with.

`mission`, `zones` and `store` do not check deadlock: a plan that is done, or a
stack whose bounded events are spent, really stops.

## Fairness

Safety runs of the memory and sessions assume none. In `DriveChain` time passes,
the timer, HTTP threads and subscriptions are served and a dead process is
respawned (executors are multi-threaded, launch has `respawn=True`); nothing is
assumed of the person, the network or Nav2, so `ControlReturns` speaks of a
person who is gone. In `GoalExecution` waits time out, responses are delivered, an
idle executor takes the next request, and processes are respawned. Nothing makes a
call of the model end: `ollama.Client` is built without a timeout
(`qwen_client.py:22`) and nothing bounds the calls in `_on_goal`
(`llm_planner_node.py:175`, 276, 323), so a server that stalls holds the planner for
ever. `PlannerRecovers`, `GoalsAnswered` and the liveness half of `ServesGoals` are
therefore conditional on `ModelCallsEnd`. Nothing makes a skill end either, but for
the report, which publishes and writes a file: `wait_until_active` loops until Nav2
is there. `PlannerRecovers` holds without it; `GoalsAnswered` is conditional on the
executor being idle again and again as well. A goal counts as lost if a process dies
with it, if the subscription dropped it, or in `dry_run`.

In `Mission` calls of the model and of Nav2 are assumed to return (`GoesOn`: every
step but an edit or the clock), which nothing in the code bounds, and SLAM publishes
maps: `MissionEnds` speaks of the loops, not of those calls. Nothing is assumed of
the clock, so `MissionEnds` does not rest on `duration_sec`. In `ZoneIndex`
processes are respawned, discovery catches up, the timer fires, handlers run and a
call in the queue is handled at last; in `Upkeep` `rag_node` is respawned and its
start goes on. Of the compaction tool, a person's, nothing is assumed.

## Proofs

`SemanticMemory_proofs` proves, for every set of positions, looks, zones and
sessions, every distance, every cell function and every radius a cell fits in:

- `TypeCorrect`: `Spec => []TypeOK`;
- `MergeInvariant`: `Spec => []NoCloseDuplicates`, the invariant that
  `scene_merge.py` and ADR-025 claim;
- `AnchorsStayPut`: `Spec => AnchorsStay`;
- `AnchorsInTheirCells`: `Spec => []AnchoredInCell`;
- `NothingSeenIsLost`: `Spec => ObservationsRemembered`.

`NoCloseDuplicates` is not inductive. A new memory is stored under its cell's
id, and if something of the same group were there, anchored elsewhere, storing
would move it next to others. The inductive invariant `IInv` adds
`AnchoredInCell` (a keyed memory is anchored in its cell, so an observation in an
occupied cell of its own group is within the radius and folds) and
`PlainKeyless` (memories stored without a key have none, so zones never enter a
group). The other half of the argument is the scan's limit: `ScanComplete`
shows that anchors of a group are far apart, hence injective in the positions,
hence no more than the limit, so the scan reads the whole group and finding no
target means there is none. `ObserveStep` puts both together; `NextStep` has one
step per action. `ObserveCases`, what an observation comes to, is also what
`NothingSeenIsLost` rests on.

It also proves `Implements`: `Spec => RemembersPlaces`. An id is the cell of its
memory's anchor, so no two ids hold the same place and deleting memories deletes
places; an observation that is stored found nothing of its group near, and what it
overwrites lies in the cell it was made in, hence near. Folding, starting, crashing
and re-pinning stutter.

`MapSessions_proofs` proves, for any number of frames, zones, names and queued
requests:

- `MapTypeCorrect`: `MapSpec => []MapTypeOK`;
- `FramesApart`: `MapSpec => []VisibleInFrame`, ADR-019's promise;
- `SavesArePresent`: `MapSpec => SuccessMeansSaved`, whichever parts of a pair are written;
- `MemoriesComeBack`: `MapSpec => []OwnSessionComesBack`.

Each assumes `Careful`: names are not reused for a second frame's map, maps are
not saved before `rag_node` is up, and the robot starts where its map places it.
These are the constants of the run, with the runs' counterexamples (and the two
described below) showing that `FramesApart` needs each. The invariant `MInv` says
what an id *belongs* to: the frame it is named after, or that of the pose graph
saved under it. `LaunchAgrees` ties the launch argument, `session.json` and
`rag_node`'s session to the frame the robot is in; `MemoriesAgree` a memory's tag to
the frame of its anchor; `DiskAgrees` every saved file to its id; and `SaveAgrees`
the save in progress and, because SLAM Toolbox may write long after the skill gave
up, every request it still holds. `WriteKeeps` is the heart: a file written under
an id of the frame changes no id's frame. `MapMemoryStep` shows that the
composition does to the memory only what `SemanticMemory` allows, so `IInv` and its
theorems carry over. `SavesArePresent` adds
what the skill's stamps mean (`StageAgrees`, and `GraphAgrees` for the pair it no longer
looks at): a pair that had a stamp and got a new one has both files and a fresh one, and
one without had a file missing, which must have been written since the save began.
`MemoriesComeBack` adds one more.

`DriveChain_proofs` proves, for every timeout, number of stop messages and bound
on lateness, delay and losses:

- `TypeCorrect`: `Spec => []TypeOK`;
- `IdleIsSilent`: `Spec => []SilentWhenIdle`, what `TeleopState.tick` promises;
- `ManualIsNotInterrupted`: `Spec => []ManualKeepsControl`;
- `MotionEnds`: `Spec => []NoRunaway`, the deadman's promise while the dashboard lives.

`SilentWhenIdle` bounds only the zeros already sent, so it is not inductive: with
stop messages pending the next tick would pass the bound. `Quota` is: zeros sent
and stop messages pending together never exceed `STOP_REPEATS`. A tick moves one
from the second to the first, a request to move resets both, letting go leaves the
queue alone (refilling it is what the mutant does), and a crash only drops what
was pending.

`ManualKeepsControl` says nothing of when the mux will next hear. `InControl` does:
the age of what the mux heard and the time until the next command reaches it
(`NextHeard`: one on its way, one about to be published, or one the next tick will
publish) are together within the hold. Time lets the first grow as the second
shrinks, and `HoldAssumption` is what is needed when a command arrives.

`NoRunaway` needs the whole chain, `StopInv`: every stop message of the quota was
chosen or is pending (`AllSpent`); after the first nothing else is published
(`StoppedFirst`), so motions on their way are ahead of zeros (`MotionFirst`); the
base still moves only if the link lost every zero that arrived (`ZerosLost`), of
which there are at most `MaxLosses`; and the n-th zero is chosen within `Deadman`
and n late periods of the last request (`ZerosInTime`) and on its way for no longer
than the delay (`SentInTime`). By `LossAssumption` the zero after the last lost one
exists, and its time is the bound.

`GoalExecution_proofs` proves, for any number of goals, steps and waiting requests:

- `GoalTypeCorrect`: `Spec => []TypeOK`;
- `StepsRunInOrder`: `Spec => []StepsInOrder`;
- `ResultsBelong`: `Spec => []ResultsAreOwn`;
- `AnswersComeLast`: `Spec => []AnswerIsLast`;
- `ServesSafely`: `Spec => Abstract!Service`, the
  safety part of `ServesGoals`.

None of them is inductive, and none can be proved without the others: they share
one invariant. It speaks of `Line`, what the executor runs and what waits behind
it. A goal has at most one step there, followed by at most its report
(`StepThenReport`); a step waits only when all before it were done and it has not
started (`InTurn`); a response is to a request that is no longer in line, and true
(`RepliesAreTrue`). On the planner's side nothing of its goal is further than what
it asked for (`NotAhead`), and while steps remain nothing is in line but what it
waits for (`Alone`): giving up ends the plan, so that the request left behind can
only be followed by the report. A goal not taken up has left no trace
(`FreshGoals`), a goal answered has nothing in line (`AnsweredGone`), and the answers
due are the reports in line, in their order (`DueIsLine`). The last is what maps the
queue to the abstract service; even the type of `due` rests on it, since a report
that ends takes the first off. The proof has a lemma for what each operation does
to the line, and one per action.

`Mission_proofs` proves, for every house, table of zones, memory and plan:

- `MissionTypeCorrect`: `MissionSpec => []MissionTypeOK`;
- `PlansStand`: `MissionSpec => []SurvivorsStand`;
- `RejectedStepsExplore`: `MissionSpec => []ExploresInstead`;
- `OneCall`: `MissionSpec => []AsksOnce`;
- `RefusalsExplained`: `MissionSpec => RefusedOnlyIfGone`;
- `NothingWorthADriveIsLeft`: `MissionSpec => LeavesNothing`.

`SurvivorsStand` is about an answer of the resolver that may come after steps were
passed, so it needs `AskedFirst`: while the resolver was not asked, no point was
passed. `Looked` says that the check leaves the steps ahead of it as written.
`RefusedOnlyIfGone` carries what the check found from the plan to the steps still to
do (`TodoStands`), through `CheckedPlan`, a recursive function. Types rest on `Legs`:
every leg is a frontier of its own, and of a finite number. `LeavesNothing` is proved
from the two searches as the code has them: a nearest cell exists among finitely
many, and so does a best cluster, scores being compared crosswise without division
(`CrossTransitive`), so an empty result means that nothing was eligible.

`ZoneIndex_proofs` proves, for any rooms, rectangles, threads and sessions:

- `ZonesTypeCorrect`: `ZoneSpec => []ZoneTypeOK`;
- `RoomsAreRemembered`: `ZoneSpec => []SettledZonesAgree`.

`SettledZonesAgree` speaks of the moments when nothing is under way. The invariant
`AllOnTheirWay` says what holds in between: a room that was not given up is on its
way. Some handler or the timer still has to call for it, and all of those carry its
present rectangle; or the last call made for it does; or no call is left and the
memory agrees. Storing, calling, serving, losing and re-indexing move a room along
this chain, start it again, or give it up.

`Upkeep_proofs` proves, for every store, radius, mean, order of names and set of
files:

- `UpkeepTypeCorrect`: `UpkeepSpec => []UpkeepTypeOK`;
- `CompactionSettles`: `UpkeepSpec => []CompactedApart`, what `plan_compaction` claims;
- `NothingIsForgotten`: `UpkeepSpec => []CountsKept`;
- `KnowledgeIsCurrent`: `UpkeepSpec => []ServesWhatItRead`;
- `TasksKeepTheirSession`: `UpkeepSpec => []TasksInTheirSession`.

The last two rest on `IngestionInv`: a start past the knowledge base has stored what
it read, and a log that was taken for whole stays as it was.

The others come from the inside out. A pass partitions the memories it is given and
leaves fewer clusters, unless none were close, when it changes nothing (`PassFacts`).
Hence as many passes as a bucket has members leave clusters that are apart
(`ClustersFacts`), however medoids move as clusters grow; that the loop ends is a
part of this. Of two memories of a bucket within the radius one is therefore folded
(`CloseAreFolded`), and what is kept takes the observations of its cluster: the sum
is unchanged because every observation is one of exactly one kept memory
(`RecountTotal`, which counts the observations kept memory by kept memory with
`Fibres`). `Progress` is the invariant over the tool's steps: what holds after the
plan, the sessions, the counts and the deletions, as long as `rag_node` was not
started. `RagTypes`, `ToolTypes` and `UpMeansTouched` are what it needs of the other
variables.

`FiniteLemmas` holds what these proofs need and the library's theorems do not offer.
Those that take an operator cannot be instantiated, so `SetInduction` states
induction over the natural numbers for a *set* of numbers, and `RecursiveFunction`
the existence of a function defined by recursion for a step that is itself a
function; both are proved from the well-foundedness of finite sets under strict
inclusion. `PassIsSteps` and `KeptDef` unfold the models' recursive functions with
them.

Assumptions, each named in the module and evaluated by TLC. Of the memory: distance
is symmetric and zero to itself, the radius is positive (`DistAssumption`; at 0
merging is off by design), a cell fits in the radius (`CellAssumption`: 0.71 m
against 2 m), no more places fit one radius apart than the limit of 500
(`PackingAssumption`), and sentinels differ from data. Of launches: fresh sessions
name their frame, and names an operator gives are not those (`FrameAssumption`). Of
driving: the parameters are natural numbers and `Still` is no motion
(`DriveAssumption`), `HoldAssumption` for `ManualIsNotInterrupted` and
`LossAssumption` for `MotionEnds`. Of the rest (`GoalAssumption`, `PlanAssumption`,
`ExploreAssumption`, `MissionAssumption`, `ZoneAssumption`, `IngestionAssumption`,
`CompactionAssumption`, `UpkeepAssumption`): the types of the constants, that
sentinels are not data, that the grid is finite, a cell is no distance from itself
and the exclusion radius is positive, and that no two scene ids have one rank.

Every invariant and every action property that a passing run checks is a theorem.
Only model-checked is liveness: `ControlReturns`, `PlannerRecovers`,
`GoalsAnswered`, `MissionEnds`, `RoomsComeBack`, `ServesAgain` and the fairness of
`ServesGoals`. They rest on fairness, hence on ENABLED, which the prover does not
handle.

## Disagreements found

Each of these has a run whose counterexample TLC prints.

- `named_save`: a named save re-pins `session.json`, but `rag_node` keeps its
  `_map_id` and the memories keep their tag. Opening the named map hides all of
  them. `dashboard_node.save_map` promises that they survive.
- `reused_name`: nothing stops a name from being given to another frame's map;
  its old memories are then retrieved there (ADR-019 says never).
- `other_sessions`: scene ids are grid cells without the session, so observing
  a place overwrites another session's memory of the same cell (ADR-019 says
  the filter keeps every memory).
- `dashboard_restart`: a dashboard that dies while driving is respawned owing a
  stop it does not know of; the base keeps its last command (ADR-023).
- `timed_out_step`: a step given up on stays in the executor's queue and runs
  after its goal was recorded as failed (`execute_plan`: "Execution stops at the
  first failing step"). In the trace a skill of an earlier goal lasts longer than
  the 120 s: the planner died (or gave up on that one too) and took the next goal up,
  whose first step waits behind it, is given up, and then runs. It always runs before
  the goal's answer (`AnswerIsLast`).

These were met while modelling and have no run of their own; the models follow
the code:

- A save over an older one is reported good when one file of each pair is new:
  `saved_map_stamp` compares the time of `.posegraph` alone, `map_image_stamp` the newer
  of `.yaml` and `.pgm` (`map_session.py:122-128`, 146-147), and what `SaveMap` answers is
  not read (`skills_executor_node.py:515`). ADR-035 (line 78) says that `save_map`
  "verifies both files were written", the docstring (463-464) that it raises if "a call
  left its files unwritten". `SuccessMeansSaved` says what does hold.
- Before `rag_node` has pinned the launch's session, an unnamed save goes under the id of
  the launch before (`skills_executor_node.py:486`); the map, opened later under that id,
  shows the other map's memories. With `SaveEarly = TRUE` in `MC_MapSessions.cfg` TLC
  finds `VisibleInFrame` violated.
- `start_zone` on a fresh map: `full_system.launch.py` names the session after
  `x_pose` and `y_pose` (lines 23-31) before `simulation.launch.py` replaces them by
  the zone's centre (98-104), so two fresh maps begun at different places share a
  session, although the docstring of `_agent` says that memories never leak into another
  frame. With `AnyStart = TRUE` TLC finds `VisibleInFrame` violated by two such launches.
- `start_zone` on a saved map that was not begun at the default spawn: the world
  pose is worked out from the default one, so the robot is spawned beside the
  place SLAM or AMCL is told of. `AnyStart` covers this as well.
- `saved_maps.py:15` and the docstrings of `simulation.launch.py` (13-14, 121) call
  mapping the default mode; `DEFAULT_SAVED_MAP_MODE` is `localization`.
- A navigate step with a zone and a point is checked by its point and executed by
  its zone; a zone given as null passes the check and is looked up by the
  executor; the zone of an explore step is not checked at all
  (`RefusedOnlyIfGone` excepts the first two and speaks of navigate steps).
- Memories without a group key whose cluster has one member stay without, so
  merging on write never meets them (`scene_merge.py:168-170`: "the next live
  observation merges exactly as it would have on a store that never had
  duplicates"); a compaction that is run again after it was killed between raising the
  counts and deleting counts those observations twice, for which `CountsKept`
  starts over with each plan.
- `compact_memory` looks for `rag_node` once; one that starts afterwards writes the
  same store (`touched` marks it, and the properties except it).
- While the embedder is away `rag_node` dies in its constructor and is respawned,
  again and again; `ServesAgain` counts each death as an event.
- A deleted zone stays retrievable; a card of the memory viewer deletes every entry
  it stands for, as it was when the page was loaded, re-indexed since or not.

## Not modelled

- the event feed (`events.py`, the page's cursor): a bounded buffer for display
  that no other component reads;
- ranking and thresholds of retrieval, prompts, the texts of plans and answers,
  image and scan statistics, room vocabulary (`room_semantics.py`,
  `scene_descriptor.py`, `plot_results.py`): pure functions without state that the
  properties would tell apart; HTML, CSS and drawing of `web_page.py`;
- SQL place memory beyond the number of its rows (read-only, off by default);
- the model server (an answer, an error, or nothing for ever), Nav2, Gazebo and
  SLAM Toolbox beyond the answers the code
  relies on; Nav2 keeping a goal whose executor died;
- a write of `session.json` cut short, the dashboard's own 45 s wait for a save,
  the pose (0, 0) that stands in for an unknown one, the copy `compact_memory` makes,
  the flags that switch the plan check off or leave a plan unexecuted (`dry_run` is
  a lost goal);
- `sim_guard.py`, `sim_clock.py`, `localization.py`: a process list, a sliding
  average, a lookup; launch arguments other than the map, its mode and its start;
  benchmark scripts.

A navigation that fails returns without an error, so the plan goes on:
`GoalExecution` and `Mission` follow that, and do not judge what the answer then
says.

## Plan

What is still to come, in order:

1. The safety half of the liveness properties, as far as it can be said without
   fairness: a measure that every leg of an exploration lowers (cells not yet
   attempted), for `MissionEnds`; one that every turn of the planner lowers, for
   `PlannerRecovers` given that calls of the model end.
2. An abstract specification of *one driver at a time* for the mux, implemented by
   `DriveChain`; one of the compaction, a store in which memories of a kind are
   replaced by one of them, implemented by `Upkeep`.
3. `EventFeed`: the buffer, a page's cursor and restarts.
