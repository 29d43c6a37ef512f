------------------------------- MODULE Upkeep -------------------------------
(***************************************************************************)
(* One store, two that write it: rag_node, from the moment it starts, and  *)
(* the compact_memory tool, which refuses while a rag_node process is      *)
(* there.  Launch starts rag_node again when it died, also in the middle   *)
(* of a compaction.                                                        *)
(***************************************************************************)
EXTENDS Compaction, Ingestion

CONSTANTS
  Stores,     \* what may be stored when the story begins
  MaxEvents   \* bound on deaths, relaunches, kills, edits, logs and observations

ASSUME UpkeepAssumption == Stores \subseteq [Id -> Memory \cup {Absent}] /\ MaxEvents \in Nat

VARIABLE events

upkeepVars == <<vars, toolVars, ragVars, events>>

Event == events < MaxEvents /\ events' = events + 1

UpkeepTypeOK == CompactionTypeOK /\ IngestionTypeOK /\ TypeOK /\ events \in 0..MaxEvents

\* A stack that has been used before and is stopped.
UpkeepInit ==
  /\ store \in Stores /\ running = FALSE /\ mapId = NoSession
  /\ session \in Session \ {Untagged} /\ pin = NoSession
  /\ CompactionInit /\ IngestionInit /\ events = 0

StartRag ==
  /\ BeginStart /\ touched' = TRUE
  /\ UNCHANGED <<tool, retag, prune, plan, runs, before, events>>

BootStep ==
  /\ Compare \/ Replace \/ Fill \/ Scan \/ Tag
  /\ UNCHANGED <<toolVars, events>>

RagDies == Die /\ Event /\ UNCHANGED toolVars

RelaunchStack(s) ==
  /\ Relaunch(s) /\ Event
  /\ boot' = "down" /\ read' = Unread /\ heard' = <<>>
  /\ UNCHANGED <<toolVars, files, known, logs, tasks>>

Remember(p, l, z) ==
  /\ boot = "serving" /\ Observe(p, l, z) /\ Event
  /\ UNCHANGED <<toolVars, ragVars>>

FilesChange ==
  /\ \/ \E v \in Documents : EditKnowledge(v)
     \/ \E t \in Task : OpenLog(t)
  /\ Event /\ UNCHANGED toolVars

\* A log that is opened is written, unless its writer dies.
LogWritten ==
  /\ \E t \in Task : WriteLog(t)
  /\ UNCHANGED <<toolVars, events>>

ToolStep ==
  /\ BeginCompaction \/ PlanCompaction \/ MoveSession \/ UpdateCounts \/ DeleteDropped
  /\ UNCHANGED <<ragVars, events>>

ToolKilled == Killed /\ Event /\ UNCHANGED ragVars

UpkeepNext ==
  \/ StartRag \/ BootStep \/ RagDies
  \/ \E s \in Session \ {Untagged} : RelaunchStack(s)
  \/ \E p \in Position, l \in Look, z \in Zone : Remember(p, l, z)
  \/ FilesChange \/ LogWritten
  \/ ToolStep \/ ToolKilled

\* Launch respawns rag_node and what it does when it starts goes on.
UpkeepSpec ==
  /\ UpkeepInit /\ [][UpkeepNext]_upkeepVars
  /\ WF_upkeepVars(StartRag) /\ WF_upkeepVars(BootStep)

-----------------------------------------------------------------------------
\* Properties

\* rag_node comes back for good once it is left alone, with a log that was never
\* finished, a knowledge base that was half replaced, and a compaction under way.
ServesAgain == <>[](boot = "serving")
=============================================================================
