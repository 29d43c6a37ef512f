------------------------------ MODULE Ingestion ------------------------------
(***************************************************************************)
(* What rag_node does before it offers its services (RagNode.__init__):    *)
(* pin the map session, bring the knowledge base in line with the files on *)
(* disk, take in the task logs (knowledge_base.py, task_history.py).       *)
(* Embedding may fail, the process may die anywhere in it, and launch      *)
(* starts it again.  Chunks are left out: a version of the files is one    *)
(* document, and what was stored of it is all or nothing.                  *)
(***************************************************************************)
EXTENDS SemanticMemory

CONSTANTS
  Version,     \* contents the knowledge files may have
  NoDocument,  \* no file, or nothing stored
  Task,        \* task logs report_skill writes, each under its own name
  NoLog,       \* no such file
  Torn,        \* a file that is being written, or was when its writer died
  Unread       \* nothing was read

ASSUME IngestionAssumption ==
  /\ NoDocument \notin Version
  /\ {NoLog, Torn, Unread} \cap (Session \cup {NoSession}) = {}
  /\ NoLog # Torn /\ Unread \notin Version \cup {NoDocument}

Log == Session \cup {NoSession}
Documents == Version \cup {NoDocument}

VARIABLES
  boot,     \* rag_node: down, compare, replace, fill, scan, tag or serving
  files,    \* the knowledge files
  read,     \* what this start read of them
  known,    \* the knowledge_base collection
  logs,     \* the task logs: the map session they name
  heard,    \* the logs this start read
  tasks     \* the task_history collection

ragVars == <<boot, files, read, known, logs, heard, tasks>>

IngestionTypeOK ==
  /\ boot \in {"down", "compare", "replace", "fill", "scan", "tag", "serving"}
  /\ running <=> boot # "down"
  /\ files \in Documents /\ known \in Documents /\ read \in Documents \cup {Unread}
  /\ logs \in [Task -> Log \cup {NoLog, Torn}]
  /\ tasks \in [Task -> Log \cup {NoLog}]
  /\ \A t \in DOMAIN heard : t \in Task /\ heard[t] \in Log
  /\ boot = "down" => read = Unread /\ heard = <<>>

IngestionInit ==
  /\ boot = "down" /\ read = Unread /\ heard = <<>>
  /\ files \in Documents /\ known = files
  /\ logs = [t \in Task |-> NoLog] /\ tasks = [t \in Task |-> NoLog]

-----------------------------------------------------------------------------
\* RagNode.__init__

BeginStart ==
  /\ boot = "down" /\ Start /\ boot' = "compare"
  /\ UNCHANGED <<files, read, known, logs, heard, tasks>>

\* Mutant: a collection that holds something is current.
CompareFilled ==
  /\ boot = "compare" /\ read' = files
  /\ boot' = IF files = NoDocument \/ known # NoDocument THEN "scan" ELSE "replace"
  /\ UNCHANGED <<vars, files, known, logs, heard, tasks>>

\* KnowledgeBase.ingest reads the files; without any, or with the same ones
\* stored, nothing is embedded.
Compare ==
  /\ boot = "compare" /\ read' = files
  /\ boot' = IF files \in {NoDocument, known} THEN "scan" ELSE "replace"
  /\ UNCHANGED <<vars, files, known, logs, heard, tasks>>

\* They are embedded and what was stored is deleted ...
Replace ==
  /\ boot = "replace" /\ boot' = "fill" /\ known' = NoDocument
  /\ UNCHANGED <<vars, files, read, logs, heard, tasks>>

\* ... before the new ones are added.
Fill ==
  /\ boot = "fill" /\ boot' = "scan" /\ known' = read
  /\ UNCHANGED <<vars, files, read, logs, heard, tasks>>

\* The logs that can be parsed.
Heard == [t \in {u \in Task : logs[u] \in Log} |-> logs[t]]

\* Mutant: a file that is no log ends the process.
ScanAll ==
  /\ boot = "scan"
  /\ IF \E t \in Task : logs[t] = Torn
     THEN Crash /\ boot' = "down" /\ read' = Unread /\ UNCHANGED heard
     ELSE boot' = "tag" /\ heard' = Heard /\ UNCHANGED <<vars, read>>
  /\ UNCHANGED <<files, known, logs, tasks>>

\* TaskHistoryStore.ingest scans the directory and embeds what it found ...
Scan ==
  /\ boot = "scan" /\ boot' = "tag" /\ heard' = Heard
  /\ UNCHANGED <<vars, files, read, known, logs, tasks>>

\* Mutant: a task is remembered under the session rag_node has.
TagHere ==
  /\ boot = "tag" /\ boot' = "serving"
  /\ tasks' = [t \in Task |-> IF t \in DOMAIN heard THEN mapId ELSE tasks[t]]
  /\ UNCHANGED <<vars, files, read, known, logs, heard>>

\* ... and stores each under the session its log names.  Then the services are
\* there.
Tag ==
  /\ boot = "tag" /\ boot' = "serving"
  /\ tasks' = [t \in Task |-> IF t \in DOMAIN heard THEN heard[t] ELSE tasks[t]]
  /\ UNCHANGED <<vars, files, read, known, logs, heard>>

\* The process ends, by itself when the embedder is away while it starts.
Die ==
  /\ boot # "down" /\ Crash
  /\ boot' = "down" /\ read' = Unread /\ heard' = <<>>
  /\ UNCHANGED <<files, known, logs, tasks>>

-----------------------------------------------------------------------------
\* What others do to the files

EditKnowledge(v) ==
  /\ v # files /\ files' = v
  /\ UNCHANGED <<vars, boot, read, known, logs, heard, tasks>>

\* report_skill opens its log and writes it, with the session in session.json
\* as the executor read it for the request.
OpenLog(t) ==
  /\ logs[t] = NoLog /\ logs' = [logs EXCEPT ![t] = Torn]
  /\ UNCHANGED <<vars, boot, files, read, known, heard, tasks>>

WriteLog(t) ==
  /\ logs[t] = Torn /\ logs' = [logs EXCEPT ![t] = session]
  /\ UNCHANGED <<vars, boot, files, read, known, heard, tasks>>

-----------------------------------------------------------------------------
\* Properties

\* "The knowledge base is retrieved as fact, so a stale chunk is a live input to
\* the planner" (knowledge_base.py): while rag_node answers, its knowledge is what
\* the files said when it started, also after a start that died between deleting
\* the old chunks and adding the new ones.
ServesWhatItRead ==
  boot = "serving" => read = known \/ read = NoDocument

\* "An outcome carrying a coordinate from a dead map must never resurface as if
\* current" (task_history.py): a task can be retrieved in no other session than
\* the one its log names, whatever rag_node was started with since, and every
\* log that was whole when it started can be.
TasksInTheirSession ==
  /\ \A t \in Task : tasks[t] # NoLog => logs[t] = tasks[t]
  /\ boot = "serving" => \A t \in DOMAIN heard : tasks[t] = heard[t]
=============================================================================
