--------------------------- MODULE Upkeep_proofs ---------------------------
(***************************************************************************)
(* What rag_node serves after any number of starts, deaths and relaunches, *)
(* for every set of files, tasks and sessions, while the knowledge files   *)
(* and the task logs change; and what the compact_memory tool leaves in    *)
(* the store beside it, for every house, radius, mean and order of names,  *)
(* wherever it is killed.                                                  *)
(*                                                                         *)
(* The argument for the tool, from the inside out: a pass partitions what  *)
(* it is given, into fewer clusters unless none of them were close, so     *)
(* that as many passes as there are members leave clusters that are apart; *)
(* of two memories that lie close one is therefore replaced, and the one   *)
(* its cluster keeps takes over the observations of all.  The steps that   *)
(* write then move neither a memory from its bucket nor an observation     *)
(* from the sum, and nobody else writes unless rag_node came up, which the *)
(* history variable touched remembers.                                     *)
(***************************************************************************)
EXTENDS Upkeep, FiniteLemmas

\* The files of rag_node have their types, and the session is one or none.
IngestionParts ==
  /\ session \in Log /\ pin \in Log
  /\ logs \in [Task -> Log \cup {NoLog, Torn}]
  /\ tasks \in [Task -> Log \cup {NoLog}]
  /\ \A t \in DOMAIN heard : t \in Task /\ heard[t] \in Log

\* A start that is past the knowledge base has in store what it read.
KnowledgeStored == boot \in {"scan", "tag", "serving"} => read = known \/ read = NoDocument

\* A log that was heard is whole and as it was.
HeardStands == \A t \in DOMAIN heard : logs[t] = heard[t]

IngestionInv == IngestionParts /\ KnowledgeStored /\ HeardStands /\ TasksInTheirSession

-----------------------------------------------------------------------------
LEMMA LogConstants ==
  /\ NoLog \notin Log /\ Torn \notin Log /\ NoLog # Torn /\ Session \subseteq Log
BY IngestionAssumption DEF Log

\* A log that is opened or written was not whole before, so nothing was taken from it.
LEMMA LogChanges ==
  ASSUME IngestionInv, NEW t \in Task, logs[t] \in {NoLog, Torn},
         NEW w \in Log \cup {Torn}, logs' = [logs EXCEPT ![t] = w],
         UNCHANGED <<boot, read, known, heard, tasks, session, pin>>
  PROVE  IngestionInv'
<1>1. /\ logs \in [Task -> Log \cup {NoLog, Torn}] /\ tasks \in [Task -> Log \cup {NoLog}]
      /\ \A u \in DOMAIN heard : u \in Task /\ heard[u] \in Log /\ logs[u] = heard[u]
      /\ \A u \in Task : tasks[u] # NoLog => logs[u] = tasks[u]
  BY DEF IngestionInv, IngestionParts, HeardStands, TasksInTheirSession
<1>2. logs' \in [Task -> Log \cup {NoLog, Torn}] /\ \A u \in Task : u # t => logs'[u] = logs[u]
  BY <1>1
<1>3. t \notin DOMAIN heard /\ tasks[t] = NoLog
  BY <1>1, LogConstants
<1>4. IngestionParts' /\ KnowledgeStored'
  BY <1>2 DEF IngestionInv, IngestionParts, KnowledgeStored
<1>5. HeardStands'
  BY <1>1, <1>2, <1>3 DEF HeardStands
<1>6. TasksInTheirSession'
  BY <1>1, <1>2, <1>3 DEF IngestionInv, TasksInTheirSession
<1> QED
  BY <1>4, <1>5, <1>6 DEF IngestionInv

\* rag_node is gone, with what it had read.
LEMMA GoesDown ==
  ASSUME IngestionInv, boot' = "down", heard' = <<>>, UNCHANGED <<known, logs, tasks>>,
         session' \in Log, pin' \in Log
  PROVE  IngestionInv'
<1>1. DOMAIN heard' = {}
  OBVIOUS
<1>2. IngestionParts'
  BY <1>1 DEF IngestionInv, IngestionParts
<1> QED
  BY <1>1, <1>2 DEF IngestionInv, KnowledgeStored, HeardStands, TasksInTheirSession

\* Whatever leaves the files and rag_node's collections alone.
LEMMA FilesStay ==
  ASSUME IngestionInv, UNCHANGED <<boot, read, known, logs, heard, tasks>>,
         session' \in Log, pin' \in Log
  PROVE  IngestionInv'
BY DEF IngestionInv, IngestionParts, KnowledgeStored, HeardStands, TasksInTheirSession

LEMMA BootKeeps ==
  ASSUME IngestionInv, Compare \/ Replace \/ Fill \/ Scan \/ Tag
  PROVE  IngestionInv'
<1>0. session' \in Log /\ pin' \in Log
  BY DEF IngestionInv, IngestionParts, Compare, Replace, Fill, Scan, Tag, vars
<1>1. CASE Compare
  <2>1. KnowledgeStored'
    BY <1>1 DEF Compare, KnowledgeStored
  <2>2. UNCHANGED <<known, logs, heard, tasks>> /\ boot' \in {"scan", "replace"}
    BY <1>1 DEF Compare
  <2> QED
    BY <1>0, <2>1, <2>2 DEF IngestionInv, IngestionParts, HeardStands, TasksInTheirSession
<1>2. CASE Replace \/ Fill
  <2>1. KnowledgeStored'
    BY <1>2 DEF Replace, Fill, KnowledgeStored
  <2>2. UNCHANGED <<logs, heard, tasks>> /\ boot' \in {"scan", "fill"}
    BY <1>2 DEF Replace, Fill
  <2> QED
    BY <1>0, <2>1, <2>2 DEF IngestionInv, IngestionParts, HeardStands, TasksInTheirSession
<1>3. CASE Scan
  <2>1. /\ boot = "scan" /\ boot' = "tag" /\ heard' = Heard
        /\ UNCHANGED <<read, known, logs, tasks>>
    BY <1>3 DEF Scan
  <2>2. \A t \in DOMAIN heard' : t \in Task /\ heard'[t] \in Log /\ logs'[t] = heard'[t]
    BY <2>1 DEF Heard
  <2>3. KnowledgeStored'
    BY <2>1 DEF IngestionInv, KnowledgeStored
  <2> QED
    BY <1>0, <2>1, <2>2, <2>3 DEF IngestionInv, IngestionParts, HeardStands, TasksInTheirSession
<1>4. CASE Tag
  <2>1. /\ boot = "tag" /\ boot' = "serving"
        /\ tasks' = [t \in Task |-> IF t \in DOMAIN heard THEN heard[t] ELSE tasks[t]]
        /\ UNCHANGED <<read, known, logs, heard>>
    BY <1>4 DEF Tag
  <2>2. /\ tasks' \in [Task -> Log \cup {NoLog}]
        /\ \A t \in DOMAIN heard : tasks'[t] = heard[t]
        /\ \A t \in Task : tasks'[t] # NoLog => logs[t] = tasks'[t]
    BY <2>1 DEF IngestionInv, IngestionParts, HeardStands, TasksInTheirSession
  <2>3. KnowledgeStored'
    BY <2>1 DEF IngestionInv, KnowledgeStored
  <2> QED
    BY <1>0, <2>1, <2>2, <2>3 DEF IngestionInv, IngestionParts, HeardStands, TasksInTheirSession
<1> QED
  BY <1>1, <1>2, <1>3, <1>4

LEMMA IngestionStep == IngestionInv /\ [UpkeepNext]_upkeepVars => IngestionInv'
<1> SUFFICES ASSUME IngestionInv, [UpkeepNext]_upkeepVars
             PROVE  IngestionInv'
  OBVIOUS
<1>0. session \in Log /\ pin \in Log
  BY DEF IngestionInv, IngestionParts
<1>1. CASE StartRag
  <2>1. boot' = "compare" /\ UNCHANGED <<read, known, logs, heard, tasks, pin>>
    BY <1>1 DEF StartRag, BeginStart, Start
  <2>2. session' \in Log
    BY <1>0, <1>1, LogConstants DEF StartRag, BeginStart, Start
  <2> QED
    BY <1>0, <2>1, <2>2
       DEF IngestionInv, IngestionParts, KnowledgeStored, HeardStands, TasksInTheirSession
<1>2. CASE BootStep
  BY <1>2, BootKeeps DEF BootStep
<1>3. CASE RagDies
  BY <1>0, <1>3, GoesDown DEF RagDies, Die, Crash
<1>4. CASE \E s \in Session \ {Untagged} : RelaunchStack(s)
  BY <1>0, <1>4, GoesDown, LogConstants DEF RelaunchStack, Relaunch
<1>5. CASE FilesChange
  <2>1. CASE \E v \in Documents : EditKnowledge(v)
    BY <1>0, <2>1, FilesStay DEF EditKnowledge, vars
  <2>2. CASE \E t \in Task : OpenLog(t)
    BY <2>2, LogChanges DEF OpenLog, vars
  <2> QED
    BY <1>5, <2>1, <2>2 DEF FilesChange
<1>6. CASE LogWritten
  BY <1>0, <1>6, LogChanges DEF LogWritten, WriteLog, vars
<1>7. CASE \E p \in Position, l \in Look, z \in Zone : Remember(p, l, z)
  BY <1>0, <1>7, FilesStay DEF Remember, Observe, ragVars
<1>8. CASE ToolStep
  <2>1. UNCHANGED <<session, pin, ragVars>>
    BY <1>8 DEF ToolStep, BeginCompaction, PlanCompaction, MoveSession, UpdateCounts, DeleteDropped, vars
  <2> QED
    BY <1>0, <2>1, FilesStay DEF ragVars
<1>9. CASE ToolKilled \/ UNCHANGED upkeepVars
  BY <1>0, <1>9, FilesStay DEF ToolKilled, Killed, upkeepVars, ragVars, vars
<1> QED
  BY <1>1, <1>2, <1>3, <1>4, <1>5, <1>6, <1>7, <1>8, <1>9 DEF UpkeepNext

LEMMA IngestionInvariant == UpkeepSpec => []IngestionInv
<1>1. UpkeepInit => IngestionInv
  BY LogConstants DEF UpkeepInit, IngestionInit, IngestionInv, IngestionParts, KnowledgeStored,
                      HeardStands, TasksInTheirSession, Log
<1> QED
  BY <1>1, IngestionStep, PTL DEF UpkeepSpec

-----------------------------------------------------------------------------
\* "The knowledge base is retrieved as fact, so a stale chunk is a live input to
\* the planner": what rag_node answers from is what this start of it read,
\* wherever the start before it died.
THEOREM KnowledgeIsCurrent == UpkeepSpec => []ServesWhatItRead
<1>1. IngestionInv => ServesWhatItRead
  BY DEF IngestionInv, KnowledgeStored, ServesWhatItRead
<1> QED
  BY <1>1, IngestionInvariant, PTL

\* "An outcome carrying a coordinate from a dead map must never resurface as if
\* current": a task is retrieved under the session its log names and no other.
THEOREM TasksKeepTheirSession == UpkeepSpec => []TasksInTheirSession
<1>1. IngestionInv => TasksInTheirSession
  BY DEF IngestionInv
<1> QED
  BY <1>1, IngestionInvariant, PTL

-----------------------------------------------------------------------------
\* Clusters

\* The scene memories that are stored.
Scenes == {i \in SceneId : Stored(i)}

\* The store, as far as the tool reads it.
StoreTyped == store \in [Id -> Memory \cup {Absent}]

\* No two clusters are close by.
Apart(P) == \A C, D \in P : C # D => ~CloseBy(C, D)

\* The clusters of P are those of B, each member in one.
Partition(P, B) ==
  UNION P = B /\ {} \notin P /\ \A C, D \in P : C # D => C \cap D = {}

LEMMA IdsAreFinite == IsFiniteSet(SceneId) /\ IsFiniteSet(Id)
<1> DEFINE cell == [p \in Position |-> Cell[p]]
<1>1. cell \in Surjection(Position, SceneId)
  BY DEF SceneId, Surjection
<1>2. IsFiniteSet(SceneId)
  BY <1>1, PackingAssumption, FS_Surjection
<1> QED
  BY <1>2, CompactionAssumption, FS_Union DEF Id

LEMMA SceneFacts ==
  ASSUME StoreTyped, NEW i \in Scenes
  PROVE  /\ i \in SceneId /\ i \in Id /\ store[i] \in Memory
         /\ store[i].pos \in Position /\ Rank[i] \in 1..Cardinality(SceneId)
BY CompactionAssumption DEF StoreTyped, Scenes, Stored, Id, Memory

\* The medoid of a cluster is a member.
LEMMA MedoidIn ==
  ASSUME StoreTyped, NEW C \in SUBSET Scenes, C # {}
  PROVE  Medoid(C) \in C
<1> DEFINE off(i) == FromMean({store[j].pos : j \in C}, store[i].pos)
           R == {p \in C \X C : off(p[1]) < off(p[2]) \/ (off(p[1]) = off(p[2]) /\ Rank[p[1]] <= Rank[p[2]])}
<1>1. IsFiniteSet(C)
  BY IdsAreFinite, FS_Subset DEF Scenes
<1>2. \A i \in C : off(i) \in Nat /\ Rank[i] \in Nat
  <2> TAKE i \in C
  <2>1. {store[j].pos : j \in C} \in SUBSET Position
    BY SceneFacts
  <2>2. store[i].pos \in Position /\ Rank[i] \in 1..Cardinality(SceneId)
    BY SceneFacts
  <2> QED
    BY <2>1, <2>2, CompactionAssumption
<1> HIDE DEF off
<1>3. \A i, j \in C : <<i, j>> \in R <=> off(i) < off(j) \/ (off(i) = off(j) /\ Rank[i] <= Rank[j])
  OBVIOUS
<1> HIDE DEF R
<1>4. \A i, j \in C : <<i, j>> \in R \/ <<j, i>> \in R
  <2> TAKE i, j \in C
  <2>1. off(i) \in Nat /\ off(j) \in Nat /\ Rank[i] \in Nat /\ Rank[j] \in Nat
    BY <1>2
  <2>2. \/ off(i) < off(j) \/ (off(i) = off(j) /\ Rank[i] <= Rank[j])
        \/ off(j) < off(i) \/ (off(j) = off(i) /\ Rank[j] <= Rank[i])
    BY <2>1
  <2> QED
    BY <1>3, <2>2
<1>5. \A i, j, k \in C : <<i, j>> \in R /\ <<j, k>> \in R => <<i, k>> \in R
  BY <1>2, <1>3
<1>6. \E i \in C : \A j \in C : <<i, j>> \in R
  BY <1>1, <1>4, <1>5, BestExists
<1>7. \E i \in C : \A j \in C : off(i) < off(j) \/ (off(i) = off(j) /\ Rank[i] <= Rank[j])
  BY <1>3, <1>6
<1> QED
  BY <1>7 DEF Medoid, off

\* A cluster comes at the place of one of its members ...
LEMMA FirstIn ==
  ASSUME NEW C \in SUBSET SceneId, C # {}
  PROVE  First(C) \in 1..Cardinality(SceneId) /\ \E i \in C : First(C) = Rank[i]
<1> DEFINE r == [i \in C |-> Rank[i]]
<1>1. IsFiniteSet(C) /\ Rank \in [SceneId -> 1..Cardinality(SceneId)]
  BY IdsAreFinite, FS_Subset, CompactionAssumption
<1>2. \A i \in C : r[i] \in Nat
  BY <1>1
<1>3. \E i \in C : \A j \in C : r[i] <= r[j]
  BY <1>1, <1>2, SmallestExists
<1>4. \E n \in {Rank[i] : i \in C} : \A m \in {Rank[i] : i \in C} : n <= m
  BY <1>3
<1>5. First(C) \in {Rank[i] : i \in C}
  BY <1>4 DEF First, Min
<1> QED
  BY <1>1, <1>5

\* ... and clusters without a common member at different ones.
LEMMA FirstDiffers ==
  ASSUME NEW C \in SUBSET SceneId, NEW D \in SUBSET SceneId, C # {}, C \cap D = {}, D # {}
  PROVE  First(C) # First(D)
<1>1. PICK i \in C : First(C) = Rank[i]
  BY FirstIn
<1>2. PICK j \in D : First(D) = Rank[j]
  BY FirstIn
<1> QED
  BY <1>1, <1>2, CompactionAssumption

LEMMA CloseBySymmetric ==
  ASSUME StoreTyped, NEW C \in SUBSET Scenes, NEW D \in SUBSET Scenes, C # {}, D # {}
  PROVE  CloseBy(C, D) <=> CloseBy(D, C)
<1>1. Medoid(C) \in Scenes /\ Medoid(D) \in Scenes
  BY MedoidIn
<1>2. store[Medoid(C)].pos \in Position /\ store[Medoid(D)].pos \in Position
  BY <1>1, SceneFacts
<1> QED
  BY <1>2, DistAssumption DEF CloseBy

\* A partition of finitely many has finitely many parts.
LEMMA PartitionFinite ==
  ASSUME NEW B, IsFiniteSet(B), NEW P, Partition(P, B)
  PROVE  IsFiniteSet(P) /\ Cardinality(P) \in Nat
<1>1. P \in SUBSET (SUBSET B)
  BY DEF Partition
<1>2. IsFiniteSet(P)
  BY <1>1, FS_SUBSET, FS_Subset
<1> QED
  BY <1>2, FS_CardinalityType

\* A cluster joins another, and there is none more than before, or it is close to
\* none and stays on its own.
LEMMA JoinFacts ==
  ASSUME StoreTyped, NEW A \in SUBSET Scenes, NEW M, Partition(M, A),
         NEW C \in SUBSET Scenes, C # {}, C \cap A = {}
  PROVE  /\ Partition(Join(M, C), A \cup C)
         /\ \/ /\ \A D \in M : ~CloseBy(D, C)
               /\ Join(M, C) = M \cup {C} /\ Cardinality(Join(M, C)) = Cardinality(M) + 1
            \/ (\E D \in M : CloseBy(D, C)) /\ Cardinality(Join(M, C)) <= Cardinality(M)
<1> DEFINE near == {D \in M : CloseBy(D, C)}
<1>1. IsFiniteSet(M) /\ Cardinality(M) \in Nat
  <2>1. IsFiniteSet(A)
    BY IdsAreFinite, FS_Subset DEF Scenes
  <2> QED
    BY <2>1, PartitionFinite
<1>2. C \notin M
  BY DEF Partition
<1>3. CASE near = {}
  <2>1. Join(M, C) = M \cup {C}
    BY <1>3 DEF Join
  <2>2. Cardinality(M \cup {C}) = Cardinality(M) + 1
    BY <1>1, <1>2, FS_AddElement
  <2>3. Partition(M \cup {C}, A \cup C)
    BY DEF Partition
  <2> QED
    BY <1>3, <2>1, <2>2, <2>3
<1>4. CASE near # {}
  <2> DEFINE f == [D \in near |-> First(D)]
  <2>1. \A D \in M : D \in SUBSET SceneId /\ D # {}
    BY DEF Partition, Scenes
  <2>2. IsFiniteSet(near) /\ \A D \in near : f[D] \in Nat
    <3>1. \A D \in near : First(D) \in 1..Cardinality(SceneId)
      BY <2>1, FirstIn
    <3> QED
      BY <1>1, <3>1, FS_Subset
  <2>3. \E D \in near : \A E \in near : f[D] <= f[E]
    <3> HIDE DEF near, f
    <3> QED
      BY <1>4, <2>2, SmallestExists
  <2>4. PICK target \in near : Join(M, C) = (M \ {target}) \cup {target \cup C}
    <3>1. \E D \in near : \A E \in near : First(D) <= First(E)
      BY <2>3
    <3> QED
      BY <1>4, <3>1 DEF Join
  <2>5. Partition((M \ {target}) \cup {target \cup C}, A \cup C)
    <3> DEFINE N == (M \ {target}) \cup {target \cup C}
    <3>1. target \in M
      BY <2>4
    <3>2. UNION N = A \cup C
      <4>1. A = UNION M
        BY DEF Partition
      <4>2. target \cup C \in N /\ \A D \in M : D # target => D \in N
        OBVIOUS
      <4>3. \A E \in N : E \subseteq A \cup C
        BY <3>1, <4>1
      <4> HIDE DEF N
      <4>4. \A x \in A : \E E \in N : x \in E
        BY <4>1, <4>2
      <4>5. \A x \in C : \E E \in N : x \in E
        BY <4>2
      <4> QED
        BY <4>3, <4>4, <4>5
    <3>3. {} \notin N
      BY <3>1 DEF Partition
    <3>4. \A D \in M \ {target} : D \cap (target \cup C) = {}
      BY <3>1 DEF Partition
    <3>5. \A D, E \in N : D # E => D \cap E = {}
      BY <3>1, <3>4 DEF Partition
    <3> HIDE DEF N
    <3>6. Partition(N, A \cup C)
      BY <3>2, <3>3, <3>5 DEF Partition
    <3> QED
      BY <3>6 DEF N
  <2>6. Cardinality((M \ {target}) \cup {target \cup C}) <= Cardinality(M)
    <3>1. IsFiniteSet(M \ {target}) /\ Cardinality(M \ {target}) = Cardinality(M) - 1
      BY <1>1, <2>4, FS_RemoveElement
    <3> DEFINE N == M \ {target}
    <3> HIDE DEF N
    <3>2. Cardinality(N \cup {target \cup C}) =
            IF target \cup C \in N THEN Cardinality(N) ELSE Cardinality(N) + 1
      BY <3>1, FS_AddElement DEF N
    <3>3. Cardinality(N \cup {target \cup C}) <= Cardinality(M)
      BY <1>1, <3>1, <3>2 DEF N
    <3> QED
      BY <3>3 DEF N
  <2> QED
    BY <1>4, <2>4, <2>5, <2>6
<1> QED
  BY <1>3, <1>4

\* A pass as what its steps come to: cluster after cluster is joined.
PassStep(P, v, k) ==
  IF k = 0 THEN {}
  ELSE IF \E C \in P : First(C) = k THEN Join(v, CHOOSE C \in P : First(C) = k) ELSE v

PassSteps(P) ==
  \E m : /\ m[0] = {}
         /\ \A k \in 1..Cardinality(SceneId) : m[k] = PassStep(P, m[k - 1], k)
         /\ Pass(P) = m[Cardinality(SceneId)]

\* Those of the first k.
UpTo(P, k) == {C \in P : First(C) <= k}

LEMMA JoinWithin ==
  ASSUME NEW v \in SUBSET SUBSET SceneId, NEW C \in SUBSET SceneId
  PROVE  Join(v, C) \in SUBSET SUBSET SceneId
<1> DEFINE near == {D \in v : CloseBy(D, C)}
           target == CHOOSE D \in near : \A E \in near : First(D) <= First(E)
<1>1. Join(v, C) = IF near = {} THEN v \cup {C} ELSE (v \ {target}) \cup {target \cup C}
  BY DEF Join
<1> QED
  BY <1>1

\* The recursive function of a pass exists, and goes through these steps.
LEMMA PassIsSteps ==
  ASSUME NEW P \in SUBSET SUBSET SceneId
  PROVE  PassSteps(P)
<1> DEFINE N == Cardinality(SceneId)
           V == SUBSET SUBSET SceneId
           B(v, k) == IF k = 0 THEN {}
                      ELSE IF \E C \in P : First(C) = k
                           THEN Join(v, CHOOSE C \in P : First(C) = k)
                           ELSE v
           G == [p \in V \X (1..N) |-> B(p[1], p[2])]
<1>1. N \in Nat
  BY IdsAreFinite, FS_CardinalityType
<1>2. ASSUME NEW v \in V, NEW k \in 0..N
      PROVE  B(v, k) \in V
  <2>1. CASE \E C \in P : First(C) = k
    <3>1. (CHOOSE C \in P : First(C) = k) \in P
      BY <2>1
    <3> QED
      BY <3>1, JoinWithin
  <2> QED
    BY <2>1
<1>3. {} \in V /\ \A v : B(v, 0) = {}
  OBVIOUS
<1>4. \A v, k : B(v, k) = PassStep(P, v, k)
  BY DEF PassStep
<1>5. \A m : m = [k \in 0..N |-> B(m[k - 1], k)] => m = [k \in 0..N |-> B(m[k - 1], k)]
  OBVIOUS
<1>6. Pass(P) = (CHOOSE m : m = [k \in 0..N |-> B(m[k - 1], k)])[N]
  BY Zenon DEF Pass
<1> HIDE DEF N, B
<1>7. G \in [V \X (1..N) -> V]
  BY <1>1, <1>2
<1>8. PICK f \in [0..N -> V] : f[0] = {} /\ \A k \in 1..N : f[k] = G[<<f[k - 1], k>>]
  <2> HIDE DEF G, V
  <2>1. Iterates(N, V, {}, G)
    BY <1>1, <1>3, <1>7, RecursiveFunction
  <2> QED
    BY <2>1 DEF Iterates
<1>9. \A k \in 0..N : f[k] = B(f[k - 1], k)
  <2>1. ASSUME NEW k \in 0..N, k # 0
        PROVE  f[k] = B(f[k - 1], k)
    <3>1. k \in 1..N /\ k - 1 \in 0..N
      BY <1>1, <2>1
    <3>2. <<f[k - 1], k>> \in V \X (1..N)
      BY <1>8, <3>1
    <3> QED
      BY <1>8, <3>1, <3>2
  <2> QED
    BY <1>1, <1>3, <1>8, <2>1
<1>10. f = [k \in 0..N |-> B(f[k - 1], k)]
  BY <1>8, <1>9
<1> DEFINE m == CHOOSE m : m = [k \in 0..N |-> B(m[k - 1], k)]
<1>11. m = [k \in 0..N |-> B(m[k - 1], k)]
  BY <1>10
<1>12. Pass(P) = m[N]
  BY <1>6
<1> HIDE DEF m
<1>13. m[0] = {} /\ \A k \in 1..N : m[k] = B(m[k - 1], k)
  <2>1. \A k \in 0..N : m[k] = B(m[k - 1], k)
    BY <1>11
  <2>2. 0 \in 0..N /\ \A k \in 1..N : k \in 0..N
    BY <1>1
  <2>3. m[0] = B(m[0 - 1], 0)
    BY <2>1, <2>2
  <2> QED
    BY <1>3, <2>1, <2>2, <2>3
<1>14. m[0] = {} /\ \A k \in 1..N : m[k] = PassStep(P, m[k - 1], k)
  BY <1>4, <1>13
<1> QED
  BY <1>12, <1>14 DEF PassSteps, N

\* What a pass has made of the first k clusters of P: a partition of the same
\* memories, of fewer clusters unless there were none to join.
Passed(P, k, M) ==
  /\ Partition(M, UNION UpTo(P, k))
  /\ \/ M = UpTo(P, k) /\ Apart(UpTo(P, k))
     \/ Cardinality(M) < Cardinality(UpTo(P, k))
  /\ Apart(P) => M = UpTo(P, k)

LEMMA UpToParts ==
  ASSUME NEW B \in SUBSET Scenes, NEW P, Partition(P, B), NEW k
  PROVE  /\ Partition(UpTo(P, k), UNION UpTo(P, k)) /\ UNION UpTo(P, k) \in SUBSET B
         /\ IsFiniteSet(UpTo(P, k)) /\ Cardinality(UpTo(P, k)) \in Nat
<1>1. UpTo(P, k) \subseteq P
  BY DEF UpTo
<1>2. IsFiniteSet(B)
  BY IdsAreFinite, FS_Subset DEF Scenes
<1>3. IsFiniteSet(P)
  BY <1>2, PartitionFinite
<1>4. IsFiniteSet(UpTo(P, k)) /\ Cardinality(UpTo(P, k)) \in Nat
  BY <1>1, <1>3, FS_Subset, FS_CardinalityType
<1>5. UNION UpTo(P, k) \in SUBSET B
  BY <1>1 DEF Partition
<1>6. Partition(UpTo(P, k), UNION UpTo(P, k))
  BY <1>1 DEF Partition
<1> QED
  BY <1>4, <1>5, <1>6

\* The next cluster joins one that is close, and there is one less than there were,
\* or it is apart from all that went before.
LEMMA PassStepFacts ==
  ASSUME StoreTyped, NEW B \in SUBSET Scenes, NEW P, Partition(P, B),
         NEW k \in 1..Cardinality(SceneId), NEW M, Passed(P, k - 1, M)
  PROVE  Passed(P, k, PassStep(P, M, k))
<1> DEFINE U == UpTo(P, k - 1)
           W == UpTo(P, k)
           N == Cardinality(SceneId)
<1>0. k # 0 /\ k \in Nat
  BY IdsAreFinite, FS_CardinalityType
<1>1. \A C \in P : C \in SUBSET Scenes /\ C # {} /\ C \in SUBSET SceneId /\ First(C) \in Nat
  <2> TAKE C \in P
  <2>1. C \in SUBSET Scenes /\ C # {} /\ C \in SUBSET SceneId
    BY DEF Partition, Scenes
  <2>2. First(C) \in 1..Cardinality(SceneId)
    BY <2>1, FirstIn
  <2> QED
    BY <2>1, <2>2
<1>2. /\ Partition(U, UNION U) /\ UNION U \in SUBSET B /\ IsFiniteSet(U) /\ Cardinality(U) \in Nat
  BY UpToParts
<1>3. /\ Partition(M, UNION U)
      /\ \/ M = U /\ Apart(U)
         \/ Cardinality(M) < Cardinality(U)
      /\ Apart(P) => M = U
  BY DEF Passed
<1>4. CASE ~\E C \in P : First(C) = k
  <2>1. W = U
    BY <1>0, <1>1, <1>4 DEF UpTo
  <2>2. PassStep(P, M, k) = M
    BY <1>0, <1>4 DEF PassStep
  <2> QED
    BY <1>3, <2>1, <2>2 DEF Passed
<1>5. CASE \E C \in P : First(C) = k
  <2>1. PICK C \in P : First(C) = k /\ PassStep(P, M, k) = Join(M, C)
    BY <1>0, <1>5 DEF PassStep
  <2>2. \A D \in P : First(D) = k => D = C
    <3> SUFFICES ASSUME NEW D \in P, First(D) = k, D # C
                 PROVE  FALSE
      OBVIOUS
    <3>1. C \cap D = {}
      BY DEF Partition
    <3> QED
      BY <1>1, <2>1, <3>1, FirstDiffers
  <2>3. W = U \cup {C} /\ C \notin U /\ U \subseteq P
    BY <1>0, <1>1, <2>1, <2>2 DEF UpTo
  <2>4. C \cap UNION U = {}
    BY <2>3 DEF Partition
  <2>5. UNION W = (UNION U) \cup C
    BY <2>3
  <2>6. Cardinality(W) = Cardinality(U) + 1
    BY <1>2, <2>3, FS_AddElement
  <2>7. C \in SUBSET Scenes /\ C # {} /\ UNION U \in SUBSET Scenes
    BY <1>1, <1>2
  <2> HIDE DEF U, W
  <2>8. /\ Partition(Join(M, C), (UNION U) \cup C)
        /\ \/ /\ \A D \in M : ~CloseBy(D, C)
              /\ Join(M, C) = M \cup {C} /\ Cardinality(Join(M, C)) = Cardinality(M) + 1
           \/ (\E D \in M : CloseBy(D, C)) /\ Cardinality(Join(M, C)) <= Cardinality(M)
    BY <1>3, <2>4, <2>7, JoinFacts
  <2>9. Cardinality(M) \in Nat /\ Cardinality(Join(M, C)) \in Nat
    <3>1. IsFiniteSet(UNION U) /\ IsFiniteSet((UNION U) \cup C)
      BY <2>7, IdsAreFinite, FS_Subset DEF Scenes
    <3> QED
      BY <1>3, <2>8, <3>1, PartitionFinite
  <2>10. \/ Join(M, C) = W /\ Apart(W)
         \/ Cardinality(Join(M, C)) < Cardinality(W)
    <3>1. CASE Cardinality(M) < Cardinality(U)
      BY <1>2, <2>6, <2>8, <2>9, <3>1
    <3>2. CASE M = U /\ Apart(U)
      <4>1. CASE \A D \in M : ~CloseBy(D, C)
        <5>1. Join(M, C) = W
          BY <2>3, <2>8, <3>2, <4>1
        <5>2. \A D \in U : ~CloseBy(C, D)
          BY <1>1, <2>3, <2>7, <3>2, <4>1, CloseBySymmetric
        <5>3. Apart(W)
          BY <2>3, <3>2, <4>1, <5>2 DEF Apart
        <5> QED
          BY <5>1, <5>3
      <4>2. CASE \E D \in M : CloseBy(D, C)
        <5>1. Cardinality(Join(M, C)) <= Cardinality(M)
          BY <2>8, <4>2
        <5> QED
          BY <1>2, <2>6, <2>9, <3>2, <5>1
      <4> QED
        BY <4>1, <4>2
    <3> QED
      BY <1>3, <3>1, <3>2
  <2>11. Apart(P) => Join(M, C) = W
    <3> SUFFICES ASSUME Apart(P)
                 PROVE  Join(M, C) = W
      OBVIOUS
    <3>1. M = U
      BY <1>3
    <3>2. \A D \in M : ~CloseBy(D, C)
      BY <2>1, <2>3, <3>1 DEF Apart
    <3> QED
      BY <2>3, <2>8, <3>1, <3>2
  <2> QED
    BY <2>1, <2>5, <2>8, <2>10, <2>11 DEF Passed, U, W
<1> QED
  BY <1>4, <1>5

\* A pass leaves a partition of the same memories, of fewer clusters unless they
\* were apart: then it leaves them as they are.
LEMMA PassFacts ==
  ASSUME StoreTyped, NEW B \in SUBSET Scenes, NEW P, Partition(P, B)
  PROVE  /\ Partition(Pass(P), B)
         /\ Apart(P) => Pass(P) = P
         /\ Apart(P) \/ Cardinality(Pass(P)) < Cardinality(P)
<1> DEFINE N == Cardinality(SceneId)
<1>1. N \in Nat
  BY IdsAreFinite, FS_CardinalityType
<1>2. P \in SUBSET SUBSET SceneId
  BY DEF Partition, Scenes
<1>3. PICK m : m[0] = {} /\ (\A k \in 1..N : m[k] = PassStep(P, m[k - 1], k)) /\ Pass(P) = m[N]
  BY <1>2, PassIsSteps DEF PassSteps
<1>4. \A C \in P : First(C) \in 1..N
  BY FirstIn DEF Partition, Scenes
<1> HIDE DEF N
<1> DEFINE T == {k \in Nat : k <= N => Passed(P, k, m[k])}
<1>5. 0 \in T
  <2>1. UpTo(P, 0) = {}
    BY <1>1, <1>4 DEF UpTo
  <2>2. Passed(P, 0, {})
    BY <2>1 DEF Passed, Partition, Apart
  <2> QED
    BY <1>3, <2>2
<1>6. ASSUME NEW k \in Nat, k \in T
      PROVE  k + 1 \in T
  <2> SUFFICES ASSUME k + 1 <= N
               PROVE  Passed(P, k + 1, m[k + 1])
    OBVIOUS
  <2>1. k + 1 \in 1..N /\ (k + 1) - 1 = k /\ Passed(P, k, m[k])
    BY <1>1, <1>6
  <2>2. Passed(P, (k + 1) - 1, m[k])
    BY <2>1
  <2>3. Passed(P, k + 1, PassStep(P, m[k], k + 1))
    BY <2>1, <2>2, PassStepFacts DEF N
  <2>4. m[k + 1] = PassStep(P, m[k], k + 1)
    BY <1>3, <2>1
  <2> QED
    BY <2>3, <2>4
<1>7. N \in T
  <2> HIDE DEF T
  <2> QED
    BY <1>1, <1>5, <1>6, SetInduction
<1>8. UpTo(P, N) = P /\ UNION P = B
  BY <1>1, <1>4 DEF UpTo, Partition
<1>9. Passed(P, N, Pass(P))
  BY <1>1, <1>3, <1>7
<1> QED
  BY <1>8, <1>9 DEF Passed

LEMMA SinglesFacts ==
  ASSUME NEW B \in SUBSET Scenes
  PROVE  /\ Partition(Singles(B), B) /\ IsFiniteSet(B) /\ Cardinality(B) \in Nat
         /\ Cardinality(Singles(B)) <= Cardinality(B)
<1>1. IsFiniteSet(B) /\ Cardinality(B) \in Nat
  BY IdsAreFinite, FS_Subset, FS_CardinalityType DEF Scenes
<1>2. Partition(Singles(B), B)
  BY DEF Partition, Singles
<1> DEFINE single == [i \in B |-> {i}]
<1>3. single \in Surjection(B, Singles(B))
  BY DEF Surjection, Singles
<1>4. Cardinality(Singles(B)) <= Cardinality(B)
  BY <1>1, <1>3, FS_Surjection
<1> QED
  BY <1>1, <1>2, <1>4

\* However the memories of a bucket lie, as many passes as it has members leave
\* clusters that no pass would join any more.
LEMMA ClustersFacts ==
  ASSUME StoreTyped, NEW B \in SUBSET Scenes
  PROVE  Partition(Clusters(B), B) /\ Apart(Clusters(B))
<1> DEFINE n == Cardinality(B)
           V == {P \in SUBSET SUBSET B : Partition(P, B)}
           S == Singles(B)
           Body(v, k) == IF k = 0 THEN S ELSE Pass(v)
           G == [p \in V \X (1..n) |-> Pass(p[1])]
<1>1. n \in Nat /\ IsFiniteSet(B)
  BY SinglesFacts
<1>2. \A P \in V : Pass(P) \in V
  <2> TAKE P \in V
  <2>1. Partition(Pass(P), B)
    BY PassFacts
  <2> QED
    BY <2>1 DEF Partition
<1>3. S \in V /\ Cardinality(S) <= n
  BY SinglesFacts DEF Singles
<1>4. \A P \in V : Cardinality(P) \in Nat /\ IsFiniteSet(P)
  BY <1>1, PartitionFinite
<1>5. \A P \in V : Apart(P) => Pass(P) = P
  BY PassFacts
<1>6. \A P \in V : Apart(P) \/ Cardinality(Pass(P)) < Cardinality(P)
  BY PassFacts
<1>7. Clusters(B) = (CHOOSE f : f = [k \in 0..n |-> Body(f[k - 1], k)])[n]
  BY Zenon DEF Clusters
<1>8. \A v : Body(v, 0) = S
  OBVIOUS
<1>9. \A v, k : k # 0 => Body(v, k) = Pass(v)
  OBVIOUS
<1>10. \A P \in V : Partition(P, B)
  OBVIOUS
<1>11. {} \in V => B = {}
  BY DEF Partition
<1> HIDE DEF n, V, S, Body
<1>12. G \in [V \X (1..n) -> V]
  BY <1>2
<1>13. PICK g \in [0..n -> V] : g[0] = S /\ \A k \in 1..n : g[k] = G[<<g[k - 1], k>>]
  <2> HIDE DEF G
  <2>1. Iterates(n, V, S, G)
    BY <1>1, <1>3, <1>12, RecursiveFunction
  <2> QED
    BY <2>1 DEF Iterates
<1>14. \A k \in 0..n : g[k] = Body(g[k - 1], k)
  <2>1. ASSUME NEW k \in 0..n, k # 0
        PROVE  g[k] = Body(g[k - 1], k)
    <3>1. k \in 1..n /\ k - 1 \in 0..n
      BY <1>1, <2>1
    <3>2. <<g[k - 1], k>> \in V \X (1..n)
      BY <1>13, <3>1
    <3> QED
      BY <1>9, <1>13, <2>1, <3>1, <3>2
  <2> QED
    BY <1>1, <1>8, <1>13, <2>1
<1>15. g = [k \in 0..n |-> Body(g[k - 1], k)]
  BY <1>13, <1>14
<1> DEFINE f == CHOOSE f : f = [k \in 0..n |-> Body(f[k - 1], k)]
<1>16. f = [k \in 0..n |-> Body(f[k - 1], k)]
  BY <1>15
<1>17. Clusters(B) = f[n]
  BY <1>7
<1> HIDE DEF f
<1>18. f[0] = S /\ \A k \in 1..n : f[k] = Pass(f[k - 1])
  <2>1. \A k \in 0..n : f[k] = Body(f[k - 1], k)
    BY <1>16
  <2>2. 0 \in 0..n /\ \A k \in 1..n : k \in 0..n /\ k # 0
    BY <1>1
  <2>3. f[0] = Body(f[0 - 1], 0)
    BY <2>1, <2>2
  <2> QED
    BY <1>8, <1>9, <2>1, <2>2, <2>3
<1> DEFINE T == {k \in Nat : k <= n => /\ f[k] \in V
                                       /\ Apart(f[k]) \/ Cardinality(f[k]) + k <= n}
<1>19. 0 \in T
  BY <1>1, <1>3, <1>4, <1>18
<1>20. ASSUME NEW k \in Nat, k \in T
       PROVE  k + 1 \in T
  <2> SUFFICES ASSUME k + 1 <= n
               PROVE  /\ f[k + 1] \in V
                      /\ Apart(f[k + 1]) \/ Cardinality(f[k + 1]) + (k + 1) <= n
    OBVIOUS
  <2>1. f[k] \in V /\ (Apart(f[k]) \/ Cardinality(f[k]) + k <= n)
    BY <1>1, <1>20
  <2>2. f[k + 1] = Pass(f[k])
    <3>1. k + 1 \in 1..n /\ (k + 1) - 1 = k
      BY <1>1
    <3> QED
      BY <1>18, <3>1
  <2>3. f[k + 1] \in V
    BY <1>2, <2>1, <2>2
  <2>4. CASE Apart(f[k])
    BY <1>5, <2>1, <2>2, <2>3, <2>4
  <2>5. CASE ~Apart(f[k])
    <3>1. Cardinality(f[k + 1]) < Cardinality(f[k])
      BY <1>6, <2>1, <2>2, <2>5
    <3>2. Cardinality(f[k + 1]) + (k + 1) <= n
      BY <1>1, <1>4, <2>1, <2>3, <2>5, <3>1
    <3> QED
      BY <2>3, <3>2
  <2> QED
    BY <2>4, <2>5
<1>21. n \in T
  <2> HIDE DEF T
  <2> QED
    BY <1>1, <1>19, <1>20, SetInduction
<1>22. f[n] \in V /\ (Apart(f[n]) \/ Cardinality(f[n]) + n <= n)
  BY <1>1, <1>21
<1>23. CASE ~Apart(f[n])
  <2>1. Cardinality(f[n]) = 0
    BY <1>1, <1>4, <1>22, <1>23
  <2>2. f[n] = {}
    BY <1>4, <1>22, <2>1, FS_EmptySet
  <2> QED
    BY <1>23, <2>2 DEF Apart
<1> QED
  BY <1>10, <1>17, <1>22, <1>23

-----------------------------------------------------------------------------
\* Groups

Typed == StoreTyped /\ retag \in Retags \cup {NoRetag}

\* What the tool reads of a memory; to be untagged is not changed by a move.
LEMMA SceneFields ==
  ASSUME Typed, NEW i \in Scenes
  PROVE  /\ SessionOf(i) \in Session /\ Key(i) \in Look \cup {NoLook}
         /\ store[i].zone \in Zone /\ store[i].pos \in Position /\ store[i].count \in Nat \ {0}
         /\ store[i].mapId \in Session
         /\ SessionOf(i) = Untagged <=> store[i].mapId = Untagged
<1>1. i \in SceneId /\ store[i] \in Memory
  BY SceneFacts DEF Typed
<1>2. /\ store[i].mapId \in Session /\ store[i].look \in Look \cup {NoLook}
      /\ store[i].zone \in Zone /\ store[i].pos \in Position /\ store[i].count \in Nat \ {0}
  BY <1>1 DEF Memory
<1>3. Key(i) \in Look \cup {NoLook}
  BY <1>1, <1>2, CompactionAssumption DEF Key
<1>4. SessionOf(i) \in Session /\ (SessionOf(i) = Untagged <=> store[i].mapId = Untagged)
  <2>1. retag # NoRetag => retag[1] \in Session \ {Untagged} /\ retag[2] \in Session \ {Untagged}
    BY CompactionAssumption DEF Typed
  <2> QED
    BY <1>2, <2>1 DEF SessionOf
<1> QED
  BY <1>2, <1>3, <1>4

\* The observations of stored memories are finitely many, and some are there.
LEMMA ObservationsFinite ==
  ASSUME StoreTyped, NEW C \in SUBSET Everything
  PROVE  /\ IsFiniteSet(Observations(C)) /\ Total(C) \in Nat
         /\ C # {} => Total(C) \in Nat \ {0}
<1>1. \A i \in C : i \in Id /\ store[i].count \in Nat \ {0}
  BY DEF Everything, Stored, StoreTyped, Memory
<1> DEFINE O == {{i} \X (1..store[i].count) : i \in C}
           o == [i \in C |-> {i} \X (1..store[i].count)]
<1>2. IsFiniteSet(C)
  BY IdsAreFinite, FS_Subset DEF Everything
<1>3. o \in Surjection(C, O)
  BY DEF Surjection
<1>4. IsFiniteSet(O)
  <2> HIDE DEF o, O
  <2> QED
    BY <1>2, <1>3, FS_Surjection
<1>5. \A T \in O : IsFiniteSet(T)
  <2> SUFFICES ASSUME NEW i \in C
               PROVE  IsFiniteSet({i} \X (1..store[i].count))
    OBVIOUS
  <2>1. IsFiniteSet({i}) /\ IsFiniteSet(1..store[i].count)
    <3>1. store[i].count \in Int
      BY <1>1
    <3>2. IsFiniteSet({i})
      BY FS_Singleton
    <3>3. IsFiniteSet(1..store[i].count)
      BY <3>1, FS_Interval
    <3> QED
      BY <3>2, <3>3
  <2> QED
    BY <2>1, FS_Product
<1>6. IsFiniteSet(Observations(C)) /\ Total(C) \in Nat
  <2>1. IsFiniteSet(UNION O)
    <3> HIDE DEF O
    <3> QED
      BY <1>4, <1>5, FS_UNION
  <2> QED
    BY <2>1, FS_CardinalityType DEF Observations, Total
<1>7. ASSUME NEW i \in C
      PROVE  Total(C) # 0
  <2>1. <<i, 1>> \in Observations(C)
    BY <1>1 DEF Observations
  <2> QED
    BY <1>6, <2>1, FS_EmptySet DEF Total
<1> QED
  BY <1>6, <1>7

\* A group is of stored memories of one session, zone and key, and what is kept
\* is one of them with the observations of all.
Formed(g) ==
  /\ g \in Grouping /\ g.keep \notin g.drop /\ Ids(g) \subseteq Scenes
  /\ g.memory.mapId = SessionOf(g.keep) /\ g.memory.look = Key(g.keep)
  /\ g.memory.zone = store[g.keep].zone /\ g.memory.pos = store[g.keep].pos
  /\ g.memory.count = Total(Ids(g))

LEMMA GroupFacts ==
  ASSUME Typed, NEW s \in Session, NEW z \in Zone, NEW l \in Look,
         NEW C \in Clusters(Bucket(s, z, l))
  PROVE  LET g == Fold(C, s, l) IN
         /\ Formed(g) /\ Ids(g) = C /\ g.keep = Medoid(C) /\ g.keep \in C
         /\ C # {} /\ C \in SUBSET Scenes
         /\ \A i \in C : SessionOf(i) = s /\ store[i].zone = z /\ Key(i) = l
<1> DEFINE g == Fold(C, s, l)
           B == Bucket(s, z, l)
<1>1. B \in SUBSET Scenes /\ \A i \in B : SessionOf(i) = s /\ store[i].zone = z /\ Key(i) = l
  BY DEF Bucket, Scenes
<1> HIDE DEF B
<1>2. Partition(Clusters(B), B)
  BY <1>1, ClustersFacts DEF Typed
<1>3. C \in SUBSET Scenes /\ C # {} /\ C \subseteq B
  BY <1>1, <1>2 DEF Partition, B
<1>4. Medoid(C) \in C
  BY <1>3, MedoidIn DEF Typed
<1>5. store[Medoid(C)] \in Memory /\ Medoid(C) \in SceneId
  BY <1>3, <1>4, SceneFacts DEF Typed
<1>6. Total(C) \in Nat \ {0}
  <2>1. C \in SUBSET Everything
    BY <1>3 DEF Scenes, Everything, Id
  <2> QED
    BY <1>3, <2>1, ObservationsFinite DEF Typed
<1>7. /\ g.keep = Medoid(C) /\ g.drop = C \ {Medoid(C)} /\ Ids(g) = C
      /\ g.memory = [store[Medoid(C)] EXCEPT !.mapId = s, !.look = l, !.count = Total(C)]
      /\ g = [keep |-> g.keep, drop |-> g.drop, memory |-> g.memory]
  BY <1>4 DEF Fold, Ids
<1>8. /\ g.memory \in Memory /\ g.memory.mapId = s /\ g.memory.look = l
      /\ g.memory.zone = store[Medoid(C)].zone /\ g.memory.pos = store[Medoid(C)].pos
      /\ g.memory.count = Total(C)
  BY <1>5, <1>6, <1>7 DEF Memory
<1> HIDE DEF g
<1>9. g \in Grouping
  <2>1. g.keep \in SceneId /\ g.drop \in SUBSET SceneId
    BY <1>3, <1>5, <1>7 DEF Scenes
  <2> QED
    BY <1>7, <1>8, <2>1 DEF Grouping
<1>10. SessionOf(Medoid(C)) = s /\ Key(Medoid(C)) = l
  BY <1>1, <1>3, <1>4
<1>11. Formed(g)
  BY <1>3, <1>7, <1>8, <1>9, <1>10 DEF Formed
<1>12. \A i \in C : SessionOf(i) = s /\ store[i].zone = z /\ Key(i) = l
  BY <1>1, <1>3
<1> QED
  BY <1>3, <1>4, <1>7, <1>11, <1>12 DEF g

LEMMA GroupOf ==
  ASSUME NEW g
  PROVE  g \in Groups <=>
           \E s \in Session, z \in Zone, l \in Look :
             \E C \in Clusters(Bucket(s, z, l)) : Cardinality(C) > 1 /\ g = Fold(C, s, l)
<1>1. ASSUME g \in Groups
      PROVE  \E s \in Session, z \in Zone, l \in Look :
               \E C \in Clusters(Bucket(s, z, l)) : Cardinality(C) > 1 /\ g = Fold(C, s, l)
  BY <1>1 DEF Groups
<1>2. ASSUME NEW s \in Session, NEW z \in Zone, NEW l \in Look,
             NEW C \in Clusters(Bucket(s, z, l)), Cardinality(C) > 1, g = Fold(C, s, l)
      PROVE  g \in Groups
  <2> DEFINE G == {Fold(D, s, l) : D \in {E \in Clusters(Bucket(s, z, l)) : Cardinality(E) > 1}}
  <2>1. g \in G
    BY <1>2
  <2>2. G \in {{Fold(D, t, k) : D \in {E \in Clusters(Bucket(t, y, k)) : Cardinality(E) > 1}} :
                 t \in Session, y \in Zone, k \in Look}
    OBVIOUS
  <2> HIDE DEF G
  <2> QED
    BY <2>1, <2>2 DEF Groups
<1> QED
  BY <1>1, <1>2

\* Every group is well formed, of one session, and no two share a memory.
LEMMA GroupsFormed ==
  ASSUME Typed
  PROVE  /\ \A g \in Groups : Formed(g) /\ \A i \in Ids(g) : SessionOf(i) = SessionOf(g.keep)
         /\ \A g, h \in Groups : g # h => Ids(g) \cap Ids(h) = {}
<1>1. ASSUME NEW g \in Groups
      PROVE  Formed(g) /\ \A i \in Ids(g) : SessionOf(i) = SessionOf(g.keep)
  <2>1. PICK s \in Session, z \in Zone, l \in Look :
          \E C \in Clusters(Bucket(s, z, l)) : g = Fold(C, s, l)
    BY GroupOf
  <2>2. PICK C \in Clusters(Bucket(s, z, l)) : g = Fold(C, s, l)
    BY <2>1
  <2> QED
    BY <2>2, GroupFacts
<1>2. ASSUME NEW g \in Groups, NEW h \in Groups, NEW i \in Ids(g), i \in Ids(h)
      PROVE  g = h
  <2>1. PICK s \in Session, z \in Zone, l \in Look :
          \E C \in Clusters(Bucket(s, z, l)) : g = Fold(C, s, l)
    BY GroupOf
  <2>2. PICK C \in Clusters(Bucket(s, z, l)) : g = Fold(C, s, l)
    BY <2>1
  <2>3. PICK t \in Session, y \in Zone, k \in Look :
          \E D \in Clusters(Bucket(t, y, k)) : h = Fold(D, t, k)
    BY GroupOf
  <2>4. PICK D \in Clusters(Bucket(t, y, k)) : h = Fold(D, t, k)
    BY <2>3
  <2>5. i \in C /\ SessionOf(i) = s /\ store[i].zone = z /\ Key(i) = l
    BY <2>2, <1>2, GroupFacts
  <2>6. i \in D /\ SessionOf(i) = t /\ store[i].zone = y /\ Key(i) = k
    BY <2>4, <1>2, GroupFacts
  <2>7. s = t /\ z = y /\ l = k
    BY <2>5, <2>6
  <2>8. Bucket(s, z, l) \in SUBSET Scenes
    BY DEF Bucket, Scenes
  <2>9. C = D
    BY <2>5, <2>6, <2>7, <2>8, ClustersFacts DEF Partition, Typed
  <2> QED
    BY <2>2, <2>4, <2>7, <2>9
<1> QED
  BY <1>1, <1>2

\* Of two memories of one session, zone and key within the radius one is replaced.
LEMMA CloseAreFolded ==
  ASSUME Typed, NEW i \in Scenes, NEW j \in Scenes, i # j,
         SessionOf(i) = SessionOf(j), store[i].zone = store[j].zone,
         Key(i) = Key(j), Key(i) # NoLook, Dist(store[i].pos, store[j].pos) <= Radius
  PROVE  \E g \in Groups : /\ i \in g.drop \/ j \in g.drop
                           /\ SessionOf(g.keep) = SessionOf(i)
<1> DEFINE s == SessionOf(i)
           z == store[i].zone
           l == Key(i)
           B == Bucket(s, z, l)
<1>1. s \in Session /\ z \in Zone /\ l \in Look
  BY SceneFields
<1>2. i \in B /\ j \in B /\ B \in SUBSET Scenes
  BY DEF Bucket, Scenes
<1>3. Partition(Clusters(B), B) /\ Apart(Clusters(B))
  BY <1>2, ClustersFacts DEF Typed
<1> HIDE DEF s, z, l, B
<1>4. PICK C \in Clusters(B), D \in Clusters(B) : i \in C /\ j \in D
  BY <1>2, <1>3 DEF Partition
<1>5. C \in SUBSET Scenes /\ D \in SUBSET Scenes /\ C # {} /\ D # {}
  BY <1>2, <1>3, <1>4 DEF Partition
<1>6. Medoid(C) \in C /\ Medoid(D) \in D
  BY <1>5, MedoidIn DEF Typed
<1>7. ~(i = Medoid(C) /\ j = Medoid(D))
  <2> SUFFICES ASSUME i = Medoid(C), j = Medoid(D)
               PROVE  FALSE
    OBVIOUS
  <2>1. C # D
    OBVIOUS
  <2>2. CloseBy(C, D)
    BY DEF CloseBy
  <2> QED
    BY <1>3, <1>4, <2>1, <2>2 DEF Apart
<1>8. ASSUME NEW E \in Clusters(B), NEW e \in E, E \in SUBSET Scenes, Medoid(E) \in E,
             e # Medoid(E)
      PROVE  Fold(E, s, l) \in Groups /\ e \in Fold(E, s, l).drop /\ SessionOf(Fold(E, s, l).keep) = s
  <2>1. IsFiniteSet(E)
    BY <1>8, IdsAreFinite, FS_Subset DEF Scenes
  <2>2. {e, Medoid(E)} \subseteq E /\ Cardinality({e, Medoid(E)}) = 2
    <3>1. IsFiniteSet({e}) /\ Cardinality({e}) = 1
      BY FS_Singleton
    <3>2. Cardinality({e} \cup {Medoid(E)}) = 2
      <4>1. Medoid(E) \notin {e}
        BY <1>8
      <4>2. Cardinality({e} \cup {Medoid(E)}) = Cardinality({e}) + 1
        BY <3>1, <4>1, FS_AddElement
      <4> QED
        BY <3>1, <4>2
    <3>3. {e} \cup {Medoid(E)} = {e, Medoid(E)}
      OBVIOUS
    <3> QED
      BY <1>8, <3>2, <3>3
  <2>3. Cardinality(E) > 1
    <3>1. Cardinality({e, Medoid(E)}) <= Cardinality(E) /\ Cardinality(E) \in Nat
      BY <2>1, <2>2, FS_Subset, FS_CardinalityType
    <3> QED
      BY <2>2, <3>1
  <2>4. Fold(E, s, l) \in Groups
    BY <1>1, <2>3, GroupOf DEF B
  <2>5. e \in Fold(E, s, l).drop
    BY <1>8 DEF Fold
  <2>6. SessionOf(Fold(E, s, l).keep) = s
    BY <1>1, <1>8, GroupFacts DEF B
  <2> QED
    BY <2>4, <2>5, <2>6
<1> QED
  BY <1>4, <1>5, <1>6, <1>7, <1>8 DEF s

-----------------------------------------------------------------------------
\* Counting

\* Some groups, and some memories to be pruned, are fit to be written.
Fit(G, pruned) ==
  /\ \A g \in G : Formed(g) /\ Ids(g) \cap pruned = {}
  /\ \A g, h \in G : g # h => Ids(g) \cap Ids(h) = {}
  /\ pruned \subseteq Everything

Dropped(G) == UNION {g.drop : g \in G}

\* What a memory is folded into, itself if it is in no group.
KeptAs(G, j) ==
  IF \E g \in G : j \in Ids(g) THEN (CHOOSE g \in G : j \in Ids(g)).keep ELSE j

LEMMA KeptFacts ==
  ASSUME StoreTyped, NEW G, NEW pruned, Fit(G, pruned), NEW j \in Everything \ pruned
  PROVE  /\ \A g \in G : j \in Ids(g) => KeptAs(G, j) = g.keep
         /\ (\A g \in G : j \notin Ids(g)) => KeptAs(G, j) = j
         /\ KeptAs(G, j) \in (Everything \ pruned) \ Dropped(G)
<1>1. ASSUME NEW g \in G, j \in Ids(g)
      PROVE  KeptAs(G, j) = g.keep
  <2>1. \A h \in G : j \in Ids(h) => h = g
    BY <1>1 DEF Fit
  <2>2. (CHOOSE h \in G : j \in Ids(h)) = g
    BY <1>1, <2>1
  <2> QED
    BY <1>1, <2>2 DEF KeptAs
<1>2. ASSUME \A g \in G : j \notin Ids(g)
      PROVE  KeptAs(G, j) = j
  BY <1>2 DEF KeptAs
<1>3. ASSUME NEW g \in G, j \in Ids(g)
      PROVE  KeptAs(G, j) \in (Everything \ pruned) \ Dropped(G)
  <2>1. g.keep \in Ids(g) /\ g.keep \in Scenes /\ g.keep \notin pruned /\ g.keep \notin g.drop
    BY DEF Fit, Formed, Ids
  <2>2. \A h \in G : g.keep \notin h.drop
    BY <2>1 DEF Fit, Ids
  <2>3. g.keep \in Everything
    BY <2>1 DEF Scenes, Everything, Id
  <2> QED
    BY <1>1, <1>3, <2>1, <2>2, <2>3 DEF Dropped
<1>4. ASSUME \A g \in G : j \notin Ids(g)
      PROVE  KeptAs(G, j) \in (Everything \ pruned) \ Dropped(G)
  BY <1>2, <1>4 DEF Dropped, Ids
<1> QED
  BY <1>1, <1>2, <1>3, <1>4

LEMMA RecountStore ==
  ASSUME StoreTyped, Recount, \A g \in plan.groups : g \in Grouping
  PROVE  /\ StoreTyped' /\ Everything' = Everything /\ Scenes' = Scenes
         /\ \A i \in Id : (\A g \in plan.groups : g.keep # i) => store'[i] = store[i]
         /\ \A i \in Id : ~Stored(i) => store'[i] = store[i]
         /\ \A g \in plan.groups : 
              Stored(g.keep) /\ (\A h \in plan.groups : h.keep = g.keep => h = g)
              => store'[g.keep] = g.memory
<1> DEFINE f == [i \in {g.keep : g \in plan.groups} |->
                   (CHOOSE g \in plan.groups : g.keep = i).memory]
<1>1. store' = [i \in Id |-> IF i \in DOMAIN f /\ Stored(i) THEN f[i] ELSE store[i]]
  BY DEF Recount, Rewrite
<1>2. \A i \in DOMAIN f : f[i] \in Memory
  <2> TAKE i \in DOMAIN f
  <2>1. \E g \in plan.groups : g.keep = i
    OBVIOUS
  <2>2. (CHOOSE g \in plan.groups : g.keep = i) \in plan.groups
    BY <2>1
  <2> QED
    BY <2>2 DEF Grouping
<1>3. ASSUME NEW g \in plan.groups, \A h \in plan.groups : h.keep = g.keep => h = g
      PROVE  g.keep \in DOMAIN f /\ f[g.keep] = g.memory
  <2>1. (CHOOSE h \in plan.groups : h.keep = g.keep) = g
    BY <1>3
  <2> QED
    BY <2>1
<1>4. DOMAIN f = {g.keep : g \in plan.groups}
  OBVIOUS
<1>5. \A g \in plan.groups : g.keep \in Id
  BY DEF Grouping, Id
<1> HIDE DEF f
<1>6. \A i \in Id : store'[i] = IF i \in DOMAIN f /\ Stored(i) THEN f[i] ELSE store[i]
  BY <1>1
<1>7. \A i \in Id : (store'[i] # Absent <=> Stored(i))
  BY <1>2, <1>6, SentinelAssumption DEF Stored
<1>8. StoreTyped'
  BY <1>1, <1>2 DEF StoreTyped
<1>9. Everything' = Everything /\ Scenes' = Scenes
  BY <1>7 DEF Everything, Scenes, Stored, Id
<1> QED
  BY <1>3, <1>4, <1>5, <1>6, <1>8, <1>9

\* Writing the counts: what is not dropped then stands for as many observations as
\* all that was stored before.
LEMMA RecountTotal ==
  ASSUME StoreTyped, NEW pruned, Fit(plan.groups, pruned), Recount,
         NEW E, E = Everything \ pruned, NEW F, F = E \ Dropped(plan.groups)
  PROVE  Total(F)' = Total(E)
<1> DEFINE G == plan.groups
           S == UNION {{i} \X (1..store'[i].count) : i \in F}
           T == UNION {{i} \X (1..store[i].count) : i \in E}
           p == [x \in S |-> x[1]]
           q == [x \in T |-> KeptAs(G, x[1])]
<1>1. /\ StoreTyped' /\ Everything' = Everything
      /\ \A i \in Id : (\A g \in G : g.keep # i) => store'[i] = store[i]
      /\ \A g \in G : Stored(g.keep) /\ (\A h \in G : h.keep = g.keep => h = g)
                      => store'[g.keep] = g.memory
  <2>1. \A g \in plan.groups : g \in Grouping
    BY DEF Fit, Formed
  <2> QED
    BY <2>1, RecountStore
<1>2. \A g \in G : store'[g.keep] = g.memory
  <2> TAKE g \in G
  <2>1. g.keep \in Ids(g) /\ g.keep \in Scenes /\ \A h \in G : h.keep \in Ids(h)
    BY DEF Fit, Formed, Ids
  <2>2. \A h \in G : h.keep = g.keep => h = g
    BY <2>1 DEF Fit
  <2> QED
    BY <1>1, <2>1, <2>2 DEF Scenes
<1>3. E \in SUBSET Everything /\ F \in SUBSET E
  OBVIOUS
<1>4. IsFiniteSet(T) /\ Total(E) = Cardinality(T)
  BY <1>3, ObservationsFinite DEF Observations, Total
<1>5. IsFiniteSet(S) /\ Total(F)' = Cardinality(S)
  <2>1. \A i \in F : i \in Id /\ store'[i].count \in Nat \ {0}
    <3>1. StoreTyped' /\ \A i \in F : i \in Everything'
      BY <1>1, <1>3
    <3> QED
      BY <3>1 DEF Everything, Stored, StoreTyped, Memory
  <2> DEFINE O == {{i} \X (1..store'[i].count) : i \in F}
             o == [i \in F |-> {i} \X (1..store'[i].count)]
  <2>2. IsFiniteSet(F)
    BY <1>3, IdsAreFinite, FS_Subset DEF Everything
  <2>3. o \in Surjection(F, O)
    BY DEF Surjection
  <2>4. IsFiniteSet(O)
    <3> HIDE DEF o, O
    <3> QED
      BY <2>2, <2>3, FS_Surjection
  <2>5. \A U \in O : IsFiniteSet(U)
    <3> SUFFICES ASSUME NEW i \in F
                 PROVE  IsFiniteSet({i} \X (1..store'[i].count))
      OBVIOUS
    <3>1. store'[i].count \in Nat
      BY <2>1
    <3> QED
      BY <3>1, RowSize
  <2>6. IsFiniteSet(UNION O)
    <3> HIDE DEF O
    <3> QED
      BY <2>4, <2>5, FS_UNION
  <2> QED
    BY <2>6 DEF Observations, Total
<1>6. \A x \in S : x[1] \in F /\ x = <<x[1], x[2]>> /\ x[2] \in 1..store'[x[1]].count
  OBVIOUS
<1>7. \A x \in T : x[1] \in E /\ x = <<x[1], x[2]>> /\ x[2] \in 1..store[x[1]].count
  OBVIOUS
<1>8. \A i \in F : \A n \in 1..store'[i].count : <<i, n>> \in S
  OBVIOUS
<1>9. \A i \in E : \A n \in 1..store[i].count : <<i, n>> \in T
  OBVIOUS
<1>10. \A j \in E : /\ \A g \in G : j \in Ids(g) => KeptAs(G, j) = g.keep
                    /\ (\A g \in G : j \notin Ids(g)) => KeptAs(G, j) = j
                    /\ KeptAs(G, j) \in F
  BY KeptFacts
<1>11. p \in [S -> F] /\ \A x \in S : p[x] = x[1]
  BY <1>6
<1>12. q \in [T -> F] /\ \A x \in T : q[x] = KeptAs(G, x[1])
  BY <1>7, <1>10
<1> HIDE DEF S, T, p, q
<1>13. ASSUME NEW k \in F
       PROVE  Cardinality(Fibre(S, p, k)) = Cardinality(Fibre(T, q, k))
  <2>1. Fibre(S, p, k) = {k} \X (1..store'[k].count)
    BY <1>6, <1>8, <1>11 DEF Fibre
  <2>2. store'[k].count \in Nat /\ k \in Id /\ store[k].count \in Nat
    <3>1. k \in Everything /\ k \in Everything'
      BY <1>1, <1>3
    <3> QED
      BY <1>1, <3>1 DEF Everything, Stored, StoreTyped, Memory
  <2>3. Cardinality(Fibre(S, p, k)) = store'[k].count
    BY <2>1, <2>2, RowSize
  <2>4. CASE \E g \in G : k \in Ids(g)
    <3>1. PICK g \in G : k \in Ids(g)
      BY <2>4
    <3>2. k = g.keep
      BY <3>1 DEF Dropped, Ids
    <3>3. store'[k].count = Total(Ids(g))
      BY <1>2, <3>2 DEF Fit, Formed
    <3>4. Ids(g) \subseteq E
      BY DEF Fit, Formed, Scenes, Everything, Id
    <3>5. \A j \in E : KeptAs(G, j) = k <=> j \in Ids(g)
      <4>1. ASSUME NEW j \in E, KeptAs(G, j) = k
            PROVE  j \in Ids(g)
        <5>1. CASE \E h \in G : j \in Ids(h)
          <6>1. PICK h \in G : j \in Ids(h)
            BY <5>1
          <6>2. h.keep = k /\ h.keep \in Ids(h)
            BY <1>10, <4>1, <6>1 DEF Ids
          <6>3. h = g
            BY <3>1, <6>2 DEF Fit
          <6> QED
            BY <6>1, <6>3
        <5>2. CASE ~\E h \in G : j \in Ids(h)
          BY <1>10, <3>1, <4>1, <5>2
        <5> QED
          BY <5>1, <5>2
      <4> QED
        BY <1>10, <3>2, <4>1
    <3>6. Fibre(T, q, k) = UNION {{i} \X (1..store[i].count) : i \in Ids(g)}
      <4>1. ASSUME NEW x \in Fibre(T, q, k)
            PROVE  x \in UNION {{i} \X (1..store[i].count) : i \in Ids(g)}
        <5>1. x \in T /\ KeptAs(G, x[1]) = k
          BY <1>12 DEF Fibre
        <5>2. x[1] \in Ids(g) /\ x = <<x[1], x[2]>> /\ x[2] \in 1..store[x[1]].count
          BY <1>7, <3>5, <5>1
        <5> QED
          BY <5>2
      <4>2. ASSUME NEW i \in Ids(g), NEW n \in 1..store[i].count
            PROVE  <<i, n>> \in Fibre(T, q, k)
        <5>1. <<i, n>> \in T /\ KeptAs(G, i) = k
          BY <1>9, <3>4, <3>5
        <5> QED
          BY <1>12, <5>1 DEF Fibre
      <4> QED
        BY <4>1, <4>2
    <3>7. Cardinality(Fibre(T, q, k)) = Total(Ids(g))
      BY <3>6 DEF Total, Observations
    <3> QED
      BY <2>3, <3>3, <3>7
  <2>5. CASE ~\E g \in G : k \in Ids(g)
    <3>1. store'[k] = store[k]
      BY <1>1, <2>2, <2>5 DEF Ids
    <3>2. \A j \in E : KeptAs(G, j) = k <=> j = k
      <4>1. ASSUME NEW j \in E, KeptAs(G, j) = k
            PROVE  j = k
        <5>1. ~\E h \in G : j \in Ids(h)
          BY <1>10, <2>5, <4>1 DEF Ids
        <5> QED
          BY <1>10, <4>1, <5>1
      <4> QED
        BY <1>3, <1>10, <2>5, <4>1
    <3>3. Fibre(T, q, k) = {k} \X (1..store[k].count)
      <4>1. k \in E
        BY <1>3
      <4> QED
        BY <1>7, <1>9, <1>12, <3>2, <4>1 DEF Fibre
    <3>4. Cardinality(Fibre(T, q, k)) = store[k].count
      BY <2>2, <3>3, RowSize
    <3> QED
      BY <2>3, <3>1, <3>4
  <2> QED
    BY <2>4, <2>5
<1>14. SameFibres(S, p, T, q, F)
  BY <1>11, <1>12, <1>13 DEF SameFibres
<1> QED
  BY <1>4, <1>5, <1>14, Fibres

-----------------------------------------------------------------------------
\* What a run of the tool has reached, step by step

\* Memories of one session, zone and look that lie within the radius.
Close(i, j) ==
  /\ i # j /\ SessionOf(i) = SessionOf(j) /\ store[i].zone = store[j].zone
  /\ Key(i) = Key(j) /\ Key(i) # NoLook /\ Dist(store[i].pos, store[j].pos) <= Radius

\* None lie close, but for those of gone.
ApartBut(gone) == \A i, j \in Scenes : Close(i, j) => i \in gone \/ j \in gone

Gone == plan.pruned \cup Dropped(plan.groups)

\* Planned, and nothing written: or the sessions moved, which changes none of it.
Readied ==
  /\ Fit(plan.groups, plan.pruned) /\ ApartBut(Gone)
  /\ before = Total(Everything \ plan.pruned)

\* Those to be moved are of the session that is moved.
Moving == \A i \in plan.retagged : retag # NoRetag /\ Stored(i) /\ store[i].mapId = retag[1]

\* The counts are written: what stays is apart and stands for all that was there.
Counted == ApartBut(Gone) /\ before = Total(Everything \ Gone)

\* The rest is gone.
Cleared == ApartBut({}) /\ before = Total(Everything \ plan.pruned)

\* How far the tool has come, while rag_node was not started beside it.
Progress ==
  ~touched =>
    /\ ~running
    /\ tool = "retag" => Readied /\ Moving
    /\ tool = "count" => Readied
    /\ tool = "delete" => Counted
    /\ tool = "done" => Cleared

\* What is planned fits, and leaves nothing close.
LEMMA PlanFits ==
  ASSUME Typed, NEW pruned, pruned = {} \/ pruned = {i \in Everything : store[i].mapId = Untagged},
         NEW G, G = {g \in Groups : g.keep \notin pruned}
  PROVE  Fit(G, pruned) /\ ApartBut(pruned \cup Dropped(G))
<1>1. \A i \in Scenes : i \in Everything /\ (SessionOf(i) = Untagged <=> store[i].mapId = Untagged)
  BY SceneFields DEF Scenes, Everything, Id
<1>2. \A i \in Scenes : i \in pruned => SessionOf(i) = Untagged
  BY <1>1
<1>3. \A i, j \in Scenes : SessionOf(i) = SessionOf(j) /\ i \in pruned => j \in pruned
  BY <1>1
<1>4. ASSUME NEW g \in G
      PROVE  Formed(g) /\ Ids(g) \cap pruned = {}
  <2>1. Formed(g) /\ \A i \in Ids(g) : SessionOf(i) = SessionOf(g.keep)
    BY GroupsFormed
  <2>2. g.keep \in Scenes /\ Ids(g) \subseteq Scenes /\ g.keep \notin pruned
    BY <2>1 DEF Formed, Ids
  <2> QED
    BY <1>3, <2>1, <2>2
<1>5. \A g, h \in G : g # h => Ids(g) \cap Ids(h) = {}
  BY GroupsFormed
<1>6. pruned \subseteq Everything
  OBVIOUS
<1>7. Fit(G, pruned)
  BY <1>4, <1>5, <1>6 DEF Fit
<1>8. ASSUME NEW i \in Scenes, NEW j \in Scenes, Close(i, j), i \notin pruned
      PROVE  i \in Dropped(G) \/ j \in Dropped(G)
  <2>1. PICK g \in Groups : /\ i \in g.drop \/ j \in g.drop
                            /\ SessionOf(g.keep) = SessionOf(i)
    BY <1>8, CloseAreFolded DEF Close
  <2>2. g.keep \in Scenes
    BY GroupsFormed DEF Formed, Ids
  <2>3. g \in G
    BY <1>3, <1>8, <2>1, <2>2
  <2> QED
    BY <2>1, <2>3 DEF Dropped
<1> QED
  BY <1>7, <1>8 DEF ApartBut

LEMMA PlanStep ==
  ASSUME Typed, PlanCompaction, Progress
  PROVE  Progress'
<1> DEFINE pruned == IF prune THEN {i \in Everything : store[i].mapId = Untagged} ELSE {}
           moved == {i \in Everything : SessionOf(i) # store[i].mapId}
           G == {g \in Groups : g.keep \notin pruned}
<1>1. /\ plan' = [groups |-> G, retagged |-> moved, pruned |-> pruned]
      /\ before' = Total(Everything \ pruned)
      /\ tool' = IF plan' = NoPlan THEN "done" ELSE "retag"
      /\ UNCHANGED <<vars, retag, prune, runs, touched>>
  BY Zenon DEF PlanCompaction
<1>2. plan'.groups = G /\ plan'.retagged = moved /\ plan'.pruned = pruned
  BY <1>1
<1>3. pruned = {} \/ pruned = {i \in Everything : store[i].mapId = Untagged}
  OBVIOUS
<1>4. Fit(G, pruned) /\ ApartBut(pruned \cup Dropped(G))
  BY <1>3, PlanFits
<1>5. \A i \in moved : retag # NoRetag /\ Stored(i) /\ store[i].mapId = retag[1]
  BY DEF Everything, SessionOf
<1> HIDE DEF G, pruned, moved
<1>6. store' = store /\ retag' = retag /\ running' = running /\ touched' = touched
  BY <1>1 DEF vars
<1>7. Fit(plan.groups, plan.pruned)'
  BY <1>2, <1>4, <1>6 DEF Fit, Formed, Scenes, Everything, Stored, SessionOf, Key, Total, Observations
<1>8. ApartBut(Gone)'
  BY <1>2, <1>4, <1>6 DEF ApartBut, Gone, Close, Scenes, Stored, SessionOf, Key, Dropped
<1>9. Moving'
  BY <1>2, <1>5, <1>6 DEF Moving, Stored
<1>10. (before = Total(Everything \ plan.pruned))'
  BY <1>1, <1>2, <1>6 DEF Total, Observations, Everything, Stored
<1>11. CASE plan' = NoPlan
  <2>1. Gone' = {}
    BY <1>11 DEF Gone, NoPlan, Dropped
  <2>2. ApartBut({})'
    BY <1>8, <2>1 DEF ApartBut
  <2>3. Cleared'
    BY <1>10, <2>2 DEF Cleared
  <2> QED
    BY <1>1, <1>6, <1>11, <2>3 DEF Progress
<1>12. CASE plan' # NoPlan
  BY <1>1, <1>6, <1>7, <1>8, <1>9, <1>10, <1>12 DEF Progress, Readied
<1> QED
  BY <1>11, <1>12

LEMMA SameTotal ==
  ASSUME NEW C, \A i \in C : store'[i].count = store[i].count
  PROVE  Total(C)' = Total(C)
<1>1. UNION {{i} \X (1..store'[i].count) : i \in C} = UNION {{i} \X (1..store[i].count) : i \in C}
  OBVIOUS
<1> QED
  BY <1>1 DEF Total, Observations

\* A step that leaves what is stored, under which session, zone, key and count.
LEMMA AlikeStores ==
  ASSUME \A i \in Id : Stored(i)' <=> Stored(i),
         \A i \in Everything :
           /\ SessionOf(i)' = SessionOf(i)
           /\ store'[i].zone = store[i].zone /\ store'[i].pos = store[i].pos,
         \A i \in Scenes : Key(i)' = Key(i)
  PROVE  /\ Everything' = Everything /\ Scenes' = Scenes
         /\ \A gone : ApartBut(gone) => ApartBut(gone)'
<1>1. Everything' = Everything /\ Scenes' = Scenes
  BY DEF Everything, Scenes, Id
<1>2. \A i, j \in Scenes : Close(i, j)' => Close(i, j)
  BY DEF Close, Scenes, Everything, Id
<1> QED
  BY <1>1, <1>2 DEF ApartBut

LEMMA MoveStep ==
  ASSUME Typed, MoveSession, Progress, plan.retagged \subseteq Id,
         \A g \in plan.groups : g \in Grouping
  PROVE  Progress'
<1>1. /\ tool = "retag" /\ tool' = "count"
      /\ UNCHANGED <<running, retag, plan, touched, before>>
      /\ store' = [i \in Id |-> IF i \in plan.retagged /\ Stored(i)
                                THEN [store[i] EXCEPT !.mapId = retag[2]] ELSE store[i]]
  <2> DEFINE f == [i \in plan.retagged |->
                     IF Stored(i) THEN [store[i] EXCEPT !.mapId = retag[2]] ELSE Absent]
  <2>1. /\ tool = "retag" /\ tool' = "count"
        /\ UNCHANGED <<running, retag, plan, touched, before>>
        /\ Rewrite(f)
    BY Zenon DEF MoveSession
  <2>2. DOMAIN f = plan.retagged /\ \A i \in plan.retagged :
          Stored(i) => f[i] = [store[i] EXCEPT !.mapId = retag[2]]
    OBVIOUS
  <2> HIDE DEF f
  <2>3. store' = [i \in Id |-> IF i \in DOMAIN f /\ Stored(i) THEN f[i] ELSE store[i]]
    BY <2>1 DEF Rewrite
  <2>4. store' = [i \in Id |-> IF i \in plan.retagged /\ Stored(i)
                                THEN [store[i] EXCEPT !.mapId = retag[2]] ELSE store[i]]
    BY <2>2, <2>3
  <2> QED
    BY <2>1, <2>4
<1> SUFFICES ASSUME ~touched
             PROVE  ~running /\ Readied'
  BY <1>1 DEF Progress
<1>2. ~running /\ Readied /\ Moving
  BY <1>1 DEF Progress
<1>3. store \in [Id -> Memory \cup {Absent}]
  BY DEF Typed, StoreTyped
<1>4. ASSUME NEW i \in Id, Stored(i), i \in plan.retagged
      PROVE  /\ store'[i] # Absent /\ store'[i].mapId = retag[2]
             /\ store'[i].look = store[i].look /\ store'[i].zone = store[i].zone
             /\ store'[i].pos = store[i].pos /\ store'[i].count = store[i].count
             /\ retag # NoRetag /\ store[i].mapId = retag[1]
  <2>1. store'[i] = [store[i] EXCEPT !.mapId = retag[2]]
    BY <1>1, <1>4
  <2>2. store[i] \in Memory /\ store[i].mapId = retag[1]
    BY <1>2, <1>3, <1>4 DEF Moving, Stored
  <2>3. retag # NoRetag /\ retag[2] \in Session
    BY <1>2, <1>4, CompactionAssumption DEF Moving, Typed
  <2>4. store'[i] \in Memory /\ store'[i].mapId = retag[2]
    BY <2>1, <2>2, <2>3 DEF Memory
  <2>5. store'[i] # Absent
    BY <2>4, SentinelAssumption
  <2> QED
    BY <2>1, <2>2, <2>3, <2>4, <2>5 DEF Memory
<1>5. ASSUME NEW i \in Id, ~(Stored(i) /\ i \in plan.retagged)
      PROVE  store'[i] = store[i]
  BY <1>1, <1>5
<1>6. \A i \in Id : Stored(i)' <=> Stored(i)
  BY <1>4, <1>5 DEF Stored
<1>7. ASSUME NEW i \in Everything
      PROVE  /\ SessionOf(i)' = SessionOf(i) /\ store'[i].look = store[i].look
             /\ store'[i].zone = store[i].zone /\ store'[i].pos = store[i].pos
             /\ store'[i].count = store[i].count
  <2>1. i \in Id /\ Stored(i)
    BY DEF Everything
  <2>2. CASE i \in plan.retagged
    BY <1>1, <1>4, <2>1, <2>2 DEF SessionOf
  <2>3. CASE i \notin plan.retagged
    BY <1>1, <1>5, <2>1, <2>3 DEF SessionOf
  <2> QED
    BY <2>2, <2>3
<1>8. \A i \in Scenes : i \in Everything
  BY DEF Scenes, Everything, Id
<1>9. \A i \in Scenes : Key(i)' = Key(i)
  BY <1>7, <1>8 DEF Key
<1>10. /\ Everything' = Everything /\ Scenes' = Scenes
       /\ \A gone : ApartBut(gone) => ApartBut(gone)'
  BY <1>6, <1>7, <1>9, AlikeStores
<1>11. \A C \in SUBSET Everything : Total(C)' = Total(C)
  BY <1>7, SameTotal
<1>12. Gone' = Gone
  BY <1>1 DEF Gone, Dropped
<1>13. ApartBut(Gone)'
  BY <1>2, <1>10, <1>12 DEF Readied, ApartBut
<1>14. ASSUME NEW g \in plan.groups
       PROVE  Formed(g)' /\ Ids(g) \cap plan.pruned = {}
  <2>1. Formed(g) /\ Ids(g) \cap plan.pruned = {}
    BY <1>2 DEF Readied, Fit
  <2>2. g.keep \in Scenes /\ Ids(g) \in SUBSET Everything /\ g.keep \in Everything
    BY <1>8, <2>1 DEF Formed, Ids
  <2>3. /\ SessionOf(g.keep)' = SessionOf(g.keep) /\ Key(g.keep)' = Key(g.keep)
        /\ store'[g.keep].zone = store[g.keep].zone /\ store'[g.keep].pos = store[g.keep].pos
        /\ Total(Ids(g))' = Total(Ids(g))
    BY <1>7, <1>9, <1>11, <2>2
  <2> QED
    BY <1>10, <2>1, <2>3 DEF Formed
<1>15. Fit(plan.groups, plan.pruned)'
  <2>1. /\ \A g, h \in plan.groups : g # h => Ids(g) \cap Ids(h) = {}
        /\ plan.pruned \subseteq Everything
    BY <1>2 DEF Readied, Fit
  <2> QED
    BY <1>1, <1>10, <1>14, <2>1 DEF Fit
<1>16. (before = Total(Everything \ plan.pruned))'
  <2>1. before = Total(Everything \ plan.pruned)
    BY <1>2 DEF Readied
  <2>2. Total(Everything \ plan.pruned)' = Total(Everything \ plan.pruned)
    <3> DEFINE E == Everything \ plan.pruned
    <3>1. (Everything \ plan.pruned)' = E
      BY <1>1, <1>10
    <3>2. Total(Everything \ plan.pruned)' =
            Cardinality(UNION {{i} \X (1..store'[i].count) : i \in (Everything \ plan.pruned)'})
      BY DEF Total, Observations
    <3>3. UNION {{i} \X (1..store'[i].count) : i \in E} = Observations(E)
      BY <1>7 DEF Observations
    <3> HIDE DEF E
    <3>4. Total(Everything \ plan.pruned)' = Total(E)
      BY <3>1, <3>2, <3>3 DEF Total
    <3> QED
      BY <3>4 DEF E
  <2> QED
    BY <1>1, <2>1, <2>2
<1> QED
  BY <1>2, <1>13, <1>15, <1>16 DEF Readied

LEMMA CountStep ==
  ASSUME Typed, UpdateCounts, Progress, \A g \in plan.groups : g \in Grouping
  PROVE  Progress'
<1>1. /\ tool = "count" /\ tool' = "delete" /\ Recount
      /\ running' = running /\ retag' = retag /\ plan' = plan /\ touched' = touched
      /\ before' = before
  BY Zenon DEF UpdateCounts
<1> SUFFICES ASSUME ~touched
             PROVE  ~running /\ Counted'
  BY <1>1 DEF Progress
<1>2. ~running /\ Readied
  BY <1>1 DEF Progress
<1>3. /\ Everything' = Everything /\ Scenes' = Scenes
      /\ \A i \in Id : (\A g \in plan.groups : g.keep # i) => store'[i] = store[i]
      /\ \A g \in plan.groups : 
           Stored(g.keep) /\ (\A h \in plan.groups : h.keep = g.keep => h = g)
           => store'[g.keep] = g.memory
  BY <1>1, RecountStore DEF Typed
<1>4. ASSUME NEW g \in plan.groups
      PROVE  Formed(g) /\ g.keep \in Scenes /\ store'[g.keep] = g.memory
  <2>1. Formed(g) /\ g.keep \in Ids(g) /\ g.keep \in Scenes /\ \A h \in plan.groups : h.keep \in Ids(h)
    BY <1>2 DEF Readied, Fit, Formed, Ids
  <2>2. \A h \in plan.groups : h.keep = g.keep => h = g
    BY <1>2, <2>1 DEF Readied, Fit
  <2> QED
    BY <1>3, <2>1, <2>2 DEF Scenes
<1>5. ASSUME NEW i \in Everything
      PROVE  /\ SessionOf(i)' = SessionOf(i)
             /\ i \in Scenes => Key(i)' = Key(i)
             /\ store'[i].zone = store[i].zone /\ store'[i].pos = store[i].pos
  <2>1. CASE \A g \in plan.groups : g.keep # i
    <3>1. store'[i] = store[i]
      BY <1>3, <2>1 DEF Everything
    <3> QED
      BY <1>1, <3>1 DEF SessionOf, Key
  <2>2. CASE \E g \in plan.groups : g.keep = i
    <3>1. PICK g \in plan.groups : g.keep = i
      BY <2>2
    <3>2. /\ store'[i].mapId = SessionOf(i) /\ store'[i].look = Key(i)
          /\ store'[i].zone = store[i].zone /\ store'[i].pos = store[i].pos
      BY <1>4, <3>1 DEF Formed
    <3>3. SessionOf(i)' = SessionOf(i)
      BY <1>1, <3>2 DEF SessionOf
    <3>4. Key(i)' = Key(i)
      BY <3>2 DEF Key
    <3> QED
      BY <3>2, <3>3, <3>4
  <2> QED
    BY <2>1, <2>2
<1>6. \A i \in Scenes : i \in Everything
  BY DEF Scenes, Everything, Id
<1>7. \A i \in Id : Stored(i)' <=> Stored(i)
  BY <1>3 DEF Everything, Stored
<1>8. Gone' = Gone
  BY <1>1 DEF Gone, Dropped
<1>9. ApartBut(Gone)'
  <2>1. \A gone : ApartBut(gone) => ApartBut(gone)'
    BY <1>5, <1>6, <1>7, AlikeStores
  <2> QED
    BY <1>2, <1>8, <2>1 DEF Readied, ApartBut
<1>10. Total(Everything \ Gone)' = before
  <2> DEFINE E == Everything \ plan.pruned
             F == E \ Dropped(plan.groups)
  <2>1. Total(F)' = Cardinality(UNION {{i} \X (1..store'[i].count) : i \in F'})
    BY DEF Total, Observations
  <2>2. F' = F /\ F = Everything \ Gone
    BY <1>1, <1>3 DEF Dropped, Gone
  <2>3. Cardinality(UNION {{i} \X (1..store'[i].count) : i \in F}) = Total(E)
    BY <1>1, <1>2, RecountTotal DEF Readied, Typed, Total, Observations
  <2>4. Total(Everything \ Gone)' =
          Cardinality(UNION {{i} \X (1..store'[i].count) : i \in (Everything \ Gone)'})
    BY DEF Total, Observations
  <2>5. (Everything \ Gone)' = F
    BY <1>3, <1>8, <2>2
  <2> HIDE DEF F
  <2>6. Total(Everything \ Gone)' = Total(E)
    BY <2>3, <2>4, <2>5
  <2> QED
    BY <1>2, <2>6 DEF Readied
<1> QED
  BY <1>1, <1>2, <1>9, <1>10 DEF Counted

LEMMA DropStep ==
  ASSUME Typed, DeleteDropped, Progress, plan.pruned \subseteq Id
  PROVE  Progress'
<1>1. /\ tool = "delete" /\ tool' = "done" /\ Drop
      /\ running' = running /\ retag' = retag /\ plan' = plan /\ touched' = touched
      /\ before' = before
  BY Zenon DEF DeleteDropped
<1> SUFFICES ASSUME ~touched
             PROVE  ~running /\ Cleared'
  BY <1>1 DEF Progress
<1>2. ~running /\ Counted
  BY <1>1 DEF Progress
<1>3. \A i \in Id : store'[i] = IF i \in Gone THEN Absent ELSE store[i]
  BY <1>1 DEF Drop, Gone, Dropped
<1>4. Everything' = Everything \ Gone
  BY <1>3 DEF Everything, Stored
<1>5. \A i \in Everything' : i \in Everything /\ store'[i] = store[i]
  BY <1>3, <1>4 DEF Everything
<1>6. \A i \in Scenes' : i \in Scenes /\ i \notin Gone /\ i \in Everything'
  BY <1>3 DEF Scenes, Stored, Everything, Id
<1>7. \A i \in Scenes' : /\ SessionOf(i)' = SessionOf(i) /\ Key(i)' = Key(i)
                         /\ store'[i] = store[i]
  BY <1>1, <1>5, <1>6 DEF SessionOf, Key
<1>8. \A i, j \in Scenes' : Close(i, j)' => Close(i, j)
  BY <1>7 DEF Close
<1>9. ApartBut({})'
  BY <1>2, <1>6, <1>8 DEF ApartBut, Counted
<1>10. Total(Everything \ plan.pruned)' = before
  <2> DEFINE E == Everything \ Gone
  <2>1. (Everything \ plan.pruned)' = E
    BY <1>1, <1>4 DEF Gone
  <2>2. Total(Everything \ plan.pruned)' =
          Cardinality(UNION {{i} \X (1..store'[i].count) : i \in (Everything \ plan.pruned)'})
    BY DEF Total, Observations
  <2>3. UNION {{i} \X (1..store'[i].count) : i \in E} = Observations(E)
    BY <1>4, <1>5 DEF Observations
  <2> HIDE DEF E
  <2>4. Total(Everything \ plan.pruned)' = Total(E)
    BY <2>1, <2>2, <2>3 DEF Total
  <2> QED
    BY <1>2, <2>4 DEF Counted, E
<1> QED
  BY <1>1, <1>2, <1>9, <1>10 DEF Cleared

LEMMA ProgressHolds ==
  ASSUME StoreTyped, Progress, ~touched
  PROVE  /\ tool = "done" => ApartBut({})
         /\ tool \in {"retag", "count", "delete", "done"} =>
              LET kept == Total({i \in Everything : i \notin plan.pruned})
              IN  kept >= before /\ (tool = "done" => kept = before)
<1> DEFINE K == {i \in Everything : i \notin plan.pruned}
<1>1. K = Everything \ plan.pruned
  OBVIOUS
<1>2. K \in SUBSET Everything /\ Everything \ Gone \in SUBSET K
  BY DEF Gone
<1>3. Observations(Everything \ Gone) \subseteq Observations(K)
  BY <1>2 DEF Observations
<1>4. IsFiniteSet(Observations(K)) /\ Total(K) \in Nat
  BY <1>2, ObservationsFinite
<1>5. Total(Everything \ Gone) <= Total(K)
  BY <1>3, <1>4, FS_Subset DEF Total
<1>6. tool \in {"retag", "count"} => before = Total(K)
  BY <1>1 DEF Progress, Readied
<1>7. tool = "delete" => before <= Total(K)
  BY <1>5 DEF Progress, Counted
<1>8. tool = "done" => before = Total(K) /\ ApartBut({})
  BY <1>1 DEF Progress, Cleared
<1> QED
  BY <1>4, <1>6, <1>7, <1>8

-----------------------------------------------------------------------------
\* The types, and what they rest on

MovesSomewhere == tool = "retag" /\ plan.retagged # {} => retag # NoRetag

\* Nobody else writes while the tool is not disturbed.
UpMeansTouched == running => touched

\* What the tool keeps of its own.
ToolTypes ==
  /\ tool \in {"idle", "checked", "retag", "count", "delete", "done"}
  /\ retag \in Retags \cup {NoRetag} /\ prune \in BOOLEAN
  /\ \A g \in plan.groups : g \in Grouping /\ g.keep \notin g.drop
  /\ \A g, h \in plan.groups : g # h => Ids(g) \cap Ids(h) = {}
  /\ plan.retagged \subseteq Id /\ plan.pruned \subseteq Id
  /\ runs \in 0..MaxRuns /\ touched \in BOOLEAN /\ before \in Nat
  /\ MovesSomewhere

LEMMA BeginTypes ==
  ASSUME StoreTyped, ToolTypes, BeginCompaction
  PROVE  StoreTyped' /\ ToolTypes'
<1>1. /\ runs < MaxRuns /\ tool' = "checked" /\ runs' = runs + 1 /\ touched' = FALSE
      /\ retag' \in Retags \cup {NoRetag} /\ prune' \in BOOLEAN
      /\ store' = store /\ plan' = plan /\ before' = before
  BY Zenon DEF BeginCompaction, vars
<1>2. runs' \in 0..MaxRuns
  BY <1>1, CompactionAssumption DEF ToolTypes
<1> QED
  BY <1>1, <1>2 DEF StoreTyped, ToolTypes, MovesSomewhere, Ids

LEMMA PlanTypes ==
  ASSUME StoreTyped, ToolTypes, PlanCompaction
  PROVE  StoreTyped' /\ ToolTypes'
<1> DEFINE pruned == IF prune THEN {i \in Everything : store[i].mapId = Untagged} ELSE {}
           moved == {i \in Everything : SessionOf(i) # store[i].mapId}
           G == {g \in Groups : g.keep \notin pruned}
<1>1. /\ plan' = [groups |-> G, retagged |-> moved, pruned |-> pruned]
      /\ before' = Total(Everything \ pruned)
      /\ tool' = IF plan' = NoPlan THEN "done" ELSE "retag"
      /\ UNCHANGED <<vars, retag, prune, runs, touched>>
  BY Zenon DEF PlanCompaction
<1>2. /\ plan'.groups = G /\ plan'.retagged = moved /\ plan'.pruned = pruned
      /\ tool' \in {"done", "retag"}
  BY <1>1
<1>3. moved \subseteq Id /\ pruned \subseteq Id
  BY DEF Everything
<1>4. moved # {} => retag # NoRetag
  BY DEF SessionOf
<1>5. /\ \A g \in G : g \in Grouping /\ g.keep \notin g.drop
      /\ \A g, h \in G : g # h => Ids(g) \cap Ids(h) = {}
  <2>1. Typed
    BY DEF Typed, ToolTypes
  <2> QED
    BY <2>1, GroupsFormed DEF Formed
<1>6. before' \in Nat
  <2>1. Everything \ pruned \in SUBSET Everything
    OBVIOUS
  <2> HIDE DEF pruned
  <2> QED
    BY <1>1, <2>1, ObservationsFinite
<1> HIDE DEF G, moved, pruned
<1>7. store' = store /\ retag' = retag /\ prune' = prune /\ runs' = runs /\ touched' = touched
  BY <1>1 DEF vars
<1>8. /\ retag' \in Retags \cup {NoRetag} /\ prune' \in BOOLEAN
      /\ runs' \in 0..MaxRuns /\ touched' \in BOOLEAN
  BY <1>7 DEF ToolTypes
<1>9. MovesSomewhere'
  BY <1>2, <1>4, <1>7 DEF MovesSomewhere
<1>10. /\ \A g \in plan'.groups : g \in Grouping /\ g.keep \notin g.drop
       /\ \A g, h \in plan'.groups : g # h => Ids(g) \cap Ids(h) = {}
       /\ plan'.retagged \subseteq Id /\ plan'.pruned \subseteq Id
  BY <1>2, <1>3, <1>5
<1> QED
  BY <1>2, <1>6, <1>7, <1>8, <1>9, <1>10 DEF StoreTyped, ToolTypes, Ids

\* A step of the tool that writes has its types, if the store has.
LEMMA WriteTypes ==
  ASSUME ToolTypes, tool' \in {"idle", "count", "delete", "done"},
         UNCHANGED <<retag, prune, plan, runs, touched, before>>
  PROVE  ToolTypes'
<1>1. retag' = retag /\ prune' = prune /\ plan' = plan /\ runs' = runs /\ touched' = touched
      /\ before' = before
  OBVIOUS
<1> QED
  BY <1>1 DEF ToolTypes, MovesSomewhere, Ids

LEMMA MoveTypes ==
  ASSUME StoreTyped, ToolTypes, MoveSession
  PROVE  StoreTyped' /\ ToolTypes'
<1> DEFINE f == [i \in plan.retagged |->
                   IF Stored(i) THEN [store[i] EXCEPT !.mapId = retag[2]] ELSE Absent]
<1>1. /\ tool = "retag" /\ tool' = "count" /\ Rewrite(f)
      /\ UNCHANGED <<retag, prune, plan, runs, touched, before>>
  BY Zenon DEF MoveSession
<1>2. \A i \in DOMAIN f : i \in Id /\ (Stored(i) => f[i] \in Memory)
  <2> TAKE i \in DOMAIN f
  <2>1. i \in plan.retagged /\ i \in Id
    BY DEF ToolTypes
  <2>2. retag # NoRetag /\ retag \in Retags
    BY <1>1, <2>1 DEF ToolTypes, MovesSomewhere
  <2>3. retag[2] \in Session
    BY <2>2, CompactionAssumption
  <2>4. ASSUME Stored(i)
        PROVE  f[i] \in Memory
    <3>1. store[i] \in Memory
      BY <2>1, <2>4 DEF StoreTyped, Stored
    <3>2. f[i] = [store[i] EXCEPT !.mapId = retag[2]]
      BY <2>1, <2>4
    <3> QED
      BY <2>3, <3>1, <3>2 DEF Memory
  <2> QED
    BY <2>1, <2>4
<1> HIDE DEF f
<1>3. StoreTyped'
  BY <1>1, <1>2 DEF StoreTyped, Rewrite
<1>4. ToolTypes'
  BY <1>1, WriteTypes
<1> QED
  BY <1>3, <1>4

LEMMA CountTypes ==
  ASSUME StoreTyped, ToolTypes, UpdateCounts
  PROVE  StoreTyped' /\ ToolTypes'
<1>1. /\ tool' = "delete" /\ Recount /\ UNCHANGED <<retag, prune, plan, runs, touched, before>>
  BY Zenon DEF UpdateCounts
<1>2. StoreTyped'
  BY <1>1, RecountStore DEF ToolTypes
<1> QED
  BY <1>1, <1>2, WriteTypes

LEMMA DropTypes ==
  ASSUME StoreTyped, ToolTypes, DeleteDropped
  PROVE  StoreTyped' /\ ToolTypes'
<1>1. /\ tool' = "done" /\ Drop /\ UNCHANGED <<retag, prune, plan, runs, touched, before>>
  BY Zenon DEF DeleteDropped
<1>2. StoreTyped'
  BY <1>1 DEF Drop, StoreTyped
<1> QED
  BY <1>1, <1>2, WriteTypes

LEMMA KilledTypes ==
  ASSUME StoreTyped, ToolTypes, Killed
  PROVE  StoreTyped' /\ ToolTypes'
<1>1. tool' = "idle" /\ store' = store /\ UNCHANGED <<retag, prune, plan, runs, touched, before>>
  BY Zenon DEF Killed, vars
<1> QED
  BY <1>1, WriteTypes DEF StoreTyped

-----------------------------------------------------------------------------
\* rag_node's types

\* A start that is past the comparison has read the files.
WasRead == boot \notin {"down", "compare"} => read \in Documents

RagTypes == IngestionTypeOK /\ TypeOK /\ WasRead

LEMMA StartTypes ==
  ASSUME RagTypes, BeginStart
  PROVE  RagTypes' /\ running'
<1>1. /\ boot' = "compare" /\ running' /\ running' \in BOOLEAN
      /\ files' = files /\ read' = read /\ known' = known /\ logs' = logs /\ heard' = heard
      /\ tasks' = tasks /\ store' = store /\ pin' = pin
  BY DEF BeginStart, Start
<1>2. mapId' \in Session /\ session' \in Session
  <2>1. session \in Session \cup {NoSession} /\ pin \in Session \cup {NoSession}
    BY DEF RagTypes, TypeOK
  <2> QED
    BY <2>1 DEF BeginStart, Start
<1>3. TypeOK'
  BY <1>1, <1>2 DEF RagTypes, TypeOK
<1>4. IngestionTypeOK' /\ WasRead'
  BY <1>1 DEF RagTypes, IngestionTypeOK, WasRead
<1> QED
  BY <1>1, <1>3, <1>4 DEF RagTypes

LEMMA BootTypes ==
  ASSUME RagTypes, Compare \/ Replace \/ Fill \/ Scan \/ Tag
  PROVE  RagTypes' /\ running /\ UNCHANGED vars
<1>1. UNCHANGED vars /\ boot # "down" /\ boot' \in {"replace", "fill", "scan", "tag", "serving"}
  BY DEF Compare, Replace, Fill, Scan, Tag
<1>2. store' = store /\ running' = running /\ mapId' = mapId /\ session' = session /\ pin' = pin
  BY <1>1 DEF vars
<1>3. running /\ TypeOK'
  BY <1>1, <1>2 DEF RagTypes, IngestionTypeOK, TypeOK
<1>4. /\ boot \in {"down", "compare", "replace", "fill", "scan", "tag", "serving"}
      /\ files \in Documents /\ known \in Documents /\ read \in Documents \cup {Unread}
      /\ logs \in [Task -> Log \cup {NoLog, Torn}]
      /\ tasks \in [Task -> Log \cup {NoLog}]
      /\ \A t \in DOMAIN heard : t \in Task /\ heard[t] \in Log
  BY DEF RagTypes, IngestionTypeOK
<1>5. /\ files' \in Documents /\ logs' \in [Task -> Log \cup {NoLog, Torn}]
      /\ read' \in Documents \cup {Unread}
  BY <1>4 DEF Compare, Replace, Fill, Scan, Tag
<1>7. \A t \in DOMAIN heard' : t \in Task /\ heard'[t] \in Log
  <2>1. \A t \in DOMAIN Heard : t \in Task /\ Heard[t] \in Log
    BY DEF Heard
  <2> QED
    BY <1>4, <2>1 DEF Compare, Replace, Fill, Scan, Tag
<1>8. tasks' \in [Task -> Log \cup {NoLog}]
  BY <1>4 DEF Compare, Replace, Fill, Scan, Tag
<1>9. known' \in Documents /\ read' \in Documents
  <2>1. (boot # "compare" => read \in Documents) /\ NoDocument \in Documents
    BY <1>1 DEF RagTypes, WasRead, Documents
  <2>2. CASE Compare
    BY <1>4, <2>2 DEF Compare
  <2>3. CASE ~Compare
    <3>1. boot # "compare" /\ read' = read /\ known' \in {known, NoDocument, read}
      BY <2>3 DEF Compare, Replace, Fill, Scan, Tag
    <3> QED
      BY <1>4, <2>1, <3>1
  <2> QED
    BY <2>2, <2>3
<1>10. IngestionTypeOK' /\ WasRead'
  BY <1>1, <1>2, <1>3, <1>5, <1>7, <1>8, <1>9 DEF IngestionTypeOK, WasRead
<1> QED
  BY <1>1, <1>3, <1>10 DEF RagTypes

\* rag_node is gone, whoever ends it.
LEMMA DownTypes ==
  ASSUME RagTypes, boot' = "down", read' = Unread, heard' = <<>>, running' = FALSE,
         UNCHANGED <<files, known, logs, tasks, store, mapId, session>>,
         pin' \in Session \cup {NoSession}
  PROVE  RagTypes'
<1>1. DOMAIN heard' = {}
  OBVIOUS
<1>2. TypeOK'
  BY DEF RagTypes, TypeOK
<1>3. IngestionTypeOK' /\ WasRead'
  BY <1>1 DEF RagTypes, IngestionTypeOK, WasRead
<1> QED
  BY <1>2, <1>3 DEF RagTypes

LEMMA RememberTypes ==
  ASSUME RagTypes, NEW p \in Position, NEW l \in Look, NEW z \in Zone, Remember(p, l, z)
  PROVE  RagTypes' /\ running
<1>1. /\ running /\ running' = running /\ mapId' = mapId /\ session' = session /\ pin' = pin
      /\ boot' = boot /\ files' = files /\ read' = read /\ known' = known /\ logs' = logs
      /\ heard' = heard /\ tasks' = tasks
  BY DEF Remember, Observe, ragVars
<1>2. store \in [Id -> Memory \cup {Absent}] /\ mapId \in Session
  BY <1>1 DEF RagTypes, TypeOK
<1>3. PICK C \in Scanned(Group(mapId, l, z)) :
        \/ store' = [store EXCEPT ![Cell[p]] = NewMemory(mapId, l, z, p)]
        \/ \E t \in Nearest(Near(C, p), p) : store' = [store EXCEPT ![t] = Folded(store[t])]
  BY DEF Remember, Observe
<1>4. C \subseteq Group(mapId, l, z)
  BY DEF Scanned
<1>5. ASSUME store' = [store EXCEPT ![Cell[p]] = NewMemory(mapId, l, z, p)]
      PROVE  store' \in [Id -> Memory \cup {Absent}]
  <2>1. NewMemory(mapId, l, z, p) \in Memory
    BY <1>2 DEF NewMemory, Memory
  <2> HIDE DEF NewMemory
  <2> QED
    BY <1>2, <1>5, <2>1
<1>6. ASSUME \E t \in Nearest(Near(C, p), p) : store' = [store EXCEPT ![t] = Folded(store[t])]
      PROVE  store' \in [Id -> Memory \cup {Absent}]
  <2>1. PICK t \in Nearest(Near(C, p), p) : store' = [store EXCEPT ![t] = Folded(store[t])]
    BY <1>6
  <2>2. t \in Id /\ store[t] \in Memory
    BY <1>2, <1>4 DEF Nearest, Near, Group, InGroup
  <2>3. Folded(store[t]) \in Memory
    <3> DEFINE m == store[t]
    <3>1. m \in Memory /\ m.count + 1 \in Nat \ {0}
      BY <2>2 DEF Memory
    <3> HIDE DEF m
    <3>2. [m EXCEPT !.count = m.count + 1] \in Memory
      BY <3>1 DEF Memory
    <3> QED
      BY <3>2 DEF Folded, m
  <2> QED
    BY <1>2, <2>1, <2>3
<1>7. store' \in [Id -> Memory \cup {Absent}]
  BY <1>3, <1>5, <1>6
<1>8. TypeOK'
  BY <1>1, <1>7 DEF RagTypes, TypeOK
<1>9. IngestionTypeOK' /\ WasRead'
  BY <1>1 DEF RagTypes, IngestionTypeOK, WasRead
<1> QED
  BY <1>1, <1>8, <1>9 DEF RagTypes

LEMMA FileTypes ==
  ASSUME RagTypes, FilesChange \/ LogWritten
  PROVE  RagTypes' /\ UNCHANGED <<vars, toolVars>>
<1>1. /\ UNCHANGED <<vars, toolVars>> /\ boot' = boot /\ read' = read /\ known' = known
      /\ heard' = heard /\ tasks' = tasks
  BY DEF FilesChange, LogWritten, EditKnowledge, OpenLog, WriteLog
<1>2. store' = store /\ running' = running /\ mapId' = mapId /\ session' = session /\ pin' = pin
  BY <1>1 DEF vars
<1>3. files' \in Documents
  BY DEF FilesChange, LogWritten, EditKnowledge, OpenLog, WriteLog, RagTypes, IngestionTypeOK
<1>4. logs' \in [Task -> Log \cup {NoLog, Torn}]
  <2>1. logs \in [Task -> Log \cup {NoLog, Torn}] /\ session \in Log
    BY DEF RagTypes, IngestionTypeOK, TypeOK, Log
  <2>2. ASSUME NEW t \in Task, NEW w \in Log \cup {Torn}, logs' = [logs EXCEPT ![t] = w]
        PROVE  logs' \in [Task -> Log \cup {NoLog, Torn}]
    BY <2>1, <2>2
  <2>3. \/ logs' = logs
        \/ \E t \in Task : \E w \in Log \cup {Torn} : logs' = [logs EXCEPT ![t] = w]
    BY <2>1 DEF FilesChange, LogWritten, EditKnowledge, OpenLog, WriteLog
  <2> QED
    BY <2>1, <2>2, <2>3
<1>5. TypeOK'
  BY <1>2 DEF RagTypes, TypeOK
<1>6. IngestionTypeOK' /\ WasRead'
  BY <1>1, <1>2, <1>3, <1>4 DEF RagTypes, IngestionTypeOK, WasRead
<1> QED
  BY <1>1, <1>5, <1>6 DEF RagTypes

\* What the tool writes is only what is stored.
LEMMA ToolKeepsRag ==
  ASSUME RagTypes, StoreTyped', UNCHANGED ragVars,
         UNCHANGED <<running, mapId, session, pin>>
  PROVE  RagTypes'
<1>1. /\ boot' = boot /\ files' = files /\ read' = read /\ known' = known /\ logs' = logs
      /\ heard' = heard /\ tasks' = tasks
  BY DEF ragVars
<1>2. TypeOK'
  BY DEF RagTypes, TypeOK, StoreTyped
<1>3. IngestionTypeOK' /\ WasRead'
  BY <1>1 DEF RagTypes, IngestionTypeOK, WasRead
<1> QED
  BY <1>2, <1>3 DEF RagTypes

-----------------------------------------------------------------------------
UpkeepInv ==
  RagTypes /\ ToolTypes /\ UpMeansTouched /\ Progress /\ events \in 0..MaxEvents

LEMMA InitUpkeep == UpkeepInit => UpkeepInv
<1> SUFFICES ASSUME UpkeepInit
             PROVE  UpkeepInv
  OBVIOUS
<1>1. /\ store \in [Id -> Memory \cup {Absent}] /\ running = FALSE /\ mapId = NoSession
      /\ session \in Session /\ pin = NoSession /\ events = 0
  BY UpkeepAssumption DEF UpkeepInit
<1>2. TypeOK
  BY <1>1 DEF TypeOK
<1>3. /\ boot = "down" /\ read = Unread /\ heard = <<>> /\ files \in Documents /\ known \in Documents
      /\ logs = [t \in Task |-> NoLog] /\ tasks = [t \in Task |-> NoLog]
  BY DEF UpkeepInit, IngestionInit
<1>4. DOMAIN heard = {}
  BY <1>3
<1>5. IngestionTypeOK /\ WasRead
  BY <1>1, <1>3, <1>4 DEF IngestionTypeOK, WasRead
<1>6. /\ tool = "idle" /\ retag = NoRetag /\ prune = FALSE /\ plan = NoPlan
      /\ runs = 0 /\ touched = FALSE /\ before = 0
  BY DEF UpkeepInit, CompactionInit
<1>7. plan.groups = {} /\ plan.retagged = {} /\ plan.pruned = {}
  BY <1>6 DEF NoPlan
<1>8. ToolTypes
  <2>1. runs \in 0..MaxRuns /\ before \in Nat /\ touched \in BOOLEAN /\ prune \in BOOLEAN
    <3>1. MaxRuns \in Nat
      BY CompactionAssumption
    <3>2. runs \in 0..MaxRuns /\ before \in Nat
      BY <1>6, <3>1
    <3>3. touched \in BOOLEAN /\ prune \in BOOLEAN
      BY <1>6
    <3> QED
      BY <3>2, <3>3
  <2>2. MovesSomewhere
    BY <1>6 DEF MovesSomewhere
  <2> QED
    BY <1>6, <1>7, <2>1, <2>2 DEF ToolTypes
<1>9. UpMeansTouched /\ Progress
  BY <1>1, <1>6 DEF UpMeansTouched, Progress
<1> QED
  BY <1>1, <1>2, <1>5, <1>8, <1>9, UpkeepAssumption DEF UpkeepInv, RagTypes

\* A step that neither writes the store nor is the tool's.
LEMMA ProgressKept ==
  ASSUME Progress, store' = store, UNCHANGED toolVars, running' => running
  PROVE  Progress'
<1>1. /\ tool' = tool /\ retag' = retag /\ plan' = plan /\ touched' = touched /\ before' = before
  BY DEF toolVars
<1>2. Readied => Readied'
  <2>1. Fit(plan.groups, plan.pruned) => Fit(plan.groups, plan.pruned)'
    <3>1. Scenes' = Scenes /\ Everything' = Everything
      BY DEF Scenes, Everything, Stored
    <3>2. \A i : SessionOf(i)' = SessionOf(i) /\ Key(i)' = Key(i)
      BY <1>1 DEF SessionOf, Key
    <3>3. \A C : Total(C)' = Total(C)
      BY DEF Total, Observations
    <3>4. ASSUME NEW g, Formed(g)
          PROVE  Formed(g)'
      <4>1. Total(Ids(g))' = Total(Ids(g)) /\ SessionOf(g.keep)' = SessionOf(g.keep)
            /\ Key(g.keep)' = Key(g.keep)
        BY <3>2, <3>3
      <4> QED
        BY <3>1, <3>4, <4>1 DEF Formed
    <3> QED
      BY <1>1, <3>1, <3>4 DEF Fit
  <2>2. ApartBut(Gone) => ApartBut(Gone)'
    BY <1>1 DEF ApartBut, Gone, Dropped, Close, Scenes, Stored, SessionOf, Key
  <2>3. Total(Everything \ plan.pruned)' = Total(Everything \ plan.pruned)
    BY <1>1 DEF Everything, Stored, Total, Observations
  <2> QED
    BY <1>1, <2>1, <2>2, <2>3 DEF Readied
<1>3. Moving => Moving'
  BY <1>1 DEF Moving, Stored
<1>4. Counted => Counted'
  <2>1. ApartBut(Gone) => ApartBut(Gone)'
    BY <1>1 DEF ApartBut, Gone, Dropped, Close, Scenes, Stored, SessionOf, Key
  <2>2. Total(Everything \ Gone)' = Total(Everything \ Gone)
    BY <1>1 DEF Everything, Gone, Dropped, Stored, Total, Observations
  <2> QED
    BY <1>1, <2>1, <2>2 DEF Counted
<1>5. Cleared => Cleared'
  <2>1. ApartBut({}) => ApartBut({})'
    BY <1>1 DEF ApartBut, Close, Scenes, Stored, SessionOf, Key
  <2>2. Total(Everything \ plan.pruned)' = Total(Everything \ plan.pruned)
    BY <1>1 DEF Everything, Stored, Total, Observations
  <2> QED
    BY <1>1, <2>1, <2>2 DEF Cleared
<1> QED
  BY <1>1, <1>2, <1>3, <1>4, <1>5 DEF Progress

LEMMA ToolTypesKept == ASSUME ToolTypes, UNCHANGED toolVars PROVE ToolTypes'
<1>1. /\ tool' = tool /\ retag' = retag /\ prune' = prune /\ plan' = plan /\ runs' = runs
      /\ touched' = touched /\ before' = before
  BY DEF toolVars
<1> QED
  BY <1>1 DEF ToolTypes, MovesSomewhere, Ids

\* A step of the tool: nothing of rag_node changes but what is stored.
LEMMA ToolStepInv ==
  ASSUME UpkeepInv, UNCHANGED ragVars,
         \/ BeginCompaction \/ PlanCompaction \/ MoveSession \/ UpdateCounts \/ DeleteDropped
         \/ Killed
  PROVE  RagTypes' /\ ToolTypes' /\ UpMeansTouched' /\ Progress'
<1>1. StoreTyped /\ Typed
  BY DEF UpkeepInv, RagTypes, TypeOK, Typed, StoreTyped, ToolTypes
<1>2. ToolTypes /\ Progress /\ RagTypes /\ UpMeansTouched
  BY DEF UpkeepInv
<1>3. UNCHANGED <<running, mapId, session, pin>>
  BY DEF BeginCompaction, PlanCompaction, MoveSession, UpdateCounts, DeleteDropped, Killed, vars
<1>4. StoreTyped' /\ ToolTypes'
  BY <1>1, <1>2, BeginTypes, PlanTypes, MoveTypes, CountTypes, DropTypes, KilledTypes
<1>5. RagTypes'
  BY <1>2, <1>3, <1>4, ToolKeepsRag
<1>6. UpMeansTouched'
  <2>1. (running' => running) /\ (~running \/ touched' = touched)
    BY <1>3 DEF BeginCompaction, PlanCompaction, MoveSession, UpdateCounts, DeleteDropped, Killed
  <2> QED
    BY <1>2, <2>1 DEF UpMeansTouched
<1>7. Progress'
  <2>1. \A g \in plan.groups : g \in Grouping
    BY <1>2 DEF ToolTypes
  <2>2. plan.retagged \subseteq Id /\ plan.pruned \subseteq Id
    BY <1>2 DEF ToolTypes
  <2>3. CASE BeginCompaction
    <3>1. ~running' /\ tool' = "checked"
      BY <1>3, <2>3 DEF BeginCompaction
    <3> QED
      BY <3>1 DEF Progress
  <2>4. CASE Killed
    <3>1. tool' = "idle" /\ touched' = touched /\ running' = running
      BY <1>3, <2>4 DEF Killed
    <3> QED
      BY <1>2, <3>1 DEF Progress
  <2> QED
    BY <1>1, <1>2, <2>1, <2>2, <2>3, <2>4, PlanStep, MoveStep, CountStep, DropStep
<1> QED
  BY <1>4, <1>5, <1>6, <1>7

LEMMA StepUpkeep == UpkeepInv /\ [UpkeepNext]_upkeepVars => UpkeepInv'
<1> SUFFICES ASSUME UpkeepInv, [UpkeepNext]_upkeepVars
             PROVE  UpkeepInv'
  OBVIOUS
<1>1. RagTypes /\ ToolTypes /\ UpMeansTouched /\ Progress /\ events \in 0..MaxEvents
  BY DEF UpkeepInv
<1>2. events' = events => events' \in 0..MaxEvents
  BY <1>1
<1>3. Event => events' \in 0..MaxEvents
  BY <1>1, UpkeepAssumption DEF Event
<1>4. running \in BOOLEAN /\ (running <=> boot # "down")
  BY <1>1 DEF RagTypes, TypeOK, IngestionTypeOK
<1>5. CASE UNCHANGED upkeepVars
  <2>1. store' = store /\ running' = running /\ UNCHANGED toolVars /\ UNCHANGED ragVars
        /\ mapId' = mapId /\ session' = session /\ pin' = pin /\ events' = events /\ touched' = touched
    BY <1>5 DEF upkeepVars, vars, toolVars
  <2>2. Progress' /\ ToolTypes'
    BY <1>1, <2>1, ProgressKept, ToolTypesKept
  <2>3. StoreTyped'
    BY <1>1, <2>1 DEF RagTypes, TypeOK, StoreTyped
  <2>4. RagTypes'
    BY <1>1, <2>1, <2>3, ToolKeepsRag
  <2> QED
    BY <1>1, <1>2, <2>1, <2>2, <2>4 DEF UpkeepInv, UpMeansTouched
<1>6. CASE StartRag
  <2>1. /\ BeginStart /\ touched' = TRUE /\ events' = events /\ store' = store
        /\ UNCHANGED <<tool, retag, prune, runs, plan, before>>
    BY <1>6 DEF StartRag, BeginStart, Start
  <2>2. ToolTypes'
    BY <1>1, <2>1 DEF ToolTypes, MovesSomewhere, Ids
  <2>3. Progress' /\ UpMeansTouched'
    BY <2>1 DEF Progress, UpMeansTouched
  <2> QED
    BY <1>1, <1>2, <2>1, <2>2, <2>3, StartTypes DEF UpkeepInv
<1>7. CASE BootStep
  <2>1. /\ Compare \/ Replace \/ Fill \/ Scan \/ Tag
        /\ UNCHANGED toolVars /\ events' = events
    BY <1>7 DEF BootStep
  <2>2. RagTypes' /\ running /\ UNCHANGED vars
    BY <1>1, <2>1, BootTypes
  <2>3. store' = store /\ running' = running /\ touched' = touched
    BY <2>1, <2>2 DEF vars, toolVars
  <2> QED
    BY <1>1, <1>2, <2>1, <2>2, <2>3, ProgressKept, ToolTypesKept DEF UpkeepInv, UpMeansTouched
<1>8. CASE RagDies
  <2>1. /\ boot' = "down" /\ read' = Unread /\ heard' = <<>> /\ running' = FALSE
        /\ UNCHANGED <<files, known, logs, tasks, store, mapId, session>> /\ pin' = pin
        /\ Event /\ UNCHANGED toolVars
    BY <1>8 DEF RagDies, Die, Crash
  <2>2. pin' \in Session \cup {NoSession}
    BY <1>1, <2>1 DEF RagTypes, TypeOK
  <2>3. RagTypes'
    BY <1>1, <2>1, <2>2, DownTypes
  <2> QED
    BY <1>1, <1>3, <2>1, <2>3, ProgressKept, ToolTypesKept DEF UpkeepInv, UpMeansTouched
<1>9. ASSUME NEW s \in Session \ {Untagged}, RelaunchStack(s)
      PROVE  UpkeepInv'
  <2>1. /\ boot' = "down" /\ read' = Unread /\ heard' = <<>> /\ running' = FALSE
        /\ UNCHANGED <<files, known, logs, tasks, store, mapId, session>> /\ pin' = s
        /\ Event /\ UNCHANGED toolVars
    BY <1>9 DEF RelaunchStack, Relaunch
  <2>2. pin' \in Session \cup {NoSession}
    BY <2>1
  <2>3. RagTypes'
    BY <1>1, <2>1, <2>2, DownTypes
  <2> QED
    BY <1>1, <1>3, <2>1, <2>3, ProgressKept, ToolTypesKept DEF UpkeepInv, UpMeansTouched
<1>10. ASSUME NEW p \in Position, NEW l \in Look, NEW z \in Zone, Remember(p, l, z)
       PROVE  UpkeepInv'
  <2>1. Event /\ UNCHANGED toolVars
    BY <1>10 DEF Remember
  <2>2. RagTypes' /\ running
    BY <1>1, <1>10, RememberTypes
  <2>3. touched' = touched /\ touched
    BY <1>1, <2>1, <2>2 DEF toolVars, UpMeansTouched
  <2>4. Progress' /\ UpMeansTouched'
    BY <2>3 DEF Progress, UpMeansTouched
  <2> QED
    BY <1>1, <1>3, <2>1, <2>2, <2>4, ToolTypesKept DEF UpkeepInv
<1>11. CASE FilesChange \/ LogWritten
  <2>1. RagTypes' /\ UNCHANGED <<vars, toolVars>>
    BY <1>1, <1>11, FileTypes
  <2>2. store' = store /\ running' = running /\ touched' = touched /\ UNCHANGED toolVars
    BY <2>1 DEF vars, toolVars
  <2>3. events' = events \/ Event
    BY <1>11 DEF FilesChange, LogWritten
  <2> QED
    BY <1>1, <1>2, <1>3, <2>1, <2>2, <2>3, ProgressKept, ToolTypesKept DEF UpkeepInv, UpMeansTouched
<1>12. CASE ToolStep \/ ToolKilled
  <2>1. /\ UNCHANGED ragVars /\ (events' = events \/ Event)
        /\ \/ BeginCompaction \/ PlanCompaction \/ MoveSession \/ UpdateCounts \/ DeleteDropped
           \/ Killed
    BY <1>12 DEF ToolStep, ToolKilled
  <2> QED
    BY <1>2, <1>3, <2>1, ToolStepInv DEF UpkeepInv
<1> QED
  BY <1>5, <1>6, <1>7, <1>8, <1>9, <1>10, <1>11, <1>12 DEF UpkeepNext

LEMMA UpkeepInvariant == UpkeepSpec => []UpkeepInv
BY InitUpkeep, StepUpkeep, PTL DEF UpkeepSpec

\* rag_node, the compact_memory tool and the files keep their types, in whatever
\* order they start, write and die: no group of a plan drops what it keeps, and no
\* memory is in two of them.
THEOREM UpkeepTypeCorrect == UpkeepSpec => []UpkeepTypeOK
<1>1. UpkeepInv => UpkeepTypeOK
  BY DEF UpkeepInv, RagTypes, ToolTypes, UpkeepTypeOK, CompactionTypeOK, TypeOK
<1> QED
  BY <1>1, UpkeepInvariant, PTL

\* "No two surviving memories of the same (map session, zone, look) lie within radius
\* of each other" (plan_compaction): a run of compact_memory that comes to its end
\* undisturbed leaves nothing for a second one to fold, whatever was killed before.
THEOREM CompactionSettles == UpkeepSpec => []CompactedApart
<1>1. UpkeepInv => CompactedApart
  <2> SUFFICES ASSUME UpkeepInv, tool = "done", ~touched,
                      NEW i \in SceneId, NEW j \in SceneId, i # j, Stored(i), Stored(j),
                      store[i].mapId = store[j].mapId, store[i].zone = store[j].zone,
                      Key(i) = Key(j), Key(i) # NoLook
               PROVE  Dist(store[i].pos, store[j].pos) > Radius
    BY DEF CompactedApart
  <2>1. StoreTyped /\ Progress /\ Typed
    BY DEF UpkeepInv, RagTypes, TypeOK, StoreTyped, Typed, ToolTypes
  <2>2. ApartBut({}) /\ i \in Scenes /\ j \in Scenes
    BY <2>1, ProgressHolds DEF Scenes
  <2>3. SessionOf(i) = SessionOf(j)
    BY DEF SessionOf
  <2>4. ~(Dist(store[i].pos, store[j].pos) <= Radius)
    BY <2>2, <2>3 DEF ApartBut, Close
  <2>5. Dist(store[i].pos, store[j].pos) \in Nat /\ Radius \in Nat
    BY <2>1, <2>2, SceneFields, DistAssumption
  <2> QED
    BY <2>4, <2>5
<1> QED
  BY <1>1, UpkeepInvariant, PTL

\* compact_memory forgets no observation: it counts before it deletes, so that a run
\* that is killed has counted too many, never too few, and one that ends exactly
\* those that were there.
THEOREM NothingIsForgotten == UpkeepSpec => []CountsKept
<1>1. UpkeepInv => CountsKept
  <2> SUFFICES ASSUME UpkeepInv, tool \notin {"idle", "checked"}, ~touched
               PROVE  LET kept == Total({i \in Everything : i \notin plan.pruned})
                      IN  kept >= before /\ (tool = "done" => kept = before)
    BY DEF CountsKept
  <2>1. StoreTyped /\ Progress /\ tool \in {"retag", "count", "delete", "done"}
    BY DEF UpkeepInv, RagTypes, TypeOK, StoreTyped, ToolTypes
  <2> QED
    BY <2>1, ProgressHolds
<1> QED
  BY <1>1, UpkeepInvariant, PTL
=============================================================================
