----------------------------- MODULE Compaction -----------------------------
(***************************************************************************)
(* The compact_memory tool (compact_memory.py, plan_compaction): scene     *)
(* memories of one place and look, stored several times before merging on  *)
(* write existed, are folded into one.  The tool looks for rag_node once,  *)
(* reads the store, plans, and writes in up to three steps; it may be      *)
(* killed between any two.  The copy it makes first is left out.           *)
(*                                                                         *)
(* A memory of SemanticMemory without a look is one without a group key.   *)
(***************************************************************************)
EXTENDS SemanticMemory, FiniteSetsExt

CONSTANTS
  Rank,             \* the place of a scene id in the order of their names
  FromMean(_, _),   \* how far a position is from the mean of some positions
  Says,             \* the look that the text of an old memory describes
  Untagged,         \* the session of memories that have none
  Retags,           \* values of --retag-session: pairs of sessions
  NoRetag,          \* ... or none
  MaxRuns           \* bound on the tool's runs

ASSUME CompactionAssumption ==
  /\ IsFiniteSet(PlainId)
  /\ Rank \in [SceneId -> 1..Cardinality(SceneId)]
  /\ \A i, j \in SceneId : Rank[i] = Rank[j] => i = j
  /\ \A P \in SUBSET Position, p \in Position : FromMean(P, p) \in Nat
  /\ Says \in [SceneId -> Look \cup {NoLook}]
  /\ Untagged \in Session
  /\ Retags \subseteq (Session \ {Untagged}) \X (Session \ {Untagged})
  /\ NoRetag \notin Retags /\ MaxRuns \in Nat

VARIABLES
  tool,      \* the tool: idle, checked, retag, count, delete or done
  retag,     \* its --retag-session
  prune,     \* its --prune-untagged
  plan,      \* what it planned: groups, retagged and pruned ids
  runs,      \* how often it was started
  touched,   \* history: has rag_node been up since the tool looked for it?
  before     \* history: observations that were stored when it planned

toolVars == <<tool, retag, prune, plan, runs, touched, before>>

NoPlan == [groups |-> {}, retagged |-> {}, pruned |-> {}]

\* A group: the memory that is kept, as it will be, and the ids it replaces.
Grouping == [keep: SceneId, drop: SUBSET SceneId, memory: Memory]
Ids(g) == g.drop \cup {g.keep}

CompactionTypeOK ==
  /\ store \in [Id -> Memory \cup {Absent}]
  /\ tool \in {"idle", "checked", "retag", "count", "delete", "done"}
  /\ retag \in Retags \cup {NoRetag} /\ prune \in BOOLEAN
  /\ \A g \in plan.groups : g \in Grouping /\ g.keep \notin g.drop
  /\ \A g, h \in plan.groups : g # h => Ids(g) \cap Ids(h) = {}
  /\ plan.retagged \subseteq Id /\ plan.pruned \subseteq Id
  /\ runs \in 0..MaxRuns /\ touched \in BOOLEAN /\ before \in Nat

CompactionInit ==
  /\ tool = "idle" /\ retag = NoRetag /\ prune = FALSE /\ plan = NoPlan
  /\ runs = 0 /\ touched = FALSE /\ before = 0

-----------------------------------------------------------------------------
\* plan_compaction

\* The group key of the metadata, else the one legacy_group_key reads off the text.
Key(i) == IF store[i].look # NoLook THEN store[i].look ELSE Says[i]

\* The session a memory has once those of one session are moved to another.
SessionOf(i) ==
  IF retag # NoRetag /\ store[i].mapId = retag[1] THEN retag[2] ELSE store[i].mapId

Bucket(s, z, l) ==
  {i \in SceneId : Stored(i) /\ SessionOf(i) = s /\ store[i].zone = z /\ Key(i) = l}

\* The member nearest the mean of its cluster; the first by name of several.
Medoid(C) ==
  LET off(i) == FromMean({store[j].pos : j \in C}, store[i].pos)
  IN  CHOOSE i \in C : \A j \in C :
        off(i) < off(j) \/ (off(i) = off(j) /\ Rank[i] <= Rank[j])

CloseBy(C, D) == Dist(store[Medoid(C)].pos, store[Medoid(D)].pos) <= Radius

\* Clusters are listed in the order of the first name in each: they begin with
\* one member, in that order, and one that grows stays where it is.
First(C) == Min({Rank[i] : i \in C})

\* A cluster joins the first one whose medoid is close by, or stays on its own.
Join(merged, C) ==
  LET near == {D \in merged : CloseBy(D, C)}
      target == CHOOSE D \in near : \A E \in near : First(D) <= First(E)
  IN  IF near = {} THEN merged \cup {C} ELSE (merged \ {target}) \cup {target \cup C}

\* One pass over the clusters, in their order.
Pass(clusters) ==
  LET merged[k \in 0..Cardinality(SceneId)] ==
        IF k = 0 THEN {}
        ELSE IF \E C \in clusters : First(C) = k
             THEN Join(merged[k - 1], CHOOSE C \in clusters : First(C) = k)
             ELSE merged[k - 1]
  IN  merged[Cardinality(SceneId)]

Singles(B) == {{i} : i \in B}

\* Mutant: one pass is enough.
ClustersOnePass(B) == Pass(Singles(B))

\* Passes over a bucket until one of them joins nothing: as many as it has
\* members will do.
Clusters(B) ==
  LET after[k \in 0..Cardinality(B)] == IF k = 0 THEN Singles(B) ELSE Pass(after[k - 1])
  IN  after[Cardinality(B)]

\* The observations some memories stand for, and how many these are.
Observations(C) == UNION {{i} \X (1..store[i].count) : i \in C}
Total(C) == Cardinality(Observations(C))

\* Mutant: the one that is kept is dropped as well.
FoldAll(C, s, l) ==
  [keep |-> Medoid(C), drop |-> C,
   memory |-> [store[Medoid(C)] EXCEPT !.mapId = s, !.look = l, !.count = Total(C)]]

\* What becomes of a cluster.
Fold(C, s, l) ==
  [keep |-> Medoid(C), drop |-> C \ {Medoid(C)},
   memory |-> [store[Medoid(C)] EXCEPT !.mapId = s, !.look = l, !.count = Total(C)]]

\* One group per cluster with more than one member.
Groups ==
  UNION {{Fold(C, s, l) : C \in {D \in Clusters(Bucket(s, z, l)) : Cardinality(D) > 1}} :
           s \in Session, z \in Zone, l \in Look}

-----------------------------------------------------------------------------
\* compact, with --apply

Everything == {i \in Id : Stored(i)}

BeginCompaction ==
  /\ tool \in {"idle", "done"} /\ runs < MaxRuns /\ ~running
  /\ tool' = "checked" /\ runs' = runs + 1 /\ touched' = FALSE
  /\ retag' \in Retags \cup {NoRetag} /\ prune' \in BOOLEAN
  /\ UNCHANGED <<vars, plan, before>>

\* The store is read and everything planned; with nothing to do the tool is done.
PlanCompaction ==
  /\ tool = "checked"
  /\ LET pruned == IF prune THEN {i \in Everything : store[i].mapId = Untagged} ELSE {}
         moved == {i \in Everything : SessionOf(i) # store[i].mapId}
     IN  /\ plan' = [groups |-> {g \in Groups : g.keep \notin pruned},
                     retagged |-> moved, pruned |-> pruned]
         /\ before' = Total(Everything \ pruned)
         /\ tool' = IF plan' = NoPlan THEN "done" ELSE "retag"
  /\ UNCHANGED <<vars, retag, prune, runs, touched>>

\* update_metadata ignores an id that is gone.
Rewrite(f) == store' = [i \in Id |-> IF i \in DOMAIN f /\ Stored(i) THEN f[i] ELSE store[i]]

MoveSession ==
  /\ tool = "retag" /\ tool' = "count"
  /\ Rewrite([i \in plan.retagged |->
       IF Stored(i) THEN [store[i] EXCEPT !.mapId = retag[2]] ELSE Absent])
  /\ UNCHANGED <<running, mapId, session, pin, retag, prune, plan, runs, touched, before>>

\* Those that are kept get their look and their count.
Recount ==
  Rewrite([i \in {g.keep : g \in plan.groups} |->
    (CHOOSE g \in plan.groups : g.keep = i).memory])

\* ... and those that are dropped or pruned go.
Drop ==
  store' = [i \in Id |->
    IF i \in plan.pruned \/ \E g \in plan.groups : i \in g.drop THEN Absent ELSE store[i]]

\* Mutant: what is replaced goes first.
UpdateCountsLast ==
  /\ tool = "count" /\ tool' = "delete" /\ Drop
  /\ UNCHANGED <<running, mapId, session, pin, retag, prune, plan, runs, touched, before>>

UpdateCounts ==
  /\ tool = "count" /\ tool' = "delete" /\ Recount
  /\ UNCHANGED <<running, mapId, session, pin, retag, prune, plan, runs, touched, before>>

DeleteDropped ==
  /\ tool = "delete" /\ tool' = "done" /\ Drop
  /\ UNCHANGED <<running, mapId, session, pin, retag, prune, plan, runs, touched, before>>

\* The tool is interrupted: what it has written stays.
Killed ==
  /\ tool \notin {"idle", "done"} /\ tool' = "idle"
  /\ UNCHANGED <<vars, retag, prune, plan, runs, touched, before>>

CompactionNext ==
  BeginCompaction \/ PlanCompaction \/ MoveSession \/ UpdateCounts \/ DeleteDropped \/ Killed

-----------------------------------------------------------------------------
\* Properties

\* "No two surviving memories of the same (map session, zone, look) lie within
\* radius of each other" (plan_compaction), those without a group key by what
\* their text says, and whatever was killed half way before: a second run finds
\* nothing to do.
CompactedApart ==
  tool = "done" /\ ~touched =>
    \A i, j \in SceneId :
      /\ i # j /\ Stored(i) /\ Stored(j)
      /\ store[i].mapId = store[j].mapId /\ store[i].zone = store[j].zone
      /\ Key(i) = Key(j) /\ Key(i) # NoLook
      => Dist(store[i].pos, store[j].pos) > Radius

\* Folding forgets no observation and, when it comes to its end, counts none
\* twice; a run that is killed between the two writes has counted too many, never
\* too few.
CountsKept ==
  tool \notin {"idle", "checked"} /\ ~touched =>
    LET kept == Total({i \in Everything : i \notin plan.pruned})
    IN  kept >= before /\ (tool = "done" => kept = before)
=============================================================================
