-------------------------- MODULE MapSessions_proofs --------------------------
(***************************************************************************)
(* Theorems about MapSessions: launches, saves and memories composed.  The *)
(* composition does to the memory only what SemanticMemory allows, so its  *)
(* theorems carry over, and no memory is ever visible in another frame     *)
(* than the one it was recorded in, given an operator who neither reuses a *)
(* name for another frame's map, nor saves before rag_node is up, nor      *)
(* starts the robot where its map does not place it.                       *)
(***************************************************************************)
EXTENDS MapSessions, SemanticMemory_proofs

Careful == ~ReuseNames /\ ~SaveEarly /\ ~AnyStart

FreshIds == {FreshId[f] : f \in Frame}

\* The saved files of an id hold no map of another frame.
NoOther(s, f) == \A x \in File : disk[s][x] \in {NoFrame, f}

\* The frame an id stands for: the one it is named after, or that of the files
\* saved under it.
Belongs(s, f) ==
  IF s \in FreshIds THEN FreshId[f] = s ELSE NoOther(s, f) /\ \E x \in File : disk[s][x] = f

\* An id that f's map may be saved under.
MayTake(s, f) == IF s \in FreshIds THEN FreshId[f] = s ELSE NoOther(s, f)

\* The launch, session.json and rag_node name the frame the robot is in.
LaunchAgrees ==
  /\ frame = NoFrame => pin = NoSession /\ ~pinned
  /\ frame # NoFrame => pin \in Session /\ Belongs(pin, frame)
  /\ running => pinned /\ mapId = pin
  /\ pinned => frame # NoFrame /\ session \in Session /\ Belongs(session, frame)

\* A request is under an id of the frame.
JobAgrees(job) ==
  /\ frame # NoFrame /\ MayTake(job.id, frame)
  /\ job.kind = "image" => Belongs(job.id, frame)

\* A save, and every request it left at SLAM Toolbox, is under an id of the frame.
SaveAgrees ==
  /\ save.pc # "idle" => pinned /\ save.id \in Session /\ MayTake(save.id, frame)
  /\ save.pc = "image" => Belongs(save.id, frame)
  /\ \A k \in DOMAIN slam : JobAgrees(slam[k])

DiskAgrees ==
  \A s \in Session, x \in File : disk[s][x] # NoFrame => Belongs(s, disk[s][x])

MemoriesAgree ==
  \A i \in Id : Stored(i) => madeIn[i] \in Frame /\ Belongs(store[i].mapId, madeIn[i])

MInv == MapTypeOK /\ IInv /\ LaunchAgrees /\ SaveAgrees /\ DiskAgrees /\ MemoriesAgree

-----------------------------------------------------------------------------
\* The composition does to the memory what SemanticMemory does.

LEMMA MapMemoryStep == ASSUME SaveAgrees, [MapNext]_allVars PROVE [Next]_vars
<1>1. CASE LaunchFresh \/ LaunchSaved \/ LaunchFails
  <2>1. \E s \in Session \cup {NoSession} : Relaunch(s)
    BY <1>1, FrameAssumption DEF LaunchFresh, LaunchSaved, LaunchFails, Launch
  <2> QED
    BY <2>1 DEF Next
<1>2. CASE StartRag \/ CrashRag
  BY <1>2 DEF StartRag, CrashRag, Next
<1>3. CASE RememberScene
  BY <1>3 DEF RememberScene, Next
<1>4. CASE IndexZone
  BY <1>4 DEF IndexZone, Next
<1>5. CASE DeleteMemory
  <2>1. PICK i \in Id : Delete({i})
    BY <1>5 DEF DeleteMemory
  <2>2. {i} \in SUBSET Id
    OBVIOUS
  <2> QED
    BY <2>1, <2>2 DEF Next
<1>6. CASE BeginSave \/ ServeSlam \/ CheckGraph \/ CrashExecutor
  BY <1>6 DEF BeginSave, ServeSlam, CheckGraph, CrashExecutor, vars
<1>7. CASE CheckImage
  <2>1. CASE UNCHANGED vars
    BY <2>1
  <2>2. CASE save.named /\ save.pc = "image" /\ PinFile(save.id)
    <3>1. save.id \in Session
      BY <2>2 DEF SaveAgrees
    <3> QED
      BY <2>2, <3>1 DEF Next
  <2> QED
    BY <1>7, <2>1, <2>2 DEF CheckImage
<1>8. CASE UNCHANGED allVars
  BY <1>8 DEF allVars
<1> QED
  BY <1>1, <1>2, <1>3, <1>4, <1>5, <1>6, <1>7, <1>8 DEF MapNext

-----------------------------------------------------------------------------
\* Launching

\* Where the robot is spawned and where it is told it is agree on the frame.
LEMMA PlacedInFrame ==
  ASSUME NEW f \in Frame, NEW pose \in Frame, NEW z \in StartPoint \cup {NoZone},
         Placed(pose, z, f)
  PROVE  SpawnAt(pose, z) - StartPose(z) = f
<1>1. f \in Int /\ pose \in Int /\ DefaultSpawn \in Int /\ (z # NoZone => z \in Int)
  BY FrameAssumption
<1> QED
  BY <1>1 DEF Placed, SpawnAt, StartPose

LEMMA LaunchStep ==
  ASSUME MInv, NEW s \in Session \cup {NoSession}, NEW f \in Frame \cup {NoFrame},
         NEW b \in BOOLEAN, Launch(s, f, b),
         IF f = NoFrame THEN s = NoSession ELSE s \in Session /\ Belongs(s, f)
  PROVE  MapTypeOK' /\ LaunchAgrees' /\ SaveAgrees' /\ DiskAgrees' /\ MemoriesAgree'
<1>1. /\ running' = FALSE /\ pin' = s /\ store' = store
      /\ frame' = f /\ mapping' = b /\ pinned' = FALSE /\ disk' = disk
      /\ save' = Idle /\ slam' = <<>> /\ answer' = "none"
      /\ madeIn' = madeIn /\ kept' = kept /\ keptOwn' = keptOwn
  BY DEF Launch, Relaunch, history
<1>2. MapTypeOK'
  <2>1. Idle \in SaveState
    BY DEF Idle, SaveState
  <2>2. slam' \in Seq([kind: Kind, id: Session]) /\ Len(slam') <= SlamQueue
    BY <1>1, FrameAssumption
  <2> QED
    BY <1>1, <2>1, <2>2 DEF MInv, MapTypeOK
<1>3. LaunchAgrees'
  BY <1>1, FrameAssumption DEF LaunchAgrees, Belongs, NoOther
<1>4. SaveAgrees'
  BY <1>1 DEF SaveAgrees, Idle
<1>5. DiskAgrees' /\ MemoriesAgree'
  BY <1>1 DEF MInv, DiskAgrees, MemoriesAgree, Belongs, NoOther, Stored
<1> QED
  BY <1>2, <1>3, <1>4, <1>5

-----------------------------------------------------------------------------
\* rag_node

LEMMA StartStep ==
  ASSUME MInv, StartRag
  PROVE  MapTypeOK' /\ LaunchAgrees' /\ SaveAgrees' /\ DiskAgrees' /\ MemoriesAgree'
<1>1. /\ frame # NoFrame /\ Start /\ pinned' = TRUE
      /\ UNCHANGED <<frame, mapping, disk, save, slam, answer, madeIn, kept, keptOwn>>
  BY DEF StartRag, saveVars, history
<1>2. pin \in Session /\ pin # NoSession /\ Belongs(pin, frame)
  BY <1>1, SentinelAssumption DEF MInv, LaunchAgrees
<1>3. mapId' = pin /\ session' = pin /\ pin' = pin /\ store' = store
  BY <1>1, <1>2 DEF Start
<1>4. MapTypeOK'
  BY <1>1, <1>2, <1>3 DEF MInv, MapTypeOK
<1>5. LaunchAgrees'
  BY <1>1, <1>2, <1>3 DEF LaunchAgrees, Belongs, NoOther
<1>6. SaveAgrees'
  BY <1>1, <1>3 DEF MInv, SaveAgrees, JobAgrees, Belongs, NoOther, MayTake
<1>7. DiskAgrees' /\ MemoriesAgree'
  BY <1>1, <1>3 DEF MInv, DiskAgrees, MemoriesAgree, Belongs, NoOther, Stored
<1> QED
  BY <1>4, <1>5, <1>6, <1>7

LEMMA CrashStep ==
  ASSUME MInv, CrashRag
  PROVE  MapTypeOK' /\ LaunchAgrees' /\ SaveAgrees' /\ DiskAgrees' /\ MemoriesAgree'
<1>1. /\ running' = FALSE /\ UNCHANGED <<store, mapId, session, pin>>
      /\ UNCHANGED <<frame, mapping, pinned, disk, save, slam, answer, madeIn, kept, keptOwn>>
  BY DEF CrashRag, Crash, launchVars, saveVars, history
<1>2. MapTypeOK'
  BY <1>1 DEF MInv, MapTypeOK
<1>3. LaunchAgrees' /\ SaveAgrees'
  BY <1>1 DEF MInv, LaunchAgrees, SaveAgrees, JobAgrees, Belongs, NoOther, MayTake
<1>4. DiskAgrees' /\ MemoriesAgree'
  BY <1>1 DEF MInv, DiskAgrees, MemoriesAgree, Belongs, NoOther, Stored
<1> QED
  BY <1>2, <1>3, <1>4

\* What a write may do to the collection: leave a memory, drop it, put one of
\* rag_node's session there, or fold into one of that session.
Written(i) ==
  \/ store'[i] = store[i]
  \/ store'[i] = Absent
  \/ store'[i].mapId = mapId /\ store'[i].count = 1
  \/ store'[i].mapId = mapId /\ Stored(i) /\ store[i].mapId = mapId

\* What is stored new is recorded in the robot's frame, under a session of it.
LEMMA RecordStep ==
  ASSUME MInv, Record, running, UNCHANGED <<running, mapId, session, pin>>,
         \A i \in Id : Written(i)
  PROVE  MapTypeOK' /\ LaunchAgrees' /\ SaveAgrees' /\ DiskAgrees' /\ MemoriesAgree'
<1>1. /\ madeIn' = [i \in Id |->
            IF store'[i] = Absent THEN NoFrame ELSE IF i \in Rewritten THEN frame ELSE madeIn[i]]
      /\ UNCHANGED <<frame, mapping, pinned, disk, save, slam, answer>>
      /\ kept' = [s \in Session |-> kept[s] \ Rewritten]
      /\ keptOwn' = [s \in Session |-> keptOwn[s] \ Rewritten]
  BY DEF Record, launchVars, saveVars
<1>2. mapId = pin /\ frame \in Frame /\ Belongs(pin, frame)
  BY DEF MInv, LaunchAgrees, MapTypeOK
<1>3. MapTypeOK'
  <2>1. madeIn' \in [Id -> Frame \cup {NoFrame}]
    BY <1>1 DEF MInv, MapTypeOK
  <2>2. kept' \in [Session -> SUBSET Id] /\ keptOwn' \in [Session -> SUBSET Id]
    BY <1>1 DEF MInv, MapTypeOK
  <2> QED
    BY <1>1, <2>1, <2>2 DEF MInv, MapTypeOK
<1>4. LaunchAgrees' /\ SaveAgrees'
  BY <1>1 DEF MInv, LaunchAgrees, SaveAgrees, JobAgrees, Belongs, NoOther, MayTake
<1>5. DiskAgrees'
  BY <1>1 DEF MInv, DiskAgrees, Belongs, NoOther
<1>6. MemoriesAgree'
  <2> SUFFICES ASSUME NEW i \in Id, store'[i] # Absent
               PROVE  madeIn'[i] \in Frame /\ Belongs(store'[i].mapId, madeIn'[i])
    BY <1>1 DEF MemoriesAgree, Stored, Belongs, NoOther
  <2>1. CASE i \in Rewritten
    <3>1. store'[i].mapId = mapId
      BY <2>1 DEF Rewritten, Written
    <3> QED
      BY <1>1, <1>2, <2>1, <3>1
  <2>2. CASE i \notin Rewritten
    <3>1. madeIn'[i] = madeIn[i]
      BY <1>1, <2>2
    <3>2. Stored(i) /\ store'[i].mapId = store[i].mapId
      BY <2>2 DEF Rewritten, Written, Stored
    <3> QED
      BY <3>1, <3>2 DEF MInv, MemoriesAgree
  <2> QED
    BY <2>1, <2>2
<1> QED
  BY <1>3, <1>4, <1>5, <1>6

LEMMA RememberWrites ==
  ASSUME MInv, RememberScene \/ IndexZone \/ DeleteMemory
  PROVE  Record /\ running /\ UNCHANGED <<running, mapId, session, pin>> /\ \A i \in Id : Written(i)
<1>0. store \in [Id -> Memory \cup {Absent}] /\ IInv
  BY DEF MInv, IInv, TypeOK
<1>1. CASE RememberScene
  <2>1. PICK p \in Position, l \in Look, z \in Zone : Observe(p, l, z) /\ Record
    BY <1>1 DEF RememberScene
  <2>2. running /\ UNCHANGED <<running, mapId, session, pin>>
    BY <2>1 DEF Observe
  <2>3. CASE store' = [store EXCEPT ![Cell[p]] = NewMemory(mapId, l, z, p)]
    <3>1. \A i \in Id : Written(i)
      BY <1>0, <2>3 DEF Written, NewMemory
    <3> QED
      BY <2>1, <2>2, <3>1
  <2>4. CASE \E t \in Group(mapId, l, z) : store' = [store EXCEPT ![t] = Folded(store[t])]
    <3>1. PICK t \in Group(mapId, l, z) : store' = [store EXCEPT ![t] = Folded(store[t])]
      BY <2>4
    <3>2. t \in Id /\ Stored(t) /\ store[t] \in Memory /\ store[t].mapId = mapId
      BY <1>0, <3>1 DEF Group, InGroup, Stored
    <3>3. Folded(store[t]).mapId = mapId
      BY <3>2, FoldedType
    <3>4. \A i \in Id : Written(i)
      BY <1>0, <3>1, <3>2, <3>3 DEF Written
    <3> QED
      BY <2>1, <2>2, <3>4
  <2> QED
    BY <1>0, <2>1, <2>3, <2>4, ObserveCases
<1>2. CASE IndexZone
  <2>1. PICK i \in PlainId, p \in Position, z \in Zone : Index(i, p, z) /\ Record
    BY <1>2 DEF IndexZone
  <2>2. running /\ UNCHANGED <<running, mapId, session, pin>>
    BY <2>1 DEF Index
  <2>3. \A j \in Id : Written(j)
    BY <1>0, <2>1 DEF Written, Index, NewMemory, Id
  <2> QED
    BY <2>1, <2>2, <2>3
<1>3. CASE DeleteMemory
  <2>1. PICK i \in Id : Delete({i}) /\ Record
    BY <1>3 DEF DeleteMemory
  <2>2. running /\ UNCHANGED <<running, mapId, session, pin>>
    BY <2>1 DEF Delete
  <2>3. \A j \in Id : Written(j)
    BY <2>1 DEF Written, Delete
  <2> QED
    BY <2>1, <2>2, <2>3
<1> QED
  BY <1>1, <1>2, <1>3

LEMMA RememberStep ==
  ASSUME MInv, RememberScene \/ IndexZone \/ DeleteMemory
  PROVE  MapTypeOK' /\ LaunchAgrees' /\ SaveAgrees' /\ DiskAgrees' /\ MemoriesAgree'
BY RememberWrites, RecordStep

-----------------------------------------------------------------------------
\* Saving

SlamJob == [kind: Kind, id: Session]

\* Steps that leave the memory, the launch and the disk alone.
LEMMA SaveOnly ==
  ASSUME MInv, UNCHANGED <<vars, launchVars, disk, history>>,
         save' \in SaveState, answer' \in {"none", "ok", "failed"},
         slam' \in Seq(SlamJob), Len(slam') <= SlamQueue, SaveAgrees'
  PROVE  MapTypeOK' /\ LaunchAgrees' /\ SaveAgrees' /\ DiskAgrees' /\ MemoriesAgree'
<1>1. MapTypeOK'
  BY DEF MInv, MapTypeOK, vars, launchVars, history, SlamJob
<1>2. LaunchAgrees'
  BY DEF MInv, LaunchAgrees, Belongs, NoOther, vars, launchVars
<1>3. DiskAgrees' /\ MemoriesAgree'
  BY DEF MInv, DiskAgrees, MemoriesAgree, Belongs, NoOther, Stored, vars, history
<1> QED
  BY <1>1, <1>2, <1>3

LEMMA IdleIsState == Idle \in SaveState
BY DEF Idle, SaveState

\* One more request under an id of the frame.
LEMMA Requested ==
  ASSUME MInv, NEW job \in SlamJob, JobAgrees(job), slam' = Append(slam, job),
         UNCHANGED <<frame, disk>>
  PROVE  /\ slam' \in Seq(SlamJob) /\ Len(slam') = Len(slam) + 1
         /\ \A k \in DOMAIN slam' : JobAgrees(slam[k])'
<1>1. slam \in Seq(SlamJob)
  BY DEF MInv, MapTypeOK, SlamJob
<1>2. slam' \in Seq(SlamJob) /\ Len(slam') = Len(slam) + 1
  BY <1>1
<1>3. ASSUME NEW k \in DOMAIN slam' PROVE JobAgrees(slam[k])'
  <2>1. slam'[k] = job \/ (k \in DOMAIN slam /\ slam'[k] = slam[k])
    BY <1>1, <1>3
  <2> QED
    BY <2>1 DEF MInv, SaveAgrees, JobAgrees, MayTake, Belongs, NoOther
<1> QED
  BY <1>2, <1>3

LEMMA BeginStep ==
  ASSUME MInv, Careful, BeginSave
  PROVE  MapTypeOK' /\ LaunchAgrees' /\ SaveAgrees' /\ DiskAgrees' /\ MemoriesAgree'
<1>1. /\ frame # NoFrame /\ pinned /\ session \in Session /\ Belongs(session, frame)
      /\ session # NoSession
      /\ UNCHANGED <<vars, launchVars, disk, history>>
      /\ UNCHANGED <<frame, pinned, disk>>
  BY SentinelAssumption DEF BeginSave, Careful, MInv, LaunchAgrees, launchVars
<1>2. CASE UNCHANGED <<save, slam>> /\ answer' = "failed"
  <2>1. SaveAgrees'
    BY <1>1, <1>2 DEF MInv, SaveAgrees, JobAgrees, MayTake, Belongs, NoOther
  <2> QED
    BY <1>1, <1>2, <2>1, SaveOnly DEF MInv, MapTypeOK, SlamJob
<1>3. CASE /\ mapping /\ Len(slam) < SlamQueue /\ answer' = "none"
           /\ \E n \in SaveNames \cup {NoName} :
                /\ n # NoName => ~TakenName(n)
                /\ LET id == IF n # NoName THEN n ELSE session
                   IN  /\ save' = [Idle EXCEPT !.pc = "graph", !.id = id, !.named = n # NoName,
                                               !.stamped = Exists("graph", id)]
                       /\ Request("graph", id)
  <2>1. PICK n \in SaveNames \cup {NoName} :
          /\ n # NoName => ~TakenName(n)
          /\ LET id == IF n # NoName THEN n ELSE session
             IN  /\ save' = [Idle EXCEPT !.pc = "graph", !.id = id, !.named = n # NoName,
                                         !.stamped = Exists("graph", id)]
                 /\ Request("graph", id)
    BY <1>3
  <2> DEFINE id == IF n # NoName THEN n ELSE session
             job == [kind |-> "graph", id |-> id]
  <2>2. id \in Session /\ MayTake(id, frame)
    <3>1. CASE n = NoName
      BY <1>1, <3>1 DEF MayTake, Belongs, NoOther
    <3>2. CASE n # NoName
      BY <2>1, <3>2, FrameAssumption DEF MayTake, NoOther, TakenName, FreshIds
    <3> QED
      BY <3>1, <3>2
  <2>3. job \in SlamJob /\ JobAgrees(job) /\ slam' = Append(slam, job)
    BY <1>1, <2>1, <2>2 DEF SlamJob, JobAgrees, Kind, Request
  <2>4. /\ slam' \in Seq(SlamJob) /\ Len(slam') = Len(slam) + 1
        /\ \A k \in DOMAIN slam' : JobAgrees(slam[k])'
    BY <1>1, <2>3, Requested
  <2>5. Len(slam') <= SlamQueue
    BY <1>3, <2>4, FrameAssumption DEF MInv, MapTypeOK
  <2>6. save'.pc = "graph" /\ save'.id = id /\ save' \in SaveState
    BY <2>1, <2>2 DEF SaveState, Idle, Kind, Exists
  <2>7. SaveAgrees'
    <3>1. pinned' /\ MayTake(save.id, frame)'
      BY <1>1, <2>2, <2>6 DEF MayTake, NoOther
    <3> QED
      BY <2>2, <2>4, <2>6, <3>1 DEF SaveAgrees
  <2> QED
    BY <1>1, <1>3, <2>4, <2>5, <2>6, <2>7, SaveOnly DEF MInv, MapTypeOK
<1> QED
  BY <1>1, <1>2, <1>3 DEF BeginSave, Careful

LEMMA CheckGraphStep ==
  ASSUME MInv, CheckGraph
  PROVE  MapTypeOK' /\ LaunchAgrees' /\ SaveAgrees' /\ DiskAgrees' /\ MemoriesAgree'
<1>1. /\ save.pc = "graph" /\ UNCHANGED <<vars, launchVars, disk, history>>
      /\ UNCHANGED <<frame, pinned, disk>>
      /\ pinned /\ save.id \in Session /\ frame # NoFrame /\ save \in SaveState
  BY DEF CheckGraph, MInv, MapTypeOK, SaveAgrees, LaunchAgrees, launchVars
<1>2. CASE Fail /\ UNCHANGED slam
  <2>1. SaveAgrees'
    BY <1>1, <1>2 DEF Fail, Idle, MInv, SaveAgrees, JobAgrees, MayTake, Belongs, NoOther
  <2> QED
    BY <1>1, <1>2, <2>1, SaveOnly, IdleIsState DEF Fail, MInv, MapTypeOK, SlamJob
<1>3. CASE /\ Wrote /\ Len(slam) < SlamQueue /\ UNCHANGED answer
           /\ save' = [save EXCEPT !.pc = "image", !.stamped = Exists("image", save.id),
                                   !.wrote = {}, !.replied = FALSE]
           /\ Request("image", save.id)
  <2> DEFINE job == [kind |-> "image", id |-> save.id]
  <2>1. Belongs(save.id, frame) /\ MayTake(save.id, frame)
    <3>1. MayTake(save.id, frame) /\ disk[save.id]["posegraph"] # NoFrame /\ "posegraph" \in File
      BY <1>1, <1>3 DEF Wrote, Exists, Files, File, MInv, SaveAgrees
    <3> QED
      BY <1>1, <3>1 DEF MayTake, Belongs, NoOther
  <2>2. job \in SlamJob /\ JobAgrees(job) /\ slam' = Append(slam, job)
    BY <1>1, <1>3, <2>1 DEF SlamJob, JobAgrees, Kind, Request
  <2>3. /\ slam' \in Seq(SlamJob) /\ Len(slam') = Len(slam) + 1
        /\ \A k \in DOMAIN slam' : JobAgrees(slam[k])'
    BY <1>1, <2>2, Requested
  <2>4. Len(slam') <= SlamQueue
    BY <1>3, <2>3, FrameAssumption DEF MInv, MapTypeOK
  <2>5. save' \in SaveState /\ save'.id = save.id /\ save'.pc = "image"
    BY <1>1, <1>3 DEF SaveState, Kind, Exists
  <2>6. SaveAgrees'
    <3>1. pinned' /\ MayTake(save.id, frame)' /\ Belongs(save.id, frame)'
      BY <1>1, <2>1, <2>5 DEF MayTake, Belongs, NoOther
    <3> QED
      BY <1>1, <2>3, <2>5, <3>1 DEF SaveAgrees
  <2> QED
    BY <1>1, <1>3, <2>3, <2>4, <2>5, <2>6, SaveOnly DEF MInv, MapTypeOK
<1> QED
  BY <1>2, <1>3 DEF CheckGraph

LEMMA CheckImageStep ==
  ASSUME MInv, CheckImage
  PROVE  MapTypeOK' /\ LaunchAgrees' /\ SaveAgrees' /\ DiskAgrees' /\ MemoriesAgree'
<1>1. /\ save.pc = "image" /\ save' = Idle /\ answer' \in {"none", "ok", "failed"}
      /\ UNCHANGED <<frame, mapping, pinned, disk, slam, madeIn>>
      /\ UNCHANGED <<store, running, mapId, pin>>
      /\ session' = session \/ session' = save.id
      /\ kept' \in [Session -> SUBSET Id] /\ keptOwn' \in [Session -> SUBSET Id]
  <2>1. Visible \in SUBSET Id
    BY DEF Visible
  <2> QED
    BY <2>1 DEF CheckImage, Fail, PinFile, vars, launchVars, MInv, MapTypeOK
<1>2. save.id \in Session /\ pinned /\ Belongs(save.id, frame)
  BY <1>1 DEF MInv, SaveAgrees
<1>3. session' \in Session /\ Belongs(session', frame)
  BY <1>1, <1>2 DEF MInv, LaunchAgrees
<1>4. MapTypeOK'
  BY <1>1, <1>3, IdleIsState, SentinelAssumption DEF MInv, MapTypeOK
<1>5. LaunchAgrees'
  BY <1>1, <1>3 DEF MInv, LaunchAgrees, Belongs, NoOther
<1>6. SaveAgrees'
  BY <1>1 DEF MInv, SaveAgrees, JobAgrees, MayTake, Belongs, NoOther, Idle
<1>7. DiskAgrees' /\ MemoriesAgree'
  BY <1>1 DEF MInv, DiskAgrees, MemoriesAgree, Belongs, NoOther, Stored
<1> QED
  BY <1>4, <1>5, <1>6, <1>7

LEMMA ExecutorStep ==
  ASSUME MInv, CrashExecutor
  PROVE  MapTypeOK' /\ LaunchAgrees' /\ SaveAgrees' /\ DiskAgrees' /\ MemoriesAgree'
<1>1. /\ save' = Idle /\ answer' = "none" /\ UNCHANGED slam
      /\ UNCHANGED <<vars, launchVars, disk, history>> /\ UNCHANGED <<frame, disk>>
  BY DEF CrashExecutor, launchVars
<1>2. SaveAgrees'
  BY <1>1 DEF Idle, MInv, SaveAgrees, JobAgrees, MayTake, Belongs, NoOther
<1> QED
  BY <1>1, <1>2, SaveOnly, IdleIsState DEF MInv, MapTypeOK, SlamJob

\* NoOther, Belongs and MayTake, said of the files after the step.
NoOtherThen(s, f) == \A x \in File : disk'[s][x] \in {NoFrame, f}
BelongsThen(s, f) ==
  IF s \in FreshIds THEN FreshId[f] = s ELSE NoOtherThen(s, f) /\ \E x \in File : disk'[s][x] = f
MayTakeThen(s, f) == IF s \in FreshIds THEN FreshId[f] = s ELSE NoOtherThen(s, f)

\* Some of the files of s now hold the frame of the map the robot is on.
Overwrites(s, W) ==
  disk' = [disk EXCEPT ![s] = [f \in File |-> IF f \in W THEN frame ELSE disk[s][f]]]

\* The id of a saved file may not stand for another frame, so writing it changes
\* no id's frame.
LEMMA WriteKeeps ==
  ASSUME MapTypeOK, NEW s \in Session, NEW W \in SUBSET File, frame \in Frame, MayTake(s, frame),
         Overwrites(s, W)
  PROVE  /\ \A r \in Session, f \in Frame : Belongs(r, f) => BelongsThen(r, f)
         /\ \A r \in Session : MayTake(r, frame) => MayTakeThen(r, frame)
         /\ \A r \in Session, y \in File :
              disk'[r][y] = disk[r][y] \/ (r = s /\ disk'[r][y] = frame /\ BelongsThen(s, frame))
         /\ disk' \in [Session -> [File -> Frame \cup {NoFrame}]]
<1>1. disk \in [Session -> [File -> Frame \cup {NoFrame}]] /\ NoFrame \notin Frame
  BY FrameAssumption DEF MapTypeOK
<1>2. /\ \A x \in File : disk'[s][x] = IF x \in W THEN frame ELSE disk[s][x]
      /\ \A r \in Session : r # s => disk'[r] = disk[r]
      /\ disk' \in [Session -> [File -> Frame \cup {NoFrame}]]
  BY <1>1 DEF Overwrites
<1>3. ASSUME NEW r \in Session, MayTake(r, frame) PROVE MayTakeThen(r, frame)
  BY <1>1, <1>2, <1>3 DEF MayTake, MayTakeThen, NoOther, NoOtherThen
<1>4. ASSUME NEW r \in Session, NEW f \in Frame, Belongs(r, f) PROVE BelongsThen(r, f)
  <2>1. CASE r \in FreshIds
    BY <1>4, <2>1 DEF Belongs, BelongsThen
  <2>2. CASE r \notin FreshIds /\ r # s
    BY <1>2, <1>4, <2>2 DEF Belongs, BelongsThen, NoOther, NoOtherThen
  <2>3. CASE r \notin FreshIds /\ r = s
    <3>1. PICK x \in File : disk[s][x] = f
      BY <1>4, <2>3 DEF Belongs
    <3>2. f = frame
      BY <1>1, <2>3, <3>1 DEF MayTake, NoOther
    <3>3. disk'[s][x] = f
      BY <1>2, <3>1, <3>2
    <3>4. MayTakeThen(s, frame)
      BY <1>3
    <3> QED
      BY <2>3, <3>2, <3>3, <3>4 DEF BelongsThen, MayTakeThen
  <2> QED
    BY <2>1, <2>2, <2>3
<1>5. ASSUME NEW r \in Session, NEW y \in File, disk'[r][y] # disk[r][y]
      PROVE  r = s /\ disk'[r][y] = frame /\ BelongsThen(s, frame)
  <2>1. r = s /\ disk'[s][y] = frame
    BY <1>2, <1>5
  <2>2. MayTakeThen(s, frame)
    BY <1>3
  <2> QED
    BY <2>1, <2>2 DEF BelongsThen, MayTakeThen
<1> QED
  BY <1>2, <1>3, <1>4, <1>5

\* A served request: some files of its pair are written, and the skill sees those
\* it waited for.
LEMMA ServedJob ==
  ASSUME MInv, ServeSlam, NEW job \in SlamJob, job = Head(slam)
  PROVE  \E W \in SUBSET Files[job.kind] :
           /\ W \in SUBSET File /\ Overwrites(job.id, W)
           /\ save' \in SaveState /\ save'.pc = save.pc /\ save'.id = save.id
           /\ save'.stamped = save.stamped
           /\ save'.wrote =
                IF save.id = job.id /\ save.pc = job.kind THEN save.wrote \cup W ELSE save.wrote
           /\ save'.fresh = IF save.id = job.id THEN save.fresh \cup W ELSE save.fresh
<1> DEFINE mine(j) == save.id = j.id
           ofStage(j) == mine(j) /\ save.pc = j.kind
           after(j, W, ok) ==
             [save EXCEPT !.wrote = IF ofStage(j) THEN @ \cup W ELSE @,
                          !.fresh = IF mine(j) THEN @ \cup W ELSE @,
                          !.replied = ofStage(j) /\ Len(slam) = 1 /\ ok]
           served(j) ==
             \E W \in SUBSET Files[j.kind], ok \in BOOLEAN :
               Overwrites(j.id, W) /\ save' = after(j, W, ok)
<1>1. served(job)
  <2>1. served(Head(slam))
    BY Zenon DEF ServeSlam, Overwrites
  <2> HIDE DEF served
  <2> QED
    BY <2>1, Zenon
<1>2. PICK W \in SUBSET Files[job.kind], ok \in BOOLEAN :
        Overwrites(job.id, W) /\ save' = after(job, W, ok)
  BY <1>1
<1>3. W \in SUBSET File
  BY DEF SlamJob, Kind, Files, File
<1>4. save \in SaveState
  BY DEF MInv, MapTypeOK
<1>5. DEFINE stage == ofStage(job)
             own == mine(job)
             reply == stage /\ Len(slam) = 1 /\ ok
<1>6. stage \in BOOLEAN /\ own \in BOOLEAN /\ reply \in BOOLEAN
  OBVIOUS
<1>7. save' = [save EXCEPT !.wrote = IF stage THEN @ \cup W ELSE @,
                           !.fresh = IF own THEN @ \cup W ELSE @, !.replied = reply]
  BY <1>2
<1>8. /\ save' \in SaveState /\ save'.pc = save.pc /\ save'.id = save.id
      /\ save'.stamped = save.stamped
      /\ save'.wrote = IF stage THEN save.wrote \cup W ELSE save.wrote
      /\ save'.fresh = IF own THEN save.fresh \cup W ELSE save.fresh
  <2> HIDE DEF stage, own, reply
  <2> QED
    BY <1>3, <1>4, <1>6, <1>7 DEF SaveState
<1> QED
  BY <1>2, <1>3, <1>8

LEMMA ServeStep ==
  ASSUME MInv, ServeSlam
  PROVE  MapTypeOK' /\ LaunchAgrees' /\ SaveAgrees' /\ DiskAgrees' /\ MemoriesAgree'
<1>1. /\ slam \in Seq(SlamJob) /\ slam # <<>> /\ slam' = Tail(slam)
      /\ save \in SaveState /\ Len(slam) <= SlamQueue /\ SlamQueue \in Nat
      /\ UNCHANGED <<vars, launchVars, answer, history>>
      /\ UNCHANGED <<frame, mapping, pinned, store, running, mapId, session, pin, madeIn, kept, keptOwn>>
  BY FrameAssumption DEF ServeSlam, MInv, MapTypeOK, SlamJob, vars, launchVars, history
<1>2. 1 \in DOMAIN slam /\ slam[1] \in SlamJob /\ Head(slam) = slam[1]
  BY <1>1
<1>3. PICK job \in SlamJob : job = slam[1]
  BY <1>2
<1>4. job.kind \in Kind /\ job.id \in Session
  BY DEF SlamJob
<1>5. frame \in Frame /\ MayTake(job.id, frame)
  BY <1>2, <1>3 DEF MInv, MapTypeOK, SaveAgrees, JobAgrees
<1>6. /\ slam' \in Seq(SlamJob) /\ Len(slam') <= SlamQueue
      /\ \A k \in DOMAIN slam' : k + 1 \in DOMAIN slam /\ slam'[k] = slam[k + 1]
  BY <1>1
<1>7. PICK W \in SUBSET File :
        /\ Overwrites(job.id, W)
        /\ save' \in SaveState /\ save'.pc = save.pc /\ save'.id = save.id
  BY <1>2, <1>3, ServedJob
<1>8. \A k \in DOMAIN slam' :
        slam'[k].id \in Session /\ MayTake(slam'[k].id, frame)
        /\ (slam'[k].kind = "image" => Belongs(slam'[k].id, frame))
  <2> SUFFICES ASSUME NEW k \in DOMAIN slam' PROVE
        slam'[k].id \in Session /\ MayTake(slam'[k].id, frame)
        /\ (slam'[k].kind = "image" => Belongs(slam'[k].id, frame))
    OBVIOUS
  <2>1. slam'[k] = slam[k + 1] /\ k + 1 \in DOMAIN slam
    BY <1>6
  <2>2. JobAgrees(slam[k + 1]) /\ slam[k + 1] \in SlamJob
    BY <1>1, <2>1 DEF MInv, SaveAgrees
  <2> QED
    BY <2>1, <2>2 DEF JobAgrees, SlamJob
<1>9. /\ save.pc # "idle" => pinned /\ save.id \in Session /\ MayTake(save.id, frame)
      /\ save.pc = "image" => save.id \in Session /\ Belongs(save.id, frame)
  BY DEF MInv, SaveAgrees
<1>10. /\ \A r \in Session, f \in Frame : Belongs(r, f) => BelongsThen(r, f)
       /\ \A r \in Session : MayTake(r, frame) => MayTakeThen(r, frame)
       /\ \A r \in Session, y \in File :
            disk'[r][y] = disk[r][y] \/ (r = job.id /\ disk'[r][y] = frame /\ BelongsThen(job.id, frame))
       /\ disk' \in [Session -> [File -> Frame \cup {NoFrame}]]
  BY <1>4, <1>5, <1>7, WriteKeeps DEF MInv
<1>12. MapTypeOK'
  BY <1>1, <1>6, <1>7, <1>10 DEF MInv, MapTypeOK, SlamJob
<1>13. LaunchAgrees'
  <2>1. pin \in Session /\ BelongsThen(pin, frame)
    BY <1>5, <1>10, FrameAssumption DEF MInv, LaunchAgrees
  <2>2. pinned => session \in Session /\ BelongsThen(session, frame)
    BY <1>5, <1>10 DEF MInv, LaunchAgrees
  <2>3. frame # NoFrame /\ (running => pinned /\ mapId = pin)
    BY <1>5, FrameAssumption DEF MInv, LaunchAgrees
  <2>4. Belongs(pin, frame)' /\ (pinned => Belongs(session, frame)')
    BY <1>1, <2>1, <2>2 DEF BelongsThen, Belongs, NoOtherThen, NoOther
  <2> QED
    BY <1>1, <2>1, <2>2, <2>3, <2>4 DEF LaunchAgrees
<1>14. SaveAgrees'
  <2>1. save.pc # "idle" => pinned /\ save.id \in Session /\ MayTakeThen(save.id, frame)
    BY <1>9, <1>10
  <2>2. save.pc = "image" => BelongsThen(save.id, frame)
    BY <1>5, <1>9, <1>10
  <2>3. \A k \in DOMAIN slam' :
          MayTakeThen(slam'[k].id, frame)
          /\ (slam'[k].kind = "image" => BelongsThen(slam'[k].id, frame))
    BY <1>5, <1>8, <1>10
  <2>4. \A k \in DOMAIN slam' : JobAgrees(slam[k])'
    <3> SUFFICES ASSUME NEW k \in DOMAIN slam' PROVE JobAgrees(slam[k])'
      OBVIOUS
    <3>1. MayTake(slam[k].id, frame)'
      BY <1>1, <2>3 DEF MayTake, MayTakeThen, NoOther, NoOtherThen
    <3>2. (slam[k].kind = "image" => Belongs(slam[k].id, frame))'
      BY <1>1, <2>3 DEF Belongs, BelongsThen, NoOther, NoOtherThen
    <3> QED
      BY <1>1, <1>5, <3>1, <3>2, FrameAssumption DEF JobAgrees
  <2>5. save'.pc # "idle" => pinned' /\ save'.id \in Session /\ MayTake(save.id, frame)'
    BY <1>1, <1>7, <2>1 DEF MayTake, MayTakeThen, NoOther, NoOtherThen
  <2>6. save'.pc = "image" => Belongs(save.id, frame)'
    BY <1>1, <1>7, <2>2 DEF Belongs, BelongsThen, NoOther, NoOtherThen
  <2> QED
    BY <2>4, <2>5, <2>6 DEF SaveAgrees
<1>15. DiskAgrees'
  <2> SUFFICES ASSUME NEW r \in Session, NEW y \in File, disk'[r][y] # NoFrame
               PROVE  BelongsThen(r, disk'[r][y])
    BY DEF DiskAgrees, Belongs, BelongsThen, NoOther, NoOtherThen
  <2>1. CASE disk'[r][y] = disk[r][y]
    <3>1. disk[r][y] \in Frame /\ Belongs(r, disk[r][y])
      BY <2>1 DEF MInv, DiskAgrees, MapTypeOK
    <3> QED
      BY <1>10, <2>1, <3>1
  <2>2. CASE r = job.id /\ disk'[r][y] = frame /\ BelongsThen(job.id, frame)
    BY <2>2
  <2> QED
    BY <1>10, <2>1, <2>2
<1>16. MemoriesAgree'
  <2> SUFFICES ASSUME NEW i \in Id, Stored(i)
               PROVE  madeIn[i] \in Frame /\ BelongsThen(store[i].mapId, madeIn[i])
    BY <1>1 DEF MemoriesAgree, Stored, Belongs, BelongsThen, NoOther, NoOtherThen
  <2>1. madeIn[i] \in Frame /\ Belongs(store[i].mapId, madeIn[i]) /\ store[i].mapId \in Session
    BY DEF MInv, MemoriesAgree, Stored, IInv, TypeOK, Memory
  <2> QED
    BY <1>10, <2>1
<1> QED
  BY <1>12, <1>13, <1>14, <1>15, <1>16

-----------------------------------------------------------------------------
\* The composition

LEMMA InitMInv == MapInit => MInv
<1> SUFFICES ASSUME MapInit PROVE MInv
  OBVIOUS
<1>1. /\ Init /\ pin = NoSession /\ running = FALSE /\ frame = NoFrame /\ mapping = FALSE
      /\ pinned = FALSE /\ save = Idle /\ slam = <<>> /\ answer = "none"
      /\ disk = [s \in Session |-> [f \in File |-> NoFrame]]
      /\ madeIn = [i \in Id |-> NoFrame]
      /\ kept = [s \in Session |-> {}] /\ keptOwn = [s \in Session |-> {}]
      /\ \A i \in Id : ~Stored(i)
  BY DEF MapInit, Init, Stored
<1>2. MapTypeOK
  <2>1. slam \in Seq([kind: Kind, id: Session]) /\ Len(slam) <= SlamQueue
    BY <1>1, FrameAssumption
  <2> QED
    BY <1>1, <2>1, IdleIsState DEF MapTypeOK
<1>3. IInv
  BY <1>1, InitIInv
<1>4. LaunchAgrees /\ MemoriesAgree
  BY <1>1 DEF LaunchAgrees, MemoriesAgree
<1>5. SaveAgrees
  BY <1>1 DEF SaveAgrees, Idle
<1>6. DiskAgrees
  BY <1>1 DEF DiskAgrees
<1> QED
  BY <1>2, <1>3, <1>4, <1>5, <1>6 DEF MInv

LEMMA MapStep == ASSUME MInv, Careful, [MapNext]_allVars PROVE MInv'
<1>1. IInv'
  BY MapMemoryStep, NextStep DEF MInv
<1>2. CASE LaunchFresh
  <2>1. PICK pose \in Frame : Launch(FreshId[pose], pose, TRUE)
    BY <1>2 DEF LaunchFresh, Careful, SpawnAt
  <2>2. FreshId[pose] \in Session /\ Belongs(FreshId[pose], pose) /\ pose # NoFrame
    BY FrameAssumption DEF Belongs, FreshIds
  <2> QED
    BY <1>1, <2>1, <2>2, LaunchStep DEF MInv
<1>3. CASE LaunchSaved
  <2>1. PICK s \in Session, pose \in Frame, z \in StartPoint \cup {NoZone}, kind \in Kind :
          /\ Exists(kind, s) /\ \E x \in Files[kind] : Placed(pose, z, disk[s][x])
          /\ Launch(s, SpawnAt(pose, z) - StartPose(z), kind = "graph")
    BY <1>3 DEF LaunchSaved, Careful
  <2>2. PICK x \in Files[kind] : Placed(pose, z, disk[s][x])
    BY <2>1
  <2>3. x \in File /\ disk[s][x] # NoFrame
    BY <2>1 DEF Exists, Kind, Files, File
  <2>4. PICK f \in Frame : f = disk[s][x]
    BY <2>3 DEF MInv, MapTypeOK
  <2>5. SpawnAt(pose, z) - StartPose(z) = f
    BY <2>2, <2>4, PlacedInFrame
  <2>6. Belongs(s, f) /\ f # NoFrame
    BY <2>3, <2>4 DEF MInv, DiskAgrees
  <2>7. (kind = "graph") \in BOOLEAN /\ Launch(s, f, kind = "graph")
    BY <2>1, <2>5
  <2> QED
    BY <1>1, <2>6, <2>7, LaunchStep DEF MInv
<1>4. CASE LaunchFails
  BY <1>1, <1>4, LaunchStep DEF MInv, LaunchFails
<1>5. CASE StartRag
  BY <1>1, <1>5, StartStep DEF MInv
<1>6. CASE CrashRag
  BY <1>1, <1>6, CrashStep DEF MInv
<1>7. CASE RememberScene \/ IndexZone \/ DeleteMemory
  BY <1>1, <1>7, RememberStep DEF MInv
<1>8. CASE BeginSave
  BY <1>1, <1>8, BeginStep DEF MInv
<1>9. CASE ServeSlam
  BY <1>1, <1>9, ServeStep DEF MInv
<1>10. CASE CheckGraph
  BY <1>1, <1>10, CheckGraphStep DEF MInv
<1>11. CASE CheckImage
  BY <1>1, <1>11, CheckImageStep DEF MInv
<1>12. CASE CrashExecutor
  BY <1>1, <1>12, ExecutorStep DEF MInv
<1>13. CASE UNCHANGED allVars
  BY <1>1, <1>13
  DEF allVars, vars, launchVars, saveVars, history, MInv, MapTypeOK, LaunchAgrees, SaveAgrees,
      JobAgrees, DiskAgrees, MemoriesAgree, Belongs, NoOther, NoOther, MayTake, Stored
<1> QED
  BY <1>2, <1>3, <1>4, <1>5, <1>6, <1>7, <1>8, <1>9, <1>10, <1>11, <1>12, <1>13 DEF MapNext

\* Launches, saves, crashes and late answers keep every part of the state typed,
\* and rag_node is up only where a launch named a frame.
THEOREM MapTypeCorrect == ASSUME Careful PROVE MapSpec => []MapTypeOK
<1>1. MInv => MapTypeOK
  BY DEF MInv
<1>2. MInv /\ [MapNext]_allVars => MInv'
  BY MapStep
<1> QED
  BY <1>1, <1>2, InitMInv, PTL DEF MapSpec

\* What a query can answer from was recorded in the frame the robot is in now,
\* whatever was launched, saved, renamed, crashed or written late before.
THEOREM FramesApart == ASSUME Careful PROVE MapSpec => []VisibleInFrame
<1>1. MInv => VisibleInFrame
  <2> SUFFICES ASSUME MInv, running, NEW i \in Visible PROVE madeIn[i] = frame
    BY DEF VisibleInFrame
  <2>1. i \in Id /\ Stored(i) /\ store[i].mapId = mapId /\ mapId = pin
    BY DEF Visible, MInv, LaunchAgrees
  <2>2. madeIn[i] \in Frame /\ Belongs(pin, madeIn[i])
    BY <2>1 DEF MInv, MemoriesAgree
  <2>3. frame \in Frame /\ Belongs(pin, frame)
    BY DEF MInv, LaunchAgrees, MapTypeOK
  <2> QED
    BY <2>2, <2>3, FrameAssumption DEF Belongs, NoOther
<1>2. MInv /\ [MapNext]_allVars => MInv'
  BY MapStep
<1> QED
  BY <1>1, <1>2, InitMInv, PTL DEF MapSpec

-----------------------------------------------------------------------------
\* What a successful save leaves behind

\* What the skill knows of the files it waits for: those written since the stamp
\* were written since the save began; if there was no stamp, none of the pair or
\* only a part was there, and what completes it was written since.
StageAgrees ==
  save.pc # "idle" =>
    /\ save.wrote \subseteq save.fresh
    /\ ~save.stamped => \E x \in Files[save.pc] : disk[save.id][x] = NoFrame \/ x \in save.fresh

\* Once the image is asked for the pose graph is there, and a file of it is new.
GraphAgrees ==
  save.pc = "image" =>
    /\ \A x \in Files.graph : disk[save.id][x] # NoFrame
    /\ save.fresh \cap Files.graph # {}

WrittenAgrees == StageAgrees /\ GraphAgrees

\* What was visible when a map was saved under its own session stays, until
\* it is deleted or overwritten.
KeptAgrees ==
  \A s \in Session, i \in Id : i \in keptOwn[s] => Stored(i) /\ store[i].mapId = s

\* Where the code's comparison is satisfied the pair is there and a file of it is new.
LEMMA WroteMeans ==
  ASSUME StageAgrees, Wrote, save.pc \in Kind
  PROVE  /\ \A x \in Files[save.pc] : disk[save.id][x] # NoFrame
         /\ save.fresh \cap Files[save.pc] # {}
<1>1. \A x \in Files[save.pc] : disk[save.id][x] # NoFrame
  BY DEF Wrote, Exists
<1>2. Timed[save.pc] \subseteq Files[save.pc] /\ save.pc # "idle"
  BY DEF Kind, Timed, Files
<1>3. CASE save.stamped
  BY <1>1, <1>2, <1>3 DEF Wrote, StageAgrees
<1>4. CASE ~save.stamped
  BY <1>1, <1>2, <1>4 DEF StageAgrees
<1> QED
  BY <1>1, <1>3, <1>4

LEMMA WrittenStep ==
  ASSUME MInv, WrittenAgrees, [MapNext]_allVars
  PROVE  WrittenAgrees'
<1>1. CASE LaunchFresh \/ LaunchSaved \/ LaunchFails \/ CheckImage \/ CrashExecutor
  <2>1. save' = Idle
    BY <1>1 DEF LaunchFresh, LaunchSaved, LaunchFails, Launch, CheckImage, Fail, CrashExecutor
  <2> QED
    BY <2>1 DEF WrittenAgrees, StageAgrees, GraphAgrees, Idle
<1>2. CASE StartRag \/ CrashRag \/ RememberScene \/ IndexZone \/ DeleteMemory \/ UNCHANGED allVars
  <2>1. UNCHANGED <<frame, disk, save>>
    BY <1>2 DEF StartRag, CrashRag, RememberScene, IndexZone, DeleteMemory, Record, allVars,
                launchVars, saveVars
  <2> QED
    BY <2>1 DEF WrittenAgrees, StageAgrees, GraphAgrees
<1>3. CASE BeginSave
  <2>1. CASE UNCHANGED save
    BY <1>3, <2>1 DEF BeginSave, WrittenAgrees, StageAgrees, GraphAgrees
  <2>2. CASE \E id \in Session : save' = [Idle EXCEPT !.pc = "graph", !.id = id, !.named = save'.named,
                                                     !.stamped = Exists("graph", id)]
    <3>1. PICK id \in Session : save' = [Idle EXCEPT !.pc = "graph", !.id = id, !.named = save'.named,
                                                    !.stamped = Exists("graph", id)]
      BY <2>2
    <3>2. /\ save'.pc = "graph" /\ save'.id = id /\ save'.wrote = {} /\ save'.fresh = {}
          /\ save'.stamped = Exists("graph", id) /\ UNCHANGED disk
      BY <1>3, <3>1 DEF Idle, BeginSave
    <3> QED
      BY <3>2 DEF WrittenAgrees, StageAgrees, GraphAgrees, Exists
  <2> QED
    <3>1. session = NoSession \/ session \in Session
      BY DEF MInv, IInv, TypeOK
    <3>2. ASSUME NEW n \in SaveNames \cup {NoName}
          PROVE  (IF n # NoName THEN n ELSE IF session # NoSession THEN session ELSE DefaultId) \in Session
      BY <3>1, FrameAssumption
    <3>3. CASE \E n \in SaveNames \cup {NoName} :
                 LET active == IF session # NoSession THEN session ELSE DefaultId
                     id == IF n # NoName THEN n ELSE active
                 IN  save' = [Idle EXCEPT !.pc = "graph", !.id = id, !.named = n # NoName,
                                          !.stamped = Exists("graph", id)]
      <4>1. PICK n \in SaveNames \cup {NoName} :
              LET active == IF session # NoSession THEN session ELSE DefaultId
                  id == IF n # NoName THEN n ELSE active
              IN  save' = [Idle EXCEPT !.pc = "graph", !.id = id, !.named = n # NoName,
                                       !.stamped = Exists("graph", id)]
        BY <3>3
      <4>2. save'.named = (n # NoName)
        BY <4>1 DEF Idle
      <4> QED
        BY <2>2, <3>2, <4>1, <4>2
    <3> QED
      BY <1>3, <2>1, <3>3 DEF BeginSave
<1>4. CASE CheckGraph
  <2>1. UNCHANGED disk /\ save \in SaveState /\ save.pc = "graph"
    BY <1>4 DEF CheckGraph, MInv, MapTypeOK
  <2>2. CASE save' = Idle
    BY <2>2 DEF WrittenAgrees, StageAgrees, GraphAgrees, Idle
  <2>3. CASE /\ Wrote
             /\ save' = [save EXCEPT !.pc = "image", !.stamped = Exists("image", save.id),
                                     !.wrote = {}, !.replied = FALSE]
    <3>1. /\ \A x \in Files.graph : disk[save.id][x] # NoFrame
          /\ save.fresh \cap Files.graph # {}
      BY <2>1, <2>3, WroteMeans DEF WrittenAgrees, Kind
    <3>2. /\ save'.pc = "image" /\ save'.id = save.id /\ save'.wrote = {} /\ save'.fresh = save.fresh
          /\ save'.stamped = Exists("image", save.id)
      BY <2>1, <2>3 DEF SaveState
    <3> QED
      BY <2>1, <3>1, <3>2 DEF WrittenAgrees, StageAgrees, GraphAgrees, Exists
  <2> QED
    BY <1>4, <2>2, <2>3 DEF CheckGraph, Fail
<1>5. CASE ServeSlam
  <2>1. PICK job \in SlamJob : job = Head(slam)
    <3>1. slam \in Seq(SlamJob) /\ slam # <<>>
      BY <1>5 DEF ServeSlam, MInv, MapTypeOK, SlamJob
    <3> QED
      BY <3>1
  <2>2. PICK W \in SUBSET Files[job.kind] :
          /\ W \in SUBSET File /\ Overwrites(job.id, W)
          /\ save' \in SaveState /\ save'.pc = save.pc /\ save'.id = save.id
          /\ save'.stamped = save.stamped
          /\ save'.wrote =
               IF save.id = job.id /\ save.pc = job.kind THEN save.wrote \cup W ELSE save.wrote
          /\ save'.fresh = IF save.id = job.id THEN save.fresh \cup W ELSE save.fresh
    BY <1>5, <2>1, ServedJob
  <2>3. /\ disk \in [Session -> [File -> Frame \cup {NoFrame}]]
        /\ save.pc # "idle" => save.id \in Session /\ save.pc \in Kind /\ frame # NoFrame
        /\ job.id \in Session
    BY DEF MInv, MapTypeOK, SaveState, SaveAgrees, LaunchAgrees, SlamJob
  <2>4. ASSUME save.pc # "idle", NEW x \in File
        PROVE  /\ disk[save.id][x] # NoFrame => disk'[save.id][x] # NoFrame
               /\ disk[save.id][x] = NoFrame => disk'[save.id][x] = NoFrame \/ x \in save'.fresh
    BY <2>2, <2>3, <2>4 DEF Overwrites
  <2>5. save.fresh \subseteq save'.fresh /\ save'.wrote \subseteq save.wrote \cup save'.fresh
    BY <2>2
  <2>6. Files.graph \subseteq File /\ (save.pc \in Kind => Files[save.pc] \subseteq File)
    BY DEF File, Files, Kind
  <2>7. StageAgrees'
    <3> SUFFICES ASSUME save.pc # "idle"
                 PROVE  /\ save'.wrote \subseteq save'.fresh
                        /\ ~save.stamped => \E x \in Files[save.pc] :
                                              disk'[save.id][x] = NoFrame \/ x \in save'.fresh
      BY <2>2 DEF StageAgrees
    <3> QED
      BY <2>3, <2>4, <2>5, <2>6 DEF WrittenAgrees, StageAgrees
  <2>8. GraphAgrees'
    <3> SUFFICES ASSUME save.pc = "image"
                 PROVE  /\ \A x \in Files.graph : disk'[save.id][x] # NoFrame
                        /\ save'.fresh \cap Files.graph # {}
      BY <2>2 DEF GraphAgrees
    <3> QED
      BY <2>4, <2>5, <2>6 DEF WrittenAgrees, GraphAgrees
  <2> QED
    BY <2>7, <2>8 DEF WrittenAgrees
<1> QED
  BY <1>1, <1>2, <1>3, <1>4, <1>5 DEF MapNext

LEMMA KeptStep ==
  ASSUME MInv, KeptAgrees, [MapNext]_allVars
  PROVE  KeptAgrees'
<1>1. CASE RememberScene \/ IndexZone \/ DeleteMemory
  <2>1. /\ \A i \in Id : Written(i)
        /\ keptOwn' = [s \in Session |-> keptOwn[s] \ Rewritten]
    BY <1>1, RememberWrites DEF Record
  <2> SUFFICES ASSUME NEW s \in Session, NEW i \in Id, i \in keptOwn[s], i \notin Rewritten
               PROVE  store'[i] # Absent /\ store'[i].mapId = s
    BY <2>1 DEF KeptAgrees, Stored
  <2>2. Stored(i) /\ store[i].mapId = s
    BY DEF KeptAgrees
  <2> QED
    BY <2>1, <2>2 DEF Rewritten, Written, Stored
<1>2. CASE CheckImage
  <2>1. store' = store
    BY <1>2 DEF CheckImage, PinFile, vars
  <2>2. CASE UNCHANGED keptOwn
    BY <2>1, <2>2 DEF KeptAgrees, Stored
  <2>3. CASE keptOwn' = [keptOwn EXCEPT ![save.id] = IF save.id = mapId THEN Visible ELSE {}]
    <3>1. keptOwn \in [Session -> SUBSET Id]
      BY DEF MInv, MapTypeOK
    <3> SUFFICES ASSUME NEW s \in Session, NEW i \in Id, i \in keptOwn'[s]
                 PROVE  Stored(i) /\ store[i].mapId = s
      BY <2>1 DEF KeptAgrees, Stored
    <3> QED
      BY <2>3, <3>1 DEF KeptAgrees, Visible
  <2> QED
    BY <1>2, <2>2, <2>3 DEF CheckImage
<1>3. CASE ~(RememberScene \/ IndexZone \/ DeleteMemory \/ CheckImage)
  <2>1. UNCHANGED <<store, keptOwn>>
    BY <1>3 DEF MapNext, LaunchFresh, LaunchSaved, LaunchFails, Launch, Relaunch, StartRag, Start,
                CrashRag, Crash, BeginSave, ServeSlam, CheckGraph, CrashExecutor, allVars, vars,
                history
  <2> QED
    BY <2>1 DEF KeptAgrees, Stored
<1> QED
  BY <1>1, <1>2, <1>3

\* save_map reports success only when all four files of the id are there, none
\* of them another frame's, and of each pair one at least was written since the
\* save began, whichever files SLAM Toolbox wrote, answered and when.
THEOREM SavesArePresent == ASSUME Careful PROVE MapSpec => SuccessMeansSaved
<1> DEFINE SavedStep ==
             Reported => /\ \A f \in File : disk[save.id][f] = frame
                         /\ \A kind \in Kind : save.fresh \cap Files[kind] # {}
<1>1. MapInit => WrittenAgrees
  BY DEF MapInit, WrittenAgrees, StageAgrees, GraphAgrees, Idle
<1>2. MInv /\ WrittenAgrees /\ [MapNext]_allVars => MInv' /\ WrittenAgrees'
  BY MapStep, WrittenStep
<1>3. MInv /\ WrittenAgrees /\ [MapNext]_allVars => [SavedStep]_allVars
  <2> SUFFICES ASSUME MInv, WrittenAgrees, MapNext, Reported
               PROVE  /\ \A f \in File : disk[save.id][f] = frame
                      /\ \A kind \in Kind : save.fresh \cap Files[kind] # {}
    OBVIOUS
  <2>1. CheckImage /\ save.pc = "image" /\ Wrote
    <3>1. ~(LaunchFresh \/ LaunchSaved \/ LaunchFails \/ CrashExecutor)
      BY DEF Reported, LaunchFresh, LaunchSaved, LaunchFails, Launch, CrashExecutor
    <3>2. ~(StartRag \/ CrashRag \/ RememberScene \/ IndexZone \/ DeleteMemory)
      BY DEF Reported, StartRag, CrashRag, RememberScene, IndexZone, DeleteMemory, Record,
             saveVars
    <3>3. ~BeginSave
      BY DEF Reported, BeginSave
    <3>4. ~ServeSlam
      <4> SUFFICES ASSUME ServeSlam PROVE FALSE
        OBVIOUS
      <4>1. slam \in Seq(SlamJob) /\ slam # <<>>
        BY DEF ServeSlam, MInv, MapTypeOK, SlamJob
      <4>2. PICK job \in SlamJob : job = Head(slam)
        BY <4>1
      <4> QED
        BY <4>2, ServedJob DEF Reported
    <3>5. ~CheckGraph
      <4> SUFFICES ASSUME CheckGraph PROVE FALSE
        OBVIOUS
      <4>1. save \in SaveState /\ answer' = "ok" /\ save'.pc = "idle"
        BY DEF MInv, MapTypeOK, Reported
      <4>2. save' = [save EXCEPT !.pc = "image", !.stamped = Exists("image", save.id),
                                 !.wrote = {}, !.replied = FALSE]
        BY <4>1 DEF CheckGraph, Fail
      <4> QED
        BY <4>1, <4>2 DEF SaveState
    <3>6. CheckImage
      BY <3>1, <3>2, <3>3, <3>4, <3>5 DEF MapNext
    <3> QED
      BY <3>6 DEF CheckImage, Fail, Reported
  <2>2. /\ \A x \in Files.image : disk[save.id][x] # NoFrame
        /\ save.fresh \cap Files.image # {}
    BY <2>1, WroteMeans DEF WrittenAgrees, Kind
  <2>3. /\ \A x \in Files.graph : disk[save.id][x] # NoFrame
        /\ save.fresh \cap Files.graph # {}
    BY <2>1 DEF WrittenAgrees, GraphAgrees
  <2>4. save.id \in Session /\ Belongs(save.id, frame) /\ frame \in Frame
    BY <2>1 DEF MInv, SaveAgrees, LaunchAgrees, MapTypeOK
  <2>5. ASSUME NEW f \in File PROVE disk[save.id][f] = frame
    <3>1. disk[save.id][f] # NoFrame
      BY <2>2, <2>3 DEF File
    <3>2. disk[save.id][f] \in Frame /\ Belongs(save.id, disk[save.id][f])
      BY <2>4, <3>1 DEF MInv, DiskAgrees, MapTypeOK
    <3>3. CASE save.id \in FreshIds
      BY <2>4, <3>2, <3>3, FrameAssumption DEF Belongs
    <3>4. CASE save.id \notin FreshIds
      BY <2>4, <3>1, <3>4 DEF Belongs, NoOther
    <3> QED
      BY <3>3, <3>4
  <2> QED
    BY <2>2, <2>3, <2>5 DEF Kind
<1> QED
  BY <1>1, <1>2, <1>3, InitMInv, PTL DEF MapSpec, SuccessMeansSaved

\* A map saved under the id its memories carry brings every one of them back
\* when it is opened again.
THEOREM MemoriesComeBack == ASSUME Careful PROVE MapSpec => []OwnSessionComesBack
<1>1. MapInit => KeptAgrees
  BY DEF MapInit, KeptAgrees
<1>2. MInv /\ KeptAgrees /\ [MapNext]_allVars => MInv' /\ KeptAgrees'
  BY MapStep, KeptStep
<1>3. MInv /\ KeptAgrees => OwnSessionComesBack
  <2> SUFFICES ASSUME MInv, KeptAgrees, running, pin # NoSession, NEW i \in keptOwn[pin]
               PROVE  i \in Visible
    BY DEF OwnSessionComesBack
  <2>1. mapId = pin /\ pin \in Session /\ i \in Id
    BY DEF MInv, LaunchAgrees, MapTypeOK
  <2> QED
    BY <2>1 DEF KeptAgrees, Visible
<1> QED
  BY <1>1, <1>2, <1>3, InitMInv, PTL DEF MapSpec
=============================================================================
