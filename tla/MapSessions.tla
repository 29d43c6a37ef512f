----------------------------- MODULE MapSessions -----------------------------
(***************************************************************************)
(* Launches, saved maps and the memories that belong to them: the launch   *)
(* pins rag_node's session to the map it opens, the save_map skill writes  *)
(* the live SLAM map to disk and, when it was given a name, re-pins        *)
(* session.json, and rag_node (SemanticMemory) tags what it stores.        *)
(*                                                                         *)
(* A saved map is two pairs of files, each pair one request: the pose      *)
(* graph (.posegraph and .data) and the image (.yaml and .pgm).  SLAM      *)
(* Toolbox is external: it serves requests in order, writes a pair, a part *)
(* of it or nothing, and may answer after the skill stopped waiting.  A    *)
(* modification time is modelled by what the skill reads off it: whether   *)
(* the file was written since the skill looked.  What is inside a file     *)
(* that was cut short is left out: it counts as written.                   *)
(***************************************************************************)
EXTENDS SemanticMemory, Sequences

CONSTANTS
  Frame,        \* where a map's origin may lie in the world (one coordinate)
  DefaultSpawn, \* the spawn pose a launch assumes
  StartPoint,   \* centres of zones, in the map frame
  NoZone,       \* a launch without start_zone
  AnyStart,     \* may the robot start where its map does not place it?
  FreshId,      \* fresh_map_session_id of a frame
  SaveNames,    \* names an operator may give a saved map
  NoName,       \* save_map without a name
  DefaultId,    \* the id used when session.json has none
  NoFrame,      \* not launched; a file that was never written
  ReuseNames,   \* may a name be given to a second frame's map?
  SaveEarly,    \* may a map be saved before rag_node has started?
  HalfPairs,    \* the parts of a pair SLAM Toolbox may write and leave out the rest
  SlamQueue     \* bound on requests SLAM Toolbox has not served

ASSUME FrameAssumption ==
  /\ Frame \subseteq Int /\ DefaultSpawn \in Frame
  /\ StartPoint \subseteq Int /\ NoZone \notin StartPoint
  /\ FreshId \in [Frame -> Session]
  /\ \A f, g \in Frame : FreshId[f] = FreshId[g] => f = g
  /\ SaveNames \subseteq Session \ {FreshId[f] : f \in Frame}
  /\ DefaultId \in Session
  /\ NoName \notin Session /\ NoFrame \notin Frame
  /\ ReuseNames \in BOOLEAN /\ SaveEarly \in BOOLEAN /\ AnyStart \in BOOLEAN
  /\ SlamQueue \in Nat

VARIABLES
  frame,      \* frame of the map the robot is on, NoFrame before a launch
  mapping,    \* is SLAM Toolbox running (not map_server + AMCL)?
  pinned,     \* has rag_node started in this launch?
  disk,       \* maps_dir: the frame each saved file holds
  save,       \* the save_map skill in progress
  slam,       \* requests SLAM Toolbox has not served
  answer,     \* the skill's last answer, none while it saves
  madeIn,     \* history: the frame a memory's anchor was recorded in
  kept,       \* history: memories visible when a map was last saved under an id
  keptOwn     \* history: the same, for saves under the id those memories carry

launchVars == <<frame, mapping, pinned>>
saveVars == <<disk, save, slam, answer>>
history == <<madeIn, kept, keptOwn>>
allVars == <<vars, launchVars, saveVars, history>>

\* The pairs of files, by the request that writes them.
Kind == {"graph", "image"}
Files == [graph |-> {"posegraph", "data"}, image |-> {"yaml", "pgm"}]
File == Files.graph \cup Files.image

\* The files whose modification times are compared: saved_map_stamp looks at the
\* pose graph's alone, map_image_stamp at the newer of the two.
Timed == [graph |-> {"posegraph"}, image |-> {"yaml", "pgm"}]

\* A stamp is not None: both files of the pair exist.
Exists(kind, id) == \A f \in Files[kind] : disk[id][f] # NoFrame

\* The locals of the skill: the stage it is at, the id, whether it was given, whether
\* the stage's stamp_before is one, the files of the pair written since, and whether
\* the call was answered well.  History: all files of the id written since it began.
Idle ==
  [pc |-> "idle", id |-> NoSession, named |-> FALSE, stamped |-> FALSE, wrote |-> {},
   replied |-> FALSE, fresh |-> {}]

SaveState ==
  [pc: Kind \cup {"idle"}, id: Session \cup {NoSession}, named: BOOLEAN, stamped: BOOLEAN,
   wrote: SUBSET File, replied: BOOLEAN, fresh: SUBSET File]

MapTypeOK ==
  /\ frame \in Frame \cup {NoFrame}
  /\ mapping \in BOOLEAN /\ pinned \in BOOLEAN
  /\ disk \in [Session -> [File -> Frame \cup {NoFrame}]]
  /\ save \in SaveState
  /\ slam \in Seq([kind: Kind, id: Session]) /\ Len(slam) <= SlamQueue
  /\ answer \in {"none", "ok", "failed"}
  /\ madeIn \in [Id -> Frame \cup {NoFrame}]
  /\ kept \in [Session -> SUBSET Id] /\ keptOwn \in [Session -> SUBSET Id]
  /\ pinned => frame # NoFrame /\ session # NoSession

MapInit ==
  /\ Init /\ pin = NoSession
  /\ frame = NoFrame /\ mapping = FALSE /\ pinned = FALSE
  /\ disk = [s \in Session |-> [f \in File |-> NoFrame]]
  /\ save = Idle /\ slam = <<>> /\ answer = "none"
  /\ madeIn = [i \in Id |-> NoFrame]
  /\ kept = [s \in Session |-> {}] /\ keptOwn = [s \in Session |-> {}]

-----------------------------------------------------------------------------
\* Launching

\* Mutant: the launch keeps whatever session was persisted last.
LaunchContinuing(s, f, slamRuns) ==
  /\ Relaunch(NoSession)
  /\ frame' = f /\ mapping' = slamRuns /\ pinned' = FALSE
  /\ save' = Idle /\ slam' = <<>> /\ answer' = "none"
  /\ UNCHANGED <<disk, history>>

\* Stopping the stack ends every process; the launch pins the session it names.
Launch(s, f, slamRuns) ==
  /\ Relaunch(s)
  /\ frame' = f /\ mapping' = slamRuns /\ pinned' = FALSE
  /\ save' = Idle /\ slam' = <<>> /\ answer' = "none"
  /\ UNCHANGED <<disk, history>>

\* start_zone:=z overrides x_pose and y_pose: its centre, had the map begun at
\* the default spawn.
SpawnAt(pose, z) == IF z = NoZone THEN pose ELSE z + DefaultSpawn

\* Mutant: nobody tells SLAM or AMCL of the zone.
StartAtDock(z) == 0

\* Where on a saved map SLAM or AMCL is told the robot is: the zone's centre, or
\* the pose mapping began at.
StartPose(z) == IF z = NoZone THEN 0 ELSE z

\* An operator's care with a saved map: the pose it was made from, and a start zone
\* only if that was the default one.
Placed(pose, z, f) == IF z = NoZone THEN pose = f ELSE f = DefaultSpawn

\* A fresh map begins where the robot is spawned; its session is named after
\* x_pose and y_pose.
LaunchFresh ==
  \E pose \in Frame, z \in StartPoint \cup {NoZone} :
    /\ AnyStart \/ z = NoZone
    /\ SpawnAt(pose, z) \in Frame
    /\ Launch(FreshId[pose], SpawnAt(pose, z), TRUE)

\* saved_map:=s.  Both modes need the pose graph, read-only loading the image too.
\* Poses come out in the map's frame if the robot is where they are told it is.
LaunchSaved ==
  \E s \in Session, pose \in Frame, z \in StartPoint \cup {NoZone}, kind \in Kind :
    /\ Exists("graph", s) /\ Exists(kind, s)
    /\ AnyStart \/ \E f \in Files[kind] : Placed(pose, z, disk[s][f])
    /\ SpawnAt(pose, z) - StartPose(z) \in Frame
    /\ Launch(s, SpawnAt(pose, z) - StartPose(z), kind = "graph")

\* An unknown map, zone or mode, or a map without its image: nothing comes up.
LaunchFails == Launch(NoSession, NoFrame, FALSE)

\* Mutant: rag_node comes up before any launch named a frame.
StartRagAnytime ==
  /\ Start
  /\ pinned' = TRUE
  /\ UNCHANGED <<frame, mapping, saveVars, history>>

StartRag ==
  /\ frame # NoFrame
  /\ Start
  /\ pinned' = TRUE
  /\ UNCHANGED <<frame, mapping, saveVars, history>>

CrashRag == Crash /\ UNCHANGED <<launchVars, saveVars, history>>

-----------------------------------------------------------------------------
\* Remembering.  An anchor is recorded in the frame the robot is in; folding
\* into a memory keeps the anchor it has.

Rewritten == {i \in Id : store'[i] # store[i] /\ (store'[i] = Absent \/ store'[i].count = 1)}

Record ==
  /\ madeIn' = [i \in Id |->
        IF store'[i] = Absent THEN NoFrame ELSE IF i \in Rewritten THEN frame ELSE madeIn[i]]
  /\ kept' = [s \in Session |-> kept[s] \ Rewritten]
  /\ keptOwn' = [s \in Session |-> keptOwn[s] \ Rewritten]
  /\ UNCHANGED <<launchVars, saveVars>>

RememberScene ==
  \E p \in Position, l \in Look, z \in Zone : Observe(p, l, z) /\ Record

IndexZone ==
  \E i \in PlainId, p \in Position, z \in Zone : Index(i, p, z) /\ Record

DeleteMemory == \E i \in Id : Delete({i}) /\ Record

-----------------------------------------------------------------------------
\* save_map

Request(kind, id) == slam' = Append(slam, [kind |-> kind, id |-> id])

\* A name an operator would not reuse: it has files of another frame's map.
TakenName(n) == \E f \in File : disk[n][f] \notin {NoFrame, frame}

\* _run_save_map up to the serialize request.  Without SLAM it raises at once.
BeginSave ==
  /\ frame # NoFrame /\ save.pc = "idle"
  /\ pinned \/ SaveEarly
  /\ \/ ~mapping /\ answer' = "failed" /\ UNCHANGED <<save, slam>>
     \/ /\ mapping /\ Len(slam) < SlamQueue
        /\ \E n \in SaveNames \cup {NoName} :
             /\ n # NoName => ReuseNames \/ ~TakenName(n)
             /\ LET active == IF session # NoSession THEN session ELSE DefaultId
                    id == IF n # NoName THEN n ELSE active
                IN  /\ save' = [Idle EXCEPT !.pc = "graph", !.id = id, !.named = n # NoName,
                                            !.stamped = Exists("graph", id)]
                    /\ Request("graph", id)
        /\ answer' = "none"
  /\ UNCHANGED <<vars, launchVars, disk, history>>

\* SLAM Toolbox serves its oldest request: it writes the pair, answers without
\* writing (its own localization mode), or is stopped half way (a full disk).
\* serialize_map may answer that it failed; what the map saver answers is not read.
ServeSlam ==
  /\ slam # <<>>
  /\ LET job == Head(slam)
         mine == save.id = job.id
         ofStage == mine /\ save.pc = job.kind
     IN  \E written \in SUBSET Files[job.kind], success \in BOOLEAN :
           /\ written \in {{}, Files[job.kind]} \cup HalfPairs
           /\ job.kind = "image" => success
           /\ disk' = [disk EXCEPT ![job.id] =
                 [f \in File |-> IF f \in written THEN frame ELSE disk[job.id][f]]]
           /\ save' = [save EXCEPT
                 !.wrote = IF ofStage THEN @ \cup written ELSE @,
                 !.fresh = IF mine THEN @ \cup written ELSE @,
                 !.replied = ofStage /\ Len(slam) = 1 /\ success]
  /\ slam' = Tail(slam)
  /\ UNCHANGED <<vars, launchVars, answer, history>>

\* serialize_map timed out or failed, left its files as they were, or wrote; the
\* image is asked for only in the last case.
Fail == save' = Idle /\ answer' = "failed"

\* Mutant: files that are there are taken for written.
WroteIfThere == Exists(save.pc, save.id)

\* stamp_after is one and differs from stamp_before.
Wrote ==
  /\ Exists(save.pc, save.id)
  /\ save.stamped => save.wrote \cap Timed[save.pc] # {}

CheckGraph ==
  /\ save.pc = "graph"
  /\ \/ ~(save.replied /\ Wrote) /\ Fail /\ UNCHANGED slam
     \/ /\ save.replied /\ Wrote /\ Len(slam) < SlamQueue
        /\ save' = [save EXCEPT !.pc = "image", !.stamped = Exists("image", save.id),
                                !.wrote = {}, !.replied = FALSE]
        /\ Request("image", save.id)
        /\ UNCHANGED answer
  /\ UNCHANGED <<vars, launchVars, disk, history>>

\* The image was not written (or not in time), or it was: then a given name is
\* pinned in session.json and the save succeeded.
CheckImage ==
  /\ save.pc = "image"
  /\ \/ ~(save.replied /\ Wrote) /\ Fail /\ UNCHANGED <<vars, kept, keptOwn>>
     \/ /\ save.replied /\ Wrote
        /\ save' = Idle /\ answer' = "ok"
        /\ IF save.named THEN PinFile(save.id) ELSE UNCHANGED vars
        /\ kept' = [kept EXCEPT ![save.id] = Visible]
        /\ keptOwn' = [keptOwn EXCEPT ![save.id] = IF save.id = mapId THEN Visible ELSE {}]
  /\ UNCHANGED <<launchVars, disk, slam, madeIn>>

\* The executor dies while it saves; SLAM Toolbox still has the request.
CrashExecutor ==
  /\ save.pc # "idle"
  /\ save' = Idle /\ answer' = "none"
  /\ UNCHANGED <<vars, launchVars, disk, slam, history>>

MapNext ==
  \/ LaunchFresh \/ LaunchSaved \/ LaunchFails \/ StartRag \/ CrashRag
  \/ RememberScene \/ IndexZone \/ DeleteMemory
  \/ BeginSave \/ ServeSlam \/ CheckGraph \/ CheckImage \/ CrashExecutor

MapSpec == MapInit /\ [][MapNext]_allVars

-----------------------------------------------------------------------------
\* Properties

\* "Retrieval never returns a pose from a map that is not the active one"
\* (ADR-019): what a query can answer from was recorded in the frame the robot
\* is in now, across launches, renames, crashes and late writes.
VisibleInFrame ==
  running => \A i \in Visible : madeIn[i] = frame

\* The save in progress ends well.
Reported == save.pc # "idle" /\ save'.pc = "idle" /\ answer' = "ok"

\* save_map reports success only when all four files of the id are there, none
\* of them another frame's, and of each pair one at least was written since
\* the save began: whatever SLAM Toolbox wrote, answered and when.  That both of a
\* pair were, the code does not see.
SuccessMeansSaved ==
  [][Reported => /\ \A f \in File : disk[save.id][f] = frame
                 /\ \A kind \in Kind : save.fresh \cap Files[kind] # {}]_allVars

\* A map saved under the id its memories carry brings every one of them back
\* when it is opened again.
OwnSessionComesBack ==
  running /\ pin # NoSession => keptOwn[pin] \subseteq Visible

\* "the map the user just drove out, and the coordinate memories tagged with its
\* session id, both survive the next launch" (dashboard_node.save_map): whatever
\* id the map was saved under, opening it brings those memories back.
SavedMapComesBack ==
  running /\ pin # NoSession => kept[pin] \subseteq Visible
=============================================================================
