-------------------------- MODULE DriveChain_proofs --------------------------
(***************************************************************************)
(* What holds of manual driving for every timeout, number of stop messages *)
(* and bound on lateness, delay and loss.                                  *)
(*                                                                         *)
(* The argument for silence: a stop message is pending or it was sent, and *)
(* only a new request to move queues more.                                 *)
(***************************************************************************)
EXTENDS DriveChain, SequenceTheorems, TLAPS

\* The zeros sent since the last request and those still pending are one quota.
Quota == zeros + stops <= StopRepeats

IInv == TypeOK /\ Quota

-----------------------------------------------------------------------------
LEMMA Constants ==
  /\ Still \notin Move
  /\ Deadman \in Nat /\ TeleopHold \in Nat /\ NavHold \in Nat /\ StopRepeats \in Nat
  /\ MaxLate \in Nat /\ MaxDelay \in Nat /\ MaxLosses \in Nat /\ MaxRequests \in Nat
BY DriveAssumption

\* Saturating counters stay in their range and never drop by counting on.
LEMMA CappedRange ==
  ASSUME NEW cap \in Nat, NEW n \in 0..cap
  PROVE  Capped(n + 1, cap) \in 0..cap /\ Capped(n + 1, cap) <= n + 1
BY DEF Capped

LEMMA StopBoundNat == StopBound \in Nat
<1>1. (MaxLosses + 2) * MaxLate \in Nat
  BY Constants
<1> QED
  BY <1>1, Constants DEF StopBound

LEMMA HoldNat == \A s \in Source : Hold[s] \in Nat
BY Constants DEF Hold, Source

\* The holder of control is a source, or nobody.
LEMMA HolderType ==
  ASSUME NEW ages \in [Source -> Nat]
  PROVE  Holder(ages) \in Source \cup {"idle"}
<1> DEFINE fresh == {s \in Source : ages[s] <= Hold[s]}
<1>1. CASE fresh = {}
  BY <1>1 DEF Holder
<1>2. CASE fresh # {}
  <2>1. \E s \in fresh : \A t \in fresh : Priority[t] <= Priority[s]
    <3>1. CASE "teleop" \in fresh
      BY <3>1 DEF Priority, Source
    <3>2. CASE "teleop" \notin fresh
      BY <1>2, <3>2 DEF Priority, Source
    <3> QED
      BY <3>1, <3>2
  <2> QED
    BY <1>2, <2>1 DEF Holder
<1> QED
  BY <1>1, <1>2

-----------------------------------------------------------------------------
LEMMA InitIInv == Init => IInv
<1> SUFFICES ASSUME Init
             PROVE  IInv
  OBVIOUS
<1> USE Constants, StopBoundNat, HoldNat
<1>1. manual \in Seq([cmd: Command, age: 0..MaxDelay])
  BY DEF Init
<1>2. base \in [by: Source \cup {"none"}, cmd: Command]
  BY DEF Init, Command
<1>3. requests \in [Command -> 0..MaxRequests]
  BY DEF Init, Command
<1>4. seen \in [Source -> Nat] /\ \A s \in Source : seen[s] <= Hold[s] + 1
  BY DEF Init
<1>5. /\ held \in Command /\ gone \in BOOLEAN /\ up \in BOOLEAN
      /\ vel \in Command /\ age \in 0..Expired /\ stops \in 0..StopRepeats
      /\ pc \in {"idle", "stop", "publish"} /\ out \in Command /\ late \in 0..MaxLate
      /\ reported \in Source \cup {"idle"} /\ lost \in 0..MaxLosses
      /\ quiet \in 0..StopBound + 1 /\ zeros \in 0..StopRepeats + 1
      /\ crashed \in BOOLEAN /\ engaged \in BOOLEAN
  <2>1. held \in Command /\ vel \in Command /\ out \in Command
    BY DEF Init, Command
  <2>2. gone \in BOOLEAN /\ up \in BOOLEAN /\ crashed \in BOOLEAN /\ engaged \in BOOLEAN
    BY Zenon DEF Init
  <2>3. age \in 0..Expired /\ quiet \in 0..StopBound + 1 /\ zeros \in 0..StopRepeats + 1
    BY DEF Init, Expired
  <2>4. stops \in 0..StopRepeats /\ late \in 0..MaxLate /\ lost \in 0..MaxLosses
    BY DEF Init
  <2>5. pc \in {"idle", "stop", "publish"} /\ reported \in Source \cup {"idle"}
    BY DEF Init
  <2> QED
    BY <2>1, <2>2, <2>3, <2>4, <2>5
<1>6. Quota
  BY DEF Init, Quota
<1> QED
  BY <1>1, <1>2, <1>3, <1>4, <1>5, <1>6 DEF IInv, TypeOK

\* A request enters or leaves the network.
LEMMA RequestsType ==
  ASSUME TypeOK, NEW c \in Command, Send(c) \/ Take(c)
  PROVE  requests' \in [Command -> 0..MaxRequests]
<1>1. requests \in [Command -> 0..MaxRequests] /\ requests[c] \in 0..MaxRequests
  BY DEF TypeOK
<1>2. CASE Send(c)
  <2>1. requests[c] + 1 \in 0..MaxRequests
    BY <1>1, <1>2, Constants DEF Send
  <2> QED
    BY <1>1, <1>2, <2>1 DEF Send
<1>3. CASE Take(c)
  <2>1. requests[c] - 1 \in 0..MaxRequests
    BY <1>1, <1>3, Constants DEF Take
  <2> QED
    BY <1>1, <1>3, <2>1 DEF Take
<1> QED
  BY <1>2, <1>3

\* The browser changes its keys and sends; nothing else changes.
LEMMA BrowserStep ==
  ASSUME IInv, Refresh \/ Release \/ Vanish \/ (\E c \in Command : Press(c) \/ LoseRequest(c))
  PROVE  IInv'
<1>1. held' \in Command /\ gone' \in BOOLEAN
  BY DEF IInv, TypeOK, Refresh, Release, Vanish, Press, LoseRequest, Command
<1>2. requests' \in [Command -> 0..MaxRequests]
  <2>1. CASE Refresh
    BY <2>1, RequestsType DEF IInv, TypeOK, Refresh
  <2>2. CASE Release
    BY <2>2, RequestsType DEF Release, IInv, Command
  <2>3. CASE Vanish
    BY <2>3 DEF IInv, TypeOK, Vanish
  <2>4. CASE \E c \in Command : Press(c) \/ LoseRequest(c)
    BY <2>4, RequestsType DEF Press, LoseRequest, IInv
  <2> QED
    BY <2>1, <2>2, <2>3, <2>4
<1>3. UNCHANGED <<up, teleop, timer, mux, history>>
  BY DEF Refresh, Release, Vanish, Press, LoseRequest, Others
<1> QED
  BY <1>1, <1>2, <1>3 DEF IInv, TypeOK, Quota, teleop, timer, mux, history

\* A request is handled: a motion refreshes the deadman and the quota.
LEMMA HandleStep ==
  ASSUME IInv, HandleStop \/ \E c \in Move : HandleMove(c)
  PROVE  IInv'
<1> USE Constants, StopBoundNat
<1>1. CASE HandleStop
  <2>1. requests' \in [Command -> 0..MaxRequests]
    BY <1>1, RequestsType DEF HandleStop, IInv, Command
  <2>2. vel' \in Command /\ age' \in 0..Expired /\ stops' = stops
    BY <1>1 DEF HandleStop, Stop, StopsLeft, Command, Expired
  <2> QED
    BY <1>1, <2>1, <2>2 DEF HandleStop, IInv, TypeOK, Quota, timer, mux
<1>2. CASE \E c \in Move : HandleMove(c)
  <2> PICK c \in Move : HandleMove(c)
    BY <1>2
  <2>1. requests' \in [Command -> 0..MaxRequests]
    BY RequestsType DEF HandleMove, IInv, Command
  <2>2. /\ vel' \in Command /\ age' \in 0..Expired /\ stops' = StopRepeats
        /\ quiet' \in 0..StopBound + 1 /\ zeros' = 0 /\ crashed' \in BOOLEAN
    <3>1. vel' = c /\ age' = 0 /\ stops' = StopRepeats
      BY DEF HandleMove, Update
    <3>2. quiet' = 0 /\ zeros' = 0 /\ crashed' = FALSE
      BY DEF HandleMove
    <3>3. vel' \in Command /\ age' \in 0..Expired
      BY <3>1 DEF Command, Expired
    <3>4. crashed' \in BOOLEAN
      BY <3>2, Zenon
    <3> QED
      BY <3>1, <3>2, <3>3, <3>4
  <2> QED
    BY SMTT(30), <2>1, <2>2 DEF HandleMove, IInv, TypeOK, Quota, timer, mux
<1> QED
  BY <1>1, <1>2

\* The timer callback, in its three segments.
LEMMA TimerStep ==
  ASSUME IInv, TickCheck \/ TickStop \/ Publish
  PROVE  IInv'
<1> USE Constants
<1>1. CASE TickCheck
  <2>1. /\ late' \in 0..MaxLate /\ pc' \in {"idle", "stop", "publish"}
        /\ out' \in Command /\ engaged' \in BOOLEAN
    <3>1. late' = 0 /\ vel \in Command /\ engaged \in BOOLEAN
      BY <1>1 DEF TickCheck, IInv, TypeOK
    <3>2. CASE IsActive
      <4>1. pc' = "publish" /\ out' = vel
        BY <1>1, <3>2 DEF TickCheck
      <4>2. engaged' = engaged
        BY <1>1, <3>2 DEF TickCheck
      <4>3. engaged' \in BOOLEAN
        BY <3>1, <4>2
      <4> QED
        BY <3>1, <4>1, <4>3
    <3>3. CASE ~IsActive
      <4>1. pc' = "stop" /\ out' = Still
        BY <1>1, <3>3 DEF TickCheck
      <4>2. engaged' = FALSE
        BY <1>1, <3>3 DEF TickCheck
      <4>3. engaged' \in BOOLEAN
        BY <4>2
      <4> QED
        BY <3>1, <4>1, <4>3 DEF Command
    <3> QED
      BY <3>2, <3>3
  <2> QED
    BY <1>1, <2>1 DEF TickCheck, IInv, TypeOK, Quota, browser, teleop, mux
<1>2. CASE TickStop
  <2>1. /\ vel' \in Command /\ age' \in 0..Expired
        /\ pc' \in {"idle", "stop", "publish"}
    BY <1>2 DEF TickStop, Command, Expired
  <2>2. /\ stops' \in 0..StopRepeats /\ zeros' \in 0..StopRepeats + 1
        /\ zeros' + stops' <= StopRepeats
    <3>1. stops \in 0..StopRepeats /\ zeros \in 0..StopRepeats + 1 /\ zeros + stops <= StopRepeats
      BY DEF IInv, TypeOK, Quota
    <3>2. CASE stops > 0
      BY <1>2, <3>1, <3>2 DEF TickStop, StopsLeft, Capped
    <3>3. CASE ~(stops > 0)
      BY <1>2, <3>1, <3>3 DEF TickStop, StopsLeft
    <3> QED
      BY <3>2, <3>3
  <2> QED
    BY <1>2, <2>1, <2>2 DEF TickStop, IInv, TypeOK, Quota, browser, mux
<1>3. CASE Publish
  <2>1. manual' \in Seq([cmd: Command, age: 0..MaxDelay])
    BY <1>3 DEF Publish, IInv, TypeOK
  <2>2. pc' \in {"idle", "stop", "publish"} /\ out' \in Command
    BY <1>3 DEF Publish, Command
  <2> QED
    BY <1>3, <2>1, <2>2 DEF Publish, IInv, TypeOK, Quota, browser, teleop, history
<1> QED
  BY <1>1, <1>2, <1>3

\* The dashboard dies with its pending stops, and comes back with none.
LEMMA ProcessStep ==
  ASSUME IInv, Crash \/ Respawn
  PROVE  IInv'
<1> USE Constants
<1>1. CASE Crash
  <2>1. /\ vel' \in Command /\ age' \in 0..Expired /\ stops' \in 0..StopRepeats
        /\ out' \in Command /\ late' \in 0..MaxLate
    BY <1>1 DEF Crash, Command, Expired
  <2>2. Quota'
    BY <1>1 DEF Crash, IInv, TypeOK, Quota
  <2> QED
    BY <1>1, <2>1, <2>2 DEF Crash, IInv, TypeOK, browser, mux
<1>2. CASE Respawn
  BY <1>2 DEF Respawn, IInv, TypeOK, Quota, browser, teleop, timer, mux, history
<1> QED
  BY <1>1, <1>2

\* The mux hears a source.
LEMMA CommandType ==
  ASSUME TypeOK, NEW s \in Source, NEW c \in Command, OnCommand(s, c)
  PROVE  /\ seen' \in [Source -> Nat] /\ \A t \in Source : seen'[t] <= Hold[t] + 1
         /\ base' \in [by: Source \cup {"none"}, cmd: Command]
         /\ lost' \in 0..MaxLosses /\ reported' \in Source \cup {"idle"}
<1> USE Constants, HoldNat
<1>1. seen' \in [Source -> Nat] /\ \A t \in Source : seen'[t] <= Hold[t] + 1
  BY SMTT(30) DEF TypeOK, OnCommand
<1>2. base' \in [by: Source \cup {"none"}, cmd: Command] /\ lost' \in 0..MaxLosses
  BY SMTT(30) DEF TypeOK, OnCommand, Forward
<1>3. reported' \in Source \cup {"idle"}
  BY <1>1, HolderType DEF OnCommand
<1> QED
  BY <1>1, <1>2, <1>3

LEMMA MuxStep ==
  ASSUME IInv, OnManual \/ ReportSource \/ \E c \in Command : OnNav(c)
  PROVE  IInv'
<1>1. CASE OnManual
  <2> DEFINE Message == [cmd: Command, age: 0..MaxDelay]
  <2>0. manual \in Seq(Message) /\ manual # <<>>
    BY <1>1 DEF OnManual, IInv, TypeOK
  <2>1. Head(manual) \in Message
    BY <2>0, HeadTailProperties
  <2>2. manual' \in Seq(Message)
    BY <1>1, <2>0, HeadTailProperties DEF OnManual
  <2>3. engaged' \in BOOLEAN
    BY <1>1 DEF OnManual, IInv, TypeOK
  <2>4. /\ seen' \in [Source -> Nat] /\ \A t \in Source : seen'[t] <= Hold[t] + 1
        /\ base' \in [by: Source \cup {"none"}, cmd: Command]
        /\ lost' \in 0..MaxLosses /\ reported' \in Source \cup {"idle"}
    BY <1>1, <2>1, CommandType DEF OnManual, IInv, Source
  <2> QED
    BY <1>1, <2>2, <2>3, <2>4 DEF OnManual, IInv, TypeOK, Quota, browser, teleop, timer
<1>2. CASE ReportSource
  <2>1. reported' \in Source \cup {"idle"}
    BY <1>2, HolderType DEF ReportSource, IInv, TypeOK
  <2> QED
    BY <1>2, <2>1 DEF ReportSource, IInv, TypeOK, Quota, browser, teleop, timer, history
<1>3. CASE \E c \in Command : OnNav(c)
  <2> PICK c \in Command : OnNav(c)
    BY <1>3
  <2>1. /\ seen' \in [Source -> Nat] /\ \A t \in Source : seen'[t] <= Hold[t] + 1
        /\ base' \in [by: Source \cup {"none"}, cmd: Command]
        /\ lost' \in 0..MaxLosses /\ reported' \in Source \cup {"idle"}
    BY CommandType DEF OnNav, IInv, Source
  <2> QED
    BY <2>1 DEF OnNav, IInv, TypeOK, Quota, browser, teleop, timer, history
<1> QED
  BY <1>1, <1>2, <1>3

\* Time passes: every age counts on, up to its cap.
LEMMA ElapseStep ==
  ASSUME IInv, Elapse
  PROVE  IInv'
<1> USE Constants, StopBoundNat, HoldNat
<1>1. late' \in 0..MaxLate /\ age' \in 0..Expired /\ quiet' \in 0..StopBound + 1
  <2>1. Expired \in Nat /\ StopBound + 1 \in Nat
    BY DEF Expired
  <2> QED
    BY <2>1, CappedRange DEF Elapse, IInv, TypeOK
<1>2. manual' \in Seq([cmd: Command, age: 0..MaxDelay])
  <2>1. Len(manual) \in Nat
    BY DEF IInv, TypeOK
  <2>2. ASSUME NEW i \in 1..Len(manual)
        PROVE  [manual[i] EXCEPT !.age = @ + 1] \in [cmd: Command, age: 0..MaxDelay]
    <3>1. manual[i] \in [cmd: Command, age: 0..MaxDelay]
      BY ElementOfSeq DEF IInv, TypeOK
    <3>2. manual[i].age < MaxDelay
      BY DEF Elapse
    <3>3. manual[i].age + 1 \in 0..MaxDelay
      BY <3>1, <3>2
    <3> QED
      BY <3>1, <3>3
  <2> QED
    BY SMTT(30), <2>1, <2>2, SeqDef DEF Elapse
<1>3. seen' \in [Source -> Nat] /\ \A s \in Source : seen'[s] <= Hold[s] + 1
  <2>1. \A s \in Source : Capped(seen[s] + 1, Hold[s] + 1) \in 0..Hold[s] + 1
    BY SMTT(30), CappedRange DEF IInv, TypeOK
  <2> QED
    BY <2>1 DEF Elapse
<1> QED
  BY <1>1, <1>2, <1>3 DEF Elapse, IInv, TypeOK, Quota, browser

LEMMA NextStep == IInv /\ [Next]_vars => IInv'
<1> SUFFICES ASSUME IInv, [Next]_vars
             PROVE  IInv'
  OBVIOUS
<1>1. CASE Refresh \/ Release \/ Vanish \/ (\E c \in Command : Press(c) \/ LoseRequest(c))
  BY <1>1, BrowserStep
<1>2. CASE HandleStop \/ \E c \in Move : HandleMove(c)
  BY <1>2, HandleStep
<1>3. CASE TickCheck \/ TickStop \/ Publish
  BY <1>3, TimerStep
<1>4. CASE Crash \/ Respawn
  BY <1>4, ProcessStep
<1>5. CASE OnManual \/ ReportSource \/ \E c \in Command : OnNav(c)
  BY <1>5, MuxStep
<1>6. CASE Elapse
  BY <1>6, ElapseStep
<1>7. CASE UNCHANGED vars
  BY <1>7 DEF vars, browser, teleop, timer, mux, history, IInv, TypeOK, Quota
<1> QED
  BY <1>1, <1>2, <1>3, <1>4, <1>5, <1>6, <1>7 DEF Next, Command

-----------------------------------------------------------------------------
\* Every part of the chain keeps its type, and no counter passes its cap.
THEOREM TypeCorrect == Spec => []TypeOK
<1>1. IInv => TypeOK
  BY DEF IInv
<1> QED
  BY <1>1, InitIInv, NextStep, PTL DEF Spec

\* tick's promise, for every STOP_REPEATS: after a request to move, however
\* requests, ticks and crashes interleave, at most that many zeros are sent.
THEOREM IdleIsSilent == Spec => []SilentWhenIdle
<1>1. IInv => SilentWhenIdle
  BY Constants DEF IInv, TypeOK, Quota, SilentWhenIdle
<1> QED
  BY <1>1, InitIInv, NextStep, PTL DEF Spec

-----------------------------------------------------------------------------
\* The mux: control, and who loses it

\* Manual control is held for as long as the mux says.
LEMMA HolderIsTeleop ==
  ASSUME NEW ages \in [Source -> Nat], ages["teleop"] <= TeleopHold
  PROVE  Holder(ages) = "teleop"
<1> DEFINE fresh == {s \in Source : ages[s] <= Hold[s]}
<1>1. "teleop" \in fresh
  BY DEF Hold, Source
<1>2. \A s \in fresh : (\A t \in fresh : Priority[t] <= Priority[s]) => s = "teleop"
  <2>1. Priority["teleop"] = 2 /\ Priority["nav2"] = 1
    BY DEF Priority, Source
  <2> QED
    BY <1>1, <2>1 DEF Source
<1>3. \A t \in fresh : Priority[t] <= Priority["teleop"]
  BY DEF Priority, Source
<1> HIDE DEF fresh
<1>4. (CHOOSE s \in fresh : \A t \in fresh : Priority[t] <= Priority[s]) = "teleop"
  BY <1>1, <1>2, <1>3
<1> QED
  BY <1>1, <1>4 DEF Holder, fresh

\* A process that is not there has no motion and no timer, and died.
DeadIsStill == ~up => vel = Still /\ pc = "idle" /\ crashed /\ ~engaged

\* The first of the commands on their way.
LEMMA FirstCommand ==
  ASSUME NEW queue \in Seq([cmd: Command, age: 0..MaxDelay]), queue # <<>>
  PROVE  /\ Len(queue) \in Nat /\ 1 \in 1..Len(queue)
         /\ queue[1] \in [cmd: Command, age: 0..MaxDelay] /\ queue[1].age \in 0..MaxDelay
<1>1. Len(queue) \in Nat /\ Len(queue) # 0
  BY EmptySeq, LenProperties
<1>2. 1 \in 1..Len(queue)
  BY <1>1
<1>3. queue[1] \in [cmd: Command, age: 0..MaxDelay]
  BY <1>2, ElementOfSeq
<1> QED
  BY <1>1, <1>2, <1>3

\* Control that was just heard is held until the next command, wherever it is.
LEMMA HoldLeavesRoom ==
  /\ \A n \in 0..MaxDelay : MaxDelay - n \in 0..TeleopHold
  /\ \A n \in 0..MaxLate : /\ (MaxLate - n) + MaxDelay \in 0..TeleopHold
                           /\ (MaxLate - n) + MaxLate + MaxDelay \in 0..TeleopHold
BY Constants, HoldAssumption

\* When the next manual command is due at the mux: one on its way, one about to
\* be published, or one that the next tick publishes.
NextHeard == IF manual # <<>> THEN MaxDelay - manual[1].age
             ELSE IF pc = "publish" THEN (MaxLate - late) + MaxDelay
             ELSE (MaxLate - late) + MaxLate + MaxDelay

InControl == engaged => up /\ pc # "stop" /\ seen["teleop"] + NextHeard <= TeleopHold

ControlInv == DeadIsStill /\ InControl

LEMMA InitControl == Init => ControlInv
BY DEF Init, ControlInv, DeadIsStill, InControl

\* Steps that leave the process, the timer and the way to the mux alone.
LEMMA ControlKept ==
  ASSUME ControlInv, UNCHANGED <<up, vel, timer, manual, seen["teleop"], crashed, engaged>>
  PROVE  ControlInv'
BY DEF ControlInv, DeadIsStill, InControl, NextHeard, timer

LEMMA ControlHandle ==
  ASSUME IInv, ControlInv, HandleStop \/ \E c \in Move : HandleMove(c)
  PROVE  ControlInv'
<1>1. up /\ UNCHANGED <<up, pc, late, manual, seen, engaged>>
  BY DEF HandleStop, HandleMove, timer, mux
<1>2. DeadIsStill'
  BY <1>1, Zenon DEF DeadIsStill
<1>3. InControl'
  BY <1>1 DEF ControlInv, InControl, NextHeard
<1> QED
  BY <1>2, <1>3 DEF ControlInv

LEMMA ControlTimer ==
  ASSUME IInv, ControlInv, TickCheck \/ TickStop \/ Publish
  PROVE  ControlInv'
<1> USE Constants
<1>1. up /\ up' = up
  BY DEF TickCheck, TickStop, Publish
<1>2. DeadIsStill'
  BY <1>1, Zenon DEF DeadIsStill
<1>3. CASE TickCheck
  <2>1. CASE IsActive
    <3>1. pc = "idle" /\ late' = 0 /\ pc' = "publish" /\ UNCHANGED <<manual, seen, engaged>>
      BY <1>3, <2>1 DEF TickCheck, mux
    <3>2. late \in 0..MaxLate
      BY DEF IInv, TypeOK
    <3>3. seen["teleop"] \in Nat
      BY DEF IInv, TypeOK, Source
    <3>4. manual # <<>> => manual[1].age \in 0..MaxDelay
      BY FirstCommand DEF IInv, TypeOK
    <3>5. NextHeard' <= NextHeard /\ NextHeard \in Int /\ NextHeard' \in Int
      BY <3>1, <3>2, <3>4 DEF NextHeard
    <3>6. engaged' => up' /\ pc' # "stop" /\ seen["teleop"] + NextHeard <= TeleopHold
      BY <1>1, <3>1, Zenon DEF ControlInv, InControl
    <3>7. seen'["teleop"] = seen["teleop"]
      BY <3>1
    <3>8. engaged' => seen'["teleop"] + NextHeard' <= TeleopHold
      BY <3>3, <3>5, <3>6, <3>7
    <3>9. InControl'
      BY <3>6, <3>8 DEF InControl
    <3> QED
      BY <1>2, <3>9 DEF ControlInv
  <2>2. CASE ~IsActive
    <3>1. engaged' = FALSE
      BY <1>3, <2>2 DEF TickCheck
    <3> QED
      BY <1>2, <3>1 DEF ControlInv, InControl
  <2> QED
    BY <2>1, <2>2
<1>4. CASE TickStop
  <2>1. pc = "stop" /\ engaged' = engaged
    BY <1>4 DEF TickStop
  <2> QED
    BY <1>2, <2>1 DEF ControlInv, InControl
<1>5. CASE Publish
  <2>1. /\ pc = "publish" /\ pc' = "idle" /\ UNCHANGED <<late, seen, engaged>>
        /\ manual' = Append(manual, [cmd |-> out, age |-> 0])
    BY <1>5 DEF Publish, history
  <2>2. /\ manual \in Seq([cmd: Command, age: 0..MaxDelay]) /\ out \in Command
        /\ late \in 0..MaxLate /\ seen["teleop"] \in Nat
    BY DEF IInv, TypeOK, Source
  <2>3. manual' # <<>> /\ (manual # <<>> => manual'[1] = manual[1])
                       /\ (manual = <<>> => manual'[1].age = 0)
    <3>1. [cmd |-> out, age |-> 0] \in [cmd: Command, age: 0..MaxDelay]
      BY <2>2
    <3> QED
      BY <2>1, <2>2, <3>1
  <2>4. InControl'
    BY <1>1, <2>1, <2>2, <2>3 DEF ControlInv, InControl, NextHeard
  <2> QED
    BY <1>2, <2>4 DEF ControlInv
<1> QED
  BY <1>3, <1>4, <1>5

LEMMA ControlCrash ==
  ASSUME ControlInv, Crash
  PROVE  ControlInv'
<1>1. vel' = Still /\ pc' = "idle" /\ crashed' = TRUE /\ engaged' = FALSE
  BY DEF Crash
<1> QED
  BY <1>1, Zenon DEF ControlInv, DeadIsStill, InControl

\* The mux hears a manual command: the time it holds control starts again.
LEMMA ControlManual ==
  ASSUME IInv, ControlInv, OnManual
  PROVE  ControlInv'
<1>1. /\ UNCHANGED <<up, vel, pc, late, crashed>> /\ seen'["teleop"] = 0
      /\ manual # <<>> /\ manual' = Tail(manual)
  BY DEF OnManual, OnCommand, teleop, timer, IInv, TypeOK, Source
<1>2. engaged' => engaged \/ (vel # Still /\ pc # "stop")
  BY Zenon DEF OnManual, IsActive
<1>3. DeadIsStill'
  BY <1>1, <1>2, Zenon DEF ControlInv, DeadIsStill
<1>4. engaged' => up' /\ pc' # "stop"
  BY <1>1, <1>2, Zenon DEF ControlInv, DeadIsStill, InControl
<1>5. NextHeard' \in 0..TeleopHold
  <2>1. manual' \in Seq([cmd: Command, age: 0..MaxDelay]) /\ late' \in 0..MaxLate
    BY MuxStep DEF IInv, TypeOK
  <2>2. manual' # <<>> => manual'[1].age \in 0..MaxDelay
    BY <2>1, FirstCommand
  <2> QED
    BY <2>1, <2>2, HoldLeavesRoom, Zenon DEF NextHeard
<1>6. InControl'
  <2>1. \A n \in 0..TeleopHold : 0 + n <= TeleopHold
    BY Constants
  <2>2. seen'["teleop"] + NextHeard' <= TeleopHold
    BY <1>1, <1>5, <2>1, Zenon
  <2> QED
    BY <1>4, <2>2, Zenon DEF InControl
<1> QED
  BY <1>3, <1>6 DEF ControlInv

LEMMA ControlNav ==
  ASSUME IInv, ControlInv, NEW c \in Command, OnNav(c)
  PROVE  ControlInv'
<1>1. seen'["teleop"] = seen["teleop"]
  BY DEF OnNav, OnCommand, IInv, TypeOK, Source
<1> QED
  BY <1>1, ControlKept DEF OnNav, teleop, history

\* A period passes, and what is due is a period nearer.
LEMMA ControlElapse ==
  ASSUME IInv, ControlInv, Elapse
  PROVE  ControlInv'
<1> USE Constants
<1>1. UNCHANGED <<up, vel, pc, crashed, engaged>>
  BY DEF Elapse
<1>2. DeadIsStill'
  BY <1>1 DEF ControlInv, DeadIsStill
<1>3. ASSUME engaged
      PROVE  seen'["teleop"] + NextHeard' <= TeleopHold
  <2>1. late < MaxLate /\ late \in 0..MaxLate
    BY <1>3 DEF Elapse, ControlInv, InControl, IInv, TypeOK
  <2>2. late' = late + 1
    BY <2>1 DEF Elapse, Capped
  <2>3. seen["teleop"] \in Nat /\ seen'["teleop"] \in Nat /\ seen'["teleop"] <= seen["teleop"] + 1
    <3>1. seen["teleop"] \in 0..Hold["teleop"] + 1 /\ Hold["teleop"] + 1 \in Nat
      BY SMTT(30), HoldNat DEF IInv, TypeOK, Source
    <3>2. seen'["teleop"] = Capped(seen["teleop"] + 1, Hold["teleop"] + 1)
      BY DEF Elapse, Source
    <3> QED
      BY <3>1, <3>2, CappedRange
  <2>4. seen["teleop"] + NextHeard <= TeleopHold
    BY <1>3 DEF ControlInv, InControl
  <2>5. CASE manual = <<>>
    <3>1. manual' = <<>>
      <4>1. manual' \in Seq([cmd: Command, age: 0..MaxDelay])
        BY ElapseStep DEF IInv, TypeOK
      <4>2. Len(manual) = 0
        BY <2>5
      <4>3. DOMAIN manual' = 1..0
        BY <4>2 DEF Elapse
      <4>4. Len(manual') \in Nat /\ DOMAIN manual' = 1..Len(manual')
        BY <4>1, LenProperties
      <4>5. Len(manual') = 0
        BY <4>3, <4>4
      <4> QED
        BY <4>1, <4>5, EmptySeq
    <3>2. NextHeard = NextHeard' + 1 /\ NextHeard' \in Int
      BY <1>1, <2>1, <2>2, <2>5, <3>1 DEF NextHeard
    <3> QED
      BY <2>3, <2>4, <3>2
  <2>6. CASE manual # <<>>
    <3>1. /\ manual[1] \in [cmd: Command, age: 0..MaxDelay]
          /\ Len(manual) \in Nat /\ 1 \in 1..Len(manual)
      BY <2>6, FirstCommand DEF IInv, TypeOK
    <3>2. manual' # <<>> /\ manual'[1] = [manual[1] EXCEPT !.age = @ + 1]
      BY <3>1 DEF Elapse
    <3>3. manual'[1].age = manual[1].age + 1 /\ manual[1].age \in Nat
      BY <3>1, <3>2
    <3>4. NextHeard = MaxDelay - manual[1].age
      BY <2>6 DEF NextHeard
    <3>5. NextHeard' = MaxDelay - manual'[1].age
      BY <3>2, Zenon DEF NextHeard
    <3> QED
      BY <2>3, <2>4, <3>3, <3>4, <3>5
  <2> QED
    BY <2>5, <2>6
<1>4. InControl'
  BY <1>1, <1>3 DEF ControlInv, InControl
<1> QED
  BY <1>2, <1>4 DEF ControlInv

LEMMA NextControl == IInv /\ ControlInv /\ [Next]_vars => ControlInv'
<1> SUFFICES ASSUME IInv, ControlInv, [Next]_vars
             PROVE  ControlInv'
  OBVIOUS
<1>1. CASE Refresh \/ Release \/ Vanish \/ (\E c \in Command : Press(c) \/ LoseRequest(c))
  <2>1. UNCHANGED <<up, teleop, timer, mux, history>>
    BY <1>1 DEF Refresh, Release, Vanish, Press, LoseRequest, Others
  <2> QED
    BY <2>1, ControlKept DEF teleop, mux, history
<1>2. CASE HandleStop \/ \E c \in Move : HandleMove(c)
  BY <1>2, ControlHandle
<1>3. CASE TickCheck \/ TickStop \/ Publish
  BY <1>3, ControlTimer
<1>4. CASE Crash
  BY <1>4, ControlCrash
<1>5. CASE Respawn
  <2>1. up' = TRUE /\ UNCHANGED <<pc, late, manual, seen, engaged>>
    BY <1>5 DEF Respawn, timer, mux, history
  <2>2. DeadIsStill'
    BY <2>1, Zenon DEF DeadIsStill
  <2>3. InControl'
    <3>1. engaged => up /\ up'
      BY <2>1, Zenon DEF ControlInv, InControl
    <3> QED
      BY <2>1, <3>1 DEF ControlInv, InControl, NextHeard
  <2> QED
    BY <2>2, <2>3 DEF ControlInv
<1>6. CASE OnManual
  BY <1>6, ControlManual
<1>7. CASE ReportSource
  BY <1>7, ControlKept DEF ReportSource, teleop, history
<1>8. CASE \E c \in Command : OnNav(c)
  BY <1>8, ControlNav
<1>9. CASE Elapse
  BY <1>9, ControlElapse
<1>10. CASE UNCHANGED vars
  BY <1>10, ControlKept DEF vars, teleop, mux, history
<1> QED
  BY <1>1, <1>2, <1>3, <1>4, <1>5, <1>6, <1>7, <1>8, <1>9, <1>10 DEF Next, Command

\* cmd_vel_mux holds manual control for longer than the dashboard takes from one
\* command to the next, so Nav2 never drives in between: from the first motion the
\* mux hears until the dashboard finds it expired or released, manual control is
\* held, for every timeout and every lateness and delay it leaves room for.
THEOREM ManualIsNotInterrupted == Spec => []ManualKeepsControl
<1>1. IInv /\ ControlInv => ManualKeepsControl
  <2> SUFFICES ASSUME IInv, ControlInv, engaged
               PROVE  Holder(seen) = "teleop"
    BY DEF ManualKeepsControl
  <2>1. seen \in [Source -> Nat] /\ seen["teleop"] \in Nat /\ late \in 0..MaxLate
        /\ manual \in Seq([cmd: Command, age: 0..MaxDelay])
    BY DEF IInv, TypeOK, Source
  <2>2. manual # <<>> => manual[1].age \in 0..MaxDelay
    BY <2>1, FirstCommand
  <2>3. NextHeard >= 0 /\ NextHeard \in Int
    BY <2>1, <2>2, Constants DEF NextHeard
  <2>4. seen["teleop"] <= TeleopHold
    BY <2>1, <2>3, Constants DEF ControlInv, InControl
  <2> QED
    BY <2>1, <2>4, HolderIsTeleop
<1> QED
  BY <1>1, InitIInv, NextStep, InitControl, NextControl, PTL DEF Spec

-----------------------------------------------------------------------------
\* The deadman: how long a motion outlives the last request for it

\* The deadman, and so many periods of a late timer after it.
Latest(n) == Deadman + n * MaxLate

LEMMA LatestFacts ==
  /\ Latest(0) = Deadman /\ Latest(1) = Deadman + MaxLate
  /\ \A n \in Nat : Latest(n) \in Nat /\ Latest(n + 1) = Latest(n) + MaxLate
  /\ \A m, n \in Nat : m <= n => Latest(m) <= Latest(n)
<1>1. \A n \in Nat : n * MaxLate \in Nat /\ (n + 1) * MaxLate = n * MaxLate + MaxLate
  BY Constants
<1>2. \A m, n \in Nat : m <= n => m * MaxLate <= n * MaxLate
  BY Constants
<1> QED
  BY <1>1, <1>2, Constants DEF Latest

\* A zero the timer chose and did not publish yet, and those it published.
InHand == IF zeros > 0 /\ pc = "publish" THEN 1 ELSE 0
Published == zeros - InHand

\* Every stop message since the last request to move was chosen or is pending.
AllSpent == zeros + stops = StopRepeats

\* Once a zero is chosen the motion is over and nothing else is published.
StoppedFirst == zeros > 0 => vel = Still /\ (pc = "publish" => out = Still)

\* A motion within its deadman was asked for that recently.
AskedLately == vel # Still /\ age <= Deadman => quiet <= age

\* The base moves only if the link dropped every zero that came through.
ZerosLost == base.by = "teleop" /\ base.cmd # Still => Published <= lost + Len(manual)

\* A motion on its way is ahead of every zero.
MotionFirst ==
  \A i \in 1..Len(manual) : manual[i].cmd # Still => i + Published <= Len(manual)

\* The timer chooses a zero at each of its turns until all are sent.
ZerosInTime ==
  zeros < StopRepeats \/ pc = "publish" =>
    quiet - late <= Latest(zeros + (IF pc = "stop" THEN 1 ELSE 0))

\* The zeros on their way were published in time.  The message at i is the
\* (Published - (Len(manual) - i))-th zero.
SentInTime ==
  \A i \in 1..Len(manual) :
    LET k == Published - (Len(manual) - i)
    IN  k >= 1 => quiet - manual[i].age <= Latest(k + 1)

Stopping ==
  AllSpent /\ StoppedFirst /\ AskedLately /\ ZerosLost /\ MotionFirst /\ ZerosInTime /\ SentInTime

StopInv == (pc = "stop" => out = Still) /\ (~crashed => Stopping)

LEMMA InitStop == Init => StopInv
<1> SUFFICES ASSUME Init
             PROVE  StopInv
  OBVIOUS
<1>1. /\ vel = Still /\ stops = 0 /\ pc = "idle" /\ out = Still /\ manual = <<>>
      /\ zeros = StopRepeats /\ base.by = "none"
  BY DEF Init
<1>2. Len(manual) = 0
  BY <1>1
<1> QED
  BY <1>1, <1>2, Constants
     DEF StopInv, Stopping, AllSpent, StoppedFirst, AskedLately, ZerosLost, MotionFirst, ZerosInTime, SentInTime

\* What the argument needs of the types.
LEMMA StopTypes ==
  ASSUME TypeOK
  PROVE  /\ zeros \in Nat /\ stops \in Nat /\ late \in 0..MaxLate /\ age \in Nat /\ quiet \in Nat
         /\ lost \in 0..MaxLosses /\ Len(manual) \in Nat
         /\ manual \in Seq([cmd: Command, age: 0..MaxDelay])
         /\ \A i \in 1..Len(manual) : manual[i].age \in 0..MaxDelay
         /\ InHand \in {0, 1} /\ Published \in Nat
<1>1. /\ zeros \in Nat /\ stops \in Nat /\ late \in 0..MaxLate /\ age \in Nat /\ quiet \in Nat
      /\ lost \in 0..MaxLosses /\ manual \in Seq([cmd: Command, age: 0..MaxDelay])
  BY DEF TypeOK
<1>2. Len(manual) \in Nat
  BY <1>1, LenProperties
<1>3. \A i \in 1..Len(manual) : manual[i].age \in 0..MaxDelay
  <2> TAKE i \in 1..Len(manual)
  <2>1. manual[i] \in [cmd: Command, age: 0..MaxDelay]
    BY <1>1, ElementOfSeq
  <2> QED
    BY <2>1
<1>4. InHand \in {0, 1} /\ Published \in Nat
  BY <1>1 DEF InHand, Published
<1> QED
  BY <1>1, <1>2, <1>3, <1>4

\* Steps that leave the dashboard, the queue and the base alone.
LEMMA StopKept ==
  ASSUME StopInv, UNCHANGED <<vel, age, stops, pc, out, late, manual, base, lost, quiet, zeros, crashed>>
  PROVE  StopInv'
BY DEF StopInv, Stopping, AllSpent, StoppedFirst, AskedLately, ZerosLost, MotionFirst, ZerosInTime,
       SentInTime, InHand, Published

\* A request to move starts the count again.
LEMMA StopMove ==
  ASSUME IInv, StopInv, NEW c \in Move, HandleMove(c)
  PROVE  StopInv'
<1>1. /\ age' = 0 /\ stops' = StopRepeats /\ quiet' = 0 /\ zeros' = 0
      /\ UNCHANGED <<pc, out, late, manual, base, lost>>
  BY DEF HandleMove, Update, timer, mux
<1>2. Published' = 0
  BY <1>1 DEF Published, InHand
<1>3. /\ Len(manual) \in Nat /\ lost \in Nat /\ late \in Nat
      /\ \A i \in 1..Len(manual) : manual[i].age \in Nat
  BY SMTT(30), StopTypes, Constants DEF IInv
<1>4. AllSpent' /\ StoppedFirst' /\ AskedLately'
  BY <1>1, Constants DEF AllSpent, StoppedFirst, AskedLately
<1>5. ZerosLost' /\ MotionFirst'
  BY <1>1, <1>2, <1>3 DEF ZerosLost, MotionFirst
<1>6. ZerosInTime'
  <2>1. \A n \in Nat : 0 - n <= Latest(0) /\ 0 - n <= Latest(1)
    <3>1. Latest(0) \in Nat /\ Latest(1) \in Nat
      BY LatestFacts, Constants
    <3> QED
      BY <3>1
  <2> QED
    BY <1>1, <1>3, <2>1 DEF ZerosInTime
<1>7. SentInTime'
  BY <1>1, <1>2, <1>3 DEF SentInTime
<1>8. pc' = "stop" => out' = Still
  BY <1>1 DEF StopInv
<1> QED
  BY <1>4, <1>5, <1>6, <1>7, <1>8 DEF StopInv, Stopping

\* Letting go only ends the motion.
LEMMA StopStop ==
  ASSUME IInv, StopInv, HandleStop
  PROVE  StopInv'
<1>1. vel' = Still /\ UNCHANGED <<stops, pc, out, late, manual, base, lost, quiet, zeros, crashed>>
  BY DEF HandleStop, Stop, StopsLeft, timer, mux
<1> QED
  BY <1>1 DEF StopInv, Stopping, AllSpent, StoppedFirst, AskedLately, ZerosLost, MotionFirst,
              ZerosInTime, SentInTime, InHand, Published

\* The timer fires: it finds a motion within its deadman, or goes on to stop.
LEMMA StopCheck ==
  ASSUME IInv, StopInv, TickCheck
  PROVE  StopInv'
<1>1. /\ pc = "idle" /\ late' = 0
      /\ UNCHANGED <<vel, age, stops, manual, base, lost, quiet, zeros, crashed>>
  BY DEF TickCheck, teleop, mux
<1>2. \/ pc' = "publish" /\ out' = vel /\ vel # Still /\ age <= Deadman
      \/ pc' = "stop" /\ out' = Still
  BY Zenon DEF TickCheck, IsActive
<1>3. SUFFICES ASSUME Stopping
               PROVE  Stopping'
  BY <1>1, <1>2 DEF StopInv
<1>4. TypeOK
  BY DEF IInv
<1>5. (pc' = "publish" => zeros = 0) /\ Published = zeros /\ Published' = zeros
  BY <1>1, <1>2, <1>3, <1>4, StopTypes DEF Stopping, StoppedFirst, InHand, Published
<1>6. AllSpent' /\ StoppedFirst' /\ AskedLately'
  BY <1>1, <1>3, <1>4, <1>5, StopTypes DEF Stopping, AllSpent, StoppedFirst, AskedLately
<1>7. ZerosLost' /\ MotionFirst' /\ SentInTime'
  BY <1>1, <1>3, <1>5 DEF Stopping, ZerosLost, MotionFirst, SentInTime
<1>8. ZerosInTime'
  <2>1. CASE pc' = "publish"
    <3>1. quiet <= Deadman
      BY <1>2, <1>3, <1>4, <2>1, StopTypes, Constants DEF Stopping, AskedLately
    <3>2. quiet - 0 <= Latest(zeros)
      BY <1>4, <1>5, <2>1, <3>1, LatestFacts, StopTypes
    <3> QED
      BY <1>1, <1>4, <2>1, <3>2, StopTypes DEF ZerosInTime
  <2>2. CASE pc' = "stop"
    <3>1. ASSUME zeros < StopRepeats
          PROVE  quiet - 0 <= Latest(zeros + 1)
      <4>1. quiet - late <= Latest(zeros)
        BY <1>1, <1>3, <1>4, <3>1, StopTypes DEF Stopping, ZerosInTime
      <4>2. Latest(zeros + 1) = Latest(zeros) + MaxLate /\ Latest(zeros) \in Nat
        BY <1>4, StopTypes, LatestFacts
      <4> QED
        BY <1>4, <4>1, <4>2, StopTypes, Constants
    <3> QED
      BY <1>1, <2>2, <3>1 DEF ZerosInTime
  <2> QED
    BY <1>2, <2>1, <2>2
<1> QED
  BY <1>6, <1>7, <1>8 DEF Stopping

\* The timer chooses a zero, or has none left to choose.
LEMMA StopTick ==
  ASSUME IInv, StopInv, TickStop
  PROVE  StopInv'
<1>1. /\ pc = "stop" /\ vel' = Still
      /\ UNCHANGED <<out, late, manual, base, lost, quiet, crashed>>
  BY DEF TickStop, mux
<1>2. \/ /\ stops > 0 /\ stops' = stops - 1 /\ pc' = "publish"
         /\ zeros' = Capped(zeros + 1, StopRepeats + 1)
      \/ ~(stops > 0) /\ pc' = "idle" /\ stops' = stops /\ zeros' = zeros
  BY DEF TickStop, StopsLeft
<1>3. SUFFICES ASSUME Stopping
               PROVE  Stopping'
  BY <1>1, <1>2 DEF StopInv
<1>4. TypeOK
  BY DEF IInv
<1>5. out = Still /\ Published = zeros
  BY <1>1, <1>4, StopTypes DEF StopInv, InHand, Published
<1>6. CASE stops > 0
  <2>1. zeros' = zeros + 1 /\ zeros < StopRepeats /\ stops' = stops - 1 /\ pc' = "publish"
    BY SMTT(30), <1>2, <1>3, <1>4, <1>6, StopTypes, Constants DEF Stopping, AllSpent, Capped
  <2>2. Published' = Published
    BY <1>4, <1>5, <2>1, StopTypes DEF Published, InHand
  <2>3. AllSpent' /\ StoppedFirst' /\ AskedLately'
    BY <1>1, <1>3, <1>4, <1>5, <2>1, StopTypes DEF Stopping, AllSpent, StoppedFirst, AskedLately
  <2>4. ZerosLost' /\ MotionFirst' /\ SentInTime'
    BY <1>1, <1>3, <2>2 DEF Stopping, ZerosLost, MotionFirst, SentInTime
  <2>5. ZerosInTime'
    <3>1. quiet - late <= Latest(zeros + 1)
      BY <1>1, <1>3, <2>1 DEF Stopping, ZerosInTime
    <3>2. (zeros + 1) + 0 = zeros + 1
      BY <1>4, StopTypes
    <3> QED
      BY <1>1, <2>1, <3>1, <3>2 DEF ZerosInTime
  <2> QED
    BY <2>3, <2>4, <2>5 DEF Stopping
<1>7. CASE ~(stops > 0)
  <2>1. zeros' = zeros /\ stops' = stops /\ pc' = "idle" /\ zeros = StopRepeats
    BY <1>2, <1>3, <1>4, <1>7, StopTypes, Constants DEF Stopping, AllSpent
  <2>2. Published' = Published
    BY <1>4, <1>5, <2>1, StopTypes DEF Published, InHand
  <2>3. AllSpent' /\ StoppedFirst' /\ AskedLately'
    BY <1>1, <1>3, <2>1 DEF Stopping, AllSpent, StoppedFirst, AskedLately
  <2>4. ZerosLost' /\ MotionFirst' /\ SentInTime'
    BY <1>1, <1>3, <2>2 DEF Stopping, ZerosLost, MotionFirst, SentInTime
  <2>5. ZerosInTime'
    BY <2>1, Constants DEF ZerosInTime
  <2> QED
    BY <2>3, <2>4, <2>5 DEF Stopping
<1> QED
  BY <1>6, <1>7

\* A command leaves the dashboard: a zero that was chosen, or a motion that was
\* fresh when the timer fired.
LEMMA StopPublish ==
  ASSUME IInv, StopInv, Publish
  PROVE  StopInv'
<1>1. /\ pc = "publish" /\ pc' = "idle"
      /\ manual' = Append(manual, [cmd |-> out, age |-> 0])
      /\ UNCHANGED <<vel, age, stops, late, base, lost, quiet, zeros, crashed>>
  BY DEF Publish, teleop, history
<1>2. SUFFICES ASSUME Stopping
               PROVE  Stopping'
  BY <1>1 DEF StopInv
<1>3. /\ zeros \in Nat /\ late \in 0..MaxLate /\ quiet \in Nat /\ lost \in Nat
      /\ Len(manual) \in Nat /\ manual \in Seq([cmd: Command, age: 0..MaxDelay])
      /\ \A i \in 1..Len(manual) : manual[i].age \in 0..MaxDelay
  BY SMTT(30), StopTypes, Constants DEF IInv
<1>4. /\ Len(manual') = Len(manual) + 1
      /\ \A i \in 1..Len(manual) : manual'[i] = manual[i]
      /\ manual'[Len(manual) + 1] = [cmd |-> out, age |-> 0]
  <2>1. [cmd |-> out, age |-> 0] \in [cmd: Command, age: 0..MaxDelay]
    BY Constants DEF IInv, TypeOK
  <2> QED
    BY <1>1, <1>3, <2>1, AppendProperties
<1>5. /\ Published' = zeros
      /\ zeros = 0 => Published = 0
      /\ zeros > 0 => Published = zeros - 1 /\ out = Still
  BY <1>1, <1>2, <1>3 DEF Stopping, StoppedFirst, Published, InHand
<1>6. AllSpent' /\ StoppedFirst' /\ AskedLately'
  BY <1>1, <1>2 DEF Stopping, AllSpent, StoppedFirst, AskedLately
<1>7. ZerosLost'
  BY <1>1, <1>2, <1>3, <1>4, <1>5 DEF Stopping, ZerosLost
<1>8. MotionFirst'
  <2> SUFFICES ASSUME NEW i \in 1..Len(manual) + 1, manual'[i].cmd # Still
               PROVE  i + zeros <= Len(manual) + 1
    BY <1>4, <1>5 DEF MotionFirst
  <2>1. CASE i \in 1..Len(manual)
    <3>1. i + Published <= Len(manual)
      BY <1>2, <1>4, <2>1 DEF Stopping, MotionFirst
    <3> QED
      BY <1>3, <1>5, <2>1, <3>1
  <2>2. CASE i = Len(manual) + 1
    <3>1. zeros = 0
      BY <1>3, <1>4, <1>5, <2>2
    <3> QED
      BY <1>3, <2>2, <3>1
  <2> QED
    BY <1>3, <2>1, <2>2
<1>9. ZerosInTime'
  BY <1>1, <1>2 DEF Stopping, ZerosInTime
<1>10. SentInTime'
  <2> SUFFICES ASSUME NEW i \in 1..Len(manual) + 1, zeros - ((Len(manual) + 1) - i) >= 1
               PROVE  quiet - manual'[i].age <= Latest((zeros - ((Len(manual) + 1) - i)) + 1)
    BY <1>1, <1>4, <1>5 DEF SentInTime
  <2>1. CASE i \in 1..Len(manual)
    <3>1. zeros - ((Len(manual) + 1) - i) = Published - (Len(manual) - i)
      BY <1>3, <1>5, <2>1
    <3> QED
      BY <1>2, <1>4, <2>1, <3>1 DEF Stopping, SentInTime
  <2>2. CASE i = Len(manual) + 1
    <3>1. manual'[i].age = 0 /\ zeros - ((Len(manual) + 1) - i) = zeros
      BY <1>3, <1>4, <2>2
    <3>2. quiet - late <= Latest(zeros)
      BY <1>1, <1>2, <1>3 DEF Stopping, ZerosInTime
    <3>3. Latest(zeros + 1) = Latest(zeros) + MaxLate /\ Latest(zeros) \in Nat
      BY <1>3, LatestFacts
    <3> QED
      BY SMTT(30), <1>3, <3>1, <3>2, <3>3, Constants
  <2> QED
    BY <1>3, <2>1, <2>2
<1>11. pc' # "stop"
  BY <1>1
<1> QED
  BY <1>6, <1>7, <1>8, <1>9, <1>10 DEF Stopping

\* The mux hears a manual command: the base does, or the link drops it.
LEMMA StopManual ==
  ASSUME IInv, StopInv, OnManual
  PROVE  StopInv'
<1>1. /\ manual # <<>> /\ manual' = Tail(manual)
      /\ UNCHANGED <<vel, age, stops, pc, out, late, quiet, zeros, crashed>>
  BY DEF OnManual, teleop, timer
<1>2. SUFFICES ASSUME Stopping
               PROVE  Stopping'
  BY <1>1 DEF StopInv
<1>3. /\ zeros \in Nat /\ Published \in Nat /\ lost \in Nat /\ quiet \in Nat
      /\ manual \in Seq([cmd: Command, age: 0..MaxDelay])
  BY StopTypes, Constants DEF IInv
<1>4. /\ Len(manual) \in Nat /\ Len(manual) >= 1 /\ Len(manual') = Len(manual) - 1
      /\ \A i \in 1..Len(manual') : manual'[i] = manual[i + 1] /\ i + 1 \in 1..Len(manual)
      /\ Head(manual) = manual[1] /\ 1 \in 1..Len(manual)
  <2>1. Len(manual) \in Nat /\ 1 \in 1..Len(manual)
    BY <1>1, <1>3, FirstCommand
  <2> QED
    BY <1>1, <1>3, <2>1, HeadTailProperties
<1>5. Published' = Published
  BY <1>1 DEF Published, InHand
<1>6. AllSpent' /\ StoppedFirst' /\ AskedLately' /\ ZerosInTime'
  BY <1>1, <1>2 DEF Stopping, AllSpent, StoppedFirst, AskedLately, ZerosInTime
<1>7. MotionFirst'
  <2> SUFFICES ASSUME NEW i \in 1..Len(manual'), manual'[i].cmd # Still
               PROVE  i + Published <= Len(manual')
    BY <1>5 DEF MotionFirst
  <2>1. (i + 1) + Published <= Len(manual)
    BY <1>2, <1>4 DEF Stopping, MotionFirst
  <2> QED
    BY <1>3, <1>4, <2>1
<1>8. SentInTime'
  <2> SUFFICES ASSUME NEW i \in 1..Len(manual'), Published - (Len(manual') - i) >= 1
               PROVE  quiet - manual'[i].age <= Latest((Published - (Len(manual') - i)) + 1)
    BY <1>1, <1>5 DEF SentInTime
  <2>1. Published - (Len(manual') - i) = Published - (Len(manual) - (i + 1))
    BY <1>3, <1>4
  <2> QED
    BY <1>2, <1>4, <2>1 DEF Stopping, SentInTime
<1>9. ZerosLost'
  <2>1. CASE base' = [by |-> "teleop", cmd |-> Head(manual).cmd] /\ lost' = 0
    <3>1. ASSUME Head(manual).cmd # Still
          PROVE  Published <= Len(manual')
      <4>1. 1 + Published <= Len(manual)
        BY <1>2, <1>4, <3>1 DEF Stopping, MotionFirst
      <4> QED
        BY <1>3, <1>4, <4>1
    <3>2. 0 + Len(manual') = Len(manual')
      BY <1>4
    <3> QED
      BY <1>5, <2>1, <3>1, <3>2 DEF ZerosLost
  <2>2. CASE lost' = lost + 1 /\ base' = base
    BY <1>2, <1>3, <1>4, <1>5, <2>2 DEF Stopping, ZerosLost
  <2>3. Holder(seen') = "teleop"
    <3>1. seen' \in [Source -> Nat] /\ seen'["teleop"] = 0
      BY MuxStep DEF OnManual, OnCommand, IInv, TypeOK, Source
    <3> QED
      BY <3>1, HolderIsTeleop, Constants
  <2> QED
    BY <2>1, <2>2, <2>3 DEF OnManual, OnCommand, Forward
<1> QED
  BY <1>6, <1>7, <1>8, <1>9 DEF Stopping

\* Nav2's commands, when they get through, end the manual motion.
LEMMA StopNav ==
  ASSUME IInv, StopInv, NEW c \in Command, OnNav(c)
  PROVE  StopInv'
<1>1. UNCHANGED <<vel, age, stops, pc, out, late, manual, quiet, zeros, crashed>>
  BY DEF OnNav, teleop, timer, history
<1>2. SUFFICES ASSUME Stopping
               PROVE  Stopping'
  BY <1>1 DEF StopInv
<1>3. Published \in Nat /\ lost \in Nat /\ Len(manual) \in Nat
  BY StopTypes, Constants DEF IInv
<1>4. Published' = Published
  BY <1>1 DEF Published, InHand
<1>5. ZerosLost'
  <2>1. \/ base' = [by |-> "nav2", cmd |-> c]
        \/ lost' = lost + 1 /\ base' = base
        \/ lost' = lost /\ base' = base
    BY DEF OnNav, OnCommand, Forward
  <2> QED
    BY <1>1, <1>2, <1>3, <1>4, <2>1 DEF Stopping, ZerosLost
<1> QED
  BY <1>1, <1>2, <1>4, <1>5 DEF Stopping, AllSpent, StoppedFirst, AskedLately, MotionFirst,
                                 ZerosInTime, SentInTime

\* A period passes: the timer is not later than MaxLate, a message not older than
\* MaxDelay, so no deadline moves.
LEMMA StopElapse ==
  ASSUME IInv, DeadIsStill, StopInv, Elapse
  PROVE  StopInv'
<1>1. /\ UNCHANGED <<up, vel, stops, pc, out, base, lost, zeros, crashed>>
      /\ late' = Capped(late + 1, MaxLate) /\ age' = Capped(age + 1, Expired)
      /\ quiet' = Capped(quiet + 1, StopBound + 1)
      /\ manual' = [i \in 1..Len(manual) |-> [manual[i] EXCEPT !.age = @ + 1]]
  BY DEF Elapse
<1>2. pc' = "stop" => out' = Still
  BY <1>1 DEF StopInv
<1>3. SUFFICES ASSUME ~crashed, Stopping
               PROVE  Stopping'
  BY <1>1, <1>2 DEF StopInv
<1>4. /\ zeros \in Nat /\ Published \in Nat /\ lost \in Nat /\ quiet \in Nat /\ age \in Nat
      /\ late \in 0..MaxLate /\ Len(manual) \in Nat
      /\ manual \in Seq([cmd: Command, age: 0..MaxDelay])
      /\ \A i \in 1..Len(manual) : manual[i].age \in 0..MaxDelay
  BY StopTypes, Constants DEF IInv
<1>5. late' = late + 1
  <2>1. late < MaxLate
    BY <1>3 DEF DeadIsStill, Elapse
  <2> QED
    BY SMTT(30), <1>1, <1>4, <2>1, Constants DEF Capped
<1>6. quiet' \in Nat /\ quiet' <= quiet + 1
  <2>1. quiet \in 0..StopBound + 1 /\ StopBound + 1 \in Nat
    BY StopBoundNat DEF IInv, TypeOK
  <2> QED
    BY <1>1, <2>1, CappedRange
<1>7. Len(manual') = Len(manual) /\ \A i \in 1..Len(manual) :
        manual'[i].cmd = manual[i].cmd /\ manual'[i].age = manual[i].age + 1
  <2>1. manual' \in Seq([cmd: Command, age: 0..MaxDelay])
    BY ElapseStep DEF IInv, TypeOK
  <2>2. Len(manual') \in Nat /\ 1..Len(manual') = 1..Len(manual)
    BY <1>1, <2>1, LenProperties
  <2>3. Len(manual') = Len(manual)
    BY <1>4, <2>2
  <2>4. ASSUME NEW i \in 1..Len(manual)
        PROVE  manual'[i].cmd = manual[i].cmd /\ manual'[i].age = manual[i].age + 1
    <3>1. manual[i] \in [cmd: Command, age: 0..MaxDelay]
      BY <1>4, ElementOfSeq
    <3>2. manual'[i] = [manual[i] EXCEPT !.age = @ + 1]
      BY <1>1
    <3> QED
      BY <3>1, <3>2
  <2> QED
    BY <2>3, <2>4
<1>8. Published' = Published
  BY <1>1 DEF Published, InHand
<1>9. AllSpent' /\ StoppedFirst' /\ ZerosLost' /\ MotionFirst'
  BY <1>1, <1>3, <1>7, <1>8 DEF Stopping, AllSpent, StoppedFirst, ZerosLost, MotionFirst
<1>10. AskedLately'
  <2> SUFFICES ASSUME vel # Still, age' <= Deadman
               PROVE  quiet' <= age'
    BY <1>1 DEF AskedLately
  <2>1. age' = age + 1 /\ age <= Deadman
    <3>1. age' = IF age + 1 < Deadman + 1 THEN age + 1 ELSE Deadman + 1
      BY <1>1 DEF Capped, Expired
    <3>2. age \in Nat /\ Deadman \in Nat
      BY <1>4, Constants
    <3> QED
      BY <3>1, <3>2
  <2>2. quiet <= age
    BY <1>3, <2>1 DEF Stopping, AskedLately
  <2> QED
    BY <1>4, <1>6, <2>1, <2>2
<1>11. ZerosInTime'
  <2> DEFINE turns == zeros + (IF pc = "stop" THEN 1 ELSE 0)
  <2>1. turns \in Nat
    BY <1>4
  <2>2. quiet - late <= Latest(turns) => quiet' - (late + 1) <= Latest(turns)
    <3>1. Latest(turns) \in Nat
      BY <2>1, LatestFacts
    <3> HIDE DEF turns
    <3> QED
      BY <1>4, <1>6, <3>1
  <2> QED
    BY <1>1, <1>3, <1>5, <2>2 DEF Stopping, ZerosInTime
<1>12. SentInTime'
  <2> SUFFICES ASSUME NEW i \in 1..Len(manual), Published - (Len(manual) - i) >= 1
               PROVE  quiet' - manual'[i].age <= Latest((Published - (Len(manual) - i)) + 1)
    BY <1>7, <1>8 DEF SentInTime
  <2> DEFINE last == Latest((Published - (Len(manual) - i)) + 1)
  <2>1. last \in Nat
    <3>1. (Published - (Len(manual) - i)) + 1 \in Nat
      BY <1>4
    <3> QED
      BY <3>1, LatestFacts
  <2>2. quiet - manual[i].age <= last
    BY <1>3 DEF Stopping, SentInTime
  <2>3. manual'[i].age = manual[i].age + 1 /\ manual[i].age \in Nat
    BY <1>4, <1>7
  <2> HIDE DEF last
  <2>4. quiet' - manual'[i].age <= last
    BY SMTT(30), <1>4, <1>6, <2>1, <2>2, <2>3
  <2> QED
    BY <2>4 DEF last
<1> QED
  BY <1>9, <1>10, <1>11, <1>12 DEF Stopping

LEMMA NextStop == IInv /\ ControlInv /\ StopInv /\ [Next]_vars => StopInv'
<1> SUFFICES ASSUME IInv, DeadIsStill, StopInv, [Next]_vars
             PROVE  StopInv'
  BY DEF ControlInv
<1>1. CASE Refresh \/ Release \/ Vanish \/ (\E c \in Command : Press(c) \/ LoseRequest(c))
  <2>1. UNCHANGED <<up, teleop, timer, mux, history>>
    BY <1>1 DEF Refresh, Release, Vanish, Press, LoseRequest, Others
  <2> QED
    BY <2>1, StopKept DEF teleop, timer, mux, history
<1>2. CASE HandleStop \/ \E c \in Move : HandleMove(c)
  BY <1>2, StopMove, StopStop
<1>3. CASE TickCheck \/ TickStop \/ Publish
  BY <1>3, StopCheck, StopTick, StopPublish
<1>4. CASE Crash
  <2>1. pc' = "idle" /\ crashed' = TRUE
    BY <1>4 DEF Crash
  <2> QED
    BY <2>1, Zenon DEF StopInv
<1>5. CASE Respawn \/ ReportSource \/ UNCHANGED vars
  BY <1>5, StopKept DEF Respawn, ReportSource, vars, teleop, timer, mux, history
<1>6. CASE OnManual
  BY <1>6, StopManual
<1>7. CASE \E c \in Command : OnNav(c)
  BY <1>7, StopNav
<1>8. CASE Elapse
  BY <1>8, StopElapse
<1> QED
  BY <1>1, <1>2, <1>3, <1>4, <1>5, <1>6, <1>7, <1>8 DEF Next, Command

\* The base moves by a manual command only while a zero may still be lost or on
\* its way, and those left in time.
LEMMA MotionIsRecent ==
  ASSUME TypeOK, Stopping, base.by = "teleop", base.cmd # Still
  PROVE  quiet <= StopBound
<1>1. /\ zeros \in Nat /\ Published \in Nat /\ lost \in 0..MaxLosses /\ quiet \in Nat
      /\ late \in 0..MaxLate /\ Len(manual) \in Nat
      /\ \A i \in 1..Len(manual) : manual[i].age \in 0..MaxDelay
      /\ InHand \in {0, 1}
  BY StopTypes
<1>2. Published <= lost + Len(manual)
  BY DEF Stopping, ZerosLost
<1>3. /\ Latest(lost + 2) \in Nat /\ Latest(MaxLosses + 2) \in Nat
      /\ Latest(lost + 2) <= Latest(MaxLosses + 2)
  <2>1. lost + 2 \in Nat /\ MaxLosses + 2 \in Nat /\ lost + 2 <= MaxLosses + 2
    BY <1>1, Constants
  <2> QED
    BY <2>1, LatestFacts
<1>4. StopBound = Latest(MaxLosses + 2) + MaxDelay
  BY DEF StopBound, Latest
<1>5. CASE Published >= lost + 1
  <2> DEFINE i == Len(manual) - (Published - (lost + 1))
  <2>1. i \in 1..Len(manual) /\ Published - (Len(manual) - i) = lost + 1
    BY <1>1, <1>2, <1>5
  <2>2. quiet - manual[i].age <= Latest((lost + 1) + 1)
    BY <1>1, <2>1 DEF Stopping, SentInTime
  <2>3. manual[i].age \in 0..MaxDelay /\ (lost + 1) + 1 = lost + 2
    BY <1>1, <2>1
  <2> HIDE DEF i
  <2> QED
    BY SMTT(30), <1>1, <1>3, <1>4, <2>2, <2>3, Constants
<1>6. CASE ~(Published >= lost + 1)
  <2> DEFINE turns == zeros + (IF pc = "stop" THEN 1 ELSE 0)
  <2>1. turns \in Nat /\ turns <= lost + 1
    BY <1>1, <1>6 DEF Published, InHand
  <2>2. zeros < StopRepeats \/ pc = "publish"
    BY <1>1, <1>6, LossAssumption, Constants DEF Published, InHand
  <2>3. quiet - late <= Latest(turns)
    BY <2>2 DEF Stopping, ZerosInTime
  <2> HIDE DEF turns
  <2>4. Latest(turns) \in Nat /\ Latest(lost + 1) \in Nat /\ Latest(turns) <= Latest(lost + 1)
    BY SMTT(30), <1>1, <2>1, LatestFacts
  <2>5. Latest(lost + 2) = Latest(lost + 1) + MaxLate
    <3>1. lost + 1 \in Nat /\ (lost + 1) + 1 = lost + 2
      BY <1>1
    <3> QED
      BY <3>1, LatestFacts
  <2> QED
    BY <1>1, <1>3, <1>4, <2>3, <2>4, <2>5, Constants
<1> QED
  BY <1>5, <1>6

\* The deadman of TeleopState.tick, as it reaches the base through the mux and a
\* link that drops messages: while the dashboard lives, a manual motion ends within
\* teleop_timeout_sec, a bounded number of late ticks and the way to the mux of the
\* last request for it, for every value of these and whatever is lost or reordered.
THEOREM MotionEnds == Spec => []NoRunaway
<1>1. IInv /\ StopInv => NoRunaway
  <2> SUFFICES ASSUME IInv, StopInv, Runaway, ~crashed
               PROVE  FALSE
    BY DEF NoRunaway
  <2>1. quiet <= StopBound
    BY MotionIsRecent DEF IInv, StopInv, Runaway
  <2>2. quiet \in Nat
    BY StopTypes DEF IInv
  <2> QED
    BY <2>1, <2>2, StopBoundNat DEF Runaway
<1> QED
  BY <1>1, InitIInv, NextStep, InitControl, NextControl, InitStop, NextStop, PTL DEF Spec
=============================================================================
