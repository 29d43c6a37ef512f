----------------------------- MODULE DriveChain -----------------------------
(***************************************************************************)
(* Manual driving, from the browser to the base: HTTP requests, the        *)
(* dashboard's TeleopState and its publish timer, cmd_vel_mux_node and the  *)
(* best-effort link to the simulator.                                      *)
(*                                                                         *)
(* Time is counted in periods of the publish timer (20 Hz).  Requests are  *)
(* handled on the web server's threads while the timer runs on the         *)
(* executor's; between calls a thread may lose the interpreter lock, so    *)
(* update and stop are one step each and tick is three: the is_active      *)
(* test, the stop branch and the publication.  Speeds are left out: a      *)
(* command is one of a set of motions, or Still.                           *)
(***************************************************************************)
EXTENDS Integers, Sequences

CONSTANTS
  Move,          \* what twist_from_keys makes of keys that do not cancel
  Still,         \* the zero velocity
  Deadman,       \* teleop_timeout_sec
  TeleopHold,    \* the mux's teleop_timeout_sec
  NavHold,       \* the mux's nav_timeout_sec
  StopRepeats,   \* STOP_REPEATS
  MaxLate,       \* the timer fires at most this many periods after it last did
  MaxDelay,      \* a manual command is this many periods on its way to the mux, at most
  MaxLosses,     \* commands in a row the link to the base may drop
  MaxRequests    \* bound on HTTP requests of one kind in flight

Command == Move \cup {Still}
Source == {"teleop", "nav2"}
Hold == [s \in Source |-> IF s = "teleop" THEN TeleopHold ELSE NavHold]
Priority == [s \in Source |-> IF s = "teleop" THEN 2 ELSE 1]

ASSUME DriveAssumption ==
  /\ Still \notin Move
  /\ {Deadman, TeleopHold, NavHold, StopRepeats, MaxLate, MaxDelay, MaxLosses,
      MaxRequests} \subseteq Nat
  /\ MaxLate > 0

\* The mux holds manual control (0.5 s, ten periods of the timer) for longer
\* than it takes from one manual command to the next: a timer that was about to
\* fire and is late, one more, and the way of the second command.
ASSUME HoldAssumption == 2 * MaxLate + MaxDelay <= TeleopHold

\* "A dropped stop message is the one message that must not be dropped", hence
\* STOP_REPEATS of them: more than the link to the base drops in a row.
ASSUME LossAssumption == MaxLosses < StopRepeats

VARIABLES
  held,       \* browser: the motion its held keys ask for
  gone,       \* browser: closed, asleep or cut off for good
  requests,   \* HTTP requests in flight, by what they ask for
  up,         \* is the dashboard process running?
  vel,        \* TeleopState: _linear and _angular
  age,        \* TeleopState: periods since _stamp
  stops,      \* TeleopState: _stops_pending
  pc,         \* where the timer callback is
  out,        \* the velocity it is about to publish
  late,       \* periods since the timer last fired
  manual,     \* commands on their way to the mux: [cmd, age]
  seen,       \* mux: periods since each source's last command
  reported,   \* mux: the source last reported
  base,       \* what the base executes: [by, cmd]
  lost,       \* commands in a row the base did not receive
  quiet,      \* history: periods since a request to move was last handled
  zeros,      \* history: zeros the timer chose to publish since then
  crashed,    \* history: the dashboard died since then
  engaged     \* history: the mux heard a motion, and the dashboard drives since

browser == <<held, gone, requests>>
teleop == <<vel, age, stops>>
timer == <<pc, out, late>>
mux == <<manual, seen, reported, base, lost>>
history == <<quiet, zeros, crashed, engaged>>
vars == <<browser, up, teleop, timer, mux, history>>

\* Longest a manual motion outlives the last request for it: the deadman, a late
\* timer per stop message the link drops and for the one it does not, that
\* timer's callback, and the way to the mux.
StopBound == Deadman + (MaxLosses + 2) * MaxLate + MaxDelay

Capped(n, cap) == IF n < cap THEN n ELSE cap
Expired == Deadman + 1

TypeOK ==
  /\ held \in Command /\ gone \in BOOLEAN
  /\ requests \in [Command -> 0..MaxRequests]
  /\ up \in BOOLEAN
  /\ vel \in Command /\ age \in 0..Expired /\ stops \in 0..StopRepeats
  /\ pc \in {"idle", "stop", "publish"} /\ out \in Command /\ late \in 0..MaxLate
  /\ manual \in Seq([cmd: Command, age: 0..MaxDelay])
  /\ seen \in [Source -> Nat] /\ \A s \in Source : seen[s] <= Hold[s] + 1
  /\ reported \in Source \cup {"idle"}
  /\ base \in [by: Source \cup {"none"}, cmd: Command]
  /\ lost \in 0..MaxLosses
  /\ quiet \in 0..StopBound + 1 /\ zeros \in 0..StopRepeats + 1
  /\ crashed \in BOOLEAN /\ engaged \in BOOLEAN

Init ==
  /\ held = Still /\ gone = FALSE /\ requests = [c \in Command |-> 0]
  /\ up = TRUE
  /\ vel = Still /\ age = Expired /\ stops = 0
  /\ pc = "idle" /\ out = Still /\ late = 0
  /\ manual = <<>> /\ seen = [s \in Source |-> Hold[s] + 1] /\ reported = "idle"
  /\ base = [by |-> "none", cmd |-> Still] /\ lost = 0
  /\ quiet = StopBound + 1 /\ zeros = StopRepeats
  /\ crashed = FALSE /\ engaged = FALSE

-----------------------------------------------------------------------------
\* Browser and network

Send(c) ==
  /\ requests[c] < MaxRequests
  /\ requests' = [requests EXCEPT ![c] = @ + 1]

Others == UNCHANGED <<up, teleop, timer, mux>>

Press(c) ==
  /\ ~gone /\ held # c
  /\ held' = c /\ Send(c)
  /\ Others /\ UNCHANGED <<gone, history>>

\* refreshTeleop, every 150 ms while a key is held.
Refresh ==
  /\ ~gone /\ held # Still
  /\ Send(held)
  /\ Others /\ UNCHANGED <<held, gone, history>>

\* releaseAll: the last key is let go, space, or the window loses the focus.
Release ==
  /\ ~gone /\ held # Still
  /\ held' = Still /\ Send(Still)
  /\ Others /\ UNCHANGED <<gone, history>>

\* The tab is closed, the laptop sleeps, the network is gone: nothing is sent.
Vanish ==
  /\ ~gone
  /\ gone' = TRUE /\ held' = Still
  /\ Others /\ UNCHANGED <<requests, history>>

Take(c) ==
  /\ requests[c] > 0
  /\ requests' = [requests EXCEPT ![c] = @ - 1]

LoseRequest(c) ==
  /\ Take(c)
  /\ Others /\ UNCHANGED <<held, gone, history>>

-----------------------------------------------------------------------------
\* TeleopState

\* Mutant: letting go fills the queue of stop messages again.
StopsLeftRefilled == StopRepeats

\* stop leaves the pending stop messages to tick.
StopsLeft == stops

Stop == vel' = Still /\ age' = Expired /\ stops' = StopsLeft

\* Mutant: one stop message is queued.
UpdateOneStop(c) == vel' = c /\ age' = 0 /\ stops' = 1

Update(c) == vel' = c /\ age' = 0 /\ stops' = StopRepeats

\* drive and stop_driving: a request, in whatever order the threads take it.
HandleMove(c) ==
  /\ up /\ c # Still /\ Take(c)
  /\ Update(c)
  /\ quiet' = 0 /\ zeros' = 0 /\ crashed' = FALSE
  /\ UNCHANGED <<held, gone, up, timer, mux, engaged>>

HandleStop ==
  /\ up /\ Take(Still)
  /\ Stop
  /\ UNCHANGED <<held, gone, up, timer, mux, quiet, zeros, crashed, engaged>>

\* Mutant: a motion is a latch.
IsActiveLatched == vel # Still

IsActive == vel # Still /\ age <= Deadman

TickCheck ==
  /\ up /\ pc = "idle" /\ late > 0
  /\ late' = 0
  /\ IF IsActive
     THEN pc' = "publish" /\ out' = vel /\ UNCHANGED engaged
     ELSE pc' = "stop" /\ out' = Still /\ engaged' = FALSE
  /\ UNCHANGED <<browser, up, teleop, mux, quiet, zeros, crashed>>

\* Mutant: a stop message is sent however many are pending.
TickStopAlways ==
  /\ up /\ pc = "stop"
  /\ vel' = Still /\ age' = Expired
  /\ stops' = StopsLeft - 1 /\ pc' = "publish" /\ zeros' = Capped(zeros + 1, StopRepeats + 1)
  /\ UNCHANGED <<browser, up, out, late, mux, quiet, crashed, engaged>>

\* Expired or released.  A request handled since TickCheck is wiped.
TickStop ==
  /\ up /\ pc = "stop"
  /\ vel' = Still /\ age' = Expired
  /\ IF StopsLeft > 0
     THEN stops' = StopsLeft - 1 /\ pc' = "publish" /\ zeros' = Capped(zeros + 1, StopRepeats + 1)
     ELSE pc' = "idle" /\ stops' = StopsLeft /\ UNCHANGED zeros
  /\ UNCHANGED <<browser, up, out, late, mux, quiet, crashed, engaged>>

Publish ==
  /\ up /\ pc = "publish"
  /\ manual' = Append(manual, [cmd |-> out, age |-> 0])
  /\ pc' = "idle" /\ out' = Still
  /\ UNCHANGED <<browser, up, teleop, late, seen, reported, base, lost, history>>

\* The dashboard dies and is respawned with nothing remembered.
Crash ==
  /\ up
  /\ up' = FALSE
  /\ vel' = Still /\ age' = Expired /\ stops' = 0
  /\ pc' = "idle" /\ out' = Still /\ late' = 0
  /\ crashed' = TRUE /\ engaged' = FALSE
  /\ UNCHANGED <<browser, mux, quiet, zeros>>

Respawn == ~up /\ up' = TRUE /\ UNCHANGED <<browser, teleop, timer, mux, history>>

-----------------------------------------------------------------------------
\* cmd_vel_mux_node

\* Mutant: the last one to speak holds control.
HolderLatest(ages) ==
  LET fresh == {s \in Source : ages[s] <= Hold[s]}
  IN  IF fresh = {} THEN "idle"
      ELSE CHOOSE s \in fresh : \A t \in fresh : ages[s] <= ages[t]

\* active: the source of highest priority heard within its timeout.
Holder(ages) ==
  LET fresh == {s \in Source : ages[s] <= Hold[s]}
  IN  IF fresh = {} THEN "idle"
      ELSE CHOOSE s \in fresh : \A t \in fresh : Priority[t] <= Priority[s]

\* The base receives a forwarded command, or the link drops it.
Forward(s, c) ==
  \/ base' = [by |-> s, cmd |-> c] /\ lost' = 0
  \/ lost < MaxLosses /\ lost' = lost + 1 /\ UNCHANGED base

\* offer, publish if it holds control, report.
OnCommand(s, c) ==
  /\ seen' = [seen EXCEPT ![s] = 0]
  /\ IF Holder(seen') = s THEN Forward(s, c) ELSE UNCHANGED <<base, lost>>
  /\ reported' = Holder(seen')

OnManual ==
  /\ manual # <<>>
  /\ manual' = Tail(manual)
  /\ OnCommand("teleop", Head(manual).cmd)
  /\ engaged' = (engaged \/ (IsActive /\ pc # "stop" /\ Head(manual).cmd # Still))
  /\ UNCHANGED <<browser, up, teleop, timer, quiet, zeros, crashed>>

\* Nav2's velocity commands come when they come.
OnNav(c) ==
  /\ OnCommand("nav2", c)
  /\ UNCHANGED <<browser, up, teleop, timer, manual, history>>

\* _report_source, every 0.2 s.
ReportSource ==
  /\ reported' = Holder(seen)
  /\ UNCHANGED <<browser, up, teleop, timer, manual, seen, base, lost, history>>

-----------------------------------------------------------------------------
\* A period passes, unless the timer or a message on its way is due.
Elapse ==
  /\ up => late < MaxLate
  /\ \A i \in 1..Len(manual) : manual[i].age < MaxDelay
  /\ late' = Capped(late + 1, MaxLate)
  /\ age' = Capped(age + 1, Expired)
  /\ quiet' = Capped(quiet + 1, StopBound + 1)
  /\ manual' = [i \in 1..Len(manual) |-> [manual[i] EXCEPT !.age = @ + 1]]
  /\ seen' = [s \in Source |-> Capped(seen[s] + 1, Hold[s] + 1)]
  /\ UNCHANGED <<browser, up, vel, stops, pc, out, reported, base, lost,
                 zeros, crashed, engaged>>

Next ==
  \/ \E c \in Move : Press(c) \/ HandleMove(c)
  \/ Refresh \/ Release \/ Vanish \/ HandleStop
  \/ \E c \in Command : LoseRequest(c) \/ OnNav(c)
  \/ TickCheck \/ TickStop \/ Publish
  \/ Crash \/ Respawn
  \/ OnManual \/ ReportSource
  \/ Elapse

\* Time passes, timers fire, threads and subscriptions are served, and a
\* process that died is respawned.  Nothing is assumed of the person, the
\* network or Nav2.
Fairness ==
  /\ WF_vars(Elapse) /\ WF_vars(ReportSource) /\ WF_vars(OnManual)
  /\ WF_vars(TickCheck) /\ WF_vars(TickStop) /\ WF_vars(Publish)
  /\ WF_vars(HandleStop) /\ \A c \in Move : WF_vars(HandleMove(c))
  /\ WF_vars(Respawn)

Spec == Init /\ [][Next]_vars /\ Fairness

-----------------------------------------------------------------------------
\* Properties

\* The deadman: a manual motion is never executed for longer than StopBound
\* after the last request for it, whatever requests were lost, reordered or
\* wiped by a tick and although the link dropped stop messages, as long as the
\* dashboard process lives.
Runaway == base.by = "teleop" /\ base.cmd # Still /\ quiet > StopBound
NoRunaway == Runaway => crashed

\* "A command not refreshed within teleop_timeout_sec expires, and the node
\* publishes a stop" (ADR-023), whatever happened to the node meanwhile.
DeadmanAlways == ~Runaway

\* "It returns zeros only to end a driving session, and only STOP_REPEATS
\* times": an idle dashboard is silent, so it never takes control from Nav2.
SilentWhenIdle == zeros <= StopRepeats

\* From the first motion the mux hears, Nav2 has no say until the dashboard
\* finds the command expired or released: late timers and slow delivery never
\* open a gap that Nav2 gets control in.
ManualKeepsControl == engaged => Holder(seen) = "teleop"

\* Once nobody is there, manual control lapses for good and the reported
\* source says so: Nav2 gets the robot back.
ControlReturns == gone ~> [](Holder(seen) # "teleop" /\ reported # "teleop")
=============================================================================
