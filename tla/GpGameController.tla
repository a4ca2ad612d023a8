-------------------------- MODULE GpGameController --------------------------
(***************************************************************************)
(* The ground controller's joystick thread (GpGameController.cpp) and the  *)
(* MAVLink command it builds (GpMavlink.cpp): it polls SDL for events,     *)
(* flattens small deflections to 0, and sends all four axes as unsigned    *)
(* 16-bit channels whenever one of them changed.  Other axes than the four *)
(* and other events do nothing.                                            *)
(***************************************************************************)
EXTENDS Integers, Sequences

CONSTANTS
  Axis,          \* the axes of the stick (four in the code)
  Half,          \* half the values of an axis or a channel (2^15 in the code)
  DeadZone,      \* CONTROLLER_DEAD_ZONE
  None,
  MaxQueue,      \* bound on the events SDL holds
  Lossy          \* may a command be lost? (no connection, a failed send)

ASSUME AxisAssumption == None \notin Axis
ASSUME WidthAssumption == Half \in Nat \ {0} /\ DeadZone \in Nat \ {0} /\ DeadZone < Half
ASSUME QueueAssumption == MaxQueue \in Nat /\ Lossy \in BOOLEAN

\* What SDL reports for an axis (Sint16), and what a channel holds (uint16_t).
Deflection == -Half .. Half - 1
Channel == 0 .. 2 * Half - 1

\* common.xml of MAVLink: this channel value leaves the channel as it is.
Ignored == 2 * Half - 1

VARIABLES
  stick,     \* where the user holds each axis
  queue,     \* the events SDL has for the thread
  event,     \* the thread's SDL_Event
  axisValue, \* the thread's axisValue
  thread,    \* is the thread starting or polling, or has it ended?
  quit,      \* its quit flag
  sent,      \* the channels of the last command built, and whether it was sent
  seen       \* the channels of the last command that was sent

vars == <<stick, queue, event, axisValue, thread, quit, sent, seen>>

Motion(a, v) == [axis |-> a, value |-> v]
Quit == [axis |-> None, value |-> 0]   \* SDL_QUIT
Other == [axis |-> None, value |-> 1]  \* an axis beyond the four, a button, a device

NoCommand == [channels |-> [a \in Axis |-> 0], lost |-> FALSE]

Init ==
  /\ stick = [a \in Axis |-> 0]
  /\ queue = <<>>
  /\ event = Other
  /\ axisValue = [a \in Axis |-> 0]
  /\ thread = "starting"
  /\ quit = FALSE
  /\ sent = NoCommand
  /\ seen = NoCommand.channels

-----------------------------------------------------------------------------
(* The user and SDL. *)

MoveStick(a, v) ==
  /\ thread = "polling"
  /\ Len(queue) < MaxQueue
  /\ stick[a] # v
  /\ stick' = [stick EXCEPT ![a] = v]
  /\ queue' = Append(queue, Motion(a, v))
  /\ UNCHANGED <<event, axisValue, thread, quit, sent, seen>>

QueueEvent(e) ==
  /\ thread = "polling"
  /\ Len(queue) < MaxQueue
  /\ queue' = Append(queue, e)
  /\ UNCHANGED <<stick, event, axisValue, thread, quit, sent, seen>>

-----------------------------------------------------------------------------
(* The thread. *)

\* initSDL opens the first game controller; without one the thread ends.  SDL
\* reports the device, so the first poll already fills event.
Start ==
  /\ thread = "starting"
  /\ thread' \in {"polling", "ended"}
  /\ UNCHANGED <<stick, queue, event, axisValue, quit, sent, seen>>

\* Mutant: no dead zone.
NewValueRaw(v) == v

Abs(v) == IF v < 0 THEN -v ELSE v

\* newVal
NewValue(v) == IF Abs(v) > DeadZone THEN v ELSE 0

\* Mutant: only the axis that moved is filled in.
EncodedAlone(axes, moved) == [a \in Axis |-> IF a = moved THEN axes[a] % (2 * Half) ELSE 0]

\* encodeControllerEventAsMavlink: an int goes into a uint16_t.
Encoded(axes, moved) == [a \in Axis |-> axes[a] % (2 * Half)]

\* SDL_JOYAXISMOTION: a command goes out only when the value differs from
\* the last; the value is kept whatever becomes of the command.
HandleMotion(e) ==
  LET axes == [axisValue EXCEPT ![e.axis] = NewValue(e.value)]
      channels == Encoded(axes, e.axis)
  IN /\ axisValue' = axes
     /\ IF axes = axisValue THEN UNCHANGED <<sent, seen>>
        ELSE \E lost \in IF Lossy THEN BOOLEAN ELSE {FALSE} :
               /\ sent' = [channels |-> channels, lost |-> lost]
               /\ seen' = IF lost THEN seen ELSE channels
     /\ UNCHANGED quit

\* SDL_PollEvent leaves the event alone and returns 0 when there is none.
PollResult == IF queue = <<>> THEN 0 ELSE 1

\* One turn of the inner loop, whose condition is that the result is not
\* negative; the outer loop looks at quit when the inner one is through.
\* When there is no event the last one is handled again.
Poll ==
  /\ thread = "polling"
  /\ event' = IF PollResult = 0 THEN event ELSE Head(queue)
  /\ queue' = IF PollResult = 0 THEN queue ELSE Tail(queue)
  /\ CASE event' = Other -> UNCHANGED <<axisValue, quit, sent, seen>>
       [] event' = Quit  -> quit' = TRUE /\ UNCHANGED <<axisValue, sent, seen>>
       [] OTHER          -> HandleMotion(event')
  /\ thread' = IF PollResult >= 0 \/ ~quit' THEN "polling" ELSE "ended"
  /\ UNCHANGED stick

Next ==
  \/ \E a \in Axis, v \in Deflection : MoveStick(a, v)
  \/ \E e \in {Quit, Other} : QueueEvent(e)
  \/ Start
  \/ Poll

Spec == Init /\ [][Next]_vars

-----------------------------------------------------------------------------
\* GpMavlink.cpp:158: a channel of UINT16_MAX tells the asset to ignore it.
\* No deflection is mistaken for that: the only one that wraps to it, -1, is
\* in the dead zone.
NoAxisIgnored == \A a \in Axis : sent.channels[a] # Ignored

\* The deflection an asset reads from a channel.
Decoded(c) == IF c >= Half THEN c - 2 * Half ELSE c

\* Once the thread has caught up, what the asset was last told is where the
\* sticks are, on every axis and not only on the one that moved last, unless
\* the last command was lost: events carry one axis, commands all of them,
\* and one that arrives makes up for those that did not.
AssetSeesSticks ==
  queue = <<>> /\ ~sent.lost =>
    \A a \in Axis :
      LET v == stick[a] IN Decoded(seen[a]) = IF v > DeadZone \/ v < -DeadZone THEN v ELSE 0
=============================================================================
