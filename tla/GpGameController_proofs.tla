----------------------- MODULE GpGameController_proofs -----------------------
(***************************************************************************)
(* Theorems about GpGameController, for any number of axes, any width,     *)
(* any dead zone that is not empty, and any length of SDL's queue.         *)
(*                                                                         *)
(* An event carries the position of one axis, a command those of all.  The *)
(* invariant says, axis by axis, that the thread has the stick's position  *)
(* already or that the last event queued for that axis carries it; and     *)
(* that handling the last event again, which the thread does whenever it   *)
(* finds the queue empty, changes nothing.                                 *)
(***************************************************************************)
EXTENDS GpGameController, TLAPS

Event == [axis : Axis, value : Deflection] \cup {Quit, Other}

Command == [channels : [Axis -> Channel], lost : BOOLEAN]

TypeOK ==
  /\ stick \in [Axis -> Deflection]
  /\ queue \in Seq(Event)
  /\ event \in Event
  /\ axisValue \in [Axis -> Deflection]
  /\ sent \in Command
  /\ seen \in [Axis -> Channel]

\* The thread has the position of the axis, and no event for it is waiting.
Settled(a) ==
  /\ axisValue[a] = NewValue(stick[a])
  /\ \A i \in DOMAIN queue : queue[i].axis # a

\* The last event waiting for the axis has its position.
Announced(a) ==
  \E i \in DOMAIN queue :
    /\ queue[i].axis = a /\ queue[i].value = stick[a]
    /\ \A j \in DOMAIN queue : j > i => queue[j].axis # a

\* The last event was handled.
EventHandled == event.axis \in Axis => axisValue[event.axis] = NewValue(event.value)

IInv ==
  /\ TypeOK
  /\ \A a \in Axis : Settled(a) \/ Announced(a)
  /\ EventHandled
  /\ \A a \in Axis : axisValue[a] = NewValue(axisValue[a])
  /\ sent.channels = [a \in Axis |-> axisValue[a] % (2 * Half)]
  /\ sent.lost \/ seen = sent.channels
-----------------------------------------------------------------------------
(* Numbers. *)

\* A deflection as an unsigned number, and back.
LEMMA Wraps ==
  ASSUME NEW v \in Deflection
  PROVE  /\ v % (2 * Half) \in Channel
         /\ v % (2 * Half) = IF v >= 0 THEN v ELSE v + 2 * Half
         /\ Decoded(v % (2 * Half)) = v
<1>. DEFINE m == 2 * Half
<1>1. m \in Nat \ {0} /\ Half \in Nat \ {0}
  BY WidthAssumption
<1>2. v \in Int /\ -Half <= v /\ v < Half
  BY WidthAssumption DEF Deflection
<1>3. v % m = IF v >= 0 THEN v ELSE v + m
  <2>1. CASE v >= 0
    BY <1>1, <1>2, <2>1
  <2>2. CASE v < 0
    BY <1>1, <1>2, <2>2
  <2>3. QED
    BY <1>2, <2>1, <2>2
<1>4. QED
  BY <1>1, <1>2, <1>3 DEF Channel, Decoded

\* The dead zone gives a deflection, keeps what it gave, and leaves no -1.
LEMMA NewValueFacts ==
  ASSUME NEW v \in Deflection
  PROVE  /\ NewValue(v) \in Deflection
         /\ NewValue(NewValue(v)) = NewValue(v)
         /\ NewValue(v) # -1
         /\ NewValue(v) = IF v > DeadZone \/ v < -DeadZone THEN v ELSE 0
  BY WidthAssumption DEF Deflection, NewValue, Abs

-----------------------------------------------------------------------------
(* Every step preserves the invariant. *)

\* An event for an axis: neither the end of the run nor another event.
LEMMA EventFacts ==
  /\ Quit \in Event /\ Other \in Event
  /\ Quit.axis \notin Axis /\ Other.axis \notin Axis
  /\ \A a \in Axis, v \in Deflection :
       Motion(a, v) \in Event /\ Motion(a, v).axis = a /\ Motion(a, v).value = v
  /\ \A e \in Event : e \notin {Quit, Other} => e.axis \in Axis /\ e.value \in Deflection
  BY AxisAssumption DEF Quit, Other, Event, Motion

\* An event that goes to the end of the queue is the last for its axis and
\* is none for the others.
LEMMA QueuedKeeps ==
  ASSUME TypeOK, NEW e \in Event, queue' = Append(queue, e), NEW a \in Axis,
         UNCHANGED axisValue, Settled(a) \/ Announced(a),
         IF e.axis = a THEN stick'[a] = e.value ELSE stick'[a] = stick[a]
  PROVE  Settled(a)' \/ Announced(a)'
<1>1. /\ queue \in Seq(Event) /\ Len(queue) \in Nat /\ DOMAIN queue = 1 .. Len(queue)
      /\ DOMAIN queue' = 1 .. Len(queue) + 1
      /\ queue'[Len(queue) + 1] = e
      /\ \A i \in 1 .. Len(queue) : queue'[i] = queue[i]
  BY DEF TypeOK
<1>2. CASE e.axis = a
  <2>1. /\ Len(queue) + 1 \in DOMAIN queue'
        /\ queue'[Len(queue) + 1].axis = a /\ queue'[Len(queue) + 1].value = stick'[a]
        /\ \A j \in DOMAIN queue' : ~(j > Len(queue) + 1)
    BY <1>1, <1>2
  <2>2. QED
    BY <2>1 DEF Announced
<1>3. CASE e.axis # a /\ Settled(a)
  BY <1>1, <1>3 DEF Settled
<1>4. CASE e.axis # a /\ Announced(a)
  <2>1. PICK i \in DOMAIN queue :
          /\ queue[i].axis = a /\ queue[i].value = stick[a]
          /\ \A j \in DOMAIN queue : j > i => queue[j].axis # a
    BY <1>4 DEF Announced
  <2>2. /\ i \in DOMAIN queue' /\ queue'[i].axis = a /\ queue'[i].value = stick'[a]
        /\ \A j \in DOMAIN queue' : j > i => queue'[j].axis # a
    BY <1>1, <1>4, <2>1
  <2>3. QED
    BY <2>2 DEF Announced
<1>5. QED
  BY <1>2, <1>3, <1>4

\* The user moves a stick, or SDL has another event.
LEMMA EventQueued ==
  ASSUME IInv, NEW e \in Event, queue' = Append(queue, e),
         UNCHANGED <<event, axisValue, thread, quit, sent, seen>>,
         \/ e.axis \notin Axis /\ stick' = stick
         \/ e.axis \in Axis /\ e.value \in Deflection /\ stick' = [stick EXCEPT ![e.axis] = e.value]
  PROVE  IInv'
<1>1. TypeOK'
  BY DEF IInv, TypeOK
<1>2. ASSUME NEW a \in Axis
      PROVE  IF e.axis = a THEN stick'[a] = e.value ELSE stick'[a] = stick[a]
  BY DEF IInv, TypeOK
<1>3. \A a \in Axis : Settled(a)' \/ Announced(a)'
  BY <1>2, QueuedKeeps DEF IInv
<1>4. QED
  BY <1>1, <1>3 DEF IInv, EventHandled

\* The event that Poll handles, and the values of the axes after it.
LEMMA Handled ==
  ASSUME IInv, Poll
  PROVE  /\ event' \in Event
         /\ \A a \in Axis : axisValue'[a] = IF event'.axis = a THEN NewValue(event'.value)
                                                                ELSE axisValue[a]
         /\ axisValue' \in [Axis -> Deflection]
         /\ sent' \in Command /\ seen' \in [Axis -> Channel]
         /\ sent'.channels = [a \in Axis |-> axisValue'[a] % (2 * Half)]
         /\ sent'.lost \/ seen' = sent'.channels
<1>. TypeOK
  BY DEF IInv
<1>1. event' \in Event
  <2>1. CASE queue = <<>>
    BY <2>1 DEF Poll, PollResult, TypeOK
  <2>2. CASE queue # <<>>
    BY <2>2 DEF Poll, PollResult, TypeOK
  <2>3. QED
    BY <2>1, <2>2
<1>2. CASE event' \in {Quit, Other}
  <2>1. UNCHANGED <<axisValue, sent, seen>>
    BY <1>2 DEF Poll
  <2>2. event'.axis \notin Axis
    BY <1>2, EventFacts
  <2>3. QED
    BY <1>1, <2>1, <2>2 DEF IInv, TypeOK
<1>3. CASE event' \notin {Quit, Other}
  <2>. DEFINE axes == [axisValue EXCEPT ![event'.axis] = NewValue(event'.value)]
  <2>1. HandleMotion(event')
    BY <1>3 DEF Poll
  <2>2. event'.axis \in Axis /\ event'.value \in Deflection
    BY <1>1, <1>3, EventFacts
  <2>3. /\ axes \in [Axis -> Deflection]
        /\ \A a \in Axis : axes[a] = IF event'.axis = a THEN NewValue(event'.value) ELSE axisValue[a]
    BY <2>2, NewValueFacts DEF TypeOK
  <2>4. axisValue' = axes
    BY <2>1 DEF HandleMotion
  <2>5. CASE axes = axisValue
    <3>1. UNCHANGED <<sent, seen>>
      BY <2>1, <2>5 DEF HandleMotion
    <3>2. QED
      BY <1>1, <2>3, <2>4, <2>5, <3>1 DEF IInv, TypeOK
  <2>6. CASE axes # axisValue
    <3>. DEFINE channels == [a \in Axis |-> axes[a] % (2 * Half)]
    <3>1. PICK lost \in BOOLEAN :
            /\ sent' = [channels |-> Encoded(axes, event'.axis), lost |-> lost]
            /\ seen' = IF lost THEN seen ELSE Encoded(axes, event'.axis)
      BY <2>1, <2>6 DEF HandleMotion
    <3>2. Encoded(axes, event'.axis) = channels
      BY DEF Encoded
    <3>3. channels \in [Axis -> Channel]
      BY <2>3, Wraps
    <3>. HIDE DEF axes, channels
    <3>4. sent' \in Command /\ seen' \in [Axis -> Channel] /\ sent'.channels = channels
          /\ (sent'.lost \/ seen' = sent'.channels)
      BY <3>1, <3>2, <3>3 DEF Command, TypeOK
    <3>5. channels = [a \in Axis |-> axisValue'[a] % (2 * Half)]
      BY <2>4 DEF channels
    <3>6. QED
      BY <1>1, <2>3, <2>4, <3>4, <3>5
  <2>7. QED
    BY <2>5, <2>6
<1>4. QED
  BY <1>2, <1>3

\* The thread polls.
LEMMA PollPreserves ==
  ASSUME IInv, Poll
  PROVE  IInv'
<1>. TypeOK
  BY DEF IInv
<1>1. TypeOK'
  <2>1. queue' \in Seq(Event)
    <3>1. CASE queue = <<>>
      BY <3>1 DEF Poll, PollResult, TypeOK
    <3>2. CASE queue # <<>>
      BY <3>2 DEF Poll, PollResult, TypeOK
    <3>3. QED
      BY <3>1, <3>2
  <2>2. QED
    BY <2>1, Handled DEF Poll, TypeOK
<1>2. EventHandled'
  BY Handled DEF EventHandled
<1>3. \A a \in Axis : axisValue'[a] = NewValue(axisValue'[a])
  <2>1. ASSUME NEW a \in Axis, event'.axis = a  PROVE axisValue'[a] = NewValue(axisValue'[a])
    <3>1. event'.value \in Deflection
      BY <2>1, Handled, EventFacts
    <3>2. QED
      BY <2>1, <3>1, Handled, NewValueFacts
  <2>2. ASSUME NEW a \in Axis, event'.axis # a  PROVE axisValue'[a] = NewValue(axisValue'[a])
    BY <2>2, Handled DEF IInv
  <2>3. QED
    BY <2>1, <2>2
<1>4. ASSUME NEW a \in Axis, queue = <<>>  PROVE Settled(a)' \/ Announced(a)'
  <2>1. UNCHANGED <<event, queue, stick>>
    BY <1>4 DEF Poll, PollResult
  <2>2. Settled(a)
    BY <1>4 DEF IInv, Announced
  <2>3. axisValue'[a] = axisValue[a]
    BY <2>1, Handled DEF IInv, EventHandled
  <2>4. QED
    BY <2>1, <2>2, <2>3 DEF Settled
<1>5. ASSUME NEW a \in Axis, queue # <<>>  PROVE Settled(a)' \/ Announced(a)'
  <2>1. event' = queue[1] /\ queue' = Tail(queue) /\ stick' = stick
    BY <1>5 DEF Poll, PollResult, TypeOK
  <2>2. /\ Len(queue) \in Nat \ {0} /\ DOMAIN queue = 1 .. Len(queue)
        /\ DOMAIN queue' = 1 .. Len(queue) - 1
        /\ \A i \in 1 .. Len(queue) - 1 : queue'[i] = queue[i + 1]
    BY <1>5, <2>1 DEF TypeOK
  <2>3. CASE Settled(a)
    <3>1. queue[1].axis # a
      BY <2>2, <2>3 DEF Settled
    <3>2. axisValue'[a] = axisValue[a]
      BY <2>1, <3>1, Handled
    <3>3. QED
      BY <2>1, <2>2, <2>3, <3>2 DEF Settled
  <2>4. CASE Announced(a)
    <3>1. PICK i \in DOMAIN queue :
            /\ queue[i].axis = a /\ queue[i].value = stick[a]
            /\ \A j \in DOMAIN queue : j > i => queue[j].axis # a
      BY <2>4 DEF Announced
    <3>2. CASE i = 1
      <4>1. axisValue'[a] = NewValue(stick'[a])
        BY <2>1, <3>1, <3>2, Handled
      <4>2. QED
        BY <2>2, <3>1, <3>2, <4>1 DEF Settled
    <3>3. CASE i # 1
      <4>1. /\ i - 1 \in DOMAIN queue'
            /\ queue'[i - 1].axis = a /\ queue'[i - 1].value = stick'[a]
        BY <2>1, <2>2, <3>1, <3>3
      <4>2. ASSUME NEW j \in DOMAIN queue', j > i - 1  PROVE queue'[j].axis # a
        <5>1. j + 1 \in DOMAIN queue /\ j + 1 > i /\ queue'[j] = queue[j + 1]
          BY <2>2, <3>1, <4>2
        <5>2. QED
          BY <3>1, <5>1
      <4>3. QED
        BY <4>1, <4>2 DEF Announced
    <3>4. QED
      BY <3>2, <3>3
  <2>5. QED
    BY <2>3, <2>4 DEF IInv
<1>6. QED
  BY <1>1, <1>2, <1>3, <1>4, <1>5, Handled DEF IInv

\* The invariant holds throughout.
THEOREM Invariance == Spec => []IInv
<1>1. Init => IInv
  <2>1. 0 \in Deflection /\ NewValue(0) = 0 /\ 0 % (2 * Half) = 0 /\ 0 \in Channel
    BY WidthAssumption, Wraps DEF Deflection, NewValue, Abs, Channel
  <2>. SUFFICES ASSUME Init  PROVE IInv
    OBVIOUS
  <2>2. /\ NoCommand.channels = [a \in Axis |-> 0] /\ NoCommand.lost = FALSE
        /\ NoCommand.channels \in [Axis -> Channel] /\ NoCommand \in Command
    BY <2>1 DEF NoCommand, Command
  <2>3. TypeOK
    BY <2>1, <2>2, EventFacts DEF Init, TypeOK
  <2>4. ASSUME NEW a \in Axis  PROVE Settled(a)
    <3>1. axisValue[a] = 0 /\ stick[a] = 0 /\ queue = <<>>
      BY DEF Init
    <3>2. DOMAIN queue = {}
      BY <3>1
    <3>3. QED
      BY <2>1, <3>1, <3>2 DEF Settled
  <2>5. EventHandled
    BY EventFacts DEF Init, EventHandled
  <2>6. sent.channels = [a \in Axis |-> axisValue[a] % (2 * Half)]
    BY <2>1, <2>2 DEF Init
  <2>7. \A a \in Axis : axisValue[a] = NewValue(axisValue[a])
    BY <2>1 DEF Init
  <2>8. seen = sent.channels
    BY DEF Init
  <2>9. QED
    BY <2>3, <2>4, <2>5, <2>6, <2>7, <2>8 DEF IInv
<1>2. IInv /\ [Next]_vars => IInv'
  <2>. SUFFICES ASSUME IInv, [Next]_vars  PROVE IInv'
    OBVIOUS
  <2>1. ASSUME NEW a \in Axis, NEW v \in Deflection, MoveStick(a, v)  PROVE IInv'
    BY <2>1, EventFacts, EventQueued DEF MoveStick
  <2>2. ASSUME NEW e \in {Quit, Other}, QueueEvent(e)  PROVE IInv'
    BY <2>2, EventFacts, EventQueued DEF QueueEvent
  <2>3. CASE Start \/ UNCHANGED vars
    BY <2>3 DEF Start, vars, IInv, TypeOK, Settled, Announced, EventHandled
  <2>4. CASE Poll
    BY <2>4, PollPreserves
  <2>5. QED
    BY <2>1, <2>2, <2>3, <2>4 DEF Next
<1>3. QED
  BY <1>1, <1>2, PTL DEF Spec

\* No channel of a command tells the asset to ignore it.
THEOREM ChannelsNeverIgnored == Spec => []NoAxisIgnored
<1>1. IInv => NoAxisIgnored
  <2>1. SUFFICES ASSUME IInv, NEW a \in Axis  PROVE sent.channels[a] # Ignored
    BY DEF NoAxisIgnored
  <2>2. axisValue[a] \in Deflection /\ axisValue[a] # -1
    <3>1. axisValue[a] \in Deflection /\ axisValue[a] = NewValue(axisValue[a])
      BY <2>1 DEF IInv, TypeOK
    <3>2. NewValue(axisValue[a]) # -1
      BY <3>1, NewValueFacts
    <3>3. QED
      BY <3>1, <3>2
  <2>3. sent.channels[a] = IF axisValue[a] >= 0 THEN axisValue[a] ELSE axisValue[a] + 2 * Half
    <3>1. sent.channels[a] = axisValue[a] % (2 * Half)
      BY <2>1 DEF IInv
    <3>2. QED
      BY <2>2, <3>1, Wraps
  <2>4. QED
    BY <2>2, <2>3, WidthAssumption DEF Ignored, Deflection
<1>2. QED
  BY <1>1, Invariance, PTL

\* When the thread has caught up and its last command arrived, the asset has
\* the position of every axis.
THEOREM AssetHasSticks == Spec => []AssetSeesSticks
<1>1. IInv => AssetSeesSticks
  <2>1. SUFFICES ASSUME IInv, queue = <<>>, ~sent.lost, NEW a \in Axis
                 PROVE  Decoded(seen[a]) = IF stick[a] > DeadZone \/ stick[a] < -DeadZone
                                           THEN stick[a] ELSE 0
    BY DEF AssetSeesSticks
  <2>2. axisValue[a] = NewValue(stick[a]) /\ stick[a] \in Deflection /\ axisValue[a] \in Deflection
    BY <2>1 DEF IInv, TypeOK, Settled, Announced
  <2>3. seen[a] = axisValue[a] % (2 * Half)
    BY <2>1 DEF IInv
  <2>4. QED
    BY <2>2, <2>3, Wraps, NewValueFacts
<1>2. QED
  BY <1>1, Invariance, PTL
=============================================================================
