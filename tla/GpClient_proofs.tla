--------------------------- MODULE GpClient_proofs ---------------------------
(***************************************************************************)
(* A theorem about GpClient, for any number of sockets and rounds and for  *)
(* both clients and both builds: a client gives up a connection only when  *)
(* it is broken or a heartbeat met EAGAIN.                                 *)
(*                                                                         *)
(* The property speaks of the steps that overwrite _fd.  One of them, a    *)
(* new socket, does not look at the old connection at all: it relies on    *)
(* the main thread being there only after the connection broke or the      *)
(* heartbeat was skipped, which is Abandoned below.                        *)
(***************************************************************************)
EXTENDS GpClient, TLAPS

SockState == {"free", "unconnected", "open", "gone", "reset"}

\* The main thread asks for a socket only without a working one, or after a
\* heartbeat that met EAGAIN.
Abandoned == main = "socket" /\ fd # None => sock[fd] # "open" \/ skipped

IInv ==
  /\ sock \in [Socket -> SockState]
  /\ fd \in Socket \cup {None}
  /\ main \in {"connect", "listen", "login", "ping", "heartbeat"} => fd # None
  /\ Abandoned

\* A send on an open connection succeeds or meets EAGAIN.
LEMMA OpenSends ==
  ASSUME fd # None, sock[fd] = "open"
  PROVE  Outcomes \subseteq {"sent", "eagain"}
  BY DEF Outcomes

\* The first round starts without a socket.
LEMMA InitIInv == Init => IInv
  BY DEF Init, IInv, SockState, Abandoned

\* The steps of the main thread up to its heartbeats.
LEMMA MainPreserves ==
  ASSUME IInv, MainStep
  PROVE  IInv'
<1>. USE NoneAssumption DEF IInv, Abandoned, SockState
<1>1. CASE NewSocket
  BY <1>1 DEF NewSocket, Free
<1>2. CASE ConnectSucceeds
  BY <1>2 DEF ConnectSucceeds
<1>3. CASE ConnectFails
  BY <1>3 DEF ConnectFails
<1>4. CASE StartListener
  BY <1>4 DEF StartListener
<1>5. CASE Login
  BY <1>5 DEF Login, Kill
<1>6. CASE StartPing
  BY <1>6 DEF StartPing
<1>7. QED
  BY <1>1, <1>2, <1>3, <1>4, <1>5, <1>6 DEF MainStep

\* A heartbeat that fails leaves a broken connection behind, or was skipped.
LEMMA HeartbeatPreserves ==
  ASSUME IInv, NEW r \in Results, Heartbeat(r)
  PROVE  IInv' /\ (fd # None => sock[fd] # "open" \/ skipped')
<1>1. fd # None => sock[fd] # "open" \/ skipped'
  BY OpenSends DEF Heartbeat
<1>2. IInv'
  BY <1>1 DEF IInv, Abandoned, Heartbeat, Kill
<1>3. QED
  BY <1>1, <1>2

\* The server, the network and the other threads open no connection and
\* leave _fd alone.
LEMMA OthersPreserve ==
  ASSUME IInv, NEW s \in Socket, NEW r \in Results,
         \/ ServerStarts \/ ServerStops \/ ResetArrives(s)
         \/ Recv(s) \/ RecvReturns(s) \/ RecvEnds(s) \/ PingFails(s, r)
  PROVE  IInv' /\ fd' = fd
<1>. USE DEF IInv, Abandoned, SockState
<1>1. CASE ServerStarts
  BY <1>1 DEF ServerStarts
<1>2. CASE ServerStops
  BY <1>2 DEF ServerStops
<1>3. CASE ResetArrives(s)
  BY <1>3 DEF ResetArrives
<1>4. CASE Recv(s)
  BY <1>4 DEF Recv
<1>5. CASE RecvReturns(s)
  BY <1>5 DEF RecvReturns, Kill
<1>6. CASE RecvEnds(s)
  BY <1>6 DEF RecvEnds
<1>7. CASE PingFails(s, r)
  BY <1>7 DEF PingFails, Kill
<1>8. QED
  BY <1>1, <1>2, <1>3, <1>4, <1>5, <1>6, <1>7

\* Every step preserves IInv, and overwrites _fd only once its connection is
\* broken or given up after EAGAIN.
LEMMA NextIInv ==
  ASSUME IInv, [Next]_vars
  PROVE  IInv' /\ (fd' # fd /\ fd # None => sock[fd] # "open" \/ skipped')
<1>1. CASE ServerStarts \/ ServerStops
  <2>1. CASE Socket = {}
    BY <1>1, <2>1 DEF ServerStarts, ServerStops, IInv, Abandoned, SockState, Free
  <2>2. CASE Socket # {}
    BY <1>1, <2>2, OthersPreserve DEF Results
  <2>3. QED
    BY <2>1, <2>2
<1>2. CASE MainStep
  <2>1. IInv'
    BY <1>2, MainPreserves
  <2>2. CASE NewSocket
    BY <2>1, <2>2 DEF NewSocket, IInv, Abandoned
  <2>3. CASE ~NewSocket
    BY <1>2, <2>1, <2>3
      DEF MainStep, ConnectSucceeds, ConnectFails, StartListener, Login, StartPing
  <2>4. QED
    BY <2>2, <2>3
<1>3. CASE \E r \in Results : Heartbeat(r)
  BY <1>3, HeartbeatPreserves
<1>4. CASE \E s \in Socket : ResetArrives(s) \/ Recv(s) \/ RecvReturns(s) \/ RecvEnds(s)
  BY <1>4, OthersPreserve DEF Results
<1>5. CASE \E s \in Socket, r \in Results : PingFails(s, r)
  BY <1>5, OthersPreserve
<1>6. CASE UNCHANGED vars
  BY <1>6 DEF vars, IInv, Abandoned, SockState
<1>7. QED
  BY <1>1, <1>2, <1>3, <1>4, <1>5, <1>6 DEF Next

\* A client overwrites _fd only when its connection is broken or its last
\* heartbeat met EAGAIN (GpClientNet::connectToServer and the loops of
\* GpAsset::connectServer and GpGroundController::start).
THEOREM LeavesBrokenOnly == Spec => LeavesBrokenConnectionsOnly
<1>1. IInv /\ [Next]_vars => IInv' /\ [fd' # fd /\ fd # None => sock[fd] # "open" \/ skipped']_vars
  BY NextIInv
<1>2. QED
  BY InitIInv, <1>1, PTL DEF Spec, LeavesBrokenConnectionsOnly
==============================================================================
