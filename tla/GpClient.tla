------------------------------ MODULE GpClient ------------------------------
(***************************************************************************)
(* A client process, the asset (GpAsset.cpp) or the ground controller      *)
(* (GpGroundController.cpp), over GpClientNet.cpp: the main thread that    *)
(* connects, logs in and sends heartbeats until a send fails, and then     *)
(* starts over; and the detached threads each round leaves behind, a       *)
(* listener and (controller) a pinger, that read the shared _fd anew at    *)
(* every call.                                                             *)
(*                                                                         *)
(* The asset builds a new GpClientNet each round, on the stack slot of the *)
(* old one, so its old threads see the new object's _fd too.  No thread    *)
(* closes a socket that was ever connected.                                *)
(*                                                                         *)
(* A send that succeeds, other than the login, changes nothing here and is *)
(* left to stuttering.                                                     *)
(***************************************************************************)
EXTENDS Naturals

CONSTANTS
  Socket,      \* the sockets the process may have at a time (bounds its rounds)
  None,        \* _fd = 0
  SigPipe,     \* is a write to a broken connection a SIGPIPE? (Linux build: yes)
  Clogs        \* may a send meet EAGAIN?

ASSUME NoneAssumption == None \notin Socket
ASSUME FlagAssumption == {SigPipe, Clogs} \subseteq BOOLEAN

VARIABLES
  isAsset,   \* is the process a GpAsset, or else a GpGroundController?
  serverUp,  \* is a server listening at the address?
  sock,      \* the state of each socket
  fd,        \* GpClientNet::_fd
  main,      \* where the main thread is
  listener,  \* the listener of each round, named by that round's socket
  pinger,    \* the pinger of each round
  loggedIn,  \* the sockets on which a login was written
  skipped    \* history: did the last round end because a heartbeat met EAGAIN?

vars == <<isAsset, serverUp, sock, fd, main, listener, pinger, loggedIn, skipped>>

Idle == [at |-> "none", on |-> None]

Init ==
  /\ isAsset \in BOOLEAN
  /\ serverUp \in BOOLEAN
  /\ sock = [s \in Socket |-> "free"]
  /\ fd = None
  /\ main = "socket"
  /\ listener = [s \in Socket |-> Idle]
  /\ pinger = [s \in Socket |-> "none"]
  /\ loggedIn = {}
  /\ skipped = FALSE

Alive == main # "killed"
Free == {s \in Socket : sock[s] = "free"}

-----------------------------------------------------------------------------
(* The server and the network. *)

ServerStarts ==
  /\ ~serverUp
  /\ serverUp' = TRUE
  /\ UNCHANGED <<isAsset, sock, fd, main, listener, pinger, loggedIn, skipped>>

\* The server's process ends.  Bound: only while a socket is free for the
\* next round.
ServerStops ==
  /\ serverUp
  /\ Free # {}
  /\ serverUp' = FALSE
  /\ sock' = [s \in Socket |-> IF sock[s] = "open" THEN "gone" ELSE sock[s]]
  /\ UNCHANGED <<isAsset, fd, main, listener, pinger, loggedIn, skipped>>

\* The server's host refuses what it was sent on a socket of a gone server.
ResetArrives(s) ==
  /\ sock[s] = "gone"
  /\ sock' = [sock EXCEPT ![s] = "reset"]
  /\ UNCHANGED <<isAsset, serverUp, fd, main, listener, pinger, loggedIn, skipped>>

-----------------------------------------------------------------------------
(* GpClientNet::_sendMessage.  Bound: EAGAIN only while a socket is free.  *)

Outcomes ==
  IF fd = None THEN {"failed"}
  ELSE CASE sock[fd] = "open" -> {"sent"} \cup (IF Clogs /\ Free # {} THEN {"eagain"} ELSE {})
         [] sock[fd] = "gone" -> {"sent", "failed"}
         [] sock[fd] = "reset" -> IF SigPipe THEN {"sigpipe"} ELSE {"failed"}
         [] sock[fd] = "unconnected" -> {"failed"} \cup (IF SigPipe THEN {"sigpipe"} ELSE {})
         [] OTHER -> {"failed"}

Kill == main' = "killed"

-----------------------------------------------------------------------------
(* The main thread. *)

\* connectToServer: _fd is overwritten before the socket is connected.
NewSocket ==
  /\ main = "socket"
  /\ \E s \in Free :
       /\ fd' = s
       /\ sock' = [sock EXCEPT ![s] = "unconnected"]
  /\ main' = "connect"
  /\ UNCHANGED <<isAsset, serverUp, listener, pinger, loggedIn, skipped>>

ConnectSucceeds ==
  /\ main = "connect"
  /\ serverUp
  /\ sock' = [sock EXCEPT ![fd] = "open"]
  /\ main' = "listen"
  /\ UNCHANGED <<isAsset, serverUp, fd, listener, pinger, loggedIn, skipped>>

\* close(_fd), five seconds, and again; _fd keeps the closed number.
ConnectFails ==
  /\ main = "connect"
  /\ ~serverUp
  /\ sock' = [sock EXCEPT ![fd] = "free"]
  /\ main' = "socket"
  /\ UNCHANGED <<isAsset, serverUp, fd, listener, pinger, loggedIn, skipped>>

\* Mutant: only the first round starts a listener.
StartListenerOnce ==
  /\ main = "listen"
  /\ listener' = IF \A s \in Socket : listener[s] = Idle
                 THEN [listener EXCEPT ![fd] = [at |-> "ready", on |-> None]]
                 ELSE listener
  /\ main' = "login"
  /\ UNCHANGED <<isAsset, serverUp, sock, fd, pinger, loggedIn, skipped>>

StartListener ==
  /\ main = "listen"
  /\ listener' = [listener EXCEPT ![fd] = [at |-> "ready", on |-> None]]
  /\ main' = "login"
  /\ UNCHANGED <<isAsset, serverUp, sock, fd, pinger, loggedIn, skipped>>

\* sendAuthenticationRequest does not look at the result of its send.  A
\* fresh connection has room for the login.
Login ==
  /\ main = "login"
  /\ \E r \in Outcomes \ {"eagain"} :
       IF r = "sigpipe" THEN Kill /\ UNCHANGED loggedIn
       ELSE /\ main' = IF isAsset THEN "heartbeat" ELSE "ping"
            /\ loggedIn' = IF r = "sent" THEN loggedIn \cup {fd} ELSE loggedIn
  /\ UNCHANGED <<isAsset, serverUp, sock, fd, listener, pinger, skipped>>

StartPing ==
  /\ main = "ping"
  /\ pinger' = [pinger EXCEPT ![fd] = "running"]
  /\ main' = "heartbeat"
  /\ UNCHANGED <<isAsset, serverUp, sock, fd, listener, loggedIn, skipped>>

\* Mutant: the heartbeat is sent once a round.
HeartbeatOnce(r) ==
  /\ main = "heartbeat"
  /\ r \in Outcomes
  /\ IF r = "sigpipe" THEN Kill /\ UNCHANGED fd
     ELSE main' = "socket" /\ fd' = IF isAsset THEN None ELSE fd
  /\ skipped' = (r = "eagain")
  /\ UNCHANGED <<isAsset, serverUp, sock, listener, pinger, loggedIn>>

\* sendHeartbeat returns when a send did, EAGAIN included, and the next
\* round begins (the asset's with a new GpClientNet).
Heartbeat(r) ==
  /\ main = "heartbeat"
  /\ r \in Outcomes \ {"sent"}
  /\ IF r = "sigpipe" THEN Kill /\ UNCHANGED fd
     ELSE main' = "socket" /\ fd' = IF isAsset THEN None ELSE fd
  /\ skipped' = (r = "eagain")
  /\ UNCHANGED <<isAsset, serverUp, sock, listener, pinger, loggedIn>>

-----------------------------------------------------------------------------
(* The threads of this and of earlier rounds. *)

Readable(s) == s # None /\ sock[s] = "open"

\* recv is called with the _fd of now.
Recv(s) ==
  /\ Alive
  /\ listener[s].at = "ready"
  /\ listener' = [listener EXCEPT ![s] = [at |-> "recv", on |-> fd]]
  /\ UNCHANGED <<isAsset, serverUp, sock, fd, main, pinger, loggedIn, skipped>>

\* A message is handled; a PING is answered, whatever comes of the answer.
RecvReturns(s) ==
  /\ Alive
  /\ listener[s].at = "recv" /\ Readable(listener[s].on)
  /\ listener' = [listener EXCEPT ![s] = [at |-> "ready", on |-> None]]
  /\ UNCHANGED main \/ ("sigpipe" \in Outcomes /\ Kill)
  /\ UNCHANGED <<isAsset, serverUp, sock, fd, pinger, loggedIn, skipped>>

\* recv returns 0 or -1.
RecvEnds(s) ==
  /\ Alive
  /\ listener[s].at = "recv" /\ ~Readable(listener[s].on)
  /\ listener' = [listener EXCEPT ![s] = [at |-> "done", on |-> None]]
  /\ UNCHANGED <<isAsset, serverUp, sock, fd, main, pinger, loggedIn, skipped>>

PingFails(s, r) ==
  /\ Alive
  /\ pinger[s] = "running"
  /\ r \in Outcomes \ {"sent"}
  /\ pinger' = [pinger EXCEPT ![s] = "done"]
  /\ IF r = "sigpipe" THEN Kill ELSE UNCHANGED main
  /\ UNCHANGED <<isAsset, serverUp, sock, fd, listener, loggedIn, skipped>>

-----------------------------------------------------------------------------
MainStep ==
  NewSocket \/ ConnectSucceeds \/ ConnectFails \/ StartListener \/ Login \/ StartPing

Results == {"sent", "failed", "eagain", "sigpipe"}

Next ==
  \/ ServerStarts \/ ServerStops
  \/ MainStep
  \/ \E r \in Results : Heartbeat(r)
  \/ \E s \in Socket : ResetArrives(s) \/ Recv(s) \/ RecvReturns(s) \/ RecvEnds(s)
  \/ \E s \in Socket, r \in Results : PingFails(s, r)

Spec == Init /\ [][Next]_vars

\* Threads are scheduled, a broken connection is noticed, and nothing makes
\* the network clog.
Fairness ==
  /\ WF_vars(MainStep)
  /\ WF_vars(Heartbeat("failed")) /\ WF_vars(Heartbeat("sigpipe"))
  /\ \A s \in Socket : WF_vars(ResetArrives(s)) /\ WF_vars(Recv(s)) /\ WF_vars(RecvEnds(s))

FairSpec == Spec /\ Fairness

-----------------------------------------------------------------------------
\* A session: logged in on a connection of a live server, with heartbeats
\* going out and a listener that reads that very connection.
InService ==
  /\ main = "heartbeat"
  /\ fd # None /\ sock[fd] = "open" /\ fd \in loggedIn
  /\ \E s \in Socket : listener[s].at = "ready" \/ listener[s] = [at |-> "recv", on |-> fd]

\* However often the server went away, and whatever threads earlier rounds
\* left behind, once it stays the client ends up in a session and stays in it.
ReturnsToService == <>[]serverUp => <>[]InService

\* A client gives up a connection only when it is broken, or when the heartbeat
\* that ended the round met EAGAIN; whichever threads of earlier rounds fail
\* in the meantime, and on whatever descriptor.
LeavesBrokenConnectionsOnly ==
  [][fd' # fd /\ fd # None => sock[fd] # "open" \/ skipped']_vars
=============================================================================
