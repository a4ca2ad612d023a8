----------------------------- MODULE GpPairing -----------------------------
(***************************************************************************)
(* How GpUavServer pairs a ground controller with an asset (a UAV) and     *)
(* relays their messages: GpUavServer.cpp (client_listener_thread,         *)
(* handle_message, _send_message), GpUser.cpp and GpDatabase.cpp.          *)
(*                                                                         *)
(* The server runs one listener thread per accepted socket.  Each thread   *)
(* owns one heap-allocated user object; the database holds one COPY of the *)
(* asset's object (there is one asset id, GP_ASSET_ID_TEST_ONLY), every    *)
(* controller holds another copy (GpControllerUser::_asset), and asset     *)
(* objects hold a raw pointer to the controller's (_connected_owner).      *)
(* Nothing keeps these in step except the handlers below.                  *)
(*                                                                         *)
(* Granularity: a step of a thread is one access to what other threads can *)
(* access too: one critical section of assets_mutex, one unlocked read or  *)
(* write of a field of a controller's object, which threads of assets      *)
(* reach through _connected_owner.  What only one thread can access        *)
(* meanwhile (its asset object, and under _send_mutex what others access   *)
(* only under it) is done in the same step.                                *)
(*                                                                         *)
(* The server never closes a client's socket, so a descriptor is never     *)
(* reused and names its connection: a connection IS its descriptor here.   *)
(***************************************************************************)

CONSTANTS
  AssetConn,         \* connections on which an asset client logs in
  ControllerConn,    \* connections on which a ground controller logs in
  Addr,              \* heap addresses a GpControllerUser may occupy
  None,              \* nullptr, no descriptor, no record, no message
  AssetsOverlap,     \* may an asset's client connect before the server has
                     \* finished with an earlier one?
  ControllersOverlap \* the same for a controller's

Conn == AssetConn \cup ControllerConn

ASSUME ConnAssumption == AssetConn \cap ControllerConn = {}
ASSUME NoneAssumption == None \notin Conn \cup Addr
ASSUME FlagAssumption == AssetsOverlap \in BOOLEAN /\ ControllersOverlap \in BOOLEAN

VARIABLES
  conn,         \* the TCP connection behind each descriptor
  pc,           \* where the listener thread of each connection is
  task,         \* what the thread is in a request, a send or a logout for
  asset,        \* the GpAssetUser of each asset's thread
  ctrl,         \* the GpControllerUser of each controller's thread
  cell,         \* the connection whose GpControllerUser was last built at an address
  assets,       \* GpDatabase::assets: the record of the one asset id, or None
  wire,         \* the message the last step wrote to a socket, or None
  sendsLogout,  \* do the clients send GP_MSG_TYPE_LOGOUT?  (Those of the
                \* repository do not, but the server handles it.)
  raced         \* history: has the thread of an asset logged a controller out
                \* while that one's own thread was using its object, or had deleted it?

users == <<asset, ctrl, cell, assets, sendsLogout>>
state == <<conn, pc, task, asset, ctrl, cell, assets, wire, sendsLogout>>
vars == <<conn, pc, task, asset, ctrl, cell, assets, wire, sendsLogout, raced>>

-----------------------------------------------------------------------------
(* State. *)

ConnState == {"none", "open", "gone", "reset"}

AssetUser == [fd : AssetConn \cup {None}, isAuthenticated : BOOLEAN, isOnline : BOOLEAN,
              isConnected : BOOLEAN, owner : Addr \cup {None}]

ASSUME RecordAssumption == None \notin AssetUser

ControllerUser == [at : Addr \cup {None}, isAuthenticated : BOOLEAN, isOnline : BOOLEAN,
                   isConnected : BOOLEAN, asset : AssetUser]

\* GpDatabase::logoutUser of a controller, line by line.
LogoutPC == {"logout", "unlink", "disown", "put_unpaired", "unpair", "unauthenticate", "offline"}

AssetPC == {"new", "recv", "confirm", "send", "write", "check", "refresh", "done", "crashed"} \cup LogoutPC

ControllerPC == {"new", "recv", "authenticate", "online", "get", "own", "link", "pair", "put",
                 "authenticated", "confirm", "paired", "forward", "done", "crashed"} \cup LogoutPC

\* A controller's thread writes to its object, or has deleted it.
WritingPC == {"authenticate", "online", "get", "own", "link", "pair", "put", "done"} \cup LogoutPC

AssetTask == {"HEARTBEAT", "PONG"}

ControllerTask == {"login", "again", "COMMAND", "PING", "confirm", "message", "end"}

Message == [kind : {"CONFIRM", "COMMAND", "PING", "PONG", "HEARTBEAT"}, from : Conn, to : Conn]

NewAssetUser == [fd |-> None, isAuthenticated |-> FALSE, isOnline |-> FALSE,
                 isConnected |-> FALSE, owner |-> None]

NewControllerUser == [at |-> None, isAuthenticated |-> FALSE, isOnline |-> FALSE,
                      isConnected |-> FALSE, asset |-> NewAssetUser]

Init ==
  /\ conn = [c \in Conn |-> "none"]
  /\ pc = [c \in Conn |-> "new"]
  /\ task = [c \in Conn |-> None]
  /\ asset = [a \in AssetConn |-> NewAssetUser]
  /\ ctrl = [c \in ControllerConn |-> NewControllerUser]
  /\ cell = [p \in Addr |-> None]
  /\ assets = None
  /\ wire = None
  /\ sendsLogout \in BOOLEAN
  /\ raced = FALSE

\* A user object exists at p: its thread has built it and not yet deleted it.
Live(p) == \E c \in ControllerConn : ctrl[c].at = p /\ pc[c] # "done"

Goto(t, label) == pc' = [pc EXCEPT ![t] = label] /\ UNCHANGED task

Call(t, label, purpose) ==
  /\ pc' = [pc EXCEPT ![t] = label]
  /\ task' = [task EXCEPT ![t] = purpose]

Return(t, label) == Call(t, label, None)

\* The controller that the thread logs out, or sends to.
Target(t) == IF t \in AssetConn THEN cell[asset[t].owner] ELSE t

\* A step that writes to nothing that other threads can access.
OnlyReads == wire' = None /\ UNCHANGED <<conn, users>>

\* The thread's step from one label to the next is a single write to a field
\* of a controller's object, which thereby becomes new.
Writes(t, from, to, new) ==
  /\ pc[t] = from
  /\ ctrl' = [ctrl EXCEPT ![Target(t)] = new]
  /\ Goto(t, to)
  /\ wire' = None
  /\ UNCHANGED <<conn, asset, cell, assets, sendsLogout>>

\* A null pointer is followed: the process of the server is killed.
Crash ==
  /\ pc' = [t \in Conn |-> IF pc[t] = "done" THEN "done" ELSE "crashed"]
  /\ task' = [t \in Conn |-> None]

\* The thread that is inside _send_message, other than for a single step.
Sending(t) ==
  pc[t] \in {"write", "check"} \/ (pc[t] \in LogoutPC /\ task[t] \in AssetTask \cup {"confirm"})

\* _send_mutex can be taken.
SendMutexFree == \A t \in Conn : ~Sending(t)

-----------------------------------------------------------------------------
(* GpDatabase::logoutUser of an asset.  Asset objects belong to one        *)
(* thread, so that all but the write through _connected_owner is its own.  *)

\* Mutant: the owner pointer survives.
LoggedOutAssetKeepsOwner(u) ==
  [u EXCEPT !.isConnected = FALSE, !.isAuthenticated = FALSE, !.isOnline = FALSE]

LoggedOutAsset(u) ==
  [u EXCEPT !.isConnected = FALSE, !.isAuthenticated = FALSE, !.isOnline = FALSE,
            !.owner = IF u.isConnected THEN None ELSE @]

\* Mutant: the owner is not told.
OwnerNotTold(u) == ctrl

\* The controllers after an asset object u clears its owner's flag through
\* _connected_owner, whatever now lives at that address.
Disowned(u) ==
  IF u.isConnected THEN [ctrl EXCEPT ![cell[u.owner]].isConnected = FALSE] ELSE ctrl

\* u is marked as paired, with nobody.
NullOwner(u) == u.isConnected /\ u.owner = None

\* An asset logs out: its own object changes, the database does not.
LogoutAsset(a) ==
  /\ ~NullOwner(asset[a])
  /\ asset' = [asset EXCEPT ![a] = LoggedOutAsset(@)]
  /\ ctrl' = Disowned(asset[a])
  /\ UNCHANGED assets

\* A controller's COPY of the asset logs out (the send to it met EPIPE).
LogoutCopy(c) ==
  /\ ~NullOwner(ctrl[c].asset)
  /\ ctrl' = [Disowned(ctrl[c].asset) EXCEPT ![c].asset = LoggedOutAsset(@)]
  /\ UNCHANGED <<asset, assets>>

\* GpDatabase::insertUpdateAsset.  A copy that no request ever filled is not
\* inserted under the asset's id, but under -1.
Inserted(u) == IF u.fd = None THEN assets ELSE u

-----------------------------------------------------------------------------
(* GpUavServer::_send_message. *)

\* What send may come to.  A peer that is gone still absorbs a write, or the
\* write meets a pending error, until the peer's reset has arrived: from then
\* on the result is EPIPE.
SendResults(fd) ==
  CASE conn[fd] = "reset" -> {"epipe"}
    [] conn[fd] = "gone"  -> {"sent", "failed"}
    [] OTHER              -> {"sent"}

\* The same for a user with this flag.
UserSendResults(isOnline, fd) == IF isOnline THEN SendResults(fd) ELSE {"failed"}

Written(result, kind, from, to) ==
  IF result = "sent" THEN [kind |-> kind, from |-> from, to |-> to] ELSE None

-----------------------------------------------------------------------------
(* The network and the clients' processes. *)

\* The server is done with the clients of that kind that connected before.
EarlierOver(kind) == \A d \in kind : pc[d] \in {"new", "done"}

\* startNetwork accepts a connection and starts its listener thread.
Connect(c) ==
  /\ pc[c] = "new"
  /\ IF c \in AssetConn THEN AssetsOverlap \/ EarlierOver(AssetConn)
     ELSE ControllersOverlap \/ EarlierOver(ControllerConn)
  /\ conn' = [conn EXCEPT ![c] = "open"]
  /\ Goto(c, "recv")
  /\ wire' = None
  /\ UNCHANGED users

\* The client's process ends or closes its socket.
DropConnection(c) ==
  /\ conn[c] = "open"
  /\ conn' = [conn EXCEPT ![c] = "gone"]
  /\ wire' = None
  /\ UNCHANGED <<pc, task, users>>

\* The host of a client that is gone refuses what it is sent.
ResetConnection(c) ==
  /\ conn[c] = "gone"
  /\ conn' = [conn EXCEPT ![c] = "reset"]
  /\ wire' = None
  /\ UNCHANGED <<pc, task, users>>

-----------------------------------------------------------------------------
(* GpDatabase::logoutUser of a controller: by its own thread, or by that   *)
(* of an asset whose message to it met EPIPE.  Nothing keeps the two       *)
(* apart, nor the first of them from deleting the object.                  *)

\* Where the thread goes on when the logout is over.
AfterLogout(t) ==
  CASE task[t] = "HEARTBEAT" -> "refresh"
    [] task[t] = "end"       -> "done"
    [] OTHER                 -> "recv"

\* Mutant: the copy is written back whether or not it is paired.
LogoutUnguarded(t) ==
  /\ pc[t] = "logout"
  /\ Goto(t, "unlink")
  /\ OnlyReads

\* The user.asset is valid only if the controller is paired.
Logout(t) ==
  /\ pc[t] = "logout"
  /\ Goto(t, IF ctrl[Target(t)].isConnected THEN "unlink" ELSE "unpair")
  /\ OnlyReads

\* Mutant: the flag of the copy survives its controller's logout.
UnlinkNothing(t) ==
  /\ pc[t] = "unlink"
  /\ Goto(t, "disown")
  /\ OnlyReads

Unlink(t) ==
  Writes(t, "unlink", "disown", [ctrl[Target(t)] EXCEPT !.asset.isConnected = FALSE])

Disown(t) == Writes(t, "disown", "put_unpaired", [ctrl[Target(t)] EXCEPT !.asset.owner = None])

\* Mutant: the database is not told.
UnpairedNotWritten(t) ==
  /\ pc[t] = "put_unpaired"
  /\ Goto(t, "unpair")
  /\ OnlyReads

\* The copy, as the controller last saw it, overwrites the database's record.
PutUnpaired(t) ==
  /\ pc[t] = "put_unpaired"
  /\ assets' = Inserted(ctrl[Target(t)].asset)
  /\ Goto(t, "unpair")
  /\ wire' = None
  /\ UNCHANGED <<conn, asset, ctrl, cell, sendsLogout>>

Unpair(t) == Writes(t, "unpair", "unauthenticate", [ctrl[Target(t)] EXCEPT !.isConnected = FALSE])

Unauthenticate(t) ==
  Writes(t, "unauthenticate", "offline", [ctrl[Target(t)] EXCEPT !.isAuthenticated = FALSE])

\* The last line; a thread that ends then deletes its object.
Offline(t) ==
  /\ pc[t] = "offline"
  /\ ctrl' = [ctrl EXCEPT ![Target(t)].isOnline = FALSE]
  /\ Return(t, AfterLogout(t))
  /\ wire' = None
  /\ UNCHANGED <<conn, asset, cell, assets, sendsLogout>>

LogoutStep(t) ==
  \/ Logout(t) \/ Unlink(t) \/ Disown(t) \/ PutUnpaired(t)
  \/ Unpair(t) \/ Unauthenticate(t) \/ Offline(t)

-----------------------------------------------------------------------------
(* Asset threads.  A message may still be read after its client is gone:   *)
(* it was received before.                                                 *)

\* Mutant: user->_fd = fd is forgotten.
BuiltAssetWithoutSocket(a) == asset[a]

\* client_listener_thread builds the user on the first login message.
BuiltAsset(a) == IF asset[a].fd = None THEN [asset[a] EXCEPT !.fd = a] ELSE asset[a]

\* ASSET_LOGIN: GpUser::authenticate overwrites the database's record.
LoginAsset(a) ==
  LET u == [BuiltAsset(a) EXCEPT !.isAuthenticated = TRUE, !.isOnline = TRUE] IN
  /\ pc[a] = "recv"
  /\ ~asset[a].isAuthenticated
  /\ asset' = [asset EXCEPT ![a] = u]
  /\ assets' = u
  /\ Goto(a, "confirm")
  /\ wire' = None
  /\ UNCHANGED <<conn, ctrl, cell, sendsLogout>>

\* Mutant: the confirmation goes to the socket the database has.
ConfirmAssetInDatabase(a) ==
  /\ pc[a] = "confirm"
  /\ SendMutexFree
  /\ \E r \in UserSendResults(assets.isOnline, assets.fd) :
       /\ wire' = Written(r, "CONFIRM", a, assets.fd)
       /\ IF r = "epipe" THEN LogoutAsset(a) ELSE UNCHANGED <<asset, ctrl, assets>>
  /\ Goto(a, "recv")
  /\ UNCHANGED <<conn, cell, sendsLogout>>

ConfirmAsset(a) ==
  /\ pc[a] = "confirm"
  /\ SendMutexFree
  /\ \E r \in UserSendResults(asset[a].isOnline, asset[a].fd) :
       /\ wire' = Written(r, "CONFIRM", a, asset[a].fd)
       /\ IF r = "epipe" THEN LogoutAsset(a) ELSE UNCHANGED <<asset, ctrl, assets>>
  /\ Goto(a, "recv")
  /\ UNCHANGED <<conn, cell, sendsLogout>>

\* GpAssetUser::refresh: the whole record replaces the thread's object.
Refreshed(a) == IF assets = None THEN asset[a] ELSE assets

\* HEARTBEAT: poll the database while unpaired, forward once paired.
Heartbeat(a) ==
  LET polls == ~asset[a].isConnected \/ asset[a].owner = None
      u == IF polls THEN Refreshed(a) ELSE asset[a] IN
  /\ pc[a] = "recv"
  /\ asset[a].isAuthenticated
  /\ asset' = [asset EXCEPT ![a] = u]
  /\ IF NullOwner(u) THEN Crash
     ELSE IF u.isConnected THEN Call(a, "send", "HEARTBEAT") ELSE Goto(a, "recv")
  /\ wire' = None
  /\ UNCHANGED <<conn, ctrl, cell, assets, sendsLogout>>

\* PONG from the asset: both ends must believe in the pairing.
Pong(a) ==
  /\ pc[a] = "recv"
  /\ asset[a].isAuthenticated
  /\ asset[a].isConnected
  /\ \/ NullOwner(asset[a]) /\ Crash
     \/ /\ asset[a].owner # None
        /\ ctrl[Target(a)].isConnected
        /\ Call(a, "send", "PONG")
  /\ OnlyReads

\* _send_message(msg, *asset._connected_owner) returns false: a heartbeat's
\* handler refreshes its asset.
SendFailed(a) == Return(a, AfterLogout(a))

\* It locks _send_mutex, and the controller must be online.
BeginSend(a) ==
  /\ pc[a] = "send"
  /\ SendMutexFree
  /\ IF ctrl[Target(a)].isOnline THEN Goto(a, "write") ELSE SendFailed(a)
  /\ OnlyReads

\* send itself.
Write(a) ==
  /\ pc[a] = "write"
  /\ \E r \in SendResults(Target(a)) :
       /\ wire' = Written(r, task[a], a, Target(a))
       /\ CASE r = "sent"   -> Return(a, "recv")
            [] r = "failed" -> SendFailed(a)
            [] r = "epipe"  -> Goto(a, "check")
  /\ UNCHANGED <<conn, users>>

\* EPIPE: the controller is logged out, if it is still online.
CheckOnline(a) ==
  /\ pc[a] = "check"
  /\ IF ctrl[Target(a)].isOnline THEN Goto(a, "logout") ELSE SendFailed(a)
  /\ OnlyReads

\* Mutant: the asset does not update itself.
RefreshAssetSkipped(a) ==
  /\ pc[a] = "refresh"
  /\ Goto(a, "recv")
  /\ OnlyReads

\* A heartbeat could not be forwarded: refresh once more.
RefreshAsset(a) ==
  /\ pc[a] = "refresh"
  /\ asset' = [asset EXCEPT ![a] = Refreshed(a)]
  /\ Goto(a, "recv")
  /\ wire' = None
  /\ UNCHANGED <<conn, ctrl, cell, assets, sendsLogout>>

LogoutMessageFromAsset(a) ==
  /\ sendsLogout
  /\ pc[a] = "recv"
  /\ asset[a].isAuthenticated
  /\ \/ LogoutAsset(a) /\ UNCHANGED <<pc, task>>
     \/ NullOwner(asset[a]) /\ Crash /\ UNCHANGED <<asset, ctrl, assets>>
  /\ wire' = None
  /\ UNCHANGED <<conn, cell, sendsLogout>>

\* recv returns 0 or -1: log the user out and delete it.
DisconnectAsset(a) ==
  /\ pc[a] = "recv"
  /\ conn[a] \in {"gone", "reset"}
  /\ \/ LogoutAsset(a) /\ Goto(a, "done")
     \/ NullOwner(asset[a]) /\ Crash /\ UNCHANGED <<asset, ctrl, assets>>
  /\ wire' = None
  /\ UNCHANGED <<conn, cell, sendsLogout>>

-----------------------------------------------------------------------------
(* Controller threads. *)

\* CONTROLLER_LOGIN: build the user on the first one.
LoginController(c) ==
  /\ pc[c] = "recv"
  /\ ~ctrl[c].isAuthenticated
  /\ IF ctrl[c].at # None THEN UNCHANGED <<ctrl, cell>>
     ELSE \E p \in Addr :
            /\ ~Live(p)
            /\ ctrl' = [ctrl EXCEPT ![c].at = p]
            /\ cell' = [cell EXCEPT ![p] = c]
  /\ Call(c, "authenticate", "login")
  /\ wire' = None
  /\ UNCHANGED <<conn, asset, assets, sendsLogout>>

\* GpUser::authenticate sets the two flags, and requests the asset.
Authenticate(c) ==
  Writes(c, "authenticate", "online", [ctrl[c] EXCEPT !.isAuthenticated = TRUE])

ComeOnline(c) == Writes(c, "online", "get", [ctrl[c] EXCEPT !.isOnline = TRUE])

\* Mutant: the login is confirmed whether or not the asset was granted.
RequestOverAnyway(c, granted) ==
  CASE task[c] = "login"   -> Goto(c, "authenticated")
    [] task[c] = "again"   -> Return(c, "confirm")
    [] task[c] = "COMMAND" -> Goto(c, "paired")

\* GpDatabase::authenticateUserForAsset, line by line.  What the thread does
\* when it is over depends on what it was called for.
RequestOver(c, granted) ==
  CASE task[c] = "login"   -> Goto(c, "authenticated")
    [] task[c] = "again"   -> Return(c, IF granted THEN "confirm" ELSE "recv")
    [] task[c] = "COMMAND" -> Goto(c, "paired")

\* getAsset copies the record over u._asset; it must exist and be online.
GetAsset(c) ==
  /\ pc[c] = "get"
  /\ IF assets = None THEN UNCHANGED ctrl
     ELSE ctrl' = [ctrl EXCEPT ![c].asset = assets]
  /\ IF assets # None /\ assets.isOnline THEN Goto(c, "own") ELSE RequestOver(c, FALSE)
  /\ wire' = None
  /\ UNCHANGED <<conn, asset, cell, assets, sendsLogout>>

SetOwner(c) == Writes(c, "own", "link", [ctrl[c] EXCEPT !.asset.owner = ctrl[c].at])

Link(c) ==
  Writes(c, "link", "pair", [ctrl[c] EXCEPT !.asset.isConnected = TRUE])

\* Mutant: only the copy of the asset is marked as paired.
PairCopyOnly(c) ==
  /\ pc[c] = "pair"
  /\ Goto(c, "put")
  /\ OnlyReads

Pair(c) == Writes(c, "pair", "put", [ctrl[c] EXCEPT !.isConnected = TRUE])

PutAsset(c) ==
  /\ pc[c] = "put"
  /\ assets' = Inserted(ctrl[c].asset)
  /\ RequestOver(c, TRUE)
  /\ wire' = None
  /\ UNCHANGED <<conn, asset, ctrl, cell, sendsLogout>>

\* The login handler requests the asset a second time, unless another thread
\* has logged the controller out meanwhile, and confirms the login only if
\* this request succeeds.
RequestAgain(c) ==
  /\ pc[c] = "authenticated"
  /\ IF ctrl[c].isAuthenticated THEN Call(c, "get", "again") ELSE Return(c, "recv")
  /\ OnlyReads

\* The confirmation goes to the controller's own socket.  EPIPE logs it out.
ConfirmController(c) ==
  /\ pc[c] = "confirm"
  /\ SendMutexFree
  /\ \E r \in UserSendResults(ctrl[c].isOnline, c) :
       /\ wire' = Written(r, "CONFIRM", c, c)
       /\ IF r = "epipe" THEN Call(c, "logout", "confirm") ELSE Goto(c, "recv")
  /\ UNCHANGED <<conn, users>>

\* Mutant: a command of an unpaired controller is dropped.
CommandWithoutRequest(c) ==
  /\ pc[c] = "recv"
  /\ ctrl[c].isAuthenticated
  /\ ctrl[c].isConnected
  /\ Call(c, "forward", "COMMAND")
  /\ OnlyReads

\* COMMAND: forward it to the paired asset, or request the asset again.
Command(c) ==
  /\ pc[c] = "recv"
  /\ ctrl[c].isAuthenticated
  /\ Call(c, IF ctrl[c].isConnected THEN "forward" ELSE "get", "COMMAND")
  /\ OnlyReads

\* The flag is read again once the request is over.
CommandAfterRequest(c) ==
  /\ pc[c] = "paired"
  /\ IF ctrl[c].isConnected THEN Goto(c, "forward") ELSE Return(c, "recv")
  /\ OnlyReads

\* PING from the controller: both objects must say they are paired.
Ping(c) ==
  /\ pc[c] = "recv"
  /\ ctrl[c].isAuthenticated
  /\ ctrl[c].isConnected
  /\ ctrl[c].asset.isConnected
  /\ Call(c, "forward", "PING")
  /\ OnlyReads

\* _send_message(msg, controller._asset): the copy is logged out on EPIPE.
ForwardToCopy(c) ==
  LET u == ctrl[c].asset IN
  /\ pc[c] = "forward"
  /\ SendMutexFree
  /\ \E r \in UserSendResults(u.isOnline, u.fd) :
       /\ wire' = Written(r, task[c], c, u.fd)
       /\ \/ r = "epipe" /\ LogoutCopy(c) /\ Return(c, "recv")
          \/ r = "epipe" /\ NullOwner(u) /\ Crash /\ UNCHANGED <<asset, ctrl, assets>>
          \/ r # "epipe" /\ Return(c, "recv") /\ UNCHANGED <<asset, ctrl, assets>>
  /\ UNCHANGED <<conn, cell, sendsLogout>>

LogoutMessageFromController(c) ==
  /\ sendsLogout
  /\ pc[c] = "recv"
  /\ ctrl[c].isAuthenticated
  /\ Call(c, "logout", "message")
  /\ OnlyReads

\* recv returns 0 or -1.
DisconnectController(c) ==
  /\ pc[c] = "recv"
  /\ conn[c] \in {"gone", "reset"}
  /\ IF ctrl[c].at = None THEN Goto(c, "done") ELSE Call(c, "logout", "end")
  /\ OnlyReads

-----------------------------------------------------------------------------
Network(c) == Connect(c) \/ DropConnection(c) \/ ResetConnection(c)

\* What the asset's thread does without waiting for its client.
AssetStep(a) ==
  ConfirmAsset(a) \/ BeginSend(a) \/ Write(a) \/ CheckOnline(a) \/ RefreshAsset(a)

AssetMessage(a) ==
  LoginAsset(a) \/ Heartbeat(a) \/ Pong(a) \/ LogoutMessageFromAsset(a)

ControllerStep(c) ==
  \/ Authenticate(c) \/ ComeOnline(c)
  \/ GetAsset(c) \/ SetOwner(c) \/ Link(c) \/ Pair(c) \/ PutAsset(c)
  \/ RequestAgain(c) \/ ConfirmController(c) \/ CommandAfterRequest(c) \/ ForwardToCopy(c)

ControllerMessage(c) ==
  LoginController(c) \/ Command(c) \/ Ping(c) \/ LogoutMessageFromController(c)

\* An asset's thread is logging a controller out whose own thread is not
\* waiting in recv: it uses the object, or it has deleted it.
Racing ==
  \E a \in AssetConn : pc[a] \in {"check"} \cup LogoutPC /\ pc[Target(a)] \in WritingPC

Step ==
  \/ \E c \in Conn : Network(c) \/ LogoutStep(c)
  \/ \E a \in AssetConn : AssetStep(a) \/ AssetMessage(a) \/ DisconnectAsset(a)
  \/ \E c \in ControllerConn : ControllerStep(c) \/ ControllerMessage(c) \/ DisconnectController(c)

Next == Step /\ raced' = (raced \/ Racing')

Spec == Init /\ [][Next]_vars

\* Clients that keep sending, threads that are scheduled, and a network that
\* reports a dead peer.  Messages are read in the order sent, so no kind of
\* message keeps another waiting, and neither does the end of the stream
\* behind what a gone client left in the receive buffer (hence SF).  So are
\* sends: _send_mutex is passed on (SF).
Fairness ==
  /\ \A c \in Conn : WF_state(ResetConnection(c)) /\ WF_state(LogoutStep(c))
  /\ \A a \in AssetConn :
       SF_state(AssetStep(a)) /\ SF_state(Heartbeat(a)) /\ SF_state(DisconnectAsset(a))
  /\ \A c \in ControllerConn :
       SF_state(ControllerStep(c)) /\ SF_state(Command(c)) /\ SF_state(DisconnectController(c))

FairSpec == Spec /\ Fairness

-----------------------------------------------------------------------------
(* Properties that hold. *)

\* Every flag, pointer, descriptor and program counter keeps its range.  In
\* particular the descriptor in the database's record is always that of a
\* connection on which an asset logged in: GpUser::authenticate inserts the
\* user only after client_listener_thread has given it its socket.
TypeOK ==
  /\ conn \in [Conn -> ConnState]
  /\ pc \in [Conn -> AssetPC \cup ControllerPC]
  /\ task \in [Conn -> AssetTask \cup ControllerTask \cup {None}]
  /\ asset \in [AssetConn -> AssetUser]
  /\ ctrl \in [ControllerConn -> ControllerUser]
  /\ cell \in [Addr -> ControllerConn \cup {None}]
  /\ assets \in {u \in AssetUser : u.fd # None} \cup {None}
  /\ wire \in Message \cup {None}
  /\ sendsLogout \in BOOLEAN

\* No asset object, no controller's copy of one and no database record is
\* marked as paired without an owner: the handlers that follow
\* _connected_owner because _isConnectedToPartner is set (PONG, HEARTBEAT,
\* the logout of an asset) meet no null pointer, however logins, logouts and
\* refreshes of several threads interleave.  Only a race of a controller's
\* thread with an asset's that logs it out can bring one about.
LinkedHasOwner ==
  ~raced =>
    /\ \A a \in AssetConn : asset[a].isConnected => asset[a].owner # None
    /\ \A c \in ControllerConn : ctrl[c].asset.isConnected => ctrl[c].asset.owner # None
    /\ assets # None /\ assets.isConnected => assets.owner # None

\* An asset's thread is logging c out.
LoggedOutByAsset(c) == \E a \in AssetConn : pc[a] \in LogoutPC /\ Target(a) = c

\* The handlers of COMMAND and PING test c's flags.
TestsFlags(c) == pc[c] \in {"recv", "paired", "forward"} /\ ~LoggedOutByAsset(c)

\* A controller that counts as paired when a handler tests it holds a copy of
\* the asset that _send_message accepts, marked as paired with that very
\* controller: the two flags the PING handler tests agree, and a COMMAND of a
\* paired controller is not dropped because the copy is offline.  Other
\* threads log controllers out and clear their flags in between; while one
\* is at it, or after a race with one, the flags may disagree.
PairedCopyUsable ==
  ~raced =>
    \A c \in ControllerConn :
      ctrl[c].isConnected /\ TestsFlags(c) =>
        /\ ctrl[c].asset.isOnline
        /\ ctrl[c].asset.isConnected
        /\ ctrl[c].asset.owner = ctrl[c].at

\* The asset has had no other session.
OnlySession(a) == \A b \in AssetConn \ {a} : pc[b] = "new"

\* Controllers write whole records back to the database, some of them after
\* their copy was logged out by a failed send.  None of these writes takes an
\* asset that once logged in offline.  In the asset's first session not even
\* a race does; in a later one it may.
DatabaseStaysOnline ==
  assets # None /\ (raced => \E a \in AssetConn : OnlySession(a))
    => assets.isOnline /\ assets.isAuthenticated

\* Whoever writes the database's record, the write never brings in a
\* reference to a controller object that is already deleted, unless threads
\* raced.
DatabaseGainsLiveOwners ==
  [][~raced' /\ assets' # assets /\ assets'.owner # None => Live(assets'.owner)]_vars

\* A login is confirmed on the socket it came from, although a thread's user
\* object is overwritten with the database's record at every refresh.  Holds
\* without LOGOUT messages: a user that logs in again after one may do so with
\* the descriptor of another session.
ConfirmedOnOwnSocket ==
  ~sendsLogout /\ wire # None /\ wire.kind = "CONFIRM" => wire.to = wire.from

\* What CONTROLLER_LOGIN's confirmation stands for: a controller that is told
\* it is logged in holds a usable copy of the asset, reserved for it, although
\* other threads may have logged either of them out since the request.
ConfirmedOnlyWhenGranted ==
  wire # None /\ wire.kind = "CONFIRM" /\ wire.from \in ControllerConn =>
    LET u == ctrl[wire.from].asset
    IN u.isOnline /\ u.isConnected /\ u.owner = ctrl[wire.from].at

\* The two ends agree: while both clients are connected, an asset that
\* believes in a pairing with a controller is believed by it when its
\* handlers test the flag.  Holds in the asset's first session, without
\* LOGOUT messages; the late end of an earlier session breaks it, and so may
\* a race between the threads of the two.
PairingAgreed ==
  ~raced =>
    \A a \in AssetConn : \A c \in ControllerConn :
      /\ ~sendsLogout /\ OnlySession(a)
      /\ conn[a] = "open" /\ asset[a].isConnected
      /\ conn[c] = "open" /\ asset[a].owner = ctrl[c].at /\ TestsFlags(c)
      => ctrl[c].isConnected

\* GpDatabase.cpp:119: "If controller is logging out, remove reference to it
\* in a still logged-in asset."  The record of an asset that is connected and
\* logged in refers to no deleted controller.  Holds in the asset's first
\* session, without LOGOUT messages, unless threads raced, and not otherwise.
NoReferenceToLoggedOutController ==
  ~raced =>
    \A a \in AssetConn :
      /\ ~sendsLogout /\ OnlySession(a)
      /\ assets # None /\ assets.fd = a /\ assets.owner # None
      /\ asset[a].isOnline /\ conn[a] = "open"
      => Live(assets.owner)

\* A session that lasts: logged in, with the client connected.
AssetUp(a) == conn[a] = "open" /\ asset[a].isAuthenticated
ControllerUp(c) == conn[c] = "open" /\ ctrl[c].isAuthenticated

\* GpUavServer.cpp:466: the asset keeps polling for a controller and then
\* forwards its heartbeats to it.  Two sessions that last find each other,
\* whatever sessions came before.  Holds when a client's next session starts
\* after the server is done with the one before, and not otherwise.
PollingFindsController ==
  \A a \in AssetConn : \A c \in ControllerConn :
    []~raced /\ <>[](AssetUp(a) /\ ControllerUp(c))
      => []<>(wire # None /\ wire.kind = "HEARTBEAT" /\ wire.from = a /\ wire.to = c)

\* GpUavServer.cpp:404: a controller's commands re-request the asset until
\* it is hooked up, and then reach it.  Holds for an asset with one session,
\* and not for one that reconnects.
CommandsReachAsset ==
  \A a \in AssetConn : \A c \in ControllerConn :
    []~raced /\ <>[](AssetUp(a) /\ ControllerUp(c))
      => []<>(wire # None /\ wire.kind = "COMMAND" /\ wire.from = c /\ wire.to = a)

-----------------------------------------------------------------------------
(* What a comment of the code says and the code does not do. *)

\* GpUavServer.cpp:484, "Controller might be offline. That status would have
\* been updated by user logout()": the user whose status the asset's thread
\* reads through _connected_owner still exists.
NoUseOfDeletedController ==
  \A a \in AssetConn : pc[a] = "send" => Live(asset[a].owner)
=============================================================================
