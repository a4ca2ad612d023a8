-------------------------- MODULE GpPairing_proofs --------------------------
(***************************************************************************)
(* Theorems about GpPairing, for any sets of connections and addresses,    *)
(* with or without LOGOUT messages and overlapping sessions.               *)
(*                                                                         *)
(* TypeOK is not inductive: what is written through an owner pointer goes  *)
(* to the object behind it, so that every label, address and pointer has   *)
(* to be what the code takes it for (Built).  The other properties         *)
(* hold unless threads raced, and so does what makes them inductive        *)
(* (Tidy): what a request and a logout have done at each of their labels.  *)
(***************************************************************************)
EXTENDS GpPairing, TLAPS

-----------------------------------------------------------------------------
(* What holds whatever races.                                              *)

SendPC == {"send", "write", "check"}

RequestPC == {"authenticate", "online", "get", "own", "link", "pair", "put"}

NamelessPC == {"new", "recv", "done", "crashed"}

\* What the label of a thread says of its task and of the addresses it uses.
AssetLabelOK(a) ==
  /\ pc[a] \in AssetPC
  /\ pc[a] \in SendPC \cup LogoutPC => task[a] \in AssetTask /\ asset[a].owner # None

ControllerLabelOK(c) ==
  /\ pc[c] \in ControllerPC
  /\ pc[c] \in LogoutPC => task[c] \in {"confirm", "message", "end"}
  /\ pc[c] \in RequestPC => task[c] \in {"login", "again", "COMMAND"}
  /\ pc[c] \in {"paired", "forward"} => task[c] \in {"COMMAND", "PING"}
  /\ pc[c] \notin NamelessPC \/ ctrl[c].isAuthenticated => ctrl[c].at # None

LabelsOK ==
  /\ \A a \in AssetConn : AssetLabelOK(a)
  /\ \A c \in ControllerConn : ControllerLabelOK(c)

\* cell is where each controller's object was built; it is the last one built
\* there until it is deleted, and every pointer to an owner points to one.
CellsOK ==
  /\ \A p \in Addr : cell[p] # None => ctrl[cell[p]].at = p
  /\ \A c \in ControllerConn :
       ctrl[c].at # None =>
         /\ cell[ctrl[c].at] # None
         /\ pc[c] # "done" => cell[ctrl[c].at] = c

\* An owner has been built where the pointer of a record to it points, and a
\* record whose user is online has a socket.
OwnerBuilt(u) == u.owner # None => cell[u.owner] # None

Socketed(u) == u.isOnline => u.fd # None

RecordsBuilt ==
  /\ \A a \in AssetConn : OwnerBuilt(asset[a]) /\ Socketed(asset[a])
  /\ \A c \in ControllerConn : OwnerBuilt(ctrl[c].asset) /\ Socketed(ctrl[c].asset)
  /\ assets # None => OwnerBuilt(assets)

Built == LabelsOK /\ CellsOK /\ RecordsBuilt

-----------------------------------------------------------------------------
(* What holds unless threads raced.                                        *)

ActingPC == {"check"} \cup LogoutPC

Quiet == \A a \in AssetConn : pc[a] \in ActingPC => pc[Target(a)] \notin WritingPC

\* A record is linked if and only if it has an owner; a thread's own object
\* is linked only while its user is logged in.
Whole(u) == u.isConnected <=> u.owner # None

RecordsWhole ==
  /\ \A a \in AssetConn :
       Whole(asset[a]) /\ (asset[a].isConnected => asset[a].isAuthenticated)
  /\ assets # None => Whole(assets)

Online(u) == u.isOnline /\ u.isAuthenticated

RecordOnline == assets # None => Online(assets)

\* A request, from its first write to its last.
RequestOK(c) ==
  /\ ctrl[c].asset.isConnected => ctrl[c].asset.owner # None
  /\ pc[c] \in {"link", "pair", "put"} => ctrl[c].asset.owner = ctrl[c].at
  /\ pc[c] \in {"pair", "put"} => ctrl[c].asset.isConnected

RequestsOK == \A c \in ControllerConn : RequestOK(c)

\* The copy that a controller counts on, or that is about to be written back,
\* is online.
Counts(c) ==
  \/ ctrl[c].isConnected
  \/ pc[c] \in {"own", "link", "pair", "put"}
  \/ \E t \in Conn : pc[t] \in {"unlink", "disown", "put_unpaired"} /\ Target(t) = c

CopiesOnline == \A c \in ControllerConn : Counts(c) => Online(ctrl[c].asset)

\* A logout, from its first write to its last.
LogoutOK(t) ==
  /\ pc[t] \in {"disown", "put_unpaired"} => ~ctrl[Target(t)].asset.isConnected
  /\ pc[t] = "put_unpaired" => ctrl[Target(t)].asset.owner = None

LogoutsOK == \A t \in Conn : LogoutOK(t)

\* Outside of the two, a paired controller's copy is linked with it.
Unlinked(c) == \E t \in Conn : pc[t] \in {"disown", "put_unpaired", "unpair"} /\ Target(t) = c

Linked(c) == ctrl[c].asset.isConnected /\ ctrl[c].asset.owner = ctrl[c].at

PairsLinked ==
  \A c \in ControllerConn :
    ctrl[c].isConnected /\ pc[c] \notin {"own", "link"} /\ ~Unlinked(c) => Linked(c)

Tidy ==
  /\ Quiet /\ RecordsWhole /\ RecordOnline
  /\ RequestsOK /\ CopiesOnline /\ LogoutsOK /\ PairsLinked

IInv == TypeOK /\ Built /\ (~raced => Tidy)

-----------------------------------------------------------------------------
(* Types. *)

\* The labels and tasks of all threads.
LabelsTyped ==
  /\ pc \in [Conn -> AssetPC \cup ControllerPC]
  /\ task \in [Conn -> AssetTask \cup ControllerTask \cup {None}]

\* Moving a thread to a label keeps the types of labels and tasks.
LEMMA LabelTypes ==
  ASSUME LabelsTyped, NEW t \in Conn, NEW label \in AssetPC \cup ControllerPC
  PROVE  /\ Goto(t, label) => LabelsTyped'
         /\ Return(t, label) => LabelsTyped'
         /\ \A purpose \in AssetTask \cup ControllerTask : Call(t, label, purpose) => LabelsTyped'
  BY DEF LabelsTyped, Goto, Return, Call

\* So does killing the process.
LEMMA CrashTypes == LabelsTyped /\ Crash => LabelsTyped'
  BY DEF LabelsTyped, Crash, AssetPC, ControllerPC

\* A record that may be in the database.
Record == {u \in AssetUser : u.fd # None} \cup {None}

\* All that threads share.
UsersTyped ==
  /\ asset \in [AssetConn -> AssetUser]
  /\ ctrl \in [ControllerConn -> ControllerUser]
  /\ cell \in [Addr -> ControllerConn \cup {None}]
  /\ assets \in Record
  /\ sendsLogout \in BOOLEAN

\* The parts of TypeOK.
LEMMA TypeParts == TypeOK => LabelsTyped /\ UsersTyped
  BY DEF TypeOK, LabelsTyped, UsersTyped, Record

\* TypeOK after a step.
LEMMA NextTypeParts ==
  ASSUME TypeOK, LabelsTyped', UsersTyped',
         conn' = conn \/ conn' \in [Conn -> ConnState], wire' = None \/ wire' \in Message
  PROVE  TypeOK'
  BY DEF TypeOK, LabelsTyped, UsersTyped, Record

\* A logout keeps the type of an asset object, and this is what it changes.
LEMMA LoggedOutFields ==
  ASSUME NEW u \in AssetUser
  PROVE  /\ LoggedOutAsset(u) \in AssetUser
         /\ LoggedOutAsset(u).fd = u.fd
         /\ ~LoggedOutAsset(u).isOnline
         /\ ~LoggedOutAsset(u).isAuthenticated
         /\ ~LoggedOutAsset(u).isConnected
         /\ LoggedOutAsset(u).owner = IF u.isConnected THEN None ELSE u.owner
  BY DEF AssetUser, LoggedOutAsset

\* Disowning only ever clears a controller's flag, and clears the owner's.
LEMMA DisownedFields ==
  ASSUME UsersTyped, NEW u \in AssetUser
  PROVE  /\ Disowned(u) \in [ControllerConn -> ControllerUser]
         /\ \A d \in ControllerConn :
              /\ Disowned(u)[d].at = ctrl[d].at
              /\ Disowned(u)[d].isAuthenticated = ctrl[d].isAuthenticated
              /\ Disowned(u)[d].isOnline = ctrl[d].isOnline
              /\ Disowned(u)[d].asset = ctrl[d].asset
              /\ Disowned(u)[d].isConnected => ctrl[d].isConnected
              /\ u.isConnected /\ cell[u.owner] = d => ~Disowned(u)[d].isConnected
              /\ u.isConnected /\ cell[u.owner] # d =>
                   Disowned(u)[d].isConnected = ctrl[d].isConnected
<1>1. CASE u.isConnected
  BY <1>1 DEF UsersTyped, Disowned, ControllerUser
<1>2. CASE ~u.isConnected
  BY <1>2 DEF UsersTyped, Disowned, ControllerUser
<1>3. QED
  BY <1>1, <1>2

\* A thread that logs a controller out, or sends to it, has one.
LEMMA TargetExists ==
  ASSUME UsersTyped, Built, NEW t \in Conn,
         t \in AssetConn => pc[t] \in SendPC \cup LogoutPC
  PROVE  Target(t) \in ControllerConn
<1>1. CASE t \in AssetConn
  BY <1>1 DEF UsersTyped, Built, LabelsOK, AssetLabelOK, RecordsBuilt, OwnerBuilt, Target, AssetUser
<1>2. CASE t \notin AssetConn
  BY <1>2 DEF Conn, Target
<1>3. QED
  BY <1>1, <1>2

\* A single write to a controller's object, by whatever thread.
LEMMA WritesTypes ==
  ASSUME UsersTyped, NEW t \in Conn, NEW new \in ControllerUser, NEW from, NEW to,
         Writes(t, from, to, new)
  PROVE  UsersTyped' /\ wire' = None /\ conn' = conn
  BY DEF UsersTyped, Writes

\* What another user object or record contributes.
LEMMA UserTypes ==
  ASSUME UsersTyped
  PROVE  /\ \A a \in AssetConn : asset[a] \in AssetUser
         /\ \A c \in ControllerConn : ctrl[c] \in ControllerUser /\ ctrl[c].asset \in AssetUser
         /\ assets # None => assets \in AssetUser /\ assets.fd # None
  BY DEF UsersTyped, ControllerUser, Record

\* A record that is inserted has a socket.
LEMMA InsertedType ==
  ASSUME UsersTyped, NEW u \in AssetUser
  PROVE  Inserted(u) \in Record
  BY DEF UsersTyped, Inserted, Record

\* A logout of a controller, one step at a time.
LEMMA LogoutTypes ==
  ASSUME TypeOK, Built, NEW t \in Conn, LogoutStep(t)
  PROVE  TypeOK'
<1>. DEFINE d == Target(t)
<1>1. LabelsTyped /\ UsersTyped
  BY TypeParts
<1>2. pc[t] \in LogoutPC
  BY DEF LogoutStep, Logout, Unlink, Disown, PutUnpaired, Unpair, Unauthenticate, Offline,
         Writes, LogoutPC
<1>3. d \in ControllerConn
  BY <1>1, <1>2, TargetExists
<1>4. ctrl[d] \in ControllerUser /\ ctrl[d].asset \in AssetUser
  BY <1>1, <1>3, UserTypes
<1>5. CASE Logout(t)
  <2>1. LabelsTyped'
    BY <1>1, <1>5, LabelTypes DEF Logout, AssetPC, LogoutPC
  <2>2. QED
    BY <1>5, <2>1, <1>1, NextTypeParts DEF Logout, OnlyReads, users, UsersTyped, Record
<1>6. CASE Unlink(t)
  <2>1. [ctrl[d] EXCEPT !.asset.isConnected = FALSE] \in ControllerUser
    BY <1>4 DEF ControllerUser, AssetUser
  <2>2. UsersTyped' /\ wire' = None /\ conn' = conn
    BY <1>1, <1>6, <2>1, WritesTypes DEF Unlink
  <2>3. LabelsTyped'
    BY <1>1, <1>6, LabelTypes DEF Unlink, Writes, AssetPC, LogoutPC
  <2>4. QED
    BY <2>2, <2>3, NextTypeParts
<1>7. CASE Disown(t)
  <2>1. [ctrl[d] EXCEPT !.asset.owner = None] \in ControllerUser
    BY <1>4 DEF ControllerUser, AssetUser
  <2>2. UsersTyped' /\ wire' = None /\ conn' = conn
    BY <1>1, <1>7, <2>1, WritesTypes DEF Disown
  <2>3. LabelsTyped'
    BY <1>1, <1>7, LabelTypes DEF Disown, Writes, AssetPC, LogoutPC
  <2>4. QED
    BY <2>2, <2>3, NextTypeParts
<1>8. CASE PutUnpaired(t)
  <2>1. assets' \in Record
    BY <1>1, <1>4, <1>8, InsertedType DEF PutUnpaired
  <2>2. LabelsTyped'
    BY <1>1, <1>8, LabelTypes DEF PutUnpaired, AssetPC, LogoutPC
  <2>3. QED
    BY <1>1, <1>8, <2>1, <2>2, NextTypeParts DEF PutUnpaired, UsersTyped
<1>9. CASE Unpair(t)
  <2>1. [ctrl[d] EXCEPT !.isConnected = FALSE] \in ControllerUser
    BY <1>4 DEF ControllerUser
  <2>2. UsersTyped' /\ wire' = None /\ conn' = conn
    BY <1>1, <1>9, <2>1, WritesTypes DEF Unpair
  <2>3. LabelsTyped'
    BY <1>1, <1>9, LabelTypes DEF Unpair, Writes, AssetPC, LogoutPC
  <2>4. QED
    BY <2>2, <2>3, NextTypeParts
<1>10. CASE Unauthenticate(t)
  <2>1. [ctrl[d] EXCEPT !.isAuthenticated = FALSE] \in ControllerUser
    BY <1>4 DEF ControllerUser
  <2>2. UsersTyped' /\ wire' = None /\ conn' = conn
    BY <1>1, <1>10, <2>1, WritesTypes DEF Unauthenticate
  <2>3. LabelsTyped'
    BY <1>1, <1>10, LabelTypes DEF Unauthenticate, Writes, AssetPC, LogoutPC
  <2>4. QED
    BY <2>2, <2>3, NextTypeParts
<1>11. CASE Offline(t)
  <2>1. ctrl' \in [ControllerConn -> ControllerUser]
    BY <1>1, <1>4, <1>11 DEF Offline, UsersTyped, ControllerUser
  <2>2. LabelsTyped'
    BY <1>1, <1>11, LabelTypes DEF Offline, AfterLogout, AssetPC
  <2>3. QED
    BY <1>1, <1>11, <2>1, <2>2, NextTypeParts DEF Offline, UsersTyped
<1>12. QED
  BY <1>5, <1>6, <1>7, <1>8, <1>9, <1>10, <1>11 DEF LogoutStep

\* What a thread sends is a message, since users that are online have sockets.
LEMMA WrittenType ==
  ASSUME NEW u, Socketed(u), u.fd \in Conn \cup {None}, NEW r \in UserSendResults(u.isOnline, u.fd),
         NEW kind \in {"CONFIRM", "COMMAND", "PING", "PONG", "HEARTBEAT"}, NEW t \in Conn
  PROVE  Written(r, kind, t, u.fd) = None \/ Written(r, kind, t, u.fd) \in Message
  BY DEF Socketed, UserSendResults, Written, Message

\* The logout of an asset's thread.
LEMMA LogoutAssetTypes ==
  ASSUME UsersTyped, NEW a \in AssetConn, LogoutAsset(a), UNCHANGED <<cell, sendsLogout>>
  PROVE  UsersTyped'
<1>1. asset[a] \in AssetUser
  BY UserTypes
<1>2. LoggedOutAsset(asset[a]) \in AssetUser
  BY <1>1, LoggedOutFields
<1>3. ctrl' \in [ControllerConn -> ControllerUser]
  BY <1>1, DisownedFields DEF LogoutAsset
<1>4. QED
  BY <1>2, <1>3 DEF UsersTyped, LogoutAsset

\* The logout of a controller's copy.
LEMMA LogoutCopyTypes ==
  ASSUME UsersTyped, NEW c \in ControllerConn, LogoutCopy(c), UNCHANGED <<cell, sendsLogout>>
  PROVE  UsersTyped'
<1>1. ctrl[c].asset \in AssetUser
  BY UserTypes
<1>2. LoggedOutAsset(ctrl[c].asset) \in AssetUser
  BY <1>1, LoggedOutFields
<1>3. PICK f \in [ControllerConn -> ControllerUser] : f = Disowned(ctrl[c].asset)
  BY <1>1, DisownedFields
<1>4. f[c].asset = ctrl[c].asset
  BY <1>1, <1>3, DisownedFields
<1>5. ctrl' = [f EXCEPT ![c].asset = LoggedOutAsset(f[c].asset)]
  BY <1>3 DEF LogoutCopy
<1>6. ctrl' \in [ControllerConn -> ControllerUser]
  BY <1>2, <1>3, <1>4, <1>5 DEF ControllerUser
<1>7. QED
  BY <1>6 DEF UsersTyped, LogoutCopy

\* The record read by a refresh.
LEMMA RefreshedType ==
  ASSUME UsersTyped, NEW a \in AssetConn
  PROVE  Refreshed(a) \in AssetUser
  BY UserTypes DEF Refreshed

\* What an asset's user is after a login.
LEMMA BuiltAssetFields ==
  ASSUME UsersTyped, NEW a \in AssetConn
  PROVE  /\ BuiltAsset(a) \in AssetUser
         /\ BuiltAsset(a).fd # None
         /\ BuiltAsset(a).isConnected = asset[a].isConnected
         /\ BuiltAsset(a).owner = asset[a].owner
         /\ asset[a].fd # None => BuiltAsset(a).fd = asset[a].fd
         /\ asset[a].fd = None => BuiltAsset(a).fd = a
<1>1. asset[a] \in AssetUser
  BY UserTypes
<1>2. None \notin AssetConn
  BY NoneAssumption DEF Conn
<1>3. QED
  BY <1>1, <1>2 DEF BuiltAsset, AssetUser

\* A login makes the user authenticated and online.
LEMMA LoggedInType ==
  ASSUME NEW u \in AssetUser
  PROVE  LET v == [u EXCEPT !.isAuthenticated = TRUE, !.isOnline = TRUE] IN
         /\ v \in AssetUser
         /\ v.fd = u.fd /\ v.owner = u.owner /\ v.isConnected = u.isConnected
         /\ v.isAuthenticated /\ v.isOnline
  BY DEF AssetUser

\* The steps of an asset's thread, except the logout of a controller.
LEMMA AssetTypes ==
  ASSUME TypeOK, Built, NEW a \in AssetConn,
         AssetStep(a) \/ AssetMessage(a) \/ DisconnectAsset(a)
  PROVE  TypeOK'
<1>1. LabelsTyped /\ UsersTyped /\ a \in Conn
  BY TypeParts DEF Conn
<1>2. asset[a] \in AssetUser /\ Socketed(asset[a])
  BY <1>1, UserTypes DEF Built, RecordsBuilt
<1>3. CASE LoginAsset(a)
  <2>1. PICK v \in AssetUser : /\ v.fd # None
                               /\ v = [BuiltAsset(a) EXCEPT !.isAuthenticated = TRUE, !.isOnline = TRUE]
    BY <1>1, BuiltAssetFields, LoggedInType
  <2>2. UsersTyped'
    BY <1>1, <1>3, <2>1 DEF LoginAsset, UsersTyped, Record
  <2>3. LabelsTyped'
    BY <1>1, <1>3, LabelTypes DEF LoginAsset, AssetPC
  <2>4. QED
    BY <1>3, <2>2, <2>3, NextTypeParts DEF LoginAsset
<1>4. CASE ConfirmAsset(a)
  <2>1. UsersTyped'
    BY <1>1, <1>4, LogoutAssetTypes DEF ConfirmAsset, UsersTyped, Record
  <2>2. LabelsTyped'
    BY <1>1, <1>4, LabelTypes DEF ConfirmAsset, AssetPC
  <2>3. asset[a].fd \in Conn \cup {None}
    BY <1>2 DEF AssetUser, Conn
  <2>4. wire' = None \/ wire' \in Message
    BY <1>1, <1>2, <1>4, <2>3, WrittenType DEF ConfirmAsset
  <2>5. QED
    BY <1>4, <2>1, <2>2, <2>4, NextTypeParts DEF ConfirmAsset
<1>5. CASE BeginSend(a)
  <2>1. LabelsTyped'
    BY <1>1, <1>5, LabelTypes DEF BeginSend, SendFailed, AfterLogout, AssetPC
  <2>2. QED
    BY <1>1, <1>5, <2>1, NextTypeParts DEF BeginSend, OnlyReads, users, UsersTyped, Record
<1>6. CASE Write(a)
  <2>1. LabelsTyped'
    BY <1>1, <1>6, LabelTypes DEF Write, SendFailed, AfterLogout, AssetPC, SendResults
  <2>2. pc[a] \in SendPC /\ task[a] \in AssetTask
    BY <1>6 DEF Write, SendPC, Built, LabelsOK, AssetLabelOK
  <2>3. Target(a) \in Conn
    BY <1>1, <2>2, TargetExists DEF Conn
  <2>4. wire' = None \/ wire' \in Message
    BY <1>1, <1>6, <2>2, <2>3 DEF Write, Written, Message, AssetTask
  <2>5. QED
    BY <1>1, <1>6, <2>1, <2>4, NextTypeParts DEF Write, users, UsersTyped, Record
<1>7. CASE CheckOnline(a)
  <2>1. LabelsTyped'
    BY <1>1, <1>7, LabelTypes DEF CheckOnline, SendFailed, AfterLogout, AssetPC, LogoutPC
  <2>2. QED
    BY <1>1, <1>7, <2>1, NextTypeParts DEF CheckOnline, OnlyReads, users, UsersTyped, Record
<1>8. CASE RefreshAsset(a)
  <2>1. LabelsTyped'
    BY <1>1, <1>8, LabelTypes DEF RefreshAsset, AssetPC
  <2>2. UsersTyped'
    BY <1>1, <1>8, RefreshedType DEF RefreshAsset, UsersTyped, Record
  <2>3. QED
    BY <1>8, <2>1, <2>2, NextTypeParts DEF RefreshAsset
<1>9. CASE Heartbeat(a)
  <2>1. LabelsTyped'
    BY <1>1, <1>9, LabelTypes, CrashTypes DEF Heartbeat, AssetPC, AssetTask
  <2>2. UsersTyped'
    BY <1>1, <1>9, RefreshedType DEF Heartbeat, UsersTyped, Record
  <2>3. QED
    BY <1>9, <2>1, <2>2, NextTypeParts DEF Heartbeat
<1>10. CASE Pong(a)
  <2>1. LabelsTyped'
    BY <1>1, <1>10, LabelTypes, CrashTypes DEF Pong, AssetPC, AssetTask
  <2>2. QED
    BY <1>1, <1>10, <2>1, NextTypeParts DEF Pong, OnlyReads, users, UsersTyped, Record
<1>11. CASE LogoutMessageFromAsset(a)
  <2>1. LabelsTyped'
    BY <1>1, <1>11, CrashTypes DEF LogoutMessageFromAsset, LabelsTyped
  <2>2. UsersTyped'
    BY <1>1, <1>11, LogoutAssetTypes DEF LogoutMessageFromAsset, UsersTyped, Record
  <2>3. QED
    BY <1>11, <2>1, <2>2, NextTypeParts DEF LogoutMessageFromAsset
<1>12. CASE DisconnectAsset(a)
  <2>1. LabelsTyped'
    BY <1>1, <1>12, CrashTypes, LabelTypes DEF DisconnectAsset, AssetPC
  <2>2. UsersTyped'
    BY <1>1, <1>12, LogoutAssetTypes DEF DisconnectAsset, UsersTyped, Record
  <2>3. QED
    BY <1>12, <2>1, <2>2, NextTypeParts DEF DisconnectAsset
<1>13. QED
  BY <1>3, <1>4, <1>5, <1>6, <1>7, <1>8, <1>9, <1>10, <1>11, <1>12 DEF AssetStep, AssetMessage

\* What a request was made for.
LEMMA RequestTask ==
  ASSUME Built, NEW c \in ControllerConn, pc[c] \in RequestPC
  PROVE  task[c] \in {"login", "again", "COMMAND"}
  BY DEF Built, LabelsOK, ControllerLabelOK

\* The steps of a controller's thread, except the logout.
LEMMA ControllerTypes ==
  ASSUME TypeOK, Built, NEW c \in ControllerConn,
         ControllerStep(c) \/ ControllerMessage(c) \/ DisconnectController(c)
  PROVE  TypeOK'
<1>1. LabelsTyped /\ UsersTyped /\ c \in Conn /\ c \notin AssetConn
  BY TypeParts, ConnAssumption DEF Conn
<1>2. ctrl[c] \in ControllerUser /\ ctrl[c].asset \in AssetUser
  BY <1>1, UserTypes
<1>3. Target(c) = c
  BY <1>1 DEF Target
<1>4. CASE LoginController(c)
  <2>1. LabelsTyped'
    BY <1>1, <1>4, LabelTypes DEF LoginController, ControllerPC, ControllerTask
  <2>2. \A p \in Addr : [ctrl[c] EXCEPT !.at = p] \in ControllerUser
    BY <1>2 DEF ControllerUser
  <2>3. UsersTyped'
    BY <1>1, <1>4, <2>2 DEF LoginController, UsersTyped, Record
  <2>4. QED
    BY <1>4, <2>1, <2>3, NextTypeParts DEF LoginController
<1>5. CASE Authenticate(c)
  <2>1. [ctrl[c] EXCEPT !.isAuthenticated = TRUE] \in ControllerUser
    BY <1>2 DEF ControllerUser
  <2>2. UsersTyped' /\ wire' = None /\ conn' = conn
    BY <1>1, <1>5, <2>1, WritesTypes DEF Authenticate
  <2>3. LabelsTyped'
    BY <1>1, <1>5, LabelTypes DEF Authenticate, Writes, ControllerPC
  <2>4. QED
    BY <2>2, <2>3, NextTypeParts
<1>6. CASE ComeOnline(c)
  <2>1. [ctrl[c] EXCEPT !.isOnline = TRUE] \in ControllerUser
    BY <1>2 DEF ControllerUser
  <2>2. UsersTyped' /\ wire' = None /\ conn' = conn
    BY <1>1, <1>6, <2>1, WritesTypes DEF ComeOnline
  <2>3. LabelsTyped'
    BY <1>1, <1>6, LabelTypes DEF ComeOnline, Writes, ControllerPC
  <2>4. QED
    BY <2>2, <2>3, NextTypeParts
<1>7. CASE GetAsset(c)
  <2>1. LabelsTyped'
    BY <1>1, <1>7, LabelTypes, RequestTask DEF GetAsset, RequestOver, ControllerPC, RequestPC
  <2>2. assets # None => [ctrl[c] EXCEPT !.asset = assets] \in ControllerUser
    BY <1>1, <1>2, UserTypes DEF ControllerUser
  <2>3. UsersTyped'
    BY <1>1, <1>7, <2>2 DEF GetAsset, UsersTyped, Record
  <2>4. QED
    BY <1>7, <2>1, <2>3, NextTypeParts DEF GetAsset
<1>8. CASE SetOwner(c)
  <2>1. [ctrl[c] EXCEPT !.asset.owner = ctrl[c].at] \in ControllerUser
    BY <1>2 DEF ControllerUser, AssetUser
  <2>2. UsersTyped' /\ wire' = None /\ conn' = conn
    BY <1>1, <1>8, <2>1, WritesTypes DEF SetOwner
  <2>3. LabelsTyped'
    BY <1>1, <1>8, LabelTypes DEF SetOwner, Writes, ControllerPC
  <2>4. QED
    BY <2>2, <2>3, NextTypeParts
<1>9. CASE Link(c)
  <2>1. [ctrl[c] EXCEPT !.asset.isConnected = TRUE] \in ControllerUser
    BY <1>2 DEF ControllerUser, AssetUser
  <2>2. UsersTyped' /\ wire' = None /\ conn' = conn
    BY <1>1, <1>9, <2>1, WritesTypes DEF Link
  <2>3. LabelsTyped'
    BY <1>1, <1>9, LabelTypes DEF Link, Writes, ControllerPC
  <2>4. QED
    BY <2>2, <2>3, NextTypeParts
<1>10. CASE Pair(c)
  <2>1. [ctrl[c] EXCEPT !.isConnected = TRUE] \in ControllerUser
    BY <1>2 DEF ControllerUser
  <2>2. UsersTyped' /\ wire' = None /\ conn' = conn
    BY <1>1, <1>10, <2>1, WritesTypes DEF Pair
  <2>3. LabelsTyped'
    BY <1>1, <1>10, LabelTypes DEF Pair, Writes, ControllerPC
  <2>4. QED
    BY <2>2, <2>3, NextTypeParts
<1>11. CASE PutAsset(c)
  <2>1. LabelsTyped'
    BY <1>1, <1>11, LabelTypes, RequestTask DEF PutAsset, RequestOver, ControllerPC, RequestPC
  <2>2. assets' \in Record
    BY <1>1, <1>2, <1>11, InsertedType DEF PutAsset
  <2>3. QED
    BY <1>1, <1>11, <2>1, <2>2, NextTypeParts DEF PutAsset, UsersTyped
<1>12. CASE RequestAgain(c)
  <2>1. LabelsTyped'
    BY <1>1, <1>12, LabelTypes DEF RequestAgain, ControllerPC, ControllerTask
  <2>2. QED
    BY <1>1, <1>12, <2>1, NextTypeParts DEF RequestAgain, OnlyReads, users, UsersTyped, Record
<1>13. CASE ConfirmController(c)
  <2>1. LabelsTyped'
    BY <1>1, <1>13, LabelTypes DEF ConfirmController, ControllerPC, LogoutPC, ControllerTask
  <2>2. wire' = None \/ wire' \in Message
    BY <1>1, <1>13 DEF ConfirmController, Written, Message
  <2>3. QED
    BY <1>1, <1>13, <2>1, <2>2, NextTypeParts DEF ConfirmController, users, UsersTyped, Record
<1>14. CASE CommandAfterRequest(c)
  <2>1. LabelsTyped'
    BY <1>1, <1>14, LabelTypes DEF CommandAfterRequest, ControllerPC
  <2>2. QED
    BY <1>1, <1>14, <2>1, NextTypeParts DEF CommandAfterRequest, OnlyReads, users, UsersTyped, Record
<1>15. CASE ForwardToCopy(c)
  <2>1. LabelsTyped'
    BY <1>1, <1>15, LabelTypes, CrashTypes DEF ForwardToCopy, ControllerPC
  <2>2. UsersTyped'
    BY <1>1, <1>15, LogoutCopyTypes DEF ForwardToCopy, UsersTyped, Record
  <2>3. Socketed(ctrl[c].asset) /\ ctrl[c].asset.fd \in Conn \cup {None}
    BY <1>2 DEF Built, RecordsBuilt, AssetUser, Conn
  <2>4. task[c] \in {"COMMAND", "PING"}
    BY <1>15 DEF ForwardToCopy, Built, LabelsOK, ControllerLabelOK
  <2>5. wire' = None \/ wire' \in Message
    BY <1>1, <1>15, <2>3, <2>4, WrittenType DEF ForwardToCopy
  <2>6. QED
    BY <1>15, <2>1, <2>2, <2>5, NextTypeParts DEF ForwardToCopy
<1>16. CASE ControllerMessage(c) /\ ~LoginController(c)
  <2>1. LabelsTyped'
    BY <1>1, <1>16, LabelTypes DEF ControllerMessage, Command, Ping, LogoutMessageFromController,
                                   ControllerPC, ControllerTask, LogoutPC
  <2>2. QED
    BY <1>1, <1>16, <2>1, NextTypeParts
       DEF ControllerMessage, Command, Ping, LogoutMessageFromController,
           OnlyReads, users, UsersTyped, Record
<1>17. CASE DisconnectController(c)
  <2>1. LabelsTyped'
    BY <1>1, <1>17, LabelTypes DEF DisconnectController, ControllerPC, ControllerTask, LogoutPC
  <2>2. QED
    BY <1>1, <1>17, <2>1, NextTypeParts DEF DisconnectController, OnlyReads, users, UsersTyped, Record
<1>18. QED
  BY <1>4, <1>5, <1>6, <1>7, <1>8, <1>9, <1>10, <1>11, <1>12, <1>13, <1>14, <1>15, <1>16, <1>17
     DEF ControllerStep, ControllerMessage

\* The network's steps.
LEMMA NetworkTypes ==
  ASSUME TypeOK, NEW c \in Conn, Network(c)
  PROVE  TypeOK'
<1>1. LabelsTyped /\ UsersTyped
  BY TypeParts
<1>2. LabelsTyped'
  BY <1>1, LabelTypes DEF Network, Connect, DropConnection, ResetConnection, LabelsTyped, AssetPC
<1>3. conn' \in [Conn -> ConnState]
  BY DEF TypeOK, Network, Connect, DropConnection, ResetConnection, ConnState
<1>4. QED
  BY <1>1, <1>2, <1>3, NextTypeParts
     DEF Network, Connect, DropConnection, ResetConnection, users, UsersTyped, Record

\* Every step keeps the types.
LEMMA StepTypes == TypeOK /\ Built /\ Step => TypeOK'
  BY AssetTypes, ControllerTypes, NetworkTypes, LogoutTypes DEF Step

-----------------------------------------------------------------------------
(* What a step of one thread leaves to the others. *)

\* Of a controller's object, other threads only clear flags and pointers.
Fades(d) ==
  /\ ctrl'[d].at = ctrl[d].at
  /\ ctrl'[d].isAuthenticated => ctrl[d].isAuthenticated
  /\ ctrl'[d].isOnline => ctrl[d].isOnline
  /\ ctrl'[d].isConnected => ctrl[d].isConnected
  /\ ctrl'[d].asset.fd = ctrl[d].asset.fd
  /\ ctrl'[d].asset.isOnline = ctrl[d].asset.isOnline
  /\ ctrl'[d].asset.isAuthenticated = ctrl[d].asset.isAuthenticated
  /\ ctrl'[d].asset.isConnected => ctrl[d].asset.isConnected
  /\ ctrl'[d].asset.owner \in {ctrl[d].asset.owner, None}

LabelsKept(t) == \A d \in Conn \ {t} : pc'[d] = pc[d] /\ task'[d] = task[d]

AssetsKept(t) == \A a \in AssetConn \ {t} : asset'[a] = asset[a]

OthersFade(t) == \A d \in ControllerConn \ {t} : Fades(d)

\* A thread that moves leaves the labels of the others.
LEMMA Moves ==
  ASSUME LabelsTyped, NEW t \in Conn, NEW label
  PROVE  /\ Goto(t, label) => LabelsKept(t) /\ pc'[t] = label /\ task'[t] = task[t]
         /\ Return(t, label) => LabelsKept(t) /\ pc'[t] = label /\ task'[t] = None
         /\ \A purpose : Call(t, label, purpose) =>
              LabelsKept(t) /\ pc'[t] = label /\ task'[t] = purpose
  BY DEF LabelsTyped, Goto, Return, Call, LabelsKept

\* An unchanged object fades.
LEMMA SameFades == ASSUME NEW d, ctrl'[d] = ctrl[d] PROVE Fades(d)
  BY DEF Fades

\* What the logout of an asset object clears.
LEMMA DisownedFades ==
  ASSUME UsersTyped, NEW u \in AssetUser, NEW d \in ControllerConn, ctrl'[d] = Disowned(u)[d]
  PROVE  Fades(d)
  BY DisownedFields DEF Fades

\* The steps of a logout leave everything but their target.
LEMMA LogoutFrame ==
  ASSUME TypeOK, Built, NEW t \in Conn, LogoutStep(t)
  PROVE  /\ LabelsKept(t) /\ pc[t] \in LogoutPC
         /\ asset' = asset /\ cell' = cell
         /\ \A d \in ControllerConn : Fades(d) /\ (d # Target(t) => ctrl'[d] = ctrl[d])
<1>1. LabelsTyped /\ UsersTyped
  BY TypeParts
<1>2. pc[t] \in LogoutPC
  BY DEF LogoutStep, Logout, Unlink, Disown, PutUnpaired, Unpair, Unauthenticate, Offline,
         Writes, LogoutPC
<1>3. Target(t) \in ControllerConn
  BY <1>1, <1>2, TargetExists
<1>4. ASSUME NEW d \in ControllerConn
      PROVE  ctrl[d] \in ControllerUser /\ ctrl[d].asset \in AssetUser
  BY <1>1, UserTypes
<1>5. LabelsKept(t)
  BY <1>1, Moves DEF LogoutStep, Logout, Unlink, Disown, PutUnpaired, Unpair, Unauthenticate,
                     Offline, Writes
<1>6. asset' = asset /\ cell' = cell
  BY DEF LogoutStep, Logout, Unlink, Disown, PutUnpaired, Unpair, Unauthenticate, Offline,
         Writes, OnlyReads, users
<1>7. ASSUME NEW d \in ControllerConn
      PROVE  Fades(d) /\ (d # Target(t) => ctrl'[d] = ctrl[d])
  <2>1. CASE ctrl' = ctrl
    BY <2>1, SameFades
  <2>2. CASE Unlink(t)
    BY <1>1, <1>3, <1>4, <2>2 DEF Unlink, Writes, Fades, UsersTyped, ControllerUser, AssetUser
  <2>3. CASE Disown(t)
    BY <1>1, <1>3, <1>4, <2>3 DEF Disown, Writes, Fades, UsersTyped, ControllerUser, AssetUser
  <2>4. CASE Unpair(t)
    BY <1>1, <1>3, <1>4, <2>4 DEF Unpair, Writes, Fades, UsersTyped, ControllerUser
  <2>5. CASE Unauthenticate(t)
    BY <1>1, <1>3, <1>4, <2>5 DEF Unauthenticate, Writes, Fades, UsersTyped, ControllerUser
  <2>6. CASE Offline(t)
    BY <1>1, <1>3, <1>4, <2>6 DEF Offline, Fades, UsersTyped, ControllerUser
  <2>7. QED
    BY <2>1, <2>2, <2>3, <2>4, <2>5, <2>6 DEF LogoutStep, Logout, PutUnpaired, OnlyReads, users
<1>8. QED
  BY <1>2, <1>5, <1>6, <1>7

AssetAction(a) == AssetStep(a) \/ AssetMessage(a) \/ DisconnectAsset(a)

\* The steps of an asset's thread leave the other assets' objects; to the
\* controllers' they only clear the flag.
LEMMA AssetFrame ==
  ASSUME TypeOK, Built, NEW a \in AssetConn, AssetAction(a)
  PROVE  /\ LabelsKept(a) \/ (Crash /\ ctrl' = ctrl)
         /\ pc[a] \in {"recv", "confirm", "send", "write", "check", "refresh"}
         /\ AssetsKept(a) /\ cell' = cell
         /\ \A d \in ControllerConn : Fades(d)
<1>1. LabelsTyped /\ UsersTyped /\ a \in Conn
  BY TypeParts DEF Conn
<1>2. pc[a] \in {"recv", "confirm", "send", "write", "check", "refresh"}
  BY DEF AssetAction, AssetStep, AssetMessage, DisconnectAsset, ConfirmAsset, BeginSend, Write,
         CheckOnline, RefreshAsset, LoginAsset, Heartbeat, Pong, LogoutMessageFromAsset
<1>3. cell' = cell
  BY DEF AssetAction, AssetStep, AssetMessage, DisconnectAsset, ConfirmAsset, BeginSend, Write,
         CheckOnline, RefreshAsset, LoginAsset, Heartbeat, Pong, LogoutMessageFromAsset,
         OnlyReads, users
<1>4. ctrl' = ctrl \/ LogoutAsset(a)
  BY DEF AssetAction, AssetStep, AssetMessage, DisconnectAsset, ConfirmAsset, BeginSend, Write,
         CheckOnline, RefreshAsset, LoginAsset, Heartbeat, Pong, LogoutMessageFromAsset,
         OnlyReads, users
<1>5. \A d \in ControllerConn : Fades(d)
  <2>1. CASE ctrl' = ctrl
    BY <2>1, SameFades
  <2>2. CASE LogoutAsset(a)
    BY <1>1, <2>2, UserTypes, DisownedFades DEF LogoutAsset
  <2>3. QED
    BY <1>4, <2>1, <2>2
<1>6. AssetsKept(a)
  <2>1. CASE asset' = asset
    BY <2>1 DEF AssetsKept
  <2>2. CASE \E u : asset' = [asset EXCEPT ![a] = u]
    BY <1>1, <2>2 DEF AssetsKept, UsersTyped
  <2>3. QED
    BY <2>1, <2>2 DEF AssetAction, AssetStep, AssetMessage, DisconnectAsset, ConfirmAsset,
         BeginSend, Write, CheckOnline, RefreshAsset, LoginAsset, Heartbeat, Pong,
         LogoutMessageFromAsset, OnlyReads, users, LogoutAsset
<1>7. LabelsKept(a) \/ (Crash /\ ctrl' = ctrl)
  <2>1. CASE LoginAsset(a) \/ ConfirmAsset(a) \/ RefreshAsset(a)
    BY <1>1, <2>1, Moves DEF LoginAsset, ConfirmAsset, RefreshAsset
  <2>2. CASE BeginSend(a) \/ CheckOnline(a)
    BY <1>1, <2>2, Moves DEF BeginSend, CheckOnline, SendFailed
  <2>3. CASE Write(a)
    BY <1>1, <2>3, Moves DEF Write, SendFailed, SendResults
  <2>4. CASE Heartbeat(a) \/ Pong(a)
    BY <1>1, <2>4, Moves DEF Heartbeat, Pong, OnlyReads, users
  <2>5. CASE LogoutMessageFromAsset(a)
    BY <2>5 DEF LogoutMessageFromAsset, LabelsKept
  <2>6. CASE DisconnectAsset(a)
    BY <1>1, <2>6, Moves DEF DisconnectAsset
  <2>7. QED
    BY <2>1, <2>2, <2>3, <2>4, <2>5, <2>6 DEF AssetAction, AssetStep, AssetMessage
<1>8. QED
  BY <1>2, <1>3, <1>5, <1>6, <1>7

ControllerAction(c) == ControllerStep(c) \/ ControllerMessage(c) \/ DisconnectController(c)

\* The steps that only read, and those that write to the object's own fields.
ControllerReads(c) ==
  \/ RequestAgain(c) \/ ConfirmController(c) \/ CommandAfterRequest(c) \/ Command(c) \/ Ping(c)
  \/ LogoutMessageFromController(c) \/ DisconnectController(c)

ControllerWrites(c) ==
  Authenticate(c) \/ ComeOnline(c) \/ SetOwner(c) \/ Link(c) \/ Pair(c)

\* Every step of a controller's thread is of one of these kinds.
LEMMA ControllerActions ==
  ASSUME NEW c, ControllerAction(c)
  PROVE  \/ LoginController(c) \/ ControllerReads(c) \/ ControllerWrites(c)
         \/ GetAsset(c) \/ PutAsset(c) \/ ForwardToCopy(c)
  BY DEF ControllerAction, ControllerStep, ControllerMessage, ControllerReads, ControllerWrites

\* The steps that only read write to no object.
LEMMA ReadsFrame ==
  ASSUME TypeOK, NEW c \in ControllerConn, ControllerReads(c)
  PROVE  LabelsKept(c) /\ UNCHANGED users
<1>1. LabelsTyped /\ c \in Conn
  BY TypeParts DEF Conn
<1>2. LabelsKept(c)
  BY <1>1, Moves DEF ControllerReads, RequestAgain, ConfirmController, CommandAfterRequest, Command,
                     Ping, LogoutMessageFromController, DisconnectController
<1>3. UNCHANGED users
  BY DEF ControllerReads, RequestAgain, ConfirmController, CommandAfterRequest, Command,
         Ping, LogoutMessageFromController, DisconnectController, OnlyReads
<1>4. QED
  BY <1>2, <1>3

\* A controller's thread is its own target.
LEMMA OwnTarget == ASSUME NEW c \in ControllerConn PROVE c \in Conn /\ Target(c) = c
  BY ConnAssumption DEF Target, Conn

\* The single writes change one field of the thread's own object.
LEMMA WritesFrame ==
  ASSUME TypeOK, NEW c \in ControllerConn, ControllerWrites(c)
  PROVE  /\ LabelsKept(c) /\ asset' = asset /\ assets' = assets /\ cell' = cell
         /\ \A d \in ControllerConn \ {c} : ctrl'[d] = ctrl[d]
         /\ ctrl'[c].at = ctrl[c].at
<1>1. LabelsTyped /\ UsersTyped /\ c \in Conn /\ Target(c) = c
  BY TypeParts, OwnTarget
<1>2. LabelsKept(c)
  BY <1>1, Moves DEF ControllerWrites, Authenticate, ComeOnline, SetOwner, Link, Pair, Writes
<1>3. asset' = asset /\ assets' = assets /\ cell' = cell
  BY DEF ControllerWrites, Authenticate, ComeOnline, SetOwner, Link, Pair, Writes
<1>4. \A d \in ControllerConn \ {c} : ctrl'[d] = ctrl[d]
  BY <1>1 DEF ControllerWrites, Authenticate, ComeOnline, SetOwner, Link, Pair, Writes, UsersTyped
<1>5. ctrl[c] \in ControllerUser
  BY <1>1, UserTypes
<1>6. ctrl'[c].at = ctrl[c].at
  BY <1>1, <1>5 DEF ControllerWrites, Authenticate, ComeOnline, SetOwner, Link, Pair, Writes,
                    UsersTyped, ControllerUser
<1>7. QED
  BY <1>2, <1>3, <1>4, <1>6

\* The steps of a controller's thread leave the assets' objects; of another
\* controller's they only clear the flag.
LEMMA ControllerFrame ==
  ASSUME TypeOK, Built, NEW c \in ControllerConn, ControllerAction(c)
  PROVE  /\ LabelsKept(c) \/ (Crash /\ UNCHANGED users)
         /\ pc[c] \in ControllerPC \ ({"new", "done", "crashed"} \cup LogoutPC)
         /\ asset' = asset
         /\ OthersFade(c)
         /\ LoginController(c) \/ (cell' = cell /\ ctrl'[c].at = ctrl[c].at)
<1>1. LabelsTyped /\ UsersTyped /\ c \in Conn /\ Target(c) = c /\ ctrl[c] \in ControllerUser
  BY TypeParts, OwnTarget, UserTypes
<1>2. pc[c] \in ControllerPC \ ({"new", "done", "crashed"} \cup LogoutPC)
  BY DEF ControllerAction, ControllerStep, ControllerMessage, LoginController, Authenticate, ComeOnline,
         GetAsset, SetOwner, Link, Pair, PutAsset, RequestAgain, ConfirmController,
         CommandAfterRequest, ForwardToCopy, Command, Ping, LogoutMessageFromController,
         DisconnectController, Writes, ControllerPC, LogoutPC
<1>3. CASE LoginController(c)
  <2>1. LabelsKept(c) /\ asset' = asset
    BY <1>1, <1>3, Moves DEF LoginController
  <2>2. \A d \in ControllerConn \ {c} : ctrl'[d] = ctrl[d]
    BY <1>1, <1>3 DEF LoginController, UsersTyped
  <2>3. OthersFade(c)
    BY <2>2, SameFades DEF OthersFade
  <2>4. QED
    BY <1>2, <1>3, <2>1, <2>3
<1>4. CASE ControllerReads(c)
  <2>1. LabelsKept(c) /\ asset' = asset /\ ctrl' = ctrl /\ cell' = cell
    BY <1>4, ReadsFrame DEF users
  <2>2. OthersFade(c)
    BY <2>1, SameFades DEF OthersFade
  <2>3. QED
    BY <1>2, <2>1, <2>2
<1>5. CASE ControllerWrites(c)
  <2>1. OthersFade(c)
    BY <1>5, WritesFrame, SameFades DEF OthersFade
  <2>2. QED
    BY <1>2, <1>5, <2>1, WritesFrame
<1>6. CASE GetAsset(c)
  <2>1. RequestOver(c, FALSE) => LabelsKept(c)
    BY <1>1, <1>6, Moves, RequestTask DEF RequestOver, GetAsset, RequestPC
  <2>2. LabelsKept(c)
    BY <1>1, <1>6, <2>1, Moves DEF GetAsset
  <2>3. asset' = asset /\ cell' = cell
    BY <1>6 DEF GetAsset
  <2>4. \A d \in ControllerConn \ {c} : ctrl'[d] = ctrl[d]
    BY <1>1, <1>6 DEF GetAsset, UsersTyped
  <2>5. ctrl'[c].at = ctrl[c].at
    BY <1>1, <1>6 DEF GetAsset, UsersTyped, ControllerUser
  <2>6. OthersFade(c)
    BY <2>4, SameFades DEF OthersFade
  <2>7. QED
    BY <1>2, <2>2, <2>3, <2>5, <2>6
<1>7. CASE PutAsset(c)
  <2>1. RequestOver(c, TRUE) => LabelsKept(c)
    BY <1>1, <1>7, Moves, RequestTask DEF RequestOver, PutAsset, RequestPC
  <2>2. LabelsKept(c) /\ asset' = asset /\ cell' = cell /\ ctrl' = ctrl
    BY <1>7, <2>1 DEF PutAsset
  <2>3. OthersFade(c)
    BY <2>2, SameFades DEF OthersFade
  <2>4. QED
    BY <1>2, <2>2, <2>3
<1>8. CASE ForwardToCopy(c) /\ LogoutCopy(c)
  <2>1. ctrl[c].asset \in AssetUser
    BY <1>1, UserTypes
  <2>2. PICK f \in [ControllerConn -> ControllerUser] : f = Disowned(ctrl[c].asset)
    BY <1>1, <2>1, DisownedFields
  <2>3. f[c].at = ctrl[c].at
    BY <1>1, <2>1, <2>2, DisownedFields
  <2>4. ctrl' = [f EXCEPT ![c].asset = LoggedOutAsset(f[c].asset)]
    BY <1>8, <2>2 DEF LogoutCopy
  <2>5. \A d \in ControllerConn \ {c} : ctrl'[d] = Disowned(ctrl[c].asset)[d]
    BY <2>2, <2>4
  <2>6. ctrl'[c].at = ctrl[c].at
    BY <2>2, <2>3, <2>4 DEF ControllerUser
  <2>7. OthersFade(c)
    BY <1>1, <2>1, <2>5, DisownedFades DEF OthersFade
  <2>8. LabelsKept(c)
    BY <1>1, <1>8, Moves DEF ForwardToCopy, LogoutCopy
  <2>9. asset' = asset /\ cell' = cell
    BY <1>8 DEF ForwardToCopy, LogoutCopy
  <2>10. QED
    BY <1>2, <2>6, <2>7, <2>8, <2>9
<1>9. CASE ForwardToCopy(c) /\ ~LogoutCopy(c)
  <2>1. UNCHANGED users
    BY <1>9 DEF ForwardToCopy, users
  <2>2. LabelsKept(c) \/ (Crash /\ UNCHANGED users)
    BY <1>1, <1>9, <2>1, Moves DEF ForwardToCopy
  <2>3. OthersFade(c)
    BY <2>1, SameFades DEF OthersFade, users
  <2>4. QED
    BY <1>2, <2>1, <2>2, <2>3 DEF users
<1>10. QED
  BY <1>3, <1>4, <1>5, <1>6, <1>7, <1>8, <1>9, ControllerActions

-----------------------------------------------------------------------------
(* Built is kept: labels. *)

\* The network leaves the users alone.
LEMMA NetworkFrame ==
  ASSUME TypeOK, NEW c \in Conn, Network(c)
  PROVE  /\ LabelsKept(c) /\ UNCHANGED users /\ task' = task
         /\ pc' = pc \/ (pc[c] = "new" /\ pc'[c] = "recv")
<1>1. LabelsTyped
  BY TypeParts
<1>2. QED
  BY <1>1, Moves DEF Network, Connect, DropConnection, ResetConnection, LabelsKept, Goto

\* A step that only moves its thread leaves the labels of the others right.
LEMMA OthersLabels ==
  ASSUME LabelsOK, NEW t \in Conn, LabelsKept(t), AssetsKept(t), OthersFade(t)
  PROVE  /\ \A a \in AssetConn \ {t} : AssetLabelOK(a)'
         /\ \A c \in ControllerConn \ {t} : ControllerLabelOK(c)'
  BY DEF LabelsOK, LabelsKept, AssetsKept, OthersFade, Fades, AssetLabelOK, ControllerLabelOK, Conn

\* A crash stops all threads.
LEMMA CrashLabels ==
  ASSUME LabelsOK, Crash, \A d \in ControllerConn : Fades(d)
  PROVE  LabelsOK'
<1>1. \A t \in Conn : pc'[t] \in {"done", "crashed"}
  BY DEF Crash
<1>2. \A a \in AssetConn : AssetLabelOK(a)'
  BY <1>1 DEF AssetLabelOK, AssetPC, SendPC, LogoutPC, Conn
<1>3. \A c \in ControllerConn : ControllerLabelOK(c)'
  BY <1>1 DEF LabelsOK, ControllerLabelOK, ControllerPC, LogoutPC, RequestPC, NamelessPC, Conn, Fades
<1>4. QED
  BY <1>2, <1>3 DEF LabelsOK

\* Where a step takes an asset's thread.
LEMMA AssetOwnLabel ==
  ASSUME TypeOK, Built, NEW a \in AssetConn, AssetAction(a), ~Crash
  PROVE  AssetLabelOK(a)'
<1>1. LabelsTyped /\ UsersTyped /\ a \in Conn /\ AssetLabelOK(a)
  BY TypeParts DEF Conn, Built, LabelsOK
<1>2. CASE LoginAsset(a) \/ ConfirmAsset(a) \/ RefreshAsset(a)
  <2>1. pc'[a] \in {"confirm", "recv"}
    BY <1>1, <1>2, Moves DEF LoginAsset, ConfirmAsset, RefreshAsset
  <2>2. QED
    BY <2>1 DEF AssetLabelOK, AssetPC, SendPC, LogoutPC
<1>3. CASE BeginSend(a) \/ CheckOnline(a)
  <2>1. asset' = asset
    BY <1>3 DEF BeginSend, CheckOnline, OnlyReads, users
  <2>2. (pc'[a] \in {"write", "logout"} /\ task'[a] = task[a]) \/ pc'[a] = AfterLogout(a)
    BY <1>1, <1>3, Moves DEF BeginSend, CheckOnline, SendFailed
  <2>3. AfterLogout(a) \in {"refresh", "done", "recv"}
    BY DEF AfterLogout
  <2>4. pc[a] \in SendPC
    BY <1>3 DEF BeginSend, CheckOnline, SendPC
  <2>5. QED
    BY <1>1, <2>1, <2>2, <2>3, <2>4 DEF AssetLabelOK, AssetPC, SendPC, LogoutPC
<1>4. CASE Write(a)
  <2>1. asset' = asset
    BY <1>4 DEF Write, users
  <2>2. (pc'[a] = "check" /\ task'[a] = task[a]) \/ pc'[a] = "recv" \/ pc'[a] = AfterLogout(a)
    BY <1>1, <1>4, Moves DEF Write, SendFailed, SendResults
  <2>3. AfterLogout(a) \in {"refresh", "done", "recv"}
    BY DEF AfterLogout
  <2>4. pc[a] \in SendPC
    BY <1>4 DEF Write, SendPC
  <2>5. QED
    BY <1>1, <2>1, <2>2, <2>3, <2>4 DEF AssetLabelOK, AssetPC, SendPC, LogoutPC
<1>5. CASE Heartbeat(a)
  <2>1. PICK u \in AssetUser : /\ asset' = [asset EXCEPT ![a] = u]
                               /\ ~NullOwner(u)
                               /\ IF u.isConnected THEN Call(a, "send", "HEARTBEAT") ELSE Goto(a, "recv")
    BY <1>1, <1>5, RefreshedType, UserTypes DEF Heartbeat
  <2>2. asset'[a] = u
    BY <1>1, <2>1 DEF UsersTyped
  <2>3. \/ pc'[a] = "recv"
        \/ pc'[a] = "send" /\ task'[a] = "HEARTBEAT" /\ u.isConnected
    BY <1>1, <2>1, Moves
  <2>4. QED
    BY <2>1, <2>2, <2>3 DEF AssetLabelOK, AssetPC, SendPC, LogoutPC, AssetTask, NullOwner
<1>6. CASE Pong(a)
  <2>1. asset' = asset /\ asset[a].owner # None /\ Call(a, "send", "PONG")
    BY <1>6 DEF Pong, OnlyReads, users
  <2>2. pc'[a] = "send" /\ task'[a] = "PONG"
    BY <1>1, <2>1, Moves
  <2>3. QED
    BY <2>1, <2>2 DEF AssetLabelOK, AssetPC, SendPC, LogoutPC, AssetTask
<1>7. CASE LogoutMessageFromAsset(a)
  <2>1. pc'[a] = "recv"
    BY <1>7 DEF LogoutMessageFromAsset
  <2>2. QED
    BY <2>1 DEF AssetLabelOK, AssetPC, SendPC, LogoutPC
<1>8. CASE DisconnectAsset(a)
  <2>1. pc'[a] = "done"
    BY <1>1, <1>8, Moves DEF DisconnectAsset
  <2>2. QED
    BY <2>1 DEF AssetLabelOK, AssetPC, SendPC, LogoutPC
<1>9. QED
  BY <1>2, <1>3, <1>4, <1>5, <1>6, <1>7, <1>8 DEF AssetAction, AssetStep, AssetMessage

\* Where a step of a logout takes its thread.
LEMMA LogoutLabel ==
  ASSUME TypeOK, NEW t \in Conn, LogoutStep(t)
  PROVE  \/ pc'[t] \in LogoutPC \ {"logout"} /\ task'[t] = task[t]
         \/ pc'[t] = AfterLogout(t) /\ pc[t] = "offline"
<1>1. LabelsTyped
  BY TypeParts
<1>2. CASE Offline(t)
  BY <1>1, <1>2, Moves DEF Offline
<1>3. CASE ~Offline(t)
  BY <1>1, <1>3, Moves DEF LogoutStep, Logout, Unlink, Disown, PutUnpaired, Unpair, Unauthenticate,
                          Writes, LogoutPC
<1>4. QED
  BY <1>2, <1>3

\* The label of the thread after a step of a logout.
LEMMA LogoutOwnLabel ==
  ASSUME TypeOK, Built, NEW t \in Conn, LogoutStep(t)
  PROVE  /\ t \in AssetConn => AssetLabelOK(t)'
         /\ t \in ControllerConn => ControllerLabelOK(t)'
<1>1. pc[t] \in LogoutPC /\ asset' = asset /\ \A d \in ControllerConn : Fades(d)
  BY LogoutFrame
<1>2. AfterLogout(t) \in {"refresh", "done", "recv"}
  BY DEF AfterLogout
<1>3. CASE t \in AssetConn
  <2>1. AssetLabelOK(t)
    BY <1>3 DEF Built, LabelsOK
  <2>2. AssetLabelOK(t)'
    BY <1>1, <1>2, <2>1, LogoutLabel DEF AssetLabelOK, AssetPC, SendPC, LogoutPC
  <2>3. QED
    BY <1>3, <2>2, ConnAssumption
<1>4. CASE t \in ControllerConn
  <2>1. ControllerLabelOK(t) /\ Fades(t)
    BY <1>1, <1>4 DEF Built, LabelsOK
  <2>2. AfterLogout(t) # "refresh"
    BY <1>1, <2>1 DEF AfterLogout, ControllerLabelOK
  <2>3. pc[t] \notin NamelessPC
    BY <1>1 DEF LogoutPC, NamelessPC
  <2>4. ControllerLabelOK(t)'
    BY <1>1, <1>2, <2>1, <2>2, <2>3, LogoutLabel
       DEF ControllerLabelOK, Fades, ControllerPC, LogoutPC, RequestPC, NamelessPC
  <2>5. QED
    BY <1>4, <2>4, ConnAssumption
<1>5. QED
  BY <1>3, <1>4 DEF Conn

\* What a thread that is over with a request does next.
LEMMA OverLabel ==
  ASSUME LabelsTyped, NEW c \in ControllerConn, NEW granted \in BOOLEAN,
         task[c] \in {"login", "again", "COMMAND"}, RequestOver(c, granted)
  PROVE  \/ task[c] = "login" /\ pc'[c] = "authenticated"
         \/ task[c] = "again" /\ pc'[c] = (IF granted THEN "confirm" ELSE "recv")
         \/ task[c] = "COMMAND" /\ pc'[c] = "paired" /\ task'[c] = task[c]
<1>1. c \in Conn
  BY OwnTarget
<1>2. QED
  BY <1>1, Moves DEF RequestOver

\* The label and the address after a step that stays inside the request.
LEMMA InsideLabel ==
  ASSUME NEW c \in ControllerConn, ControllerLabelOK(c), task'[c] = task[c],
         pc[c] \in RequestPC, pc'[c] \in RequestPC, ctrl'[c].at = ctrl[c].at
  PROVE  ControllerLabelOK(c)'
  BY DEF ControllerLabelOK, RequestPC, ControllerPC, LogoutPC, NamelessPC

\* Where a step takes a controller's thread.
LEMMA ControllerOwnLabel ==
  ASSUME TypeOK, Built, NEW c \in ControllerConn, ControllerAction(c)
  PROVE  ControllerLabelOK(c)'
<1>1. LabelsTyped /\ UsersTyped /\ c \in Conn /\ ControllerLabelOK(c) /\ ctrl[c] \in ControllerUser
  BY TypeParts, OwnTarget, UserTypes DEF Built, LabelsOK
<1>2. CASE LoginController(c)
  <2>1. pc'[c] = "authenticate" /\ task'[c] = "login"
    BY <1>1, <1>2, Moves DEF LoginController
  <2>2. ctrl'[c].at # None
    BY <1>1, <1>2, NoneAssumption DEF LoginController, UsersTyped, ControllerUser
  <2>3. QED
    BY <2>1, <2>2 DEF ControllerLabelOK, ControllerPC, LogoutPC, RequestPC
<1>3. CASE ControllerReads(c)
  <2>1. ctrl' = ctrl
    BY <1>3, ReadsFrame DEF users
  <2>2. CASE RequestAgain(c)
    <3>1. (pc'[c] = "get" /\ task'[c] = "again") \/ pc'[c] = "recv"
      BY <1>1, <2>2, Moves DEF RequestAgain
    <3>2. pc[c] = "authenticated"
      BY <2>2 DEF RequestAgain
    <3>3. QED
      BY <1>1, <2>1, <3>1, <3>2 DEF ControllerLabelOK, ControllerPC, LogoutPC, RequestPC, NamelessPC
  <2>3. CASE ConfirmController(c)
    <3>1. (pc'[c] = "logout" /\ task'[c] = "confirm") \/ pc'[c] = "recv"
      BY <1>1, <2>3, Moves DEF ConfirmController
    <3>2. pc[c] = "confirm"
      BY <2>3 DEF ConfirmController
    <3>3. QED
      BY <1>1, <2>1, <3>1, <3>2 DEF ControllerLabelOK, ControllerPC, LogoutPC, RequestPC, NamelessPC
  <2>4. CASE Command(c) \/ Ping(c)
    <3>1. pc'[c] \in {"forward", "get"} /\ task'[c] \in {"COMMAND", "PING"}
          /\ (pc'[c] = "get" => task'[c] = "COMMAND") /\ ctrl[c].isAuthenticated
      <4>1. CASE Ping(c)
        <5>1. Call(c, "forward", "PING") /\ ctrl[c].isAuthenticated
          BY <4>1 DEF Ping
        <5>2. pc'[c] = "forward" /\ task'[c] = "PING"
          BY <1>1, <5>1, Moves
        <5>3. QED
          BY <5>1, <5>2
      <4>2. CASE Command(c) /\ ctrl[c].isConnected
        BY <1>1, <4>2, Moves DEF Command
      <4>3. CASE Command(c) /\ ~ctrl[c].isConnected
        BY <1>1, <4>3, Moves DEF Command
      <4>4. QED
        BY <2>4, <4>1, <4>2, <4>3
    <3>2. QED
      BY <1>1, <2>1, <3>1 DEF ControllerLabelOK, ControllerPC, LogoutPC, RequestPC, NamelessPC
  <2>5. CASE CommandAfterRequest(c)
    <3>1. (pc'[c] = "forward" /\ task'[c] = task[c]) \/ pc'[c] = "recv"
      BY <1>1, <2>5, Moves DEF CommandAfterRequest
    <3>2. pc[c] = "paired"
      BY <2>5 DEF CommandAfterRequest
    <3>3. QED
      BY <1>1, <2>1, <3>1, <3>2 DEF ControllerLabelOK, ControllerPC, LogoutPC, RequestPC, NamelessPC
  <2>6. CASE LogoutMessageFromController(c)
    <3>1. pc'[c] = "logout" /\ task'[c] = "message" /\ ctrl[c].isAuthenticated
      BY <1>1, <2>6, Moves DEF LogoutMessageFromController
    <3>2. QED
      BY <1>1, <2>1, <3>1 DEF ControllerLabelOK, ControllerPC, LogoutPC, RequestPC, NamelessPC
  <2>7. CASE DisconnectController(c)
    <3>1. pc'[c] = "done" \/ (pc'[c] = "logout" /\ task'[c] = "end" /\ ctrl[c].at # None)
      BY <1>1, <2>7, Moves DEF DisconnectController
    <3>2. QED
      BY <1>1, <2>1, <3>1 DEF ControllerLabelOK, ControllerPC, LogoutPC, RequestPC, NamelessPC
  <2>8. QED
    BY <1>3, <2>2, <2>3, <2>4, <2>5, <2>6, <2>7 DEF ControllerReads
<1>4. CASE ControllerWrites(c)
  <2>1. pc[c] \in RequestPC /\ pc'[c] \in RequestPC /\ task'[c] = task[c]
    BY <1>1, <1>4, Moves
       DEF ControllerWrites, Authenticate, ComeOnline, SetOwner, Link, Pair, Writes, RequestPC
  <2>2. QED
    BY <1>1, <1>4, <2>1, WritesFrame, InsideLabel
<1>5. CASE GetAsset(c)
  <2>1. ctrl'[c].at = ctrl[c].at
    BY <1>1, <1>5 DEF GetAsset, UsersTyped, ControllerUser
  <2>2. pc[c] \in RequestPC
    BY <1>5 DEF GetAsset, RequestPC
  <2>3. CASE assets # None /\ assets.isOnline
    <3>1. pc'[c] \in RequestPC /\ task'[c] = task[c]
      BY <1>1, <1>5, <2>3, Moves DEF GetAsset, RequestPC
    <3>2. QED
      BY <1>1, <2>1, <2>2, <3>1, InsideLabel
  <2>4. CASE ~(assets # None /\ assets.isOnline)
    <3>1. RequestOver(c, FALSE)
      BY <1>5, <2>4 DEF GetAsset
    <3>2. pc'[c] \in {"authenticated", "recv", "paired"} /\ (pc'[c] = "paired" => task'[c] = "COMMAND")
      BY <1>1, <2>2, <3>1, OverLabel, RequestTask
    <3>3. QED
      BY <1>1, <2>1, <2>2, <3>2
         DEF ControllerLabelOK, ControllerPC, LogoutPC, RequestPC, NamelessPC
  <2>5. QED
    BY <2>3, <2>4
<1>6. CASE PutAsset(c)
  <2>1. ctrl' = ctrl /\ pc[c] \in RequestPC /\ RequestOver(c, TRUE)
    BY <1>6 DEF PutAsset, RequestPC
  <2>2. pc'[c] \in {"authenticated", "confirm", "paired"} /\ (pc'[c] = "paired" => task'[c] = "COMMAND")
    BY <1>1, <2>1, OverLabel, RequestTask
  <2>3. QED
    BY <1>1, <2>1, <2>2 DEF ControllerLabelOK, ControllerPC, LogoutPC, RequestPC, NamelessPC
<1>7. CASE ForwardToCopy(c)
  <2>1. pc'[c] \in {"recv", "done", "crashed"}
    BY <1>1, <1>7, Moves DEF ForwardToCopy, Crash
  <2>2. ctrl'[c].at = ctrl[c].at
    BY <1>7, ControllerFrame, <1>1 DEF LoginController, ForwardToCopy
  <2>3. pc[c] = "forward"
    BY <1>7 DEF ForwardToCopy
  <2>4. QED
    BY <1>1, <2>1, <2>2, <2>3 DEF ControllerLabelOK, ControllerPC, LogoutPC, RequestPC, NamelessPC
<1>8. QED
  BY <1>2, <1>3, <1>4, <1>5, <1>6, <1>7, ControllerActions

\* Labels, addresses and tasks keep agreeing.
LEMMA LabelsStep ==
  ASSUME TypeOK, Built, Step
  PROVE  LabelsOK'
<1>1. LabelsTyped /\ UsersTyped /\ LabelsOK
  BY TypeParts DEF Built
<1>2. ASSUME NEW t \in Conn, LabelsKept(t), AssetsKept(t), OthersFade(t),
             t \in AssetConn => AssetLabelOK(t)', t \in ControllerConn => ControllerLabelOK(t)'
      PROVE  LabelsOK'
  BY <1>1, <1>2, OthersLabels DEF LabelsOK
<1>3. ASSUME NEW c \in Conn, Network(c)
      PROVE  LabelsOK'
  <2>1. LabelsKept(c) /\ asset' = asset /\ ctrl' = ctrl /\ task' = task
    BY <1>3, NetworkFrame DEF users
  <2>2. AssetsKept(c) /\ OthersFade(c)
    BY <2>1, SameFades DEF AssetsKept, OthersFade
  <2>3. pc'[c] = pc[c] \/ pc'[c] = "recv"
    BY <1>3, NetworkFrame
  <2>4. c \in AssetConn => AssetLabelOK(c)'
    BY <1>1, <2>1, <2>3 DEF LabelsOK, AssetLabelOK, AssetPC, SendPC, LogoutPC
  <2>5. c \in ControllerConn => ControllerLabelOK(c)'
    BY <1>1, <2>1, <2>3 DEF LabelsOK, ControllerLabelOK, ControllerPC, RequestPC, LogoutPC, NamelessPC
  <2>6. QED
    BY <1>2, <2>1, <2>2, <2>4, <2>5
<1>4. ASSUME NEW t \in Conn, LogoutStep(t)
      PROVE  LabelsOK'
  BY <1>2, <1>4, LogoutFrame, LogoutOwnLabel DEF AssetsKept, OthersFade
<1>5. ASSUME NEW a \in AssetConn, AssetAction(a)
      PROVE  LabelsOK'
  <2>1. CASE Crash
    BY <1>1, <1>5, <2>1, AssetFrame, CrashLabels
  <2>2. CASE ~Crash
    <3>1. AssetLabelOK(a)'
      BY <1>5, <2>2, AssetOwnLabel
    <3>2. QED
      BY <1>2, <1>5, <2>2, <3>1, AssetFrame, ConnAssumption DEF OthersFade, Conn
  <2>3. QED
    BY <2>1, <2>2
<1>6. ASSUME NEW c \in ControllerConn, ControllerAction(c)
      PROVE  LabelsOK'
  <2>1. CASE Crash /\ UNCHANGED users
    BY <1>1, <2>1, CrashLabels, SameFades DEF users
  <2>2. CASE LabelsKept(c)
    <3>1. ControllerLabelOK(c)'
      BY <1>6, ControllerOwnLabel
    <3>2. QED
      BY <1>2, <1>6, <2>2, <3>1, ControllerFrame, ConnAssumption DEF AssetsKept, Conn
  <2>3. QED
    BY <1>6, <2>1, <2>2, ControllerFrame
<1>7. QED
  BY <1>3, <1>4, <1>5, <1>6 DEF Step, AssetAction, ControllerAction

-----------------------------------------------------------------------------
(* Built is kept: addresses, owners and sockets. *)

\* A thread that has ended stays so.
LEMMA DoneStays ==
  ASSUME TypeOK, Built, Step, NEW d \in Conn, pc[d] = "done"
  PROVE  pc'[d] = "done"
<1>1. LabelsTyped
  BY TypeParts
<1>2. Crash => pc'[d] = "done"
  BY DEF Crash
<1>3. ASSUME NEW t \in Conn, LabelsKept(t), pc[t] # "done"
      PROVE  pc'[d] = "done"
  BY <1>3 DEF LabelsKept
<1>4. ASSUME NEW t \in Conn, Network(t)
      PROVE  pc'[d] = "done"
  BY <1>4, NetworkFrame DEF LabelsKept
<1>5. ASSUME NEW t \in Conn, LogoutStep(t)
      PROVE  pc'[d] = "done"
  BY <1>3, <1>5, LogoutFrame DEF LogoutPC
<1>6. ASSUME NEW a \in AssetConn, AssetAction(a)
      PROVE  pc'[d] = "done"
  BY <1>2, <1>3, <1>6, AssetFrame DEF Conn
<1>7. ASSUME NEW c \in ControllerConn, ControllerAction(c)
      PROVE  pc'[d] = "done"
  BY <1>2, <1>3, <1>7, ControllerFrame DEF Conn
<1>8. QED
  BY <1>4, <1>5, <1>6, <1>7 DEF Step, AssetAction, ControllerAction

\* Only the first login of a controller gives it an address.
LEMMA AddressesKept ==
  ASSUME TypeOK, Built, Step, ~\E c \in ControllerConn : LoginController(c)
  PROVE  cell' = cell /\ \A d \in ControllerConn : ctrl'[d].at = ctrl[d].at
<1>1. ASSUME NEW t \in Conn, Network(t)
      PROVE  cell' = cell /\ \A d \in ControllerConn : ctrl'[d].at = ctrl[d].at
  BY <1>1, NetworkFrame DEF users
<1>2. ASSUME NEW t \in Conn, LogoutStep(t)
      PROVE  cell' = cell /\ \A d \in ControllerConn : ctrl'[d].at = ctrl[d].at
  BY <1>2, LogoutFrame DEF Fades
<1>3. ASSUME NEW a \in AssetConn, AssetAction(a)
      PROVE  cell' = cell /\ \A d \in ControllerConn : ctrl'[d].at = ctrl[d].at
  BY <1>3, AssetFrame DEF Fades
<1>4. ASSUME NEW c \in ControllerConn, ControllerAction(c)
      PROVE  cell' = cell /\ \A d \in ControllerConn : ctrl'[d].at = ctrl[d].at
  BY <1>4, ControllerFrame DEF Fades, OthersFade
<1>5. QED
  BY <1>1, <1>2, <1>3, <1>4 DEF Step, AssetAction, ControllerAction

\* What a login does to the addresses.
LEMMA LoginAddresses ==
  ASSUME TypeOK, Built, NEW c \in ControllerConn, LoginController(c)
  PROVE  /\ \A d \in ControllerConn \ {c} : ctrl'[d] = ctrl[d]
         /\ pc[c] = "recv" /\ pc'[c] = "authenticate" /\ LabelsKept(c)
         /\ \/ ctrl' = ctrl /\ cell' = cell
            \/ \E p \in Addr :
                 /\ ~Live(p) /\ ctrl[c].at = None
                 /\ cell' = [cell EXCEPT ![p] = c]
                 /\ ctrl' = [ctrl EXCEPT ![c].at = p]
                 /\ ctrl'[c].at = p /\ ctrl'[c].asset = ctrl[c].asset
<1>1. LabelsTyped /\ UsersTyped /\ c \in Conn /\ ctrl[c] \in ControllerUser
  BY TypeParts, OwnTarget, UserTypes
<1>2. LabelsKept(c) /\ pc[c] = "recv" /\ pc'[c] = "authenticate"
  BY <1>1, Moves DEF LoginController
<1>3. CASE ctrl[c].at # None
  BY <1>2, <1>3 DEF LoginController
<1>4. CASE ctrl[c].at = None
  <2>1. PICK p \in Addr : ~Live(p) /\ ctrl' = [ctrl EXCEPT ![c].at = p] /\ cell' = [cell EXCEPT ![p] = c]
    BY <1>4 DEF LoginController
  <2>2. ctrl'[c].at = p /\ ctrl'[c].asset = ctrl[c].asset
    BY <1>1, <2>1 DEF UsersTyped, ControllerUser
  <2>3. \A d \in ControllerConn \ {c} : ctrl'[d] = ctrl[d]
    BY <1>1, <2>1 DEF UsersTyped
  <2>4. QED
    BY <1>2, <1>4, <2>1, <2>2, <2>3
<1>5. QED
  BY <1>3, <1>4

\* An address keeps naming the last object built there.
LEMMA CellsStep ==
  ASSUME TypeOK, Built, Step
  PROVE  CellsOK'
<1>1. UsersTyped /\ CellsOK
  BY TypeParts DEF Built
<1>2. CASE cell' = cell /\ \A d \in ControllerConn : ctrl'[d].at = ctrl[d].at
  BY <1>1, <1>2, DoneStays DEF CellsOK, UsersTyped, Conn
<1>3. CASE ~(cell' = cell /\ \A d \in ControllerConn : ctrl'[d].at = ctrl[d].at)
  <2>1. PICK c \in ControllerConn : LoginController(c)
    BY <1>3, AddressesKept
  <2>2. PICK p \in Addr : /\ ~Live(p) /\ ctrl[c].at = None
                          /\ cell' = [cell EXCEPT ![p] = c]
                          /\ ctrl'[c].at = p
    BY <1>3, <2>1, LoginAddresses
  <2>3. \A d \in ControllerConn \ {c} : ctrl'[d] = ctrl[d]
    BY <2>1, LoginAddresses
  <2>4. p # None /\ None \notin ControllerConn
    BY NoneAssumption DEF Conn
  <2>5. cell'[p] = c /\ \A q \in Addr \ {p} : cell'[q] = cell[q]
    BY <1>1, <2>2 DEF UsersTyped
  <2>6. ASSUME NEW q \in Addr, cell'[q] # None
        PROVE  ctrl'[cell'[q]].at = q
    <3>1. CASE q = p
      BY <2>2, <2>5, <3>1
    <3>2. CASE q # p
      <4>1. cell[q] \in ControllerConn /\ ctrl[cell[q]].at = q
        BY <1>1, <2>5, <2>6, <3>2 DEF UsersTyped, CellsOK
      <4>2. cell[q] # c
        BY <2>2, <4>1, NoneAssumption
      <4>3. QED
        BY <2>3, <2>5, <3>2, <4>1, <4>2
    <3>3. QED
      BY <3>1, <3>2
  <2>7. ASSUME NEW d \in ControllerConn, ctrl'[d].at # None
        PROVE  cell'[ctrl'[d].at] # None /\ (pc'[d] # "done" => cell'[ctrl'[d].at] = d)
    <3>1. CASE d = c
      BY <2>2, <2>4, <2>5, <3>1
    <3>2. CASE d # c
      <4>1. ctrl'[d].at = ctrl[d].at /\ ctrl[d].at \in Addr
        BY <1>1, <2>3, <2>7, <3>2, UserTypes DEF ControllerUser
      <4>2. pc'[d] = pc[d]
        BY <2>1, <3>2, LoginAddresses DEF LabelsKept, Conn
      <4>3. cell[ctrl[d].at] # None /\ (pc[d] # "done" => cell[ctrl[d].at] = d)
        BY <1>1, <2>7, <4>1 DEF CellsOK
      <4>4. pc[d] # "done" => ctrl[d].at # p
        BY <2>2 DEF Live
      <4>5. QED
        BY <2>4, <2>5, <4>1, <4>2, <4>3, <4>4
    <3>3. QED
      BY <3>1, <3>2
  <2>8. QED
    BY <2>6, <2>7 DEF CellsOK
<1>4. QED
  BY <1>2, <1>3

\* Pointers to built objects stay such.
LEMMA OwnersStay ==
  ASSUME TypeOK, Built, Step, NEW u \in AssetUser, OwnerBuilt(u)
  PROVE  u.owner # None => cell'[u.owner] # None
<1>1. UsersTyped
  BY TypeParts
<1>2. CASE cell' = cell
  BY <1>2 DEF OwnerBuilt
<1>3. CASE cell' # cell
  <2>1. PICK c \in ControllerConn, p \in Addr : cell' = [cell EXCEPT ![p] = c]
    BY <1>3, AddressesKept, LoginAddresses
  <2>2. c # None
    BY NoneAssumption DEF Conn
  <2>3. QED
    BY <1>1, <2>1, <2>2 DEF UsersTyped, OwnerBuilt, AssetUser
<1>4. QED
  BY <1>2, <1>3

\* A record that a step writes may stay: its owner was built, and it has a socket.
Sound(u) == OwnerBuilt(u) /\ Socketed(u)

\* A logged-out record is sound, and so is one whose flags and owner fade.
LEMMA LoggedOutSound ==
  ASSUME NEW u \in AssetUser, OwnerBuilt(u)
  PROVE  Sound(LoggedOutAsset(u))
  BY LoggedOutFields DEF Sound, OwnerBuilt, Socketed

\* What others clear in a controller's copy leaves it sound.
LEMMA FadesSound ==
  ASSUME NEW d \in ControllerConn, Fades(d), Sound(ctrl[d].asset)
  PROVE  Sound(ctrl'[d].asset)
  BY DEF Fades, Sound, OwnerBuilt, Socketed

\* The asset objects and the records that an asset's thread writes.
LEMMA AssetSound ==
  ASSUME TypeOK, Built, NEW a \in AssetConn, AssetAction(a)
  PROVE  /\ Sound(asset'[a])
         /\ assets' # assets => OwnerBuilt(assets')
<1>1. UsersTyped /\ asset[a] \in AssetUser /\ Sound(asset[a])
  BY TypeParts, UserTypes DEF Built, RecordsBuilt, Sound
<1>2. assets # None => Sound(assets)
  BY <1>1, UserTypes DEF Built, RecordsBuilt, Sound, Socketed
<1>3. CASE LoginAsset(a)
  <2>1. PICK u \in AssetUser : /\ u.fd # None /\ u.owner = asset[a].owner
                               /\ u = [BuiltAsset(a) EXCEPT !.isAuthenticated = TRUE, !.isOnline = TRUE]
    BY <1>1, BuiltAssetFields, LoggedInType
  <2>2. asset'[a] = u /\ assets' = u
    BY <1>1, <1>3, <2>1 DEF LoginAsset, UsersTyped
  <2>3. QED
    BY <1>1, <2>1, <2>2 DEF Sound, OwnerBuilt, Socketed
<1>4. CASE LogoutAsset(a)
  <2>1. asset'[a] = LoggedOutAsset(asset[a]) /\ assets' = assets
    BY <1>1, <1>4 DEF LogoutAsset, UsersTyped
  <2>2. QED
    BY <1>1, <2>1, LoggedOutSound DEF Sound
<1>5. CASE Heartbeat(a) \/ RefreshAsset(a)
  <2>1. asset'[a] \in {asset[a], Refreshed(a)} /\ assets' = assets
    BY <1>1, <1>5 DEF Heartbeat, RefreshAsset, UsersTyped
  <2>2. QED
    BY <1>1, <1>2, <2>1 DEF Refreshed
<1>6. CASE asset' = asset /\ assets' = assets
  BY <1>1, <1>6
<1>7. QED
  BY <1>3, <1>4, <1>5, <1>6
     DEF AssetAction, AssetStep, AssetMessage, DisconnectAsset, ConfirmAsset, BeginSend, Write,
         CheckOnline, Pong, LogoutMessageFromAsset, OnlyReads, users

\* The copy and the records that a controller's thread writes.
LEMMA ControllerSound ==
  ASSUME TypeOK, Built, NEW c \in ControllerConn, ControllerAction(c)
  PROVE  /\ Sound(ctrl'[c].asset)
         /\ assets' # assets => OwnerBuilt(assets')
<1>1. /\ UsersTyped /\ ctrl[c] \in ControllerUser /\ ctrl[c].asset \in AssetUser
      /\ Sound(ctrl[c].asset) /\ Target(c) = c
  BY TypeParts, UserTypes, OwnTarget DEF Built, RecordsBuilt, Sound
<1>2. assets # None => Sound(assets)
  BY <1>1, UserTypes DEF Built, RecordsBuilt, Sound, Socketed
<1>3. CASE LoginController(c)
  BY <1>1, <1>3, LoginAddresses DEF LoginController
<1>4. CASE ControllerReads(c)
  BY <1>1, <1>4, ReadsFrame DEF users
<1>5. CASE GetAsset(c)
  <2>1. ctrl'[c].asset \in {ctrl[c].asset, assets} /\ assets' = assets
        /\ (assets = None => ctrl'[c].asset = ctrl[c].asset)
    BY <1>1, <1>5 DEF GetAsset, UsersTyped, ControllerUser
  <2>2. QED
    BY <1>1, <1>2, <2>1
<1>6. CASE PutAsset(c)
  BY <1>1, <1>6 DEF PutAsset, Inserted, Sound
<1>7. CASE SetOwner(c)
  <2>1. /\ ctrl'[c].asset.owner = ctrl[c].at
        /\ ctrl'[c].asset.fd = ctrl[c].asset.fd
        /\ ctrl'[c].asset.isOnline = ctrl[c].asset.isOnline
        /\ assets' = assets
    BY <1>1, <1>7 DEF SetOwner, Writes, UsersTyped, ControllerUser, AssetUser
  <2>2. cell[ctrl[c].at] # None
    BY <1>7 DEF SetOwner, Writes, Built, LabelsOK, ControllerLabelOK, CellsOK, NamelessPC
  <2>3. QED
    BY <1>1, <2>1, <2>2 DEF Sound, OwnerBuilt, Socketed
<1>8. CASE Authenticate(c) \/ ComeOnline(c) \/ Link(c) \/ Pair(c)
  <2>1. /\ ctrl'[c].asset.owner = ctrl[c].asset.owner
        /\ ctrl'[c].asset.fd = ctrl[c].asset.fd
        /\ ctrl'[c].asset.isOnline = ctrl[c].asset.isOnline
        /\ assets' = assets
    BY <1>1, <1>8 DEF Authenticate, ComeOnline, Link, Pair, Writes, UsersTyped, ControllerUser, AssetUser
  <2>2. QED
    BY <1>1, <2>1 DEF Sound, OwnerBuilt, Socketed
<1>9. CASE ForwardToCopy(c) /\ LogoutCopy(c)
  <2>1. PICK f \in [ControllerConn -> ControllerUser] : f = Disowned(ctrl[c].asset)
    BY <1>1, DisownedFields
  <2>2. f[c].asset = ctrl[c].asset
    BY <1>1, <2>1, DisownedFields
  <2>3. ctrl' = [f EXCEPT ![c].asset = LoggedOutAsset(f[c].asset)] /\ assets' = assets
    BY <1>9, <2>1 DEF LogoutCopy
  <2>4. ctrl'[c].asset = LoggedOutAsset(ctrl[c].asset)
    BY <2>1, <2>2, <2>3 DEF ControllerUser
  <2>5. QED
    BY <1>1, <2>3, <2>4, LoggedOutSound DEF Sound
<1>10. CASE ForwardToCopy(c) /\ ~LogoutCopy(c)
  BY <1>1, <1>10 DEF ForwardToCopy
<1>11. QED
  BY <1>3, <1>4, <1>5, <1>6, <1>7, <1>8, <1>9, <1>10, ControllerActions DEF ControllerWrites

\* Pointers and sockets of all records keep standing for something.
LEMMA RecordsStep ==
  ASSUME TypeOK, Built, Step
  PROVE  RecordsBuilt'
<1>1. UsersTyped /\ UsersTyped'
  BY TypeParts, StepTypes DEF TypeOK, UsersTyped, Record
<1>2. /\ \A a \in AssetConn : Sound(asset[a])
      /\ \A d \in ControllerConn : Sound(ctrl[d].asset)
      /\ assets # None => OwnerBuilt(assets)
  BY DEF Built, RecordsBuilt, Sound
<1>3. /\ \A a \in AssetConn : Sound(asset'[a])
      /\ \A d \in ControllerConn : Sound(ctrl'[d].asset)
      /\ assets' # None => OwnerBuilt(assets')
  <2>1. ASSUME NEW t \in Conn, Network(t)
        PROVE  <1>3!:
    BY <1>2, <2>1, NetworkFrame DEF users
  <2>2. ASSUME NEW t \in Conn, LogoutStep(t)
        PROVE  <1>3!:
    <3>1. asset' = asset /\ \A d \in ControllerConn : Sound(ctrl'[d].asset)
      BY <1>2, <2>2, LogoutFrame, FadesSound
    <3>2. assets' = assets \/ assets' = ctrl[Target(t)].asset
      BY <2>2 DEF LogoutStep, Logout, Unlink, Disown, PutUnpaired, Unpair, Unauthenticate, Offline,
                  Writes, OnlyReads, users, Inserted
    <3>3. Target(t) \in ControllerConn
      BY <1>1, <2>2, LogoutFrame, TargetExists
    <3>4. QED
      BY <1>2, <3>1, <3>2, <3>3 DEF Sound
  <2>3. ASSUME NEW a \in AssetConn, AssetAction(a)
        PROVE  <1>3!:
    BY <1>2, <2>3, AssetFrame, AssetSound, FadesSound DEF AssetsKept
  <2>4. ASSUME NEW c \in ControllerConn, ControllerAction(c)
        PROVE  <1>3!:
    BY <1>2, <2>4, ControllerFrame, ControllerSound, FadesSound DEF OthersFade
  <2>5. QED
    BY <2>1, <2>2, <2>3, <2>4 DEF Step, AssetAction, ControllerAction
<1>4. /\ \A a \in AssetConn : asset'[a] \in AssetUser
      /\ \A d \in ControllerConn : ctrl'[d].asset \in AssetUser
      /\ assets' # None => assets' \in AssetUser
  BY <1>1 DEF UsersTyped, Record, ControllerUser
<1>5. \A a \in AssetConn : (OwnerBuilt(asset[a]) /\ Socketed(asset[a]))'
  BY <1>3, <1>4, OwnersStay DEF Sound, OwnerBuilt, Socketed
<1>6. \A d \in ControllerConn : (OwnerBuilt(ctrl[d].asset) /\ Socketed(ctrl[d].asset))'
  BY <1>3, <1>4, OwnersStay DEF Sound, OwnerBuilt, Socketed
<1>7. (assets # None => OwnerBuilt(assets))'
  BY <1>3, <1>4, OwnersStay DEF OwnerBuilt
<1>8. QED
  BY <1>5, <1>6, <1>7 DEF RecordsBuilt

\* Built is inductive.
LEMMA BuiltStep == TypeOK /\ Built /\ Step => Built'
  BY LabelsStep, CellsStep, RecordsStep DEF Built

-----------------------------------------------------------------------------
(* Tidy is kept unless threads race: what the cases have in common. *)

\* No null pointer is followed.
LEMMA NoCrash ==
  ASSUME TypeOK, Tidy
  PROVE  /\ \A a \in AssetConn : ~NullOwner(asset[a]) /\ ~NullOwner(Refreshed(a))
         /\ \A c \in ControllerConn : ~NullOwner(ctrl[c].asset)
  BY DEF Tidy, RecordsWhole, RequestsOK, RequestOK, Whole, NullOwner, Refreshed

\* The steps of an asset's thread move that thread only.
LEMMA AssetMoves ==
  ASSUME TypeOK, Built, Tidy, NEW a \in AssetConn, AssetAction(a)
  PROVE  LabelsKept(a)
<1>1. LabelsTyped /\ UsersTyped /\ a \in Conn
  BY TypeParts DEF Conn
<1>2. CASE LoginAsset(a) \/ ConfirmAsset(a) \/ RefreshAsset(a)
  BY <1>1, <1>2, Moves DEF LoginAsset, ConfirmAsset, RefreshAsset
<1>3. CASE BeginSend(a) \/ CheckOnline(a)
  BY <1>1, <1>3, Moves DEF BeginSend, CheckOnline, SendFailed
<1>4. CASE Write(a)
  BY <1>1, <1>4, Moves DEF Write, SendFailed, SendResults
<1>5. CASE Heartbeat(a) \/ Pong(a)
  BY <1>1, <1>5, Moves, NoCrash DEF Heartbeat, Pong
<1>6. CASE LogoutMessageFromAsset(a)
  BY <1>6, NoCrash DEF LogoutMessageFromAsset, LabelsKept
<1>7. CASE DisconnectAsset(a)
  BY <1>1, <1>7, Moves, NoCrash DEF DisconnectAsset
<1>8. QED
  BY <1>2, <1>3, <1>4, <1>5, <1>6, <1>7 DEF AssetAction, AssetStep, AssetMessage

\* So do those of a controller's thread; a failed send logs its copy out.
LEMMA ControllerMoves ==
  ASSUME TypeOK, Built, Tidy, NEW c \in ControllerConn, ControllerAction(c)
  PROVE  /\ LabelsKept(c)
         /\ ForwardToCopy(c) => LogoutCopy(c) \/ UNCHANGED users
<1>1. LabelsTyped /\ c \in Conn
  BY TypeParts, OwnTarget
<1>2. ForwardToCopy(c) => LabelsKept(c)
  BY <1>1, Moves, NoCrash DEF ForwardToCopy
<1>3. ForwardToCopy(c) => LogoutCopy(c) \/ UNCHANGED users
  BY DEF ForwardToCopy, users
<1>4. ~ForwardToCopy(c) => LabelsKept(c)
  <2>1. CASE LoginController(c)
    BY <2>1, LoginAddresses
  <2>2. CASE ControllerReads(c)
    BY <2>2, ReadsFrame
  <2>3. CASE ControllerWrites(c)
    BY <2>3, WritesFrame
  <2>4. CASE GetAsset(c)
    <3>1. RequestOver(c, FALSE) => LabelsKept(c)
      BY <1>1, <2>4, Moves, RequestTask DEF RequestOver, GetAsset, RequestPC
    <3>2. QED
      BY <1>1, <2>4, <3>1, Moves DEF GetAsset
  <2>5. CASE PutAsset(c)
    BY <1>1, <2>5, Moves, RequestTask DEF RequestOver, PutAsset, RequestPC
  <2>6. QED
    BY <2>1, <2>2, <2>3, <2>4, <2>5, ControllerActions
<1>5. QED
  BY <1>2, <1>3, <1>4

\* Of the controllers that a step does not act on, it clears at most the flag.
Untouched(d) ==
  /\ ctrl'[d].at = ctrl[d].at
  /\ ctrl'[d].asset = ctrl[d].asset
  /\ ctrl'[d].isConnected => ctrl[d].isConnected

\* An asset's thread acts on controllers only by logging them out.
LEMMA AssetUntouched ==
  ASSUME TypeOK, Built, NEW a \in AssetConn, AssetAction(a), NEW d \in ControllerConn
  PROVE  Untouched(d)
<1>1. UsersTyped /\ asset[a] \in AssetUser
  BY TypeParts, UserTypes
<1>2. CASE ctrl' = ctrl
  BY <1>2 DEF Untouched
<1>3. CASE LogoutAsset(a)
  BY <1>1, <1>3, DisownedFields DEF LogoutAsset, Untouched
<1>4. QED
  BY <1>2, <1>3
     DEF AssetAction, AssetStep, AssetMessage, DisconnectAsset, ConfirmAsset, BeginSend, Write,
         CheckOnline, RefreshAsset, LoginAsset, Heartbeat, Pong, LogoutMessageFromAsset,
         OnlyReads, users

\* A controller's thread acts on its own object.
LEMMA ControllerUntouched ==
  ASSUME TypeOK, Built, NEW c \in ControllerConn, ControllerAction(c), NEW d \in ControllerConn,
         d # c \/ ControllerReads(c)
  PROVE  Untouched(d)
<1>1. UsersTyped /\ ctrl[c].asset \in AssetUser
  BY TypeParts, UserTypes
<1>2. CASE LoginController(c) \/ ControllerReads(c) \/ ControllerWrites(c)
  BY <1>2, LoginAddresses, ReadsFrame, WritesFrame DEF Untouched, users
<1>3. CASE GetAsset(c) /\ d # c
  BY <1>1, <1>3 DEF GetAsset, UsersTyped, Untouched
<1>4. CASE PutAsset(c) \/ (ForwardToCopy(c) /\ ~LogoutCopy(c))
  BY <1>4 DEF PutAsset, ForwardToCopy, Untouched
<1>5. CASE LogoutCopy(c) /\ d # c
  <2>1. PICK f \in [ControllerConn -> ControllerUser] : f = Disowned(ctrl[c].asset)
    BY <1>1, DisownedFields
  <2>2. ctrl' = [f EXCEPT ![c].asset = LoggedOutAsset(f[c].asset)]
    BY <1>5, <2>1 DEF LogoutCopy
  <2>3. ctrl'[d] = Disowned(ctrl[c].asset)[d]
    BY <1>5, <2>1, <2>2
  <2>4. QED
    BY <1>1, <2>3, DisownedFields DEF Untouched
<1>6. QED
  BY <1>2, <1>3, <1>4, <1>5, ControllerActions
     DEF ControllerReads, RequestAgain, ConfirmController, CommandAfterRequest, Command, Ping,
         LogoutMessageFromController, DisconnectController, GetAsset, PutAsset, ForwardToCopy

\* Whoever holds _send_mutex keeps assets' threads from logging controllers out.
LEMMA MutexExcludes ==
  ASSUME Built, SendMutexFree, NEW a \in AssetConn
  PROVE  pc[a] \notin LogoutPC
  BY DEF Built, LabelsOK, AssetLabelOK, SendMutexFree, Sending, Conn

\* A failed send to the copy clears the controller's own flag.
LEMMA ForwardClears ==
  ASSUME TypeOK, Built, Tidy, NEW c \in ControllerConn, ForwardToCopy(c), LogoutCopy(c)
  PROVE  /\ ~ctrl'[c].isConnected
         /\ ctrl'[c].at = ctrl[c].at
         /\ ctrl'[c].asset = LoggedOutAsset(ctrl[c].asset)
         /\ ~Unlinked(c)
<1>1. UsersTyped /\ ctrl[c] \in ControllerUser /\ ctrl[c].asset \in AssetUser /\ c \in Conn
  BY TypeParts, UserTypes, OwnTarget
<1>2. pc[c] = "forward" /\ SendMutexFree
  BY DEF ForwardToCopy
<1>3. ~Unlinked(c)
  BY <1>2, MutexExcludes, OwnTarget DEF Unlinked, LogoutPC, Conn
<1>4. ctrl[c].isConnected => ctrl[c].asset.isConnected /\ cell[ctrl[c].asset.owner] = c
  BY <1>2, <1>3 DEF Tidy, PairsLinked, Linked, Built, LabelsOK, ControllerLabelOK, CellsOK, NamelessPC
<1>5. PICK f \in [ControllerConn -> ControllerUser] : f = Disowned(ctrl[c].asset)
  BY <1>1, DisownedFields
<1>6. /\ ~f[c].isConnected
      /\ f[c].at = ctrl[c].at
      /\ f[c].asset = ctrl[c].asset
  BY <1>1, <1>4, <1>5, DisownedFields
<1>7. ctrl' = [f EXCEPT ![c].asset = LoggedOutAsset(f[c].asset)]
  BY <1>5 DEF LogoutCopy
<1>8. /\ ctrl'[c].isConnected = f[c].isConnected
      /\ ctrl'[c].at = f[c].at
      /\ ctrl'[c].asset = LoggedOutAsset(f[c].asset)
  BY <1>5, <1>7 DEF ControllerUser
<1>9. QED
  BY <1>3, <1>6, <1>8

\* A thread that logs a controller out, or is about to, keeps its target.
LEMMA TargetsStay ==
  ASSUME TypeOK, Built, Tidy, Step, NEW t \in Conn, pc[t] \in ActingPC, pc'[t] \in ActingPC
  PROVE  Target(t)' = Target(t)
<1>1. UsersTyped
  BY TypeParts
<1>2. CASE t \notin AssetConn
  BY <1>2 DEF Target
<1>3. CASE t \in AssetConn
  <2>1. pc[t] \in SendPC \cup LogoutPC
    BY DEF ActingPC, SendPC
  <2>2. Target(t) \in ControllerConn /\ Target(t) = cell[asset[t].owner] /\ asset[t].owner \in Addr
    BY <1>1, <1>3, <2>1, TargetExists, UserTypes
       DEF Target, AssetUser, Built, LabelsOK, AssetLabelOK
  <2>3. asset'[t].owner = asset[t].owner
    <3>1. ASSUME NEW a \in AssetConn, AssetAction(a)
          PROVE  asset'[t] = asset[t]
      <4>1. CASE a # t
        BY <1>3, <3>1, <4>1, AssetFrame DEF AssetsKept
      <4>2. CASE a = t /\ asset' = asset
        BY <4>2
      <4>3. CASE a = t /\ ~(asset' = asset)
        <5>1. pc[t] = "check"
          BY <3>1, <4>3, AssetFrame DEF ActingPC, LogoutPC
        <5>2. CheckOnline(t)
          BY <3>1, <4>3, <5>1
             DEF AssetAction, AssetStep, AssetMessage, DisconnectAsset, ConfirmAsset, BeginSend, Write,
                 RefreshAsset, LoginAsset, Heartbeat, Pong, LogoutMessageFromAsset
        <5>3. QED
          BY <4>3, <5>2 DEF CheckOnline, OnlyReads, users
      <4>4. QED
        BY <4>1, <4>2, <4>3
    <3>2. ASSUME NEW u \in Conn, Network(u) \/ LogoutStep(u)
          PROVE  asset' = asset
      BY <3>2, NetworkFrame, LogoutFrame DEF users
    <3>3. ASSUME NEW c \in ControllerConn, ControllerAction(c)
          PROVE  asset' = asset
      BY <3>3, ControllerFrame
    <3>4. QED
      BY <3>1, <3>2, <3>3 DEF Step, AssetAction, ControllerAction
  <2>4. cell'[asset[t].owner] = cell[asset[t].owner]
    <3>1. CASE cell' = cell
      BY <3>1
    <3>2. CASE cell' # cell
      <4>1. PICK c \in ControllerConn, p \in Addr : cell' = [cell EXCEPT ![p] = c] /\ ~Live(p)
        BY <3>2, AddressesKept, LoginAddresses
      <4>2. Live(asset[t].owner)
        <5>1. pc[Target(t)] # "done"
          BY <1>3 DEF Tidy, Quiet, WritingPC
        <5>2. ctrl[Target(t)].at = asset[t].owner
          BY <2>2, NoneAssumption DEF Built, CellsOK, Conn
        <5>3. QED
          BY <2>2, <5>1, <5>2 DEF Live
      <4>3. QED
        BY <1>1, <2>2, <4>1, <4>2 DEF UsersTyped
    <3>3. QED
      BY <3>1, <3>2
  <2>5. QED
    BY <1>3, <2>3, <2>4 DEF Target
<1>4. QED
  BY <1>2, <1>3

-----------------------------------------------------------------------------
(* Tidy is kept: the records. *)

\* A logged-out asset object is whole.
LEMMA LoggedOutWhole ==
  ASSUME NEW u \in AssetUser, Whole(u)
  PROVE  Whole(LoggedOutAsset(u)) /\ ~LoggedOutAsset(u).isConnected
  BY LoggedOutFields DEF Whole

\* What an asset's thread writes.
LEMMA AssetWhole ==
  ASSUME TypeOK, Built, Tidy, NEW a \in AssetConn, AssetAction(a)
  PROVE  /\ Whole(asset'[a]) /\ (asset'[a].isConnected => asset'[a].isAuthenticated)
         /\ assets' # assets => Whole(assets') /\ Online(assets') /\ assets'.owner = None
<1>1. /\ UsersTyped /\ asset[a] \in AssetUser
      /\ Whole(asset[a]) /\ (asset[a].isConnected => asset[a].isAuthenticated)
      /\ assets # None => Whole(assets) /\ Online(assets)
  BY TypeParts, UserTypes DEF Tidy, RecordsWhole, RecordOnline
<1>2. CASE LoginAsset(a)
  <2>1. PICK u \in AssetUser : /\ u.isConnected = asset[a].isConnected /\ u.owner = asset[a].owner
                               /\ u.isAuthenticated /\ u.isOnline
                               /\ u = [BuiltAsset(a) EXCEPT !.isAuthenticated = TRUE, !.isOnline = TRUE]
    BY <1>1, BuiltAssetFields, LoggedInType
  <2>2. asset'[a] = u /\ assets' = u /\ ~asset[a].isAuthenticated
    BY <1>1, <1>2, <2>1 DEF LoginAsset, UsersTyped
  <2>3. QED
    BY <1>1, <2>1, <2>2 DEF Whole, Online
<1>3. CASE LogoutAsset(a)
  <2>1. asset'[a] = LoggedOutAsset(asset[a]) /\ assets' = assets
    BY <1>1, <1>3 DEF LogoutAsset, UsersTyped
  <2>2. QED
    BY <1>1, <2>1, LoggedOutWhole
<1>4. CASE Heartbeat(a) \/ RefreshAsset(a)
  <2>1. asset'[a] \in {asset[a], Refreshed(a)} /\ assets' = assets
    BY <1>1, <1>4 DEF Heartbeat, RefreshAsset, UsersTyped
  <2>2. QED
    BY <1>1, <2>1 DEF Refreshed, Online
<1>5. CASE asset' = asset /\ assets' = assets
  BY <1>1, <1>5
<1>6. QED
  BY <1>2, <1>3, <1>4, <1>5
     DEF AssetAction, AssetStep, AssetMessage, DisconnectAsset, ConfirmAsset, BeginSend, Write,
         CheckOnline, Pong, LogoutMessageFromAsset, OnlyReads, users

\* What a logout writes to the database.
LEMMA LogoutRecord ==
  ASSUME TypeOK, Built, Tidy, NEW t \in Conn, LogoutStep(t), assets' # assets
  PROVE  Whole(assets') /\ Online(assets') /\ assets'.owner = None
<1>1. PutUnpaired(t) /\ assets' = ctrl[Target(t)].asset
  BY DEF LogoutStep, Logout, Unlink, Disown, PutUnpaired, Unpair, Unauthenticate, Offline,
         Writes, OnlyReads, users, Inserted
<1>2. pc[t] = "put_unpaired"
  BY <1>1 DEF PutUnpaired
<1>3. Target(t) \in ControllerConn
  BY <1>2, TypeParts, TargetExists DEF LogoutPC
<1>4. ~ctrl[Target(t)].asset.isConnected /\ ctrl[Target(t)].asset.owner = None
  BY <1>2 DEF Tidy, LogoutsOK, LogoutOK
<1>5. Online(ctrl[Target(t)].asset)
  BY <1>2, <1>3 DEF Tidy, CopiesOnline, Counts
<1>6. QED
  BY <1>1, <1>4, <1>5 DEF Whole

\* What a request writes to the database.
LEMMA RequestRecord ==
  ASSUME TypeOK, Built, Tidy, NEW c \in ControllerConn, ControllerAction(c), assets' # assets
  PROVE  Whole(assets') /\ Online(assets') /\ assets'.owner = ctrl[c].at /\ Live(ctrl[c].at)
<1>1. PutAsset(c) /\ assets' = ctrl[c].asset
  <2>1. ForwardToCopy(c) => assets' = assets
    BY DEF ForwardToCopy, LogoutCopy
  <2>2. PutAsset(c)
    BY <2>1, ControllerActions, ReadsFrame, WritesFrame DEF users, LoginController, GetAsset
  <2>3. QED
    BY <2>2 DEF PutAsset, Inserted
<1>2. pc[c] = "put"
  BY <1>1 DEF PutAsset
<1>3. ctrl[c].asset.isConnected /\ ctrl[c].asset.owner = ctrl[c].at
  BY <1>2 DEF Tidy, RequestsOK, RequestOK
<1>4. ctrl[c].asset.owner # None
  BY <1>3 DEF Tidy, RequestsOK, RequestOK
<1>5. Online(ctrl[c].asset)
  BY <1>2 DEF Tidy, CopiesOnline, Counts
<1>6. QED
  BY <1>1, <1>2, <1>3, <1>4, <1>5 DEF Whole, Live

\* The asset objects and the record stay whole, and the record online.
LEMMA WholeStep ==
  ASSUME TypeOK, Built, Tidy, Step
  PROVE  RecordsWhole' /\ RecordOnline'
<1>1. /\ \A a \in AssetConn : Whole(asset[a]) /\ (asset[a].isConnected => asset[a].isAuthenticated)
      /\ assets # None => Whole(assets) /\ Online(assets)
  BY DEF Tidy, RecordsWhole, RecordOnline
<1>2. /\ \A a \in AssetConn :
           Whole(asset'[a]) /\ (asset'[a].isConnected => asset'[a].isAuthenticated)
      /\ assets' # assets => Whole(assets') /\ Online(assets')
  <2>1. ASSUME NEW t \in Conn, Network(t)
        PROVE  <1>2!:
    BY <1>1, <2>1, NetworkFrame DEF users
  <2>2. ASSUME NEW t \in Conn, LogoutStep(t)
        PROVE  <1>2!:
    BY <1>1, <2>2, LogoutFrame, LogoutRecord
  <2>3. ASSUME NEW a \in AssetConn, AssetAction(a)
        PROVE  <1>2!:
    BY <1>1, <2>3, AssetFrame, AssetWhole DEF AssetsKept
  <2>4. ASSUME NEW c \in ControllerConn, ControllerAction(c)
        PROVE  <1>2!:
    BY <1>1, <2>4, ControllerFrame, RequestRecord
  <2>5. QED
    BY <2>1, <2>2, <2>3, <2>4 DEF Step, AssetAction, ControllerAction
<1>3. RecordsWhole'
  BY <1>1, <1>2 DEF RecordsWhole, Whole
<1>4. RecordOnline'
  BY <1>1, <1>2 DEF RecordOnline, Online
<1>5. QED
  BY <1>3, <1>4

-----------------------------------------------------------------------------
(* Tidy is kept: requests. *)

\* A request is as good as before if nobody acts on its controller.
LEMMA RequestKept ==
  ASSUME NEW d \in ControllerConn, RequestOK(d), Untouched(d),
         pc'[d] = pc[d] \/ pc'[d] \notin {"link", "pair", "put"}
  PROVE  RequestOK(d)'
  BY DEF RequestOK, Untouched

\* A logout touches no request.
LEMMA LogoutRequest ==
  ASSUME TypeOK, Built, Tidy, NEW t \in Conn, LogoutStep(t), NEW d \in ControllerConn
  PROVE  RequestOK(d)'
<1>1. RequestOK(d) /\ Fades(d) /\ LabelsKept(t) /\ pc[t] \in LogoutPC
  BY LogoutFrame DEF Tidy, RequestsOK
<1>2. CASE d # Target(t)
  <2>1. ctrl'[d] = ctrl[d] /\ d # t
    BY <1>2, LogoutFrame, OwnTarget
  <2>2. QED
    BY <1>1, <2>1, RequestKept DEF Untouched, LabelsKept, Conn
<1>3. CASE d = Target(t)
  <2>1. ctrl'[d].asset.owner = ctrl[d].asset.owner \/ ~ctrl[d].asset.isConnected
    <3>1. CASE Disown(t)
      BY <1>3, <3>1 DEF Disown, Writes, Tidy, LogoutsOK, LogoutOK
    <3>2. CASE Unlink(t)
      BY <1>3, <3>2, TypeParts, UserTypes
         DEF Unlink, Writes, UsersTyped, ControllerUser, AssetUser
    <3>3. CASE Unpair(t) \/ Unauthenticate(t) \/ Offline(t)
      BY <1>3, <3>3, TypeParts, UserTypes
         DEF Unpair, Unauthenticate, Offline, Writes, UsersTyped, ControllerUser
    <3>4. CASE ctrl' = ctrl
      BY <3>4
    <3>5. QED
      BY <3>1, <3>2, <3>3, <3>4 DEF LogoutStep, Logout, PutUnpaired, OnlyReads, users
  <2>2. pc'[d] \notin {"link", "pair", "put"}
    <3>1. CASE t = d
      BY <3>1, LogoutLabel DEF LogoutPC, AfterLogout
    <3>2. CASE t # d
      <4>1. t \in AssetConn
        BY <1>3, <3>2, OwnTarget DEF Conn
      <4>2. pc[d] \notin WritingPC
        BY <1>1, <1>3, <4>1 DEF Tidy, Quiet, ActingPC
      <4>3. QED
        BY <1>1, <3>2, <4>2 DEF LabelsKept, WritingPC, Conn
    <3>3. QED
      BY <3>1, <3>2
  <2>3. QED
    BY <1>1, <2>1, <2>2 DEF RequestOK, Fades
<1>4. QED
  BY <1>2, <1>3

\* A request does its writes in order.
LEMMA OwnRequest ==
  ASSUME TypeOK, Built, Tidy, NEW c \in ControllerConn, ControllerAction(c)
  PROVE  RequestOK(c)'
<1>1. /\ RequestOK(c) /\ LabelsTyped /\ UsersTyped /\ c \in Conn /\ Target(c) = c
      /\ ctrl[c] \in ControllerUser /\ ctrl[c].asset \in AssetUser
  BY TypeParts, UserTypes, OwnTarget DEF Tidy, RequestsOK
<1>2. CASE LoginController(c)
  <2>1. pc'[c] = "authenticate" /\ ctrl'[c].asset = ctrl[c].asset
    BY <1>2, LoginAddresses
  <2>2. QED
    BY <1>1, <2>1 DEF RequestOK
<1>3. CASE ControllerReads(c)
  <2>1. pc'[c] \notin {"link", "pair", "put"}
    BY <1>1, <1>3, Moves
       DEF ControllerReads, RequestAgain, ConfirmController, CommandAfterRequest, Command, Ping,
           LogoutMessageFromController, DisconnectController, Goto, Call, Return, LabelsTyped
  <2>2. QED
    BY <1>1, <1>3, <2>1, ControllerUntouched, RequestKept
<1>4. CASE Authenticate(c) \/ ComeOnline(c)
  <2>1. pc'[c] \in {"online", "get"}
    BY <1>1, <1>4, Moves DEF Authenticate, ComeOnline, Writes
  <2>2. ctrl'[c].asset = ctrl[c].asset
    BY <1>1, <1>4 DEF Authenticate, ComeOnline, Writes, UsersTyped, ControllerUser
  <2>3. QED
    BY <1>1, <2>1, <2>2 DEF RequestOK
<1>5. CASE SetOwner(c)
  <2>1. ctrl'[c].asset.owner = ctrl[c].at /\ ctrl'[c].at = ctrl[c].at
    BY <1>1, <1>5 DEF SetOwner, Writes, UsersTyped, ControllerUser, AssetUser
  <2>2. pc'[c] = "link"
    BY <1>1, <1>5, Moves DEF SetOwner, Writes
  <2>3. ctrl[c].at # None
    BY <1>5 DEF SetOwner, Writes, Built, LabelsOK, ControllerLabelOK, NamelessPC
  <2>4. QED
    BY <2>1, <2>2, <2>3 DEF RequestOK
<1>6. CASE Link(c)
  <2>1. /\ ctrl'[c].asset.owner = ctrl[c].asset.owner
        /\ ctrl'[c].at = ctrl[c].at /\ ctrl'[c].asset.isConnected
    BY <1>1, <1>6 DEF Link, Writes, UsersTyped, ControllerUser, AssetUser
  <2>2. ctrl[c].asset.owner = ctrl[c].at
    BY <1>1, <1>6 DEF Link, Writes, RequestOK
  <2>3. ctrl[c].at # None
    BY <1>6 DEF Link, Writes, Built, LabelsOK, ControllerLabelOK, NamelessPC
  <2>4. QED
    BY <2>1, <2>2, <2>3 DEF RequestOK
<1>7. CASE Pair(c)
  <2>1. ctrl'[c].asset = ctrl[c].asset /\ ctrl'[c].at = ctrl[c].at
    BY <1>1, <1>7 DEF Pair, Writes, UsersTyped, ControllerUser
  <2>2. pc[c] = "pair"
    BY <1>7 DEF Pair, Writes
  <2>3. QED
    BY <1>1, <2>1, <2>2 DEF RequestOK
<1>8. CASE GetAsset(c)
  <2>1. ctrl'[c].asset = ctrl[c].asset \/ (assets # None /\ ctrl'[c].asset = assets)
    BY <1>1, <1>8 DEF GetAsset, UsersTyped, ControllerUser
  <2>2. pc'[c] \notin {"link", "pair", "put"}
    <3>1. CASE assets # None /\ assets.isOnline
      BY <1>1, <1>8, <3>1, Moves DEF GetAsset
    <3>2. CASE ~(assets # None /\ assets.isOnline)
      <4>1. RequestOver(c, FALSE) /\ pc[c] \in RequestPC
        BY <1>8, <3>2 DEF GetAsset, RequestPC
      <4>2. QED
        BY <1>1, <4>1, OverLabel, RequestTask
    <3>3. QED
      BY <3>1, <3>2
  <2>3. QED
    BY <1>1, <2>1, <2>2 DEF RequestOK, Tidy, RecordsWhole, Whole
<1>9. CASE PutAsset(c)
  <2>1. RequestOver(c, TRUE) /\ pc[c] \in RequestPC /\ ctrl' = ctrl
    BY <1>9 DEF PutAsset, RequestPC
  <2>2. pc'[c] \notin {"link", "pair", "put"}
    BY <1>1, <2>1, OverLabel, RequestTask
  <2>3. QED
    BY <1>1, <2>1, <2>2 DEF RequestOK
<1>10. CASE ForwardToCopy(c)
  <2>1. pc'[c] = "recv"
    BY <1>1, <1>10, Moves, NoCrash DEF ForwardToCopy
  <2>2. CASE LogoutCopy(c)
    <3>1. ~ctrl'[c].asset.isConnected
      BY <1>1, <1>10, <2>2, ForwardClears, LoggedOutFields
    <3>2. QED
      BY <2>1, <3>1 DEF RequestOK
  <2>3. CASE UNCHANGED users
    BY <1>1, <2>1, <2>3 DEF RequestOK, users
  <2>4. QED
    BY <1>10, <2>2, <2>3, ControllerMoves
<1>11. QED
  BY <1>2, <1>3, <1>4, <1>5, <1>6, <1>7, <1>8, <1>9, <1>10, ControllerActions DEF ControllerWrites

\* Requests stay right.
LEMMA RequestsStep ==
  ASSUME TypeOK, Built, Tidy, Step
  PROVE  RequestsOK'
<1>. SUFFICES ASSUME NEW d \in ControllerConn PROVE RequestOK(d)'
  BY DEF RequestsOK
<1>1. RequestOK(d) /\ d \in Conn
  BY OwnTarget DEF Tidy, RequestsOK
<1>2. ASSUME NEW t \in Conn, Network(t)
      PROVE  RequestOK(d)'
  <2>1. ctrl' = ctrl /\ (pc'[d] = pc[d] \/ pc'[d] = "recv")
    BY <1>1, <1>2, NetworkFrame DEF users, LabelsKept
  <2>2. QED
    BY <1>1, <2>1 DEF RequestOK
<1>3. ASSUME NEW a \in AssetConn, AssetAction(a)
      PROVE  RequestOK(d)'
  BY <1>1, <1>3, AssetMoves, AssetUntouched, RequestKept, ConnAssumption DEF LabelsKept
<1>4. ASSUME NEW c \in ControllerConn, ControllerAction(c)
      PROVE  RequestOK(d)'
  <2>1. CASE c = d
    BY <1>4, <2>1, OwnRequest
  <2>2. CASE c # d
    BY <1>1, <1>4, <2>2, ControllerMoves, ControllerUntouched, RequestKept DEF LabelsKept
  <2>3. QED
    BY <2>1, <2>2
<1>5. QED
  BY <1>2, <1>3, <1>4, LogoutRequest DEF Step, AssetAction, ControllerAction

-----------------------------------------------------------------------------
(* Tidy is kept: copies. *)

\* A thread other than the one that moves, and its target, stay in a logout.
LEMMA OthersLogouts ==
  ASSUME TypeOK, Built, Tidy, Step, NEW t \in Conn, LabelsKept(t),
         NEW u \in Conn, u # t, pc[u] \in LogoutPC \/ pc'[u] \in LogoutPC
  PROVE  pc'[u] = pc[u] /\ Target(u)' = Target(u)
<1>1. pc'[u] = pc[u]
  BY DEF LabelsKept
<1>2. QED
  BY <1>1, TargetsStay DEF ActingPC

\* After a step of a logout the controllers that counted on their copies
\* did so before.
LEMMA LogoutCounts ==
  ASSUME TypeOK, Built, Tidy, NEW t \in Conn, LogoutStep(t), NEW d \in ControllerConn, Counts(d)'
  PROVE  Counts(d)
<1>1. LabelsKept(t) /\ pc[t] \in LogoutPC /\ Fades(d) /\ d \in Conn /\ Step
  BY LogoutFrame, OwnTarget DEF Step
<1>2. CASE ctrl'[d].isConnected
  BY <1>1, <1>2 DEF Fades, Counts
<1>3. CASE pc'[d] \in {"own", "link", "pair", "put"}
  <2>1. t # d
    BY <1>3, LogoutLabel DEF LogoutPC, AfterLogout
  <2>2. QED
    BY <1>1, <1>3, <2>1 DEF LabelsKept, Counts
<1>4. ASSUME NEW u \in Conn, pc'[u] \in {"unlink", "disown", "put_unpaired"}, Target(u)' = d
      PROVE  Counts(d)
  <2>1. CASE u # t
    BY <1>1, <1>4, <2>1, OthersLogouts DEF Counts, LogoutPC
  <2>2. CASE u = t
    <3>1. Target(t) = d
      BY <1>1, <1>4, <2>2, TargetsStay DEF ActingPC, LogoutPC
    <3>2. CASE pc[t] \in {"unlink", "disown", "put_unpaired"}
      BY <3>1, <3>2 DEF Counts
    <3>3. CASE pc[t] \notin {"unlink", "disown", "put_unpaired"}
      <4>1. ~Offline(t)
        BY <1>1, <1>4, <2>2, TypeParts, Moves DEF Offline, AfterLogout
      <4>2. Logout(t) \/ Unpair(t) \/ Unauthenticate(t)
        BY <3>3, <4>1 DEF LogoutStep, Unlink, Disown, PutUnpaired, Writes
      <4>3. Logout(t)
        BY <1>4, <2>2, <4>2, TypeParts, Moves DEF Unpair, Unauthenticate, Writes
      <4>4. ctrl[Target(t)].isConnected
        BY <1>4, <2>2, <4>3, TypeParts, Moves DEF Logout
      <4>5. QED
        BY <3>1, <4>4 DEF Counts
    <3>4. QED
      BY <3>2, <3>3
  <2>3. QED
    BY <2>1, <2>2
<1>5. QED
  BY <1>2, <1>3, <1>4 DEF Counts

\* The same after the step of another thread that logs nobody out.
LEMMA OthersCounts ==
  ASSUME TypeOK, Built, Tidy, Step, NEW t \in Conn, LabelsKept(t),
         NEW d \in ControllerConn, d # t, ctrl'[d].isConnected => ctrl[d].isConnected,
         pc'[t] \notin LogoutPC \ {"logout"}, Counts(d)'
  PROVE  Counts(d)
<1>1. pc'[d] = pc[d]
  BY OwnTarget DEF LabelsKept
<1>2. ASSUME NEW u \in Conn, pc'[u] \in {"unlink", "disown", "put_unpaired"}, Target(u)' = d
      PROVE  Counts(d)
  BY <1>2, OthersLogouts DEF Counts, LogoutPC
<1>3. QED
  BY <1>1, <1>2 DEF Counts

\* The labels at which a thread does not log out.
LEMMA AssetLabels ==
  ASSUME TypeOK, Built, Tidy, NEW a \in AssetConn, AssetAction(a)
  PROVE  pc'[a] \notin LogoutPC \ {"logout"}
<1>1. LabelsTyped /\ UsersTyped /\ a \in Conn
  BY TypeParts DEF Conn
<1>2. AfterLogout(a) \in {"refresh", "done", "recv"}
  BY DEF AfterLogout
<1>3. pc'[a] \in {"confirm", "recv", "write", "logout", "check", "send", "done", "refresh"}
  <2>1. CASE LoginAsset(a) \/ ConfirmAsset(a) \/ RefreshAsset(a)
    BY <1>1, <2>1, Moves DEF LoginAsset, ConfirmAsset, RefreshAsset
  <2>2. CASE BeginSend(a) \/ CheckOnline(a)
    BY <1>1, <1>2, <2>2, Moves DEF BeginSend, CheckOnline, SendFailed
  <2>3. CASE Write(a)
    BY <1>1, <1>2, <2>3, Moves DEF Write, SendFailed, SendResults
  <2>4. CASE Heartbeat(a) \/ Pong(a)
    BY <1>1, <2>4, Moves, NoCrash DEF Heartbeat, Pong
  <2>5. CASE LogoutMessageFromAsset(a)
    BY <2>5, NoCrash DEF LogoutMessageFromAsset
  <2>6. CASE DisconnectAsset(a)
    BY <1>1, <2>6, Moves, NoCrash DEF DisconnectAsset
  <2>7. QED
    BY <2>1, <2>2, <2>3, <2>4, <2>5, <2>6 DEF AssetAction, AssetStep, AssetMessage
<1>4. QED
  BY <1>3 DEF LogoutPC

\* A controller's thread that only reads, or puts the record, goes on to no
\* write of a request, and to the first label of a logout at most.
LEMMA ReadsLabel ==
  ASSUME TypeOK, Built, NEW c \in ControllerConn, ControllerReads(c) \/ PutAsset(c)
  PROVE  pc'[c] \in {"get", "recv", "logout", "forward", "done", "authenticated", "confirm", "paired"}
<1>1. LabelsTyped /\ c \in Conn
  BY TypeParts, OwnTarget
<1>2. CASE ControllerReads(c)
  BY <1>1, <1>2
     DEF ControllerReads, RequestAgain, ConfirmController, CommandAfterRequest, Command, Ping,
         LogoutMessageFromController, DisconnectController, Goto, Call, Return, LabelsTyped
<1>3. CASE PutAsset(c)
  <2>1. RequestOver(c, TRUE) /\ pc[c] \in RequestPC
    BY <1>3 DEF PutAsset, RequestPC
  <2>2. QED
    BY <1>1, <2>1, OverLabel, RequestTask
<1>4. QED
  BY <1>2, <1>3

\* Where a record is read, and what becomes of the copy.
LEMMA GetAssetEffect ==
  ASSUME TypeOK, Built, Tidy, NEW c \in ControllerConn, GetAsset(c)
  PROVE  /\ ctrl'[c].isConnected = ctrl[c].isConnected /\ ctrl'[c].at = ctrl[c].at
         /\ \/ assets # None /\ ctrl'[c].asset = assets /\ pc'[c] = "own"
            \/ ctrl'[c].asset = ctrl[c].asset /\ pc'[c] \in {"authenticated", "recv", "paired"}
<1>1. LabelsTyped /\ UsersTyped /\ c \in Conn /\ ctrl[c] \in ControllerUser /\ pc[c] \in RequestPC
  BY TypeParts, UserTypes, OwnTarget DEF GetAsset, RequestPC
<1>2. ctrl'[c].isConnected = ctrl[c].isConnected /\ ctrl'[c].at = ctrl[c].at
  BY <1>1 DEF GetAsset, UsersTyped, ControllerUser
<1>3. CASE assets = None
  <2>1. RequestOver(c, FALSE) /\ ctrl' = ctrl
    BY <1>3 DEF GetAsset
  <2>2. QED
    BY <1>1, <1>2, <2>1, OverLabel, RequestTask
<1>4. CASE assets # None
  <2>1. Goto(c, "own")
    BY <1>4 DEF GetAsset, Tidy, RecordOnline, Online
  <2>2. ctrl'[c].asset = assets
    BY <1>1, <1>4 DEF GetAsset, UsersTyped, ControllerUser
  <2>3. QED
    BY <1>1, <1>2, <1>4, <2>1, <2>2, Moves
<1>5. QED
  BY <1>3, <1>4

\* A single write of a login or a request.
LEMMA WritesEffect ==
  ASSUME TypeOK, Built, NEW c \in ControllerConn, ControllerWrites(c)
  PROVE  /\ Online(ctrl'[c].asset) = Online(ctrl[c].asset)
         /\ ctrl'[c].isConnected => ctrl[c].isConnected \/ pc[c] = "pair"
         /\ \/ pc[c] \in {"authenticate", "online"} /\ pc'[c] \in {"online", "get"}
            \/ pc[c] \in {"own", "link", "pair"} /\ pc'[c] \in {"link", "pair", "put"}
<1>1. /\ LabelsTyped /\ UsersTyped /\ c \in Conn /\ Target(c) = c
      /\ ctrl[c] \in ControllerUser /\ ctrl[c].asset \in AssetUser
  BY TypeParts, UserTypes, OwnTarget
<1>2. \/ pc[c] \in {"authenticate", "online"} /\ pc'[c] \in {"online", "get"}
      \/ pc[c] \in {"own", "link", "pair"} /\ pc'[c] \in {"link", "pair", "put"}
  BY <1>1, Moves DEF ControllerWrites, Authenticate, ComeOnline, SetOwner, Link, Pair, Writes
<1>3. CASE Authenticate(c) \/ ComeOnline(c) \/ Pair(c)
  <2>1. ctrl'[c].asset = ctrl[c].asset
    BY <1>1, <1>3 DEF Authenticate, ComeOnline, Pair, Writes, UsersTyped, ControllerUser
  <2>2. ctrl'[c].isConnected => ctrl[c].isConnected \/ pc[c] = "pair"
    BY <1>1, <1>3 DEF Authenticate, ComeOnline, Pair, Writes, UsersTyped, ControllerUser
  <2>3. QED
    BY <1>2, <2>1, <2>2
<1>4. CASE SetOwner(c) \/ Link(c)
  <2>1. /\ ctrl'[c].asset.isOnline = ctrl[c].asset.isOnline
        /\ ctrl'[c].asset.isAuthenticated = ctrl[c].asset.isAuthenticated
        /\ ctrl'[c].isConnected = ctrl[c].isConnected
    BY <1>1, <1>4 DEF SetOwner, Link, Writes, UsersTyped, ControllerUser, AssetUser
  <2>2. QED
    BY <1>2, <2>1 DEF Online
<1>5. QED
  BY <1>3, <1>4 DEF ControllerWrites

\* A controller's thread counts on an online copy after its own step too.
LEMMA OwnCopy ==
  ASSUME TypeOK, Built, Tidy, NEW c \in ControllerConn, ControllerAction(c), Counts(c)'
  PROVE  Online(ctrl'[c].asset)
<1>1. /\ LabelsKept(c) /\ c \in Conn /\ Target(c) = c /\ LabelsTyped /\ Step
      /\ Counts(c) => Online(ctrl[c].asset)
  BY ControllerMoves, OwnTarget, TypeParts DEF Tidy, CopiesOnline, Step, ControllerAction
<1>2. ASSUME pc'[c] \notin LogoutPC \ {"logout"}, ctrl'[c].isConnected => Counts(c),
             pc'[c] \in {"own", "link", "pair", "put"} => Counts(c)
      PROVE  Counts(c)
  <2>1. ASSUME NEW u \in Conn, pc'[u] \in {"unlink", "disown", "put_unpaired"}, Target(u)' = c
        PROVE  Counts(c)
    BY <1>1, <1>2, <2>1, OthersLogouts DEF Counts, LogoutPC
  <2>2. QED
    BY <1>2, <2>1 DEF Counts
<1>3. CASE LoginController(c)
  <2>1. pc'[c] = "authenticate" /\ ctrl'[c].asset = ctrl[c].asset
    BY <1>3, LoginAddresses
  <2>2. ctrl'[c].isConnected = ctrl[c].isConnected
    BY <1>3, TypeParts, UserTypes DEF LoginController, UsersTyped, ControllerUser
  <2>3. Counts(c)
    BY <1>2, <2>1, <2>2 DEF Counts, LogoutPC
  <2>4. QED
    BY <1>1, <2>1, <2>3
<1>4. CASE ControllerReads(c) \/ PutAsset(c)
  <2>1. ctrl' = ctrl
    BY <1>4, ReadsFrame DEF PutAsset, users
  <2>2. pc'[c] \notin {"own", "link", "pair", "put"} /\ pc'[c] \notin LogoutPC \ {"logout"}
    BY <1>4, ReadsLabel DEF LogoutPC
  <2>3. Counts(c)
    BY <1>2, <2>1, <2>2 DEF Counts
  <2>4. QED
    BY <1>1, <2>1, <2>3
<1>5. CASE ControllerWrites(c)
  <2>1. pc'[c] \in {"own", "link", "pair", "put"} => Counts(c)
    BY <1>5, WritesEffect DEF Counts
  <2>2. pc'[c] \notin LogoutPC \ {"logout"}
    BY <1>5, WritesEffect DEF LogoutPC
  <2>3. ctrl'[c].isConnected => Counts(c)
    BY <1>5, WritesEffect DEF Counts
  <2>4. Counts(c)
    BY <1>2, <2>1, <2>2, <2>3
  <2>5. QED
    BY <1>1, <1>5, <2>4, WritesEffect
<1>6. CASE GetAsset(c)
  <2>1. CASE assets # None /\ ctrl'[c].asset = assets
    BY <2>1 DEF Tidy, RecordOnline
  <2>2. CASE ctrl'[c].asset = ctrl[c].asset /\ pc'[c] \in {"authenticated", "recv", "paired"}
    <3>1. Counts(c)
      BY <1>2, <1>6, <2>2, GetAssetEffect DEF Counts, LogoutPC
    <3>2. QED
      BY <1>1, <2>2, <3>1
  <2>3. QED
    BY <1>6, <2>1, <2>2, GetAssetEffect
<1>7. CASE ForwardToCopy(c)
  <2>1. pc'[c] = "recv" /\ pc[c] = "forward"
    BY <1>1, <1>7, Moves, NoCrash DEF ForwardToCopy
  <2>2. CASE LogoutCopy(c)
    <3>1. ~ctrl'[c].isConnected
      BY <1>7, <2>2, ForwardClears
    <3>2. ASSUME NEW u \in Conn, pc'[u] \in {"unlink", "disown", "put_unpaired"}, Target(u)' = c
          PROVE  FALSE
      <4>1. u # c
        BY <2>1, <3>2
      <4>2. pc[u] \in LogoutPC /\ Target(u) = c
        BY <1>1, <3>2, <4>1, OthersLogouts DEF LogoutPC
      <4>3. u \in AssetConn
        BY <4>1, <4>2, OwnTarget DEF Conn
      <4>4. QED
        BY <1>7, <4>2, <4>3, MutexExcludes DEF ForwardToCopy
    <3>3. QED
      BY <2>1, <3>1, <3>2 DEF Counts
  <2>3. CASE UNCHANGED users
    <3>1. Counts(c)
      BY <1>2, <2>1, <2>3 DEF Counts, users, LogoutPC
    <3>2. QED
      BY <1>1, <2>3, <3>1 DEF users
  <2>4. QED
    BY <1>7, <2>2, <2>3, ControllerMoves
<1>8. QED
  BY <1>3, <1>4, <1>5, <1>6, <1>7, ControllerActions

\* Copies that are counted on stay online.
LEMMA CopiesStep ==
  ASSUME TypeOK, Built, Tidy, Step
  PROVE  CopiesOnline'
<1>. SUFFICES ASSUME NEW d \in ControllerConn, Counts(d)'
              PROVE  Online(ctrl'[d].asset)
  BY DEF CopiesOnline, Online
<1>1. (Counts(d) => Online(ctrl[d].asset)) /\ d \in Conn
  BY OwnTarget DEF Tidy, CopiesOnline
<1>2. ASSUME NEW t \in Conn, Network(t)
      PROVE  Online(ctrl'[d].asset)
  <2>1. ctrl' = ctrl /\ LabelsKept(t) /\ (pc' = pc \/ pc'[t] = "recv")
    BY <1>2, NetworkFrame DEF users
  <2>2. ASSUME NEW u \in Conn, pc'[u] \in {"unlink", "disown", "put_unpaired"}, Target(u)' = d
        PROVE  Counts(d)
    <3>1. pc'[u] = pc[u]
      BY <2>1, <2>2 DEF LabelsKept
    <3>2. QED
      BY <2>2, <3>1, TargetsStay DEF Counts, ActingPC, LogoutPC
  <2>3. pc'[d] \in {"own", "link", "pair", "put"} => Counts(d)
    BY <1>1, <2>1 DEF LabelsKept, Counts
  <2>4. Counts(d)
    BY <2>1, <2>2, <2>3 DEF Counts
  <2>5. QED
    BY <1>1, <2>1, <2>4
<1>3. ASSUME NEW t \in Conn, LogoutStep(t)
      PROVE  Online(ctrl'[d].asset)
  BY <1>1, <1>3, LogoutCounts, LogoutFrame DEF Fades, Online
<1>4. ASSUME NEW a \in AssetConn, AssetAction(a)
      PROVE  Online(ctrl'[d].asset)
  <2>1. Untouched(d) /\ LabelsKept(a) /\ pc'[a] \notin LogoutPC \ {"logout"} /\ d # a /\ a \in Conn
    BY <1>4, AssetUntouched, AssetMoves, AssetLabels, ConnAssumption DEF Conn
  <2>2. Counts(d)
    BY <2>1, OthersCounts DEF Untouched
  <2>3. QED
    BY <1>1, <2>1, <2>2 DEF Untouched
<1>5. ASSUME NEW c \in ControllerConn, ControllerAction(c)
      PROVE  Online(ctrl'[d].asset)
  <2>1. CASE d = c
    BY <1>5, <2>1, OwnCopy
  <2>2. CASE d # c
    <3>1. Untouched(d) /\ LabelsKept(c) /\ c \in Conn
      BY <1>5, <2>2, ControllerUntouched, ControllerMoves, OwnTarget
    <3>2. ASSUME NEW u \in Conn, pc'[u] \in {"unlink", "disown", "put_unpaired"}, Target(u)' = d
          PROVE  Counts(d)
      <4>1. u # c
        BY <2>2, <3>2, ConnAssumption DEF Target
      <4>2. QED
        BY <3>1, <3>2, <4>1, OthersLogouts DEF Counts, LogoutPC
    <3>3. Counts(d)
      BY <1>1, <2>2, <3>1, <3>2 DEF Counts, LabelsKept, Untouched
    <3>4. QED
      BY <1>1, <3>1, <3>3 DEF Untouched
  <2>3. QED
    BY <2>1, <2>2
<1>6. QED
  BY <1>2, <1>3, <1>4, <1>5 DEF Step, AssetAction, ControllerAction

-----------------------------------------------------------------------------
(* Tidy is kept: logouts and pairs. *)

\* While a thread is logging a controller out, nobody else writes to its copy
\* but to clear flags and the owner.
LEMMA TargetFades ==
  ASSUME TypeOK, Built, Tidy, Step, NEW t \in Conn, pc[t] \in LogoutPC, ~LogoutStep(t)
  PROVE  Fades(Target(t)) \/ UNCHANGED ctrl \/ ctrl'[Target(t)].asset = ctrl[Target(t)].asset
<1>1. Target(t) \in ControllerConn
  BY TypeParts, TargetExists
<1>2. ASSUME NEW u \in Conn, Network(u)
      PROVE  UNCHANGED ctrl
  BY <1>2, NetworkFrame DEF users
<1>3. ASSUME NEW u \in Conn, LogoutStep(u)
      PROVE  Fades(Target(t))
  BY <1>1, <1>3, LogoutFrame
<1>4. ASSUME NEW a \in AssetConn, AssetAction(a)
      PROVE  Fades(Target(t))
  BY <1>1, <1>4, AssetFrame
<1>5. ASSUME NEW c \in ControllerConn, ControllerAction(c)
      PROVE  Fades(Target(t)) \/ ctrl'[Target(t)].asset = ctrl[Target(t)].asset
  <2>1. CASE c # Target(t)
    BY <1>1, <1>5, <2>1, ControllerFrame DEF OthersFade
  <2>2. CASE c = Target(t)
    <3>1. t # c
      BY <1>5, ControllerFrame
    <3>2. t \in AssetConn
      BY <2>2, <3>1, OwnTarget DEF Conn
    <3>3. pc[c] \notin WritingPC
      BY <2>2, <3>2 DEF Tidy, Quiet, ActingPC
    <3>4. ~SendMutexFree
      BY <3>2, MutexExcludes
    <3>5. LoginController(c) \/ ControllerReads(c)
      BY <1>5, <3>3, <3>4, ControllerActions
         DEF ControllerWrites, Authenticate, ComeOnline, SetOwner, Link, Pair, Writes, GetAsset,
             PutAsset, ForwardToCopy, WritingPC
    <3>6. ctrl'[c].asset = ctrl[c].asset
      BY <3>5, LoginAddresses, ReadsFrame DEF users
    <3>7. QED
      BY <2>2, <3>6
  <2>3. QED
    BY <2>1, <2>2
<1>6. QED
  BY <1>2, <1>3, <1>4, <1>5 DEF Step, AssetAction, ControllerAction

\* The next label of a thread whose step it is not.
LEMMA StayingLabels ==
  ASSUME TypeOK, Built, Tidy, Step, NEW t \in Conn, ~LogoutStep(t), pc'[t] \in LogoutPC \ {"logout"}
  PROVE  pc'[t] = pc[t]
<1>1. ASSUME NEW u \in Conn, LabelsKept(u), u # t
      PROVE  pc'[t] = pc[t]
  BY <1>1 DEF LabelsKept
<1>2. ASSUME NEW u \in Conn, Network(u)
      PROVE  pc'[t] = pc[t]
  BY <1>1, <1>2, NetworkFrame DEF LogoutPC
<1>3. ASSUME NEW u \in Conn, LogoutStep(u)
      PROVE  pc'[t] = pc[t]
  BY <1>1, <1>3, LogoutFrame
<1>4. ASSUME NEW a \in AssetConn, AssetAction(a)
      PROVE  pc'[t] = pc[t]
  BY <1>1, <1>4, AssetMoves, AssetLabels DEF Conn
<1>5. ASSUME NEW c \in ControllerConn, ControllerAction(c)
      PROVE  pc'[t] = pc[t]
  <2>1. c # t
    <3>1. LoginController(c) \/ ControllerReads(c) \/ PutAsset(c) \/ ForwardToCopy(c)
            => pc'[c] \notin LogoutPC \ {"logout"}
      <4>1. ForwardToCopy(c) => pc'[c] = "recv"
        BY TypeParts, OwnTarget, Moves, NoCrash DEF ForwardToCopy
      <4>2. QED
        BY <4>1, LoginAddresses, ReadsLabel DEF LogoutPC
    <3>2. ControllerWrites(c) \/ GetAsset(c) => pc'[c] \notin LogoutPC \ {"logout"}
      BY WritesEffect, GetAssetEffect DEF LogoutPC
    <3>3. QED
      BY <1>5, <3>1, <3>2, ControllerActions
  <2>2. QED
    BY <1>1, <1>5, <2>1, ControllerMoves, OwnTarget
<1>6. QED
  BY <1>2, <1>3, <1>4, <1>5 DEF Step, AssetAction, ControllerAction

\* Logouts do their writes in order.
LEMMA LogoutsStep ==
  ASSUME TypeOK, Built, Tidy, Step
  PROVE  LogoutsOK'
<1>. SUFFICES ASSUME NEW t \in Conn, pc'[t] \in {"disown", "put_unpaired"}
              PROVE  /\ ~ctrl'[Target(t)'].asset.isConnected
                     /\ pc'[t] = "put_unpaired" => ctrl'[Target(t)'].asset.owner = None
  BY DEF LogoutsOK, LogoutOK
<1>1. UsersTyped /\ LabelsTyped /\ LogoutOK(t)
  BY TypeParts DEF Tidy, LogoutsOK
<1>2. CASE LogoutStep(t)
  <2>1. pc[t] \in LogoutPC /\ Fades(Target(t)) /\ Target(t) \in ControllerConn
    BY <1>1, <1>2, LogoutFrame, TargetExists
  <2>2. Target(t)' = Target(t)
    BY <2>1, TargetsStay DEF ActingPC, LogoutPC
  <2>3. Unlink(t) \/ Disown(t)
    BY <1>1, <1>2, Moves DEF LogoutStep, Logout, Unlink, Disown, PutUnpaired, Unpair, Unauthenticate,
                             Offline, Writes, AfterLogout
  <2>4. ctrl[Target(t)] \in ControllerUser /\ ctrl[Target(t)].asset \in AssetUser
    BY <1>1, <2>1, UserTypes
  <2>5. CASE Unlink(t)
    <3>1. ~ctrl'[Target(t)].asset.isConnected
      BY <1>1, <2>1, <2>4, <2>5 DEF Unlink, Writes, UsersTyped, ControllerUser, AssetUser
    <3>2. pc'[t] = "disown"
      BY <1>1, <2>5, Moves DEF Unlink, Writes
    <3>3. QED
      BY <2>2, <3>1, <3>2
  <2>6. CASE Disown(t)
    <3>1. ctrl'[Target(t)].asset.owner = None
      BY <1>1, <2>1, <2>4, <2>6 DEF Disown, Writes, UsersTyped, ControllerUser, AssetUser
    <3>2. ~ctrl[Target(t)].asset.isConnected
      BY <1>1, <2>6 DEF Disown, Writes, LogoutOK
    <3>3. QED
      BY <2>1, <2>2, <3>1, <3>2 DEF Fades
  <2>7. QED
    BY <2>3, <2>5, <2>6
<1>3. CASE ~LogoutStep(t)
  <2>1. pc'[t] = pc[t]
    BY <1>3, StayingLabels DEF LogoutPC
  <2>2. Target(t)' = Target(t)
    BY <2>1, TargetsStay DEF ActingPC, LogoutPC
  <2>3. Fades(Target(t)) \/ UNCHANGED ctrl \/ ctrl'[Target(t)].asset = ctrl[Target(t)].asset
    BY <1>3, <2>1, TargetFades DEF LogoutPC
  <2>4. QED
    BY <1>1, <2>1, <2>2, <2>3 DEF LogoutOK, Fades
<1>4. QED
  BY <1>2, <1>3

\* A controller that is being unlinked by another thread than the one that
\* moves still is.
LEMMA UnlinkedKept ==
  ASSUME TypeOK, Built, Tidy, Step, NEW t \in Conn, LabelsKept(t), NEW d \in ControllerConn,
         Unlinked(d), pc[t] \notin {"disown", "put_unpaired", "unpair"} \/ Target(t) # d
  PROVE  Unlinked(d)'
<1>1. PICK u \in Conn : pc[u] \in {"disown", "put_unpaired", "unpair"} /\ Target(u) = d
  BY DEF Unlinked
<1>2. u # t
  BY <1>1
<1>3. pc'[u] = pc[u] /\ Target(u)' = Target(u)
  BY <1>1, <1>2, OthersLogouts DEF LogoutPC
<1>4. QED
  BY <1>1, <1>3 DEF Unlinked

\* A paired controller's copy is linked with it after a step of a logout.
LEMMA LogoutPairs ==
  ASSUME TypeOK, Built, Tidy, NEW t \in Conn, LogoutStep(t), NEW d \in ControllerConn,
         ctrl'[d].isConnected, pc'[d] \notin {"own", "link"}, ~Unlinked(d)'
  PROVE  Linked(d)'
<1>1. /\ LabelsKept(t) /\ pc[t] \in LogoutPC /\ Fades(d) /\ Step /\ d \in Conn
      /\ UsersTyped /\ LabelsTyped
  BY LogoutFrame, TypeParts, OwnTarget DEF Step
<1>2. pc[d] \notin {"own", "link"}
  BY <1>1 DEF LabelsKept, LogoutPC
<1>3. ctrl[d].isConnected
  BY <1>1 DEF Fades
<1>4. CASE d # Target(t)
  <2>1. ctrl'[d] = ctrl[d]
    BY <1>4, LogoutFrame
  <2>2. ~Unlinked(d)
    BY <1>1, <1>4, UnlinkedKept
  <2>3. QED
    BY <1>2, <1>3, <2>1, <2>2 DEF Tidy, PairsLinked, Linked
<1>5. CASE d = Target(t)
  <2>1. pc'[t] \notin {"disown", "put_unpaired", "unpair"}
    <3>1. CASE pc'[t] \in {"disown", "put_unpaired", "unpair"}
      <4>1. Target(t)' = d
        BY <1>1, <1>5, <3>1, TargetsStay DEF ActingPC, LogoutPC
      <4>2. QED
        BY <3>1, <4>1 DEF Unlinked
    <3>2. QED
      BY <3>1
  <2>2. ~Unpair(t)
    <3>1. CASE Unpair(t)
      <4>1. ~ctrl'[d].isConnected
        BY <1>1, <1>5, <3>1, UserTypes DEF Unpair, Writes, UsersTyped, ControllerUser
      <4>2. QED
        BY <4>1
    <3>2. QED
      BY <3>1
  <2>3. Logout(t) \/ Unauthenticate(t) \/ Offline(t)
    BY <1>1, <2>1, <2>2, Moves DEF LogoutStep, Unlink, Disown, PutUnpaired, Writes
  <2>4. pc[t] \notin {"disown", "put_unpaired", "unpair"}
    BY <2>3 DEF Logout, Unauthenticate, Offline, Writes
  <2>5. Linked(d)
    BY <1>1, <1>2, <1>3, <2>4, UnlinkedKept DEF Tidy, PairsLinked
  <2>6. ctrl'[d].asset = ctrl[d].asset /\ ctrl'[d].at = ctrl[d].at
    <3>1. CASE Logout(t)
      BY <3>1 DEF Logout, OnlyReads, users
    <3>2. CASE Unauthenticate(t) \/ Offline(t)
      BY <1>1, <1>5, <3>2, UserTypes DEF Unauthenticate, Offline, Writes, UsersTyped, ControllerUser
    <3>3. QED
      BY <2>3, <3>1, <3>2
  <2>7. QED
    BY <2>5, <2>6 DEF Linked
<1>6. QED
  BY <1>4, <1>5

\* The same after a step of its own thread.
LEMMA OwnPairs ==
  ASSUME TypeOK, Built, Tidy, NEW c \in ControllerConn, ControllerAction(c),
         ctrl'[c].isConnected, pc'[c] \notin {"own", "link"}, ~Unlinked(c)'
  PROVE  Linked(c)'
<1>1. /\ LabelsKept(c) /\ c \in Conn /\ Target(c) = c /\ LabelsTyped /\ UsersTyped /\ Step
      /\ ctrl[c] \in ControllerUser /\ ctrl[c].asset \in AssetUser /\ RequestOK(c)
      /\ pc[c] \notin LogoutPC
  BY ControllerMoves, ControllerFrame, OwnTarget, TypeParts, UserTypes
     DEF Step, ControllerAction, Tidy, RequestsOK
<1>2. ~Unlinked(c)
  BY <1>1, UnlinkedKept DEF LogoutPC
<1>3. ctrl[c].isConnected /\ pc[c] \notin {"own", "link"} => Linked(c)
  BY <1>2 DEF Tidy, PairsLinked
<1>4. CASE LoginController(c)
  <2>1. ctrl'[c].isConnected = ctrl[c].isConnected /\ ctrl'[c].asset = ctrl[c].asset /\ pc[c] = "recv"
    <3>1. CASE ctrl[c].at = None
      <4>1. PICK p \in Addr : ctrl' = [ctrl EXCEPT ![c].at = p]
        BY <1>4, <3>1 DEF LoginController
      <4>2. pc[c] = "recv"
        BY <1>4 DEF LoginController
      <4>3. QED
        BY <1>1, <4>1, <4>2 DEF UsersTyped, ControllerUser
    <3>2. CASE ctrl[c].at # None
      BY <1>4, <3>2 DEF LoginController
    <3>3. QED
      BY <3>1, <3>2
  <2>2. Linked(c)
    BY <1>3, <2>1
  <2>3. ctrl[c].at # None
    BY <1>1, <2>2 DEF Linked, RequestOK
  <2>4. ctrl'[c].at = ctrl[c].at
    BY <1>4, <2>3 DEF LoginController
  <2>5. QED
    BY <2>1, <2>2, <2>4 DEF Linked
<1>5. CASE ControllerReads(c) \/ PutAsset(c)
  <2>1. ctrl' = ctrl
    BY <1>5, ReadsFrame DEF PutAsset, users
  <2>2. pc[c] \notin {"own", "link"}
    BY <1>5 DEF ControllerReads, RequestAgain, ConfirmController, CommandAfterRequest, Command, Ping,
         LogoutMessageFromController, DisconnectController, PutAsset
  <2>3. QED
    BY <1>3, <2>1, <2>2 DEF Linked
<1>6. CASE Authenticate(c) \/ ComeOnline(c)
  <2>1. /\ ctrl'[c].isConnected = ctrl[c].isConnected /\ ctrl'[c].asset = ctrl[c].asset
        /\ ctrl'[c].at = ctrl[c].at
    <3>1. CASE Authenticate(c)
      BY <1>1, <3>1 DEF Authenticate, Writes, UsersTyped, ControllerUser
    <3>2. CASE ComeOnline(c)
      BY <1>1, <3>2 DEF ComeOnline, Writes, UsersTyped, ControllerUser
    <3>3. QED
      BY <1>6, <3>1, <3>2
  <2>2. pc[c] \notin {"own", "link"}
    BY <1>6 DEF Authenticate, ComeOnline, Writes
  <2>3. QED
    BY <1>3, <2>1, <2>2 DEF Linked
<1>7. CASE SetOwner(c)
  BY <1>1, <1>7, Moves DEF SetOwner, Writes
<1>8. CASE Link(c)
  <2>1. /\ ctrl'[c].asset.owner = ctrl[c].asset.owner
        /\ ctrl'[c].at = ctrl[c].at /\ ctrl'[c].asset.isConnected
    BY <1>1, <1>8 DEF Link, Writes, UsersTyped, ControllerUser, AssetUser
  <2>2. ctrl[c].asset.owner = ctrl[c].at
    BY <1>1, <1>8 DEF Link, Writes, RequestOK
  <2>3. QED
    BY <2>1, <2>2 DEF Linked
<1>9. CASE Pair(c)
  <2>1. ctrl'[c].asset = ctrl[c].asset /\ ctrl'[c].at = ctrl[c].at
    BY <1>1, <1>9 DEF Pair, Writes, UsersTyped, ControllerUser
  <2>2. pc[c] = "pair"
    BY <1>9 DEF Pair, Writes
  <2>3. QED
    BY <1>1, <2>1, <2>2 DEF Linked, RequestOK
<1>10. CASE GetAsset(c)
  <2>1. /\ ctrl'[c].isConnected = ctrl[c].isConnected /\ ctrl'[c].at = ctrl[c].at
        /\ ctrl'[c].asset = ctrl[c].asset
    BY <1>10, GetAssetEffect
  <2>2. pc[c] \notin {"own", "link"}
    BY <1>10 DEF GetAsset
  <2>3. QED
    BY <1>3, <2>1, <2>2 DEF Linked
<1>11. CASE ForwardToCopy(c)
  <2>1. UNCHANGED users
    BY <1>11, ForwardClears, ControllerMoves
  <2>2. pc[c] \notin {"own", "link"}
    BY <1>11 DEF ForwardToCopy
  <2>3. QED
    BY <1>3, <2>1, <2>2 DEF Linked, users
<1>12. QED
  BY <1>4, <1>5, <1>6, <1>7, <1>8, <1>9, <1>10, <1>11, ControllerActions DEF ControllerWrites

\* Paired controllers stay linked with their copies.
LEMMA PairsStep ==
  ASSUME TypeOK, Built, Tidy, Step
  PROVE  PairsLinked'
<1>. SUFFICES ASSUME NEW d \in ControllerConn, ctrl'[d].isConnected, pc'[d] \notin {"own", "link"},
                     ~Unlinked(d)'
              PROVE  Linked(d)'
  BY DEF PairsLinked
<1>1. ASSUME NEW t \in Conn, LabelsKept(t), Untouched(d), t # d,
             pc[t] \notin {"disown", "put_unpaired", "unpair"}
      PROVE  Linked(d)'
  <2>1. ~Unlinked(d)
    BY <1>1, UnlinkedKept
  <2>2. pc'[d] = pc[d]
    BY <1>1, OwnTarget DEF LabelsKept
  <2>3. QED
    BY <1>1, <2>1, <2>2 DEF Tidy, PairsLinked, Linked, Untouched
<1>2. ASSUME NEW t \in Conn, Network(t)
      PROVE  Linked(d)'
  <2>1. /\ ctrl' = ctrl /\ LabelsKept(t)
        /\ pc' = pc \/ (pc[t] = "new" /\ pc'[t] = "recv")
    BY <1>2, NetworkFrame DEF users
  <2>2. ~Unlinked(d)
    <3>1. CASE pc' = pc
      <4>1. ASSUME NEW u \in Conn, pc[u] \in {"disown", "put_unpaired", "unpair"}, Target(u) = d
            PROVE  FALSE
        <5>1. Target(u)' = Target(u)
          BY <3>1, <4>1, TargetsStay DEF ActingPC, LogoutPC
        <5>2. QED
          BY <3>1, <4>1, <5>1 DEF Unlinked
      <4>2. QED
        BY <4>1 DEF Unlinked
    <3>2. CASE pc[t] = "new"
      BY <2>1, <3>2, UnlinkedKept
    <3>3. QED
      BY <2>1, <3>1, <3>2
  <2>3. pc[d] \notin {"own", "link"}
    BY <2>1, OwnTarget DEF LabelsKept
  <2>4. QED
    BY <2>1, <2>2, <2>3 DEF Tidy, PairsLinked, Linked
<1>3. ASSUME NEW a \in AssetConn, AssetAction(a)
      PROVE  Linked(d)'
  BY <1>1, <1>3, AssetMoves, AssetUntouched, AssetFrame, ConnAssumption DEF Conn
<1>4. ASSUME NEW c \in ControllerConn, ControllerAction(c)
      PROVE  Linked(d)'
  <2>1. CASE c = d
    BY <1>4, <2>1, OwnPairs
  <2>2. CASE c # d
    BY <1>1, <1>4, <2>2, ControllerMoves, ControllerUntouched, ControllerFrame, OwnTarget DEF LogoutPC
  <2>3. QED
    BY <2>1, <2>2
<1>5. QED
  BY <1>2, <1>3, <1>4, LogoutPairs DEF Step, AssetAction, ControllerAction

-----------------------------------------------------------------------------
(* The invariant and the theorems. *)

\* A step without a race comes after no race, and leaves the threads quiet.
LEMMA NoRaceStep ==
  ASSUME Next, ~raced'
  PROVE  ~raced /\ Quiet'
<1>1. ~raced /\ ~Racing'
  BY DEF Next
<1>2. (~Racing <=> Quiet)'
  BY DEF Racing, Quiet, ActingPC
<1>3. QED
  BY <1>1, <1>2

\* The invariant holds initially.
LEMMA InitInvariance == Init => IInv
<1>. SUFFICES ASSUME Init PROVE IInv
  OBVIOUS
<1>1. TypeOK
  BY NoneAssumption DEF Init, TypeOK, ConnState, AssetUser, ControllerUser, NewAssetUser, NewControllerUser,
         AssetPC, ControllerPC, Conn
<1>2. LabelsOK
  BY DEF Init, LabelsOK, AssetLabelOK, ControllerLabelOK, AssetPC, ControllerPC, SendPC, LogoutPC,
         RequestPC, NamelessPC, NewControllerUser, Conn
<1>3. CellsOK
  BY DEF Init, CellsOK, NewControllerUser
<1>4. RecordsBuilt
  BY DEF Init, RecordsBuilt, OwnerBuilt, Socketed, NewControllerUser, NewAssetUser
<1>5. Quiet
  BY DEF Init, Quiet, ActingPC, LogoutPC, Conn
<1>6. RecordsWhole /\ RecordOnline
  BY DEF Init, RecordsWhole, RecordOnline, Whole, NewAssetUser
<1>7. RequestsOK /\ LogoutsOK
  BY DEF Init, RequestsOK, RequestOK, LogoutsOK, LogoutOK, NewControllerUser, NewAssetUser, Conn
<1>8. CopiesOnline /\ PairsLinked
  BY DEF Init, CopiesOnline, Counts, PairsLinked, NewControllerUser, NewAssetUser, Conn
<1>9. QED
  BY <1>1, <1>2, <1>3, <1>4, <1>5, <1>6, <1>7, <1>8 DEF IInv, Built, Tidy

\* Every step keeps it.
LEMMA NextInvariance == IInv /\ [Next]_vars => IInv'
<1>. SUFFICES ASSUME IInv, [Next]_vars PROVE IInv'
  OBVIOUS
<1>1. CASE Next
  <2>1. TypeOK /\ Built /\ Step
    BY <1>1 DEF IInv, Next
  <2>2. TypeOK' /\ Built'
    BY <2>1, StepTypes, BuiltStep
  <2>3. ASSUME ~raced' PROVE Tidy'
    <3>1. Tidy /\ Quiet'
      BY <1>1, <2>3, NoRaceStep DEF IInv
    <3>2. QED
      BY <2>1, <3>1, WholeStep, RequestsStep, CopiesStep, LogoutsStep, PairsStep DEF Tidy
  <2>4. QED
    BY <2>2, <2>3 DEF IInv
<1>2. CASE UNCHANGED vars
  BY <1>2 DEF IInv, vars, TypeOK, Built, LabelsOK, AssetLabelOK, ControllerLabelOK, CellsOK,
         RecordsBuilt, OwnerBuilt, Socketed, Tidy, Quiet, Target, RecordsWhole, Whole, RecordOnline,
         Online, RequestsOK, RequestOK, CopiesOnline, Counts, LogoutsOK, LogoutOK, PairsLinked,
         Unlinked, Linked
<1>3. QED
  BY <1>1, <1>2

\* The inductive invariant: types, addresses and labels always, and the order
\* of the writes of requests and logouts unless threads raced.
THEOREM Invariance == Spec => []IInv
<1>1. QED
  BY InitInvariance, NextInvariance, PTL DEF Spec

\* Every variable keeps its type; in particular the record in the database
\* always has a socket.
THEOREM TypeCorrect == Spec => []TypeOK
<1>1. IInv => TypeOK
  BY DEF IInv
<1>2. QED
  BY <1>1, Invariance, PTL

\* Unless threads raced, no handler meets a null _connected_owner.
THEOREM NoNullOwner == Spec => []LinkedHasOwner
<1>1. IInv => LinkedHasOwner
  BY DEF IInv, Tidy, RecordsWhole, Whole, RequestsOK, RequestOK, LinkedHasOwner
<1>2. QED
  BY <1>1, Invariance, PTL

\* Unless threads raced, a controller that counts as paired when a handler
\* tests it holds a copy that is online and linked with it.
THEOREM PairedCopyAlwaysUsable == Spec => []PairedCopyUsable
<1>1. IInv => PairedCopyUsable
  <2>. SUFFICES ASSUME IInv, ~raced, NEW c \in ControllerConn, ctrl[c].isConnected, TestsFlags(c)
                PROVE  Online(ctrl[c].asset) /\ Linked(c)
    BY DEF PairedCopyUsable, Online, Linked
  <2>1. Tidy
    BY DEF IInv
  <2>2. Online(ctrl[c].asset)
    BY <2>1 DEF Tidy, CopiesOnline, Counts
  <2>3. ~Unlinked(c)
    BY OwnTarget DEF TestsFlags, LoggedOutByAsset, Unlinked, LogoutPC, Conn
  <2>4. pc[c] \notin {"own", "link"}
    BY DEF TestsFlags
  <2>5. QED
    BY <2>1, <2>2, <2>3, <2>4 DEF Tidy, PairsLinked
<1>2. QED
  BY <1>1, Invariance, PTL

\* Unless threads raced, whatever threads write whole records back, the
\* record in the database stays online, in every session of the asset.
THEOREM DatabaseOnlineUnlessRaced == Spec => [](~raced => DatabaseStaysOnline)
<1>1. IInv => (~raced => DatabaseStaysOnline)
  BY DEF IInv, Tidy, RecordOnline, Online, DatabaseStaysOnline
<1>2. QED
  BY <1>1, Invariance, PTL

\* Unless threads raced, no write to the database brings in an owner that is
\* already deleted: a logout writes none, and a request writes its own.
THEOREM DatabaseOwnersLive == Spec => DatabaseGainsLiveOwners
<1>1. IInv /\ [Next]_vars => [~raced' /\ assets' # assets /\ assets'.owner # None => Live(assets'.owner)]_vars
  <2>. SUFFICES ASSUME IInv, Next, ~raced', assets' # assets, assets'.owner # None
                PROVE  Live(assets'.owner)
    BY DEF vars
  <2>1. TypeOK /\ Built /\ Tidy /\ Step
    BY NoRaceStep DEF IInv, Next
  <2>2. ASSUME NEW t \in Conn, Network(t) PROVE FALSE
    BY <2>1, <2>2, NetworkFrame DEF users
  <2>3. ASSUME NEW t \in Conn, LogoutStep(t) PROVE FALSE
    BY <2>1, <2>3, LogoutRecord
  <2>4. ASSUME NEW a \in AssetConn, AssetAction(a) PROVE FALSE
    BY <2>1, <2>4, AssetWhole
  <2>5. ASSUME NEW c \in ControllerConn, ControllerAction(c) PROVE Live(assets'.owner)
    BY <2>1, <2>5, RequestRecord
  <2>6. QED
    BY <2>1, <2>2, <2>3, <2>4, <2>5 DEF Step, AssetAction, ControllerAction
<1>2. QED
  BY <1>1, Invariance, PTL DEF Spec, DatabaseGainsLiveOwners
=============================================================================
