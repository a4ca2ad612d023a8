---------------------- MODULE GpPairingSessions_proofs ----------------------
(***************************************************************************)
(* More theorems about GpPairing: what the confirmation of a login stands  *)
(* for, and where it goes, whatever threads race.                          *)
(***************************************************************************)
EXTENDS GpPairing_proofs

-----------------------------------------------------------------------------
(* A login is confirmed only when the asset was granted. *)

\* An asset's thread has begun to log c out, or has done so.
Hit(c) == LoggedOutByAsset(c) \/ ~ctrl[c].isOnline

\* What a request has got so far.
GrantedSoFar(c) ==
  /\ ctrl[c].asset.isOnline
  /\ pc[c] \in {"link", "pair", "put", "confirm"} => ctrl[c].asset.owner = ctrl[c].at
  /\ pc[c] \in {"pair", "put", "confirm"} => ctrl[c].asset.isConnected

GrantPC == {"own", "link", "pair", "put", "confirm"}

Grants == \A c \in ControllerConn : pc[c] \in GrantPC => GrantedSoFar(c) \/ Hit(c)

ConfirmInv == TypeOK /\ Built /\ Grants /\ ConfirmedOnlyWhenGranted

\* A thread that logs a controller out that still exists keeps its target.
LEMMA LiveTargetStays ==
  ASSUME TypeOK, Built, Step, NEW t \in AssetConn, pc[t] \in LogoutPC,
         NEW c \in ControllerConn, Target(t) = c, pc[c] # "done"
  PROVE  Target(t)' = c
<1>1. UsersTyped /\ asset[t] \in AssetUser /\ asset[t].owner \in Addr /\ cell[asset[t].owner] = c
  BY TypeParts, UserTypes DEF AssetUser, Built, LabelsOK, AssetLabelOK, Target
<1>2. asset'[t] = asset[t]
  <2>1. ASSUME NEW a \in AssetConn, AssetAction(a)
        PROVE  asset'[t] = asset[t]
    BY <2>1, AssetFrame DEF AssetsKept, LogoutPC
  <2>2. ASSUME NEW u \in Conn, Network(u) \/ LogoutStep(u)
        PROVE  asset' = asset
    BY <2>2, NetworkFrame, LogoutFrame DEF users
  <2>3. ASSUME NEW d \in ControllerConn, ControllerAction(d)
        PROVE  asset' = asset
    BY <2>3, ControllerFrame
  <2>4. QED
    BY <2>1, <2>2, <2>3 DEF Step, AssetAction, ControllerAction
<1>3. cell'[asset[t].owner] = c
  <2>1. CASE cell' = cell
    BY <1>1, <2>1
  <2>2. CASE cell' # cell
    <3>1. PICK d \in ControllerConn, p \in Addr : cell' = [cell EXCEPT ![p] = d] /\ ~Live(p)
      BY <2>2, AddressesKept, LoginAddresses
    <3>2. ctrl[c].at = asset[t].owner
      BY <1>1, NoneAssumption DEF Built, CellsOK, Conn
    <3>3. Live(asset[t].owner)
      BY <3>2 DEF Live
    <3>4. QED
      BY <1>1, <3>1, <3>3 DEF UsersTyped
  <2>3. QED
    BY <2>1, <2>2
<1>4. QED
  BY <1>2, <1>3 DEF Target

\* A controller that is being logged out by an asset's thread still is after
\* the step of any other thread.
LEMMA HitKept ==
  ASSUME TypeOK, Built, Step, NEW t \in Conn, LabelsKept(t), NEW c \in ControllerConn,
         t \notin AssetConn \/ pc[t] \notin LogoutPC, pc[c] # "done",
         ctrl'[c].isOnline => ctrl[c].isOnline, Hit(c)
  PROVE  Hit(c)'
<1>1. CASE ~ctrl[c].isOnline
  BY <1>1 DEF Hit
<1>2. CASE LoggedOutByAsset(c)
  <2>1. PICK a \in AssetConn : pc[a] \in LogoutPC /\ Target(a) = c
    BY <1>2 DEF LoggedOutByAsset
  <2>2. pc'[a] = pc[a]
    BY <2>1 DEF LabelsKept, Conn
  <2>3. QED
    BY <2>1, <2>2, LiveTargetStays DEF Hit, LoggedOutByAsset
<1>3. QED
  BY <1>1, <1>2 DEF Hit

\* Grants survive the logouts of assets' threads.
LEMMA LogoutGrants ==
  ASSUME TypeOK, Built, Grants, NEW t \in Conn, LogoutStep(t),
         NEW c \in ControllerConn, pc'[c] \in GrantPC
  PROVE  (GrantedSoFar(c) \/ Hit(c))'
<1>1. /\ LabelsKept(t) /\ pc[t] \in LogoutPC /\ Step /\ c \in Conn /\ LabelsTyped /\ UsersTyped
      /\ Fades(c) /\ (c # Target(t) => ctrl'[c] = ctrl[c])
  BY LogoutFrame, OwnTarget, TypeParts DEF Step
<1>2. t # c
  BY LogoutLabel DEF GrantPC, LogoutPC, AfterLogout
<1>3. pc'[c] = pc[c] /\ pc[c] # "done" /\ (GrantedSoFar(c) \/ Hit(c))
  BY <1>1, <1>2 DEF LabelsKept, GrantPC, Grants
<1>4. CASE c # Target(t)
  <2>1. CASE GrantedSoFar(c)
    BY <1>1, <1>3, <1>4, <2>1 DEF GrantedSoFar
  <2>2. CASE ~ctrl[c].isOnline
    BY <1>1, <1>4, <2>2 DEF Hit
  <2>3. CASE LoggedOutByAsset(c)
    <3>1. PICK a \in AssetConn : pc[a] \in LogoutPC /\ Target(a) = c
      BY <2>3 DEF LoggedOutByAsset
    <3>2. pc'[a] = pc[a]
      BY <1>1, <1>4, <3>1 DEF LabelsKept, Conn
    <3>3. QED
      BY <1>1, <1>3, <3>1, <3>2, LiveTargetStays DEF Hit, LoggedOutByAsset
  <2>4. QED
    BY <1>3, <2>1, <2>2, <2>3 DEF Hit
<1>5. CASE c = Target(t)
  <2>1. t \in AssetConn
    BY <1>2, <1>5, OwnTarget DEF Conn
  <2>2. CASE Offline(t)
    <3>1. ~ctrl'[c].isOnline
      BY <1>1, <1>5, <2>2, UserTypes DEF Offline, UsersTyped, ControllerUser
    <3>2. QED
      BY <3>1 DEF Hit
  <2>3. CASE ~Offline(t)
    <3>1. pc'[t] \in LogoutPC
      BY <1>1, <2>3, Moves
         DEF LogoutStep, Logout, Unlink, Disown, PutUnpaired, Unpair, Unauthenticate, Writes, LogoutPC
    <3>2. Target(t)' = c
      BY <1>1, <1>3, <1>5, <2>1, LiveTargetStays
    <3>3. QED
      BY <2>1, <3>1, <3>2 DEF Hit, LoggedOutByAsset
  <2>4. QED
    BY <2>2, <2>3
<1>6. QED
  BY <1>4, <1>5

\* The request does its part, whatever an asset's thread does meanwhile.
LEMMA OwnGrants ==
  ASSUME TypeOK, Built, Grants, NEW c \in ControllerConn, ControllerAction(c), LabelsKept(c),
         pc'[c] \in GrantPC
  PROVE  (GrantedSoFar(c) \/ Hit(c))'
<1>1. /\ c \in Conn /\ Target(c) = c /\ LabelsTyped /\ UsersTyped /\ Step
      /\ ctrl[c] \in ControllerUser /\ ctrl[c].asset \in AssetUser
      /\ pc[c] # "done" /\ c \notin AssetConn
  BY OwnTarget, TypeParts, UserTypes, ControllerFrame, ConnAssumption DEF Step, ControllerAction
<1>2. pc[c] \in GrantPC => GrantedSoFar(c) \/ Hit(c)
  BY DEF Grants
<1>3. ASSUME Hit(c), ctrl'[c].isOnline => ctrl[c].isOnline
      PROVE  Hit(c)'
  BY <1>1, <1>3, HitKept
<1>4. CASE LoginController(c)
  <2>1. pc'[c] = "authenticate"
    BY <1>4, LoginAddresses
  <2>2. QED
    BY <2>1 DEF GrantPC
<1>5. CASE ControllerReads(c)
  <2>1. pc'[c] \notin GrantPC
    BY <1>1, <1>5
       DEF ControllerReads, RequestAgain, ConfirmController, CommandAfterRequest, Command, Ping,
           LogoutMessageFromController, DisconnectController, Goto, Call, Return, LabelsTyped, GrantPC
  <2>2. QED
    BY <2>1
<1>6. CASE Authenticate(c) \/ ComeOnline(c)
  <2>1. pc'[c] \in {"online", "get"}
    BY <1>1, <1>6, Moves DEF Authenticate, ComeOnline, Writes
  <2>2. QED
    BY <2>1 DEF GrantPC
<1>7. CASE GetAsset(c)
  <2>1. CASE assets # None /\ assets.isOnline
    <3>1. pc'[c] = "own"
      BY <1>1, <1>7, <2>1, Moves DEF GetAsset
    <3>2. ctrl'[c].asset = assets
      <4>1. ctrl' = [ctrl EXCEPT ![c].asset = assets]
        BY <1>7, <2>1 DEF GetAsset
      <4>2. QED
        BY <1>1, <4>1 DEF UsersTyped, ControllerUser
    <3>3. QED
      BY <2>1, <3>1, <3>2 DEF GrantedSoFar
  <2>2. CASE ~(assets # None /\ assets.isOnline)
    <3>1. RequestOver(c, FALSE) /\ pc[c] \in RequestPC
      BY <1>7, <2>2 DEF GetAsset, RequestPC
    <3>2. pc'[c] \notin GrantPC
      BY <1>1, <3>1, OverLabel, RequestTask DEF GrantPC
    <3>3. QED
      BY <3>2
  <2>3. QED
    BY <2>1, <2>2
<1>8. CASE SetOwner(c)
  <2>1. /\ ctrl'[c].asset.owner = ctrl'[c].at
        /\ ctrl'[c].asset.isOnline = ctrl[c].asset.isOnline
        /\ ctrl'[c].isOnline = ctrl[c].isOnline
    BY <1>1, <1>8 DEF SetOwner, Writes, UsersTyped, ControllerUser, AssetUser
  <2>2. pc[c] = "own" /\ pc'[c] = "link"
    BY <1>1, <1>8, Moves DEF SetOwner, Writes
  <2>3. CASE GrantedSoFar(c)
    BY <2>1, <2>2, <2>3 DEF GrantedSoFar
  <2>4. QED
    BY <1>2, <1>3, <2>1, <2>2, <2>3 DEF GrantPC
<1>9. CASE Link(c)
  <2>1. /\ ctrl'[c].asset.owner = ctrl[c].asset.owner /\ ctrl'[c].at = ctrl[c].at
        /\ ctrl'[c].asset.isOnline = ctrl[c].asset.isOnline
        /\ ctrl'[c].asset.isConnected
        /\ ctrl'[c].isOnline = ctrl[c].isOnline
    BY <1>1, <1>9 DEF Link, Writes, UsersTyped, ControllerUser, AssetUser
  <2>2. pc[c] = "link" /\ pc'[c] = "pair"
    BY <1>1, <1>9, Moves DEF Link, Writes
  <2>3. CASE GrantedSoFar(c)
    BY <2>1, <2>2, <2>3 DEF GrantedSoFar
  <2>4. QED
    BY <1>2, <1>3, <2>1, <2>2, <2>3 DEF GrantPC
<1>10. CASE Pair(c)
  <2>1. ctrl'[c].asset = ctrl[c].asset /\ ctrl'[c].at = ctrl[c].at /\ ctrl'[c].isOnline = ctrl[c].isOnline
    BY <1>1, <1>10 DEF Pair, Writes, UsersTyped, ControllerUser
  <2>2. pc[c] = "pair" /\ pc'[c] = "put"
    BY <1>1, <1>10, Moves DEF Pair, Writes
  <2>3. CASE GrantedSoFar(c)
    BY <2>1, <2>2, <2>3 DEF GrantedSoFar
  <2>4. QED
    BY <1>2, <1>3, <2>1, <2>2, <2>3 DEF GrantPC
<1>11. CASE PutAsset(c)
  <2>1. ctrl' = ctrl /\ pc[c] = "put"
    BY <1>11 DEF PutAsset
  <2>2. CASE GrantedSoFar(c)
    BY <2>1, <2>2 DEF GrantedSoFar
  <2>3. QED
    BY <1>2, <1>3, <2>1, <2>2 DEF GrantPC
<1>12. CASE ForwardToCopy(c)
  <2>1. pc'[c] \in {"recv", "done", "crashed"}
    BY <1>1, <1>12, Moves DEF ForwardToCopy, Crash
  <2>2. QED
    BY <2>1 DEF GrantPC
<1>13. QED
  BY <1>4, <1>5, <1>6, <1>7, <1>8, <1>9, <1>10, <1>11, <1>12, ControllerActions DEF ControllerWrites

\* Of the others' copies, a step of a client's thread clears nothing.
LEMMA GrantsStep ==
  ASSUME TypeOK, Built, Grants, Step
  PROVE  Grants'
<1>. SUFFICES ASSUME NEW c \in ControllerConn, pc'[c] \in GrantPC
              PROVE  (GrantedSoFar(c) \/ Hit(c))'
  BY DEF Grants
<1>1. c \in Conn /\ c \notin AssetConn
  BY OwnTarget, ConnAssumption
<1>2. ASSUME NEW t \in Conn, LabelsKept(t), Untouched(c), Fades(c), pc'[c] = pc[c],
             t \notin AssetConn \/ pc[t] \notin LogoutPC
      PROVE  (GrantedSoFar(c) \/ Hit(c))'
  <2>1. CASE GrantedSoFar(c)
    BY <1>2, <2>1 DEF GrantedSoFar, Untouched
  <2>2. CASE Hit(c)
    <3>1. Hit(c)'
      BY <1>2, <2>2, HitKept DEF Fades, GrantPC
    <3>2. QED
      BY <3>1
  <2>3. QED
    BY <1>2, <2>1, <2>2 DEF Grants
<1>3. ASSUME NEW t \in Conn, Network(t)
      PROVE  (GrantedSoFar(c) \/ Hit(c))'
  <2>1. ctrl' = ctrl /\ LabelsKept(t) /\ (pc' = pc \/ (pc[t] = "new" /\ pc'[t] = "recv"))
    BY <1>3, NetworkFrame DEF users
  <2>2. pc'[c] = pc[c]
    BY <1>1, <2>1 DEF LabelsKept, GrantPC
  <2>3. Untouched(c) /\ Fades(c)
    BY <2>1, SameFades DEF Untouched
  <2>4. CASE pc[t] \notin LogoutPC
    BY <1>2, <2>1, <2>2, <2>3, <2>4
  <2>5. CASE pc' = pc /\ pc[t] \in LogoutPC
    <3>1. LabelsKept(c)
      BY <1>3, <2>5, NetworkFrame DEF LabelsKept
    <3>2. QED
      BY <1>1, <1>2, <2>2, <2>3, <3>1
  <2>6. QED
    BY <2>1, <2>4, <2>5 DEF LogoutPC
<1>4. ASSUME NEW a \in AssetConn, AssetAction(a)
      PROVE  (GrantedSoFar(c) \/ Hit(c))'
  <2>1. LabelsKept(a)
    <3>1. CASE Crash
      BY <1>1, <3>1 DEF Crash, GrantPC
    <3>2. QED
      BY <1>4, <3>1, AssetFrame
  <2>2. pc'[c] = pc[c] /\ a \in Conn
    BY <1>1, <2>1 DEF LabelsKept, Conn
  <2>3. pc[a] \notin LogoutPC
    BY <1>4, AssetFrame DEF LogoutPC
  <2>4. QED
    BY <1>2, <1>4, <2>1, <2>2, <2>3, AssetUntouched, AssetFrame
<1>5. ASSUME NEW d \in ControllerConn, ControllerAction(d)
      PROVE  (GrantedSoFar(c) \/ Hit(c))'
  <2>1. LabelsKept(d)
    <3>1. CASE Crash
      BY <1>1, <3>1 DEF Crash, GrantPC
    <3>2. QED
      BY <1>5, <3>1, ControllerFrame
  <2>2. CASE d = c
    BY <1>5, <2>1, <2>2, OwnGrants
  <2>3. CASE d # c
    <3>1. Untouched(c) /\ Fades(c) /\ pc'[c] = pc[c] /\ d \in Conn /\ d \notin AssetConn
      BY <1>1, <1>5, <2>1, <2>3, ControllerUntouched, ControllerFrame, OwnTarget, ConnAssumption
         DEF OthersFade, LabelsKept
    <3>2. QED
      BY <1>2, <2>1, <3>1
  <2>4. QED
    BY <2>2, <2>3
<1>6. QED
  BY <1>3, <1>4, <1>5, LogoutGrants DEF Step, AssetAction, ControllerAction

\* Who confirms what: only a controller's own thread confirms its login, and
\* an asset's its own.
LEMMA Confirmations ==
  ASSUME TypeOK, Built, Step, wire' # None, wire'.kind = "CONFIRM"
  PROVE  \/ \E c \in ControllerConn :
              /\ ConfirmController(c) /\ wire'.from = c /\ wire'.to = c /\ ctrl[c].isOnline
         \/ \E a \in AssetConn :
              /\ ConfirmAsset(a) /\ wire'.from = a /\ wire'.to = asset[a].fd
              /\ conn[asset[a].fd] # "reset"
<1>1. LabelsTyped /\ UsersTyped
  BY TypeParts
<1>2. ASSUME NEW t \in Conn, Network(t) \/ LogoutStep(t)
      PROVE  FALSE
  BY <1>2 DEF Network, Connect, DropConnection, ResetConnection, LogoutStep, Logout, Unlink, Disown,
       PutUnpaired, Unpair, Unauthenticate, Offline, Writes, OnlyReads
<1>3. ASSUME NEW a \in AssetConn, AssetAction(a)
      PROVE  /\ ConfirmAsset(a) /\ wire'.from = a /\ wire'.to = asset[a].fd
             /\ conn[asset[a].fd] # "reset"
  <2>1. CASE Write(a)
    <3>1. wire' # None => wire'.kind = task[a]
      BY <2>1 DEF Write, Written
    <3>2. task[a] \in AssetTask
      BY <2>1 DEF Write, Built, LabelsOK, AssetLabelOK, SendPC
    <3>3. QED
      BY <3>1, <3>2 DEF AssetTask
  <2>2. CASE ~Write(a) /\ ~ConfirmAsset(a)
    BY <1>3, <2>2
       DEF AssetAction, AssetStep, AssetMessage, DisconnectAsset, BeginSend, CheckOnline, RefreshAsset,
           LoginAsset, Heartbeat, Pong, LogoutMessageFromAsset, OnlyReads
  <2>3. CASE ConfirmAsset(a)
    <3>1. PICK r \in UserSendResults(asset[a].isOnline, asset[a].fd) :
            wire' = Written(r, "CONFIRM", a, asset[a].fd)
      BY <2>3 DEF ConfirmAsset
    <3>2. r = "sent" /\ wire'.from = a /\ wire'.to = asset[a].fd
      BY <3>1 DEF Written
    <3>3. conn[asset[a].fd] # "reset"
      BY <3>1, <3>2 DEF UserSendResults, SendResults
    <3>4. QED
      BY <2>3, <3>2, <3>3
  <2>4. QED
    BY <2>1, <2>2, <2>3
<1>4. ASSUME NEW c \in ControllerConn, ControllerAction(c)
      PROVE  ConfirmController(c) /\ wire'.from = c /\ wire'.to = c /\ ctrl[c].isOnline
  <2>1. CASE ForwardToCopy(c)
    <3>1. wire' # None => wire'.kind = task[c]
      BY <2>1 DEF ForwardToCopy, Written
    <3>2. task[c] \in {"COMMAND", "PING"}
      BY <2>1 DEF ForwardToCopy, Built, LabelsOK, ControllerLabelOK
    <3>3. QED
      BY <3>1, <3>2
  <2>2. CASE ~ForwardToCopy(c) /\ ~ConfirmController(c)
    BY <1>4, <2>2, ControllerActions
       DEF LoginController, ControllerReads, RequestAgain, CommandAfterRequest, Command, Ping,
           LogoutMessageFromController, DisconnectController, ControllerWrites, Authenticate, ComeOnline,
           SetOwner, Link, Pair, Writes, GetAsset, PutAsset, OnlyReads
  <2>3. CASE ConfirmController(c)
    <3>1. PICK r \in UserSendResults(ctrl[c].isOnline, c) : wire' = Written(r, "CONFIRM", c, c)
      BY <2>3 DEF ConfirmController
    <3>2. r = "sent" /\ wire'.from = c /\ wire'.to = c
      BY <3>1 DEF Written
    <3>3. ctrl[c].isOnline
      BY <3>1, <3>2 DEF UserSendResults
    <3>4. QED
      BY <2>3, <3>2, <3>3
  <2>4. QED
    BY <2>1, <2>2, <2>3
<1>5. QED
  BY <1>2, <1>3, <1>4 DEF Step, AssetAction, ControllerAction

\* A confirmation finds the asset granted: no asset's thread logs anybody out
\* while _send_mutex is free.
LEMMA ConfirmStep ==
  ASSUME TypeOK, Built, Grants, Step
  PROVE  ConfirmedOnlyWhenGranted'
<1>. SUFFICES ASSUME wire' # None, wire'.kind = "CONFIRM", wire'.from \in ControllerConn
              PROVE  LET u == ctrl'[wire'.from].asset
                     IN u.isOnline /\ u.isConnected /\ u.owner = ctrl'[wire'.from].at
  BY DEF ConfirmedOnlyWhenGranted
<1>1. PICK c \in ControllerConn : ConfirmController(c) /\ wire'.from = c /\ ctrl[c].isOnline
  BY Confirmations, ConnAssumption
<1>2. ctrl' = ctrl /\ pc[c] = "confirm" /\ SendMutexFree
  BY <1>1 DEF ConfirmController, users
<1>3. ~Hit(c)
  BY <1>1, <1>2, MutexExcludes DEF Hit, LoggedOutByAsset
<1>4. GrantedSoFar(c)
  BY <1>2, <1>3 DEF Grants, GrantPC
<1>5. QED
  BY <1>1, <1>2, <1>4 DEF GrantedSoFar

\* The invariant of confirmations: what a request has got so far, or that an
\* asset's thread has begun to log its controller out.  Nothing is assumed
\* of races.
THEOREM ConfirmInvariance == Spec => []ConfirmInv
<1>1. Init => ConfirmInv
  <2>1. Init => TypeOK /\ Built
    BY InitInvariance DEF IInv
  <2>2. Init => Grants /\ ConfirmedOnlyWhenGranted
    BY DEF Init, Grants, GrantPC, ConfirmedOnlyWhenGranted, Conn
  <2>3. QED
    BY <2>1, <2>2 DEF ConfirmInv
<1>2. ConfirmInv /\ [Next]_vars => ConfirmInv'
  <2>. SUFFICES ASSUME ConfirmInv, [Next]_vars PROVE ConfirmInv'
    OBVIOUS
  <2>1. CASE Next
    BY <2>1, StepTypes, BuiltStep, GrantsStep, ConfirmStep DEF ConfirmInv, Next
  <2>2. CASE UNCHANGED vars
    BY <2>2 DEF ConfirmInv, vars, TypeOK, Built, LabelsOK, AssetLabelOK, ControllerLabelOK, CellsOK,
         RecordsBuilt, OwnerBuilt, Socketed, Grants, GrantedSoFar, Hit, LoggedOutByAsset, Target,
         ConfirmedOnlyWhenGranted
  <2>3. QED
    BY <2>1, <2>2
<1>3. QED
  BY <1>1, <1>2, PTL DEF Spec

\* A controller that is told it is logged in holds a usable copy of the
\* asset, reserved for it, whatever the other threads did since its request.
THEOREM ConfirmedWhenGranted == Spec => []ConfirmedOnlyWhenGranted
<1>1. ConfirmInv => ConfirmedOnlyWhenGranted
  BY DEF ConfirmInv
<1>2. QED
  BY <1>1, ConfirmInvariance, PTL

-----------------------------------------------------------------------------
(* A login is confirmed where it came from. *)

\* A record whose user is not logged in names a socket that is reset: without
\* LOGOUT messages users are logged out only where send met EPIPE, or at the
\* end of their threads.
DeadSocket(u) == ~u.isAuthenticated /\ u.fd # None => conn[u.fd] = "reset"

DeadSockets ==
  /\ \A a \in AssetConn : pc[a] # "done" => DeadSocket(asset[a])
  /\ \A c \in ControllerConn : DeadSocket(ctrl[c].asset)
  /\ assets # None => DeadSocket(assets)

\* A login is about to be confirmed to the thread's own socket, or fails.
LoginSockets ==
  \A a \in AssetConn :
    pc[a] = "confirm" => asset[a].fd = a \/ (asset[a].fd # None /\ conn[asset[a].fd] = "reset")

\* A connection that was never made has no state.
Unmade == \A c \in Conn : pc[c] = "new" => conn[c] = "none"

OwnSocketInv ==
  /\ TypeOK /\ Built /\ Unmade
  /\ ~sendsLogout => DeadSockets /\ LoginSockets
  /\ ConfirmedOnOwnSocket

\* Threads leave the network's state alone.
LEMMA ConnFrame ==
  ASSUME Step
  PROVE  \/ conn' = conn /\ sendsLogout' = sendsLogout
         \/ \E c \in Conn : Network(c)
<1>1. ASSUME NEW t \in Conn, LogoutStep(t) PROVE conn' = conn /\ sendsLogout' = sendsLogout
  BY <1>1 DEF LogoutStep, Logout, Unlink, Disown, PutUnpaired, Unpair, Unauthenticate, Offline,
       Writes, OnlyReads, users
<1>2. ASSUME NEW a \in AssetConn, AssetAction(a) PROVE conn' = conn /\ sendsLogout' = sendsLogout
  BY <1>2 DEF AssetAction, AssetStep, AssetMessage, DisconnectAsset, ConfirmAsset, BeginSend, Write,
       CheckOnline, RefreshAsset, LoginAsset, Heartbeat, Pong, LogoutMessageFromAsset, OnlyReads, users
<1>3. ASSUME NEW c \in ControllerConn, ControllerAction(c)
      PROVE  conn' = conn /\ sendsLogout' = sendsLogout
  BY <1>3, ControllerActions
     DEF LoginController, ControllerReads, RequestAgain, ConfirmController, CommandAfterRequest, Command,
         Ping, LogoutMessageFromController, DisconnectController, ControllerWrites, Authenticate,
         ComeOnline, SetOwner, Link, Pair, Writes, GetAsset, PutAsset, ForwardToCopy, OnlyReads, users
<1>4. QED
  BY <1>1, <1>2, <1>3 DEF Step, AssetAction, ControllerAction

\* No thread goes back to before its connection.
LEMMA NeverNew ==
  ASSUME TypeOK, Built, Step, NEW d \in Conn, pc'[d] = "new"
  PROVE  pc[d] = "new"
<1>1. LabelsTyped
  BY TypeParts
<1>2. ~Crash
  BY DEF Crash
<1>3. ASSUME NEW t \in Conn, LabelsKept(t), pc'[t] # "new"
      PROVE  pc[d] = "new"
  BY <1>3 DEF LabelsKept
<1>4. ASSUME NEW t \in Conn, Network(t)
      PROVE  pc[d] = "new"
  BY <1>3, <1>4, NetworkFrame DEF LabelsKept
<1>5. ASSUME NEW t \in Conn, LogoutStep(t)
      PROVE  pc[d] = "new"
  BY <1>3, <1>5, LogoutFrame, LogoutLabel DEF LogoutPC, AfterLogout
<1>6. ASSUME NEW a \in AssetConn, AssetAction(a)
      PROVE  pc[d] = "new"
  <2>1. a \in Conn /\ LabelsKept(a) /\ AfterLogout(a) # "new"
    BY <1>2, <1>6, AssetFrame DEF Conn, AfterLogout
  <2>2. CASE LoginAsset(a) \/ ConfirmAsset(a) \/ RefreshAsset(a)
    BY <1>1, <1>3, <2>1, <2>2, Moves DEF LoginAsset, ConfirmAsset, RefreshAsset
  <2>3. CASE BeginSend(a) \/ CheckOnline(a)
    BY <1>1, <1>3, <2>1, <2>3, Moves DEF BeginSend, CheckOnline, SendFailed
  <2>4. CASE Write(a)
    <3>1. Return(a, "recv") \/ SendFailed(a) \/ Goto(a, "check")
      BY <2>4 DEF Write, SendResults
    <3>2. QED
      BY <1>1, <1>3, <2>1, <3>1, Moves DEF SendFailed
  <2>5. CASE Heartbeat(a)
    BY <1>1, <1>2, <1>3, <2>1, <2>5, Moves DEF Heartbeat
  <2>9. CASE Pong(a)
    <3>1. Crash \/ Call(a, "send", "PONG")
      BY <2>9 DEF Pong
    <3>2. QED
      BY <1>1, <1>2, <1>3, <2>1, <3>1, Moves
  <2>6. CASE LogoutMessageFromAsset(a)
    BY <1>2, <1>3, <2>1, <2>6 DEF LogoutMessageFromAsset
  <2>7. CASE DisconnectAsset(a)
    BY <1>1, <1>2, <1>3, <2>1, <2>7, Moves DEF DisconnectAsset
  <2>8. QED
    BY <1>6, <2>2, <2>3, <2>4, <2>5, <2>6, <2>7, <2>9 DEF AssetAction, AssetStep, AssetMessage
<1>7. ASSUME NEW c \in ControllerConn, ControllerAction(c)
      PROVE  pc[d] = "new"
  <2>1. c \in Conn /\ Target(c) = c /\ LabelsKept(c)
    BY <1>2, <1>7, ControllerFrame, OwnTarget
  <2>2. CASE LoginController(c)
    BY <1>3, <2>1, <2>2, LoginAddresses
  <2>3. CASE ControllerReads(c) \/ PutAsset(c)
    BY <1>3, <2>1, <2>3, ReadsLabel
  <2>4. CASE ControllerWrites(c)
    BY <1>3, <2>1, <2>4, WritesEffect
  <2>5. CASE GetAsset(c)
    <3>1. RequestOver(c, FALSE) => pc'[c] # "new"
      BY <1>1, <2>5, OverLabel, RequestTask DEF GetAsset, RequestPC
    <3>2. QED
      BY <1>1, <1>3, <2>1, <2>5, <3>1, Moves DEF GetAsset
  <2>6. CASE ForwardToCopy(c)
    BY <1>1, <1>2, <1>3, <2>1, <2>6, Moves DEF ForwardToCopy
  <2>7. QED
    BY <1>7, <2>2, <2>3, <2>4, <2>5, <2>6, ControllerActions
<1>8. QED
  BY <1>4, <1>5, <1>6, <1>7 DEF Step, AssetAction, ControllerAction

\* A reset connection stays so, and unmade ones stay unmade.
LEMMA ResetStays ==
  ASSUME TypeOK, Built, Unmade, Step
  PROVE  Unmade' /\ \A c \in Conn : conn[c] = "reset" => conn'[c] = "reset"
<1>1. CASE conn' = conn
  BY <1>1, NeverNew DEF Unmade
<1>2. CASE conn' # conn
  <2>1. PICK c \in Conn : Network(c)
    BY <1>2, ConnFrame
  <2>2. \/ conn' = [conn EXCEPT ![c] = "open"] /\ pc[c] = "new" /\ pc'[c] = "recv"
        \/ conn' = [conn EXCEPT ![c] = "gone"] /\ conn[c] = "open"
        \/ conn' = [conn EXCEPT ![c] = "reset"] /\ conn[c] = "gone"
    BY <2>1, TypeParts, Moves DEF Network, Connect, DropConnection, ResetConnection
  <2>3. conn \in [Conn -> ConnState]
    BY DEF TypeOK
  <2>4. \A d \in Conn : conn[d] = "reset" => conn'[d] = "reset"
    BY <2>2, <2>3 DEF Unmade
  <2>5. Unmade'
    BY <2>2, <2>3, NeverNew DEF Unmade
  <2>6. QED
    BY <2>4, <2>5
<1>3. QED
  BY <1>1, <1>2

\* The same logins and logouts, for a record that fades or stays.
LEMMA SameDead ==
  ASSUME NEW u \in AssetUser, NEW v \in AssetUser, v.fd = u.fd, v.isAuthenticated = u.isAuthenticated,
         DeadSocket(u)
  PROVE  DeadSocket(v)
  BY DEF DeadSocket

\* A send that met EPIPE had a socket, which is reset.
LEMMA EpipeReset ==
  ASSUME NEW u \in AssetUser, Socketed(u), "epipe" \in UserSendResults(u.isOnline, u.fd)
  PROVE  u.fd # None /\ conn[u.fd] = "reset"
<1>1. u.isOnline /\ "epipe" \in SendResults(u.fd)
  BY DEF UserSendResults
<1>2. u.fd # None
  BY <1>1 DEF Socketed
<1>3. conn[u.fd] = "reset"
  BY <1>1 DEF SendResults
<1>4. QED
  BY <1>2, <1>3

\* What an asset's thread makes of its object.
LEMMA AssetDead ==
  ASSUME TypeOK, Built, ~sendsLogout, DeadSockets, LoginSockets, NEW a \in AssetConn, AssetAction(a)
  PROVE  /\ pc'[a] # "done" => DeadSocket(asset'[a])
         /\ pc'[a] = "confirm" => asset'[a].fd = a \/ (asset'[a].fd # None /\ conn[asset'[a].fd] = "reset")
         /\ assets' # assets => DeadSocket(assets')
<1>1. /\ LabelsTyped /\ UsersTyped /\ a \in Conn /\ asset[a] \in AssetUser /\ Socketed(asset[a])
      /\ DeadSocket(asset[a]) /\ (assets # None => DeadSocket(assets))
  BY TypeParts, UserTypes, AssetFrame DEF Conn, Built, RecordsBuilt, DeadSockets
<1>2. CASE LoginAsset(a)
  <2>1. PICK u \in AssetUser : /\ u.fd = BuiltAsset(a).fd /\ u.isAuthenticated
                               /\ u = [BuiltAsset(a) EXCEPT !.isAuthenticated = TRUE, !.isOnline = TRUE]
    BY <1>1, BuiltAssetFields, LoggedInType
  <2>2. asset'[a] = u /\ assets' = u /\ ~asset[a].isAuthenticated
    BY <1>1, <1>2, <2>1 DEF LoginAsset, UsersTyped
  <2>3. u.fd = a \/ (u.fd # None /\ conn[u.fd] = "reset")
    BY <1>1, <2>1, <2>2, BuiltAssetFields DEF DeadSocket
  <2>4. QED
    BY <2>1, <2>2, <2>3 DEF DeadSocket
<1>3. CASE ConfirmAsset(a)
  <2>1. pc'[a] = "recv"
    BY <1>1, <1>3, Moves DEF ConfirmAsset
  <2>2. CASE asset' = asset /\ assets' = assets
    BY <1>1, <2>1, <2>2
  <2>3. CASE LogoutAsset(a) /\ "epipe" \in UserSendResults(asset[a].isOnline, asset[a].fd)
    <3>1. asset'[a] = LoggedOutAsset(asset[a]) /\ assets' = assets
      BY <1>1, <2>3 DEF LogoutAsset, UsersTyped
    <3>2. asset'[a].fd = asset[a].fd
      BY <1>1, <3>1, LoggedOutFields
    <3>3. QED
      BY <1>1, <2>1, <2>3, <3>1, <3>2, EpipeReset DEF DeadSocket
  <2>4. QED
    BY <1>3, <2>2, <2>3 DEF ConfirmAsset
<1>4. CASE Heartbeat(a) \/ RefreshAsset(a)
  <2>1. asset'[a] \in {asset[a], Refreshed(a)} /\ assets' = assets
    BY <1>1, <1>4 DEF Heartbeat, RefreshAsset, UsersTyped
  <2>2. pc'[a] # "confirm"
    BY <1>1, <1>4, Moves DEF Heartbeat, RefreshAsset, Crash
  <2>3. QED
    BY <1>1, <2>1, <2>2 DEF Refreshed
<1>5. CASE BeginSend(a) \/ Write(a) \/ CheckOnline(a) \/ Pong(a)
  <2>1. AfterLogout(a) # "confirm"
    BY DEF AfterLogout
  <2>2. pc'[a] # "confirm"
    <3>1. CASE BeginSend(a)
      BY <1>1, <2>1, <3>1, Moves DEF BeginSend, SendFailed
    <3>2. CASE Write(a)
      <4>1. \/ Return(a, "recv") \/ SendFailed(a)
            \/ Goto(a, "check")
        BY <3>2 DEF Write, SendResults
      <4>2. QED
        BY <1>1, <2>1, <4>1, Moves DEF SendFailed
    <3>3. CASE CheckOnline(a)
      BY <1>1, <2>1, <3>3, Moves DEF CheckOnline, SendFailed
    <3>4. CASE Pong(a)
      <4>1. Crash \/ Call(a, "send", "PONG")
        BY <3>4 DEF Pong
      <4>2. QED
        BY <1>1, <4>1, Moves DEF Crash
    <3>5. QED
      BY <1>5, <3>1, <3>2, <3>3, <3>4
  <2>3. asset' = asset /\ assets' = assets
    BY <1>5 DEF BeginSend, Write, CheckOnline, Pong, OnlyReads, users
  <2>4. QED
    BY <1>1, <2>2, <2>3
<1>6. CASE LogoutMessageFromAsset(a)
  BY <1>6 DEF LogoutMessageFromAsset
<1>7. CASE DisconnectAsset(a)
  <2>1. CASE LogoutAsset(a) /\ Goto(a, "done")
    BY <1>1, <2>1, Moves DEF LogoutAsset
  <2>2. CASE Crash /\ asset' = asset /\ assets' = assets
    BY <1>1, <2>2 DEF Crash
  <2>3. QED
    BY <1>7, <2>1, <2>2 DEF DisconnectAsset
<1>8. QED
  BY <1>2, <1>3, <1>4, <1>5, <1>6, <1>7 DEF AssetAction, AssetStep, AssetMessage

\* What a controller's thread makes of its copy and of the record.
LEMMA ControllerDead ==
  ASSUME TypeOK, Built, DeadSockets, NEW c \in ControllerConn, ControllerAction(c)
  PROVE  DeadSocket(ctrl'[c].asset) /\ (assets' # assets => DeadSocket(assets'))
<1>1. /\ UsersTyped /\ c \in Conn /\ Target(c) = c
      /\ ctrl[c] \in ControllerUser /\ ctrl[c].asset \in AssetUser /\ Socketed(ctrl[c].asset)
      /\ DeadSocket(ctrl[c].asset) /\ (assets # None => DeadSocket(assets))
  BY TypeParts, UserTypes, OwnTarget DEF Built, RecordsBuilt, DeadSockets
<1>2. CASE ControllerReads(c)
  BY <1>1, <1>2, ReadsFrame DEF users
<1>3. CASE LoginController(c)
  BY <1>1, <1>3, LoginAddresses DEF LoginController
<1>4. CASE GetAsset(c)
  <2>1. ctrl'[c].asset = ctrl[c].asset \/ (assets # None /\ ctrl'[c].asset = assets)
    BY <1>1, <1>4 DEF GetAsset, UsersTyped, ControllerUser
  <2>2. QED
    BY <1>1, <1>4, <2>1 DEF GetAsset
<1>5. CASE PutAsset(c)
  BY <1>1, <1>5 DEF PutAsset, Inserted
<1>6. CASE Authenticate(c) \/ ComeOnline(c) \/ Pair(c)
  <2>1. ctrl'[c].asset = ctrl[c].asset /\ assets' = assets
    BY <1>1, <1>6 DEF Authenticate, ComeOnline, Pair, Writes, UsersTyped, ControllerUser
  <2>2. QED
    BY <1>1, <2>1
<1>7. CASE SetOwner(c) \/ Link(c)
  <2>1. /\ ctrl'[c].asset.fd = ctrl[c].asset.fd
        /\ ctrl'[c].asset.isAuthenticated = ctrl[c].asset.isAuthenticated
        /\ assets' = assets
    BY <1>1, <1>7 DEF SetOwner, Link, Writes, UsersTyped, ControllerUser, AssetUser
  <2>2. QED
    BY <1>1, <2>1 DEF DeadSocket
<1>8. CASE ForwardToCopy(c) /\ ~LogoutCopy(c)
  BY <1>1, <1>8 DEF ForwardToCopy
<1>9. CASE ForwardToCopy(c) /\ LogoutCopy(c)
  <2>1. CASE ctrl' = ctrl /\ assets' = assets
    BY <1>1, <2>1
  <2>2. CASE "epipe" \in UserSendResults(ctrl[c].asset.isOnline, ctrl[c].asset.fd)
    <3>1. PICK f \in [ControllerConn -> ControllerUser] : f = Disowned(ctrl[c].asset)
      BY <1>1, DisownedFields
    <3>2. f[c].asset = ctrl[c].asset
      BY <1>1, <3>1, DisownedFields
    <3>3. ctrl' = [f EXCEPT ![c].asset = LoggedOutAsset(f[c].asset)] /\ assets' = assets
      BY <1>9, <3>1 DEF LogoutCopy
    <3>4. ctrl'[c].asset = LoggedOutAsset(ctrl[c].asset)
      BY <3>1, <3>2, <3>3 DEF ControllerUser
    <3>5. ctrl'[c].asset.fd = ctrl[c].asset.fd
      BY <1>1, <3>4, LoggedOutFields
    <3>6. QED
      BY <1>1, <2>2, <3>3, <3>5, EpipeReset DEF DeadSocket
  <2>3. QED
    BY <1>9, <2>1, <2>2 DEF ForwardToCopy
<1>10. QED
  BY <1>2, <1>3, <1>4, <1>5, <1>6, <1>7, <1>8, <1>9, ControllerActions DEF ControllerWrites

\* Whatever a step writes, it writes no record of a user that is logged out
\* but has a socket that still works.
LEMMA DeadStep ==
  ASSUME TypeOK, Built, Unmade, Step, ~sendsLogout, DeadSockets, LoginSockets
  PROVE  DeadSockets' /\ LoginSockets'
<1>1. /\ UsersTyped /\ UsersTyped' /\ LabelsTyped
      /\ \A c \in Conn : conn[c] = "reset" => conn'[c] = "reset"
  BY TypeParts, StepTypes, ResetStays DEF TypeOK, UsersTyped, Record
<1>2. /\ \A a \in AssetConn : pc'[a] # "done" => DeadSocket(asset'[a])
      /\ \A d \in ControllerConn : DeadSocket(ctrl'[d].asset)
      /\ assets' # None => DeadSocket(assets')
      /\ \A a \in AssetConn : pc'[a] = "confirm" =>
           asset'[a].fd = a \/ (asset'[a].fd # None /\ conn[asset'[a].fd] = "reset")
  <2>1. ASSUME NEW d \in ControllerConn, Fades(d)
        PROVE  DeadSocket(ctrl'[d].asset)
    BY <2>1 DEF Fades, DeadSocket, DeadSockets
  <2>2. ASSUME NEW t \in Conn, Network(t)
        PROVE  <1>2!:
    <3>1. /\ UNCHANGED users
          /\ \A a \in AssetConn : pc'[a] # "done" => pc[a] # "done"
          /\ \A a \in AssetConn : pc'[a] = "confirm" => pc[a] = "confirm"
      BY <2>2, NetworkFrame DEF LabelsKept, Conn
    <3>2. QED
      BY <3>1 DEF users, DeadSockets, LoginSockets
  <2>3. ASSUME NEW t \in Conn, LogoutStep(t)
        PROVE  <1>2!:
    <3>1. assets' = assets \/ assets' = ctrl[Target(t)].asset
      BY <2>3 DEF LogoutStep, Logout, Unlink, Disown, PutUnpaired, Unpair, Unauthenticate, Offline,
                  Writes, OnlyReads, users, Inserted
    <3>2. Target(t) \in ControllerConn
      BY <1>1, <2>3, LogoutFrame, TargetExists
    <3>3. /\ \A a \in AssetConn : pc'[a] # "done" => pc[a] # "done"
          /\ \A a \in AssetConn : pc'[a] = "confirm" => pc[a] = "confirm"
      BY <2>3, LogoutFrame, LogoutLabel DEF LabelsKept, Conn, LogoutPC, AfterLogout
    <3>4. QED
      BY <2>1, <2>3, <3>1, <3>2, <3>3, LogoutFrame DEF DeadSockets, LoginSockets
  <2>4. ASSUME NEW a \in AssetConn, AssetAction(a)
        PROVE  <1>2!:
    <3>1. /\ \A b \in AssetConn : b # a /\ pc'[b] # "done" => pc[b] # "done"
          /\ \A b \in AssetConn : b # a /\ pc'[b] = "confirm" => pc[b] = "confirm"
      BY <2>4, AssetFrame DEF LabelsKept, Conn, Crash
    <3>2. QED
      BY <2>1, <2>4, <3>1, AssetFrame, AssetDead DEF DeadSockets, LoginSockets, AssetsKept
  <2>5. ASSUME NEW c \in ControllerConn, ControllerAction(c)
        PROVE  <1>2!:
    <3>1. /\ \A b \in AssetConn : pc'[b] # "done" => pc[b] # "done"
          /\ \A b \in AssetConn : pc'[b] = "confirm" => pc[b] = "confirm"
      BY <2>5, ControllerFrame, ConnAssumption DEF LabelsKept, Conn, Crash
    <3>2. QED
      BY <2>1, <2>5, <3>1, ControllerFrame, ControllerDead DEF DeadSockets, LoginSockets, OthersFade
  <2>6. QED
    BY <2>2, <2>3, <2>4, <2>5 DEF Step, AssetAction, ControllerAction
<1>3. /\ \A a \in AssetConn : asset'[a] \in AssetUser
      /\ \A d \in ControllerConn : ctrl'[d].asset \in AssetUser
      /\ assets' # None => assets' \in AssetUser
  BY <1>1 DEF UsersTyped, Record, ControllerUser
<1>4. ASSUME NEW u \in AssetUser, DeadSocket(u)
      PROVE  ~u.isAuthenticated /\ u.fd # None => conn'[u.fd] = "reset"
  BY <1>1, <1>4 DEF DeadSocket, AssetUser, Conn
<1>5. DeadSockets'
  BY <1>2, <1>3, <1>4 DEF DeadSockets, DeadSocket
<1>6. LoginSockets'
  BY <1>1, <1>2, <1>3 DEF LoginSockets, AssetUser, Conn
<1>7. QED
  BY <1>5, <1>6

\* A confirmation that is written goes where it should.
LEMMA OwnSocketStep ==
  ASSUME TypeOK, Built, Step, ~sendsLogout => LoginSockets
  PROVE  ConfirmedOnOwnSocket'
<1>. SUFFICES ASSUME ~sendsLogout', wire' # None, wire'.kind = "CONFIRM"
              PROVE  wire'.to = wire'.from
  BY DEF ConfirmedOnOwnSocket
<1>1. CASE \E c \in ControllerConn : wire'.from = c /\ wire'.to = c
  BY <1>1
<1>2. ASSUME NEW a \in AssetConn, ConfirmAsset(a), wire'.from = a, wire'.to = asset[a].fd,
             conn[asset[a].fd] # "reset"
      PROVE  wire'.to = wire'.from
  <2>1. ~sendsLogout /\ pc[a] = "confirm"
    BY <1>2 DEF ConfirmAsset
  <2>2. QED
    BY <1>2, <2>1 DEF LoginSockets
<1>3. QED
  BY <1>1, <1>2, Confirmations

\* Without LOGOUT messages, every login is confirmed on the socket it came
\* from, although threads take over descriptors of other sessions from the
\* database and write each other's records back.  Nothing is assumed of races.
THEOREM ConfirmedWhereAsked == Spec => []ConfirmedOnOwnSocket
<1>1. Init => OwnSocketInv
  <2>1. Init => TypeOK /\ Built
    BY InitInvariance DEF IInv
  <2>2. Init => Unmade /\ DeadSockets /\ LoginSockets /\ ConfirmedOnOwnSocket
    BY DEF Init, Unmade, DeadSockets, DeadSocket, LoginSockets, ConfirmedOnOwnSocket, NewAssetUser,
           NewControllerUser, Conn
  <2>3. QED
    BY <2>1, <2>2 DEF OwnSocketInv
<1>2. OwnSocketInv /\ [Next]_vars => OwnSocketInv'
  <2>. SUFFICES ASSUME OwnSocketInv, [Next]_vars PROVE OwnSocketInv'
    OBVIOUS
  <2>1. CASE Next
    <3>1. sendsLogout' = sendsLogout
      BY <2>1, ConnFrame, NetworkFrame DEF OwnSocketInv, Next, users
    <3>2. QED
      BY <2>1, <3>1, StepTypes, BuiltStep, ResetStays, DeadStep, OwnSocketStep DEF OwnSocketInv, Next
  <2>2. CASE UNCHANGED vars
    BY <2>2 DEF OwnSocketInv, vars, TypeOK, Built, LabelsOK, AssetLabelOK, ControllerLabelOK, CellsOK,
         RecordsBuilt, OwnerBuilt, Socketed, Unmade, DeadSockets, DeadSocket, LoginSockets,
         ConfirmedOnOwnSocket
  <2>3. QED
    BY <2>1, <2>2
<1>3. OwnSocketInv => ConfirmedOnOwnSocket
  BY DEF OwnSocketInv
<1>4. QED
  BY <1>1, <1>2, <1>3, PTL DEF Spec
=============================================================================
