----------------------------- MODULE GpRelayFlow -----------------------------
(***************************************************************************)
(* The threads of the server that relay messages between clients it has    *)
(* paired (GpUavServer.cpp), the two mutexes they share, _send_mutex and   *)
(* GpDatabase's assets_mutex, the buffers of the connections, and the      *)
(* clients' listeners at the other end (GpClientNet.cpp).                  *)
(*                                                                         *)
(* The server's send blocks while the receiver's buffers are full, with    *)
(* _send_mutex held; a client's send never blocks, and writes what fits.   *)
(* A message has two parts, between which buffers may fill up, and recv    *)
(* may end: the receive loops then drop the first part, and take what      *)
(* follows for the beginning of a message.                                 *)
(*                                                                         *)
(* Who is paired with whom is GpPairing's subject and fixed here; that a   *)
(* handler may find its user unpaired or offline, and how often it then    *)
(* goes to the database, is a choice.                                      *)
(***************************************************************************)
EXTENDS Naturals, Sequences, FiniteSets, Functions

CONSTANTS
  AssetConn,       \* connections of assets
  ControllerConn,  \* connections of ground controllers
  Partner,         \* whose client each thread's messages are forwarded to
  Room,            \* what a connection's buffers hold in each direction, in half messages
  MaxSends,        \* a client that has sent as many messages only answers (bound)
  MaxTorn,         \* bound on the connections on which recv ends within a message
  MisreadKinds,    \* bound: the kinds of message that nobody sent
  MaxMisread,      \* bound on the number of these
  MaxFaults,       \* bound on the connections that go wrong
  None

Conn == AssetConn \cup ControllerConn

ASSUME ConnAssumption == AssetConn \cap ControllerConn = {} /\ None \notin Conn
ASSUME PartnerAssumption ==
  /\ Partner \in [Conn -> Conn]
  /\ \A a \in AssetConn : Partner[a] \in ControllerConn
  /\ \A c \in ControllerConn : Partner[c] \in AssetConn
ASSUME NumberAssumption ==
  /\ Room \in Nat \ {0, 1} /\ {MaxTorn, MaxMisread, MaxFaults} \subseteq Nat
  /\ MaxSends \in [Conn -> Nat]

VARIABLES
  link,         \* the state of each connection
  sent,         \* how many messages each client has sent
  inbox,        \* half messages on their way from each client to its thread
  outbox,       \* half messages on their way to each client
  reader,       \* the message each client's listener is handling, or None
  pc,           \* where each thread of the server is
  hand,         \* the message each thread is handling, or None
  sendMutex,    \* the thread that holds _send_mutex, or None
  assetsMutex,  \* the thread that holds assets_mutex, or None
  torn,         \* history: the connections on which a part of a message was
                \* written, or read, by itself
  misread       \* history: how many messages were read that nobody sent

client == <<link, sent, reader>>
server == <<pc, hand, sendMutex, assetsMutex>>
tears == <<torn, misread>>
vars == <<link, sent, inbox, outbox, reader, pc, hand, sendMutex, assetsMutex, torn, misread>>

-----------------------------------------------------------------------------
(* State. *)

\* up: the client reads it.  left: the client has gone on to a new connection
\* and has not closed this one.  silent: its host does not answer any more.
\* closed: a read or write meets the end or an error.
LinkState == {"up", "left", "silent", "closed"}

\* What each kind of client sends by itself.  (A controller's heartbeat goes
\* no further than its thread, like a message of an unpaired user.)
Kinds == [c \in Conn |-> IF c \in AssetConn THEN {"HEARTBEAT"} ELSE {"COMMAND", "PING"}]

Kind == {"HEARTBEAT", "COMMAND", "PING", "PONG"}

\* Messages that nobody sent: remains of others that read like one.
MadeUp == [kind : MisreadKinds, from : {None}, number : {0}]

Message == [kind : Kind, from : Conn, number : Nat] \cup MadeUp

ASSUME KindsAssumption == MisreadKinds \subseteq Kind

\* No message is not a message.
ASSUME MessageAssumption == None \notin Message

Half(m, part) == [message |-> m, part |-> part]

\* A thread that waits for assets_mutex, and where it is once it has it.
AssetsSection == [get |-> "in_get", put |-> "in_put", epipe |-> "in_epipe", bye |-> "in_bye"]

PC == {"recv", "get", "in_get", "put", "in_put", "lock", "send", "rest", "epipe", "in_epipe",
       "bye", "in_bye", "done"}

Init ==
  /\ link = [c \in Conn |-> "up"]
  /\ sent = [c \in Conn |-> 0]
  /\ inbox = [c \in Conn |-> <<>>]
  /\ outbox = [c \in Conn |-> <<>>]
  /\ reader = [c \in Conn |-> None]
  /\ pc = [c \in Conn |-> "recv"]
  /\ hand = [c \in Conn |-> None]
  /\ sendMutex = None
  /\ assetsMutex = None
  /\ torn = {}
  /\ misread = 0

-----------------------------------------------------------------------------
(* The receive loops of both sides, which are the same loop.               *)

\* The stream goes on with a whole message, or in the middle of one, or with
\* a message that was not written to its end.
BeginsWhole(s) == Len(s) >= 2 /\ s[1].part = 1 /\ s[2] = Half(s[1].message, 2)

BeginsInside(s) == s[1].part = 2 \/ (Len(s) >= 2 /\ s[2] # Half(s[1].message, 2))

\* A round of the loop takes n halves off the stream s of client c and makes
\* message m of them, or none.  When recv has returned only the first part of
\* a message, that is dropped: messageStarted is never set.  What begins
\* inside a message announces any length: it swallows what recv returned, or
\* reads like some message.
Round(c, s, n, m) ==
  \/ /\ n = 2 /\ BeginsWhole(s) /\ m = s[1].message
     /\ UNCHANGED tears
  \/ /\ n = 1 /\ s[1].part = 1 /\ m = None
     /\ c \in torn \/ Cardinality(torn) < MaxTorn
     /\ torn' = torn \cup {c}
     /\ UNCHANGED misread
  \/ /\ BeginsInside(s)
     /\ \/ m = None /\ UNCHANGED misread
        \/ m \in MadeUp /\ misread < MaxMisread /\ misread' = misread + 1
     /\ UNCHANGED torn

\* What a round may make of the stream.
Readings(s) == {s[1].message, None} \cup MadeUp

Rest(s, n) == SubSeq(s, n + 1, Len(s))

-----------------------------------------------------------------------------
(* The clients.  GpClientNet::_sendMessage does not wait: of a message that *)
(* does not fit, a part is written if there is any room, and it counts as   *)
(* sent; or else it is skipped.                                             *)

Free(c) == Room - Len(inbox[c])

Submit(c, kind) ==
  LET m == [kind |-> kind, from |-> c, number |-> sent[c]] IN
  \/ /\ link[c] = "up" /\ Free(c) >= 2
     /\ sent' = [sent EXCEPT ![c] = @ + 1]
     /\ inbox' = [inbox EXCEPT ![c] = @ \o <<Half(m, 1), Half(m, 2)>>]
     /\ UNCHANGED tears
  \/ /\ link[c] = "up" /\ Free(c) = 1
     /\ sent' = [sent EXCEPT ![c] = @ + 1]
     /\ inbox' = [inbox EXCEPT ![c] = Append(@, Half(m, 1))]
     /\ torn' = torn \cup {c}
     /\ UNCHANGED misread
  \/ /\ link[c] # "up" \/ Free(c) < 1
     /\ UNCHANGED <<sent, inbox, tears>>

ClientSends(c) ==
  /\ link[c] = "up"
  /\ sent[c] < MaxSends[c]
  /\ \E kind \in Kinds[c] : Submit(c, kind)
  /\ UNCHANGED <<link, outbox, reader, server>>

\* The client's listener; on a connection the client has left, one that was in
\* its recv by then.
ClientReads(c) ==
  /\ link[c] \in {"up", "left"}
  /\ reader[c] = None
  /\ \E n \in 1 .. Len(outbox[c]) : \E m \in Readings(outbox[c]) :
       /\ Round(c, outbox[c], n, m)
       /\ outbox' = [outbox EXCEPT ![c] = Rest(@, n)]
       /\ reader' = [reader EXCEPT ![c] = m]
  /\ UNCHANGED <<link, sent, inbox, server>>

\* A PING is answered; the handlers of other messages change nothing.
ClientHandles(c) ==
  /\ reader[c] # None
  /\ reader' = [reader EXCEPT ![c] = None]
  /\ IF reader[c].kind = "PING" THEN Submit(c, "PONG") ELSE UNCHANGED <<sent, inbox, tears>>
  /\ UNCHANGED <<link, outbox, server>>

FewFaults == Cardinality({c \in Conn : link[c] # "up"}) < MaxFaults

\* A heartbeat that does not fit ends the round: the client goes on to a new
\* connection and its listeners follow.
ClientLeaves(c) ==
  /\ FewFaults
  /\ link[c] = "up"
  /\ Free(c) < 1
  /\ link' = [link EXCEPT ![c] = "left"]
  /\ UNCHANGED <<sent, inbox, outbox, reader, server, tears>>

\* The client's host falls silent.
HostCrashes(c) ==
  /\ FewFaults
  /\ link[c] = "up"
  /\ link' = [link EXCEPT ![c] = "silent"]
  /\ reader' = [reader EXCEPT ![c] = None]
  /\ UNCHANGED <<sent, inbox, outbox, server, tears>>

\* What was on its way to the client is lost.
Closed(c) ==
  /\ link' = [link EXCEPT ![c] = "closed"]
  /\ reader' = [reader EXCEPT ![c] = None]
  /\ outbox' = [outbox EXCEPT ![c] = <<>>]
  /\ UNCHANGED <<sent, inbox, server, tears>>

\* The client's process ends, and its host closes the connection and refuses.
ClientEnds(c) ==
  /\ link[c] = "left" \/ (link[c] = "up" /\ FewFaults)
  /\ Closed(c)

\* TCP gives up retransmitting to a host that does not answer.
GiveUp(c) ==
  /\ link[c] = "silent"
  /\ outbox[c] # <<>>
  /\ Closed(c)

-----------------------------------------------------------------------------
(* The server's threads. *)

Goto(t, label) == pc' = [pc EXCEPT ![t] = label]

Done(t) == hand' = [hand EXCEPT ![t] = None]

\* The thread's receive loop.  The handler of a message forwards it; or, when
\* its user is not paired, goes to the database first, for an asset's heartbeat
\* and for a controller's command, or else does nothing.
Receive(t) ==
  /\ pc[t] = "recv"
  /\ \E n \in 1 .. Len(inbox[t]) : \E m \in Readings(inbox[t]) :
       /\ Round(t, inbox[t], n, m)
       /\ inbox' = [inbox EXCEPT ![t] = Rest(@, n)]
       /\ \/ m # None /\ Goto(t, "lock") /\ hand' = [hand EXCEPT ![t] = m]
          \/ /\ m # None /\ m.kind \in {"HEARTBEAT", "COMMAND"}
             /\ Goto(t, "get")
             /\ hand' = [hand EXCEPT ![t] = m]
          \/ m # None /\ m.kind \in {"PING", "PONG"} /\ UNCHANGED <<pc, hand>>
          \/ m = None /\ UNCHANGED <<pc, hand>>
  /\ UNCHANGED <<client, outbox, sendMutex, assetsMutex>>

TakeAssetsMutex(t) ==
  /\ pc[t] \in DOMAIN AssetsSection
  /\ assetsMutex = None
  /\ assetsMutex' = t
  /\ Goto(t, AssetsSection[pc[t]])
  /\ UNCHANGED <<client, tears, inbox, outbox, hand, sendMutex>>

\* Mutant: the guard on assets_mutex lives as long as the handler.
LeaveGetLocked(t) ==
  /\ pc[t] = "in_get"
  /\ \/ Goto(t, "recv") /\ Done(t) /\ assetsMutex' = None
     \/ hand[t] # None /\ Goto(t, "lock") /\ UNCHANGED <<hand, assetsMutex>>
  /\ UNCHANGED <<client, tears, inbox, outbox, sendMutex>>

\* getAsset returns.  There is nothing to send, or to send to; or a heartbeat
\* has found its controller; or a command's request goes on to insertUpdateAsset.
LeaveGet(t) ==
  /\ pc[t] = "in_get"
  /\ assetsMutex' = None
  /\ \/ Goto(t, "recv") /\ Done(t)
     \/ /\ hand[t] # None
        /\ Goto(t, IF hand[t].kind = "COMMAND" THEN "put" ELSE "lock")
        /\ UNCHANGED hand
  /\ UNCHANGED <<client, tears, inbox, outbox, sendMutex>>

\* The request is through: the command is forwarded, unless the controller was
\* logged out meanwhile.
LeavePut(t) ==
  /\ pc[t] = "in_put"
  /\ assetsMutex' = None
  /\ \/ Goto(t, "recv") /\ Done(t)
     \/ Goto(t, "lock") /\ UNCHANGED hand
  /\ UNCHANGED <<client, tears, inbox, outbox, sendMutex>>

\* _send_message returns false: a heartbeat's handler refreshes its asset.
ReturnFalse(t) ==
  /\ sendMutex' = None
  /\ Done(t)
  /\ Goto(t, IF hand[t].kind = "HEARTBEAT" THEN "get" ELSE "recv")

\* Mutant: no guard.
TakeSendMutexAnyway(t) ==
  /\ pc[t] = "lock"
  /\ sendMutex' = t
  /\ Goto(t, "send")
  /\ UNCHANGED <<client, tears, inbox, outbox, hand, assetsMutex>>

TakeSendMutex(t) ==
  /\ pc[t] = "lock"
  /\ sendMutex = None
  /\ sendMutex' = t
  /\ Goto(t, "send")
  /\ UNCHANGED <<client, tears, inbox, outbox, hand, assetsMutex>>

\* There is room for another half message, and the connection is not broken.
Writable(c) == link[c] # "closed" /\ Len(outbox[c]) < Room

\* send has written the first part of the message.
WriteFirst(t) ==
  /\ pc[t] = "send"
  /\ Writable(Partner[t])
  /\ outbox' = [outbox EXCEPT ![Partner[t]] = Append(@, Half(hand[t], 1))]
  /\ Goto(t, "rest")
  /\ UNCHANGED <<client, tears, inbox, hand, sendMutex, assetsMutex>>

\* Mutant: the handler goes on to send the message a second time.
WriteRestAndAgain(t) ==
  /\ pc[t] = "rest"
  /\ Writable(Partner[t])
  /\ outbox' = [outbox EXCEPT ![Partner[t]] = Append(@, Half(hand[t], 2))]
  /\ sendMutex' = None
  /\ Goto(t, "lock")
  /\ UNCHANGED <<client, tears, inbox, hand, assetsMutex>>

\* send has written all of it, and the guard is released.
WriteRest(t) ==
  /\ pc[t] = "rest"
  /\ Writable(Partner[t])
  /\ outbox' = [outbox EXCEPT ![Partner[t]] = Append(@, Half(hand[t], 2))]
  /\ sendMutex' = None
  /\ Goto(t, "recv")
  /\ Done(t)
  /\ UNCHANGED <<client, tears, inbox, assetsMutex>>

\* send fails on a broken connection; if with EPIPE, then for an asset, whose
\* logout does not go to the database, or for a controller not paired.
SendFails(t) ==
  /\ pc[t] = "send"
  /\ link[Partner[t]] = "closed"
  /\ ReturnFalse(t)
  /\ UNCHANGED <<client, tears, inbox, outbox, assetsMutex>>

\* Mutant: the rest of a message is tried again whatever error it meets.
SendTriesAgain(t) ==
  /\ pc[t] = "rest"
  /\ link[Partner[t]] = "closed"
  /\ UNCHANGED vars

\* An error after the first part has been written: send returns the length of
\* that part, and _send_message true.
SendCutShort(t) ==
  /\ pc[t] = "rest"
  /\ link[Partner[t]] = "closed"
  /\ sendMutex' = None
  /\ Done(t)
  /\ Goto(t, "recv")
  /\ UNCHANGED <<client, tears, inbox, outbox, assetsMutex>>

\* EPIPE: a paired controller is logged out, which writes to the database,
\* with _send_mutex held.
SendMeetsEpipe(t) ==
  /\ pc[t] = "send"
  /\ Partner[t] \in ControllerConn
  /\ link[Partner[t]] = "closed"
  /\ Goto(t, "epipe")
  /\ UNCHANGED <<client, tears, inbox, outbox, hand, sendMutex, assetsMutex>>

LeaveEpipe(t) ==
  /\ pc[t] = "in_epipe"
  /\ assetsMutex' = None
  /\ ReturnFalse(t)
  /\ UNCHANGED <<client, tears, inbox, outbox>>

\* recv returns 0 or -1: the user is logged out, a paired controller with a
\* write to the database, and deleted.
ThreadEnds(t) ==
  /\ pc[t] = "recv"
  /\ link[t] = "closed"
  /\ \/ Goto(t, "done")
     \/ t \in ControllerConn /\ Goto(t, "bye")
  /\ UNCHANGED <<client, tears, inbox, outbox, hand, sendMutex, assetsMutex>>

LeaveBye(t) ==
  /\ pc[t] = "in_bye"
  /\ assetsMutex' = None
  /\ Goto(t, "done")
  /\ UNCHANGED <<client, tears, inbox, outbox, hand, sendMutex>>

-----------------------------------------------------------------------------
Client(c) == ClientReads(c) \/ ClientHandles(c)

Fault(c) == ClientLeaves(c) \/ HostCrashes(c) \/ ClientEnds(c)

Thread(t) ==
  \/ Receive(t)
  \/ TakeAssetsMutex(t) \/ LeaveGet(t) \/ LeavePut(t) \/ LeaveEpipe(t) \/ LeaveBye(t)
  \/ TakeSendMutex(t) \/ WriteFirst(t) \/ WriteRest(t)
  \/ SendFails(t) \/ SendCutShort(t) \/ SendMeetsEpipe(t)
  \/ ThreadEnds(t)

Next == \E c \in Conn : ClientSends(c) \/ Client(c) \/ Fault(c) \/ GiveUp(c) \/ Thread(c)

Spec == Init /\ [][Next]_vars

\* Threads are scheduled, and so are the listeners of a client that has not
\* left; TCP does not retransmit for ever.  Nothing forces a client to send.
Fairness ==
  \A c \in Conn :
    /\ WF_vars(link[c] = "up" /\ Client(c))
    /\ WF_vars(GiveUp(c))
    /\ WF_vars(Thread(c))

FairSpec == Spec /\ Fairness

-----------------------------------------------------------------------------
\* Messages, halves, labels and lock holders are what they should be.
TypeOK ==
  /\ link \in [Conn -> LinkState]
  /\ sent \in [Conn -> Nat]
  /\ inbox \in [Conn -> Seq([message : Message, part : {1, 2}])]
  /\ outbox \in [Conn -> Seq([message : Message, part : {1, 2}])]
  /\ reader \in [Conn -> Message \cup {None}]
  /\ pc \in [Conn -> PC]
  /\ hand \in [Conn -> Message \cup {None}]
  /\ {sendMutex, assetsMutex} \subseteq Conn \cup {None}
  /\ torn \subseteq Conn
  /\ misread \in Nat

\* A client never finds a part of one message inside another one, although
\* several threads may send to it and a send that blocks is suspended between
\* its parts: whatever follows the first part of a message is its second one.
WholeMessages ==
  \A c \in Conn : \A i \in DOMAIN outbox[c] :
    outbox[c][i].part = 1 /\ i < Len(outbox[c])
      => outbox[c][i + 1] = Half(outbox[c][i].message, 2)

\* Every lock is taken in one order: whoever holds assets_mutex does not go
\* on to wait for _send_mutex, for a client, or for assets_mutex once more.
LockOrder ==
  \A t \in Conn : assetsMutex = t => pc[t] \in {"in_get", "in_put", "in_epipe", "in_bye"}

\* _send_mutex, which every send of the server needs, comes free again and
\* again: a client that is slow, silent or gone delays the others, but neither
\* the lock its own answers need, nor assets_mutex, nor a write that nobody
\* will read keeps it for ever.  The exception is a client that has left its
\* connection without closing it.
SendMutexComesFree ==
  []<>(sendMutex # None => link[Partner[sendMutex]] = "left")

\* Once the clients have sent what they send, every thread is back in its recv
\* or has ended: none is left waiting for another one, unless for a client
\* that has left its connection without closing it.
ServerComesToRest ==
  []<>(\/ \A t \in Conn : pc[t] \in {"recv", "done"}
       \/ \E c \in Conn : link[c] = "left")

\* The messages of a client that are complete in a stream.
CompleteIn(s, c) == {h.message : h \in {h \in Range(s) : h.part = 2 /\ h.message.from = c}}

\* Those its thread has written completely, the one the thread is handling,
\* and those that wait for the thread.
Written(s) == CompleteIn(outbox[Partner[s]], s)

InHand(s) == {hand[s]} \ ({None} \cup MadeUp)

Waiting(s) == CompleteIn(inbox[s], s)

\* The relay these threads implement.
Relay == INSTANCE GpRelay WITH transit <- [s \in Conn |-> Written(s) \cup InHand(s) \cup Waiting(s)]

\* What the threads, locks and buffers do is a relay: every client reads what
\* its partners sent in the order sent and at most once, whatever is lost to
\* full buffers, broken connections, unpaired users and parts of messages in
\* between; and messages that nobody sent only once a part of one was written
\* or read by itself, on its own connection or on one of its partners'.
Relays == Relay!Spec
=============================================================================
