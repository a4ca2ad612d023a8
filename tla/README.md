# UavServer in TLA+

UavServer relays between a ground controller (a joystick) and an asset (a UAV):
both are TCP clients of a server, which pairs them and forwards commands one way
and heartbeats and pongs the other. These modules model what the code does,
TLC checks them on small instances, and TLAPS proves the theorems of the
`*_proofs` modules for every instance. `PROJECT.json` maps every definition to
its source lines and lists the runs, findings, hazards, mutants and theorems.

## The system

| Component | State | Operations | Talks to |
|---|---|---|---|
| `GpUavServer` | listening socket, one thread per client with its own user object, `_send_mutex` | accept, receive loop, `handle_message`, `_send_message` | clients (TCP), `GpUser`, `GpDatabase` |
| `GpUser`, `GpControllerUser`, `GpAssetUser` | flags, descriptor; a controller's *copy* of its asset; an asset's raw pointer to its owner | `authenticate`, `requestConnectionToAsset`, `refresh`, `logout` | `GpDatabase`, each other's objects through pointers |
| `GpDatabase` | a map from asset ids to *copies* of asset users, under `assets_mutex` | `getAsset`, `insertUpdateAsset`, `authenticateUserForAsset`, `logoutUser` | all of the server's threads |
| `GpMessage` | type, size, timestamp, payload | `serialize`, `deserialize`, unpacking | everything that sends or receives |
| `GpMessage_Login` | fixed-length name and key | build, read | `GpUser::authenticate` |
| `GpClientNet` | the shared `_fd`, `_isConnected`; listener and ping threads | connect, send, heartbeat, ping, receive loop, round-trip times | server (TCP) |
| `GpAsset`, `GpGroundController` | none of their own | rounds of connect, listen, login, heartbeat | `GpClientNet` |
| `GpGameController`, `GpMavlink` | axis values, SDL event | poll, dead zone, encode, send | SDL, `GpClientNet` |
| `main`, `GpIpAddress` | configuration | choose a program | |
| `GpControllerEvent`, `GpControllerNetwork`, `GpNetworkTransmitter` | | unused; the last two are in no make target | |

What is hard here:

* **Copies of one record.** An asset's data exist in its thread's object, in the
  database and in each controller that asked for it. Handlers copy whole records
  between these, in separate critical sections; who writes last wins.
* **Pointers across threads.** An asset's handlers follow a pointer to a
  controller's object that another thread clears, logs out and deletes, and log it out
  themselves when a send to it fails: field by field, without a lock that the
  controller's own thread would take.
* **Sessions that overlap.** A client reconnects before or after the server has
  noticed that its last connection is dead.
* **Locks held across blocking calls.** The server's send blocks under `_send_mutex`,
  and a logout inside it takes `assets_mutex`. Whether its threads go on depends on
  clients that read.
* **The byte stream.** TCP may cut it anywhere; a non-blocking send may write part
  of a message or nothing.
* **Threads of earlier rounds.** A client's reconnects leave detached threads that
  read the shared `_fd` anew.
* **Numbers.** Byte order, 32-bit clocks that wrap, signed deflections in unsigned
  channels.

## Correctness, by component

* Server, users, database: the copies stay well-formed and usable
  (`LinkedHasOwner`, `PairedCopyUsable`, `DatabaseStaysOnline`), no dead owner enters
  the database (`DatabaseGainsLiveOwners`), both ends agree on a pairing
  (`PairingAgreed`), a login is answered on its own socket
  (`ConfirmedOnOwnSocket`) and only when it was granted (`ConfirmedOnlyWhenGranted`), sessions that last find each other
  (`PollingFindsController`) and commands arrive (`CommandsReachAsset`).
* The server's threads: two messages to one client do not mix (`WholeMessages`), locks are
  taken in one order (`LockOrder`), no thread is left waiting (`SendMutexComesFree`,
  `ServerComesToRest`), and all of it is a relay: in order, at most once, and nothing
  made up where no message was torn (`Relays`).
* Messages: a message arrives as it was built (`ReadAsBuilt`), and the name in a login
  (`NameAsGiven`), in order and once
  (`SentIsHandledOrUnderWay`), whatever came before it (`ReadsWholeMessages`).
* Clients: they come back after every failure (`ReturnsToService`) and leave only
  broken connections (`LeavesBrokenConnectionsOnly`); round-trip times are right
  (`RoundTripTimeTrue`).
* Joystick: the asset's picture of the sticks is right (`AssetSeesSticks`), and no
  channel is ignored by accident (`NoAxisIgnored`).

## Modules

### GpPairing: pairing and relaying in the server

A step of a thread is one access to what another thread can access too: one critical
section of `assets_mutex`, or one unlocked read or write of a field of a controller's
object, because the threads of assets reach that object through `_connected_owner`. So
`authenticateUserForAsset` is `GetAsset`, `SetOwner`, `Link`, `Pair`, `PutAsset`, and the
logout of a controller is `Logout`, `Unlink`, `Disown`, `PutUnpaired`, `Unpair`,
`Unauthenticate`, `Offline`, whether its own thread runs it or that of an asset whose
message to it met EPIPE; between any two of these steps all other threads may run, and
the controller may end and be deleted. `task` says what for a thread is in a request, a
send or a logout, that is, where it returns to. A send to an asset's owner is `BeginSend`
(the lock, and the test of `_isOnline`), `Write`, and after EPIPE `CheckOnline` and the logout.
`GpUser::authenticate` requests the asset and the login handler, if the controller is still
authenticated, requests it a second time.

What a step merges, no other thread can tell apart. An asset's object, the pointer in it
included, is touched by its own thread only. Under `_send_mutex` that is also true of what
others touch only under it: `ConfirmAsset`, `ConfirmController` and `ForwardToCopy`, which log
out an asset object or a copy, are one step each. `Command` and `Ping` read flags that other
threads only clear while the controller's thread reads them, so the reads could all happen
at the last one. `GetAsset` and `PutAsset` copy a record in one step: another thread writes to the
same copy meanwhile only in a race (below).

| Variable | Code |
|---|---|
| `conn` | the connection behind a descriptor: open, gone (the client closed it), reset (a write now meets EPIPE) |
| `pc` | where a listener thread is |
| `asset`, `ctrl` | the user object of each thread (`_fd`, `_isAuthenticated`, `_isOnline`, `_isConnectedToPartner`, `_connected_owner`; a controller's `_asset` copy and its own address `at`) |
| `cell` | which controller's object was last built at a heap address |
| `task` | what a thread is in a request, a send or a logout for |
| `assets` | the record of the one asset id, `GpDatabase::assets[GP_ASSET_ID_TEST_ONLY]` |
| `wire` | what the last step wrote, for the properties |
| `raced` | history: an asset's thread was logging a controller out (from the EPIPE on) while that one's own thread was not in `recv`, a test or a send, but writing to its object, or had deleted it |

Assumptions: a descriptor is never used twice, because the server never closes a
client's; reading or writing a deleted controller object reaches whatever was last
built at its address (undefined behaviour; that the code does it is what
`NoUseOfDeletedController` shows, the other properties ask what happens if it goes
well); a client that logs in has its login let through, as `authenticateUser` returns
true on both branches; each client sends the messages of its kind. No client of the
repository sends `GP_MSG_TYPE_LOGOUT`, though the server handles it: the variable
`sendsLogout`, chosen at the start, says whether these clients do. `AssetsOverlap` and
`ControllersOverlap` say whether a client may connect before the server has finished with the
last client of its kind.

**Races.** An asset's thread that meets EPIPE has nothing to keep it from the controller's own
thread, which at that time may be on its way through a request, a logout or `delete`. TLC
finds what may come of it when the condition `~raced` is dropped from the properties:
a record marked as paired without an owner, which the next heartbeat or PONG follows, killing
the server (`LinkedHasOwner`; the asset's thread between lines 123 and 128 of
`src/GpDatabase.cpp`, the controller's at 78-82); flags that disagree (`PairedCopyUsable`,
`PairingAgreed`); a deleted controller in the record (`NoReferenceToLoggedOutController`,
`DatabaseGainsLiveOwners`); a pairing wiped out of the record by a logout that was under way, so
that polling never finds the controller and its commands do not arrive, although sessions do
not overlap (`PollingFindsController`, `CommandsReachAsset`); and, when the asset's sessions
overlap, a record that goes offline (`DatabaseStaysOnline`). So these properties are stated for runs without a race,
`DatabaseStaysOnline` also for an asset's first session whatever races. The two about
confirmations hold in any case: what they speak of is done under `_send_mutex`, which the
asset's thread holds from its send to the end of its logout. A race needs a client that is gone, a
controller's thread that handles a message the client sent before, and an asset's message to
it at that moment; it is how long the pairing stays wrong afterwards that makes it matter.

### GpRelayFlow and GpRelay: threads, locks and full buffers

`GpRelay` is what the server promises clients it has paired: each one's messages reach
its partner in the order sent and at most once, some may be lost, and a client that reads
a PING may answer it. A client may also read messages that nobody sent, but only if its own
connection or that of a client whose messages it gets was torn. `GpRelayFlow` is how the code does it: one thread per connection
(`pc`, `hand`), `sendMutex` and `assetsMutex`, and the buffers of each connection
(`inbox` to the thread, `outbox` to the client) counted in half messages, so that a
blocking send can be suspended in the middle of a message, a send that does not wait can
write part of one, and `recv` can return part of one. A client's listener (`reader`)
answers PINGs with sends that do not wait.

`Round` is what both receive loops, which are the same, make of the stream: a whole message
at its head is taken off and handled; the first half of one, if `recv` returned no more, is
dropped (`messageStarted` is never set); and if the stream begins inside a message, what
is there is read as a header, which may announce any length: it swallows any part of what is
there, or reads like some message that nobody sent (`MadeUp`), which the server forwards like any
other. `torn` is history: the connections on which a part of a message was written or read
by itself. A message read that way is taken to end where `recv`'s bytes do or before; one
that reads like a LOGIN changes nothing for a user that is logged in, and one like a LOGOUT does,
as far as locks go, what the way through `get` back to `recv` does.

| Step | Code |
|---|---|
| `Submit` | `GpClientNet::_sendMessage`: it writes the message, or the part for which there is room, or nothing |
| `Receive` | a round of the receive loop and the first part of `handle_message`, which sends, or goes to the database (`refresh`, `requestConnectionToAsset`), or does nothing |
| `ClientReads` | a round of the client's receive loop |
| `TakeAssetsMutex`, `LeaveGet`, `LeavePut` | the critical sections of `getAsset` and `insertUpdateAsset` |
| `TakeSendMutex`, `WriteFirst`, `WriteRest`, `SendFails`, `SendCutShort` | `_send_message`: an error before anything was written makes it return false, one after a part was written does not |
| `SendMeetsEpipe`, `LeaveEpipe` | its logout of the receiver, under both mutexes |
| `ThreadEnds`, `LeaveBye` | the logout after the receive loop |
| `ClientLeaves` | a heartbeat that meets EAGAIN: the client connects anew and does not close this connection |
| `HostCrashes`, `GiveUp`, `ClientEnds` | a host that falls silent until TCP gives up; a process that ends |

Who is paired with whom is `GpPairing`'s subject. Here `Partner` is fixed, and that a
handler may find its user unpaired or offline is a choice. The refinement mapping reads a
client's messages on their way off the buffers: those its thread has written completely,
the one in the thread's hands, and those that wait for the thread, of each the ones whose second half
is there. `GpRelay` keeps them
as a set, as a message carries its number and the relay delivers the least one first.

### GpMessageCodec and GpRelayedMessages: messages on their way

`GpMessageCodec` has `Serialize` and `PutHeader` (in both receive loops) on digits of
any base (256 in the code, and small for TLC), with the code's field widths and its swaps on a little-endian host, as all
the makefile's targets are. The type is one byte that no conversion looks into, so it is
left a symbol. A login's payload is two fields of fixed length (`LoginPayload`);
`LoginRead` is what `username()` and `key()` make of it, which is an empty string for the key. `GpRelayedMessages` puts a login, commands and PINGs on the four links between
controller, server and asset, stamps them with a clock cut to `Base^4` values as the
code's is to 2^32, and parses and serializes them at every hop, which may also lose
them. `message` and `born` on a link are history. `RoundTripTimeTrue` is about answers that
take less than a turn of the clock (49.7 days in the code): 32 bits tell no longer time. There
is one controller, and its clock is not set back: after a takeover a PONG may reach another controller,
whose clock is another one.

### GpStream: the byte stream

One direction of a connection, chosen by `blocking`. `SendNow` and `SendRefused` are a client's
`MSG_DONTWAIT` send, `SendBlocking` is the server's; `Recv` returns any number of
bytes up to the buffer's length; `HandleMessage` is one round of the receive loop, which
takes a complete message off the front of the buffer, and `Drop` what it does with a rest
that is not complete: the loop ends, and the next `recv` overwrites it. While the
receiver is at work the sender goes on. `accepted`, `refused` and `torn` are history, as is what each byte under way says
of where it comes from. The header is one cell per field.

### GpClient: the clients' rounds

`isAsset` says which client the process is; `main` is the main thread of `GpAsset::connectServer` or `GpGroundController::start`;
`listener` and `pinger` hold the threads each round started, named by that round's
socket. Old threads read the `fd` of now. A send that succeeds changes nothing but
`loggedIn`, so all others are stuttering. An address resolves to one server address,
and a fresh connection has room for the login.

### GpGameController: the joystick

SDL's queue, the thread's `event` and `axisValue`, and the last command. When there
is no event the code handles the last one again; SDL announces the device when it is
opened, so `event` is never read uninitialized, and that first event does nothing;
without a joystick the thread ends at once (`Start`). Events of other kinds and other axes are
`Other`. The third axis on is as the first two: the code treats all four alike.

## Runs

Runs that pass:

| Run | Shows | Bounds |
|---|---|---|
| `pairing_controllers` | without a race: the copies of the record stay well-formed, no dead owner enters the database, both ends agree, a logged-out controller leaves the database; in any case: a login is confirmed on its own socket and only when granted, and the record stays online in the asset's first session | 2 asset and 2 controller connections of which 3 are used, 2 addresses, overlap on (`FewSessions`): two sessions of either side against one of the other, at most two of which end, or one of each with LOGOUT messages; an address is reused, two controllers take the asset from each other, asset threads log controllers out at every point of their requests |
| `pairing_sessions` | without a race, polling finds the controller and commands arrive, also after the controller came back | 1 asset session that stays (a session that ends is no premise of either property), 2 controller sessions one after the other; which controller comes first and where it is built makes no difference (`InOrder`) |
| `relay_flow` | messages stay whole; the locks come free and the threads come to rest; the threads implement `GpRelay` | 1 asset, 2 controllers that both send to it, buffers of one and a half messages (a message may be half written), 3 messages and the answers to them, 1 connection that goes wrong, 1 on which a message is torn (`MaxTorn`), after which 1 message that nobody sent may be read (`MaxMisread`), a PING, which is answered, or a HEARTBEAT, which refreshes (`MisreadKinds`) |
| `relayed_messages` | messages read as built; the name in a login is read as given; round-trip times are right | base 2: the clock wraps at 16, the run goes from 14 to 20; payloads of 0, 1 and 2 bytes, whose sizes differ in both digits; 3 messages in flight; names and keys shorter and longer than their fields |
| `stream` | whole messages are handled in order and once | either sender, 3 messages with payloads of 0 and 1 cell, room for 6 cells, buffer of 7: partial writes, split and joined reads all occur |
| `client` | the client returns to service; it leaves only broken or clogged connections | either client, 3 sockets: two failed rounds behind the last one, with their listeners and pingers |
| `game_controller` | the asset sees the sticks; no channel is ignored by accident | 2 axes of 8 values, dead zone 1, 2 queued events |

Runs that find a claim of the code violated (`PROJECT.json`, "findings", quotes each):

| Run | What the code does |
|---|---|
| `pairing_deleted_controller` | reads a controller's object after it was deleted |
| `pairing_late_logout` | undoes the pairing of a controller's new session when its old one is logged out late |
| `pairing_lost_update` | loses the login of an asset that comes back in the middle of a controller's request: `insertUpdateAsset` at the request's end writes the old session's record over it. Each command then meets EPIPE on the old socket, the copy's logout clears the controller's flag, the next command requests the asset again, and gets the old session's record back |
| `stream_all_formed` | drops a message that two calls of `recv` return |
| `client_linux` | dies of SIGPIPE on Linux where it should reconnect |

Deadlock is not checked where a run ends by its bound: all connections used, all
messages sent, the clock at its end; or by the program: the joystick thread ends
without a joystick. Where the server may be stuck, the liveness properties of
`relay_flow` would show it.

Where a promise ends. `PollingFindsController` holds when sessions of a kind follow
each other and nothing raced, and fails when they overlap; `CommandsReachAsset` holds for an asset's
one session and fails when it comes back while a controller requests it; `ReturnsToService` holds on the Mac build
and fails on the Linux one. The constants of the two runs are the boundary.
`SendMutexComesFree` and `ServerComesToRest` except a client that has left its connection,
and without the exception TLC finds `SendMutexComesFree` violated: a heartbeat that meets EAGAIN makes the
client connect anew (`src/GpClientNet.cpp:649`) and leaves the old connection open with
nobody reading it, so that a send to it blocks with `_send_mutex` held, and with that
every send of the server, until the client's process ends; the comment on line 261 calls EAGAIN a
one-time "skip it".
`ConfirmedOnOwnSocket` is stated for clients that send no LOGOUT: with them it fails, as
an asset that logged out and in again in one session may be refreshed with another
session's descriptor in between.
`PairingAgreed` and `NoReferenceToLoggedOutController` are stated for an asset's first
session, and without races: without `OnlySession` both fail in the same run, because the late end of an
earlier session clears a flag of the controller that the present one is paired with.

Plain from the text, and not given a run: `GpMessage_Login::key` returns an empty
string whatever it read (`src/GpMessage_Login.cpp:69`), so that the key a client was given never
reaches `GpUser::authenticate` (`LoginRead` does the same, and `NameAsGiven` is about the name only); `authenticateUserForAsset` grants an asset
that already has an owner (`src/GpDatabase.cpp:78`), so the "1:1 relationship" of line
141 is not one; an asset that disconnects stays online in the database (133-152);
`GpMessage::deserialize` discards the payload (`src/GpMessage.cpp:208`; nothing calls
it); a ping thread that sleeps through a reconnect goes on
next to the new one (684-701); a quit request never ends the joystick thread, as
`SDL_PollEvent(&e)>=0` always holds (`src/GpGameController.cpp:83`).

## Fairness

* `GpPairing`: a thread that does not wait for its client proceeds (WF). Clients keep
  sending: an asset a heartbeat every three seconds, a controller commands while
  the stick moves. The thread reads messages in the order sent, so neither of these,
  nor the end of the stream, waits forever behind other messages, though other
  handlers disable them for a while, nor does a send behind other sends' `_send_mutex` (SF). A gone peer's host answers a write with a
  reset (WF). Nothing forces a client to connect, to log in or to stay.
* `GpRelayFlow`: threads of the server proceed where they can (WF), a thread waiting for a
  free mutex among them: as the clients send a bounded number of messages, nobody can be
  overtaken for ever, which `std::mutex` by itself would not exclude. A client's listener
  reads and answers as long as the client has not left (WF). TCP gives up on a silent
  host (WF). Nothing forces a client to send, to leave or to die.
* `GpClient`: threads are scheduled, and a broken connection is noticed. Nothing
  forces EAGAIN, or the server to start; `ReturnsToService` assumes the latter.

## Proofs

| Module | Theorems | For every |
|---|---|---|
| `GpPairing_proofs` | `Invariance`, `TypeCorrect`, `NoNullOwner`, `PairedCopyAlwaysUsable`, `DatabaseOnlineUnlessRaced`, `DatabaseOwnersLive` | number of connections and addresses, with overlapping sessions and LOGOUT messages |
| `GpPairingSessions_proofs` | `ConfirmInvariance`, `ConfirmedWhenGranted`, `ConfirmedWhereAsked` | the same, whatever races |
| `GpClient_proofs` | `LeavesBrokenOnly` | number of rounds, client and build |
| `GpRelayFlow_proofs` | `Invariance`, `NoLockCycle`, `SendsExclusive`, `TypesCorrect`, `FrontsInvariance`, `MessagesStayWhole` | number of clients, pairing, room in the buffers, number of messages, of faults and of torn and made-up messages |
| `GpRelayRefinement_proofs` | `OrderInvariance`, `FlowRelays` | the same |
| `GpRelayedMessages_proofs` | `Invariance`, `MessagesReadAsBuilt`, `NamesReadAsGiven`, `TrueRoundTripTimes` | base, clock, skew, payloads and logins |
| `GpStream_proofs` | `Invariance`, `SentIsNotLost`, `WholeMessagesRead` | messages, lengths of header and buffers, number of sends, either sender |
| `GpGameController_proofs` | `Invariance`, `ChannelsNeverIgnored`, `AssetHasSticks` | axes, width of a channel and dead zone |

Every safety property that a passing run checks is one of these theorems, but for
`PairingAgreed`, `NoReferenceToLoggedOutController`, and of `DatabaseStaysOnline` the part about races in an
asset's first session, which are model-checked. What they assume of the constants, and why the code justifies it:

* `GpPairing`: descriptors of assets and controllers differ, no value stands for *none*
  and for something else (`ConnAssumption`, `NoneAssumption`, `RecordAssumption`), flags are
  Booleans (`FlagAssumption`).
* `GpRelayFlow`: assets are paired with controllers and the other way round
  (`PartnerAssumption`), a connection holds at least one message (`NumberAssumption`), and
  no message is *none* (`MessageAssumption`); what nobody sent is of a kind there is
  (`KindsAssumption`).
* `GpMessageCodec`, `GpRelayedMessages`: payloads are shorter than `Base^2`, which is what the
  two bytes of `uint16_t payloadSize` hold (`PayloadAssumption`, `LoginAssumption`; a login's fields
  have constant lengths).
* `GpStream`: a message is at least a header, and its second cell is the length of its payload
  (`MessagesAssumption`); the header has room for that cell (`LengthAssumption`). Of
  the buffers nothing is assumed: a message may be longer than either.
* `GpGameController`: an axis has `2 * Half` values around 0 and a channel as many from 0 on;
  the dead zone is at least 1 and less than `Half` (`WidthAssumption`; `CONTROLLER_DEAD_ZONE` is 5000,
  `Half` 32768). With a dead zone of 0, a deflection of -1 would be the channel value
  that means to ignore the channel, so `NoAxisIgnored` needs it.

### Pairing

None of the properties is inductive alone. The invariant `IInv` of `GpPairing_proofs` has two
parts. `Built` holds whatever races: a thread in a logout or a send has a controller to
log out or to send to, every owner pointer leads to an address where a controller was
built (`CellsOK`), and a user that is online has a socket. It is what type correctness
needs, as a write through a pointer goes to whatever lives there. `Tidy` holds until a
race, and follows each operation write by write: what a request has filled into its copy at each of
its labels (`RequestsOK`), what a logout has cleared at each of its own (`LogoutsOK`), that a copy
which counts is online (`CopiesOnline`), and that a paired controller's copy is linked with it
but while a request or logout is between its writes (`PairsLinked`). `Quiet` says that no race is on: the thread that
writes to a controller's object is then alone, so that what it wrote at one label is still
there at the next. A step that makes `Quiet` false sets `raced`, which is what makes `Tidy` inductive.
`DatabaseOwnersLive` then looks at the steps that write the database: a request's
insertion names its own controller, which is alive; a logout names nobody; an asset's login has no owner left
from before.

`GpPairingSessions_proofs` does without `Tidy`. `ConfirmInv` follows a login from its last
request to the confirmation, write by write: either the copy holds what the request has written so
far, or an asset's thread has begun to log the controller out (`Hit`). The confirmation is
sent under `_send_mutex`, hence not during such a logout, and after it the controller is not
online any more and nothing is sent. `ConfirmedWhereAsked` rests on `DeadSockets`: without LOGOUT
messages, an asset object or record that is not authenticated either has its own descriptor or one
whose connection is reset, to which nothing is confirmed.

### The relay

`IInv` of `GpRelayFlow_proofs` ties each mutex to the places of the thread that holds it.
For `WholeMessages`, `WInv` adds that a first half at the end of a buffer belongs to a thread
that is between its two writes: mutual exclusion makes that thread the only one that can
write next, what a listener takes away, whole or not, leaves the rest in turn, and the thread gives up
only when the connection is broken and its buffer gone.

`FlowRelays` shows that `GpRelayFlow` implements `GpRelay`. A client's messages move from
the buffer behind its thread (`Waiting`) to the thread's hands (`InHand`), to the buffer in
front of the partner (`Written`), to the partner's listener. The invariant `OInv` says
that the numbers in each of these are below those in the ones before it, that the complete messages of each
buffer are sorted, that what lies in front of a client comes from those whose
messages it gets, or from nobody if one of their connections was torn, and that a connection that is not torn
holds whole messages only, so that no receive loop begins inside one. Hence the oldest message written is the least
of all of that client's on their way, and a listener's round that takes a whole message is the relay's `Deliver`; one that takes a
part is `Tear`, or `Misread`, and loses what it swallows; the second write of a send
moves a message from `InHand` to `Written`, which is a stutter if mutual exclusion and
`WInv` put it right behind its own first half, and otherwise completes nothing that is not in order; a partial write
is a `Submit` that tears; a broken connection, an unpaired user or a failed send is
`Lose`; all else changes nothing that the relay sees.

### Messages

`GpRelayedMessages_proofs` first proves the arithmetic: a value below a product of weights is
a digit and a smaller value behind it, in one way only; so `Swap16` and `Swap32` reverse the
digits, each is its own inverse, and reading what `Serialize` wrote gives back every
message. The invariant `RelayedInv` then says what may be on a link at a time: bytes that
`Serialize` made of a message, with the low digits of the clock as it was when the
controller sent the message, or the PING that it answers, which no hop changes. The difference of the clocks modulo
`Base^4` is the time elapsed modulo `Base^4`. A login's fields are told apart by position alone,
and `Resized` gives each exactly its length, so that the name read is the name given (`NamesReadAsGiven`).

### The stream

`GpStream_proofs` knows of each byte which byte of which message it is (`Genuine`). The
invariant `StreamInv` says that, as long as no message is torn, the buffer and the stream
are each `Whole`: with one byte of a message they have all of it, at the places this byte
tells; and that what is under way is in order (`Ordered`) and just what is owed from the
first message not yet handled on (`Owed`). The argument is about stretches of bytes: a whole
stretch that is cut behind the last byte of a message leaves two whole ones (`CutWhole`),
which is what `Recv` does unless it tears a message, and what `HandleMessage` does because the
header in front tells the length (`FrontMessage`); two whole stretches put together are whole
(`JoinWhole`), which is what a send does; and a whole buffer begins with a whole message
(`WholeBegins`), so that `Drop` finds nothing to drop. `WholeMessagesRead` needs only
that bytes are genuine, and so also holds when messages were torn before.

### Clients and joystick

`GpClient_proofs`: the invariant `Abandoned` says that the main thread asks for a new socket
only without a working one, or after a heartbeat that met EAGAIN, which is what the step
that overwrites `_fd` does not look at.

`GpGameController_proofs`: for each axis, either the thread has the stick's position
and no event for it waits (`Settled`), or the last event in the queue for that axis announces it (`Announced`); the event handled
last tells nothing new when it is handled again; the last command has all axes, and was
seen unless it was lost.

### Only model-checked

* The liveness properties: `PollingFindsController`, `CommandsReachAsset`, `ReturnsToService`,
  `SendMutexComesFree`, `ServerComesToRest`. Temporal reasoning under fairness is out of the
  prover's reach.
* `PairingAgreed` and `NoReferenceToLoggedOutController`, and that not even a race takes the record
  offline in an asset's first session (`DatabaseStaysOnline`).
* What the code violates (`PROJECT.json`, "findings"): TLC's counterexamples are the evidence.

## Not modelled

* Printing, the metrics log, the SIGINT handler.
* `sendHeartbeatTo`, `startBackgroundHeartbeat`, `GpControllerEvent`: never called.
  `GpControllerNetwork`, `GpNetworkTransmitter`: in no make target.
* Exhaustion of descriptors and memory (the server closes no socket, and
  `inVector` grows with every read): nothing in the code reacts to either.
* `lib/` (boost, MAVLink, SDL2), the Xcode project: third-party or generated. They are 99% of
  the repository's lines; the program itself is about 4,800.

## Plan

Done, in this order: `GpPairing` with its proofs; `GpMessageCodec` and
`GpRelayedMessages`; `GpStream`; `GpClient` with its proofs; `GpGameController`;
`GpRelayFlow`, which implements `GpRelay`, with its proofs; logins; the joystick's start;
the proofs about sessions, messages, the joystick and the stream, and that of the refinement.
Then `GpPairing` field by field, with races, and `GpRelayFlow` with partial sends and reads, and
their proofs again.

Considered and left out: a composition of `GpClient`'s rounds with `GpPairing`'s
connections. `GpPairing` lets sessions overlap in every way, which is more than the
rounds of two clients do; the state space of the product is out of reach.

Next, proving: of `GpClient`, the states in which its rounds can be, and what the old
listeners and pingers can do to the `_fd` of now; of `GpRelay`, that a client reads each partner's messages
in growing order, as an action property with the numbers read as history.
