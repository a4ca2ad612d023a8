------------------------- MODULE GpRelayedMessages -------------------------
(***************************************************************************)
(* The messages of a paired controller and asset on their way, as bytes    *)
(* (GpClientNet.cpp, GpMessage.cpp, GpUavServer.cpp), and the login before *)
(* them (GpMessage_Login.cpp).  The controller sends logins, COMMANDs, and *)
(* its ping thread PINGs without waiting for answers;                      *)
(* the server parses every message and serializes it again; the asset      *)
(* turns each PING into a PONG; and the controller subtracts the stamp of  *)
(* a PONG from its clock.                                                  *)
(*                                                                         *)
(* Stamps are the low 32 bits of a millisecond clock, so they wrap (every  *)
(* 49.7 days).  The asset's clock is another one.  Any hop may lose a      *)
(* message: a pair that is not connected, a send that fails.               *)
(***************************************************************************)
EXTENDS GpMessageCodec

CONSTANTS
  Payload,     \* the payloads of commands
  Login,       \* the user names and keys of logins
  StartTime,   \* the controller's clock when the run begins, ms, all its bits
  EndTime,     \* bound on that clock
  Skew,        \* how far the asset's clock is ahead of it
  MaxInFlight, \* bound on the messages on their way
  None

ASSUME LoginsAssumption == Login \subseteq [user : Seq(0 .. Base - 1), key : Seq(0 .. Base - 1)]
ASSUME PayloadAssumption == Payload \subseteq {p \in Seq(0 .. Base - 1) : Len(p) < Base2}
ASSUME TimeAssumption == {StartTime, EndTime, Skew, MaxInFlight} \subseteq Nat

\* The message types, which no conversion looks into.
Type == {"LOGIN", "COMMAND", "PING", "PONG"}

\* The four sockets a PING and its PONG cross.
Link == {"toServer", "toAsset", "fromAsset", "toController"}

VARIABLES
  now,   \* the controller's clock, before it is cut to 32 bits
  link,  \* what is on each link: the bytes of a message and, as history, the
         \* message they are of and when the controller sent it
  rtt,   \* what compareRoundTripTime last computed, and the time elapsed
  login  \* the name and key the server handed on in the last step and the login
         \* given, or None

vars == <<now, link, rtt, login>>

Init ==
  /\ now = StartTime
  /\ link = [l \in Link |-> <<>>]
  /\ rtt = [computed |-> 0, elapsed |-> 0]
  /\ login = None

Tick ==
  /\ now < EndTime
  /\ now' = now + 1
  /\ login' = None
  /\ UNCHANGED <<link, rtt>>

\* Mutant: a PONG is stamped like any other message.
StampedAlways(m, clock) == [m EXCEPT !.timestamp = clock % Base4]

\* _sendMessage calls setTimestampToNow, but for a PONG.
Stamped(m, clock) ==
  IF m.type # "PONG" THEN [m EXCEPT !.timestamp = clock % Base4] ELSE m

InFlight ==
  Len(link["toServer"]) + Len(link["toAsset"]) + Len(link["fromAsset"]) + Len(link["toController"])

\* The controller builds, stamps and sends a message, whatever is still on
\* its way.
ControllerSends(type, size, payload, given) ==
  LET m == Stamped([type |-> type, size |-> size, timestamp |-> 0, payload |-> payload], now) IN
  /\ InFlight < MaxInFlight
  /\ link' = [link EXCEPT !["toServer"] =
                Append(@, [bytes |-> Serialize(m), message |-> m, born |-> now, given |-> given])]
  /\ login' = None
  /\ UNCHANGED <<now, rtt>>

\* The constructor of a message takes its size; that of a login is fixed.
SendCommand ==
  \E payload \in Payload : ControllerSends("COMMAND", Len(payload), payload, None)

SendPing == ControllerSends("PING", 0, <<>>, None)

\* The first message on a connection.
SendAuthenticationRequest ==
  /\ InFlight = 0
  /\ \E given \in Login :
       ControllerSends("LOGIN", UserLen + KeyLen, LoginPayload(given.user, given.key), given)

\* The message at the head of a link as the receive loop hands it on.
Arrived(l) == Received(Head(link[l]).bytes)

\* Whoever reads the first message of one link sends m on the next one, or
\* loses it; message is what m ought to be.
Hop(from, to, m, message) ==
  /\ \/ link' = [link EXCEPT ![from] = Tail(@),
                             ![to] = Append(@, [Head(link[from]) EXCEPT !.bytes = Serialize(m),
                                                                        !.message = message])]
     \/ link' = [link EXCEPT ![from] = Tail(@)]
  /\ login' = None
  /\ UNCHANGED <<now, rtt>>

\* The server sends what it received, under the stamp it came with.
ServerRelays(from, to) ==
  /\ link[from] # <<>>
  /\ Arrived(from).type # "LOGIN"
  /\ Hop(from, to, Arrived(from), Head(link[from]).message)

\* The server takes a login apart, and hands on what username and key return.
ServerReadsLogin ==
  /\ link["toServer"] # <<>>
  /\ Arrived("toServer").type = "LOGIN"
  /\ login' = [read |-> LoginRead(Arrived("toServer").payload),
               given |-> Head(link["toServer"]).given]
  /\ link' = [link EXCEPT !["toServer"] = Tail(@)]
  /\ UNCHANGED <<now, rtt>>

\* The asset's listener bounces a PING back under a new type.
Bounce ==
  /\ link["toAsset"] # <<>>
  /\ Arrived("toAsset").type = "PING"
  /\ Hop("toAsset", "fromAsset",
         Stamped([Arrived("toAsset") EXCEPT !.type = "PONG"], now + Skew),
         [Head(link["toAsset"]).message EXCEPT !.type = "PONG"])

\* A command goes to the asset's handler.
HandleCommand ==
  /\ link["toAsset"] # <<>>
  /\ Arrived("toAsset").type = "COMMAND"
  /\ link' = [link EXCEPT !["toAsset"] = Tail(@)]
  /\ login' = None
  /\ UNCHANGED <<now, rtt>>

\* compareRoundTripTime subtracts as uint32_t.
CompareRoundTripTime(m) == ((now % Base4) - m.timestamp) % Base4

ReceivePong ==
  /\ link["toController"] # <<>>
  /\ rtt' = [computed |-> CompareRoundTripTime(Arrived("toController")),
             elapsed |-> now - Head(link["toController"]).born]
  /\ link' = [link EXCEPT !["toController"] = Tail(@)]
  /\ login' = None
  /\ UNCHANGED now

Next ==
  \/ Tick
  \/ SendAuthenticationRequest \/ SendCommand \/ SendPing
  \/ ServerReadsLogin
  \/ ServerRelays("toServer", "toAsset") \/ ServerRelays("fromAsset", "toController")
  \/ Bounce \/ HandleCommand \/ ReceivePong

Spec == Init /\ [][Next]_vars

\* Wherever a message is, what its reader will make of its bytes is what its
\* sender built, in every field: the size's and the timestamp's bytes are
\* swapped by different rules on the way out and on the way in, at every hop,
\* and come out right; and a PONG carries the stamp of its PING.
ReadAsBuilt ==
  \A l \in Link : \A i \in DOMAIN link[l] : Received(link[l][i].bytes) = link[l][i].message

\* The round-trip time logged for a PONG is the time since its own PING was
\* sent, if that is a time the stamps can hold, although several are on their
\* way and some are lost, the clock wraps in between, and the asset's clock
\* differs.
RoundTripTimeTrue == rtt.elapsed < Base4 => rtt.computed = rtt.elapsed

\* A field of a login begins with what was given for it, as far as it is long
\* enough, and holds nothing else.
Holds(field, text) ==
  \A i \in DOMAIN field : field[i] = (IF i <= Len(text) THEN text[i] ELSE 0)

\* The name the server logs a client in under is the one the client was given,
\* cut or filled up to its field: it comes out of one payload that holds a key
\* of any length as well, and nothing of the key runs into it.  Of the key
\* nothing like it holds: what the server hands on is empty, whatever was given
\* (GpMessage_Login::key), and GpDatabase lets everybody in.
NameAsGiven ==
  login # None =>
    /\ Len(login.read.user) = UserLen
    /\ Holds(login.read.user, login.given.user)
=============================================================================
