------------------------------- MODULE GpRelay -------------------------------
(***************************************************************************)
(* What the server promises the clients it has paired, whatever its        *)
(* threads, locks and buffers do: each client's messages reach its partner *)
(* in the order sent and at most once, though some may be lost.  A client  *)
(* that reads a PING may answer it with a PONG.                            *)
(*                                                                         *)
(* A connection is torn once a part of a message was written to it, or     *)
(* read from it, by itself.  A client may then also read messages that     *)
(* nobody sent, made of the remains of others; but only if its own         *)
(* connection, or that of a client whose messages it gets, was torn.       *)
(*                                                                         *)
(* A client's messages are numbered in the order sent, so those on their   *)
(* way need no other order.  GpRelayFlow implements this specification.    *)
(***************************************************************************)
EXTENDS Naturals

CONSTANTS
  Conn,     \* the clients' connections
  Kinds,    \* the kinds of message each client sends of its own accord
  Partner,  \* the client each client's messages go to
  MadeUp,   \* messages that nobody sent
  None

VARIABLES
  sent,     \* how many messages each client has sent
  transit,  \* each client's messages on their way
  reader,   \* the message each client is handling, or None
  torn      \* the connections that were torn

vars == <<sent, transit, reader, torn>>

Init ==
  /\ sent = [c \in Conn |-> 0]
  /\ transit = [c \in Conn |-> {}]
  /\ reader = [c \in Conn |-> None]
  /\ torn = {}

\* A message is on its way, unless only a part of it was written.
Submit(c, kind) ==
  /\ sent' = [sent EXCEPT ![c] = @ + 1]
  /\ \/ /\ transit' = [transit EXCEPT ![c] =
                         @ \cup {[kind |-> kind, from |-> c, number |-> sent[c]]}]
        /\ UNCHANGED torn
     \/ /\ torn' = torn \cup {c}
        /\ UNCHANGED transit

Send(c) == \E kind \in Kinds[c] : Submit(c, kind) /\ UNCHANGED reader

\* The oldest message of a client reaches its partner.
Deliver(c) ==
  \E m \in transit[c] :
    /\ \A other \in transit[c] : m.number <= other.number
    /\ reader[Partner[c]] = None
    /\ reader' = [reader EXCEPT ![Partner[c]] = m]
    /\ transit' = [transit EXCEPT ![c] = @ \ {m}]
    /\ UNCHANGED <<sent, torn>>

Handle(c) ==
  /\ reader[c] # None
  /\ reader' = [reader EXCEPT ![c] = None]
  /\ \/ reader[c].kind = "PING" /\ Submit(c, "PONG")
     \/ UNCHANGED <<sent, transit, torn>>

\* A part of a message is read.
Tear(c) ==
  /\ torn' = torn \cup {c}
  /\ UNCHANGED <<sent, transit, reader>>

\* Messages on their way are lost, or none.
Losing == transit' = [c \in Conn |-> transit[c] \cap transit'[c]]

\* What is left of other messages is read as one.
Misread(c) ==
  /\ reader[c] = None
  /\ c \in torn \/ \E s \in torn : Partner[s] = c
  /\ \E m \in MadeUp : reader' = [reader EXCEPT ![c] = m]
  /\ Losing
  /\ UNCHANGED <<sent, torn>>

\* So may be messages that clients are handling.
Lose ==
  /\ Losing
  /\ reader' = [c \in Conn |-> IF reader'[c] = reader[c] THEN reader[c] ELSE None]
  /\ UNCHANGED <<sent, torn>>

Next == (\E c \in Conn : Send(c) \/ Deliver(c) \/ Handle(c) \/ Tear(c) \/ Misread(c)) \/ Lose

Spec == Init /\ [][Next]_vars
=============================================================================
