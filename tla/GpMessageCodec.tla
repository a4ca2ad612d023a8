--------------------------- MODULE GpMessageCodec ---------------------------
(***************************************************************************)
(* The byte format of a GpMessage (GpMessage.cpp) and the way back from    *)
(* bytes to a message, putHeaderInMessage and setPayload, which both       *)
(* receive loops use (GpUavServer.cpp, GpClientNet.cpp).                   *)
(* GpMessage::deserialize, another way back, is never called.  The payload *)
(* of a login has a format of its own (GpMessage_Login.cpp).               *)
(*                                                                         *)
(* A header is the type (1 byte), the payload's size (2) and a timestamp   *)
(* (4).  A byte is a digit in base Base (256 in the code); the width of    *)
(* each field in bytes is the code's.  The host is little-endian, as all   *)
(* the hosts of the Makefile are, so htons and htonl reverse the bytes.    *)
(***************************************************************************)
EXTENDS Integers, Sequences

CONSTANTS
  Base,     \* the number of values of a byte
  UserLen,  \* GP_MSG_LOGIN_USER_LEN
  KeyLen    \* GP_MSG_LOGIN_KEY_LEN

ASSUME BaseAssumption == Base \in Nat \ {0, 1}

\* The weights of a value's third and fourth byte, and the first value that
\* four bytes do not hold.
Base2 == Base * Base
Base3 == Base * Base2
Base4 == Base * Base3

\* The sizes of messages have two bytes.
ASSUME LoginAssumption == {UserLen, KeyLen} \subseteq Nat \ {0} /\ UserLen + KeyLen < Base2

HeaderLen == 7

\* The byte of this weight of a value.
Digit(v, weight) == (v \div weight) % Base

\* htons and ntohs, htonl and ntohl on a little-endian host.
Swap16(v) == Digit(v, 1) * Base + Digit(v, Base)
Swap32(v) == Digit(v, 1) * Base3 + Digit(v, Base) * Base2 + Digit(v, Base2) * Base + Digit(v, Base3)

\* GpMessage::serialize.  The size goes out in network order; the swapped
\* timestamp goes out from its highest byte, that is, lowest byte first.
Serialize(m) ==
  LET netSize == Swap16(m.size)
      ts == Swap32(m.timestamp)
  IN <<m.type, Digit(netSize, 1), Digit(netSize, Base),
       Digit(ts, Base3), Digit(ts, Base2), Digit(ts, Base), Digit(ts, 1)>> \o m.payload

\* byteUnpack16 copies the two bytes as they lie in memory.
ByteUnpack16(b0, b1) == Swap16(b1 * Base + b0)

ByteUnpack32(b0, b1, b2, b3) == Swap32(b0 * Base3 + b1 * Base2 + b2 * Base + b3)

\* Mutant: the timestamp is taken to be in network order, as the size is.
PutHeaderNetworkOrder(bytes) ==
  [type |-> bytes[1],
   size |-> ByteUnpack16(bytes[2], bytes[3]),
   timestamp |-> bytes[4] * Base3 + bytes[5] * Base2 + bytes[6] * Base + bytes[7],
   payload |-> <<>>]

\* putHeaderInMessage, into a message that was cleared.
PutHeader(bytes) ==
  [type |-> bytes[1],
   size |-> ByteUnpack16(bytes[2], bytes[3]),
   timestamp |-> ByteUnpack32(bytes[4], bytes[5], bytes[6], bytes[7]),
   payload |-> <<>>]

\* The message the receive loops hand on: the header, and setPayload of the
\* bytes behind it.
Received(bytes) ==
  LET header == PutHeader(bytes) IN
  [header EXCEPT !.payload = SubSeq(bytes, HeaderLen + 1, HeaderLen + header.size)]
-----------------------------------------------------------------------------
(* Logins. *)

\* vector::resize: the end is cut off, or zeros are added.
Resized(bytes, n) == [i \in 1 .. n |-> IF i <= Len(bytes) THEN bytes[i] ELSE 0]

\* Mutant: only the two together have a fixed length.
LoginPayloadRunTogether(user, key) == Resized(user \o key, UserLen + KeyLen)

\* setUsername, setKey and GpMessage_Login::serialize.
LoginPayload(user, key) == Resized(user, UserLen) \o Resized(key, KeyLen)

\* What the server gets of a login: GpMessage_Login::deserialize splits the
\* payload into the two fields, and username returns all of the first; key
\* builds a string, and returns an empty one.
LoginRead(payload) == [user |-> SubSeq(payload, 1, UserLen), key |-> <<>>]
=============================================================================
