------------------------------ MODULE GpStream ------------------------------
(***************************************************************************)
(* One direction of the TCP connection between a client and the server:    *)
(* one side's send (GpClientNet::_sendMessage, or GpUavServer::            *)
(* _send_message), the bytes on their way, and the other side's receive    *)
(* loop (client_listener_thread, or _receiveDataAndParseMessage: the two   *)
(* are the same loop), which turns bytes back into messages, one at a      *)
(* time.                                                                   *)
(*                                                                         *)
(* A message is the sequence of its bytes, in a shorter header: one cell   *)
(* each for type, size and timestamp.  GpMessageCodec has the real header. *)
(***************************************************************************)
EXTENDS Integers, Sequences

CONSTANTS
  Messages,    \* the messages to send, as byte sequences
  HeaderLen,   \* GP_MSG_HEADER_LEN
  BufferLen,   \* READ_VECTOR_BYTES_MAX, what one recv may return
  Room,        \* what the kernel takes before the receiver has read any
  MaxSends     \* bound on the calls of sendMessage

\* The second byte of a message is the length of its payload.
ASSUME MessagesAssumption ==
  Messages \subseteq {m \in Seq(Nat) : Len(m) >= HeaderLen /\ m[2] = Len(m) - HeaderLen}
ASSUME LengthAssumption ==
  HeaderLen \in Nat \ {0, 1} /\ {BufferLen, Room, MaxSends} \subseteq Nat

VARIABLES
  blocking,  \* is the server the sender? it waits for room, the clients do not
  accepted,  \* history: the messages sendMessage returned true for
  refused,   \* history: how often it returned false
  torn,      \* history: has a message been written, or received, in part?
  stream,    \* the bytes on their way
  buffer,    \* the bytes in the receiver's buffer that it has not looked at yet
  handled    \* the messages handed to handle_message

vars == <<blocking, accepted, refused, torn, stream, buffer, handled>>

\* A byte on its way and, as history, the message it is of and its place there.
Cell(i, j) == [value |-> accepted[i][j], of |-> i, at |-> j]

Init ==
  /\ blocking \in BOOLEAN
  /\ accepted = <<>>
  /\ refused = 0
  /\ torn = FALSE
  /\ stream = <<>>
  /\ buffer = <<>>
  /\ handled = <<>>

Sends == Len(accepted) + refused

-----------------------------------------------------------------------------
(* Sending. *)

\* The first n bytes of a message are written.
Accept(m, n) ==
  /\ accepted' = Append(accepted, m)
  /\ stream' = stream \o [j \in 1 .. n |-> [value |-> m[j], of |-> Len(accepted) + 1, at |-> j]]
  /\ torn' = (torn \/ n < Len(m))
  /\ UNCHANGED <<blocking, refused, buffer, handled>>

\* send without MSG_DONTWAIT returns when the kernel has it all.
SendBlocking(m) ==
  /\ blocking
  /\ Sends < MaxSends
  /\ Accept(m, Len(m))

\* send with MSG_DONTWAIT: what fits is written, and any number of bytes
\* above 0 counts as success.
SendNow(m) ==
  LET room == Room - Len(stream) IN
  /\ ~blocking
  /\ Sends < MaxSends
  /\ room > 0
  /\ Accept(m, IF room >= Len(m) THEN Len(m) ELSE room)

\* Mutant: a message that met EAGAIN counts as sent.
SendRefusedSilently ==
  /\ ~blocking
  /\ Sends < MaxSends
  /\ Len(stream) >= Room
  /\ \E m \in Messages : accepted' = Append(accepted, m)
  /\ UNCHANGED <<blocking, refused, torn, stream, buffer, handled>>

\* EAGAIN: the message is skipped, and the caller told so.
SendRefused ==
  /\ ~blocking
  /\ Sends < MaxSends
  /\ Len(stream) >= Room
  /\ refused' = refused + 1
  /\ UNCHANGED <<blocking, accepted, torn, stream, buffer, handled>>

-----------------------------------------------------------------------------
(* The receive loop. *)

\* recv returns between one byte and a buffer full.
Recv ==
  /\ buffer = <<>>
  /\ \E n \in 1 .. Len(stream) :
       /\ n <= BufferLen
       /\ buffer' = SubSeq(stream, 1, n)
       /\ stream' = SubSeq(stream, n + 1, Len(stream))
       /\ torn' = (torn \/ stream[n].at < Len(accepted[stream[n].of]))
  /\ UNCHANGED <<blocking, accepted, refused, handled>>

\* The length of the message that the header in front announces.
MessageLen == HeaderLen + buffer[2].value

\* Mutant: the loop waits for more when exactly a header is there.
CompleteStrict == Len(buffer) > HeaderLen /\ Len(buffer) >= MessageLen

\* There is a header, and all of the message it announces.
Complete == Len(buffer) >= HeaderLen /\ Len(buffer) >= MessageLen

\* A message is complete and is handled.
HandleMessage ==
  /\ buffer # <<>>
  /\ Complete
  /\ handled' = Append(handled, [j \in 1 .. MessageLen |-> buffer[j].value])
  /\ buffer' = SubSeq(buffer, MessageLen + 1, Len(buffer))
  /\ UNCHANGED <<blocking, accepted, refused, torn, stream>>

\* What is left over is dropped: messageStarted is never set, and both
\* pointers go back to the head of the buffer before the next recv.
Drop ==
  /\ buffer # <<>>
  /\ ~Complete
  /\ buffer' = <<>>
  /\ UNCHANGED <<blocking, accepted, refused, torn, stream, handled>>

Next ==
  \/ \E m \in Messages : SendBlocking(m) \/ SendNow(m)
  \/ SendRefused
  \/ Recv
  \/ HandleMessage
  \/ Drop

Spec == Init /\ [][Next]_vars

-----------------------------------------------------------------------------
\* The buffer begins with a whole message.
BeginsWhole ==
  /\ buffer # <<>>
  /\ \A j \in DOMAIN accepted[buffer[1].of] :
       j \in DOMAIN buffer /\ buffer[j] = Cell(buffer[1].of, j)

\* Each recv stands on its own: as long as what it returned goes on with a
\* whole message, that one is handled next, as it was sent, whatever fragments
\* came before.  So a stream that went out of step is back in step at the
\* first recv that begins with a message.
ReadsWholeMessages ==
  [][BeginsWhole /\ buffer' # buffer =>
       /\ handled' = Append(handled, accepted[buffer[1].of])
       /\ buffer' = SubSeq(buffer, Len(accepted[buffer[1].of]) + 1, Len(buffer))]_vars

\* The bytes that the receiver has not looked at yet.
UnderWay == buffer \o stream

\* Until a message is torn, by a partial write or by a recv that ends within
\* it, what the sender was told is sent is what was handled followed by what
\* is on its way: nothing is lost, doubled or out of order.
SentIsHandledOrUnderWay ==
  ~torn =>
    /\ Len(handled) <= Len(accepted)
    /\ handled = SubSeq(accepted, 1, Len(handled))
    /\ {<<UnderWay[k].of, UnderWay[k].at>> : k \in DOMAIN UnderWay} =
         UNION {{i} \X DOMAIN accepted[i] : i \in Len(handled) + 1 .. Len(accepted)}
    /\ \A k, l \in DOMAIN UnderWay :
         k < l => LET c == UnderWay[k]
                      d == UnderWay[l]
                  IN c.of < d.of \/ (c.of = d.of /\ c.at < d.at)

\* GpUavServer.cpp:278, "If there are bytes on the receive queue, turn them
\* into a message or return to recv until a message can be formed": once all
\* is received, every message of a sender that writes all of it was formed.
AllFormed == blocking /\ stream = <<>> /\ buffer = <<>> => handled = accepted
=============================================================================
