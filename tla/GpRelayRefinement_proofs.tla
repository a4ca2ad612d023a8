---------------------- MODULE GpRelayRefinement_proofs ----------------------
(***************************************************************************)
(* GpRelayFlow implements GpRelay, for any number of clients, any pairing  *)
(* of them, any room in their buffers and any number of messages, faults   *)
(* and parts of messages: a client reads its partners' messages in the     *)
(* order sent and at most once, and others only after a tear.              *)
(*                                                                         *)
(* A message moves from the buffer behind its client's thread (Waiting) to *)
(* the hands of the thread (InHand), to the buffer in front of the partner *)
(* (Written).  OInv says that each of these is ahead of the ones before    *)
(* it, and in order by itself; and that what is not torn has whole         *)
(* messages only, so that no receive loop begins inside one.  With the     *)
(* invariants of GpRelayFlow_proofs, every step of the threads is then a   *)
(* step of the relay, or leaves what the relay sees as it is.              *)
(***************************************************************************)
EXTENDS GpRelayFlow_proofs

\* First and second halves take turns, beginning with a first half.
Aligned(o) ==
  /\ o # <<>> => o[1].part = 1
  /\ \A i \in DOMAIN o : o[i].part = 2 /\ i < Len(o) => o[i + 1].part = 1

\* The complete messages of each client lie in the order of their numbers.
Sorted(o) ==
  \A i, j \in DOMAIN o :
    /\ i < j /\ o[i].part = 2 /\ o[j].part = 2
    /\ o[i].message.from # None /\ o[i].message.from = o[j].message.from
    => o[i].message.number < o[j].message.number

\* Nothing but whole messages.
Paired(q) ==
  /\ Whole(q) /\ Aligned(q)
  /\ q # <<>> => q[Len(q)].part = 2

\* What is in front of a client comes from those whose messages it gets, or
\* from nobody if a connection of theirs was torn.
FrontInv(c) ==
  /\ Sorted(outbox[c])
  /\ \A h \in Range(outbox[c]) : h.message.from # None => Partner[h.message.from] = c
  /\ \A h \in Range(outbox[c]) : h.message.from = None => \E s \in torn : Partner[s] = c
  /\ c \notin torn => Aligned(outbox[c])

\* What waits for a thread is its client's.
BackInv(t) ==
  /\ Sorted(inbox[t])
  /\ \A h \in Range(inbox[t]) : h.message.from = t
  /\ t \notin torn => Paired(inbox[t])

\* A thread has no message when it goes to its recv, and none that is not its
\* client's unless that connection was torn; and about to write the second half
\* of a message, it finds the first half where it put it.
ThreadInv(t) ==
  /\ pc[t] \notin {"get", "in_get"} \cup Carrying => hand[t] = None
  /\ hand[t] # None => hand[t].from = t \/ (hand[t].from = None /\ t \in torn)
  /\ pc[t] = "rest" /\ link[Partner[t]] # "closed" /\ Partner[t] \notin torn
       => EndsInside(outbox[Partner[t]], hand[t])

Before(A, B) == \A a \in A, b \in B : a.number < b.number

\* Messages of s of which it has sent n: written, in hand and waiting.
InOrder(s, n, W, H, Q) ==
  /\ \A m \in W \cup H \cup Q : m \in Message /\ m.from = s /\ m.number < n
  /\ Before(W, H) /\ Before(W, Q) /\ Before(H, Q)

Ordered(s) == InOrder(s, sent[s], Written(s), InHand(s), Waiting(s))

OInv == \A c \in Conn : FrontInv(c) /\ BackInv(c) /\ ThreadInv(c) /\ Ordered(c)

\* Everything that is known of a state.
AllInv == IInv /\ TypeInv /\ WInv /\ OInv

-----------------------------------------------------------------------------
(* Sequences of halves. *)

\* A new element is the only one that appending adds.
LEMMA AppendRange ==
  ASSUME NEW S, NEW q \in Seq(S), NEW e \in S
  PROVE  Range(Append(q, e)) = Range(q) \cup {e}
<1>1. /\ Len(q) \in Nat /\ DOMAIN q = 1 .. Len(q)
      /\ DOMAIN Append(q, e) = 1 .. Len(q) + 1
      /\ Append(q, e)[Len(q) + 1] = e
      /\ \A i \in 1 .. Len(q) : Append(q, e)[i] = q[i]
  BY AppendProperties, LenProperties
<1>2. 1 .. Len(q) + 1 = (1 .. Len(q)) \cup {Len(q) + 1}
  BY <1>1
<1> QED
  BY <1>1, <1>2 DEF Range

\* A message is made up if and only if it is from nobody.
LEMMA FromNobody ==
  ASSUME NEW m \in Message
  PROVE  /\ m # None
         /\ m.from \in Conn \cup {None}
         /\ m \in MadeUp <=> m.from = None
  BY ConnAssumption, MessageAssumption DEF Message, MadeUp

\* A half is of the message it is made of.
LEMMA HalfOf ==
  ASSUME NEW m \in Message, NEW part \in {1, 2}
  PROVE  /\ Half(m, part) \in HalfMessage
         /\ Half(m, part).message = m /\ Half(m, part).part = part
  BY DEF Half, HalfMessage

\* What is complete in a stream.
LEMMA CompleteMembers ==
  ASSUME NEW q, NEW s, NEW x
  PROVE  x \in CompleteIn(q, s)
           <=> \E g \in Range(q) : g.part = 2 /\ g.message.from = s /\ x = g.message
  BY DEF CompleteIn

\* A first half adds no message, a second half its own.
LEMMA CompleteAppend ==
  ASSUME NEW o \in Seq(HalfMessage), NEW m \in Message, NEW part \in {1, 2}, NEW s
  PROVE  CompleteIn(Append(o, Half(m, part)), s)
           = IF part = 2 /\ m.from = s THEN CompleteIn(o, s) \cup {m} ELSE CompleteIn(o, s)
<1> DEFINE h == Half(m, part)
<1>1. h \in HalfMessage /\ h.message = m /\ h.part = part
  BY HalfOf
<1> HIDE DEF h
<1>2. Range(Append(o, h)) = Range(o) \cup {h}
  BY <1>1, AppendRange
<1>3. ASSUME NEW x
      PROVE  x \in CompleteIn(Append(o, h), s)
               <=> x \in CompleteIn(o, s) \/ (part = 2 /\ m.from = s /\ x = m)
  BY <1>1, <1>2, CompleteMembers
<1>4. CASE part = 2 /\ m.from = s
  BY <1>3, <1>4 DEF h
<1>5. CASE ~(part = 2 /\ m.from = s)
  BY <1>3, <1>5 DEF h
<1> QED
  BY <1>4, <1>5

\* A half that is put where its turn is keeps the turns.
LEMMA AppendAligned ==
  ASSUME NEW o \in Seq(HalfMessage), Aligned(o), NEW m \in Message, NEW part \in {1, 2},
         part = 2 => o # <<>> /\ o[Len(o)].part = 1
  PROVE  Aligned(Append(o, Half(m, part)))
<1> DEFINE h == Half(m, part)
           n == Len(o)
           r == Append(o, h)
<1>1. h \in HalfMessage /\ h.part = part
  BY HalfOf
<1> HIDE DEF h
<1>2. /\ n \in Nat /\ DOMAIN o = 1 .. n /\ DOMAIN r = 1 .. n + 1 /\ Len(r) = n + 1
      /\ r[n + 1] = h /\ \A i \in 1 .. n : r[i] = o[i]
  BY <1>1, AppendProperties, LenProperties
<1>3. n = 0 <=> o = <<>>
  BY EmptySeq
<1> HIDE DEF n, r
<1>4. r[1].part = 1
  <2>1. CASE n = 0
    BY <1>1, <1>2, <1>3, <2>1
  <2>2. CASE n # 0
    BY <1>2, <1>3, <2>2 DEF Aligned
  <2> QED
    BY <2>1, <2>2
<1>5. ASSUME NEW i \in 1 .. n + 1, r[i].part = 2, i < n + 1  PROVE r[i + 1].part = 1
  <2>1. i \in 1 .. n /\ o[i].part = 2
    BY <1>2, <1>5
  <2>2. CASE i = n
    <3>1. o[n].part = 2
      BY <2>1, <2>2
    <3>2. part = 1
      BY <3>1 DEF n
    <3> QED
      BY <1>1, <1>2, <2>2, <3>2
  <2>3. CASE i # n
    <3>1. i + 1 \in 1 .. n /\ i < n
      BY <1>2, <2>1, <2>3
    <3>2. o[i + 1].part = 1
      BY <1>2, <2>1, <3>1 DEF Aligned, n
    <3> QED
      BY <1>2, <3>1, <3>2
  <2> QED
    BY <2>2, <2>3
<1> QED
  BY <1>2, <1>4, <1>5 DEF Aligned, r, h

\* A message behind all others of its client keeps them sorted; so does one
\* that is nobody's.
LEMMA AppendSorted ==
  ASSUME NEW o \in Seq(HalfMessage), Sorted(o), NEW m \in Message, NEW part \in {1, 2},
         part = 2 /\ m.from # None => \A x \in CompleteIn(o, m.from) : x.number < m.number
  PROVE  Sorted(Append(o, Half(m, part)))
<1> DEFINE h == Half(m, part)
           n == Len(o)
           r == Append(o, h)
<1>1. h \in HalfMessage /\ h.part = part /\ h.message = m
  BY HalfOf
<1> HIDE DEF h
<1>2. /\ n \in Nat /\ DOMAIN o = 1 .. n /\ DOMAIN r = 1 .. n + 1
      /\ r[n + 1] = h /\ \A i \in 1 .. n : r[i] = o[i]
  BY <1>1, AppendProperties, LenProperties
<1> HIDE DEF n, r
<1>3. ASSUME NEW i \in 1 .. n + 1, NEW j \in 1 .. n + 1, i < j,
             r[i].part = 2, r[j].part = 2,
             r[i].message.from # None, r[i].message.from = r[j].message.from
      PROVE  r[i].message.number < r[j].message.number
  <2>1. i \in 1 .. n /\ r[i] = o[i]
    BY <1>2, <1>3
  <2>2. CASE j = n + 1
    <3>1. o[i] \in Range(o) /\ o[i].part = 2 /\ o[i].message.from = m.from
      BY <1>1, <1>2, <1>3, <2>1, <2>2 DEF Range
    <3>2. o[i].message \in CompleteIn(o, m.from)
      BY <3>1, CompleteMembers
    <3> QED
      BY <1>1, <1>2, <1>3, <2>1, <2>2, <3>1, <3>2
  <2>3. CASE j \in 1 .. n
    BY <1>2, <1>3, <2>1, <2>3 DEF Sorted
  <2> QED
    BY <1>2, <2>2, <2>3
<1> QED
  BY <1>2, <1>3 DEF Sorted, r, h

\* What a receive loop leaves is part of the stream, in the same order.
LEMMA RestInOrder ==
  ASSUME NEW o \in Seq(HalfMessage), Sorted(o), NEW k \in 1 .. Len(o)
  PROVE  /\ Range(Rest(o, k)) \subseteq Range(o)
         /\ Sorted(Rest(o, k))
         /\ \A s : CompleteIn(Rest(o, k), s) \subseteq CompleteIn(o, s)
<1>1. PICK n \in Nat : n = Len(o)
  OBVIOUS
<1>2. PICK r : r = Rest(o, k)
  OBVIOUS
<1>3. /\ r \in Seq(HalfMessage) /\ Len(r) = n - k /\ k \in 1 .. n
      /\ \A i \in 1 .. n - k : r[i] = o[i + k]
  BY <1>1, <1>2, RestOfStream
<1>4. DOMAIN r = 1 .. n - k /\ DOMAIN o = 1 .. n
  BY <1>1, <1>3
<1>5. \A i \in 1 .. n - k : i + k \in 1 .. n
  BY <1>3
<1>6. Range(r) \subseteq Range(o)
  BY <1>3, <1>4, <1>5 DEF Range
<1>7. ASSUME NEW i \in DOMAIN r, NEW j \in DOMAIN r, i < j, r[i].part = 2, r[j].part = 2,
             r[i].message.from # None, r[i].message.from = r[j].message.from
      PROVE  r[i].message.number < r[j].message.number
  <2>1. i + k \in DOMAIN o /\ j + k \in DOMAIN o /\ i + k < j + k
    BY <1>3, <1>4, <1>5, <1>7
  <2>2. r[i] = o[i + k] /\ r[j] = o[j + k]
    BY <1>3, <1>4
  <2> QED
    BY <1>7, <2>1, <2>2 DEF Sorted
<1>8. ASSUME NEW s  PROVE CompleteIn(r, s) \subseteq CompleteIn(o, s)
  BY <1>6, CompleteMembers
<1> QED
  BY <1>2, <1>6, <1>7, <1>8 DEF Sorted

\* A first half that is dropped takes no complete message along.
LEMMA RestOfPart ==
  ASSUME NEW o \in Seq(HalfMessage), 1 \in 1 .. Len(o), o[1].part = 1, NEW s
  PROVE  CompleteIn(Rest(o, 1), s) = CompleteIn(o, s)
<1>1. PICK n \in Nat : n = Len(o)
  OBVIOUS
<1>2. PICK r : r = Rest(o, 1)
  OBVIOUS
<1>3. /\ r \in Seq(HalfMessage) /\ Len(r) = n - 1
      /\ \A i \in 1 .. n - 1 : r[i] = o[i + 1]
  BY <1>1, <1>2, RestOfStream
<1>4. DOMAIN r = 1 .. n - 1 /\ DOMAIN o = 1 .. n
  BY <1>1, <1>3
<1>5. ASSUME NEW h \in Range(o), h.part = 2  PROVE h \in Range(r)
  <2>1. PICK i \in 1 .. n : h = o[i]
    BY <1>4, <1>5 DEF Range
  <2>2. i # 1
    BY <1>5, <2>1
  <2>3. i - 1 \in 1 .. n - 1 /\ (i - 1) + 1 = i
    BY <1>1, <2>2
  <2> QED
    BY <1>3, <1>4, <2>1, <2>3 DEF Range
<1>6. ASSUME NEW h \in Range(r)  PROVE h \in Range(o)
  <2>1. PICK i \in 1 .. n - 1 : h = r[i]
    BY <1>4, <1>6 DEF Range
  <2>2. i + 1 \in 1 .. n
    BY <1>1
  <2> QED
    BY <1>3, <1>4, <2>1, <2>2 DEF Range
<1>7. ASSUME NEW x  PROVE x \in CompleteIn(r, s) <=> x \in CompleteIn(o, s)
  BY <1>5, <1>6, CompleteMembers
<1> QED
  BY <1>2, <1>7

\* m is complete in o and not in r, which is otherwise as o; and it is the oldest
\* of its sender's messages there.
FirstTaken(o, r, m) ==
  \A s : /\ s # m.from => CompleteIn(o, s) = CompleteIn(r, s)
         /\ s = m.from /\ s # None => /\ CompleteIn(o, s) = CompleteIn(r, s) \cup {m}
                                      /\ \A x \in CompleteIn(r, s) : m.number < x.number

\* A message that is read whole is the oldest one of its sender.
LEMMA ReadWhole ==
  ASSUME NEW o \in Seq(HalfMessage), Sorted(o), BeginsWhole(o)
  PROVE  /\ 2 \in 1 .. Len(o) /\ o[1].message \in Message
         /\ o[2] \in Range(o) /\ o[2] = Half(o[1].message, 2)
         /\ FirstTaken(o, Rest(o, 2), o[1].message)
<1>1. PICK n \in Nat : n = Len(o) /\ n >= 2
  BY DEF BeginsWhole
<1>2. PICK r : r = Rest(o, 2)
  OBVIOUS
<1>3. 2 \in 1 .. n /\ 1 \in 1 .. n /\ DOMAIN o = 1 .. n
  BY <1>1
<1>4. /\ r \in Seq(HalfMessage) /\ Len(r) = n - 2
      /\ \A i \in 1 .. n - 2 : r[i] = o[i + 2]
  BY <1>1, <1>2, <1>3, RestOfStream
<1>5. DOMAIN r = 1 .. n - 2
  BY <1>1, <1>4
<1>6. PICK m : m = o[1].message
  OBVIOUS
<1>7. m \in Message /\ o[1].part = 1 /\ o[2] = Half(m, 2)
  <2>1. o[1] \in HalfMessage
    BY <1>1, <1>3
  <2> QED
    BY <1>6, <2>1 DEF BeginsWhole, HalfMessage
<1>8. o[2].part = 2 /\ o[2].message = m
  BY <1>7, HalfOf
<1>9. o[1] \in Range(o) /\ o[2] \in Range(o)
  BY <1>3 DEF Range
<1>10. ASSUME NEW i \in 1 .. n - 2  PROVE r[i] = o[i + 2] /\ i + 2 \in DOMAIN o /\ 2 < i + 2
  BY <1>1, <1>3, <1>4
<1>11. ASSUME NEW h \in Range(o)  PROVE h \in {o[1], o[2]} \cup Range(r)
  <2>1. PICK i \in 1 .. n : h = o[i]
    BY <1>3, <1>11 DEF Range
  <2>2. CASE i = 1 \/ i = 2
    BY <2>1, <2>2
  <2>3. CASE i # 1 /\ i # 2
    <3>1. i - 2 \in 1 .. n - 2 /\ (i - 2) + 2 = i
      BY <1>1, <2>3
    <3> QED
      BY <1>4, <1>5, <2>1, <3>1 DEF Range
  <2> QED
    BY <2>2, <2>3
<1>12. Range(r) \subseteq Range(o)
  BY <1>3, <1>5, <1>10 DEF Range
<1>13. ASSUME NEW s, NEW x
       PROVE  x \in CompleteIn(o, s) <=> x \in CompleteIn(r, s) \/ (m.from = s /\ x = m)
  BY <1>7, <1>8, <1>9, <1>11, <1>12, CompleteMembers
<1>14. ASSUME NEW x \in CompleteIn(r, m.from), m.from # None  PROVE m.number < x.number
  <2>1. PICK g \in Range(r) : g.part = 2 /\ g.message.from = m.from /\ x = g.message
    BY <1>14, CompleteMembers
  <2>2. PICK i \in 1 .. n - 2 : g = r[i]
    BY <1>5 DEF Range
  <2> QED
    BY <1>3, <1>8, <1>10, <1>14, <2>1, <2>2 DEF Sorted
<1>15. FirstTaken(o, r, m)
  <2>1. ASSUME NEW s, s # m.from  PROVE CompleteIn(o, s) = CompleteIn(r, s)
    <3>1. \A x : x \in CompleteIn(o, s) <=> x \in CompleteIn(r, s)
      BY <1>13, <2>1
    <3> QED
      BY <3>1, Zenon
  <2>2. CompleteIn(o, m.from) = CompleteIn(r, m.from) \cup {m}
    <3>1. \A x : x \in CompleteIn(o, m.from) <=> x \in CompleteIn(r, m.from) \cup {m}
      BY <1>13
    <3> QED
      BY <3>1, Zenon
  <2> QED
    BY <1>14, <2>1, <2>2 DEF FirstTaken
<1> QED
  BY <1>1, <1>2, <1>3, <1>6, <1>7, <1>9, <1>15

\* What is behind a whole message is aligned if all was.
LEMMA RestAligned ==
  ASSUME NEW o \in Seq(HalfMessage), Aligned(o), BeginsWhole(o)
  PROVE  Aligned(Rest(o, 2))
<1>1. PICK n \in Nat : n = Len(o) /\ n >= 2
  BY DEF BeginsWhole
<1>2. PICK r : r = Rest(o, 2)
  OBVIOUS
<1>3. 2 \in 1 .. n /\ 1 \in 1 .. n /\ DOMAIN o = 1 .. n
  BY <1>1
<1>4. /\ r \in Seq(HalfMessage) /\ Len(r) = n - 2
      /\ \A i \in 1 .. n - 2 : r[i] = o[i + 2]
  BY <1>1, <1>2, <1>3, RestOfStream
<1>5. DOMAIN r = 1 .. n - 2
  BY <1>1, <1>4
<1>6. o[2].part = 2
  BY DEF BeginsWhole, Half
<1>7. ASSUME r # <<>>  PROVE r[1].part = 1
  <2>1. n - 2 # 0
    BY <1>4, <1>7, EmptySeq
  <2>2. 1 \in 1 .. n - 2 /\ 2 < n /\ 1 + 2 = 2 + 1
    BY <1>1, <2>1
  <2>3. o[2 + 1].part = 1
    BY <1>1, <1>3, <1>6, <2>2 DEF Aligned
  <2> QED
    BY <1>4, <2>2, <2>3
<1>8. ASSUME NEW i \in 1 .. n - 2, r[i].part = 2, i < n - 2  PROVE r[i + 1].part = 1
  <2>1. i + 2 \in DOMAIN o /\ i + 2 < n /\ o[i + 2].part = 2
    BY <1>1, <1>3, <1>4, <1>8
  <2>2. o[(i + 2) + 1].part = 1
    BY <1>1, <2>1 DEF Aligned
  <2>3. i + 1 \in 1 .. n - 2 /\ (i + 2) + 1 = (i + 1) + 2
    BY <1>1, <1>8
  <2> QED
    BY <1>4, <2>2, <2>3
<1> QED
  BY <1>2, <1>4, <1>5, <1>7, <1>8 DEF Aligned

\* A receive loop that has whole messages before it does not begin inside one.
LEMMA NotInside ==
  ASSUME NEW o \in Seq(HalfMessage), Whole(o), Aligned(o), 1 \in 1 .. Len(o)
  PROVE  ~BeginsInside(o)
<1>1. PICK n \in Nat : n = Len(o) /\ 1 \in 1 .. n /\ DOMAIN o = 1 .. n
  OBVIOUS
<1>2. o # <<>>
  BY <1>1, EmptySeq
<1>3. o[1].part = 1
  BY <1>2 DEF Aligned
<1>4. ASSUME n >= 2  PROVE o[2] = Half(o[1].message, 2)
  <2>1. o[1 + 1] = Half(o[1].message, 2)
    BY <1>1, <1>3, <1>4 DEF Whole
  <2> QED
    BY <2>1
<1> QED
  BY <1>1, <1>3, <1>4 DEF BeginsInside

-----------------------------------------------------------------------------
(* The order of a client's messages. *)

\* Losing messages keeps their order.
LEMMA LosingKeepsOrder ==
  ASSUME NEW s, NEW n, NEW W, NEW H, NEW Q, InOrder(s, n, W, H, Q),
         NEW W2 \in SUBSET W, NEW H2 \in SUBSET H, NEW Q2 \in SUBSET Q
  PROVE  InOrder(s, n, W2, H2, Q2)
  BY DEF InOrder, Before

\* A message that is lost before it is on its way leaves a gap in the numbers.
LEMMA SkippingKeepsOrder ==
  ASSUME NEW s, NEW n \in Nat, NEW W, NEW H, NEW Q, InOrder(s, n, W, H, Q)
  PROVE  InOrder(s, n + 1, W, H, Q)
<1>1. \A x \in W \cup H \cup Q : x.number \in Nat /\ x.number < n
  BY FromNobody DEF InOrder, Message, MadeUp
<1>2. \A x \in W \cup H \cup Q : x \in Message /\ x.from = s /\ x.number < n + 1
  BY <1>1 DEF InOrder
<1> QED
  BY <1>2 DEF InOrder

\* A new message is behind all others.
LEMMA SubmitKeepsOrder ==
  ASSUME NEW s, NEW n \in Nat, NEW W, NEW H, NEW Q, InOrder(s, n, W, H, Q),
         NEW m \in Message, m.from = s, m.number = n
  PROVE  InOrder(s, n + 1, W, H, Q \cup {m})
<1>1. \A x \in W \cup H \cup Q : x.number \in Nat /\ x.number < n
  BY FromNobody DEF InOrder, Message, MadeUp
<1>2. \A x \in W \cup H \cup Q \cup {m} : x \in Message /\ x.from = s /\ x.number < n + 1
  BY <1>1 DEF InOrder
<1>3. Before(W, {m}) /\ Before(H, {m})
  BY <1>1 DEF Before
<1> QED
  BY <1>2, <1>3 DEF InOrder, Before

\* The oldest message that waits comes to an empty hand.
LEMMA ReceiveKeepsOrder ==
  ASSUME NEW s, NEW n, NEW W, NEW m, NEW Q, InOrder(s, n, W, {}, Q \cup {m}),
         Before({m}, Q)
  PROVE  InOrder(s, n, W, {m}, Q)
  BY DEF InOrder, Before

\* The message in hand is put behind those written.
LEMMA WriteKeepsOrder ==
  ASSUME NEW s, NEW n, NEW W, NEW H, NEW Q, InOrder(s, n, W, H, Q)
  PROVE  InOrder(s, n, W \cup H, {}, Q)
  BY DEF InOrder, Before

\* Numbers are numbers.
LEMMA OrderNumbers ==
  ASSUME NEW s, NEW n, NEW W, NEW H, NEW Q, InOrder(s, n, W, H, Q)
  PROVE  \A m \in W \cup H \cup Q : m \in Message /\ m.from = s /\ m.number \in Nat
  BY DEF InOrder, Message, MadeUp

-----------------------------------------------------------------------------
(* What a step leaves alone. *)

\* A client in front of which nothing changes.
LEMMA FrontKept ==
  ASSUME NEW c \in Conn, FrontInv(c), outbox'[c] = outbox[c], torn \subseteq torn'
  PROVE  FrontInv(c)'
<1>1. \A h \in Range(outbox[c]) : h.message.from = None => \E s \in torn' : Partner[s] = c
  BY DEF FrontInv
<1> QED
  BY <1>1 DEF FrontInv

\* A thread behind which nothing changes.
LEMMA BackKept ==
  ASSUME NEW t \in Conn, BackInv(t), inbox'[t] = inbox[t], torn \subseteq torn'
  PROVE  BackInv(t)'
  BY DEF BackInv

\* A thread that stays where it is, when at most its partner's connection breaks.
LEMMA ThreadKept ==
  ASSUME NEW t \in Conn, ThreadInv(t), pc'[t] = pc[t], hand'[t] = hand[t], torn \subseteq torn',
         link'[Partner[t]] # "closed"
           => link[Partner[t]] # "closed" /\ outbox'[Partner[t]] = outbox[Partner[t]]
  PROVE  ThreadInv(t)'
<1>1. Partner[t] \notin torn' => Partner[t] \notin torn
  OBVIOUS
<1> QED
  BY <1>1 DEF ThreadInv

\* The messages of a client stay where they are.
LEMMA OrderKept ==
  ASSUME NEW s \in Conn, Ordered(s), sent'[s] = sent[s],
         outbox'[Partner[s]] = outbox[Partner[s]], hand'[s] = hand[s], inbox'[s] = inbox[s]
  PROVE  Ordered(s)'
  BY DEF Ordered, Written, InHand, Waiting

\* What the relay sees of a client.
Transit(s) == Written(s) \cup InHand(s) \cup Waiting(s)

\* The thread of each client sends to another client.
LEMMA Partners ==
  ASSUME NEW t \in Conn
  PROVE  Partner[t] \in Conn
  BY PartnerAssumption

\* What is in a stream, and whole in front of clients.
LEMMA Known ==
  ASSUME AllInv, NEW c \in Conn
  PROVE  /\ FrontInv(c) /\ BackInv(c) /\ ThreadInv(c) /\ Ordered(c)
         /\ Whole(outbox[c]) /\ (link[c] = "closed" => outbox[c] = <<>>)
         /\ outbox[c] \in Seq(HalfMessage) /\ inbox[c] \in Seq(HalfMessage)
         /\ sent[c] \in Nat /\ reader[c] \in Message \cup {None} /\ hand[c] \in Message \cup {None}
         /\ pc[c] \in PC
  BY Types DEF AllInv, OInv, WInv, Front

-----------------------------------------------------------------------------
(* A client writes to its thread. *)

\* What the relay sees of a message that is written whole, in part, or not.
Submitted(c, m) ==
  \/ UNCHANGED <<sent, torn>> /\ \A s \in Conn : Transit(s)' = Transit(s)
  \/ /\ sent' = [sent EXCEPT ![c] = @ + 1]
     /\ UNCHANGED torn
     /\ Transit(c)' = Transit(c) \cup {m}
     /\ \A s \in Conn : s # c => Transit(s)' = Transit(s)
  \/ /\ sent' = [sent EXCEPT ![c] = @ + 1]
     /\ torn' = torn \cup {c}
     /\ \A s \in Conn : Transit(s)' = Transit(s)

\* A stream with the first half of a message behind it, and with both.
WithPart(q, m) == Append(q, Half(m, 1))
WithBoth(q, m) == q \o <<Half(m, 1), Half(m, 2)>>

\* Halves of a new message behind a stream of its client.
LEMMA PutBehind ==
  ASSUME NEW c \in Conn, NEW q \in Seq(HalfMessage), Sorted(q),
         \A h \in Range(q) : h.message.from = c,
         NEW m \in Message, m.from = c, \A x \in CompleteIn(q, c) : x.number < m.number
  PROVE  /\ Sorted(WithPart(q, m)) /\ \A h \in Range(WithPart(q, m)) : h.message.from = c
         /\ CompleteIn(WithPart(q, m), c) = CompleteIn(q, c)
         /\ Sorted(WithBoth(q, m)) /\ \A h \in Range(WithBoth(q, m)) : h.message.from = c
         /\ CompleteIn(WithBoth(q, m), c) = CompleteIn(q, c) \cup {m}
         /\ Paired(q) => Paired(WithBoth(q, m))
<1>0. PICK part, all : /\ part = WithPart(q, m) /\ all = WithBoth(q, m)
                       /\ part = Append(q, Half(m, 1))
  BY DEF WithPart
<1>1. /\ Half(m, 1) \in HalfMessage /\ Half(m, 1).message = m /\ Half(m, 1).part = 1
      /\ Half(m, 2) \in HalfMessage /\ Half(m, 2).message = m /\ Half(m, 2).part = 2
  BY HalfOf
<1>2. part \in Seq(HalfMessage) /\ all = Append(part, Half(m, 2)) /\ all \in Seq(HalfMessage)
  <2>1. PICK g \in HalfMessage, h \in HalfMessage : g = Half(m, 1) /\ h = Half(m, 2)
    BY <1>1
  <2>2. part = Append(q, g) /\ all = q \o <<g, h>>
    BY <1>0, <2>1 DEF WithPart, WithBoth
  <2>3. q \o <<g, h>> = Append(Append(q, g), h)
    OBVIOUS
  <2> QED
    BY <2>1, <2>2, <2>3
<1>3. Sorted(part) /\ CompleteIn(part, c) = CompleteIn(q, c)
  BY <1>0, AppendSorted, CompleteAppend
<1>4. Sorted(all) /\ CompleteIn(all, c) = CompleteIn(q, c) \cup {m}
  <2>1. \A x \in CompleteIn(part, m.from) : x.number < m.number
    BY <1>3
  <2>2. Sorted(Append(part, Half(m, 2)))
    BY <1>2, <1>3, <2>1, AppendSorted
  <2>3. CompleteIn(Append(part, Half(m, 2)), c) = CompleteIn(part, c) \cup {m}
    BY <1>2, CompleteAppend
  <2> QED
    BY <1>2, <1>3, <2>2, <2>3
<1>5. Range(part) = Range(q) \cup {Half(m, 1)} /\ Range(all) = Range(part) \cup {Half(m, 2)}
  <2>1. Range(Append(q, Half(m, 1))) = Range(q) \cup {Half(m, 1)}
    BY <1>1, AppendRange
  <2>2. Range(Append(part, Half(m, 2))) = Range(part) \cup {Half(m, 2)}
    BY <1>1, <1>2, AppendRange
  <2> QED
    BY <1>2, <1>0, <2>1, <2>2
<1>6. ASSUME Paired(q)  PROVE Paired(all)
  <2>1. Whole(q) /\ Aligned(q) /\ ~(q # <<>> /\ q[Len(q)].part = 1)
    BY <1>6 DEF Paired
  <2>2. Whole(part) /\ part # <<>> /\ part[Len(part)] = Half(m, 1)
    BY <1>0, <2>1, AppendWhole
  <2>3. Aligned(part)
    BY <1>0, <2>1, AppendAligned
  <2>4. EndsInside(part, m)
    BY <2>2 DEF EndsInside
  <2>5. Whole(all) /\ all[Len(all)] = Half(m, 2)
    BY <1>2, <2>2, <2>4, AppendWhole
  <2>6. Aligned(all)
    BY <1>1, <1>2, <2>2, <2>3, AppendAligned
  <2> QED
    BY <1>1, <2>5, <2>6 DEF Paired
<1> QED
  BY <1>0, <1>1, <1>3, <1>4, <1>5, <1>6

\* A client that sends keeps the order.
LEMMA SubmitKeeps ==
  ASSUME AllInv, NEW c \in Conn, NEW kind \in Kind, Submit(c, kind),
         UNCHANGED <<link, outbox, pc, hand>>
  PROVE  OInv' /\ Submitted(c, [kind |-> kind, from |-> c, number |-> sent[c]])
<1>1. PICK m : m = [kind |-> kind, from |-> c, number |-> sent[c]]
  OBVIOUS
<1>2. m \in Message /\ m.from = c /\ m.number = sent[c]
  BY <1>1, Known DEF Message
<1>3. /\ sent \in [Conn -> Nat] /\ inbox \in [Conn -> Seq(HalfMessage)]
  BY Types DEF AllInv
<1>4. PICK q : q = inbox[c]
  OBVIOUS
<1>5. PICK part : part = WithPart(q, m)
  OBVIOUS
<1>6. PICK all : all = WithBoth(q, m)
  OBVIOUS
<1>7. /\ q \in Seq(HalfMessage) /\ Sorted(q) /\ \A h \in Range(q) : h.message.from = c
      /\ c \notin torn => Paired(q)
  BY <1>4, Known DEF BackInv
<1>8. \A x \in CompleteIn(q, c) : x.number < m.number
  BY <1>2, <1>4, Known DEF Ordered, InOrder, Waiting
<1>9. /\ Sorted(part) /\ \A h \in Range(part) : h.message.from = c
      /\ CompleteIn(part, c) = CompleteIn(q, c)
      /\ Sorted(all) /\ \A h \in Range(all) : h.message.from = c
      /\ CompleteIn(all, c) = CompleteIn(q, c) \cup {m}
      /\ Paired(q) => Paired(all)
  BY <1>2, <1>5, <1>6, <1>7, <1>8, PutBehind
<1>10. \A s \in Conn : Written(s)' = Written(s) /\ InHand(s)' = InHand(s)
  BY DEF Written, InHand
<1>11. torn \subseteq torn'
  BY DEF Submit, tears
<1>12. ASSUME NEW d \in Conn
       PROVE  /\ FrontInv(d)' /\ ThreadInv(d)'
              /\ d # c => BackInv(d)' /\ Ordered(d)' /\ Waiting(d)' = Waiting(d)
  <2>1. d # c => inbox'[d] = inbox[d] /\ sent'[d] = sent[d]
    BY <1>3 DEF Submit
  <2> QED
    BY <1>11, <2>1, Known, FrontKept, ThreadKept, BackKept, OrderKept DEF Waiting
<1>13. CASE UNCHANGED <<sent, inbox, tears>>
  <2>1. BackInv(c)' /\ Ordered(c)' /\ Waiting(c)' = Waiting(c)
    BY <1>11, <1>13, Known, BackKept, OrderKept DEF Waiting
  <2>2. torn' = torn
    BY <1>13 DEF tears
  <2> QED
    BY <1>10, <1>12, <1>13, <2>1, <2>2 DEF OInv, Submitted, Transit
<1>14. CASE /\ sent' = [sent EXCEPT ![c] = @ + 1]
            /\ inbox' = [inbox EXCEPT ![c] = @ \o <<Half(m, 1), Half(m, 2)>>]
            /\ UNCHANGED tears
  <2>1. inbox'[c] = all /\ sent'[c] = sent[c] + 1 /\ torn' = torn
    BY <1>3, <1>4, <1>6, <1>14 DEF tears, WithBoth
  <2>2. Waiting(c)' = Waiting(c) \cup {m}
    BY <1>4, <1>9, <2>1 DEF Waiting
  <2>3. BackInv(c)'
    BY <1>7, <1>9, <2>1 DEF BackInv
  <2>4. Ordered(c)'
    <3>1. InOrder(c, sent[c] + 1, Written(c), InHand(c), Waiting(c) \cup {m})
      BY <1>2, Known, SubmitKeepsOrder DEF Ordered
    <3> QED
      BY <1>10, <2>1, <2>2, <3>1 DEF Ordered
  <2>5. /\ Transit(c)' = Transit(c) \cup {m}
        /\ \A s \in Conn : s # c => Transit(s)' = Transit(s)
    BY <1>10, <1>12, <2>2 DEF Transit
  <2>6. Submitted(c, m)
    BY <1>14, <2>1, <2>5 DEF Submitted
  <2> QED
    BY <1>1, <1>12, <2>3, <2>4, <2>6 DEF OInv
<1>15. CASE /\ sent' = [sent EXCEPT ![c] = @ + 1]
            /\ inbox' = [inbox EXCEPT ![c] = Append(@, Half(m, 1))]
            /\ torn' = torn \cup {c}
  <2>1. inbox'[c] = part /\ sent'[c] = sent[c] + 1 /\ c \in torn'
    BY <1>3, <1>4, <1>5, <1>15 DEF WithPart
  <2>2. Waiting(c)' = Waiting(c)
    BY <1>4, <1>9, <2>1 DEF Waiting
  <2>3. BackInv(c)'
    BY <1>9, <2>1 DEF BackInv
  <2>4. Ordered(c)'
    <3>1. InOrder(c, sent[c] + 1, Written(c), InHand(c), Waiting(c))
      BY Known, SkippingKeepsOrder DEF Ordered
    <3> QED
      BY <1>10, <2>1, <2>2, <3>1 DEF Ordered
  <2>5. \A s \in Conn : Transit(s)' = Transit(s)
    BY <1>10, <1>12, <2>2 DEF Transit
  <2>6. Submitted(c, m)
    BY <1>15, <2>5 DEF Submitted
  <2> QED
    BY <1>1, <1>12, <2>3, <2>4, <2>6 DEF OInv
<1> QED
  BY <1>1, <1>13, <1>14, <1>15 DEF Submit

-----------------------------------------------------------------------------
(* A round of a receive loop. *)

\* A whole message, a part dropped, or a beginning inside a message.
RoundWhole(c, o, r, m) ==
  /\ m \in Message /\ o[2] \in Range(o) /\ o[2] = Half(m, 2)
  /\ FirstTaken(o, r, m)
  /\ torn' = torn

RoundPart(c, o, r, m) ==
  /\ m = None
  /\ \A s : CompleteIn(r, s) = CompleteIn(o, s)
  /\ torn' = torn \cup {c}

RoundInside(c, m) ==
  /\ m \in MadeUp \cup {None}
  /\ c \in torn /\ torn' = torn

\* What each leaves of a stream that has whole messages only unless it is torn.
LEMMA RoundLeaves ==
  ASSUME NEW c \in Conn, NEW o \in Seq(HalfMessage), Sorted(o),
         c \notin torn => Whole(o) /\ Aligned(o),
         NEW n \in 1 .. Len(o), NEW m \in Readings(o), Round(c, o, n, m)
  PROVE  /\ RoundWhole(c, o, Rest(o, n), m) \/ RoundPart(c, o, Rest(o, n), m) \/ RoundInside(c, m)
         /\ torn \subseteq torn'
         /\ Range(Rest(o, n)) \subseteq Range(o) /\ Sorted(Rest(o, n))
         /\ \A s : CompleteIn(Rest(o, n), s) \subseteq CompleteIn(o, s)
         /\ c \notin torn' => n = 2 /\ o[2].part = 2 /\ Aligned(Rest(o, n))
<1>1. /\ Range(Rest(o, n)) \subseteq Range(o) /\ Sorted(Rest(o, n))
      /\ \A s : CompleteIn(Rest(o, n), s) \subseteq CompleteIn(o, s)
  BY RestInOrder
<1>2. 1 \in 1 .. Len(o)
  <2>1. PICK k \in Nat : k = Len(o)
    OBVIOUS
  <2> QED
    BY <2>1
<1>3. CASE n = 2 /\ BeginsWhole(o) /\ m = o[1].message /\ UNCHANGED tears
  <2>1. RoundWhole(c, o, Rest(o, n), m)
    BY <1>3, ReadWhole DEF RoundWhole, tears
  <2>2. ASSUME c \notin torn'  PROVE o[2].part = 2 /\ Aligned(Rest(o, n))
    <3>1. Aligned(o)
      BY <1>3, <2>2 DEF tears
    <3> QED
      BY <1>3, <3>1, RestAligned DEF BeginsWhole, Half
  <2> QED
    BY <1>1, <1>3, <2>1, <2>2 DEF tears
<1>4. CASE n = 1 /\ o[1].part = 1 /\ m = None /\ torn' = torn \cup {c}
  <2>1. RoundPart(c, o, Rest(o, n), m)
    BY <1>2, <1>4, RestOfPart DEF RoundPart
  <2> QED
    BY <1>1, <1>4, <2>1
<1>5. CASE BeginsInside(o) /\ (m = None \/ m \in MadeUp) /\ UNCHANGED torn
  <2>1. c \in torn
    BY <1>2, <1>5, NotInside
  <2> QED
    BY <1>1, <1>5, <2>1 DEF RoundInside
<1> QED
  BY <1>3, <1>4, <1>5 DEF Round

\* Behind a stream that keeps its order when all that is read is taken away, the
\* stream ends as before.
LEMMA RestEndsInside ==
  ASSUME NEW o \in Seq(HalfMessage), Whole(o), 2 \in 1 .. Len(o), o[2].part = 2,
         NEW m \in Message, EndsInside(o, m)
  PROVE  EndsInside(Rest(o, 2), m)
<1>1. PICK n \in Nat : n = Len(o) /\ 2 \in 1 .. n
  OBVIOUS
<1>2. o[n].part = 1 /\ o[n] = Half(m, 1)
  BY <1>1, HalfOf DEF EndsInside
<1>3. PICK r : r = Rest(o, 2)
  OBVIOUS
<1>4. r \in Seq(HalfMessage) /\ Len(r) = n - 2
  BY <1>1, <1>3, RestOfStream
<1>5. n # 2
  BY <1>2
<1>6. r # <<>>
  BY <1>1, <1>4, <1>5, EmptySeq
<1>7. r[Len(r)] = o[Len(o)]
  BY <1>3, <1>6, RestWhole
<1> QED
  BY <1>1, <1>2, <1>3, <1>6, <1>7 DEF EndsInside

\* The listener of client c makes m of its stream.
ReadsAs(c, m) ==
  /\ reader[c] = None /\ reader' = [reader EXCEPT ![c] = m]
  /\ sent' = sent
  /\ \A s \in Conn : /\ Written(s)' \subseteq Written(s)
                     /\ InHand(s)' = InHand(s) /\ Waiting(s)' = Waiting(s)
  /\ \/ /\ m \in Message /\ m.from # None /\ Partner[m.from] = c /\ torn' = torn
        /\ \A s \in Conn : s # m.from => Written(s)' = Written(s)
        /\ Written(m.from) = Written(m.from)' \cup {m}
        /\ \A x \in Written(m.from)' : m.number < x.number
     \/ /\ m \in MadeUp /\ torn' = torn
        /\ c \in torn \/ \E s \in torn : Partner[s] = c
     \/ m = None /\ torn' = torn
     \/ /\ m = None /\ torn' = torn \cup {c}
        /\ \A s \in Conn : Written(s)' = Written(s)

\* A listener that reads keeps the order.
LEMMA ReadKeeps ==
  ASSUME AllInv, NEW c \in Conn, ClientReads(c)
  PROVE  OInv' /\ \E m : ReadsAs(c, m)
<1>1. PICK n \in 1 .. Len(outbox[c]), m \in Readings(outbox[c]) :
        /\ Round(c, outbox[c], n, m)
        /\ outbox' = [outbox EXCEPT ![c] = Rest(@, n)]
        /\ reader' = [reader EXCEPT ![c] = m]
  BY DEF ClientReads
<1>2. reader[c] = None /\ UNCHANGED <<link, sent, inbox, pc, hand>>
  BY DEF ClientReads, server
<1>3. PICK o : o = outbox[c]
  OBVIOUS
<1>4. PICK r : r = Rest(o, n)
  OBVIOUS
<1>5. /\ o \in Seq(HalfMessage) /\ Whole(o) /\ Sorted(o) /\ (c \notin torn => Aligned(o))
      /\ \A h \in Range(o) : h.message.from # None => Partner[h.message.from] = c
      /\ \A h \in Range(o) : h.message.from = None => \E s \in torn : Partner[s] = c
  BY <1>3, Known DEF FrontInv
<1>6. /\ RoundWhole(c, o, r, m) \/ RoundPart(c, o, r, m) \/ RoundInside(c, m)
      /\ torn \subseteq torn' /\ Range(r) \subseteq Range(o) /\ Sorted(r)
      /\ \A s : CompleteIn(r, s) \subseteq CompleteIn(o, s)
      /\ c \notin torn' => n = 2 /\ o[2].part = 2 /\ Aligned(r)
  BY <1>1, <1>3, <1>4, <1>5, RoundLeaves
<1>7. outbox'[c] = r /\ \A d \in Conn : d # c => outbox'[d] = outbox[d]
  BY <1>1, <1>3, <1>4, Types DEF AllInv
<1>8. ASSUME NEW d \in Conn  PROVE FrontInv(d)'
  <2>1. CASE d = c
    <3>1. \A h \in Range(r) : h.message.from # None => Partner[h.message.from] = c
      BY <1>5, <1>6
    <3>2. \A h \in Range(r) : h.message.from = None => \E s \in torn' : Partner[s] = c
      BY <1>5, <1>6
    <3> QED
      BY <1>6, <1>7, <2>1, <3>1, <3>2 DEF FrontInv
  <2>2. CASE d # c
    BY <1>6, <1>7, <2>2, Known, FrontKept
  <2> QED
    BY <2>1, <2>2
<1>9. ASSUME NEW t \in Conn  PROVE BackInv(t)'
  BY <1>2, <1>6, Known, BackKept
<1>10. ASSUME NEW t \in Conn  PROVE ThreadInv(t)'
  <2>1. CASE Partner[t] # c
    BY <1>2, <1>6, <1>7, <2>1, Known, ThreadKept, Partners
  <2>2. CASE Partner[t] = c
    <3>1. ASSUME pc[t] = "rest", link[c] # "closed", c \notin torn'
          PROVE  EndsInside(r, hand[t])
      <4>1. EndsInside(o, hand[t])
        BY <1>3, <1>6, <2>2, <3>1, Known DEF ThreadInv
      <4>2. hand[t] \in Message
        BY <3>1 DEF AllInv, TypeInv, Carrying
      <4>3. r = Rest(o, 2) /\ 2 \in 1 .. Len(o) /\ o[2].part = 2
        BY <1>1, <1>3, <1>4, <1>6, <3>1
      <4> QED
        BY <1>5, <4>1, <4>2, <4>3, RestEndsInside
    <3>2. /\ pc[t] \notin {"get", "in_get"} \cup Carrying => hand[t] = None
          /\ hand[t] # None => hand[t].from = t \/ (hand[t].from = None /\ t \in torn')
      BY <1>6, Known DEF ThreadInv
    <3> QED
      BY <1>2, <1>7, <2>2, <3>1, <3>2 DEF ThreadInv
  <2> QED
    BY <2>1, <2>2
<1>11. ASSUME NEW s \in Conn
       PROVE  /\ Written(s)' \subseteq Written(s)
              /\ InHand(s)' = InHand(s) /\ Waiting(s)' = Waiting(s)
              /\ Partner[s] = c => Written(s) = CompleteIn(o, s) /\ Written(s)' = CompleteIn(r, s)
              /\ Partner[s] # c => Written(s)' = Written(s)
  BY <1>2, <1>3, <1>6, <1>7, Partners DEF Written, InHand, Waiting
<1>12. ASSUME NEW s \in Conn  PROVE Ordered(s)'
  <2>1. InOrder(s, sent[s], Written(s)', InHand(s), Waiting(s))
    BY <1>11, Known, LosingKeepsOrder DEF Ordered
  <2> QED
    BY <1>2, <1>11, <2>1 DEF Ordered
<1>13. CASE RoundWhole(c, o, r, m) /\ m.from = None
  <2>1. m \in MadeUp /\ \E s \in torn : Partner[s] = c
    BY <1>5, <1>13, FromNobody, HalfOf DEF RoundWhole
  <2> QED
    BY <1>1, <1>2, <1>8, <1>9, <1>10, <1>11, <1>12, <1>13, <2>1 DEF OInv, ReadsAs, RoundWhole
<1>14. CASE RoundWhole(c, o, r, m) /\ m.from # None
  <2>1. m \in Message /\ m.from \in Conn /\ Partner[m.from] = c
    BY <1>5, <1>14, FromNobody, HalfOf DEF RoundWhole
  <2>2. \A s \in Conn : s # m.from => Written(s)' = Written(s)
    BY <1>11, <1>14 DEF RoundWhole, FirstTaken
  <2>3. /\ Written(m.from) = Written(m.from)' \cup {m}
        /\ \A x \in Written(m.from)' : m.number < x.number
    BY <1>11, <1>14, <2>1 DEF RoundWhole, FirstTaken
  <2> QED
    BY <1>1, <1>2, <1>8, <1>9, <1>10, <1>11, <1>12, <1>14, <2>1, <2>2, <2>3
       DEF OInv, ReadsAs, RoundWhole
<1>15. CASE RoundPart(c, o, r, m)
  <2>1. \A s \in Conn : Written(s)' = Written(s)
    BY <1>11, <1>15 DEF RoundPart
  <2> QED
    BY <1>1, <1>2, <1>8, <1>9, <1>10, <1>11, <1>12, <1>15, <2>1 DEF OInv, ReadsAs, RoundPart
<1>16. CASE RoundInside(c, m)
  BY <1>1, <1>2, <1>8, <1>9, <1>10, <1>11, <1>12, <1>16 DEF OInv, ReadsAs, RoundInside
<1> QED
  BY <1>6, <1>13, <1>14, <1>15, <1>16

\* A client whose connection goes wrong, perhaps with all that is in front of
\* it, keeps the order.
LEMMA BreakKeeps ==
  ASSUME AllInv, NEW c \in Conn, UNCHANGED <<sent, inbox, pc, hand, torn>>,
         \/ outbox' = outbox /\ \A d \in Conn : link[d] = "closed" => link'[d] = "closed"
         \/ outbox' = [outbox EXCEPT ![c] = <<>>] /\ link' = [link EXCEPT ![c] = "closed"]
  PROVE  OInv' /\ \A s \in Conn : Transit(s)' \subseteq Transit(s)
<1>1. /\ \A d \in Conn : d # c => outbox'[d] = outbox[d] /\ (link[d] = "closed" => link'[d] = "closed")
      /\ \/ outbox'[c] = outbox[c] /\ (link[c] = "closed" => link'[c] = "closed")
         \/ outbox'[c] = <<>> /\ link'[c] = "closed"
  BY Types DEF AllInv
<1>2. Range(<<>>) = {} /\ DOMAIN <<>> = {}
  BY DEF Range
<1>3. \A s : CompleteIn(<<>>, s) = {}
  BY <1>2 DEF CompleteIn
<1>4. ASSUME NEW s \in Conn
      PROVE  /\ Written(s)' \subseteq Written(s)
             /\ InHand(s)' = InHand(s) /\ Waiting(s)' = Waiting(s)
  <2>1. outbox'[Partner[s]] \in {outbox[Partner[s]], <<>>}
    BY <1>1, Partners
  <2> QED
    BY <1>3, <2>1 DEF Written, InHand, Waiting
<1>5. ASSUME NEW d \in Conn  PROVE FrontInv(d)'
  <2>1. CASE outbox'[d] = outbox[d]
    BY <2>1, Known, FrontKept
  <2>2. CASE outbox'[d] = <<>>
    <3>1. Sorted(<<>>) /\ Aligned(<<>>)
      BY <1>2 DEF Sorted, Aligned
    <3> QED
      BY <1>2, <2>2, <3>1 DEF FrontInv
  <2> QED
    BY <1>1, <2>1, <2>2
<1>6. ASSUME NEW t \in Conn  PROVE BackInv(t)' /\ ThreadInv(t)'
  BY <1>1, Known, BackKept, ThreadKept, Partners
<1>7. ASSUME NEW s \in Conn  PROVE Ordered(s)' /\ Transit(s)' \subseteq Transit(s)
  <2>1. InOrder(s, sent[s], Written(s)', InHand(s), Waiting(s))
    BY <1>4, Known, LosingKeepsOrder DEF Ordered
  <2> QED
    BY <1>4, <2>1 DEF Ordered, Transit
<1> QED
  BY <1>5, <1>6, <1>7 DEF OInv

-----------------------------------------------------------------------------
(* The threads' steps. *)

\* A thread that moves on with what it has, or drops it, keeps the order.
LEMMA MoveKeeps ==
  ASSUME AllInv, NEW t \in Conn, NEW label \in PC \ {"rest"}, Goto(t, label),
         UNCHANGED <<link, sent, outbox, inbox, torn>>,
         \/ hand' = [hand EXCEPT ![t] = None]
         \/ hand' = hand /\ (label \in {"get", "in_get"} \cup Carrying \/ hand[t] = None)
  PROVE  /\ OInv'
         /\ \A s \in Conn : Transit(s)' \subseteq Transit(s)
<1>1. /\ pc'[t] = label /\ hand'[t] \in {hand[t], None}
      /\ label \notin {"get", "in_get"} \cup Carrying => hand'[t] = None
      /\ \A u \in Conn : u # t => pc'[u] = pc[u] /\ hand'[u] = hand[u]
  BY Types DEF Goto, AllInv
<1>2. ASSUME NEW s \in Conn
      PROVE  Written(s)' = Written(s) /\ Waiting(s)' = Waiting(s) /\ InHand(s)' \subseteq InHand(s)
  BY <1>1 DEF Written, Waiting, InHand
<1>3. ASSUME NEW d \in Conn  PROVE FrontInv(d)' /\ BackInv(d)'
  BY Known, FrontKept, BackKept
<1>4. ASSUME NEW u \in Conn  PROVE ThreadInv(u)'
  <2>1. CASE u = t
    BY <1>1, <2>1, Known DEF ThreadInv
  <2>2. CASE u # t
    BY <1>1, <2>2, Known, ThreadKept
  <2> QED
    BY <2>1, <2>2
<1>5. ASSUME NEW s \in Conn  PROVE Ordered(s)' /\ Transit(s)' \subseteq Transit(s)
  <2>1. InOrder(s, sent[s], Written(s), InHand(s)', Waiting(s))
    BY <1>2, Known, LosingKeepsOrder DEF Ordered
  <2> QED
    BY <1>2, <2>1 DEF Ordered, Transit
<1> QED
  BY <1>3, <1>4, <1>5 DEF OInv

\* A thread that takes something out of its buffer, to handle or to forget it,
\* keeps the order.
LEMMA ReceiveKeeps ==
  ASSUME AllInv, NEW t \in Conn, Receive(t)
  PROVE  /\ OInv'
         /\ UNCHANGED <<sent, reader>>
         /\ \/ torn' = torn /\ \A s \in Conn : Transit(s)' \subseteq Transit(s)
            \/ torn' = torn \cup {t} /\ \A s \in Conn : Transit(s)' = Transit(s)
<1>1. PICK n \in 1 .. Len(inbox[t]), m \in Readings(inbox[t]) :
        /\ Round(t, inbox[t], n, m)
        /\ inbox' = [inbox EXCEPT ![t] = Rest(@, n)]
        /\ \/ /\ m # None /\ (Goto(t, "lock") \/ Goto(t, "get"))
              /\ hand' = [hand EXCEPT ![t] = m]
           \/ UNCHANGED <<pc, hand>>
  <2>1. PICK n \in 1 .. Len(inbox[t]) : \E m \in Readings(inbox[t]) :
        /\ Round(t, inbox[t], n, m)
        /\ inbox' = [inbox EXCEPT ![t] = Rest(@, n)]
        /\ \/ /\ m # None /\ (Goto(t, "lock") \/ Goto(t, "get"))
              /\ hand' = [hand EXCEPT ![t] = m]
           \/ UNCHANGED <<pc, hand>>
    BY DEF Receive
  <2> QED
    BY <2>1
<1>2. pc[t] = "recv" /\ UNCHANGED <<link, sent, reader, outbox>>
  BY DEF Receive, client
<1>3. PICK q : q = inbox[t]
  OBVIOUS
<1>4. PICK r : r = Rest(q, n)
  OBVIOUS
<1>5. /\ q \in Seq(HalfMessage) /\ Sorted(q) /\ (t \notin torn => Paired(q))
      /\ \A h \in Range(q) : h.message.from = t
  BY <1>3, Known DEF BackInv
<1>6. /\ RoundWhole(t, q, r, m) \/ RoundPart(t, q, r, m) \/ RoundInside(t, m)
      /\ torn \subseteq torn' /\ Range(r) \subseteq Range(q) /\ Sorted(r)
      /\ \A s : CompleteIn(r, s) \subseteq CompleteIn(q, s)
      /\ t \notin torn' => n = 2 /\ q[2].part = 2 /\ Aligned(r)
  <2>1. t \notin torn => Whole(q) /\ Aligned(q)
    BY <1>5 DEF Paired
  <2> QED
    BY <1>1, <1>3, <1>4, <1>5, <2>1, RoundLeaves
<1>7. /\ inbox'[t] = r
      /\ \A u \in Conn : u # t => inbox'[u] = inbox[u] /\ pc'[u] = pc[u] /\ hand'[u] = hand[u]
  BY <1>1, <1>3, <1>4, Types DEF AllInv, Goto
<1>8. hand[t] = None /\ InHand(t) = {}
  BY <1>2, Known DEF ThreadInv, Carrying, InHand
<1>9. \/ pc'[t] \in {"lock", "get"} /\ hand'[t] = m
      \/ pc'[t] = pc[t] /\ hand'[t] = None
  <2>1. pc \in [Conn -> PC] /\ hand \in [Conn -> Message \cup {None}]
    BY Types DEF AllInv
  <2>2. CASE m # None /\ (Goto(t, "lock") \/ Goto(t, "get")) /\ hand' = [hand EXCEPT ![t] = m]
    BY <2>1, <2>2 DEF Goto
  <2>3. CASE UNCHANGED <<pc, hand>>
    BY <1>8, <2>3
  <2> QED
    BY <1>1, <2>2, <2>3
<1>10. m = None \/ (m \in Message /\ m.from = t) \/ (m.from = None /\ t \in torn')
  <2>1. CASE RoundWhole(t, q, r, m)
    BY <1>5, <2>1, HalfOf DEF RoundWhole
  <2>2. CASE RoundPart(t, q, r, m) \/ RoundInside(t, m)
    BY <1>6, <2>2 DEF RoundPart, RoundInside, MadeUp
  <2> QED
    BY <1>6, <2>1, <2>2
<1>11. ASSUME NEW d \in Conn  PROVE FrontInv(d)'
  BY <1>2, <1>6, Known, FrontKept
<1>12. ASSUME NEW u \in Conn  PROVE BackInv(u)'
  <2>1. CASE u # t
    BY <1>6, <1>7, <2>1, Known, BackKept
  <2>2. CASE u = t
    <3>1. ASSUME t \notin torn'  PROVE Paired(r)
      <4>1. Paired(q)
        BY <1>5, <1>6, <3>1
      <4>2. Whole(r) /\ (r # <<>> => q # <<>> /\ r[Len(r)] = q[Len(q)])
        BY <1>1, <1>3, <1>4, <1>5, <4>1, RestWhole DEF Paired
      <4> QED
        BY <1>6, <3>1, <4>1, <4>2 DEF Paired
    <3> QED
      BY <1>5, <1>6, <1>7, <2>2, <3>1 DEF BackInv
  <2> QED
    BY <2>1, <2>2
<1>13. ASSUME NEW u \in Conn  PROVE ThreadInv(u)'
  <2>1. CASE u # t
    BY <1>2, <1>6, <1>7, <2>1, Known, ThreadKept
  <2>2. CASE u = t
    <3>1. pc'[t] # "rest"
      BY <1>2, <1>9
    <3>2. pc'[t] \notin {"get", "in_get"} \cup Carrying => hand'[t] = None
      BY <1>9 DEF Carrying
    <3>3. hand'[t] # None => hand'[t].from = t \/ (hand'[t].from = None /\ t \in torn')
      BY <1>9, <1>10
    <3> QED
      BY <2>2, <3>1, <3>2, <3>3 DEF ThreadInv
  <2> QED
    BY <2>1, <2>2
<1>14. /\ \A s \in Conn : Written(s)' = Written(s)
       /\ \A s \in Conn : s # t => InHand(s)' = InHand(s) /\ Waiting(s)' = Waiting(s)
       /\ Waiting(t) = CompleteIn(q, t) /\ Waiting(t)' = CompleteIn(r, t)
  BY <1>2, <1>3, <1>7 DEF Written, InHand, Waiting
<1>15. InHand(t)' = {} \/ (hand'[t] = m /\ InHand(t)' = {m} /\ m \notin MadeUp \cup {None})
  BY <1>9 DEF InHand
<1>16. CASE InHand(t)' = {}
  <2>1. ASSUME NEW s \in Conn  PROVE Ordered(s)' /\ Transit(s)' \subseteq Transit(s)
    <3>1. InHand(s)' \subseteq InHand(s) /\ Waiting(s)' \subseteq Waiting(s)
      BY <1>6, <1>14, <1>16
    <3>2. InOrder(s, sent[s], Written(s), InHand(s)', Waiting(s)')
      BY <3>1, Known, LosingKeepsOrder DEF Ordered
    <3> QED
      BY <1>2, <1>14, <3>1, <3>2 DEF Ordered, Transit
  <2>2. CASE RoundPart(t, q, r, m)
    <3>1. \A s \in Conn : Transit(s)' = Transit(s)
      BY <1>8, <1>14, <1>16, <2>2 DEF RoundPart, Transit
    <3> QED
      BY <1>2, <1>11, <1>12, <1>13, <2>1, <2>2, <3>1 DEF OInv, RoundPart
  <2>3. CASE torn' = torn
    BY <1>2, <1>11, <1>12, <1>13, <2>1, <2>3 DEF OInv
  <2> QED
    BY <1>6, <2>2, <2>3 DEF RoundWhole, RoundInside
<1>17. CASE InHand(t)' = {m} /\ m \notin MadeUp \cup {None}
  <2>1. RoundWhole(t, q, r, m)
    BY <1>6, <1>17 DEF RoundPart, RoundInside
  <2>2. m \in Message /\ m.from = t /\ t # None
    BY <1>17, <2>1, <1>10, FromNobody, ConnAssumption DEF RoundWhole
  <2>3. Waiting(t) = Waiting(t)' \cup {m} /\ \A x \in Waiting(t)' : m.number < x.number
    BY <1>14, <2>1, <2>2 DEF RoundWhole, FirstTaken
  <2>4. Ordered(t)'
    <3>1. InOrder(t, sent[t], Written(t), {}, Waiting(t)' \cup {m})
      BY <1>8, <2>3, Known DEF Ordered
    <3>2. Before({m}, Waiting(t)')
      BY <2>3 DEF Before
    <3>3. InOrder(t, sent[t], Written(t), {m}, Waiting(t)')
      BY <3>1, <3>2, ReceiveKeepsOrder
    <3> QED
      BY <1>2, <1>14, <1>17, <3>3 DEF Ordered
  <2>5. ASSUME NEW s \in Conn, s # t  PROVE Ordered(s)' /\ Transit(s)' = Transit(s)
    BY <1>2, <1>14, <2>5, Known DEF Ordered, Transit
  <2>6. Transit(t)' = Transit(t)
    BY <1>8, <1>14, <1>17, <2>3 DEF Transit
  <2>7. torn' = torn
    BY <2>1 DEF RoundWhole
  <2>8. \A s \in Conn : Ordered(s)' /\ Transit(s)' = Transit(s)
    BY <2>4, <2>5, <2>6
  <2> QED
    BY <1>2, <1>11, <1>12, <1>13, <2>7, <2>8 DEF OInv
<1> QED
  BY <1>15, <1>16, <1>17

\* A thread that writes a half of its message keeps the order; with the second
\* half, the message goes from its hands to the partner's buffer.
LEMMA WriteKeeps ==
  ASSUME AllInv, NEW t \in Conn, NEW part \in {1, 2}, Writable(Partner[t]),
         pc[t] = IF part = 1 THEN "send" ELSE "rest",
         outbox' = [outbox EXCEPT ![Partner[t]] = Append(@, Half(hand[t], part))],
         part = 1 => Goto(t, "rest") /\ hand' = hand,
         part = 2 => Goto(t, "recv") /\ hand' = [hand EXCEPT ![t] = None],
         UNCHANGED <<link, sent, inbox, torn>>
  PROVE  /\ OInv'
         /\ \A s \in Conn : Transit(s)' = Transit(s)
<1>1. PICK p \in Conn : p = Partner[t]
  BY Partners
<1>2. PICK o, r : o = outbox[p] /\ r = Append(o, Half(hand[t], part))
  OBVIOUS
<1>3. PICK m \in Message : m = hand[t]
  BY DEF AllInv, TypeInv, Carrying
<1>4. /\ Half(m, part) \in HalfMessage /\ Half(m, part).message = m /\ Half(m, part).part = part
  BY HalfOf
<1>5. m # None /\ (m.from = t \/ (m.from = None /\ t \in torn))
  BY <1>3, FromNobody, Known DEF ThreadInv
<1>6. /\ o \in Seq(HalfMessage) /\ Sorted(o) /\ (p \notin torn => Aligned(o))
      /\ \A h \in Range(o) : h.message.from # None => Partner[h.message.from] = p
      /\ \A h \in Range(o) : h.message.from = None => \E s \in torn : Partner[s] = p
  BY <1>2, Known DEF FrontInv
<1>7. outbox'[p] = r /\ \A d \in Conn : d # p => outbox'[d] = outbox[d]
  BY <1>1, <1>2, Types DEF AllInv
<1>8. /\ pc'[t] = (IF part = 1 THEN "rest" ELSE "recv")
      /\ hand'[t] = (IF part = 1 THEN m ELSE None)
      /\ \A u \in Conn : u # t => pc'[u] = pc[u] /\ hand'[u] = hand[u]
  BY <1>3, Types DEF AllInv, Goto
<1>9. ASSUME NEW u \in Conn, u # t  PROVE pc[u] # "rest"
  <2>1. pc[t] \in SendSection
    BY DEF SendSection
  <2>2. sendMutex = t
    BY <2>1 DEF AllInv, IInv, Holds
  <2>3. pc[u] \notin SendSection
    BY <1>9, <2>2 DEF AllInv, IInv, Holds
  <2> QED
    BY <2>3 DEF SendSection
<1>10. InHand(t) = IF m.from = None THEN {} ELSE {m}
  BY <1>3, <1>5, FromNobody DEF InHand
<1>11. Sorted(r)
  <2>1. ASSUME m.from # None  PROVE \A x \in CompleteIn(o, m.from) : x.number < m.number
    <3>1. m.from = t /\ InHand(t) = {m}
      BY <1>5, <1>10, <2>1
    <3>2. CompleteIn(o, t) = Written(t)
      BY <1>1, <1>2 DEF Written
    <3> QED
      BY <3>1, <3>2, Known DEF Ordered, InOrder, Before
  <2> QED
    BY <1>2, <1>3, <1>6, <2>1, AppendSorted
<1>12. ASSUME p \notin torn  PROVE Aligned(r)
  <2>1. ASSUME part = 2  PROVE o # <<>> /\ o[Len(o)].part = 1
    <3>1. EndsInside(o, m)
      BY <1>1, <1>2, <1>3, <1>12, <2>1, Known DEF ThreadInv, Writable
    <3> QED
      BY <3>1, HalfOf DEF EndsInside
  <2> QED
    BY <1>2, <1>3, <1>6, <1>12, <2>1, AppendAligned
<1>13. Range(r) = Range(o) \cup {Half(m, part)}
  BY <1>2, <1>3, <1>4, <1>6, AppendRange
<1>14. ASSUME NEW d \in Conn  PROVE FrontInv(d)'
  <2>1. CASE d = p
    <3>1. \A h \in Range(r) : h.message.from # None => Partner[h.message.from] = p
      BY <1>1, <1>4, <1>5, <1>6, <1>13
    <3>2. \A h \in Range(r) : h.message.from = None => \E s \in torn : Partner[s] = p
      BY <1>1, <1>4, <1>5, <1>6, <1>13, ConnAssumption
    <3> QED
      BY <1>7, <1>11, <1>12, <2>1, <3>1, <3>2 DEF FrontInv
  <2>2. CASE d # p
    BY <1>7, <2>2, Known, FrontKept
  <2> QED
    BY <2>1, <2>2
<1>15. ASSUME NEW u \in Conn  PROVE BackInv(u)'
  BY Known, BackKept
<1>16. ASSUME NEW u \in Conn  PROVE ThreadInv(u)'
  <2>1. CASE u # t
    BY <1>8, <1>9, <2>1, Known DEF ThreadInv
  <2>2. CASE u = t /\ part = 2
    BY <1>8, <2>2, Known DEF ThreadInv
  <2>3. CASE u = t /\ part = 1
    <3>1. EndsInside(r, m)
      <4>1. r # <<>> /\ Len(r) = Len(o) + 1 /\ r[Len(o) + 1] = Half(m, part)
        BY <1>2, <1>3, <1>4, <1>6, AppendProperties
      <4> QED
        BY <2>3, <4>1 DEF EndsInside
    <3>2. "rest" \in Carrying
      BY DEF Carrying
    <3> QED
      BY <1>1, <1>5, <1>7, <1>8, <2>3, <3>1, <3>2 DEF ThreadInv
  <2> QED
    BY <2>1, <2>2, <2>3
<1>17. ASSUME NEW s \in Conn
       PROVE  Written(s)' = IF part = 2 /\ m.from = s THEN Written(s) \cup {m} ELSE Written(s)
  <2>1. CASE Partner[s] # p
    <3>1. s # t /\ outbox'[Partner[s]] = outbox[Partner[s]] /\ m.from # s
      BY <1>1, <1>5, <1>7, <2>1, Partners, ConnAssumption
    <3> QED
      BY <3>1 DEF Written
  <2>2. CASE Partner[s] = p
    <3>1. Written(s) = CompleteIn(o, s) /\ Written(s)' = CompleteIn(r, s)
      BY <1>2, <1>7, <2>2 DEF Written
    <3>2. r = Append(o, Half(m, part))
      BY <1>2, <1>3
    <3>3. CompleteIn(Append(o, Half(m, part)), s)
            = IF part = 2 /\ m.from = s THEN CompleteIn(o, s) \cup {m} ELSE CompleteIn(o, s)
      BY <1>6, CompleteAppend
    <3> QED
      BY <3>1, <3>2, <3>3
  <2> QED
    BY <2>1, <2>2
<1>18. /\ \A s \in Conn : Waiting(s)' = Waiting(s)
       /\ \A s \in Conn : s # t => InHand(s)' = InHand(s)
       /\ InHand(t)' = IF part = 1 THEN InHand(t) ELSE {}
  BY <1>3, <1>8 DEF Waiting, InHand
<1>19. ASSUME NEW s \in Conn  PROVE Ordered(s)' /\ Transit(s)' = Transit(s)
  <2>1. CASE s # t \/ part = 1
    <3>1. ~(part = 2 /\ m.from = s)
      BY <1>5, <2>1, ConnAssumption
    <3>2. Written(s)' = Written(s)
      BY <1>17, <3>1
    <3>3. InHand(s)' = InHand(s)
      BY <1>18, <2>1
    <3> QED
      BY <1>18, <3>2, <3>3, Known DEF Ordered, Transit
  <2>2. CASE s = t /\ part = 2
    <3>1. Written(t)' = Written(t) \cup InHand(t)
      <4>1. CASE m.from = t
        BY <1>10, <1>17, <2>2, <4>1, ConnAssumption
      <4>2. CASE m.from = None
        BY <1>10, <1>17, <2>2, <4>2, ConnAssumption
      <4> QED
        BY <1>5, <4>1, <4>2
    <3>2. InHand(t)' = {}
      BY <1>18, <2>2
    <3>3. InOrder(t, sent[t], Written(t) \cup InHand(t), {}, Waiting(t))
      BY Known, WriteKeepsOrder DEF Ordered
    <3>4. Ordered(t)'
      BY <1>18, <3>1, <3>2, <3>3 DEF Ordered
    <3> QED
      BY <1>18, <2>2, <3>1, <3>2, <3>4 DEF Transit
  <2> QED
    BY <2>1, <2>2
<1> QED
  BY <1>14, <1>15, <1>16, <1>19 DEF OInv

-----------------------------------------------------------------------------
(* Every step of the clients and threads is a step of the relay, or none. *)

\* A step that changes nothing of what the relay sees is none of its.
LEMMA Unseen ==
  ASSUME UNCHANGED <<sent, reader, torn>>, \A s \in Conn : Transit(s)' = Transit(s)
  PROVE  UNCHANGED Relay!vars
<1>1. [s \in Conn |-> Transit(s)]' = [s \in Conn |-> Transit(s)]
  OBVIOUS
<1> QED
  BY <1>1 DEF Relay!vars, Transit

\* A step that takes some messages, and perhaps brings none.
LEMMA Loses ==
  ASSUME \A s \in Conn : Transit(s)' \subseteq Transit(s)
  PROVE  Relay!Losing
<1>1. [s \in Conn |-> Transit(s)]' = [s \in Conn |-> Transit(s) \cap Transit(s)']
  OBVIOUS
<1> QED
  BY <1>1 DEF Relay!Losing, Transit

\* A loss, of which listeners may be a part.
LEMMA Lost ==
  ASSUME AllInv, UNCHANGED <<sent, torn>>, \A s \in Conn : Transit(s)' \subseteq Transit(s),
         reader' = reader \/ \E c \in Conn : reader' = [reader EXCEPT ![c] = None]
  PROVE  Relay!Lose
<1>1. reader \in [Conn -> Message \cup {None}]
  BY Types DEF AllInv
<1>2. reader' = [c \in Conn |-> IF reader'[c] = reader[c] THEN reader[c] ELSE None]
  BY <1>1
<1> QED
  BY <1>2, Loses DEF Relay!Lose

\* A part of a message is lost, which the relay only sees as a tear.
LEMMA Tears ==
  ASSUME NEW c \in Conn, UNCHANGED <<sent, reader>>, torn' = torn \cup {c},
         \A s \in Conn : Transit(s)' = Transit(s)
  PROVE  Relay!Next
<1>1. [s \in Conn |-> Transit(s)]' = [s \in Conn |-> Transit(s)]
  OBVIOUS
<1>2. Relay!Tear(c)
  BY <1>1 DEF Relay!Tear, Transit
<1> QED
  BY <1>2 DEF Relay!Next

\* A client's message goes to its thread, in part, or nowhere.
LEMMA SubmitsToRelay ==
  ASSUME NEW c \in Conn, NEW kind \in Kind,
         Submitted(c, [kind |-> kind, from |-> c, number |-> sent[c]])
  PROVE  Relay!Submit(c, kind) \/ UNCHANGED <<sent, torn, [s \in Conn |-> Transit(s)]>>
<1>1. PICK m : m = [kind |-> kind, from |-> c, number |-> sent[c]]
  OBVIOUS
<1> DEFINE transit == [s \in Conn |-> Transit(s)]
<1>2. transit = [s \in Conn |-> Written(s) \cup InHand(s) \cup Waiting(s)]
  BY DEF Transit
<1>3. CASE UNCHANGED <<sent, torn>> /\ \A s \in Conn : Transit(s)' = Transit(s)
  <2>1. transit' = transit
    BY <1>3
  <2> QED
    BY <1>3, <2>1
<1>4. CASE /\ sent' = [sent EXCEPT ![c] = @ + 1]
           /\ UNCHANGED torn
           /\ Transit(c)' = Transit(c) \cup {m}
           /\ \A s \in Conn : s # c => Transit(s)' = Transit(s)
  <2>1. transit' = [transit EXCEPT ![c] = @ \cup {m}]
    BY <1>4
  <2> QED
    BY <1>1, <1>2, <1>4, <2>1 DEF Relay!Submit, Transit
<1>5. CASE /\ sent' = [sent EXCEPT ![c] = @ + 1]
           /\ torn' = torn \cup {c}
           /\ \A s \in Conn : Transit(s)' = Transit(s)
  <2>1. transit' = transit
    BY <1>5
  <2> QED
    BY <1>2, <1>5, <2>1 DEF Relay!Submit, Transit
<1> QED
  BY <1>1, <1>3, <1>4, <1>5 DEF Submitted

\* A listener reads what the relay delivers, or what is left over of something.
LEMMA ReadRefines ==
  ASSUME AllInv, NEW c \in Conn, NEW m, ReadsAs(c, m)
  PROVE  Relay!Next
<1>1. /\ reader[c] = None /\ reader' = [reader EXCEPT ![c] = m] /\ sent' = sent
      /\ \A s \in Conn : /\ Written(s)' \subseteq Written(s)
                         /\ InHand(s)' = InHand(s) /\ Waiting(s)' = Waiting(s)
  BY DEF ReadsAs
<1>2. \A s \in Conn : Transit(s)' \subseteq Transit(s)
  BY <1>1 DEF Transit
<1>3. CASE /\ m \in Message /\ m.from # None /\ Partner[m.from] = c /\ torn' = torn
           /\ \A s \in Conn : s # m.from => Written(s)' = Written(s)
           /\ Written(m.from) = Written(m.from)' \cup {m}
           /\ \A x \in Written(m.from)' : m.number < x.number
  <2> DEFINE transit == [s \in Conn |-> Transit(s)]
  <2>1. PICK from \in Conn : from = m.from
    BY <1>3, FromNobody
  <2>2. m \in Written(from) /\ m \in Transit(from)
    BY <1>3, <2>1 DEF Transit
  <2>3. InOrder(from, sent[from], Written(from), InHand(from), Waiting(from))
    BY Known DEF Ordered
  <2>4. \A x \in InHand(from) \cup Waiting(from) : m.number < x.number
    BY <2>2, <2>3 DEF InOrder, Before
  <2>5. \A x \in Transit(from) : x.number \in Nat
    BY <2>3, OrderNumbers DEF Transit
  <2>6. \A x \in Transit(from) : x = m \/ m.number < x.number
    BY <1>3, <2>1, <2>4 DEF Transit
  <2>7. \A x \in Transit(from) : m.number <= x.number
    BY <2>2, <2>5, <2>6
  <2>8. m \notin Written(from)' \cup InHand(from) \cup Waiting(from)
    BY <1>3, <2>1, <2>2, <2>4, <2>5
  <2>9. Transit(from)' = Transit(from) \ {m}
    BY <1>1, <1>3, <2>1, <2>8 DEF Transit
  <2>10. \A s \in Conn : s # from => Transit(s)' = Transit(s)
    BY <1>1, <1>3, <2>1 DEF Transit
  <2>11. transit' = [transit EXCEPT ![from] = @ \ {m}]
    BY <2>9, <2>10
  <2>12. transit = [s \in Conn |-> Written(s) \cup InHand(s) \cup Waiting(s)] /\ transit[from] = Transit(from)
    BY DEF Transit
  <2>13. Relay!Deliver(from)
    BY <1>1, <1>3, <2>1, <2>2, <2>7, <2>11, <2>12 DEF Relay!Deliver, Transit
  <2> QED
    BY <2>13 DEF Relay!Next
<1>4. CASE /\ m \in MadeUp /\ torn' = torn
           /\ c \in torn \/ \E s \in torn : Partner[s] = c
  <2>1. Relay!Misread(c)
    BY <1>1, <1>2, <1>4, Loses DEF Relay!Misread
  <2> QED
    BY <2>1 DEF Relay!Next
<1>5. CASE m = None /\ torn' = torn
  <2>1. Relay!Lose
    BY <1>1, <1>2, <1>5, Lost
  <2> QED
    BY <2>1 DEF Relay!Next
<1>6. CASE /\ m = None /\ torn' = torn \cup {c}
           /\ \A s \in Conn : Written(s)' = Written(s)
  <2>1. reader' = reader
    BY <1>1, <1>6, Types DEF AllInv
  <2>2. \A s \in Conn : Transit(s)' = Transit(s)
    BY <1>1, <1>6 DEF Transit
  <2> QED
    BY <1>1, <1>6, <2>1, <2>2, Tears
<1> QED
  BY <1>3, <1>4, <1>5, <1>6 DEF ReadsAs

\* What clients, hosts and the network do.
LEMMA ClientRefines ==
  ASSUME AllInv, NEW c \in Conn, ClientSends(c) \/ Client(c) \/ Fault(c) \/ GiveUp(c)
  PROVE  OInv' /\ (Relay!Next \/ UNCHANGED Relay!vars)
<1>1. reader \in [Conn -> Message \cup {None}] /\ link \in [Conn -> LinkState]
  BY Types DEF AllInv
<1>2. CASE ClientSends(c)
  <2>1. PICK kind \in Kinds[c] : Submit(c, kind)
    BY <1>2 DEF ClientSends
  <2>2. kind \in Kind
    BY DEF Kinds, Kind
  <2>3. UNCHANGED <<link, outbox, reader, pc, hand>>
    BY <1>2 DEF ClientSends, server
  <2>4. OInv' /\ Submitted(c, [kind |-> kind, from |-> c, number |-> sent[c]])
    BY <2>1, <2>2, <2>3, SubmitKeeps
  <2>5. CASE Relay!Submit(c, kind)
    BY <2>3, <2>4, <2>5 DEF Relay!Next, Relay!Send
  <2>6. CASE UNCHANGED <<sent, torn, [s \in Conn |-> Transit(s)]>>
    BY <2>3, <2>4, <2>6 DEF Relay!vars, Transit
  <2> QED
    BY <2>2, <2>4, <2>5, <2>6, SubmitsToRelay
<1>3. CASE ClientReads(c)
  <2>1. OInv' /\ \E m : ReadsAs(c, m)
    BY <1>3, ReadKeeps
  <2> QED
    BY <2>1, ReadRefines
<1>4. CASE ClientHandles(c)
  <2>1. /\ reader[c] # None /\ reader' = [reader EXCEPT ![c] = None]
        /\ UNCHANGED <<link, outbox, pc, hand>>
    BY <1>4 DEF ClientHandles, server
  <2>2. CASE reader[c].kind = "PING" /\ Submit(c, "PONG")
    <3>1. PICK kind \in Kind : kind = "PONG"
      BY DEF Kind
    <3>2. OInv' /\ Submitted(c, [kind |-> kind, from |-> c, number |-> sent[c]])
      BY <2>1, <2>2, <3>1, SubmitKeeps
    <3>3. CASE Relay!Submit(c, kind)
      BY <2>1, <2>2, <3>1, <3>2, <3>3 DEF Relay!Handle, Relay!Next
    <3>4. CASE UNCHANGED <<sent, torn, [s \in Conn |-> Transit(s)]>>
      BY <2>1, <3>2, <3>4 DEF Relay!Handle, Relay!Next, Transit
    <3> QED
      BY <3>2, <3>3, <3>4, SubmitsToRelay
  <2>3. CASE UNCHANGED <<sent, inbox, tears>>
    <3>1. /\ \A d \in Conn : FrontInv(d)' /\ BackInv(d)' /\ ThreadInv(d)' /\ Ordered(d)'
          /\ torn' = torn
      BY <2>1, <2>3, Known, FrontKept, BackKept, ThreadKept, OrderKept DEF tears
    <3>2. \A s \in Conn : Transit(s)' = Transit(s)
      BY <2>1, <2>3 DEF Transit, Written, InHand, Waiting
    <3>3. UNCHANGED [s \in Conn |-> Transit(s)]
      BY <3>2
    <3>4. Relay!Handle(c)
      BY <2>1, <2>3, <3>1, <3>3 DEF Relay!Handle, Transit
    <3> QED
      BY <3>1, <3>4 DEF OInv, Relay!Next
  <2> QED
    BY <1>4, <2>2, <2>3 DEF ClientHandles
<1>5. CASE ClientLeaves(c) \/ HostCrashes(c)
  <2>1. /\ \/ link' = [link EXCEPT ![c] = "left"] /\ reader' = reader
           \/ link' = [link EXCEPT ![c] = "silent"] /\ reader' = [reader EXCEPT ![c] = None]
        /\ link[c] = "up"
        /\ UNCHANGED <<sent, inbox, outbox, pc, hand, torn>>
    BY <1>5 DEF ClientLeaves, HostCrashes, server, tears
  <2>2. \A d \in Conn : link[d] = "closed" => link'[d] = "closed"
    BY <1>1, <2>1
  <2>3. OInv' /\ \A s \in Conn : Transit(s)' \subseteq Transit(s)
    BY <2>1, <2>2, BreakKeeps
  <2>4. Relay!Lose
    BY <2>1, <2>3, Lost
  <2> QED
    BY <2>3, <2>4 DEF Relay!Next
<1>6. CASE Closed(c)
  <2>1. /\ link' = [link EXCEPT ![c] = "closed"]
        /\ reader' = [reader EXCEPT ![c] = None] /\ outbox' = [outbox EXCEPT ![c] = <<>>]
        /\ UNCHANGED <<sent, inbox, pc, hand, torn>>
    BY <1>6 DEF Closed, server, tears
  <2>2. OInv' /\ \A s \in Conn : Transit(s)' \subseteq Transit(s)
    BY <2>1, BreakKeeps
  <2>3. Relay!Lose
    BY <2>1, <2>2, Lost
  <2> QED
    BY <2>2, <2>3 DEF Relay!Next
<1> QED
  BY <1>2, <1>3, <1>4, <1>5, <1>6 DEF Client, Fault, ClientEnds, GiveUp

\* A thread that moves on, or drops what it has, as the relay sees it.
LEMMA MoveRefines ==
  ASSUME AllInv, NEW t \in Conn, NEW label \in PC \ {"rest"}, Goto(t, label),
         UNCHANGED <<link, sent, reader, outbox, inbox, torn>>,
         \/ hand' = [hand EXCEPT ![t] = None]
         \/ hand' = hand /\ (label \in {"get", "in_get"} \cup Carrying \/ hand[t] = None)
  PROVE  OInv' /\ (Relay!Next \/ UNCHANGED Relay!vars)
<1>1. OInv' /\ \A s \in Conn : Transit(s)' \subseteq Transit(s)
  BY MoveKeeps
<1>2. Relay!Lose
  BY <1>1, Lost
<1> QED
  BY <1>1, <1>2 DEF Relay!Next

\* What the threads do.
LEMMA ThreadRefines ==
  ASSUME AllInv, NEW t \in Conn, Thread(t)
  PROVE  OInv' /\ (Relay!Next \/ UNCHANGED Relay!vars)
<1>0. /\ hand \in [Conn -> Message \cup {None}] /\ pc \in [Conn -> PC] /\ ThreadInv(t)
  BY Types, Known DEF AllInv
<1>1. CASE Receive(t)
  <2>1. /\ OInv' /\ UNCHANGED <<sent, reader>>
        /\ \/ torn' = torn /\ \A s \in Conn : Transit(s)' \subseteq Transit(s)
           \/ torn' = torn \cup {t} /\ \A s \in Conn : Transit(s)' = Transit(s)
    BY <1>1, ReceiveKeeps
  <2>2. CASE torn' = torn /\ \A s \in Conn : Transit(s)' \subseteq Transit(s)
    BY <2>1, <2>2, Lost DEF Relay!Next
  <2>3. CASE torn' = torn \cup {t} /\ \A s \in Conn : Transit(s)' = Transit(s)
    BY <2>1, <2>3, Tears
  <2> QED
    BY <2>1, <2>2, <2>3
<1>2. CASE TakeAssetsMutex(t)
  <2>1. /\ Goto(t, AssetsSection[pc[t]]) /\ pc[t] \in {"get", "put", "epipe", "bye"}
        /\ UNCHANGED <<link, sent, reader, outbox, inbox, hand, torn>>
    BY <1>2 DEF TakeAssetsMutex, AssetsSection, client, tears
  <2>2. AssetsSection[pc[t]] \in {"in_get", "in_put", "in_epipe", "in_bye"}
        /\ (AssetsSection[pc[t]] = "in_bye" => pc[t] = "bye")
    BY <2>1 DEF AssetsSection
  <2>3. AssetsSection[pc[t]] \in {"get", "in_get"} \cup Carrying \/ hand[t] = None
    BY <1>0, <2>1, <2>2 DEF ThreadInv, Carrying
  <2>4. AssetsSection[pc[t]] \in PC \ {"rest"}
    BY <2>2 DEF PC
  <2> QED
    BY <2>1, <2>3, <2>4, MoveRefines
<1>3. CASE LeaveGet(t)
  <2>1. UNCHANGED <<link, sent, reader, outbox, inbox, torn>>
    BY <1>3 DEF LeaveGet, client, tears
  <2>2. CASE Goto(t, "recv") /\ Done(t)
    BY <2>1, <2>2, MoveRefines DEF Done, PC
  <2>3. CASE /\ Goto(t, IF hand[t].kind = "COMMAND" THEN "put" ELSE "lock")
             /\ UNCHANGED hand
    <3>1. PICK label \in {"put", "lock"} : Goto(t, label)
      BY <2>3
    <3>2. label \in PC \ {"rest"} /\ label \in Carrying
      BY DEF PC, Carrying
    <3> QED
      BY <2>1, <2>3, <3>1, <3>2, MoveRefines
  <2> QED
    BY <1>3, <2>2, <2>3 DEF LeaveGet
<1>4. CASE LeavePut(t)
  <2>1. UNCHANGED <<link, sent, reader, outbox, inbox, torn>>
    BY <1>4 DEF LeavePut, client, tears
  <2>2. CASE Goto(t, "recv") /\ Done(t)
    BY <2>1, <2>2, MoveRefines DEF Done, PC
  <2>3. CASE Goto(t, "lock") /\ UNCHANGED hand
    BY <2>1, <2>3, MoveRefines DEF PC, Carrying
  <2> QED
    BY <1>4, <2>2, <2>3 DEF LeavePut
<1>5. CASE LeaveEpipe(t) \/ SendFails(t) \/ SendCutShort(t)
  <2>1. UNCHANGED <<link, sent, reader, outbox, inbox, torn>>
    BY <1>5 DEF LeaveEpipe, SendFails, SendCutShort, client, tears
  <2>2. PICK label \in {"recv", "get"} : Goto(t, label) /\ Done(t)
    BY <1>5 DEF LeaveEpipe, SendFails, SendCutShort, ReturnFalse
  <2>3. label \in PC \ {"rest"}
    BY DEF PC
  <2> QED
    BY <2>1, <2>2, <2>3, MoveRefines DEF Done
<1>6. CASE LeaveBye(t) \/ ThreadEnds(t)
  <2>1. UNCHANGED <<link, sent, reader, outbox, inbox, hand, torn>> /\ pc[t] \in {"in_bye", "recv"}
    BY <1>6 DEF LeaveBye, ThreadEnds, client, tears
  <2>2. PICK label \in {"done", "bye"} : Goto(t, label)
    BY <1>6 DEF LeaveBye, ThreadEnds
  <2>3. label \in PC \ {"rest"} /\ hand[t] = None
    BY <1>0, <2>1 DEF PC, ThreadInv, Carrying
  <2> QED
    BY <2>1, <2>2, <2>3, MoveRefines
<1>7. CASE TakeSendMutex(t) \/ SendMeetsEpipe(t)
  <2>1. UNCHANGED <<link, sent, reader, outbox, inbox, hand, torn>>
    BY <1>7 DEF TakeSendMutex, SendMeetsEpipe, client, tears
  <2>2. PICK label \in {"send", "epipe"} : Goto(t, label)
    BY <1>7 DEF TakeSendMutex, SendMeetsEpipe
  <2>3. label \in PC \ {"rest"} /\ label \in Carrying
    BY DEF PC, Carrying
  <2> QED
    BY <2>1, <2>2, <2>3, MoveRefines
<1>8. CASE WriteFirst(t)
  <2>1. /\ pc[t] = "send" /\ Writable(Partner[t]) /\ Goto(t, "rest")
        /\ outbox' = [outbox EXCEPT ![Partner[t]] = Append(@, Half(hand[t], 1))]
        /\ UNCHANGED <<link, sent, reader, inbox, hand, torn>>
    BY <1>8 DEF WriteFirst, client, tears
  <2>2. PICK part \in {1, 2} : part = 1
    OBVIOUS
  <2>3. /\ pc[t] = IF part = 1 THEN "send" ELSE "rest"
        /\ outbox' = [outbox EXCEPT ![Partner[t]] = Append(@, Half(hand[t], part))]
        /\ part = 1 => Goto(t, "rest") /\ hand' = hand
        /\ part = 2 => Goto(t, "recv") /\ hand' = [hand EXCEPT ![t] = None]
    BY <2>1, <2>2
  <2>4. OInv' /\ \A s \in Conn : Transit(s)' = Transit(s)
    BY <2>1, <2>3, WriteKeeps
  <2> QED
    BY <2>1, <2>4, Unseen
<1>9. CASE WriteRest(t)
  <2>1. /\ pc[t] = "rest" /\ Writable(Partner[t]) /\ Goto(t, "recv")
        /\ outbox' = [outbox EXCEPT ![Partner[t]] = Append(@, Half(hand[t], 2))]
        /\ hand' = [hand EXCEPT ![t] = None]
        /\ UNCHANGED <<link, sent, reader, inbox, torn>>
    BY <1>9 DEF WriteRest, client, tears, Done
  <2>2. PICK part \in {1, 2} : part = 2
    OBVIOUS
  <2>3. /\ pc[t] = IF part = 1 THEN "send" ELSE "rest"
        /\ outbox' = [outbox EXCEPT ![Partner[t]] = Append(@, Half(hand[t], part))]
        /\ part = 1 => Goto(t, "rest") /\ hand' = hand
        /\ part = 2 => Goto(t, "recv") /\ hand' = [hand EXCEPT ![t] = None]
    BY <2>1, <2>2
  <2>4. OInv' /\ \A s \in Conn : Transit(s)' = Transit(s)
    BY <2>1, <2>3, WriteKeeps
  <2> QED
    BY <2>1, <2>4, Unseen
<1> QED
  BY <1>1, <1>2, <1>3, <1>4, <1>5, <1>6, <1>7, <1>8, <1>9 DEF Thread

\* Every step of the system.
LEMMA NextRefines ==
  ASSUME AllInv, [Next]_vars
  PROVE  OInv' /\ (Relay!Next \/ UNCHANGED Relay!vars)
<1>1. CASE Next
  BY <1>1, ClientRefines, ThreadRefines DEF Next
<1>2. CASE UNCHANGED vars
  <2>1. UNCHANGED <<link, sent, inbox, outbox, reader, pc, hand, torn>>
    BY <1>2 DEF vars
  <2>2. ASSUME NEW d \in Conn  PROVE FrontInv(d)' /\ BackInv(d)' /\ ThreadInv(d)' /\ Ordered(d)'
    BY <2>1, Known, FrontKept, BackKept, ThreadKept, OrderKept
  <2>3. \A s \in Conn : Transit(s)' = Transit(s)
    BY <2>1 DEF Transit, Written, InHand, Waiting
  <2> QED
    BY <2>1, <2>2, <2>3, Unseen DEF OInv
<1> QED
  BY <1>1, <1>2

\* At first, nothing is on its way.
LEMMA InitRefines ==
  ASSUME Init
  PROVE  OInv /\ Relay!Init
<1>1. Range(<<>>) = {} /\ DOMAIN <<>> = {}
  BY DEF Range
<1>2. \A s \in Conn : /\ Partner[s] \in Conn /\ outbox[s] = <<>> /\ hand[s] = None
                      /\ inbox[s] = <<>> /\ pc[s] = "recv"
  BY Partners DEF Init
<1>3. \A s \in Conn : Written(s) = {} /\ InHand(s) = {} /\ Waiting(s) = {}
  BY <1>1, <1>2 DEF Written, InHand, Waiting, CompleteIn
<1>4. Sorted(<<>>) /\ Aligned(<<>>) /\ Whole(<<>>) /\ Paired(<<>>)
  BY <1>1 DEF Sorted, Aligned, Whole, Paired
<1>5. ASSUME NEW c \in Conn  PROVE FrontInv(c) /\ BackInv(c) /\ ThreadInv(c) /\ Ordered(c)
  <2>1. FrontInv(c) /\ BackInv(c)
    BY <1>1, <1>2, <1>4 DEF FrontInv, BackInv
  <2>2. ThreadInv(c)
    BY <1>1, <1>2 DEF ThreadInv, Carrying
  <2>3. Ordered(c)
    BY <1>3 DEF Ordered, InOrder, Before
  <2> QED
    BY <2>1, <2>2, <2>3
<1>6. Relay!Init
  BY <1>3 DEF Init, Relay!Init
<1> QED
  BY <1>5, <1>6 DEF OInv

\* Every client's messages are in the order of their numbers, wherever they are,
\* and a connection that is not torn holds whole messages of its own clients only.
THEOREM OrderInvariance == Spec => []OInv
<1>1. Init => OInv
  BY InitRefines
<1>2. IInv /\ TypeInv /\ WInv /\ OInv /\ [Next]_vars => OInv'
  BY NextRefines DEF AllInv
<1> QED
  BY <1>1, <1>2, Invariance, TypesCorrect, FrontsInvariance, PTL DEF Spec

\* The server's threads, with their locks, blocking sends, buffers and receive
\* loops, are a relay that reorders nothing and doubles nothing, and makes up
\* something only out of what a tear left over.
THEOREM FlowRelays == Spec => Relays
<1>1. Init => Relay!Init
  BY InitRefines
<1>2. IInv /\ TypeInv /\ WInv /\ OInv /\ [Next]_vars => [Relay!Next]_(Relay!vars)
  BY NextRefines DEF AllInv
<1> QED
  BY <1>1, <1>2, Invariance, TypesCorrect, FrontsInvariance, OrderInvariance, PTL
     DEF Spec, Relays, Relay!Spec
=============================================================================
