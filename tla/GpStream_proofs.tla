--------------------------- MODULE GpStream_proofs ---------------------------
(***************************************************************************)
(* The properties of GpStream, for any messages, any lengths of buffers    *)
(* and any number of sends.                                                *)
(*                                                                         *)
(* What is known of a byte on its way is which byte of which message it    *)
(* is.  A stretch of them is whole when every message of which it has a    *)
(* byte lies in it from end to end.  A whole stretch that is cut behind    *)
(* the last byte of a message leaves two whole ones: this is what a recv   *)
(* does to the stream as long as it tears no message, and what handling a  *)
(* message does to the buffer.                                             *)
(***************************************************************************)
EXTENDS GpStream, SequenceTheorems, TLAPS

Bytes == [value : Nat, of : Nat, at : Nat]

\* The bytes s are those of the messages a that their history says.
Genuine(a, s) ==
  /\ s \in Seq(Bytes)
  /\ \A k \in DOMAIN s : /\ s[k].of \in DOMAIN a
                         /\ s[k].at \in DOMAIN a[s[k].of]
                         /\ s[k].value = a[s[k].of][s[k].at]

\* Every message of which s has a byte lies in s from end to end.
Whole(a, s) ==
  \A k \in DOMAIN s : \A j \in DOMAIN a[s[k].of] :
    /\ k - s[k].at + j \in DOMAIN s
    /\ s[k - s[k].at + j].of = s[k].of
    /\ s[k - s[k].at + j].at = j

Before(c, d) == c.of < d.of \/ (c.of = d.of /\ c.at < d.at)

Ordered(s) == \A k, l \in DOMAIN s : k < l => Before(s[k], s[l])

\* The bytes s are exactly those of the messages a from the n-th on.
Owed(a, n, s) ==
  /\ \A k \in DOMAIN s : s[k].of >= n
  /\ \A i \in DOMAIN a : i >= n => \A j \in DOMAIN a[i] :
       \E k \in DOMAIN s : s[k].of = i /\ s[k].at = j

TypeInv ==
  /\ accepted \in Seq(Messages)
  /\ handled \in Seq(Seq(Nat))
  /\ torn \in BOOLEAN
  /\ Genuine(accepted, buffer)
  /\ Genuine(accepted, stream)

\* Until a message is torn, the receiver has the first messages, and the others
\* lie whole and in order in its buffer and on the stream.
StreamInv ==
  /\ TypeInv
  /\ ~torn =>
       /\ Whole(accepted, buffer) /\ Whole(accepted, stream)
       /\ Ordered(UnderWay)
       /\ Owed(accepted, Len(handled) + 1, UnderWay)
       /\ Len(handled) <= Len(accepted)
       /\ \A i \in DOMAIN handled : handled[i] = accepted[i]

-----------------------------------------------------------------------------
(* Stretches of bytes. *)

\* A message has a header, and a payload of the length that this announces.
LEMMA MessageShape ==
  ASSUME NEW m \in Messages
  PROVE  m \in Seq(Nat) /\ Len(m) \in Nat /\ HeaderLen \in Nat /\ HeaderLen >= 2
         /\ Len(m) >= HeaderLen /\ HeaderLen + m[2] = Len(m)
<1>1. m \in Seq(Nat) /\ Len(m) >= HeaderLen /\ m[2] = Len(m) - HeaderLen
  BY MessagesAssumption
<1>2. HeaderLen \in Nat /\ HeaderLen >= 2
  BY LengthAssumption
<1> QED
  BY <1>1, <1>2

\* A place relative to another one stays the same when both move.
LEMMA Shifted ==
  ASSUME NEW k \in Int, NEW n \in Int, NEW p \in Int, NEW j \in Int,
         NEW i, i = k + n, NEW x, x = i - p + j, NEW y, y = x - n
  PROVE  y = k - p + j
  OBVIOUS

\* The stretch r is s without its first n bytes.
Behind(s, n, r) ==
  /\ DOMAIN r = 1 .. Len(s) - n
  /\ \A k \in DOMAIN r : k + n \in DOMAIN s /\ r[k] = s[k + n]
  /\ \A k \in DOMAIN s : k > n => k - n \in DOMAIN r /\ r[k - n] = s[k]

\* SubSeq takes it so.
LEMMA SecondPart ==
  ASSUME NEW s \in Seq(Bytes), NEW n \in 0 .. Len(s), NEW r, r = SubSeq(s, n + 1, Len(s))
  PROVE  Behind(s, n, r)
<1>1. Len(s) \in Nat /\ n \in Nat /\ n <= Len(s) /\ DOMAIN s = 1 .. Len(s)
  OBVIOUS
<1>2. DOMAIN r = 1 .. Len(s) - n /\ \A k \in 1 .. Len(s) - n : r[k] = s[k + n]
  BY <1>1
<1>3. ASSUME NEW k \in DOMAIN s, k > n  PROVE k - n \in DOMAIN r /\ r[k - n] = s[k]
  <2>1. PICK i \in 1 .. Len(s) - n : i = k - n /\ i + n = k
    BY <1>1, <1>3
  <2> QED
    BY <1>2, <2>1
<1> QED
  BY <1>1, <1>2, <1>3 DEF Behind

\* The stretch t is s with r behind it.
Together(s, r, t) ==
  /\ DOMAIN t = 1 .. Len(s) + Len(r)
  /\ \A k \in DOMAIN s : k \in DOMAIN t /\ t[k] = s[k]
  /\ \A k \in DOMAIN t : ~(k \in DOMAIN s) => k - Len(s) \in DOMAIN r /\ t[k] = r[k - Len(s)]
  /\ \A k \in DOMAIN r : k + Len(s) \in DOMAIN t /\ t[k + Len(s)] = r[k]

\* \o puts them so.
LEMMA TwoParts ==
  ASSUME NEW s \in Seq(Bytes), NEW r \in Seq(Bytes), NEW t, t = s \o r
  PROVE  Together(s, r, t)
<1>1. /\ Len(s) \in Nat /\ Len(r) \in Nat /\ DOMAIN s = 1 .. Len(s) /\ DOMAIN r = 1 .. Len(r)
      /\ DOMAIN t = 1 .. Len(s) + Len(r)
  OBVIOUS
<1>2. \A k \in DOMAIN s : k \in DOMAIN t /\ t[k] = s[k]
  BY <1>1
<1>3. \A k \in DOMAIN t : ~(k \in DOMAIN s) => k - Len(s) \in DOMAIN r /\ t[k] = r[k - Len(s)]
  BY <1>1
<1>4. ASSUME NEW k \in DOMAIN r  PROVE k + Len(s) \in DOMAIN t /\ t[k + Len(s)] = r[k]
  <2>1. PICK i \in DOMAIN t : i = k + Len(s) /\ i - Len(s) = k /\ ~(i \in DOMAIN s)
    BY <1>1
  <2> QED
    BY <1>3, <2>1
<1> QED
  BY <1>1, <1>2, <1>3, <1>4 DEF Together

\* Either part of a stretch is genuine.
LEMMA CutGenuine ==
  ASSUME NEW a, NEW s, Genuine(a, s), NEW n \in 0 .. Len(s)
  PROVE  Genuine(a, SubSeq(s, 1, n)) /\ Genuine(a, SubSeq(s, n + 1, Len(s)))
  BY DEF Genuine

\* A whole stretch cut behind the end of a message leaves two whole ones.
LEMMA CutWhole ==
  ASSUME NEW a \in Seq(Messages), NEW s, Genuine(a, s), Whole(a, s),
         NEW n \in 1 .. Len(s), s[n].at = Len(a[s[n].of])
  PROVE  Whole(a, SubSeq(s, 1, n)) /\ Whole(a, SubSeq(s, n + 1, Len(s)))
<1>1. s \in Seq(Bytes) /\ Len(s) \in Nat /\ DOMAIN s = 1 .. Len(s)
  BY DEF Genuine
<1>2. ASSUME NEW k \in DOMAIN s
      PROVE  /\ s[k].of \in DOMAIN a /\ s[k].at \in Nat /\ Len(a[s[k].of]) \in Nat
             /\ DOMAIN a[s[k].of] = 1 .. Len(a[s[k].of])
             /\ s[k].at \in 1 .. Len(a[s[k].of])
  <2>1. s[k].of \in DOMAIN a /\ s[k].at \in DOMAIN a[s[k].of]
    BY DEF Genuine
  <2>2. a[s[k].of] \in Messages
    BY <2>1
  <2>3. a[s[k].of] \in Seq(Nat)
    BY <2>2, MessageShape
  <2> QED
    BY <2>1, <2>3
\* A message has all of its bytes on one side of the cut.
<1>3. ASSUME NEW k \in DOMAIN s, NEW j \in DOMAIN a[s[k].of]
      PROVE  (k <= n) <=> (k - s[k].at + j <= n)
  <2> DEFINE i == n - (k - s[k].at)
             len == Len(a[s[k].of])
  <2>1. i \in Int /\ n = k - s[k].at + i
    BY <1>1, <1>2
  <2>2. i \in 1 .. len => s[n].of = s[k].of /\ s[n].at = i
    <3>1. i \in 1 .. len => i \in DOMAIN a[s[k].of]
      BY <1>2
    <3> HIDE DEF i
    <3> QED
      BY <2>1, <3>1 DEF Whole
  <2>3. i \in 1 .. len => i = len
    BY <2>2
  <2>4. j \in 1 .. len /\ s[k].at \in 1 .. len /\ len \in Nat
    BY <1>2
  <2>5. ~(i \in 1 .. (len - 1))
    BY <2>3, <2>4
  <2>6. k \in Int /\ n \in Int
    BY <1>1
  <2> HIDE DEF i, len
  <2>7. PICK p \in Int : p = s[k].at
    BY <2>4
  <2>8. p >= 1 /\ p <= len /\ j >= 1 /\ j <= len /\ j \in Int /\ (i <= 0 \/ i >= len)
    BY <2>1, <2>4, <2>5, <2>7
  <2>9. n = k - p + i /\ len \in Nat
    BY <2>1, <2>4, <2>7
  <2>10. (k <= n) <=> (k - p + j <= n)
    BY <2>1, <2>6, <2>8, <2>9
  <2> QED
    BY <2>7, <2>10
<1>4. Whole(a, SubSeq(s, 1, n))
  <2>1. /\ DOMAIN SubSeq(s, 1, n) = 1 .. n
        /\ \A k \in 1 .. n : SubSeq(s, 1, n)[k] = s[k]
    BY <1>1
  <2>2. ASSUME NEW k \in 1 .. n, NEW j \in DOMAIN a[s[k].of]
        PROVE  /\ k - s[k].at + j \in 1 .. n
               /\ s[k - s[k].at + j].of = s[k].of
               /\ s[k - s[k].at + j].at = j
    <3>1. k \in DOMAIN s
      BY <1>1
    <3>2. k - s[k].at + j \in DOMAIN s /\ k - s[k].at + j <= n
      BY <1>3, <3>1 DEF Whole
    <3> QED
      BY <1>1, <3>1, <3>2 DEF Whole
  <2> QED
    BY <2>1, <2>2 DEF Whole
<1>5. Whole(a, SubSeq(s, n + 1, Len(s)))
  <2> DEFINE r == SubSeq(s, n + 1, Len(s))
  <2>1. /\ DOMAIN r = 1 .. Len(s) - n
        /\ \A k \in 1 .. Len(s) - n : r[k] = s[k + n]
    BY <1>1
  <2> SUFFICES Whole(a, r)
    OBVIOUS
  <2> HIDE DEF r
  <2>2. ASSUME NEW k \in DOMAIN r, NEW j \in DOMAIN a[r[k].of]
        PROVE  /\ k - r[k].at + j \in DOMAIN r
               /\ r[k - r[k].at + j].of = r[k].of
               /\ r[k - r[k].at + j].at = j
    <3>1. PICK i \in Nat : i = k + n
      BY <1>1, <2>1
    <3>2. i \in DOMAIN s /\ ~(i <= n) /\ r[k] = s[i]
      BY <1>1, <2>1, <3>1
    <3>3. j \in DOMAIN a[s[i].of] /\ j \in Int /\ s[i].at \in Nat
      BY <1>2, <3>2
    <3>4. PICK x \in Int : x = i - s[i].at + j
      BY <3>3
    <3>5. x \in DOMAIN s /\ ~(x <= n) /\ s[x].of = s[i].of /\ s[x].at = j
      BY <1>3, <3>2, <3>3, <3>4 DEF Whole
    <3>6. PICK y \in Int : y = x - n
      BY <1>1
    <3>7. y \in DOMAIN r /\ r[y] = s[x]
      BY <1>1, <2>1, <3>5, <3>6
    <3>8. y = k - r[k].at + j
      <4>1. PICK p \in Nat : p = s[i].at
        BY <3>3
      <4>2. x = i - p + j /\ r[k].at = p /\ k \in Int
        BY <2>1, <3>2, <3>4, <4>1
      <4>3. PICK k0 \in Int, n0 \in Int, j0 \in Int : k0 = k /\ n0 = n /\ j0 = j
        BY <1>1, <3>3, <4>2
      <4>4. i = k0 + n0 /\ x = i - p + j0 /\ y = x - n0 /\ p \in Int
        BY <3>1, <3>6, <4>1, <4>2, <4>3
      <4>5. y = k0 - p + j0
        BY <4>4, Shifted
      <4> QED
        BY <4>2, <4>3, <4>5
    <3> QED
      BY <3>2, <3>5, <3>7, <3>8
  <2> QED
    BY <2>2 DEF Whole
<1> QED
  BY <1>4, <1>5

\* What has been written keeps its place when another message is sent.
LEMMA GrowKeeps ==
  ASSUME NEW a \in Seq(Messages), NEW m \in Messages, NEW s, Genuine(a, s)
  PROVE  Genuine(Append(a, m), s) /\ (Whole(a, s) => Whole(Append(a, m), s))
<1>1. /\ \A i \in DOMAIN a : i \in DOMAIN Append(a, m) /\ Append(a, m)[i] = a[i]
  OBVIOUS
<1>2. \A k \in DOMAIN s : s[k].of \in DOMAIN a
  BY DEF Genuine
<1> HIDE DEF Genuine
<1>3. Genuine(Append(a, m), s)
  BY <1>1, <1>2 DEF Genuine
<1>4. Whole(a, s) => Whole(Append(a, m), s)
  BY <1>1, <1>2 DEF Whole
<1> QED
  BY <1>3, <1>4

\* What is written of a message that is sent after those in a.
Sent(a, m, n) == [j \in 1 .. n |-> [value |-> m[j], of |-> Len(a) + 1, at |-> j]]

\* The bytes that are written are those of the message that is sent.
LEMMA SentGenuine ==
  ASSUME NEW a \in Seq(Messages), NEW m \in Messages, NEW n \in 0 .. Len(m)
  PROVE  Genuine(Append(a, m), Sent(a, m, n)) /\ Len(Sent(a, m, n)) = n
<1>1. m \in Seq(Nat) /\ Len(m) \in Nat /\ DOMAIN m = 1 .. Len(m) /\ \A j \in 1 .. Len(m) : m[j] \in Nat
  BY MessageShape
<1>2. /\ Len(a) + 1 \in Nat /\ Len(a) + 1 \in DOMAIN Append(a, m)
      /\ Append(a, m)[Len(a) + 1] = m
  OBVIOUS
<1>3. Sent(a, m, n) \in Seq(Bytes) /\ DOMAIN Sent(a, m, n) = 1 .. n /\ Len(Sent(a, m, n)) = n
  BY <1>1, <1>2 DEF Sent, Bytes
<1>4. \A k \in 1 .. n : /\ Sent(a, m, n)[k].of = Len(a) + 1 /\ Sent(a, m, n)[k].at = k
                        /\ Sent(a, m, n)[k].value = m[k]
  BY DEF Sent
<1> QED
  BY <1>1, <1>2, <1>3, <1>4 DEF Genuine

\* A message written from end to end is whole.
LEMMA SentWhole ==
  ASSUME NEW a \in Seq(Messages), NEW m \in Messages
  PROVE  Whole(Append(a, m), Sent(a, m, Len(m)))
<1>1. m \in Seq(Nat) /\ Len(m) \in Nat /\ DOMAIN m = 1 .. Len(m)
  BY MessageShape
<1>2. Append(a, m)[Len(a) + 1] = m
  OBVIOUS
<1> DEFINE s == Sent(a, m, Len(m))
<1>3. DOMAIN s = 1 .. Len(m) /\ \A k \in 1 .. Len(m) : s[k].of = Len(a) + 1 /\ s[k].at = k
  BY DEF Sent
<1> SUFFICES Whole(Append(a, m), s)
  OBVIOUS
<1> HIDE DEF s
<1>4. \A k, j \in 1 .. Len(m) : k - k + j = j
  BY <1>1
<1> QED
  BY <1>1, <1>2, <1>3, <1>4 DEF Whole

\* Two genuine stretches one behind the other are genuine.
LEMMA JoinGenuine ==
  ASSUME NEW a, NEW s, NEW r, Genuine(a, s), Genuine(a, r)
  PROVE  Genuine(a, s \o r)
  BY DEF Genuine

\* Two whole ones are whole.
LEMMA JoinWhole ==
  ASSUME NEW a \in Seq(Messages), NEW s, NEW r, Genuine(a, s), Genuine(a, r), Whole(a, s), Whole(a, r)
  PROVE  Whole(a, s \o r)
<1>1. /\ s \in Seq(Bytes) /\ r \in Seq(Bytes) /\ Len(s) \in Nat /\ Len(r) \in Nat
      /\ DOMAIN s = 1 .. Len(s) /\ DOMAIN r = 1 .. Len(r)
  BY DEF Genuine
<1> DEFINE t == s \o r
<1>2. /\ DOMAIN t = 1 .. Len(s) + Len(r)
      /\ \A k \in DOMAIN s : t[k] = s[k]
      /\ \A k \in DOMAIN t : ~(k \in DOMAIN s) => k - Len(s) \in DOMAIN r /\ t[k] = r[k - Len(s)]
      /\ \A k \in DOMAIN r : t[k + Len(s)] = r[k]
  BY <1>1, TwoParts DEF Together
<1>3. ASSUME NEW k \in DOMAIN r  PROVE r[k].at \in Nat /\ a[r[k].of] \in Messages
  <2>1. r[k] \in Bytes /\ r[k].of \in DOMAIN a
    BY <1>1 DEF Genuine
  <2> QED
    BY <2>1 DEF Bytes
<1> SUFFICES Whole(a, t)
  OBVIOUS
<1> HIDE DEF t
<1>4. ASSUME NEW k \in DOMAIN t, NEW j \in DOMAIN a[t[k].of]
      PROVE  /\ k - t[k].at + j \in DOMAIN t
             /\ t[k - t[k].at + j].of = t[k].of
             /\ t[k - t[k].at + j].at = j
  <2>1. CASE k \in DOMAIN s
    <3>1. /\ k - s[k].at + j \in DOMAIN s
          /\ s[k - s[k].at + j].of = s[k].of
          /\ s[k - s[k].at + j].at = j
      BY <1>2, <2>1 DEF Whole
    <3> QED
      BY <1>1, <1>2, <2>1, <3>1
  <2>2. CASE ~(k \in DOMAIN s)
    <3>1. PICK i \in DOMAIN r : i = k - Len(s) /\ t[k] = r[i]
      BY <1>2, <2>2
    <3>2. /\ i - r[i].at + j \in DOMAIN r
          /\ r[i - r[i].at + j].of = r[i].of
          /\ r[i - r[i].at + j].at = j
      BY <3>1 DEF Whole
    <3>3. PICK x \in DOMAIN r : x = i - r[i].at + j /\ r[x].of = r[i].of /\ r[x].at = j
      BY <3>2
    <3>4. t[x + Len(s)] = r[x] /\ x + Len(s) \in DOMAIN t
      BY <1>1, <1>2
    <3>5. x + Len(s) = k - t[k].at + j
      <4>1. PICK p \in Nat : p = r[i].at
        BY <1>3
      <4>2. a[r[i].of] \in Seq(Nat)
        <5>1. a[r[i].of] \in Messages
          BY <1>3
        <5> QED
          BY <5>1, MessageShape
      <4>3. j \in Int
        BY <3>1, <4>2
      <4>4. x = i - p + j /\ t[k].at = p
        BY <3>1, <3>3, <4>1
      <4>5. x + Len(s) = k - p + j
        BY <1>1, <1>2, <3>1, <4>1, <4>3, <4>4
      <4> QED
        BY <4>4, <4>5
    <3> QED
      BY <3>1, <3>3, <3>4, <3>5
  <2> QED
    BY <2>1, <2>2
<1> QED
  BY <1>4 DEF Whole

-----------------------------------------------------------------------------
(* What begins a buffer. *)

\* When the buffer begins with a whole message, its header is there and tells
\* its length, and the bytes of that length are the message.
LEMMA FrontMessage ==
  ASSUME TypeInv, BeginsWhole
  PROVE  /\ buffer # <<>> /\ buffer[1].of \in DOMAIN accepted
         /\ Complete
         /\ MessageLen = Len(accepted[buffer[1].of])
         /\ MessageLen \in 1 .. Len(buffer)
         /\ [j \in 1 .. MessageLen |-> buffer[j].value] = accepted[buffer[1].of]
         /\ \A j \in 1 .. MessageLen : buffer[j].of = buffer[1].of /\ buffer[j].at = j
<1>1. buffer \in Seq(Bytes) /\ Len(buffer) \in Nat /\ DOMAIN buffer = 1 .. Len(buffer)
      /\ buffer # <<>> /\ 1 \in DOMAIN buffer
  BY DEF TypeInv, Genuine, BeginsWhole
<1>2. buffer[1].of \in DOMAIN accepted
  BY <1>1 DEF TypeInv, Genuine
<1>3. PICK m \in Messages : m = accepted[buffer[1].of]
  BY <1>2 DEF TypeInv
<1>4. /\ m \in Seq(Nat) /\ Len(m) \in Nat /\ HeaderLen \in Nat /\ HeaderLen >= 2
      /\ Len(m) >= HeaderLen /\ HeaderLen + m[2] = Len(m) /\ DOMAIN m = 1 .. Len(m)
  BY MessageShape
<1>5. ASSUME NEW j \in 1 .. Len(m)
      PROVE  /\ j \in DOMAIN buffer /\ buffer[j].value = m[j]
             /\ buffer[j].of = buffer[1].of /\ buffer[j].at = j
  <2>1. j \in DOMAIN accepted[buffer[1].of]
    BY <1>3, <1>4
  <2>2. j \in DOMAIN buffer /\ buffer[j] = Cell(buffer[1].of, j)
    BY <2>1 DEF BeginsWhole
  <2> QED
    BY <1>3, <2>2 DEF Cell
<1>6. buffer[2].value = m[2]
  <2>1. 2 \in 1 .. Len(m)
    BY <1>4
  <2> QED
    BY <1>5, <2>1
<1>7. MessageLen = Len(m)
  BY <1>4, <1>6 DEF MessageLen
<1>8. Len(m) \in 1 .. Len(buffer)
  <2>1. Len(m) \in 1 .. Len(m)
    BY <1>4
  <2> QED
    BY <1>1, <1>5, <2>1
<1>9. Complete
  BY <1>1, <1>4, <1>7, <1>8 DEF Complete
<1>10. [j \in 1 .. Len(m) |-> buffer[j].value] = m
  BY <1>4, <1>5
<1> QED
  BY <1>1, <1>2, <1>3, <1>5, <1>7, <1>8, <1>9, <1>10

\* A whole buffer begins with a whole message.
LEMMA WholeBegins ==
  ASSUME TypeInv, Whole(accepted, buffer), buffer # <<>>
  PROVE  BeginsWhole
<1>1. buffer \in Seq(Bytes) /\ DOMAIN buffer = 1 .. Len(buffer) /\ 1 \in DOMAIN buffer
  BY DEF TypeInv, Genuine
<1>2. /\ buffer[1].of \in DOMAIN accepted /\ buffer[1].at \in DOMAIN accepted[buffer[1].of]
      /\ \A k \in DOMAIN buffer : buffer[k].value = accepted[buffer[k].of][buffer[k].at] /\ buffer[k] \in Bytes
  BY <1>1 DEF TypeInv, Genuine
<1>3. PICK m \in Messages : m = accepted[buffer[1].of]
  BY <1>2 DEF TypeInv
<1>4. m \in Seq(Nat) /\ Len(m) \in Nat /\ DOMAIN m = 1 .. Len(m) /\ Len(m) >= 1
  BY MessageShape
<1>5. PICK p \in 1 .. Len(m) : p = buffer[1].at
  BY <1>2, <1>3, <1>4
<1>6. ASSUME NEW j \in 1 .. Len(m)
      PROVE  /\ 1 - p + j \in DOMAIN buffer
             /\ buffer[1 - p + j].of = buffer[1].of /\ buffer[1 - p + j].at = j
  BY <1>1, <1>3, <1>4, <1>5 DEF Whole
<1>7. p = 1
  <2>1. 1 \in 1 .. Len(m)
    BY <1>4
  <2>2. 1 - p + 1 \in DOMAIN buffer
    BY <1>6, <2>1
  <2> QED
    BY <1>1, <2>2
<1>8. ASSUME NEW j \in 1 .. Len(m)
      PROVE  j \in DOMAIN buffer /\ buffer[j] = Cell(buffer[1].of, j)
  <2>1. 1 - p + j = j
    BY <1>4, <1>7
  <2>2. j \in DOMAIN buffer /\ buffer[j].of = buffer[1].of /\ buffer[j].at = j
    BY <1>6, <2>1
  <2>3. buffer[j] \in Bytes /\ buffer[j].value = accepted[buffer[1].of][j]
    BY <1>2, <2>2
  <2> QED
    BY <2>2, <2>3 DEF Cell, Bytes
<1> QED
  BY <1>3, <1>4, <1>8 DEF BeginsWhole

-----------------------------------------------------------------------------
(* What is under way. *)

\* Taking all of the first message from what is under way, in order.
LEMMA TakeFirst ==
  ASSUME NEW a \in Seq(Messages), NEW s, Genuine(a, s), Ordered(s),
         NEW n \in Nat \ {0}, Owed(a, n, s),
         NEW len \in 1 .. Len(s), n \in DOMAIN a, len = Len(a[n]),
         \A j \in 1 .. len : s[j].of = n /\ s[j].at = j
  PROVE  /\ Ordered(SubSeq(s, len + 1, Len(s)))
         /\ Owed(a, n + 1, SubSeq(s, len + 1, Len(s)))
<1>1. s \in Seq(Bytes) /\ Len(s) \in Nat /\ DOMAIN s = 1 .. Len(s) /\ \A k \in DOMAIN s : s[k] \in Bytes
  BY DEF Genuine
<1>0. PICK r : r = SubSeq(s, len + 1, Len(s))
  OBVIOUS
<1>2. /\ DOMAIN r = 1 .. Len(s) - len
      /\ \A k \in DOMAIN r : k + len \in DOMAIN s /\ r[k] = s[k + len]
      /\ \A k \in DOMAIN s : k > len => k - len \in DOMAIN r /\ r[k - len] = s[k]
  <2>1. len \in 0 .. Len(s)
    BY <1>1
  <2>2. Behind(s, len, r)
    BY <1>0, <1>1, <2>1, SecondPart
  <2> QED
    BY <2>2 DEF Behind
<1>3. Ordered(r)
  BY <1>1, <1>2 DEF Ordered
<1>4. ASSUME NEW k \in DOMAIN s, k > len  PROVE s[k].of >= n + 1
  <2>1. len \in DOMAIN s /\ len < k /\ s[len].of = n /\ s[len].at = len
    BY <1>1, <1>4
  <2>2. s[k].of \in DOMAIN a /\ s[k].at \in DOMAIN a[s[k].of] /\ s[k].of \in Nat
    BY <1>1 DEF Genuine, Bytes
  <2>3. Before(s[len], s[k])
    BY <2>1 DEF Ordered
  <2>4. CASE n < s[k].of
    BY <2>2, <2>4
  <2>5. CASE n = s[k].of /\ len < s[k].at
    <3>1. a[n] \in Messages
      OBVIOUS
    <3>2. DOMAIN a[n] = 1 .. len
      BY <3>1, MessageShape
    <3> QED
      BY <2>2, <2>5, <3>2
  <2> QED
    BY <2>1, <2>3, <2>4, <2>5 DEF Before
<1>5. \A k \in DOMAIN r : r[k].of >= n + 1
  BY <1>1, <1>2, <1>4
<1>6. ASSUME NEW i \in DOMAIN a, i >= n + 1, NEW j \in DOMAIN a[i]
      PROVE  \E k \in DOMAIN r : r[k].of = i /\ r[k].at = j
  <2>1. i \in Nat /\ i >= n /\ i # n
    BY <1>6
  <2>2. PICK k \in DOMAIN s : s[k].of = i /\ s[k].at = j
    BY <2>1 DEF Owed
  <2>3. k > len
    BY <1>1, <2>1, <2>2
  <2> QED
    BY <1>2, <2>2, <2>3
<1> QED
  BY <1>0, <1>3, <1>5, <1>6 DEF Owed

\* Adding all of one message more.
LEMMA AddLast ==
  ASSUME NEW a \in Seq(Messages), NEW s, Genuine(a, s), Ordered(s),
         NEW n \in Nat \ {0}, Owed(a, n, s), n <= Len(a) + 1, NEW m \in Messages
  PROVE  /\ Ordered(s \o Sent(a, m, Len(m)))
         /\ Owed(Append(a, m), n, s \o Sent(a, m, Len(m)))
<1> DEFINE last == Len(a) + 1
           r == Sent(a, m, Len(m))
<1>0. PICK t : t = s \o r
  OBVIOUS
<1>1. /\ s \in Seq(Bytes) /\ Len(s) \in Nat /\ DOMAIN s = 1 .. Len(s) /\ last \in Nat
      /\ m \in Seq(Nat) /\ Len(m) \in Nat /\ DOMAIN m = 1 .. Len(m)
  BY MessageShape DEF Genuine
<1>2. r \in Seq(Bytes) /\ Len(r) = Len(m) /\ DOMAIN r = 1 .. Len(m)
      /\ \A k \in DOMAIN r : r[k].of = last /\ r[k].at = k
  BY <1>1, SentGenuine DEF Sent, Genuine
<1>3. \A k \in DOMAIN s : s[k].of \in DOMAIN a /\ s[k].of < last
  BY <1>1 DEF Genuine
<1> HIDE DEF r
<1>4. Together(s, r, t)
  BY <1>0, <1>1, <1>2, TwoParts
<1>5. /\ DOMAIN t = 1 .. Len(s) + Len(m)
      /\ \A k \in DOMAIN s : k \in DOMAIN t /\ t[k] = s[k]
      /\ \A k \in DOMAIN t : ~(k \in DOMAIN s) => k - Len(s) \in DOMAIN r /\ t[k] = r[k - Len(s)]
      /\ \A k \in DOMAIN r : k + Len(s) \in DOMAIN t /\ t[k + Len(s)] = r[k]
  BY <1>2, <1>4 DEF Together
<1>6. /\ DOMAIN Append(a, m) = DOMAIN a \cup {last} /\ Append(a, m)[last] = m
      /\ \A i \in DOMAIN a : Append(a, m)[i] = a[i]
  OBVIOUS
<1> HIDE DEF last
<1>7. ASSUME NEW k \in DOMAIN t, NEW l \in DOMAIN t, k < l  PROVE Before(t[k], t[l])
  <2>1. CASE l \in DOMAIN s
    <3>1. k \in DOMAIN s
      BY <1>1, <1>5, <1>7, <2>1
    <3> QED
      BY <1>5, <1>7, <2>1, <3>1 DEF Ordered
  <2>2. CASE k \in DOMAIN s /\ ~(l \in DOMAIN s)
    BY <1>2, <1>3, <1>5, <2>2 DEF Before
  <2>3. CASE ~(k \in DOMAIN s) /\ ~(l \in DOMAIN s)
    BY <1>1, <1>2, <1>5, <1>7, <2>3 DEF Before
  <2> QED
    BY <2>1, <2>2, <2>3
<1>8. ASSUME NEW k \in DOMAIN t  PROVE t[k].of >= n
  <2>1. CASE k \in DOMAIN s
    BY <1>5, <2>1 DEF Owed
  <2>2. CASE ~(k \in DOMAIN s)
    BY <1>2, <1>5, <2>2 DEF last
  <2> QED
    BY <2>1, <2>2
<1>9. ASSUME NEW i \in DOMAIN Append(a, m), i >= n, NEW j \in DOMAIN Append(a, m)[i]
      PROVE  \E k \in DOMAIN t : t[k].of = i /\ t[k].at = j
  <2>1. CASE i \in DOMAIN a
    <3>1. PICK k \in DOMAIN s : s[k].of = i /\ s[k].at = j
      BY <1>6, <1>9, <2>1 DEF Owed
    <3> QED
      BY <1>5, <3>1
  <2>2. CASE i = last
    <3>1. j \in DOMAIN r
      BY <1>1, <1>2, <1>6, <2>2
    <3> QED
      BY <1>2, <1>5, <2>2, <3>1
  <2> QED
    BY <1>6, <2>1, <2>2
<1>10. Ordered(t) /\ Owed(Append(a, m), n, t)
  BY <1>7, <1>8, <1>9 DEF Ordered, Owed
<1> QED
  BY <1>0, <1>10 DEF r

-----------------------------------------------------------------------------
(* Moving bytes from the stream to the buffer, and out of it. *)

\* A stretch is its first bytes followed by the others.
LEMMA CutJoined ==
  ASSUME NEW s \in Seq(Bytes), NEW n \in 1 .. Len(s)
  PROVE  s = SubSeq(s, 1, n) \o SubSeq(s, n + 1, Len(s))
<1>1. Len(s) \in Nat /\ n \in Nat /\ n <= Len(s)
  BY LenProperties
<1>2. 1 \in 1 .. Len(s) + 1 /\ n \in 1 - 1 .. Len(s) /\ Len(s) \in n .. Len(s)
  BY <1>1
<1>3. SubSeq(s, 1, n) \o SubSeq(s, n + 1, Len(s)) = SubSeq(s, 1, Len(s))
  BY <1>2, ConcatAdjacentSubSeq
<1> QED
  BY <1>3, SubSeqFull

\* Taking the first bytes of the first stretch takes the first bytes of both.
LEMMA CutFront ==
  ASSUME NEW s \in Seq(Bytes), NEW r \in Seq(Bytes), NEW n \in 1 .. Len(s)
  PROVE  SubSeq(s, n + 1, Len(s)) \o r = SubSeq(s \o r, n + 1, Len(s \o r))
<1>1. Len(s) \in Nat /\ n \in Nat /\ n <= Len(s)
  BY LenProperties
<1>2. PICK u : u = SubSeq(s, 1, n)
  OBVIOUS
<1>3. PICK v : v = SubSeq(s, n + 1, Len(s))
  OBVIOUS
<1>4. u \in Seq(Bytes) /\ Len(u) = n
  <2>1. \A k \in 1 .. n : s[k] \in Bytes
    BY <1>1, LenProperties
  <2>2. 1 \in Int /\ n \in Int
    BY <1>1
  <2> QED
    BY <1>1, <1>2, <2>1, <2>2, SubSeqProperties
<1>5. v \in Seq(Bytes)
  <2>1. \A k \in n + 1 .. Len(s) : s[k] \in Bytes
    BY <1>1, LenProperties
  <2>2. n + 1 \in Int /\ Len(s) \in Int
    BY <1>1
  <2> QED
    BY <1>3, <2>1, <2>2, SubSeqProperties
<1>6. PICK x \in Seq(Bytes) : x = v \o r
  BY <1>5, ConcatProperties
<1>7. s \o r = u \o x
  <2>1. s = u \o v
    BY <1>2, <1>3, CutJoined
  <2> QED
    BY <1>4, <1>5, <1>6, <2>1, ConcatAssociative
<1>8. Len(u \o x) = n + Len(x) /\ Len(x) \in Nat
  BY <1>4, ConcatProperties, LenProperties
<1>9. SubSeq(u \o x, n + 1, n + Len(x)) = x
  <2>1. CASE Len(x) = 0
    <3>1. n + 1 \in Int /\ n + Len(x) \in Int /\ n + Len(x) < n + 1
      BY <1>1, <2>1
    <3>2. SubSeq(u \o x, n + 1, n + Len(x)) = <<>>
      BY <3>1, SubSeqEmpty
    <3> QED
      BY <2>1, <3>2, EmptySeq
  <2>2. CASE Len(x) # 0
    <3>1. n + 1 \in n + 1 .. n + Len(x) /\ n + Len(x) \in n + 1 .. n + Len(x)
      BY <1>1, <1>8, <2>2
    <3>2. SubSeq(u \o x, n + 1, n + Len(x)) = SubSeq(x, n + 1 - n, n + Len(x) - n)
      BY <1>4, <3>1, SubSeqOfConcat2
    <3>3. n + 1 - n = 1 /\ n + Len(x) - n = Len(x)
      BY <1>1, <1>8
    <3> QED
      BY <3>2, <3>3, SubSeqFull
  <2> QED
    BY <2>1, <2>2
<1> QED
  BY <1>3, <1>6, <1>7, <1>8, <1>9

\* When the first byte under way is the first of a message, and what is under
\* way is what is left from the n-th message on, this is the n-th.
LEMMA FirstOwed ==
  ASSUME NEW a \in Seq(Messages), NEW s, Genuine(a, s), Ordered(s),
         NEW n \in Nat \ {0}, Owed(a, n, s), 1 \in DOMAIN s, s[1].at = 1
  PROVE  s[1].of = n /\ n \in DOMAIN a
<1>1. /\ s \in Seq(Bytes) /\ DOMAIN s = 1 .. Len(s) /\ Len(s) \in Nat
      /\ s[1].of \in DOMAIN a /\ s[1].of >= n
      /\ Len(a) \in Nat /\ DOMAIN a = 1 .. Len(a)
  BY DEF Genuine, Owed
<1>2. n \in DOMAIN a
  BY <1>1
<1>3. 1 \in DOMAIN a[n]
  <2>1. a[n] \in Messages
    BY <1>2
  <2> QED
    BY <2>1, MessageShape
<1>4. PICK k \in DOMAIN s : s[k].of = n /\ s[k].at = 1
  <2>1. n >= n
    OBVIOUS
  <2> QED
    BY <1>2, <1>3, <2>1 DEF Owed
<1>5. CASE k = 1
  BY <1>2, <1>4, <1>5
<1>6. CASE k > 1
  <2>1. Before(s[1], s[k])
    BY <1>1, <1>6 DEF Ordered
  <2> QED
    BY <1>1, <1>2, <1>4, <2>1 DEF Before
<1> QED
  BY <1>1, <1>5, <1>6

-----------------------------------------------------------------------------
(* Every step keeps the invariant. *)

\* At first nothing is sent.
LEMMA InitInv == Init => StreamInv
<1> SUFFICES ASSUME Init  PROVE StreamInv
  OBVIOUS
<1>1. accepted = <<>> /\ stream = <<>> /\ buffer = <<>> /\ handled = <<>> /\ torn = FALSE
  BY DEF Init
<1>2. DOMAIN <<>> = {} /\ Len(<<>>) = 0 /\ <<>> \o <<>> = <<>>
  OBVIOUS
<1>3. TypeInv
  <2>1. accepted \in Seq(Messages) /\ handled \in Seq(Seq(Nat)) /\ <<>> \in Seq(Bytes)
    BY <1>1
  <2>2. Genuine(accepted, buffer) /\ Genuine(accepted, stream)
    BY <1>1, <1>2, <2>1 DEF Genuine
  <2> QED
    BY <1>1, <2>1, <2>2 DEF TypeInv
<1>4. Whole(accepted, buffer) /\ Whole(accepted, stream)
  BY <1>1, <1>2 DEF Whole
<1>5. Ordered(UnderWay) /\ Owed(accepted, Len(handled) + 1, UnderWay)
  BY <1>1, <1>2 DEF Ordered, Owed, UnderWay
<1> QED
  BY <1>1, <1>2, <1>3, <1>4, <1>5 DEF StreamInv

\* Whatever part of a message is written.
LEMMA AcceptKeeps ==
  ASSUME StreamInv, NEW m \in Messages, NEW n \in 0 .. Len(m), Accept(m, n)
  PROVE  StreamInv'
<1> DEFINE a == accepted
           b == Append(a, m)
           r == Sent(a, m, n)
<1>1. /\ a \in Seq(Messages) /\ Len(a) \in Nat /\ Genuine(a, buffer) /\ Genuine(a, stream)
      /\ handled \in Seq(Seq(Nat)) /\ Len(handled) \in Nat /\ Len(m) \in Nat
  BY MessageShape DEF StreamInv, TypeInv
<1>2. /\ accepted' = b /\ stream' = stream \o r /\ torn' = (torn \/ n < Len(m))
      /\ buffer' = buffer /\ handled' = handled
  BY DEF Accept, Sent
<1>3. Genuine(b, buffer) /\ Genuine(b, stream) /\ Genuine(b, r)
  BY <1>1, GrowKeeps, SentGenuine
<1>4. b \in Seq(Messages)
  BY <1>1
<1>5. TypeInv'
  <2>1. Genuine(b, stream \o r)
    BY <1>3, JoinGenuine
  <2>2. torn' \in BOOLEAN
    BY <1>2 DEF StreamInv, TypeInv
  <2> QED
    BY <1>1, <1>2, <1>3, <1>4, <2>1, <2>2 DEF TypeInv
<1>6. ASSUME ~torn'
      PROVE  /\ Whole(accepted, buffer)' /\ Whole(accepted, stream)'
             /\ Ordered(UnderWay)'
             /\ Owed(accepted, Len(handled) + 1, UnderWay)'
             /\ Len(handled)' <= Len(accepted)'
             /\ \A i \in DOMAIN handled' : handled'[i] = accepted'[i]
  <2>1. ~torn /\ n = Len(m)
    <3>1. ~torn /\ ~(n < Len(m))
      BY <1>2, <1>6
    <3> QED
      BY <1>1, <3>1
  <2>2. Whole(b, buffer) /\ Whole(b, stream) /\ Whole(b, r)
    BY <1>1, <2>1, GrowKeeps, SentWhole DEF StreamInv
  <2>3. Whole(b, stream \o r)
    BY <1>3, <1>4, <2>2, JoinWhole
  <2>4. UnderWay' = UnderWay \o r
    <3>1. buffer \in Seq(Bytes) /\ stream \in Seq(Bytes) /\ r \in Seq(Bytes)
      BY <1>3 DEF Genuine
    <3>2. buffer \o (stream \o r) = (buffer \o stream) \o r
      BY <3>1
    <3> QED
      BY <1>2, <3>2 DEF UnderWay
  <2>5. Len(handled) + 1 \in Nat \ {0} /\ Len(handled) + 1 <= Len(a) + 1
    BY <1>1, <2>1 DEF StreamInv
  <2>6. Ordered(UnderWay \o r) /\ Owed(b, Len(handled) + 1, UnderWay \o r)
    <3>1. Genuine(a, UnderWay)
      BY <1>1, JoinGenuine DEF UnderWay
    <3> QED
      BY <1>1, <2>1, <2>5, <3>1, AddLast DEF StreamInv
  <2>7. Len(handled) <= Len(b) /\ \A i \in DOMAIN handled : handled[i] = b[i]
    <3>1. DOMAIN handled = 1 .. Len(handled) /\ Len(handled) <= Len(a)
      BY <1>1, <2>1 DEF StreamInv
    <3>2. Len(b) = Len(a) + 1 /\ \A i \in 1 .. Len(a) : b[i] = a[i]
      BY <1>1
    <3> QED
      BY <1>1, <2>1, <3>1, <3>2 DEF StreamInv
  <2> QED
    BY <1>2, <2>2, <2>3, <2>4, <2>6, <2>7
<1> QED
  BY <1>5, <1>6 DEF StreamInv

\* Sending, by either side, or not.
LEMMA SendKeeps ==
  ASSUME StreamInv, NEW m \in Messages, SendBlocking(m) \/ SendNow(m)
  PROVE  StreamInv'
<1>1. Len(m) \in Nat /\ Len(stream) \in Nat /\ Room \in Nat
  BY MessageShape, LengthAssumption DEF StreamInv, TypeInv, Genuine
<1>2. CASE SendBlocking(m)
  <2>1. Accept(m, Len(m)) /\ Len(m) \in 0 .. Len(m)
    BY <1>1, <1>2 DEF SendBlocking
  <2> QED
    BY <2>1, AcceptKeeps
<1>3. CASE SendNow(m)
  <2>1. PICK n \in 0 .. Len(m) : Accept(m, n)
    BY <1>1, <1>3 DEF SendNow
  <2> QED
    BY <2>1, AcceptKeeps
<1> QED
  BY <1>2, <1>3

\* A recv that ends with a message leaves whole ones on both sides.
LEMMA RecvKeeps ==
  ASSUME StreamInv, Recv
  PROVE  StreamInv'
<1>1. PICK n \in 1 .. Len(stream) :
        /\ buffer' = SubSeq(stream, 1, n) /\ stream' = SubSeq(stream, n + 1, Len(stream))
        /\ torn' = (torn \/ stream[n].at < Len(accepted[stream[n].of]))
  BY DEF Recv
<1>2. buffer = <<>> /\ UNCHANGED <<accepted, handled>>
  BY DEF Recv
<1>3. /\ accepted \in Seq(Messages) /\ Genuine(accepted, stream) /\ stream \in Seq(Bytes)
      /\ Len(stream) \in Nat /\ DOMAIN stream = 1 .. Len(stream)
  BY DEF StreamInv, TypeInv, Genuine
<1>4. TypeInv'
  <2>1. n \in 0 .. Len(stream)
    BY <1>3
  <2>2. Genuine(accepted, SubSeq(stream, 1, n)) /\ Genuine(accepted, SubSeq(stream, n + 1, Len(stream)))
    BY <1>3, <2>1, CutGenuine
  <2> QED
    BY <1>1, <1>2, <2>2 DEF StreamInv, TypeInv
<1>5. UnderWay' = UnderWay
  BY <1>1, <1>2, <1>3, CutJoined, ConcatEmptySeq DEF UnderWay
<1>6. ASSUME ~torn'  PROVE Whole(accepted, buffer)' /\ Whole(accepted, stream)'
  <2>1. stream[n].of \in DOMAIN accepted /\ stream[n].at \in DOMAIN accepted[stream[n].of]
    BY <1>3 DEF Genuine
  <2>2. PICK m \in Messages : m = accepted[stream[n].of]
    BY <1>3, <2>1
  <2>3. m \in Seq(Nat) /\ Len(m) \in Nat /\ DOMAIN m = 1 .. Len(m)
    BY MessageShape
  <2>4. stream[n].at = Len(accepted[stream[n].of])
    <3>1. ~(stream[n].at < Len(accepted[stream[n].of]))
      BY <1>1, <1>6
    <3>2. stream[n].at \in 1 .. Len(accepted[stream[n].of]) /\ Len(accepted[stream[n].of]) \in Nat
      BY <2>1, <2>2, <2>3
    <3> QED
      BY <3>1, <3>2
  <2>5. Whole(accepted, stream)
    BY <1>1, <1>6 DEF StreamInv
  <2>6. Whole(accepted, SubSeq(stream, 1, n)) /\ Whole(accepted, SubSeq(stream, n + 1, Len(stream)))
    BY <1>3, <2>4, <2>5, CutWhole
  <2> QED
    BY <1>1, <1>2, <2>6
<1>7. torn => torn'
  BY <1>1
<1>8. Ordered(UnderWay)' = Ordered(UnderWay)
      /\ Owed(accepted, Len(handled) + 1, UnderWay)' = Owed(accepted, Len(handled) + 1, UnderWay)
  BY <1>2, <1>5
<1> QED
  BY <1>2, <1>4, <1>6, <1>7, <1>8 DEF StreamInv

\* A message that is handled is the first one under way.
LEMMA HandleKeeps ==
  ASSUME StreamInv, HandleMessage
  PROVE  StreamInv'
<1> DEFINE r == SubSeq(buffer, MessageLen + 1, Len(buffer))
<1>1. /\ buffer # <<>> /\ Complete /\ buffer' = r
      /\ handled' = Append(handled, [j \in 1 .. MessageLen |-> buffer[j].value])
      /\ UNCHANGED <<accepted, stream, torn>>
  BY DEF HandleMessage
<1>2. /\ accepted \in Seq(Messages) /\ Len(accepted) \in Nat /\ handled \in Seq(Seq(Nat)) /\ Len(handled) \in Nat
      /\ Genuine(accepted, buffer) /\ Genuine(accepted, stream)
      /\ buffer \in Seq(Bytes) /\ Len(buffer) \in Nat /\ stream \in Seq(Bytes) /\ Len(stream) \in Nat
      /\ DOMAIN buffer = 1 .. Len(buffer) /\ \A k \in DOMAIN buffer : buffer[k] \in Bytes
      /\ TypeInv
  BY DEF StreamInv, TypeInv, Genuine
<1>3. MessageLen \in Nat /\ MessageLen <= Len(buffer) /\ MessageLen >= 1
  <2>1. HeaderLen \in Nat /\ HeaderLen >= 2 /\ Len(buffer) >= HeaderLen
    BY <1>1, LengthAssumption DEF Complete
  <2>2. 2 \in DOMAIN buffer
    BY <1>2, <2>1
  <2>3. buffer[2].value \in Nat
    BY <1>2, <2>2 DEF Bytes
  <2> QED
    BY <1>1, <2>1, <2>3 DEF MessageLen, Complete
<1>4. TypeInv'
  <2>1. [j \in 1 .. MessageLen |-> buffer[j].value] \in Seq(Nat)
    <3>1. ASSUME NEW j \in 1 .. MessageLen  PROVE buffer[j].value \in Nat
      <4>1. j \in DOMAIN buffer
        BY <1>2, <1>3
      <4>2. buffer[j] \in Bytes
        BY <1>2, <4>1
      <4> QED
        BY <4>2 DEF Bytes
    <3> QED
      BY <1>3, <3>1
  <2>2. Genuine(accepted, r)
    <3>1. MessageLen \in 0 .. Len(buffer)
      BY <1>2, <1>3
    <3> QED
      BY <1>2, <3>1, CutGenuine
  <2>3. handled' \in Seq(Seq(Nat))
    <3> DEFINE message == [j \in 1 .. MessageLen |-> buffer[j].value]
    <3>1. message \in Seq(Nat) /\ handled' = Append(handled, message)
      BY <1>1, <2>1
    <3> HIDE DEF message
    <3> QED
      BY <1>2, <3>1
  <2> QED
    BY <1>1, <1>2, <2>2, <2>3 DEF TypeInv
<1>5. ASSUME ~torn
      PROVE  /\ Whole(accepted, buffer)' /\ Whole(accepted, stream)'
             /\ Ordered(UnderWay)'
             /\ Owed(accepted, Len(handled) + 1, UnderWay)'
             /\ Len(handled)' <= Len(accepted)'
             /\ \A i \in DOMAIN handled' : handled'[i] = accepted'[i]
  <2>1. /\ Whole(accepted, buffer) /\ Whole(accepted, stream)
        /\ Ordered(UnderWay) /\ Owed(accepted, Len(handled) + 1, UnderWay)
        /\ Len(handled) <= Len(accepted) /\ \A i \in DOMAIN handled : handled[i] = accepted[i]
    BY <1>5 DEF StreamInv
  <2>2. BeginsWhole
    BY <1>1, <1>2, <2>1, WholeBegins
  <2>3. PICK i \in DOMAIN accepted, len \in 1 .. Len(buffer) :
          /\ i = buffer[1].of /\ len = MessageLen /\ len = Len(accepted[i])
          /\ [j \in 1 .. len |-> buffer[j].value] = accepted[i]
          /\ \A j \in 1 .. len : buffer[j].of = i /\ buffer[j].at = j
    BY <1>2, <2>2, FrontMessage
  <2>4. /\ UnderWay \in Seq(Bytes) /\ Len(UnderWay) = Len(buffer) + Len(stream)
        /\ DOMAIN UnderWay = 1 .. Len(buffer) + Len(stream)
        /\ \A k \in DOMAIN buffer : UnderWay[k] = buffer[k]
        /\ Genuine(accepted, UnderWay)
    BY <1>2, JoinGenuine DEF UnderWay
  <2>5. len \in 1 .. Len(UnderWay) /\ \A j \in 1 .. len : UnderWay[j].of = i /\ UnderWay[j].at = j
    <3>1. len \in 1 .. Len(UnderWay)
      BY <1>2, <2>3, <2>4
    <3>2. ASSUME NEW j \in 1 .. len  PROVE UnderWay[j].of = i /\ UnderWay[j].at = j
      <4>1. j \in DOMAIN buffer
        BY <1>2, <2>3
      <4> QED
        BY <2>3, <2>4, <4>1
    <3> QED
      BY <3>1, <3>2
  <2>6. i = Len(handled) + 1
    <3>1. 1 \in 1 .. len /\ 1 \in DOMAIN UnderWay
      BY <1>2, <2>3, <2>4
    <3>2. UnderWay[1].of = i /\ UnderWay[1].at = 1
      BY <2>5, <3>1
    <3>3. Len(handled) + 1 \in Nat \ {0}
      BY <1>2
    <3> QED
      BY <1>2, <2>1, <2>4, <3>1, <3>2, <3>3, FirstOwed
  <2>7. UnderWay' = SubSeq(UnderWay, len + 1, Len(UnderWay))
    <3>1. SubSeq(buffer, len + 1, Len(buffer)) \o stream
            = SubSeq(buffer \o stream, len + 1, Len(buffer \o stream))
      BY <1>2, <2>3, CutFront
    <3>2. buffer' = SubSeq(buffer, len + 1, Len(buffer)) /\ stream' = stream
      BY <1>1, <2>3
    <3> QED
      BY <3>1, <3>2 DEF UnderWay
  <2>8. Ordered(UnderWay') /\ Owed(accepted, i + 1, UnderWay')
    <3>1. i \in Nat \ {0} /\ Owed(accepted, i, UnderWay)
      BY <2>1, <2>3, <2>6
    <3> QED
      BY <1>2, <2>1, <2>3, <2>4, <2>5, <2>7, <3>1, TakeFirst
  <2>9. Whole(accepted, r)
    <3>1. buffer[len].of = i /\ buffer[len].at = len
      BY <1>2, <2>3
    <3>2. buffer[len].at = Len(accepted[buffer[len].of])
      BY <2>3, <3>1
    <3>3. Whole(accepted, SubSeq(buffer, len + 1, Len(buffer)))
      BY <1>2, <2>1, <3>2, CutWhole
    <3> QED
      BY <2>3, <3>3
  <2>10. /\ handled' = Append(handled, accepted[i]) /\ accepted[i] \in Messages
         /\ Len(handled') = i /\ i <= Len(accepted)
    <3>1. handled' = Append(handled, accepted[i])
      BY <1>1, <2>3
    <3>2. accepted[i] \in Messages /\ i <= Len(accepted)
      BY <1>2
    <3>3. Len(handled') = Len(handled) + 1
      BY <1>2, <3>1
    <3> QED
      BY <2>6, <3>1, <3>2, <3>3
  <2>11. \A k \in DOMAIN handled' : handled'[k] = accepted[k]
    BY <1>2, <2>1, <2>6, <2>10
  <2> QED
    BY <1>1, <2>1, <2>8, <2>9, <2>10, <2>11
<1> QED
  BY <1>1, <1>4, <1>5 DEF StreamInv

\* As long as no message is torn, nothing is left over.
LEMMA DropKeeps ==
  ASSUME StreamInv, Drop
  PROVE  StreamInv'
<1>1. /\ buffer # <<>> /\ ~Complete /\ buffer' = <<>>
      /\ UNCHANGED <<accepted, stream, torn, handled>>
  BY DEF Drop
<1>2. TypeInv
  BY DEF StreamInv
<1>3. torn
  BY <1>1, <1>2, WholeBegins, FrontMessage DEF StreamInv
<1>4. Genuine(accepted, <<>>)
  BY DEF Genuine
<1>5. TypeInv'
  BY <1>1, <1>2, <1>4 DEF TypeInv
<1> QED
  BY <1>1, <1>3, <1>5 DEF StreamInv

\* The invariant holds throughout.
THEOREM Invariance == Spec => []StreamInv
<1>1. StreamInv /\ [Next]_vars => StreamInv'
  <2> SUFFICES ASSUME StreamInv, [Next]_vars  PROVE StreamInv'
    OBVIOUS
  <2>1. CASE SendRefused \/ UNCHANGED vars
    <3>1. UNCHANGED <<accepted, torn, stream, buffer, handled>>
      BY <2>1 DEF SendRefused, vars
    <3>2. UnderWay' = UnderWay
      BY <3>1 DEF UnderWay
    <3> QED
      BY <3>1, <3>2 DEF StreamInv, TypeInv
  <2> QED
    BY <2>1, SendKeeps, RecvKeeps, HandleKeeps, DropKeeps DEF Next
<1> QED
  BY InitInv, <1>1, PTL DEF Spec

\* What a sender is told is sent is handled in this order, or whole and in this
\* order on its way, until a message is written or received in part
\* (_sendMessage, _send_message and the two receive loops).
THEOREM SentIsNotLost == Spec => []SentIsHandledOrUnderWay
<1>1. StreamInv => SentIsHandledOrUnderWay
  <2> SUFFICES ASSUME StreamInv, ~torn
               PROVE  /\ Len(handled) <= Len(accepted)
                      /\ handled = SubSeq(accepted, 1, Len(handled))
                      /\ {<<UnderWay[k].of, UnderWay[k].at>> : k \in DOMAIN UnderWay} =
                           UNION {{i} \X DOMAIN accepted[i] : i \in Len(handled) + 1 .. Len(accepted)}
                      /\ \A k, l \in DOMAIN UnderWay : k < l => Before(UnderWay[k], UnderWay[l])
    BY DEF SentIsHandledOrUnderWay, Before
  <2>1. /\ accepted \in Seq(Messages) /\ Len(accepted) \in Nat
        /\ handled \in Seq(Seq(Nat)) /\ Len(handled) \in Nat /\ Len(handled) <= Len(accepted)
        /\ Genuine(accepted, UnderWay)
    BY JoinGenuine DEF StreamInv, TypeInv, UnderWay
  <2>2. handled = SubSeq(accepted, 1, Len(handled))
    BY <2>1 DEF StreamInv
  <2>3. ASSUME NEW k \in DOMAIN UnderWay
        PROVE  UnderWay[k].of \in Len(handled) + 1 .. Len(accepted)
               /\ UnderWay[k].at \in DOMAIN accepted[UnderWay[k].of]
    <3>1. UnderWay[k].of >= Len(handled) + 1
      BY DEF StreamInv, Owed
    <3>2. UnderWay[k].of \in DOMAIN accepted /\ UnderWay[k].at \in DOMAIN accepted[UnderWay[k].of]
      BY <2>1 DEF Genuine
    <3> QED
      BY <2>1, <3>1, <3>2
  <2>4. ASSUME NEW i \in Len(handled) + 1 .. Len(accepted), NEW j \in DOMAIN accepted[i]
        PROVE  \E k \in DOMAIN UnderWay : UnderWay[k].of = i /\ UnderWay[k].at = j
    <3>1. i \in DOMAIN accepted /\ i >= Len(handled) + 1
      BY <2>1
    <3> QED
      BY <3>1 DEF StreamInv, Owed
  <2> DEFINE L == {<<UnderWay[k].of, UnderWay[k].at>> : k \in DOMAIN UnderWay}
             R == UNION {{i} \X DOMAIN accepted[i] : i \in Len(handled) + 1 .. Len(accepted)}
  <2>5. L \subseteq R
    BY <2>3
  <2>6. R \subseteq L
    BY <2>4
  <2> QED
    BY <2>1, <2>2, <2>5, <2>6 DEF StreamInv, Ordered
<1> QED
  BY <1>1, Invariance, PTL

\* A whole message at the beginning of what is left of a recv is handled as it
\* was sent, and taken out of the buffer in one piece, whatever came before it
\* (client_listener_thread, _receiveDataAndParseMessage).
THEOREM WholeMessagesRead == Spec => ReadsWholeMessages
<1>1. StreamInv /\ [Next]_vars =>
        (BeginsWhole /\ buffer' # buffer =>
           /\ handled' = Append(handled, accepted[buffer[1].of])
           /\ buffer' = SubSeq(buffer, Len(accepted[buffer[1].of]) + 1, Len(buffer)))
  <2> SUFFICES ASSUME StreamInv, [Next]_vars, BeginsWhole, buffer' # buffer
               PROVE  /\ handled' = Append(handled, accepted[buffer[1].of])
                      /\ buffer' = SubSeq(buffer, Len(accepted[buffer[1].of]) + 1, Len(buffer))
    OBVIOUS
  <2>1. /\ Complete /\ buffer # <<>> /\ MessageLen = Len(accepted[buffer[1].of])
        /\ [j \in 1 .. MessageLen |-> buffer[j].value] = accepted[buffer[1].of]
    BY FrontMessage DEF StreamInv
  <2>2. HandleMessage
    BY <2>1 DEF Next, vars, SendBlocking, SendNow, Accept, SendRefused, Recv, Drop
  <2> QED
    BY <2>1, <2>2 DEF HandleMessage
<1> QED
  BY <1>1, Invariance, PTL DEF Spec, ReadsWholeMessages

=============================================================================
