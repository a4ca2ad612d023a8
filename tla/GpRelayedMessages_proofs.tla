--------------------- MODULE GpRelayedMessages_proofs ---------------------
(***************************************************************************)
(* The properties of GpRelayedMessages, for every base, number of messages *)
(* on their way, clock and skew.  First the arithmetic of digits, from     *)
(* which serialize and putHeaderInMessage are shown to be inverse for      *)
(* every message; then the invariant, which says what can be on a link at  *)
(* a time.                                                                 *)
(***************************************************************************)
EXTENDS GpRelayedMessages, SequenceTheorems, TLAPS

\* The values of a byte.
Byte == 0 .. Base - 1

\* Division takes a product apart again.
LEMMA DivMod ==
  ASSUME NEW m \in Nat \ {0}, NEW q \in Int, NEW r \in 0 .. m - 1
  PROVE  (q * m + r) \div m = q /\ (q * m + r) % m = r
  OBVIOUS

\* A product of naturals is a natural, and grows with its first factor.
LEMMA Product ==
  ASSUME NEW m \in Nat \ {0}, NEW q \in Nat, NEW n \in Nat, q <= n
  PROVE  q * m \in Nat /\ n * m \in Nat /\ q * m <= n * m
  OBVIOUS

\* The weights of the digits are positive.
LEMMA Weights == {1, Base, Base2, Base3, Base4} \subseteq Nat \ {0}
<1>1. Base \in Nat \ {0}
  BY BaseAssumption
<1>2. Base2 \in Nat \ {0}
  BY <1>1 DEF Base2
<1>3. Base3 \in Nat \ {0}
  BY <1>1, <1>2 DEF Base3
<1>4. Base4 \in Nat \ {0}
  BY <1>1, <1>3 DEF Base4
<1> QED
  BY <1>1, <1>2, <1>3, <1>4

\* A digit in front of a smaller value is below the product of the two bounds.
LEMMA Joined ==
  ASSUME NEW n \in Nat \ {0}, NEW m \in Nat \ {0}, NEW q \in 0 .. n - 1, NEW r \in 0 .. m - 1
  PROVE  q * m + r \in 0 .. n * m - 1
<1>1. q * m \in Nat /\ (n - 1) * m \in Nat /\ q * m <= (n - 1) * m
  BY Product
<1>2. (n - 1) * m = n * m - m /\ n * m \in Nat
  OBVIOUS
<1> QED
  BY <1>1, <1>2

\* A value below a product is a digit and a smaller value behind it.
LEMMA Parted ==
  ASSUME NEW n \in Nat \ {0}, NEW m \in Nat \ {0}, NEW v \in 0 .. n * m - 1
  PROVE  v \div m \in 0 .. n - 1 /\ v % m \in 0 .. m - 1 /\ v = (v \div m) * m + (v % m)
<1> DEFINE q == v \div m
<1>1. n * m \in Nat /\ v \in Nat /\ v < n * m
  OBVIOUS
<1>2. q \in Nat /\ v % m \in 0 .. m - 1 /\ v = q * m + (v % m)
  BY <1>1
<1> HIDE DEF q
<1>3. q * m \in Nat /\ q * m <= v
  BY <1>1, <1>2
<1>4. q < n
  <2>1. SUFFICES ASSUME n <= q PROVE FALSE
    BY <1>2
  <2>2. n * m <= q * m
    BY <2>1, <1>2, Product
  <2> QED
    BY <2>2, <1>1, <1>3
<1>5. q \in 0 .. n - 1
  BY <1>2, <1>4
<1> QED
  BY <1>2, <1>5 DEF q

\* The values of two and of four bytes, given from the highest.
Word16(a, b) == a * Base + b
Word32(a, b, c, d) == a * Base3 + b * Base2 + c * Base + d

\* The digits of a value of two bytes are its bytes.
LEMMA Digits16 ==
  ASSUME NEW a \in Byte, NEW b \in Byte
  PROVE  /\ Word16(a, b) \in 0 .. Base2 - 1
         /\ Digit(Word16(a, b), Base) = a
         /\ Digit(Word16(a, b), 1) = b
<1>1. Base \in Nat \ {0} /\ a \in Nat /\ b \in Nat
  BY Weights DEF Byte
<1>2. a * Base + b \in 0 .. Base * Base - 1
  BY <1>1, Joined DEF Byte
<1>3. (a * Base + b) \div Base = a /\ (a * Base + b) % Base = b
  BY <1>1, DivMod DEF Byte
<1>4. (0 * Base + a) % Base = a
  BY <1>1, DivMod DEF Byte
<1>5. 0 * Base + a = a /\ a * Base + b \in Nat
  BY <1>1
<1>6. (a * Base + b) \div 1 = a * Base + b
  BY <1>5
<1> QED
  BY <1>2, <1>3, <1>4, <1>5, <1>6 DEF Word16, Digit, Base2

\* A value of two bytes is made of its digits.
LEMMA Split16 ==
  ASSUME NEW v \in 0 .. Base2 - 1
  PROVE  \E a, b \in Byte : v = Word16(a, b)
<1>1. Base \in Nat \ {0} /\ v \in 0 .. Base * Base - 1
  BY Weights DEF Base2
<1>2. v \div Base \in 0 .. Base - 1 /\ v % Base \in 0 .. Base - 1
      /\ v = (v \div Base) * Base + (v % Base)
  BY <1>1, Parted
<1> QED
  BY <1>2 DEF Byte, Word16

\* The digits of a value of four bytes are its bytes.
LEMMA Digits32 ==
  ASSUME NEW a \in Byte, NEW b \in Byte, NEW c \in Byte, NEW d \in Byte
  PROVE  /\ Word32(a, b, c, d) \in 0 .. Base4 - 1
         /\ Digit(Word32(a, b, c, d), Base3) = a
         /\ Digit(Word32(a, b, c, d), Base2) = b
         /\ Digit(Word32(a, b, c, d), Base) = c
         /\ Digit(Word32(a, b, c, d), 1) = d
<1> DEFINE ab == a * Base + b
           cd == c * Base + d
           abc == ab * Base + c
           bcd == b * Base2 + cd
           v == Word32(a, b, c, d)
<1>1. /\ Base \in Nat \ {0} /\ Base2 \in Nat \ {0} /\ Base3 \in Nat \ {0}
      /\ a \in Nat /\ b \in Nat /\ c \in Nat /\ d \in Nat
  BY Weights DEF Byte
<1>2. ab \in 0 .. Base2 - 1 /\ cd \in 0 .. Base2 - 1
  BY <1>1, Joined DEF Byte, Base2
<1>3. bcd \in 0 .. Base3 - 1
  BY <1>1, <1>2, Joined DEF Byte, Base3
<1>4. a * Base3 + bcd \in 0 .. Base4 - 1
  <2> HIDE DEF bcd
  <2> QED
    BY <1>1, <1>3, Joined DEF Byte, Base4
<1>5. ab \in Nat /\ cd \in Nat /\ abc \in Nat /\ bcd \in Nat
  BY <1>1
<1>6. v = a * Base3 + bcd
  BY <1>1 DEF Word32
<1>7. v = ab * Base2 + cd
  <2>1. a * (Base * Base2) = (a * Base) * Base2
    BY <1>1
  <2>2. (a * Base + b) * Base2 = (a * Base) * Base2 + b * Base2
    BY <1>1
  <2> QED
    BY <1>1, <2>1, <2>2 DEF Word32, Base3
<1>8. v = abc * Base + d
  <2>1. ab * (Base * Base) = (ab * Base) * Base
    BY <1>1, <1>5
  <2>2. (ab * Base + c) * Base = (ab * Base) * Base + c * Base
    BY <1>1, <1>5
  <2>3. v = ab * Base2 + (c * Base + d)
    BY <1>7
  <2> HIDE DEF ab, v
  <2> QED
    BY <1>1, <1>5, <2>1, <2>2, <2>3 DEF Base2
<1> HIDE DEF ab, cd, abc, bcd, v
<1>9. v \div Base3 = a
  BY <1>1, <1>3, <1>6, DivMod
<1>10. v \div Base2 = ab
  BY <1>1, <1>2, <1>5, <1>7, DivMod
<1>11. v \div Base = abc /\ v % Base = d
  BY <1>1, <1>5, <1>8, DivMod DEF Byte
<1>12. a % Base = a
  <2>1. (0 * Base + a) % Base = a
    BY <1>1, DivMod DEF Byte
  <2> QED
    BY <1>1, <2>1
<1>13. ab % Base = b
  BY <1>1, DivMod DEF Byte, ab
<1>14. abc % Base = c
  BY <1>1, <1>5, DivMod DEF Byte, abc
<1>15. v \div 1 = v
  <2>1. v \in Nat
    BY <1>4, <1>6
  <2> QED
    BY <2>1
<1>16. v \in 0 .. Base4 - 1
  BY <1>4, <1>6
<1>17. /\ Digit(v, Base3) = a /\ Digit(v, Base2) = b /\ Digit(v, Base) = c /\ Digit(v, 1) = d
  BY <1>9, <1>10, <1>11, <1>12, <1>13, <1>14, <1>15 DEF Digit
<1> QED
  BY <1>16, <1>17 DEF v

\* A value of four bytes is made of its digits.
LEMMA Split32 ==
  ASSUME NEW v \in 0 .. Base4 - 1
  PROVE  \E a, b, c, d \in Byte : v = Word32(a, b, c, d)
<1>1. Base \in Nat \ {0} /\ Base2 \in Nat \ {0} /\ Base3 \in Nat \ {0}
  BY Weights
<1>2. PICK a \in Byte, x \in 0 .. Base3 - 1 : v = a * Base3 + x
  <2>1. v \in 0 .. Base * Base3 - 1
    BY <1>1 DEF Base4
  <2>2. v \div Base3 \in Byte /\ v % Base3 \in 0 .. Base3 - 1 /\ v = (v \div Base3) * Base3 + (v % Base3)
    BY <2>1, <1>1, Parted DEF Byte
  <2> QED
    BY <2>2
<1>3. PICK b \in Byte, y \in 0 .. Base2 - 1 : x = b * Base2 + y
  <2>1. x \in 0 .. Base * Base2 - 1
    BY <1>2 DEF Base3
  <2>2. x \div Base2 \in Byte /\ x % Base2 \in 0 .. Base2 - 1 /\ x = (x \div Base2) * Base2 + (x % Base2)
    BY <2>1, <1>1, Parted DEF Byte
  <2> QED
    BY <2>2
<1>4. PICK c \in Byte, d \in 0 .. Base - 1 : y = c * Base + d
  <2>1. y \in 0 .. Base * Base - 1
    BY <1>3 DEF Base2
  <2>2. y \div Base \in Byte /\ y % Base \in 0 .. Base - 1 /\ y = (y \div Base) * Base + (y % Base)
    BY <2>1, <1>1, Parted DEF Byte
  <2> QED
    BY <2>2
<1>5. v = Word32(a, b, c, d)
  <2>1. a \in Nat /\ b \in Nat /\ c \in Nat /\ d \in Nat
    BY <1>1 DEF Byte
  <2>2. a * Base3 \in Nat /\ b * Base2 \in Nat /\ c * Base \in Nat
    BY <1>1, <2>1
  <2>3. v = a * Base3 + (b * Base2 + (c * Base + d))
    BY <1>2, <1>3, <1>4
  <2> QED
    BY <2>1, <2>2, <2>3 DEF Word32
<1> QED
  BY <1>5 DEF Byte

\* Swapping the bytes of a value turns their order round.
LEMMA Swapped ==
  ASSUME NEW a \in Byte, NEW b \in Byte, NEW c \in Byte, NEW d \in Byte
  PROVE  /\ Swap16(Word16(a, b)) = Word16(b, a)
         /\ Swap32(Word32(a, b, c, d)) = Word32(d, c, b, a)
<1>1. Swap16(Word16(a, b)) = Word16(b, a)
  BY Digits16 DEF Swap16, Word16
<1>2. Swap32(Word32(a, b, c, d)) = Word32(d, c, b, a)
  BY Digits32 DEF Swap32, Word32
<1> QED
  BY <1>1, <1>2

\* The size's two bytes, as serialize writes them, read as the size.
LEMMA SizeRead ==
  ASSUME NEW v \in 0 .. Base2 - 1
  PROVE  /\ Digit(Swap16(v), 1) \in Byte /\ Digit(Swap16(v), Base) \in Byte
         /\ ByteUnpack16(Digit(Swap16(v), 1), Digit(Swap16(v), Base)) = v
<1>1. PICK a \in Byte, b \in Byte : v = Word16(a, b)
  BY Split16
<1>2. Swap16(v) = Word16(b, a)
  BY <1>1, Swapped
<1>3. Digit(Swap16(v), 1) = a /\ Digit(Swap16(v), Base) = b
  BY <1>2, Digits16
<1>4. ByteUnpack16(a, b) = v
  <2>1. ByteUnpack16(a, b) = Swap16(Word16(b, a))
    BY DEF ByteUnpack16, Word16
  <2> QED
    BY <2>1, <1>1, Swapped
<1> QED
  BY <1>3, <1>4

\* The timestamp's four bytes, as serialize writes them, read as the timestamp.
LEMMA TimestampRead ==
  ASSUME NEW v \in 0 .. Base4 - 1
  PROVE  LET ts == Swap32(v) IN
         /\ {Digit(ts, Base3), Digit(ts, Base2), Digit(ts, Base), Digit(ts, 1)} \subseteq Byte
         /\ ByteUnpack32(Digit(ts, Base3), Digit(ts, Base2), Digit(ts, Base), Digit(ts, 1)) = v
<1> DEFINE ts == Swap32(v)
<1>1. PICK a \in Byte, b \in Byte, c \in Byte, d \in Byte : v = Word32(a, b, c, d)
  BY Split32
<1>2. ts = Word32(d, c, b, a)
  BY <1>1, Swapped
<1> HIDE DEF ts
<1>3. Digit(ts, Base3) = d /\ Digit(ts, Base2) = c /\ Digit(ts, Base) = b /\ Digit(ts, 1) = a
  BY <1>2, Digits32
<1>4. ByteUnpack32(d, c, b, a) = v
  <2>1. ByteUnpack32(d, c, b, a) = Swap32(Word32(d, c, b, a))
    BY DEF ByteUnpack32, Word32
  <2> QED
    BY <2>1, <1>1, Swapped
<1>5. {Digit(ts, Base3), Digit(ts, Base2), Digit(ts, Base), Digit(ts, 1)} \subseteq Byte
  BY <1>3
<1>6. ByteUnpack32(Digit(ts, Base3), Digit(ts, Base2), Digit(ts, Base), Digit(ts, 1)) = v
  BY <1>3, <1>4
<1> QED
  BY <1>5, <1>6 DEF ts
-----------------------------------------------------------------------------
(* Messages. *)

\* What a message is built of: its size is that of its payload.
Message ==
  {m \in [type : Type, size : 0 .. Base2 - 1, timestamp : 0 .. Base4 - 1, payload : Seq(Byte)] :
     m.size = Len(m.payload)}

\* What a message's bytes are: the conversions never look into a type.
Sent == Type \cup Byte

\* What follows the first of two sequences is the second.
LEMMA Behind ==
  ASSUME NEW S, NEW s \in Seq(S), NEW t \in Seq(S), t # <<>>,
         NEW first, first = Len(s) + 1, NEW last, last = Len(s) + Len(t)
  PROVE  SubSeq(s \o t, first, last) = t
<1>1. Len(s) \in Nat /\ Len(t) \in Nat /\ Len(t) # 0
  BY EmptySeq
<1>2. first \in Len(s) + 1 .. Len(s) + Len(t) /\ last \in Len(s) + 1 .. Len(s) + Len(t)
  BY <1>1
<1>3. SubSeq(s \o t, first, last) = SubSeq(t, first - Len(s), last - Len(s))
  BY <1>2, SubSeqOfConcat2
<1>4. first - Len(s) = 1 /\ last - Len(s) = Len(t)
  BY <1>1
<1> QED
  BY <1>3, <1>4, SubSeqFull

\* A message of the model is what its reader makes of its bytes.
LEMMA SerializedRead ==
  ASSUME NEW m \in Message
  PROVE  Serialize(m) \in Seq(Sent) /\ Received(Serialize(m)) = m
<1> DEFINE net == Swap16(m.size)
           ts == Swap32(m.timestamp)
           s0 == Digit(net, 1)
           s1 == Digit(net, Base)
           t0 == Digit(ts, Base3)
           t1 == Digit(ts, Base2)
           t2 == Digit(ts, Base)
           t3 == Digit(ts, 1)
           header == <<m.type, s0, s1, t0, t1, t2, t3>>
           bytes == header \o m.payload
<1>1. /\ m.type \in Type /\ m.size \in 0 .. Base2 - 1 /\ m.timestamp \in 0 .. Base4 - 1
      /\ m.payload \in Seq(Byte) /\ m.size = Len(m.payload)
      /\ m = [type |-> m.type, size |-> m.size, timestamp |-> m.timestamp, payload |-> m.payload]
  BY DEF Message
<1>2. s0 \in Byte /\ s1 \in Byte /\ ByteUnpack16(s0, s1) = m.size
  BY <1>1, SizeRead
<1>3. {t0, t1, t2, t3} \subseteq Byte /\ ByteUnpack32(t0, t1, t2, t3) = m.timestamp
  BY <1>1, TimestampRead
<1>4. Serialize(m) = bytes
  BY DEF Serialize
<1> HIDE DEF net, ts, s0, s1, t0, t1, t2, t3
<1>5. header \in Seq(Sent) /\ Len(header) = 7
  BY <1>1, <1>2, <1>3 DEF Sent
<1>6. m.payload \in Seq(Sent) /\ Len(m.payload) \in Nat
  BY <1>1 DEF Sent
<1>7. /\ header[1] = m.type /\ header[2] = s0 /\ header[3] = s1
      /\ header[4] = t0 /\ header[5] = t1 /\ header[6] = t2 /\ header[7] = t3
  OBVIOUS
<1> HIDE DEF header
<1>8. /\ bytes \in Seq(Sent)
      /\ \A i \in 1 .. 7 : bytes[i] = header[i]
  <2>1. /\ bytes \in Seq(Sent) /\ Len(bytes) = Len(header) + Len(m.payload)
        /\ \A i \in 1 .. Len(header) + Len(m.payload) :
             bytes[i] = IF i <= Len(header) THEN header[i] ELSE (m.payload)[i - Len(header)]
    BY <1>5, <1>6, ConcatProperties
  <2> QED
    BY <2>1, <1>5, <1>6
<1>9. SubSeq(bytes, 8, 7 + m.size) = m.payload
  <2>1. CASE m.size = 0
    <3>1. SubSeq(bytes, 8, 7) = <<>>
      BY SubSeqEmpty
    <3>2. m.payload = <<>>
      BY <2>1, <1>1, <1>6, EmptySeq
    <3> QED
      BY <2>1, <3>1, <3>2
  <2>2. CASE m.size # 0
    <3> DEFINE payload == m.payload
               first == 8
               last == 7 + m.size
    <3>1. header \in Seq(Sent) /\ payload \in Seq(Sent) /\ payload # <<>>
      BY <2>2, <1>1, <1>5, <1>6, EmptySeq
    <3>2. first = Len(header) + 1 /\ last = Len(header) + Len(payload)
      BY <1>1, <1>5, <1>6
    <3>3. bytes = header \o payload
      OBVIOUS
    <3> HIDE DEF payload, first, last, bytes
    <3>4. SubSeq(header \o payload, first, last) = payload
      BY <3>1, <3>2, Behind
    <3> QED
      BY <1>1, <3>3, <3>4 DEF payload, first, last
  <2> QED
    BY <2>1, <2>2
<1> HIDE DEF bytes
<1>10. PutHeader(bytes) = [type |-> m.type, size |-> m.size, timestamp |-> m.timestamp, payload |-> <<>>]
  BY <1>2, <1>3, <1>7, <1>8 DEF PutHeader
<1>11. Received(bytes) = [type |-> m.type, size |-> m.size, timestamp |-> m.timestamp,
                         payload |-> SubSeq(bytes, 8, 7 + m.size)]
  <2> DEFINE read == PutHeader(bytes)
  <2>1. Received(bytes) = [read EXCEPT !.payload = SubSeq(bytes, 7 + 1, 7 + read.size)]
    BY DEF Received, HeaderLen
  <2>2. 7 + 1 = 8 /\ read.size = m.size
    BY <1>10
  <2> HIDE DEF read
  <2>3. read = [type |-> m.type, size |-> m.size, timestamp |-> m.timestamp, payload |-> <<>>]
    BY <1>10 DEF read
  <2> QED
    BY <2>1, <2>2, <2>3
<1> QED
  BY <1>1, <1>4, <1>8, <1>9, <1>11

\* A field of a login has its fixed length, and holds what was given for it.
LEMMA ResizedHolds ==
  ASSUME NEW text \in Seq(Byte), NEW n \in Nat
  PROVE  /\ Resized(text, n) \in Seq(Byte) /\ Len(Resized(text, n)) = n
         /\ Holds(Resized(text, n), text)
<1>1. 0 \in Byte
  BY Weights DEF Byte
<1>2. \A i \in 1 .. n : (IF i <= Len(text) THEN text[i] ELSE 0) \in Byte
  BY <1>1
<1>3. Resized(text, n) \in [1 .. n -> Byte]
  BY <1>2 DEF Resized
<1>4. Resized(text, n) \in Seq(Byte) /\ Len(Resized(text, n)) = n
  BY <1>3
<1>5. Holds(Resized(text, n), text)
  BY DEF Holds, Resized
<1> QED
  BY <1>4, <1>5

\* The name read from a login is the one given, and the key does not run into it.
LEMMA LoginPayloadRead ==
  ASSUME NEW given \in Login
  PROVE  LET payload == LoginPayload(given.user, given.key) IN
         /\ payload \in Seq(Byte) /\ Len(payload) = UserLen + KeyLen
         /\ Len(LoginRead(payload).user) = UserLen
         /\ Holds(LoginRead(payload).user, given.user)
<1> DEFINE user == Resized(given.user, UserLen)
           key == Resized(given.key, KeyLen)
           payload == user \o key
<1>1. UserLen \in Nat \ {0} /\ KeyLen \in Nat \ {0}
  BY LoginAssumption
<1>2. given.user \in Seq(Byte) /\ given.key \in Seq(Byte)
  BY LoginsAssumption DEF Byte
<1>3. user \in Seq(Byte) /\ Len(user) = UserLen /\ Holds(user, given.user)
  BY <1>1, <1>2, ResizedHolds
<1>4. key \in Seq(Byte) /\ Len(key) = KeyLen
  BY <1>1, <1>2, ResizedHolds
<1>5. LoginPayload(given.user, given.key) = payload
  BY DEF LoginPayload
<1> HIDE DEF user, key
<1>6. payload \in Seq(Byte) /\ Len(payload) = UserLen + KeyLen
  BY <1>3, <1>4, ConcatProperties
<1>7. SubSeq(payload, 1, UserLen) = user
  <2>1. SubSeq(payload, 1, UserLen) = SubSeq(user, 1, UserLen)
    BY <1>1, <1>3, <1>4, SubSeqOfConcat1
  <2> QED
    BY <2>1, <1>3, SubSeqFull
<1> HIDE DEF payload
<1>8. LoginRead(payload).user = user
  BY <1>7 DEF LoginRead
<1> QED
  BY <1>3, <1>5, <1>6, <1>8

\* Subtracting clocks cut to four bytes gives the difference cut to four bytes.
LEMMA ElapsedCut ==
  ASSUME NEW m \in Nat \ {0}, NEW from \in Nat, NEW to \in Nat, from <= to
  PROVE  ((to % m) - (from % m)) % m = (to - from) % m
<1> DEFINE p == to \div m
           q == from \div m
           r == to % m
           s == from % m
<1>1. /\ p \in Int /\ q \in Int /\ r \in 0 .. m - 1 /\ s \in 0 .. m - 1
      /\ to = p * m + r /\ from = q * m + s
  OBVIOUS
<1> HIDE DEF p, q, r, s
<1>2. to - from = (p - q) * m + (r - s)
  <2>1. (p - q) * m = p * m - q * m
    BY <1>1
  <2>2. p * m \in Int /\ q * m \in Int
    BY <1>1
  <2> QED
    BY <1>1, <2>1, <2>2
<1>3. CASE s <= r
  <2>1. r - s \in 0 .. m - 1
    BY <1>1, <1>3
  <2>2. ((p - q) * m + (r - s)) % m = r - s
    BY <2>1, <1>1, DivMod
  <2>3. (0 * m + (r - s)) % m = r - s /\ 0 * m + (r - s) = r - s
    BY <2>1, DivMod
  <2> QED
    BY <1>2, <2>2, <2>3 DEF r, s
<1>4. CASE r < s
  <2>1. r - s + m \in 0 .. m - 1
    BY <1>1, <1>4
  <2>2. ((p - q - 1) * m + (r - s + m)) % m = r - s + m
    BY <2>1, <1>1, DivMod
  <2>3. ((-1) * m + (r - s + m)) % m = r - s + m
    <3>1. PICK k \in Int : k = -1
      OBVIOUS
    <3>2. (k * m + (r - s + m)) % m = r - s + m
      BY <2>1, DivMod
    <3> QED
      BY <3>1, <3>2
  <2>4. (-1) * m + (r - s + m) = r - s
    BY <1>1
  <2>5. (p - q - 1) * m + (r - s + m) = (p - q) * m + (r - s)
    <3>1. (p - q - 1) * m = (p - q) * m - m /\ (p - q) * m \in Int
      BY <1>1
    <3> QED
      BY <3>1, <1>1
  <2> QED
    BY <1>2, <2>2, <2>3, <2>4, <2>5 DEF r, s
<1> QED
  BY <1>1, <1>3, <1>4
-----------------------------------------------------------------------------
(* The inductive invariant. *)

\* What can be on a link at a time t: a message that was sent by then, the
\* bytes of it, its stamp, and the login it was built from.
UnderWay(t) ==
  {e \in [bytes : Seq(Sent), message : Message, born : 0 .. t, given : Login \cup {None}] :
     /\ e.bytes = Serialize(e.message)
     /\ e.message.timestamp = e.born % Base4
     /\ e.message.type = "LOGIN" =>
          /\ e.given \in Login
          /\ e.message.payload = LoginPayload(e.given.user, e.given.key)}

ClockInv == now \in Nat

LinkInv == link \in [Link -> Seq(UnderWay(now))]

RttInv == rtt.elapsed \in Nat /\ rtt.computed = rtt.elapsed % Base4

RelayedInv == ClockInv /\ LinkInv /\ RttInv /\ NameAsGiven

\* What is on a link is read as it was built.
LEMMA ReadUnderWay ==
  ASSUME NEW t, NEW e \in UnderWay(t)
  PROVE  e.message \in Message /\ e.bytes = Serialize(e.message) /\ Received(e.bytes) = e.message
  BY SerializedRead DEF UnderWay

\* What is at the head of a link is under way, is read as it was built, and
\* leaves only what is under way behind it.
LEMMA HeadUnderWay ==
  ASSUME RelayedInv, NEW l \in Link, link[l] # <<>>
  PROVE  /\ Head(link[l]) \in UnderWay(now)
         /\ Tail(link[l]) \in Seq(UnderWay(now))
         /\ Arrived(l) = Head(link[l]).message
<1>1. link[l] \in Seq(UnderWay(now))
  BY DEF RelayedInv, LinkInv
<1>2. Head(link[l]) \in UnderWay(now) /\ Tail(link[l]) \in Seq(UnderWay(now))
  BY <1>1, HeadTailProperties
<1> QED
  BY <1>2, ReadUnderWay DEF Arrived

\* A new message is under way as soon as it is sent.
LEMMA SendKeeps ==
  ASSUME RelayedInv, NEW type \in Type \ {"PONG"}, NEW size \in 0 .. Base2 - 1,
         NEW payload \in Seq(Byte), size = Len(payload), NEW given \in Login \cup {None},
         type = "LOGIN" => given \in Login /\ payload = LoginPayload(given.user, given.key),
         ControllerSends(type, size, payload, given)
  PROVE  RelayedInv'
<1> DEFINE stamp == now % Base4
           m == [type |-> type, size |-> size, timestamp |-> stamp, payload |-> payload]
           entry == [bytes |-> Serialize(m), message |-> m, born |-> now, given |-> given]
<1>1. now \in Nat /\ stamp \in 0 .. Base4 - 1
  BY Weights DEF RelayedInv, ClockInv
<1>2. Stamped([type |-> type, size |-> size, timestamp |-> 0, payload |-> payload], now) = m
  BY DEF Stamped
<1>3. /\ link' = [link EXCEPT !["toServer"] = Append(@, entry)]
      /\ login' = None /\ now' = now /\ rtt' = rtt
  BY <1>2 DEF ControllerSends
<1>4. m \in Message
  BY <1>1 DEF Message
<1>5. Serialize(m) \in Seq(Sent)
  BY <1>4, SerializedRead
<1>6. entry \in UnderWay(now)
  <2>1. m.timestamp = now % Base4 /\ m.type = type /\ m.payload = payload
    OBVIOUS
  <2> HIDE DEF m
  <2> QED
    BY <1>1, <1>4, <1>5, <2>1 DEF UnderWay
<1> HIDE DEF entry
<1>7. link \in [Link -> Seq(UnderWay(now))] /\ "toServer" \in Link
  BY DEF RelayedInv, LinkInv, Link
<1>8. Append(link["toServer"], entry) \in Seq(UnderWay(now))
  BY <1>6, <1>7, AppendProperties
<1>9. LinkInv'
  BY <1>3, <1>7, <1>8 DEF LinkInv
<1> QED
  BY <1>3, <1>9 DEF RelayedInv, ClockInv, RttInv, NameAsGiven

\* A message that is taken off its link leaves the invariant as it is.
LEMMA TakeKeeps ==
  ASSUME RelayedInv, NEW l \in Link, link[l] # <<>>,
         link' = [link EXCEPT ![l] = Tail(@)], now' = now
  PROVE  LinkInv' /\ ClockInv'
<1>1. link \in [Link -> Seq(UnderWay(now))] /\ Tail(link[l]) \in Seq(UnderWay(now))
  BY HeadUnderWay DEF RelayedInv, LinkInv
<1> QED
  BY <1>1 DEF RelayedInv, LinkInv, ClockInv

\* A message that is passed on under its stamp stays under way.
LEMMA HopKeeps ==
  ASSUME RelayedInv, NEW from \in Link, NEW to \in Link, from # to, link[from] # <<>>,
         NEW m \in Message, m.type # "LOGIN", m.timestamp = Head(link[from]).message.timestamp,
         Hop(from, to, m, m)
  PROVE  RelayedInv'
<1> DEFINE entry == [Head(link[from]) EXCEPT !.bytes = Serialize(m), !.message = m]
<1>1. login' = None /\ now' = now /\ rtt' = rtt
  BY DEF Hop
<1>2. LinkInv'
  <2>1. CASE link' = [link EXCEPT ![from] = Tail(@), ![to] = Append(@, entry)]
    <3>1. Head(link[from]) \in UnderWay(now) /\ Tail(link[from]) \in Seq(UnderWay(now))
      BY HeadUnderWay
    <3>2. Serialize(m) \in Seq(Sent)
      BY SerializedRead
    <3>3. entry \in UnderWay(now)
      <4> DEFINE head == Head(link[from])
      <4>1. /\ head \in [bytes : Seq(Sent), message : Message, born : 0 .. now,
                         given : Login \cup {None}]
            /\ m.timestamp = head.born % Base4
        BY <3>1 DEF UnderWay
      <4> HIDE DEF head
      <4>2. [head EXCEPT !.bytes = Serialize(m), !.message = m] \in UnderWay(now)
        BY <4>1, <3>2 DEF UnderWay
      <4> QED
        BY <4>2 DEF head
    <3> HIDE DEF entry
    <3>4. link \in [Link -> Seq(UnderWay(now))]
      BY DEF RelayedInv, LinkInv
    <3>5. Append(link[to], entry) \in Seq(UnderWay(now))
      BY <3>3, <3>4, AppendProperties
    <3>6. link' \in [Link -> Seq(UnderWay(now))]
      BY <2>1, <3>1, <3>4, <3>5
    <3> QED
      BY <1>1, <3>6 DEF LinkInv
  <2>2. CASE link' = [link EXCEPT ![from] = Tail(@)]
    BY <2>2, <1>1, TakeKeeps
  <2> QED
    BY <2>1, <2>2 DEF Hop
<1> QED
  BY <1>1, <1>2 DEF RelayedInv, ClockInv, RttInv, NameAsGiven

\* The server, the asset and their clients keep every message readable and every
\* stamp that of its sending (GpUavServer.cpp, GpClientNet.cpp, GpMessage.cpp).
THEOREM Invariance == Spec => []RelayedInv
<1>1. Init => RelayedInv
  <2>1. SUFFICES ASSUME Init PROVE RelayedInv
    OBVIOUS
  <2>2. ClockInv
    BY <2>1, TimeAssumption DEF Init, ClockInv
  <2>3. LinkInv
    BY <2>1, EmptySeq DEF Init, LinkInv
  <2>4. RttInv
    BY <2>1, Weights DEF Init, RttInv
  <2>5. NameAsGiven
    BY <2>1 DEF Init, NameAsGiven
  <2> QED
    BY <2>2, <2>3, <2>4, <2>5 DEF RelayedInv
<1>2. RelayedInv /\ [Next]_vars => RelayedInv'
  <2>1. SUFFICES ASSUME RelayedInv, [Next]_vars PROVE RelayedInv'
    OBVIOUS
  <2>2. CASE Tick
    <3>1. now \in Nat /\ now' = now + 1 /\ link' = link /\ rtt' = rtt /\ login' = None
      BY <2>1, <2>2 DEF Tick, RelayedInv, ClockInv
    <3>2. UnderWay(now) \subseteq UnderWay(now + 1)
      BY <3>1 DEF UnderWay
    <3>3. \A s \in Seq(UnderWay(now)) : s \in Seq(UnderWay(now + 1))
      BY <3>2
    <3>4. LinkInv'
      BY <2>1, <3>1, <3>3 DEF RelayedInv, LinkInv
    <3> QED
      BY <2>1, <3>1, <3>4 DEF RelayedInv, ClockInv, RttInv, NameAsGiven
  <2>3. CASE SendAuthenticationRequest
    <3>1. PICK given \in Login :
            ControllerSends("LOGIN", UserLen + KeyLen, LoginPayload(given.user, given.key), given)
      BY <2>3 DEF SendAuthenticationRequest
    <3>2. UserLen + KeyLen \in 0 .. Base2 - 1
      BY LoginAssumption, Weights
    <3>3. LoginPayload(given.user, given.key) \in Seq(Byte)
          /\ UserLen + KeyLen = Len(LoginPayload(given.user, given.key))
      BY LoginPayloadRead
    <3>4. "LOGIN" \in Type \ {"PONG"}
      BY DEF Type
    <3> QED
      BY <2>1, <3>1, <3>2, <3>3, <3>4, SendKeeps
  <2>4. CASE SendCommand
    <3>1. PICK payload \in Payload : ControllerSends("COMMAND", Len(payload), payload, None)
      BY <2>4 DEF SendCommand
    <3>2. payload \in Seq(Byte) /\ Len(payload) \in 0 .. Base2 - 1
      BY PayloadAssumption, Weights DEF Byte
    <3>3. "COMMAND" \in Type \ {"PONG"}
      BY DEF Type
    <3> QED
      BY <2>1, <3>1, <3>2, <3>3, SendKeeps
  <2>5. CASE SendPing
    <3>1. 0 \in 0 .. Base2 - 1 /\ <<>> \in Seq(Byte) /\ Len(<<>>) = 0
      BY Weights, EmptySeq
    <3>2. "PING" \in Type \ {"PONG"}
      BY DEF Type
    <3> QED
      BY <2>1, <2>5, <3>1, <3>2, SendKeeps DEF SendPing
  <2>6. CASE ServerReadsLogin
    <3> DEFINE head == Head(link["toServer"])
    <3>1. /\ link["toServer"] # <<>> /\ "toServer" \in Link
          /\ Arrived("toServer").type = "LOGIN"
          /\ login' = [read |-> LoginRead(Arrived("toServer").payload), given |-> head.given]
          /\ link' = [link EXCEPT !["toServer"] = Tail(@)]
          /\ now' = now /\ rtt' = rtt
      BY <2>6 DEF ServerReadsLogin, Link
    <3>2. head \in UnderWay(now) /\ Arrived("toServer") = head.message
      BY <2>1, <3>1, HeadUnderWay
    <3> HIDE DEF head
    <3>3. /\ head.given \in Login
          /\ head.message.payload = LoginPayload(head.given.user, head.given.key)
      BY <3>1, <3>2 DEF UnderWay
    <3>4. /\ Len(LoginRead(head.message.payload).user) = UserLen
          /\ Holds(LoginRead(head.message.payload).user, head.given.user)
      BY <3>3, LoginPayloadRead
    <3>5. NameAsGiven'
      BY <3>1, <3>2, <3>4 DEF NameAsGiven
    <3>6. LinkInv' /\ ClockInv'
      BY <2>1, <3>1, TakeKeeps
    <3> QED
      BY <2>1, <3>1, <3>5, <3>6 DEF RelayedInv, RttInv
  <2>7. ASSUME NEW from \in Link, NEW to \in Link, from # to, ServerRelays(from, to)
        PROVE  RelayedInv'
    <3>1. link[from] # <<>> /\ Arrived(from).type # "LOGIN"
          /\ Hop(from, to, Arrived(from), Head(link[from]).message)
      BY <2>7 DEF ServerRelays
    <3>2. Head(link[from]) \in UnderWay(now) /\ Arrived(from) = Head(link[from]).message
      BY <2>1, <3>1, HeadUnderWay
    <3>3. Arrived(from) \in Message
      BY <3>2, ReadUnderWay
    <3> QED
      BY <2>1, <2>7, <3>1, <3>2, <3>3, HopKeeps
  <2>8. CASE Bounce
    <3> DEFINE ping == Arrived("toAsset")
               pong == [ping EXCEPT !.type = "PONG"]
    <3>1. /\ link["toAsset"] # <<>> /\ "toAsset" \in Link /\ "fromAsset" \in Link
          /\ ping.type = "PING"
          /\ Hop("toAsset", "fromAsset", Stamped(pong, now + Skew),
                 [Head(link["toAsset"]).message EXCEPT !.type = "PONG"])
      BY <2>8 DEF Bounce, Link
    <3>2. Head(link["toAsset"]) \in UnderWay(now) /\ ping = Head(link["toAsset"]).message
      BY <2>1, <3>1, HeadUnderWay
    <3>3. ping \in Message
      BY <3>2, ReadUnderWay
    <3> HIDE DEF ping
    <3>4. pong \in Message /\ pong.type = "PONG" /\ pong.timestamp = ping.timestamp
      BY <3>3 DEF Message, Type
    <3>5. Stamped(pong, now + Skew) = pong
      BY <3>4 DEF Stamped
    <3>6. Hop("toAsset", "fromAsset", pong, pong)
      BY <3>1, <3>2, <3>5
    <3> HIDE DEF pong
    <3> QED
      BY <2>1, <3>1, <3>2, <3>4, <3>6, HopKeeps
  <2>9. CASE HandleCommand
    <3>1. /\ link["toAsset"] # <<>> /\ "toAsset" \in Link
          /\ link' = [link EXCEPT !["toAsset"] = Tail(@)]
          /\ login' = None /\ now' = now /\ rtt' = rtt
      BY <2>9 DEF HandleCommand, Link
    <3>2. LinkInv' /\ ClockInv'
      BY <2>1, <3>1, TakeKeeps
    <3> QED
      BY <2>1, <3>1, <3>2 DEF RelayedInv, RttInv, NameAsGiven
  <2>10. CASE ReceivePong
    <3> DEFINE head == Head(link["toController"])
    <3>1. /\ link["toController"] # <<>> /\ "toController" \in Link
          /\ rtt' = [computed |-> CompareRoundTripTime(Arrived("toController")),
                     elapsed |-> now - head.born]
          /\ link' = [link EXCEPT !["toController"] = Tail(@)]
          /\ login' = None /\ now' = now
      BY <2>10 DEF ReceivePong, Link
    <3>2. head \in UnderWay(now) /\ Arrived("toController") = head.message
      BY <2>1, <3>1, HeadUnderWay
    <3> HIDE DEF head
    <3>3. now \in Nat /\ head.born \in 0 .. now /\ head.message.timestamp = head.born % Base4
      BY <2>1, <3>2 DEF UnderWay, RelayedInv, ClockInv
    <3>4. ((now % Base4) - (head.born % Base4)) % Base4 = (now - head.born) % Base4
      <4>1. Base4 \in Nat \ {0} /\ head.born \in Nat /\ head.born <= now
        BY <3>3, Weights
      <4> QED
        BY <3>3, <4>1, ElapsedCut
    <3>5. RttInv'
      <4>1. rtt'.computed = (now - head.born) % Base4
        BY <3>1, <3>2, <3>3, <3>4 DEF CompareRoundTripTime
      <4>2. rtt'.elapsed = now - head.born
        BY <3>1
      <4>3. now - head.born \in Nat
        BY <3>3
      <4> QED
        BY <4>1, <4>2, <4>3 DEF RttInv
    <3>6. LinkInv' /\ ClockInv'
      BY <2>1, <3>1, TakeKeeps
    <3> QED
      BY <3>1, <3>5, <3>6 DEF RelayedInv, NameAsGiven
  <2>11. CASE UNCHANGED vars
    BY <2>1, <2>11 DEF vars, RelayedInv, ClockInv, LinkInv, RttInv, NameAsGiven
  <2>12. {"toServer", "toAsset", "fromAsset", "toController"} \subseteq Link
    BY DEF Link
  <2> QED
    BY <2>1, <2>2, <2>3, <2>4, <2>5, <2>6, <2>7, <2>8, <2>9, <2>10, <2>11, <2>12 DEF Next
<1> QED
  BY <1>1, <1>2, PTL DEF Spec

\* Whatever is on a link, a message at any hop, is read as it was built
\* (serialize, putHeaderInMessage, setPayload).
THEOREM MessagesReadAsBuilt == Spec => []ReadAsBuilt
<1>1. RelayedInv => ReadAsBuilt
  <2>1. SUFFICES ASSUME RelayedInv, NEW l \in Link, NEW i \in DOMAIN link[l]
                 PROVE  Received(link[l][i].bytes) = link[l][i].message
    BY DEF ReadAsBuilt
  <2>2. link[l] \in Seq(UnderWay(now))
    BY <2>1 DEF RelayedInv, LinkInv
  <2>3. link[l][i] \in UnderWay(now)
    BY <2>1, <2>2, ElementOfSeq, LenProperties
  <2> QED
    BY <2>3, ReadUnderWay
<1> QED
  BY <1>1, Invariance, PTL

\* A login's name comes out of the payload as it went in, whatever its length
\* and the key's (GpMessage_Login.cpp).
THEOREM NamesReadAsGiven == Spec => []NameAsGiven
<1>1. RelayedInv => NameAsGiven
  BY DEF RelayedInv
<1> QED
  BY <1>1, Invariance, PTL

\* What the controller computes for a PONG is the time since its PING, however
\* the clock wrapped in between (compareRoundTripTime).
THEOREM TrueRoundTripTimes == Spec => []RoundTripTimeTrue
<1>1. RelayedInv => RoundTripTimeTrue
  <2>1. SUFFICES ASSUME RelayedInv, rtt.elapsed < Base4 PROVE rtt.computed = rtt.elapsed
    BY DEF RoundTripTimeTrue
  <2>2. rtt.elapsed \in 0 .. Base4 - 1 /\ Base4 \in Nat \ {0}
    BY <2>1, Weights DEF RelayedInv, RttInv
  <2>3. (0 * Base4 + rtt.elapsed) % Base4 = rtt.elapsed /\ 0 * Base4 + rtt.elapsed = rtt.elapsed
    BY <2>2, DivMod
  <2> QED
    BY <2>1, <2>3 DEF RelayedInv, RttInv
<1> QED
  BY <1>1, Invariance, PTL
===========================================================================
