------------------------- MODULE GpRelayFlow_proofs -------------------------
(***************************************************************************)
(* Theorems about GpRelayFlow, for any number of clients, any pairing of   *)
(* them, any room in their buffers and any number of messages and faults.  *)
(*                                                                         *)
(* LockOrder is not inductive by itself: a step could take assets_mutex    *)
(* away from its holder.  IInv says of both mutexes that a thread holds    *)
(* one exactly while it is in a section that the mutex guards.             *)
(*                                                                         *)
(* Nor is WholeMessages, which does not say who may write next.  WInv adds *)
(* that a message without its second half belongs to a thread in "rest";   *)
(* by IInv there is only one such thread, and by TypeInv it still has the  *)
(* message.                                                                *)
(***************************************************************************)
EXTENDS GpRelayFlow, SequenceTheorems, TLAPS

\* The sections each mutex guards.
SendSection == {"send", "rest", "epipe", "in_epipe"}
AssetsSections == {"in_get", "in_put", "in_epipe", "in_bye"}

\* Where a thread is tells which mutexes it holds.
Holds(t) ==
  /\ pc[t] \in PC
  /\ sendMutex = t <=> pc[t] \in SendSection
  /\ assetsMutex = t <=> pc[t] \in AssetsSections

IInv ==
  /\ pc \in [Conn -> PC]
  /\ \A t \in Conn : Holds(t)

\* At most one thread of the server writes to sockets at any time.
OneSender ==
  \A t, u \in Conn : pc[t] \in SendSection /\ pc[u] \in SendSection => t = u

-----------------------------------------------------------------------------
\* A step of one thread that leaves the mutexes as its new place says, and
\* takes them only when free, keeps everybody's hold.
LEMMA ThreadKeepsHolds ==
  ASSUME IInv, NEW t \in Conn, NEW label \in PC, Goto(t, label),
         sendMutex' = IF label \in SendSection THEN t
                      ELSE IF sendMutex = t THEN None ELSE sendMutex,
         assetsMutex' = IF label \in AssetsSections THEN t
                        ELSE IF assetsMutex = t THEN None ELSE assetsMutex,
         label \in SendSection => sendMutex \in {t, None},
         label \in AssetsSections => assetsMutex \in {t, None}
  PROVE  IInv'
<1>1. /\ pc' \in [Conn -> PC]
      /\ pc'[t] = label
      /\ \A u \in Conn : u # t => pc'[u] = pc[u]
  BY DEF IInv, Goto
<1>2. Holds(t)'
  BY <1>1, ConnAssumption DEF Holds
<1>3. ASSUME NEW u \in Conn, u # t  PROVE Holds(u)'
  <2>1. Holds(u) /\ pc'[u] = pc[u]
    BY <1>1, <1>3 DEF IInv
  <2>2. sendMutex' = u <=> sendMutex = u
    BY <1>3, ConnAssumption
  <2>3. assetsMutex' = u <=> assetsMutex = u
    BY <1>3, ConnAssumption
  <2>4. QED
    BY <2>1, <2>2, <2>3 DEF Holds
<1>4. QED
  BY <1>1, <1>2, <1>3 DEF IInv

\* A step that moves no thread and touches no mutex keeps the invariant.
LEMMA OthersKeepHolds ==
  ASSUME IInv, UNCHANGED <<pc, sendMutex, assetsMutex>>
  PROVE  IInv'
  BY DEF IInv, Holds

\* Every step of a thread of the server preserves the invariant.
LEMMA ThreadPreserves ==
  ASSUME IInv, NEW t \in Conn, Thread(t)
  PROVE  IInv'
<1>. USE DEF SendSection, AssetsSections, PC
<1>0. Holds(t) /\ t # None
  BY ConnAssumption DEF IInv
<1>1. CASE Receive(t)
  <2>1. CASE UNCHANGED pc
    BY <1>1, <2>1, OthersKeepHolds DEF Receive
  <2>2. CASE \E label \in {"lock", "get"} : Goto(t, label)
    BY <1>0, <1>1, <2>2, ThreadKeepsHolds DEF Receive, Holds
  <2>3. UNCHANGED pc \/ Goto(t, "lock") \/ Goto(t, "get")
    BY <1>1 DEF Receive
  <2>4. QED
    BY <2>1, <2>2, <2>3
<1>2. CASE TakeAssetsMutex(t)
  <2>1. /\ pc[t] \in {"get", "put", "epipe", "bye"}
        /\ assetsMutex = None /\ assetsMutex' = t /\ sendMutex' = sendMutex
        /\ Goto(t, AssetsSection[pc[t]])
    BY <1>2 DEF TakeAssetsMutex, AssetsSection
  <2>2. CASE pc[t] = "epipe"
    BY <1>0, <2>1, <2>2, ThreadKeepsHolds DEF Holds, AssetsSection
  <2>3. CASE pc[t] # "epipe"
    <3>1. AssetsSection[pc[t]] \in {"in_get", "in_put", "in_bye"}
      BY <2>1, <2>3 DEF AssetsSection
    <3>2. QED
      BY <1>0, <2>1, <2>3, <3>1, ThreadKeepsHolds DEF Holds
  <2>4. QED
    BY <2>2, <2>3
<1>3. CASE LeaveGet(t)
  <2>1. \E label \in {"recv", "put", "lock"} : Goto(t, label)
    BY <1>3 DEF LeaveGet
  <2>2. QED
    BY <1>0, <1>3, <2>1, ThreadKeepsHolds DEF LeaveGet, Holds
<1>4. CASE LeavePut(t)
  <2>1. \E label \in {"recv", "lock"} : Goto(t, label)
    BY <1>4 DEF LeavePut
  <2>2. QED
    BY <1>0, <1>4, <2>1, ThreadKeepsHolds DEF LeavePut, Holds
<1>5. CASE LeaveEpipe(t)
  <2>1. \E label \in {"recv", "get"} : Goto(t, label)
    BY <1>5 DEF LeaveEpipe, ReturnFalse
  <2>2. QED
    BY <1>0, <1>5, <2>1, ThreadKeepsHolds DEF LeaveEpipe, ReturnFalse, Holds
<1>6. CASE LeaveBye(t)
  BY <1>0, <1>6, ThreadKeepsHolds DEF LeaveBye, Holds
<1>7. CASE TakeSendMutex(t)
  BY <1>0, <1>7, ThreadKeepsHolds DEF TakeSendMutex, Holds
<1>8. CASE WriteFirst(t)
  BY <1>0, <1>8, ThreadKeepsHolds DEF WriteFirst, Holds
<1>9. CASE WriteRest(t)
  BY <1>0, <1>9, ThreadKeepsHolds DEF WriteRest, Holds
<1>10. CASE SendFails(t)
  <2>1. \E label \in {"recv", "get"} : Goto(t, label)
    BY <1>10 DEF SendFails, ReturnFalse
  <2>2. QED
    BY <1>0, <1>10, <2>1, ThreadKeepsHolds DEF SendFails, ReturnFalse, Holds
<1>11. CASE SendMeetsEpipe(t)
  BY <1>0, <1>11, ThreadKeepsHolds DEF SendMeetsEpipe, Holds
<1>12. CASE ThreadEnds(t)
  <2>1. \E label \in {"done", "bye"} : Goto(t, label)
    BY <1>12 DEF ThreadEnds
  <2>2. QED
    BY <1>0, <1>12, <2>1, ThreadKeepsHolds DEF ThreadEnds, Holds
<1>13. CASE SendCutShort(t)
  BY <1>0, <1>13, ThreadKeepsHolds DEF SendCutShort, Holds
<1>14. QED
  BY <1>1, <1>2, <1>3, <1>4, <1>5, <1>6, <1>7, <1>8, <1>9, <1>10, <1>11, <1>12, <1>13 DEF Thread

\* IInv is inductive: the clients, the network and the hosts move no thread
\* of the server.
LEMMA NextIInv ==
  ASSUME IInv, [Next]_vars
  PROVE  IInv'
<1>1. ASSUME NEW c \in Conn, ClientSends(c) \/ Client(c) \/ Fault(c) \/ GiveUp(c)
      PROVE  UNCHANGED <<pc, sendMutex, assetsMutex>>
  BY <1>1 DEF ClientSends, Client, ClientReads, ClientHandles, Fault, ClientLeaves,
     HostCrashes, ClientEnds, GiveUp, Closed, server
<1>2. CASE Next
  BY <1>1, <1>2, OthersKeepHolds, ThreadPreserves DEF Next
<1>3. CASE UNCHANGED vars
  BY <1>3, OthersKeepHolds DEF vars
<1>4. QED
  BY <1>2, <1>3

\* Where every thread is always tells which mutexes it holds.
THEOREM Invariance == Spec => []IInv
<1>1. Init => IInv
  BY ConnAssumption DEF Init, IInv, Holds, PC, SendSection, AssetsSections
<1>2. IInv /\ [Next]_vars => IInv'
  BY NextIInv
<1>3. QED
  BY <1>1, <1>2, PTL DEF Spec

\* Whoever holds assets_mutex waits for no other lock and for no client, so
\* the two mutexes are always taken in the same order: they alone can never
\* make the server's threads wait for each other in a circle.
THEOREM NoLockCycle == Spec => []LockOrder
<1>1. IInv => LockOrder
  BY DEF IInv, Holds, LockOrder, AssetsSections
<1>2. QED
  BY <1>1, Invariance, PTL

\* Sends exclude each other from the first byte to the logout of a receiver
\* that turns out to be gone: no two threads write to sockets at once.
THEOREM SendsExclusive == Spec => []OneSender
<1>1. IInv => OneSender
  BY DEF IInv, Holds, OneSender
<1>2. QED
  BY <1>1, Invariance, PTL

-----------------------------------------------------------------------------
(* Whole messages. *)

\* The places in which a thread carries a message.
Carrying == {"put", "in_put", "lock", "send", "rest", "epipe", "in_epipe"}

TypeInv ==
  /\ TypeOK
  /\ \A t \in Conn : pc[t] \in Carrying => hand[t] \in Message

HalfMessage == [message : Message, part : {1, 2}]

\* What types there are, in a form that steps need.
LEMMA Types ==
  ASSUME TypeInv
  PROVE  /\ link \in [Conn -> LinkState] /\ sent \in [Conn -> Nat]
         /\ inbox \in [Conn -> Seq(HalfMessage)] /\ outbox \in [Conn -> Seq(HalfMessage)]
         /\ reader \in [Conn -> Message \cup {None}] /\ hand \in [Conn -> Message \cup {None}]
         /\ pc \in [Conn -> PC] /\ torn \subseteq Conn /\ misread \in Nat
  BY DEF TypeInv, TypeOK, HalfMessage

\* What a round of a receive loop leaves of a stream.
LEMMA RestOfStream ==
  ASSUME NEW S, NEW s \in Seq(S), NEW k \in 1 .. Len(s)
  PROVE  /\ Rest(s, k) \in Seq(S)
         /\ Len(Rest(s, k)) = Len(s) - k
         /\ \A i \in 1 .. Len(s) - k : Rest(s, k)[i] = s[i + k]
<1>1. PICK n \in Nat : n = Len(s)
  OBVIOUS
<1>2. PICK b \in Int : b = k + 1
  BY <1>1
<1>3. \A i \in b .. n : s[i] \in S
  BY <1>1, <1>2
<1>4. Rest(s, k) = SubSeq(s, b, n)
  BY <1>1, <1>2 DEF Rest
<1>5. /\ Rest(s, k) \in Seq(S)
      /\ Len(Rest(s, k)) = (IF b <= n THEN n - b + 1 ELSE 0)
      /\ \A i \in 1 .. n - b + 1 : Rest(s, k)[i] = s[b + i - 1]
  BY <1>1, <1>3, <1>4, SubSeqProperties
<1>6. n - b + 1 = n - k /\ (b <= n \/ n - k = 0)
  BY <1>1, <1>2
<1>7. ASSUME NEW i \in 1 .. n - k  PROVE Rest(s, k)[i] = s[i + k]
  <2>1. i \in 1 .. n - b + 1 /\ b + i - 1 = i + k
    BY <1>1, <1>2
  <2>2. QED
    BY <1>5, <2>1
<1>8. QED
  BY <1>1, <1>5, <1>6, <1>7

\* What a round of a receive loop does to types.
LEMMA RoundTypes ==
  ASSUME TypeInv, NEW c \in Conn, NEW s \in Seq(HalfMessage), NEW n \in 1 .. Len(s),
         NEW m \in Readings(s), Round(c, s, n, m)
  PROVE  /\ m \in Message \cup {None}
         /\ torn' \subseteq Conn /\ misread' \in Nat
<1>1. s[1] \in HalfMessage
  <2>1. PICK k \in Nat : k = Len(s)
    OBVIOUS
  <2>2. 1 \in 1 .. k
    BY <2>1
  <2>3. QED
    BY <2>1, <2>2
<1>2. m \in Message \cup {None}
  BY <1>1 DEF Readings, Message, HalfMessage
<1>3. torn \subseteq Conn /\ misread \in Nat
  BY Types
<1>4. QED
  BY <1>2, <1>3 DEF Round, tears

\* A message written, whole or in part.
LEMMA SubmitTypes ==
  ASSUME TypeInv, NEW c \in Conn, NEW kind \in Kind, Submit(c, kind)
  PROVE  /\ sent' \in [Conn -> Nat] /\ inbox' \in [Conn -> Seq(HalfMessage)]
         /\ torn' \subseteq Conn /\ misread' \in Nat
<1>1. PICK m : m = [kind |-> kind, from |-> c, number |-> sent[c]]
  OBVIOUS
<1>2. /\ sent \in [Conn -> Nat] /\ inbox \in [Conn -> Seq(HalfMessage)]
      /\ torn \subseteq Conn /\ misread \in Nat
  BY Types
<1>3. Half(m, 1) \in HalfMessage /\ Half(m, 2) \in HalfMessage
  BY <1>1, <1>2 DEF Half, HalfMessage, Message
<1>4. /\ inbox[c] \o <<Half(m, 1), Half(m, 2)>> \in Seq(HalfMessage)
      /\ Append(inbox[c], Half(m, 1)) \in Seq(HalfMessage)
  BY <1>2, <1>3
<1>5. /\ \/ sent' = [sent EXCEPT ![c] = @ + 1]
         \/ sent' = sent
      /\ \/ inbox' = [inbox EXCEPT ![c] = @ \o <<Half(m, 1), Half(m, 2)>>]
         \/ inbox' = [inbox EXCEPT ![c] = Append(@, Half(m, 1))]
         \/ inbox' = inbox
      /\ torn' \in {torn, torn \cup {c}} /\ misread' = misread
  BY <1>1 DEF Submit, tears
<1>6. sent' \in [Conn -> Nat]
  BY <1>2, <1>5
<1>7. inbox' \in [Conn -> Seq(HalfMessage)]
  BY <1>2, <1>4, <1>5
<1>8. QED
  BY <1>2, <1>5, <1>6, <1>7

\* The steps of clients, hosts and the network keep types.
LEMMA ClientKeepsTypes ==
  ASSUME TypeInv, NEW c \in Conn, ClientSends(c) \/ Client(c) \/ Fault(c) \/ GiveUp(c)
  PROVE  TypeInv'
<1>1. CASE ClientSends(c)
  <2>1. PICK kind \in Kinds[c] : Submit(c, kind)
    BY <1>1 DEF ClientSends
  <2>2. kind \in Kind
    BY <2>1 DEF Kinds, Kind
  <2>3. /\ sent' \in [Conn -> Nat] /\ inbox' \in [Conn -> Seq(HalfMessage)]
        /\ torn' \subseteq Conn /\ misread' \in Nat
    BY <2>1, <2>2, SubmitTypes
  <2>4. QED
    BY <1>1, <2>3 DEF ClientSends, TypeInv, TypeOK, HalfMessage, server
<1>2. CASE ClientReads(c)
  <2>1. outbox \in [Conn -> Seq(HalfMessage)] /\ reader \in [Conn -> Message \cup {None}]
    BY Types
  <2>2. PICK n \in 1 .. Len(outbox[c]), m \in Readings(outbox[c]) :
          /\ Round(c, outbox[c], n, m)
          /\ outbox' = [outbox EXCEPT ![c] = Rest(@, n)]
          /\ reader' = [reader EXCEPT ![c] = m]
    BY <1>2 DEF ClientReads
  <2>3. m \in Message \cup {None} /\ torn' \subseteq Conn /\ misread' \in Nat
    BY <2>1, <2>2, RoundTypes
  <2>4. Rest(outbox[c], n) \in Seq(HalfMessage)
    BY <2>1, RestOfStream
  <2>5. reader' \in [Conn -> Message \cup {None}] /\ outbox' \in [Conn -> Seq(HalfMessage)]
    BY <2>1, <2>2, <2>3, <2>4
  <2>6. QED
    BY <1>2, <2>3, <2>5 DEF ClientReads, TypeInv, TypeOK, HalfMessage, server
<1>3. CASE ClientHandles(c)
  <2>1. /\ sent' \in [Conn -> Nat] /\ inbox' \in [Conn -> Seq(HalfMessage)]
        /\ torn' \subseteq Conn /\ misread' \in Nat
    BY <1>3, SubmitTypes, Types DEF ClientHandles, Kind, tears
  <2>2. QED
    BY <1>3, <2>1 DEF ClientHandles, TypeInv, TypeOK, HalfMessage, server
<1>4. CASE ClientLeaves(c) \/ HostCrashes(c)
  BY <1>4 DEF ClientLeaves, HostCrashes, TypeInv, TypeOK, LinkState, server, tears
<1>5. CASE Closed(c)
  <2>1. <<>> \in Seq(HalfMessage)
    OBVIOUS
  <2>2. outbox' \in [Conn -> Seq(HalfMessage)]
    BY <1>5, <2>1 DEF Closed, TypeInv, TypeOK, HalfMessage
  <2>3. QED
    BY <1>5, <2>2 DEF Closed, TypeInv, TypeOK, LinkState, HalfMessage, server, tears
<1>6. QED
  BY <1>1, <1>2, <1>3, <1>4, <1>5 DEF Client, Fault, ClientEnds, GiveUp

\* A step of one thread keeps types when it leaves the thread with a message
\* wherever the thread has to carry one.
LEMMA ThreadMoves ==
  ASSUME TypeInv, NEW t \in Conn, NEW label \in PC, Goto(t, label),
         NEW m \in Message \cup {None}, hand' = [hand EXCEPT ![t] = m],
         label \in Carrying => m \in Message,
         UNCHANGED client,
         inbox' \in [Conn -> Seq(HalfMessage)], outbox' \in [Conn -> Seq(HalfMessage)],
         torn' \subseteq Conn, misread' \in Nat,
         sendMutex' \in {t, None, sendMutex}, assetsMutex' \in {t, None, assetsMutex}
  PROVE  TypeInv'
<1>1. /\ pc' \in [Conn -> PC] /\ pc'[t] = label
      /\ hand' \in [Conn -> Message \cup {None}] /\ hand'[t] = m
      /\ \A u \in Conn : u # t => pc'[u] = pc[u] /\ hand'[u] = hand[u]
  BY DEF Goto, TypeInv, TypeOK
<1>2. ASSUME NEW u \in Conn, pc'[u] \in Carrying  PROVE hand'[u] \in Message
  BY <1>1, <1>2 DEF TypeInv
<1>3. /\ sendMutex' \in Conn \cup {None} /\ assetsMutex' \in Conn \cup {None}
  BY DEF TypeInv, TypeOK
<1>4. /\ link' \in [Conn -> LinkState] /\ sent' \in [Conn -> Nat]
      /\ reader' \in [Conn -> Message \cup {None}]
  BY DEF TypeInv, TypeOK, client
<1>5. TypeOK'
  BY <1>1, <1>3, <1>4 DEF TypeOK, HalfMessage
<1>6. QED
  BY <1>2, <1>5 DEF TypeInv

\* The same for a step that leaves the thread's message alone.
LEMMA ThreadKeepsMessage ==
  ASSUME TypeInv, NEW t \in Conn, NEW label \in PC, Goto(t, label),
         UNCHANGED <<client, hand>>,
         label \in Carrying => hand[t] \in Message,
         inbox' \in [Conn -> Seq(HalfMessage)], outbox' \in [Conn -> Seq(HalfMessage)],
         torn' \subseteq Conn, misread' \in Nat,
         sendMutex' \in {t, None, sendMutex}, assetsMutex' \in {t, None, assetsMutex}
  PROVE  TypeInv'
<1>1. hand' = [hand EXCEPT ![t] = hand[t]] /\ hand[t] \in Message \cup {None}
  BY DEF TypeInv, TypeOK
<1>2. QED
  BY <1>1, ThreadMoves

\* Every step of a thread keeps types.
LEMMA ThreadKeepsTypes ==
  ASSUME TypeInv, NEW t \in Conn, Thread(t)
  PROVE  TypeInv'
<1>. USE DEF Carrying, PC
<1>0. /\ inbox \in [Conn -> Seq(HalfMessage)] /\ outbox \in [Conn -> Seq(HalfMessage)]
      /\ hand \in [Conn -> Message \cup {None}] /\ pc \in [Conn -> PC]
      /\ torn \subseteq Conn /\ misread \in Nat
      /\ pc[t] \in Carrying => hand[t] \in Message
  BY DEF TypeInv, TypeOK, HalfMessage
<1>1. CASE Receive(t)
  <2>1. PICK n \in 1 .. Len(inbox[t]), m \in Readings(inbox[t]) :
          /\ Round(t, inbox[t], n, m)
          /\ inbox' = [inbox EXCEPT ![t] = Rest(@, n)]
          /\ \/ /\ m # None
                /\ Goto(t, "lock") \/ Goto(t, "get")
                /\ hand' = [hand EXCEPT ![t] = m]
             \/ UNCHANGED <<pc, hand>>
    BY <1>1 DEF Receive
  <2>2. /\ m \in Message \cup {None} /\ torn' \subseteq Conn /\ misread' \in Nat
        /\ inbox' \in [Conn -> Seq(HalfMessage)]
    <3>1. Rest(inbox[t], n) \in Seq(HalfMessage)
      BY <1>0, RestOfStream
    <3>2. QED
      BY <1>0, <2>1, <3>1, RoundTypes
  <2>3. UNCHANGED <<client, outbox, sendMutex, assetsMutex>>
    BY <1>1 DEF Receive
  <2>4. CASE UNCHANGED <<pc, hand>>
    BY <2>2, <2>3, <2>4 DEF TypeInv, TypeOK, client, HalfMessage
  <2>5. CASE /\ m # None
             /\ Goto(t, "lock") \/ Goto(t, "get")
             /\ hand' = [hand EXCEPT ![t] = m]
    <3>1. PICK label \in {"lock", "get"} : Goto(t, label)
      BY <2>5
    <3>2. QED
      BY <1>0, <2>2, <2>3, <2>5, <3>1, ThreadMoves
  <2>6. QED
    BY <2>1, <2>4, <2>5
<1>2. CASE TakeAssetsMutex(t)
  <2>1. /\ AssetsSection[pc[t]] \in PC
        /\ AssetsSection[pc[t]] \in Carrying => pc[t] \in Carrying
    BY <1>2 DEF TakeAssetsMutex, AssetsSection
  <2>2. QED
    BY <1>0, <1>2, <2>1, ThreadKeepsMessage DEF tears, TakeAssetsMutex
<1>3. CASE LeaveGet(t)
  <2>1. CASE Goto(t, "recv") /\ Done(t)
    BY <1>0, <1>3, <2>1, ThreadMoves DEF tears, LeaveGet, Done
  <2>2. CASE /\ hand[t] # None /\ UNCHANGED hand
             /\ \E label \in {"put", "lock"} : Goto(t, label)
    BY <1>0, <1>3, <2>2, ThreadKeepsMessage DEF tears, LeaveGet
  <2>3. QED
    BY <1>3, <2>1, <2>2 DEF tears, LeaveGet
<1>4. CASE LeavePut(t)
  <2>1. CASE Goto(t, "recv") /\ Done(t)
    BY <1>0, <1>4, <2>1, ThreadMoves DEF tears, LeavePut, Done
  <2>2. CASE Goto(t, "lock") /\ UNCHANGED hand
    BY <1>0, <1>4, <2>2, ThreadKeepsMessage DEF tears, LeavePut
  <2>3. QED
    BY <1>4, <2>1, <2>2 DEF tears, LeavePut
<1>5. ASSUME ReturnFalse(t), UNCHANGED <<client, tears, inbox, outbox>>,
             assetsMutex' \in {None, assetsMutex}
      PROVE  TypeInv'
  BY <1>0, <1>5, ThreadMoves DEF tears, ReturnFalse, Done
<1>6. CASE LeaveEpipe(t) \/ SendFails(t)
  BY <1>5, <1>6 DEF tears, LeaveEpipe, SendFails
<1>7. CASE LeaveBye(t) \/ TakeSendMutex(t) \/ SendMeetsEpipe(t) \/ ThreadEnds(t)
  BY <1>0, <1>7, ThreadKeepsMessage DEF tears, LeaveBye, TakeSendMutex, SendMeetsEpipe, ThreadEnds
<1>8. ASSUME NEW part \in {1, 2}, hand[t] \in Message,
             outbox' = [outbox EXCEPT ![Partner[t]] = Append(@, Half(hand[t], part))]
      PROVE  outbox' \in [Conn -> Seq(HalfMessage)]
  <2>1. Half(hand[t], part) \in HalfMessage /\ Partner[t] \in Conn
    BY <1>8, PartnerAssumption DEF Half, HalfMessage
  <2>2. Append(outbox[Partner[t]], Half(hand[t], part)) \in Seq(HalfMessage)
    BY <1>0, <2>1
  <2>3. QED
    BY <1>0, <1>8, <2>2
<1>9. CASE WriteFirst(t)
  BY <1>0, <1>8, <1>9, ThreadKeepsMessage DEF tears, WriteFirst
<1>10. CASE WriteRest(t)
  BY <1>0, <1>8, <1>10, ThreadMoves DEF tears, WriteRest, Done
<1>11. CASE SendCutShort(t)
  BY <1>0, <1>11, ThreadMoves DEF tears, SendCutShort, Done
<1>12. QED
  BY <1>1, <1>2, <1>3, <1>4, <1>6, <1>7, <1>9, <1>10, <1>11 DEF Thread

\* Types are right, and a thread that has to carry a message has one.
THEOREM TypesCorrect == Spec => []TypeInv
<1>1. Init => TypeInv
  <2>1. \A S : <<>> \in Seq(S)
    OBVIOUS
  <2>2. QED
    BY <2>1 DEF Init, TypeInv, TypeOK, LinkState, PC, Carrying
<1>2. TypeInv /\ [Next]_vars => TypeInv'
  <2>1. TypeInv /\ UNCHANGED vars => TypeInv'
    BY DEF TypeInv, TypeOK, vars
  <2>2. QED
    BY <2>1, ClientKeepsTypes, ThreadKeepsTypes DEF Next
<1>3. QED
  BY <1>1, <1>2, PTL DEF Spec

\* In half messages s, the second half of a message follows its first one.
Whole(s) ==
  \A i \in DOMAIN s : s[i].part = 1 /\ i < Len(s) => s[i + 1] = Half(s[i].message, 2)

\* s ends in the first half of m.
EndsInside(s, m) == s # <<>> /\ s[Len(s)] = Half(m, 1)

\* What is in front of a client: whole messages, and a half only while a
\* thread is about to write the other one; nothing after the connection broke.
Front(c) ==
  /\ Whole(outbox[c])
  /\ outbox[c] # <<>> /\ outbox[c][Len(outbox[c])].part = 1
       => \E t \in Conn : /\ Partner[t] = c /\ pc[t] = "rest"
                          /\ EndsInside(outbox[c], hand[t])
  /\ link[c] = "closed" => outbox[c] = <<>>

WInv == \A c \in Conn : Front(c)

\* Half messages put behind whole ones, and the second half of a message
\* behind its first half, leave them whole.
LEMMA AppendWhole ==
  ASSUME NEW s \in Seq(HalfMessage), Whole(s), NEW m \in Message, NEW part \in {1, 2},
         s # <<>> /\ s[Len(s)].part = 1 => part = 2 /\ EndsInside(s, m)
  PROVE  /\ Whole(Append(s, Half(m, part)))
         /\ Append(s, Half(m, part)) # <<>>
         /\ Append(s, Half(m, part))[Len(Append(s, Half(m, part)))] = Half(m, part)
<1>. DEFINE h == Half(m, part)
            r == Append(s, h)
<1>1. h \in HalfMessage
  BY DEF Half, HalfMessage
<1>2. /\ r \in Seq(HalfMessage) /\ Len(r) = Len(s) + 1 /\ r[Len(s) + 1] = h
      /\ \A i \in 1 .. Len(s) : r[i] = s[i]
  BY <1>1
<1>3. Len(s) \in Nat /\ DOMAIN s = 1 .. Len(s) /\ DOMAIN r = 1 .. Len(s) + 1
  BY <1>2
<1>. HIDE DEF h, r
<1>4. ASSUME NEW i \in DOMAIN r, r[i].part = 1, i < Len(r)
      PROVE  r[i + 1] = Half(r[i].message, 2)
  <2>1. i \in 1 .. Len(s) /\ r[i] = s[i]
    BY <1>2, <1>3, <1>4
  <2>2. CASE i < Len(s)
    BY <1>2, <1>3, <1>4, <2>1, <2>2 DEF Whole
  <2>3. CASE i = Len(s)
    <3>1. s # <<>> /\ s[Len(s)].part = 1
      BY <1>3, <1>4, <2>1, <2>3
    <3>2. part = 2 /\ s[Len(s)].message = m
      BY <3>1 DEF EndsInside, Half
    <3>3. QED
      BY <1>2, <2>1, <2>3, <3>2 DEF h
  <2>4. QED
    BY <1>3, <2>1, <2>2, <2>3
<1>5. Whole(r)
  BY <1>3, <1>4 DEF Whole
<1>6. r # <<>> /\ r[Len(r)] = h
  BY <1>2, <1>3
<1>7. QED
  BY <1>5, <1>6 DEF h, r

\* So does a receive loop that takes halves away in front.
LEMMA RestWhole ==
  ASSUME NEW s \in Seq(HalfMessage), Whole(s), NEW k \in 1 .. Len(s),
         NEW r, r = Rest(s, k)
  PROVE  /\ Whole(r)
         /\ r # <<>> => s # <<>> /\ r[Len(r)] = s[Len(s)]
<1>1. PICK n \in Nat : n = Len(s)
  OBVIOUS
<1>2. /\ r \in Seq(HalfMessage) /\ Len(r) = n - k /\ k \in 1 .. n
      /\ \A i \in 1 .. n - k : r[i] = s[i + k]
  BY <1>1, RestOfStream
<1>3. DOMAIN r = 1 .. n - k /\ DOMAIN s = 1 .. n
  BY <1>1, <1>2
<1>4. ASSUME NEW i \in DOMAIN r, r[i].part = 1, i < Len(r)
      PROVE  r[i + 1] = Half(r[i].message, 2)
  <2>1. i \in 1 .. n - k /\ i + 1 \in 1 .. n - k /\ i + k \in 1 .. n /\ i + k < n
    BY <1>1, <1>2, <1>3, <1>4
  <2>2. r[i] = s[i + k] /\ r[i + 1] = s[(i + 1) + k]
    BY <1>2, <2>1
  <2>3. (i + 1) + k = (i + k) + 1
    BY <1>2, <2>1
  <2>4. QED
    BY <1>1, <1>3, <1>4, <2>1, <2>2, <2>3 DEF Whole
<1>5. ASSUME r # <<>>  PROVE s # <<>> /\ r[Len(r)] = s[Len(s)]
  <2>1. n - k \in 1 .. n - k /\ (n - k) + k = n
    BY <1>1, <1>2, <1>5
  <2>2. QED
    BY <1>1, <1>2, <2>1
<1>6. QED
  BY <1>4, <1>5 DEF Whole

\* Clients, hosts and the network keep what is in front of every client whole.
LEMMA ClientKeepsFronts ==
  ASSUME WInv, TypeInv, NEW d \in Conn,
         ClientSends(d) \/ Client(d) \/ Fault(d) \/ GiveUp(d)
  PROVE  WInv'
<1>1. UNCHANGED <<pc, hand>>
  BY DEF ClientSends, Client, ClientReads, ClientHandles, Fault, ClientLeaves,
     HostCrashes, ClientEnds, GiveUp, Closed, server
<1>2. CASE ClientReads(d)
  <2>1. PICK n \in 1 .. Len(outbox[d]) : outbox' = [outbox EXCEPT ![d] = Rest(@, n)]
    BY <1>2 DEF ClientReads
  <2>7. /\ outbox[d] \in Seq(HalfMessage) /\ outbox'[d] = Rest(outbox[d], n)
        /\ \A c \in Conn : c # d => outbox'[c] = outbox[c]
        /\ UNCHANGED link /\ link[d] # "closed"
    BY <1>2, <2>1, Types DEF ClientReads
  <2>2. Front(d)
    BY DEF WInv
  <2>3. /\ Whole(outbox'[d])
        /\ outbox'[d] # <<>> => /\ outbox[d] # <<>>
                                /\ outbox'[d][Len(outbox'[d])] = outbox[d][Len(outbox[d])]
    BY <2>7, <2>2, RestWhole DEF Front
  <2>4. Front(d)'
    BY <1>1, <2>7, <2>2, <2>3 DEF Front, EndsInside
  <2>5. ASSUME NEW c \in Conn, c # d  PROVE Front(c)'
    <3>1. Front(c) /\ outbox'[c] = outbox[c] /\ link'[c] = link[c]
      BY <2>7, <2>5 DEF WInv
    <3>2. QED
      BY <1>1, <3>1 DEF Front, EndsInside
  <2>6. QED
    BY <2>4, <2>5 DEF WInv
<1>3. CASE Closed(d)
  <2>1. /\ outbox'[d] = <<>>
        /\ \A c \in Conn : c # d => outbox'[c] = outbox[c] /\ link'[c] = link[c]
    BY <1>3 DEF Closed, TypeInv, TypeOK
  <2>2. Front(d)'
    BY <2>1 DEF Front, Whole
  <2>3. QED
    BY <1>1, <2>1, <2>2 DEF WInv, Front
<1>4. CASE ClientSends(d) \/ ClientHandles(d) \/ ClientLeaves(d) \/ HostCrashes(d)
  <2>1. UNCHANGED outbox /\ \A c \in Conn : link'[c] = "closed" => link[c] = "closed"
    BY <1>4 DEF ClientSends, ClientHandles, ClientLeaves, HostCrashes, TypeInv, TypeOK
  <2>2. QED
    BY <1>1, <2>1 DEF WInv, Front
<1>5. QED
  BY <1>2, <1>3, <1>4 DEF Client, Fault, ClientEnds, GiveUp

\* A thread that writes nothing leaves "rest" only when its receiver's
\* connection is broken.
LEMMA SilentThreadKeepsFronts ==
  ASSUME WInv, NEW t \in Conn, UNCHANGED <<link, outbox>>,
         \A u \in Conn : u # t => pc'[u] = pc[u] /\ hand'[u] = hand[u],
         pc[t] = "rest" => link[Partner[t]] = "closed"
  PROVE  WInv'
<1>1. ASSUME NEW c \in Conn  PROVE Front(c)'
  <2>1. Front(c)
    BY DEF WInv
  <2>2. ASSUME outbox[c] # <<>>, outbox[c][Len(outbox[c])].part = 1
        PROVE  \E u \in Conn : /\ Partner[u] = c /\ pc'[u] = "rest"
                               /\ EndsInside(outbox[c], hand'[u])
    <3>1. PICK u \in Conn : /\ Partner[u] = c /\ pc[u] = "rest"
                            /\ EndsInside(outbox[c], hand[u])
      BY <2>1, <2>2 DEF Front
    <3>2. u # t
      BY <2>1, <2>2, <3>1 DEF Front
    <3>3. QED
      BY <3>1, <3>2
  <2>3. QED
    BY <2>1, <2>2 DEF Front, EndsInside
<1>2. QED
  BY <1>1 DEF WInv

\* Thread t writes a half of its message to its receiver, and is in "rest"
\* exactly between the two.
Writes(t, part) ==
  /\ Writable(Partner[t])
  /\ part = 1 => pc[t] = "send" /\ pc'[t] = "rest" /\ UNCHANGED hand
  /\ part = 2 => pc[t] = "rest"
  /\ outbox' = [outbox EXCEPT ![Partner[t]] = Append(@, Half(hand[t], part))]
  /\ UNCHANGED link
  /\ \A u \in Conn : u # t => pc'[u] = pc[u]

\* Writing keeps what is in front of every client whole.
LEMMA WritingThreadKeepsFronts ==
  ASSUME WInv, IInv, TypeInv, NEW t \in Conn, NEW part \in {1, 2}, Writes(t, part)
  PROVE  WInv'
<1>. USE DEF Writes
<1>. DEFINE p == Partner[t]
<1>1. /\ p \in Conn /\ hand[t] \in Message /\ outbox[p] \in Seq(HalfMessage)
      /\ outbox'[p] = Append(outbox[p], Half(hand[t], part))
      /\ \A c \in Conn : c # p => outbox'[c] = outbox[c]
  <2>1. p \in Conn /\ pc[t] \in Carrying
    BY PartnerAssumption DEF Carrying
  <2>2. QED
    BY <2>1 DEF TypeInv, TypeOK, HalfMessage
<1>2. \A u \in Conn : pc[u] = "rest" => u = t
  BY DEF IInv, Holds, SendSection
<1>3. Front(p)
  BY <1>1 DEF WInv
<1>4. outbox[p] # <<>> /\ outbox[p][Len(outbox[p])].part = 1
        => part = 2 /\ EndsInside(outbox[p], hand[t])
  BY <1>2, <1>3 DEF Front
<1>5. /\ Whole(outbox'[p]) /\ outbox'[p] # <<>>
      /\ outbox'[p][Len(outbox'[p])] = Half(hand[t], part)
  BY <1>1, <1>3, <1>4, AppendWhole DEF Front
<1>6. Front(p)'
  <2>1. link'[p] # "closed"
    BY DEF Writable
  <2>2. CASE part = 1
    BY <1>5, <2>1, <2>2 DEF Front, EndsInside
  <2>3. CASE part = 2
    BY <1>5, <2>1, <2>3 DEF Front, Half
  <2>4. QED
    BY <2>2, <2>3
<1>7. ASSUME NEW c \in Conn, c # p  PROVE Front(c)'
  <2>1. Front(c) /\ outbox'[c] = outbox[c] /\ link'[c] = link[c]
    BY <1>1, <1>7 DEF WInv
  <2>2. ~(outbox[c] # <<>> /\ outbox[c][Len(outbox[c])].part = 1)
    BY <1>2, <1>7, <2>1 DEF Front
  <2>3. QED
    BY <2>1, <2>2 DEF Front
<1>8. QED
  BY <1>6, <1>7 DEF WInv

\* Every step of a thread keeps what is in front of every client whole.
LEMMA ThreadKeepsFronts ==
  ASSUME WInv, IInv, TypeInv, NEW t \in Conn, Thread(t)
  PROVE  WInv'
<1>1. /\ pc \in [Conn -> PC] /\ hand \in [Conn -> Message \cup {None}]
  BY DEF TypeInv, TypeOK
<1>2. CASE WriteFirst(t)
  <2>1. Writes(t, 1)
    BY <1>1, <1>2 DEF WriteFirst, Writes, Goto, client
  <2>2. QED
    BY <2>1, WritingThreadKeepsFronts
<1>3. CASE WriteRest(t)
  <2>1. Writes(t, 2)
    BY <1>1, <1>3 DEF WriteRest, Writes, Goto, client
  <2>2. QED
    BY <2>1, WritingThreadKeepsFronts
<1>4. CASE \/ Receive(t) \/ TakeAssetsMutex(t) \/ LeaveGet(t) \/ LeavePut(t) \/ LeaveEpipe(t)
           \/ LeaveBye(t) \/ TakeSendMutex(t) \/ SendFails(t) \/ SendMeetsEpipe(t)
           \/ SendCutShort(t)
           \/ ThreadEnds(t)
  <2>1. UNCHANGED <<link, outbox>>
    BY <1>4 DEF Receive, TakeAssetsMutex, LeaveGet, LeavePut, LeaveEpipe, LeaveBye,
       TakeSendMutex, SendFails, SendMeetsEpipe, SendCutShort, ThreadEnds, client
  <2>5. ASSUME Receive(t)
        PROVE  \A u \in Conn : u # t => pc'[u] = pc[u] /\ hand'[u] = hand[u]
    <3>1. PICK n \in 1 .. Len(inbox[t]), m \in Readings(inbox[t]) :
                 \/ (Goto(t, "lock") \/ Goto(t, "get")) /\ hand' = [hand EXCEPT ![t] = m]
                 \/ UNCHANGED <<pc, hand>>
      BY <2>5 DEF Receive
    <3>2. (\E label \in {"lock", "get"} : pc' = [pc EXCEPT ![t] = label]) \/ UNCHANGED pc
      BY <3>1 DEF Goto
    <3>3. QED
      BY <1>1, <3>1, <3>2
  <2>2. \A u \in Conn : u # t => pc'[u] = pc[u] /\ hand'[u] = hand[u]
    BY <1>1, <1>4, <2>5 DEF TakeAssetsMutex, LeaveGet, LeavePut, LeaveEpipe, LeaveBye,
       TakeSendMutex, SendFails, SendMeetsEpipe, SendCutShort, ThreadEnds, ReturnFalse, Goto, Done
  <2>3. pc[t] = "rest" => link[Partner[t]] = "closed"
    BY <1>4 DEF Receive, TakeAssetsMutex, LeaveGet, LeavePut, LeaveEpipe, LeaveBye,
       TakeSendMutex, SendFails, SendMeetsEpipe, SendCutShort, ThreadEnds, AssetsSection
  <2>4. QED
    BY <2>1, <2>2, <2>3, SilentThreadKeepsFronts
<1>5. QED
  BY <1>2, <1>3, <1>4 DEF Thread

\* What is in front of a client is whole messages, but for one that a thread is
\* in the middle of.
THEOREM FrontsInvariance == Spec => []WInv
<1>1. Init => WInv
  BY DEF Init, WInv, Front, Whole
<1>2. WInv /\ IInv /\ TypeInv /\ [Next]_vars => WInv'
  <2>1. WInv /\ UNCHANGED vars => WInv'
    BY DEF WInv, Front, vars
  <2>2. QED
    BY <2>1, ClientKeepsFronts, ThreadKeepsFronts DEF Next
<1>3. QED
  BY <1>1, <1>2, Invariance, TypesCorrect, PTL DEF Spec

\* Whoever sends to a client, and wherever its send is suspended: no part of
\* one message comes to lie inside another one.
THEOREM MessagesStayWhole == Spec => []WholeMessages
<1>1. WInv => WholeMessages
  BY DEF WInv, Front, Whole, WholeMessages
<1>2. QED
  BY <1>1, FrontsInvariance, PTL
=============================================================================
