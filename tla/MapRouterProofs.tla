--------------------------- MODULE MapRouterProofs ---------------------------
(* Theorems about the map router, for every set of clients, packet sizes,   *)
(* id space and bound.                                                      *)
EXTENDS MapRouter, SequenceTheorems, TLAPS

(***************************************************************************)
(* Type correctness.                                                       *)
(***************************************************************************)

LEMMA IdsFacts ==
    /\ 0 \in Ids
    /\ \A last \in Ids : NextServerPacketID(last) \in Ids
BY ConstantsAssumption DEF Ids, NextServerPacketID

LEMMA InitTypeOK == Init => TypeOK
<1> SUFFICES ASSUME Init PROVE TypeOK
  OBVIOUS
<1> USE IdsFacts, ConstantsAssumption DEF Init
<1>1. handler \in HandlerState
  BY DEF IdleHandler, HandlerState
<1>2. flusher \in FlusherState
  BY DEF IdleFlusher, FlusherState
<1>3. packetsToSend \in [Clients -> Seq(Packet)] /\ wire \in [Clients -> Seq(Datagram)]
  OBVIOUS
<1>. QED BY <1>1, <1>2, <1>3 DEF TypeOK

\* What the flusher's program counter says about its other locals.
FlusherOK ==
    /\ flusher.client # NoClient => flusher.client \in Clients
    /\ flusher.pc \in {"idle", "exited"} => flusher.client = NoClient
    /\ flusher.pc \in {"idle", "exited", "dequeue"} =>
            flusher.pending = <<>> /\ flusher.sent = 0
    /\ flusher.pc \in {"build", "write", "store"} =>
            flusher.client \in Clients /\ flusher.sent < Len(flusher.pending)
    /\ flusher.pc \in {"write", "store"} =>
            /\ flusher.consumed >= 1
            /\ flusher.sent + flusher.consumed <= Len(flusher.pending)

\* The handler works for a client that has a session.
HandlerOK == handler.pc # "idle" => handler.client \in sessions

Local == TypeOK /\ FlusherOK /\ HandlerOK

LEMMA NextSessionType ==
    ASSUME NEW f \in FlusherState
    PROVE  /\ NextSession(f) \in FlusherState
           /\ NextSession(f).pc \in {"idle", "dequeue"}
           /\ NextSession(f).client = NoClient
           /\ NextSession(f).pending = <<>>
           /\ NextSession(f).sent = 0
<1>1. f.todo \in SUBSET Clients
  BY DEF FlusherState
<1>. QED BY <1>1, IdsFacts DEF NextSession, FlusherState

LEMMA SizesAreLengths == \A c \in Clients : Sizes[c] \subseteq Nat
BY ConstantsAssumption

LEMMA AcksAreIds ==
    ASSUME TypeOK, NEW c \in Clients
    PROVE  Acks(c) \subseteq Ids
<1>1. ASSUME NEW i \in DOMAIN wire[c] PROVE wire[c][i].id \in Ids
  <2>1. wire[c][i] \in Datagram
    BY DEF TypeOK
  <2>. QED BY <2>1 DEF Datagram
<1>. QED BY <1>1, IdsFacts DEF Acks, Seen

LEMMA LocalInductive == Local /\ [Next]_vars => Local'
<1> SUFFICES ASSUME Local, [Next]_vars PROVE Local'
  OBVIOUS
<1> USE ConstantsAssumption, IdsFacts DEF Local
<1>1. ASSUME NEW c \in Clients, NEW ack \in Acks(c), CreateSession(c, ack)
      PROVE  Local'
  BY <1>1, AcksAreIds DEF CreateSession, SessionCreated, TypeOK, FlusherOK, HandlerOK, HandlerState
<1>2. ASSUME NEW c \in Clients, NEW ack \in Acks(c), NEW kind \in {"retry", "other"},
             ReceivePacket(c, ack, kind)
      PROVE  Local'
  BY <1>2, AcksAreIds DEF ReceivePacket, TypeOK, FlusherOK, HandlerOK, HandlerState
<1>3. CASE ReadServerID
  BY <1>3 DEF ReadServerID, TypeOK, FlusherOK, HandlerOK, HandlerState
<1>4. CASE UpdateServerAckFromClient
  BY <1>4 DEF UpdateServerAckFromClient, AckedID, IdleHandler, TypeOK, FlusherOK,
              HandlerOK, HandlerState
<1>5. CASE ForwardLogin \/ ProcessEncryptedPacket
  BY <1>5 DEF ForwardLogin, ProcessEncryptedPacket, ForwardPacketToInstance, IdleHandler, TypeOK, FlusherOK, HandlerOK, HandlerState
<1>6. ASSUME NEW c \in Clients, NEW size \in Sizes[c], ProcessNATSSendRequest(c, size)
      PROVE  Local'
  <2>1. [n |-> accepted[c] + 1, size |-> size] \in Packet
    BY SizesAreLengths DEF TypeOK, Packet
  <2>2. packetsToSend' \in [Clients -> Seq(Packet)]
    BY <1>6, <2>1, AppendProperties DEF ProcessNATSSendRequest, TypeOK
  <2>. QED
    BY <1>6, <2>2 DEF ProcessNATSSendRequest, TypeOK, FlusherOK, HandlerOK
<1>7. CASE Tick
  BY <1>7 DEF Tick, TypeOK, FlusherOK, HandlerOK, FlusherState
<1>8. ASSUME NEW c \in Clients, PickSession(c) PROVE Local'
  BY <1>8 DEF PickSession, TypeOK, FlusherOK, HandlerOK, FlusherState
<1>9. CASE DequeuePackets
  <2>1. CASE packetsToSend[flusher.client] = <<>>
    BY <1>9, <2>1, NextSessionType DEF DequeuePackets, TypeOK, FlusherOK, HandlerOK
  <2>2. CASE packetsToSend[flusher.client] # <<>>
    <3>1. packetsToSend[flusher.client] \in Seq(Packet)
      BY <1>9 DEF DequeuePackets, TypeOK, FlusherOK
    <3>2. Len(packetsToSend[flusher.client]) > 0
      BY <2>2, <3>1, EmptySeq
    <3>3. packetsToSend' \in [Clients -> Seq(Packet)]
      BY <1>9 DEF DequeuePackets, TypeOK, FlusherOK
    <3>4. flusher' = [flusher EXCEPT !.pc = "build", !.sent = 0,
                                     !.pending = packetsToSend[flusher.client]]
      BY <1>9, <2>2 DEF DequeuePackets
    <3>5. flusher' \in FlusherState
      BY <3>1, <3>4 DEF TypeOK, FlusherState
    <3>6. FlusherOK'
      BY <1>9, <3>2, <3>4 DEF DequeuePackets, TypeOK, FlusherOK, FlusherState
    <3>. QED
      BY <1>9, <3>3, <3>5, <3>6 DEF DequeuePackets, TypeOK, HandlerOK
  <2>. QED BY <2>1, <2>2
<1>10. CASE BuildPayload
  <2>1. PICK k \in 1 .. Remaining(flusher) :
            flusher' = [flusher EXCEPT
                !.pc = "write", !.consumed = k,
                !.id = NextServerPacketID(lastServerPacketID[flusher.client])]
    BY <1>10 DEF BuildPayload
  <2>2. /\ flusher.client \in Clients /\ flusher.sent \in Nat
        /\ flusher.pending \in Seq(Packet)
        /\ flusher.sent < Len(flusher.pending)
    BY <1>10 DEF BuildPayload, TypeOK, FlusherOK, FlusherState
  <2>3. k \in Nat /\ k >= 1 /\ flusher.sent + k <= Len(flusher.pending)
    BY <2>2 DEF Remaining
  <2>4. NextServerPacketID(lastServerPacketID[flusher.client]) \in Ids
    BY <2>2 DEF TypeOK
  <2>5. flusher' \in FlusherState
    BY <2>1, <2>3, <2>4 DEF TypeOK, FlusherState
  <2>6. FlusherOK'
    BY <2>1, <2>2, <2>3, <2>5 DEF FlusherOK, FlusherState, TypeOK
  <2>. QED
    BY <1>10, <2>5, <2>6 DEF BuildPayload, TypeOK, HandlerOK
<1>11. ASSUME flusher.pc \in {"build", "write"}, RequeuePackets,
              UNCHANGED <<sessions, loginForwarded, lastServerPacketID, accepted,
                          handler, wire, ctxDone>>, failures' \in Nat
       PROVE  Local'
  <2>1. packetsToSend' \in [Clients -> Seq(Packet)]
    <3>1. /\ flusher.pending \in Seq(Packet)
          /\ packetsToSend[flusher.client] \in Seq(Packet)
      BY <1>11 DEF TypeOK, FlusherOK, FlusherState
    <3>2. flusher.pending \o packetsToSend[flusher.client] \in Seq(Packet)
      BY <3>1, ConcatProperties
    <3>. QED BY <1>11, <3>2 DEF RequeuePackets, TypeOK
  <2>. QED
    BY <1>11, <2>1, NextSessionType DEF RequeuePackets, TypeOK, FlusherOK, HandlerOK
<1>12. CASE PacketExceedsBudget
  <2>1. failures' \in Nat
    BY <1>12 DEF PacketExceedsBudget, TypeOK
  <2>. QED BY <1>11, <1>12, <2>1 DEF PacketExceedsBudget
<1>13. CASE SendFails
  BY <1>11, <1>13 DEF SendFails, TypeOK
<1>14. CASE WriteToUDP
  <2> DEFINE d == [id |-> flusher.id,
                   packets |-> SubSeq(flusher.pending, flusher.sent + 1,
                                      flusher.sent + flusher.consumed)]
  <2>1. d \in Datagram
    <3>1. /\ flusher.pending \in Seq(Packet) /\ flusher.id \in Ids
          /\ flusher.sent \in Nat /\ flusher.consumed \in Nat
          /\ flusher.sent + flusher.consumed <= Len(flusher.pending)
      BY <1>14 DEF WriteToUDP, TypeOK, FlusherOK, FlusherState
    <3>2. \A i \in flusher.sent + 1 .. flusher.sent + flusher.consumed :
                flusher.pending[i] \in Packet
      BY <3>1
    <3>3. d.packets \in Seq(Packet)
      BY <3>1, <3>2, SubSeqProperties
    <3>. QED BY <3>1, <3>3 DEF Datagram
  <2>2. wire' \in [Clients -> Seq(Datagram)]
    BY <1>14, <2>1, AppendProperties DEF WriteToUDP, TypeOK, FlusherOK
  <2>. QED
    BY <1>14, <2>2 DEF WriteToUDP, TypeOK, FlusherOK, HandlerOK, FlusherState
<1>15. CASE StoreServerID
  <2>1. /\ flusher.client \in Clients /\ flusher.sent \in Nat
        /\ flusher.consumed \in Nat /\ flusher.id \in Ids
        /\ flusher.pending \in Seq(Packet)
        /\ SentAfterWrite(flusher) \in Nat
        /\ SentAfterWrite(flusher) <= Len(flusher.pending)
    BY <1>15 DEF StoreServerID, SentAfterWrite, TypeOK, FlusherOK, FlusherState
  <2>2. lastServerPacketID' \in [Clients -> Ids]
    BY <1>15, <2>1 DEF StoreServerID, TypeOK
  <2>3. CASE SentAfterWrite(flusher) = Len(flusher.pending)
    <3>1. flusher' = [flusher EXCEPT !.pc = "dequeue", !.pending = <<>>,
                                     !.sent = 0, !.consumed = 0, !.id = 0]
      BY <1>15, <2>3 DEF StoreServerID
    <3>2. flusher' \in FlusherState
      <4>1. flusher' = [pc |-> "dequeue", todo |-> flusher.todo,
                        client |-> flusher.client, pending |-> <<>>,
                        sent |-> 0, consumed |-> 0, id |-> 0]
        BY <3>1 DEF TypeOK, FlusherState
      <4>2. flusher.todo \in SUBSET Clients
        BY DEF TypeOK, FlusherState
      <4>. QED BY <2>1, <4>1, <4>2 DEF FlusherState
    <3>3. FlusherOK'
      BY <2>1, <3>1 DEF TypeOK, FlusherState, FlusherOK
    <3>. QED
      BY <1>15, <2>2, <3>2, <3>3 DEF StoreServerID, TypeOK, HandlerOK
  <2>4. CASE SentAfterWrite(flusher) # Len(flusher.pending)
    <3>1. flusher' = [flusher EXCEPT !.pc = "build",
                                     !.sent = SentAfterWrite(flusher),
                                     !.consumed = 0, !.id = 0]
      BY <1>15, <2>4 DEF StoreServerID
    <3>2. flusher' \in FlusherState
      BY <2>1, <3>1 DEF TypeOK, FlusherState
    <3>3. SentAfterWrite(flusher) < Len(flusher.pending)
      BY <2>1, <2>4
    <3>4. FlusherOK'
      BY <2>1, <3>1, <3>3 DEF TypeOK, FlusherState, FlusherOK
    <3>. QED
      BY <1>15, <2>2, <3>2, <3>4 DEF StoreServerID, TypeOK, HandlerOK
  <2>. QED BY <2>3, <2>4
<1>16. CASE CancelContext
  BY <1>16 DEF CancelContext, TypeOK, FlusherOK, HandlerOK
<1>17. CASE StopDelivering
  BY <1>17 DEF StopDelivering, TypeOK, FlusherOK, HandlerOK, FlusherState
<1>18. CASE UNCHANGED vars
  BY <1>18 DEF vars, TypeOK, FlusherOK, HandlerOK
<1>. QED
  BY <1>1, <1>2, <1>3, <1>4, <1>5, <1>6, <1>7, <1>8, <1>9, <1>10, <1>12, <1>13,
     <1>14, <1>15, <1>16, <1>17, <1>18
     DEF Next, HandlerStep, FlusherStep

\* The router's variables keep their types, and its goroutines' locals agree
\* with their program counters.
THEOREM TypeCorrect == Spec => []TypeOK
<1>1. Init => Local
  BY InitTypeOK DEF Init, Local, FlusherOK, HandlerOK, IdleFlusher, IdleHandler
<1>. QED BY <1>1, LocalInductive, PTL DEF Spec, Local

(***************************************************************************)
(* No loss and no overtaking.  The packets of a client that are not known  *)
(* to be on the wire are the rest of the burst followed by the queue; the  *)
(* two together are a run of consecutive numbers that ends with the last   *)
(* packet accepted, so what precedes the run has been written.             *)
(***************************************************************************)

BurstLen(c) == IF flusher.client = c THEN Len(flusher.pending) ELSE 0

SentOf(c) == IF flusher.client = c THEN flusher.sent ELSE 0

QueueStart(c) == accepted[c] - Len(packetsToSend[c])

BurstStart(c) == QueueStart(c) - BurstLen(c)

Numbering ==
    \A c \in Clients :
        /\ BurstStart(c) >= 0
        /\ \A i \in 1 .. Len(packetsToSend[c]) :
                packetsToSend[c][i].n = QueueStart(c) + i
        /\ \A i \in 1 .. BurstLen(c) : flusher.pending[i].n = BurstStart(c) + i

Covered ==
    \A c \in Clients : \A k \in 1 .. BurstStart(c) + SentOf(c) : OnWire(c, k)

JustWritten ==
    flusher.pc = "store" =>
        \A i \in flusher.sent + 1 .. flusher.sent + flusher.consumed :
            OnWire(flusher.client, flusher.pending[i].n)

DeliveryInv == Numbering /\ Covered /\ JustWritten /\ InOrder

LEMMA Sorts ==
    ASSUME Local, NEW c \in Clients
    PROVE  /\ packetsToSend[c] \in Seq(Packet) /\ Len(packetsToSend[c]) \in Nat
           /\ flusher.pending \in Seq(Packet) /\ Len(flusher.pending) \in Nat
           /\ wire[c] \in Seq(Datagram) /\ Len(wire[c]) \in Nat
           /\ accepted[c] \in Nat /\ flusher.sent \in Nat
           /\ flusher.consumed \in Nat
           /\ BurstLen(c) \in Nat /\ SentOf(c) \in Nat
           /\ QueueStart(c) \in Int /\ BurstStart(c) \in Int
           /\ SentOf(c) <= BurstLen(c)
<1>1. /\ packetsToSend[c] \in Seq(Packet) /\ flusher.pending \in Seq(Packet)
      /\ wire[c] \in Seq(Datagram) /\ accepted[c] \in Nat
      /\ flusher.sent \in Nat /\ flusher.consumed \in Nat
  BY DEF Local, TypeOK, FlusherState
<1>2. /\ Len(packetsToSend[c]) \in Nat /\ Len(flusher.pending) \in Nat
      /\ Len(wire[c]) \in Nat
  BY <1>1, LenProperties
<1>3. flusher.sent <= Len(flusher.pending)
  <2>1. CASE flusher.pc \in {"build", "write", "store"}
    BY <1>1, <1>2, <2>1 DEF Local, FlusherOK
  <2>2. CASE flusher.pc \in {"idle", "exited", "dequeue"}
    BY <1>1, <1>2, <2>2 DEF Local, FlusherOK
  <2>. QED BY <2>1, <2>2 DEF Local, TypeOK, FlusherState
<1>. QED
  BY <1>1, <1>2, <1>3 DEF BurstLen, SentOf, QueueStart, BurstStart

\* A step that touches neither the queues nor the wire nor the burst.
LEMMA Frame ==
    ASSUME Local, DeliveryInv,
           UNCHANGED <<packetsToSend, accepted, wire>>,
           flusher'.pending = flusher.pending,
           \A c \in Clients : BurstLen(c)' = BurstLen(c) /\ SentOf(c)' = SentOf(c),
           flusher'.pc = "store" => flusher' = flusher
    PROVE  DeliveryInv'
<1>1. ASSUME NEW c \in Clients
      PROVE  QueueStart(c)' = QueueStart(c) /\ BurstStart(c)' = BurstStart(c)
  BY DEF QueueStart, BurstStart
<1>2. \A c, k : OnWire(c, k)' <=> OnWire(c, k)
  BY DEF OnWire
<1>3. Numbering'
  BY <1>1 DEF DeliveryInv, Numbering
<1>4. Covered'
  BY <1>1, <1>2 DEF DeliveryInv, Covered
<1>5. JustWritten'
  BY <1>2 DEF DeliveryInv, JustWritten
<1>6. InOrder'
  BY DEF DeliveryInv, InOrder, After
<1>. QED BY <1>3, <1>4, <1>5, <1>6 DEF DeliveryInv

\* No burst in hand, before and after.
LEMMA QuietFrame ==
    ASSUME Local, DeliveryInv,
           UNCHANGED <<packetsToSend, accepted, wire>>,
           flusher.pending = <<>>, flusher'.pending = <<>>,
           flusher.sent = 0, flusher'.sent = 0, flusher'.pc # "store"
    PROVE  DeliveryInv'
<1>1. \A c \in Clients : BurstLen(c)' = BurstLen(c) /\ SentOf(c)' = SentOf(c)
  BY DEF BurstLen, SentOf
<1>. QED BY <1>1, Frame

LEMMA AcceptKeepsDelivery ==
    ASSUME Local, DeliveryInv, NEW c \in Clients, NEW size \in Sizes[c],
           ProcessNATSSendRequest(c, size)
    PROVE  DeliveryInv'
<1> DEFINE p == [n |-> accepted[c] + 1, size |-> size]
<1>1. /\ packetsToSend[c] \in Seq(Packet) /\ p \in Packet
      /\ packetsToSend' = [packetsToSend EXCEPT ![c] = Append(@, p)]
      /\ accepted' = [accepted EXCEPT ![c] = @ + 1]
      /\ UNCHANGED <<flusher, wire>>
  <2>1. p \in Packet
    BY Sorts, SizesAreLengths DEF Packet
  <2>. QED BY <2>1, Sorts DEF ProcessNATSSendRequest
<1>2. /\ Len(packetsToSend'[c]) = Len(packetsToSend[c]) + 1
      /\ \A i \in 1 .. Len(packetsToSend[c]) :
            packetsToSend'[c][i] = packetsToSend[c][i]
      /\ packetsToSend'[c][Len(packetsToSend[c]) + 1] = p
  BY <1>1, AppendProperties DEF Local, TypeOK
<1>3. accepted'[c] = accepted[c] + 1
  BY <1>1 DEF Local, TypeOK
<1>4. ASSUME NEW d \in Clients
      PROVE  /\ QueueStart(d)' = QueueStart(d) /\ BurstStart(d)' = BurstStart(d)
             /\ SentOf(d)' = SentOf(d) /\ BurstLen(d)' = BurstLen(d)
  <2>1. CASE d = c
    BY <1>1, <1>2, <1>3, <2>1, Sorts DEF QueueStart, BurstStart, BurstLen, SentOf
  <2>2. CASE d # c
    BY <1>1, <2>2 DEF QueueStart, BurstStart, BurstLen, SentOf, Local, TypeOK
  <2>. QED BY <2>1, <2>2
<1>5. \A d, k : OnWire(d, k)' <=> OnWire(d, k)
  BY <1>1 DEF OnWire
<1>6. Numbering'
  <2> SUFFICES ASSUME NEW d \in Clients
               PROVE  /\ BurstStart(d)' >= 0
                      /\ \A i \in 1 .. Len(packetsToSend'[d]) :
                            packetsToSend'[d][i].n = QueueStart(d)' + i
                      /\ \A i \in 1 .. BurstLen(d)' :
                            flusher'.pending[i].n = BurstStart(d)' + i
    BY DEF Numbering
  <2>1. BurstStart(d)' >= 0 /\ \A i \in 1 .. BurstLen(d)' :
            flusher'.pending[i].n = BurstStart(d)' + i
    BY <1>1, <1>4 DEF DeliveryInv, Numbering
  <2>2. CASE d # c
    BY <1>1, <1>4, <2>1, <2>2 DEF DeliveryInv, Numbering, Local, TypeOK
  <2>3. CASE d = c
    <3>1. p.n = QueueStart(c) + Len(packetsToSend[c]) + 1
      BY Sorts DEF QueueStart
    <3>2. ASSUME NEW i \in 1 .. Len(packetsToSend'[c])
          PROVE  packetsToSend'[c][i].n = QueueStart(c) + i
      <4>1. CASE i = Len(packetsToSend[c]) + 1
        <5>1. packetsToSend'[c][i] = p
          BY <1>2, <4>1
        <5>2. p.n = QueueStart(c) + i
          BY <3>1, <4>1, Sorts
        <5>. QED BY <5>1, <5>2
      <4>2. CASE i # Len(packetsToSend[c]) + 1
        <5>1. i \in 1 .. Len(packetsToSend[c])
          BY <1>2, <4>2, Sorts
        <5>. QED BY <1>2, <5>1 DEF DeliveryInv, Numbering
      <4>. QED BY <4>1, <4>2
    <3>. QED BY <1>4, <2>1, <2>3, <3>2
  <2>. QED BY <2>2, <2>3
<1>7. Covered'
  BY <1>4, <1>5 DEF DeliveryInv, Covered
<1>8. JustWritten'
  BY <1>1, <1>5 DEF DeliveryInv, JustWritten
<1>9. InOrder'
  BY <1>1 DEF DeliveryInv, InOrder, After
<1>. QED BY <1>6, <1>7, <1>8, <1>9 DEF DeliveryInv

LEMMA DequeueKeepsDelivery ==
    ASSUME Local, DeliveryInv, DequeuePackets,
           NEW c \in Clients, flusher.client = c
    PROVE  DeliveryInv'
<1> DEFINE q == packetsToSend[c]
<1>1. /\ flusher.pending = <<>> /\ flusher.sent = 0
      /\ flusher.pc = "dequeue"
  BY DEF DequeuePackets, Local, FlusherOK
<1>2. q \in Seq(Packet) /\ Len(q) \in Nat /\ accepted[c] \in Nat
  BY <1>1, Sorts
<1>3. /\ packetsToSend' = [packetsToSend EXCEPT ![c] = <<>>]
      /\ UNCHANGED <<accepted, wire>>
  BY DEF DequeuePackets
<1>4. CASE q = <<>>
  <2>1. packetsToSend' = packetsToSend
    BY <1>1, <1>3, <1>4 DEF Local, TypeOK
  <2>2. flusher'.pending = <<>> /\ flusher'.sent = 0 /\ flusher'.pc # "store"
    BY <1>4, NextSessionType DEF DequeuePackets, Local, TypeOK
  <2>. QED BY <1>1, <1>3, <2>1, <2>2, QuietFrame
<1>5. CASE q # <<>>
  <2>1. flusher' = [flusher EXCEPT !.pc = "build", !.sent = 0, !.pending = q]
    BY <1>5 DEF DequeuePackets
  <2>2. /\ flusher'.client = c /\ flusher'.pending = q /\ flusher'.sent = 0
        /\ flusher'.pc = "build"
    BY <2>1 DEF Local, TypeOK, FlusherState
  <2>3. /\ packetsToSend'[c] = <<>>
        /\ \A d \in Clients \ {c} : packetsToSend'[d] = packetsToSend[d]
    BY <1>1, <1>3 DEF Local, TypeOK
  <2>4. /\ QueueStart(c)' = accepted[c] /\ BurstStart(c)' = QueueStart(c)
        /\ BurstStart(c) = QueueStart(c) /\ SentOf(c)' = 0 /\ SentOf(c) = 0
        /\ BurstLen(c)' = Len(q)
    BY <1>1, <1>2, <1>3, <2>2, <2>3
       DEF QueueStart, BurstStart, BurstLen, SentOf
  <2>5. ASSUME NEW d \in Clients, d # c
        PROVE  /\ QueueStart(d)' = QueueStart(d) /\ BurstStart(d)' = BurstStart(d)
               /\ SentOf(d)' = SentOf(d) /\ BurstLen(d)' = 0
    BY <1>3, <2>2, <2>3, <2>5, <1>1 DEF QueueStart, BurstStart, BurstLen, SentOf
  <2>6. \A d, k : OnWire(d, k)' <=> OnWire(d, k)
    BY <1>3 DEF OnWire
  <2>7. Numbering'
    <3>1. ASSUME NEW d \in Clients, d # c
          PROVE  /\ BurstStart(d)' >= 0
                 /\ \A i \in 1 .. Len(packetsToSend'[d]) :
                        packetsToSend'[d][i].n = QueueStart(d)' + i
                 /\ \A i \in 1 .. BurstLen(d)' :
                        flusher'.pending[i].n = BurstStart(d)' + i
      BY <2>3, <2>5, <3>1 DEF DeliveryInv, Numbering
    <3>2. /\ BurstStart(c)' >= 0
          /\ \A i \in 1 .. Len(packetsToSend'[c]) :
                packetsToSend'[c][i].n = QueueStart(c)' + i
          /\ \A i \in 1 .. BurstLen(c)' :
                flusher'.pending[i].n = BurstStart(c)' + i
      BY <1>1, <2>2, <2>3, <2>4 DEF DeliveryInv, Numbering
    <3>. QED
      <4>1. ASSUME NEW d \in Clients
            PROVE  /\ BurstStart(d)' >= 0
                   /\ \A i \in 1 .. Len(packetsToSend'[d]) :
                          packetsToSend'[d][i].n = QueueStart(d)' + i
                   /\ \A i \in 1 .. BurstLen(d)' :
                          flusher'.pending[i].n = BurstStart(d)' + i
        BY <3>1, <3>2
      <4>. QED BY <4>1 DEF Numbering
  <2>8. Covered'
    <3>1. ASSUME NEW d \in Clients
          PROVE  BurstStart(d)' + SentOf(d)' = BurstStart(d) + SentOf(d)
      BY <2>4, <2>5
    <3>. QED BY <2>6, <3>1 DEF DeliveryInv, Covered
  <2>9. JustWritten'
    BY <2>2 DEF JustWritten
  <2>10. InOrder'
    BY <1>3 DEF DeliveryInv, InOrder, After
  <2>. QED BY <2>7, <2>8, <2>9, <2>10 DEF DeliveryInv
<1>. QED BY <1>4, <1>5

LEMMA RequeueKeepsDelivery ==
    ASSUME Local, DeliveryInv, flusher.pc \in {"build", "write"}, RequeuePackets,
           UNCHANGED <<accepted, wire>>, NEW c \in Clients, flusher.client = c
    PROVE  DeliveryInv'
<1> DEFINE q == packetsToSend[c]
           b == flusher.pending
<1>1. c # NoClient
  BY ConstantsAssumption
<1>2. /\ q \in Seq(Packet) /\ Len(q) \in Nat /\ accepted[c] \in Nat
      /\ b \in Seq(Packet) /\ Len(b) \in Nat
      /\ SentOf(c) \in Nat
  BY <1>1, Sorts
<1>3. /\ flusher'.client = NoClient /\ flusher'.pc # "store"
  BY NextSessionType DEF RequeuePackets, Local, TypeOK
<1>4. /\ packetsToSend'[c] = b \o q
      /\ \A d \in Clients \ {c} : packetsToSend'[d] = packetsToSend[d]
  BY <1>1 DEF RequeuePackets, Local, TypeOK
<1>5. /\ Len(b \o q) = Len(b) + Len(q)
      /\ \A i \in 1 .. Len(b) + Len(q) :
            (b \o q)[i] = IF i <= Len(b) THEN b[i] ELSE q[i - Len(b)]
  BY <1>2, ConcatProperties
<1>6. \A d \in Clients : BurstLen(d)' = 0 /\ SentOf(d)' = 0
  BY <1>3, ConstantsAssumption DEF BurstLen, SentOf
<1>7. /\ QueueStart(c)' = BurstStart(c) /\ BurstStart(c)' = BurstStart(c)
      /\ BurstLen(c) = Len(b) /\ BurstStart(c) = QueueStart(c) - Len(b)
      /\ QueueStart(c) \in Int
  <2>1. BurstLen(c) = Len(b) /\ BurstStart(c) = QueueStart(c) - Len(b)
    BY DEF BurstStart, BurstLen
  <2>2. QueueStart(c) = accepted[c] - Len(q) /\ QueueStart(c) \in Int
    BY <1>2 DEF QueueStart
  <2>3. QueueStart(c)' = accepted[c] - Len(b \o q)
    BY <1>4 DEF QueueStart
  <2>4. Len(b \o q) = Len(b) + Len(q)
    BY <1>5
  <2>5. QueueStart(c)' = QueueStart(c) - Len(b)
    <3> HIDE DEF b, q
    <3>. QED BY <1>2, <2>2, <2>3, <2>4
  <2>6. BurstStart(c)' = QueueStart(c)' - BurstLen(c)' /\ BurstLen(c)' = 0
    BY <1>6 DEF BurstStart
  <2>. QED BY <1>2, <2>1, <2>2, <2>5, <2>6
<1>8. ASSUME NEW d \in Clients, d # c
      PROVE  /\ QueueStart(d)' = QueueStart(d) /\ BurstStart(d)' = BurstStart(d)
             /\ SentOf(d) = 0
  BY <1>4, <1>6, <1>8 DEF QueueStart, BurstStart, BurstLen, SentOf
<1>9. \A d, k : OnWire(d, k)' <=> OnWire(d, k)
  BY DEF OnWire
<1>10. Numbering'
  <2>1. ASSUME NEW d \in Clients, d # c
        PROVE  /\ BurstStart(d)' >= 0
               /\ \A i \in 1 .. Len(packetsToSend'[d]) :
                      packetsToSend'[d][i].n = QueueStart(d)' + i
    BY <1>4, <1>8, <2>1 DEF DeliveryInv, Numbering
  <2>2. ASSUME NEW i \in 1 .. Len(b) + Len(q)
        PROVE  packetsToSend'[c][i].n = BurstStart(c) + i
    <3>1. CASE i <= Len(b)
      <4>1. i \in 1 .. BurstLen(c) /\ packetsToSend'[c][i] = b[i]
        BY <1>2, <1>4, <1>5, <1>7, <3>1
      <4>. QED BY <1>1, <4>1 DEF DeliveryInv, Numbering
    <3>2. CASE ~(i <= Len(b))
      <4>1. i - Len(b) \in 1 .. Len(q) /\ packetsToSend'[c][i] = q[i - Len(b)]
        <5>1. i \in 1 .. Len(b) + Len(q) /\ i - Len(b) \in 1 .. Len(q)
          <6> HIDE DEF b, q
          <6>. QED BY <1>2, <3>2
        <5>2. (b \o q)[i] = q[i - Len(b)]
          BY <1>5, <3>2, <5>1
        <5>. QED BY <1>4, <5>1, <5>2
      <4>2. q[i - Len(b)].n = QueueStart(c) + (i - Len(b))
        BY <1>1, <4>1 DEF DeliveryInv, Numbering
      <4>. QED BY <1>2, <1>7, <4>1, <4>2
    <3>. QED BY <3>1, <3>2
  <2>3. /\ BurstStart(c)' >= 0
        /\ \A i \in 1 .. Len(packetsToSend'[c]) :
              packetsToSend'[c][i].n = QueueStart(c)' + i
    BY <1>1, <1>4, <1>5, <1>7, <2>2 DEF DeliveryInv, Numbering
  <2>4. ASSUME NEW d \in Clients
        PROVE  /\ BurstStart(d)' >= 0
               /\ \A i \in 1 .. Len(packetsToSend'[d]) :
                      packetsToSend'[d][i].n = QueueStart(d)' + i
               /\ \A i \in 1 .. BurstLen(d)' :
                      flusher'.pending[i].n = BurstStart(d)' + i
    <3>1. BurstLen(d)' = 0
      BY <1>6
    <3>. QED BY <2>1, <2>3, <3>1
  <2>. QED BY <2>4 DEF Numbering
<1>11. Covered'
  <2>1. ASSUME NEW d \in Clients, NEW k \in 1 .. BurstStart(d)'
        PROVE  OnWire(d, k)
    <3>1. SentOf(d) \in Nat /\ BurstStart(d) \in Int
      BY Sorts
    <3>2. k \in 1 .. BurstStart(d) + SentOf(d)
      <4>1. BurstStart(d)' = BurstStart(d)
        BY <1>7, <1>8
      <4>. QED BY <3>1, <4>1
    <3>. QED BY <3>2 DEF DeliveryInv, Covered
  <2>2. ASSUME NEW d \in Clients
        PROVE  BurstStart(d)' + SentOf(d)' = BurstStart(d)'
    <3>1. BurstStart(d)' \in Int
      <4>1. BurstStart(d)' = BurstStart(d)
        BY <1>7, <1>8
      <4>. QED BY <4>1, Sorts
    <3>. QED BY <1>6, <3>1
  <2>. QED BY <1>9, <2>1, <2>2 DEF Covered
<1>12. JustWritten'
  BY <1>3 DEF JustWritten
<1>13. InOrder'
  BY DEF DeliveryInv, InOrder, After
<1>. QED BY <1>10, <1>11, <1>12, <1>13 DEF DeliveryInv

\* The packets of a datagram, as positions of the burst.
LEMMA DatagramPackets ==
    ASSUME NEW S, NEW b \in Seq(S), NEW s \in Nat, NEW m \in Nat,
           s + m <= Len(b)
    PROVE  /\ SubSeq(b, s + 1, s + m) \in Seq(S)
           /\ Len(SubSeq(b, s + 1, s + m)) = m
           /\ \A i \in 1 .. m : SubSeq(b, s + 1, s + m)[i] = b[s + i]
<1> DEFINE lo == s + 1
           hi == s + m
<1>1. /\ lo \in Int /\ hi \in Int /\ hi - lo + 1 = m
      /\ (lo <= hi \/ m = 0) /\ \A i \in 1 .. m : lo + i - 1 = s + i
  OBVIOUS
<1>2. \A i \in lo .. hi : b[i] \in S
  BY LenProperties
<1> HIDE DEF lo, hi
<1>3. /\ SubSeq(b, lo, hi) \in Seq(S)
      /\ Len(SubSeq(b, lo, hi)) = IF lo <= hi THEN hi - lo + 1 ELSE 0
      /\ \A i \in 1 .. hi - lo + 1 : SubSeq(b, lo, hi)[i] = b[lo + i - 1]
  BY <1>1, <1>2, SubSeqProperties
<1>4. /\ SubSeq(b, lo, hi) \in Seq(S)
      /\ Len(SubSeq(b, lo, hi)) = m
      /\ \A i \in 1 .. m : SubSeq(b, lo, hi)[i] = b[s + i]
  BY <1>1, <1>3
<1>. QED BY <1>4 DEF lo, hi

LEMMA WriteKeepsDelivery ==
    ASSUME Local, DeliveryInv, WriteToUDP, NEW c \in Clients, flusher.client = c
    PROVE  DeliveryInv'
<1> DEFINE b == flusher.pending
           s == flusher.sent
           m == flusher.consumed
           d == [id |-> flusher.id, packets |-> SubSeq(b, s + 1, s + m)]
           w == wire[c]
<1>1. /\ b \in Seq(Packet) /\ s \in Nat /\ m \in Nat /\ Len(b) \in Nat
      /\ s + m <= Len(b) /\ m >= 1 /\ w \in Seq(Datagram) /\ Len(w) \in Nat
      /\ flusher.id \in Ids
  BY Sorts DEF WriteToUDP, Local, FlusherOK, TypeOK, FlusherState
<1>2. /\ d.packets \in Seq(Packet)
      /\ Len(d.packets) = m
      /\ \A i \in 1 .. m : d.packets[i] = b[s + i]
  <2> HIDE DEF b, s, m
  <2>. QED BY <1>1, DatagramPackets
<1>3. d \in Datagram
  BY <1>1, <1>2 DEF Datagram
<1>4. /\ wire' = [wire EXCEPT ![c] = Append(@, d)]
      /\ flusher' = [flusher EXCEPT !.pc = "store"]
      /\ UNCHANGED <<packetsToSend, accepted>>
  BY DEF WriteToUDP
<1>5. /\ flusher'.client = c /\ flusher'.pending = b /\ flusher'.sent = s
      /\ flusher'.consumed = m
  BY <1>4 DEF Local, TypeOK, FlusherState
<1>6. /\ Len(wire'[c]) = Len(w) + 1
      /\ \A j \in 1 .. Len(w) : wire'[c][j] = w[j]
      /\ wire'[c][Len(w) + 1] = d
      /\ DOMAIN w = 1 .. Len(w) /\ DOMAIN wire'[c] = 1 .. Len(w) + 1
      /\ \A e \in Clients \ {c} : wire'[e] = wire[e]
  <2>1. wire'[c] = Append(w, d) /\ \A e \in Clients \ {c} : wire'[e] = wire[e]
    BY <1>4 DEF Local, TypeOK
  <2>2. Append(w, d) \in Seq(Datagram)
    BY <1>1, <1>3, AppendProperties
  <2>. QED BY <1>1, <1>3, <2>1, <2>2, AppendProperties, LenProperties
<1>7. ASSUME NEW e \in Clients
      PROVE  /\ QueueStart(e)' = QueueStart(e) /\ BurstStart(e)' = BurstStart(e)
             /\ SentOf(e)' = SentOf(e) /\ BurstLen(e)' = BurstLen(e)
  BY <1>4, <1>5 DEF QueueStart, BurstStart, BurstLen, SentOf
<1>8. ASSUME NEW e \in Clients, NEW k, OnWire(e, k) PROVE OnWire(e, k)'
  <2>1. CASE e = c
    <3>1. PICK j \in DOMAIN w : \E x \in DOMAIN w[j].packets : w[j].packets[x].n = k
      BY <1>8, <2>1 DEF OnWire
    <3>2. j \in DOMAIN wire'[c] /\ wire'[c][j] = w[j]
      BY <1>1, <1>6
    <3>. QED BY <2>1, <3>1, <3>2 DEF OnWire
  <2>2. CASE e # c
    BY <1>6, <1>8, <2>2 DEF OnWire
  <2>. QED BY <2>1, <2>2
<1>9. ASSUME NEW k, NEW i \in s + 1 .. s + m, b[i].n = k PROVE OnWire(c, k)'
  <2>1. i - s \in 1 .. m /\ s + (i - s) = i
    <3> HIDE DEF s, m
    <3>. QED BY <1>1
  <2>2. d.packets[i - s] = b[i] /\ i - s \in DOMAIN d.packets
    BY <1>2, <2>1, LenProperties
  <2>3. Len(w) + 1 \in DOMAIN wire'[c]
    BY <1>1, <1>6
  <2>4. wire'[c][Len(w) + 1].packets[i - s].n = k
    BY <1>6, <1>9, <2>2
  <2>. QED BY <1>6, <2>2, <2>3, <2>4 DEF OnWire
<1>10. Numbering'
  BY <1>4, <1>5, <1>7 DEF DeliveryInv, Numbering
<1>11. Covered'
  BY <1>7, <1>8 DEF DeliveryInv, Covered
<1>12. JustWritten'
  BY <1>5, <1>9 DEF JustWritten
<1>13. ASSUME NEW e \in Clients, NEW j \in DOMAIN wire'[e],
              NEW x \in DOMAIN wire'[e][j].packets, NEW k,
              wire'[e][j].packets[x].n = k, k > 1
       PROVE  After(e, j, x, k - 1)'
  <2>1. CASE e # c
    <3>1. wire'[e] = wire[e]
      BY <1>6, <2>1
    <3>2. After(e, j, x, k - 1)
      BY <1>13, <3>1 DEF DeliveryInv, InOrder
    <3>. QED BY <3>1, <3>2 DEF After
  <2>2. CASE e = c /\ j \in 1 .. Len(w)
    <3>1. wire'[c][j] = w[j] /\ j \in DOMAIN w
      BY <1>6, <2>2
    <3>2. After(c, j, x, k - 1)
      BY <1>13, <2>2, <3>1 DEF DeliveryInv, InOrder
    <3>3. \A i \in 1 .. j - 1 : wire'[c][i] = w[i]
      BY <1>1, <1>6, <2>2
    <3>. QED BY <2>2, <3>1, <3>2, <3>3 DEF After
  <2>3. CASE e = c /\ j = Len(w) + 1
    <3>1. wire'[c][j] = d /\ DOMAIN d.packets = 1 .. m
      BY <1>2, <1>6, <2>3, LenProperties
    <3>2. x \in 1 .. m /\ b[s + x].n = k
      BY <1>2, <1>13, <2>3, <3>1
    <3>3. BurstLen(c) = Len(b) /\ SentOf(c) = s /\ BurstStart(c) \in Int
      BY Sorts DEF BurstLen, SentOf
    <3>4. \A i \in 1 .. Len(b) : b[i].n = BurstStart(c) + i
      BY <3>3 DEF DeliveryInv, Numbering
    <3>5. k = BurstStart(c) + (s + x)
      <4>1. s + x \in 1 .. Len(b)
        <5> HIDE DEF b, s, m
        <5>. QED BY <1>1, <3>2
      <4>. QED BY <3>2, <3>4, <4>1
    <3>6. CASE x > 1
      <4>1. /\ x - 1 \in 1 .. m /\ s + (x - 1) \in 1 .. Len(b)
            /\ BurstStart(c) + (s + (x - 1)) = k - 1
        <5> HIDE DEF b, s, m
        <5>. QED BY <1>1, <3>2, <3>3, <3>5, <3>6
      <4>2. d.packets[x - 1].n = k - 1
        BY <1>2, <3>4, <4>1
      <4>. QED BY <2>3, <3>1, <3>6, <4>2 DEF After
    <3>7. CASE ~(x > 1)
      <4>1. k - 1 \in 1 .. BurstStart(c) + SentOf(c)
        <5> HIDE DEF b, s, m
        <5>. QED BY <1>1, <1>13, <3>2, <3>3, <3>5, <3>7
      <4>2. OnWire(c, k - 1)
        BY <4>1 DEF DeliveryInv, Covered
      <4>3. PICK i \in DOMAIN w : \E y \in DOMAIN w[i].packets :
                w[i].packets[y].n = k - 1
        BY <4>2 DEF OnWire
      <4>4. i \in 1 .. j - 1 /\ wire'[c][i] = w[i]
        BY <1>1, <1>6, <2>3
      <4>. QED BY <2>3, <4>3, <4>4 DEF After
    <3>. QED BY <3>6, <3>7
  <2>. QED BY <1>1, <1>6, <2>1, <2>2, <2>3
<1>14. InOrder'
  BY <1>13 DEF InOrder
<1>. QED BY <1>10, <1>11, <1>12, <1>14 DEF DeliveryInv

LEMMA StoreKeepsDelivery ==
    ASSUME Local, DeliveryInv, StoreServerID, NEW c \in Clients, flusher.client = c
    PROVE  DeliveryInv'
<1> DEFINE b == flusher.pending
           s == flusher.sent
           m == flusher.consumed
<1>1. /\ b \in Seq(Packet) /\ s \in Nat /\ m \in Nat /\ Len(b) \in Nat
      /\ s + m <= Len(b) /\ SentAfterWrite(flusher) = s + m
      /\ BurstLen(c) = Len(b) /\ SentOf(c) = s
      /\ QueueStart(c) \in Int /\ BurstStart(c) = QueueStart(c) - Len(b)
  BY Sorts DEF StoreServerID, SentAfterWrite, Local, FlusherOK, BurstLen, SentOf,
               BurstStart
<1>2. UNCHANGED <<packetsToSend, accepted, wire>>
  BY DEF StoreServerID
<1>3. \A d \in Clients : QueueStart(d)' = QueueStart(d)
  BY <1>2 DEF QueueStart
<1>4. \A d, k : OnWire(d, k)' <=> OnWire(d, k)
  BY <1>2 DEF OnWire
<1>5. \A i \in 1 .. Len(b) : b[i].n = BurstStart(c) + i
  BY <1>1 DEF DeliveryInv, Numbering
<1>6. \A k \in 1 .. BurstStart(c) + (s + m) : OnWire(c, k)
  <2> SUFFICES ASSUME NEW k \in 1 .. BurstStart(c) + (s + m) PROVE OnWire(c, k)
    OBVIOUS
  <2>1. CASE k <= BurstStart(c) + s
    <3>1. k \in 1 .. BurstStart(c) + SentOf(c)
      <4> HIDE DEF b, s, m
      <4>. QED BY <1>1, <2>1
    <3>. QED BY <3>1 DEF DeliveryInv, Covered
  <2>2. CASE ~(k <= BurstStart(c) + s)
    <3>1. /\ k - BurstStart(c) \in s + 1 .. s + m
          /\ k - BurstStart(c) \in 1 .. Len(b)
          /\ BurstStart(c) + (k - BurstStart(c)) = k
      <4>1. k \in Int /\ BurstStart(c) \in Int
        BY <1>1
      <4>2. k - BurstStart(c) >= s + 1 /\ k - BurstStart(c) <= s + m
        <5> HIDE DEF b, s, m
        <5>. QED BY <1>1, <2>2, <4>1
      <4>3. k - BurstStart(c) \in s + 1 .. s + m
        <5> HIDE DEF b, s, m
        <5>. QED BY <1>1, <4>1, <4>2
      <4>4. k - BurstStart(c) >= 1 /\ k - BurstStart(c) <= Len(b)
        <5> HIDE DEF b, s, m
        <5>. QED BY <1>1, <4>1, <4>2
      <4>5. BurstStart(c) + (k - BurstStart(c)) = k
        BY <4>1
      <4> HIDE DEF b, s, m
      <4>. QED BY <1>1, <4>1, <4>3, <4>4, <4>5
    <3>2. b[k - BurstStart(c)].n = k
      BY <1>5, <3>1
    <3>. QED BY <3>1, <3>2 DEF StoreServerID, DeliveryInv, JustWritten
  <2>. QED BY <2>1, <2>2
<1>7. ASSUME NEW d \in Clients, d # c, flusher'.client = c
      PROVE  /\ BurstStart(d)' = BurstStart(d) /\ BurstLen(d)' = 0 /\ BurstLen(d) = 0
             /\ SentOf(d)' = SentOf(d)
  BY <1>3, <1>7 DEF BurstStart, BurstLen, SentOf
<1>8. InOrder'
  BY <1>2 DEF DeliveryInv, InOrder, After
<1>9. CASE SentAfterWrite(flusher) = Len(b)
  <2>1. /\ flusher'.client = c /\ flusher'.pending = <<>> /\ flusher'.sent = 0
        /\ flusher'.pc # "store"
    BY <1>9 DEF StoreServerID, Local, TypeOK, FlusherState
  <2>2. /\ BurstLen(c)' = 0 /\ SentOf(c)' = 0 /\ BurstStart(c)' = QueueStart(c)
    BY <1>1, <1>3, <2>1 DEF BurstStart, BurstLen, SentOf
  <2>3. QueueStart(c) = BurstStart(c) + (s + m) /\ QueueStart(c) >= 0
    <3>1. BurstStart(c) >= 0
      BY DEF DeliveryInv, Numbering
    <3> HIDE DEF b, s, m
    <3>. QED BY <1>1, <1>9, <3>1
  <2>4. Numbering'
    <3>1. ASSUME NEW d \in Clients
          PROVE  /\ BurstStart(d)' >= 0 /\ BurstLen(d)' = 0
                 /\ \A i \in 1 .. Len(packetsToSend'[d]) :
                        packetsToSend'[d][i].n = QueueStart(d)' + i
      BY <1>2, <1>3, <1>7, <2>1, <2>2, <2>3 DEF DeliveryInv, Numbering
    <3>. QED BY <3>1 DEF Numbering
  <2>5. Covered'
    <3>1. ASSUME NEW d \in Clients, NEW k \in 1 .. BurstStart(d)' + SentOf(d)'
          PROVE  OnWire(d, k)
      <4>1. CASE d = c
        <5>1. k \in 1 .. BurstStart(c) + (s + m)
          BY <1>1, <2>2, <2>3, <4>1
        <5>. QED BY <1>6, <4>1, <5>1
      <4>2. CASE d # c
        BY <1>7, <2>1, <4>2 DEF DeliveryInv, Covered
      <4>. QED BY <4>1, <4>2
    <3>. QED BY <1>4, <3>1 DEF Covered
  <2>. QED BY <1>8, <2>1, <2>4, <2>5 DEF DeliveryInv, JustWritten
<1>10. CASE SentAfterWrite(flusher) # Len(b)
  <2>1. /\ flusher'.client = c /\ flusher'.pending = b /\ flusher'.sent = s + m
        /\ flusher'.pc # "store"
    BY <1>1, <1>10 DEF StoreServerID, Local, TypeOK, FlusherState
  <2>2. /\ BurstLen(c)' = BurstLen(c) /\ SentOf(c)' = s + m
        /\ BurstStart(c)' = BurstStart(c)
    BY <1>1, <1>3, <2>1 DEF BurstStart, BurstLen, SentOf
  <2>3. Numbering'
    <3>1. ASSUME NEW d \in Clients
          PROVE  /\ BurstStart(d)' = BurstStart(d) /\ BurstLen(d)' = BurstLen(d)
      BY <1>7, <2>1, <2>2
    <3>. QED BY <1>2, <1>3, <2>1, <3>1 DEF DeliveryInv, Numbering
  <2>4. Covered'
    <3>1. ASSUME NEW d \in Clients, NEW k \in 1 .. BurstStart(d)' + SentOf(d)'
          PROVE  OnWire(d, k)
      BY <1>6, <1>7, <2>1, <2>2 DEF DeliveryInv, Covered
    <3>. QED BY <1>4, <3>1 DEF Covered
  <2>. QED BY <1>8, <2>1, <2>3, <2>4 DEF DeliveryInv, JustWritten
<1>. QED BY <1>9, <1>10

LEMMA DeliveryInductive == Local /\ DeliveryInv /\ [Next]_vars => DeliveryInv'
<1> SUFFICES ASSUME Local, DeliveryInv, [Next]_vars PROVE DeliveryInv'
  OBVIOUS
<1> USE DEF BurstLen, SentOf
<1>1. ASSUME NEW c \in Clients, NEW ack \in Acks(c), CreateSession(c, ack)
      PROVE  DeliveryInv'
  BY <1>1, Frame DEF CreateSession, SessionCreated
<1>2. ASSUME NEW c \in Clients, NEW ack \in Acks(c), NEW kind \in {"retry", "other"},
             ReceivePacket(c, ack, kind)
      PROVE  DeliveryInv'
  BY <1>2, Frame DEF ReceivePacket
<1>3. CASE ReadServerID
  BY <1>3, Frame DEF ReadServerID
<1>4. CASE UpdateServerAckFromClient
  BY <1>4, Frame DEF UpdateServerAckFromClient
<1>5. CASE ForwardLogin \/ ProcessEncryptedPacket
  BY <1>5, Frame DEF ForwardLogin, ProcessEncryptedPacket, ForwardPacketToInstance
<1>6. ASSUME NEW c \in Clients, NEW size \in Sizes[c], ProcessNATSSendRequest(c, size)
      PROVE  DeliveryInv'
  BY <1>6, AcceptKeepsDelivery
<1>7. CASE Tick
  BY <1>7, QuietFrame DEF Tick, Local, FlusherOK, TypeOK, FlusherState
<1>8. ASSUME NEW c \in Clients, PickSession(c) PROVE DeliveryInv'
  BY <1>8, QuietFrame DEF PickSession, Local, FlusherOK, TypeOK, FlusherState
<1>9. CASE DequeuePackets
  BY <1>9, DequeueKeepsDelivery DEF DequeuePackets, Local, FlusherOK
<1>10. CASE BuildPayload
  <2>1. /\ flusher'.pc = "write" /\ flusher'.client = flusher.client
        /\ flusher'.pending = flusher.pending /\ flusher'.sent = flusher.sent
    BY <1>10 DEF BuildPayload, Local, TypeOK, FlusherState
  <2>. QED BY <1>10, <2>1, Frame DEF BuildPayload
<1>11. CASE PacketExceedsBudget
  BY <1>11, RequeueKeepsDelivery DEF PacketExceedsBudget, Local, FlusherOK
<1>12. CASE SendFails
  BY <1>12, RequeueKeepsDelivery DEF SendFails, Local, FlusherOK
<1>13. CASE WriteToUDP
  BY <1>13, WriteKeepsDelivery DEF WriteToUDP, Local, FlusherOK
<1>14. CASE StoreServerID
  BY <1>14, StoreKeepsDelivery DEF StoreServerID, Local, FlusherOK
<1>15. CASE CancelContext
  BY <1>15, Frame DEF CancelContext
<1>16. CASE StopDelivering
  BY <1>16, QuietFrame DEF StopDelivering, Local, FlusherOK, TypeOK, FlusherState
<1>17. CASE UNCHANGED vars
  BY <1>17, Frame DEF vars
<1>. QED
  BY <1>1, <1>2, <1>3, <1>4, <1>5, <1>6, <1>7, <1>8, <1>9, <1>10, <1>11, <1>12,
     <1>13, <1>14, <1>15, <1>16, <1>17
     DEF Next, HandlerStep, FlusherStep

LEMMA DeliveryInvariant == Spec => [](Local /\ DeliveryInv)
<1>1. Init => Local
  BY InitTypeOK DEF Init, Local, FlusherOK, HandlerOK, IdleFlusher, IdleHandler
<1>2. Init => DeliveryInv
  <2> SUFFICES ASSUME Init PROVE DeliveryInv
    OBVIOUS
  <2>1. \A c \in Clients : /\ packetsToSend[c] = <<>> /\ accepted[c] = 0
                           /\ wire[c] = <<>> /\ BurstLen(c) = 0 /\ SentOf(c) = 0
    BY ConstantsAssumption DEF Init, IdleFlusher, BurstLen, SentOf
  <2>2. \A c \in Clients : QueueStart(c) = 0 /\ BurstStart(c) = 0
    BY <2>1 DEF QueueStart, BurstStart
  <2>. QED
    BY <2>1, <2>2 DEF Init, IdleFlusher, DeliveryInv, Numbering, Covered,
                      JustWritten, InOrder
<1>. QED BY <1>1, <1>2, LocalInductive, DeliveryInductive, PTL DEF Spec

\* Every packet an instance published for a client is on the wire, in the
\* burst or in the queue, whatever fails and whenever the callback runs.
THEOREM PacketsAreNotLost == Spec => []NothingLost
<1>1. Local /\ DeliveryInv => NothingLost
  <2> SUFFICES ASSUME Local, DeliveryInv, NEW c \in Clients,
                      NEW k \in 1 .. accepted[c]
               PROVE  OnWire(c, k) \/ InBurst(c, k) \/ InQueue(c, k)
    BY DEF NothingLost
  <2>1. k \in Int /\ k >= 1 /\ k <= accepted[c]
    BY Sorts
  <2>2. CASE k <= BurstStart(c) + SentOf(c)
    BY <2>1, <2>2, Sorts DEF DeliveryInv, Covered
  <2>3. CASE k > BurstStart(c) + SentOf(c) /\ k <= QueueStart(c)
    <3>1. flusher.client = c
      BY <2>1, <2>3, Sorts DEF BurstStart, BurstLen, SentOf
    <3>2. /\ k - BurstStart(c) \in flusher.sent + 1 .. Len(flusher.pending)
          /\ k - BurstStart(c) \in 1 .. BurstLen(c)
          /\ BurstStart(c) + (k - BurstStart(c)) = k
      <4>1. /\ BurstLen(c) = Len(flusher.pending) /\ SentOf(c) = flusher.sent
            /\ BurstStart(c) = QueueStart(c) - BurstLen(c)
        BY <3>1 DEF BurstStart, BurstLen, SentOf
      <4>2. /\ BurstLen(c) \in Nat /\ SentOf(c) \in Nat /\ BurstStart(c) \in Int
            /\ QueueStart(c) \in Int
        BY Sorts
      <4>3. /\ k - BurstStart(c) >= SentOf(c) + 1
            /\ k - BurstStart(c) <= BurstLen(c)
        <5>. DEFINE x == BurstStart(c)
                    y == BurstLen(c)
                    z == QueueStart(c)
                    t == SentOf(c)
        <5>1. x = z - y
          BY <4>1
        <5>2. k > x + t /\ k <= z
          BY <2>3
        <5>3. k \in Int /\ x \in Int /\ y \in Int /\ z \in Int /\ t \in Int
          BY <2>1, <4>2
        <5>4. k - x >= t + 1 /\ k - x <= y
          <6>. HIDE DEF x, y, z, t
          <6>. QED BY <5>1, <5>2, <5>3
        <5>. QED BY <5>4
      <4>4. BurstStart(c) + (k - BurstStart(c)) = k
        BY <2>1, <4>2
      <4>5. /\ flusher.sent \in Nat /\ Len(flusher.pending) \in Nat
            /\ k - BurstStart(c) \in Int
        BY <2>1, <4>2, Sorts
      <4>6. k - BurstStart(c) >= 1
        BY <4>2, <4>3, <4>5
      <4>. QED BY <4>1, <4>3, <4>4, <4>5, <4>6
    <3>3. flusher.pending[k - BurstStart(c)].n = k
      BY <3>2 DEF DeliveryInv, Numbering
    <3>. QED BY <3>1, <3>2, <3>3 DEF InBurst
  <2>4. CASE k > QueueStart(c)
    <3>1. /\ k - QueueStart(c) \in 1 .. Len(packetsToSend[c])
          /\ QueueStart(c) + (k - QueueStart(c)) = k
      BY <2>1, <2>4, Sorts DEF QueueStart
    <3>2. packetsToSend[c][k - QueueStart(c)].n = k
      BY <3>1 DEF DeliveryInv, Numbering
    <3>. QED BY <3>1, <3>2, Sorts, LenProperties DEF InQueue
  <2>. QED BY <2>1, <2>2, <2>3, <2>4, Sorts
<1>. QED BY <1>1, DeliveryInvariant, PTL

\* No packet is written before its predecessor, retries included.
THEOREM PacketsAreInOrder == Spec => []InOrder
<1>1. DeliveryInv => InOrder
  BY DEF DeliveryInv
<1>. QED BY <1>1, DeliveryInvariant, PTL

(***************************************************************************)
(* Server packet ids.  The counter of an honest client only ever holds an  *)
(* id it has been sent (or 0), whatever the handler's unlocked update does *)
(* to it, so the next id follows one that was sent.                        *)
(***************************************************************************)

IdInv ==
    /\ \A c \in Honest : lastServerPacketID[c] \in Seen(c)
    /\ handler.pc # "idle" /\ handler.client \in Honest =>
            handler.ack \in Seen(handler.client)
    /\ flusher.pc = "write" /\ flusher.client \in Honest =>
            \E prev \in Seen(flusher.client) : flusher.id = NextServerPacketID(prev)
    /\ flusher.pc = "store" /\ flusher.client \in Clients =>
            flusher.id \in Seen(flusher.client)
    /\ NoSkippedId

\* A step that writes no datagram, moves no id and keeps the datagram in hand.
LEMMA IdFrame ==
    ASSUME IdInv, UNCHANGED <<wire, lastServerPacketID>>,
           handler'.pc # "idle" /\ handler'.client \in Honest =>
                handler'.ack \in Seen(handler'.client),
           flusher'.pc \in {"write", "store"} => flusher' = flusher
    PROVE  IdInv'
<1>1. \A c : Seen(c)' = Seen(c)
  BY DEF Seen
<1>2. (handler.pc # "idle" /\ handler.client \in Honest =>
            handler.ack \in Seen(handler.client))'
  BY <1>1
<1>3. (/\ flusher.pc = "write" /\ flusher.client \in Honest =>
            \E prev \in Seen(flusher.client) : flusher.id = NextServerPacketID(prev)
       /\ flusher.pc = "store" /\ flusher.client \in Clients =>
            flusher.id \in Seen(flusher.client))'
  BY <1>1 DEF IdInv
<1>4. NoSkippedId'
  BY DEF IdInv, NoSkippedId
<1>5. (\A c \in Honest : lastServerPacketID[c] \in Seen(c))'
  BY <1>1 DEF IdInv
<1>. QED BY <1>2, <1>3, <1>4, <1>5 DEF IdInv

LEMMA WriteKeepsIds ==
    ASSUME Local, IdInv, WriteToUDP, NEW c \in Clients, flusher.client = c
    PROVE  IdInv'
<1> DEFINE d == [id |-> flusher.id,
                 packets |-> SubSeq(flusher.pending, flusher.sent + 1,
                                    flusher.sent + flusher.consumed)]
           w == wire[c]
<1>1. /\ wire' = [wire EXCEPT ![c] = Append(@, d)]
      /\ flusher' = [flusher EXCEPT !.pc = "store"]
      /\ UNCHANGED <<handler, lastServerPacketID>>
  BY DEF WriteToUDP
<1>2. /\ wire'[c] = Append(w, d) /\ \A e \in Clients \ {c} : wire'[e] = wire[e]
      /\ w \in Seq(Datagram) /\ Len(w) \in Nat
  BY <1>1, Sorts DEF Local, TypeOK
<1>3. /\ \A j \in 1 .. Len(w) : wire'[c][j] = w[j]
      /\ wire'[c][Len(w) + 1] = d
      /\ DOMAIN w = 1 .. Len(w) /\ DOMAIN wire'[c] = 1 .. Len(w) + 1
  BY <1>2
<1>4. Seen(c)' = Seen(c) \cup {flusher.id}
  <2>1. Seen(c)' = {0} \cup {wire'[c][i].id : i \in 1 .. Len(w) + 1}
    BY <1>3 DEF Seen
  <2>2. Seen(c) = {0} \cup {w[i].id : i \in 1 .. Len(w)}
    BY <1>3 DEF Seen
  <2>3. wire'[c][Len(w) + 1].id = flusher.id
    BY <1>3
  <2>4. ASSUME NEW a PROVE a \in Seen(c)' <=> a \in Seen(c) \cup {flusher.id}
    <3>1. a \in Seen(c)' <=> a = 0 \/ \E i \in 1 .. Len(w) + 1 : a = wire'[c][i].id
      BY <2>1
    <3>2. a \in Seen(c) <=> a = 0 \/ \E i \in 1 .. Len(w) : a = w[i].id
      BY <2>2
    <3>3. \A i \in 1 .. Len(w) + 1 : i \in 1 .. Len(w) \/ i = Len(w) + 1
      BY <1>2
    <3>4. \A i \in 1 .. Len(w) : i \in 1 .. Len(w) + 1
      BY <1>2
    <3>5. Len(w) + 1 \in 1 .. Len(w) + 1
      BY <1>2
    <3>. QED BY <1>3, <2>3, <3>1, <3>2, <3>3, <3>4, <3>5
  <2>. QED BY <2>4
<1>5. \A e \in Clients : Seen(e) \subseteq Seen(e)'
  <2>1. \A e \in Clients \ {c} : Seen(e)' = Seen(e)
    BY <1>2 DEF Seen
  <2>. QED BY <1>4, <2>1
<1>6. (\A e \in Honest : lastServerPacketID[e] \in Seen(e))'
  BY <1>1, <1>5, ConstantsAssumption DEF IdInv
<1>7. (handler.pc # "idle" /\ handler.client \in Honest =>
            handler.ack \in Seen(handler.client))'
  <2>1. ASSUME NEW e \in Honest, handler.client = e, handler.pc # "idle"
        PROVE  handler.ack \in Seen(e)'
    BY <1>5, <2>1, ConstantsAssumption DEF IdInv
  <2>. QED BY <1>1, <2>1
<1>8. /\ flusher'.pc = "store" /\ flusher'.client = c /\ flusher'.id = flusher.id
  BY <1>1 DEF Local, TypeOK, FlusherState
<1>9. (flusher.pc = "store" /\ flusher.client \in Clients =>
            flusher.id \in Seen(flusher.client))'
  <2>1. flusher'.id \in {0} \cup {wire'[c][i].id : i \in DOMAIN wire'[c]}
    BY <1>4, <1>8 DEF Seen
  <2>. QED BY <1>8, <2>1 DEF Seen
<1>10. NoSkippedId'
  <2> SUFFICES ASSUME NEW e \in Honest, NEW j \in DOMAIN wire'[e]
               PROVE  \E prev \in {0} \cup {wire'[e][i].id : i \in 1 .. j - 1} :
                            wire'[e][j].id = (prev + 1) % IdSpace
    BY DEF NoSkippedId
  <2>0. e \in Clients
    BY ConstantsAssumption
  <2>1. CASE e # c
    <3>1. wire'[e] = wire[e] /\ j \in DOMAIN wire[e]
      BY <1>2, <2>0, <2>1
    <3>. QED BY <3>1 DEF IdInv, NoSkippedId
  <2>2. CASE e = c /\ j = Len(w) + 1
    <3>1. PICK prev \in Seen(c) : flusher.id = (prev + 1) % IdSpace
      BY <2>2 DEF WriteToUDP, IdInv, NextServerPacketID
    <3>2. Seen(c) = {0} \cup {w[i].id : i \in 1 .. j - 1}
      BY <1>2, <1>3, <2>2 DEF Seen
    <3>3. {w[i].id : i \in 1 .. j - 1} = {wire'[c][i].id : i \in 1 .. j - 1}
      BY <1>2, <1>3, <2>2
    <3>4. wire'[c][j].id = flusher.id
      BY <1>3, <2>2
    <3>5. prev \in {0} \cup {wire'[c][i].id : i \in 1 .. j - 1}
      BY <3>2, <3>3
    <3> HIDE DEF d, w
    <3>. QED BY <2>2, <3>1, <3>4, <3>5
  <2>3. CASE e = c /\ j \in 1 .. Len(w)
    <3>0. c \in Honest /\ j \in DOMAIN wire[c]
      BY <1>3, <2>3
    <3>1. PICK prev \in {0} \cup {w[i].id : i \in 1 .. j - 1} :
                w[j].id = (prev + 1) % IdSpace
      BY ONLY <3>0, IdInv DEF IdInv, NoSkippedId
    <3>2. {w[i].id : i \in 1 .. j - 1} = {wire'[c][i].id : i \in 1 .. j - 1}
      BY <1>2, <1>3, <2>3
    <3>. QED BY <1>3, <2>3, <3>1, <3>2
  <2>. QED BY <1>2, <1>3, <2>1, <2>2, <2>3
<1>. QED BY <1>6, <1>7, <1>8, <1>9, <1>10 DEF IdInv

LEMMA IdsInductive == Local /\ IdInv /\ [Next]_vars => IdInv'
<1> SUFFICES ASSUME Local, IdInv, [Next]_vars PROVE IdInv'
  OBVIOUS
<1>1. ASSUME NEW c \in Clients, NEW ack \in Acks(c), CreateSession(c, ack)
      PROVE  IdInv'
  BY <1>1, IdFrame DEF CreateSession, SessionCreated, Acks
<1>2. ASSUME NEW c \in Clients, NEW ack \in Acks(c), NEW kind \in {"retry", "other"},
             ReceivePacket(c, ack, kind)
      PROVE  IdInv'
  BY <1>2, IdFrame DEF ReceivePacket, Acks
<1>3. CASE ReadServerID
  <2>1. handler'.ack = handler.ack /\ handler'.client = handler.client
    BY <1>3 DEF ReadServerID, Local, TypeOK, HandlerState
  <2>. QED BY <1>3, <2>1, IdFrame DEF ReadServerID, IdInv
<1>4. CASE UpdateServerAckFromClient
  <2>1. /\ handler.client \in Clients
        /\ handler.client \in Honest => handler.ack \in Seen(handler.client)
    BY <1>4 DEF UpdateServerAckFromClient, Local, HandlerOK, TypeOK, IdInv
  <2>2. \A c \in Honest : lastServerPacketID'[c] \in Seen(c)
    BY <1>4, <2>1, ConstantsAssumption DEF UpdateServerAckFromClient, AckedID, IdInv, Local, TypeOK
  <2>3. \A c : Seen(c)' = Seen(c)
    BY <1>4 DEF UpdateServerAckFromClient, Seen
  <2>4. handler'.pc # "idle" =>
            handler'.ack = handler.ack /\ handler'.client = handler.client
    BY <1>4 DEF UpdateServerAckFromClient, IdleHandler, Local, TypeOK, HandlerState
  <2>5. NoSkippedId'
    BY <1>4 DEF UpdateServerAckFromClient, IdInv, NoSkippedId
  <2>6. UNCHANGED flusher
    BY <1>4 DEF UpdateServerAckFromClient
  <2>. QED BY <2>1, <2>2, <2>3, <2>4, <2>5, <2>6 DEF IdInv
<1>5. CASE ForwardLogin \/ ProcessEncryptedPacket
  BY <1>5, IdFrame DEF ForwardLogin, ProcessEncryptedPacket, ForwardPacketToInstance, IdleHandler
<1>6. ASSUME NEW c \in Clients, NEW size \in Sizes[c], ProcessNATSSendRequest(c, size)
      PROVE  IdInv'
  BY <1>6, IdFrame DEF ProcessNATSSendRequest, IdInv
<1>7. CASE Tick
  <2>1. flusher'.pc = "dequeue"
    BY <1>7 DEF Tick, Local, TypeOK, FlusherState
  <2>. QED BY <1>7, <2>1, IdFrame DEF Tick, IdInv
<1>8. ASSUME NEW c \in Clients, PickSession(c) PROVE IdInv'
  <2>1. flusher'.pc = "dequeue"
    BY <1>8 DEF PickSession, Local, TypeOK, FlusherState
  <2>. QED BY <1>8, <2>1, IdFrame DEF PickSession, IdInv
<1>9. CASE DequeuePackets
  <2>1. flusher'.pc \in {"idle", "dequeue", "build"}
    BY <1>9, NextSessionType DEF DequeuePackets, Local, TypeOK, FlusherState
  <2>. QED BY <1>9, <2>1, IdFrame DEF DequeuePackets, IdInv
<1>10. CASE BuildPayload
  <2>1. /\ flusher'.pc = "write" /\ flusher'.client = flusher.client
        /\ flusher'.id = NextServerPacketID(lastServerPacketID[flusher.client])
    BY <1>10 DEF BuildPayload, Local, TypeOK, FlusherState
  <2>2. flusher.client \in Clients
    BY <1>10 DEF BuildPayload, Local, FlusherOK
  <2>3. \A c : Seen(c)' = Seen(c)
    BY <1>10 DEF BuildPayload, Seen
  <2>4. NoSkippedId'
    BY <1>10 DEF BuildPayload, IdInv, NoSkippedId
  <2>5. UNCHANGED <<handler, lastServerPacketID>>
    BY <1>10 DEF BuildPayload
  <2>. QED BY <2>1, <2>2, <2>3, <2>4, <2>5 DEF IdInv
<1>11. CASE PacketExceedsBudget
  <2>1. flusher'.pc \in {"idle", "dequeue"}
    BY <1>11, NextSessionType DEF PacketExceedsBudget, RequeuePackets, Local, TypeOK
  <2>. QED BY <1>11, <2>1, IdFrame DEF PacketExceedsBudget, IdInv
<1>12. CASE SendFails
  <2>1. flusher'.pc \in {"idle", "dequeue"}
    BY <1>12, NextSessionType DEF SendFails, RequeuePackets, Local, TypeOK
  <2>. QED BY <1>12, <2>1, IdFrame DEF SendFails, IdInv
<1>13. CASE WriteToUDP
  BY <1>13, WriteKeepsIds DEF WriteToUDP, Local, FlusherOK
<1>14. CASE StoreServerID
  <2>1. flusher.client \in Clients /\ flusher.id \in Seen(flusher.client)
    BY <1>14 DEF StoreServerID, Local, FlusherOK, IdInv
  <2>2. \A c \in Honest : lastServerPacketID'[c] \in Seen(c)
    BY <1>14, <2>1, ConstantsAssumption DEF StoreServerID, IdInv, Local, TypeOK
  <2>3. \A c : Seen(c)' = Seen(c)
    BY <1>14 DEF StoreServerID, Seen
  <2>4. flusher'.pc \in {"dequeue", "build"}
    BY <1>14 DEF StoreServerID, Local, TypeOK, FlusherState
  <2>5. NoSkippedId'
    BY <1>14 DEF StoreServerID, IdInv, NoSkippedId
  <2>6. UNCHANGED handler
    BY <1>14 DEF StoreServerID
  <2>. QED BY <2>2, <2>3, <2>4, <2>5, <2>6 DEF IdInv
<1>15. CASE CancelContext
  BY <1>15, IdFrame DEF CancelContext, IdInv
<1>16. CASE StopDelivering
  <2>1. flusher'.pc = "exited"
    BY <1>16 DEF StopDelivering, Local, TypeOK, FlusherState
  <2>. QED BY <1>16, <2>1, IdFrame DEF StopDelivering, IdInv
<1>17. CASE UNCHANGED vars
  BY <1>17, IdFrame DEF vars, IdInv
<1>. QED
  BY <1>1, <1>2, <1>3, <1>4, <1>5, <1>6, <1>7, <1>8, <1>9, <1>10, <1>11, <1>12,
     <1>13, <1>14, <1>15, <1>16, <1>17
     DEF Next, HandlerStep, FlusherStep

\* The ids on the wire of an honest client leave no gap, for every size of the
\* id space and whatever the other clients acknowledge.
THEOREM IdsAreNotSkipped == Spec => []NoSkippedId
<1>1. Init => Local
  BY InitTypeOK DEF Init, Local, FlusherOK, HandlerOK, IdleFlusher, IdleHandler
<1>2. Init => IdInv
  <2> SUFFICES ASSUME Init PROVE IdInv
    OBVIOUS
  <2>1. \A c \in Clients : 0 \in Seen(c) /\ wire[c] = <<>>
    BY DEF Init, Seen
  <2>. QED BY <2>1, ConstantsAssumption DEF Init, IdInv, IdleHandler, IdleFlusher, NoSkippedId
<1>3. IdInv => NoSkippedId
  BY DEF IdInv
<1>. QED BY <1>1, <1>2, <1>3, LocalInductive, IdsInductive, PTL DEF Spec

(***************************************************************************)
(* No repetition.  What is on the wire has numbers up to that of the last  *)
(* packet written, which only a failure takes back.                        *)
(***************************************************************************)

Unstored(c) ==
    IF flusher.pc = "store" /\ flusher.client = c THEN flusher.consumed ELSE 0

LastWritten(c) == BurstStart(c) + SentOf(c) + Unstored(c)

UpToLast ==
    \A c \in Clients : \A i \in DOMAIN wire[c] : \A x \in DOMAIN wire[c][i].packets :
        wire[c][i].packets[x].n <= LastWritten(c)

OnceInv == failures = 0 => UpToLast /\ OnceWithoutFailure

LEMMA OnceFrame ==
    ASSUME OnceInv, wire' = wire, failures' = failures,
           \A c \in Clients : LastWritten(c)' = LastWritten(c)
    PROVE  OnceInv'
BY DEF OnceInv, UpToLast, OnceWithoutFailure

\* The flusher has no burst, before and after.
LEMMA OnceQuiet ==
    ASSUME OnceInv, UNCHANGED <<wire, failures, accepted, packetsToSend>>,
           flusher.pending = <<>>, flusher.sent = 0, flusher.pc # "store",
           flusher'.pending = <<>>, flusher'.sent = 0, flusher'.pc # "store"
    PROVE  OnceInv'
<1>1. \A c \in Clients : LastWritten(c)' = LastWritten(c)
  BY DEF LastWritten, BurstStart, BurstLen, SentOf, QueueStart, Unstored
<1>. QED BY <1>1, OnceFrame

LEMMA AcceptKeepsOnce ==
    ASSUME Local, OnceInv, NEW c \in Clients, NEW size \in Sizes[c],
           ProcessNATSSendRequest(c, size)
    PROVE  OnceInv'
<1>. DEFINE p == [n |-> accepted[c] + 1, size |-> size]
<1>1. /\ packetsToSend' = [packetsToSend EXCEPT ![c] = Append(@, p)]
      /\ accepted' = [accepted EXCEPT ![c] = @ + 1]
      /\ UNCHANGED <<flusher, wire, failures>>
  BY DEF ProcessNATSSendRequest
<1>2. p \in Packet
  BY Sorts, SizesAreLengths DEF Packet
<1>. HIDE DEF p
<1>3. Len(packetsToSend'[c]) = Len(packetsToSend[c]) + 1
  BY <1>1, <1>2, AppendProperties DEF Local, TypeOK
<1>4. ASSUME NEW d \in Clients PROVE QueueStart(d)' = QueueStart(d)
  <2>1. CASE d = c
    <3>1. accepted'[c] = accepted[c] + 1
      BY <1>1 DEF Local, TypeOK
    <3>. QED BY <1>3, <2>1, <3>1, Sorts DEF QueueStart
  <2>2. CASE d # c
    BY <1>1, <2>2 DEF QueueStart, Local, TypeOK
  <2>. QED BY <2>1, <2>2
<1>5. \A d \in Clients : LastWritten(d)' = LastWritten(d)
  BY <1>1, <1>4 DEF LastWritten, BurstStart, BurstLen, SentOf, Unstored
<1>. QED BY <1>1, <1>5, OnceFrame

LEMMA DequeueKeepsOnce ==
    ASSUME Local, OnceInv, DequeuePackets, NEW c \in Clients, flusher.client = c
    PROVE  OnceInv'
<1>1. /\ flusher.pending = <<>> /\ flusher.sent = 0 /\ flusher.pc = "dequeue"
      /\ UNCHANGED <<accepted, wire, failures>>
      /\ packetsToSend' = [packetsToSend EXCEPT ![c] = <<>>]
  BY DEF DequeuePackets, Local, FlusherOK
<1>2. CASE packetsToSend[c] = <<>>
  <2>1. packetsToSend' = packetsToSend
    BY <1>1, <1>2 DEF Local, TypeOK
  <2>2. flusher'.pending = <<>> /\ flusher'.sent = 0 /\ flusher'.pc # "store"
    BY <1>2, NextSessionType DEF DequeuePackets, Local, TypeOK
  <2>. QED BY <1>1, <2>1, <2>2, OnceQuiet
<1>3. CASE packetsToSend[c] # <<>>
  <2>1. /\ flusher'.client = c /\ flusher'.pending = packetsToSend[c]
        /\ flusher'.sent = 0 /\ flusher'.pc = "build"
    BY <1>3 DEF DequeuePackets, Local, TypeOK, FlusherState
  <2>2. ASSUME NEW d \in Clients PROVE LastWritten(d)' = LastWritten(d)
    <3>1. CASE d = c
      <4>1. packetsToSend'[c] = <<>> /\ Len(packetsToSend'[c]) = 0
        BY <1>1 DEF Local, TypeOK
      <4>. QED BY <1>1, <2>1, <3>1, <4>1, Sorts
           DEF LastWritten, BurstStart, BurstLen, SentOf, QueueStart, Unstored
    <3>2. CASE d # c
      BY <1>1, <2>1, <3>2 DEF LastWritten, BurstStart, BurstLen, SentOf, QueueStart,
         Unstored, Local, TypeOK
    <3>. QED BY <3>1, <3>2
  <2>. QED BY <1>1, <2>2, OnceFrame
<1>. QED BY <1>2, <1>3

LEMMA WriteKeepsOnce ==
    ASSUME Local, DeliveryInv, OnceInv, WriteToUDP, failures = 0,
           NEW c \in Clients, flusher.client = c
    PROVE  OnceInv'
<1>. DEFINE b == flusher.pending
            s == flusher.sent
            m == flusher.consumed
            d == [id |-> flusher.id, packets |-> SubSeq(b, s + 1, s + m)]
            w == wire[c]
            v == wire'[c]
<1>1. /\ b \in Seq(Packet) /\ s \in Nat /\ m \in Nat /\ Len(b) \in Nat
      /\ s + m <= Len(b) /\ w \in Seq(Datagram) /\ Len(w) \in Nat
      /\ flusher.id \in Ids
  BY Sorts DEF WriteToUDP, Local, FlusherOK, TypeOK, FlusherState
<1>2. /\ d.packets \in Seq(Packet) /\ Len(d.packets) = m
      /\ \A i \in 1..m : d.packets[i] = b[s + i]
  <2>. HIDE DEF b, s, m
  <2>. QED BY <1>1, DatagramPackets
<1>3. d \in Datagram
  BY <1>1, <1>2 DEF Datagram
<1>4. /\ wire' = [wire EXCEPT ![c] = Append(@, d)]
      /\ flusher' = [flusher EXCEPT !.pc = "store"] /\ flusher.pc = "write"
      /\ UNCHANGED <<packetsToSend, accepted, failures>>
  BY DEF WriteToUDP
<1>5. /\ flusher'.client = c /\ flusher'.pending = b /\ flusher'.sent = s
      /\ flusher'.consumed = m /\ flusher'.pc = "store"
  BY <1>4 DEF Local, TypeOK, FlusherState
<1>6. /\ BurstStart(c) \in Int /\ BurstLen(c) = Len(b) /\ SentOf(c) = s
      /\ \A i \in 1..m : b[s + i].n = BurstStart(c) + s + i
  <2>1. BurstStart(c) \in Int /\ BurstLen(c) = Len(b) /\ SentOf(c) = s
    BY Sorts DEF BurstLen, SentOf
  <2>2. \A i \in 1..Len(b) : b[i].n = BurstStart(c) + i
    BY <2>1 DEF DeliveryInv, Numbering
  <2>. HIDE DEF b, s, m
  <2>3. \A i \in 1..m : s + i \in 1..Len(b)
    BY <1>1
  <2>4. ASSUME NEW i \in 1..m PROVE b[s + i].n = BurstStart(c) + s + i
    <3>1. b[s + i].n = BurstStart(c) + (s + i)
      BY <2>2, <2>3
    <3>. QED BY <1>1, <2>1, <3>1
  <2>. QED BY <2>1, <2>4
<1>7. \A e \in Clients : BurstStart(e)' = BurstStart(e) /\ SentOf(e)' = SentOf(e)
  BY <1>4, <1>5 DEF QueueStart, BurstStart, BurstLen, SentOf
<1>8. /\ LastWritten(c) = BurstStart(c) + s /\ LastWritten(c)' = BurstStart(c) + s + m
      /\ \A e \in Clients \ {c} : LastWritten(e)' = LastWritten(e)
  <2>1. Unstored(c) = 0 /\ Unstored(c)' = m
    BY <1>4, <1>5 DEF Unstored
  <2>2. \A e \in Clients \ {c} : Unstored(e) = 0 /\ Unstored(e)' = 0
    BY <1>5 DEF Unstored
  <2>3. BurstStart(c)' = BurstStart(c) /\ SentOf(c)' = s
    BY <1>6, <1>7
  <2>4. LastWritten(c) = BurstStart(c) + s
    BY <1>1, <1>6, <2>1 DEF LastWritten
  <2>5. LastWritten(c)' = BurstStart(c) + s + m
    BY <2>1, <2>3 DEF LastWritten
  <2>6. \A e \in Clients \ {c} : LastWritten(e)' = LastWritten(e)
    BY <1>7, <2>2 DEF LastWritten
  <2>. QED BY <2>4, <2>5, <2>6
<1>9. \A e \in Clients \ {c} : wire'[e] = wire[e]
  BY <1>4 DEF Local, TypeOK
<1>10. UpToLast /\ OnceWithoutFailure
  BY DEF OnceInv
<1>11. \A j \in DOMAIN v : (j \in DOMAIN w /\ v[j] = w[j]) \/ (j = Len(w) + 1 /\ v[j] = d)
  <2>1. v = Append(w, d)
    BY <1>4 DEF Local, TypeOK
  <2>. HIDE DEF d, w, v
  <2>. QED BY <1>1, <1>3, <2>1, AppendProperties
<1>12. /\ DOMAIN d.packets = 1..m
       /\ \A x \in 1..m : d.packets[x].n = BurstStart(c) + s + x
  <2>. HIDE DEF b, s, m, d
  <2>. QED BY <1>2, <1>6
<1>13. \A i \in DOMAIN w : \A x \in DOMAIN w[i].packets :
            w[i].packets[x].n <= BurstStart(c) + s /\ w[i].packets[x].n \in Nat
  <2>1. \A i \in DOMAIN w : \A x \in DOMAIN w[i].packets :
            w[i].packets[x].n <= LastWritten(c)
    BY <1>10 DEF UpToLast
  <2>2. ASSUME NEW i \in DOMAIN w, NEW x \in DOMAIN w[i].packets
        PROVE  w[i].packets[x].n \in Nat
    <3>1. w[i] \in Datagram
      BY <1>1
    <3>2. w[i].packets \in Seq(Packet)
      BY <3>1 DEF Datagram
    <3>3. w[i].packets[x] \in Packet
      BY <3>2, ElementOfSeq
    <3>. QED BY <3>3 DEF Packet
  <2>. QED BY <1>8, <2>1, <2>2
<1>14. \A i \in DOMAIN w, j \in DOMAIN w :
            \A x \in DOMAIN w[i].packets, y \in DOMAIN w[j].packets :
                w[i].packets[x].n = w[j].packets[y].n => i = j /\ x = y
  BY <1>10 DEF OnceWithoutFailure
<1>. HIDE DEF b, s, m, d, w, v
<1>15. UpToLast'
  <2>1. ASSUME NEW i \in DOMAIN v, NEW x \in DOMAIN v[i].packets
        PROVE  v[i].packets[x].n <= BurstStart(c) + s + m
    <3>1. CASE i \in DOMAIN w /\ v[i] = w[i]
      BY <1>1, <1>6, <1>13, <2>1, <3>1
    <3>2. CASE i = Len(w) + 1 /\ v[i] = d
      BY <1>1, <1>6, <1>12, <2>1, <3>2
    <3>. QED BY <1>11, <3>1, <3>2
  <2>2. ASSUME NEW e \in Clients, NEW i \in DOMAIN wire'[e],
               NEW x \in DOMAIN wire'[e][i].packets
        PROVE  wire'[e][i].packets[x].n <= LastWritten(e)'
    <3>1. CASE e = c
      BY <1>8, <2>1, <2>2, <3>1 DEF v
    <3>2. CASE e # c
      BY <1>8, <1>9, <1>10, <2>2, <3>2 DEF UpToLast
    <3>. QED BY <3>1, <3>2
  <2>. QED BY <2>2 DEF UpToLast
<1>16. OnceWithoutFailure'
  <2>1. ASSUME NEW i \in DOMAIN v, NEW j \in DOMAIN v, NEW x \in DOMAIN v[i].packets,
               NEW y \in DOMAIN v[j].packets, v[i].packets[x].n = v[j].packets[y].n
        PROVE  i = j /\ x = y
    <3>1. CASE i \in DOMAIN w /\ v[i] = w[i] /\ j \in DOMAIN w /\ v[j] = w[j]
      BY <1>14, <2>1, <3>1
    <3>2. CASE i = Len(w) + 1 /\ v[i] = d /\ j = Len(w) + 1 /\ v[j] = d
      <4>1. x \in 1..m /\ y \in 1..m
        BY <1>12, <2>1, <3>2
      <4>. QED BY <1>1, <1>6, <1>12, <2>1, <3>2, <4>1
    <3>3. CASE i \in DOMAIN w /\ v[i] = w[i] /\ j = Len(w) + 1 /\ v[j] = d
      BY <1>1, <1>6, <1>12, <1>13, <2>1, <3>3
    <3>4. CASE i = Len(w) + 1 /\ v[i] = d /\ j \in DOMAIN w /\ v[j] = w[j]
      BY <1>1, <1>6, <1>12, <1>13, <2>1, <3>4
    <3>. QED BY <1>11, <3>1, <3>2, <3>3, <3>4
  <2>2. ASSUME NEW e \in Clients, NEW i \in DOMAIN wire'[e], NEW j \in DOMAIN wire'[e],
               NEW x \in DOMAIN wire'[e][i].packets, NEW y \in DOMAIN wire'[e][j].packets,
               wire'[e][i].packets[x].n = wire'[e][j].packets[y].n
        PROVE  i = j /\ x = y
    <3>1. CASE e = c
      BY <2>1, <2>2, <3>1 DEF v
    <3>2. CASE e # c
      <4>1. wire'[e] = wire[e]
        BY <1>9, <3>2
      <4>. QED BY <1>10, <2>2, <4>1 DEF OnceWithoutFailure
    <3>. QED BY <3>1, <3>2
  <2>. QED BY <2>2 DEF OnceWithoutFailure
<1>. QED BY <1>15, <1>16 DEF OnceInv

LEMMA StoreKeepsOnce ==
    ASSUME Local, OnceInv, StoreServerID, NEW c \in Clients, flusher.client = c
    PROVE  OnceInv'
<1>. DEFINE b == flusher.pending
            s == flusher.sent
            m == flusher.consumed
<1>1. /\ b \in Seq(Packet) /\ s \in Nat /\ m \in Nat /\ Len(b) \in Nat
      /\ SentAfterWrite(flusher) = s + m /\ flusher.pc = "store"
      /\ BurstLen(c) = Len(b) /\ SentOf(c) = s /\ QueueStart(c) \in Int
  BY Sorts DEF StoreServerID, SentAfterWrite, Local, FlusherOK, BurstLen, SentOf
<1>2. UNCHANGED <<packetsToSend, accepted, wire, failures>>
  BY DEF StoreServerID
<1>3. \A e \in Clients : QueueStart(e)' = QueueStart(e)
  BY <1>2 DEF QueueStart
<1>4. LastWritten(c) = QueueStart(c) - Len(b) + s + m
  BY <1>1 DEF LastWritten, BurstStart, Unstored
<1>5. flusher'.client = c /\ flusher'.pc # "store"
  BY DEF StoreServerID, Local, TypeOK, FlusherState
<1>6. LastWritten(c)' = LastWritten(c)
  <2>1. CASE s + m = Len(b)
    <3>1. flusher'.pending = <<>> /\ flusher'.sent = 0
      BY <1>1, <2>1 DEF StoreServerID, Local, TypeOK, FlusherState
    <3>2. LastWritten(c)' = QueueStart(c)
      BY <1>1, <1>3, <1>5, <3>1 DEF LastWritten, BurstStart, BurstLen, SentOf, Unstored
    <3>. HIDE DEF b, s, m
    <3>. QED BY <1>1, <1>4, <2>1, <3>2
  <2>2. CASE s + m # Len(b)
    <3>1. flusher'.pending = b /\ flusher'.sent = s + m
      BY <1>1, <2>2 DEF StoreServerID, Local, TypeOK, FlusherState
    <3>2. LastWritten(c)' = QueueStart(c) - Len(b) + (s + m) + 0
      BY <1>3, <1>5, <3>1 DEF LastWritten, BurstStart, BurstLen, SentOf, Unstored
    <3>. HIDE DEF b, s, m
    <3>. QED BY <1>1, <1>4, <3>2
  <2>. QED BY <2>1, <2>2
<1>7. \A e \in Clients : LastWritten(e)' = LastWritten(e)
  BY <1>3, <1>5, <1>6 DEF LastWritten, BurstStart, BurstLen, SentOf, Unstored
<1>. QED BY <1>2, <1>7, OnceFrame

LEMMA OnceInductive == Local /\ DeliveryInv /\ OnceInv /\ [Next]_vars => OnceInv'
<1>. SUFFICES ASSUME Local, DeliveryInv, OnceInv, [Next]_vars PROVE OnceInv'
  OBVIOUS
<1>1. CASE UNCHANGED <<packetsToSend, accepted, flusher, wire, failures>>
  <2>1. \A c \in Clients : LastWritten(c)' = LastWritten(c)
    BY <1>1 DEF LastWritten, BurstStart, BurstLen, SentOf, QueueStart, Unstored
  <2>. QED BY <1>1, <2>1, OnceFrame
<1>2. CASE \/ \E c \in Clients : \E ack \in Acks(c) : CreateSession(c, ack)
           \/ \E c \in Clients : \E ack \in Acks(c), kind \in {"retry", "other"} :
                ReceivePacket(c, ack, kind)
           \/ HandlerStep \/ CancelContext \/ UNCHANGED vars
  BY <1>1, <1>2 DEF CreateSession, ReceivePacket, HandlerStep, ReadServerID,
      UpdateServerAckFromClient, ForwardLogin, ProcessEncryptedPacket, CancelContext, vars
<1>3. ASSUME NEW c \in Clients, NEW size \in Sizes[c], ProcessNATSSendRequest(c, size)
      PROVE  OnceInv'
  BY <1>3, AcceptKeepsOnce
<1>4. CASE Tick
  BY <1>4, OnceQuiet DEF Tick, Local, FlusherOK, TypeOK, FlusherState
<1>5. ASSUME NEW c \in Clients, PickSession(c) PROVE OnceInv'
  BY <1>5, OnceQuiet DEF PickSession, Local, FlusherOK, TypeOK, FlusherState
<1>6. CASE DequeuePackets
  BY <1>6, DequeueKeepsOnce DEF DequeuePackets, Local, FlusherOK
<1>7. CASE BuildPayload
  <2>1. /\ flusher'.pc = "write" /\ flusher.pc = "build"
        /\ flusher'.client = flusher.client
        /\ flusher'.pending = flusher.pending /\ flusher'.sent = flusher.sent
        /\ UNCHANGED <<packetsToSend, accepted, wire, failures>>
    BY <1>7 DEF BuildPayload, Local, TypeOK, FlusherState
  <2>2. \A c \in Clients : LastWritten(c)' = LastWritten(c)
    BY <2>1 DEF LastWritten, BurstStart, BurstLen, SentOf, QueueStart, Unstored
  <2>. QED BY <2>1, <2>2, OnceFrame
<1>8. CASE PacketExceedsBudget \/ SendFails
  <2>1. /\ failures \in Nat
        /\ failures' = failures + 1 \/ (failures > 0 /\ failures' = failures)
    <3>1. CASE PacketExceedsBudget
      BY <3>1 DEF PacketExceedsBudget, Local, TypeOK
    <3>2. CASE SendFails
      BY <3>2 DEF SendFails, Local, TypeOK
    <3>. QED BY <1>8, <3>1, <3>2
  <2>2. failures' # 0
    BY <2>1
  <2>. QED BY <2>2 DEF OnceInv
<1>9. CASE WriteToUDP
  <2>1. CASE failures = 0
    BY <1>9, <2>1, WriteKeepsOnce DEF WriteToUDP, Local, FlusherOK
  <2>2. CASE failures # 0
    BY <1>9, <2>2 DEF WriteToUDP, OnceInv
  <2>. QED BY <2>1, <2>2
<1>10. CASE StoreServerID
  BY <1>10, StoreKeepsOnce DEF StoreServerID, Local, FlusherOK
<1>11. CASE StopDelivering
  BY <1>11, OnceQuiet DEF StopDelivering, Local, FlusherOK, TypeOK, FlusherState
<1>. QED BY <1>2, <1>3, <1>4, <1>5, <1>6, <1>7, <1>8, <1>9, <1>10, <1>11
     DEF Next, FlusherStep

\* Unless a burst fails, no packet is ever written twice, whatever is queued
\* and acknowledged while bursts are sent.
THEOREM PacketsAreNotRepeated == Spec => []OnceWithoutFailure
<1>1. Init => OnceInv
  BY DEF Init, OnceInv, UpToLast, OnceWithoutFailure
<1>2. OnceInv => OnceWithoutFailure
  BY DEF OnceInv, OnceWithoutFailure
<1>. QED BY <1>1, <1>2, DeliveryInvariant, OnceInductive, PTL DEF Spec

(***************************************************************************)
(* The router implements the channel of OrderedDelivery.                   *)
(***************************************************************************)

\* A datagram carries a run of consecutive packets, and is not empty.
RunInv ==
    \A c \in Clients : \A i \in DOMAIN wire[c] :
        /\ Len(wire[c][i].packets) >= 1
        /\ \A x \in 1 .. Len(wire[c][i].packets) :
                wire[c][i].packets[x].n = wire[c][i].packets[1].n + (x - 1)

\* What a datagram delivers, and what was delivered, as the channel sees it.
Run(d) == [first |-> d.packets[1].n, last |-> d.packets[Len(d.packets)].n]

Delivered == [c \in Clients |-> [i \in DOMAIN wire[c] |-> Run(wire[c][i])]]

\* The datagram that is written: the next packets of the burst.
LEMMA WrittenRun ==
    ASSUME Local, DeliveryInv, WriteToUDP, NEW c \in Clients, flusher.client = c
    PROVE  \E d \in Datagram :
               /\ wire' = [wire EXCEPT ![c] = Append(@, d)]
               /\ Len(d.packets) = flusher.consumed /\ flusher.consumed >= 1
               /\ BurstStart(c) + SentOf(c) + flusher.consumed <= accepted[c]
               /\ BurstStart(c) + SentOf(c) >= 0
               /\ \A x \in 1 .. flusher.consumed :
                        d.packets[x].n = BurstStart(c) + SentOf(c) + x
<1>. DEFINE b == flusher.pending
            s == flusher.sent
            m == flusher.consumed
            d == [id |-> flusher.id, packets |-> SubSeq(b, s + 1, s + m)]
<1>1. /\ b \in Seq(Packet) /\ s \in Nat /\ m \in Nat /\ Len(b) \in Nat
      /\ s + m <= Len(b) /\ m >= 1 /\ flusher.id \in Ids
  BY Sorts DEF WriteToUDP, Local, FlusherOK, TypeOK, FlusherState
<1>2. /\ d.packets \in Seq(Packet) /\ Len(d.packets) = m
      /\ \A i \in 1..m : d.packets[i] = b[s + i]
  <2>. HIDE DEF b, s, m
  <2>. QED BY <1>1, DatagramPackets
<1>3. d \in Datagram
  BY <1>1, <1>2 DEF Datagram
<1>4. wire' = [wire EXCEPT ![c] = Append(@, d)]
  BY DEF WriteToUDP
<1>5. /\ BurstStart(c) \in Int /\ BurstLen(c) = Len(b) /\ SentOf(c) = s
      /\ BurstStart(c) >= 0 /\ QueueStart(c) = BurstStart(c) + Len(b)
      /\ QueueStart(c) <= accepted[c]
      /\ \A i \in 1 .. Len(b) : b[i].n = BurstStart(c) + i
  <2>1. BurstStart(c) \in Int /\ BurstLen(c) = Len(b) /\ SentOf(c) = s
    BY Sorts DEF BurstLen, SentOf
  <2>2. /\ BurstStart(c) >= 0
        /\ \A i \in 1 .. Len(b) : b[i].n = BurstStart(c) + i
    BY <2>1 DEF DeliveryInv, Numbering
  <2>3. QueueStart(c) <= accepted[c] /\ QueueStart(c) \in Int
    BY Sorts DEF QueueStart
  <2>4. BurstStart(c) = QueueStart(c) - Len(b)
    BY <2>1 DEF BurstStart
  <2>5. QueueStart(c) = BurstStart(c) + Len(b)
    <3>. HIDE DEF b
    <3>. QED BY <1>1, <2>1, <2>3, <2>4
  <2>. QED BY <2>1, <2>2, <2>3, <2>5
<1>6. \A x \in 1 .. m : d.packets[x].n = BurstStart(c) + SentOf(c) + x
  <2>. HIDE DEF b, s, m, d
  <2>1. ASSUME NEW x \in 1 .. m
        PROVE  d.packets[x].n = BurstStart(c) + SentOf(c) + x
    <3>1. s + x \in 1 .. Len(b)
      BY <1>1
    <3>2. d.packets[x].n = BurstStart(c) + (s + x)
      BY <1>2, <1>5, <3>1
    <3>. QED BY <1>1, <1>5, <3>2
  <2>. QED BY <2>1
<1>7. /\ BurstStart(c) + SentOf(c) + m <= accepted[c]
      /\ BurstStart(c) + SentOf(c) >= 0
  <2>1. accepted[c] \in Nat
    BY Sorts
  <2>. HIDE DEF b, s, m
  <2>. QED BY <1>1, <1>5, <2>1
<1>. QED BY <1>1, <1>2, <1>3, <1>4, <1>6, <1>7

LEMMA RunsInductive == Local /\ DeliveryInv /\ RunInv /\ [Next]_vars => RunInv'
<1>. SUFFICES ASSUME Local, DeliveryInv, RunInv, [Next]_vars PROVE RunInv'
  OBVIOUS
<1>1. CASE wire' = wire
  BY <1>1 DEF RunInv
<1>2. CASE WriteToUDP
  <2>1. PICK c \in Clients : flusher.client = c
    BY <1>2 DEF WriteToUDP, Local, FlusherOK
  <2>2. PICK d \in Datagram :
            /\ wire' = [wire EXCEPT ![c] = Append(@, d)]
            /\ Len(d.packets) = flusher.consumed /\ flusher.consumed >= 1
            /\ BurstStart(c) + SentOf(c) >= 0
            /\ \A x \in 1 .. flusher.consumed :
                    d.packets[x].n = BurstStart(c) + SentOf(c) + x
    BY <1>2, <2>1, WrittenRun
  <2>3. /\ flusher.consumed \in Nat /\ BurstStart(c) \in Int /\ SentOf(c) \in Int
        /\ wire[c] \in Seq(Datagram)
    BY Sorts
  <2>4. /\ Len(d.packets) >= 1
        /\ \A x \in 1 .. Len(d.packets) : d.packets[x].n = d.packets[1].n + (x - 1)
    <3>. DEFINE m == flusher.consumed
                k == BurstStart(c) + SentOf(c)
    <3>1. /\ m \in Nat /\ m >= 1 /\ k \in Int /\ Len(d.packets) = m
          /\ \A x \in 1 .. m : d.packets[x].n = k + x
      BY <2>2, <2>3
    <3>. HIDE DEF m, k
    <3>2. d.packets[1].n = k + 1
      BY <3>1
    <3>. QED BY <3>1, <3>2
  <2>5. /\ \A e \in Clients \ {c} : wire'[e] = wire[e]
        /\ wire'[c] = Append(wire[c], d)
    BY <2>2 DEF Local, TypeOK
  <2>6. \A i \in DOMAIN wire'[c] :
            (i \in DOMAIN wire[c] /\ wire'[c][i] = wire[c][i]) \/ wire'[c][i] = d
    BY <2>3, <2>5, AppendProperties
  <2>7. ASSUME NEW e \in Clients, NEW i \in DOMAIN wire'[e]
        PROVE  \/ i \in DOMAIN wire[e] /\ wire'[e][i] = wire[e][i]
               \/ wire'[e][i] = d
    <3>1. CASE e = c
      BY <2>6, <3>1
    <3>2. CASE e # c
      BY <2>5, <3>2
    <3>. QED BY <3>1, <3>2
  <2>8. ASSUME NEW e \in Clients, NEW i \in DOMAIN wire'[e]
        PROVE  /\ Len(wire'[e][i].packets) >= 1
               /\ \A x \in 1 .. Len(wire'[e][i].packets) :
                    wire'[e][i].packets[x].n = wire'[e][i].packets[1].n + (x - 1)
    <3>1. CASE wire'[e][i] = d
      BY <2>4, <3>1
    <3>2. CASE i \in DOMAIN wire[e] /\ wire'[e][i] = wire[e][i]
      BY <3>2 DEF RunInv
    <3>. QED BY <2>7, <3>1, <3>2
  <2>. QED BY <2>8 DEF RunInv
<1>3. wire' = wire \/ WriteToUDP
  BY DEF Next, CreateSession, ReceivePacket, HandlerStep, ReadServerID,
     UpdateServerAckFromClient, ForwardLogin, ProcessEncryptedPacket,
     ProcessNATSSendRequest, FlusherStep, Tick, PickSession, DequeuePackets,
     BuildPayload, PacketExceedsBudget, SendFails, StoreServerID,
     StopDelivering, CancelContext, vars
<1>. QED BY <1>1, <1>2, <1>3

\* A packet on the wire is in a run that was delivered.
LEMMA OnWireIsDelivered ==
    ASSUME Local, RunInv, NEW c \in Clients, NEW k, OnWire(c, k)
    PROVE  k \in Channel!Have(c)
<1>1. PICK i \in DOMAIN wire[c] : \E x \in DOMAIN wire[c][i].packets :
            wire[c][i].packets[x].n = k
  BY DEF OnWire
<1>. DEFINE p == wire[c][i].packets
<1>2. wire[c] \in Seq(Datagram) /\ p \in Seq(Packet) /\ Len(p) \in Nat
  <2>1. wire[c] \in Seq(Datagram)
    BY Sorts
  <2>2. wire[c][i] \in Datagram
    BY <2>1
  <2>. QED BY <2>1, <2>2 DEF Datagram
<1>3. PICK x \in 1 .. Len(p) : p[x].n = k
  <2>1. DOMAIN p = 1 .. Len(p)
    BY <1>2
  <2>. QED BY <1>1, <2>1
<1>4. /\ Len(p) >= 1
      /\ \A y \in 1 .. Len(p) : p[y].n = p[1].n + (y - 1)
  BY <1>1 DEF RunInv
<1>5. \A y \in 1 .. Len(p) : p[y].n \in Nat
  <2>. HIDE DEF p
  <2>1. \A y \in 1 .. Len(p) : p[y] \in Packet
    BY <1>2
  <2>. QED BY <2>1 DEF Packet
<1>6. k \in p[1].n .. p[Len(p)].n
  <2>. DEFINE f == p[1].n
              l == p[Len(p)].n
              n == Len(p)
  <2>2. n \in Nat /\ x \in 1 .. n
    BY <1>2, <1>3
  <2>1. f \in Nat /\ l = f + (n - 1) /\ k = f + (x - 1)
    <3>1. 1 \in 1 .. n /\ n \in 1 .. n
      <4>. HIDE DEF n
      <4>. QED BY <2>2
    <3>. HIDE DEF p
    <3>. QED BY <1>3, <1>4, <1>5, <2>2, <3>1
  <2>. HIDE DEF f, l, n
  <2>3. k \in f .. l
    BY <2>1, <2>2
  <2>. QED BY <2>3 DEF f, l
<1>. QED BY <1>1, <1>6 DEF Channel!Have

LEMMA StepRefines ==
    Local /\ DeliveryInv /\ RunInv /\ [Next]_vars => [Channel!Next]_Channel!vars
<1>. SUFFICES ASSUME Local, DeliveryInv, RunInv, [Next]_vars
              PROVE  Channel!Next \/ UNCHANGED Channel!vars
  OBVIOUS
<1>1. ASSUME NEW c \in Clients, NEW size \in Sizes[c], ProcessNATSSendRequest(c, size)
      PROVE  Channel!Next
  <2>1. Channel!Offer(c)
    BY <1>1 DEF ProcessNATSSendRequest, Channel!Offer
  <2>. QED BY <2>1 DEF Channel!Next
<1>2. CASE StopDelivering
  <2>1. flusher'.pc = "exited" /\ UNCHANGED <<accepted, wire>>
    BY <1>2 DEF StopDelivering, Local, TypeOK, FlusherState
  <2>2. Channel!Close
    BY <2>1 DEF Channel!Close
  <2>. QED BY <2>2 DEF Channel!Next
<1>3. CASE WriteToUDP
  <2>1. PICK c \in Clients : flusher.client = c
    BY <1>3 DEF WriteToUDP, Local, FlusherOK
  <2>. DEFINE k == BurstStart(c) + SentOf(c)
              m == flusher.consumed
  <2>2. PICK d \in Datagram :
            /\ wire' = [wire EXCEPT ![c] = Append(@, d)]
            /\ Len(d.packets) = m /\ m >= 1
            /\ k + m <= accepted[c] /\ k >= 0
            /\ \A x \in 1 .. m : d.packets[x].n = k + x
    BY <1>3, <2>1, WrittenRun
  <2>3. m \in Nat /\ k \in Int /\ accepted[c] \in Nat /\ wire[c] \in Seq(Datagram)
    <3>1. BurstStart(c) \in Int /\ SentOf(c) \in Int
      BY Sorts
    <3>. QED BY <3>1, Sorts
  <2>4. \A n \in 1 .. k : n \in Channel!Have(c)
    <3>1. \A n \in 1 .. k : OnWire(c, n)
      BY DEF DeliveryInv, Covered
    <3>. QED BY <3>1, OnWireIsDelivered
  <2>5. /\ flusher.pc = "write" /\ flusher'.pc = "store" /\ accepted' = accepted
    BY <1>3 DEF WriteToUDP, Local, TypeOK, FlusherState
  <2>6. d.packets[1].n = k + 1 /\ d.packets[Len(d.packets)].n = k + m
    <3>. HIDE DEF k, m
    <3>. QED BY <2>2, <2>3
  <2>7. Run(d) = [first |-> k + 1, last |-> k + m]
    BY <2>6 DEF Run
  <2>8. Delivered' = [Delivered EXCEPT ![c] = Append(@, Run(d))]
    <3>1. /\ \A e \in Clients \ {c} : wire'[e] = wire[e]
          /\ wire'[c] = Append(wire[c], d)
      BY <2>2 DEF Local, TypeOK
    <3>2. ASSUME NEW e \in Clients \ {c} PROVE Delivered'[e] = Delivered[e]
      BY <3>1 DEF Delivered
    <3>. DEFINE w == wire[c]
                v == wire'[c]
                g == [i \in DOMAIN w |-> Run(w[i])]
                h == [i \in DOMAIN v |-> Run(v[i])]
                R == {Run(w[i]) : i \in DOMAIN w} \cup {Run(d)}
    <3>3. w \in Seq(Datagram) /\ v = Append(w, d) /\ Len(w) \in Nat
      BY <2>3, <3>1
    <3>4. /\ DOMAIN w = 1 .. Len(w) /\ DOMAIN v = 1 .. Len(w) + 1
          /\ \A i \in 1 .. Len(w) : v[i] = w[i]
          /\ v[Len(w) + 1] = d
      <4>. HIDE DEF w, v
      <4>. QED BY <3>3, AppendProperties
    <3>5. g \in Seq(R) /\ Len(g) = Len(w)
      <4>1. g \in [1 .. Len(w) -> R]
        BY <3>4
      <4>. HIDE DEF w, g, R
      <4>. QED BY <3>3, <4>1
    <3>6. h = Append(g, Run(d))
      <4>1. Run(d) \in R
        OBVIOUS
      <4>2. /\ DOMAIN Append(g, Run(d)) = 1 .. Len(w) + 1
            /\ \A i \in 1 .. Len(w) : Append(g, Run(d))[i] = g[i]
            /\ Append(g, Run(d))[Len(w) + 1] = Run(d)
            /\ Append(g, Run(d)) \in Seq(R)
        <5>. HIDE DEF w, v, g, R
        <5>. QED BY <3>3, <3>5, <4>1, AppendProperties
      <4>3. /\ DOMAIN h = 1 .. Len(w) + 1
            /\ \A i \in 1 .. Len(w) : h[i] = g[i]
            /\ h[Len(w) + 1] = Run(d)
        <5>1. \A i \in DOMAIN v : h[i] = Run(v[i])
          OBVIOUS
        <5>2. \A i \in DOMAIN w : g[i] = Run(w[i])
          OBVIOUS
        <5>3. DOMAIN h = DOMAIN v
          OBVIOUS
        <5>. HIDE DEF w, v, g, h
        <5>. QED BY <3>3, <3>4, <5>1, <5>2, <5>3
      <4>4. h = [i \in DOMAIN h |-> h[i]]
        OBVIOUS
      <4>5. Append(g, Run(d)) \in [1 .. Len(w) + 1 -> R]
        <5>. DEFINE q == Append(g, Run(d))
        <5>1. q \in Seq(R) /\ DOMAIN q = 1 .. Len(w) + 1
          BY <4>2
        <5>. HIDE DEF w, v, g, h, R, q
        <5>2. q \in [DOMAIN q -> R]
          BY <5>1
        <5>3. q \in [1 .. Len(w) + 1 -> R]
          BY <5>1, <5>2
        <5>. QED BY <5>3 DEF q
      <4>6. \A i \in 1 .. Len(w) + 1 : h[i] = Append(g, Run(d))[i]
        <5>1. \A i \in 1 .. Len(w) + 1 : i \in 1 .. Len(w) \/ i = Len(w) + 1
          <6>. HIDE DEF w
          <6>. QED BY <3>3
        <5>. HIDE DEF w, v, g, h, R
        <5>. QED BY <4>2, <4>3, <5>1
      <4>. HIDE DEF w, v, g, h, R
      <4>. QED BY <4>3, <4>4, <4>5, <4>6
    <3>7. Delivered[c] = g /\ Delivered'[c] = h
      BY DEF Delivered
    <3>8. Delivered'[c] = Append(Delivered[c], Run(d))
      <4>. HIDE DEF g, h
      <4>. QED BY <3>6, <3>7
    <3>9. /\ DOMAIN Delivered = Clients /\ DOMAIN Delivered' = Clients
          /\ Delivered = [e \in Clients |-> Delivered[e]]
          /\ Delivered' = [e \in Clients |-> Delivered'[e]]
      BY DEF Delivered
    <3>. QED BY <3>2, <3>8, <3>9
  <2>9. PICK first \in 1 .. accepted[c] : first = k + 1
    <3>. HIDE DEF k, m
    <3>. QED BY <2>2, <2>3
  <2>10. PICK last \in first .. accepted[c] : last = k + m
    <3>. HIDE DEF k, m
    <3>. QED BY <2>2, <2>3, <2>9
  <2>11. 1 .. first - 1 \subseteq Channel!Have(c)
    <3>1. first - 1 = k
      <4>. HIDE DEF k
      <4>. QED BY <2>3, <2>9
    <3>. QED BY <2>4, <3>1
  <2>12. ~(flusher.pc = "exited") /\ ~(flusher'.pc = "exited")
    BY <2>5
  <2>13. Delivered' = [Delivered EXCEPT
                         ![c] = Append(@, [first |-> first, last |-> last])]
    <3>. HIDE DEF k, m
    <3>. QED BY <2>7, <2>8, <2>9, <2>10
  <2>14. Channel!Deliver(c, first, last)
    <3>. HIDE DEF k, m
    <3>. QED BY <2>5, <2>11, <2>12, <2>13 DEF Channel!Deliver, Delivered, Run
  <2>. QED BY <2>14 DEF Channel!Next
<1>4. CASE UNCHANGED <<accepted, wire>> /\ (flusher'.pc = "exited" <=> flusher.pc = "exited")
  BY <1>4 DEF Channel!vars
<1>5. ASSUME ~WriteToUDP, ~StopDelivering,
             \A c \in Clients : \A size \in Sizes[c] : ~ProcessNATSSendRequest(c, size)
      PROVE  UNCHANGED <<accepted, wire>> /\ (flusher'.pc = "exited" <=> flusher.pc = "exited")
  <2>1. CASE FlusherStep
    <3>1. UNCHANGED <<accepted, wire>> /\ flusher.pc # "exited"
      BY <1>5, <2>1 DEF FlusherStep, Tick, PickSession, DequeuePackets,
         BuildPayload, PacketExceedsBudget, SendFails, StoreServerID
    <3>2. flusher'.pc # "exited"
      BY <1>5, <2>1, NextSessionType DEF FlusherStep, Tick, PickSession,
         DequeuePackets, BuildPayload, PacketExceedsBudget, SendFails,
         RequeuePackets, StoreServerID, Local, TypeOK, FlusherState
    <3>. QED BY <3>1, <3>2
  <2>2. CASE ~FlusherStep
    <3>1. UNCHANGED <<accepted, wire, flusher>>
      BY <1>5, <2>2 DEF Next, CreateSession, ReceivePacket, HandlerStep,
         ReadServerID, UpdateServerAckFromClient, ForwardLogin,
         ProcessEncryptedPacket, CancelContext, vars
    <3>. QED BY <3>1
  <2>. QED BY <2>1, <2>2
<1>. QED BY <1>1, <1>2, <1>3, <1>4, <1>5

\* The router implements its promise: it starts as the channel starts, and
\* each of its steps offers a packet, delivers a run whose predecessors were
\* all delivered, closes the channel, or is none of the channel's business.
THEOREM RouterImplementsChannel == Spec => ImplementsChannel
<1>1. Init => RunInv
  BY DEF Init, RunInv
<1>2. Init => Channel!Init
  BY DEF Init, Channel!Init, IdleFlusher
<1>. QED BY <1>1, <1>2, DeliveryInvariant, RunsInductive, StepRefines, PTL
     DEF Spec, ImplementsChannel, Channel!Spec
=============================================================================
