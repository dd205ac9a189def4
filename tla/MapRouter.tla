------------------------------ MODULE MapRouter ------------------------------
(***************************************************************************)
(* The map router: the UDP process between game clients and the map        *)
(* instance workers (internal/servers/map/router).  Three kinds of         *)
(* goroutine share its state:                                              *)
(*                                                                         *)
(*   handler   HandleIncomingPacket, one client datagram after the other;  *)
(*   callback  processNATSSendRequest, one per session, queues what an     *)
(*             instance published for the client;                          *)
(*   flusher   DeliverPacketsToClients, drains the queues every 50 ms.     *)
(*                                                                         *)
(* sessions is guarded by sessionsMu and packetsToSend by packetsMu, so an *)
(* access to one of them is one step.  A session's fields have no lock:    *)
(* each read and each write of lastServerPacketID is a step of its own.    *)
(*                                                                         *)
(* Abstracted: packet contents are a number (the order of arrival at the   *)
(* router) and a size; the header bytes and the client packet id mirrored  *)
(* back, the encryption and the character row are data that no property    *)
(* here tells apart.  A datagram the handler drops without changing        *)
(* anything (too small, bad checksum, no session) is one that was lost.    *)
(***************************************************************************)
EXTENDS Naturals, Sequences, FiniteSets

CONSTANTS
    Clients,        \* client addresses
    Honest,         \* clients that only acknowledge ids they were sent
    NoClient,       \* a goroutine that works for no client at the moment
    IdSpace,        \* server packet ids are integers modulo this, 2^16 in Go
    Sizes,          \* sub-packet lengths published for each client
    MaxPayload,     \* maxPayloadBytes, in the unit of Sizes
    MaxQueued,      \* bound: packets published for each client
    MaxFailures     \* bound: failed bursts, but see PacketExceedsBudget

ASSUME ConstantsAssumption ==
    /\ NoClient \notin Clients
    /\ Honest \subseteq Clients
    /\ IdSpace \in Nat /\ IdSpace > 1
    /\ Sizes \in [Clients -> SUBSET (Nat \ {0})]
    /\ MaxPayload \in Nat
    /\ MaxQueued \in [Clients -> Nat]
    /\ MaxFailures \in Nat

VARIABLES
    sessions,            \* clients with an entry in the sessions map
    loginForwarded,      \* clients whose login was published to an instance
    lastServerPacketID,  \* Session.lastServerPacketID
    packetsToSend,       \* the queue of each client
    accepted,            \* how many packets were queued for each client
    handler,             \* the datagram in hand of HandleIncomingPacket
    flusher,             \* the locals of flushPendingPackets and its callees
    wire,                \* the datagrams written to each client, in order
    failures,            \* bursts that have failed
    ctxDone              \* the server's context is cancelled

vars == <<sessions, loginForwarded, lastServerPacketID, packetsToSend,
          accepted, handler, flusher, wire, failures, ctxDone>>

Ids == 0 .. IdSpace - 1
Packet == [n : Nat, size : Nat]
Datagram == [id : Ids, packets : Seq(Packet)]

HandlerState ==
    [pc : {"idle", "readId", "applyAck", "forward"},
     client : Clients \cup {NoClient}, ack : Ids, prev : Ids,
     kind : {"login", "retry", "other"}]

\* pending[1 .. sent] is on the wire already: Go's remaining is the rest.
FlusherState ==
    [pc : {"idle", "dequeue", "build", "write", "store", "exited"},
     todo : SUBSET Clients, client : Clients \cup {NoClient},
     pending : Seq(Packet), sent : Nat, consumed : Nat, id : Ids]

\* Type correctness of the router's state.
TypeOK ==
    /\ sessions \subseteq Clients
    /\ loginForwarded \subseteq sessions
    /\ lastServerPacketID \in [Clients -> Ids]
    /\ packetsToSend \in [Clients -> Seq(Packet)]
    /\ accepted \in [Clients -> Nat]
    /\ handler \in HandlerState
    /\ flusher \in FlusherState
    /\ wire \in [Clients -> Seq(Datagram)]
    /\ failures \in Nat
    /\ ctxDone \in BOOLEAN

IdleHandler ==
    [pc |-> "idle", client |-> NoClient, ack |-> 0, prev |-> 0,
     kind |-> "other"]

IdleFlusher ==
    [pc |-> "idle", todo |-> {}, client |-> NoClient, pending |-> <<>>,
     sent |-> 0, consumed |-> 0, id |-> 0]

Init ==
    /\ sessions = {}
    /\ loginForwarded = {}
    /\ lastServerPacketID = [c \in Clients |-> 0]
    /\ packetsToSend = [c \in Clients |-> <<>>]
    /\ accepted = [c \in Clients |-> 0]
    /\ handler = IdleHandler
    /\ flusher = IdleFlusher
    /\ wire = [c \in Clients |-> <<>>]
    /\ failures = 0
    /\ ctxDone = FALSE

-----------------------------------------------------------------------------
(* The handler.                                                            *)

\* The ids a client has been sent; it may acknowledge an old one, as the
\* network delays and repeats datagrams, and 0 before the first.
Seen(c) == {0} \cup {wire[c][i].id : i \in DOMAIN wire[c]}

\* The router takes the acknowledgement as it is, from any datagram of the
\* client and before the checksum: it may be any id.
Acks(c) == IF c \in Honest THEN Seen(c) ELSE Ids

\* The character has an account session with a key of the right size and the
\* subscription to the instance's answers succeeds: enter the session.
SessionCreated(c) == sessions' = sessions \cup {c}

\* A login datagram of an unknown address; its acknowledgement counts too.
CreateSession(c, ack) ==
    /\ handler.pc = "idle"
    /\ c \notin sessions
    /\ SessionCreated(c)
    /\ handler' = [pc |-> "readId", client |-> c, ack |-> ack, prev |-> 0,
                   kind |-> "login"]
    /\ UNCHANGED <<loginForwarded, lastServerPacketID, packetsToSend, accepted,
                   flusher, wire, failures, ctxDone>>

\* Any later datagram of the client, a repeated login ("retry") included.
ReceivePacket(c, ack, kind) ==
    /\ handler.pc = "idle"
    /\ c \in sessions
    /\ handler' = [pc |-> "readId", client |-> c, ack |-> ack, prev |-> 0,
                   kind |-> kind]
    /\ UNCHANGED <<sessions, loginForwarded, lastServerPacketID, packetsToSend,
                   accepted, flusher, wire, failures, ctxDone>>

\* updateServerAckFromClient reads the last id it knows ...
ReadServerID ==
    /\ handler.pc = "readId"
    /\ handler' = [handler EXCEPT !.pc = "applyAck",
                                  !.prev = lastServerPacketID[handler.client]]
    /\ UNCHANGED <<sessions, loginForwarded, lastServerPacketID, packetsToSend,
                   accepted, flusher, wire, failures, ctxDone>>

AckedID(prev, ack, last) == IF ack > prev THEN ack ELSE last

\* ... and overwrites it when the client's ack is the larger uint16.
UpdateServerAckFromClient ==
    /\ handler.pc = "applyAck"
    /\ lastServerPacketID' = [lastServerPacketID EXCEPT
            ![handler.client] = AckedID(handler.prev, handler.ack, @)]
    /\ handler' = IF handler.kind = "retry" THEN IdleHandler
                  ELSE [handler EXCEPT !.pc = "forward"]
    /\ UNCHANGED <<sessions, loginForwarded, packetsToSend, accepted, flusher,
                   wire, failures, ctxDone>>

\* The publish may fail: that is logged, and nothing is undone or retried.
ForwardPacketToInstance(c) ==
    \/ loginForwarded' = loginForwarded \cup {c}
    \/ UNCHANGED loginForwarded

\* The session stays when this fails, so the client's next login is a retry.
ForwardLogin ==
    /\ handler.pc = "forward"
    /\ handler.kind = "login"
    /\ ForwardPacketToInstance(handler.client)
    /\ handler' = IdleHandler
    /\ UNCHANGED <<sessions, lastServerPacketID, packetsToSend, accepted,
                   flusher, wire, failures, ctxDone>>

\* A datagram with a valid checksum: its sub-packets are forwarded, each on
\* its own; an instance answers none of them but a login.
ProcessEncryptedPacket ==
    /\ handler.pc = "forward"
    /\ handler.kind = "other"
    /\ ForwardPacketToInstance(handler.client)
    /\ handler' = IdleHandler
    /\ UNCHANGED <<sessions, lastServerPacketID, packetsToSend, accepted,
                   flusher, wire, failures, ctxDone>>

-----------------------------------------------------------------------------
(* The NATS callback of a session.                                         *)

\* An instance knows a client's address from its forwarded login and then
\* publishes packets for it; the callback queues the next of them.
ProcessNATSSendRequest(c, size) ==
    /\ c \in loginForwarded
    /\ accepted[c] < MaxQueued[c]
    /\ accepted' = [accepted EXCEPT ![c] = @ + 1]
    /\ packetsToSend' = [packetsToSend EXCEPT
            ![c] = Append(@, [n |-> accepted[c] + 1, size |-> size])]
    /\ UNCHANGED <<sessions, loginForwarded, lastServerPacketID, handler,
                   flusher, wire, failures, ctxDone>>

-----------------------------------------------------------------------------
(* The flusher.                                                            *)

\* The ticker fires: flushPendingPackets takes a snapshot of the sessions.
Tick ==
    /\ flusher.pc = "idle"
    /\ sessions # {}
    /\ flusher' = [flusher EXCEPT !.pc = "dequeue", !.todo = sessions]
    /\ UNCHANGED <<sessions, loginForwarded, lastServerPacketID, packetsToSend,
                   accepted, handler, wire, failures, ctxDone>>

\* The next client of the snapshot, in any order (it was a Go map).
PickSession(c) ==
    /\ flusher.pc = "dequeue"
    /\ flusher.client = NoClient
    /\ c \in flusher.todo
    /\ flusher' = [flusher EXCEPT !.client = c, !.todo = @ \ {c}]
    /\ UNCHANGED <<sessions, loginForwarded, lastServerPacketID, packetsToSend,
                   accepted, handler, wire, failures, ctxDone>>

\* flushSessionQueue is done with its client: the next one, or the next tick.
NextSession(f) ==
    [pc |-> IF f.todo = {} THEN "idle" ELSE "dequeue", todo |-> f.todo,
     client |-> NoClient, pending |-> <<>>, sent |-> 0, consumed |-> 0, id |-> 0]

\* dequeuePackets takes the whole queue, again and again until it is empty.
DequeuePackets ==
    LET c == flusher.client IN
    /\ flusher.pc = "dequeue"
    /\ c # NoClient
    /\ packetsToSend' = [packetsToSend EXCEPT ![c] = <<>>]
    /\ flusher' = IF packetsToSend[c] = <<>>
                  THEN NextSession(flusher)
                  ELSE [flusher EXCEPT !.pc = "build", !.sent = 0,
                                       !.pending = packetsToSend[c]]
    /\ UNCHANGED <<sessions, loginForwarded, lastServerPacketID, accepted,
                   handler, wire, failures, ctxDone>>

\* The bytes of the first k of the packets that remain.
PayloadLength(f, k) ==
    LET bytes[i \in 0 .. k] ==
            IF i = 0 THEN 0 ELSE bytes[i - 1] + f.pending[f.sent + i].size
    IN  bytes[k]

Remaining(f) == Len(f.pending) - f.sent

\* buildPayload stops at the first packet that does not fit.
FillsPayload(f, k) ==
    /\ PayloadLength(f, k) <= MaxPayload
    /\ k < Remaining(f) => PayloadLength(f, k + 1) > MaxPayload

\* Mutant: the id is not a uint16.
NextServerPacketIDUnbounded(last) == last + 1

NextServerPacketID(last) == (last + 1) % IdSpace

\* sendPacketBurst chooses the next id and buildPayload fills a datagram.
BuildPayload ==
    /\ flusher.pc = "build"
    /\ \E k \in 1 .. Remaining(flusher) :
        /\ FillsPayload(flusher, k)
        /\ flusher' = [flusher EXCEPT
                !.pc = "write", !.consumed = k,
                !.id = NextServerPacketID(lastServerPacketID[flusher.client])]
    /\ UNCHANGED <<sessions, loginForwarded, lastServerPacketID, packetsToSend,
                   accepted, handler, wire, failures, ctxDone>>

\* Mutant: putting a burst back forgets what was queued meanwhile.
RequeueOverwrites ==
    /\ packetsToSend' = [packetsToSend EXCEPT ![flusher.client] = flusher.pending]
    /\ flusher' = NextSession(flusher)

\* Mutant: the burst is put back behind what was queued meanwhile.
RequeueAppends ==
    /\ packetsToSend' = [packetsToSend EXCEPT
                            ![flusher.client] = @ \o flusher.pending]
    /\ flusher' = NextSession(flusher)

\* Mutant: the datagram that failed is taken for sent.
RequeueSkipsFailed ==
    /\ packetsToSend' = [packetsToSend EXCEPT ![flusher.client] =
            SubSeq(flusher.pending, flusher.sent + flusher.consumed + 1,
                   Len(flusher.pending)) \o @]
    /\ flusher' = NextSession(flusher)

\* Mutant: the error also ends the flush of the other clients' queues.
RequeueStopsTick ==
    /\ packetsToSend' = [packetsToSend EXCEPT
                            ![flusher.client] = flusher.pending \o @]
    /\ flusher' = IdleFlusher

\* flushSessionQueue on an error: the whole burst goes back, before what was
\* queued meanwhile, and the client waits for the next tick.
RequeuePackets ==
    /\ packetsToSend' = [packetsToSend EXCEPT
                            ![flusher.client] = flusher.pending \o @]
    /\ flusher' = NextSession(flusher)

\* buildPayload fails: the first packet alone exceeds the payload budget.  It
\* fails again with every tick, without an end and so counted once, unless
\* packets before it in the burst are written again each time.
PacketExceedsBudget ==
    /\ flusher.pc = "build"
    /\ flusher.pending[flusher.sent + 1].size > MaxPayload
    /\ flusher.sent = 0 \/ failures < MaxFailures
    /\ failures' = IF flusher.sent = 0 /\ failures > 0 THEN failures
                   ELSE failures + 1
    /\ RequeuePackets
    /\ UNCHANGED <<sessions, loginForwarded, lastServerPacketID, accepted,
                   handler, wire, ctxDone>>

\* Mutant: the id of a datagram that was not written counts as used.
SendFailsBurnsId ==
    /\ flusher.pc = "write"
    /\ failures < MaxFailures
    /\ failures' = failures + 1
    /\ RequeuePackets
    /\ lastServerPacketID' =
            [lastServerPacketID EXCEPT ![flusher.client] = flusher.id]
    /\ UNCHANGED <<sessions, loginForwarded, accepted, handler, wire, ctxDone>>

\* buildNetworkPacket or WriteToUDP fails.
SendFails ==
    /\ flusher.pc = "write"
    /\ failures < MaxFailures
    /\ failures' = failures + 1
    /\ RequeuePackets
    /\ UNCHANGED <<sessions, loginForwarded, lastServerPacketID, accepted,
                   handler, wire, ctxDone>>

WriteToUDP ==
    /\ flusher.pc = "write"
    /\ wire' = [wire EXCEPT ![flusher.client] =
            Append(@, [id |-> flusher.id,
                       packets |-> SubSeq(flusher.pending, flusher.sent + 1,
                                          flusher.sent + flusher.consumed)])]
    /\ flusher' = [flusher EXCEPT !.pc = "store"]
    /\ UNCHANGED <<sessions, loginForwarded, lastServerPacketID, packetsToSend,
                   accepted, handler, failures, ctxDone>>

\* Mutant: a datagram with several packets counts as one.
SentAfterWriteOne(f) == f.sent + 1

SentAfterWrite(f) == f.sent + f.consumed

\* The id counts as used only now; the burst goes on, or the queue is
\* looked at again.
StoreServerID ==
    LET done == SentAfterWrite(flusher) IN
    /\ flusher.pc = "store"
    /\ lastServerPacketID' =
            [lastServerPacketID EXCEPT ![flusher.client] = flusher.id]
    /\ flusher' = IF done = Len(flusher.pending)
                  THEN [flusher EXCEPT !.pc = "dequeue", !.pending = <<>>,
                                       !.sent = 0, !.consumed = 0, !.id = 0]
                  ELSE [flusher EXCEPT !.pc = "build", !.sent = done,
                                       !.consumed = 0, !.id = 0]
    /\ UNCHANGED <<sessions, loginForwarded, packetsToSend, accepted, handler,
                   wire, failures, ctxDone>>

\* Shutdown: the flusher sees it between two ticks, when select may also take
\* a tick that is due.
CancelContext ==
    /\ ~ctxDone
    /\ ctxDone' = TRUE
    /\ UNCHANGED <<sessions, loginForwarded, lastServerPacketID, packetsToSend,
                   accepted, handler, flusher, wire, failures>>

StopDelivering ==
    /\ ctxDone
    /\ flusher.pc = "idle"
    /\ flusher' = [flusher EXCEPT !.pc = "exited"]
    /\ UNCHANGED <<sessions, loginForwarded, lastServerPacketID, packetsToSend,
                   accepted, handler, wire, failures, ctxDone>>

-----------------------------------------------------------------------------

HandlerStep ==
    \/ ReadServerID \/ UpdateServerAckFromClient
    \/ ForwardLogin \/ ProcessEncryptedPacket

FlusherStep ==
    \/ Tick \/ (\E c \in Clients : PickSession(c)) \/ DequeuePackets
    \/ BuildPayload \/ PacketExceedsBudget \/ SendFails \/ WriteToUDP
    \/ StoreServerID \/ StopDelivering

Next ==
    \/ \E c \in Clients : \E ack \in Acks(c) :
        \/ CreateSession(c, ack)
        \/ \E kind \in {"retry", "other"} : ReceivePacket(c, ack, kind)
    \/ HandlerStep
    \/ \E c \in Clients : \E size \in Sizes[c] : ProcessNATSSendRequest(c, size)
    \/ FlusherStep
    \/ CancelContext

Spec == Init /\ [][Next]_vars

\* Both goroutines are scheduled by the Go runtime and the ticker keeps
\* firing; nothing obliges a client or an instance to say anything.
FairSpec == Spec /\ WF_vars(HandlerStep) /\ WF_vars(FlusherStep)
-----------------------------------------------------------------------------
(* Properties.                                                             *)

OnWire(c, k) ==
    \E i \in DOMAIN wire[c] : \E x \in DOMAIN wire[c][i].packets :
        wire[c][i].packets[x].n = k

\* Packet k waits in the part of a burst that was not written yet.
InBurst(c, k) ==
    /\ flusher.client = c
    /\ \E x \in flusher.sent + 1 .. Len(flusher.pending) :
            flusher.pending[x].n = k

InQueue(c, k) ==
    \E x \in DOMAIN packetsToSend[c] : packetsToSend[c][x].n = k

\* Whatever bursts fail, and whatever the callback queues while a burst is
\* sent or put back, no packet an instance published for a client is lost:
\* it was written to the client, or it waits in the burst or in the queue.
NothingLost ==
    \A c \in Clients : \A k \in 1 .. accepted[c] :
        OnWire(c, k) \/ InBurst(c, k) \/ InQueue(c, k)

\* Packet k, with its successor in the same or in a later datagram, is
\* written before that successor: position x of datagram j.
After(c, j, x, k) ==
    \/ x > 1 /\ wire[c][j].packets[x - 1].n = k
    \/ \E i \in 1 .. j - 1 : \E y \in DOMAIN wire[c][i].packets :
            wire[c][i].packets[y].n = k

\* Retried bursts may repeat packets but never let one overtake: each packet
\* on the wire comes after its predecessor (dequeue, requeue and append).
InOrder ==
    \A c \in Clients : \A j \in DOMAIN wire[c] :
        \A x \in DOMAIN wire[c][j].packets :
            LET k == wire[c][j].packets[x].n
            IN  k > 1 => After(c, j, x, k - 1)

\* The ids leave no gap for a client that only acknowledges what it was sent,
\* although its ack may raise or lower the counter between its read and its
\* update, and writes may fail: the predecessor of an id was written before it
\* (0 precedes the first).
NoSkippedId ==
    \A c \in Honest : \A j \in DOMAIN wire[c] :
        \E prev \in {0} \cup {wire[c][i].id : i \in 1 .. j - 1} :
            wire[c][j].id = (prev + 1) % IdSpace

\* Without a failed burst nothing is written twice.
OnceWithoutFailure ==
    failures = 0 =>
        \A c \in Clients : \A i, j \in DOMAIN wire[c] :
            \A x \in DOMAIN wire[c][i].packets, y \in DOMAIN wire[c][j].packets :
                wire[c][i].packets[x].n = wire[c][j].packets[y].n
                    => i = j /\ x = y

Channel == INSTANCE OrderedDelivery WITH
    offered <- accepted,
    delivered <- [c \in Clients |-> [i \in DOMAIN wire[c] |->
        [first |-> wire[c][i].packets[1].n,
         last |-> wire[c][i].packets[Len(wire[c][i].packets)].n]]],
    closed <- flusher.pc = "exited"

\* Every step of the router is a step of the channel it promises its clients:
\* a new datagram carries a run of packets whose predecessors were written.
ImplementsChannel == Channel!Spec

\* A packet that no datagram can hold is in the client's burst or queue.
TooLargeWaits(c) ==
    \/ \E x \in DOMAIN packetsToSend[c] : packetsToSend[c][x].size > MaxPayload
    \/ /\ flusher.client = c
       /\ \E x \in DOMAIN flusher.pending : flusher.pending[x].size > MaxPayload

\* The periodic goroutine "will drain queued packets" (session.go:97): if
\* writes stop failing, every packet published for a client is written to it
\* unless the router shuts down or a packet for the same client is too large
\* to send, which another client's queue may hold for ever without harm.
EverythingDelivered ==
    \A c \in Clients : \A k \in 1 .. MaxQueued[c] :
        accepted[c] >= k
            ~> flusher.pc = "exited" \/ OnWire(c, k) \/ TooLargeWaits(c)
=============================================================================
