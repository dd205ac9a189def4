---------------------------- MODULE ZoneInProofs ----------------------------
(***************************************************************************)
(* Theorems about ZoneIn, for any clients, any burst and any number of     *)
(* logins and failures.                                                    *)
(***************************************************************************)
EXTENDS ZoneIn, SequenceTheorems, TLAPS

Busy == worker \in Rows \cup {"send"}

\* What the program counters say of the other variables.
Control ==
    /\ processor \in {"account", "subscribe", "character", "forward"} =>
        handled \in Clients /\ forwarded < MaxLogins
    /\ processor \in {"account", "subscribe", "character"} =>
        session[handled] = "none"
    /\ processor = "forward" => session[handled] # "none"
    /\ Busy => answering \in Login
    /\ worker \in Rows => sent = 0
    /\ worker = "send" => sent < Len(Burst)

TypeInv == TypeOK /\ Control

-----------------------------------------------------------------------------
(* Types.                                                                  *)

LEMMA BurstType == Len(Burst) \in Nat /\ Len(Burst) > 0 /\ DOMAIN Burst = 1..Len(Burst)
BY ZoneAssumption

LEMMA RowsMade ==
    ASSUME NEW kind, NEW rows \in SUBSET Rows
    PROVE  MadeOf(kind, rows) \subseteq Rows
BY DEF MadeOf, CreateCharacterUpdatePacket, CreateLoginPacketFromCharacter,
    buildCharacterGrapIDs

LEMMA InitType == Init => TypeInv
<1>. SUFFICES ASSUME Init PROVE TypeInv
  OBVIOUS
<1>1. /\ arriving \in [Clients -> Seq(Packet)] /\ queued \in [Clients -> Seq(Packet)]
      /\ logins \in Seq(Login)
  BY DEF Init
<1>2. /\ shutdown \in [Processes -> {"signal", "wait", "done", "timeout", "crashed"}]
      /\ session \in [Clients -> SessionStates]
  BY DEF Init, SessionStates
<1>3. failures \in 0..MaxFailures /\ forwarded \in 0..MaxLogins /\ sent \in 0..Len(Burst)
  BY ZoneAssumption, BurstType DEF Init
<1>4. TypeOK
  BY <1>1, <1>2, <1>3 DEF Init, TypeOK
<1>5. Control
  BY BurstType DEF Init, Control, Busy, Rows
<1>. QED BY <1>4, <1>5 DEF TypeInv

LEMMA QueryType ==
    ASSUME TypeInv, NEW p \in Processes, QuerySucceeds(p) \/ QueryFails(p)
    PROVE  failures' \in 0..MaxFailures
BY ZoneAssumption DEF QuerySucceeds, QueryFails, Fail, TypeInv, TypeOK

\* The handler, between its queries.
LEMMA RouterType ==
    ASSUME TypeInv,
           \/ Select \/ ReadFails \/ (\E c \in Clients : ReadDatagram(c))
           \/ GetAccountSession \/ Subscribe \/ SetSession
    PROVE  TypeInv'
<1>1. CASE Select \/ ReadFails
  BY <1>1 DEF Select, ReadFails, TypeInv, TypeOK, Control, Busy, network,
      instanceState, counters
<1>2. ASSUME NEW c \in Clients, ReadDatagram(c) PROVE TypeInv'
  BY <1>2, ZoneAssumption DEF ReadDatagram, TypeInv, TypeOK, Control, Busy, network,
      instanceState, counters
<1>3. CASE GetAccountSession
  <2>1. failures' \in 0..MaxFailures
    BY <1>3, QueryType DEF GetAccountSession, Processes
  <2>. QED BY <1>3, <2>1 DEF GetAccountSession, TypeInv, TypeOK, Control, Busy, network,
        instanceState
<1>4. CASE Subscribe
  BY <1>4 DEF Subscribe, TypeInv, TypeOK, Control, Busy, network, instanceState, counters
<1>5. CASE SetSession
  <2>1. failures' \in 0..MaxFailures
    BY <1>5, QueryType DEF SetSession, Processes
  <2>2. session' \in [Clients -> SessionStates] /\ session'[handled] # "none"
    BY <1>5 DEF SetSession, TypeInv, TypeOK, Control, SessionStates
  <2>. QED BY <1>5, <2>1, <2>2 DEF SetSession, TypeInv, TypeOK, Control, Busy, network,
        instanceState
<1>. QED BY <1>1, <1>2, <1>3, <1>4, <1>5

LEMMA ForwardType ==
    ASSUME TypeInv, ForwardLogin
    PROVE  TypeInv'
<1>. DEFINE m == [number |-> forwarded + 1, client |-> handled,
                  named |-> session[handled] = "named"]
<1>1. m \in Login /\ forwarded' \in 0..MaxLogins
  BY ZoneAssumption DEF ForwardLogin, TypeInv, TypeOK, Control, Login
<1>2. logins' = logins \/ logins' = Append(logins, m)
  BY DEF ForwardLogin
<1>. HIDE DEF m
<1>3. logins' \in Seq(Login)
  <2>1. logins \in Seq(Login)
    BY DEF TypeInv, TypeOK
  <2>. QED BY <1>1, <1>2, <2>1, AppendProperties
<1>. QED BY <1>1, <1>3 DEF ForwardLogin, TypeInv, TypeOK, Control, Busy, network,
      instanceState

LEMMA QueueType ==
    ASSUME TypeInv, NEW c \in Clients, QueuePacket(c)
    PROVE  TypeInv'
<1>1. /\ queued[c] \in Seq(Packet) /\ arriving[c] \in Seq(Packet)
      /\ arriving[c] # <<>>
  BY DEF TypeInv, TypeOK, QueuePacket
<1>2. /\ Head(arriving[c]) \in Packet /\ Tail(arriving[c]) \in Seq(Packet)
      /\ Append(queued[c], Head(arriving[c])) \in Seq(Packet)
  BY <1>1, HeadTailProperties, AppendProperties
<1>3. queued' \in [Clients -> Seq(Packet)] /\ arriving' \in [Clients -> Seq(Packet)]
  BY <1>2 DEF TypeInv, TypeOK, QueuePacket
<1>. QED BY <1>3 DEF QueuePacket, TypeInv, TypeOK, Control, Busy, routerState,
      instanceState, counters

LEMMA AnswerType ==
    ASSUME TypeInv, StartProcessingPackets \/ ProcessPacket \/ LoadRow
    PROVE  TypeInv'
<1>1. CASE StartProcessingPackets
  BY <1>1 DEF StartProcessingPackets, TypeInv, TypeOK, Control, Busy, Rows, network,
      routerState, counters
<1>2. CASE ProcessPacket
  <2>1. Head(logins) \in Login /\ Tail(logins) \in Seq(Login)
    BY <1>2, HeadTailProperties DEF ProcessPacket, TypeInv, TypeOK
  <2>. QED BY <1>2, <2>1, BurstType DEF ProcessPacket, TypeInv, TypeOK, Control, Busy,
        Rows, network, routerState, counters
<1>3. CASE LoadRow
  <2>1. worker' \in {"looks", "stats", "send"} /\ worker \in Rows
    BY <1>3 DEF LoadRow, After, Rows
  <2>2. failures' \in 0..MaxFailures /\ loaded' \subseteq Rows
    <3>1. failures' \in 0..MaxFailures
      <4>1. failures' = failures \/ QuerySucceeds("instance") \/ QueryFails("instance")
        BY <1>3 DEF LoadRow
      <4>. QED BY <4>1, QueryType DEF TypeInv, TypeOK, Processes
    <3>2. loaded' = loaded \/ loaded' = loaded \cup {worker}
      BY <1>3 DEF LoadRow
    <3>. QED BY <2>1, <3>1, <3>2 DEF TypeInv, TypeOK
  <2>. QED BY <1>3, <2>1, <2>2, BurstType DEF LoadRow, TypeInv, TypeOK, Control, Busy,
        Rows, network, routerState
<1>. QED BY <1>1, <1>2, <1>3

LEMMA SendType ==
    ASSUME TypeInv, SendPacket
    PROVE  TypeInv'
<1>. DEFINE p == [number |-> answering.number, index |-> sent + 1,
                  client |-> answering.client,
                  rows |-> MadeOf(Burst[sent + 1], loaded)]
            c == answering.client
<1>1. worker = "send" /\ answering \in Login /\ sent + 1 \in 1..Len(Burst)
  <2>1. worker = "send" /\ Busy
    BY DEF SendPacket, Busy
  <2>2. answering \in Login /\ sent < Len(Burst) /\ sent \in 0..Len(Burst)
    BY <2>1 DEF TypeInv, TypeOK, Control
  <2>. QED BY <2>1, <2>2, BurstType
<1>2. p \in Packet /\ c \in Clients
  <2>1. MadeOf(Burst[sent + 1], loaded) \subseteq Rows
    BY RowsMade DEF TypeInv, TypeOK
  <2>. QED BY <1>1, <2>1, BurstType DEF Login, Packet
<1>3. \/ arriving' = [arriving EXCEPT ![c] = Append(@, p)]
      \/ arriving' = arriving
  BY DEF SendPacket, Published
<1>. HIDE DEF p, c
<1>4. arriving' \in [Clients -> Seq(Packet)]
  <2>1. arriving[c] \in Seq(Packet)
    BY <1>2 DEF TypeInv, TypeOK
  <2>2. Append(arriving[c], p) \in Seq(Packet)
    BY <1>2, <2>1, AppendProperties
  <2>. QED BY <1>3, <2>2 DEF TypeInv, TypeOK
<1>5. worker' = IF sent + 1 = Len(Burst) THEN "idle" ELSE "send"
  BY DEF SendPacket
<1>6. sent' \in 0..Len(Burst) /\ (worker' = "send" => sent' < Len(Burst))
  BY <1>1, <1>5, BurstType DEF SendPacket
<1>. QED BY <1>1, <1>4, <1>5, <1>6 DEF SendPacket, TypeInv, TypeOK, Control, Busy, Rows,
      routerState, counters

LEMMA ProcessType ==
    ASSUME TypeInv, NEW p \in Processes,
           Disconnected(p) \/ Reconnected(p) \/ Signal(p) \/ ShutDown(p) \/ Crash(p)
    PROVE  TypeInv'
<1>1. failures' \in 0..MaxFailures
  BY ZoneAssumption DEF Disconnected, Reconnected, Signal, ShutDown, Finished, Timeout,
      Crash, Fail, TypeInv, TypeOK, counters
<1>2. connected' \subseteq Processes /\ broken' \in BOOLEAN
  BY DEF Disconnected, Reconnected, Signal, ShutDown, Finished, Timeout,
      Crash, TypeInv, TypeOK, counters, network
<1>3. shutdown' \in [Processes -> {"signal", "wait", "done", "timeout", "crashed"}]
  BY DEF Disconnected, Reconnected, Signal, ShutDown, Finished, Timeout,
      Crash, TypeInv, TypeOK
<1>4. /\ UNCHANGED <<arriving, routerState, queued, instanceState, logins, forwarded>>
  BY DEF Disconnected, Reconnected, Signal, ShutDown, Finished, Timeout,
      Crash, network, counters
<1>. QED BY <1>1, <1>2, <1>3, <1>4 DEF TypeInv, TypeOK, Control, Busy, routerState,
      instanceState

LEMMA RestartType ==
    ASSUME TypeInv, StopDelivering \/ RestartRouter \/ RestartInstance
    PROVE  TypeInv'
<1>1. CASE StopDelivering
  BY <1>1 DEF StopDelivering, TypeInv, TypeOK, Control, Busy, network, instanceState,
      counters
<1>2. CASE RestartRouter
  BY <1>2, ZoneAssumption DEF RestartRouter, TypeInv, TypeOK, Control, Busy, Processes,
      SessionStates, instanceState, counters
<1>3. CASE RestartInstance
  BY <1>3, ZoneAssumption, BurstType DEF RestartInstance, TypeInv, TypeOK, Control, Busy,
      Processes, Rows, routerState, counters
<1>. QED BY <1>1, <1>2, <1>3

LEMMA TypeStep == TypeInv /\ [Next]_vars => TypeInv'
<1>. SUFFICES ASSUME TypeInv, [Next]_vars PROVE TypeInv'
  OBVIOUS
<1>1. CASE UNCHANGED vars
  BY <1>1 DEF vars, network, routerState, instanceState, counters, TypeInv, TypeOK,
      Control, Busy
<1>2. CASE Next
  BY <1>2, RouterType, ForwardType, QueueType, AnswerType, SendType, ProcessType,
     RestartType DEF Next, HandleLogin, Answer
<1>. QED BY <1>1, <1>2

LEMMA TypeAlways == Spec => []TypeInv
BY InitType, TypeStep, PTL DEF Spec

\* Both processes and the messages between them stay well typed, through any
\* failures, stops and restarts.
THEOREM TypeCorrect == Spec => []TypeOK
<1>1. TypeInv => TypeOK
  BY DEF TypeInv
<1>. QED BY <1>1, TypeAlways, PTL

-----------------------------------------------------------------------------
(* Order.                                                                  *)

\* Packet p was sent before packet k of the answer to login n.
Older(p, n, k) == p.number < n \/ (p.number = n /\ p.index < k)

Rising(s) == \A i \in 1..Len(s) - 1 : Older(s[i], s[i + 1].number, s[i + 1].index)

\* Packet p was sent before whatever is going to be sent from now on: the rest
\* of the answer, the answers to the logins waiting, and to those to come.
Past(p, count, w, login, n, waiting) ==
    /\ p.number <= count
    /\ w \in Rows \cup {"send"} => Older(p, login.number, n + 1)
    /\ \A j \in 1..Len(waiting) : p.number < waiting[j].number

LoginsRise ==
    /\ \A j \in 1..Len(logins) :
        /\ logins[j].number <= forwarded
        /\ Busy => answering.number < logins[j].number
    /\ \A i \in 1..Len(logins), j \in 1..Len(logins) :
        i < j => logins[i].number < logins[j].number
    /\ Busy => answering.number <= forwarded

OrderInv ==
    /\ \A c \in Clients : Rising(ForClient(c))
    /\ \A c \in Clients : \A i \in 1..Len(ForClient(c)) :
        Past(ForClient(c)[i], forwarded, worker, answering, sent, logins)
    /\ LoginsRise

LEMMA ForClientType ==
    ASSUME TypeInv, NEW c \in Clients
    PROVE  /\ queued[c] \in Seq(Packet) /\ arriving[c] \in Seq(Packet)
           /\ ForClient(c) \in Seq(Packet) /\ Len(ForClient(c)) \in Nat
           /\ \A i \in 1..Len(ForClient(c)) : ForClient(c)[i] \in Packet
<1>1. queued[c] \in Seq(Packet) /\ arriving[c] \in Seq(Packet)
  BY DEF TypeInv, TypeOK
<1>2. queued[c] \o arriving[c] \in Seq(Packet)
  BY <1>1, ConcatProperties
<1>3. ForClient(c) \in Seq(Packet)
  BY <1>2 DEF ForClient
<1>. QED BY <1>1, <1>3

LEMMA PacketType ==
    ASSUME NEW p \in Packet
    PROVE  p.number \in Nat /\ p.index \in Nat
BY BurstType DEF Packet

LEMMA LoginType ==
    ASSUME TypeInv
    PROVE  /\ Len(logins) \in Nat /\ logins \in Seq(Login)
           /\ \A j \in 1..Len(logins) : logins[j].number \in Nat
           /\ Busy => answering.number \in Nat
           /\ forwarded \in Nat /\ sent \in Nat
<1>1. logins \in Seq(Login) /\ forwarded \in Nat /\ sent \in Nat
  BY ZoneAssumption, BurstType DEF TypeInv, TypeOK
<1>2. \A l \in Login : l.number \in Nat
  BY DEF Login
<1>. QED BY <1>1, <1>2 DEF TypeInv, Control

\* The packet at the front moves over, and nothing else changes.
LEMMA MoveKeeps ==
    ASSUME NEW S, NEW s \in Seq(S), NEW t \in Seq(S), t # <<>>
    PROVE  Append(s, Head(t)) \o Tail(t) = s \o t
<1>1. Head(t) \in S /\ Tail(t) \in Seq(S)
  BY HeadTailProperties
<1>2. <<Head(t)>> \in Seq(S) /\ Append(s, Head(t)) = s \o <<Head(t)>>
  BY <1>1, AppendIsConcat
<1>3. (s \o <<Head(t)>>) \o Tail(t) = s \o (<<Head(t)>> \o Tail(t))
  BY <1>1, <1>2, ConcatAssociative
<1>4. <<Head(t)>> \o Tail(t) = t
  BY <1>1
<1>. QED BY <1>2, <1>3, <1>4

LEMMA QueueKeeps ==
    ASSUME TypeInv, NEW d \in Clients, QueuePacket(d)
    PROVE  \A c \in Clients : ForClient(c)' = ForClient(c)
<1>1. queued[d] \in Seq(Packet) /\ arriving[d] \in Seq(Packet) /\ arriving[d] # <<>>
  BY DEF TypeInv, TypeOK, QueuePacket
<1>2. /\ queued'[d] = Append(queued[d], Head(arriving[d]))
      /\ arriving'[d] = Tail(arriving[d])
      /\ \A c \in Clients \ {d} : queued'[c] = queued[c] /\ arriving'[c] = arriving[c]
  BY DEF TypeInv, TypeOK, QueuePacket
<1>3. queued'[d] \o arriving'[d] = queued[d] \o arriving[d]
  BY <1>1, <1>2, MoveKeeps
<1>. QED BY <1>2, <1>3 DEF ForClient

\* A step that sends nothing, and after which what was past still is.
LEMMA OrderKept ==
    ASSUME TypeInv, OrderInv, \A c \in Clients : ForClient(c)' = ForClient(c),
           \A p \in Packet :
              Past(p, forwarded, worker, answering, sent, logins) =>
              Past(p, forwarded', worker', answering', sent', logins'),
           LoginsRise'
    PROVE  OrderInv'
<1>1. \A c \in Clients : Rising(ForClient(c))'
  BY DEF OrderInv, Rising
<1>2. \A c \in Clients : \A i \in 1..Len(ForClient(c)) :
        Past(ForClient(c)[i], forwarded', worker', answering', sent', logins')
  BY ForClientType DEF OrderInv
<1>. QED BY <1>1, <1>2 DEF OrderInv

\* A step of the router or of a process's surroundings.
LEMMA OrderUnmoved ==
    ASSUME TypeInv, OrderInv,
           UNCHANGED <<queued, arriving, worker, answering, sent, logins, forwarded>>
    PROVE  OrderInv'
<1>1. \A c \in Clients : ForClient(c)' = ForClient(c)
  BY DEF ForClient
<1>2. LoginsRise'
  BY DEF OrderInv, LoginsRise, Busy
<1>. QED BY <1>1, <1>2, OrderKept

LEMMA OrderForward ==
    ASSUME TypeInv, OrderInv, ForwardLogin
    PROVE  OrderInv'
<1>. DEFINE m == [number |-> forwarded + 1, client |-> handled,
                  named |-> session[handled] = "named"]
<1>1. /\ forwarded' = forwarded + 1 /\ m.number = forwarded + 1
      /\ UNCHANGED <<queued, arriving, worker, answering, sent>>
      /\ logins' = logins \/ logins' = Append(logins, m)
  BY DEF ForwardLogin, network, instanceState
<1>2. /\ logins \in Seq(Login) /\ Len(logins) \in Nat /\ forwarded \in Nat
      /\ \A j \in 1..Len(logins) : logins[j].number \in Nat
      /\ Busy => answering.number \in Nat
  BY LoginType
<1>3. m \in Login
  BY ZoneAssumption DEF ForwardLogin, TypeInv, TypeOK, Control, Login
<1>. HIDE DEF m
<1>4. /\ logins' = Append(logins, m) =>
            /\ Len(logins') = Len(logins) + 1
            /\ \A j \in 1..Len(logins) : logins'[j] = logins[j]
            /\ logins'[Len(logins) + 1] = m
  BY <1>2, <1>3, AppendProperties
<1>5. LoginsRise
  BY DEF OrderInv
<1>6. \A c \in Clients : ForClient(c)' = ForClient(c)
  BY <1>1 DEF ForClient
<1>7. ASSUME NEW p \in Packet, Past(p, forwarded, worker, answering, sent, logins)
      PROVE  Past(p, forwarded', worker', answering', sent', logins')
  <2>1. p.number \in Nat
    BY PacketType
  <2>2. p.number <= forwarded'
    BY <1>1, <1>2, <1>7, <2>1 DEF Past
  <2>3. \A j \in 1..Len(logins') : p.number < logins'[j].number
    BY <1>1, <1>2, <1>4, <1>7, <2>1 DEF Past
  <2>. QED BY <1>1, <1>7, <2>2, <2>3 DEF Past
<1>8. LoginsRise'
  <2>1. Busy' <=> Busy
    BY <1>1 DEF Busy
  <2>2. /\ \A j \in 1..Len(logins) :
            /\ logins[j].number <= forwarded
            /\ Busy => answering.number < logins[j].number
        /\ \A i \in 1..Len(logins), j \in 1..Len(logins) :
            i < j => logins[i].number < logins[j].number
        /\ Busy => answering.number <= forwarded
    BY <1>5 DEF LoginsRise
  <2>3. answering' = answering /\ forwarded' = forwarded + 1
    BY <1>1
  <2>4. Busy' => answering.number <= forwarded'
    <3>1. SUFFICES ASSUME Busy PROVE answering.number <= forwarded'
      BY <2>1
    <3>. QED BY <1>2, <2>2, <2>3, <3>1
  <2>5. ASSUME NEW j \in 1..Len(logins')
        PROVE  /\ logins'[j].number <= forwarded'
               /\ Busy' => answering.number < logins'[j].number
    <3>1. CASE j \in 1..Len(logins)
      <4>1. logins'[j] = logins[j]
        BY <1>1, <1>4, <3>1
      <4>2. logins[j].number <= forwarded'
        BY <1>2, <2>2, <2>3, <3>1
      <4>. QED BY <2>1, <2>2, <3>1, <4>1, <4>2
    <3>2. CASE j \notin 1..Len(logins)
      <4>1. logins'[j].number = forwarded'
        BY <1>1, <1>2, <1>4, <3>2
      <4>2. Busy' => answering.number < forwarded'
        <5>1. SUFFICES ASSUME Busy PROVE answering.number < forwarded'
          BY <2>1
        <5>. QED BY <1>2, <2>2, <2>3, <5>1
      <4>. QED BY <1>2, <2>3, <4>1, <4>2
    <3>. QED BY <3>1, <3>2
  <2>6. ASSUME NEW i \in 1..Len(logins'), NEW j \in 1..Len(logins'), i < j
        PROVE  logins'[i].number < logins'[j].number
    <3>1. i \in 1..Len(logins) /\ logins'[i] = logins[i]
      BY <1>1, <1>2, <1>4, <2>6
    <3>2. CASE j \in 1..Len(logins)
      BY <1>1, <1>4, <2>2, <2>6, <3>1, <3>2
    <3>3. CASE j \notin 1..Len(logins)
      <4>1. logins'[j].number = forwarded + 1
        BY <1>1, <1>2, <1>4, <3>3
      <4>2. logins[i].number <= forwarded
        BY <2>2, <3>1
      <4>. QED BY <1>2, <3>1, <4>1, <4>2
    <3>. QED BY <3>2, <3>3
  <2>. QED BY <2>3, <2>4, <2>5, <2>6 DEF LoginsRise
<1>. QED BY <1>6, <1>7, <1>8, OrderKept

LEMMA OrderProcess ==
    ASSUME TypeInv, OrderInv, ProcessPacket
    PROVE  OrderInv'
<1>1. /\ worker = "idle" /\ worker' = "character" /\ sent' = 0
      /\ answering' = logins[1] /\ logins' = Tail(logins) /\ logins # <<>>
      /\ UNCHANGED <<queued, arriving, forwarded>>
  BY DEF ProcessPacket, network, counters
<1>2. /\ logins \in Seq(Login) /\ Len(logins) \in Nat /\ forwarded \in Nat
      /\ \A j \in 1..Len(logins) : logins[j].number \in Nat
  BY LoginType
<1>3. /\ Len(logins') = Len(logins) - 1 /\ Len(logins) > 0
      /\ \A j \in 1..Len(logins') : logins'[j] = logins[j + 1]
  BY <1>1, <1>2, HeadTailProperties
<1>4. LoginsRise
  BY DEF OrderInv
<1>5. \A c \in Clients : ForClient(c)' = ForClient(c)
  BY <1>1 DEF ForClient
<1>6. ASSUME NEW p \in Packet, Past(p, forwarded, worker, answering, sent, logins)
      PROVE  Past(p, forwarded', worker', answering', sent', logins')
  <2>1. p.number \in Nat
    BY PacketType
  <2>2. p.number < answering'.number
    BY <1>1, <1>2, <1>3, <1>6 DEF Past
  <2>3. \A j \in 1..Len(logins') : p.number < logins'[j].number
    BY <1>2, <1>3, <1>6 DEF Past
  <2>. QED BY <1>1, <1>6, <2>2, <2>3 DEF Past, Older
<1>7. LoginsRise'
  <2>1. /\ \A j \in 1..Len(logins) : logins[j].number <= forwarded
        /\ \A i \in 1..Len(logins), j \in 1..Len(logins) :
            i < j => logins[i].number < logins[j].number
    BY <1>4 DEF LoginsRise
  <2>2. answering'.number <= forwarded'
    BY <1>1, <1>2, <1>3, <2>1
  <2>3. ASSUME NEW j \in 1..Len(logins')
        PROVE  /\ logins'[j].number <= forwarded'
               /\ answering'.number < logins'[j].number
    <3>1. j + 1 \in 1..Len(logins) /\ 1 \in 1..Len(logins) /\ 1 < j + 1
      BY <1>2, <1>3
    <3>. QED BY <1>1, <1>3, <2>1, <3>1
  <2>4. ASSUME NEW i \in 1..Len(logins'), NEW j \in 1..Len(logins'), i < j
        PROVE  logins'[i].number < logins'[j].number
    <3>1. i + 1 \in 1..Len(logins) /\ j + 1 \in 1..Len(logins) /\ i + 1 < j + 1
      BY <1>2, <1>3, <2>4
    <3>. QED BY <1>3, <2>1, <3>1
  <2>. QED BY <2>2, <2>3, <2>4 DEF LoginsRise
<1>. QED BY <1>5, <1>6, <1>7, OrderKept

\* Neither the queries nor the subscription change what is past.
LEMMA OrderLoad ==
    ASSUME TypeInv, OrderInv, StartProcessingPackets \/ LoadRow
    PROVE  OrderInv'
<1>1. /\ UNCHANGED <<queued, arriving, answering, sent, logins, forwarded>>
      /\ Busy' => Busy
  BY DEF StartProcessingPackets, LoadRow, Busy, Rows, After, network, counters
<1>2. \A c \in Clients : ForClient(c)' = ForClient(c)
  BY <1>1 DEF ForClient
<1>3. LoginsRise'
  BY <1>1 DEF OrderInv, LoginsRise
<1>4. \A p \in Packet :
        Past(p, forwarded, worker, answering, sent, logins) =>
        Past(p, forwarded', worker', answering', sent', logins')
  BY <1>1 DEF Past, Busy
<1>. QED BY <1>2, <1>3, <1>4, OrderKept

\* What SendPacket sends.
Sending == [number |-> answering.number, index |-> sent + 1,
            client |-> answering.client,
            rows |-> MadeOf(Burst[sent + 1], loaded)]

LEMMA SendingType ==
    ASSUME TypeInv, SendPacket
    PROVE  /\ answering.client \in Clients /\ Sending \in Packet
           /\ Sending.number = answering.number /\ Sending.index = sent + 1
           /\ Sending.client = answering.client
           /\ Sending.rows = MadeOf(Burst[sent + 1], loaded)
<1>1. answering \in Login /\ sent + 1 \in 1..Len(Burst)
  <2>1. worker = "send" /\ Busy
    BY DEF SendPacket, Busy
  <2>2. answering \in Login /\ sent < Len(Burst) /\ sent \in 0..Len(Burst)
    BY <2>1 DEF TypeInv, TypeOK, Control
  <2>. QED BY <2>2, BurstType
<1>2. MadeOf(Burst[sent + 1], loaded) \subseteq Rows
  BY RowsMade DEF TypeInv, TypeOK
<1>. QED BY <1>1, <1>2, BurstType DEF Login, Packet, Sending

\* What it does with it, and what it leaves alone.
LEMMA SendFacts ==
    ASSUME TypeInv, SendPacket, NEW d \in Clients, d = answering.client
    PROVE  /\ worker = "send" /\ sent' = sent + 1 /\ worker' \in {"send", "idle"}
           /\ UNCHANGED <<queued, answering, logins, forwarded>>
           /\ \A c \in Clients \ {d} : ForClient(c)' = ForClient(c)
           /\ IF /\ "instance" \in connected /\ "router" \in connected
                 /\ Subscribed(d)
              THEN ForClient(d)' = Append(ForClient(d), Sending)
              ELSE ForClient(d)' = ForClient(d)
<1>1. /\ worker = "send" /\ sent' = sent + 1 /\ worker' \in {"send", "idle"}
      /\ UNCHANGED <<queued, answering, logins, forwarded>>
  BY DEF SendPacket, counters
<1>2. IF "instance" \in connected /\ "router" \in connected /\ Subscribed(d)
      THEN arriving' = [arriving EXCEPT ![d] = Append(@, Sending)]
      ELSE arriving' = arriving
  BY DEF SendPacket, Published, Sending
<1>3. \A c \in Clients \ {d} : ForClient(c)' = ForClient(c)
  BY <1>1, <1>2 DEF ForClient, TypeInv, TypeOK
<1>4. arriving' = arriving => ForClient(d)' = ForClient(d)
  BY <1>1 DEF ForClient
<1>5. ASSUME arriving' = [arriving EXCEPT ![d] = Append(@, Sending)]
      PROVE  ForClient(d)' = Append(ForClient(d), Sending)
  <2>. DEFINE q == queued[d]
              a == arriving[d]
  <2>1. /\ q \in Seq(Packet) /\ a \in Seq(Packet)
        /\ arriving'[d] = Append(a, Sending) /\ queued'[d] = q
    BY <1>1, <1>5 DEF TypeInv, TypeOK
  <2>2. Sending \in Packet
    BY SendingType
  <2>. HIDE DEF q, a
  <2>3. Append(a, Sending) = a \o <<Sending>> /\ <<Sending>> \in Seq(Packet)
    BY <2>1, <2>2, AppendIsConcat
  <2>4. q \o a \in Seq(Packet)
    BY <2>1, ConcatProperties
  <2>5. q \o (a \o <<Sending>>) = (q \o a) \o <<Sending>>
    <3>. DEFINE one == <<Sending>>
    <3>1. one \in Seq(Packet)
      BY <2>3
    <3>. HIDE DEF one
    <3>2. (q \o a) \o one = q \o (a \o one)
      BY <2>1, <3>1, ConcatAssociative
    <3>. QED BY <3>2 DEF one
  <2>6. (q \o a) \o <<Sending>> = Append(q \o a, Sending)
    BY <2>2, <2>4, AppendIsConcat, Zenon
  <2>. QED BY <2>1, <2>3, <2>5, <2>6 DEF ForClient, q, a
<1>. QED BY <1>1, <1>2, <1>3, <1>4, <1>5

LEMMA OrderSend ==
    ASSUME TypeInv, OrderInv, SendPacket
    PROVE  OrderInv'
<1>. DEFINE p == Sending
<1>0. PICK d \in Clients : d = answering.client
  BY SendingType
<1>1. /\ worker = "send" /\ sent' = sent + 1 /\ worker' \in {"send", "idle"}
      /\ UNCHANGED <<queued, answering, logins, forwarded>>
      /\ \A c \in Clients \ {d} : ForClient(c)' = ForClient(c)
      /\ \/ ForClient(d)' = ForClient(d)
         \/ ForClient(d)' = Append(ForClient(d), p)
  BY <1>0, SendFacts
<1>2. p \in Packet /\ p.number = answering.number /\ p.index = sent + 1
  BY SendingType
<1>. HIDE DEF p
<1>3. Busy /\ (Busy' => Busy)
  BY <1>1 DEF Busy
<1>4. /\ answering.number \in Nat /\ sent \in Nat /\ forwarded \in Nat
      /\ \A j \in 1..Len(logins) : logins[j].number \in Nat
  BY <1>3, LoginType
<1>5. /\ answering.number <= forwarded
      /\ \A j \in 1..Len(logins) : answering.number < logins[j].number
  BY <1>3 DEF OrderInv, LoginsRise
<1>6. LoginsRise'
  BY <1>1, <1>3 DEF OrderInv, LoginsRise
<1>7. ASSUME NEW q \in Packet, Past(q, forwarded, worker, answering, sent, logins)
      PROVE  /\ Past(q, forwarded', worker', answering', sent', logins')
             /\ Older(q, answering.number, sent + 1)
  <2>1. q.number \in Nat /\ q.index \in Nat
    BY PacketType
  <2>2. Older(q, answering.number, sent + 1)
    BY <1>1, <1>7 DEF Past
  <2>3. Older(q, answering.number, sent' + 1)
    BY <1>1, <1>4, <2>1, <2>2 DEF Older
  <2>. QED BY <1>1, <1>7, <2>2, <2>3 DEF Past
<1>8. Past(p, forwarded', worker', answering', sent', logins')
  BY <1>1, <1>2, <1>4, <1>5 DEF Past, Older
<1>9. ASSUME NEW c \in Clients
      PROVE  /\ Rising(ForClient(c)')
             /\ \A i \in 1..Len(ForClient(c)') :
                    Past(ForClient(c)'[i], forwarded', worker', answering', sent', logins')
  <2>. DEFINE s == ForClient(c)
              t == ForClient(c)'
  <2>1. /\ s \in Seq(Packet) /\ Len(s) \in Nat
        /\ \A i \in 1..Len(s) : s[i] \in Packet
    BY ForClientType
  <2>2. /\ Rising(s)
        /\ \A i \in 1..Len(s) : Past(s[i], forwarded, worker, answering, sent, logins)
    BY DEF OrderInv
  <2>3. t = s \/ t = Append(s, p)
    BY <1>1
  <2>. HIDE DEF s, t
  <2>4. \A i \in 1..Len(s) :
            /\ Past(s[i], forwarded', worker', answering', sent', logins')
            /\ Older(s[i], answering.number, sent + 1)
    BY <1>7, <2>1, <2>2
  <2>5. CASE t = s
    BY <2>2, <2>4, <2>5 DEF t
  <2>6. CASE t = Append(s, p)
    <3>1. /\ Len(t) = Len(s) + 1 /\ t[Len(s) + 1] = p
          /\ \A i \in 1..Len(s) : t[i] = s[i]
      BY <1>2, <2>1, <2>6, AppendProperties
    <3>2. \A i \in 1..Len(t) : Past(t[i], forwarded', worker', answering', sent', logins')
      <4>1. \A i \in 1..Len(t) : i \in 1..Len(s) \/ i = Len(s) + 1
        BY <2>1, <3>1
      <4>. QED BY <1>8, <2>4, <3>1, <4>1
    <3>3. ASSUME NEW i \in 1..Len(t) - 1
          PROVE  Older(t[i], t[i + 1].number, t[i + 1].index)
      <4>1. i \in 1..Len(s) /\ t[i] = s[i]
        BY <2>1, <3>1
      <4>2. CASE i = Len(s)
        BY <1>2, <2>4, <3>1, <4>1, <4>2
      <4>3. CASE i # Len(s)
        <5>1. i \in 1..Len(s) - 1 /\ i + 1 \in 1..Len(s)
          BY <2>1, <4>1, <4>3
        <5>. QED BY <2>2, <3>1, <4>1, <5>1 DEF Rising
      <4>. QED BY <4>2, <4>3
    <3>. QED BY <3>2, <3>3 DEF t, Rising
  <2>. QED BY <2>3, <2>5, <2>6
<1>. QED BY <1>6, <1>9 DEF OrderInv

LEMMA OrderRestart ==
    ASSUME TypeInv, OrderInv, RestartRouter \/ RestartInstance
    PROVE  OrderInv'
<1>1. CASE RestartRouter
  <2>1. /\ \A c \in Clients : queued'[c] = <<>> /\ arriving'[c] = <<>>
        /\ UNCHANGED <<worker, answering, sent, logins, forwarded>>
    BY <1>1 DEF RestartRouter, instanceState, counters
  <2>2. \A c \in Clients : ForClient(c)' = <<>>
    <3>1. <<>> \o <<>> = <<>>
      BY ConcatEmptySeq, EmptySeq
    <3>. QED BY <2>1, <3>1 DEF ForClient
  <2>3. LoginsRise'
    BY <2>1 DEF OrderInv, LoginsRise, Busy
  <2>. QED BY <2>2, <2>3 DEF OrderInv, Rising
<1>2. CASE RestartInstance
  <2>1. /\ worker' = "start" /\ logins' = <<>>
        /\ UNCHANGED <<queued, arriving, forwarded>>
    BY <1>2 DEF RestartInstance, counters
  <2>2. \A c \in Clients : ForClient(c)' = ForClient(c)
    BY <2>1 DEF ForClient
  <2>3. LoginsRise'
    BY <2>1 DEF LoginsRise, Busy, Rows
  <2>4. \A p \in Packet :
          Past(p, forwarded, worker, answering, sent, logins) =>
          Past(p, forwarded', worker', answering', sent', logins')
    BY <2>1 DEF Past, Rows
  <2>. QED BY <2>2, <2>3, <2>4, OrderKept
<1>. QED BY <1>1, <1>2

LEMMA OrderStep == TypeInv /\ OrderInv /\ [Next]_vars => OrderInv'
<1>. SUFFICES ASSUME TypeInv, OrderInv, [Next]_vars PROVE OrderInv'
  OBVIOUS
<1>1. CASE UNCHANGED <<queued, arriving, worker, answering, sent, logins, forwarded>>
  BY <1>1, OrderUnmoved
<1>2. CASE UNCHANGED vars
  BY <1>1, <1>2 DEF vars, network, instanceState, counters
<1>3. CASE Select \/ ReadFails \/ (\E c \in Clients : ReadDatagram(c))
             \/ GetAccountSession \/ Subscribe \/ SetSession \/ StopDelivering
  BY <1>1, <1>3 DEF Select, ReadFails, ReadDatagram, GetAccountSession, Subscribe,
      SetSession, StopDelivering, network, instanceState, counters
<1>4. CASE ForwardLogin
  BY <1>4, OrderForward
<1>5. ASSUME NEW c \in Clients, QueuePacket(c) PROVE OrderInv'
  <2>1. \A d \in Clients : ForClient(d)' = ForClient(d)
    BY <1>5, QueueKeeps
  <2>2. UNCHANGED <<worker, answering, sent, logins, forwarded>>
    BY <1>5 DEF QueuePacket, instanceState, counters
  <2>3. LoginsRise'
    BY <2>2 DEF OrderInv, LoginsRise, Busy
  <2>. QED BY <2>1, <2>2, <2>3, OrderKept
<1>6. CASE StartProcessingPackets \/ LoadRow
  BY <1>6, OrderLoad
<1>7. CASE ProcessPacket
  BY <1>7, OrderProcess
<1>8. CASE SendPacket
  BY <1>8, OrderSend
<1>9. ASSUME NEW p \in Processes,
             Disconnected(p) \/ Reconnected(p) \/ Signal(p) \/ ShutDown(p) \/ Crash(p)
      PROVE  OrderInv'
  BY <1>1, <1>9 DEF Disconnected, Reconnected, Signal, ShutDown, Finished, Timeout,
      Crash, network, instanceState, counters
<1>10. CASE RestartRouter \/ RestartInstance
  BY <1>10, OrderRestart
<1>. QED BY <1>2, <1>3, <1>4, <1>5, <1>6, <1>7, <1>8, <1>9, <1>10
     DEF Next, HandleLogin, Answer

\* Whatever is lost, stopped, crashed or restarted, a client's packets are in
\* the order in which they were sent, and answers in the order of the logins.
THEOREM BurstsAreInOrder == Spec => []BurstsInOrder
<1>1. Init => OrderInv
  <2>. SUFFICES ASSUME Init PROVE OrderInv
    OBVIOUS
  <2>1. <<>> \o <<>> = <<>>
    BY ConcatEmptySeq, EmptySeq
  <2>2. \A c \in Clients : ForClient(c) = <<>>
    BY <2>1 DEF Init, ForClient
  <2>3. logins = <<>> /\ worker = "start"
    BY DEF Init
  <2>4. LoginsRise
    BY <2>3 DEF LoginsRise, Busy, Rows
  <2>. QED BY <2>2, <2>4 DEF OrderInv, Rising
<1>2. OrderInv => BurstsInOrder
  BY DEF OrderInv, Rising, Older, BurstsInOrder
<1>3. Spec => []OrderInv
  BY <1>1, InitType, TypeStep, OrderStep, PTL DEF Spec
<1>. QED BY <1>2, <1>3, PTL

-----------------------------------------------------------------------------
(* One answer to a client, and a whole one.                                *)

\* No connection and no process was interrupted; queries may have failed.
Undisturbed == failures = 0 \/ ~broken

Steady ==
    /\ \A p \in Processes : shutdown[p] = "signal"
    /\ connected = Processes

\* The login of client c is yet to be forwarded.
ToForward(c) == session[c] = "none" \/ (processor = "forward" /\ handled = c)

\* The packets of s are a beginning of one answer to c.
Whole(s, c) ==
    \A i \in 1..Len(s) :
        s[i].client = c /\ s[i].index = i /\ s[i].number = s[1].number

\* A client's only login is to be forwarded, waits, is being answered or has
\* been.
OneLogin ==
    /\ \A c \in Clients : ToForward(c) => ForClient(c) = <<>>
    /\ \A c \in Clients : ToForward(c) =>
        /\ \A j \in 1..Len(logins) : logins[j].client # c
        /\ Busy => answering.client # c
    /\ \A i \in 1..Len(logins), j \in 1..Len(logins) :
        i # j => logins[i].client # logins[j].client
    /\ \A c \in Clients : \A j \in 1..Len(logins) : logins[j].client = c =>
        ForClient(c) = <<>> /\ (Busy => answering.client # c)
    /\ \A c \in Clients : Busy /\ answering.client = c =>
        /\ Len(ForClient(c)) = sent
        /\ \A i \in 1..Len(ForClient(c)) : ForClient(c)[i].number = answering.number
    /\ \A c \in Clients : Whole(ForClient(c), c)

OneInv == Undisturbed => Steady /\ OneLogin

\* A step that forwards, takes or answers nothing.
LEMMA OneLoginKept ==
    ASSUME OneLogin, UNCHANGED <<logins, answering, sent>>,
           \A c \in Clients : ForClient(c)' = ForClient(c),
           Busy' => Busy, \A c \in Clients : ToForward(c)' => ToForward(c)
    PROVE  OneLogin'
<1>1. \A c \in Clients : ToForward(c)' => ForClient(c)' = <<>>
  BY DEF OneLogin
<1>2. \A c \in Clients : ToForward(c)' =>
        /\ \A j \in 1..Len(logins') : logins'[j].client # c
        /\ Busy' => answering'.client # c
  BY DEF OneLogin
<1>3. \A i \in 1..Len(logins'), j \in 1..Len(logins') :
        i # j => logins'[i].client # logins'[j].client
  BY DEF OneLogin
<1>4. \A c \in Clients : \A j \in 1..Len(logins') : logins'[j].client = c =>
        ForClient(c)' = <<>> /\ (Busy' => answering'.client # c)
  BY DEF OneLogin
<1>5. ASSUME NEW c \in Clients, Busy', answering'.client = c
      PROVE  /\ Len(ForClient(c)') = sent'
             /\ \A i \in 1..Len(ForClient(c)') :
                    ForClient(c)'[i].number = answering'.number
  BY <1>5 DEF OneLogin
<1>6. \A c \in Clients : Whole(ForClient(c)', c)
  BY DEF OneLogin
<1>. QED BY <1>1, <1>2, <1>3, <1>4, <1>5, <1>6 DEF OneLogin, Whole

\* The router's steps before a login is forwarded, and after.
LEMMA OneRouter ==
    ASSUME TypeInv, Steady, OneLogin,
           \/ Select \/ ReadFails \/ (\E c \in Clients : ReadDatagram(c))
           \/ GetAccountSession \/ Subscribe \/ SetSession
    PROVE  /\ Steady' /\ OneLogin'
           /\ \A c \in Clients : ForClient(c)' = ForClient(c)
           /\ \A c \in Clients : ToForward(c)' <=> ToForward(c)
<1>1. UNCHANGED <<connected, arriving, shutdown, queued, instanceState, logins>>
  BY DEF Select, ReadFails, ReadDatagram, GetAccountSession, Subscribe, SetSession,
      network
<1>2. \A c \in Clients : ForClient(c)' = ForClient(c)
  BY <1>1 DEF ForClient
<1>3. Busy' <=> Busy
  BY <1>1 DEF Busy, instanceState
<1>4. \A c \in Clients : ToForward(c)' <=> ToForward(c)
  <2>1. CASE SetSession
    <3>1. /\ handled \in Clients /\ session[handled] = "none"
          /\ processor # "forward" /\ processor' = "forward" /\ handled' = handled
      BY <2>1 DEF SetSession, TypeInv, Control
    <3>2. /\ session'[handled] # "none"
          /\ \A c \in Clients \ {handled} : session'[c] = session[c]
      BY <2>1, <3>1 DEF SetSession, TypeInv, TypeOK
    <3>. QED BY <3>1, <3>2 DEF ToForward
  <2>2. CASE ~SetSession
    <3>1. session' = session /\ processor # "forward" /\ processor' # "forward"
      BY <2>2 DEF Select, ReadFails, ReadDatagram, GetAccountSession, Subscribe
    <3>. QED BY <3>1 DEF ToForward
  <2>. QED BY <2>1, <2>2
<1>5. OneLogin'
  BY <1>1, <1>2, <1>3, <1>4, OneLoginKept DEF instanceState
<1>6. Steady'
  BY <1>1 DEF Steady
<1>. QED BY <1>2, <1>4, <1>5, <1>6

LEMMA OneForward ==
    ASSUME TypeInv, Steady, OneLogin, ForwardLogin
    PROVE  Steady' /\ OneLogin'
<1>1. PICK h \in Clients : h = handled
  BY DEF ForwardLogin, TypeInv, Control
<1>. DEFINE m == [number |-> forwarded + 1, client |-> h, named |-> session[h] = "named"]
<1>2. /\ logins' = logins \/ logins' = Append(logins, m)
      /\ processor' = "select" /\ processor = "forward"
      /\ UNCHANGED <<connected, arriving, shutdown, queued, instanceState, session>>
  BY <1>1 DEF ForwardLogin, network
<1>3. session[h] # "none"
  BY <1>1, <1>2 DEF TypeInv, Control
<1>4. m \in Login /\ m.client = h
  <2>1. forwarded + 1 \in 1..MaxLogins
    BY <1>2, ZoneAssumption DEF TypeInv, TypeOK, Control
  <2>. QED BY <2>1 DEF Login
<1>. HIDE DEF m
<1>5. ToForward(h)
  BY <1>1, <1>2 DEF ToForward
<1>6. /\ \A c \in Clients : ForClient(c)' = ForClient(c)
      /\ Busy' <=> Busy
      /\ \A c \in Clients : ToForward(c)' => ToForward(c) /\ c # h
  BY <1>2, <1>3 DEF ForClient, Busy, ToForward, instanceState
<1>7. CASE logins' = logins
  <2>1. OneLogin'
    BY <1>2, <1>6, <1>7, OneLoginKept DEF instanceState
  <2>2. Steady'
    BY <1>2 DEF Steady
  <2>. QED BY <2>1, <2>2
<1>8. CASE logins' = Append(logins, m)
  <2>1. logins \in Seq(Login) /\ Len(logins) \in Nat
    BY LoginType
  <2>2. /\ Len(logins') = Len(logins) + 1 /\ logins'[Len(logins) + 1] = m
        /\ \A j \in 1..Len(logins) : logins'[j] = logins[j]
    BY <1>4, <1>8, <2>1, AppendProperties
  <2>3. \A j \in 1..Len(logins') :
            \/ j \in 1..Len(logins) /\ logins'[j] = logins[j]
            \/ j = Len(logins) + 1 /\ logins'[j] = m
    BY <2>1, <2>2
  <2>5. Steady'
    BY <1>2 DEF Steady
  <2>6. /\ ForClient(h) = <<>> /\ (Busy => answering.client # h)
        /\ \A j \in 1..Len(logins) : logins[j].client # h
    BY <1>5 DEF OneLogin
  <2>7. answering' = answering /\ sent' = sent
    BY <1>2 DEF instanceState
  <2>8. ASSUME NEW c \in Clients, ToForward(c)'
        PROVE  /\ ForClient(c)' = <<>>
               /\ \A j \in 1..Len(logins') : logins'[j].client # c
               /\ Busy' => answering'.client # c
    <3>1. ToForward(c) /\ c # h
      BY <1>6, <2>8
    <3>2. /\ ForClient(c) = <<>>
          /\ \A j \in 1..Len(logins) : logins[j].client # c
          /\ Busy => answering.client # c
      BY <3>1 DEF OneLogin
    <3>. QED BY <1>4, <1>6, <2>3, <2>7, <3>1, <3>2
  <2>9. ASSUME NEW i \in 1..Len(logins'), NEW j \in 1..Len(logins'), i # j
        PROVE  logins'[i].client # logins'[j].client
    <3>1. \A k \in 1..Len(logins), l \in 1..Len(logins) :
            k # l => logins[k].client # logins[l].client
      BY DEF OneLogin
    <3>. QED BY <1>4, <2>3, <2>6, <2>9, <3>1
  <2>10. ASSUME NEW c \in Clients, NEW j \in 1..Len(logins'), logins'[j].client = c
         PROVE  ForClient(c)' = <<>> /\ (Busy' => answering'.client # c)
    <3>1. CASE j = Len(logins) + 1 /\ logins'[j] = m
      BY <1>4, <1>6, <2>6, <2>7, <2>10, <3>1
    <3>2. CASE j \in 1..Len(logins) /\ logins'[j] = logins[j]
      BY <1>6, <2>7, <2>10, <3>2 DEF OneLogin
    <3>. QED BY <2>3, <3>1, <3>2
  <2>11. ASSUME NEW c \in Clients, Busy', answering'.client = c
         PROVE  /\ Len(ForClient(c)') = sent'
                /\ \A i \in 1..Len(ForClient(c)') :
                        ForClient(c)'[i].number = answering'.number
    BY <1>6, <2>7, <2>11 DEF OneLogin
  <2>12. \A c \in Clients : Whole(ForClient(c)', c)
    BY <1>6 DEF OneLogin
  <2>13. OneLogin'
    BY <2>8, <2>9, <2>10, <2>11, <2>12 DEF OneLogin, Whole
  <2>. QED BY <2>5, <2>13
<1>. QED BY <1>2, <1>7, <1>8

LEMMA OneProcess ==
    ASSUME TypeInv, Steady, OneLogin, ProcessPacket
    PROVE  Steady' /\ OneLogin'
<1>1. /\ UNCHANGED <<connected, arriving, shutdown, queued, processor, handled, session>>
      /\ logins # <<>> /\ answering' = Head(logins) /\ logins' = Tail(logins)
      /\ worker' = "character" /\ loaded' = {} /\ sent' = 0
  BY DEF ProcessPacket, network, routerState
<1>2. logins \in Seq(Login) /\ Len(logins) \in Nat
  BY LoginType
<1>3. /\ answering' = logins[1] /\ 1 \in 1..Len(logins)
      /\ Len(logins') = Len(logins) - 1
      /\ \A j \in 1..Len(logins') : logins'[j] = logins[j + 1]
      /\ \A j \in 1..Len(logins') : j + 1 \in 1..Len(logins)
  BY <1>1, <1>2, HeadTailProperties, EmptySeq
<1>4. /\ \A c \in Clients : ForClient(c)' = ForClient(c)
      /\ \A c \in Clients : ToForward(c)' <=> ToForward(c)
  BY <1>1 DEF ForClient, ToForward
<1>6. Steady'
  BY <1>1 DEF Steady
<1>7. ASSUME NEW c \in Clients, ToForward(c)'
      PROVE  /\ ForClient(c)' = <<>>
             /\ \A j \in 1..Len(logins') : logins'[j].client # c
             /\ answering'.client # c
  <2>1. ForClient(c) = <<>> /\ \A j \in 1..Len(logins) : logins[j].client # c
    BY <1>4, <1>7 DEF OneLogin
  <2>. QED BY <1>3, <1>4, <2>1
<1>8. \A i \in 1..Len(logins), j \in 1..Len(logins) :
        i # j => logins[i].client # logins[j].client
  BY DEF OneLogin
<1>9. ASSUME NEW i \in 1..Len(logins'), NEW j \in 1..Len(logins'), i # j
      PROVE  logins'[i].client # logins'[j].client
  <2>1. i + 1 # j + 1
    BY <1>9
  <2>. QED BY <1>3, <1>8, <2>1
<1>10. ASSUME NEW c \in Clients, NEW j \in 1..Len(logins'), logins'[j].client = c
       PROVE  ForClient(c)' = <<>> /\ answering'.client # c
  <2>1. logins[j + 1].client = c /\ j + 1 # 1
    BY <1>3, <1>10
  <2>2. ForClient(c) = <<>>
    BY <1>3, <2>1 DEF OneLogin
  <2>. QED BY <1>3, <1>4, <1>8, <2>1, <2>2
<1>11. ASSUME NEW c \in Clients, answering'.client = c
       PROVE  /\ Len(ForClient(c)') = sent'
              /\ \A i \in 1..Len(ForClient(c)') :
                    ForClient(c)'[i].number = answering'.number
  <2>1. ForClient(c)' = <<>>
    BY <1>3, <1>4, <1>11 DEF OneLogin
  <2>. QED BY <1>1, <2>1
<1>12. \A c \in Clients : Whole(ForClient(c)', c)
  BY <1>4 DEF OneLogin
<1>13. OneLogin'
  BY <1>7, <1>9, <1>10, <1>11, <1>12 DEF OneLogin, Whole
<1>. QED BY <1>6, <1>13

LEMMA OneLoad ==
    ASSUME TypeInv, Steady, OneLogin, StartProcessingPackets \/ LoadRow
    PROVE  /\ Steady' /\ OneLogin'
           /\ UNCHANGED <<processor, handled, session, answering, sent, logins>>
           /\ \A c \in Clients : ForClient(c)' = ForClient(c)
           /\ \A c \in Clients : ToForward(c)' <=> ToForward(c)
           /\ Busy' <=> Busy
<1>1. /\ UNCHANGED <<connected, arriving, shutdown, queued, processor, handled, session,
                     answering, sent, logins>>
      /\ Busy' <=> Busy
  BY DEF StartProcessingPackets, LoadRow, Busy, Rows, After, network, routerState, counters
<1>2. /\ \A c \in Clients : ForClient(c)' = ForClient(c)
      /\ \A c \in Clients : ToForward(c)' <=> ToForward(c)
  BY <1>1 DEF ForClient, ToForward
<1>3. OneLogin'
  BY <1>1, <1>2, OneLoginKept
<1>4. Steady'
  BY <1>1 DEF Steady
<1>. QED BY <1>1, <1>2, <1>3, <1>4

\* While both processes are connected, a packet sent is the next of its answer.
LEMMA SendAppends ==
    ASSUME TypeInv, Steady, OneLogin, SendPacket, NEW d \in Clients, d = answering.client
    PROVE  /\ ~ToForward(d)
           /\ ForClient(d)' = Append(ForClient(d), Sending)
           /\ \A c \in Clients \ {d} : ForClient(c)' = ForClient(c)
           /\ Len(ForClient(d)) = sent /\ Len(ForClient(d)') = sent + 1
           /\ ForClient(d)'[sent + 1] = Sending
           /\ \A i \in 1..sent : ForClient(d)'[i] = ForClient(d)[i]
<1>1. worker = "send" /\ Busy
  BY DEF SendPacket, Busy
<1>2. ~ToForward(d) /\ Len(ForClient(d)) = sent
  BY <1>1 DEF OneLogin
<1>3. "instance" \in connected /\ "router" \in connected /\ Subscribed(d)
  BY <1>2 DEF Steady, Processes, Subscribed, ToForward, Alive
<1>4. /\ ForClient(d)' = Append(ForClient(d), Sending)
      /\ \A c \in Clients \ {d} : ForClient(c)' = ForClient(c)
  BY <1>3, SendFacts
<1>5. ForClient(d) \in Seq(Packet) /\ Sending \in Packet
  BY ForClientType, SendingType
<1>. QED BY <1>2, <1>4, <1>5, AppendProperties

LEMMA OneSend ==
    ASSUME TypeInv, Steady, OneLogin, SendPacket
    PROVE  Steady' /\ OneLogin'
<1>. DEFINE p == Sending
<1>0. PICK d \in Clients : d = answering.client
  BY SendingType
<1>1. /\ UNCHANGED <<connected, shutdown, processor, handled, session, answering, loaded,
                     logins>>
      /\ worker = "send" /\ sent' = sent + 1 /\ worker' \in {"send", "idle"}
  BY DEF SendPacket, routerState
<1>2. Busy /\ (Busy' => worker' = "send")
  BY <1>1 DEF Busy, Rows
<1>3. ~ToForward(d)
  BY <1>0, SendAppends
<1>5. \A c \in Clients \ {d} : ForClient(c)' = ForClient(c)
  BY <1>0, SendAppends
<1>6. /\ p \in Packet /\ p.client = d /\ p.number = answering.number
      /\ p.index = sent + 1
  BY <1>0, SendingType
<1>. HIDE DEF p
<1>7. \A c \in Clients : ToForward(c)' <=> ToForward(c)
  BY <1>1 DEF ToForward
<1>8. /\ ForClient(d) \in Seq(Packet) /\ Len(ForClient(d)) = sent /\ sent \in Nat
      /\ \A i \in 1..Len(ForClient(d)) : ForClient(d)[i].number = answering.number
      /\ Whole(ForClient(d), d)
      /\ \A j \in 1..Len(logins) : logins[j].client # d
  <2>1. ForClient(d) \in Seq(Packet) /\ sent \in Nat
    BY ForClientType DEF TypeInv, TypeOK
  <2>. QED BY <1>0, <1>2, <2>1 DEF OneLogin
<1>. DEFINE s == ForClient(d)
            t == ForClient(d)'
<1>. HIDE DEF s, t
<1>9. /\ Len(t) = sent + 1 /\ t[sent + 1] = p
      /\ \A i \in 1..sent : t[i] = s[i]
  BY <1>0, SendAppends DEF s, t, p
<1>10. \A i \in 1..Len(t) : (i \in 1..sent /\ t[i] = s[i]) \/ (i = sent + 1 /\ t[i] = p)
  BY <1>8, <1>9
<1>11. \A i \in 1..Len(t) : t[i].number = answering.number
  <2>1. \A i \in 1..sent : s[i].number = answering.number
    BY <1>8 DEF s
  <2>. QED BY <1>6, <1>10, <2>1
<1>12. Whole(t, d)
  <2>1. \A i \in 1..sent : s[i].client = d /\ s[i].index = i
    BY <1>8 DEF s, Whole
  <2>2. 1 \in 1..Len(t)
    BY <1>8, <1>9
  <2>3. \A i \in 1..Len(t) : t[i].number = t[1].number
    BY <1>11, <2>2
  <2>4. \A i \in 1..Len(t) : t[i].client = d /\ t[i].index = i
    BY <1>6, <1>10, <2>1
  <2>. QED BY <2>3, <2>4 DEF Whole
<1>13. Steady'
  BY <1>1 DEF Steady
<1>14. ASSUME NEW c \in Clients, ToForward(c)'
       PROVE  /\ ForClient(c)' = <<>>
              /\ \A j \in 1..Len(logins') : logins'[j].client # c
              /\ Busy' => answering'.client # c
  <2>1. ToForward(c) /\ c # d
    BY <1>3, <1>7, <1>14
  <2>. QED BY <1>1, <1>2, <1>5, <2>1 DEF OneLogin
<1>15. \A i \in 1..Len(logins'), j \in 1..Len(logins') :
        i # j => logins'[i].client # logins'[j].client
  BY <1>1 DEF OneLogin
<1>16. ASSUME NEW c \in Clients, NEW j \in 1..Len(logins'), logins'[j].client = c
       PROVE  ForClient(c)' = <<>> /\ (Busy' => answering'.client # c)
  <2>1. c # d
    BY <1>1, <1>8, <1>16
  <2>2. ForClient(c) = <<>>
    BY <1>1, <1>16 DEF OneLogin
  <2>. QED BY <1>0, <1>1, <1>5, <2>1, <2>2
<1>17. ASSUME NEW c \in Clients, Busy', answering'.client = c
       PROVE  /\ Len(ForClient(c)') = sent'
              /\ \A i \in 1..Len(ForClient(c)') :
                    ForClient(c)'[i].number = answering'.number
  <2>1. c = d
    BY <1>0, <1>1, <1>17
  <2>. QED BY <1>1, <1>9, <1>11, <2>1 DEF t
<1>18. ASSUME NEW c \in Clients PROVE Whole(ForClient(c)', c)
  <2>1. CASE c = d
    BY <1>12, <2>1 DEF t
  <2>2. CASE c # d
    <3>1. ForClient(c)' = ForClient(c)
      BY <1>5, <2>2
    <3>. QED BY <3>1 DEF OneLogin
  <2>. QED BY <2>1, <2>2
<1>19. OneLogin'
  BY <1>14, <1>15, <1>16, <1>17, <1>18 DEF OneLogin, Whole
<1>. QED BY <1>13, <1>19

LEMMA OneQueue ==
    ASSUME TypeInv, Steady, OneLogin, NEW c \in Clients, QueuePacket(c)
    PROVE  Steady' /\ OneLogin'
<1>1. UNCHANGED <<connected, shutdown, routerState, instanceState, logins>>
  BY DEF QueuePacket
<1>2. \A d \in Clients : ForClient(d)' = ForClient(d)
  BY QueueKeeps
<1>3. /\ Busy' <=> Busy
      /\ \A d \in Clients : ToForward(d)' => ToForward(d)
  BY <1>1 DEF Busy, ToForward, routerState, instanceState
<1>4. OneLogin'
  BY <1>1, <1>2, <1>3, OneLoginKept DEF instanceState
<1>5. Steady'
  BY <1>1 DEF Steady
<1>. QED BY <1>4, <1>5

\* What has gone wrong stays so.
LEMMA DisturbedStays ==
    ASSUME TypeInv, [Next]_vars
    PROVE  /\ failures \in Nat /\ failures' >= failures
           /\ broken => broken'
           /\ Undisturbed' => Undisturbed
<1>1. failures \in Nat
  BY ZoneAssumption DEF TypeInv, TypeOK
<1>4. failures' = failures \/ failures' = failures + 1
  <2>1. CASE UNCHANGED vars
    BY <2>1 DEF vars, counters
  <2>2. CASE Select \/ ReadFails \/ (\E c \in Clients : ReadDatagram(c)) \/ Subscribe
             \/ ForwardLogin \/ StopDelivering \/ (\E c \in Clients : QueuePacket(c))
    BY <2>2 DEF Select, ReadFails, ReadDatagram, Subscribe, ForwardLogin, StopDelivering,
        QueuePacket, counters
  <2>3. CASE GetAccountSession \/ SetSession
    BY <2>3 DEF GetAccountSession, SetSession, QuerySucceeds, QueryFails, Fail
  <2>4. CASE Answer
    BY <2>4 DEF Answer, StartProcessingPackets, ProcessPacket, LoadRow, SendPacket,
        QuerySucceeds, QueryFails, Fail, counters
  <2>5. CASE \E p \in Processes : Disconnected(p) \/ Reconnected(p) \/ Signal(p)
                                    \/ ShutDown(p) \/ Crash(p)
    BY <2>5 DEF Disconnected, Reconnected, Signal, ShutDown, Finished, Timeout, Crash,
        Fail, counters
  <2>6. CASE RestartRouter \/ RestartInstance
    BY <2>6 DEF RestartRouter, RestartInstance, counters
  <2>. QED BY <2>1, <2>2, <2>3, <2>4, <2>5, <2>6 DEF Next, HandleLogin
<1>5. broken => broken'
  <2>1. CASE UNCHANGED vars
    BY <2>1 DEF vars, counters
  <2>2. CASE Select \/ ReadFails \/ (\E c \in Clients : ReadDatagram(c)) \/ Subscribe
             \/ GetAccountSession \/ SetSession \/ StopDelivering
             \/ (\E c \in Clients : QueuePacket(c))
    BY <2>2 DEF Select, ReadFails, ReadDatagram, Subscribe, GetAccountSession, SetSession,
        StopDelivering, QueuePacket, counters
  <2>3. CASE ForwardLogin
    BY <2>3, Zenon DEF ForwardLogin
  <2>4. CASE Answer
    BY <2>4 DEF Answer, StartProcessingPackets, ProcessPacket, LoadRow, SendPacket, counters
  <2>5. CASE \E p \in Processes : Disconnected(p) \/ Reconnected(p) \/ Signal(p)
                                    \/ ShutDown(p) \/ Crash(p)
    BY <2>5 DEF Disconnected, Reconnected, Signal, ShutDown, Finished, Timeout, Crash,
        counters
  <2>6. CASE RestartRouter \/ RestartInstance
    BY <2>6 DEF RestartRouter, RestartInstance, counters
  <2>. QED BY <2>1, <2>2, <2>3, <2>4, <2>5, <2>6 DEF Next, HandleLogin
<1>6. failures' >= failures
  BY <1>1, <1>4
<1>7. failures' = 0 => failures = 0
  BY <1>1, <1>6
<1>. QED BY <1>1, <1>5, <1>6, <1>7 DEF Undisturbed

\* The world does nothing to processes that it leaves undisturbed.
LEMMA OneWorld ==
    ASSUME TypeInv, Steady, Undisturbed'
    PROVE  /\ ~StopDelivering /\ ~RestartRouter /\ ~RestartInstance
           /\ \A p \in Processes : /\ ~Disconnected(p) /\ ~Reconnected(p) /\ ~Signal(p)
                                   /\ ~ShutDown(p) /\ ~Crash(p)
<1>1. failures \in Nat
  BY ZoneAssumption DEF TypeInv, TypeOK
<1>2. Fail => failures' # 0
  BY <1>1 DEF Fail
<1>3. ~(Fail /\ broken' = TRUE)
  BY <1>2 DEF Undisturbed
<1>4. \A p \in Processes : shutdown[p] = "signal" /\ p \in connected
  BY DEF Steady
<1>5. \A p \in Processes : ~Disconnected(p) /\ ~Signal(p) /\ ~Crash(p)
  BY <1>3 DEF Disconnected, Signal, Crash
<1>. QED BY <1>4, <1>5 DEF StopDelivering, RestartRouter, RestartInstance, Reconnected,
      ShutDown, Finished, Timeout, Alive, Cancelled, Processes

\* The steps that are left.
LEMMA UndisturbedSteps ==
    ASSUME TypeInv, Steady, Undisturbed', [Next]_vars
    PROVE  \/ UNCHANGED vars
           \/ Select \/ ReadFails \/ (\E c \in Clients : ReadDatagram(c))
           \/ GetAccountSession \/ Subscribe \/ SetSession
           \/ ForwardLogin
           \/ \E c \in Clients : QueuePacket(c)
           \/ StartProcessingPackets \/ LoadRow
           \/ ProcessPacket
           \/ SendPacket
BY OneWorld DEF Next, HandleLogin, Answer

LEMMA OneStep == TypeInv /\ OneInv /\ [Next]_vars => OneInv'
<1>. SUFFICES ASSUME TypeInv, OneInv, [Next]_vars, Undisturbed'
              PROVE  Steady' /\ OneLogin'
  BY DEF OneInv
<1>1. Steady /\ OneLogin
  BY DisturbedStays DEF OneInv
<1>2. CASE UNCHANGED vars
  <2>1. UNCHANGED <<connected, shutdown, processor, handled, session, arriving, queued,
                    worker, logins, answering, sent>>
    BY <1>2 DEF vars, network, routerState, instanceState
  <2>2. /\ \A c \in Clients : ForClient(c)' = ForClient(c)
        /\ Busy' <=> Busy
        /\ \A c \in Clients : ToForward(c)' => ToForward(c)
    BY <2>1 DEF ForClient, Busy, ToForward
  <2>3. OneLogin'
    BY <1>1, <2>1, <2>2, OneLoginKept
  <2>4. Steady'
    BY <1>1, <2>1 DEF Steady
  <2>. QED BY <2>3, <2>4
<1>3. CASE Select \/ ReadFails \/ (\E c \in Clients : ReadDatagram(c))
             \/ GetAccountSession \/ Subscribe \/ SetSession
  BY <1>1, <1>3, OneRouter
<1>4. CASE ForwardLogin
  BY <1>1, <1>4, OneForward
<1>5. ASSUME NEW c \in Clients, QueuePacket(c) PROVE Steady' /\ OneLogin'
  BY <1>1, <1>5, OneQueue
<1>6. CASE StartProcessingPackets \/ LoadRow
  BY <1>1, <1>6, OneLoad
<1>7. CASE ProcessPacket
  BY <1>1, <1>7, OneProcess
<1>8. CASE SendPacket
  BY <1>1, <1>8, OneSend
<1>. QED BY <1>1, <1>2, <1>3, <1>4, <1>5, <1>6, <1>7, <1>8, UndisturbedSteps

LEMMA OneAlways == Spec => [](TypeInv /\ OneInv)
<1>1. Init => OneInv
  <2>. SUFFICES ASSUME Init PROVE Steady /\ OneLogin
    BY DEF OneInv
  <2>1. <<>> \o <<>> = <<>>
    BY ConcatEmptySeq, EmptySeq
  <2>2. \A c \in Clients : ForClient(c) = <<>>
    BY <2>1 DEF Init, ForClient
  <2>3. logins = <<>> /\ ~Busy
    BY DEF Init, Busy, Rows
  <2>4. Steady
    BY DEF Init, Steady
  <2>5. OneLogin
    BY <2>2, <2>3 DEF OneLogin, Whole
  <2>. QED BY <2>4, <2>5
<1>. QED BY <1>1, InitType, TypeStep, OneStep, PTL DEF Spec

-----------------------------------------------------------------------------
(* Its rows, while nothing fails.                                          *)

LoadedSoFar(w) ==
    CASE w = "character" -> {}
      [] w = "looks" -> {"character"}
      [] w = "stats" -> {"character", "looks"}
      [] OTHER -> Rows

\* Every row was found.
Calm ==
    /\ \A c \in Clients : session[c] # "nameless"
    /\ \A j \in 1..Len(logins) : logins[j].named
    /\ Busy => answering.named /\ loaded = LoadedSoFar(worker)
    /\ \A c \in Clients : \A i \in 1..Len(ForClient(c)) :
        ForClient(c)[i].rows = MadeOf(Burst[i], Rows)

CalmInv == failures = 0 => Calm

LEMMA CalmForward ==
    ASSUME TypeInv, Calm, ForwardLogin
    PROVE  \A j \in 1..Len(logins') : logins'[j].named
<1>1. PICK h \in Clients : h = handled
  BY DEF ForwardLogin, TypeInv, Control
<1>. DEFINE n == session[h] = "named"
            m == [number |-> forwarded + 1, client |-> h, named |-> n]
<1>2. session[h] = "named"
  <2>1. session[h] # "none" /\ session[h] # "nameless"
    BY <1>1 DEF ForwardLogin, TypeInv, Control, Calm
  <2>. QED BY <2>1 DEF TypeInv, TypeOK, SessionStates
<1>3. logins' = logins \/ logins' = Append(logins, m)
  BY <1>1 DEF ForwardLogin
<1>4. m.named = n /\ n
  BY <1>2
<1>5. m \in Login
  <2>1. forwarded + 1 \in 1..MaxLogins
    BY ZoneAssumption DEF ForwardLogin, TypeInv, TypeOK, Control
  <2>. QED BY <2>1 DEF Login
<1>. HIDE DEF m, n
<1>6. m.named
  BY <1>4, Zenon
<1>7. logins \in Seq(Login) /\ Len(logins) \in Nat
  BY LoginType
<1>8. CASE logins' = Append(logins, m)
  <2>1. \A j \in 1..Len(logins') : logins'[j] = m \/ (j \in 1..Len(logins) /\ logins'[j] = logins[j])
    BY <1>5, <1>7, <1>8, AppendProperties
  <2>2. \A j \in 1..Len(logins) : logins[j].named
    BY DEF Calm
  <2>. QED BY <1>6, <2>1, <2>2, Zenon
<1>9. CASE logins' = logins
  BY <1>9 DEF Calm
<1>. QED BY <1>3, <1>8, <1>9

LEMMA CalmSend ==
    ASSUME TypeInv, Steady, OneLogin, Calm, SendPacket
    PROVE  Calm'
<1>0. PICK d \in Clients : d = answering.client
  BY SendingType
<1>1. /\ UNCHANGED <<session, answering, loaded, logins>>
      /\ worker = "send" /\ (Busy' => worker' = "send")
  BY DEF SendPacket, routerState, Busy, Rows
<1>2. answering.named /\ loaded = Rows /\ Busy
  BY <1>1 DEF Calm, LoadedSoFar, Busy
<1>3. Sending.rows = MadeOf(Burst[sent + 1], Rows) /\ sent \in Nat
  BY <1>2, SendingType, LoginType
<1>4. ASSUME NEW c \in Clients, NEW i \in 1..Len(ForClient(c)')
      PROVE  ForClient(c)'[i].rows = MadeOf(Burst[i], Rows)
  <2>1. CASE c = d
    <3>1. /\ Len(ForClient(d)) = sent /\ Len(ForClient(d)') = sent + 1
          /\ ForClient(d)'[sent + 1] = Sending
          /\ \A k \in 1..sent : ForClient(d)'[k] = ForClient(d)[k]
      BY <1>0, SendAppends
    <3>2. i \in 1..sent \/ i = sent + 1
      BY <1>3, <1>4, <2>1, <3>1
    <3>3. \A k \in 1..sent : ForClient(d)[k].rows = MadeOf(Burst[k], Rows)
      BY <3>1 DEF Calm
    <3>. QED BY <1>3, <2>1, <3>1, <3>2, <3>3
  <2>2. CASE c # d
    <3>1. ForClient(c)' = ForClient(c)
      BY <1>0, <2>2, SendAppends
    <3>. QED BY <3>1 DEF Calm
  <2>. QED BY <2>1, <2>2
<1>5. Busy' => loaded' = LoadedSoFar(worker')
  BY <1>1, <1>2 DEF LoadedSoFar
<1>6. /\ \A c \in Clients : session'[c] # "nameless"
      /\ \A j \in 1..Len(logins') : logins'[j].named
  BY <1>1 DEF Calm
<1>7. answering'.named
  BY <1>1, <1>2
<1>. QED BY <1>4, <1>5, <1>6, <1>7 DEF Calm

LEMMA CalmStep ==
    TypeInv /\ OneInv /\ CalmInv /\ [Next]_vars => CalmInv'
<1>. SUFFICES ASSUME TypeInv, OneInv, CalmInv, [Next]_vars, failures' = 0
              PROVE  Calm'
  BY DEF CalmInv
<1>1. failures = 0 /\ Undisturbed' /\ Calm /\ Steady /\ OneLogin
  <2>1. failures = 0
    BY DisturbedStays
  <2>. QED BY <2>1 DEF Undisturbed, OneInv, CalmInv
<1>2. \A p \in Processes : ~QueryFails(p)
  BY <1>1 DEF QueryFails, Fail, Steady, Cancelled
<1>3. ASSUME UNCHANGED <<logins, answering, worker, loaded>>,
             \A c \in Clients : ForClient(c)' = ForClient(c),
             \A c \in Clients : session'[c] # "nameless"
      PROVE  Calm'
  BY <1>1, <1>3 DEF Calm, Busy
<1>4. \A c \in Clients : session[c] # "nameless"
  BY <1>1 DEF Calm
<1>5. CASE UNCHANGED vars
  <2>1. UNCHANGED <<logins, answering, worker, loaded, session, queued, arriving>>
    BY <1>5 DEF vars, network, routerState, instanceState
  <2>. QED BY <1>3, <1>4, <2>1 DEF ForClient
<1>6. CASE Select \/ ReadFails \/ (\E c \in Clients : ReadDatagram(c))
             \/ GetAccountSession \/ Subscribe \/ SetSession
  <2>1. \A c \in Clients : ForClient(c)' = ForClient(c)
    BY <1>1, <1>6, OneRouter
  <2>2. UNCHANGED <<logins, answering, worker, loaded>>
    BY <1>6 DEF Select, ReadFails, ReadDatagram, GetAccountSession, Subscribe, SetSession,
        instanceState
  <2>3. \A c \in Clients : session'[c] # "nameless"
    <3>1. CASE SetSession
      <4>1. session' = [session EXCEPT ![handled] = "named"]
        BY <1>2, <3>1 DEF SetSession, Processes
      <4>. QED BY <1>4, <4>1 DEF TypeInv, TypeOK
    <3>2. CASE ~SetSession
      BY <1>4, <1>6, <3>2 DEF Select, ReadFails, ReadDatagram, GetAccountSession, Subscribe
    <3>. QED BY <3>1, <3>2
  <2>. QED BY <1>3, <2>1, <2>2, <2>3
<1>7. CASE ForwardLogin
  <2>1. UNCHANGED <<answering, worker, loaded, session, queued, arriving>>
    BY <1>7 DEF ForwardLogin, network, instanceState
  <2>2. \A j \in 1..Len(logins') : logins'[j].named
    BY <1>1, <1>7, CalmForward
  <2>3. (\A c \in Clients : ForClient(c)' = ForClient(c)) /\ (Busy' <=> Busy)
    BY <2>1 DEF ForClient, Busy
  <2>. QED BY <1>1, <2>1, <2>2, <2>3 DEF Calm
<1>8. ASSUME NEW c \in Clients, QueuePacket(c) PROVE Calm'
  <2>1. UNCHANGED <<logins, answering, worker, loaded, session>>
    BY <1>8 DEF QueuePacket, routerState, instanceState
  <2>. QED BY <1>3, <1>4, <1>8, <2>1, QueueKeeps
<1>9. CASE StartProcessingPackets \/ LoadRow
  <2>1. /\ UNCHANGED <<session, answering, logins>>
        /\ \A c \in Clients : ForClient(c)' = ForClient(c)
        /\ Busy' <=> Busy
    BY <1>1, <1>9, OneLoad
  <2>2. ASSUME Busy PROVE loaded' = LoadedSoFar(worker')
    <3>1. LoadRow /\ worker \in Rows
      BY <1>9, <2>2 DEF StartProcessingPackets, LoadRow, Busy, Rows
    <3>2. answering.named /\ loaded = LoadedSoFar(worker)
      BY <1>1, <2>2 DEF Calm
    <3>3. loaded' = loaded \cup {worker} /\ worker' = After(worker)
      BY <1>2, <3>1, <3>2 DEF LoadRow, Processes
    <3>4. LoadedSoFar(After(worker)) = LoadedSoFar(worker) \cup {worker}
      BY <3>1 DEF LoadedSoFar, After, Rows
    <3>. QED BY <3>2, <3>3, <3>4
  <2>. QED BY <1>1, <2>1, <2>2 DEF Calm
<1>10. CASE ProcessPacket
  <2>1. /\ UNCHANGED <<session, queued, arriving>> /\ logins # <<>>
        /\ answering' = Head(logins) /\ logins' = Tail(logins)
        /\ worker' = "character" /\ loaded' = {}
    BY <1>10 DEF ProcessPacket, network, routerState
  <2>2. logins \in Seq(Login) /\ Len(logins) \in Nat
    BY LoginType
  <2>3. /\ answering' = logins[1] /\ 1 \in 1..Len(logins)
        /\ \A j \in 1..Len(logins') : logins'[j] = logins[j + 1] /\ j + 1 \in 1..Len(logins)
    BY <2>1, <2>2, HeadTailProperties, EmptySeq
  <2>4. answering'.named /\ \A j \in 1..Len(logins') : logins'[j].named
    BY <1>1, <2>3 DEF Calm
  <2>5. loaded' = LoadedSoFar(worker')
    BY <2>1 DEF LoadedSoFar
  <2>6. \A c \in Clients : ForClient(c)' = ForClient(c)
    BY <2>1 DEF ForClient
  <2>. QED BY <1>1, <2>1, <2>4, <2>5, <2>6 DEF Calm
<1>11. CASE SendPacket
  BY <1>1, <1>11, CalmSend
<1>. QED BY <1>1, <1>5, <1>6, <1>7, <1>8, <1>9, <1>10, <1>11, UndisturbedSteps

\* While nothing has failed, what is on its way to a client is the beginning of
\* one answer to it, made of its own rows, however often it repeats its login.
THEOREM OneAnswerEach == Spec => []OneAnswer
<1>1. Init => CalmInv
  <2>. SUFFICES ASSUME Init PROVE Calm
    BY DEF CalmInv
  <2>1. <<>> \o <<>> = <<>>
    BY ConcatEmptySeq, EmptySeq
  <2>2. \A c \in Clients : ForClient(c) = <<>>
    BY <2>1 DEF Init, ForClient
  <2>. QED BY <2>2 DEF Init, Calm, Busy, Rows
<1>2. TypeInv /\ OneInv /\ CalmInv => OneAnswer
  <2>. SUFFICES ASSUME TypeInv, OneInv, CalmInv, failures = 0, NEW c \in Clients,
                       NEW i \in DOMAIN ForClient(c)
                PROVE  /\ ForClient(c)[i].client = c /\ ForClient(c)[i].index = i
                       /\ ForClient(c)[i].rows = MadeOf(Burst[i], Rows)
                       /\ ForClient(c)[i].number = ForClient(c)[1].number
    BY DEF OneAnswer
  <2>1. i \in 1..Len(ForClient(c))
    BY ForClientType
  <2>2. Whole(ForClient(c), c)
    BY DEF OneInv, OneLogin, Undisturbed
  <2>3. ForClient(c)[i].rows = MadeOf(Burst[i], Rows)
    BY <2>1 DEF CalmInv, Calm
  <2>. QED BY <2>1, <2>2, <2>3 DEF Whole
<1>3. Spec => []CalmInv
  BY <1>1, CalmStep, OneAlways, PTL DEF Spec
<1>. QED BY <1>2, <1>3, OneAlways, PTL

-----------------------------------------------------------------------------
(* Where its login is, while nothing interrupts it.                        *)

Underway(c) ==
    \/ ToForward(c)
    \/ \E j \in 1..Len(logins) : logins[j].client = c
    \/ Busy /\ answering.client = c
    \/ Len(ForClient(c)) = Len(Burst)

UnderwayInv == ~broken => worker # "deaf" /\ \A c \in Clients : Underway(c)

LEMMA UnderwaySend ==
    ASSUME TypeInv, Steady, OneLogin, SendPacket, NEW c \in Clients, Underway(c)
    PROVE  Underway(c)'
<1>0. PICK d \in Clients : d = answering.client
  BY SendingType
<1>1. /\ UNCHANGED <<processor, handled, session, answering, logins>>
      /\ worker' = IF sent + 1 = Len(Burst) THEN "idle" ELSE "send"
  BY DEF SendPacket, routerState
<1>2. CASE c = d
  <2>1. Len(ForClient(c)') = sent + 1
    BY <1>0, <1>2, SendAppends
  <2>2. CASE sent + 1 = Len(Burst)
    BY <2>1, <2>2 DEF Underway
  <2>3. CASE sent + 1 # Len(Burst)
    BY <1>0, <1>1, <1>2, <2>3 DEF Underway, Busy
  <2>. QED BY <2>2, <2>3
<1>3. CASE c # d
  <2>1. ForClient(c)' = ForClient(c) /\ (ToForward(c)' <=> ToForward(c))
    BY <1>0, <1>1, <1>3, SendAppends DEF ToForward
  <2>. QED BY <1>0, <1>1, <1>3, <2>1 DEF Underway
<1>. QED BY <1>2, <1>3

LEMMA UnderwayForward ==
    ASSUME TypeInv, Steady, ForwardLogin, ~broken', NEW c \in Clients, Underway(c)
    PROVE  Underway(c)'
<1>1. PICK h \in Clients : h = handled
  BY DEF ForwardLogin, TypeInv, Control
<1>. DEFINE m == [number |-> forwarded + 1, client |-> h, named |-> session[h] = "named"]
<1>2. /\ logins' = Append(logins, m) /\ processor = "forward"
      /\ UNCHANGED <<session, worker, answering, queued, arriving>>
  BY <1>1 DEF ForwardLogin, network, instanceState
<1>3. m \in Login /\ m.client = h
  <2>1. forwarded + 1 \in 1..MaxLogins
    BY <1>2, ZoneAssumption DEF TypeInv, TypeOK, Control
  <2>. QED BY <2>1 DEF Login
<1>. HIDE DEF m
<1>4. logins \in Seq(Login) /\ Len(logins) \in Nat
  BY LoginType
<1>5. /\ Len(logins') = Len(logins) + 1 /\ logins'[Len(logins) + 1] = m
      /\ \A j \in 1..Len(logins) : logins'[j] = logins[j] /\ j \in 1..Len(logins')
      /\ Len(logins) + 1 \in 1..Len(logins')
  BY <1>2, <1>3, <1>4, AppendProperties
<1>6. CASE c = h
  BY <1>3, <1>5, <1>6 DEF Underway
<1>7. CASE c # h
  <2>1. ToForward(c) => ToForward(c)'
    BY <1>1, <1>2, <1>7 DEF ToForward
  <2>2. ForClient(c)' = ForClient(c) /\ (Busy' <=> Busy)
    BY <1>2 DEF ForClient, Busy
  <2>. QED BY <1>2, <1>5, <2>1, <2>2 DEF Underway
<1>. QED BY <1>6, <1>7

LEMMA UnderwayStep ==
    TypeInv /\ OneInv /\ UnderwayInv /\ [Next]_vars => UnderwayInv'
<1>. SUFFICES ASSUME TypeInv, OneInv, UnderwayInv, [Next]_vars, ~broken'
              PROVE  worker' # "deaf" /\ \A c \in Clients : Underway(c)'
  BY DEF UnderwayInv
<1>1. /\ Undisturbed' /\ Steady /\ OneLogin
      /\ worker # "deaf" /\ \A c \in Clients : Underway(c)
  <2>1. ~broken
    BY DisturbedStays
  <2>. QED BY <2>1 DEF Undisturbed, OneInv, UnderwayInv
<1>2. ASSUME UNCHANGED <<logins, answering>>, Busy' <=> Busy,
             \A c \in Clients : ForClient(c)' = ForClient(c),
             \A c \in Clients : ToForward(c)' <=> ToForward(c)
      PROVE  \A c \in Clients : Underway(c)'
  BY <1>1, <1>2 DEF Underway
<1>3. CASE UNCHANGED vars
  <2>1. UNCHANGED <<logins, answering, worker, processor, handled, session, queued, arriving>>
    BY <1>3 DEF vars, network, routerState, instanceState
  <2>. QED BY <1>1, <1>2, <2>1 DEF ForClient, ToForward, Busy
<1>4. CASE Select \/ ReadFails \/ (\E c \in Clients : ReadDatagram(c))
             \/ GetAccountSession \/ Subscribe \/ SetSession
  <2>1. /\ \A c \in Clients : ForClient(c)' = ForClient(c)
        /\ \A c \in Clients : ToForward(c)' <=> ToForward(c)
    BY <1>1, <1>4, OneRouter
  <2>2. UNCHANGED <<logins, answering, worker>>
    BY <1>4 DEF Select, ReadFails, ReadDatagram, GetAccountSession, Subscribe, SetSession,
        instanceState
  <2>. QED BY <1>1, <1>2, <2>1, <2>2 DEF Busy
<1>5. CASE ForwardLogin
  <2>1. worker' = worker
    BY <1>5 DEF ForwardLogin, instanceState
  <2>. QED BY <1>1, <1>5, <2>1, UnderwayForward
<1>6. ASSUME NEW d \in Clients, QueuePacket(d)
      PROVE  worker' # "deaf" /\ \A c \in Clients : Underway(c)'
  <2>1. UNCHANGED <<logins, answering, worker, processor, handled, session>>
    BY <1>6 DEF QueuePacket, routerState, instanceState
  <2>. QED BY <1>1, <1>2, <1>6, <2>1, QueueKeeps DEF ToForward, Busy
<1>7. CASE StartProcessingPackets \/ LoadRow
  <2>1. worker' # "deaf"
    BY <1>1, <1>7 DEF StartProcessingPackets, LoadRow, Steady, Processes, Rows, After
  <2>. QED BY <1>1, <1>2, <1>7, <2>1, OneLoad
<1>8. CASE ProcessPacket
  <2>1. /\ UNCHANGED <<processor, handled, session, queued, arriving>>
        /\ logins # <<>> /\ worker = "idle" /\ worker' = "character"
        /\ answering' = Head(logins) /\ logins' = Tail(logins)
    BY <1>8 DEF ProcessPacket, network, routerState
  <2>2. logins \in Seq(Login) /\ Len(logins) \in Nat
    BY LoginType
  <2>3. /\ answering' = logins[1] /\ Len(logins') = Len(logins) - 1
        /\ \A k \in 1..Len(logins') : logins'[k] = logins[k + 1]
    BY <2>1, <2>2, HeadTailProperties, EmptySeq
  <2>4. \A j \in 1..Len(logins) :
            \/ j = 1 \/ (j - 1 \in 1..Len(logins') /\ logins'[j - 1] = logins[j])
    BY <2>2, <2>3
  <2>5. /\ \A c \in Clients : ForClient(c)' = ForClient(c)
        /\ \A c \in Clients : ToForward(c)' <=> ToForward(c)
        /\ ~Busy /\ Busy'
    BY <2>1 DEF ForClient, ToForward, Busy, Rows
  <2>6. ASSUME NEW c \in Clients PROVE Underway(c)'
    <3>1. CASE \E j \in 1..Len(logins) : logins[j].client = c
      BY <2>3, <2>4, <2>5, <3>1 DEF Underway
    <3>2. CASE ~\E j \in 1..Len(logins) : logins[j].client = c
      BY <1>1, <2>5, <3>2 DEF Underway
    <3>. QED BY <3>1, <3>2
  <2>. QED BY <2>1, <2>6
<1>9. CASE SendPacket
  <2>1. worker' # "deaf"
    BY <1>9 DEF SendPacket
  <2>. QED BY <1>1, <1>9, <2>1, UnderwaySend
<1>. QED BY <1>1, <1>3, <1>4, <1>5, <1>6, <1>7, <1>8, <1>9, UndisturbedSteps

\* Until a connection or a process is interrupted, the login of every session
\* is being forwarded, waits for the instance, is being answered or has its
\* whole answer, in order, whatever queries failed.
THEOREM LoginsAreUnderway == Spec => []AnswerUnderway
<1>1. Init => UnderwayInv
  BY DEF Init, UnderwayInv, Underway, ToForward
<1>2. TypeInv /\ OneInv /\ UnderwayInv => AnswerUnderway
  <2>. SUFFICES ASSUME TypeInv, OneInv, UnderwayInv, ~broken,
                       NEW c \in Clients, session[c] # "none"
                PROVE
    /\ \A i \in DOMAIN ForClient(c) : ForClient(c)[i].index = i
    /\ \/ processor = "forward" /\ handled = c /\ ForClient(c) = <<>>
       \/ (\E j \in DOMAIN logins : logins[j].client = c) /\ ForClient(c) = <<>>
       \/ /\ worker \in Rows \cup {"send"} /\ answering.client = c
          /\ Len(ForClient(c)) = sent
       \/ Len(ForClient(c)) = Len(Burst)
    BY DEF AnswerUnderway
  <2>1. OneLogin /\ Underway(c)
    BY DEF OneInv, Undisturbed, UnderwayInv
  <2>2. \A i \in DOMAIN ForClient(c) : ForClient(c)[i].index = i
    <3>1. DOMAIN ForClient(c) = 1..Len(ForClient(c))
      BY ForClientType
    <3>. QED BY <2>1, <3>1 DEF OneLogin, Whole
  <2>3. DOMAIN logins = 1..Len(logins)
    BY LoginType
  <2>4. CASE ToForward(c)
    BY <2>1, <2>2, <2>4 DEF OneLogin, ToForward
  <2>5. CASE \E j \in 1..Len(logins) : logins[j].client = c
    BY <2>1, <2>2, <2>3, <2>5 DEF OneLogin
  <2>6. CASE Busy /\ answering.client = c
    BY <2>1, <2>2, <2>6 DEF OneLogin, Busy
  <2>. QED BY <2>1, <2>2, <2>4, <2>5, <2>6 DEF Underway
<1>3. Spec => []UnderwayInv
  BY <1>1, UnderwayStep, OneAlways, PTL DEF Spec
<1>. QED BY <1>2, <1>3, OneAlways, PTL
=============================================================================
