--------------------------- MODULE TcpServerProofs ---------------------------
(***************************************************************************)
(* Theorems about TcpServer, for any set of connections and any capacity.  *)
(***************************************************************************)
EXTENDS TcpServer, SequenceTheorems, FiniteSetTheorems, TLAPS

NoRepeats(q) == \A i, j \in DOMAIN q : q[i] = q[j] => i = j

One(goroutine) == IF goroutine = "exited" THEN 0 ELSE 1

\* The wait group counts the goroutines that have not returned.  A handler
\* that was given nil is counted too, but with it the process has ended.
Counted ==
    ~panicked => wg = One(acceptor) + One(processor) + Cardinality(Served)

InHandInv ==
    /\ acceptor = "enqueue" => inHand \in Conns
    /\ acceptor # "enqueue" => inHand = NoConn

TcpInv ==
    /\ TypeOK
    /\ InHandInv
    /\ ConnectionsAccounted
    /\ open \subseteq Elements(accepted)
    /\ Counted
    /\ FinishedMeansStopped

LEMMA EnqueueFact ==
    ASSUME NEW q \in Seq(Conns), NEW e \in Conns \ Elements(q), NoRepeats(q)
    PROVE  /\ Append(q, e) \in Seq(Conns)
           /\ Len(Append(q, e)) = Len(q) + 1
           /\ Elements(Append(q, e)) = Elements(q) \cup {e}
           /\ NoRepeats(Append(q, e))
<1> DEFINE r == Append(q, e)
<1>1. /\ r \in Seq(Conns) /\ Len(r) = Len(q) + 1 /\ Len(q) \in Nat
      /\ \A i \in 1 .. Len(q) : r[i] = q[i]
      /\ r[Len(q) + 1] = e
  BY AppendProperties
<1>2. DOMAIN q = 1 .. Len(q) /\ DOMAIN r = 1 .. Len(q) + 1
  BY <1>1
<1> HIDE DEF r
<1>3. \A i \in 1 .. Len(q) + 1 : i \in 1 .. Len(q) \/ i = Len(q) + 1
  BY <1>1
<1>4. \A i \in 1 .. Len(q) : i \in 1 .. Len(q) + 1 /\ i # Len(q) + 1
  BY <1>1
<1>5. Len(q) + 1 \in 1 .. Len(q) + 1
  BY <1>1
<1>6. \A i \in 1 .. Len(q) : q[i] # e
  BY <1>2 DEF Elements
<1>7. Elements(r) = Elements(q) \cup {e}
  BY <1>1, <1>2, <1>3, <1>4, <1>5 DEF Elements
<1>8. NoRepeats(r)
  <2> SUFFICES ASSUME NEW i \in DOMAIN r, NEW j \in DOMAIN r, r[i] = r[j]
               PROVE  i = j
    BY DEF NoRepeats
  <2>1. CASE i \in 1 .. Len(q) /\ j \in 1 .. Len(q)
    BY <1>1, <1>2, <2>1 DEF NoRepeats
  <2>2. CASE i = Len(q) + 1 /\ j = Len(q) + 1
    BY <2>2
  <2>3. CASE i \in 1 .. Len(q) /\ j = Len(q) + 1
    BY <1>1, <1>6, <2>3
  <2>4. CASE i = Len(q) + 1 /\ j \in 1 .. Len(q)
    BY <1>1, <1>6, <2>4
  <2>. QED BY <1>2, <1>3, <2>1, <2>2, <2>3, <2>4
<1>. QED BY <1>1, <1>7, <1>8 DEF r

LEMMA DequeueFact ==
    ASSUME NEW q \in Seq(Conns), q # <<>>, NoRepeats(q)
    PROVE  /\ Head(q) \in Conns /\ Head(q) \in Elements(q)
           /\ Tail(q) \in Seq(Conns) /\ Len(Tail(q)) = Len(q) - 1
           /\ Elements(Tail(q)) = Elements(q) \ {Head(q)}
           /\ NoRepeats(Tail(q))
<1> DEFINE r == Tail(q)
<1>1. /\ Head(q) = q[1] /\ r \in Seq(Conns) /\ Len(r) = Len(q) - 1
      /\ Len(q) \in Nat /\ Len(q) > 0
      /\ \A i \in 1 .. Len(r) : r[i] = q[i + 1]
  BY HeadTailProperties
<1>2. DOMAIN q = 1 .. Len(q) /\ DOMAIN r = 1 .. Len(q) - 1
  BY <1>1
<1> HIDE DEF r
<1>3. \A i \in 1 .. Len(q) - 1 : i + 1 \in 1 .. Len(q) /\ i + 1 # 1
  BY <1>1
<1>4. \A i \in 1 .. Len(q) : i = 1 \/ (i - 1 \in 1 .. Len(q) - 1 /\ (i - 1) + 1 = i)
  BY <1>1
<1>5. 1 \in 1 .. Len(q)
  BY <1>1
<1>6. \A i \in 1 .. Len(q) - 1 : r[i] = q[i + 1]
  BY <1>1
<1>7. ASSUME NEW c PROVE c \in Elements(r) <=> c \in Elements(q) \ {q[1]}
  <2>1. ASSUME c \in Elements(r) PROVE c \in Elements(q) \ {q[1]}
    <3>1. PICK i \in 1 .. Len(q) - 1 : c = q[i + 1]
      BY <1>2, <1>6, <2>1 DEF Elements
    <3>2. i + 1 \in DOMAIN q /\ i + 1 # 1 /\ 1 \in DOMAIN q
      BY <1>2, <1>3, <1>5
    <3>3. c # q[1]
      BY <3>1, <3>2 DEF NoRepeats
    <3>. QED BY <3>1, <3>2, <3>3 DEF Elements
  <2>2. ASSUME c \in Elements(q), c # q[1] PROVE c \in Elements(r)
    <3>1. PICK i \in 1 .. Len(q) : c = q[i]
      BY <1>2, <2>2 DEF Elements
    <3>2. i - 1 \in 1 .. Len(q) - 1 /\ (i - 1) + 1 = i
      BY <1>4, <2>2, <3>1
    <3>3. r[i - 1] = c
      BY <1>6, <3>1, <3>2
    <3>. QED BY <1>2, <3>2, <3>3 DEF Elements
  <2>. QED BY <2>1, <2>2
<1>8. NoRepeats(r)
  <2> SUFFICES ASSUME NEW i \in 1 .. Len(q) - 1, NEW j \in 1 .. Len(q) - 1,
                      q[i + 1] = q[j + 1]
               PROVE  i = j
    BY <1>2, <1>6 DEF NoRepeats
  <2>1. i + 1 = j + 1
    BY <1>2, <1>3 DEF NoRepeats
  <2>. QED BY <2>1
<1>9. Elements(r) = Elements(q) \ {Head(q)}
  BY <1>1, <1>7
<1>10. Head(q) \in Elements(q) /\ q[1] \in Conns
  BY <1>1, <1>2, <1>5, ElementOfSeq DEF Elements
<1>. QED BY <1>1, <1>8, <1>9, <1>10 DEF r

\* A handler goroutine more, or less.
LEMMA ServedFacts ==
    ASSUME NEW c \in Conns
    PROVE  /\ IsFiniteSet(Served) /\ Cardinality(Served) \in Nat
           /\ c \notin Served
                => Cardinality(Served \cup {c}) = Cardinality(Served) + 1
           /\ c \in Served
                => /\ Cardinality(Served \ {c}) = Cardinality(Served) - 1
                   /\ Cardinality(Served) > 0
<1>1. Served \subseteq Conns
  BY DEF Served
<1>2. IsFiniteSet(Served) /\ Cardinality(Served) \in Nat
  BY <1>1, TcpAssumption, FS_Subset, FS_CardinalityType
<1>3. c \in Served => Cardinality(Served \ {c}) \in Nat
  BY <1>2, FS_RemoveElement, FS_CardinalityType
<1>. QED BY <1>2, <1>3, FS_AddElement, FS_RemoveElement, FS_CardinalityType

LEMMA InitTcp == Init => TcpInv
<1> SUFFICES ASSUME Init PROVE TcpInv
  OBVIOUS
<1>1. Served = {} /\ Elements(connections) = {} /\ DOMAIN connections = {}
  BY DEF Init, Served, Elements
<1>2. Cardinality(Served) = 0
  BY <1>1, FS_EmptySet
<1>3. TypeOK
  <2>1. connections = <<>> /\ Len(connections) = 0 /\ connections \in Seq(Conns)
    BY DEF Init
  <2>2. handler \in [Conns -> {"none", "check", "read"}]
    BY DEF Init
  <2>3. <<>> \in Seq(Conns) /\ Len(connections) <= MaxServerConnections
    BY <2>1, TcpAssumption
  <2>4. /\ accepted \in Seq(Conns) /\ dispatched \in Seq(Conns) /\ open \subseteq Conns
        /\ acceptor \in {"accept", "enqueue", "exited"}
        /\ inHand \in Conns \cup {NoConn}
    BY <2>3 DEF Init
  <2>5. /\ processor \in {"select", "drain", "exited"} /\ wg \in Nat
        /\ listening \in BOOLEAN /\ ctxDone \in BOOLEAN
        /\ channelClosed \in BOOLEAN /\ panicked \in BOOLEAN
        /\ shutdown \in {"signal", "closeSocket", "closeChannel", "wait",
                         "finished", "timedOut"}
    BY DEF Init
  <2>. QED BY <2>1, <2>2, <2>3, <2>4, <2>5 DEF TypeOK
<1>4. InHandInv /\ FinishedMeansStopped
  BY DEF Init, InHandInv, FinishedMeansStopped
<1>5. ConnectionsAccounted /\ open \subseteq Elements(accepted)
  BY <1>1 DEF Init, ConnectionsAccounted
<1>6. Counted
  BY <1>2 DEF Init, Counted, One
<1>. QED BY <1>3, <1>4, <1>5, <1>6 DEF TcpInv


\* What the steps below take from the invariant.
LEMMA InvFacts ==
    ASSUME TcpInv
    PROVE  /\ TypeOK /\ InHandInv /\ ConnectionsAccounted
           /\ FinishedMeansStopped /\ Counted
           /\ connections \in Seq(Conns) /\ NoRepeats(connections)
           /\ One(acceptor) \in {0, 1} /\ One(processor) \in {0, 1}
           /\ wg \in Nat /\ Cardinality(Served) \in Nat
           /\ open \subseteq Elements(accepted)
<1>1. Served \subseteq Conns
  BY DEF Served
<1>2. Cardinality(Served) \in Nat
  BY <1>1, TcpAssumption, FS_Subset, FS_CardinalityType
<1>. QED
  BY <1>2 DEF TcpInv, TypeOK, ConnectionsAccounted, NoRepeats, One

LEMMA HandlerUpdate ==
    ASSUME TypeOK, NEW c \in Conns, NEW v \in {"none", "check", "read"},
           handler' = [handler EXCEPT ![c] = v]
    PROVE  /\ handler' \in [Conns -> {"none", "check", "read"}]
           /\ Served' = IF v = "none" THEN Served \ {c} ELSE Served \cup {c}
BY DEF TypeOK, Served

\* A step of main, which touches none of the other goroutines' state.
LEMMA ShutdownKeepsInv ==
    ASSUME TcpInv, Alive, ReceiveSignal \/ ShutdownStep
    PROVE  TcpInv'
<1>1. UNCHANGED running
  BY DEF ReceiveSignal, ShutdownStep, CloseSocket, CloseChannel, AllFinished,
         ShutdownTimesOut
<1>2. Served' = Served
  BY <1>1 DEF running, Served
<1>3. /\ listening' \in BOOLEAN /\ ctxDone' \in BOOLEAN
      /\ channelClosed' \in BOOLEAN
      /\ shutdown' \in {"signal", "closeSocket", "closeChannel", "wait",
                        "finished", "timedOut"}
  BY DEF TcpInv, TypeOK, ReceiveSignal, ShutdownStep, CloseSocket,
         CloseChannel, AllFinished, ShutdownTimesOut
<1>4. TypeOK' /\ InHandInv'
  BY <1>1, <1>3 DEF running, TcpInv, TypeOK, InHandInv
<1>5. ConnectionsAccounted' /\ open' \subseteq Elements(accepted')
  BY <1>1, <1>2 DEF running, TcpInv, ConnectionsAccounted
<1>6. Counted'
  BY <1>1, <1>2 DEF running, TcpInv, Counted
<1>7. FinishedMeansStopped'
  <2>1. CASE AllFinished
    <3>1. wg = 0 /\ ~panicked
      BY <2>1 DEF AllFinished, Alive
    <3>2. One(acceptor) = 0 /\ One(processor) = 0 /\ Cardinality(Served) = 0
      BY <3>1, InvFacts DEF Counted
    <3>3. IsFiniteSet(Served)
      <4>1. Served \subseteq Conns
        BY DEF Served
      <4>. QED BY <4>1, TcpAssumption, FS_Subset
    <3>4. Served = {}
      BY <3>2, <3>3, FS_EmptySet
    <3>. QED
      BY <1>1, <1>2, <3>2, <3>4 DEF running, One, FinishedMeansStopped
  <2>2. CASE ~AllFinished
    <3>1. shutdown' # "finished"
      BY <2>2 DEF ReceiveSignal, ShutdownStep, CloseSocket, CloseChannel,
                  ShutdownTimesOut
    <3>. QED BY <3>1 DEF FinishedMeansStopped
  <2>. QED BY <2>1, <2>2
<1>. QED BY <1>4, <1>5, <1>6, <1>7 DEF TcpInv

\* A step of a handler: it keeps its connection or closes it and returns.
LEMMA HandlerKeepsInv ==
    ASSUME TcpInv, Alive, NEW c \in Conns,
           CheckContext(c) \/ HandleRequest(c) \/ StopServing(c)
    PROVE  TcpInv'
<1>1. /\ c \in Served
      /\ UNCHANGED <<accepted, dispatched, acceptor, inHand, connections,
                     processor, stopping, panicked>>
  BY DEF CheckContext, HandleRequest, StopServing, Served
<1>2. c \notin Elements(connections) /\ c # inHand
  BY <1>1, InvFacts DEF ConnectionsAccounted
<1>3. UNCHANGED <<shutdown, listening, ctxDone, channelClosed>>
  BY <1>1 DEF stopping
<1>4. shutdown # "finished" /\ ~panicked
  BY DEF Alive
<1>5. CASE CloseHandled(c)
  <2>1. /\ handler' \in [Conns -> {"none", "check", "read"}]
        /\ Served' = Served \ {c} /\ open' = open \ {c} /\ wg' = wg - 1
    BY <1>5, InvFacts, HandlerUpdate DEF CloseHandled
  <2>2. /\ Cardinality(Served \ {c}) = Cardinality(Served) - 1
        /\ Cardinality(Served) \in Nat /\ Cardinality(Served) > 0
    BY <1>1, ServedFacts
  <2>3. wg = One(acceptor) + One(processor) + Cardinality(Served)
    BY <1>4, InvFacts DEF Counted
  <2>4. /\ wg' \in Nat
        /\ wg' = One(acceptor) + One(processor) + Cardinality(Served \ {c})
    BY <2>1, <2>2, <2>3, InvFacts
  <2>5. TypeOK' /\ InHandInv'
    BY <1>1, <1>3, <2>1, <2>4 DEF TcpInv, TypeOK, InHandInv
  <2>6. ConnectionsAccounted' /\ open' \subseteq Elements(accepted')
    BY <1>1, <1>2, <2>1 DEF TcpInv, ConnectionsAccounted
  <2>7. Counted' /\ FinishedMeansStopped'
    BY <1>1, <1>3, <1>4, <2>1, <2>4 DEF Counted, One, FinishedMeansStopped
  <2>. QED BY <2>5, <2>6, <2>7 DEF TcpInv
<1>6. CASE ~CloseHandled(c)
  <2>1. PICK v \in {"check", "read"} : handler' = [handler EXCEPT ![c] = v]
    BY <1>6 DEF CheckContext, HandleRequest, StopServing
  <2>2. open' = open /\ wg' = wg
    BY <1>6 DEF CheckContext, HandleRequest, StopServing
  <2>3. handler' \in [Conns -> {"none", "check", "read"}] /\ Served' = Served
    <3>1. v \in {"none", "check", "read"} /\ v # "none" /\ TypeOK
      BY InvFacts
    <3>2. /\ handler' \in [Conns -> {"none", "check", "read"}]
          /\ Served' = Served \cup {c}
      BY <2>1, <3>1, HandlerUpdate
    <3>. QED BY <1>1, <3>2
  <2>4. TypeOK' /\ InHandInv'
    BY <1>1, <1>3, <2>2, <2>3 DEF TcpInv, TypeOK, InHandInv
  <2>5. ConnectionsAccounted' /\ open' \subseteq Elements(accepted')
    BY <1>1, <2>2, <2>3 DEF TcpInv, ConnectionsAccounted
  <2>6. Counted' /\ FinishedMeansStopped'
    BY <1>1, <1>3, <2>2, <2>3 DEF TcpInv, Counted, One, FinishedMeansStopped
  <2>. QED BY <2>4, <2>5, <2>6 DEF TcpInv
<1>. QED BY <1>5, <1>6

\* The acceptor takes a connection.
LEMMA AcceptKeepsInv ==
    ASSUME TcpInv, Alive, NEW c \in Conns, Accept(c)
    PROVE  TcpInv'
<1>1. /\ acceptor = "accept" /\ inHand = NoConn
      /\ c \notin open /\ c \notin Elements(connections) /\ c \notin Served
      /\ acceptor' = "enqueue" /\ inHand' = c /\ open' = open \cup {c}
      /\ accepted' = Append(accepted, c)
  BY DEF Accept, TcpInv, InHandInv, ConnectionsAccounted
<1>2. /\ Served' = Served
      /\ UNCHANGED <<dispatched, connections, processor, handler, wg, listening,
                     ctxDone, channelClosed, shutdown, panicked>>
  BY DEF Accept, Served, serving, stopping
<1>3. /\ accepted' \in Seq(Conns)
      /\ Elements(accepted') = Elements(accepted) \cup {c}
  <2>1. accepted \in Seq(Conns) /\ Len(accepted) \in Nat
        /\ DOMAIN accepted = 1 .. Len(accepted)
    BY DEF TcpInv, TypeOK
  <2>2. /\ Append(accepted, c) \in Seq(Conns)
        /\ DOMAIN Append(accepted, c) = 1 .. Len(accepted) + 1
        /\ \A i \in 1 .. Len(accepted) : Append(accepted, c)[i] = accepted[i]
        /\ Append(accepted, c)[Len(accepted) + 1] = c
    BY <2>1, AppendProperties
  <2>3. 1 .. Len(accepted) + 1 = 1 .. Len(accepted) \cup {Len(accepted) + 1}
    BY <2>1
  <2>. QED BY <1>1, <2>1, <2>2, <2>3 DEF Elements
<1>4. TypeOK' /\ InHandInv'
  BY <1>1, <1>2, <1>3 DEF TcpInv, TypeOK, InHandInv
<1>5. ConnectionsAccounted'
  BY <1>1, <1>2, TcpAssumption DEF TcpInv, ConnectionsAccounted
<1>6. open' \subseteq Elements(accepted')
  BY <1>1, <1>3 DEF TcpInv
<1>7. Counted' /\ FinishedMeansStopped'
  BY <1>1, <1>2 DEF TcpInv, Counted, One, Alive, FinishedMeansStopped
<1>. QED BY <1>4, <1>5, <1>6, <1>7 DEF TcpInv

\* The outcomes of the acceptor's select, and the end of its loop.
LEMMA AcceptorKeepsInv ==
    ASSUME TcpInv, Alive, AcceptorStep
    PROVE  TcpInv'
<1>1. /\ Served' = Served
      /\ UNCHANGED <<accepted, dispatched, processor, handler, listening,
                     ctxDone, channelClosed, shutdown>>
  BY DEF AcceptorStep, StopAccepting, EnqueueConnection, SendOnClosedChannel,
         CloseAndStopAccepting, RejectConnection, serving, stopping, Served
<1>2. shutdown # "finished" /\ shutdown' # "finished" /\ FinishedMeansStopped'
  BY <1>1 DEF Alive, FinishedMeansStopped
<1>3. wg = One(acceptor) + One(processor) + Cardinality(Served)
  BY InvFacts DEF Alive, Counted
<1>4. acceptor = "enqueue" => /\ inHand \in Conns /\ inHand # NoConn
                              /\ inHand \notin Elements(connections)
                              /\ inHand \notin Served
  BY TcpAssumption DEF TcpInv, InHandInv, ConnectionsAccounted
<1>5. CASE StopAccepting
  <2>1. /\ acceptor = "accept" /\ acceptor' = "exited" /\ wg' = wg - 1
        /\ UNCHANGED <<open, inHand, connections, panicked>>
    BY <1>5 DEF StopAccepting
  <2>2. wg' \in Nat /\ wg' = One(acceptor') + One(processor) + Cardinality(Served)
    BY <1>3, <2>1, InvFacts DEF One
  <2>3. TypeOK' /\ InHandInv'
    BY <1>1, <2>1, <2>2 DEF TcpInv, TypeOK, InHandInv
  <2>4. ConnectionsAccounted' /\ open' \subseteq Elements(accepted')
    BY <1>1, <2>1 DEF TcpInv, ConnectionsAccounted
  <2>5. Counted'
    BY <1>1, <2>2 DEF Counted, One
  <2>. QED BY <1>2, <2>3, <2>4, <2>5 DEF TcpInv
<1>6. CASE EnqueueConnection
  <2>1. /\ acceptor = "enqueue" /\ acceptor' = "accept" /\ inHand' = NoConn
        /\ connections' = Append(connections, inHand)
        /\ Len(connections) < MaxServerConnections
        /\ UNCHANGED <<open, wg, panicked>>
    BY <1>6 DEF EnqueueConnection
  <2>2. /\ connections' \in Seq(Conns)
        /\ Len(connections') = Len(connections) + 1
        /\ Elements(connections') = Elements(connections) \cup {inHand}
        /\ NoRepeats(connections')
    BY <1>4, <2>1, InvFacts, EnqueueFact
  <2>3. Len(connections') <= MaxServerConnections
    BY <2>1, <2>2, InvFacts, TcpAssumption
  <2>4. TypeOK' /\ InHandInv'
    BY <1>1, <2>1, <2>2, <2>3 DEF TcpInv, TypeOK, InHandInv
  <2>5. /\ open' = ({inHand'} \ {NoConn}) \cup Elements(connections') \cup Served'
        /\ inHand' \notin Elements(connections') \cup Served'
        /\ Elements(connections') \cap Served' = {}
    <3>1. NoConn \notin Elements(connections) \cup Served \cup {inHand}
      <4>1. Elements(connections) \subseteq Conns /\ Served \subseteq Conns
        BY InvFacts, ElementOfSeq DEF Elements, Served
      <4>. QED BY <1>4, <2>1, <4>1, TcpAssumption
    <3>. QED BY <1>1, <1>4, <2>1, <2>2, <3>1 DEF TcpInv, ConnectionsAccounted
  <2>6. ConnectionsAccounted' /\ open' \subseteq Elements(accepted')
    BY <1>1, <2>1, <2>2, <2>5 DEF TcpInv, ConnectionsAccounted, NoRepeats
  <2>7. Counted'
    BY <1>1, <1>3, <2>1 DEF Counted, One
  <2>. QED BY <1>2, <2>4, <2>6, <2>7 DEF TcpInv
<1>7. CASE SendOnClosedChannel
  <2>1. /\ panicked' = TRUE
        /\ UNCHANGED <<open, acceptor, inHand, connections, wg>>
    BY <1>7 DEF SendOnClosedChannel
  <2>2. TypeOK' /\ InHandInv'
    BY <1>1, <2>1 DEF TcpInv, TypeOK, InHandInv
  <2>3. ConnectionsAccounted' /\ open' \subseteq Elements(accepted')
    BY <1>1, <2>1 DEF TcpInv, ConnectionsAccounted
  <2>4. Counted'
    BY <2>1 DEF Counted
  <2>. QED BY <1>2, <2>2, <2>3, <2>4 DEF TcpInv
<1>8. CASE CloseAndStopAccepting \/ RejectConnection
  <2>1. /\ acceptor = "enqueue" /\ inHand' = NoConn /\ open' = open \ {inHand}
        /\ \/ acceptor' = "accept" /\ wg' = wg
           \/ acceptor' = "exited" /\ wg' = wg - 1
        /\ UNCHANGED <<connections, panicked>>
    BY <1>8 DEF CloseAndStopAccepting, RejectConnection
  <2>2. wg' \in Nat /\ wg' = One(acceptor') + One(processor) + Cardinality(Served)
    BY <1>3, <2>1, InvFacts DEF One
  <2>3. TypeOK' /\ InHandInv'
    BY <1>1, <2>1, <2>2 DEF TcpInv, TypeOK, InHandInv
  <2>4. NoConn \notin Elements(connections) \cup Served
    <3>1. Elements(connections) \subseteq Conns /\ Served \subseteq Conns
      BY InvFacts, ElementOfSeq DEF Elements, Served
    <3>. QED BY <3>1, TcpAssumption
  <2>5. ConnectionsAccounted' /\ open' \subseteq Elements(accepted')
    BY <1>1, <1>4, <2>1, <2>4 DEF TcpInv, ConnectionsAccounted
  <2>6. Counted'
    BY <1>1, <2>2 DEF Counted, One
  <2>. QED BY <1>2, <2>3, <2>5, <2>6 DEF TcpInv
<1>. QED BY <1>5, <1>6, <1>7, <1>8 DEF AcceptorStep

\* A step of the processor.
LEMMA ProcessorKeepsInv ==
    ASSUME TcpInv, Alive, ProcessorStep
    PROVE  TcpInv'
<1>1. /\ UNCHANGED <<accepted, acceptor, inHand, listening, ctxDone,
                     channelClosed, shutdown>>
      /\ shutdown # "finished" /\ ~panicked
  BY DEF ProcessorStep, ServeConnection, ServeNil, StopProcessing,
         DrainConnection, DrainNil, FinishDraining, serving, stopping, vars, Alive
<1>2. FinishedMeansStopped'
  BY <1>1 DEF FinishedMeansStopped
<1>3. wg = One(acceptor) + One(processor) + Cardinality(Served)
  BY <1>1, InvFacts DEF Counted
<1>4. connections # <<>> =>
        /\ Head(connections) \in Conns
        /\ Head(connections) \in Elements(connections)
        /\ Tail(connections) \in Seq(Conns)
        /\ Len(Tail(connections)) = Len(connections) - 1
        /\ Elements(Tail(connections)) = Elements(connections) \ {Head(connections)}
        /\ NoRepeats(Tail(connections))
  BY InvFacts, DequeueFact
<1>5. connections # <<>> => Len(connections) - 1 <= MaxServerConnections
  BY InvFacts, TcpAssumption DEF TypeOK
<1>6. CASE ServeConnection
  <2> DEFINE h == Head(connections)
  <2>1. /\ processor = "select" /\ processor' = processor /\ connections # <<>>
        /\ dispatched' = Append(dispatched, h)
        /\ handler' = [handler EXCEPT ![h] = "check"]
        /\ connections' = Tail(connections) /\ wg' = wg + 1
        /\ UNCHANGED <<open, panicked>>
    BY <1>6 DEF ServeConnection
  <2>2. /\ h \in Conns /\ h \in Elements(connections) /\ h \notin Served
        /\ h # inHand
    BY <1>4, <2>1 DEF TcpInv, ConnectionsAccounted
  <2>3. dispatched' \in Seq(Conns)
    BY <2>1, <2>2, AppendProperties DEF TcpInv, TypeOK
  <2> HIDE DEF h
  <2>4. /\ handler' \in [Conns -> {"none", "check", "read"}]
        /\ Served' = Served \cup {h}
    BY <2>1, <2>2, InvFacts, HandlerUpdate
  <2>5. Cardinality(Served \cup {h}) = Cardinality(Served) + 1
    BY <2>2, ServedFacts
  <2>6. /\ wg' \in Nat
        /\ wg' = One(acceptor) + One(processor) + Cardinality(Served \cup {h})
    BY <1>3, <2>1, <2>5, InvFacts
  <2>7. /\ connections' \in Seq(Conns) /\ Len(connections') <= MaxServerConnections
        /\ Elements(connections') = Elements(connections) \ {h}
        /\ NoRepeats(connections')
    BY <1>4, <1>5, <2>1 DEF h
  <2>8. TypeOK' /\ InHandInv'
    BY <1>1, <2>1, <2>3, <2>4, <2>6, <2>7 DEF TcpInv, TypeOK, InHandInv
  <2>9. ConnectionsAccounted' /\ open' \subseteq Elements(accepted')
    BY <1>1, <2>1, <2>2, <2>4, <2>7 DEF TcpInv, ConnectionsAccounted, NoRepeats
  <2>10. Counted'
    BY <1>1, <2>1, <2>4, <2>6 DEF Counted, One
  <2>. QED BY <1>2, <2>8, <2>9, <2>10 DEF TcpInv
<1>7. CASE ServeNil
  <2>1. /\ panicked' = TRUE /\ wg' = wg + 1
        /\ UNCHANGED <<dispatched, open, connections, processor, handler>>
    BY <1>7 DEF ServeNil, serving
  <2>2. wg' \in Nat
    BY <2>1, InvFacts
  <2>3. TypeOK' /\ InHandInv'
    BY <1>1, <2>1, <2>2 DEF TcpInv, TypeOK, InHandInv
  <2>4. ConnectionsAccounted' /\ open' \subseteq Elements(accepted')
    BY <1>1, <2>1 DEF TcpInv, ConnectionsAccounted, Served
  <2>5. Counted'
    BY <2>1 DEF Counted
  <2>. QED BY <1>2, <2>3, <2>4, <2>5 DEF TcpInv
<1>8. CASE StopProcessing \/ FinishDraining \/ DrainNil
  <2>1. /\ processor' \in {"select", "drain", "exited"} /\ wg' \in Nat
        /\ wg' = One(acceptor) + One(processor') + Cardinality(Served)
        /\ UNCHANGED <<dispatched, open, connections, handler, panicked>>
    <3>1. CASE StopProcessing
      BY <1>3, <3>1, InvFacts DEF StopProcessing, One
    <3>2. CASE FinishDraining
      <4>1. /\ processor = "drain" /\ processor' = "exited" /\ wg' = wg - 1
            /\ UNCHANGED <<dispatched, open, connections, handler, panicked>>
        BY <3>2 DEF FinishDraining
      <4>2. One(processor) = 1 /\ One(processor') = 0
        BY <4>1 DEF One
      <4>. QED BY <1>3, <4>1, <4>2, InvFacts
    <3>3. CASE DrainNil
      BY <1>3, <3>3, InvFacts DEF DrainNil, vars, TypeOK
    <3>. QED BY <1>8, <3>1, <3>2, <3>3
  <2>2. TypeOK' /\ InHandInv'
    BY <1>1, <2>1 DEF TcpInv, TypeOK, InHandInv
  <2>3. Served' = Served
    BY <2>1 DEF Served
  <2>4. ConnectionsAccounted' /\ open' \subseteq Elements(accepted')
    BY <1>1, <2>1, <2>3 DEF TcpInv, ConnectionsAccounted
  <2>5. Counted'
    BY <1>1, <2>1, <2>3 DEF Counted, One
  <2>. QED BY <1>2, <2>2, <2>4, <2>5 DEF TcpInv
<1>9. CASE DrainConnection
  <2> DEFINE h == Head(connections)
  <2>1. /\ connections # <<>> /\ connections' = Tail(connections)
        /\ open' = open \ {h}
        /\ UNCHANGED <<dispatched, processor, handler, wg, panicked>>
    BY <1>9 DEF DrainConnection, serving
  <2>2. /\ h \in Elements(connections) /\ h \notin Served /\ h # inHand
    BY <1>4, <2>1 DEF TcpInv, ConnectionsAccounted
  <2>3. /\ connections' \in Seq(Conns) /\ Len(connections') <= MaxServerConnections
        /\ Elements(connections') = Elements(connections) \ {h}
        /\ NoRepeats(connections')
    BY <1>4, <1>5, <2>1 DEF h
  <2> HIDE DEF h
  <2>4. TypeOK' /\ InHandInv'
    BY <1>1, <2>1, <2>3 DEF TcpInv, TypeOK, InHandInv
  <2>5. Served' = Served
    BY <2>1 DEF Served
  <2>6. ConnectionsAccounted' /\ open' \subseteq Elements(accepted')
    BY <1>1, <2>1, <2>2, <2>3, <2>5 DEF TcpInv, ConnectionsAccounted, NoRepeats
  <2>7. Counted'
    BY <1>1, <1>3, <2>1, <2>5 DEF Counted, One
  <2>. QED BY <1>2, <2>4, <2>6, <2>7 DEF TcpInv
<1>. QED BY <1>6, <1>7, <1>8, <1>9 DEF ProcessorStep

LEMMA TcpStep == TcpInv /\ [Next]_vars => TcpInv'
<1>1. ASSUME TcpInv, Next PROVE TcpInv'
  BY <1>1, AcceptKeepsInv, AcceptorKeepsInv, ProcessorKeepsInv,
     HandlerKeepsInv, ShutdownKeepsInv DEF Next
<1>2. ASSUME TcpInv, UNCHANGED vars PROVE TcpInv'
  <2>1. Served' = Served
    BY <1>2 DEF vars, Served
  <2>. QED
    BY <1>2, <2>1 DEF vars, TcpInv, TypeOK, InHandInv, ConnectionsAccounted,
                      Counted, FinishedMeansStopped
<1>. QED BY <1>1, <1>2

LEMMA TcpInvHolds == Spec => []TcpInv
BY InitTcp, TcpStep, PTL DEF Spec

\* Type correctness, with the channel within its capacity and a wait group
\* whose counter is never negative: wg.Done does not panic.
THEOREM TypeCorrect == Spec => []TypeOK
<1>1. TcpInv => TypeOK
  BY DEF TcpInv
<1>. QED BY <1>1, TcpInvHolds, PTL

\* No connection leaks and none is used by two goroutines (server.go:106-179).
THEOREM ConnectionsAreAccounted == Spec => []ConnectionsAccounted
<1>1. TcpInv => ConnectionsAccounted
  BY DEF TcpInv
<1>. QED BY <1>1, TcpInvHolds, PTL

\* When WaitForShutdown (server.go:181-218) reports completion, every
\* goroutine of the server has returned: the wait group is never zero early.
THEOREM FinishedIsStopped == Spec => []FinishedMeansStopped
<1>1. TcpInv => FinishedMeansStopped
  BY DEF TcpInv
<1>. QED BY <1>1, TcpInvHolds, PTL

-----------------------------------------------------------------------------
(* The order of the handlers.                                              *)

\* In the order s: c comes before d, wherever they are.
Before(s, c, d) ==
    \A a \in DOMAIN s, b \in DOMAIN s : c = s[a] /\ d = s[b] => a < b

\* A connection goes through the acceptor's hand and the channel to its
\* handler, and none overtakes another on the way.
LineInv ==
    /\ Elements(dispatched) \subseteq Elements(accepted)
    /\ \A i, j \in DOMAIN dispatched :
            i < j => Before(accepted, dispatched[i], dispatched[j])
    /\ \A i, j \in DOMAIN connections :
            i < j => Before(accepted, connections[i], connections[j])
    /\ \A i \in DOMAIN dispatched, j \in DOMAIN connections :
            Before(accepted, dispatched[i], connections[j])
    /\ inHand \in Conns =>
        /\ \A i \in DOMAIN dispatched : Before(accepted, dispatched[i], inHand)
        /\ \A i \in DOMAIN connections : Before(accepted, connections[i], inHand)

\* A new connection comes after all others.
LEMMA AcceptedLast ==
    ASSUME NEW s \in Seq(Conns), NEW e \in Conns \ Elements(s)
    PROVE  /\ \A c, d \in Elements(s) : Before(s, c, d) => Before(Append(s, e), c, d)
           /\ \A c \in Elements(s) : Before(Append(s, e), c, e)
<1>. DEFINE t == Append(s, e)
<1>1. /\ Len(s) \in Nat /\ Len(t) = Len(s) + 1 /\ t[Len(s) + 1] = e
      /\ \A i \in 1..Len(s) : t[i] = s[i]
      /\ DOMAIN s = 1..Len(s) /\ DOMAIN t = 1..Len(t)
  BY AppendProperties
<1>. HIDE DEF t
<1>2. \A i \in DOMAIN t : (i \in DOMAIN s /\ t[i] = s[i]) \/ (i = Len(s) + 1 /\ t[i] = e)
  BY <1>1
<1>3. \A c \in Elements(s) : c # e
  OBVIOUS
<1>4. ASSUME NEW c \in Elements(s), NEW d \in Elements(s), Before(s, c, d)
      PROVE  Before(t, c, d)
  BY <1>2, <1>3, <1>4 DEF Before
<1>5. ASSUME NEW c \in Elements(s), NEW a \in DOMAIN t, NEW b \in DOMAIN t,
             c = t[a], e = t[b]
      PROVE  a < b
  <2>1. a \in DOMAIN s
    BY <1>2, <1>3, <1>5
  <2>2. b \notin DOMAIN s
    <3>1. SUFFICES ASSUME b \in DOMAIN s PROVE FALSE
      OBVIOUS
    <3>2. t[b] = s[b] /\ s[b] \in Elements(s)
      BY <1>1, <3>1 DEF Elements
    <3>. QED BY <1>3, <1>5, <3>2
  <2>3. b = Len(s) + 1
    BY <1>2, <2>2
  <2>. QED BY <1>1, <2>1, <2>3
<1>. QED BY <1>4, <1>5 DEF Before, t

\* A step that moves no connection.
LEMMA LineKept ==
    ASSUME LineInv, UNCHANGED <<accepted, dispatched, connections>>,
           inHand' = inHand \/ inHand' = NoConn
    PROVE  LineInv'
BY TcpAssumption DEF LineInv

LEMMA LineStep == TcpInv /\ LineInv /\ [Next]_vars => LineInv'
<1>. SUFFICES ASSUME TcpInv, LineInv, [Next]_vars PROVE LineInv'
  OBVIOUS
<1>1. /\ accepted \in Seq(Conns) /\ dispatched \in Seq(Conns) /\ connections \in Seq(Conns)
      /\ Elements(connections) \subseteq Elements(accepted)
      /\ Elements(dispatched) \subseteq Elements(accepted)
      /\ inHand \in Conns => inHand \in Elements(accepted)
      /\ inHand \in Conns => acceptor = "enqueue"
  BY TcpAssumption DEF TcpInv, TypeOK, ConnectionsAccounted, LineInv, InHandInv
<1>2. ASSUME NEW c \in Conns, Accept(c) PROVE LineInv'
  <2>1. /\ accepted' = Append(accepted, c) /\ inHand' = c /\ c \notin Elements(accepted)
        /\ UNCHANGED <<dispatched, connections>>
    BY <1>2 DEF Accept, serving
  <2>2. /\ \A d, e \in Elements(accepted) :
                Before(accepted, d, e) => Before(accepted', d, e)
        /\ \A d \in Elements(accepted) : Before(accepted', d, c)
    BY <1>1, <2>1, AcceptedLast
  <2>3. Elements(dispatched) \subseteq Elements(accepted')
    <3>1. \A i \in DOMAIN accepted : i \in DOMAIN accepted' /\ accepted'[i] = accepted[i]
      BY <1>1, <2>1, AppendProperties
    <3>2. Elements(accepted) \subseteq Elements(accepted')
      BY <3>1 DEF Elements
    <3>. QED BY <1>1, <2>1, <3>2
  <2>4. /\ \A i \in DOMAIN dispatched : dispatched[i] \in Elements(accepted)
        /\ \A i \in DOMAIN connections : connections[i] \in Elements(accepted)
    BY <1>1 DEF Elements
  <2>. QED BY <2>1, <2>2, <2>3, <2>4 DEF LineInv
<1>3. CASE EnqueueConnection
  <2>1. /\ connections' = Append(connections, inHand) /\ inHand' = NoConn
        /\ inHand \in Conns
        /\ UNCHANGED <<accepted, dispatched>>
    BY <1>3 DEF EnqueueConnection, serving, TcpInv, InHandInv
  <2>2. \A i \in DOMAIN connections' :
            \/ i \in DOMAIN connections /\ connections'[i] = connections[i]
            \/ i = Len(connections) + 1 /\ connections'[i] = inHand
    BY <1>1, <2>1, AppendProperties
  <2>3. Len(connections) \in Nat /\ \A i \in DOMAIN connections : i <= Len(connections)
    BY <1>1
  <2>4. \A i, j \in DOMAIN connections' :
            i < j => Before(accepted, connections'[i], connections'[j])
    <3>1. SUFFICES ASSUME NEW i \in DOMAIN connections', NEW j \in DOMAIN connections', i < j
                   PROVE  Before(accepted, connections'[i], connections'[j])
      OBVIOUS
    <3>2. i \in DOMAIN connections /\ connections'[i] = connections[i]
      <4>1. j <= Len(connections) + 1 /\ i \in Nat /\ j \in Nat
        BY <1>1, <2>1, <2>2, <2>3, <3>1, AppendProperties
      <4>. QED BY <2>2, <2>3, <3>1, <4>1
    <3>. QED BY <2>1, <2>2, <3>1, <3>2 DEF LineInv
  <2>5. \A i \in DOMAIN dispatched, j \in DOMAIN connections' :
            Before(accepted, dispatched[i], connections'[j])
    BY <2>1, <2>2 DEF LineInv
  <2>. QED BY <2>1, <2>4, <2>5, TcpAssumption DEF LineInv
<1>4. CASE ServeConnection \/ DrainConnection
  <2>. DEFINE h == Head(connections)
  <2>1. /\ connections # <<>> /\ connections' = Tail(connections)
        /\ dispatched' = dispatched \/ dispatched' = Append(dispatched, h)
        /\ UNCHANGED <<accepted, inHand>>
    BY <1>4 DEF ServeConnection, DrainConnection, serving
  <2>2. /\ h = connections[1] /\ 1 \in DOMAIN connections /\ h \in Conns
        /\ \A i \in DOMAIN connections' :
            /\ i + 1 \in DOMAIN connections /\ i + 1 > 1
            /\ connections'[i] = connections[i + 1]
        /\ DOMAIN connections' \subseteq Nat
    BY <1>1, <2>1, HeadTailProperties, EmptySeq
  <2>. HIDE DEF h
  <2>3. \A i \in DOMAIN dispatched' :
            \/ i \in DOMAIN dispatched /\ dispatched'[i] = dispatched[i]
            \/ i = Len(dispatched) + 1 /\ dispatched'[i] = h
    <3>1. CASE dispatched' = dispatched
      BY <3>1
    <3>2. CASE dispatched' = Append(dispatched, h)
      BY <1>1, <2>2, <3>2, AppendProperties
    <3>. QED BY <2>1, <3>1, <3>2
  <2>4. /\ Len(dispatched) \in Nat /\ \A i \in DOMAIN dispatched : i <= Len(dispatched)
        /\ DOMAIN dispatched' \subseteq 1..Len(dispatched) + 1
    BY <1>1, <2>1, <2>2, AppendProperties
  <2>5. h \in Elements(accepted)
    BY <1>1, <2>2 DEF Elements
  <2>6. Elements(dispatched') \subseteq Elements(accepted')
    BY <1>1, <2>1, <2>3, <2>5 DEF Elements
  <2>7. ASSUME NEW i \in DOMAIN dispatched', NEW j \in DOMAIN dispatched', i < j
        PROVE  Before(accepted, dispatched'[i], dispatched'[j])
    <3>1. i \in DOMAIN dispatched /\ dispatched'[i] = dispatched[i]
      <4>1. j <= Len(dispatched) + 1 /\ i \in Nat /\ j \in Nat
        BY <2>4
      <4>. QED BY <2>3, <2>4, <2>7, <4>1
    <3>2. Before(accepted, dispatched[i], h)
      BY <2>2, <3>1 DEF LineInv
    <3>. QED BY <2>3, <2>7, <3>1, <3>2 DEF LineInv
  <2>8. ASSUME NEW i \in DOMAIN connections', NEW j \in DOMAIN connections', i < j
        PROVE  Before(accepted, connections'[i], connections'[j])
    <3>1. i + 1 < j + 1 /\ i + 1 \in DOMAIN connections /\ j + 1 \in DOMAIN connections
      BY <2>2, <2>8
    <3>2. Before(accepted, connections[i + 1], connections[j + 1])
      BY <3>1 DEF LineInv
    <3>. QED BY <2>2, <3>2
  <2>9. ASSUME NEW i \in DOMAIN dispatched', NEW j \in DOMAIN connections'
        PROVE  Before(accepted, dispatched'[i], connections'[j])
    <3>1. Before(accepted, h, connections[j + 1])
      BY <2>2 DEF LineInv
    <3>2. i \in DOMAIN dispatched => Before(accepted, dispatched[i], connections[j + 1])
      BY <2>2 DEF LineInv
    <3>. QED BY <2>2, <2>3, <3>1, <3>2
  <2>10. ASSUME inHand \in Conns
         PROVE  /\ \A i \in DOMAIN dispatched' : Before(accepted, dispatched'[i], inHand)
                /\ \A i \in DOMAIN connections' : Before(accepted, connections'[i], inHand)
    BY <2>2, <2>3, <2>10 DEF LineInv
  <2>. QED BY <2>1, <2>6, <2>7, <2>8, <2>9, <2>10 DEF LineInv
<1>5. CASE \/ StopAccepting \/ SendOnClosedChannel \/ CloseAndStopAccepting
           \/ RejectConnection \/ ServeNil \/ StopProcessing \/ DrainNil
           \/ FinishDraining \/ ReceiveSignal \/ ShutdownStep \/ UNCHANGED vars
           \/ (\E c \in Conns : CheckContext(c) \/ HandleRequest(c) \/ StopServing(c))
  <2>1. /\ UNCHANGED <<accepted, dispatched, connections>>
        /\ inHand' = inHand \/ inHand' = NoConn
    BY <1>5 DEF vars, ShutdownStep, StopAccepting, SendOnClosedChannel,
        CloseAndStopAccepting, RejectConnection, ServeNil, StopProcessing, DrainNil,
        FinishDraining, CheckContext, HandleRequest, StopServing, ReceiveSignal,
        CloseSocket, CloseChannel, AllFinished, ShutdownTimesOut, running, serving
  <2>. QED BY <2>1, LineKept
<1>. QED BY <1>2, <1>3, <1>4, <1>5 DEF Next, AcceptorStep, ProcessorStep

\* Handlers are started in the order of the accepts, whatever is rejected,
\* drained or interrupted in between.
THEOREM HandlersStartInOrder == Spec => []DispatchedInOrder
<1>1. Init => LineInv
  BY TcpAssumption DEF Init, LineInv, Elements
<1>2. TcpInv /\ LineInv => DispatchedInOrder
  BY DEF LineInv, Before, DispatchedInOrder
<1>3. Spec => []LineInv
  BY <1>1, LineStep, TcpInvHolds, PTL DEF Spec
<1>. QED BY <1>2, <1>3, TcpInvHolds, PTL

-----------------------------------------------------------------------------
(* The server as one queue: what ConnectionQueue says of it.               *)

\* The refinement mapping's queue, and the connections closed.
Waiting == IF inHand = NoConn THEN connections ELSE Append(connections, inHand)

Gone == Elements(accepted) \ open

\* The processor drains the channel only when the server stops.
DrainInv == processor = "drain" => ctxDone

LEMMA DrainStep == DrainInv /\ [Next]_vars => DrainInv'
<1>. SUFFICES ASSUME DrainInv, [Next]_vars PROVE DrainInv'
  OBVIOUS
<1>1. ctxDone => ctxDone'
  BY DEF Next, vars, AcceptorStep, ProcessorStep, ShutdownStep, Accept, StopAccepting,
      EnqueueConnection, SendOnClosedChannel, CloseAndStopAccepting, RejectConnection,
      ServeConnection, ServeNil, StopProcessing, DrainConnection, DrainNil,
      FinishDraining, CheckContext, HandleRequest, StopServing, ReceiveSignal,
      CloseSocket, CloseChannel, AllFinished, ShutdownTimesOut, stopping
<1>2. processor' = "drain" => processor = "drain" \/ ctxDone
  BY DEF Next, vars, AcceptorStep, ProcessorStep, ShutdownStep, Accept, StopAccepting,
      EnqueueConnection, SendOnClosedChannel, CloseAndStopAccepting, RejectConnection,
      ServeConnection, ServeNil, StopProcessing, DrainConnection, DrainNil,
      FinishDraining, CheckContext, HandleRequest, StopServing, ReceiveSignal,
      CloseSocket, CloseChannel, AllFinished, ShutdownTimesOut, serving, running
<1>. QED BY <1>1, <1>2 DEF DrainInv

\* The queue, with or without a connection in the acceptor's hand.
LEMMA WaitingFacts ==
    ASSUME TcpInv
    PROVE  /\ Waiting \in Seq(Conns)
           /\ Elements(Waiting) \cup Served \subseteq Elements(accepted)
           /\ inHand # NoConn =>
                /\ Waiting # <<>> /\ Len(Waiting) = Len(connections) + 1
                /\ Waiting[Len(Waiting)] = inHand
                /\ SubSeq(Waiting, 1, Len(Waiting) - 1) = connections
           /\ connections # <<>> =>
                /\ Waiting # <<>> /\ Head(Waiting) = Head(connections)
                /\ Tail(Waiting) = IF inHand = NoConn THEN Tail(connections)
                                   ELSE Append(Tail(connections), inHand)
<1>1. /\ connections \in Seq(Conns) /\ Len(connections) \in Nat
      /\ inHand \in Conns \cup {NoConn} /\ open \subseteq Elements(accepted)
      /\ open = ({inHand} \ {NoConn}) \cup Elements(connections) \cup Served
  BY DEF TcpInv, TypeOK, ConnectionsAccounted
<1>2. CASE inHand = NoConn
  BY <1>1, <1>2 DEF Waiting
<1>3. CASE inHand \in Conns /\ inHand # NoConn
  <2>1. /\ Waiting = Append(connections, inHand) /\ Waiting \in Seq(Conns)
        /\ Waiting # <<>> /\ Len(Waiting) = Len(connections) + 1
        /\ \A i \in 1 .. Len(connections) : Waiting[i] = connections[i]
        /\ Waiting[Len(connections) + 1] = inHand
    BY <1>1, <1>3, AppendProperties DEF Waiting
  <2>2. DOMAIN Waiting = 1 .. Len(connections) + 1
    BY <2>1
  <2>3. Elements(Waiting) \subseteq Elements(connections) \cup {inHand}
    <3>1. \A i \in 1 .. Len(connections) + 1 :
            i \in DOMAIN connections \/ i = Len(connections) + 1
      BY <1>1
    <3>. QED BY <1>1, <2>1, <2>2, <3>1 DEF Elements
  <2>4. SubSeq(Waiting, 1, Len(Waiting) - 1) = connections
    <3>1. Len(Waiting) - 1 = Len(connections)
      BY <1>1, <2>1
    <3>2. \A i \in 1 .. Len(connections) : Waiting[i] \in Conns
      BY <1>1, <2>1, ElementOfSeq
    <3>3. /\ SubSeq(Waiting, 1, Len(connections)) \in Seq(Conns)
          /\ Len(SubSeq(Waiting, 1, Len(connections))) = Len(connections)
          /\ \A i \in 1 .. Len(connections) :
                SubSeq(Waiting, 1, Len(connections))[i] = connections[i]
      BY <1>1, <2>1, <3>2, SubSeqProperties
    <3>. QED BY <1>1, <3>1, <3>3, SeqEqual
  <2>5. connections # <<>> => /\ Head(Waiting) = Head(connections)
                              /\ Tail(Waiting) = Append(Tail(connections), inHand)
    BY <1>1, <2>1, HeadTailAppend
  <2>. QED BY <1>1, <1>3, <2>1, <2>3, <2>4, <2>5
<1>. QED BY <1>1, <1>2, <1>3

\* A connection arrives.
LEMMA ArrivalRefines ==
    ASSUME TcpInv, NEW c \in Conns, Accept(c)
    PROVE  Queue!Next
<1>1. /\ inHand = NoConn /\ inHand' = c /\ c # NoConn /\ connections' = connections
      /\ accepted' = Append(accepted, c) /\ open' = open \cup {c}
      /\ c \notin Elements(accepted) /\ open \subseteq Elements(accepted)
      /\ Served' = Served /\ ctxDone' = ctxDone
  BY TcpAssumption DEF Accept, TcpInv, InHandInv, serving, stopping, Served
<1>2. Waiting' = Append(Waiting, c)
  BY <1>1 DEF Waiting
<1>3. Elements(accepted') = Elements(accepted) \cup {c}
  <2>1. accepted \in Seq(Conns) /\ Len(accepted) \in Nat
        /\ DOMAIN accepted = 1 .. Len(accepted)
    BY DEF TcpInv, TypeOK
  <2>2. /\ DOMAIN accepted' = 1 .. Len(accepted) + 1
        /\ \A i \in 1 .. Len(accepted) : accepted'[i] = accepted[i]
        /\ accepted'[Len(accepted) + 1] = c
    BY <1>1, <2>1, AppendProperties
  <2>3. 1 .. Len(accepted) + 1 = 1 .. Len(accepted) \cup {Len(accepted) + 1}
    BY <2>1
  <2>. QED BY <2>1, <2>2, <2>3 DEF Elements
<1>4. Gone' = Gone
  BY <1>1, <1>3 DEF Gone
<1>5. c \notin Elements(Waiting) \cup Served \cup Gone
  BY <1>1, WaitingFacts DEF Gone
<1>6. Queue!Arrive(c)
  BY <1>1, <1>2, <1>4, <1>5 DEF Queue!Arrive, Queue!Known, Waiting, Gone, Elements
<1>. QED BY <1>6 DEF Queue!Next

\* The acceptor is done with the connection it has.
LEMMA AcceptorRefines ==
    ASSUME TcpInv, AcceptorStep
    PROVE  [Queue!Next]_(Queue!vars)
<1>1. /\ Served' = Served /\ ctxDone' = ctxDone
      /\ open \subseteq Elements(accepted)
      /\ inHand # NoConn => inHand \in open
      /\ acceptor = "enqueue" => inHand \in Conns /\ inHand # NoConn
      /\ acceptor = "accept" => inHand = NoConn
      /\ connections \in Seq(Conns) /\ Len(connections) \in Nat
  BY TcpAssumption
     DEF AcceptorStep, StopAccepting, EnqueueConnection, SendOnClosedChannel,
         CloseAndStopAccepting, RejectConnection, serving, stopping, Served,
         TcpInv, TypeOK, InHandInv, ConnectionsAccounted
<1>2. CASE CloseAndStopAccepting \/ RejectConnection
  <2>1. /\ inHand \in Conns /\ inHand # NoConn /\ inHand' = NoConn
        /\ connections' = connections /\ accepted' = accepted
        /\ open' = open \ {inHand}
        /\ Len(connections) = MaxServerConnections \/ ctxDone
    BY <1>1, <1>2 DEF CloseAndStopAccepting, RejectConnection
  <2>2. /\ Len(Waiting) = Len(connections) + 1 /\ Waiting # <<>>
        /\ SubSeq(Waiting, 1, Len(Waiting) - 1) = connections
    BY <2>1, WaitingFacts
  <2>3. Len(Waiting) > MaxServerConnections \/ ctxDone
    <3>1. Len(connections) = MaxServerConnections => Len(Waiting) > MaxServerConnections
      BY <1>1, <2>2, TcpAssumption
    <3>. QED BY <2>1, <3>1, Zenon
  <2>4. Waiting' = SubSeq(Waiting, 1, Len(Waiting) - 1)
    BY <2>1, <2>2 DEF Waiting
  <2>5. Gone' = Gone \cup {Waiting[Len(Waiting)]}
    BY <1>1, <2>1, WaitingFacts DEF Gone
  <2>6. Queue!TurnAway
    BY <1>1, <2>2, <2>3, <2>4, <2>5 DEF Queue!TurnAway, Waiting, Gone
  <2>. QED BY <2>6 DEF Queue!Next
<1>3. CASE StopAccepting \/ EnqueueConnection \/ SendOnClosedChannel
  <2>1. /\ UNCHANGED <<open, accepted>>
        /\ \/ UNCHANGED <<inHand, connections>>
           \/ /\ inHand # NoConn /\ inHand' = NoConn
              /\ connections' = Append(connections, inHand)
    BY <1>1, <1>3 DEF StopAccepting, EnqueueConnection, SendOnClosedChannel
  <2>2. Waiting' = Waiting /\ Gone' = Gone
    BY <2>1 DEF Waiting, Gone
  <2>. QED BY <1>1, <2>2 DEF Queue!vars, Waiting, Gone
<1>. QED BY <1>2, <1>3 DEF AcceptorStep

\* The first in the channel gets its handler or, when the server stops, not.
LEMMA ProcessorRefines ==
    ASSUME TcpInv, DrainInv, ProcessorStep
    PROVE  [Queue!Next]_(Queue!vars)
<1>. DEFINE h == Head(connections)
<1>1. /\ ctxDone' = ctxDone /\ accepted' = accepted /\ inHand' = inHand
      /\ TypeOK
  BY DEF ProcessorStep, ServeConnection, ServeNil, StopProcessing,
         DrainConnection, DrainNil, FinishDraining, serving, stopping, vars, TcpInv
<1>2. connections # <<>> => /\ h \in Conns /\ h \in Elements(connections)
                            /\ h \in open /\ h \notin Served
                            /\ open \subseteq Elements(accepted)
  BY InvFacts, DequeueFact DEF ConnectionsAccounted
<1>. HIDE DEF h
<1>3. CASE ServeConnection
  <2>1. /\ connections # <<>> /\ connections' = Tail(connections)
        /\ handler' = [handler EXCEPT ![h] = "check"] /\ open' = open
    BY <1>3 DEF ServeConnection, h
  <2>2. Served' = Served \cup {h}
    BY <1>1, <1>2, <2>1, HandlerUpdate
  <2>3. /\ Waiting # <<>> /\ h = Head(Waiting) /\ Waiting' = Tail(Waiting)
        /\ Gone' = Gone
    BY <1>1, <2>1, WaitingFacts DEF Waiting, Gone, h
  <2>4. Queue!Start
    BY <1>1, <2>2, <2>3 DEF Queue!Start, Waiting, Gone
  <2>. QED BY <2>4 DEF Queue!Next
<1>4. CASE DrainConnection
  <2>1. /\ connections # <<>> /\ connections' = Tail(connections) /\ ctxDone
        /\ handler' = handler /\ open' = open \ {h}
    BY <1>4 DEF DrainConnection, DrainInv, serving, h
  <2>2. Served' = Served
    BY <2>1 DEF Served
  <2>3. /\ Waiting # <<>> /\ h = Head(Waiting) /\ Waiting' = Tail(Waiting)
    BY <1>1, <2>1, WaitingFacts DEF Waiting, h
  <2>4. Gone' = Gone \cup {h}
    BY <1>1, <1>2, <2>1 DEF Gone
  <2>5. Queue!CloseFirst
    BY <1>1, <2>1, <2>2, <2>3, <2>4 DEF Queue!CloseFirst, Waiting, Gone
  <2>. QED BY <2>5 DEF Queue!Next
<1>5. CASE ServeNil \/ StopProcessing \/ DrainNil \/ FinishDraining
  <2>1. UNCHANGED <<open, connections, handler>>
    BY <1>5 DEF ServeNil, StopProcessing, DrainNil, FinishDraining, serving, vars
  <2>. QED BY <1>1, <2>1 DEF Queue!vars, Served
<1>. QED BY <1>3, <1>4, <1>5 DEF ProcessorStep

\* A handler closes its connection, or goes on.
LEMMA HandlerRefines ==
    ASSUME TcpInv, NEW c \in Conns,
           CheckContext(c) \/ HandleRequest(c) \/ StopServing(c)
    PROVE  [Queue!Next]_(Queue!vars)
<1>1. /\ UNCHANGED <<accepted, inHand, connections, ctxDone>>
      /\ c \in Served /\ TypeOK /\ c \in open /\ open \subseteq Elements(accepted)
  BY DEF CheckContext, HandleRequest, StopServing, stopping, Served, TcpInv,
         ConnectionsAccounted
<1>2. UNCHANGED Waiting
  BY <1>1 DEF Waiting
<1>3. CASE CloseHandled(c)
  <2>1. Served' = Served \ {c} /\ open' = open \ {c}
    BY <1>1, <1>3, HandlerUpdate DEF CloseHandled
  <2>2. Gone' = Gone \cup {c}
    BY <1>1, <2>1 DEF Gone
  <2>3. Queue!Finish(c)
    BY <1>1, <1>2, <2>1, <2>2 DEF Queue!Finish, Waiting, Gone
  <2>. QED BY <1>1, <2>3 DEF Queue!Next
<1>4. CASE ~CloseHandled(c)
  <2>1. PICK v \in {"check", "read"} : handler' = [handler EXCEPT ![c] = v]
    BY <1>4 DEF CheckContext, HandleRequest, StopServing
  <2>2. open' = open
    BY <1>4 DEF CheckContext, HandleRequest, StopServing
  <2>3. Served' = Served
    <3>1. v \in {"none", "check", "read"} /\ v # "none"
      OBVIOUS
    <3>2. Served' = Served \cup {c}
      BY <1>1, <2>1, <3>1, HandlerUpdate
    <3>. QED BY <1>1, <3>2
  <2>. QED BY <1>1, <2>2, <2>3 DEF Queue!vars
<1>. QED BY <1>3, <1>4

LEMMA QueueSteps == TcpInv /\ DrainInv /\ [Next]_vars => [Queue!Next]_(Queue!vars)
<1>. SUFFICES ASSUME TcpInv, DrainInv, [Next]_vars PROVE [Queue!Next]_(Queue!vars)
  OBVIOUS
<1>1. CASE UNCHANGED vars
  BY <1>1 DEF vars, Queue!vars, Served, Elements
<1>2. CASE ReceiveSignal
  <2>1. UNCHANGED running /\ ctxDone' = TRUE
    BY <1>2 DEF ReceiveSignal
  <2>2. Queue!Stop
    BY <2>1 DEF Queue!Stop, running, Served, Elements
  <2>. QED BY <2>2 DEF Queue!Next
<1>3. CASE ShutdownStep
  <2>1. UNCHANGED running /\ ctxDone' = ctxDone
    BY <1>3 DEF ShutdownStep, CloseSocket, CloseChannel, AllFinished, ShutdownTimesOut
  <2>. QED BY <2>1 DEF Queue!vars, running, Served, Elements
<1>. QED
  BY <1>1, <1>2, <1>3, ArrivalRefines, AcceptorRefines, ProcessorRefines, HandlerRefines DEF Next

\* The goroutines of the TCP server implement the queue of ConnectionQueue, for
\* any connections and any capacity, before, during and after a shutdown.
THEOREM ServerImplementsQueue == Spec => ImplementsQueue
<1>1. Init => Queue!Init
  BY DEF Init, Queue!Init, Served, Elements
<1>2. Init => DrainInv
  BY DEF Init, DrainInv
<1>. QED
  BY <1>1, <1>2, DrainStep, TcpInvHolds, QueueSteps, PTL
     DEF Spec, ImplementsQueue, Queue!Spec
=============================================================================
