------------------------------ MODULE TcpServer ------------------------------
(***************************************************************************)
(* The TCP server the three lobby processes embed (internal/servers/base/  *)
(* tcp): a goroutine that accepts connections, one that hands them over to *)
(* a goroutine per connection, the buffered channel between the two, and   *)
(* the main goroutine, which waits for a signal and shuts the others down. *)
(*                                                                         *)
(* A select with several ready cases takes any of them; a receive from a   *)
(* closed and empty channel is always ready and yields nil, NoConn here; a *)
(* send on a closed channel panics, and so does a handler given nil: a     *)
(* panic in any goroutine ends the process.  Requests and TLS are data.    *)
(***************************************************************************)
EXTENDS Naturals, Sequences, FiniteSets

CONSTANTS
    Conns,                  \* the connections clients may open
    NoConn,                 \* Go's nil connection
    MaxServerConnections,   \* capacity of the channel
    HasReadDeadline,        \* the handler sets a deadline (auth does)
    TimeoutExpires          \* ShutdownTimeoutSeconds may pass

ASSUME TcpAssumption ==
    /\ NoConn \notin Conns
    /\ IsFiniteSet(Conns)
    /\ MaxServerConnections \in Nat \ {0}
    /\ HasReadDeadline \in BOOLEAN
    /\ TimeoutExpires \in BOOLEAN

VARIABLES
    accepted,       \* the connections accepted so far, in order
    dispatched,     \* those handed to a handler goroutine, in order
    open,           \* connections accepted and not closed
    acceptor,       \* "accept", "enqueue" or "exited"
    inHand,         \* the connection the acceptor is about to enqueue
    connections,    \* the buffered channel
    processor,      \* "select", "drain" or "exited"
    handler,        \* per connection: "none", "check" or "read"
    wg,             \* counter of the wait group
    listening, ctxDone, channelClosed,
    shutdown,       \* where WaitForShutdown is
    panicked

vars == <<accepted, dispatched, open, acceptor, inHand, connections, processor,
          handler, wg, listening, ctxDone, channelClosed, shutdown, panicked>>
serving == <<dispatched, processor, handler>>
stopping == <<listening, ctxDone, channelClosed, shutdown>>

Elements(s) == {s[i] : i \in DOMAIN s}

\* Type correctness; the channel never holds more than its capacity.
TypeOK ==
    /\ accepted \in Seq(Conns)
    /\ dispatched \in Seq(Conns)
    /\ open \subseteq Conns
    /\ acceptor \in {"accept", "enqueue", "exited"}
    /\ inHand \in Conns \cup {NoConn}
    /\ connections \in Seq(Conns) /\ Len(connections) <= MaxServerConnections
    /\ processor \in {"select", "drain", "exited"}
    /\ handler \in [Conns -> {"none", "check", "read"}]
    /\ wg \in Nat
    /\ listening \in BOOLEAN /\ ctxDone \in BOOLEAN
    /\ channelClosed \in BOOLEAN /\ panicked \in BOOLEAN
    /\ shutdown \in {"signal", "closeSocket", "closeChannel", "wait",
                     "finished", "timedOut"}

\* main starts the processor and the acceptor, each after a wg.Add(1).
Init ==
    /\ accepted = <<>> /\ dispatched = <<>> /\ open = {}
    /\ acceptor = "accept" /\ inHand = NoConn
    /\ connections = <<>>
    /\ processor = "select"
    /\ handler = [c \in Conns |-> "none"]
    /\ wg = 2
    /\ listening = TRUE /\ ctxDone = FALSE /\ channelClosed = FALSE
    /\ shutdown = "signal"
    /\ panicked = FALSE

-----------------------------------------------------------------------------
(* AcceptConnections                                                       *)

Accept(c) ==
    /\ acceptor = "accept"
    /\ listening
    /\ c \notin Elements(accepted)
    /\ accepted' = Append(accepted, c)
    /\ open' = open \cup {c}
    /\ acceptor' = "enqueue" /\ inHand' = c
    /\ UNCHANGED <<serving, connections, wg, stopping, panicked>>

\* Accept fails on a closed listener; any other failure is tried again.
StopAccepting ==
    /\ acceptor = "accept"
    /\ ~listening
    /\ ctxDone
    /\ acceptor' = "exited"
    /\ wg' = wg - 1
    /\ UNCHANGED <<accepted, open, inHand, serving, connections, stopping,
                   panicked>>

\* Mutant: the send does not look at the capacity.
EnqueueBeyondCapacity ==
    /\ acceptor = "enqueue"
    /\ ~channelClosed
    /\ connections' = Append(connections, inHand)
    /\ acceptor' = "accept" /\ inHand' = NoConn
    /\ UNCHANGED <<accepted, open, serving, wg, stopping, panicked>>

\* Mutant: the newest connection goes first.
EnqueueFirst ==
    /\ acceptor = "enqueue"
    /\ ~channelClosed
    /\ Len(connections) < MaxServerConnections
    /\ connections' = <<inHand>> \o connections
    /\ acceptor' = "accept" /\ inHand' = NoConn
    /\ UNCHANGED <<accepted, open, serving, wg, stopping, panicked>>

EnqueueConnection ==
    /\ acceptor = "enqueue"
    /\ ~channelClosed
    /\ Len(connections) < MaxServerConnections
    /\ connections' = Append(connections, inHand)
    /\ acceptor' = "accept" /\ inHand' = NoConn
    /\ UNCHANGED <<accepted, open, serving, wg, stopping, panicked>>

SendOnClosedChannel ==
    /\ acceptor = "enqueue"
    /\ channelClosed
    /\ panicked' = TRUE
    /\ UNCHANGED <<accepted, open, acceptor, inHand, serving, connections, wg,
                   stopping>>

CloseAndStopAccepting ==
    /\ acceptor = "enqueue"
    /\ ctxDone
    /\ open' = open \ {inHand}
    /\ acceptor' = "exited" /\ inHand' = NoConn
    /\ wg' = wg - 1
    /\ UNCHANGED <<accepted, serving, connections, stopping, panicked>>

\* Mutant: a rejected connection is forgotten instead of closed.
RejectWithoutClose ==
    /\ acceptor = "enqueue"
    /\ ~ctxDone
    /\ Len(connections) = MaxServerConnections
    /\ acceptor' = "accept" /\ inHand' = NoConn
    /\ UNCHANGED <<accepted, open, serving, connections, wg, stopping, panicked>>

\* The default case: neither the send nor the cancellation is ready.
RejectConnection ==
    /\ acceptor = "enqueue"
    /\ ~ctxDone
    /\ Len(connections) = MaxServerConnections
    /\ open' = open \ {inHand}
    /\ acceptor' = "accept" /\ inHand' = NoConn
    /\ UNCHANGED <<accepted, serving, connections, wg, stopping, panicked>>

-----------------------------------------------------------------------------
(* ProcessConnections                                                      *)

\* Mutant: the handler runs in the processor itself.
ServeInline ==
    /\ processor = "select"
    /\ connections # <<>>
    /\ \A c \in Conns : handler[c] = "none"
    /\ dispatched' = Append(dispatched, Head(connections))
    /\ handler' = [handler EXCEPT ![Head(connections)] = "check"]
    /\ connections' = Tail(connections)
    /\ wg' = wg + 1
    /\ UNCHANGED <<accepted, open, acceptor, inHand, processor, stopping,
                   panicked>>

\* Mutant: the handler goroutine is not counted.
ServeUncounted ==
    /\ processor = "select"
    /\ connections # <<>>
    /\ dispatched' = Append(dispatched, Head(connections))
    /\ handler' = [handler EXCEPT ![Head(connections)] = "check"]
    /\ connections' = Tail(connections)
    /\ UNCHANGED <<accepted, open, acceptor, inHand, processor, wg, stopping,
                   panicked>>

\* wg.Add(1) and go handler(ctx, conn).
ServeConnection ==
    /\ processor = "select"
    /\ connections # <<>>
    /\ dispatched' = Append(dispatched, Head(connections))
    /\ handler' = [handler EXCEPT ![Head(connections)] = "check"]
    /\ connections' = Tail(connections)
    /\ wg' = wg + 1
    /\ UNCHANGED <<accepted, open, acceptor, inHand, processor, stopping,
                   panicked>>

\* The closed channel yields nil; the handler's conn.RemoteAddr() panics.
ServeNil ==
    /\ processor = "select"
    /\ connections = <<>>
    /\ channelClosed
    /\ wg' = wg + 1
    /\ panicked' = TRUE
    /\ UNCHANGED <<accepted, open, acceptor, inHand, serving, connections,
                   stopping>>

StopProcessing ==
    /\ processor = "select"
    /\ ctxDone
    /\ processor' = "drain"
    /\ UNCHANGED <<accepted, dispatched, open, acceptor, inHand, connections,
                   handler, wg, stopping, panicked>>

DrainConnection ==
    /\ processor = "drain"
    /\ connections # <<>>
    /\ open' = open \ {Head(connections)}
    /\ connections' = Tail(connections)
    /\ UNCHANGED <<accepted, acceptor, inHand, serving, wg, stopping, panicked>>

\* The closed channel yields nil, which is skipped: the loop goes on.
DrainNil ==
    /\ processor = "drain"
    /\ connections = <<>>
    /\ channelClosed
    /\ UNCHANGED vars

\* The default case of the drain loop: nothing to receive.
FinishDraining ==
    /\ processor = "drain"
    /\ connections = <<>>
    /\ ~channelClosed
    /\ processor' = "exited"
    /\ wg' = wg - 1
    /\ UNCHANGED <<accepted, dispatched, open, acceptor, inHand, connections,
                   handler, stopping, panicked>>

-----------------------------------------------------------------------------
(* HandleConnection, the same loop in the auth, data and view servers.     *)

CloseHandled(c) ==
    /\ handler' = [handler EXCEPT ![c] = "none"]
    /\ open' = open \ {c}
    /\ wg' = wg - 1

CheckContext(c) ==
    /\ handler[c] = "check"
    /\ IF ctxDone THEN CloseHandled(c)
                  ELSE /\ handler' = [handler EXCEPT ![c] = "read"]
                       /\ UNCHANGED <<open, wg>>
    /\ UNCHANGED <<accepted, dispatched, acceptor, inHand, connections,
                   processor, stopping, panicked>>

\* The client sent a request that does not end the connection.
HandleRequest(c) ==
    /\ handler[c] = "read"
    /\ handler' = [handler EXCEPT ![c] = "check"]
    /\ UNCHANGED <<accepted, dispatched, open, acceptor, inHand, connections,
                   processor, wg, stopping, panicked>>

\* The read fails (the client left, the deadline passed) or the request asks
\* for the connection to be closed.
StopServing(c) ==
    /\ handler[c] = "read"
    /\ CloseHandled(c)
    /\ UNCHANGED <<accepted, dispatched, acceptor, inHand, connections,
                   processor, stopping, panicked>>

-----------------------------------------------------------------------------
(* WaitForShutdown                                                         *)

running == <<accepted, dispatched, open, acceptor, inHand, connections,
             processor, handler, wg, panicked>>

ReceiveSignal ==
    /\ shutdown = "signal"
    /\ ctxDone' = TRUE
    /\ shutdown' = "closeSocket"
    /\ UNCHANGED <<running, listening, channelClosed>>

CloseSocket ==
    /\ shutdown = "closeSocket"
    /\ listening' = FALSE
    /\ shutdown' = "closeChannel"
    /\ UNCHANGED <<running, ctxDone, channelClosed>>

CloseChannel ==
    /\ shutdown = "closeChannel"
    /\ channelClosed' = TRUE
    /\ shutdown' = "wait"
    /\ UNCHANGED <<running, ctxDone, listening>>

AllFinished ==
    /\ shutdown = "wait"
    /\ wg = 0
    /\ shutdown' = "finished"
    /\ UNCHANGED <<running, ctxDone, listening, channelClosed>>

\* Mutant: no timer, the wait ends with the goroutines only.
NeverTimesOut == FALSE /\ UNCHANGED vars

ShutdownTimesOut ==
    /\ TimeoutExpires
    /\ shutdown = "wait"
    /\ shutdown' = "timedOut"
    /\ UNCHANGED <<running, ctxDone, listening, channelClosed>>

-----------------------------------------------------------------------------

\* The process ends when WaitForShutdown returns to main, or by a panic.
Alive == ~panicked /\ shutdown \notin {"finished", "timedOut"}

AcceptorStep ==
    \/ StopAccepting \/ EnqueueConnection \/ SendOnClosedChannel
    \/ CloseAndStopAccepting \/ RejectConnection

ProcessorStep ==
    \/ ServeConnection \/ ServeNil \/ StopProcessing
    \/ DrainConnection \/ DrainNil \/ FinishDraining

ShutdownStep ==
    CloseSocket \/ CloseChannel \/ AllFinished \/ ShutdownTimesOut

Next ==
    /\ Alive
    /\ \/ \E c \in Conns : Accept(c)
       \/ AcceptorStep
       \/ ProcessorStep
       \/ \E c \in Conns : CheckContext(c) \/ HandleRequest(c) \/ StopServing(c)
       \/ ReceiveSignal
       \/ ShutdownStep

Spec == Init /\ [][Next]_vars

\* Runnable goroutines run.  A read returns by itself only at its deadline;
\* clients and operators need not do anything.
FairSpec ==
    /\ Spec
    /\ WF_vars(Alive /\ AcceptorStep)
    /\ WF_vars(Alive /\ ProcessorStep)
    /\ WF_vars(Alive /\ ShutdownStep)
    /\ \A c \in Conns :
        /\ WF_vars(Alive /\ CheckContext(c))
        /\ HasReadDeadline => WF_vars(Alive /\ StopServing(c))

-----------------------------------------------------------------------------
(* Properties.                                                             *)

Served == {c \in Conns : handler[c] # "none"}

\* No connection leaks and none is used by two goroutines: an open one is in
\* the acceptor's hands, or in the channel once, or with its handler.
ConnectionsAccounted ==
    /\ open = ({inHand} \ {NoConn}) \cup Elements(connections) \cup Served
    /\ inHand \notin Elements(connections) \cup Served
    /\ Elements(connections) \cap Served = {}
    /\ \A i, j \in DOMAIN connections : connections[i] = connections[j] => i = j

\* "maintaining the order through the channel" (server.go:171): connections
\* go to their handlers in the order they were accepted, rejections aside.
DispatchedInOrder ==
    \A i, j \in DOMAIN dispatched : \A a, b \in DOMAIN accepted :
        dispatched[i] = accepted[a] /\ dispatched[j] = accepted[b] /\ i < j
            => a < b

\* A shutdown reported as complete leaves no goroutine of the server behind,
\* although the processor adds handlers while main may be waiting.
FinishedMeansStopped ==
    shutdown = "finished" =>
        acceptor = "exited" /\ processor = "exited" /\ Served = {}

Queue == INSTANCE ConnectionQueue WITH
    Limit <- MaxServerConnections,
    waiting <- IF inHand = NoConn THEN connections ELSE Append(connections, inHand),
    serving <- Served,
    gone <- Elements(accepted) \ open,
    stopping <- ctxDone

\* Acceptor, channel, processor and handlers together are one bounded queue
\* served in the order of arrival (server.go:171), whatever select takes: a
\* connection is turned away only as the newest behind a full channel or when
\* the server stops, never gets two handlers and never one after its close.
ImplementsQueue == Queue!Spec

\* A connection in the channel gets its handler even if the handlers of
\* others never return, unless the server is told to stop.
QueuedIsServed ==
    \A c \in Conns : c \in Elements(connections) ~> c \in Served \/ ctxDone

\* After a signal WaitForShutdown returns, or the process has panicked.
ShutdownReturns == ctxDone ~> ~Alive

\* "close connection channel to stop processing new connections"
\* (server.go:200): once it is closed no handler is started.
ClosedChannelStopsProcessing ==
    [][channelClosed => dispatched' = dispatched /\ ~ServeNil]_vars
=============================================================================
