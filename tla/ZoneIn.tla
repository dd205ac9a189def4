------------------------------- MODULE ZoneIn -------------------------------
(***************************************************************************)
(* A client's entry into the game: the map router makes a session for its  *)
(* address and forwards its login packet, a map instance answers with a    *)
(* burst of packets, and the session's NATS callback queues them for the   *)
(* client.  Both processes, their connections to NATS, their shutdown and  *)
(* their restarts; MapRouter has what becomes of the packets queued.       *)
(*                                                                         *)
(* A step is one query, one call of NATS or one select.  A connection to   *)
(* NATS is lost, or is back, together with the callback that says so.  A   *)
(* message of NATS is for those who are subscribed and connected when it   *)
(* is published, and for nobody else.  Packets after the login are left    *)
(* out: the instance has no handler for any other type.                    *)
(***************************************************************************)
EXTENDS Integers, Sequences

CONSTANTS
    Clients,        \* addresses of game clients, each with a character
    NoClient,
    Burst,          \* the packets of the answer to a login, in their order
    MaxLogins,      \* bound: login packets ever forwarded
    MaxFailures     \* bound: failed queries, lost connections, stops, crashes

\* In the code: the first two, an equip list for each of 16 slots, and the
\* others in this order.
Kinds == {"char update", "equip clear", "equip list", "grap list", "item max",
          "login", "enter zone"}

ASSUME ZoneAssumption ==
    /\ NoClient \notin Clients
    /\ Burst \in Seq(Kinds) /\ Burst # <<>>
    /\ MaxLogins \in Nat /\ MaxFailures \in Nat

Processes == {"router", "instance"}
Rows == {"character", "looks", "stats"}

VARIABLES
    connected,      \* the processes whose NATS connection is up
    shutdown,       \* where the main goroutine of each process is
    \* the router
    processor,      \* the goroutine that reads datagrams and handles them
    deliverer,      \* the goroutine that flushes the queues
    handled,        \* the client whose login packet is handled
    session,        \* the session of each address
    arriving,       \* messages for the callback of each session
    queued,         \* the packets each callback has queued, oldest first
    \* the instance
    worker,         \* its subscription's goroutine
    logins,         \* the messages it has not begun to process
    answering,      \* the login it is answering: its number and its client
    loaded,         \* the rows it has read for this answer
    sent,           \* how many packets of the answer are sent
    \* counters
    forwarded,      \* login packets forwarded
    failures,       \* what went wrong so far, or was stopped
    broken          \* whether more than a query failed, or a login was lost

network == <<connected, arriving>>
routerState == <<processor, deliverer, handled, session>>
instanceState == <<worker, answering, loaded, sent>>
counters == <<forwarded, failures, broken>>
vars == <<network, shutdown, routerState, queued, instanceState, logins, counters>>

\* Whether there is a session, and whether it has its character.
SessionStates == {"none", "nameless", "named"}

Login == [number : 1..MaxLogins, client : Clients, named : BOOLEAN]

\* rows: what it holds of the character, defaults standing for the others.
Packet == [number : 1..MaxLogins, index : DOMAIN Burst,
           client : Clients, rows : SUBSET Rows]

NoLogin == [number |-> 0, client |-> NoClient, named |-> FALSE]

\* Type correctness of both processes and of the messages between them.
TypeOK ==
    /\ connected \subseteq Processes
    /\ shutdown \in [Processes -> {"signal", "wait", "done", "timeout", "crashed"}]
    /\ processor \in {"select", "read", "account", "subscribe", "character",
                      "forward", "stopped"}
    /\ deliverer \in {"running", "stopped"}
    /\ handled \in Clients \cup {NoClient}
    /\ session \in [Clients -> SessionStates]
    /\ arriving \in [Clients -> Seq(Packet)]
    /\ queued \in [Clients -> Seq(Packet)]
    /\ worker \in {"start", "idle", "send", "deaf"} \cup Rows
    /\ logins \in Seq(Login)
    /\ answering \in Login \cup {NoLogin}
    /\ loaded \subseteq Rows
    /\ sent \in 0..Len(Burst)
    /\ forwarded \in 0..MaxLogins
    /\ failures \in 0..MaxFailures
    /\ broken \in BOOLEAN

Init ==
    /\ connected = Processes
    /\ shutdown = [p \in Processes |-> "signal"]
    /\ processor = "select" /\ deliverer = "running" /\ handled = NoClient
    /\ session = [c \in Clients |-> "none"]
    /\ arriving = [c \in Clients |-> <<>>]
    /\ queued = [c \in Clients |-> <<>>]
    /\ worker = "start" /\ logins = <<>>
    /\ answering = NoLogin /\ loaded = {} /\ sent = 0
    /\ forwarded = 0 /\ failures = 0 /\ broken = FALSE

Alive(p) == shutdown[p] \in {"signal", "wait"}
Cancelled(p) == shutdown[p] # "signal"

\* Something that the outside world is responsible for.
Fail ==
    /\ failures < MaxFailures
    /\ failures' = failures + 1

\* A query of p fails by itself, or because the context is cancelled.
QueryFails(p) ==
    IF Cancelled(p) THEN UNCHANGED failures ELSE Fail

QuerySucceeds(p) == ~Cancelled(p) /\ UNCHANGED failures

-----------------------------------------------------------------------------
(* The router: ProcessConnections and the handler of a login packet        *)

\* The context is looked at between two datagrams only.
Select ==
    /\ Alive("router") /\ processor = "select"
    /\ processor' = IF Cancelled("router") THEN "stopped" ELSE "read"
    /\ UNCHANGED <<network, shutdown, deliverer, handled, session, queued,
                   instanceState, logins, counters>>

\* Mutant: a login packet is forwarded whenever it comes.
ReadDatagramForwards(c) ==
    /\ Alive("router") /\ processor = "read"
    /\ forwarded < MaxLogins
    /\ processor' = IF session[c] = "none" THEN "account" ELSE "forward"
    /\ handled' = c
    /\ UNCHANGED <<network, shutdown, deliverer, session, queued,
                   instanceState, logins, counters>>

\* A login packet without a session is the beginning of one; with a session
\* it only moves the ids that MapRouter has.  A failed read, or any other
\* packet of a stranger, goes the same way.
ReadDatagram(c) ==
    /\ Alive("router") /\ processor = "read"
    /\ session[c] = "none" => forwarded < MaxLogins
    /\ IF session[c] = "none"
       THEN processor' = "account" /\ handled' = c
       ELSE processor' = "select" /\ UNCHANGED handled
    /\ UNCHANGED <<network, shutdown, deliverer, session, queued,
                   instanceState, logins, counters>>

ReadFails ==
    /\ Alive("router") /\ processor = "read"
    /\ processor' = "select"
    /\ UNCHANGED <<network, shutdown, deliverer, handled, session, queued,
                   instanceState, logins, counters>>

\* sessionCreated: the account session that names the character.
GetAccountSession ==
    /\ Alive("router") /\ processor = "account"
    /\ \/ QuerySucceeds("router") /\ processor' = "subscribe" /\ UNCHANGED handled
       \/ QueryFails("router") /\ processor' = "select" /\ handled' = NoClient
    /\ UNCHANGED <<network, shutdown, deliverer, session, queued,
                   instanceState, logins, forwarded, broken>>

\* NewSession; without a connection there is no session.
Subscribe ==
    /\ Alive("router") /\ processor = "subscribe"
    /\ IF "router" \in connected
       THEN processor' = "character" /\ UNCHANGED handled
       ELSE processor' = "select" /\ handled' = NoClient
    /\ UNCHANGED <<network, shutdown, deliverer, session, queued,
                   instanceState, logins, counters>>

\* Mutant: the login of a session without a character is not forwarded.
SetSessionOrGiveUp ==
    /\ Alive("router") /\ processor = "character"
    /\ \/ /\ QuerySucceeds("router")
          /\ session' = [session EXCEPT ![handled] = "named"]
          /\ processor' = "forward" /\ UNCHANGED handled
       \/ /\ QueryFails("router")
          /\ session' = [session EXCEPT ![handled] = "nameless"]
          /\ processor' = "select" /\ handled' = NoClient
    /\ UNCHANGED <<network, shutdown, deliverer, queued,
                   instanceState, logins, forwarded, broken>>

\* A session that cannot load its character is kept without one.
SetSession ==
    /\ Alive("router") /\ processor = "character"
    /\ \/ /\ QuerySucceeds("router")
          /\ session' = [session EXCEPT ![handled] = "named"]
       \/ /\ QueryFails("router")
          /\ session' = [session EXCEPT ![handled] = "nameless"]
    /\ processor' = "forward"
    /\ UNCHANGED <<network, shutdown, deliverer, handled, queued,
                   instanceState, logins, forwarded, broken>>

Listening == Alive("instance") /\ worker \notin {"start", "deaf"}
                /\ "instance" \in connected

\* forwardPacketToInstance, once for a session: nobody notices a login that
\* no instance listens to, and the error of a publish is only logged.
ForwardLogin ==
    /\ Alive("router") /\ processor = "forward"
    /\ forwarded' = forwarded + 1
    /\ IF "router" \in connected /\ Listening
       THEN /\ logins' = Append(logins, [number |-> forwarded + 1,
                                         client |-> handled,
                                         named |-> session[handled] = "named"])
            /\ UNCHANGED broken
       ELSE broken' = TRUE /\ UNCHANGED logins
    /\ processor' = "select" /\ handled' = NoClient
    /\ UNCHANGED <<network, shutdown, deliverer, session, queued,
                   instanceState, failures>>

\* Mutant: a goroutine per message.
QueuePacketInAnyOrder(c) ==
    /\ Alive("router") /\ arriving[c] # <<>>
    /\ \E i \in DOMAIN arriving[c] :
        /\ queued' = [queued EXCEPT ![c] = Append(@, arriving[c][i])]
        /\ arriving' = [arriving EXCEPT ![c] = SubSeq(@, 1, i - 1)
                                        \o SubSeq(@, i + 1, Len(@))]
    /\ UNCHANGED <<connected, shutdown, routerState, instanceState, logins,
                   counters>>

\* processNATSSendRequest; NATS calls it for one message after the other.
QueuePacket(c) ==
    /\ Alive("router") /\ arriving[c] # <<>>
    /\ queued' = [queued EXCEPT ![c] = Append(@, Head(arriving[c]))]
    /\ arriving' = [arriving EXCEPT ![c] = Tail(@)]
    /\ UNCHANGED <<connected, shutdown, routerState, instanceState, logins,
                   counters>>

\* DeliverPacketsToClients leaves its loop.
StopDelivering ==
    /\ Alive("router") /\ Cancelled("router") /\ deliverer = "running"
    /\ deliverer' = "stopped"
    /\ UNCHANGED <<network, shutdown, processor, handled, session, queued,
                   instanceState, logins, counters>>

-----------------------------------------------------------------------------
(* The instance                                                            *)

\* StartProcessingPackets: an error here is final, the process runs on.
StartProcessingPackets ==
    /\ Alive("instance") /\ worker = "start"
    /\ worker' = IF "instance" \in connected THEN "idle" ELSE "deaf"
    /\ UNCHANGED <<network, shutdown, routerState, queued, answering, loaded,
                   sent, logins, counters>>

\* ProcessPacket is called for one message after the other.
ProcessPacket ==
    /\ Alive("instance") /\ worker = "idle" /\ logins # <<>>
    /\ answering' = Head(logins)
    /\ logins' = Tail(logins)
    /\ worker' = "character" /\ loaded' = {} /\ sent' = 0
    /\ UNCHANGED <<network, shutdown, routerState, queued, counters>>

After(row) == CASE row = "character" -> "looks"
                [] row = "looks" -> "stats"
                [] row = "stats" -> "send"

\* Mutant: the row is noted after the next query has begun.
LoadRowNotesNext ==
    /\ Alive("instance") /\ worker \in Rows
    /\ worker' = After(worker)
    /\ \/ /\ answering.named /\ QuerySucceeds("instance")
          /\ loaded' = loaded \cup {worker'}
       \/ /\ IF answering.named THEN QueryFails("instance") ELSE UNCHANGED failures
          /\ UNCHANGED loaded
    /\ UNCHANGED <<network, shutdown, routerState, queued, answering, sent,
                   logins, forwarded, broken>>

\* Mutant: without a row there is no answer.
LoadRowOrGiveUp ==
    /\ Alive("instance") /\ worker \in Rows
    /\ \/ /\ answering.named /\ QuerySucceeds("instance")
          /\ loaded' = loaded \cup {worker}
          /\ worker' = After(worker)
       \/ /\ IF answering.named THEN QueryFails("instance") ELSE UNCHANGED failures
          /\ worker' = "idle"
          /\ UNCHANGED loaded
    /\ UNCHANGED <<network, shutdown, routerState, queued, answering, sent,
                   logins, forwarded, broken>>

\* The three queries of processLoginPacket: without a row, the answer is made
\* of defaults.  A session without a character asks for character 0.
LoadRow ==
    /\ Alive("instance") /\ worker \in Rows
    /\ \/ /\ answering.named /\ QuerySucceeds("instance")
          /\ loaded' = loaded \cup {worker}
       \/ /\ IF answering.named THEN QueryFails("instance") ELSE UNCHANGED failures
          /\ UNCHANGED loaded
    /\ worker' = After(worker)
    /\ UNCHANGED <<network, shutdown, routerState, queued, answering, sent,
                   logins, forwarded, broken>>

buildCharacterGrapIDs(rows) == rows \cap {"looks"}

\* Name, id and position; gender and size come with the looks.
CreateCharacterUpdatePacket(rows) ==
    (rows \cap {"character"}) \cup buildCharacterGrapIDs(rows)

\* The same, and jobs, HP and MP of the stats.
CreateLoginPacketFromCharacter(rows) ==
    (rows \cap {"character", "stats"}) \cup buildCharacterGrapIDs(rows)

\* Equipment, bags and visited zones are constants as yet.
MadeOf(kind, rows) ==
    CASE kind = "char update" -> CreateCharacterUpdatePacket(rows)
      [] kind = "grap list" -> buildCharacterGrapIDs(rows)
      [] kind = "login" -> CreateLoginPacketFromCharacter(rows)
      [] OTHER -> {}

\* The session subscribes before it is put in the map.
Subscribed(c) ==
    /\ Alive("router")
    /\ session[c] # "none" \/ (processor = "character" /\ handled = c)

Published(p, c) ==
    IF /\ "instance" \in connected /\ "router" \in connected
       /\ Subscribed(c)
    THEN arriving' = [arriving EXCEPT ![c] = Append(@, p)]
    ELSE UNCHANGED arriving

\* sendPacket; an error is logged and the next packet is sent all the same.
SendPacket ==
    /\ Alive("instance") /\ worker = "send"
    /\ sent' = sent + 1
    /\ Published([number |-> answering.number, index |-> sent + 1,
                  client |-> answering.client,
                  rows |-> MadeOf(Burst[sent + 1], loaded)],
                 answering.client)
    /\ worker' = IF sent + 1 = Len(Burst) THEN "idle" ELSE "send"
    /\ UNCHANGED <<connected, shutdown, routerState, queued, answering, loaded,
                   logins, counters>>

-----------------------------------------------------------------------------
(* Stopping and starting                                                   *)

\* OnNATSDisconnected, OnNATSReconnected: until the connection is back, a
\* publish or a subscription fails; subscriptions outlast it.
Disconnected(p) ==
    /\ Alive(p) /\ p \in connected
    /\ Fail /\ broken' = TRUE
    /\ connected' = connected \ {p}
    /\ UNCHANGED <<arriving, shutdown, routerState, queued, instanceState,
                   logins, forwarded>>

Reconnected(p) ==
    /\ Alive(p) /\ p \notin connected
    /\ connected' = connected \cup {p}
    /\ UNCHANGED <<arriving, shutdown, routerState, queued, instanceState,
                   logins, counters>>

\* WaitForShutdown: a signal, the context is cancelled ...
Signal(p) ==
    /\ shutdown[p] = "signal"
    /\ Fail /\ broken' = TRUE
    /\ shutdown' = [shutdown EXCEPT ![p] = "wait"]
    /\ UNCHANGED <<network, routerState, queued, instanceState, logins, forwarded>>

\* ... and the goroutines counted in the wait group have returned: in the
\* instance there is one, which never tells the group.
Finished(p) ==
    /\ shutdown[p] = "wait"
    /\ p = "router" /\ processor = "stopped" /\ deliverer = "stopped"
    /\ shutdown' = [shutdown EXCEPT ![p] = "done"]
    /\ UNCHANGED <<network, routerState, queued, instanceState, logins, counters>>

\* Mutant: the router waits for its goroutines without a timeout.
TimeoutUnlessReported(p) ==
    /\ shutdown[p] = "wait" /\ p = "instance"
    /\ shutdown' = [shutdown EXCEPT ![p] = "timeout"]
    /\ UNCHANGED <<network, routerState, queued, instanceState, logins, counters>>

\* ... or have not.  Either way the process ends.
Timeout(p) ==
    /\ shutdown[p] = "wait"
    /\ shutdown' = [shutdown EXCEPT ![p] = "timeout"]
    /\ UNCHANGED <<network, routerState, queued, instanceState, logins, counters>>

Crash(p) ==
    /\ Alive(p)
    /\ Fail /\ broken' = TRUE
    /\ shutdown' = [shutdown EXCEPT ![p] = "crashed"]
    /\ UNCHANGED <<network, routerState, queued, instanceState, logins, forwarded>>

\* A new process knows nothing of the old one.
RestartRouter ==
    /\ ~Alive("router")
    /\ shutdown' = [shutdown EXCEPT !["router"] = "signal"]
    /\ connected' = connected \cup {"router"}
    /\ processor' = "select" /\ deliverer' = "running" /\ handled' = NoClient
    /\ session' = [c \in Clients |-> "none"]
    /\ arriving' = [c \in Clients |-> <<>>]
    /\ queued' = [c \in Clients |-> <<>>]
    /\ UNCHANGED <<instanceState, logins, counters>>

RestartInstance ==
    /\ ~Alive("instance")
    /\ shutdown' = [shutdown EXCEPT !["instance"] = "signal"]
    /\ connected' = connected \cup {"instance"}
    /\ worker' = "start" /\ logins' = <<>>
    /\ answering' = NoLogin /\ loaded' = {} /\ sent' = 0
    /\ UNCHANGED <<arriving, routerState, queued, counters>>

-----------------------------------------------------------------------------

HandleLogin == GetAccountSession \/ Subscribe \/ SetSession \/ ForwardLogin

Answer == StartProcessingPackets \/ ProcessPacket \/ LoadRow \/ SendPacket

ShutDown(p) == Finished(p) \/ Timeout(p)

Next ==
    \/ Select \/ ReadFails \/ (\E c \in Clients : ReadDatagram(c))
    \/ HandleLogin \/ StopDelivering
    \/ \E c \in Clients : QueuePacket(c)
    \/ Answer
    \/ \E p \in Processes : \/ Disconnected(p) \/ Reconnected(p)
                             \/ Signal(p) \/ ShutDown(p) \/ Crash(p)
    \/ RestartRouter \/ RestartInstance

Spec == Init /\ [][Next]_vars

\* Goroutines that can go on do, and the timer of a shutdown runs out.
\* Clients, signals, connections and restarts owe nothing.
FairSpec ==
    /\ Spec
    /\ WF_vars(Select) /\ WF_vars(HandleLogin) /\ WF_vars(Answer)
    /\ \A c \in Clients : WF_vars(QueuePacket(c))
    /\ \A p \in Processes : WF_vars(ShutDown(p))

-----------------------------------------------------------------------------
(* Properties.                                                             *)

\* What is on its way to a client, oldest first.
ForClient(c) == queued[c] \o arriving[c]

\* The packets of an answer reach the queue in the order they were sent, and
\* those of an earlier login before those of a later one: lost connections,
\* a session made anew while an old answer is still being sent, and restarts
\* of either process leave holes, but never swap two packets.
BurstsInOrder ==
    \A c \in Clients :
        LET packets == ForClient(c) IN
        \A i \in 1..Len(packets) - 1 :
            \/ packets[i].number < packets[i + 1].number
            \/ /\ packets[i].number = packets[i + 1].number
               /\ packets[i].index < packets[i + 1].index

\* While nothing has gone wrong, a client is sent one answer without a hole,
\* however often it repeats its login packet, and made of its own rows: the
\* "Adventurer" of a default is always a failure's.
OneAnswer ==
    failures = 0 => \A c \in Clients : \A i \in DOMAIN ForClient(c) :
        LET p == ForClient(c)[i] IN
        /\ p.client = c /\ p.index = i
        /\ p.rows = MadeOf(Burst[i], Rows)
        /\ p.number = ForClient(c)[1].number

\* Until a connection or a process is interrupted, a session's only login is
\* in one place on its way, and what has come of it is a beginning of the
\* burst, as long as the instance has counted, whatever queries failed.  A
\* login dropped between the router's steps, NATS and the instance's would
\* leave the client without an answer, in silence.
AnswerUnderway ==
    ~broken => \A c \in Clients : session[c] # "none" =>
        /\ \A i \in DOMAIN ForClient(c) : ForClient(c)[i].index = i
        /\ \/ processor = "forward" /\ handled = c /\ ForClient(c) = <<>>
           \/ (\E j \in DOMAIN logins : logins[j].client = c) /\ ForClient(c) = <<>>
           \/ /\ worker \in Rows \cup {"send"} /\ answering.client = c
              /\ Len(ForClient(c)) = sent
           \/ Len(ForClient(c)) = Len(Burst)

\* A session brings the whole answer, even if every query about the
\* character fails, unless a connection or a process was interrupted or no
\* instance had subscribed yet: then the login is not forwarded again, and
\* the client may wait for ever.
LoginAnswered ==
    \A c \in Clients :
        (session[c] # "none" /\ ~broken)
            ~> (broken \/ Len(queued[c]) = Len(Burst))

\* A process that is told to stop ends, although the router's read has no
\* deadline and its socket stays open, and the instance's goroutine never
\* reports that it has returned.
ShutdownReturns ==
    \A p \in Processes : (shutdown[p] = "wait") ~> ~Alive(p)
=============================================================================
