# GoFFXI in TLA+

GoFFXI is a server for a multiplayer game, written in Go. This directory holds
TLA+ models of the parts of it that are concurrent or keep shared state, the
TLC configurations that check them on small instances, and proofs of their
main properties for instances of any size.

| module | role |
| --- | --- |
| `MapRouter` | the UDP router between game clients and map instances |
| `OrderedDelivery` | the delivery promise that `MapRouter` implements |
| `MapRouterProofs` | theorems about `MapRouter` |
| `TcpServer` | the connection server embedded in the three lobby processes |
| `ConnectionQueue` | the queue of connections that `TcpServer` implements |
| `TcpServerProofs` | theorems about `TcpServer` |
| `CharacterStore` | the character tables and the lobby requests that write them |
| `CharacterTable` | the table of characters that `CharacterStore` implements |
| `CharacterStoreProofs` | theorems about `CharacterStore` |
| `LobbySession` | a visit to the lobby: login, data and view connections, NATS, the account session |
| `AccountSessions` | the sessions of accounts that `LobbySession` implements |
| `LobbySessionProofs` | theorems about `LobbySession` |
| `AuthAccounts` | the auth server's requests on accounts, passwords, bans and TOTP |
| `AuthAccountsProofs` | theorems about `AuthAccounts` |
| `FFXICodec` | the bit coding of datagrams, both directions |
| `FFXICodecProofs` | theorems about `FFXICodec` |
| `ZoneIn` | a client's entry into the game: router and map instance, NATS, shutdown, restarts |
| `ZoneInProofs` | theorems about `ZoneIn` |
| `MC*` | instances of the above for TLC; each `.cfg` is one run |

`PROJECT.json` maps every definition to the lines of the source it models and
lists the runs, the mutants (a plausible bug for each checked property, which
must make the property fail), the hazards and the theorems.

## 1. Inventory

Five server processes and a migration command share one MySQL database and
one NATS broker. There is no other shared state between processes; inside a
process, goroutines share Go memory.

    client --TCP--> lobby-auth   accounts, TOTP, creates the account session
    client --TCP--> lobby-data   lists and confirms characters   \ NATS
    client --TCP--> lobby-view   creates, deletes, selects       / session.<key>.*
    client --UDP--> map-router --NATS map.instance.<id>--> map-instance
                    map-router <--NATS map.router.<id>.<addr>.send--'

**TCP server** (`internal/servers/base/tcp/server.go`, the three lobby `main`s).
State: the listener, a buffered channel of connections, a context, a wait
group. Operations: `AcceptConnections`, `ProcessConnections` (a goroutine per
connection), `WaitForShutdown`. Hard: the select statements of three
goroutines race each other at shutdown; the channel is closed while both ends
use it; a full channel. Correct when no connection leaks or has two owners,
connections are handled in order, a blocked handler blocks nobody else, and
the shutdown returns, having stopped what it says it has stopped.

**UDP server** (`internal/servers/base/udp/server.go`, `cmd/map-router`). State:
a socket, a context, a wait group. `ProcessConnections` reads datagrams and
calls the handler one after the other; `WaitForShutdown`. Hard: the read has no
deadline, and the socket is not closed at shutdown.

**Map router** (`internal/servers/map/router`). State: sessions by client
address, a packet queue per client, and in each session the last server packet
id, the last client packet id, the header to mirror and the Blowfish key. Three
kinds of goroutine: the datagram handler, a NATS callback per session, and
the flusher on a 50 ms ticker. Two mutexes guard the two maps; the fields of a
session have no lock. Hard: bursts that fail half-way and are tried again,
packets queued meanwhile, acknowledgements that race the flusher, ids that wrap
around, reordered or repeated datagrams, restarts, the login forwarded only
once. Correct when every packet an instance publishes reaches its client in
order, at least once, with consecutive ids.

**Map instance** (`internal/servers/map/instance`). Subscribes to its subject
once, at its start; NATS calls its handler for one message after the other. A
login is answered with 22 packets in a fixed order, made of three rows or of
defaults. Hard: the login is published once and only to those who listen at
that moment; errors half-way through the burst are only logged; a router that
has restarted sees the rest of an old answer; the goroutine that subscribes
never calls `wg.Done`. Correct when answers are never mixed up or out of order, a
login is answered unless something was interrupted, and the process stops.

**View server** (`internal/servers/lobby/view`). A goroutine and a session
context per connection (session key, account id, requested name, selected
character, NATS subscriptions). Requests: lobby login, get character, world
list, create character (two requests), delete, select. NATS callbacks on
`session.<key>.view.{close,send,account.id}` run beside the handler. Hard: state
kept between requests, callbacks without locks, checks and writes in separate
queries. Correct when characters stay whole, unique, within the limit and their
owner's.

**Data server** (`internal/servers/lobby/data`). The same shape; subjects
`session.<key>.data.{close,send,character.freshlogin,character.selectID}`.
Requests: get characters (publishes the account id to the view), select
character (writes the row back, tells the view to answer the client, replaces the
session's key). Hard: messages on different subjects are not ordered with each
other; the client is answered before the account session is written.

**Auth server** (`internal/servers/lobby/auth`). JSON requests: create account,
attempt login, change password, create, verify and remove TOTP, regenerate the
recovery code. State in the tables `accounts`, `account_totps`, `account_bans`,
`account_sessions`. Hard: delete and insert of the session in two queries; the
primary key of `account_sessions` is the character id, 0 for every session
without a character; TOTP creation and verification in separate requests.

**Database** (`internal/database`). Queries, each committed on its own:
`RunInTx` exists and is never called. `UpdateCharacter` writes every column.

**NATS connections** (`*/nats.go`). A disconnect sets the connection to nil, a
reconnect sets it again; most publish errors are ignored.

**Pure algorithms**: the bit codec of datagrams (`internal/tools/zlib`),
Blowfish (`internal/tools/blowfish`), the size arithmetic of sub-packets, the
offset of a character in the character list. Correct, for the codec, when what
is decompressed is what was compressed, whatever the buffers and the bit count.

**Not state**: packet layouts (`internal/packets`), configuration, the
migrations, build files.

## 2. What is modelled

### MapRouter

One step is one access to a map under its mutex, or one read or one write of
an unlocked session field; everything a goroutine does in between only touches
its own locals. `handler` and `flusher` hold those locals with a program
counter; the callback does everything in one step.

| action | code |
| --- | --- |
| `CreateSession`, `ReceivePacket` | `HandleIncomingPacket` up to the ack |
| `ReadServerID`, `UpdateServerAckFromClient` | `updateServerAckFromClient`: read, then compare and write |
| `ForwardLogin`, `ProcessEncryptedPacket` | the rest of the handler |
| `ProcessNATSSendRequest` | the callback in `session.go` |
| `Tick`, `PickSession`, `DequeuePackets` | `flushPendingPackets`, `flushSessionQueue`, `dequeuePackets` |
| `BuildPayload`, `PacketExceedsBudget`, `SendFails`, `WriteToUDP`, `StoreServerID` | `sendPacketBurst` and what it calls, error paths included |
| `CancelContext`, `StopDelivering` | shutdown |

`wire` is the sequence of datagrams written to each client. The router takes an
acknowledgement as it comes, from the first login on and before the checksum, so
it may be any id (`Acks`). `Honest` clients acknowledge ids they were sent
(`Seen`), old ones too, which covers delayed, repeated and reordered datagrams; a
lost one is one never received. A packet is its number in the order of arrival
plus a size. One that no datagram can hold fails with every tick, for ever; only
the first of these failures counts, unless packets in front of it are written
again each time.

`OrderedDelivery` is the promise: deliveries are runs of consecutive packets, and
a run may be repeated but never starts beyond what was delivered. `MapRouter`
implements it with `delivered` read off `wire`; that everything is delivered in
the end is `EverythingDelivered`.

Left out: the client packet id and the header mirrored back, encryption and the
character row, which no property tells apart; sessions are never removed in
the code (`Session.Close` has no caller).

### TcpServer

One step is one select, channel or socket operation. `processor`, `acceptor`
and `shutdown` are the program counters of the three goroutines, `handler` that
of each connection's goroutine, in the loop that auth, data and view share. A
closed channel is always ready to receive (`ServeNil`, `DrainNil`) and panics on
a send (`SendOnClosedChannel`). `Alive` is false once the process has exited.

`ConnectionQueue` is the promise: one queue, served from its front; only the
newest connection is turned away, when as many wait as may wait or the server
stops, and a server that stops may close the first ones. `TcpServer` implements
it, where `waiting` is the channel and then the connection in the acceptor's
hand, and the limit is `MaxServerConnections`, the capacity of the channel.

### CharacterStore

One step is one query, or the local work between two. The tables are a sequence
of rows (the auto-incremented id is the index) and three sets of ids. `view` and
`data` hold what a request keeps between its queries. `ViewFails` and
`DataFails` stand for a failed query, a closed connection or a stopped process
between any two steps. `interrupted` records the creations cut short: no
variable of the code, only what a log would show, used by one property.

`CharacterTable` is what the requests amount to as wholes: a character is created
under a new name, and deleted or selected by its owner; a selection that began
while the character was active may end after a deletion and undo it, and nothing
else does. `CharacterStore` implements it: `characters` are the rows without what
the requests add to them, and a selection lasts from its read of the row to its
update (`selecting`). The queries in between are stutters.

### LobbySession

The composition of the lobby's servers, through what they share: the messages
of the subjects `session.<key>.*` and the row of `account_sessions`. A login has a
view and a data connection; `inbox` holds, for each subject a connection has
subscribed to, the messages its callback has not run for. Subjects are queues
of their own, so two messages published one after the other may be handled in
either order; without a subscriber a message is gone; a publish may fail.

| action | code |
| --- | --- |
| `ClearSessions`, `CreateSession`, `CreateFails` | the two queries of `attempt-login` |
| `ConnectView`, `DisconnectView`, `ConnectData`, `DisconnectData` | the connection loops |
| `SubscribeView`, `KeepAlive` | `SetupSubscriptions`, by a request that does nothing else |
| `CloseView`, `CloseData` | `Close`, when a callback calls it |
| `GetCharacter`, `SelectCharacter`, `RefuseSelection` | the view's requests |
| `GetCharacters`, `GetCharactersFails`, `RefuseCharacters`, `ConfirmSelection`, `RefuseConfirmation` | the data server's requests, up to their publish |
| `UpdateAccountSession`, `UpdateFails` | the query after the publish of `select-character` |
| `OnView...`, `OnDataSend`, `OnDataSendFails`, `OnSelectID` | the NATS callbacks |
| `ViewPanics`, `DataPanics` | a write to the connection of a closed context |
| `EnterMap` | `sessionCreated` of the map router |

`client` is the game and its loader, outside the repository: it answers the
commands the data server relays and waits for the answer to a selection, but
may leave and come back at any moment. The mark of a fresh character, the data
server's close subject (nothing publishes on it) and the ban check are left out.
Characters keep their owner.

A session context has no lock. `Close` unsubscribes, closes the connection and
sets it to nil, in the handler when the connection ends or in a callback at any
moment, and what else runs on the context goes on:

* the handler keeps the request it has read (`"closed"`), carries it out and may
  subscribe again; only then does it return and close the context once more. The
  update of a confirmation comes after the close in the same way;
* a callback that has its message runs late, on its old context (`Unsubscribe`
  leaves it the first message of its subject);
* whoever writes to the connection now fails, or finds nil and panics. A panic
  in a goroutine ends the server, with the connections of all logins.

Left out are two calls of `Close` at once and `Close` during `SetupSubscriptions`
(which may leak a subscription), and two contexts of one login on one server at
the same time: a client comes back when the callbacks of its last connection have
run.

`AccountSessions` is the visit without servers, connections and messages: logins
clear and create the session of their account, choose a character of theirs for
it, are told which one, and enter the map. `LobbySession` implements it, where
`sessions` is the table `account_sessions`, `told` and `admitted` are what the
clients have seen, and a login is in when its request was answered. Every
message and every callback is a step of this, of one login, or a stutter: so no
login, however its messages are delayed, touches another account's session.

### AuthAccounts

One step is one query and the checks that follow it in the code. `request`
holds what a connection's request has read so far; the requests of all
connections interleave between their queries.

| action | code |
| --- | --- |
| `CheckAccountExists`, `InsertAccount` | `create-account`; the unique index decides |
| `GetAccountByUsername`, `CheckBan`, `CheckTOTP` | the lookups and checks that the six other requests share, in their order; `ComparesPassword` and `Accepts` say which request asks for what |
| `CompleteLogin` | `attempt-login`, which goes on with the session queries of `LobbySession` |
| `UpdateAccount` | `change-password` |
| `CreateAccountTOTP`, `VerifyTOTP`, `DeleteAccountTOTP`, `RegenerateRecovery` | the writes of the TOTP requests |
| `QueryFails` | any query fails, or the server stops between two |
| `Ban`, `BanRunsOut` | the table `account_bans`, which something else writes |

Secrets and recovery codes are random in the code and numbers that never
repeat in the model; the number of a secret stands for a code that is valid at
the moment. `held`, `answered` and `created` are history: which checks were
true at some moment of a request, which codes were sent to a client, how many
creations were answered with success. Left out: the loader's version check, the
hashing of passwords, and the TOTP's time steps.

### FFXICodec

`Compress` and `Decompress` are loops; an iteration is a step. `CompressByte`,
`Overflow` and `Compressed` are `compressSub` and `Compress`, with
`fillOverflowOutput`; `Start`, `ReadBit`, `Malformed` and `Decompressed` are
`Decompress`. The two tables are constants: `TablesAssumption` is what the
resource files owe each other (the code of each byte leads from the root of the
jump table to a leaf with this byte) and what `populateJumpTable` insists on (the
root and every pointer lead into the table). `jumpEntryAt` adds to a pointer
unchecked, so the assumption also asks that a pointer leads to a whole node
(`InTable`), which the code leaves to the file. The repository's `compress.dat`
and `decompress.dat` were read and satisfy it for all 256 bytes, with codes of 1
to 12 bits, hence also the bound of `BuffersAssumption`.

The bit count handed to `Decompress` is the one of the data, with or without the
first byte's bits, or any of `Counts`: it comes with the datagram. So a success
may be a part of the payload, as much as the count and the buffer leave room
for, and `RoundTrip` says which part.

### ZoneIn

Two processes and what NATS carries between them.

| action | code |
| --- | --- |
| `Select`, `ReadDatagram`, `ReadFails` | the router's `ProcessConnections`; the socket of `internal/servers/base/udp` |
| `GetAccountSession`, `Subscribe`, `SetSession`, `ForwardLogin` | the handler of a first login packet |
| `QueuePacket` | the session's callback |
| `StopDelivering` | the flusher at shutdown |
| `StartProcessingPackets`, `ProcessPacket`, `LoadRow`, `SendPacket` | the instance: its subscription, and the answer to a login |
| `Disconnected`, `Reconnected` | the callbacks of `nats.go` |
| `Signal`, `Finished`, `Timeout` | `WaitForShutdown` of both processes |
| `Crash`, `RestartRouter`, `RestartInstance` | a process ends, a new one starts with nothing |

A message is for those who are subscribed and connected when it is published.
`Burst` is the list of packets of an answer; a packet carries which rows it is
made of, the rest of its content is layout. `broken` is history: a connection
or a process was interrupted, or a login reached nobody. Packets after the
login are left out, since the instance has no handler for them. What happens
to the queued packets is `MapRouter`'s part: the two modules meet at
`packetsToSend`, which `QueuePacket` here and `ProcessNATSSendRequest` there fill.

## 3. Runs

| run | question | bounds |
| --- | --- | --- |
| `router_two_clients` | is a packet ever lost, overtaken, or repeated without need? are ids consecutive? | two clients, one of them honest, three packets for it and one for the other, any of the three may exceed the budget, one failed burst, ids modulo 3 |
| `router_channel` | does the router implement the promise, and deliver everything to each client? | two clients, two packets for one and one for the other, which may exceed the budget, one failed burst, ids modulo 2 |
| `tcp_server` | does it implement the queue? leaks, shutdown, liveness | three connections, a channel of two, no read deadline |
| `tcp_closed_channel` | does closing the channel stop processing? *violated* | three connections, a channel of one |
| `characters` | do the queries implement the table? names, completeness, the limit of an account used alone | two accounts, two view connections, one data connection, three characters, limit two |
| `characters_shared_account` | the limit of an account with two connections, *violated* | one account, two view connections, limit one |
| `characters_undelete` | does a deletion last? *violated* | one account, a view and a data connection |
| `lobby_visit` | do the handlers implement the sessions of accounts, contexts that close under them included? which key does the router use, does a client that was sent to the router get in? | one account, two logins, one of which visits the lobby; two characters and a deleted one; two selections, one message waiting per subject, one failure, panics |
| `lobby_stale_login` | does a login end the previous one? *violated* | the same, one selection, no failure |
| `accounts` | do checks made on rows read earlier still protect the account? can its owner use what protects it? | two connections, one account name and one password, each also with a space around it, four codes |
| `codec` | what of a payload comes back, for any buffers and count? | payloads of up to four bytes of two bits, codes of one to three bits, buffers of 1 to 5 and 7 bytes and the router's, of 0 to 4 and 6 bytes to decompress into, eight counts from 0 to 16 besides the data's own |
| `zone_in` | where is a session's login? is an answer complete and in order, through lost connections, crashes and restarts? do both processes stop? | two clients, an answer of two packets, two logins forwarded, two failures |

Why the bounds are enough. Three packets are the fewest that allow a burst of two
datagrams with more than one packet in one of them and a packet that arrives while
the burst is out; the second client, with one packet, comes before, between or
after, and may stay in the queue for ever. Ids modulo 2 or 3 wrap around within
three datagrams, but soon allow nearly every id: there the proof says more than
the run. A channel of two with three connections can be full, hold two in an
order, and reject. Three characters exceed a limit of two, and three names (two
and the empty one, which a client sends by skipping the first creation request)
are enough for one to be taken by another account. All counters that could grow
(`MaxQueued`, `MaxFailures`, `MaxCharacters`) are bounds of the model only. Two
logins are enough for one to replace the session of the other at any point of its
visit (`Visitors` bounds how many go further than logging in); two selections let
the second overtake the confirmation of the first, and for that one message
waiting per subject is enough, as the messages of a selection and of its
confirmation are on different subjects (the proofs are for any number); the
deleted character belongs to account 0, as a connection that has not learnt its
account does. Two connections suffice for a request to act on a row that another
has changed since, as a request only looks at one account; four codes are two for
a row and two that replace its recovery code or make a second row. The codes of
the small codec have all the shapes that matter (a path that ends at each depth,
both branches), the smaller buffers overflow at every position, the counts end
inside and at the ends of codes and of bytes, and the proofs are for any tables,
buffers and counts. Two logins are one per client, or two of one client whose
first session was lost with the router; two failures are one of each process, or a
failure during the recovery from another; an answer of two packets can be cut in
the middle, and the proofs are for answers of any length. `CHECK_DEADLOCK FALSE`
is set where the process exits (TcpServer), the bound on rows ends the behaviour
(CharacterStore), the visit is over (LobbySession) or the loops have ended
(FFXICodec).

Fairness. The router's `FairSpec` has weak fairness of the handler's and the
flusher's steps: the goroutines are runnable and the ticker keeps firing. Clients
and instances owe nothing. Failed bursts are bounded, but for those of a packet
that is too large, so `EverythingDelivered` means: once bursts stop failing, to
each client for which no such packet waits. TcpServer's has weak fairness of the
acceptor's, the processor's and the shutdown's steps and of each handler's context
check; a read ends by itself only where the handler sets a deadline (auth does,
data and view do not). No step of a client, no signal and no Accept is fair.
LobbySession's has weak fairness of `FinishConfirmation`, the rest of a handler
that is running, and of `EnterMap`: the client repeats its login packet until the
router knows it. `ToldIsAdmitted` excuses what takes the session away: a failed
query, publish or write, a panic, another login of the account, a second
selection. ZoneIn's has weak fairness of the goroutines that can go on (`Select`,
`HandleLogin`, `Answer`, the callbacks) and of `ShutDown`, whose timer runs out.
Clients, signals, reconnections and restarts owe nothing: a datagram need never
arrive, and `ReadDatagram` is not fair.

### What the violated runs show

* `tcp_closed_channel`: `close(s.connections)` makes every receive ready, so the
  processor may go on serving what is queued and then start a handler with a
  nil connection.
* `characters_shared_account`: count and insert are two queries.
* `characters_undelete`: a select that read the row before a deletion restores it.
* `lobby_stale_login`: the update of the account session goes by account id, and a
  login leaves the previous login's connections alone.

More is read off the models that no run is about, as no line of the repository
denies it; the hazards in `PROJECT.json` say so one by one. For instance: an
acknowledgement is compared as a plain `uint16`, so that an old one wins after a
wrap-around; it is stored without a lock, so that the id counter may go back (ids
then repeat, and `NoSkippedId` says that none is skipped for an honest client); a
confirmation or a callback on a closed context panics and ends the lobby server;
and the drain at shutdown may take nil connections from the closed channel until
the timeout.

## 4. Theorems

All are of the form `Spec => []Inv` or `Spec => [][A]_vars`, or state that a
module implements its abstract specification, and hold for every value of the
constants that satisfies the module's named assumption. Every safety property
of a passing run is a theorem. Three more theorems are about properties that no
run checks, as the refinements that the runs check imply them:
`HandlersStartInOrder`, `OnlyOwnersWrite` and `SessionsAreOwned`.

**MapRouterProofs.** `TypeCorrect`, `PacketsAreNotLost`, `PacketsAreInOrder`,
`IdsAreNotSkipped`, `PacketsAreNotRepeated`, `RouterImplementsChannel`. `Local`
adds to the type invariant what the flusher's program counter says about its
locals. `NothingLost` and `InOrder` are not inductive: `DeliveryInv` adds that the
packets in the burst and then in the queue are numbered consecutively up to the
last accepted (`Numbering`), that everything before the first of them is on the
wire (`Covered`), and what is known between a write and the store of its id
(`JustWritten`). `IdInv` says that an honest client's counter is always an id that
was written, or 0, or about to be stored; it holds against its acknowledgements
because those are ids that were written, and against those of the other clients
because each session has a counter of its own. `OnceInv` says that without a
failure nothing on the wire goes beyond the last packet written (`UpToLast`),
where a datagram counts as written before its id is stored. The refinement needs
`RunInv`: a datagram carries consecutive packets, so that what is on the wire is
what the channel has delivered (`OnWireIsDelivered`); each step is then an offer,
a delivery, a close or a stutter (`StepRefines`).

**TcpServerProofs.** `TypeCorrect`, `ConnectionsAreAccounted`, `FinishedIsStopped`,
`HandlersStartInOrder`, `ServerImplementsQueue`. `TcpInv` adds that the wait group
equals the number of goroutines that have not returned (`Counted`), unless the
process has panicked, and that every open connection was accepted once.
`FinishedMeansStopped` follows from `Counted` when the wait group is zero; that is
where the order of `wg.Add` and `go` matters. `LineInv` says that the
connections dispatched, then those in the channel, then the one in the acceptor's
hand are in the order in which they were accepted. The refinement needs what
this says of the three places a connection can be in (`WaitingFacts`) and that
only a server that was told to stop drains the channel (`DrainInv`).

**CharacterStoreProofs.** `TypeCorrect`, `IncompleteIsExplained`,
`NamesAreUnique`, `OnlyOwnersWrite`, `LimitIsKeptAlone`, `StoreImplementsTable`.
`StoreInv` adds that a request in progress refers to a row that exists, and that
what a deletion or a selection has read agrees with the row on its name and its
owner (`Holds`), though not on whether it is deleted: that is the difference the
run `characters_undelete` exploits. For the limit, `LimitInv` says of an account
with one connection that it has room for one more while that connection is between
check and insert (`Room`), and that what this connection has read to write back is
not deleted meanwhile (`Kept`). It is the only place that counts, hence the
assumption that there are finitely many connections. The refinement rests on
`StoreInv`: a view's insert is a `Create`, as the unique index refuses a name that
has been taken since it was reserved (`ViewSteps`), and a data connection's update
writes back a row that differs from the present one in its state at most
(`DataSteps`).

**LobbySessionProofs.** `TypeCorrect`, `SessionsAreOwned`, `AdmissionsAreOwned`,
`LobbyImplementsSessions`. What a session may name depends on two checks of two
servers, with account ids that travel as messages; so `LobbyInv` says of each
login which account and character its connections may hold (`DataInv`, `ViewInv`)
and what may wait on each subject (`InboxInv`, by `Allowed`), and of each account
that the key of its session is replaced together with the character
(`SessionInv`). That is what `EnterMap` relies on (`AdmissionInv`). A step touches
one login and the session of its account (`StepInv`, `StepSuffices`), but for a
panic, which only takes away (`ViewPanicsStep`, `DataPanicsStep`). None of this
asks whether a connection is open: what a closed context holds, and the message a
late callback has, were allowed when they came there. In the run only one of the
two logins visits the lobby; the theorems are for any number of visitors. The
refinement adds that whatever connection holds or request runs belongs to a login
that was answered (`ActiveInv`); each handler is then a step of that login.

**AuthAccountsProofs.** `TypeCorrect`, `PasswordsAreProven`,
`SecondFactorsAreProven`, `BansAreRespected`, `ValidatedAreUsable`,
`ProtectionLasts`, `AccountsAreCreatedOnce`. `CodesInv` bounds every code by
those drawn. `HeldInv` says which checks a request at each point has behind it: a
row that was read is the account's at that moment, whatever it is later. `ToldInv`
is why late writes do no harm: the secret of any row, in the table or in a
request, was sent when the row was made, and its recovery code when it was
validated. `NamesInv` ties the creations answered to the accounts that exist.

**FFXICodecProofs.** `TypeCorrect`, `PayloadsComeBack`, `OverrunsAreRejected`,
`RouterBuffersSuffice`, for any tables that satisfy `TablesAssumption`. `CodecInv`
has two halves. While compressing, the bits are the codes of the bytes so far,
one after another, each from the place that `starts` notes (`Written`). While
decompressing, as many payload bytes as have been written are right and the decoder
stands on the path of the next one, as many nodes down as bits were read since
its start (`Position`). The arithmetic of bits in bytes is in lemmas on division.
The type of the decoder's place in the table (`TypeCorrect`) is where the code's
own checks of the tables are needed: malformed input may take any path.

**ZoneInProofs.** `TypeCorrect`, `BurstsAreInOrder`, `OneAnswerEach`,
`LoginsAreUnderway`. `Control` says what the program counters of both processes
say about their locals. `OrderInv` adds to the order of what a client has that
all of it is older (`Past`) than what the instance is still to send, and the
logins waiting newer still. The other two theorems hold while nothing was
interrupted (`Undisturbed`), and `OneInv` says what that gives: both processes
run and are connected (`Steady`) and a client has one login (`OneLogin`), which
waits, is being answered or is answered. `CalmInv` adds, without a failure, that
the rows of an answer were loaded (`Calm`). `UnderwayInv` adds, for every session
of the router, that its login is in one of those places: published by the handler
next, waiting at the instance, being answered, or answered to its last packet.
`LoginsAreUnderway` is the safety core of `LoginAnswered`: what liveness adds is
only that the instance goes on.

Only model-checked: liveness (`EverythingDelivered`, `QueuedIsServed`, both
`ShutdownReturns`, `ToldIsAdmitted`, `LoginAnswered`), which the prover does not
reach, as it has no rules for `ENABLED`.

## 5. Plan

Done, in this order: `MapRouter` with `OrderedDelivery`, `TcpServer`,
`CharacterStore`, `LobbySession`, `AuthAccounts`, `FFXICodec`, `ZoneIn`, each with
its proofs; the refinements of `OrderedDelivery`, `CharacterTable`,
`ConnectionQueue` and `AccountSessions`; every safety property of the passing
runs (section 4).

Left, in the order of what they would add:

1. What the auth server promises of an account, as an abstract specification that
   `AuthAccounts` implements: each request one step, guarded by checks that were
   true at some moment of it.
2. The safety core of `ToldIsAdmitted`, as `LoginsAreUnderway` is that of
   `LoginAnswered`; and `MapRouter` and `ZoneIn` composed at `packetsToSend`, so
   that an answer's packets are followed from the instance to the client.
3. `Close` beside another `Close` or beside `SetupSubscriptions`, and two contexts
   of one login on a server at a time (section 2 has what is modelled of closing);
   NATS disconnects of the lobby servers, which have the code that `ZoneIn`
   models for the map servers.
4. The client packet id and the header mirrored back to the client, which may
   mix two datagrams: a property needs what the game client does with them.
5. The character list: the offset of an entry is a `uint8` and comes back to the
   header at the sixteenth, where the limit is configured that high. A unit test
   with sixteen characters shows it.

## 6. Not modelled

Packet layouts, configuration, the migration command, logging, start-up and
TLS: no shared state, or wording and layout only. Blowfish is sixteen rounds over
fixed tables, without state; test vectors say more about it than a model would.
Opening the database connections happens once, at start-up, and `RunInTx` has no
caller. The tables of the codec are constants with the contract of section 2. The
limit on connections (`MaxServerConnections`) is the channel's capacity only,
unlike its comment says: read off the code, no run. The map instance's packets
after the login have no handler yet. The Go runtime, MySQL, NATS and the network
are represented by what the code relies on: one query is atomic, a subject
delivers in order, a datagram may be lost, repeated or delayed.
