----------------------------- MODULE LobbySession -----------------------------
(***************************************************************************)
(* One visit to the lobby: a client logs in at the auth server, opens a    *)
(* connection to the data server and one to the view server under the key  *)
(* of its account session, selects a character, and goes to the map        *)
(* router, which looks for the account session of that character.          *)
(*                                                                         *)
(* The two servers talk by NATS.  A subject delivers in order to the       *)
(* subscription that exists when a message is published, and each          *)
(* subscription runs its callback on a goroutine of its own: subjects are  *)
(* not ordered with each other.  A publish may fail; its error is ignored. *)
(*                                                                         *)
(* A step is one request, or one callback, except where a request writes   *)
(* the account session: each such query is a step of its own.  The handler *)
(* of a connection shares its context with the callbacks, without a lock:  *)
(* a callback may close it while a request, or another callback, is under  *)
(* way.  Characters keep their owner here (CharacterStore has their        *)
(* changes); packets and the answers that keep the client waiting are data.*)
(***************************************************************************)
EXTENDS Naturals, Sequences, FiniteSets

CONSTANTS
    Accounts,
    NoAccount,      \* account id 0: of a deleted character, or not known yet
    Logins,         \* logins of clients; each has a session key of its own
    AccountOf,      \* the account of each login
    Characters,
    NoCharacter,    \* character id 0
    OwnerOf,        \* the account of each character, NoAccount if deleted
    Visitors,       \* bound: the logins that go on to the lobby's servers
    NoSession,      \* no row in account_sessions, no session in the router
    MaxSelections,  \* bound: selections a client makes in one login
    MaxPending,     \* bound: messages waiting in a subscription
    MaxFaults       \* bound: publishes, writes and updates that fail

ASSUME LobbyAssumption ==
    /\ NoAccount \notin Accounts
    /\ NoCharacter \notin Characters
    /\ AccountOf \in [Logins -> Accounts]
    /\ OwnerOf \in [Characters -> Accounts \cup {NoAccount}]
    /\ Visitors \subseteq Logins
    /\ MaxSelections \in Nat /\ MaxPending \in Nat /\ MaxFaults \in Nat

VARIABLES
    auth,               \* where each login is with the auth server
    accountSessions,    \* the table, by its unique account id
    view, data,         \* the connections of each login
    inbox,              \* the messages waiting for each connection, by subject
    client,             \* what each client has been told
    mapSessions,        \* the router's session of each login's address
    faults              \* what has failed: publishes, writes and updates, and panics

vars == <<auth, accountSessions, view, data, inbox, client, mapSessions, faults>>

Keys == {"login", "magic"} \X Logins
LoginKey(l) == <<"login", l>>
MagicKey(l) == <<"magic", l>>       \* chosen by the client when it confirms

ASSUME NoSessionAssumption ==
    NoSession \notin [character : Characters \cup {NoCharacter}, key : Keys]

Session == [character : Characters \cup {NoCharacter}, key : Keys]

\* The handler of a connection: "serving" while the connection is open;
\* "closed" once a callback has closed it, with the request that the handler may
\* have read before; "returning" when nothing is left to it but to close the
\* context; "gone" after it has.
Handlers == {"gone", "serving", "closed", "returning"}

ViewState ==
    [handler : Handlers, subscribed : BOOLEAN,
     account : Accounts \cup {NoAccount}]

\* confirming: the character of a select-character request whose update of
\* the account session has not happened yet.
DataState ==
    [handler : Handlers, subscribed : BOOLEAN,
     account : Accounts \cup {NoAccount},
     selected : Characters \cup {NoCharacter},
     confirming : Characters \cup {NoCharacter}]

\* listed: the client has its characters; asked: the last command on its data
\* connection it has not answered; waiting: for the answer to a selection;
\* told: the character the view server sent it to the map server with.
ClientState ==
    [listed : BOOLEAN, asked : {"nothing", "list", "confirm"},
     waiting : BOOLEAN, selections : Nat,
     told : Characters \cup {NoCharacter}]

ViewSubjects == {"view.close", "view.send", "view.account.id"}
DataSubjects == {"data.send", "data.character.selectID"}
Subjects == ViewSubjects \cup DataSubjects

Message ==
    [text : {"close", "list", "confirm", "enter", "account", "select"},
     account : Accounts \cup {NoAccount},
     character : Characters \cup {NoCharacter}]

\* Type correctness of the servers, the broker, the table and the clients.
TypeOK ==
    /\ auth \in [Logins -> {"out", "cleared", "in"}]
    /\ accountSessions \in [Accounts -> Session \cup {NoSession}]
    /\ view \in [Logins -> ViewState]
    /\ data \in [Logins -> DataState]
    /\ inbox \in [Logins -> [Subjects -> Seq(Message)]]
    /\ client \in [Logins -> ClientState]
    /\ \A l \in Logins : client[l].selections <= MaxSelections
    /\ mapSessions \in [Logins -> Session \cup {NoSession}]
    /\ faults \in 0..MaxFaults

GoneView ==
    [handler |-> "gone", subscribed |-> FALSE, account |-> NoAccount]

GoneData ==
    [handler |-> "gone", subscribed |-> FALSE, account |-> NoAccount,
     selected |-> NoCharacter, confirming |-> NoCharacter]

Init ==
    /\ auth = [l \in Logins |-> "out"]
    /\ accountSessions = [a \in Accounts |-> NoSession]
    /\ view = [l \in Logins |-> GoneView]
    /\ data = [l \in Logins |-> GoneData]
    /\ inbox = [l \in Logins |-> [s \in Subjects |-> <<>>]]
    /\ client = [l \in Logins |-> [listed |-> FALSE, asked |-> "nothing",
            waiting |-> FALSE, selections |-> 0, told |-> NoCharacter]]
    /\ mapSessions = [l \in Logins |-> NoSession]
    /\ faults = 0

-----------------------------------------------------------------------------
(* NATS                                                                    *)

Text(t) == [text |-> t, account |-> NoAccount, character |-> NoCharacter]
AccountID(a) == [Text("account") EXCEPT !.account = a]
SelectID(c) == [Text("select") EXCEPT !.character = c]
Enter(c) == [Text("enter") EXCEPT !.character = c]

Subscribed(l, s) ==
    IF s \in ViewSubjects THEN view[l].subscribed ELSE data[l].subscribed

\* Publish the messages ms, by subject, under the key of login l.  One without
\* a subscriber is gone; any other arrives, or its publish fails.
Publish(l, ms) ==
    LET heard == {s \in DOMAIN ms : Subscribed(l, s)} IN
    \E failed \in SUBSET heard :
        /\ faults + Cardinality(failed) <= MaxFaults
        /\ \A s \in heard \ failed : Len(inbox[l][s]) < MaxPending
        /\ faults' = faults + Cardinality(failed)
        /\ inbox' = [inbox EXCEPT ![l] = [s \in Subjects |->
                IF s \in heard \ failed THEN Append(@[s], ms[s]) ELSE @[s]]]

\* The next message of a subscription.
Receives(l, s) ==
    /\ inbox[l][s] # <<>>
    /\ inbox' = [inbox EXCEPT ![l][s] = Tail(@)]

\* Unsubscribing drops what waits; but the callback of one of the subjects in
\* busy may have its first message already, and will run.
Unsubscribe(l, subjects, busy) ==
    \E begun \in SUBSET {s \in busy : inbox[l][s] # <<>>} :
        inbox' = [inbox EXCEPT ![l] = [s \in Subjects |->
                IF s \notin subjects THEN @[s]
                ELSE IF s \in begun THEN <<Head(@[s])>>
                ELSE <<>>]]

-----------------------------------------------------------------------------
(* Contexts                                                                *)

\* What the handler finds in its hands it serves, even after a callback has
\* closed the connection.
Serves(context) == context.handler \in {"serving", "closed"}

\* Every request subscribes first, unless the context has subscriptions: again,
\* after it was closed.
Served(context) ==
    [context EXCEPT !.subscribed = TRUE,
                    !.handler = IF @ = "closed" THEN "returning" ELSE @]

\* A write to a connection that is open may fail; to one that is not, it does.
WriteFails(context) ==
    IF context.handler = "serving"
    THEN faults < MaxFaults /\ faults' = faults + 1
    ELSE UNCHANGED faults

\* Bound: panics happen where faults do, as often as they may.
Panics ==
    /\ MaxFaults > 0
    /\ faults' = IF faults = 0 THEN 1 ELSE faults

\* A client whose connection has ended starts over on its next one.
WithoutView(c) == [c EXCEPT !.waiting = FALSE, !.listed = FALSE]
WithoutData(c) == [c EXCEPT !.asked = "nothing"]

\* Close, in the callback of subject s.  The handler finds out when it reads
\* the next request.
CloseView(l, s) ==
    /\ view' = [view EXCEPT ![l].subscribed = FALSE,
            ![l].handler = IF @ = "serving" THEN "closed" ELSE @]
    /\ Unsubscribe(l, ViewSubjects, ViewSubjects \ {s})

CloseData(l, s) ==
    /\ data' = [data EXCEPT ![l].subscribed = FALSE,
            ![l].handler =
                IF @ # "serving" THEN @
                ELSE IF data[l].confirming = NoCharacter THEN "closed"
                ELSE "returning"]
    /\ Unsubscribe(l, DataSubjects, DataSubjects \ {s})

-----------------------------------------------------------------------------
(* Auth: attempt-login, its two queries                                    *)

ClearSessions(l) ==
    /\ auth[l] = "out"
    /\ accountSessions' = [accountSessions EXCEPT ![AccountOf[l]] = NoSession]
    /\ auth' = [auth EXCEPT ![l] = "cleared"]
    /\ UNCHANGED <<view, data, inbox, client, mapSessions, faults>>

\* The account of a session is unique.
CreateSession(l) ==
    /\ auth[l] = "cleared"
    /\ accountSessions[AccountOf[l]] = NoSession
    /\ accountSessions' = [accountSessions EXCEPT ![AccountOf[l]] =
            [character |-> NoCharacter, key |-> LoginKey(l)]]
    /\ auth' = [auth EXCEPT ![l] = "in"]
    /\ UNCHANGED <<view, data, inbox, client, mapSessions, faults>>

\* On a conflict the client is told of an error, and may try again.  The
\* character is the primary key: whether two sessions without one, of two
\* accounts, conflict is up to the database, so both may happen.
CreateFails(l) ==
    /\ auth[l] = "cleared"
    /\ \/ accountSessions[AccountOf[l]] # NoSession
       \/ \E a \in Accounts : /\ accountSessions[a] # NoSession
                              /\ accountSessions[a].character = NoCharacter
    /\ auth' = [auth EXCEPT ![l] = "out"]
    /\ UNCHANGED <<accountSessions, view, data, inbox, client, mapSessions,
                   faults>>

-----------------------------------------------------------------------------
(* View                                                                    *)

\* GetAccountSessionBySessionKey, asked for every request of a view
\* connection: the accounts whose session has the key.
AccountsBySessionKey(key) ==
    {a \in Accounts : /\ accountSessions[a] # NoSession
                      /\ accountSessions[a].key = key}

KeyIsValid(l) == AccountsBySessionKey(LoginKey(l)) # {}

\* Bound: one context of a login at a time, its callbacks included.
ConnectView(l) ==
    /\ auth[l] = "in" /\ l \in Visitors
    /\ view[l].handler = "gone"
    /\ \A s \in ViewSubjects : inbox[l][s] = <<>>
    /\ client[l].told = NoCharacter
    /\ view' = [view EXCEPT ![l] = [GoneView EXCEPT !.handler = "serving"]]
    /\ UNCHANGED <<auth, accountSessions, data, inbox, client, mapSessions,
                   faults>>

\* The client has left, a callback has closed the connection, or a request
\* ends it: one that is refused, whose key is not valid (any more), or whose
\* query fails.  Of the callbacks that run after it, only one that writes to the
\* connection does anything.
DisconnectView(l) ==
    /\ view[l].handler # "gone"
    /\ view' = [view EXCEPT ![l] = GoneView]
    /\ Unsubscribe(l, ViewSubjects, {"view.send"})
    /\ client' = [client EXCEPT ![l] = WithoutView(@)]
    /\ UNCHANGED <<auth, accountSessions, data, mapSessions, faults>>

\* lobby-login and the other requests that change nothing subscribe too.
SubscribeView(l) ==
    /\ Serves(view[l])
    /\ KeyIsValid(l)
    /\ view' = [view EXCEPT ![l] = Served(@)]
    /\ UNCHANGED <<auth, accountSessions, data, inbox, client, mapSessions,
                   faults>>

\* get-character: the data server is to ask for the characters.
GetCharacter(l) ==
    /\ Serves(view[l])
    /\ KeyIsValid(l)
    /\ view' = [view EXCEPT ![l] = Served(@)]
    /\ Publish(l, [s \in {"data.send"} |-> Text("list")])
    /\ UNCHANGED <<auth, accountSessions, data, client, mapSessions>>

\* The account id is that of the message the data server sent, if any.
ViewOwns(l, c) == OwnerOf[c] = view[l].account

\* A selection the client has sent: it waits for the answer to the last one.
Selects(l) ==
    /\ Serves(view[l])
    /\ client[l].listed /\ ~client[l].waiting
    /\ client[l].told = NoCharacter
    /\ client[l].selections < MaxSelections
    /\ KeyIsValid(l)

\* select-character.
SelectCharacter(l, c) ==
    /\ Selects(l)
    /\ ViewOwns(l, c)
    /\ view' = [view EXCEPT ![l] = Served(@)]
    /\ client' = [client EXCEPT ![l].waiting = TRUE, ![l].selections = @ + 1]
    /\ Publish(l, [s \in {"data.character.selectID", "data.send"} |->
            IF s = "data.send" THEN Text("confirm") ELSE SelectID(c)])
    /\ UNCHANGED <<auth, accountSessions, data, mapSessions>>

\* A character of another account, as far as the view server knows: it
\* closes the connection.
RefuseSelection(l, c) ==
    /\ Selects(l)
    /\ ~ViewOwns(l, c)
    /\ view' = [view EXCEPT ![l] = [Served(@) EXCEPT !.handler = "returning"]]
    /\ client' = [client EXCEPT ![l].selections = @ + 1]
    /\ UNCHANGED <<auth, accountSessions, data, inbox, mapSessions, faults>>

-----------------------------------------------------------------------------
(* View: callbacks.  Any of them may run late, on a closed context.        *)

OnViewAccountID(l) ==
    /\ Receives(l, "view.account.id")
    /\ view' = [view EXCEPT
            ![l].account = Head(inbox[l]["view.account.id"]).account]
    /\ UNCHANGED <<auth, accountSessions, data, client, mapSessions, faults>>

\* The character list is passed on to the client ...
OnViewSend(l) ==
    /\ Receives(l, "view.send")
    /\ Head(inbox[l]["view.send"]).text = "list"
    /\ view[l].handler = "serving"
    /\ client' = [client EXCEPT ![l].listed = TRUE]
    /\ UNCHANGED <<auth, accountSessions, view, data, mapSessions, faults>>

\* ... and so is the answer to a selection, after which the view closes.
OnViewSendEnter(l) ==
    /\ inbox[l]["view.send"] # <<>>
    /\ Head(inbox[l]["view.send"]).text = "enter"
    /\ view[l].handler = "serving"
    /\ client' = [client EXCEPT
            ![l].told = Head(inbox[l]["view.send"]).character,
            ![l].waiting = FALSE]
    /\ CloseView(l, "view.send")
    /\ UNCHANGED <<auth, accountSessions, data, mapSessions, faults>>

OnViewClose(l) ==
    /\ inbox[l]["view.close"] # <<>>
    /\ CloseView(l, "view.close")
    /\ UNCHANGED <<auth, accountSessions, data, client, mapSessions, faults>>

\* What is sent cannot be written to the client, or the view is closed already.
OnViewSendFails(l) ==
    /\ inbox[l]["view.send"] # <<>>
    /\ WriteFails(view[l])
    /\ CloseView(l, "view.send")
    /\ UNCHANGED <<auth, accountSessions, data, client, mapSessions>>

\* Close leaves no connection to write to, but a callback or a request that is
\* under way writes: it panics, and the server ends with all its connections.
ViewPanics(l) ==
    /\ \/ view[l].handler \in {"closed", "returning"}
       \/ view[l].handler = "gone" /\ inbox[l]["view.send"] # <<>>
    /\ Panics
    /\ view' = [k \in Logins |-> GoneView]
    /\ inbox' = [k \in Logins |-> [s \in Subjects |->
            IF s \in ViewSubjects THEN <<>> ELSE inbox[k][s]]]
    /\ client' = [k \in Logins |-> WithoutView(client[k])]
    /\ UNCHANGED <<auth, accountSessions, data, mapSessions>>

-----------------------------------------------------------------------------
(* Data                                                                    *)

ConnectData(l) ==
    /\ auth[l] = "in" /\ l \in Visitors
    /\ data[l].handler = "gone"
    /\ \A s \in DataSubjects : inbox[l][s] = <<>>
    /\ client[l].told = NoCharacter
    /\ data' = [data EXCEPT ![l] = [GoneData EXCEPT !.handler = "serving"]]
    /\ UNCHANGED <<auth, accountSessions, view, inbox, client, mapSessions,
                   faults>>

\* As for the view; not in the middle of a request.
DisconnectData(l) ==
    /\ data[l].handler # "gone"
    /\ data[l].confirming = NoCharacter
    /\ data' = [data EXCEPT ![l] = GoneData]
    /\ Unsubscribe(l, DataSubjects, {"data.send"})
    /\ client' = [client EXCEPT ![l] = WithoutData(@)]
    /\ UNCHANGED <<auth, accountSessions, view, mapSessions, faults>>

\* The loader's keep-alive subscribes, whether the key is valid or not.
KeepAlive(l) ==
    /\ Serves(data[l]) /\ data[l].confirming = NoCharacter
    /\ data' = [data EXCEPT ![l] = Served(@)]
    /\ UNCHANGED <<auth, accountSessions, view, inbox, client, mapSessions,
                   faults>>

\* The client's answer to the last command on its data connection.
Answers(l, command) ==
    /\ client[l].asked = command
    /\ Serves(data[l]) /\ data[l].confirming = NoCharacter
    /\ client' = [client EXCEPT ![l].asked = "nothing"]

\* get-characters, with the account id the client knows.  The view learns it
\* on one subject, and gets the characters for the client on another, after
\* they were written to the data connection ...
GetCharacters(l) ==
    /\ Answers(l, "list")
    /\ data[l].handler = "serving"
    /\ AccountOf[l] \in AccountsBySessionKey(LoginKey(l))
    /\ data' = [data EXCEPT ![l] = [Served(@) EXCEPT !.account = AccountOf[l]]]
    /\ Publish(l, [s \in {"view.account.id", "view.send"} |->
            IF s = "view.send" THEN Text("list") ELSE AccountID(AccountOf[l])])
    /\ UNCHANGED <<auth, accountSessions, view, mapSessions>>

\* ... which may fail, like the query for them: the view has the account id.
GetCharactersFails(l) ==
    /\ Answers(l, "list")
    /\ AccountOf[l] \in AccountsBySessionKey(LoginKey(l))
    /\ data' = [data EXCEPT ![l] = [Served(@) EXCEPT
            !.account = AccountOf[l], !.handler = "returning"]]
    /\ Publish(l, [s \in {"view.account.id"} |-> AccountID(AccountOf[l])])
    /\ UNCHANGED <<auth, accountSessions, view, mapSessions>>

\* The account session of the key is not the client's: both connections close.
RefuseCharacters(l) ==
    /\ Answers(l, "list")
    /\ AccountOf[l] \notin AccountsBySessionKey(LoginKey(l))
    /\ data' = [data EXCEPT ![l] = [Served(@) EXCEPT !.handler = "returning"]]
    /\ Publish(l, [s \in {"view.close"} |-> Text("close")])
    /\ UNCHANGED <<auth, accountSessions, view, mapSessions>>

\* Mutant: the owner was checked by the view server.
DataOwnsAny(l) ==
    data[l].account # NoAccount /\ data[l].selected # NoCharacter

\* The connection knows its account, and the selected character is its own.
DataOwns(l) ==
    /\ data[l].account # NoAccount
    /\ data[l].selected # NoCharacter
    /\ OwnerOf[data[l].selected] = data[l].account

\* select-character: the view server is told to send the client to the map
\* server ...
ConfirmSelection(l) ==
    /\ Answers(l, "confirm")
    /\ DataOwns(l)
    /\ data' = [data EXCEPT ![l] =
            [Served(@) EXCEPT !.confirming = data[l].selected]]
    /\ Publish(l, [s \in {"view.send"} |-> Enter(data[l].selected)])
    /\ UNCHANGED <<auth, accountSessions, view, mapSessions>>

RefuseConfirmation(l) ==
    /\ Answers(l, "confirm")
    /\ ~DataOwns(l)
    /\ data' = [data EXCEPT ![l] = [Served(@) EXCEPT !.handler = "returning"]]
    /\ UNCHANGED <<auth, accountSessions, view, inbox, mapSessions, faults>>

\* Mutant: the key is left alone, as for one of another length.
ConfirmedSessionOldKey(row, l) ==
    [row EXCEPT !.character = data[l].confirming]

\* Mutant: the account and the character are given in the other order.
ConfirmedSessionSwapped(row, l) ==
    [row EXCEPT !.character = data[l].account, !.key = MagicKey(l)]

\* Mutant: the update sets the key alone.
ConfirmedSessionKeyOnly(row, l) == [row EXCEPT !.key = MagicKey(l)]

ConfirmedSession(row, l) ==
    [row EXCEPT !.character = data[l].confirming, !.key = MagicKey(l)]

\* ... and then the account's session, if there is one, gets the character
\* and the client's key.
UpdateAccountSession(l) ==
    LET a == data[l].account IN
    /\ data[l].confirming # NoCharacter
    /\ accountSessions' =
            IF accountSessions[a] = NoSession THEN accountSessions
            ELSE [accountSessions EXCEPT ![a] = ConfirmedSession(@, l)]
    /\ data' = [data EXCEPT ![l].confirming = NoCharacter]
    /\ UNCHANGED <<auth, view, inbox, client, mapSessions, faults>>

\* The update fails: an error goes to the data connection, which stays open.
UpdateFails(l) ==
    /\ data[l].confirming # NoCharacter
    /\ faults < MaxFaults
    /\ faults' = faults + 1
    /\ data' = [data EXCEPT ![l].confirming = NoCharacter]
    /\ UNCHANGED <<auth, accountSessions, view, inbox, client, mapSessions>>

-----------------------------------------------------------------------------
(* Data: callbacks                                                         *)

\* A command for the client on its data connection ...
OnDataSend(l) ==
    /\ Receives(l, "data.send")
    /\ data[l].handler = "serving"
    /\ client' = [client EXCEPT ![l].asked = Head(inbox[l]["data.send"]).text]
    /\ UNCHANGED <<auth, accountSessions, view, data, mapSessions, faults>>

\* ... or one that cannot be written to it.
OnDataSendFails(l) ==
    /\ inbox[l]["data.send"] # <<>>
    /\ WriteFails(data[l])
    /\ CloseData(l, "data.send")
    /\ UNCHANGED <<auth, accountSessions, view, client, mapSessions>>

OnSelectID(l) ==
    /\ Receives(l, "data.character.selectID")
    /\ data' = [data EXCEPT ![l].selected =
            Head(inbox[l]["data.character.selectID"]).character]
    /\ UNCHANGED <<auth, accountSessions, view, client, mapSessions, faults>>

\* As for the view.  A confirmation asks the connection for its address before
\* it updates the session.
DataPanics(l) ==
    /\ \/ data[l].handler \in {"closed", "returning"}
       \/ data[l].handler = "gone" /\ inbox[l]["data.send"] # <<>>
    /\ Panics
    /\ data' = [k \in Logins |-> GoneData]
    /\ inbox' = [k \in Logins |-> [s \in Subjects |->
            IF s \in DataSubjects THEN <<>> ELSE inbox[k][s]]]
    /\ client' = [k \in Logins |-> WithoutData(client[k])]
    /\ UNCHANGED <<auth, accountSessions, view, mapSessions>>

-----------------------------------------------------------------------------
(* The map router                                                          *)

\* The client repeats its login at the map router, which enters a session for
\* its address once it finds the account session of the character.
EnterMap(l) ==
    /\ client[l].told # NoCharacter
    /\ mapSessions[l] = NoSession
    /\ \E a \in Accounts :
        /\ accountSessions[a] # NoSession
        /\ accountSessions[a].character = client[l].told
        /\ mapSessions' = [mapSessions EXCEPT ![l] = accountSessions[a]]
    /\ UNCHANGED <<auth, accountSessions, view, data, inbox, client, faults>>

-----------------------------------------------------------------------------

Callback(l) ==
    \/ OnViewAccountID(l) \/ OnViewSend(l) \/ OnViewSendEnter(l)
    \/ OnViewClose(l) \/ OnViewSendFails(l) \/ ViewPanics(l)
    \/ OnDataSend(l) \/ OnDataSendFails(l) \/ OnSelectID(l) \/ DataPanics(l)

Request(l) ==
    \/ ClearSessions(l) \/ CreateSession(l) \/ CreateFails(l)
    \/ ConnectView(l) \/ DisconnectView(l) \/ SubscribeView(l)
    \/ GetCharacter(l)
    \/ \E c \in Characters : SelectCharacter(l, c) \/ RefuseSelection(l, c)
    \/ ConnectData(l) \/ DisconnectData(l) \/ KeepAlive(l)
    \/ GetCharacters(l) \/ GetCharactersFails(l) \/ RefuseCharacters(l)
    \/ ConfirmSelection(l) \/ RefuseConfirmation(l)

FinishConfirmation(l) == UpdateAccountSession(l) \/ UpdateFails(l)

Next ==
    \E l \in Logins :
        Request(l) \/ Callback(l) \/ FinishConfirmation(l) \/ EnterMap(l)

Spec == Init /\ [][Next]_vars

\* A request that has begun ends, and a client that was sent to the map router
\* repeats its login.
FairSpec ==
    /\ Spec
    /\ \A l \in Logins : /\ WF_vars(FinishConfirmation(l))
                         /\ WF_vars(EnterMap(l))

-----------------------------------------------------------------------------
(* Properties                                                              *)

\* Two servers check the owner with an account id each has learnt its own way:
\* an account's session never names a character of another account, nor one
\* that is deleted, in whatever order the messages arrive.
SessionsOwned ==
    \A a \in Accounts :
        (accountSessions[a] # NoSession /\ accountSessions[a].character # NoCharacter)
            => OwnerOf[accountSessions[a].character] = a

AccountSession == INSTANCE AccountSessions WITH
    sessions <- accountSessions,
    loggedIn <- {l \in Logins : auth[l] = "in"},
    told <- [l \in Logins |-> client[l].told],
    admitted <- mapSessions

\* Whatever order the five subjects deliver in, whatever publish fails, and
\* whenever a context closes under a request or a callback that still runs, the
\* lobby only does what a login does to the session of its own account: replace
\* it, choose one of the account's characters for it, and enter the map with it,
\* which the router has found among all sessions by the character alone.
ImplementsSessions == AccountSession!Spec

\* The router decrypts with the key of the session it finds by the character:
\* it has found the session after the key was replaced, never the key of the
\* lobby, and a client only gets in with a character of its account.
AdmittedWithMagicKey ==
    \A l \in Logins : mapSessions[l] # NoSession =>
        /\ mapSessions[l].character = client[l].told
        /\ OwnerOf[client[l].told] = AccountOf[l]
        /\ \E k \in Logins : /\ AccountOf[k] = AccountOf[l]
                             /\ mapSessions[l].key = MagicKey(k)

\* What may take the session of a login away after it was sent to the router:
\* a query, a publish or a write that fails, a panic, another login of the
\* account, or a second selection, whose update comes after the first.
Excused(l) ==
    \/ faults > 0
    \/ client[l].selections > 1
    \/ \E k \in Logins \ {l} : AccountOf[k] = AccountOf[l] /\ auth[k] # "out"

\* A client is sent to the map router before its account session is written;
\* the router has no session for it then, but has one eventually.
ToldIsAdmitted ==
    \A l \in Logins :
        client[l].told # NoCharacter ~> (mapSessions[l] # NoSession \/ Excused(l))

\* What attempt-login says of clearing the previous sessions: once a login has
\* the account's session, a login before it no longer writes it.
PreviousLoginsCleared ==
    [][\A k, l \in Logins :
        (k # l /\ AccountOf[k] = AccountOf[l]
            /\ accountSessions[AccountOf[k]] # NoSession
            /\ accountSessions[AccountOf[k]].key = LoginKey(k))
        => \/ accountSessions'[AccountOf[k]] = NoSession
           \/ accountSessions'[AccountOf[k]].key # MagicKey(l)]_vars

=============================================================================
