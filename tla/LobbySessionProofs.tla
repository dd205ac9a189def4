-------------------------- MODULE LobbySessionProofs --------------------------
(***************************************************************************)
(* Theorems about LobbySession, for any accounts, logins, characters and   *)
(* bounds.                                                                 *)
(***************************************************************************)
EXTENDS LobbySession, FiniteSetTheorems, TLAPS

\* What may wait on a subject of a login: the data connection is sent
\* commands, and the view one is sent the client's own characters.
Allowed(l, s) ==
    {m \in Message :
        /\ s = "data.send" => m.text \in {"list", "confirm"}
        /\ s = "view.account.id" => m.account = AccountOf[l]
        /\ (s = "view.send" /\ m.text = "enter")
                => /\ m.character \in Characters
                   /\ OwnerOf[m.character] = AccountOf[l]}

DataInv(l) ==
    /\ data[l].account \in {NoAccount, AccountOf[l]}
    /\ data[l].confirming # NoCharacter =>
            /\ data[l].account = AccountOf[l]
            /\ OwnerOf[data[l].confirming] = AccountOf[l]

\* A client that was sent to the router has no open view connection any more.
ViewInv(l) ==
    client[l].told # NoCharacter =>
        /\ OwnerOf[client[l].told] = AccountOf[l]
        /\ view[l].handler # "serving"

InboxInv(l) == \A s \in Subjects : inbox[l][s] \in Seq(Allowed(l, s))

OwnKey(a, key) == \E k \in Logins : AccountOf[k] = a /\ key = MagicKey(k)

AdmissionInv(l) ==
    mapSessions[l] # NoSession =>
        /\ client[l].told # NoCharacter
        /\ mapSessions[l].character = client[l].told
        /\ OwnKey(AccountOf[l], mapSessions[l].key)

\* The key of a session is replaced together with its character.
SessionInv(a) ==
    (accountSessions[a] # NoSession /\ accountSessions[a].character # NoCharacter)
        => /\ OwnerOf[accountSessions[a].character] = a
           /\ OwnKey(a, accountSessions[a].key)

LoginInv(l) == DataInv(l) /\ ViewInv(l) /\ InboxInv(l) /\ AdmissionInv(l)

LobbyInv ==
    /\ TypeOK
    /\ \A l \in Logins : LoginInv(l)
    /\ \A a \in Accounts : SessionInv(a)

\* A step of login l, and of the session of its account.
StepInv(l) ==
    /\ TypeOK'
    /\ LoginInv(l)'
    /\ SessionInv(AccountOf[l])'
    /\ \A k \in Logins \ {l} :
        /\ view'[k] = view[k] /\ data'[k] = data[k] /\ inbox'[k] = inbox[k]
        /\ client'[k] = client[k] /\ mapSessions'[k] = mapSessions[k]
    /\ \A a \in Accounts \ {AccountOf[l]} : accountSessions'[a] = accountSessions[a]

-----------------------------------------------------------------------------
(* Steps of one login                                                      *)

\* One login's step leaves the others' parts of the invariant alone.
LEMMA StepSuffices ==
    ASSUME LobbyInv, NEW l \in Logins, StepInv(l)
    PROVE  LobbyInv'
<1>1. ASSUME NEW k \in Logins PROVE LoginInv(k)'
  <2>1. CASE k = l
    BY <2>1 DEF StepInv
  <2>2. CASE k # l
    <3>1. /\ view'[k] = view[k] /\ data'[k] = data[k] /\ inbox'[k] = inbox[k]
          /\ client'[k] = client[k] /\ mapSessions'[k] = mapSessions[k]
      BY <2>2 DEF StepInv
    <3>2. LoginInv(k)
      BY DEF LobbyInv
    <3>3. DataInv(k)'
      BY <3>1, <3>2 DEF LoginInv, DataInv
    <3>4. ViewInv(k)'
      BY <3>1, <3>2 DEF LoginInv, ViewInv
    <3>5. InboxInv(k)'
      BY <3>1, <3>2 DEF LoginInv, InboxInv
    <3>6. AdmissionInv(k)'
      BY <3>1, <3>2 DEF LoginInv, AdmissionInv
    <3>. QED
      BY <3>3, <3>4, <3>5, <3>6 DEF LoginInv
  <2>. QED
    BY <2>1, <2>2
<1>2. ASSUME NEW a \in Accounts PROVE SessionInv(a)'
  <2>1. CASE a = AccountOf[l]
    BY <2>1 DEF StepInv
  <2>2. CASE a # AccountOf[l]
    <3>1. accountSessions'[a] = accountSessions[a]
      BY <2>2 DEF StepInv
    <3>. QED
      BY <3>1 DEF SessionInv, LobbyInv
  <2>. QED
    BY <2>1, <2>2
<1>. QED
  BY <1>1, <1>2 DEF LobbyInv, StepInv

\* What every lemma about an action starts from.
LEMMA InvFacts ==
    ASSUME LobbyInv, NEW l \in Logins
    PROVE  /\ AccountOf[l] \in Accounts /\ AccountOf[l] # NoAccount
           /\ DataInv(l) /\ ViewInv(l) /\ InboxInv(l) /\ AdmissionInv(l)
           /\ SessionInv(AccountOf[l])
           /\ view[l] \in ViewState /\ data[l] \in DataState
           /\ client[l] \in ClientState
           /\ client[l].selections <= MaxSelections
           /\ DOMAIN inbox[l] = Subjects
BY LobbyAssumption DEF LobbyInv, LoginInv, TypeOK

LEMMA MessageFacts ==
    ASSUME NEW l \in Logins
    PROVE  /\ Text("close") \in Allowed(l, "view.close")
           /\ Text("list") \in Allowed(l, "data.send")
           /\ Text("confirm") \in Allowed(l, "data.send")
           /\ Text("list") \in Allowed(l, "view.send")
           /\ AccountID(AccountOf[l]) \in Allowed(l, "view.account.id")
           /\ \A c \in Characters : SelectID(c) \in Allowed(l, "data.character.selectID")
           /\ \A c \in Characters : OwnerOf[c] = AccountOf[l]
                => Enter(c) \in Allowed(l, "view.send")
BY LobbyAssumption DEF Allowed, Message, Text, AccountID, SelectID, Enter

\* What a step that publishes, receives or unsubscribes leaves in the inbox.
InboxKept(l) ==
    /\ inbox' \in [Logins -> [Subjects -> Seq(Message)]]
    /\ \A k \in Logins \ {l} : inbox'[k] = inbox[k]
    /\ InboxInv(l)'

LEMMA InboxStep ==
    ASSUME LobbyInv, NEW l \in Logins, NEW new,
           inbox' = [inbox EXCEPT ![l] = [s \in Subjects |-> new[s]]],
           \A s \in Subjects : new[s] \in Seq(Allowed(l, s))
    PROVE  InboxKept(l)
<1>1. inbox \in [Logins -> [Subjects -> Seq(Message)]]
  BY DEF LobbyInv, TypeOK
<1>2. ASSUME NEW s \in Subjects PROVE new[s] \in Seq(Message)
  <2>1. Allowed(l, s) \subseteq Message /\ new[s] \in Seq(Allowed(l, s))
    BY DEF Allowed
  <2> DEFINE A == Allowed(l, s)
  <2> HIDE DEF A
  <2>2. A \subseteq Message /\ new[s] \in Seq(A)
    BY <2>1 DEF A
  <2>. QED
    BY <2>2
<1> DEFINE row == [s \in Subjects |-> new[s]]
<1>3. row \in [Subjects -> Seq(Message)] /\ \A s \in Subjects : row[s] = new[s]
  BY <1>2
<1> HIDE DEF row
<1>4. /\ inbox' \in [Logins -> [Subjects -> Seq(Message)]]
      /\ inbox'[l] = row /\ \A k \in Logins \ {l} : inbox'[k] = inbox[k]
  BY <1>1, <1>3 DEF row
<1>. QED
  BY <1>3, <1>4 DEF InboxKept, InboxInv

LEMMA PairIsFinite ==
    ASSUME NEW x, NEW y
    PROVE  IsFiniteSet({x, y})
<1>1. IsFiniteSet({x}) /\ IsFiniteSet({y})
  BY FS_Singleton
<1>2. IsFiniteSet({x} \cup {y})
  BY <1>1, FS_Union
<1>3. {x} \cup {y} = {x, y}
  OBVIOUS
<1>. QED
  BY <1>2, <1>3

LEMMA PublishKeeps ==
    ASSUME LobbyInv, NEW l \in Logins, NEW ms,
           IsFiniteSet(DOMAIN ms),
           \A s \in DOMAIN ms : s \in Subjects /\ ms[s] \in Allowed(l, s),
           Publish(l, ms)
    PROVE  InboxKept(l) /\ faults' \in 0 .. MaxFaults
<1> DEFINE heard == {s \in DOMAIN ms : Subscribed(l, s)}
<1>1. PICK failed \in SUBSET heard :
        /\ faults + Cardinality(failed) <= MaxFaults
        /\ faults' = faults + Cardinality(failed)
        /\ inbox' = [inbox EXCEPT ![l] = [s \in Subjects |->
                IF s \in heard \ failed THEN Append(@[s], ms[s]) ELSE @[s]]]
  BY DEF Publish
<1>2. faults' \in 0 .. MaxFaults
  <2>1. IsFiniteSet(failed)
    BY FS_Subset
  <2>2. Cardinality(failed) \in Nat
    BY <2>1, FS_CardinalityType
  <2>. QED
    BY <1>1, <2>2, LobbyAssumption DEF LobbyInv, TypeOK
<1>3. inbox \in [Logins -> [Subjects -> Seq(Message)]] /\ InboxInv(l)
  BY DEF LobbyInv, TypeOK, LoginInv
<1> DEFINE new == [s \in Subjects |->
        IF s \in heard \ failed THEN Append(inbox[l][s], ms[s]) ELSE inbox[l][s]]
<1>4. ASSUME NEW s \in Subjects PROVE new[s] \in Seq(Allowed(l, s))
  <2> DEFINE A == Allowed(l, s)
  <2>1. inbox[l][s] \in Seq(A)
    BY <1>3 DEF InboxInv
  <2>2. s \in heard \ failed => ms[s] \in A
    OBVIOUS
  <2> HIDE DEF A
  <2>. QED
    BY <2>1, <2>2 DEF A
<1>5. inbox' = [inbox EXCEPT ![l] = [s \in Subjects |-> new[s]]]
  BY <1>1
<1> HIDE DEF new
<1>. QED
  BY <1>2, <1>4, <1>5, InboxStep

LEMMA UnsubscribeKeeps ==
    ASSUME LobbyInv, NEW l \in Logins, NEW subjects, NEW busy,
           Unsubscribe(l, subjects, busy)
    PROVE  InboxKept(l)
<1>1. inbox \in [Logins -> [Subjects -> Seq(Message)]] /\ InboxInv(l)
  BY DEF LobbyInv, TypeOK, LoginInv
<1>2. PICK begun \in SUBSET {s \in busy : inbox[l][s] # <<>>} :
        inbox' = [inbox EXCEPT ![l] = [s \in Subjects |->
            IF s \notin subjects THEN @[s]
            ELSE IF s \in begun THEN <<Head(@[s])>> ELSE <<>>]]
  BY DEF Unsubscribe
<1> DEFINE new == [s \in Subjects |->
        IF s \notin subjects THEN inbox[l][s]
        ELSE IF s \in begun THEN <<Head(inbox[l][s])>> ELSE <<>>]
<1>3. ASSUME NEW s \in Subjects PROVE new[s] \in Seq(Allowed(l, s))
  <2> DEFINE A == Allowed(l, s)  q == inbox[l][s]
  <2>1. q \in Seq(A) /\ (s \in begun => q # <<>>)
    BY <1>1 DEF InboxInv
  <2>2. new[s] = IF s \notin subjects THEN q
                 ELSE IF s \in begun THEN <<Head(q)>> ELSE <<>>
    OBVIOUS
  <2> HIDE DEF A, q, new
  <2>3. s \in begun => Head(q) \in A
    BY <2>1
  <2>4. new[s] \in Seq(A)
    BY <2>1, <2>2, <2>3
  <2>. QED
    BY <2>4 DEF A
<1>4. inbox' = [inbox EXCEPT ![l] = [s \in Subjects |-> new[s]]]
  BY <1>2
<1> HIDE DEF new
<1>. QED
  BY <1>3, <1>4, InboxStep

LEMMA HeadFacts ==
    ASSUME LobbyInv, NEW l \in Logins, NEW s \in Subjects, inbox[l][s] # <<>>
    PROVE  Head(inbox[l][s]) \in Allowed(l, s)
<1> DEFINE A == Allowed(l, s)  q == inbox[l][s]
<1>1. q \in Seq(A) /\ q # <<>>
  BY DEF LobbyInv, LoginInv, InboxInv
<1> HIDE DEF A, q
<1>2. Head(q) \in A
  BY <1>1
<1>. QED
  BY <1>2 DEF A, q

LEMMA ReceiveKeeps ==
    ASSUME LobbyInv, NEW l \in Logins, NEW s \in Subjects, Receives(l, s)
    PROVE  InboxKept(l) /\ Head(inbox[l][s]) \in Allowed(l, s)
<1>1. inbox \in [Logins -> [Subjects -> Seq(Message)]] /\ InboxInv(l)
  BY DEF LobbyInv, TypeOK, LoginInv
<1>2. /\ inbox[l][s] # <<>>
      /\ inbox' = [inbox EXCEPT ![l][s] = Tail(@)]
  BY DEF Receives
<1>3. Tail(inbox[l][s]) \in Seq(Allowed(l, s))
  <2> DEFINE A == Allowed(l, s)  q == inbox[l][s]
  <2>1. q \in Seq(A) /\ q # <<>>
    BY <1>1, <1>2 DEF InboxInv
  <2> HIDE DEF A, q
  <2>2. Tail(q) \in Seq(A)
    BY <2>1
  <2>. QED
    BY <2>2 DEF A, q
<1> DEFINE new == [inbox[l] EXCEPT ![s] = Tail(@)]
<1>4. /\ new[s] = Tail(inbox[l][s])
      /\ \A t \in Subjects \ {s} : new[t] = inbox[l][t]
      /\ new = [t \in Subjects |-> new[t]]
  BY <1>1
<1>5. inbox' = [inbox EXCEPT ![l] = new]
  BY <1>2
<1> HIDE DEF new
<1>6. inbox' = [inbox EXCEPT ![l] = [t \in Subjects |-> new[t]]]
  BY <1>4, <1>5
<1>7. ASSUME NEW t \in Subjects PROVE new[t] \in Seq(Allowed(l, t))
  BY <1>1, <1>3, <1>4 DEF InboxInv
<1>. QED
  BY <1>2, <1>6, <1>7, InboxStep, HeadFacts

\* What a step leaves alone keeps its part of the invariant.
LEMMA Frame ==
    ASSUME LobbyInv, NEW l \in Logins
    PROVE  /\ (/\ data'[l].account = data[l].account
               /\ data'[l].confirming \in {data[l].confirming, NoCharacter})
                => DataInv(l)'
           /\ (/\ client'[l].told = client[l].told
               /\ view'[l].handler = "serving" => view[l].handler = "serving")
                => ViewInv(l)'
           /\ inbox' = inbox => InboxInv(l)'
           /\ client'[l].told = client[l].told /\ mapSessions' = mapSessions
                => AdmissionInv(l)'
           /\ accountSessions' = accountSessions => SessionInv(AccountOf[l])'
<1>1. DataInv(l) /\ ViewInv(l) /\ InboxInv(l) /\ AdmissionInv(l) /\ SessionInv(AccountOf[l])
  BY InvFacts
<1>2. (/\ data'[l].account = data[l].account
       /\ data'[l].confirming \in {data[l].confirming, NoCharacter}) => DataInv(l)'
  BY <1>1 DEF DataInv
<1>3. (/\ client'[l].told = client[l].told
       /\ view'[l].handler = "serving" => view[l].handler = "serving") => ViewInv(l)'
  BY <1>1 DEF ViewInv
<1>4. inbox' = inbox => InboxInv(l)'
  BY <1>1 DEF InboxInv
<1>5. client'[l].told = client[l].told /\ mapSessions' = mapSessions
        => AdmissionInv(l)'
  BY <1>1 DEF AdmissionInv
<1>6. accountSessions' = accountSessions => SessionInv(AccountOf[l])'
  BY <1>1 DEF SessionInv
<1>. QED
  BY <1>2, <1>3, <1>4, <1>5, <1>6

-----------------------------------------------------------------------------
(* Contexts                                                                *)

\* A context that is served stays open, or closed.
LEMMA ServedView ==
    ASSUME NEW v \in ViewState
    PROVE  /\ Served(v) \in ViewState /\ Served(v).account = v.account
           /\ Served(v).handler = "serving" => v.handler = "serving"
BY DEF Served, ViewState, Handlers

LEMMA ServedData ==
    ASSUME NEW d \in DataState
    PROVE  /\ Served(d) \in DataState /\ Served(d).account = d.account
           /\ Served(d).selected = d.selected
           /\ Served(d).confirming = d.confirming
           /\ Served(d).handler = "serving" => d.handler = "serving"
BY DEF Served, DataState, Handlers

LEMMA ViewStep ==
    ASSUME LobbyInv, NEW l \in Logins, NEW v \in ViewState,
           view' = [view EXCEPT ![l] = v]
    PROVE  /\ view' \in [Logins -> ViewState] /\ view'[l] = v
           /\ \A k \in Logins \ {l} : view'[k] = view[k]
BY DEF LobbyInv, TypeOK

LEMMA DataStep ==
    ASSUME LobbyInv, NEW l \in Logins, NEW d \in DataState,
           data' = [data EXCEPT ![l] = d]
    PROVE  /\ data' \in [Logins -> DataState] /\ data'[l] = d
           /\ \A k \in Logins \ {l} : data'[k] = data[k]
BY DEF LobbyInv, TypeOK

LEMMA GoneFacts ==
    /\ GoneView \in ViewState /\ GoneData \in DataState
    /\ GoneView.handler = "gone" /\ GoneData.handler = "gone"
    /\ GoneData.account = NoAccount /\ GoneData.confirming = NoCharacter
BY DEF GoneView, GoneData, ViewState, DataState, Handlers

LEMMA CloseViewKeeps ==
    ASSUME LobbyInv, NEW l \in Logins, NEW s, CloseView(l, s)
    PROVE  /\ InboxKept(l)
           /\ view' \in [Logins -> ViewState] /\ view'[l].handler # "serving"
           /\ \A k \in Logins \ {l} : view'[k] = view[k]
<1> DEFINE v == [view[l] EXCEPT !.subscribed = FALSE,
                    !.handler = IF @ = "serving" THEN "closed" ELSE @]
<1>1. v \in ViewState /\ v.handler # "serving"
  BY InvFacts DEF ViewState, Handlers
<1>2. view' = [view EXCEPT ![l] = v]
  BY DEF CloseView
<1> HIDE DEF v
<1>3. InboxKept(l)
  BY UnsubscribeKeeps DEF CloseView
<1>. QED
  BY <1>1, <1>2, <1>3, ViewStep

\* The confirmation that is under way goes on.
LEMMA CloseDataKeeps ==
    ASSUME LobbyInv, NEW l \in Logins, NEW s, CloseData(l, s)
    PROVE  /\ InboxKept(l)
           /\ data' \in [Logins -> DataState] /\ data'[l].handler # "serving"
           /\ data'[l].account = data[l].account
           /\ data'[l].confirming = data[l].confirming
           /\ \A k \in Logins \ {l} : data'[k] = data[k]
<1> DEFINE d == [data[l] EXCEPT !.subscribed = FALSE,
            !.handler = IF @ # "serving" THEN @
                        ELSE IF data[l].confirming = NoCharacter THEN "closed"
                        ELSE "returning"]
<1>1. /\ d \in DataState /\ d.handler # "serving"
      /\ d.account = data[l].account /\ d.confirming = data[l].confirming
  BY InvFacts DEF DataState, Handlers
<1>2. data' = [data EXCEPT ![l] = d]
  BY DEF CloseData
<1> HIDE DEF d
<1>3. InboxKept(l)
  BY UnsubscribeKeeps DEF CloseData
<1>. QED
  BY <1>1, <1>2, <1>3, DataStep

LEMMA WriteFaults ==
    ASSUME LobbyInv, NEW context, WriteFails(context)
    PROVE  faults' \in 0 .. MaxFaults
BY LobbyAssumption DEF WriteFails, LobbyInv, TypeOK

\* The client's record changes in its fields other than the one it was told.
LEMMA ClientStep ==
    ASSUME LobbyInv, NEW l \in Logins, NEW c \in ClientState,
           client' = [client EXCEPT ![l] = c],
           c.selections <= MaxSelections
    PROVE  /\ client' \in [Logins -> ClientState] /\ client'[l] = c
           /\ \A k \in Logins : client'[k].selections <= MaxSelections
           /\ \A k \in Logins \ {l} : client'[k] = client[k]
<1>1. /\ client' \in [Logins -> ClientState] /\ client'[l] = c
      /\ \A k \in Logins \ {l} : client'[k] = client[k]
  BY DEF LobbyInv, TypeOK
<1>. QED
  BY <1>1 DEF LobbyInv, TypeOK

-----------------------------------------------------------------------------
(* Auth                                                                    *)

LEMMA AuthStep ==
    ASSUME LobbyInv, NEW l \in Logins,
           ClearSessions(l) \/ CreateSession(l) \/ CreateFails(l)
    PROVE  LobbyInv'
<1> DEFINE a == AccountOf[l]
<1>1. a \in Accounts
  BY InvFacts
<1>2. /\ view' = view /\ data' = data /\ inbox' = inbox /\ client' = client
      /\ mapSessions' = mapSessions /\ faults' = faults
  BY DEF ClearSessions, CreateSession, CreateFails
<1>3. auth' \in [Logins -> {"out", "cleared", "in"}]
  BY DEF ClearSessions, CreateSession, CreateFails, LobbyInv, TypeOK
<1> DEFINE fresh == [character |-> NoCharacter, key |-> LoginKey(l)]
<1>4. fresh \in Session
  BY DEF Session, Keys, LoginKey
<1>5. \/ accountSessions' = [accountSessions EXCEPT ![a] = NoSession]
      \/ accountSessions' = [accountSessions EXCEPT ![a] = fresh]
      \/ accountSessions' = accountSessions
  BY DEF ClearSessions, CreateSession, CreateFails
<1>6. fresh.character = NoCharacter
  OBVIOUS
<1> HIDE DEF a, fresh
<1>7. /\ accountSessions' \in [Accounts -> Session \cup {NoSession}]
      /\ \A b \in Accounts \ {a} : accountSessions'[b] = accountSessions[b]
  BY <1>1, <1>4, <1>5 DEF LobbyInv, TypeOK
<1>8. SessionInv(AccountOf[l])'
  <2>1. CASE accountSessions' = [accountSessions EXCEPT ![a] = NoSession]
    BY <1>1, <2>1 DEF SessionInv, LobbyInv, TypeOK, a
  <2>2. CASE accountSessions' = [accountSessions EXCEPT ![a] = fresh]
    BY <1>1, <1>6, <2>2 DEF SessionInv, LobbyInv, TypeOK, a
  <2>3. CASE accountSessions' = accountSessions
    BY <2>3, Frame
  <2>. QED
    BY <1>5, <2>1, <2>2, <2>3
<1>9. TypeOK'
  BY <1>2, <1>3, <1>7 DEF LobbyInv, TypeOK
<1>10. LoginInv(l)'
  BY <1>2, Frame DEF LoginInv
<1>11. StepInv(l)
  BY <1>2, <1>7, <1>8, <1>9, <1>10 DEF StepInv, a
<1>. QED
  BY <1>11, StepSuffices

-----------------------------------------------------------------------------
(* View                                                                    *)

LEMMA ConnectViewStep ==
    ASSUME LobbyInv, NEW l \in Logins, ConnectView(l)
    PROVE  LobbyInv'
<1> DEFINE opened == [GoneView EXCEPT !.handler = "serving"]
<1>1. opened \in ViewState
  BY GoneFacts DEF ViewState, Handlers
<1>2. /\ view' = [view EXCEPT ![l] = opened]
      /\ client[l].told = NoCharacter
      /\ UNCHANGED <<auth, accountSessions, data, inbox, client, mapSessions, faults>>
  BY DEF ConnectView
<1> HIDE DEF opened
<1>3. /\ view' \in [Logins -> ViewState]
      /\ \A k \in Logins \ {l} : view'[k] = view[k]
  BY <1>1, <1>2, ViewStep
<1>4. TypeOK'
  BY <1>2, <1>3 DEF LobbyInv, TypeOK
<1>5. ViewInv(l)'
  BY <1>2 DEF ViewInv
<1>6. LoginInv(l)' /\ SessionInv(AccountOf[l])'
  BY <1>2, <1>5, Frame DEF LoginInv
<1>7. StepInv(l)
  BY <1>2, <1>3, <1>4, <1>6 DEF StepInv
<1>. QED
  BY <1>7, StepSuffices

LEMMA DisconnectViewStep ==
    ASSUME LobbyInv, NEW l \in Logins, DisconnectView(l)
    PROVE  LobbyInv'
<1> DEFINE c == WithoutView(client[l])
<1>1. /\ view' = [view EXCEPT ![l] = GoneView]
      /\ Unsubscribe(l, ViewSubjects, {"view.send"})
      /\ client' = [client EXCEPT ![l] = c]
      /\ UNCHANGED <<auth, accountSessions, data, mapSessions, faults>>
  BY DEF DisconnectView
<1>2. /\ c \in ClientState /\ c.told = client[l].told
      /\ c.selections <= MaxSelections
  BY InvFacts DEF WithoutView, ClientState
<1> HIDE DEF c
<1>3. InboxKept(l)
  BY <1>1, UnsubscribeKeeps
<1>4. /\ view' \in [Logins -> ViewState] /\ view'[l] = GoneView
      /\ \A k \in Logins \ {l} : view'[k] = view[k]
  BY <1>1, GoneFacts, ViewStep
<1>5. /\ client' \in [Logins -> ClientState]
      /\ client'[l].told = client[l].told
      /\ \A k \in Logins : client'[k].selections <= MaxSelections
      /\ \A k \in Logins \ {l} : client'[k] = client[k]
  BY <1>1, <1>2, ClientStep
<1>6. TypeOK'
  BY <1>1, <1>3, <1>4, <1>5 DEF LobbyInv, TypeOK, InboxKept
<1>7. LoginInv(l)' /\ SessionInv(AccountOf[l])'
  BY <1>1, <1>3, <1>4, <1>5, GoneFacts, Frame DEF LoginInv, InboxKept
<1>8. StepInv(l)
  BY <1>1, <1>3, <1>4, <1>5, <1>6, <1>7 DEF StepInv, InboxKept
<1>. QED
  BY <1>8, StepSuffices

LEMMA SubscribeViewStep ==
    ASSUME LobbyInv, NEW l \in Logins, SubscribeView(l)
    PROVE  LobbyInv'
<1> DEFINE v == Served(view[l])
<1>1. /\ view' = [view EXCEPT ![l] = v]
      /\ UNCHANGED <<auth, accountSessions, data, inbox, client, mapSessions, faults>>
  BY DEF SubscribeView
<1>2. v \in ViewState /\ (v.handler = "serving" => view[l].handler = "serving")
  BY InvFacts, ServedView
<1> HIDE DEF v
<1>3. /\ view' \in [Logins -> ViewState] /\ view'[l] = v
      /\ \A k \in Logins \ {l} : view'[k] = view[k]
  BY <1>1, <1>2, ViewStep
<1>4. TypeOK'
  BY <1>1, <1>3 DEF LobbyInv, TypeOK
<1>5. LoginInv(l)' /\ SessionInv(AccountOf[l])'
  BY <1>1, <1>2, <1>3, Frame DEF LoginInv
<1>6. StepInv(l)
  BY <1>1, <1>3, <1>4, <1>5 DEF StepInv
<1>. QED
  BY <1>6, StepSuffices

LEMMA GetCharacterStep ==
    ASSUME LobbyInv, NEW l \in Logins, GetCharacter(l)
    PROVE  LobbyInv'
<1> DEFINE v == Served(view[l])
<1> DEFINE ms == [s \in {"data.send"} |-> Text("list")]
<1>1. /\ Publish(l, ms)
      /\ view' = [view EXCEPT ![l] = v]
      /\ UNCHANGED <<auth, accountSessions, data, client, mapSessions>>
  BY DEF GetCharacter
<1>2. IsFiniteSet(DOMAIN ms)
  BY FS_Singleton
<1>3. \A s \in DOMAIN ms : s \in Subjects /\ ms[s] \in Allowed(l, s)
  BY MessageFacts DEF Subjects, DataSubjects
<1>4. v \in ViewState /\ (v.handler = "serving" => view[l].handler = "serving")
  BY InvFacts, ServedView
<1> HIDE DEF ms, v
<1>5. InboxKept(l) /\ faults' \in 0 .. MaxFaults
  BY <1>1, <1>2, <1>3, PublishKeeps
<1>6. /\ view' \in [Logins -> ViewState] /\ view'[l] = v
      /\ \A k \in Logins \ {l} : view'[k] = view[k]
  BY <1>1, <1>4, ViewStep
<1>7. TypeOK'
  BY <1>1, <1>5, <1>6 DEF LobbyInv, TypeOK, InboxKept
<1>8. LoginInv(l)' /\ SessionInv(AccountOf[l])'
  BY <1>1, <1>4, <1>5, <1>6, Frame DEF LoginInv, InboxKept
<1>9. StepInv(l)
  BY <1>1, <1>5, <1>6, <1>7, <1>8 DEF StepInv, InboxKept
<1>. QED
  BY <1>9, StepSuffices

\* One more selection.
LEMMA SelectionCounts ==
    ASSUME LobbyInv, NEW l \in Logins, Selects(l), NEW w \in BOOLEAN
    PROVE  LET c == [client[l] EXCEPT !.waiting = w, !.selections = @ + 1]
           IN  /\ c \in ClientState /\ c.told = client[l].told
               /\ c.selections <= MaxSelections
<1> DEFINE n == client[l].selections + 1
<1>1. client[l] \in ClientState
  BY InvFacts
<1>2. n \in Nat /\ n <= MaxSelections
  <2>1. client[l].selections \in Nat /\ client[l].selections < MaxSelections
    BY <1>1 DEF ClientState, Selects
  <2>. QED
    BY <2>1, LobbyAssumption
<1> DEFINE c == [client[l] EXCEPT !.waiting = w, !.selections = @ + 1]
<1>3. c = [client[l] EXCEPT !.waiting = w, !.selections = n]
  OBVIOUS
<1> HIDE DEF n, c
<1>4. /\ c \in ClientState /\ c.told = client[l].told
      /\ c.selections <= MaxSelections
  BY <1>1, <1>2, <1>3 DEF ClientState
<1>. QED
  BY <1>4 DEF c

LEMMA SelectCharacterStep ==
    ASSUME LobbyInv, NEW l \in Logins, NEW c \in Characters,
           SelectCharacter(l, c)
    PROVE  LobbyInv'
<1> DEFINE v == Served(view[l])
<1> DEFINE c2 == [client[l] EXCEPT !.waiting = TRUE, !.selections = @ + 1]
<1> DEFINE ms == [s \in {"data.character.selectID", "data.send"} |->
                    IF s = "data.send" THEN Text("confirm") ELSE SelectID(c)]
<1>1. /\ Publish(l, ms) /\ Selects(l)
      /\ view' = [view EXCEPT ![l] = v]
      /\ client' = [client EXCEPT ![l] = c2]
      /\ UNCHANGED <<auth, accountSessions, data, mapSessions>>
  BY DEF SelectCharacter
<1>2. IsFiniteSet(DOMAIN ms)
  BY PairIsFinite
<1>3. \A s \in DOMAIN ms : s \in Subjects /\ ms[s] \in Allowed(l, s)
  BY MessageFacts DEF Subjects, DataSubjects
<1>4. v \in ViewState /\ (v.handler = "serving" => view[l].handler = "serving")
  BY InvFacts, ServedView
<1>5. /\ c2 \in ClientState /\ c2.told = client[l].told
      /\ c2.selections <= MaxSelections
  BY <1>1, SelectionCounts
<1> HIDE DEF ms, v, c2
<1>6. InboxKept(l) /\ faults' \in 0 .. MaxFaults
  BY <1>1, <1>2, <1>3, PublishKeeps
<1>7. /\ view' \in [Logins -> ViewState] /\ view'[l] = v
      /\ \A k \in Logins \ {l} : view'[k] = view[k]
  BY <1>1, <1>4, ViewStep
<1>8. /\ client' \in [Logins -> ClientState]
      /\ client'[l].told = client[l].told
      /\ \A k \in Logins : client'[k].selections <= MaxSelections
      /\ \A k \in Logins \ {l} : client'[k] = client[k]
  BY <1>1, <1>5, ClientStep
<1>9. TypeOK'
  BY <1>1, <1>6, <1>7, <1>8 DEF LobbyInv, TypeOK, InboxKept
<1>10. LoginInv(l)' /\ SessionInv(AccountOf[l])'
  BY <1>1, <1>4, <1>6, <1>7, <1>8, Frame DEF LoginInv, InboxKept
<1>11. StepInv(l)
  BY <1>1, <1>6, <1>7, <1>8, <1>9, <1>10 DEF StepInv, InboxKept
<1>. QED
  BY <1>11, StepSuffices

LEMMA RefuseSelectionStep ==
    ASSUME LobbyInv, NEW l \in Logins, NEW c \in Characters,
           RefuseSelection(l, c)
    PROVE  LobbyInv'
<1> DEFINE v == [Served(view[l]) EXCEPT !.handler = "returning"]
<1> DEFINE c2 == [client[l] EXCEPT !.selections = @ + 1]
<1>1. /\ Selects(l)
      /\ view' = [view EXCEPT ![l] = v]
      /\ client' = [client EXCEPT ![l] = c2]
      /\ UNCHANGED <<auth, accountSessions, data, inbox, mapSessions, faults>>
  BY DEF RefuseSelection
<1>2. v \in ViewState /\ v.handler = "returning"
  BY InvFacts, ServedView DEF ViewState, Handlers
<1>3. /\ c2 \in ClientState /\ c2.told = client[l].told
      /\ c2.selections <= MaxSelections
  <2>1. client[l] \in ClientState
    BY InvFacts
  <2>2. client[l].waiting \in BOOLEAN
    BY <2>1 DEF ClientState
  <2> DEFINE c3 == [client[l] EXCEPT !.waiting = client[l].waiting, !.selections = @ + 1]
  <2>3. c2 = c3
    BY <2>1 DEF ClientState
  <2>4. /\ c3 \in ClientState /\ c3.told = client[l].told
        /\ c3.selections <= MaxSelections
    BY <1>1, <2>2, SelectionCounts
  <2>. QED
    BY <2>3, <2>4
<1> HIDE DEF v, c2
<1>4. /\ view' \in [Logins -> ViewState] /\ view'[l] = v
      /\ \A k \in Logins \ {l} : view'[k] = view[k]
  BY <1>1, <1>2, ViewStep
<1>5. /\ client' \in [Logins -> ClientState]
      /\ client'[l].told = client[l].told
      /\ \A k \in Logins : client'[k].selections <= MaxSelections
      /\ \A k \in Logins \ {l} : client'[k] = client[k]
  BY <1>1, <1>3, ClientStep
<1>6. TypeOK'
  BY <1>1, <1>4, <1>5 DEF LobbyInv, TypeOK
<1>7. LoginInv(l)' /\ SessionInv(AccountOf[l])'
  BY <1>1, <1>2, <1>4, <1>5, Frame DEF LoginInv
<1>8. StepInv(l)
  BY <1>1, <1>4, <1>5, <1>6, <1>7 DEF StepInv
<1>. QED
  BY <1>8, StepSuffices

-----------------------------------------------------------------------------
(* View: callbacks                                                         *)

LEMMA OnViewAccountIDStep ==
    ASSUME LobbyInv, NEW l \in Logins, OnViewAccountID(l)
    PROVE  LobbyInv'
<1> DEFINE m == Head(inbox[l]["view.account.id"])
<1> DEFINE v == [view[l] EXCEPT !.account = m.account]
<1>1. /\ Receives(l, "view.account.id")
      /\ view' = [view EXCEPT ![l] = v]
      /\ UNCHANGED <<auth, accountSessions, data, client, mapSessions, faults>>
  BY DEF OnViewAccountID
<1>2. "view.account.id" \in Subjects
  BY DEF Subjects, ViewSubjects
<1>3. InboxKept(l) /\ m \in Allowed(l, "view.account.id")
  BY <1>1, <1>2, ReceiveKeeps
<1>4. m.account \in Accounts \cup {NoAccount}
  BY <1>3 DEF Allowed, Message
<1>5. v \in ViewState /\ v.handler = view[l].handler
  BY <1>4, InvFacts DEF ViewState
<1> HIDE DEF m, v
<1>6. /\ view' \in [Logins -> ViewState] /\ view'[l] = v
      /\ \A k \in Logins \ {l} : view'[k] = view[k]
  BY <1>1, <1>5, ViewStep
<1>7. TypeOK'
  BY <1>1, <1>3, <1>6 DEF LobbyInv, TypeOK, InboxKept
<1>8. LoginInv(l)' /\ SessionInv(AccountOf[l])'
  BY <1>1, <1>3, <1>5, <1>6, Frame DEF LoginInv, InboxKept
<1>9. StepInv(l)
  BY <1>1, <1>3, <1>6, <1>7, <1>8 DEF StepInv, InboxKept
<1>. QED
  BY <1>9, StepSuffices

LEMMA OnViewSendStep ==
    ASSUME LobbyInv, NEW l \in Logins, OnViewSend(l)
    PROVE  LobbyInv'
<1>1. /\ Receives(l, "view.send")
      /\ client' = [client EXCEPT ![l].listed = TRUE]
      /\ UNCHANGED <<auth, accountSessions, view, data, mapSessions, faults>>
  BY DEF OnViewSend
<1>2. "view.send" \in Subjects
  BY DEF Subjects, ViewSubjects
<1>3. InboxKept(l)
  BY <1>1, <1>2, ReceiveKeeps
<1>4. /\ client' \in [Logins -> ClientState]
      /\ client'[l].told = client[l].told
      /\ \A k \in Logins : client'[k].selections = client[k].selections
      /\ \A k \in Logins \ {l} : client'[k] = client[k]
  BY <1>1 DEF LobbyInv, TypeOK, ClientState
<1>5. TypeOK'
  BY <1>1, <1>3, <1>4 DEF LobbyInv, TypeOK, InboxKept
<1>6. LoginInv(l)' /\ SessionInv(AccountOf[l])'
  BY <1>1, <1>3, <1>4, Frame DEF LoginInv, InboxKept
<1>7. StepInv(l)
  BY <1>1, <1>3, <1>4, <1>5, <1>6 DEF StepInv, InboxKept
<1>. QED
  BY <1>7, StepSuffices

\* The client is told while its connection is open: it has not entered the map.
LEMMA OnViewSendEnterStep ==
    ASSUME LobbyInv, NEW l \in Logins, OnViewSendEnter(l)
    PROVE  LobbyInv'
<1> DEFINE m == Head(inbox[l]["view.send"])
<1> DEFINE c == [client[l] EXCEPT !.told = m.character, !.waiting = FALSE]
<1>1. /\ inbox[l]["view.send"] # <<>> /\ m.text = "enter"
      /\ view[l].handler = "serving"
      /\ client' = [client EXCEPT ![l] = c]
      /\ CloseView(l, "view.send")
      /\ UNCHANGED <<auth, accountSessions, data, mapSessions, faults>>
  BY DEF OnViewSendEnter
<1>2. "view.send" \in Subjects
  BY DEF Subjects, ViewSubjects
<1>3. m \in Allowed(l, "view.send")
  BY <1>1, <1>2, HeadFacts
<1>4. m.character \in Characters /\ OwnerOf[m.character] = AccountOf[l]
  BY <1>1, <1>3 DEF Allowed
<1>5. /\ c \in ClientState /\ c.told = m.character
      /\ c.selections <= MaxSelections
  BY <1>4, InvFacts DEF ClientState
<1> HIDE DEF m, c
<1>6. /\ InboxKept(l)
      /\ view' \in [Logins -> ViewState] /\ view'[l].handler # "serving"
      /\ \A k \in Logins \ {l} : view'[k] = view[k]
  BY <1>1, CloseViewKeeps
<1>7. /\ client' \in [Logins -> ClientState]
      /\ client'[l].told = m.character
      /\ \A k \in Logins : client'[k].selections <= MaxSelections
      /\ \A k \in Logins \ {l} : client'[k] = client[k]
  BY <1>1, <1>5, ClientStep
<1>8. TypeOK'
  BY <1>1, <1>6, <1>7 DEF LobbyInv, TypeOK, InboxKept
<1>9. ViewInv(l)'
  BY <1>4, <1>6, <1>7 DEF ViewInv
<1>10. mapSessions[l] = NoSession
  BY <1>1, InvFacts DEF ViewInv, AdmissionInv
<1>11. AdmissionInv(l)'
  BY <1>1, <1>10 DEF AdmissionInv
<1>12. LoginInv(l)' /\ SessionInv(AccountOf[l])'
  BY <1>1, <1>6, <1>9, <1>11, Frame DEF LoginInv, InboxKept
<1>13. StepInv(l)
  BY <1>1, <1>6, <1>7, <1>8, <1>12 DEF StepInv, InboxKept
<1>. QED
  BY <1>13, StepSuffices

LEMMA CloseViewStep ==
    ASSUME LobbyInv, NEW l \in Logins, OnViewClose(l) \/ OnViewSendFails(l)
    PROVE  LobbyInv'
<1>1. faults' \in 0 .. MaxFaults
  BY WriteFaults DEF OnViewClose, OnViewSendFails, LobbyInv, TypeOK
<1>2. PICK s \in ViewSubjects : CloseView(l, s)
  BY DEF OnViewClose, OnViewSendFails, ViewSubjects
<1>3. UNCHANGED <<auth, accountSessions, data, client, mapSessions>>
  BY DEF OnViewClose, OnViewSendFails
<1>4. /\ InboxKept(l)
      /\ view' \in [Logins -> ViewState] /\ view'[l].handler # "serving"
      /\ \A k \in Logins \ {l} : view'[k] = view[k]
  BY <1>2, CloseViewKeeps
<1>5. TypeOK'
  BY <1>1, <1>3, <1>4 DEF LobbyInv, TypeOK, InboxKept
<1>6. LoginInv(l)' /\ SessionInv(AccountOf[l])'
  BY <1>3, <1>4, Frame DEF LoginInv, InboxKept
<1>7. StepInv(l)
  BY <1>3, <1>4, <1>5, <1>6 DEF StepInv, InboxKept
<1>. QED
  BY <1>7, StepSuffices

-----------------------------------------------------------------------------
(* Panics, of all the logins of a server                                   *)

LEMMA PanicInbox ==
    ASSUME LobbyInv, NEW subjects,
           inbox' = [k \in Logins |-> [s \in Subjects |->
                        IF s \in subjects THEN <<>> ELSE inbox[k][s]]]
    PROVE  /\ inbox' \in [Logins -> [Subjects -> Seq(Message)]]
           /\ \A k \in Logins : InboxInv(k)'
<1>1. inbox \in [Logins -> [Subjects -> Seq(Message)]]
  BY DEF LobbyInv, TypeOK
<1>2. ASSUME NEW k \in Logins, NEW s \in Subjects
      PROVE  inbox'[k][s] \in Seq(Message) /\ inbox'[k][s] \in Seq(Allowed(k, s))
  <2> DEFINE A == Allowed(k, s)
  <2>1. inbox[k][s] \in Seq(A) /\ inbox[k][s] \in Seq(Message)
    BY <1>1 DEF LobbyInv, LoginInv, InboxInv
  <2>2. inbox'[k][s] = IF s \in subjects THEN <<>> ELSE inbox[k][s]
    OBVIOUS
  <2> HIDE DEF A
  <2>3. inbox'[k][s] \in Seq(A) /\ inbox'[k][s] \in Seq(Message)
    BY <2>1, <2>2
  <2>. QED
    BY <2>3 DEF A
<1>3. inbox' \in [Logins -> [Subjects -> Seq(Message)]]
  BY <1>2
<1>4. ASSUME NEW k \in Logins PROVE InboxInv(k)'
  BY <1>2 DEF InboxInv
<1>. QED
  BY <1>3, <1>4

LEMMA PanicFaults ==
    ASSUME LobbyInv, Panics
    PROVE  faults' \in 0 .. MaxFaults
BY LobbyAssumption DEF Panics, LobbyInv, TypeOK

LEMMA ViewPanicsStep ==
    ASSUME LobbyInv, NEW l \in Logins, ViewPanics(l)
    PROVE  LobbyInv'
<1>1. /\ view' = [k \in Logins |-> GoneView]
      /\ client' = [k \in Logins |-> WithoutView(client[k])]
      /\ UNCHANGED <<auth, accountSessions, data, mapSessions>>
  BY DEF ViewPanics
<1>2. /\ inbox' \in [Logins -> [Subjects -> Seq(Message)]]
      /\ \A k \in Logins : InboxInv(k)'
  BY PanicInbox DEF ViewPanics
<1>3. faults' \in 0 .. MaxFaults
  BY PanicFaults DEF ViewPanics
<1>4. ASSUME NEW k \in Logins
      PROVE  /\ client'[k] \in ClientState /\ client'[k].told = client[k].told
             /\ client'[k].selections <= MaxSelections
             /\ view'[k] = GoneView /\ view'[k].handler # "serving"
  BY <1>1, InvFacts, GoneFacts DEF WithoutView, ClientState
<1>5. /\ client' \in [Logins -> ClientState] /\ view' \in [Logins -> ViewState]
      /\ \A k \in Logins : client'[k].selections <= MaxSelections
  BY <1>1, <1>4, GoneFacts
<1>6. TypeOK'
  BY <1>1, <1>2, <1>3, <1>5 DEF LobbyInv, TypeOK
<1>7. ASSUME NEW k \in Logins PROVE LoginInv(k)'
  BY <1>1, <1>2, <1>4, Frame DEF LoginInv
<1>8. ASSUME NEW a \in Accounts PROVE SessionInv(a)'
  BY <1>1 DEF LobbyInv, SessionInv
<1>. QED
  BY <1>6, <1>7, <1>8 DEF LobbyInv

\* A confirmation that is under way is gone too.
LEMMA DataPanicsStep ==
    ASSUME LobbyInv, NEW l \in Logins, DataPanics(l)
    PROVE  LobbyInv'
<1>1. /\ data' = [k \in Logins |-> GoneData]
      /\ client' = [k \in Logins |-> WithoutData(client[k])]
      /\ UNCHANGED <<auth, accountSessions, view, mapSessions>>
  BY DEF DataPanics
<1>2. /\ inbox' \in [Logins -> [Subjects -> Seq(Message)]]
      /\ \A k \in Logins : InboxInv(k)'
  BY PanicInbox DEF DataPanics
<1>3. faults' \in 0 .. MaxFaults
  BY PanicFaults DEF DataPanics
<1>4. ASSUME NEW k \in Logins
      PROVE  /\ client'[k] \in ClientState /\ client'[k].told = client[k].told
             /\ client'[k].selections <= MaxSelections
             /\ data'[k] = GoneData
  BY <1>1, InvFacts DEF WithoutData, ClientState
<1>5. /\ client' \in [Logins -> ClientState] /\ data' \in [Logins -> DataState]
      /\ \A k \in Logins : client'[k].selections <= MaxSelections
  BY <1>1, <1>4, GoneFacts
<1>6. TypeOK'
  BY <1>1, <1>2, <1>3, <1>5 DEF LobbyInv, TypeOK
<1>7. ASSUME NEW k \in Logins PROVE LoginInv(k)'
  <2>1. DataInv(k)'
    BY <1>4, GoneFacts DEF DataInv
  <2>. QED
    BY <1>1, <1>2, <1>4, <2>1, Frame DEF LoginInv
<1>8. ASSUME NEW a \in Accounts PROVE SessionInv(a)'
  BY <1>1 DEF LobbyInv, SessionInv
<1>. QED
  BY <1>6, <1>7, <1>8 DEF LobbyInv

-----------------------------------------------------------------------------
(* Data                                                                    *)

LEMMA ConnectDataStep ==
    ASSUME LobbyInv, NEW l \in Logins, ConnectData(l)
    PROVE  LobbyInv'
<1> DEFINE opened == [GoneData EXCEPT !.handler = "serving"]
<1>1. /\ opened \in DataState
      /\ opened.account = NoAccount /\ opened.confirming = NoCharacter
  BY GoneFacts DEF DataState, Handlers
<1>2. /\ data' = [data EXCEPT ![l] = opened]
      /\ UNCHANGED <<auth, accountSessions, view, inbox, client, mapSessions, faults>>
  BY DEF ConnectData
<1> HIDE DEF opened
<1>3. /\ data' \in [Logins -> DataState] /\ data'[l] = opened
      /\ \A k \in Logins \ {l} : data'[k] = data[k]
  BY <1>1, <1>2, DataStep
<1>4. TypeOK'
  BY <1>2, <1>3 DEF LobbyInv, TypeOK
<1>5. DataInv(l)'
  BY <1>1, <1>3 DEF DataInv
<1>6. LoginInv(l)' /\ SessionInv(AccountOf[l])'
  BY <1>2, <1>5, Frame DEF LoginInv
<1>7. StepInv(l)
  BY <1>2, <1>3, <1>4, <1>6 DEF StepInv
<1>. QED
  BY <1>7, StepSuffices

LEMMA DisconnectDataStep ==
    ASSUME LobbyInv, NEW l \in Logins, DisconnectData(l)
    PROVE  LobbyInv'
<1> DEFINE c == WithoutData(client[l])
<1>1. /\ data' = [data EXCEPT ![l] = GoneData]
      /\ Unsubscribe(l, DataSubjects, {"data.send"})
      /\ client' = [client EXCEPT ![l] = c]
      /\ UNCHANGED <<auth, accountSessions, view, mapSessions, faults>>
  BY DEF DisconnectData
<1>2. /\ c \in ClientState /\ c.told = client[l].told
      /\ c.selections <= MaxSelections
  BY InvFacts DEF WithoutData, ClientState
<1> HIDE DEF c
<1>3. InboxKept(l)
  BY <1>1, UnsubscribeKeeps
<1>4. /\ data' \in [Logins -> DataState] /\ data'[l] = GoneData
      /\ \A k \in Logins \ {l} : data'[k] = data[k]
  BY <1>1, GoneFacts, DataStep
<1>5. /\ client' \in [Logins -> ClientState]
      /\ client'[l].told = client[l].told
      /\ \A k \in Logins : client'[k].selections <= MaxSelections
      /\ \A k \in Logins \ {l} : client'[k] = client[k]
  BY <1>1, <1>2, ClientStep
<1>6. TypeOK'
  BY <1>1, <1>3, <1>4, <1>5 DEF LobbyInv, TypeOK, InboxKept
<1>7. DataInv(l)'
  BY <1>4, GoneFacts DEF DataInv
<1>8. LoginInv(l)' /\ SessionInv(AccountOf[l])'
  BY <1>1, <1>3, <1>5, <1>7, Frame DEF LoginInv, InboxKept
<1>9. StepInv(l)
  BY <1>1, <1>3, <1>4, <1>5, <1>6, <1>8 DEF StepInv, InboxKept
<1>. QED
  BY <1>9, StepSuffices

LEMMA KeepAliveStep ==
    ASSUME LobbyInv, NEW l \in Logins, KeepAlive(l)
    PROVE  LobbyInv'
<1> DEFINE d == Served(data[l])
<1>1. /\ data' = [data EXCEPT ![l] = d]
      /\ UNCHANGED <<auth, accountSessions, view, inbox, client, mapSessions, faults>>
  BY DEF KeepAlive
<1>2. /\ d \in DataState /\ d.account = data[l].account
      /\ d.confirming = data[l].confirming
  BY InvFacts, ServedData
<1> HIDE DEF d
<1>3. /\ data' \in [Logins -> DataState] /\ data'[l] = d
      /\ \A k \in Logins \ {l} : data'[k] = data[k]
  BY <1>1, <1>2, DataStep
<1>4. TypeOK'
  BY <1>1, <1>3 DEF LobbyInv, TypeOK
<1>5. LoginInv(l)' /\ SessionInv(AccountOf[l])'
  BY <1>1, <1>2, <1>3, Frame DEF LoginInv
<1>6. StepInv(l)
  BY <1>1, <1>3, <1>4, <1>5 DEF StepInv
<1>. QED
  BY <1>6, StepSuffices

\* The client has answered the last command.
LEMMA AnswerKeeps ==
    ASSUME LobbyInv, NEW l \in Logins, NEW command, Answers(l, command)
    PROVE  /\ client' \in [Logins -> ClientState]
           /\ client'[l].told = client[l].told
           /\ \A k \in Logins : client'[k].selections = client[k].selections
           /\ \A k \in Logins \ {l} : client'[k] = client[k]
           /\ data[l].confirming = NoCharacter
<1>1. /\ client' = [client EXCEPT ![l].asked = "nothing"]
      /\ data[l].confirming = NoCharacter
  BY DEF Answers
<1>2. client \in [Logins -> ClientState]
  BY DEF LobbyInv, TypeOK
<1>. QED
  BY ONLY <1>1, <1>2 DEF ClientState

\* An answer that publishes changes the data context and the inbox.
LEMMA AnswerStep ==
    ASSUME LobbyInv, NEW l \in Logins, NEW command, Answers(l, command),
           NEW d \in DataState, data' = [data EXCEPT ![l] = d],
           DataInv(l)', InboxKept(l), faults' \in 0 .. MaxFaults,
           UNCHANGED <<auth, accountSessions, view, mapSessions>>
    PROVE  LobbyInv'
<1>1. /\ data' \in [Logins -> DataState] /\ data'[l] = d
      /\ \A k \in Logins \ {l} : data'[k] = data[k]
  BY DataStep
<1>2. /\ client' \in [Logins -> ClientState]
      /\ client'[l].told = client[l].told
      /\ \A k \in Logins : client'[k].selections = client[k].selections
      /\ \A k \in Logins \ {l} : client'[k] = client[k]
  BY AnswerKeeps
<1>3. TypeOK'
  BY <1>1, <1>2 DEF LobbyInv, TypeOK, InboxKept
<1>4. LoginInv(l)' /\ SessionInv(AccountOf[l])'
  BY <1>2, Frame DEF LoginInv, InboxKept
<1>5. StepInv(l)
  BY <1>1, <1>2, <1>3, <1>4 DEF StepInv, InboxKept
<1>. QED
  BY <1>5, StepSuffices

LEMMA GetCharactersStep ==
    ASSUME LobbyInv, NEW l \in Logins, GetCharacters(l)
    PROVE  LobbyInv'
<1> DEFINE ms == [s \in {"view.account.id", "view.send"} |->
                    IF s = "view.send" THEN Text("list")
                    ELSE AccountID(AccountOf[l])]
<1> DEFINE d == [Served(data[l]) EXCEPT !.account = AccountOf[l]]
<1>1. /\ Answers(l, "list") /\ Publish(l, ms)
      /\ data' = [data EXCEPT ![l] = d]
      /\ UNCHANGED <<auth, accountSessions, view, mapSessions>>
  BY DEF GetCharacters
<1>2. IsFiniteSet(DOMAIN ms)
  BY PairIsFinite
<1>3. \A s \in DOMAIN ms : s \in Subjects /\ ms[s] \in Allowed(l, s)
  BY MessageFacts DEF Subjects, ViewSubjects
<1>4. /\ d \in DataState /\ d.account = AccountOf[l]
      /\ d.confirming = NoCharacter
  BY <1>1, InvFacts, ServedData, AnswerKeeps DEF DataState
<1> HIDE DEF ms, d
<1>5. InboxKept(l) /\ faults' \in 0 .. MaxFaults
  BY <1>1, <1>2, <1>3, PublishKeeps
<1>6. DataInv(l)'
  BY <1>1, <1>4, DataStep DEF DataInv
<1>. QED
  BY <1>1, <1>4, <1>5, <1>6, AnswerStep

LEMMA GetCharactersFailsStep ==
    ASSUME LobbyInv, NEW l \in Logins, GetCharactersFails(l)
    PROVE  LobbyInv'
<1> DEFINE ms == [s \in {"view.account.id"} |-> AccountID(AccountOf[l])]
<1> DEFINE d == [Served(data[l]) EXCEPT !.account = AccountOf[l],
                                        !.handler = "returning"]
<1>1. /\ Answers(l, "list") /\ Publish(l, ms)
      /\ data' = [data EXCEPT ![l] = d]
      /\ UNCHANGED <<auth, accountSessions, view, mapSessions>>
  BY DEF GetCharactersFails
<1>2. IsFiniteSet(DOMAIN ms)
  BY FS_Singleton
<1>3. \A s \in DOMAIN ms : s \in Subjects /\ ms[s] \in Allowed(l, s)
  BY MessageFacts DEF Subjects, ViewSubjects
<1>4. /\ d \in DataState /\ d.account = AccountOf[l]
      /\ d.confirming = NoCharacter
  <2>1. /\ data[l] \in DataState /\ data[l].confirming = NoCharacter
        /\ AccountOf[l] \in Accounts
    BY <1>1, InvFacts DEF Answers
  <2>2. Served(data[l]) \in DataState /\ Served(data[l]).confirming = NoCharacter
    BY <2>1, ServedData
  <2>. QED
    BY ONLY <2>1, <2>2 DEF DataState, Handlers
<1> HIDE DEF ms, d
<1>5. InboxKept(l) /\ faults' \in 0 .. MaxFaults
  BY <1>1, <1>2, <1>3, PublishKeeps
<1>6. DataInv(l)'
  BY <1>1, <1>4, DataStep DEF DataInv
<1>. QED
  BY <1>1, <1>4, <1>5, <1>6, AnswerStep

\* A request that is refused leaves the context to be closed.
LEMMA RefusedData ==
    ASSUME LobbyInv, NEW l \in Logins
    PROVE  LET d == [Served(data[l]) EXCEPT !.handler = "returning"]
           IN  /\ d \in DataState /\ d.account = data[l].account
               /\ d.confirming = data[l].confirming
BY InvFacts, ServedData DEF DataState, Handlers

LEMMA RefuseCharactersStep ==
    ASSUME LobbyInv, NEW l \in Logins, RefuseCharacters(l)
    PROVE  LobbyInv'
<1> DEFINE ms == [s \in {"view.close"} |-> Text("close")]
<1> DEFINE d == [Served(data[l]) EXCEPT !.handler = "returning"]
<1>1. /\ Answers(l, "list") /\ Publish(l, ms)
      /\ data' = [data EXCEPT ![l] = d]
      /\ UNCHANGED <<auth, accountSessions, view, mapSessions>>
  BY DEF RefuseCharacters
<1>2. IsFiniteSet(DOMAIN ms)
  BY FS_Singleton
<1>3. \A s \in DOMAIN ms : s \in Subjects /\ ms[s] \in Allowed(l, s)
  BY MessageFacts DEF Subjects, ViewSubjects
<1>4. /\ d \in DataState /\ d.account = data[l].account
      /\ d.confirming = data[l].confirming
  BY RefusedData
<1> HIDE DEF ms, d
<1>5. InboxKept(l) /\ faults' \in 0 .. MaxFaults
  BY <1>1, <1>2, <1>3, PublishKeeps
<1>6. DataInv(l)'
  BY <1>1, <1>4, DataStep, Frame
<1>. QED
  BY <1>1, <1>4, <1>5, <1>6, AnswerStep

\* A confirmation only begins for a character of the connection's account.
LEMMA ConfirmSelectionStep ==
    ASSUME LobbyInv, NEW l \in Logins, ConfirmSelection(l)
    PROVE  LobbyInv'
<1> DEFINE c == data[l].selected
<1> DEFINE ms == [s \in {"view.send"} |-> Enter(c)]
<1> DEFINE d == [Served(data[l]) EXCEPT !.confirming = c]
<1>1. /\ Answers(l, "confirm") /\ Publish(l, ms) /\ DataOwns(l)
      /\ data' = [data EXCEPT ![l] = d]
      /\ UNCHANGED <<auth, accountSessions, view, mapSessions>>
  BY DEF ConfirmSelection
<1>2. c \in Characters /\ data[l].account = AccountOf[l] /\ OwnerOf[c] = AccountOf[l]
  BY <1>1, InvFacts DEF DataOwns, DataState, DataInv
<1>3. IsFiniteSet(DOMAIN ms)
  BY FS_Singleton
<1>4. \A s \in DOMAIN ms : s \in Subjects /\ ms[s] \in Allowed(l, s)
  BY <1>2, MessageFacts DEF Subjects, ViewSubjects
<1>5. d \in DataState /\ d.account = data[l].account /\ d.confirming = c
  BY <1>2, InvFacts, ServedData DEF DataState
<1> HIDE DEF c, ms, d
<1>6. InboxKept(l) /\ faults' \in 0 .. MaxFaults
  BY <1>1, <1>3, <1>4, PublishKeeps
<1>7. DataInv(l)'
  BY <1>1, <1>2, <1>5, DataStep DEF DataInv
<1>. QED
  BY <1>1, <1>5, <1>6, <1>7, AnswerStep

LEMMA RefuseConfirmationStep ==
    ASSUME LobbyInv, NEW l \in Logins, RefuseConfirmation(l)
    PROVE  LobbyInv'
<1> DEFINE d == [Served(data[l]) EXCEPT !.handler = "returning"]
<1>1. /\ Answers(l, "confirm")
      /\ data' = [data EXCEPT ![l] = d]
      /\ UNCHANGED <<auth, accountSessions, view, inbox, mapSessions, faults>>
  BY DEF RefuseConfirmation
<1>2. /\ d \in DataState /\ d.account = data[l].account
      /\ d.confirming = data[l].confirming
  BY RefusedData
<1> HIDE DEF d
<1>3. DataInv(l)'
  BY <1>1, <1>2, DataStep, Frame
<1>4. InboxKept(l) /\ faults' \in 0 .. MaxFaults
  BY <1>1, Frame DEF InboxKept, LobbyInv, TypeOK
<1>. QED
  BY <1>1, <1>2, <1>3, <1>4, AnswerStep

\* The confirmation is over: its character is forgotten.
LEMMA ConfirmedData ==
    ASSUME LobbyInv, NEW l \in Logins,
           data' = [data EXCEPT ![l].confirming = NoCharacter]
    PROVE  /\ data' \in [Logins -> DataState]
           /\ \A k \in Logins \ {l} : data'[k] = data[k]
           /\ DataInv(l)'
<1> DEFINE d == [data[l] EXCEPT !.confirming = NoCharacter]
<1>1. d \in DataState /\ d.account = data[l].account /\ d.confirming = NoCharacter
  BY InvFacts DEF DataState
<1>2. data' = [data EXCEPT ![l] = d]
  OBVIOUS
<1> HIDE DEF d
<1>. QED
  BY <1>1, <1>2, DataStep, Frame

\* The session gets the character and the key at once, those of its account.
LEMMA UpdateAccountSessionStep ==
    ASSUME LobbyInv, NEW l \in Logins, UpdateAccountSession(l)
    PROVE  LobbyInv'
<1> DEFINE a == AccountOf[l]
<1> DEFINE row == ConfirmedSession(accountSessions[a], l)
<1>1. a \in Accounts
  BY InvFacts
<1>2. /\ data[l].confirming # NoCharacter
      /\ data' = [data EXCEPT ![l].confirming = NoCharacter]
      /\ UNCHANGED <<auth, view, inbox, client, mapSessions, faults>>
  BY DEF UpdateAccountSession
<1>3. /\ data[l].account = a /\ OwnerOf[data[l].confirming] = a
      /\ data[l].confirming \in Characters
  BY <1>2, InvFacts DEF DataInv, DataState
<1>4. accountSessions' =
        IF accountSessions[a] = NoSession THEN accountSessions
        ELSE [accountSessions EXCEPT ![a] = row]
  BY <1>3 DEF UpdateAccountSession
<1>5. accountSessions[a] # NoSession =>
        /\ row \in Session /\ row.character = data[l].confirming
        /\ row.key = MagicKey(l)
  <2> SUFFICES ASSUME accountSessions[a] # NoSession
               PROVE  /\ row \in Session /\ row.character = data[l].confirming
                      /\ row.key = MagicKey(l)
    OBVIOUS
  <2>1. accountSessions[a] \in Session
    BY <1>1 DEF LobbyInv, TypeOK
  <2>2. MagicKey(l) \in Keys
    BY DEF MagicKey, Keys
  <2>. QED
    BY <1>3, <2>1, <2>2 DEF ConfirmedSession, Session
<1> HIDE DEF row
<1>6. /\ accountSessions' \in [Accounts -> Session \cup {NoSession}]
      /\ \A b \in Accounts \ {a} : accountSessions'[b] = accountSessions[b]
  BY <1>1, <1>4, <1>5 DEF LobbyInv, TypeOK
<1>7. SessionInv(AccountOf[l])'
  <2>1. CASE accountSessions[a] = NoSession
    BY <1>4, <2>1, Frame
  <2>2. CASE accountSessions[a] # NoSession
    <3>1. accountSessions'[a] = row
      BY <1>1, <1>4, <2>2 DEF LobbyInv, TypeOK
    <3>2. OwnKey(a, row.key)
      BY <1>5, <2>2 DEF OwnKey
    <3>3. row.character = data[l].confirming /\ OwnerOf[row.character] = a
      BY <1>3, <1>5, <2>2
    <3>. QED
      BY <3>1, <3>2, <3>3 DEF SessionInv
  <2>. QED
    BY <2>1, <2>2
<1>8. /\ data' \in [Logins -> DataState]
      /\ \A k \in Logins \ {l} : data'[k] = data[k]
      /\ DataInv(l)'
  BY <1>2, ConfirmedData
<1>9. TypeOK'
  BY <1>2, <1>6, <1>8 DEF LobbyInv, TypeOK
<1>10. LoginInv(l)'
  BY <1>2, <1>8, Frame DEF LoginInv
<1>11. StepInv(l)
  BY <1>2, <1>6, <1>7, <1>8, <1>9, <1>10 DEF StepInv
<1>. QED
  BY <1>11, StepSuffices

LEMMA UpdateFailsStep ==
    ASSUME LobbyInv, NEW l \in Logins, UpdateFails(l)
    PROVE  LobbyInv'
<1>1. /\ data[l].confirming # NoCharacter
      /\ faults < MaxFaults /\ faults' = faults + 1
      /\ data' = [data EXCEPT ![l].confirming = NoCharacter]
      /\ UNCHANGED <<auth, accountSessions, view, inbox, client, mapSessions>>
  BY DEF UpdateFails
<1>2. faults' \in 0 .. MaxFaults
  BY <1>1, LobbyAssumption DEF LobbyInv, TypeOK
<1>3. /\ data' \in [Logins -> DataState]
      /\ \A k \in Logins \ {l} : data'[k] = data[k]
      /\ DataInv(l)'
  BY <1>1, ConfirmedData
<1>4. TypeOK'
  BY <1>1, <1>2, <1>3 DEF LobbyInv, TypeOK
<1>5. LoginInv(l)' /\ SessionInv(AccountOf[l])'
  BY <1>1, <1>3, Frame DEF LoginInv
<1>6. StepInv(l)
  BY <1>1, <1>3, <1>4, <1>5 DEF StepInv
<1>. QED
  BY <1>6, StepSuffices

-----------------------------------------------------------------------------
(* Data: callbacks, and the map router                                     *)

LEMMA OnDataSendStep ==
    ASSUME LobbyInv, NEW l \in Logins, OnDataSend(l)
    PROVE  LobbyInv'
<1> DEFINE m == Head(inbox[l]["data.send"])
<1>1. /\ Receives(l, "data.send")
      /\ client' = [client EXCEPT ![l].asked = m.text]
      /\ UNCHANGED <<auth, accountSessions, view, data, mapSessions, faults>>
  BY DEF OnDataSend
<1>2. "data.send" \in Subjects
  BY DEF Subjects, DataSubjects
<1>3. InboxKept(l) /\ m \in Allowed(l, "data.send")
  BY <1>1, <1>2, ReceiveKeeps
<1>4. m.text \in {"list", "confirm"}
  BY <1>3 DEF Allowed
<1> HIDE DEF m
<1>5. /\ client' \in [Logins -> ClientState]
      /\ client'[l].told = client[l].told
      /\ \A k \in Logins : client'[k].selections = client[k].selections
      /\ \A k \in Logins \ {l} : client'[k] = client[k]
  BY <1>1, <1>4 DEF LobbyInv, TypeOK, ClientState
<1>6. TypeOK'
  BY <1>1, <1>3, <1>5 DEF LobbyInv, TypeOK, InboxKept
<1>7. LoginInv(l)' /\ SessionInv(AccountOf[l])'
  BY <1>1, <1>3, <1>5, Frame DEF LoginInv, InboxKept
<1>8. StepInv(l)
  BY <1>1, <1>3, <1>5, <1>6, <1>7 DEF StepInv, InboxKept
<1>. QED
  BY <1>8, StepSuffices

LEMMA OnDataSendFailsStep ==
    ASSUME LobbyInv, NEW l \in Logins, OnDataSendFails(l)
    PROVE  LobbyInv'
<1>1. /\ CloseData(l, "data.send")
      /\ UNCHANGED <<auth, accountSessions, view, client, mapSessions>>
  BY DEF OnDataSendFails
<1>2. faults' \in 0 .. MaxFaults
  BY WriteFaults DEF OnDataSendFails
<1>3. /\ InboxKept(l)
      /\ data' \in [Logins -> DataState]
      /\ data'[l].account = data[l].account
      /\ data'[l].confirming = data[l].confirming
      /\ \A k \in Logins \ {l} : data'[k] = data[k]
  BY <1>1, CloseDataKeeps
<1>4. TypeOK'
  BY <1>1, <1>2, <1>3 DEF LobbyInv, TypeOK, InboxKept
<1>5. LoginInv(l)' /\ SessionInv(AccountOf[l])'
  BY <1>1, <1>3, Frame DEF LoginInv, InboxKept
<1>6. StepInv(l)
  BY <1>1, <1>3, <1>4, <1>5 DEF StepInv, InboxKept
<1>. QED
  BY <1>6, StepSuffices

LEMMA OnSelectIDStep ==
    ASSUME LobbyInv, NEW l \in Logins, OnSelectID(l)
    PROVE  LobbyInv'
<1> DEFINE m == Head(inbox[l]["data.character.selectID"])
<1> DEFINE d == [data[l] EXCEPT !.selected = m.character]
<1>1. /\ Receives(l, "data.character.selectID")
      /\ data' = [data EXCEPT ![l] = d]
      /\ UNCHANGED <<auth, accountSessions, view, client, mapSessions, faults>>
  BY DEF OnSelectID
<1>2. "data.character.selectID" \in Subjects
  BY DEF Subjects, DataSubjects
<1>3. InboxKept(l) /\ m \in Allowed(l, "data.character.selectID")
  BY <1>1, <1>2, ReceiveKeeps
<1>4. m.character \in Characters \cup {NoCharacter}
  BY <1>3 DEF Allowed, Message
<1>5. /\ d \in DataState /\ d.account = data[l].account
      /\ d.confirming = data[l].confirming
  BY <1>4, InvFacts DEF DataState
<1> HIDE DEF m, d
<1>6. /\ data' \in [Logins -> DataState] /\ data'[l] = d
      /\ \A k \in Logins \ {l} : data'[k] = data[k]
  BY <1>1, <1>5, DataStep
<1>7. TypeOK'
  BY <1>1, <1>3, <1>6 DEF LobbyInv, TypeOK, InboxKept
<1>8. LoginInv(l)' /\ SessionInv(AccountOf[l])'
  BY <1>1, <1>3, <1>5, <1>6, Frame DEF LoginInv, InboxKept
<1>9. StepInv(l)
  BY <1>1, <1>3, <1>6, <1>7, <1>8 DEF StepInv, InboxKept
<1>. QED
  BY <1>9, StepSuffices

\* The session found by the character is one of the character's owner, and its
\* key has been replaced.
LEMMA EnterMapStep ==
    ASSUME LobbyInv, NEW l \in Logins, EnterMap(l)
    PROVE  LobbyInv'
<1>1. PICK a \in Accounts :
        /\ client[l].told # NoCharacter
        /\ accountSessions[a] # NoSession
        /\ accountSessions[a].character = client[l].told
        /\ mapSessions' = [mapSessions EXCEPT ![l] = accountSessions[a]]
        /\ UNCHANGED <<auth, accountSessions, view, data, inbox, client, faults>>
  BY DEF EnterMap
<1>2. SessionInv(a) /\ accountSessions[a] \in Session
  BY <1>1 DEF LobbyInv, TypeOK
<1>3. /\ mapSessions' \in [Logins -> Session \cup {NoSession}]
      /\ mapSessions'[l] = accountSessions[a]
      /\ \A k \in Logins \ {l} : mapSessions'[k] = mapSessions[k]
  BY <1>1, <1>2 DEF LobbyInv, TypeOK
<1>4. a = AccountOf[l] /\ OwnKey(a, accountSessions[a].key)
  BY <1>1, <1>2, InvFacts DEF SessionInv, ViewInv
<1>5. TypeOK'
  BY <1>1, <1>3 DEF LobbyInv, TypeOK
<1>6. AdmissionInv(l)'
  BY <1>1, <1>3, <1>4 DEF AdmissionInv
<1>7. LoginInv(l)' /\ SessionInv(AccountOf[l])'
  BY <1>1, <1>6, Frame DEF LoginInv
<1>8. StepInv(l)
  BY <1>1, <1>3, <1>5, <1>7 DEF StepInv
<1>. QED
  BY <1>8, StepSuffices

-----------------------------------------------------------------------------
(* Theorems                                                                *)

LEMMA InitInv == Init => LobbyInv
<1> SUFFICES ASSUME Init PROVE LobbyInv
  OBVIOUS
<1>1. GoneView \in ViewState /\ GoneData \in DataState
  BY GoneFacts
<1>2. TypeOK
  BY <1>1, LobbyAssumption DEF Init, TypeOK, ClientState
<1>3. ASSUME NEW l \in Logins PROVE LoginInv(l)
  <2>1. /\ data[l] = GoneData
        /\ \A s \in Subjects : inbox[l][s] = <<>>
        /\ client[l].told = NoCharacter /\ mapSessions[l] = NoSession
    BY DEF Init
  <2>2. DataInv(l)
    BY <2>1, GoneFacts DEF DataInv
  <2>3. ViewInv(l)
    BY <2>1 DEF ViewInv
  <2>4. InboxInv(l)
    <3>1. ASSUME NEW s \in Subjects PROVE inbox[l][s] \in Seq(Allowed(l, s))
      <4>1. inbox[l][s] = <<>>
        BY <2>1
      <4> DEFINE A == Allowed(l, s)
      <4> HIDE DEF A
      <4>2. <<>> \in Seq(A)
        OBVIOUS
      <4>. QED
        BY <4>1, <4>2 DEF A
    <3>. QED
      BY <3>1 DEF InboxInv
  <2>5. AdmissionInv(l)
    BY <2>1 DEF AdmissionInv
  <2>. QED
    BY <2>2, <2>3, <2>4, <2>5 DEF LoginInv
<1>4. \A a \in Accounts : SessionInv(a)
  BY DEF Init, SessionInv
<1>. QED
  BY <1>2, <1>3, <1>4 DEF LobbyInv

LEMMA NextInv == LobbyInv /\ [Next]_vars => LobbyInv'
<1> SUFFICES ASSUME LobbyInv, [Next]_vars PROVE LobbyInv'
  OBVIOUS
<1>1. ASSUME NEW l \in Logins, Request(l) PROVE LobbyInv'
  <2>1. CASE ClearSessions(l) \/ CreateSession(l) \/ CreateFails(l)
    BY <2>1, AuthStep
  <2>2. CASE ConnectView(l)
    BY <2>2, ConnectViewStep
  <2>3. CASE DisconnectView(l)
    BY <2>3, DisconnectViewStep
  <2>4. CASE SubscribeView(l)
    BY <2>4, SubscribeViewStep
  <2>5. CASE GetCharacter(l)
    BY <2>5, GetCharacterStep
  <2>6. ASSUME NEW c \in Characters, SelectCharacter(l, c) PROVE LobbyInv'
    BY <2>6, SelectCharacterStep
  <2>7. ASSUME NEW c \in Characters, RefuseSelection(l, c) PROVE LobbyInv'
    BY <2>7, RefuseSelectionStep
  <2>8. CASE ConnectData(l)
    BY <2>8, ConnectDataStep
  <2>9. CASE DisconnectData(l)
    BY <2>9, DisconnectDataStep
  <2>10. CASE KeepAlive(l)
    BY <2>10, KeepAliveStep
  <2>11. CASE GetCharacters(l) \/ GetCharactersFails(l)
    BY <2>11, GetCharactersStep, GetCharactersFailsStep
  <2>12. CASE RefuseCharacters(l)
    BY <2>12, RefuseCharactersStep
  <2>13. CASE ConfirmSelection(l)
    BY <2>13, ConfirmSelectionStep
  <2>14. CASE RefuseConfirmation(l)
    BY <2>14, RefuseConfirmationStep
  <2>. QED
    BY <1>1, <2>1, <2>2, <2>3, <2>4, <2>5, <2>6, <2>7, <2>8, <2>9, <2>10,
       <2>11, <2>12, <2>13, <2>14 DEF Request
<1>2. ASSUME NEW l \in Logins, Callback(l) PROVE LobbyInv'
  BY <1>2, OnViewAccountIDStep, OnViewSendStep, OnViewSendEnterStep,
     CloseViewStep, ViewPanicsStep, OnDataSendStep, OnDataSendFailsStep,
     OnSelectIDStep, DataPanicsStep DEF Callback
<1>3. ASSUME NEW l \in Logins, FinishConfirmation(l) PROVE LobbyInv'
  BY <1>3, UpdateAccountSessionStep, UpdateFailsStep DEF FinishConfirmation
<1>4. ASSUME NEW l \in Logins, EnterMap(l) PROVE LobbyInv'
  BY <1>4, EnterMapStep
<1>5. CASE UNCHANGED vars
  <2>1. /\ auth' = auth /\ accountSessions' = accountSessions /\ view' = view
        /\ data' = data /\ inbox' = inbox /\ client' = client
        /\ mapSessions' = mapSessions /\ faults' = faults
    BY <1>5 DEF vars
  <2>2. TypeOK'
    BY <2>1 DEF LobbyInv, TypeOK
  <2>3. ASSUME NEW l \in Logins PROVE LoginInv(l)' /\ SessionInv(AccountOf[l])'
    BY <2>1, Frame DEF LoginInv
  <2>4. ASSUME NEW a \in Accounts PROVE SessionInv(a)'
    BY <2>1 DEF LobbyInv, SessionInv
  <2>. QED
    BY <2>2, <2>3, <2>4 DEF LobbyInv
<1>. QED
  BY <1>1, <1>2, <1>3, <1>4, <1>5 DEF Next

LEMMA Invariance == Spec => []LobbyInv
<1>. QED
  BY InitInv, NextInv, PTL DEF Spec

\* The servers, the broker, the table and the clients stay well typed; the
\* clients keep to their selections.
THEOREM TypeCorrect == Spec => []TypeOK
<1>1. LobbyInv => TypeOK
  BY DEF LobbyInv
<1>. QED
  BY <1>1, Invariance, PTL

\* Whatever the order in which the messages of two servers arrive, or are lost,
\* an account's session only names a character of the account.
THEOREM SessionsAreOwned == Spec => []SessionsOwned
<1>1. LobbyInv => SessionsOwned
  BY DEF LobbyInv, SessionInv, SessionsOwned
<1>. QED
  BY <1>1, Invariance, PTL

\* A client only gets into the map router with a character of its account, and
\* under a key that a client of the account has chosen.
THEOREM AdmissionsAreOwned == Spec => []AdmittedWithMagicKey
<1>1. LobbyInv => AdmittedWithMagicKey
  BY DEF LobbyInv, LoginInv, ViewInv, AdmissionInv, OwnKey, AdmittedWithMagicKey
<1>. QED
  BY <1>1, Invariance, PTL

-----------------------------------------------------------------------------
(* The visit without its messages: what AccountSessions says of it.        *)

LoggedIn == {l \in Logins : auth[l] = "in"}

Told == [l \in Logins |-> client[l].told]

Active(l) ==
    \/ view[l].handler # "gone" \/ data[l].handler # "gone"
    \/ client[l].told # NoCharacter

\* Only clients that have logged in go on to the lobby's other servers; the
\* confirmation of a selection keeps its handler.
ActiveInv ==
    \A l \in Logins :
        /\ Active(l) => auth[l] = "in"
        /\ data[l].confirming # NoCharacter => data[l].handler # "gone"

\* The requests and callbacks that neither write a session nor send a client
\* to the map.
QuietView(l) ==
    \/ ConnectView(l) \/ DisconnectView(l) \/ SubscribeView(l) \/ GetCharacter(l)
    \/ \E c \in Characters : SelectCharacter(l, c) \/ RefuseSelection(l, c)
    \/ OnViewAccountID(l) \/ OnViewSend(l) \/ OnViewClose(l)
    \/ OnViewSendFails(l) \/ ViewPanics(l)

QuietData(l) ==
    \/ ConnectData(l) \/ DisconnectData(l) \/ KeepAlive(l)
    \/ GetCharacters(l) \/ GetCharactersFails(l) \/ RefuseCharacters(l)
    \/ ConfirmSelection(l) \/ RefuseConfirmation(l)
    \/ OnDataSend(l) \/ OnDataSendFails(l) \/ OnSelectID(l) \/ DataPanics(l)
    \/ UpdateFails(l)

QuietStep(l) ==
    /\ auth' = auth /\ accountSessions' = accountSessions
    /\ mapSessions' = mapSessions
    /\ \A k \in Logins :
        /\ client'[k].told = client[k].told
        /\ view'[k].handler # "gone" => view[k].handler # "gone" \/ auth[k] = "in"
        /\ data'[k].handler # "gone" => data[k].handler # "gone" \/ auth[k] = "in"
        /\ data'[k].confirming # NoCharacter =>
            \/ data'[k].handler # "gone"
            \/ data[k].confirming # NoCharacter /\ data[k].handler = "gone"

LEMMA QuietViewFacts ==
    ASSUME LobbyInv, NEW l \in Logins, QuietView(l)
    PROVE  QuietStep(l)
<1>1. /\ view \in [Logins -> ViewState] /\ client \in [Logins -> ClientState]
  BY DEF LobbyInv, TypeOK
<1>2. /\ auth' = auth /\ accountSessions' = accountSessions
      /\ mapSessions' = mapSessions /\ data' = data
  BY DEF QuietView, ConnectView, DisconnectView, SubscribeView, GetCharacter,
     SelectCharacter, RefuseSelection, OnViewAccountID, OnViewSend, OnViewClose,
     OnViewSendFails, ViewPanics
<1>3. ASSUME NEW k \in Logins PROVE client'[k].told = client[k].told
  <2>1. CASE client' = client
    BY <2>1
  <2>2. CASE DisconnectView(l)
    BY <1>1, <2>2 DEF DisconnectView, WithoutView, ClientState
  <2>3. ASSUME NEW c \in Characters, SelectCharacter(l, c) \/ RefuseSelection(l, c)
        PROVE  client'[k].told = client[k].told
    BY <1>1, <2>3 DEF SelectCharacter, RefuseSelection, ClientState
  <2>4. CASE OnViewSend(l)
    BY <1>1, <2>4 DEF OnViewSend, ClientState
  <2>5. CASE ViewPanics(l)
    BY <1>1, <2>5 DEF ViewPanics, WithoutView, ClientState
  <2>. QED
    BY <2>1, <2>2, <2>3, <2>4, <2>5 DEF QuietView, ConnectView, SubscribeView,
       GetCharacter, OnViewAccountID, OnViewClose, OnViewSendFails
<1>4. ASSUME NEW k \in Logins, view'[k].handler # "gone"
      PROVE  view[k].handler # "gone" \/ auth[k] = "in"
  <2>1. CASE view'[k] = view[k]
    BY <1>4, <2>1
  <2>2. CASE view'[k] # view[k] /\ k = l
    <3>1. CASE ConnectView(l)
      BY <2>2, <3>1 DEF ConnectView
    <3>2. CASE Serves(view[l])
      BY <2>2, <3>2 DEF Serves
    <3>3. CASE OnViewAccountID(l)
      BY <1>1, <1>4, <2>2, <3>3 DEF OnViewAccountID, ViewState
    <3>4. CASE view' = [view EXCEPT ![l] = GoneView] \/ ViewPanics(l)
      BY <1>1, <1>4, <2>2, <3>4, GoneFacts DEF ViewPanics
    <3>5. ASSUME NEW s, CloseView(l, s)
          PROVE  view[k].handler # "gone" \/ auth[k] = "in"
      BY <1>1, <1>4, <2>2, <3>5 DEF CloseView, ViewState
    <3>. QED
      BY <2>2, <3>1, <3>2, <3>3, <3>4, <3>5 DEF QuietView, DisconnectView,
         SubscribeView, GetCharacter, SelectCharacter, RefuseSelection, Selects,
         OnViewSend, OnViewClose, OnViewSendFails
  <2>3. CASE view'[k] # view[k] /\ k # l
    <3>1. CASE ViewPanics(l)
      BY <1>4, <3>1, GoneFacts DEF ViewPanics
    <3>2. CASE ~ViewPanics(l)
      BY <1>1, <2>3, <3>2 DEF QuietView, ConnectView, DisconnectView, SubscribeView,
         GetCharacter, SelectCharacter, RefuseSelection, OnViewAccountID, OnViewSend,
         OnViewClose, OnViewSendFails, CloseView
    <3>. QED
      BY <3>1, <3>2
  <2>. QED
    BY <2>1, <2>2, <2>3
<1>. QED
  BY <1>2, <1>3, <1>4 DEF QuietStep

LEMMA QuietDataFacts ==
    ASSUME LobbyInv, NEW l \in Logins, QuietData(l)
    PROVE  QuietStep(l)
<1>1. /\ data \in [Logins -> DataState] /\ client \in [Logins -> ClientState]
  BY DEF LobbyInv, TypeOK
<1>2. /\ auth' = auth /\ accountSessions' = accountSessions
      /\ mapSessions' = mapSessions /\ view' = view
  BY DEF QuietData, ConnectData, DisconnectData, KeepAlive, GetCharacters,
     GetCharactersFails, RefuseCharacters, ConfirmSelection, RefuseConfirmation,
     OnDataSend, OnDataSendFails, OnSelectID, DataPanics, UpdateFails
<1>3. ASSUME NEW k \in Logins PROVE client'[k].told = client[k].told
  <2>1. CASE client' = client
    BY <2>1
  <2>2. CASE DisconnectData(l) \/ DataPanics(l)
    BY <1>1, <2>2 DEF DisconnectData, DataPanics, WithoutData, ClientState
  <2>3. CASE Answers(l, "list") \/ Answers(l, "confirm")
    BY <1>1, <2>3 DEF Answers, ClientState
  <2>4. CASE OnDataSend(l)
    BY <1>1, <2>4 DEF OnDataSend, ClientState
  <2>. QED
    BY <2>1, <2>2, <2>3, <2>4 DEF QuietData, ConnectData, KeepAlive, GetCharacters,
       GetCharactersFails, RefuseCharacters, ConfirmSelection, RefuseConfirmation,
       OnDataSendFails, OnSelectID, UpdateFails
<1> DEFINE Fine(k) ==
        /\ data'[k].handler # "gone" => data[k].handler # "gone" \/ auth[k] = "in"
        /\ data'[k].confirming # NoCharacter =>
            \/ data'[k].handler # "gone"
            \/ data[k].confirming # NoCharacter /\ data[k].handler = "gone"
<1>4. ASSUME NEW k \in Logins PROVE Fine(k)
  <2>1. CASE data'[k] = data[k]
    BY <2>1
  <2>2. CASE data'[k] # data[k] /\ k = l
    <3>1. CASE ConnectData(l)
      BY <1>1, <2>2, <3>1 DEF ConnectData, GoneData
    <3>2. CASE DisconnectData(l) \/ DataPanics(l)
      BY <1>1, <2>2, <3>2, GoneFacts DEF DisconnectData, DataPanics
    <3>3. CASE KeepAlive(l)
      <4>1. data'[l] = Served(data[l]) /\ Serves(data[l])
        BY <1>1, <3>3 DEF KeepAlive
      <4>2. data[l].handler # "gone" /\ data'[l].handler # "gone"
        BY <1>1, <4>1 DEF Serves, Served, DataState
      <4>. QED BY <2>2, <4>2
    <3>4. CASE \/ GetCharacters(l) \/ GetCharactersFails(l) \/ RefuseCharacters(l)
               \/ ConfirmSelection(l) \/ RefuseConfirmation(l)
      <4>1. Serves(data[l])
        BY <3>4 DEF GetCharacters, GetCharactersFails, RefuseCharacters,
                    ConfirmSelection, RefuseConfirmation, Answers
      <4>2. Served(data[l]) \in DataState /\ Served(data[l]).handler # "gone"
        BY <1>1, <4>1, ServedData DEF Serves, Served, DataState
      <4>3. data'[l].handler # "gone"
        BY <1>1, <3>4, <4>2 DEF GetCharacters, GetCharactersFails, RefuseCharacters,
                    ConfirmSelection, RefuseConfirmation, DataState
      <4>. QED BY <2>2, <4>1, <4>3 DEF Serves
    <3>5. CASE OnSelectID(l)
      BY <1>1, <2>2, <3>5 DEF OnSelectID, DataState
    <3>6. CASE UpdateFails(l)
      BY <1>1, <2>2, <3>6 DEF UpdateFails, DataState
    <3>7. CASE OnDataSendFails(l)
      BY <1>1, <2>2, <3>7 DEF OnDataSendFails, CloseData, DataState
    <3>. QED
      BY <2>2, <3>1, <3>2, <3>3, <3>4, <3>5, <3>6, <3>7 DEF QuietData, OnDataSend
  <2>3. CASE data'[k] # data[k] /\ k # l
    <3>1. CASE DataPanics(l)
      BY <3>1, GoneFacts DEF DataPanics
    <3>2. CASE ~DataPanics(l)
      BY <1>1, <2>3, <3>2 DEF QuietData, ConnectData, DisconnectData, KeepAlive,
         GetCharacters, GetCharactersFails, RefuseCharacters, ConfirmSelection,
         RefuseConfirmation, OnDataSend, OnDataSendFails, OnSelectID, UpdateFails,
         CloseData
    <3>. QED
      BY <3>1, <3>2
  <2>. QED
    BY <2>1, <2>2, <2>3
<1>. QED
  BY <1>2, <1>3, <1>4 DEF QuietStep

\* The step that sends a client to the map.
LEMMA TellFacts ==
    ASSUME LobbyInv, ActiveInv, NEW l \in Logins, OnViewSendEnter(l)
    PROVE  /\ auth' = auth /\ accountSessions' = accountSessions
           /\ mapSessions' = mapSessions /\ data' = data
           /\ auth[l] = "in"
           /\ \A k \in Logins \ {l} : view'[k] = view[k]
           /\ \E c \in Characters :
                OwnerOf[c] = AccountOf[l] /\ Told' = [Told EXCEPT ![l] = c]
<1>1. /\ view \in [Logins -> ViewState] /\ client \in [Logins -> ClientState]
  BY DEF LobbyInv, TypeOK
<1>2. /\ auth' = auth /\ accountSessions' = accountSessions
      /\ mapSessions' = mapSessions /\ data' = data
      /\ inbox[l]["view.send"] # <<>>
  BY DEF OnViewSendEnter
<1>3. auth[l] = "in"
  BY DEF OnViewSendEnter, ActiveInv, Active
<1>4. \A k \in Logins \ {l} : view'[k] = view[k]
  BY <1>1 DEF OnViewSendEnter, CloseView
<1>5. PICK m \in Allowed(l, "view.send") : m = Head(inbox[l]["view.send"])
  BY <1>2, HeadFacts DEF Subjects, ViewSubjects
<1>6. m.character \in Characters /\ OwnerOf[m.character] = AccountOf[l]
  BY <1>5 DEF OnViewSendEnter, Allowed
<1>7. Told' = [Told EXCEPT ![l] = m.character]
  BY <1>1, <1>5 DEF OnViewSendEnter, Told, ClientState
<1>. QED BY <1>2, <1>3, <1>4, <1>6, <1>7

LEMMA ActiveStep == LobbyInv /\ ActiveInv /\ [Next]_vars => ActiveInv'
<1> DEFINE Fine(k) == /\ Active(k) => auth[k] = "in"
                      /\ data[k].confirming # NoCharacter => data[k].handler # "gone"
<1>. SUFFICES ASSUME LobbyInv, ActiveInv, [Next]_vars, NEW k \in Logins
              PROVE  Fine(k)'
  BY DEF ActiveInv
<1>0. /\ auth \in [Logins -> {"out", "cleared", "in"}]
      /\ client \in [Logins -> ClientState] /\ data \in [Logins -> DataState]
      /\ Fine(k)
  BY DEF LobbyInv, TypeOK, ActiveInv
<1>1. CASE UNCHANGED <<view, data, client>> /\ auth' = auth
  BY <1>0, <1>1 DEF Active
<1>2. ASSUME NEW l \in Logins, ClearSessions(l) \/ CreateSession(l) \/ CreateFails(l)
      PROVE  Fine(k)'
  <2>1. UNCHANGED <<view, data, client>> /\ (auth[k] = "in" => auth'[k] = "in")
    BY <1>0, <1>2 DEF ClearSessions, CreateSession, CreateFails
  <2>. QED BY <1>0, <2>1 DEF Active
<1>3. ASSUME NEW l \in Logins, QuietView(l) \/ QuietData(l) PROVE Fine(k)'
  <2>1. QuietStep(l)
    BY <1>3, QuietViewFacts, QuietDataFacts
  <2>. QED BY <1>0, <2>1 DEF QuietStep, Active
<1>4. ASSUME NEW l \in Logins, OnViewSendEnter(l) PROVE Fine(k)'
  <2>1. CASE k = l
    BY <1>0, <1>4, <2>1, TellFacts
  <2>2. CASE k # l
    <3>1. client'[k].told = client[k].told
      BY <1>0, <1>4, <2>2 DEF OnViewSendEnter
    <3>. QED BY <1>0, <1>4, <2>2, <3>1, TellFacts DEF Active
  <2>. QED BY <2>1, <2>2
<1>5. ASSUME NEW l \in Logins, UpdateAccountSession(l) PROVE Fine(k)'
  <2>1. /\ auth' = auth /\ view' = view /\ client' = client
        /\ data'[k].handler = data[k].handler
        /\ data'[k].confirming \in {data[k].confirming, NoCharacter}
    BY <1>0, <1>5 DEF UpdateAccountSession, DataState
  <2>. QED BY <1>0, <2>1 DEF Active
<1>6. ASSUME NEW l \in Logins, EnterMap(l) PROVE Fine(k)'
  BY <1>1, <1>6 DEF EnterMap
<1>. QED
  BY <1>1, <1>2, <1>3, <1>4, <1>5, <1>6
     DEF Next, Request, Callback, FinishConfirmation, QuietView, QuietData, vars

\* Each step of a login is one of its session's, or none of its business.
LEMMA LoginRefines ==
    ASSUME LobbyInv, ActiveInv, NEW l \in Logins,
           Request(l) \/ Callback(l) \/ FinishConfirmation(l) \/ EnterMap(l)
    PROVE  [AccountSession!Next]_(AccountSession!vars)
<1>0. /\ auth \in [Logins -> {"out", "cleared", "in"}] /\ AccountOf[l] \in Accounts
      /\ data[l] \in DataState
      /\ accountSessions \in [Accounts -> Session \cup {NoSession}] /\ TypeOK
  BY InvFacts DEF LobbyInv, TypeOK
<1>1. CASE ClearSessions(l) \/ CreateSession(l) \/ CreateFails(l)
  <2>1. auth[l] # "in" /\ l \notin LoggedIn /\ Told' = Told /\ mapSessions' = mapSessions
    BY <1>1 DEF ClearSessions, CreateSession, CreateFails, LoggedIn, Told
  <2>2. CASE ClearSessions(l)
    <3>1. LoggedIn' = LoggedIn
      BY <1>0, <2>1, <2>2 DEF ClearSessions, LoggedIn
    <3>2. AccountSession!Clear(l)
      BY <2>1, <2>2, <3>1 DEF ClearSessions, AccountSession!Clear, LoggedIn, Told
    <3>. QED BY <3>2 DEF AccountSession!Next
  <2>3. CASE CreateSession(l)
    <3>1. LoggedIn' = LoggedIn \cup {l}
      BY <1>0, <2>1, <2>3 DEF CreateSession, LoggedIn
    <3>2. AccountSession!LogIn(l)
      BY <2>1, <2>3, <3>1
         DEF CreateSession, AccountSession!LogIn, LoggedIn, Told, LoginKey,
             AccountSession!LoginKey
    <3>. QED BY <3>2 DEF AccountSession!Next
  <2>4. CASE CreateFails(l)
    <3>1. LoggedIn' = LoggedIn /\ accountSessions' = accountSessions
      BY <1>0, <2>1, <2>4 DEF CreateFails, LoggedIn
    <3>. QED BY <2>1, <3>1 DEF AccountSession!vars, LoggedIn, Told
  <2>. QED BY <1>1, <2>2, <2>3, <2>4
<1>2. CASE QuietView(l) \/ QuietData(l)
  <2>1. /\ auth' = auth /\ accountSessions' = accountSessions
        /\ mapSessions' = mapSessions /\ Told' = Told
    BY <1>2, QuietViewFacts, QuietDataFacts DEF QuietStep, Told
  <2>. QED BY <2>1 DEF AccountSession!vars, Told
<1>3. CASE OnViewSendEnter(l)
  <2>1. PICK c \in Characters :
            OwnerOf[c] = AccountOf[l] /\ Told' = [Told EXCEPT ![l] = c]
    BY <1>3, TellFacts
  <2>2. /\ auth' = auth /\ accountSessions' = accountSessions
        /\ mapSessions' = mapSessions /\ auth[l] = "in"
    BY <1>3, TellFacts
  <2>3. AccountSession!Tell(l, c)
    BY <2>1, <2>2 DEF AccountSession!Tell, AccountSession!Owns, Told
  <2>. QED BY <2>3 DEF AccountSession!Next
<1>4. CASE UpdateAccountSession(l)
  <2>. DEFINE a == AccountOf[l]
  <2>1. PICK c \in Characters : c = data[l].confirming
    BY <1>0, <1>4 DEF UpdateAccountSession, DataState
  <2>2. data[l].account = a /\ OwnerOf[c] = a /\ data[l].handler # "gone"
    BY <1>4, <2>1, InvFacts DEF UpdateAccountSession, DataInv, ActiveInv
  <2>3. /\ auth' = auth /\ mapSessions' = mapSessions /\ Told' = Told
        /\ l \in LoggedIn
    BY <1>4, <2>2 DEF UpdateAccountSession, Told, LoggedIn, ActiveInv, Active
  <2>4. CASE accountSessions[a] = NoSession
    BY <1>4, <2>2, <2>3, <2>4 DEF UpdateAccountSession, AccountSession!vars, Told
  <2>5. CASE accountSessions[a] # NoSession
    <3>1. accountSessions[a] \in Session
      BY <1>0, <2>5
    <3>2. ConfirmedSession(accountSessions[a], l) = [character |-> c, key |-> MagicKey(l)]
      <4>. DEFINE row == ConfirmedSession(accountSessions[a], l)
      <4>1. MagicKey(l) \in Keys
        BY DEF MagicKey, Keys
      <4>2. row \in Session /\ row.character = c /\ row.key = MagicKey(l)
        BY <2>1, <3>1, <4>1 DEF ConfirmedSession, Session
      <4>. HIDE DEF row
      <4>3. row = [character |-> row.character, key |-> row.key]
        BY <4>2 DEF Session
      <4>4. row = [character |-> c, key |-> MagicKey(l)]
        BY <4>2, <4>3
      <4>. QED BY <4>4 DEF row
    <3>3. accountSessions' = [accountSessions EXCEPT ![a] =
                [character |-> c, key |-> MagicKey(l)]]
      BY <1>4, <2>2, <2>5, <3>2 DEF UpdateAccountSession
    <3>4. AccountSession!Choose(l, c)
      BY <2>2, <2>3, <2>5, <3>3
         DEF AccountSession!Choose, AccountSession!Owns, LoggedIn, Told, MagicKey,
             AccountSession!MagicKey
    <3>. QED BY <3>4 DEF AccountSession!Next
  <2>. QED BY <2>4, <2>5
<1>5. CASE EnterMap(l)
  <2>1. PICK a \in Accounts :
            /\ client[l].told # NoCharacter /\ mapSessions[l] = NoSession
            /\ accountSessions[a] # NoSession
            /\ accountSessions[a].character = client[l].told
            /\ mapSessions' = [mapSessions EXCEPT ![l] = accountSessions[a]]
            /\ UNCHANGED <<auth, accountSessions, client>>
    BY <1>5 DEF EnterMap
  <2>2. a = AccountOf[l]
    <3>1. SessionInv(a) /\ ViewInv(l)
      BY InvFacts DEF LobbyInv
    <3>. QED BY <2>1, <3>1 DEF SessionInv, ViewInv
  <2>3. auth[l] = "in"
    BY <2>1 DEF ActiveInv, Active
  <2>4. AccountSession!Admit(l)
    BY <2>1, <2>2, <2>3 DEF AccountSession!Admit, Told
  <2>. QED BY <2>4 DEF AccountSession!Next
<1>. QED
  BY <1>1, <1>2, <1>3, <1>4, <1>5 DEF Request, Callback, FinishConfirmation,
     QuietView, QuietData

\* The servers of the lobby implement the sessions of AccountSessions, for any
\* accounts, logins and characters, whatever order their messages arrive in
\* and whatever of them is lost.
THEOREM LobbyImplementsSessions == Spec => ImplementsSessions
<1>1. Init => AccountSession!Init
  BY DEF Init, AccountSession!Init
<1>2. Init => ActiveInv
  BY GoneFacts DEF Init, ActiveInv, Active
<1>3. LobbyInv /\ ActiveInv /\ [Next]_vars
        => [AccountSession!Next]_(AccountSession!vars)
  <2>1. UNCHANGED vars => UNCHANGED AccountSession!vars
    BY DEF vars, AccountSession!vars
  <2>. QED BY <2>1, LoginRefines DEF Next
<1>. QED
  BY <1>1, <1>2, <1>3, ActiveStep, Invariance, PTL
     DEF Spec, ImplementsSessions, AccountSession!Spec
=============================================================================
