---------------------------- MODULE CharacterStore ----------------------------
(***************************************************************************)
(* The characters of the lobby: the tables characters, character_looks,    *)
(* character_stats and character_jobs, and the requests of view and data   *)
(* connections that read and write them.  There are no transactions: each  *)
(* query is a step of its own, and the requests of different connections   *)
(* interleave between any two of them.                                     *)
(*                                                                         *)
(* A row keeps its account, the account it was deleted from and its name;  *)
(* the appearance, the zone and the answers sent to the client are data no *)
(* property tells apart.  A request that is refused with its connection    *)
(* closed forgets what the connection had stored; the client may be back   *)
(* on a new one.                                                           *)
(***************************************************************************)
EXTENDS Naturals, Sequences, FiniteSets

CONSTANTS
    Accounts,
    NoAccount,      \* account id 0: a deleted character's
    Viewers,        \* connections to the view server
    Selectors,      \* connections to the data server
    AccountOf,      \* the account of each connection's session
    Names,
    NoName,         \* no name was requested on this connection
    MaxContentIDsPerAccount,
    MaxCharacters   \* bound: rows ever inserted

ASSUME CharacterAssumption ==
    /\ NoAccount \notin Accounts
    /\ NoName \notin Names
    /\ Viewers \cap Selectors = {}
    /\ IsFiniteSet(Viewers \cup Selectors)
    /\ AccountOf \in [Viewers \cup Selectors -> Accounts]
    /\ MaxContentIDsPerAccount \in Nat
    /\ MaxCharacters \in Nat

VARIABLES
    characters,     \* the table, indexed by its auto-incremented id
    looks, stats, jobs,     \* the ids with a row in the other tables
    interrupted,    \* ids whose creation ended before its last insert
    view,           \* the request each view connection is in
    data            \* the request each data connection is in

vars == <<characters, looks, stats, jobs, interrupted, view, data>>
details == <<looks, stats, jobs, interrupted>>

Row == [account : Accounts \cup {NoAccount},
        original : Accounts \cup {NoAccount}, name : Names \cup {NoName}]

ViewState ==
    [pc : {"idle", "character", "looks", "stats", "jobs", "delete"},
     requested : Names \cup {NoName}, id : Nat, row : Row]

DataState == [pc : {"idle", "update"}, id : Nat, row : Row]

NoRow == [account |-> NoAccount, original |-> NoAccount, name |-> NoName]

IdleView == [pc |-> "idle", requested |-> NoName, id |-> 0, row |-> NoRow]

IdleData == [pc |-> "idle", id |-> 0, row |-> NoRow]

Ids == DOMAIN characters

\* Type correctness of the tables and of the requests in progress.
TypeOK ==
    /\ characters \in Seq(Row)
    /\ looks \subseteq Ids /\ stats \subseteq Ids /\ jobs \subseteq Ids
    /\ interrupted \subseteq Ids
    /\ view \in [Viewers -> ViewState]
    /\ data \in [Selectors -> DataState]

Init ==
    /\ characters = <<>>
    /\ looks = {} /\ stats = {} /\ jobs = {} /\ interrupted = {}
    /\ view = [v \in Viewers |-> IdleView]
    /\ data = [d \in Selectors |-> IdleData]

-----------------------------------------------------------------------------
(* View: creating a character                                              *)

CharacterNameExists(name) == \E id \in Ids : characters[id].name = name

\* create-character-pre remembers an available name; a name in use closes
\* the connection.
CreateCharacterPre(v, name) ==
    /\ view[v].pc = "idle"
    /\ view' = [view EXCEPT ![v] =
            IF CharacterNameExists(name) THEN IdleView
            ELSE [IdleView EXCEPT !.requested = name]]
    /\ UNCHANGED <<characters, details, data>>

CountCharactersByAccountID(a) ==
    Cardinality({id \in Ids : characters[id].account = a})

\* Mutant: the limit is compared with <= instead of <.
BelowLimitOrAtIt(a) == CountCharactersByAccountID(a) <= MaxContentIDsPerAccount

BelowLimit(a) == CountCharactersByAccountID(a) < MaxContentIDsPerAccount

\* create-character counts first; at the limit it only answers with an error.
CreateCharacter(v) ==
    /\ view[v].pc = "idle"
    /\ BelowLimit(AccountOf[v])
    /\ view' = [view EXCEPT ![v].pc = "character"]
    /\ UNCHANGED <<characters, details, data>>

\* Mutant: no unique index, the earlier look at the names must do.
NameAccepted(name) == TRUE

\* The unique index on the name column.
NameIsUnique(name) == ~CharacterNameExists(name)

\* Mutant: the id the insert returned is not kept.
SaveCharacterWithoutId(v) ==
    /\ view[v].pc = "character"
    /\ NameIsUnique(view[v].requested)
    /\ Len(characters) < MaxCharacters
    /\ characters' = Append(characters, [account |-> AccountOf[v],
            original |-> NoAccount, name |-> view[v].requested])
    /\ view' = [view EXCEPT ![v].pc = "looks"]
    /\ UNCHANGED <<details, data>>

\* saveNewCharacterToDatabase, its first insert.  The requested name stays
\* with the connection whatever becomes of it.
SaveCharacter(v) ==
    /\ view[v].pc = "character"
    /\ NameIsUnique(view[v].requested)
    /\ Len(characters) < MaxCharacters
    /\ characters' = Append(characters, [account |-> AccountOf[v],
            original |-> NoAccount, name |-> view[v].requested])
    /\ view' = [view EXCEPT ![v].pc = "looks", ![v].id = Len(characters) + 1]
    /\ UNCHANGED <<details, data>>

SaveLooks(v) ==
    /\ view[v].pc = "looks"
    /\ looks' = looks \cup {view[v].id}
    /\ view' = [view EXCEPT ![v].pc = "stats"]
    /\ UNCHANGED <<characters, stats, jobs, interrupted, data>>

\* Mutant: the creation ends with the stats.
SaveStatsOnly(v) ==
    /\ view[v].pc = "stats"
    /\ stats' = stats \cup {view[v].id}
    /\ view' = [view EXCEPT ![v].pc = "idle", ![v].id = 0]
    /\ UNCHANGED <<characters, looks, jobs, interrupted, data>>

SaveStats(v) ==
    /\ view[v].pc = "stats"
    /\ stats' = stats \cup {view[v].id}
    /\ view' = [view EXCEPT ![v].pc = "jobs"]
    /\ UNCHANGED <<characters, looks, jobs, interrupted, data>>

\* The last insert; the client is told that its character exists.
SaveJobs(v) ==
    /\ view[v].pc = "jobs"
    /\ jobs' = jobs \cup {view[v].id}
    /\ view' = [view EXCEPT ![v].pc = "idle", ![v].id = 0]
    /\ UNCHANGED <<characters, looks, stats, interrupted, data>>

-----------------------------------------------------------------------------
(* View: deleting a character                                              *)

\* Mutant: any character may be deleted.
OwnsAny(p, id) == characters[id].account # NoAccount

Owns(p, id) == characters[id].account = AccountOf[p]

\* delete-character reads the row and checks its account ...
ReadForDelete(v, id) ==
    /\ view[v].pc = "idle"
    /\ Owns(v, id)
    /\ view' = [view EXCEPT ![v].pc = "delete", ![v].id = id,
                            ![v].row = characters[id]]
    /\ UNCHANGED <<characters, details, data>>

\* ... and writes back every column of it with the account moved aside.
DeleteCharacter(v) ==
    LET row == view[v].row IN
    /\ view[v].pc = "delete"
    /\ characters' = [characters EXCEPT ![view[v].id] =
            [row EXCEPT !.original = row.account, !.account = NoAccount]]
    /\ view' = [view EXCEPT ![v].pc = "idle", ![v].id = 0, ![v].row = NoRow]
    /\ UNCHANGED <<details, data>>

\* A query of the request fails, its request is refused, or the view server
\* stops in the middle of it.
ViewFails(v) ==
    /\ view[v] # IdleView
    /\ view' = [view EXCEPT ![v] = IdleView]
    /\ interrupted' = IF view[v].pc \in {"looks", "stats", "jobs"}
                      THEN interrupted \cup {view[v].id} ELSE interrupted
    /\ UNCHANGED <<characters, looks, stats, jobs, data>>

-----------------------------------------------------------------------------
(* Data: confirming the selection of a character                           *)

\* select-character reads the row and checks its account ...
ReadForSelect(d, id) ==
    /\ data[d].pc = "idle"
    /\ Owns(d, id)
    /\ data' = [data EXCEPT ![d] = [pc |-> "update", id |-> id,
                                    row |-> characters[id]]]
    /\ UNCHANGED <<characters, details, view>>

\* ... and writes back every column of it, the previous zone changed.
UpdatePrevZone(d) ==
    /\ data[d].pc = "update"
    /\ characters' = [characters EXCEPT ![data[d].id] = data[d].row]
    /\ data' = [data EXCEPT ![d] = IdleData]
    /\ UNCHANGED <<details, view>>

DataFails(d) ==
    /\ data[d].pc = "update"
    /\ data' = [data EXCEPT ![d] = IdleData]
    /\ UNCHANGED <<characters, details, view>>

-----------------------------------------------------------------------------

ViewStep(v) ==
    \/ \E name \in Names : CreateCharacterPre(v, name)
    \/ CreateCharacter(v) \/ SaveCharacter(v)
    \/ SaveLooks(v) \/ SaveStats(v) \/ SaveJobs(v)
    \/ \E id \in Ids : ReadForDelete(v, id)
    \/ DeleteCharacter(v)
    \/ ViewFails(v)

DataStep(d) ==
    \/ \E id \in Ids : ReadForSelect(d, id)
    \/ UpdatePrevZone(d)
    \/ DataFails(d)

Next ==
    \/ \E v \in Viewers : ViewStep(v)
    \/ \E d \in Selectors : DataStep(d)

Spec == Init /\ [][Next]_vars

-----------------------------------------------------------------------------
(* Properties.                                                             *)

\* A character without its looks, stats or jobs (the data server reads them
\* without a check when it lists characters) is one whose creation is still
\* running or was cut short: the four inserts are otherwise complete.
IncompleteExplained ==
    \A id \in Ids :
        \/ id \in looks \cap stats \cap jobs
        \/ id \in interrupted
        \/ \E v \in Viewers : /\ view[v].pc \in {"looks", "stats", "jobs"}
                              /\ view[v].id = id

\* No two characters share a name although the name is checked in one
\* request and inserted in another, and deleted characters keep theirs.
NamesUnique ==
    \A i, j \in Ids : characters[i].name = characters[j].name => i = j

Owner(row) == IF row.account # NoAccount THEN row.account ELSE row.original

Moves(p) ==
    IF p \in Viewers THEN view'[p] # view[p] ELSE data'[p] # data[p]

WrittenByOwner(id) ==
    /\ Owner(characters'[id]) = Owner(characters[id])
    /\ \E p \in Viewers \cup Selectors :
            AccountOf[p] = Owner(characters[id]) /\ Moves(p)

\* Rows written back whole, from what was read earlier, never give a
\* character to another account, and only its owner's connections write it.
OwnersOnly ==
    [][\A id \in Ids : characters'[id] # characters[id]
                            => WrittenByOwner(id)]_vars

Table == INSTANCE CharacterTable WITH
    Names <- Names \cup {NoName},
    characters <- [id \in Ids |->
        [owner |-> Owner(characters[id]), name |-> characters[id].name,
         state |-> IF characters[id].account = NoAccount
                   THEN "deleted" ELSE "active"]],
    selecting <- [d \in Selectors |->
        IF data[d].pc = "update" THEN data[d].id ELSE 0]

\* Requests of many queries, in any interleaving and with failures anywhere,
\* create, delete and select characters as if each were one query, except
\* that a selection may undo the deletions since it began.  A name has one
\* owner for good, whose connections alone write the character.
ImplementsTable == Table!Spec

UsedAlone(a) ==
    Cardinality({p \in Viewers \cup Selectors : AccountOf[p] = a}) <= 1

\* The check and the insert are two queries (request-create-character.go:92
\* and 106), yet an account with one connection keeps to its limit, whatever
\* other accounts and failures do in between.
LimitKeptAlone ==
    \A a \in Accounts :
        UsedAlone(a) => CountCharactersByAccountID(a) <= MaxContentIDsPerAccount

\* "MaxContentIDsPerAccount is the maximum number of content IDs a player
\* can have" (config.go:63), counted and inserted in two queries.
WithinLimit ==
    \A a \in Accounts : CountCharactersByAccountID(a) <= MaxContentIDsPerAccount

\* "replace the account ID to mark the character as deleted"
\* (request-delete-character.go:68): the mark stays.
DeletedStaysDeleted ==
    [][\A id \in Ids : characters[id].account = NoAccount
                            => characters'[id].account = NoAccount]_vars
=============================================================================
