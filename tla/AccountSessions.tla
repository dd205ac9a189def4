---------------------------- MODULE AccountSessions ----------------------------
(***************************************************************************)
(* What a visit to the lobby amounts to, without its servers, connections  *)
(* and messages: logins replace the session of their account, choose a     *)
(* character of the account for it, and enter the map with that session.   *)
(* Logins of one account share its session and may choose over each other, *)
(* but nothing a login does touches the session of another account.        *)
(***************************************************************************)
EXTENDS Naturals

CONSTANTS
    Accounts,
    Logins,
    AccountOf,      \* the account of each login
    Characters,
    OwnerOf,        \* the account of each character
    NoCharacter,    \* none chosen yet
    NoSession

VARIABLES
    sessions,       \* the session of each account: its character and key
    loggedIn,       \* the logins that have been answered with success
    told,           \* the character each client was sent to the map with
    admitted        \* the session each client entered the map with

vars == <<sessions, loggedIn, told, admitted>>

LoginKey(l) == <<"login", l>>
MagicKey(l) == <<"magic", l>>

Owns(l, c) == OwnerOf[c] = AccountOf[l]

Init ==
    /\ sessions = [a \in Accounts |-> NoSession]
    /\ loggedIn = {}
    /\ told = [l \in Logins |-> NoCharacter]
    /\ admitted = [l \in Logins |-> NoSession]

\* A login ends the session of its account ...
Clear(l) ==
    /\ l \notin loggedIn
    /\ sessions' = [sessions EXCEPT ![AccountOf[l]] = NoSession]
    /\ UNCHANGED <<loggedIn, told, admitted>>

\* ... and begins another, unless a second login has.
LogIn(l) ==
    /\ l \notin loggedIn
    /\ sessions[AccountOf[l]] = NoSession
    /\ sessions' = [sessions EXCEPT ![AccountOf[l]] =
            [character |-> NoCharacter, key |-> LoginKey(l)]]
    /\ loggedIn' = loggedIn \cup {l}
    /\ UNCHANGED <<told, admitted>>

\* The session a login chooses a character for may be a later login's.
Choose(l, c) ==
    /\ l \in loggedIn
    /\ Owns(l, c)
    /\ sessions[AccountOf[l]] # NoSession
    /\ sessions' = [sessions EXCEPT ![AccountOf[l]] =
            [character |-> c, key |-> MagicKey(l)]]
    /\ UNCHANGED <<loggedIn, told, admitted>>

\* A client may be sent to the map before its choice is in the session.
Tell(l, c) ==
    /\ l \in loggedIn
    /\ Owns(l, c)
    /\ told' = [told EXCEPT ![l] = c]
    /\ UNCHANGED <<sessions, loggedIn, admitted>>

Admit(l) ==
    /\ l \in loggedIn
    /\ admitted[l] = NoSession
    /\ sessions[AccountOf[l]] # NoSession
    /\ sessions[AccountOf[l]].character = told[l]
    /\ told[l] # NoCharacter
    /\ admitted' = [admitted EXCEPT ![l] = sessions[AccountOf[l]]]
    /\ UNCHANGED <<sessions, loggedIn, told>>

Next ==
    \/ \E l \in Logins : Clear(l) \/ LogIn(l) \/ Admit(l)
    \/ \E l \in Logins, c \in Characters : Choose(l, c) \/ Tell(l, c)

Spec == Init /\ [][Next]_vars
=============================================================================
