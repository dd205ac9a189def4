---------------------------- MODULE CharacterTable ----------------------------
(***************************************************************************)
(* What the lobby's requests on characters amount to, each taken as a      *)
(* whole: characters are created under new names, deleted, and selected,   *)
(* by connections of their owner only.  Name and owner never change.  A    *)
(* deletion is undone by a selection that has begun before it, and by      *)
(* nothing else.                                                           *)
(***************************************************************************)
EXTENDS Naturals, Sequences

CONSTANTS
    Viewers,        \* connections that create and delete
    Selectors,      \* connections that select
    AccountOf,      \* the account of each connection
    Names

VARIABLES
    characters,     \* name, owner and state of every character, by its id
    selecting       \* the character each selection is about, 0 if there is none

vars == <<characters, selecting>>

Ids == DOMAIN characters

Owns(p, id) == characters[id].owner = AccountOf[p]

Init ==
    /\ characters = <<>>
    /\ selecting = [d \in Selectors |-> 0]

Create(v, name) ==
    /\ \A id \in Ids : characters[id].name # name
    /\ characters' = Append(characters,
            [owner |-> AccountOf[v], name |-> name, state |-> "active"])
    /\ UNCHANGED selecting

Delete(v, id) ==
    /\ Owns(v, id)
    /\ characters' = [characters EXCEPT ![id].state = "deleted"]
    /\ UNCHANGED selecting

BeginSelection(d, id) ==
    /\ selecting[d] = 0
    /\ Owns(d, id)
    /\ characters[id].state = "active"
    /\ selecting' = [selecting EXCEPT ![d] = id]
    /\ UNCHANGED characters

\* Whatever became of the character since, it is there as it was selected.
EndSelection(d) ==
    /\ selecting[d] # 0
    /\ characters' = [characters EXCEPT ![selecting[d]].state = "active"]
    /\ selecting' = [selecting EXCEPT ![d] = 0]

DropSelection(d) ==
    /\ selecting' = [selecting EXCEPT ![d] = 0]
    /\ UNCHANGED characters

Next ==
    \/ \E v \in Viewers, name \in Names : Create(v, name)
    \/ \E v \in Viewers, id \in Ids : Delete(v, id)
    \/ \E d \in Selectors, id \in Ids : BeginSelection(d, id)
    \/ \E d \in Selectors : EndSelection(d) \/ DropSelection(d)

Spec == Init /\ [][Next]_vars
=============================================================================
