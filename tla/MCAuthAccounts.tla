--------------------------- MODULE MCAuthAccounts ---------------------------
(* A small instance of AuthAccounts for TLC: one account name and one      *)
(* password, and each of them with a space around it.                      *)
EXTENDS AuthAccounts, TLC

CONSTANTS c1, c2, name, spacedName, old, spacedOld

Trim == name :> name @@ spacedName :> name @@ old :> old @@ spacedOld :> old

Symmetry == Permutations(Connections)
=============================================================================
