--------------------------- MODULE MCCharacterStore ---------------------------
(* Small instances of CharacterStore for TLC: connection v1 belongs to the *)
(* first account; v2 to the second, or to the first as well.               *)
EXTENDS CharacterStore, TLC

CONSTANTS a1, a2, v1, v2, d1

TwoAccountsAndData == v1 :> a1 @@ v2 :> a2 @@ d1 :> a1
OneAccount == v1 :> a1 @@ v2 :> a1
OneAccountAndData == v1 :> a1 @@ d1 :> a1

Symmetry == Permutations(Names)
=============================================================================
