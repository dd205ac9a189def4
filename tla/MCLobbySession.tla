---------------------------- MODULE MCLobbySession ----------------------------
\* Two logins of one account, with two characters of its own and a deleted one;
\* the second client goes no further than the login.
EXTENDS LobbySession

CONSTANTS a1, l1, l2, c1, c2, c3

MCAccounts == {a1}
MCLogins == {l1, l2}
MCVisitors == {l1}
MCAccountOf == [l \in MCLogins |-> a1]
MCCharacters == {c1, c2, c3}
MCOwnerOf == [c \in MCCharacters |-> IF c = c3 THEN NoAccount ELSE a1]

=============================================================================
