----------------------------- MODULE MCMapRouter -----------------------------
(* Small instances of the map router for TLC.  *)
EXTENDS MapRouter, TLC

CONSTANTS c1, c2

MCClients == {c1, c2}

\* Bursts of several datagrams for one client, another client in between.
MCMaxQueued == c1 :> 3 @@ c2 :> 1
MCSizes == c1 :> {1, 3} @@ c2 :> {1}

\* A packet that fills a datagram, and one for the other client that no
\* datagram can hold.
MCFewQueued == c1 :> 2 @@ c2 :> 1
MCMixedSizes == c1 :> {1, 2} @@ c2 :> {1, 3}
=============================================================================
