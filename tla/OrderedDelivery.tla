--------------------------- MODULE OrderedDelivery ---------------------------
(***************************************************************************)
(* What the map router promises each client about the packets instances    *)
(* publish for it: a first delivery in the order of publication, nothing   *)
(* skipped.  A run of packets may be delivered again, never ahead of its   *)
(* predecessors, and nothing is delivered once the router has closed.      *)
(***************************************************************************)
EXTENDS Naturals, Sequences

CONSTANT Clients    \* the packets of each are numbered 1, 2, ...

VARIABLES
    offered,    \* how many packets were published for each client
    delivered,  \* the runs first .. last delivered to each client, in order
    closed      \* the router has stopped delivering

vars == <<offered, delivered, closed>>

\* The packets a client has, as a set of numbers.
Have(c) ==
    UNION {delivered[c][i].first .. delivered[c][i].last :
                i \in DOMAIN delivered[c]}

Init ==
    /\ offered = [c \in Clients |-> 0]
    /\ delivered = [c \in Clients |-> <<>>]
    /\ closed = FALSE

Offer(c) ==
    /\ offered' = [offered EXCEPT ![c] = @ + 1]
    /\ UNCHANGED <<delivered, closed>>

\* All predecessors of the run have been delivered, or are in the run.
Deliver(c, first, last) ==
    /\ ~closed
    /\ 1 .. first - 1 \subseteq Have(c)
    /\ delivered' = [delivered EXCEPT
                        ![c] = Append(@, [first |-> first, last |-> last])]
    /\ UNCHANGED <<offered, closed>>

Close == closed' = TRUE /\ UNCHANGED <<offered, delivered>>

Next ==
    \/ \E c \in Clients : Offer(c)
    \/ \E c \in Clients : \E first \in 1 .. offered[c] :
            \E last \in first .. offered[c] : Deliver(c, first, last)
    \/ Close

Spec == Init /\ [][Next]_vars
=============================================================================
