---------------------------- MODULE ConnectionQueue ----------------------------
(***************************************************************************)
(* What the TCP server promises the connections it has accepted: one       *)
(* queue, served from its front, all served connections at once.  Only the *)
(* newest is ever turned away, when as many wait as may wait; a server     *)
(* that stops may also close those in the queue.  A connection that is     *)
(* gone never comes back.                                                  *)
(***************************************************************************)
EXTENDS Naturals, Sequences

CONSTANTS
    Conns,
    Limit       \* how many may wait

VARIABLES
    waiting,    \* connections that wait for a handler, in order of arrival
    serving,    \* connections that have a handler
    gone,       \* connections closed
    stopping    \* the server has been told to stop

vars == <<waiting, serving, gone, stopping>>

Known == {waiting[i] : i \in DOMAIN waiting} \cup serving \cup gone

Init == waiting = <<>> /\ serving = {} /\ gone = {} /\ stopping = FALSE

Arrive(c) ==
    /\ c \notin Known
    /\ waiting' = Append(waiting, c)
    /\ UNCHANGED <<serving, gone, stopping>>

Start ==
    /\ waiting # <<>>
    /\ serving' = serving \cup {Head(waiting)}
    /\ waiting' = Tail(waiting)
    /\ UNCHANGED <<gone, stopping>>

Finish(c) ==
    /\ serving' = serving \ {c}
    /\ gone' = gone \cup {c}
    /\ UNCHANGED <<waiting, stopping>>

TurnAway ==
    /\ waiting # <<>>
    /\ Len(waiting) > Limit \/ stopping
    /\ waiting' = SubSeq(waiting, 1, Len(waiting) - 1)
    /\ gone' = gone \cup {waiting[Len(waiting)]}
    /\ UNCHANGED <<serving, stopping>>

CloseFirst ==
    /\ waiting # <<>>
    /\ stopping
    /\ waiting' = Tail(waiting)
    /\ gone' = gone \cup {Head(waiting)}
    /\ UNCHANGED <<serving, stopping>>

Stop ==
    /\ stopping' = TRUE
    /\ UNCHANGED <<waiting, serving, gone>>

Next ==
    \/ \E c \in Conns : Arrive(c)
    \/ Start
    \/ \E c \in serving : Finish(c)
    \/ TurnAway
    \/ CloseFirst
    \/ Stop

Spec == Init /\ [][Next]_vars
=============================================================================
