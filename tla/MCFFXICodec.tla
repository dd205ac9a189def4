---------------------------- MODULE MCFFXICodec ----------------------------
(* A small instance of FFXICodec for TLC: four values of a byte of two     *)
(* bits, with the codes 0, 10, 110 and 111.                                *)
EXTENDS FFXICodec, SequencesExt

CodeLengths == 0 :> 1 @@ 1 :> 2 @@ 2 :> 3 @@ 3 :> 3
CodePatterns == 0 :> 0 @@ 1 :> 1 @@ 2 :> 3 @@ 3 :> 7

\* Entry k is pointed to as 4 + 4 * k; a node has its children's entries
\* first and its value in the last of four.
Pointer(k) == 4 + 4 * k

JumpTable ==
    [k \in 0..28 |->
        CASE k = 0 -> Pointer(1)
          [] k = 1 -> Pointer(5)    [] k = 2 -> Pointer(9)
          [] k = 8 -> 0
          [] k = 9 -> Pointer(13)   [] k = 10 -> Pointer(17)
          [] k = 16 -> 1
          [] k = 17 -> Pointer(21)  [] k = 18 -> Pointer(25)
          [] k = 24 -> 2
          [] k = 28 -> 3
          [] OTHER -> 0]

Paths ==
    0 :> (0 :> 1 @@ 1 :> 5)
        @@ 1 :> (0 :> 1 @@ 1 :> 9 @@ 2 :> 13)
        @@ 2 :> (0 :> 1 @@ 1 :> 9 @@ 2 :> 17 @@ 3 :> 21)
        @@ 3 :> (0 :> 1 @@ 1 :> 9 @@ 2 :> 17 @@ 3 :> 25)

Payloads == BoundedSeq(Bytes, 4)
=============================================================================
