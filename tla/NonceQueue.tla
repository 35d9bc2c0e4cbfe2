----------------------------- MODULE NonceQueue -----------------------------
(***************************************************************************)
(* What the nonce pool of an upstream client is: a bounded first-in        *)
(* first-out queue that loses nothing and invents nothing.                 *)
(***************************************************************************)
EXTENDS Naturals, Sequences

CONSTANTS Nonce, Size

VARIABLE queue

Init == queue = <<>>

Put ==
    /\ Len(queue) < Size
    /\ \E n \in Nonce : queue' = Append(queue, n)

Take ==
    /\ queue # <<>>
    /\ queue' = Tail(queue)

Spec == Init /\ [][Put \/ Take]_queue
=============================================================================
