---------------------------- MODULE OneTimeNonce ----------------------------
(***************************************************************************)
(* What the nonce store promises to the rest of the gateway (RFC 8555      *)
(* section 6.5): a nonce is issued once, is live until it is used or       *)
(* lapses, and is used at most once.                                       *)
(***************************************************************************)
EXTENDS Naturals

CONSTANT Nonce

VARIABLES
    status,     \* unissued, live, spent or lapsed
    uses        \* how many requests each nonce has authorised

Init ==
    /\ status = [n \in Nonce |-> "unissued"]
    /\ uses = [n \in Nonce |-> 0]

Issue(n) ==
    /\ status[n] = "unissued"
    /\ status' = [status EXCEPT ![n] = "live"]
    /\ UNCHANGED uses

Spend(n) ==
    /\ status[n] = "live"
    /\ status' = [status EXCEPT ![n] = "spent"]
    /\ uses' = [uses EXCEPT ![n] = @ + 1]

\* Several expired nonces may lapse together (a prune).
Lapse(S) ==
    /\ \A n \in S : status[n] = "live"
    /\ status' = [n \in Nonce |-> IF n \in S THEN "lapsed" ELSE status[n]]
    /\ UNCHANGED uses

Next ==
    \/ \E n \in Nonce : Issue(n) \/ Spend(n)
    \/ \E S \in SUBSET Nonce : Lapse(S)

Spec == Init /\ [][Next]_<<status, uses>>
=============================================================================
