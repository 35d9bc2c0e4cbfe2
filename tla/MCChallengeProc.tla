--------------------------- MODULE MCChallengeProc ---------------------------
EXTENDS ChallengeProc, TLC

CONSTANTS c1, c2, c3, u1, u2

\* The first two challenges are one and the same to the CA.
MCUpstreamURL == [c \in Chal |-> IF c \in {c1, c2} THEN u1 ELSE u2]

\* Requests and workers are interchangeable; challenges differ in their hooks.
Symmetry == Permutations(Req) \union Permutations(Worker)
=============================================================================
