-------------------------- MODULE MCUpstreamClient --------------------------
EXTENDS UpstreamClient, TLC

\* Calls are interchangeable.
Symmetry == Permutations(Post)
=============================================================================
