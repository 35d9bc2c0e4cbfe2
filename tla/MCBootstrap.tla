----------------------------- MODULE MCBootstrap -----------------------------
EXTENDS Bootstrap

=============================================================================
