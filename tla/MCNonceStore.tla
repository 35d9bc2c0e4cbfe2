---------------------------- MODULE MCNonceStore ----------------------------
EXTENDS NonceStore, TLC

\* Nonces and transactions are interchangeable.
Symmetry == Permutations(Nonce) \union Permutations(Txn)
=============================================================================
