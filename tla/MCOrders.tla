------------------------------ MODULE MCOrders ------------------------------
EXTENDS Orders, TLC

\* Requests, orders, authorizations and key types are interchangeable.
Symmetry == Permutations(Req) \union Permutations(Order)
                \union Permutations(Authz) \union Permutations(KeyType)
=============================================================================
