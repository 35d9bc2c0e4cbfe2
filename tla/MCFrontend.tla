----------------------------- MODULE MCFrontend ------------------------------
EXTENDS Frontend, TLC

CONSTANTS k1, k2, i1, i2, c1, c2

MCKeyTypeOf == k1 :> "RSA" @@ k2 :> "ECDSA"

\* Only i1 is under the suffix of the rules.
MCSuffixed == {<<i1, "corp">>}

Account(k, c) ==
    [signer |-> k, form |-> "jwk", named |-> k, url |-> "new-account", contact |-> c,
     onlyReturnExisting |-> FALSE, profile |-> "", identifiers |-> {}]

Order(k, p, I) ==
    [signer |-> k, form |-> "kid", named |-> k, url |-> "new-order", contact |-> c1,
     onlyReturnExisting |-> FALSE, profile |-> p, identifiers |-> I]

\* Accounts and orders of two clients, and what the handlers refuse: an order under
\* another client's account, one with a jwk, an account request with a kid, a lookup
\* of an account that is not there.
MCBody ==
    {Account(k1, c1), Account(k1, c2), Account(k2, c1),
     Order(k1, "p", {i1}), Order(k2, "", {i2}), Order(k1, "", {}),
     [Order(k2, "", {i2}) EXCEPT !.named = k1], [Order(k2, "p", {i2}) EXCEPT !.form = "jwk"],
     [Account(k2, c1) EXCEPT !.form = "kid"],
     [Account(k2, c1) EXCEPT !.onlyReturnExisting = TRUE]}

CatchAll == [profile |-> "", key_type |-> "", domain_suffix |-> "", upstream |-> "u1",
             upstream_profile |-> "", require_csr_key_type |-> ""]

File(rules, default) ==
    [rules |-> rules, default_upstream |-> default, upstreams |-> {"u1", "u2"},
     profiles |-> {"p"}]

\* Files that differ in what decides, and some that are refused.
MCConfigFile ==
    {File(<<[CatchAll EXCEPT !.key_type = "rsa", !.upstream = "u2",
                        !.require_csr_key_type = "rsa"], CatchAll>>, "u2"),
     File(<<[CatchAll EXCEPT !.profile = "p", !.upstream_profile = "$passthrough"],
            [CatchAll EXCEPT !.domain_suffix = "corp", !.upstream = "u2"]>>, "u1"),
     File(<<[CatchAll EXCEPT !.profile = "p", !.key_type = "ECDSA"]>>, ""),
     File(<<[CatchAll EXCEPT !.upstream = "u3"]>>, ""),
     File(<<[CatchAll EXCEPT !.key_type = "ed25519"]>>, "u1")}

Symmetry == Permutations(Nonce) \union Permutations(Req)

=============================================================================
