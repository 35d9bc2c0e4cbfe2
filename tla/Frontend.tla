------------------------------ MODULE Frontend ------------------------------
(***************************************************************************)
(* From a signed request to a routed order: parseAndValidateJWS,           *)
(* resolveAccount, handleNewAccount and handleNewOrder of                  *)
(* internal/server/handlers.go up to the upstream's SubmitOrder, the JWS   *)
(* checks of jws.go, the accounts table, the router and the routing        *)
(* section of the configuration.                                           *)
(*                                                                         *)
(* Clients sign requests; the network delivers each any number of times,   *)
(* late, in any order and to either endpoint; requests run concurrently,   *)
(* the store may fail, and the process may be restarted with another       *)
(* configuration.  The nonce table is the abstract one that NonceStore     *)
(* implements.  What follows SubmitOrder is in Orders.                     *)
(***************************************************************************)
EXTENDS Integers, FiniteSets, Sequences

CONSTANTS
    Key, KeyTypeOf,     \* client keys and their types
    Nonce,
    Contact,
    Profile,            \* profile names; "" is none
    Identifier, Suffixed,   \* <<i, s>>: identifier i ends in s
    Body,               \* what clients may sign (but for the nonce)
    Upstream,
    ConfigFile,         \* the routing sections the operator may write
    Req,                \* concurrent requests
    MaxSigned,          \* bound on the signed messages
    MaxRestart,         \* bound on restarts
    NoRow, NoBody

Endpoint == {"new-account", "new-order"}

\* Key types as somebody may write them.
Written == {"", "RSA", "rsa", "ECDSA", "ecdsa", "ed25519"}

\* strings.ToUpper on these.
ToUpper(t) == CASE t = "rsa" -> "RSA" [] t = "ecdsa" -> "ECDSA" [] t = "ed25519" -> "ED25519"
                [] OTHER -> t

\* A request: who signed it, whose account it names and how, the url and the
\* payload.
BodyType == [signer : Key, form : {"jwk", "kid"}, named : Key, url : Endpoint,
             contact : Contact, onlyReturnExisting : BOOLEAN,
             profile : Profile, identifiers : SUBSET Identifier]

Message == Body \X Nonce

\* A row of the accounts table.
AccountRow == [key : Key, type : {"RSA", "ECDSA"}, contact : Contact]

\* RoutingRule and MatchConfig.
Rule == [profile : Profile, key_type : Written, domain_suffix : STRING,
         upstream : STRING, upstream_profile : Profile \union {"$passthrough"},
         require_csr_key_type : Written]

ASSUME FrontendAssumption ==
    /\ KeyTypeOf \in [Key -> {"RSA", "ECDSA"}]
    /\ Body \subseteq BodyType
    /\ "" \in Profile
    /\ ConfigFile \subseteq [rules : Seq(Rule), default_upstream : STRING,
                             upstreams : SUBSET Upstream, profiles : SUBSET Profile]
    /\ NoRow \notin AccountRow
    /\ {MaxSigned, MaxRestart} \subseteq Nat

VARIABLES
    status, uses,   \* the nonce table (OneTimeNonce)
    signed,         \* messages that a client has signed
    file, config,   \* the configuration as it is written, and as it was loaded
    up,             \* the process runs
    restarts,
    accounts,       \* the accounts table, by thumbprint
    req,            \* open requests
    announced,      \* accounts whose URL a client was given
    orders          \* orders submitted upstream

nonces == <<status, uses>>
process == <<file, config, up, restarts>>
vars == <<nonces, signed, process, accounts, req, announced, orders>>

\* The nonce store, as the handlers see it.
Nonces == INSTANCE OneTimeNonce

-----------------------------------------------------------------------------
(* internal/config: the routing section *)

\* Mutant: key types are taken as they are.
LoadUnnormalised(c) == c

\* validate also rewrites require_csr_key_type.
Load(c) ==
    [c EXCEPT !.rules = [i \in DOMAIN c.rules |->
        [c.rules[i] EXCEPT !.require_csr_key_type = ToUpper(c.rules[i].require_csr_key_type)]]]

\* validate
Validate(c) ==
    /\ c.upstreams # {}
    /\ \A i \in DOMAIN c.rules :
          /\ c.rules[i].upstream \in c.upstreams
          /\ c.rules[i].profile \in c.profiles \union {""}
          /\ ToUpper(c.rules[i].key_type) \in {"", "RSA", "ECDSA"}
          /\ ToUpper(c.rules[i].require_csr_key_type) \in {"", "RSA", "ECDSA"}
    /\ c.default_upstream \in c.upstreams \union {""}

-----------------------------------------------------------------------------
(* internal/router *)

\* Mutant: key types are compared as they are written.
MatchesExactly(rule, b, keyType) ==
    /\ rule.profile \in {"", b.profile}
    /\ rule.key_type \in {"", keyType}
    /\ rule.domain_suffix = "" \/
          \E i \in b.identifiers : <<i, rule.domain_suffix>> \in Suffixed

\* matches: every field that is set agrees (strings.EqualFold for the key type).
Matches(rule, b, keyType) ==
    /\ rule.profile \in {"", b.profile}
    /\ ToUpper(rule.key_type) \in {"", ToUpper(keyType)}
    /\ rule.domain_suffix = "" \/
          \E i \in b.identifiers : <<i, rule.domain_suffix>> \in Suffixed

\* Route: the first rule that matches, or the default upstream.
Route(b, keyType) ==
    LET hits == {i \in DOMAIN config.rules : Matches(config.rules[i], b, keyType)} IN
    IF hits = {}
    THEN [upstream |-> config.default_upstream, upstream_profile |-> "",
          require_csr_key_type |-> ""]
    ELSE LET rule == config.rules[CHOOSE i \in hits : \A j \in hits : i <= j] IN
         [upstream |-> rule.upstream, upstream_profile |-> rule.upstream_profile,
          require_csr_key_type |-> rule.require_csr_key_type]

\* ResolveUpstreamProfile: strip, forward or override.
ResolveUpstreamProfile(d, inbound) ==
    IF d.upstream_profile = "$passthrough" THEN inbound ELSE d.upstream_profile

-----------------------------------------------------------------------------
(* State *)

IdleReq == [pc |-> "idle", msg |-> NoBody, at |-> "", order |-> NoBody]

\* An order as it is submitted and saved, and the file in force.
OrderType == [msg : Message, account : Key, upstream : Upstream, sent_profile : Profile,
              require_csr_key_type : {"", "RSA", "ECDSA"}, file : ConfigFile]

ReqType == [pc : {"idle", "consume", "account", "save", "submit"},
            msg : Message \union {NoBody}, at : Endpoint \union {""},
            order : OrderType \union {NoBody}]

TypeOK ==
    /\ status \in [Nonce -> {"unissued", "live", "spent", "lapsed"}]
    /\ uses \in [Nonce -> Nat]
    /\ signed \in SUBSET Message
    /\ file \in ConfigFile
    /\ config = Load(file)
    /\ up \in BOOLEAN
    /\ restarts \in 0 .. MaxRestart
    /\ accounts \in [Key -> AccountRow \union {NoRow}]
    /\ req \in [Req -> ReqType]
    /\ announced \in SUBSET Key
    /\ orders \in Seq(OrderType)

Init ==
    /\ Nonces!Init
    /\ signed = {}
    /\ file \in {c \in ConfigFile : Validate(c)}
    /\ config = Load(file)
    /\ up = TRUE
    /\ restarts = 0
    /\ accounts = [k \in Key |-> NoRow]
    /\ req = [r \in Req |-> IdleReq]
    /\ announced = {}
    /\ orders = <<>>

-----------------------------------------------------------------------------
(* Clients and the network *)

\* A client signs a request with a nonce it was given at some time.
Sign(b, n) ==
    /\ status[n] # "unissued"
    /\ Cardinality(signed) < MaxSigned
    /\ signed' = signed \union {<<b, n>>}
    /\ UNCHANGED <<nonces, process, accounts, req, announced, orders>>

\* attachNonce; its error leaves the header out.
AttachNonce == (\E n \in Nonce : Nonces!Issue(n)) \/ UNCHANGED nonces

HandleNewNonce ==
    /\ up
    /\ AttachNonce
    /\ UNCHANGED <<signed, process, accounts, req, announced, orders>>

\* A signed message reaches an endpoint, once more.  Every answer has a nonce.
Arrive(r, m, e) ==
    /\ up
    /\ req[r].pc = "idle"
    /\ AttachNonce
    /\ req' = [req EXCEPT ![r] = [pc |-> "consume", msg |-> m, at |-> e, order |-> NoBody]]
    /\ UNCHANGED <<signed, process, accounts, announced, orders>>

\* Nonces expire.
Lapse(n) ==
    /\ Nonces!Lapse({n})
    /\ UNCHANGED <<signed, process, accounts, req, announced, orders>>

Restart(c) ==
    /\ restarts < MaxRestart
    /\ restarts' = restarts + 1
    /\ file' = c
    /\ config' = Load(c)
    /\ up' = Validate(c)
    /\ req' = [r \in Req |-> IdleReq]
    /\ UNCHANGED <<nonces, signed, accounts, announced, orders>>

-----------------------------------------------------------------------------
(* The handlers *)

Abort(r) == req' = [req EXCEPT ![r] = IdleReq]

\* VerifySignature against a key.
VerifySignature(b, key) == b.signer = key

\* Mutant: the nonce is looked up and not used up.
ConsumeNonceLooks(r) ==
    /\ req[r].pc = "consume"
    /\ \/ /\ req[r].msg[1].url = req[r].at
          /\ status[req[r].msg[2]] = "live"
          /\ req' = [req EXCEPT ![r].pc = "account"]
       \/ Abort(r)
    /\ UNCHANGED <<nonces, signed, process, accounts, announced, orders>>

\* parseAndValidateJWS: the url is checked first, then the nonce is consumed, before
\* anybody has looked at the signature.
ParseAndValidateJWS(r) ==
    LET m == req[r].msg IN
    /\ req[r].pc = "consume"
    /\ \/ /\ m[1].url = req[r].at
          /\ Nonces!Spend(m[2])
          /\ req' = [req EXCEPT ![r].pc = "account"]
       \/ /\ UNCHANGED nonces   \* url, badNonce, or an error of the store
          /\ Abort(r)
    /\ UNCHANGED <<signed, process, accounts, announced, orders>>

\* Mutant: the account's URL is sent before the account is saved.
LookUpAccountHasty(r) ==
    LET b == req[r].msg[1] IN
    /\ req[r].pc = "account" /\ req[r].at = "new-account"
    /\ b.form = "jwk" /\ VerifySignature(b, b.named)
    /\ announced' = announced \union {b.named}
    /\ req' = [req EXCEPT ![r].pc = "save"]
    /\ UNCHANGED <<nonces, signed, process, accounts, orders>>

\* handleNewAccount up to the lookup.  The key that is looked up is the one embedded.
LookUpAccount(r) ==
    LET b == req[r].msg[1] IN
    /\ req[r].pc = "account" /\ req[r].at = "new-account"
    /\ \/ /\ b.form = "jwk" /\ VerifySignature(b, b.named)
          /\ \/ /\ accounts[b.named] # NoRow
                /\ announced' = announced \union {b.named}
                /\ Abort(r)
             \/ /\ accounts[b.named] = NoRow /\ ~b.onlyReturnExisting
                /\ req' = [req EXCEPT ![r].pc = "save"]
                /\ UNCHANGED announced
       \/ /\ Abort(r)
          /\ UNCHANGED announced
    /\ UNCHANGED <<nonces, signed, process, accounts, orders>>

\* SaveAccount (INSERT OR REPLACE) with KeyTypeFromJWK, whatever was saved meanwhile.
SaveAccount(r) ==
    LET b == req[r].msg[1] IN
    /\ req[r].pc = "save"
    /\ \/ /\ accounts' = [accounts EXCEPT ![b.named] =
                             [key |-> b.named, type |-> KeyTypeOf[b.named],
                              contact |-> b.contact]]
          /\ announced' = announced \union {b.named}
       \/ UNCHANGED <<accounts, announced>>
    /\ Abort(r)
    /\ UNCHANGED <<nonces, signed, process, orders>>

\* Mutant: the embedded or named key is good enough.
RouteOrderUnverified(r) ==
    LET b == req[r].msg[1]
        d == Route(b, KeyTypeOf[b.signer]) IN
    /\ req[r].pc = "account" /\ req[r].at = "new-order"
    /\ accounts[b.named] # NoRow
    /\ d.upstream # ""
    /\ req' = [req EXCEPT ![r].pc = "submit",
                          ![r].order = [msg |-> req[r].msg, account |-> b.named,
                                        upstream |-> d.upstream,
                                        sent_profile |-> ResolveUpstreamProfile(d, b.profile),
                                        require_csr_key_type |-> d.require_csr_key_type,
                                        file |-> file]]
    /\ UNCHANGED <<nonces, signed, process, accounts, announced, orders>>

\* handleNewOrder: resolveAccount by the kid, the signature against the account's
\* key, and the routing decision on the account's key type.
RouteOrder(r) ==
    LET b == req[r].msg[1]
        acct == accounts[b.named]
        d == Route(b, acct.type) IN
    /\ req[r].pc = "account" /\ req[r].at = "new-order"
    /\ \/ /\ b.form = "kid"
          /\ acct # NoRow
          /\ VerifySignature(b, acct.key)
          /\ b.identifiers # {}
          /\ d.upstream # ""
          /\ req' = [req EXCEPT ![r].pc = "submit",
                                ![r].order = [msg |-> req[r].msg, account |-> b.named,
                                              upstream |-> d.upstream,
                                              sent_profile |-> ResolveUpstreamProfile(d, b.profile),
                                              require_csr_key_type |-> d.require_csr_key_type,
                                              file |-> file]]
       \/ Abort(r)
    /\ UNCHANGED <<nonces, signed, process, accounts, announced, orders>>

\* GetClientForAccount and SubmitOrder; Orders has the rest.
SubmitOrder(r) ==
    /\ req[r].pc = "submit"
    /\ orders' = Append(orders, req[r].order) \/ UNCHANGED orders
    /\ Abort(r)
    /\ UNCHANGED <<nonces, signed, process, accounts, announced>>

Next ==
    \/ \E b \in Body, n \in Nonce : Sign(b, n)
    \/ HandleNewNonce
    \/ \E n \in Nonce : Lapse(n)
    \/ \E c \in ConfigFile : Restart(c)
    \/ \E r \in Req :
          \/ \E m \in signed, e \in Endpoint : Arrive(r, m, e)
          \/ ParseAndValidateJWS(r) \/ LookUpAccount(r) \/ SaveAccount(r)
          \/ RouteOrder(r) \/ SubmitOrder(r)

Spec == Init /\ [][Next]_vars

-----------------------------------------------------------------------------
(* Safety *)

\* A client that signs once orders at most once: however often, where and when the
\* network delivers the message, and whatever else was signed with its nonce, the CA
\* is asked for one order.
SignedOnceActsOnce ==
    \A i, j \in DOMAIN orders : orders[i].msg[2] = orders[j].msg[2] => i = j

\* Every order is on behalf of the account whose key signed it, for this endpoint;
\* and an account exists only if its key signed the new-account request, the contact
\* included.
OrderIsAuthentic ==
    /\ \A i \in DOMAIN orders :
          LET b == orders[i].msg[1] IN
          /\ orders[i].msg \in signed
          /\ b.url = "new-order" /\ b.signer = orders[i].account
          /\ accounts[b.signer] # NoRow
    /\ \A k \in Key : accounts[k] # NoRow =>
          \E m \in signed : /\ m[1].url = "new-account" /\ m[1].signer = k
                            /\ m[1].contact = accounts[k].contact

\* An account URL that a client was given stays good: the account is there with that
\* client's key and key type, whatever concurrent requests look up before and replace
\* after it, and whichever writes fail.
AnnouncedAccountResolves ==
    \A k \in announced :
        accounts[k] # NoRow /\ accounts[k].key = k /\ accounts[k].type = KeyTypeOf[k]

\* What a rule of the file asks for, with the key type in whatever case.
Asks(rule, b) ==
    /\ rule.profile # "" => b.profile = rule.profile
    /\ rule.key_type # "" => ToUpper(rule.key_type) = KeyTypeOf[b.signer]
    /\ rule.domain_suffix # "" =>
          \E i \in b.identifiers : <<i, rule.domain_suffix>> \in Suffixed

\* Where the file says that an order goes: to the upstream of the first rule that asks
\* for it, with that rule's demand on the CSR and under that rule's profile (the client's
\* own only where the rule passes it through), or to the default without either.
GoesAsWritten(o) ==
    LET b == o.msg[1]
        rules == o.file.rules IN
    /\ o.upstream \in o.file.upstreams
    /\ \/ \E n \in DOMAIN rules :
             /\ Asks(rules[n], b)
             /\ \A k \in 1 .. n - 1 : ~Asks(rules[k], b)
             /\ o.upstream = rules[n].upstream
             /\ o.require_csr_key_type = ToUpper(rules[n].require_csr_key_type)
             /\ \/ rules[n].upstream_profile = "$passthrough" /\ o.sent_profile = b.profile
                \/ o.sent_profile = rules[n].upstream_profile
       \/ /\ \A n \in DOMAIN rules : ~Asks(rules[n], b)
          /\ o.upstream = o.file.default_upstream
          /\ o.require_csr_key_type = "" /\ o.sent_profile = ""

\* Each order goes where the file in force says, read as the documentation reads it,
\* by the type of the client's own key; always to an upstream that the file
\* configures.
RoutedAsWritten == \A i \in DOMAIN orders : GoesAsWritten(orders[i])

=============================================================================
