--------------------------- MODULE FrontendProofs ---------------------------
(***************************************************************************)
(* Proofs about Frontend for any clients, keys, nonces, concurrent         *)
(* requests, configurations and restarts.                                  *)
(***************************************************************************)
EXTENDS Frontend, WellFoundedInduction, TLAPS

\* Requests that have used up their nonce.
Past == {"account", "save", "submit"}

\* What holds of an order from the routing decision on, given the signed messages and
\* the accounts.
GoodOrder(o, S, A) ==
    /\ o \in OrderType
    /\ o.msg \in S
    /\ o.msg[1].url = "new-order"
    /\ o.account = o.msg[1].signer
    /\ A[o.msg[1].signer] # NoRow
    /\ GoesAsWritten(o)

\* What the steps of an open request have established.
ReqInv ==
    \A r \in Req : req[r].pc # "idle" =>
        LET m == req[r].msg IN
        /\ up
        /\ m \in signed
        /\ req[r].at \in Endpoint
        /\ req[r].pc \in Past => m[1].url = req[r].at /\ status[m[2]] = "spent"
        /\ req[r].pc = "save" => req[r].at = "new-account" /\ m[1].signer = m[1].named
        /\ req[r].pc = "submit" => req[r].order.msg = m /\ GoodOrder(req[r].order, signed, accounts)

\* A nonce backs one request in flight or one order.
NonceInv ==
    /\ \A r, s \in Req :
          req[r].pc \in Past /\ req[s].pc \in Past /\ req[r].msg[2] = req[s].msg[2] => r = s
    /\ \A i \in DOMAIN orders :
          /\ status[orders[i].msg[2]] = "spent"
          /\ \A r \in Req : req[r].pc \in Past => req[r].msg[2] # orders[i].msg[2]
    /\ SignedOnceActsOnce

\* An account is its key's.
AccountInv ==
    /\ \A k \in Key : accounts[k] # NoRow =>
          /\ accounts[k].key = k /\ accounts[k].type = KeyTypeOf[k]
          /\ \E m \in signed : /\ m[1].url = "new-account" /\ m[1].signer = k
                               /\ m[1].contact = accounts[k].contact
    /\ \A k \in announced : accounts[k] # NoRow

OrderInv == \A i \in DOMAIN orders : GoodOrder(orders[i], signed, accounts)

IInv ==
    /\ TypeOK
    /\ up => Validate(file)
    /\ ReqInv
    /\ NonceInv
    /\ AccountInv
    /\ OrderInv

-----------------------------------------------------------------------------
(* Routing *)

\* A set of natural numbers has a smallest element.
LEMMA SmallestOf ==
    ASSUME NEW S \in SUBSET Nat, S # {}
    PROVE  \E i \in S : \A j \in S : i <= j
<1> DEFINE R == {ss \in Nat \X Nat : ss[1] < ss[2]}
<1>1. IsWellFoundedOn(R, Nat)
  <2>1. R = OpToRel(<, Nat)
    BY DEF OpToRel
  <2> QED
    BY <2>1, NatLessThanWellFounded
<1>2. PICK x \in S : \A y \in S : ~(<<y, x>> \in R)
  <2> HIDE DEF R
  <2> QED
    BY <1>1, WFMin
<1>3. ASSUME NEW y \in S PROVE x <= y
  <2>1. ~(<<y, x>> \in R)
    BY <1>2
  <2>2. x \in Nat /\ y \in Nat
    OBVIOUS
  <2>3. ~(y < x)
    BY <2>1, <2>2 DEF R
  <2> QED
    BY <2>2, <2>3
<1> QED
  BY <1>3

\* The domain of a sequence.
LEMMA Domain == ASSUME NEW S, NEW s \in Seq(S) PROVE Len(s) \in Nat /\ DOMAIN s = 1 .. Len(s)
  OBVIOUS

First(S) == CHOOSE i \in S : \A j \in S : i <= j

\* The first of some indices; what comes before it is none of them.
LEMMA FirstOf ==
    ASSUME NEW n \in Nat, NEW D, D = 1 .. n, NEW S \in SUBSET D, S # {}
    PROVE  First(S) \in S /\ \A k \in 1 .. First(S) - 1 : k \in D /\ k \notin S
<1>1. S \in SUBSET Nat
  OBVIOUS
<1>2. \E i \in S : \A j \in S : i <= j
  BY <1>1, SmallestOf
<1>3. First(S) \in S /\ \A j \in S : First(S) <= j
  BY <1>2 DEF First
<1>4. First(S) \in 1 .. n
  BY <1>3
<1> QED
  BY <1>3, <1>4

\* A loaded rule matches exactly what the rule in the file asks for.
LEMMA MatchesAsWritten ==
    ASSUME NEW f \in ConfigFile, NEW b \in BodyType, NEW i \in DOMAIN f.rules
    PROVE  /\ i \in DOMAIN Load(f).rules
           /\ f.rules[i] \in Rule
           /\ Load(f).rules[i].upstream = f.rules[i].upstream
           /\ Load(f).rules[i].upstream_profile = f.rules[i].upstream_profile
           /\ Load(f).rules[i].require_csr_key_type = ToUpper(f.rules[i].require_csr_key_type)
           /\ Matches(Load(f).rules[i], b, KeyTypeOf[b.signer]) <=> Asks(f.rules[i], b)
<1>1. f \in [rules : Seq(Rule), default_upstream : STRING,
             upstreams : SUBSET Upstream, profiles : SUBSET Profile]
  BY FrontendAssumption
<1>2. f.rules \in Seq(Rule)
  BY <1>1
<1>3. f.rules[i] \in Rule
  BY <1>2
<1> DEFINE rule == f.rules[i]
           loaded == Load(f).rules[i]
           New(j) == [f.rules[j] EXCEPT
                         !.require_csr_key_type = ToUpper(f.rules[j].require_csr_key_type)]
<1>4. Load(f).rules = [j \in DOMAIN f.rules |-> New(j)]
  <2> HIDE DEF New
  <2>1. Load(f) = [f EXCEPT !.rules = [j \in DOMAIN f.rules |-> New(j)]]
    BY DEF Load, New
  <2> QED
    BY <1>1, <2>1
<1>5. i \in DOMAIN Load(f).rules /\ loaded = New(i)
  <2> HIDE DEF New
  <2> QED
    BY <1>4
<1>6. /\ loaded.profile = rule.profile /\ loaded.key_type = rule.key_type
      /\ loaded.domain_suffix = rule.domain_suffix
      /\ loaded.upstream = rule.upstream /\ loaded.upstream_profile = rule.upstream_profile
      /\ loaded.require_csr_key_type = ToUpper(rule.require_csr_key_type)
  <2> DEFINE t == ToUpper(rule.require_csr_key_type)
  <2>1. loaded = [rule EXCEPT !.require_csr_key_type = t]
    BY <1>5
  <2> HIDE DEF t, loaded
  <2>2. rule \in [profile : Profile, key_type : Written, domain_suffix : STRING,
                  upstream : STRING, upstream_profile : Profile \union {"$passthrough"},
                  require_csr_key_type : Written]
    BY <1>3 DEF Rule
  <2> HIDE DEF rule
  <2>3. /\ loaded.profile = rule.profile /\ loaded.key_type = rule.key_type
        /\ loaded.domain_suffix = rule.domain_suffix
        /\ loaded.upstream = rule.upstream /\ loaded.upstream_profile = rule.upstream_profile
        /\ loaded.require_csr_key_type = t
    BY <2>1, <2>2
  <2> QED
    BY <2>3 DEF t
<1>7. KeyTypeOf[b.signer] \in {"RSA", "ECDSA"} /\ rule.key_type \in Written
  BY <1>3, FrontendAssumption DEF Rule, BodyType
<1>8. ToUpper(rule.key_type) \in {"", ToUpper(KeyTypeOf[b.signer])}
         <=> (rule.key_type # "" => ToUpper(rule.key_type) = KeyTypeOf[b.signer])
  BY <1>7 DEF Written, ToUpper
<1>9. Matches(loaded, b, KeyTypeOf[b.signer]) <=> Asks(rule, b)
  BY <1>6, <1>8 DEF Matches, Asks
<1> QED
  BY <1>3, <1>5, <1>6, <1>9

\* The order that RouteOrder puts together.
Routed(m, d, f) ==
    [msg |-> m, account |-> m[1].named, upstream |-> d.upstream,
     sent_profile |-> ResolveUpstreamProfile(d, m[1].profile),
     require_csr_key_type |-> d.require_csr_key_type, file |-> f]

\* Route follows the file.
LEMMA RouteAsWritten ==
    ASSUME file \in ConfigFile, config = Load(file), Validate(file),
           NEW m \in Message,
           Route(m[1], KeyTypeOf[m[1].signer]).upstream # ""
    PROVE  LET o == Routed(m, Route(m[1], KeyTypeOf[m[1].signer]), file) IN
           o \in OrderType /\ GoesAsWritten(o)
<1> DEFINE b == m[1]
           kt == KeyTypeOf[b.signer]
           d == Route(b, kt)
           o == Routed(m, d, file)
           rules == file.rules
           hits == {i \in DOMAIN config.rules : Matches(config.rules[i], b, kt)}
<1>1. /\ file \in [rules : Seq(Rule), default_upstream : STRING,
                   upstreams : SUBSET Upstream, profiles : SUBSET Profile]
      /\ b \in BodyType /\ b.named \in Key /\ b.profile \in Profile /\ "" \in Profile
  BY FrontendAssumption DEF Message, BodyType
<1>0. d.upstream # ""
  OBVIOUS
<1>2. DOMAIN rules = 1 .. Len(rules) /\ Len(rules) \in Nat
  <2>1. rules \in Seq(Rule)
    BY <1>1
  <2> HIDE DEF rules
  <2> QED
    BY <2>1, Domain
<1>3. DOMAIN config.rules = DOMAIN rules
  BY <1>1 DEF Load
<1>4. \A i \in DOMAIN rules :
         /\ rules[i] \in Rule
         /\ config.rules[i].upstream = rules[i].upstream
         /\ config.rules[i].upstream_profile = rules[i].upstream_profile
         /\ config.rules[i].require_csr_key_type = ToUpper(rules[i].require_csr_key_type)
         /\ i \in hits <=> Asks(rules[i], b)
  BY <1>1, <1>3, MatchesAsWritten
<1>5. hits \in SUBSET (DOMAIN rules)
  BY <1>3
<1>6. CASE hits = {}
  <2>1. d = [upstream |-> config.default_upstream, upstream_profile |-> "",
             require_csr_key_type |-> ""]
    BY <1>6 DEF Route
  <2> HIDE DEF d, hits
  <2>2. config.default_upstream = file.default_upstream
    BY <1>1 DEF Load
  <2>3. file.default_upstream \in file.upstreams /\ file.upstreams \subseteq Upstream
    BY <1>0, <1>1, <2>1, <2>2 DEF Validate
  <2>4. ResolveUpstreamProfile(d, b.profile) = ""
    BY <2>1 DEF ResolveUpstreamProfile
  <2>5. \A n \in DOMAIN rules : ~Asks(rules[n], b)
    BY <1>4, <1>6
  <2>6. o = [msg |-> m, account |-> b.named, upstream |-> file.default_upstream,
             sent_profile |-> "", require_csr_key_type |-> "", file |-> file]
    BY <2>1, <2>2, <2>4 DEF Routed
  <2> HIDE DEF o
  <2>7. o \in OrderType
    BY <1>1, <2>3, <2>6 DEF OrderType
  <2>8. GoesAsWritten(o)
    BY <2>3, <2>5, <2>6 DEF GoesAsWritten
  <2> QED
    BY <2>7, <2>8 DEF o, d
<1>7. CASE hits # {}
  <2> DEFINE first == First(hits)
             rule == rules[first]
  <2>1. first \in hits /\ \A k \in 1 .. first - 1 : k \in DOMAIN rules /\ k \notin hits
    <3> HIDE DEF hits, rules
    <3> QED
      BY <1>2, <1>5, <1>7, FirstOf
  <2>2. d = [upstream |-> config.rules[first].upstream,
             upstream_profile |-> config.rules[first].upstream_profile,
             require_csr_key_type |-> config.rules[first].require_csr_key_type]
    BY <1>7 DEF Route, First
  <2> HIDE DEF d, hits, first
  <2>3. first \in DOMAIN rules /\ rule \in Rule /\ Asks(rule, b)
    BY <1>4, <1>5, <2>1
  <2>4. /\ config.rules[first].upstream = rule.upstream
        /\ config.rules[first].upstream_profile = rule.upstream_profile
        /\ config.rules[first].require_csr_key_type = ToUpper(rule.require_csr_key_type)
    BY <1>4, <2>3
  <2>5. /\ rule.upstream \in file.upstreams /\ file.upstreams \subseteq Upstream
        /\ ToUpper(rule.require_csr_key_type) \in {"", "RSA", "ECDSA"}
    BY <1>1, <2>3 DEF Validate
  <2>6. \A k \in 1 .. first - 1 : ~Asks(rules[k], b)
    BY <1>4, <2>1
  <2> DEFINE p == ResolveUpstreamProfile(d, b.profile)
  <2>7. /\ p \in Profile
        /\ \/ rule.upstream_profile = "$passthrough" /\ p = b.profile
           \/ p = rule.upstream_profile
    BY <1>1, <2>2, <2>3, <2>4 DEF ResolveUpstreamProfile, Rule
  <2>8. o = [msg |-> m, account |-> b.named, upstream |-> rule.upstream, sent_profile |-> p,
             require_csr_key_type |-> ToUpper(rule.require_csr_key_type), file |-> file]
    BY <2>2, <2>4 DEF Routed
  <2> HIDE DEF o, p
  <2>9. o \in OrderType
    BY <1>1, <2>5, <2>7, <2>8 DEF OrderType
  <2>10. GoesAsWritten(o)
    BY <2>3, <2>5, <2>6, <2>7, <2>8 DEF GoesAsWritten
  <2> QED
    BY <2>9, <2>10 DEF o, d
<1> QED
  BY <1>6, <1>7

-----------------------------------------------------------------------------
(* The inductive invariant *)

\* Nothing has happened yet.
LEMMA InitIInv == Init => IInv
<1> SUFFICES ASSUME Init PROVE IInv
  OBVIOUS
<1>1. TypeOK
  <2>1. IdleReq \in ReqType
    BY DEF IdleReq, ReqType
  <2>2. /\ status \in [Nonce -> {"unissued", "live", "spent", "lapsed"}]
        /\ uses \in [Nonce -> Nat]
    BY DEF Init, Nonces!Init
  <2>3. req \in [Req -> ReqType]
    BY <2>1 DEF Init
  <2>4. accounts \in [Key -> AccountRow \union {NoRow}]
    BY DEF Init
  <2>5. restarts \in 0 .. MaxRestart
    <3>1. MaxRestart \in Nat /\ restarts = 0
      BY FrontendAssumption DEF Init
    <3> QED
      BY <3>1
  <2>6. signed \in SUBSET Message /\ announced \in SUBSET Key /\ orders \in Seq(OrderType)
    BY DEF Init
  <2>7. file \in ConfigFile /\ config = Load(file) /\ up \in BOOLEAN
    BY DEF Init
  <2> QED
    BY <2>2, <2>3, <2>4, <2>5, <2>6, <2>7 DEF TypeOK
<1>2. \A r \in Req : req[r].pc = "idle"
  BY DEF Init, IdleReq
<1>3. DOMAIN orders = {}
  BY DEF Init
<1>4. ReqInv /\ NonceInv /\ OrderInv
  BY <1>2, <1>3 DEF ReqInv, NonceInv, OrderInv, SignedOnceActsOnce, Past
<1>5. AccountInv
  BY DEF Init, AccountInv
<1>6. up => Validate(file)
  BY DEF Init
<1> QED
  BY <1>1, <1>4, <1>5, <1>6 DEF IInv

\* More signed messages and more accounts take nothing from an order.
LEMMA GoodOrderStays ==
    ASSUME NEW o, NEW S, NEW A, NEW T, NEW B, GoodOrder(o, S, A), S \subseteq T,
           \A k \in Key : A[k] # NoRow => B[k] # NoRow
    PROVE  GoodOrder(o, T, B)
<1>1. o.msg[1].signer \in Key
  BY FrontendAssumption DEF GoodOrder, OrderType, Message, BodyType
<1> QED
  BY <1>1 DEF GoodOrder

\* What a step does not touch keeps the invariant: it holds as long as requests in
\* flight are left alone or given up, spent nonces stay spent, and signed messages and
\* accounts only grow.
LEMMA Frame ==
    ASSUME IInv,
           req' \in [Req -> ReqType],
           \A r \in Req : req'[r] = req[r] \/ req'[r].pc = "idle",
           \A n \in Nonce : status[n] = "spent" => status'[n] = "spent",
           signed \subseteq signed', orders' = orders,
           \A k \in Key : accounts[k] # NoRow => accounts'[k] # NoRow,
           up => up' \/ \A r \in Req : req'[r].pc = "idle"
    PROVE  ReqInv' /\ NonceInv' /\ OrderInv'
<1>0. \A o : GoodOrder(o, signed, accounts) => GoodOrder(o, signed', accounts')
  BY GoodOrderStays
<1>1. \A m \in signed : m[2] \in Nonce
  BY DEF IInv, TypeOK, Message
<1>2. ReqInv'
  <2> SUFFICES ASSUME NEW r \in Req, req'[r].pc # "idle"
               PROVE  LET m == req'[r].msg IN
                      /\ up'
                      /\ m \in signed'
                      /\ req'[r].at \in Endpoint
                      /\ req'[r].pc \in Past => m[1].url = req'[r].at /\ status'[m[2]] = "spent"
                      /\ req'[r].pc = "save" =>
                            req'[r].at = "new-account" /\ m[1].signer = m[1].named
                      /\ req'[r].pc = "submit" => /\ req'[r].order.msg = m
                                                  /\ GoodOrder(req'[r].order, signed', accounts')
    BY DEF ReqInv
  <2>1. req'[r] = req[r]
    OBVIOUS
  <2> DEFINE m == req[r].msg
  <2>2. /\ up /\ m \in signed /\ req[r].at \in Endpoint
        /\ req[r].pc \in Past => m[1].url = req[r].at /\ status[m[2]] = "spent"
        /\ req[r].pc = "save" => req[r].at = "new-account" /\ m[1].signer = m[1].named
        /\ req[r].pc = "submit" => /\ req[r].order.msg = m
                                   /\ GoodOrder(req[r].order, signed, accounts)
    BY <2>1 DEF IInv, ReqInv
  <2>3. up' /\ m \in signed' /\ (req[r].pc \in Past => status'[m[2]] = "spent")
    BY <1>1, <2>2
  <2>4. req[r].pc = "submit" => GoodOrder(req[r].order, signed', accounts')
    BY <1>0, <2>2
  <2> QED
    BY <2>1, <2>2, <2>3, <2>4
<1>3. OrderInv'
  BY <1>0 DEF IInv, OrderInv
<1>4. NonceInv'
  <2>1. \A i \in DOMAIN orders : orders[i].msg[2] \in Nonce
    BY <1>1 DEF IInv, OrderInv, GoodOrder
  <2>2. \A r \in Req : req'[r].pc \in Past => req'[r] = req[r]
    BY DEF Past
  <2>4. \A i \in DOMAIN orders' : status'[orders'[i].msg[2]] = "spent"
    BY <2>1 DEF IInv, NonceInv
  <2>5. \A i \in DOMAIN orders', r \in Req :
           req'[r].pc \in Past => req'[r].msg[2] # orders'[i].msg[2]
    <3> SUFFICES ASSUME NEW i \in DOMAIN orders, NEW r \in Req, req'[r].pc \in Past
                 PROVE  req'[r].msg[2] # orders[i].msg[2]
      OBVIOUS
    <3>1. req'[r] = req[r]
      BY <2>2
    <3> QED
      BY <3>1 DEF IInv, NonceInv
  <2>6. \A r, s \in Req : (/\ req'[r].pc \in Past /\ req'[s].pc \in Past
                           /\ req'[r].msg[2] = req'[s].msg[2]) => r = s
    <3> SUFFICES ASSUME NEW r \in Req, NEW s \in Req,
                        req'[r].pc \in Past, req'[s].pc \in Past,
                        req'[r].msg[2] = req'[s].msg[2]
                 PROVE  r = s
      OBVIOUS
    <3>1. req'[r] = req[r] /\ req'[s] = req[s]
      BY <2>2
    <3> QED
      BY <3>1 DEF IInv, NonceInv
  <2>3. SignedOnceActsOnce'
    BY DEF IInv, NonceInv, SignedOnceActsOnce
  <2> QED
    BY <2>3, <2>4, <2>5, <2>6 DEF NonceInv
<1> QED
  BY <1>2, <1>3, <1>4

\* An idle request is well typed and makes no claim.
LEMMA IdleFacts == IdleReq \in ReqType /\ IdleReq.pc = "idle"
  BY DEF IdleReq, ReqType

\* A request that ends.
LEMMA AbortFrame ==
    ASSUME IInv, NEW r \in Req, Abort(r), status' = status, signed' = signed, up' = up,
           orders' = orders, \A k \in Key : accounts[k] # NoRow => accounts'[k] # NoRow
    PROVE  ReqInv' /\ NonceInv' /\ OrderInv' /\ req' \in [Req -> ReqType]
<1>1. req' = [req EXCEPT ![r] = IdleReq] /\ req \in [Req -> ReqType]
  BY DEF Abort, IInv, TypeOK
<1>2. req' \in [Req -> ReqType] /\ \A s \in Req : req'[s] = req[s] \/ req'[s].pc = "idle"
  BY <1>1, IdleFacts
<1> QED
  BY <1>2, Frame

\* A request that moves on.
LEMMA MoveReq ==
    ASSUME IInv, NEW r \in Req, NEW new \in ReqType, req' = [req EXCEPT ![r] = new],
           up, up' = up, signed' = signed, orders' = orders, accounts' = accounts,
           \A n \in Nonce : status[n] = "spent" => status'[n] = "spent",
           new.msg \in signed, new.at \in Endpoint,
           new.pc \in Past => /\ new.msg[1].url = new.at
                              /\ status'[new.msg[2]] = "spent"
                              /\ \/ req[r].pc \in Past /\ req[r].msg = new.msg
                                 \/ status[new.msg[2]] # "spent",
           new.pc = "save" => new.at = "new-account" /\ new.msg[1].signer = new.msg[1].named,
           new.pc = "submit" => /\ new.order.msg = new.msg
                                /\ GoodOrder(new.order, signed, accounts)
    PROVE  ReqInv' /\ NonceInv' /\ OrderInv' /\ req' \in [Req -> ReqType]
<1>1. req \in [Req -> ReqType]
  BY DEF IInv, TypeOK
<1>2. req' \in [Req -> ReqType] /\ req'[r] = new /\ \A s \in Req : s # r => req'[s] = req[s]
  BY <1>1
<1>3. \A m \in signed : m[2] \in Nonce
  BY DEF IInv, TypeOK, Message
<1>4. ReqInv'
  <2> SUFFICES ASSUME NEW s \in Req, req'[s].pc # "idle"
               PROVE  LET m == req'[s].msg IN
                      /\ up
                      /\ m \in signed
                      /\ req'[s].at \in Endpoint
                      /\ req'[s].pc \in Past => m[1].url = req'[s].at /\ status'[m[2]] = "spent"
                      /\ req'[s].pc = "save" =>
                            req'[s].at = "new-account" /\ m[1].signer = m[1].named
                      /\ req'[s].pc = "submit" => /\ req'[s].order.msg = m
                                                  /\ GoodOrder(req'[s].order, signed, accounts)
    BY DEF ReqInv
  <2>1. CASE s = r
    BY <1>2, <2>1
  <2>2. CASE s # r
    <3>1. req'[s] = req[s]
      BY <1>2, <2>2
    <3> QED
      BY <1>3, <3>1 DEF IInv, ReqInv
  <2> QED
    BY <2>1, <2>2
<1>5. OrderInv'
  BY DEF IInv, OrderInv
<1>6. \A i \in DOMAIN orders : orders[i].msg[2] \in Nonce
  BY <1>3 DEF IInv, OrderInv, GoodOrder
\* The request's nonce is nobody else's.
<1>7. new.pc \in Past =>
        /\ \A s \in Req : s # r /\ req[s].pc \in Past => req[s].msg[2] # new.msg[2]
        /\ \A i \in DOMAIN orders : orders[i].msg[2] # new.msg[2]
  <2> SUFFICES ASSUME new.pc \in Past
               PROVE  /\ \A s \in Req : s # r /\ req[s].pc \in Past =>
                                          req[s].msg[2] # new.msg[2]
                      /\ \A i \in DOMAIN orders : orders[i].msg[2] # new.msg[2]
    OBVIOUS
  <2>1. CASE req[r].pc \in Past /\ req[r].msg = new.msg
    BY <2>1 DEF IInv, NonceInv
  <2>2. CASE status[new.msg[2]] # "spent"
    BY <2>2 DEF IInv, NonceInv, ReqInv, Past
  <2> QED
    BY <2>1, <2>2
<1>8. NonceInv'
  <2>1. \A i \in DOMAIN orders' : status'[orders'[i].msg[2]] = "spent"
    BY <1>6 DEF IInv, NonceInv
  <2>2. ASSUME NEW i \in DOMAIN orders, NEW s \in Req, req'[s].pc \in Past
        PROVE  req'[s].msg[2] # orders[i].msg[2]
    <3>1. CASE s = r
      BY <1>2, <1>7, <2>2, <3>1
    <3>2. CASE s # r
      <4>1. req'[s] = req[s]
        BY <1>2, <3>2
      <4> QED
        BY <2>2, <4>1 DEF IInv, NonceInv
    <3> QED
      BY <3>1, <3>2
  <2>3. ASSUME NEW s \in Req, NEW t \in Req, req'[s].pc \in Past, req'[t].pc \in Past,
               req'[s].msg[2] = req'[t].msg[2]
        PROVE  s = t
    <3>1. CASE s # r /\ t # r
      <4>1. req'[s] = req[s] /\ req'[t] = req[t]
        BY <1>2, <3>1
      <4> QED
        BY <2>3, <4>1 DEF IInv, NonceInv
    <3>2. CASE s = r /\ t # r
      <4>1. req'[s] = new /\ req'[t] = req[t]
        BY <1>2, <3>2
      <4> QED
        BY <1>7, <2>3, <3>2, <4>1
    <3>3. CASE s # r /\ t = r
      <4>1. req'[s] = req[s] /\ req'[t] = new
        BY <1>2, <3>3
      <4> QED
        BY <1>7, <2>3, <3>3, <4>1
    <3> QED
      BY <3>1, <3>2, <3>3
  <2>4. SignedOnceActsOnce'
    BY DEF IInv, NonceInv, SignedOnceActsOnce
  <2> QED
    BY <2>1, <2>2, <2>3, <2>4 DEF NonceInv
<1> QED
  BY <1>2, <1>4, <1>5, <1>8

\* Issuing a nonce spends none.
LEMMA AttachFacts ==
    ASSUME TypeOK, AttachNonce
    PROVE  /\ status' \in [Nonce -> {"unissued", "live", "spent", "lapsed"}]
           /\ uses' \in [Nonce -> Nat]
           /\ \A n \in Nonce : status[n] = "spent" => status'[n] = "spent"
  BY DEF TypeOK, AttachNonce, Nonces!Issue, nonces

\* Clients, the network, time and restarts leave orders and accounts alone.
LEMMA EnvironmentIInv ==
    ASSUME IInv,
           \/ \E b \in Body, n \in Nonce : Sign(b, n)
           \/ HandleNewNonce
           \/ \E n \in Nonce : Lapse(n)
    PROVE  IInv'
<1>1. /\ TypeOK /\ req \in [Req -> ReqType] /\ AccountInv /\ (up => Validate(file))
      /\ \A r \in Req : req[r] = req[r]
  BY DEF IInv, TypeOK
<1>2. ASSUME NEW b \in Body, NEW n \in Nonce, Sign(b, n) PROVE IInv'
  <2>1. /\ signed' = signed \union {<<b, n>>} /\ <<b, n>> \in Message
        /\ UNCHANGED <<status, uses, file, config, up, restarts, accounts, req, announced, orders>>
    BY <1>2 DEF Sign, nonces, process, Message
  <2>2. ReqInv' /\ NonceInv' /\ OrderInv'
    BY <1>1, <2>1, Frame
  <2>3. TypeOK'
    BY <1>1, <2>1 DEF TypeOK
  <2>4. AccountInv'
    BY <1>1, <2>1 DEF AccountInv
  <2> QED
    BY <1>1, <2>1, <2>2, <2>3, <2>4 DEF IInv
<1>3. ASSUME HandleNewNonce PROVE IInv'
  <2>1. UNCHANGED <<signed, file, config, up, restarts, accounts, req, announced, orders>>
    BY <1>3 DEF HandleNewNonce, process
  <2>2. /\ status' \in [Nonce -> {"unissued", "live", "spent", "lapsed"}]
        /\ uses' \in [Nonce -> Nat]
        /\ \A n \in Nonce : status[n] = "spent" => status'[n] = "spent"
    BY <1>1, <1>3, AttachFacts DEF HandleNewNonce
  <2>3. ReqInv' /\ NonceInv' /\ OrderInv'
    BY <1>1, <2>1, <2>2, Frame
  <2>4. TypeOK' /\ AccountInv'
    BY <1>1, <2>1, <2>2 DEF TypeOK, AccountInv
  <2> QED
    BY <1>1, <2>1, <2>3, <2>4 DEF IInv
<1>4. ASSUME NEW n \in Nonce, Lapse(n) PROVE IInv'
  <2>1. UNCHANGED <<signed, file, config, up, restarts, accounts, req, announced, orders>>
    BY <1>4 DEF Lapse, process
  <2>2. /\ status' \in [Nonce -> {"unissued", "live", "spent", "lapsed"}]
        /\ uses' \in [Nonce -> Nat]
        /\ \A x \in Nonce : status[x] = "spent" => status'[x] = "spent"
    BY <1>1, <1>4 DEF Lapse, Nonces!Lapse, TypeOK
  <2>3. ReqInv' /\ NonceInv' /\ OrderInv'
    BY <1>1, <2>1, <2>2, Frame
  <2>4. TypeOK' /\ AccountInv'
    BY <1>1, <2>1, <2>2 DEF TypeOK, AccountInv
  <2> QED
    BY <1>1, <2>1, <2>3, <2>4 DEF IInv
<1> QED
  BY <1>2, <1>3, <1>4

\* A restart ends every request; the process runs only with a valid file.
LEMMA RestartIInv == ASSUME IInv, NEW c \in ConfigFile, Restart(c) PROVE IInv'
<1>1. /\ UNCHANGED <<status, uses, signed, accounts, announced, orders>>
      /\ restarts < MaxRestart /\ restarts' = restarts + 1
      /\ file' = c /\ config' = Load(c) /\ up' = Validate(c)
      /\ req' = [r \in Req |-> IdleReq]
  BY DEF Restart, nonces
<1>2. req' \in [Req -> ReqType] /\ \A r \in Req : req'[r].pc = "idle"
  BY <1>1, IdleFacts
<1>3. ReqInv' /\ NonceInv' /\ OrderInv'
  BY <1>1, <1>2, Frame
<1>4. restarts' \in 0 .. MaxRestart
  <2>1. MaxRestart \in Nat /\ restarts \in 0 .. MaxRestart
    BY FrontendAssumption DEF IInv, TypeOK
  <2> QED
    BY <1>1, <2>1
<1>5. up' \in BOOLEAN
  BY <1>1 DEF Validate
<1>6. TypeOK'
  BY <1>1, <1>2, <1>4, <1>5 DEF IInv, TypeOK
<1>7. AccountInv'
  BY <1>1 DEF IInv, AccountInv
<1> QED
  BY <1>1, <1>3, <1>6, <1>7 DEF IInv

\* A message arrives.
LEMMA ArriveIInv ==
    ASSUME IInv, NEW r \in Req, NEW m \in signed, NEW e \in Endpoint, Arrive(r, m, e)
    PROVE  IInv'
<1> DEFINE new == [pc |-> "consume", msg |-> m, at |-> e, order |-> NoBody]
<1>1. /\ UNCHANGED <<signed, file, config, up, restarts, accounts, announced, orders>>
      /\ up /\ req' = [req EXCEPT ![r] = new]
  BY DEF Arrive, process
<1>3. new \in ReqType /\ new.pc = "consume" /\ new.msg = m /\ new.at = e
  BY DEF ReqType, IInv, TypeOK
<1> HIDE DEF new
<1>4. /\ status' \in [Nonce -> {"unissued", "live", "spent", "lapsed"}]
      /\ uses' \in [Nonce -> Nat]
      /\ \A n \in Nonce : status[n] = "spent" => status'[n] = "spent"
  BY AttachFacts DEF IInv, Arrive
<1>5. ReqInv' /\ NonceInv' /\ OrderInv' /\ req' \in [Req -> ReqType]
  BY <1>1, <1>3, <1>4, MoveReq DEF Past
<1>6. TypeOK' /\ AccountInv'
  BY <1>1, <1>4, <1>5 DEF IInv, TypeOK, AccountInv
<1> QED
  BY <1>1, <1>5, <1>6 DEF IInv

\* What is known of a request that is open.
LEMMA OpenFacts ==
    ASSUME IInv, NEW r \in Req, req[r].pc # "idle"
    PROVE  /\ up /\ Validate(file) /\ req[r] \in ReqType
           /\ req[r].msg \in signed /\ req[r].msg \in Message /\ req[r].at \in Endpoint
           /\ req[r].msg[1] \in BodyType /\ req[r].msg[2] \in Nonce
           /\ req[r].pc \in Past => /\ req[r].msg[1].url = req[r].at
                                     /\ status[req[r].msg[2]] = "spent"
<1>1. /\ up /\ req[r].msg \in signed /\ req[r].at \in Endpoint
      /\ req[r].pc \in Past => req[r].msg[1].url = req[r].at /\ status[req[r].msg[2]] = "spent"
  BY DEF IInv, ReqInv
<1>2. req[r] \in ReqType /\ req[r].msg \in Message
  BY <1>1 DEF IInv, TypeOK
<1>3. req[r].msg[1] \in BodyType /\ req[r].msg[2] \in Nonce
  BY <1>2, FrontendAssumption DEF Message
<1> QED
  BY <1>1, <1>2, <1>3 DEF IInv

\* The nonce is spent, by this request and no other.
LEMMA ParseIInv == ASSUME IInv, NEW r \in Req, ParseAndValidateJWS(r) PROVE IInv'
<1> DEFINE m == req[r].msg
<1>1. /\ UNCHANGED <<signed, file, config, up, restarts, accounts, announced, orders>>
      /\ req[r].pc = "consume"
  BY DEF ParseAndValidateJWS, process
<1>2. /\ up /\ Validate(file) /\ req[r] \in ReqType /\ m \in signed /\ req[r].at \in Endpoint
      /\ m[2] \in Nonce
  BY <1>1, OpenFacts
<1>3. CASE m[1].url = req[r].at /\ Nonces!Spend(m[2]) /\ req' = [req EXCEPT ![r].pc = "account"]
  <2> DEFINE new == [req[r] EXCEPT !.pc = "account"]
  <2>1. req' = [req EXCEPT ![r] = new]
    BY <1>3 DEF IInv, TypeOK
  <2>2. /\ new \in ReqType /\ new.pc = "account" /\ new.msg = m /\ new.at = req[r].at
    BY <1>2 DEF ReqType
  <2>3. /\ status' \in [Nonce -> {"unissued", "live", "spent", "lapsed"}]
        /\ uses' \in [Nonce -> Nat]
        /\ \A n \in Nonce : status[n] = "spent" => status'[n] = "spent"
        /\ status[m[2]] = "live" /\ status'[m[2]] = "spent"
    BY <1>2, <1>3 DEF Nonces!Spend, IInv, TypeOK
  <2> HIDE DEF new
  <2>a. /\ new.msg \in signed /\ new.at \in Endpoint
        /\ new.pc \in Past => /\ new.msg[1].url = new.at
                               /\ status'[new.msg[2]] = "spent"
                               /\ status[new.msg[2]] # "spent"
        /\ new.pc # "save" /\ new.pc # "submit"
    BY <1>2, <1>3, <2>2, <2>3
  <2>4. ReqInv' /\ NonceInv' /\ OrderInv' /\ req' \in [Req -> ReqType]
    BY <1>1, <1>2, <2>1, <2>2, <2>3, <2>a, MoveReq
  <2>5. TypeOK' /\ AccountInv'
    BY <1>1, <2>3, <2>4 DEF IInv, TypeOK, AccountInv
  <2> QED
    BY <1>1, <1>2, <2>4, <2>5 DEF IInv
<1>4. CASE UNCHANGED nonces /\ Abort(r)
  <2>1. status' = status /\ uses' = uses
    BY <1>4 DEF nonces
  <2>2. ReqInv' /\ NonceInv' /\ OrderInv' /\ req' \in [Req -> ReqType]
    BY <1>1, <1>4, <2>1, AbortFrame
  <2>3. TypeOK' /\ AccountInv'
    BY <1>1, <2>1, <2>2 DEF IInv, TypeOK, AccountInv
  <2> QED
    BY <1>1, <1>2, <2>2, <2>3 DEF IInv
<1> QED
  BY <1>3, <1>4 DEF ParseAndValidateJWS

\* An account that is there is announced, or the request goes on to save one.
LEMMA LookUpIInv == ASSUME IInv, NEW r \in Req, LookUpAccount(r) PROVE IInv'
<1> DEFINE m == req[r].msg
           b == m[1]
<1>1. /\ UNCHANGED <<status, uses, signed, file, config, up, restarts, accounts, orders>>
      /\ req[r].pc = "account" /\ req[r].at = "new-account"
  BY DEF LookUpAccount, nonces, process
<1>2. /\ up /\ Validate(file) /\ req[r] \in ReqType /\ m \in signed /\ m \in Message
      /\ req[r].at \in Endpoint /\ b \in BodyType /\ m[2] \in Nonce
      /\ b.url = req[r].at /\ status[m[2]] = "spent"
  BY <1>1, OpenFacts DEF Past
<1>3. b.named \in Key
  BY <1>2 DEF BodyType
\* The request ends, and a key that is announced has its row.
<1>4. ASSUME Abort(r), announced' = announced \/
                         (accounts[b.named] # NoRow /\ announced' = announced \union {b.named})
      PROVE  IInv'
  <2>1. ReqInv' /\ NonceInv' /\ OrderInv' /\ req' \in [Req -> ReqType]
    BY <1>1, <1>4, AbortFrame
  <2>2. announced' \in SUBSET Key
    BY <1>3, <1>4 DEF IInv, TypeOK
  <2>3. TypeOK'
    BY <1>1, <2>1, <2>2 DEF IInv, TypeOK
  <2>4. AccountInv'
    BY <1>1, <1>4 DEF IInv, AccountInv
  <2> QED
    BY <1>1, <1>2, <2>1, <2>3, <2>4 DEF IInv
<1>5. CASE /\ VerifySignature(b, b.named) /\ req' = [req EXCEPT ![r].pc = "save"]
           /\ UNCHANGED announced
  <2> DEFINE new == [req[r] EXCEPT !.pc = "save"]
  <2>1. req' = [req EXCEPT ![r] = new]
    BY <1>5 DEF IInv, TypeOK
  <2>2. new \in ReqType /\ new.pc = "save" /\ new.msg = m /\ new.at = req[r].at
    BY <1>2 DEF ReqType
  <2> HIDE DEF new
  <2>3. /\ new.msg \in signed /\ new.at \in Endpoint /\ new.pc # "submit"
        /\ new.at = "new-account" /\ new.msg[1].signer = new.msg[1].named
        /\ new.msg[1].url = new.at /\ status'[new.msg[2]] = "spent"
        /\ req[r].pc \in Past /\ req[r].msg = new.msg
    BY <1>1, <1>2, <1>5, <2>2 DEF VerifySignature, Past
  <2>4. ReqInv' /\ NonceInv' /\ OrderInv' /\ req' \in [Req -> ReqType]
    BY <1>1, <1>2, <2>1, <2>2, <2>3, MoveReq
  <2>5. TypeOK' /\ AccountInv'
    BY <1>1, <1>5, <2>4 DEF IInv, TypeOK, AccountInv
  <2> QED
    BY <1>1, <1>2, <2>4, <2>5 DEF IInv
<1> QED
  BY <1>4, <1>5 DEF LookUpAccount

\* The row that is written is the signing key's own, whoever wrote it before.
LEMMA SaveIInv == ASSUME IInv, NEW r \in Req, SaveAccount(r) PROVE IInv'
<1> DEFINE m == req[r].msg
           b == m[1]
           row == [key |-> b.named, type |-> KeyTypeOf[b.named], contact |-> b.contact]
<1>1. /\ UNCHANGED <<status, uses, signed, file, config, up, restarts, orders>>
      /\ req[r].pc = "save" /\ Abort(r)
  BY DEF SaveAccount, nonces, process
<1>2. /\ up /\ Validate(file) /\ m \in signed /\ b \in BodyType
      /\ b.url = req[r].at
  BY <1>1, OpenFacts DEF Past
<1>3. req[r].at = "new-account" /\ b.signer = b.named
  BY <1>1 DEF IInv, ReqInv
<1>4. b.named \in Key /\ row \in AccountRow /\ row # NoRow
  <2>1. b.named \in Key /\ b.contact \in Contact /\ KeyTypeOf[b.named] \in {"RSA", "ECDSA"}
    BY <1>2, FrontendAssumption DEF BodyType
  <2>2. row \in AccountRow
    BY <2>1 DEF AccountRow
  <2>3. NoRow \notin AccountRow
    BY FrontendAssumption
  <2> HIDE DEF row
  <2> QED
    BY <2>1, <2>2, <2>3
<1>5. CASE /\ accounts' = [accounts EXCEPT ![b.named] = row]
           /\ announced' = announced \union {b.named}
  <2>1. /\ accounts' \in [Key -> AccountRow \union {NoRow}] /\ announced' \in SUBSET Key
        /\ accounts'[b.named] = row
        /\ \A k \in Key : k # b.named => accounts'[k] = accounts[k]
    BY <1>4, <1>5 DEF IInv, TypeOK
  <2>2. /\ row.key = b.named /\ row.type = KeyTypeOf[b.named] /\ row.contact = b.contact
    OBVIOUS
  <2> HIDE DEF row
  <2>3. ReqInv' /\ NonceInv' /\ OrderInv' /\ req' \in [Req -> ReqType]
    BY <1>1, <1>4, <2>1, AbortFrame
  <2>4. TypeOK'
    BY <1>1, <2>1, <2>3 DEF IInv, TypeOK
  <2>5. AccountInv'
    <3>1. ASSUME NEW k \in Key, accounts'[k] # NoRow
          PROVE  /\ accounts'[k].key = k /\ accounts'[k].type = KeyTypeOf[k]
                 /\ \E x \in signed : /\ x[1].url = "new-account" /\ x[1].signer = k
                                       /\ x[1].contact = accounts'[k].contact
      <4>1. CASE k = b.named
        BY <1>2, <1>3, <2>1, <2>2, <4>1
      <4>2. CASE k # b.named
        BY <2>1, <3>1, <4>2 DEF IInv, AccountInv
      <4> QED
        BY <4>1, <4>2
    <3>2. \A k \in announced' : accounts'[k] # NoRow
      BY <1>4, <1>5, <2>1 DEF IInv, TypeOK, AccountInv
    <3> QED
      BY <1>1, <3>1, <3>2 DEF AccountInv
  <2> QED
    BY <1>1, <1>2, <2>3, <2>4, <2>5 DEF IInv
<1>6. CASE UNCHANGED <<accounts, announced>>
  <2>1. ReqInv' /\ NonceInv' /\ OrderInv' /\ req' \in [Req -> ReqType]
    BY <1>1, <1>6, AbortFrame
  <2>2. TypeOK' /\ AccountInv'
    BY <1>1, <1>6, <2>1 DEF IInv, TypeOK, AccountInv
  <2> QED
    BY <1>1, <1>2, <2>1, <2>2 DEF IInv
<1> QED
  BY <1>5, <1>6 DEF SaveAccount

\* The order is the account's, and goes where the file says.
LEMMA RouteIInv == ASSUME IInv, NEW r \in Req, RouteOrder(r) PROVE IInv'
<1> DEFINE m == req[r].msg
           b == m[1]
           acct == accounts[b.named]
           d == Route(b, acct.type)
           o == Routed(m, d, file)
<1>1. /\ UNCHANGED <<status, uses, signed, file, config, up, restarts, accounts, announced, orders>>
      /\ req[r].pc = "account" /\ req[r].at = "new-order"
  BY DEF RouteOrder, nonces, process
<1>2. /\ up /\ Validate(file) /\ req[r] \in ReqType /\ m \in signed /\ m \in Message
      /\ req[r].at \in Endpoint /\ b \in BodyType /\ m[2] \in Nonce
      /\ b.url = req[r].at /\ status[m[2]] = "spent"
  BY <1>1, OpenFacts DEF Past
<1>3. CASE /\ acct # NoRow /\ VerifySignature(b, acct.key) /\ d.upstream # ""
           /\ req' = [req EXCEPT ![r].pc = "submit", ![r].order = o]
  <2>1. b.named \in Key /\ acct.type = KeyTypeOf[b.named] /\ b.signer = b.named
    BY <1>2, <1>3 DEF IInv, AccountInv, VerifySignature, BodyType
  <2>2. file \in ConfigFile /\ config = Load(file)
    BY DEF IInv, TypeOK
  <2>3. o = Routed(m, Route(m[1], KeyTypeOf[m[1].signer]), file)
        /\ Route(m[1], KeyTypeOf[m[1].signer]).upstream # ""
    BY <1>3, <2>1
  <2>4. o \in OrderType /\ GoesAsWritten(o)
    BY <1>2, <2>2, <2>3, RouteAsWritten
  <2>5. o.msg = m /\ o.account = b.named
    BY DEF Routed
  <2> HIDE DEF o
  <2>6. GoodOrder(o, signed, accounts)
    BY <1>1, <1>2, <1>3, <2>1, <2>4, <2>5 DEF GoodOrder
  <2> DEFINE new == [[req[r] EXCEPT !.pc = "submit"] EXCEPT !.order = o]
  <2>7. req' = [req EXCEPT ![r] = new]
    BY <1>3 DEF IInv, TypeOK, ReqType
  <2>8. /\ new \in ReqType /\ new.pc = "submit" /\ new.msg = m /\ new.at = req[r].at
        /\ new.order = o
    BY <1>2, <2>4 DEF ReqType
  <2> HIDE DEF new
  <2>9. /\ new.msg \in signed /\ new.at \in Endpoint /\ new.pc # "save"
        /\ new.msg[1].url = new.at /\ status'[new.msg[2]] = "spent"
        /\ req[r].pc \in Past /\ req[r].msg = new.msg
        /\ new.order.msg = new.msg /\ GoodOrder(new.order, signed, accounts)
    BY <1>1, <1>2, <2>5, <2>6, <2>8 DEF Past
  <2>10. ReqInv' /\ NonceInv' /\ OrderInv' /\ req' \in [Req -> ReqType]
    BY <1>1, <1>2, <2>7, <2>8, <2>9, MoveReq
  <2>11. TypeOK' /\ AccountInv'
    BY <1>1, <2>10 DEF IInv, TypeOK, AccountInv
  <2> QED
    BY <1>1, <1>2, <2>10, <2>11 DEF IInv
<1>4. CASE Abort(r)
  <2>1. ReqInv' /\ NonceInv' /\ OrderInv' /\ req' \in [Req -> ReqType]
    BY <1>1, <1>4, AbortFrame
  <2>2. TypeOK' /\ AccountInv'
    BY <1>1, <2>1 DEF IInv, TypeOK, AccountInv
  <2> QED
    BY <1>1, <1>2, <2>1, <2>2 DEF IInv
<1> QED
  BY <1>3, <1>4 DEF RouteOrder, Routed

\* The order is added; its nonce, which was this request's alone, is now the order's
\* alone.
LEMMA SubmitIInv == ASSUME IInv, NEW r \in Req, SubmitOrder(r) PROVE IInv'
<1> DEFINE o == req[r].order
<1>1. /\ UNCHANGED <<status, uses, signed, file, config, up, restarts, accounts, announced>>
      /\ req[r].pc = "submit" /\ Abort(r)
  BY DEF SubmitOrder, nonces, process
<1>2. up /\ Validate(file) /\ status[req[r].msg[2]] = "spent" /\ req[r] \in ReqType
  BY <1>1, OpenFacts DEF Past
<1>3. o.msg = req[r].msg /\ GoodOrder(o, signed, accounts)
  BY <1>1 DEF IInv, ReqInv
<1>4. CASE orders' = orders
  <2>1. ReqInv' /\ NonceInv' /\ OrderInv' /\ req' \in [Req -> ReqType]
    BY <1>1, <1>4, AbortFrame
  <2>2. TypeOK' /\ AccountInv'
    BY <1>1, <1>4, <2>1 DEF IInv, TypeOK, AccountInv
  <2> QED
    BY <1>1, <1>2, <2>1, <2>2 DEF IInv
<1>5. CASE orders' = Append(orders, o)
  <2>1. orders \in Seq(OrderType) /\ o \in OrderType
    BY <1>3 DEF IInv, TypeOK, GoodOrder
  <2> DEFINE n == Len(orders)
  <2>2. /\ orders' \in Seq(OrderType) /\ n \in Nat
        /\ DOMAIN orders = 1 .. n /\ DOMAIN orders' = 1 .. n + 1
        /\ orders'[n + 1] = o /\ \A i \in 1 .. n : orders'[i] = orders[i]
    <3> HIDE DEF o
    <3> QED
      BY <1>5, <2>1
  <2> HIDE DEF n
  <2>3. /\ n + 1 \notin DOMAIN orders
        /\ \A i \in DOMAIN orders' : i \in DOMAIN orders \/ i = n + 1
        /\ \A i \in DOMAIN orders : orders'[i] = orders[i]
    BY <2>2
  <2>4. /\ req' \in [Req -> ReqType] /\ req'[r].pc = "idle"
        /\ \A s \in Req : s # r => req'[s] = req[s]
    BY <1>1, IdleFacts DEF Abort, IInv, TypeOK
  <2>5. OrderInv'
    BY <1>1, <1>3, <2>2, <2>3 DEF IInv, OrderInv
  <2>6. ReqInv'
    <3> SUFFICES ASSUME NEW s \in Req, req'[s].pc # "idle"
                 PROVE  LET m == req'[s].msg IN
                        /\ up /\ m \in signed /\ req'[s].at \in Endpoint
                        /\ req'[s].pc \in Past => m[1].url = req'[s].at /\ status[m[2]] = "spent"
                        /\ req'[s].pc = "save" =>
                              req'[s].at = "new-account" /\ m[1].signer = m[1].named
                        /\ req'[s].pc = "submit" => /\ req'[s].order.msg = m
                                                    /\ GoodOrder(req'[s].order, signed, accounts)
      BY <1>1 DEF ReqInv
    <3>1. req'[s] = req[s]
      BY <2>4
    <3> QED
      BY <3>1 DEF IInv, ReqInv
  <2>7. NonceInv'
    <3>1. \A s \in Req : req'[s].pc \in Past =>
             s # r /\ req'[s] = req[s] /\ req[s].msg[2] # o.msg[2]
      BY <1>1, <1>3, <2>4 DEF IInv, NonceInv, Past
    <3>2. \A i \in DOMAIN orders : orders[i].msg[2] # o.msg[2]
      BY <1>1, <1>3 DEF IInv, NonceInv, Past
    <3> HIDE DEF o
    <3>3. ASSUME NEW i \in DOMAIN orders'
          PROVE  /\ status'[orders'[i].msg[2]] = "spent"
                 /\ \A s \in Req : req'[s].pc \in Past => req'[s].msg[2] # orders'[i].msg[2]
      <4>1. CASE i \in DOMAIN orders
        <5>1. orders'[i] = orders[i]
          BY <2>3, <4>1
        <5> QED
          BY <1>1, <3>1, <4>1, <5>1 DEF IInv, NonceInv
      <4>2. CASE i = n + 1
        BY <1>1, <1>2, <1>3, <2>2, <3>1, <4>2
      <4> QED
        BY <2>3, <4>1, <4>2
    <3>4. ASSUME NEW s \in Req, NEW t \in Req, req'[s].pc \in Past, req'[t].pc \in Past,
                 req'[s].msg[2] = req'[t].msg[2]
          PROVE  s = t
      <4>1. req'[s] = req[s] /\ req'[t] = req[t]
        BY <3>1, <3>4
      <4> QED
        BY <3>4, <4>1 DEF IInv, NonceInv
    <3>5. ASSUME NEW i \in DOMAIN orders', NEW j \in DOMAIN orders',
                 orders'[i].msg[2] = orders'[j].msg[2]
          PROVE  i = j
      <4>1. CASE i \in DOMAIN orders /\ j \in DOMAIN orders
        <5>1. orders'[i] = orders[i] /\ orders'[j] = orders[j]
          BY <2>3, <4>1
        <5> QED
          BY <3>5, <4>1, <5>1 DEF IInv, NonceInv, SignedOnceActsOnce
      <4>2. CASE i \in DOMAIN orders /\ j = n + 1
        BY <2>2, <2>3, <3>2, <3>5, <4>2
      <4>3. CASE i = n + 1 /\ j \in DOMAIN orders
        BY <2>2, <2>3, <3>2, <3>5, <4>3
      <4> QED
        BY <2>3, <4>1, <4>2, <4>3
    <3>6. SignedOnceActsOnce'
      BY <3>5 DEF SignedOnceActsOnce
    <3> QED
      BY <3>3, <3>4, <3>6 DEF NonceInv
  <2>8. TypeOK' /\ AccountInv'
    BY <1>1, <2>2, <2>4 DEF IInv, TypeOK, AccountInv
  <2> QED
    BY <1>1, <1>2, <2>5, <2>6, <2>7, <2>8 DEF IInv
<1> QED
  BY <1>4, <1>5 DEF SubmitOrder

\* Every step keeps the inductive invariant.
LEMMA NextIInv == IInv /\ [Next]_vars => IInv'
<1> SUFFICES ASSUME IInv, [Next]_vars PROVE IInv'
  OBVIOUS
<1>1. CASE UNCHANGED vars
  <2>1. UNCHANGED <<status, uses, signed, file, config, up, restarts, accounts, req, announced,
                    orders>>
    BY <1>1 DEF vars, nonces, process
  <2> QED
    BY <2>1 DEF IInv, TypeOK, ReqInv, NonceInv, SignedOnceActsOnce, AccountInv, OrderInv
<1>2. CASE Next
  BY <1>2, EnvironmentIInv, RestartIInv, ArriveIInv, ParseIInv, LookUpIInv, SaveIInv, RouteIInv,
     SubmitIInv DEF Next
<1> QED
  BY <1>1, <1>2

\* The inductive invariant holds in every reachable state.
THEOREM Invariance == Spec => []IInv
  BY InitIInv, NextIInv, PTL DEF Spec

\* Every variable keeps its type; what is loaded is the normalised file.
THEOREM TypeCorrect == Spec => []TypeOK
<1>1. IInv => TypeOK
  BY DEF IInv
<1> QED
  BY <1>1, Invariance, PTL

\* However often the network delivers whatever was signed with a nonce, to however many
\* concurrent requests, at most one order is submitted for it.
THEOREM ActsOnce == Spec => []SignedOnceActsOnce
<1>1. IInv => SignedOnceActsOnce
  BY DEF IInv, NonceInv
<1> QED
  BY <1>1, Invariance, PTL

\* Orders and accounts exist only on the strength of their own key's signature.
THEOREM Authentic == Spec => []OrderIsAuthentic
<1>1. IInv => OrderIsAuthentic
  BY DEF IInv, OrderInv, AccountInv, GoodOrder, OrderIsAuthentic
<1> QED
  BY <1>1, Invariance, PTL

\* An account URL stays good, whatever is looked up, replaced or fails meanwhile.
THEOREM AccountsResolve == Spec => []AnnouncedAccountResolves
<1>1. IInv => AnnouncedAccountResolves
  BY DEF IInv, TypeOK, AccountInv, AnnouncedAccountResolves
<1> QED
  BY <1>1, Invariance, PTL

\* For any configuration file, any rules in any order and any client, an order goes
\* where the file says.
THEOREM RoutesAsWritten == Spec => []RoutedAsWritten
<1>1. IInv => RoutedAsWritten
  BY DEF IInv, OrderInv, GoodOrder, RoutedAsWritten
<1> QED
  BY <1>1, Invariance, PTL
=============================================================================
