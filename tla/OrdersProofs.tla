---------------------------- MODULE OrdersProofs ----------------------------
(***************************************************************************)
(* Proofs about Orders for any accounts, orders, authorizations, requests, *)
(* key types and restarts.                                                 *)
(***************************************************************************)
EXTENDS Orders, TLAPS

\* The CA has made the order.
Created(o) == ca[o].acct \in Account

\* What handleNewOrder maps before it answers.
Whole(o) == {FinalizeURL(o)} \union {AuthzURL(z) : z \in ca[o].authz}

\* The map that the rows make up, without the fingerprints.
Mapped == {[order |-> row.order, url |-> row.url, id |-> row.id] : row \in res}

HasLink(o, u) == \E l \in Mapped : l.order = o /\ l.url = u

\* URLs of one order alone, and those that are mapped when they are first seen.
OwnKind == {"finalize", "cert", "alternate"}
LateKind == {"cert", "alternate", "challenge"}

\* An order is stored as the CA made it and as it was routed.
OrderInv ==
    /\ \A o \in Order : Saved(o) =>
          Created(o) /\ orders[o].acct = ca[o].acct /\ orders[o].csr = ca[o].rule
    /\ \A o \in announced : Created(o)
    /\ \A p \in csrs : Created(p[1])

\* A row belongs to a stored order, and an ID to one row.  Only a certificate has a
\* fingerprint.
MapInv ==
    /\ \A l \in Mapped : l.id < nextId /\ Saved(l.order)
                         /\ (l.url[1] \in OwnKind => l.url[2] = l.order)
    /\ \A l, m \in Mapped : l.id = m.id => l = m
    /\ \A row \in res : row.fp => row.url[1] \in {"cert", "alternate"}

\* new-order has mapped what it no longer has to map, and nobody else has mapped the
\* rest.
NewOrderOK(q) ==
    /\ q.pc \in {"saveOrder", "saveResource", "map"}
    /\ q.pc = "map" => q.todo = {}
    /\ q.todo \subseteq Whole(q.order)
    /\ \A u \in Whole(q.order) : u \in q.todo <=> ~HasLink(q.order, u)

\* The others map certificates and challenges; an order response, its certificate.
LateURLs(op, o, T) ==
    /\ \A u \in T : u[1] \in LateKind /\ (u[1] \in OwnKind => u[2] = o)
    /\ op = "order" => T \subseteq {CertURL(o)}

LookupOK(q) ==
    /\ q.pc \notin {"saveOrder", "saveResource"}
    /\ LateURLs(q.op, q.order, q.todo)

\* A request is about an order of the CA, stored once it is past its SaveOrder, and
\* the links of its response resolve already.
ReqOK(q) ==
    q.pc # "idle" =>
        /\ q.order \in Order
        /\ Created(q.order)
        /\ IF q.pc = "saveOrder" THEN ca[q.order].rule = rule ELSE Saved(q.order)
        /\ IF q.op = "new" THEN NewOrderOK(q) ELSE LookupOK(q)
        /\ q.links \subseteq {l \in Mapped : l.order = q.order}
        /\ q.pc = "fingerprint" => \A l \in q.links : l.url[1] \in {"cert", "alternate"}

\* An order is made by one request.
OneMaker ==
    \A r, s \in Req :
        /\ req[r].op = "new" /\ req[s].op = "new" /\ req[r].order = req[s].order
        /\ req[r].pc # "idle" /\ req[s].pc # "idle"
        => r = s

\* What clients hold is in the map.
ClientInv ==
    /\ handed \subseteq Mapped
    /\ \A o \in announced : Saved(o) /\ \A u \in Whole(o) : HasLink(o, u)

IInv ==
    /\ TypeOK
    /\ OrderInv
    /\ MapInv
    /\ \A r \in Req : ReqOK(req[r])
    /\ OneMaker
    /\ ClientInv
    /\ RuleOutlivesConfig

-----------------------------------------------------------------------------
(* Types *)

\* The URLs of orders and authorizations are URLs, of their kinds.
LEMMA URLs ==
    /\ \A o \in Order : /\ {FinalizeURL(o), CertURL(o), AlternateURL(o)} \subseteq URL
                        /\ FinalizeURL(o)[1] = "finalize" /\ FinalizeURL(o)[2] = o
                        /\ CertURL(o)[1] = "cert" /\ CertURL(o)[2] = o
                        /\ AlternateURL(o)[1] = "alternate" /\ AlternateURL(o)[2] = o
    /\ \A z \in Authz : /\ {AuthzURL(z), ChallengeURL(z)} \subseteq URL
                        /\ AuthzURL(z)[1] = "authz"
                        /\ ChallengeURL(z)[1] = "challenge"
  BY DEF URL, FinalizeURL, CertURL, AlternateURL, AuthzURL, ChallengeURL

\* What a URL is about.
LEMMA URLParts ==
    ASSUME NEW u \in URL
    PROVE  /\ u[1] \in OwnKind => u[2] \in Order
           /\ u[1] \in {"authz", "challenge"} => u[2] \in Authz
  BY DEF URL, OwnKind

\* The map has one link for each row.
LEMMA MappedType ==
    ASSUME TypeOK
    PROVE  /\ Mapped \subseteq Link
           /\ \A row \in res : [order |-> row.order, url |-> row.url, id |-> row.id] \in Mapped
  BY DEF TypeOK, Mapped, Link, Row

\* What a request is reset to is well typed.
LEMMA IdleType == IdleReq \in ReqType
  BY DEF IdleReq, ReqType

\* Empty tables are well typed.
LEMMA InitType ==
    ASSUME Init
    PROVE  TypeOK
  <1>1. NoRecord \in [acct : Account \union {NoAccount}, status : Status \union {"none"},
                      csr : KeyType \union {AnyKey}]
    BY DEF NoRecord
  <1>2. NoUpstream \in [acct : Account \union {NoAccount}, status : Status \union {"none"},
                        authz : SUBSET Authz, rule : KeyType \union {AnyKey}]
    BY DEF NoUpstream
  <1>3. /\ orders \in [Order -> [acct : Account \union {NoAccount},
                                 status : Status \union {"none"},
                                 csr : KeyType \union {AnyKey}]]
        /\ ca \in [Order -> [acct : Account \union {NoAccount}, status : Status \union {"none"},
                             authz : SUBSET Authz, rule : KeyType \union {AnyKey}]]
        /\ req \in [Req -> ReqType]
    BY <1>1, <1>2, IdleType DEF Init
  <1> QED
    BY <1>3 DEF Init, TypeOK

\* INSERT OR IGNORE: the map is left alone, or gets one entry under a new ID.
LEMMA Inserted ==
    ASSUME TypeOK, NEW o \in Order, NEW u \in URL, Insert(o, u)
    PROVE  LET new == [id |-> nextId, order |-> o, url |-> u, fp |-> FALSE] IN
           /\ res' \in SUBSET Row
           /\ nextId' \in Nat
           /\ \/ /\ res' = res /\ nextId' = nextId /\ HasLink(o, u)
              \/ /\ res' = res \union {new} /\ nextId' = nextId + 1
                 /\ Mapped' = Mapped \union {[order |-> o, url |-> u, id |-> nextId]}
                 /\ ~HasLink(o, u)
  <1> DEFINE new == [id |-> nextId, order |-> o, url |-> u, fp |-> FALSE]
  <1>0. new \in Row
    BY DEF TypeOK, Row
  <1>1. HasLink(o, u) <=> \E row \in res : row.order = o /\ row.url = u
    <2>1. ASSUME NEW row \in res, row.order = o, row.url = u
          PROVE  HasLink(o, u)
      BY <2>1, MappedType DEF HasLink
    <2>2. ASSUME NEW l \in Mapped, l.order = o, l.url = u
          PROVE  \E row \in res : row.order = o /\ row.url = u
      <3>1. PICK row \in res : l = [order |-> row.order, url |-> row.url, id |-> row.id]
        BY DEF Mapped
      <3> QED
        BY <2>2, <3>1
    <2> QED
      BY <2>1, <2>2 DEF HasLink
  <1>2. CASE HasLink(o, u)
    BY <1>1, <1>2 DEF Insert, TypeOK
  <1>3. CASE ~HasLink(o, u)
    <2>1. res' = res \union {new} /\ nextId' = nextId + 1
      BY <1>1, <1>3 DEF Insert
    <2>2. Mapped' = Mapped \union {[order |-> o, url |-> u, id |-> nextId]}
      <3> DEFINE g(row) == [order |-> row.order, url |-> row.url, id |-> row.id]
      <3>1. g(new) = [order |-> o, url |-> u, id |-> nextId]
        OBVIOUS
      <3>2. Mapped' = {g(row) : row \in res \union {new}} /\ Mapped = {g(row) : row \in res}
        BY <2>1 DEF Mapped
      <3> HIDE DEF g, new
      <3> QED
        BY <3>1, <3>2
    <2>3. res' \in SUBSET Row
      BY <1>0, <2>1 DEF TypeOK
    <2>4. nextId' \in Nat
      BY <2>1 DEF TypeOK
    <2> QED
      BY <1>3, <2>1, <2>2, <2>3, <2>4
  <1> QED
    BY <1>2, <1>3

\* UpdateResourceCertFingerprint leaves the map as it is.
LEMMA Fingerprinted ==
    ASSUME TypeOK, NEW ids, SetFingerprint(ids)
    PROVE  /\ res' \in SUBSET Row
           /\ Mapped' = Mapped
           /\ \A row \in res' : \/ row \in res
                                \/ row.id \in ids /\ \E old \in res : old.id = row.id /\ old.url = row.url
           /\ \A old \in res : \E row \in res' : /\ row.id = old.id /\ row.order = old.order
                                                 /\ row.url = old.url /\ (old.fp => row.fp)
  <1> DEFINE f(row) == IF row.id \in ids THEN [row EXCEPT !.fp = TRUE] ELSE row
  <1>1. res' = {f(row) : row \in res}
    BY DEF SetFingerprint
  <1>2. ASSUME NEW row \in res
        PROVE  /\ f(row) \in Row
               /\ f(row).id = row.id /\ f(row).order = row.order /\ f(row).url = row.url
               /\ row.fp => f(row).fp
               /\ f(row) = row \/ row.id \in ids
    BY DEF TypeOK, Row
  <1> HIDE DEF f
  <1>3. res' \in SUBSET Row
    BY <1>1, <1>2
  <1>4. Mapped' = Mapped
    <2>1. Mapped' = {[order |-> row.order, url |-> row.url, id |-> row.id] : row \in {f(row) : row \in res}}
      BY <1>1 DEF Mapped
    <2> QED
      BY <1>2, <2>1 DEF Mapped
  <1> QED
    BY <1>1, <1>2, <1>3, <1>4

\* A step of a request changes the request's own record alone.
LEMMA ReqChange ==
    ASSUME TypeOK, NEW r \in Req, NEW q \in ReqType, req' = [req EXCEPT ![r] = q]
    PROVE  req' \in [Req -> ReqType] /\ req'[r] = q /\ \A s \in Req \ {r} : req'[s] = req[s]
  BY DEF TypeOK

\* The request goes on: its order stays, the rest is given.
Becomes(r, p, T, L) ==
    /\ req' \in [Req -> ReqType]
    /\ \A s \in Req \ {r} : req'[s] = req[s]
    /\ req'[r].op = req[r].op /\ req'[r].order = req[r].order
    /\ req'[r].pc = p /\ req'[r].todo = T /\ req'[r].links = L

\* A request that only goes on keeps what it has to map and its links.
LEMMA GoesTo ==
    ASSUME TypeOK, NEW r \in Req, NEW p \in {"saveResource", "build", "map", "save", "reread"},
           req' = [req EXCEPT ![r].pc = p]
    PROVE  Becomes(r, p, req[r].todo, req[r].links)
  <1>1. req[r] \in ReqType /\ req[r].todo \in SUBSET URL /\ req[r].links \in SUBSET Link
    BY DEF TypeOK, ReqType
  <1>2. req' = [req EXCEPT ![r] = [req[r] EXCEPT !.pc = p]]
    OBVIOUS
  <1> DEFINE q == [req[r] EXCEPT !.pc = p]
  <1>3. q \in ReqType /\ q.op = req[r].op /\ q.order = req[r].order
        /\ q.pc = p /\ q.todo = req[r].todo /\ q.links = req[r].links
    BY <1>1 DEF ReqType
  <1> HIDE DEF q
  <1>4. req' = [req EXCEPT ![r] = q]
    BY <1>2 DEF q
  <1> QED
    BY <1>3, <1>4, ReqChange DEF Becomes

\* A poll that has the CA's answer has nothing else changed.
LEMMA Fetches ==
    ASSUME TypeOK, NEW r \in Req, FetchOrder(r), ~Abort(r), req[r].order \in Order
    PROVE  \E q \in ReqType : /\ req' = [req EXCEPT ![r] = q]
                              /\ req' \in [Req -> ReqType]
                              /\ q.op = req[r].op /\ q.order = req[r].order
                              /\ q.pc \in {"update", "build"}
                              /\ q.todo = req[r].todo /\ q.links = req[r].links
  <1> DEFINE st == OrderStatus(req[r].order)
             p == IF st # req[r].seen THEN "update" ELSE "build"
             q == [req[r] EXCEPT !.seen = st, !.pc = p]
  <1>1. req[r] \in ReqType
    BY DEF TypeOK
  <1>2. st \in Status \union {"none"}
    BY DEF TypeOK, OrderStatus, Status
  <1>3. p \in {"update", "build"}
    OBVIOUS
  <1>4. req' = [req EXCEPT ![r].seen = st, ![r].pc = p]
    BY DEF FetchOrder
  <1> HIDE DEF st, p
  <1>5. q \in ReqType /\ q.op = req[r].op /\ q.order = req[r].order
        /\ q.pc = p /\ q.todo = req[r].todo /\ q.links = req[r].links
    BY <1>1, <1>2, <1>3 DEF ReqType
  <1>6. req' = [req EXCEPT ![r] = q]
    BY <1>4
  <1> HIDE DEF q
  <1> QED
    BY <1>3, <1>5, <1>6, ReqChange DEF TypeOK

\* A request that gives up on a URL has nothing left to map.
LEMMA GivesUp ==
    ASSUME TypeOK, NEW r \in Req, req' = [req EXCEPT ![r].todo = {}, ![r].pc = "map"]
    PROVE  Becomes(r, "map", {}, req[r].links)
  <1>1. req[r] \in ReqType /\ {} \in SUBSET URL /\ req[r].links \in SUBSET Link
    BY DEF TypeOK, ReqType
  <1>2. req' = [req EXCEPT ![r] = [req[r] EXCEPT !.todo = {}, !.pc = "map"]]
    BY DEF TypeOK
  <1> DEFINE q == [req[r] EXCEPT !.todo = {}, !.pc = "map"]
  <1>3. q \in ReqType /\ q.op = req[r].op /\ q.order = req[r].order
        /\ q.pc = "map" /\ q.todo = {} /\ q.links = req[r].links
    BY <1>1 DEF ReqType
  <1> HIDE DEF q
  <1>4. req' = [req EXCEPT ![r] = q]
    BY <1>2 DEF q
  <1> QED
    BY <1>3, <1>4, ReqChange DEF Becomes

\* A request that builds a response has its links and what is left to map.
LEMMA BuildsLinks ==
    ASSUME TypeOK, NEW r \in Req, NEW T \in SUBSET URL, NEW L \in SUBSET Link,
           req' = [req EXCEPT ![r].links = L, ![r].todo = T, ![r].seen = "none", ![r].pc = "map"]
    PROVE  Becomes(r, "map", T, L)
  <1>1. req[r] \in ReqType
    BY DEF TypeOK
  <1>2. req' = [req EXCEPT ![r] = [req[r] EXCEPT !.links = L, !.todo = T, !.seen = "none", !.pc = "map"]]
    BY DEF TypeOK
  <1> DEFINE q == [req[r] EXCEPT !.links = L, !.todo = T, !.seen = "none", !.pc = "map"]
  <1>3. q \in ReqType /\ q.op = req[r].op /\ q.order = req[r].order
        /\ q.pc = "map" /\ q.todo = T /\ q.links = L
    BY <1>1 DEF ReqType
  <1> HIDE DEF q
  <1>4. req' = [req EXCEPT ![r] = q]
    BY <1>2 DEF q
  <1> QED
    BY <1>3, <1>4, ReqChange DEF Becomes

\* A row that was found or read back becomes a link of the response.
LEMMA UsesRow ==
    ASSUME TypeOK, NEW r \in Req, NEW row \in res, req[r].order \in Order, Use(r, row)
    PROVE  Becomes(r, "map", {}, req[r].links \union
                                 {[order |-> req[r].order, url |-> row.url, id |-> row.id]})
  <1> DEFINE L == req[r].links \union {[order |-> req[r].order, url |-> row.url, id |-> row.id]}
  <1>1. req[r] \in ReqType /\ L \in SUBSET Link
    BY DEF TypeOK, ReqType, Row, Link
  <1>2. req' = [req EXCEPT ![r] = [req[r] EXCEPT !.links = L, !.todo = {}, !.pc = "map"]]
    BY DEF TypeOK, Use
  <1> DEFINE q == [req[r] EXCEPT !.links = L, !.todo = {}, !.pc = "map"]
  <1>3. q \in ReqType /\ q.op = req[r].op /\ q.order = req[r].order
        /\ q.pc = "map" /\ q.todo = {} /\ q.links = L
    BY <1>1 DEF ReqType
  <1> HIDE DEF q
  <1>4. req' = [req EXCEPT ![r] = q]
    BY <1>2 DEF q
  <1> QED
    BY <1>3, <1>4, ReqChange DEF Becomes

\* A URL of the new order is mapped.
LEMMA MapsURL ==
    ASSUME TypeOK, NEW r \in Req, NEW u \in req[r].todo, NEW l \in Link, req[r].pc = "saveResource",
           req' = [req EXCEPT ![r].todo = @ \ {u}, ![r].links = @ \union {l},
                              ![r].pc = IF req[r].todo = {u} THEN "map" ELSE @]
    PROVE  Becomes(r, IF req[r].todo = {u} THEN "map" ELSE "saveResource",
                   req[r].todo \ {u}, req[r].links \union {l})
  <1> DEFINE T == req[r].todo \ {u}
             L == req[r].links \union {l}
             p == IF req[r].todo = {u} THEN "map" ELSE "saveResource"
  <1>1. req[r] \in ReqType /\ T \in SUBSET URL /\ L \in SUBSET Link
    BY DEF TypeOK, ReqType
  <1>2. req' = [req EXCEPT ![r] = [req[r] EXCEPT !.todo = T, !.links = L, !.pc = p]]
    BY DEF TypeOK, ReqType
  <1>3. p \in {"map", "saveResource"}
    OBVIOUS
  <1> HIDE DEF T, L, p
  <1> DEFINE q == [req[r] EXCEPT !.todo = T, !.links = L, !.pc = p]
  <1>4. q \in ReqType /\ q.op = req[r].op /\ q.order = req[r].order
        /\ q.pc = p /\ q.todo = T /\ q.links = L
    BY <1>1, <1>3 DEF ReqType
  <1> HIDE DEF q
  <1>5. req' = [req EXCEPT ![r] = q]
    BY <1>2 DEF q
  <1>6. Becomes(r, p, T, L)
    BY <1>4, <1>5, ReqChange DEF Becomes
  <1> QED
    BY <1>6 DEF T, L, p

OrderType == [acct : Account \union {NoAccount}, status : Status \union {"none"},
              csr : KeyType \union {AnyKey}]

UpstreamType == [acct : Account \union {NoAccount}, status : Status \union {"none"},
                 authz : SUBSET Authz, rule : KeyType \union {AnyKey}]

\* A status is changed and nothing else of the order.
LEMMA StatusChange ==
    ASSUME TypeOK, NEW o \in Order, NEW st \in Status \union {"none"}
    PROVE  /\ ca' = [ca EXCEPT ![o].status = st] =>
                 /\ ca' \in [Order -> UpstreamType]
                 /\ \A p \in Order : ca'[p].acct = ca[p].acct /\ ca'[p].rule = ca[p].rule
                                     /\ ca'[p].authz = ca[p].authz
           /\ SetStatus(o, st) =>
                 /\ orders' \in [Order -> OrderType]
                 /\ \A p \in Order : orders'[p].acct = orders[p].acct /\ orders'[p].csr = orders[p].csr
  <1>1. ASSUME ca' = [ca EXCEPT ![o].status = st]
        PROVE  /\ ca' \in [Order -> UpstreamType]
               /\ \A p \in Order : ca'[p].acct = ca[p].acct /\ ca'[p].rule = ca[p].rule
                                   /\ ca'[p].authz = ca[p].authz
    <2>1. ca \in [Order -> UpstreamType]
      BY DEF TypeOK, UpstreamType
    <2>2. ca' = [ca EXCEPT ![o] = [ca[o] EXCEPT !.status = st]]
      BY <1>1
    <2>3. [ca[o] EXCEPT !.status = st] \in UpstreamType
      BY <2>1 DEF UpstreamType
    <2>4. [ca[o] EXCEPT !.status = st].acct = ca[o].acct /\ [ca[o] EXCEPT !.status = st].rule = ca[o].rule
          /\ [ca[o] EXCEPT !.status = st].authz = ca[o].authz
      BY <2>1 DEF UpstreamType
    <2> QED
      BY <2>1, <2>2, <2>3, <2>4
  <1>2. ASSUME SetStatus(o, st)
        PROVE  /\ orders' \in [Order -> OrderType]
               /\ \A p \in Order : orders'[p].acct = orders[p].acct /\ orders'[p].csr = orders[p].csr
    <2>1. orders \in [Order -> OrderType]
      BY DEF TypeOK, OrderType
    <2>2. orders' = [orders EXCEPT ![o] = [orders[o] EXCEPT !.status = st]]
      BY <1>2 DEF SetStatus
    <2>3. [orders[o] EXCEPT !.status = st] \in OrderType
      BY <2>1 DEF OrderType
    <2>4. [orders[o] EXCEPT !.status = st].acct = orders[o].acct /\ [orders[o] EXCEPT !.status = st].csr = orders[o].csr
      BY <2>1 DEF OrderType
    <2> QED
      BY <2>1, <2>2, <2>3, <2>4
  <1> QED
    BY <1>1, <1>2

\* Every step keeps the types.
LEMMA StepType ==
    ASSUME TypeOK, \A r \in Req : ReqOK(req[r]), [Next]_vars
    PROVE  TypeOK'
  <1>0. ASSUME NEW r \in Req, Abort(r)
        PROVE  req' \in [Req -> ReqType]
    BY <1>0, IdleType DEF Abort, TypeOK
  <1>1. ASSUME NEW r \in Req, NEW a \in Account, NEW o \in Order, SubmitOrder(r, a, o)
        PROVE  TypeOK'
    <2>1. PICK Z \in (SUBSET Authz) \ {{}}, status \in {"pending", "ready"} :
             /\ CreateOrder(o, a, Z, status)
             /\ req' = [req EXCEPT ![r] =
                          [IdleReq EXCEPT !.pc = "saveOrder", !.op = "new", !.order = o,
                                          !.seen = status,
                                          !.todo = {FinalizeURL(o)} \union
                                                   {AuthzURL(z) : z \in Z}]]
      BY <1>1 DEF SubmitOrder
    <2>2. {FinalizeURL(o)} \union {AuthzURL(z) : z \in Z} \in SUBSET URL
      BY URLs
    <2>3. req' \in [Req -> ReqType]
      BY <2>1, <2>2 DEF TypeOK, ReqType, IdleReq, Status
    <2>4. ca' \in [Order -> [acct : Account \union {NoAccount}, status : Status \union {"none"},
                             authz : SUBSET Authz, rule : KeyType \union {AnyKey}]]
      BY <2>1 DEF CreateOrder, TypeOK, Status
    <2> QED
      BY <1>1, <2>3, <2>4 DEF SubmitOrder, TypeOK, db, ghosts
  <1>2. ASSUME NEW r \in Req, SaveOrder(r)
        PROVE  TypeOK'
    <2>1. req[r].order \in Order
      BY <1>2 DEF SaveOrder, ReqOK
    <2>2. req' \in [Req -> ReqType]
      BY <1>0, <1>2, GoesTo DEF SaveOrder, Becomes
    <2>3. orders' \in [Order -> OrderType]
      BY <1>2, <2>1 DEF SaveOrder, TypeOK, ReqType, OrderType
    <2> QED
      BY <1>2, <2>2, <2>3 DEF SaveOrder, TypeOK, OrderType, ghosts
  <1>3. ASSUME NEW r \in Req, SaveOrderResource(r)
        PROVE  TypeOK'
    <2>1. req[r].order \in Order
      BY <1>3 DEF SaveOrderResource, ReqOK
    <2>2. CASE Abort(r) /\ UNCHANGED <<res, nextId>>
      BY <1>0, <1>3, <2>2 DEF SaveOrderResource, TypeOK, ghosts
    <2>3. ASSUME NEW u \in req[r].todo, Insert(req[r].order, u),
                 req' = [req EXCEPT ![r].todo = @ \ {u},
                           ![r].links = @ \union {[order |-> req[r].order, url |-> u, id |-> nextId]},
                           ![r].pc = IF req[r].todo = {u} THEN "map" ELSE @]
          PROVE  TypeOK'
      <3>1. u \in URL
        BY DEF TypeOK, ReqType
      <3>2. res' \in SUBSET Row /\ nextId' \in Nat
        BY <2>1, <2>3, <3>1, Inserted
      <3>3. [order |-> req[r].order, url |-> u, id |-> nextId] \in Link
        BY <2>1, <3>1 DEF TypeOK, Link
      <3>4. req' \in [Req -> ReqType]
        BY <1>3, <2>3, <3>3, MapsURL DEF SaveOrderResource, Becomes
      <3> QED
        BY <1>3, <3>2, <3>4 DEF SaveOrderResource, TypeOK, ghosts
    <2> QED
      BY <1>3, <2>2, <2>3 DEF SaveOrderResource
  <1>4. ASSUME NEW r \in Req, NEW o \in Order, PollOrder(r, o)
        PROVE  TypeOK'
    <2>1. req' \in [Req -> ReqType]
      BY <1>4 DEF PollOrder, TypeOK, ReqType, IdleReq
    <2> QED
      BY <1>4, <2>1 DEF PollOrder, TypeOK, db, ghosts
  <1>22. ASSUME NEW r \in Req, FetchOrder(r)
         PROVE  TypeOK'
    <2>1. req[r].order \in Order
      BY <1>22 DEF FetchOrder, ReqOK
    <2>2. req' \in [Req -> ReqType]
      BY <1>0, <1>22, <2>1, Fetches
    <2> QED
      BY <1>22, <2>2 DEF FetchOrder, TypeOK, db, ghosts
  <1>5. ASSUME NEW r \in Req, UpdateOrderStatus(r)
        PROVE  TypeOK'
    <2>1. req' \in [Req -> ReqType]
      BY <1>5, GoesTo DEF UpdateOrderStatus, Becomes
    <2>2. req[r].order \in Order /\ req[r].seen \in Status \union {"none"}
      BY <1>5 DEF UpdateOrderStatus, ReqOK, TypeOK, ReqType
    <2>3. orders' \in [Order -> OrderType]
      BY <1>5, <2>2, StatusChange DEF UpdateOrderStatus, TypeOK, OrderType
    <2> QED
      BY <1>5, <2>1, <2>3 DEF UpdateOrderStatus, TypeOK, OrderType, ghosts
  <1>6. ASSUME NEW r \in Req, RejectFinalize(r)
        PROVE  TypeOK'
    <2>0. req[r].order \in Order
      BY <1>6 DEF RejectFinalize, ReqOK
    <2>1. req' \in [Req -> ReqType]
      BY <1>0, <1>6 DEF RejectFinalize
    <2>2. orders' \in [Order -> OrderType]
      BY <1>6, <2>0, StatusChange DEF RejectFinalize, TypeOK, OrderType, Status
    <2>3. refused' \in SUBSET Order
      BY <1>6, <2>0 DEF RejectFinalize, TypeOK, Status
    <2> QED
      BY <1>6, <2>1, <2>2, <2>3 DEF RejectFinalize, TypeOK, OrderType
  <1>7. ASSUME NEW r \in Req, BuildOrderResponse(r)
        PROVE  TypeOK'
    <2>0. req[r].order \in Order
      BY <1>7 DEF BuildOrderResponse, ReqOK
    <2>1. ASSUME NEW rows \in SUBSET res,
                 req' = [req EXCEPT ![r].links = {[order |-> req[r].order, url |-> row.url, id |-> row.id] :
                                                     row \in rows},
                                    ![r].todo = IF req[r].seen = "valid" THEN {CertURL(req[r].order)} ELSE {},
                                    ![r].seen = "none", ![r].pc = "map"]
          PROVE  req' \in [Req -> ReqType]
      <3>1. {[order |-> req[r].order, url |-> row.url, id |-> row.id] : row \in rows} \in SUBSET Link
        BY <2>0 DEF TypeOK, Row, Link
      <3>2. {CertURL(req[r].order)} \in SUBSET URL
        BY <2>0, URLs
      <3> QED
        BY <2>1, <3>1, <3>2, BuildsLinks DEF Becomes
    <2>2. \A o \in Order : ByUpstreamURL(FinalizeURL(o)) \in SUBSET res /\ AuthzResources(o) \in SUBSET res
      BY DEF ByUpstreamURL, AuthzResources
    <2>3. req' \in [Req -> ReqType]
      BY <1>0, <1>7, <2>0, <2>1, <2>2 DEF BuildOrderResponse
    <2> QED
      BY <1>7, <2>3 DEF BuildOrderResponse, TypeOK, db, ghosts
  <1>8. ASSUME NEW r \in Req, NEW row \in res, HandleAuthz(r, row)
        PROVE  TypeOK'
    <2>1. row.order \in Order /\ row.url \in URL
      BY DEF TypeOK, Row
    <2>2. ChallengesOf(row.url) \in SUBSET URL
      BY <1>8, <2>1, URLParts, URLs DEF ChallengesOf, HandleAuthz
    <2>3. req' \in [Req -> ReqType]
      BY <1>8, <2>1, <2>2 DEF HandleAuthz, TypeOK, ReqType, IdleReq
    <2> QED
      BY <1>8, <2>3 DEF HandleAuthz, TypeOK, db, ghosts
  <1>9. ASSUME NEW r \in Req, NEW row \in res, HandleCert(r, row)
        PROVE  TypeOK'
    <2>1. row.order \in Order /\ row.url \in URL /\ row.id \in Nat
      BY DEF TypeOK, Row
    <2>2. AlternatesOf(row.url) \in SUBSET URL
      BY <1>9, <2>1, URLParts, URLs DEF AlternatesOf, HandleCert, OwnKind
    <2>3. [order |-> row.order, url |-> row.url, id |-> row.id] \in Link
      BY <2>1 DEF Link
    <2>4. req' \in [Req -> ReqType]
      BY <1>9, <2>1, <2>2, <2>3 DEF HandleCert, TypeOK, ReqType, IdleReq
    <2> QED
      BY <1>9, <2>4 DEF HandleCert, TypeOK, db, ghosts
  <1>10. ASSUME NEW r \in Req, NEW row \in res, NEW k \in KeyType, FinalizeOrder(r, row, k)
         PROVE  TypeOK'
    <2>1. row.order \in Order
      BY DEF TypeOK, Row
    <2>2. csrs' \in SUBSET (Order \X KeyType)
      BY <1>10, <2>1 DEF FinalizeOrder, TypeOK
    <2>3. PICK s \in {ca[row.order].status, "processing", "valid", "invalid"} : Finalize(row.order, s)
      BY <1>10 DEF FinalizeOrder
    <2>4. ca' \in [Order -> UpstreamType]
      <3>1. s \in Status \union {"none"}
        BY <2>1, <2>3 DEF TypeOK, Status
      <3> QED
        BY <2>1, <2>3, <3>1, StatusChange DEF Finalize
    <2>5. \A st \in {"processing", "valid"} :
             [IdleReq EXCEPT !.op = "order", !.order = row.order, !.seen = st, !.pc = "update"] \in ReqType
      BY <2>1 DEF ReqType, IdleReq, Status
    <2>6. [IdleReq EXCEPT !.order = row.order, !.pc = "reject"] \in ReqType
      BY <2>1 DEF ReqType, IdleReq, Status
    <2>7. req' \in [Req -> ReqType]
      BY <1>10, <2>5, <2>6, ReqChange DEF FinalizeOrder, TypeOK
    <2> QED
      BY <1>10, <2>2, <2>4, <2>7 DEF FinalizeOrder, TypeOK, UpstreamType, db
  <1>11. ASSUME NEW r \in Req, CacheFingerprint(r)
         PROVE  TypeOK'
    <2>1. res' \in SUBSET Row
      BY <1>11, Fingerprinted DEF CacheFingerprint, TypeOK
    <2>2. req' \in [Req -> ReqType]
      BY <1>11, GoesTo DEF CacheFingerprint, Becomes
    <2> QED
      BY <1>11, <2>1, <2>2 DEF CacheFingerprint, TypeOK, ghosts
  <1>12. ASSUME NEW r \in Req, NEW row \in Found(r), req[r].order \in Order, Use(r, row)
         PROVE  req' \in [Req -> ReqType]
    <2>1. row \in res
      BY DEF Found, ByUpstreamURL, ByUpstreamURLAndOrder
    <2> QED
      BY <1>12, <2>1, UsesRow DEF Becomes
  <1>13. ASSUME NEW r \in Req, GiveUp(r)
         PROVE  req' \in [Req -> ReqType]
    BY <1>0, <1>13, GivesUp DEF GiveUp, Becomes
  <1>14. ASSUME NEW r \in Req, LookupURL(r)
         PROVE  TypeOK'
    <2>1. req[r].order \in Order
      BY <1>14 DEF LookupURL, ReqOK
    <2>2. req' = [req EXCEPT ![r].pc = "save"] => req' \in [Req -> ReqType]
      BY GoesTo DEF Becomes
    <2>3. req' \in [Req -> ReqType]
      BY <1>12, <1>13, <1>14, <2>1, <2>2 DEF LookupURL
    <2> QED
      BY <1>14, <2>3 DEF LookupURL, TypeOK, db, ghosts
  <1>15. ASSUME NEW r \in Req, SaveURL(r)
         PROVE  TypeOK'
    <2>1. req[r].order \in Order
      BY <1>15 DEF SaveURL, ReqOK
    <2>2. req' = [req EXCEPT ![r].pc = "reread"] => req' \in [Req -> ReqType]
      BY GoesTo DEF Becomes
    <2>3. req' \in [Req -> ReqType]
      BY <1>13, <1>15, <2>2 DEF SaveURL
    <2>4. req[r].todo \subseteq URL
      BY DEF TypeOK, ReqType
    <2>5. res' \in SUBSET Row /\ nextId' \in Nat
      BY <1>15, <2>1, <2>4, Inserted DEF SaveURL, TypeOK
    <2> QED
      BY <1>15, <2>3, <2>5 DEF SaveURL, TypeOK, ghosts
  <1>16. ASSUME NEW r \in Req, RereadURL(r)
         PROVE  TypeOK'
    <2>1. req[r].order \in Order
      BY <1>16 DEF RereadURL, ReqOK
    <2>2. req' \in [Req -> ReqType]
      BY <1>12, <1>13, <1>16, <2>1 DEF RereadURL
    <2> QED
      BY <1>16, <2>2 DEF RereadURL, TypeOK, db, ghosts
  <1>17. ASSUME NEW r \in Req, Respond(r)
         PROVE  TypeOK'
    <2>1. req[r].order \in Order
      BY <1>17 DEF Respond, ReqOK
    <2>2. handed' \in SUBSET Link /\ announced' \in SUBSET Order
      BY <1>17, <2>1 DEF Respond, TypeOK, ReqType
    <2>4. req' \in [Req -> ReqType]
      BY <1>0, <1>17 DEF Respond
    <2> QED
      BY <1>17, <2>2, <2>4 DEF Respond, TypeOK, db
  <1>18. ASSUME NEW o \in Order, Progress(o)
         PROVE  TypeOK'
    <2>1. ca' \in [Order -> UpstreamType]
      BY <1>18, StatusChange DEF Progress, Status
    <2> QED
      BY <1>18, <2>1 DEF Progress, TypeOK, UpstreamType, db, ghosts
  <1>19. CASE Restart
    BY <1>19, IdleType DEF Restart, TypeOK, db, ghosts
  <1>20. CASE UNCHANGED vars
    BY <1>20 DEF TypeOK, vars, db, ghosts
  <1>21. \A l \in handed : GetResource(l.id) \subseteq res
    BY DEF GetResource
  <1> QED
    BY <1>1, <1>2, <1>3, <1>4, <1>5, <1>6, <1>7, <1>8, <1>9, <1>10, <1>11, <1>14, <1>15, <1>16,
       <1>17, <1>18, <1>19, <1>20, <1>21, <1>22 DEF Next

-----------------------------------------------------------------------------
(* What the steps do *)

ReqInv == \A r \in Req : ReqOK(req[r])

\* What is known of a state.
Known == TypeOK /\ OrderInv /\ MapInv /\ ReqInv /\ OneMaker

\* An order that the CA has made keeps its account, its rule and its authorizations.
SameUpstream(o) == ca'[o].acct = ca[o].acct /\ ca'[o].rule = ca[o].rule /\ ca'[o].authz = ca[o].authz

\* The CA's orders are changed in their status, or a new one is made.
LEMMA UpstreamEffect ==
    ASSUME Known, [Next]_vars
    PROVE  \/ \A o \in Order : SameUpstream(o)
           \/ \E r \in Req, a \in Account, o \in Order : SubmitOrder(r, a, o)
  <1>1. CASE ca' = ca
    BY <1>1 DEF SameUpstream
  <1>2. ASSUME NEW r \in Req, NEW row \in res, NEW k \in KeyType, FinalizeOrder(r, row, k)
        PROVE  \A o \in Order : SameUpstream(o)
    <2>1. row.order \in Order
      BY DEF Known, TypeOK, Row
    <2>2. PICK st \in {ca[row.order].status, "processing", "valid", "invalid"} : Finalize(row.order, st)
      BY <1>2 DEF FinalizeOrder
    <2>3. st \in Status \union {"none"}
      BY <2>1, <2>2 DEF Known, TypeOK, Status
    <2> QED
      BY <2>1, <2>2, <2>3, StatusChange DEF Known, Finalize, SameUpstream
  <1>3. ASSUME NEW o \in Order, Progress(o)
        PROVE  \A p \in Order : SameUpstream(p)
    BY <1>3, StatusChange DEF Known, Progress, SameUpstream, Status
  <1>4. \A l \in handed : GetResource(l.id) \subseteq res
    BY DEF GetResource
  <1>5. ASSUME NEW r \in Req,
               \/ SaveOrder(r) \/ SaveOrderResource(r)
               \/ (\E o \in Order : PollOrder(r, o)) \/ FetchOrder(r)
               \/ UpdateOrderStatus(r) \/ RejectFinalize(r) \/ BuildOrderResponse(r)
               \/ \E row \in res : HandleAuthz(r, row) \/ HandleCert(r, row)
               \/ CacheFingerprint(r)
               \/ LookupURL(r) \/ SaveURL(r) \/ RereadURL(r)
               \/ Respond(r)
        PROVE  ca' = ca
    BY <1>5 DEF SaveOrder, SaveOrderResource, PollOrder, FetchOrder, UpdateOrderStatus, RejectFinalize,
                BuildOrderResponse, HandleAuthz, HandleCert, CacheFingerprint, LookupURL, SaveURL,
                RereadURL, Respond
  <1>6. CASE Restart \/ UNCHANGED vars
    BY <1>1, <1>6 DEF Restart, vars
  <1> QED
    BY <1>1, <1>2, <1>3, <1>4, <1>5, <1>6 DEF Next

\* Stored orders are changed in their status, or one is stored as it was made and
\* routed.
LEMMA OrdersEffect ==
    ASSUME Known, [Next]_vars
    PROVE  \/ \A o \in Order : orders'[o].acct = orders[o].acct /\ orders'[o].csr = orders[o].csr
           \/ \E r \in Req :
                 /\ SaveOrder(r)
                 /\ req[r].order \in Order /\ Created(req[r].order)
                 /\ orders'[req[r].order].acct = ca[req[r].order].acct
                 /\ orders'[req[r].order].csr = ca[req[r].order].rule
                 /\ \A o \in Order \ {req[r].order} : orders'[o] = orders[o]
  <1>1. CASE orders' = orders
    BY <1>1
  <1>2. ASSUME NEW r \in Req, SaveOrder(r)
        PROVE  \/ orders' = orders
               \/ /\ req[r].order \in Order /\ Created(req[r].order)
                  /\ orders'[req[r].order].acct = ca[req[r].order].acct
                  /\ orders'[req[r].order].csr = ca[req[r].order].rule
                  /\ \A o \in Order \ {req[r].order} : orders'[o] = orders[o]
    <2>1. req[r].order \in Order /\ Created(req[r].order) /\ ca[req[r].order].rule = rule
      BY <1>2 DEF SaveOrder, Known, ReqInv, ReqOK
    <2> QED
      BY <1>2, <2>1 DEF SaveOrder, Known, TypeOK
  <1>3. ASSUME NEW r \in Req, UpdateOrderStatus(r)
        PROVE  \A o \in Order : orders'[o].acct = orders[o].acct /\ orders'[o].csr = orders[o].csr
    <2>1. req[r].order \in Order /\ req[r].seen \in Status \union {"none"}
      BY <1>3 DEF UpdateOrderStatus, Known, ReqInv, ReqOK, TypeOK, ReqType
    <2> QED
      BY <1>3, <2>1, StatusChange DEF Known, UpdateOrderStatus
  <1>4. ASSUME NEW r \in Req, RejectFinalize(r)
        PROVE  \A o \in Order : orders'[o].acct = orders[o].acct /\ orders'[o].csr = orders[o].csr
    <2>1. req[r].order \in Order
      BY <1>4 DEF RejectFinalize, Known, ReqInv, ReqOK
    <2> QED
      BY <1>4, <2>1, StatusChange DEF Known, RejectFinalize, Status
  <1>5. ASSUME NEW r \in Req,
               \/ \E a \in Account, o \in Order : SubmitOrder(r, a, o)
               \/ SaveOrderResource(r)
               \/ (\E o \in Order : PollOrder(r, o)) \/ FetchOrder(r)
               \/ BuildOrderResponse(r)
               \/ \E row \in res : \/ HandleAuthz(r, row) \/ HandleCert(r, row)
                                   \/ \E k \in KeyType : FinalizeOrder(r, row, k)
               \/ CacheFingerprint(r)
               \/ LookupURL(r) \/ SaveURL(r) \/ RereadURL(r)
               \/ Respond(r)
        PROVE  orders' = orders
    BY <1>5 DEF SubmitOrder, SaveOrderResource, PollOrder, FetchOrder, BuildOrderResponse, HandleAuthz,
                HandleCert, FinalizeOrder, CacheFingerprint, LookupURL, SaveURL, RereadURL,
                Respond, db
  <1>6. CASE Restart \/ UNCHANGED vars \/ \E o \in Order : Progress(o)
    BY <1>1, <1>6 DEF Restart, Progress, vars, db
  <1>7. \A l \in handed : GetResource(l.id) \subseteq res
    BY DEF GetResource
  <1> QED
    BY <1>1, <1>2, <1>3, <1>4, <1>5, <1>6, <1>7 DEF Next

\* A row for URL u of order o is added.
Added(o, u) ==
    /\ res' = res \union {[id |-> nextId, order |-> o, url |-> u, fp |-> FALSE]}
    /\ nextId' = nextId + 1
    /\ Mapped' = Mapped \union {[order |-> o, url |-> u, id |-> nextId]}
    /\ ~HasLink(o, u)

\* The map gets a URL that some request was to map, or a fingerprint.
LEMMA MapEffect ==
    ASSUME Known, [Next]_vars
    PROVE  \/ res' = res /\ nextId' = nextId
           \/ \E r \in Req : \E u \in req[r].todo :
                 /\ Added(req[r].order, u)
                 /\ \/ req[r].pc = "save"
                    \/ req[r].pc = "saveResource" /\ u \notin req'[r].todo
           \/ \E r \in Req : /\ req[r].pc = "fingerprint"
                             /\ SetFingerprint({l.id : l \in req[r].links})
                             /\ nextId' = nextId
  <1>1. ASSUME NEW r \in Req, SaveOrderResource(r)
        PROVE  \/ res' = res /\ nextId' = nextId
               \/ \E u \in req[r].todo : /\ Added(req[r].order, u)
                                         /\ req[r].pc = "saveResource" /\ u \notin req'[r].todo
    <2>1. req[r].order \in Order /\ req[r].todo \subseteq URL /\ nextId \in Nat
      BY <1>1 DEF SaveOrderResource, Known, ReqInv, ReqOK, TypeOK, ReqType
    <2>2. ASSUME NEW u \in req[r].todo, Insert(req[r].order, u),
                 req' = [req EXCEPT ![r].todo = @ \ {u},
                           ![r].links = @ \union {[order |-> req[r].order, url |-> u, id |-> nextId]},
                           ![r].pc = IF req[r].todo = {u} THEN "map" ELSE @]
          PROVE  \/ res' = res /\ nextId' = nextId
                 \/ Added(req[r].order, u) /\ u \notin req'[r].todo
      <3>1. [order |-> req[r].order, url |-> u, id |-> nextId] \in Link
        BY <2>1 DEF Link
      <3>2. req'[r].todo = req[r].todo \ {u}
        BY <1>1, <2>2, <3>1, MapsURL DEF SaveOrderResource, Known, Becomes
      <3> QED
        BY <2>1, <2>2, <3>2, Inserted DEF Known, Added
    <2> QED
      BY <1>1, <2>2 DEF SaveOrderResource
  <1>2. ASSUME NEW r \in Req, SaveURL(r)
        PROVE  \/ res' = res /\ nextId' = nextId
               \/ \E u \in req[r].todo : Added(req[r].order, u) /\ req[r].pc = "save"
    <2>1. req[r].order \in Order /\ req[r].todo \subseteq URL
      BY <1>2 DEF SaveURL, Known, ReqInv, ReqOK, TypeOK, ReqType
    <2>2. ASSUME NEW u \in req[r].todo, Insert(req[r].order, u)
          PROVE  \/ res' = res /\ nextId' = nextId
                 \/ Added(req[r].order, u)
      BY <2>1, <2>2, Inserted DEF Known, Added
    <2> QED
      BY <1>2, <2>2 DEF SaveURL
  <1>3. ASSUME NEW r \in Req, CacheFingerprint(r)
        PROVE  \/ res' = res /\ nextId' = nextId
               \/ /\ req[r].pc = "fingerprint"
                  /\ SetFingerprint({l.id : l \in req[r].links})
                  /\ nextId' = nextId
    BY <1>3 DEF CacheFingerprint
  <1>4. ASSUME NEW r \in Req,
               \/ \E a \in Account, o \in Order : SubmitOrder(r, a, o)
               \/ SaveOrder(r)
               \/ (\E o \in Order : PollOrder(r, o)) \/ FetchOrder(r)
               \/ UpdateOrderStatus(r) \/ RejectFinalize(r) \/ BuildOrderResponse(r)
               \/ \E row \in res : \/ HandleAuthz(r, row) \/ HandleCert(r, row)
                                   \/ \E k \in KeyType : FinalizeOrder(r, row, k)
               \/ LookupURL(r) \/ RereadURL(r)
               \/ Respond(r)
        PROVE  res' = res /\ nextId' = nextId
    BY <1>4 DEF SubmitOrder, SaveOrder, PollOrder, FetchOrder, UpdateOrderStatus, RejectFinalize,
                BuildOrderResponse, HandleAuthz, HandleCert, FinalizeOrder, LookupURL, RereadURL,
                Respond, db
  <1>5. Restart \/ UNCHANGED vars \/ (\E o \in Order : Progress(o)) => res' = res /\ nextId' = nextId
    BY DEF Restart, Progress, vars, db
  <1>6. \A l \in handed : GetResource(l.id) \subseteq res
    BY DEF GetResource
  <1> QED
    BY <1>1, <1>2, <1>3, <1>4, <1>5, <1>6 DEF Next

-----------------------------------------------------------------------------
(* What every step preserves *)

\* Orders stay made and stored, and the map only grows.
Frame ==
    /\ \A o \in Order : Created(o) => SameUpstream(o)
    /\ \A o \in Order : Saved(o) => orders'[o].acct = orders[o].acct /\ orders'[o].csr = orders[o].csr
    /\ Mapped \subseteq Mapped'

\* A made order is not made again.
LEMMA MadeOnce ==
    ASSUME NEW r \in Req, NEW a \in Account, NEW o \in Order, SubmitOrder(r, a, o), TypeOK
    PROVE  /\ ~Created(o)
           /\ ca'[o].acct = a /\ ca'[o].rule = rule
           /\ \A p \in Order \ {o} : ca'[p] = ca[p]
           /\ UNCHANGED <<rule, orders, res, nextId, handed, announced, csrs>>
  <1>1. PICK Z, status : CreateOrder(o, a, Z, status)
    BY DEF SubmitOrder
  <1>2. ca[o].acct = NoAccount
    BY <1>1 DEF CreateOrder, NoUpstream
  <1>3. ca'[o].acct = a /\ ca'[o].rule = rule /\ \A p \in Order \ {o} : ca'[p] = ca[p]
    BY <1>1 DEF CreateOrder, TypeOK
  <1> QED
    BY <1>2, <1>3, OrdersAssumption DEF SubmitOrder, Created, db, ghosts

\* No step undoes what the CA, the tables and the clients have.
LEMMA StepFrame ==
    ASSUME Known, [Next]_vars
    PROVE  Frame
  <1>1. \A o \in Order : Created(o) => SameUpstream(o)
    BY UpstreamEffect, MadeOnce DEF SameUpstream, Known
  <1>2. \A o \in Order : Saved(o) => orders'[o].acct = orders[o].acct /\ orders'[o].csr = orders[o].csr
    BY OrdersEffect DEF Known, OrderInv
  <1>3. Mapped \subseteq Mapped'
    <2>1. res' = res => Mapped' = Mapped
      BY DEF Mapped
    <2> QED
      BY <2>1, MapEffect, Fingerprinted DEF Known, Added
  <1> QED
    BY <1>1, <1>2, <1>3 DEF Frame

\* An order, its row and its links stay once they are there.
LEMMA Persists ==
    ASSUME Frame, NEW o \in Order
    PROVE  /\ Created(o) => Created(o)' /\ Whole(o)' = Whole(o)
           /\ Saved(o) => Saved(o)'
           /\ \A u : HasLink(o, u) => HasLink(o, u)'
  BY DEF Frame, Created, SameUpstream, Whole, Saved, HasLink

-----------------------------------------------------------------------------
(* Requests *)

\* Nobody maps what a new-order request still has to map, so a request that does not
\* move stays as good as it was.
LEMMA Waits ==
    ASSUME Known, [Next]_vars, rule' = rule, NEW s \in Req, req'[s] = req[s]
    PROVE  ReqOK(req[s])'
  <1> DEFINE o == req[s].order
  <1>0. SUFFICES ASSUME req[s].pc # "idle"
                 PROVE  ReqOK(req[s])'
    BY DEF ReqOK
  <1>1. ReqOK(req[s]) /\ o \in Order /\ Created(o) /\ Frame
    BY <1>0, StepFrame DEF Known, ReqInv, ReqOK
  <1>2. /\ Created(o)' /\ Whole(o)' = Whole(o) /\ ca'[o].rule = ca[o].rule
        /\ Saved(o) => Saved(o)'
        /\ Mapped \subseteq Mapped'
    BY <1>1, Persists DEF Frame, SameUpstream
  <1>3. ASSUME req[s].op = "new", NEW u \in Whole(o), HasLink(o, u)'
        PROVE  HasLink(o, u)
    <2>1. PICK l \in Mapped' : l.order = o /\ l.url = u
      BY <1>3 DEF HasLink
    <2>2. CASE l \in Mapped
      BY <2>1, <2>2 DEF HasLink
    <2>3. CASE l \notin Mapped
      <3>0. res' = res => Mapped' = Mapped
        BY DEF Mapped
      <3>1. PICK r \in Req : \E v \in req[r].todo :
                /\ Added(req[r].order, v)
                /\ \/ req[r].pc = "save"
                   \/ req[r].pc = "saveResource" /\ v \notin req'[r].todo
        BY <2>3, <3>0, MapEffect, Fingerprinted DEF Known
      <3>2. PICK v \in req[r].todo :
                /\ Added(req[r].order, v)
                /\ \/ req[r].pc = "save"
                   \/ req[r].pc = "saveResource" /\ v \notin req'[r].todo
        BY <3>1
      <3>3. l = [order |-> req[r].order, url |-> v, id |-> nextId]
        BY <2>3, <3>2 DEF Added
      <3>4. req[r].order = o /\ v = u
        BY <2>1, <3>3
      <3>5. ReqOK(req[r])
        BY DEF Known, ReqInv
      <3>6. CASE req[r].pc = "save"
        <4>1. v[1] \in LateKind
          BY <3>5, <3>6 DEF ReqOK, NewOrderOK, LookupOK, LateURLs
        <4>2. u[1] \in {"finalize", "authz"}
          BY DEF Whole, FinalizeURL, AuthzURL
        <4> QED
          BY <3>4, <4>1, <4>2 DEF LateKind
      <3>7. CASE req[r].pc = "saveResource" /\ v \notin req'[r].todo
        <4>1. req[r].op = "new"
          BY <3>5, <3>7 DEF ReqOK, LookupOK
        <4>2. r = s
          BY <1>0, <1>3, <3>4, <3>7, <4>1 DEF Known, OneMaker
        <4> QED
          BY <3>2, <3>7, <4>2
      <3> QED
        BY <3>2, <3>6, <3>7
    <2> QED
      BY <2>2, <2>3
  <1>4. \A u : HasLink(o, u) => HasLink(o, u)'
    BY <1>1, Persists
  <1>5. req[s].op = "new" => NewOrderOK(req[s])'
    <2>1. req[s].op = "new" => NewOrderOK(req[s])
      BY <1>0, <1>1 DEF ReqOK
    <2> QED
      BY <1>2, <1>3, <1>4, <2>1 DEF NewOrderOK
  <1>6. req[s].op # "new" => LookupOK(req[s])'
    BY <1>0, <1>1 DEF ReqOK, LookupOK, LateURLs
  <1> QED
    BY <1>0, <1>1, <1>2, <1>5, <1>6 DEF ReqOK

\* The step was this request's; it is as it should be, and has not become the maker of
\* another order.
Moved(r) ==
    /\ \A s \in Req \ {r} : req'[s] = req[s]
    /\ ReqOK(req[r])'
    /\ req'[r].op = "new" /\ req'[r].pc # "idle" =>
          req[r].op = "new" /\ req[r].pc # "idle" /\ req'[r].order = req[r].order

\* A request that ends owes nothing.
LEMMA Ends ==
    ASSUME Known, NEW r \in Req, Abort(r)
    PROVE  Moved(r)
  <1>1. req'[r] = IdleReq /\ \A s \in Req \ {r} : req'[s] = req[s]
    BY DEF Known, TypeOK, Abort
  <1>2. IdleReq.pc = "idle"
    BY DEF IdleReq
  <1> QED
    BY <1>1, <1>2 DEF Moved, ReqOK

\* A handler other than new-order starts on a stored order.
LEMMA Opens ==
    ASSUME Known, [Next]_vars, rule' = rule, NEW r \in Req, NEW q \in ReqType,
           req' = [req EXCEPT ![r] = q],
           q.order \in Order, Saved(q.order), q.op # "new",
           q.pc \notin {"idle", "saveOrder", "saveResource"},
           LateURLs(q.op, q.order, q.todo),
           \A l \in q.links : l \in Mapped /\ l.order = q.order,
           q.pc = "fingerprint" => \A l \in q.links : l.url[1] \in {"cert", "alternate"}
    PROVE  Moved(r)
  <1>1. req'[r] = q /\ \A s \in Req \ {r} : req'[s] = req[s]
    BY ReqChange DEF Known
  <1>2. Frame /\ Created(q.order)
    BY StepFrame DEF Known, OrderInv
  <1>3. ca'[q.order].acct \in Account /\ orders'[q.order].acct # NoAccount /\ Mapped \subseteq Mapped'
    BY <1>2 DEF Frame, SameUpstream, Created, Saved
  <1>4. LookupOK(req[r])'
    BY <1>1 DEF LookupOK, LateURLs
  <1> QED
    BY <1>1, <1>3, <1>4 DEF Moved, ReqOK, Created, Saved

\* ... and goes on.
LEMMA GoesOn ==
    ASSUME Known, [Next]_vars, rule' = rule, NEW r \in Req,
           req[r].pc # "idle", req[r].op # "new",
           NEW p \in {"build", "map", "save", "reread"}, NEW T, NEW L,
           Becomes(r, p, T, L),
           LateURLs(req[r].op, req[r].order, T),
           \A l \in L : l \in Mapped /\ l.order = req[r].order
    PROVE  Moved(r)
  <1> DEFINE o == req[r].order
  <1>1. o \in Order /\ Created(o) /\ Saved(o) /\ Frame
    BY StepFrame DEF Known, ReqInv, ReqOK, LookupOK
  <1>2. ca'[o].acct \in Account /\ orders'[o].acct # NoAccount /\ Mapped \subseteq Mapped'
    BY <1>1 DEF Frame, SameUpstream, Created, Saved
  <1>3. /\ \A s \in Req \ {r} : req'[s] = req[s]
        /\ req'[r].op = req[r].op /\ req'[r].order = o
        /\ req'[r].pc = p /\ req'[r].todo = T /\ req'[r].links = L
    BY DEF Becomes
  <1>4. LookupOK(req[r])'
    BY <1>3 DEF LookupOK, LateURLs
  <1> QED
    BY <1>1, <1>2, <1>3, <1>4 DEF Moved, ReqOK, Created, Saved

\* What a request finds belongs to its order.
LEMMA FoundRows ==
    ASSUME Known, NEW r \in Req, req[r].pc # "idle", req[r].op # "new", NEW row \in Found(r)
    PROVE  /\ row \in res
           /\ [order |-> req[r].order, url |-> row.url, id |-> row.id] \in Mapped
  <1> DEFINE m == [order |-> row.order, url |-> row.url, id |-> row.id]
  <1>1. row \in res
    BY DEF Found, ByUpstreamURL, ByUpstreamURLAndOrder
  <1>2. m \in Mapped
    BY <1>1, MappedType DEF Known
  <1>3. row.order = req[r].order
    <2>1. CASE req[r].op = "order"
      <3>1. row.url = CertURL(req[r].order) /\ req[r].order \in Order
        BY <2>1 DEF Found, ByUpstreamURL, Known, ReqInv, ReqOK, LookupOK, LateURLs
      <3>2. row.url[1] = "cert" /\ row.url[2] = req[r].order
        BY <3>1, URLs
      <3>3. m.url[1] \in OwnKind => m.url[2] = m.order
        BY <1>2 DEF Known, MapInv
      <3> QED
        BY <3>2, <3>3 DEF OwnKind
    <2>2. CASE req[r].op # "order"
      BY <2>2 DEF Found, ByUpstreamURLAndOrder
    <2> QED
      BY <2>1, <2>2
  <1> QED
    BY <1>1, <1>2, <1>3

\* SubmitOrder: the new order has no rows yet.
LEMMA SubmitOK ==
    ASSUME Known, NEW r \in Req, NEW a \in Account, NEW o \in Order, SubmitOrder(r, a, o)
    PROVE  /\ \A s \in Req \ {r} : req'[s] = req[s]
           /\ ReqOK(req[r])'
           /\ req'[r].order = o
  <1>1. PICK Z \in (SUBSET Authz) \ {{}}, status \in {"pending", "ready"} :
           /\ CreateOrder(o, a, Z, status)
           /\ req' = [req EXCEPT ![r] =
                        [IdleReq EXCEPT !.pc = "saveOrder", !.op = "new", !.order = o,
                                        !.seen = status,
                                        !.todo = {FinalizeURL(o)} \union
                                                 {AuthzURL(z) : z \in Z}]]
    BY DEF SubmitOrder
  <1>2. /\ \A s \in Req \ {r} : req'[s] = req[s]
        /\ req'[r].pc = "saveOrder" /\ req'[r].op = "new" /\ req'[r].order = o
        /\ req'[r].links = {}
        /\ req'[r].todo = {FinalizeURL(o)} \union {AuthzURL(z) : z \in Z}
    BY <1>1 DEF Known, TypeOK, IdleReq
  <1>3. ca'[o].acct = a /\ ca'[o].rule = rule /\ ca'[o].authz = Z
    BY <1>1 DEF CreateOrder, Known, TypeOK
  <1>4. ~Created(o) /\ rule' = rule /\ Mapped' = Mapped
    BY MadeOnce DEF Known, Mapped
  <1>5. \A u : ~HasLink(o, u)
    <2>1. ~Saved(o)
      BY <1>4 DEF Known, OrderInv
    <2> QED
      BY <2>1 DEF HasLink, Known, MapInv
  <1>6. ~\E l \in Mapped' : l.order = o
    BY <1>4, <1>5 DEF HasLink
  <1>7. Whole(o)' = req'[r].todo
    BY <1>2, <1>3 DEF Whole
  <1>8. NewOrderOK(req[r])'
    <2>1. \A u : ~\E l \in Mapped' : l.order = req'[r].order /\ l.url = u
      BY <1>2, <1>6
    <2>2. {FinalizeURL(req'[r].order)} \union {AuthzURL(z) : z \in ca'[req'[r].order].authz} = req'[r].todo
      BY <1>2, <1>3
    <2> QED
      BY <1>2, <2>1, <2>2 DEF NewOrderOK, Whole, HasLink
  <1> QED
    BY <1>2, <1>3, <1>4, <1>8 DEF ReqOK, Created

\* A request that maps the URLs of a new order is the maker of it.
LEMMA Makes ==
    ASSUME Known, NEW r \in Req, req[r].pc \in {"saveOrder", "saveResource"}
    PROVE  /\ req[r].op = "new" /\ req[r].order \in Order /\ Created(req[r].order)
           /\ NewOrderOK(req[r])
           /\ req[r].links \subseteq {l \in Mapped : l.order = req[r].order}
           /\ req[r].pc = "saveOrder" => ca[req[r].order].rule = rule
           /\ req[r].pc = "saveResource" => Saved(req[r].order)
           /\ req[r].todo \subseteq URL
  BY DEF Known, ReqInv, ReqOK, LookupOK, TypeOK, ReqType

\* After SaveOrder the order is stored with the rule it was routed under.
LEMMA SaveOrderOK ==
    ASSUME Known, NEW r \in Req, SaveOrder(r)
    PROVE  Moved(r)
  <1> DEFINE o == req[r].order
  <1>1. CASE Abort(r)
    BY <1>1, Ends
  <1>2. CASE ~Abort(r)
    <2>1. req[r].pc = "saveOrder" /\ req' = [req EXCEPT ![r].pc = "saveResource"]
      BY <1>2 DEF SaveOrder
    <2>2. Becomes(r, "saveResource", req[r].todo, req[r].links)
      BY <2>1, GoesTo DEF Known
    <2>3. orders'[o].acct = ca[o].acct /\ ca' = ca /\ Mapped' = Mapped
      BY <1>2, <2>1, Makes DEF SaveOrder, Known, TypeOK, Mapped
    <2>4. ca'[o].acct \in Account /\ orders'[o].acct # NoAccount
      BY <2>1, <2>3, Makes, OrdersAssumption DEF Created
    <2>5. NewOrderOK(req[r])'
      BY <2>1, <2>2, <2>3, Makes DEF Becomes, NewOrderOK, Whole, HasLink
    <2> QED
      BY <2>1, <2>2, <2>3, <2>4, <2>5, Makes DEF Becomes, Moved, ReqOK, Created, Saved
  <1> QED
    BY <1>1, <1>2

\* SaveOrderResource: the INSERT is never ignored, so the ID in the response is the one
\* that was stored.
LEMMA SaveOrderResourceOK ==
    ASSUME Known, NEW r \in Req, SaveOrderResource(r)
    PROVE  Moved(r)
  <1> DEFINE o == req[r].order
  <1>1. CASE Abort(r)
    BY <1>1, Ends
  <1>2. CASE ~Abort(r)
    <2>0. req[r].pc = "saveResource"
      BY DEF SaveOrderResource
    <2>1. PICK u \in req[r].todo :
              /\ Insert(o, u)
              /\ req' = [req EXCEPT ![r].todo = @ \ {u},
                           ![r].links = @ \union {[order |-> o, url |-> u, id |-> nextId]},
                           ![r].pc = IF req[r].todo = {u} THEN "map" ELSE @]
      BY <1>2 DEF SaveOrderResource
    <2> DEFINE l == [order |-> o, url |-> u, id |-> nextId]
               p == IF req[r].todo = {u} THEN "map" ELSE "saveResource"
    <2>2. u \in URL /\ o \in Order /\ l \in Link
      BY <2>0, Makes DEF Link, Known, TypeOK
    <2>3. Becomes(r, p, req[r].todo \ {u}, req[r].links \union {l})
      BY <2>0, <2>1, <2>2, MapsURL DEF Known
    <2>4. u \in Whole(o) /\ ~HasLink(o, u)
      BY <2>0, Makes DEF NewOrderOK
    <2>5. Mapped' = Mapped \union {l}
      BY <2>1, <2>2, <2>4, Inserted DEF Known
    <2>6. ca' = ca /\ orders' = orders /\ rule' = rule
      BY DEF SaveOrderResource
    <2> HIDE DEF l
    <2>7. l.order = o /\ l.url = u
      BY DEF l
    <2>8. /\ \A s \in Req \ {r} : req'[s] = req[s]
          /\ req'[r].op = "new" /\ req'[r].order = o
          /\ req'[r].pc = p /\ req'[r].todo = req[r].todo \ {u} /\ req'[r].links = req[r].links \union {l}
      BY <2>0, <2>3, Makes DEF Becomes
    <2>9. NewOrderOK(req[r])'
      <3>1. /\ req[r].todo \subseteq Whole(o)
            /\ \A v \in Whole(o) : v \in req[r].todo <=> ~\E m \in Mapped : m.order = o /\ m.url = v
        BY <2>0, Makes DEF NewOrderOK, HasLink
      <3>2. \A v \in Whole(o) : v \in req'[r].todo <=> ~\E m \in Mapped' : m.order = o /\ m.url = v
        BY <2>5, <2>7, <2>8, <3>1
      <3>3. req'[r].pc = "map" => req'[r].todo = {}
        BY <2>8
      <3>4. req'[r].pc \in {"map", "saveResource"}
        BY <2>8
      <3>5. {FinalizeURL(req'[r].order)} \union {AuthzURL(z) : z \in ca'[req'[r].order].authz} = Whole(o)
        BY <2>6, <2>8 DEF Whole
      <3>6. \A v \in Whole(o) : v \in req'[r].todo <=> ~\E m \in Mapped' : m.order = req'[r].order /\ m.url = v
        BY <2>8, <3>2
      <3>7. req'[r].todo \subseteq Whole(o)
        BY <2>8, <3>1
      <3> HIDE DEF p
      <3> QED
        BY <3>3, <3>4, <3>5, <3>6, <3>7 DEF NewOrderOK, Whole, HasLink
    <2>10. ca'[o].acct \in Account /\ orders'[o].acct # NoAccount
      BY <2>0, <2>6, Makes DEF Created, Saved
    <2>11. \A m \in req[r].links \union {l} : m \in Mapped' /\ m.order = o
      BY <2>0, <2>5, <2>7, Makes
    <2>12. ReqOK(req[r])'
      BY <2>2, <2>8, <2>9, <2>10, <2>11 DEF ReqOK, Created, Saved
    <2> QED
      BY <2>0, <2>8, <2>12, Makes DEF Moved
  <1> QED
    BY <1>1, <1>2

\* LookupURL, SaveURL and RereadURL leave the mapping of a URL to these.
LEMMA MappingOK ==
    ASSUME Known, [Next]_vars, rule' = rule, NEW r \in Req,
           req[r].pc \in {"map", "save", "reread"},
           req[r].pc = "map" => req[r].todo # {},
           \/ \E row \in Found(r) : Use(r, row)
           \/ GiveUp(r)
           \/ \E p \in {"save", "reread"} : req' = [req EXCEPT ![r].pc = p]
    PROVE  Moved(r)
  <1>1. /\ req[r].op # "new" /\ req[r].order \in Order
        /\ LateURLs(req[r].op, req[r].order, req[r].todo)
        /\ \A l \in req[r].links : l \in Mapped /\ l.order = req[r].order
    BY DEF Known, ReqInv, ReqOK, NewOrderOK, LookupOK
  <1>2. LateURLs(req[r].op, req[r].order, {})
    BY DEF LateURLs
  <1>3. ASSUME NEW row \in Found(r), Use(r, row)
        PROVE  Moved(r)
    <2> DEFINE l == [order |-> req[r].order, url |-> row.url, id |-> row.id]
    <2>1. row \in res /\ l \in Mapped
      BY <1>1, FoundRows
    <2>2. Becomes(r, "map", {}, req[r].links \union {l})
      BY <1>1, <1>3, <2>1, UsesRow DEF Known
    <2>3. \A m \in req[r].links \union {l} : m \in Mapped /\ m.order = req[r].order
      BY <1>1, <2>1
    <2> QED
      BY <1>1, <1>2, <2>2, <2>3, GoesOn
  <1>4. CASE GiveUp(r)
    BY <1>1, <1>2, <1>4, Ends, GivesUp, GoesOn DEF GiveUp, Known
  <1>5. ASSUME NEW p \in {"save", "reread"}, req' = [req EXCEPT ![r].pc = p]
        PROVE  Moved(r)
    <2>1. Becomes(r, p, req[r].todo, req[r].links)
      BY <1>5, GoesTo DEF Known
    <2> QED
      BY <1>1, <2>1, GoesOn
  <1> QED
    BY <1>3, <1>4, <1>5

\* The order response maps only the certificate that the CA shows.
LEMMA BuildOK ==
    ASSUME Known, [Next]_vars, NEW r \in Req, BuildOrderResponse(r)
    PROVE  Moved(r)
  <1> DEFINE o == req[r].order
             finalize == ByUpstreamURL(FinalizeURL(o))
  <1>1. /\ req[r].pc = "build" /\ rule' = rule /\ o \in Order
        /\ req[r].op # "new"
    BY DEF BuildOrderResponse, Known, ReqInv, ReqOK, NewOrderOK
  <1>2. ASSUME NEW row \in finalize \union AuthzResources(o)
        PROVE  row \in res /\ [order |-> o, url |-> row.url, id |-> row.id] \in Mapped
    <2> DEFINE m == [order |-> row.order, url |-> row.url, id |-> row.id]
    <2>1. row \in res
      BY DEF ByUpstreamURL, AuthzResources
    <2>2. m \in Mapped
      BY <2>1, MappedType DEF Known
    <2>3. row.order = o
      <3>1. CASE row \in AuthzResources(o)
        BY <3>1 DEF AuthzResources
      <3>2. CASE row.url = FinalizeURL(o)
        <4>1. row.url[1] = "finalize" /\ row.url[2] = o
          BY <1>1, <3>2, URLs
        <4>2. m.url[1] \in OwnKind => m.url[2] = m.order
          BY <2>2 DEF Known, MapInv
        <4> QED
          BY <4>1, <4>2 DEF OwnKind
      <3> QED
        BY <3>1, <3>2 DEF ByUpstreamURL
    <2> QED
      BY <2>1, <2>2, <2>3
  <1>3. ASSUME NEW rows \in {finalize, finalize \union AuthzResources(o)},
               req' = [req EXCEPT ![r].links = {[order |-> o, url |-> row.url, id |-> row.id] :
                                                   row \in rows},
                                  ![r].todo = IF req[r].seen = "valid" THEN {CertURL(o)} ELSE {},
                                  ![r].seen = "none", ![r].pc = "map"]
        PROVE  Moved(r)
    <2> DEFINE L == {[order |-> o, url |-> row.url, id |-> row.id] : row \in rows}
               T == IF req[r].seen = "valid" THEN {CertURL(o)} ELSE {}
    <2>1. \A l \in L : l \in Mapped /\ l.order = o
      BY <1>2
    <2>2. L \in SUBSET Link
      BY <2>1, MappedType DEF Known
    <2>3. T \in SUBSET URL
      BY <1>1, URLs
    <2>4. LateURLs(req[r].op, o, T)
      <3>1. CertURL(o)[1] = "cert" /\ CertURL(o)[2] = o
        BY <1>1, URLs
      <3> QED
        BY <3>1 DEF LateURLs, LateKind
    <2> HIDE DEF L, T
    <2>5. req' = [req EXCEPT ![r].links = L, ![r].todo = T, ![r].seen = "none", ![r].pc = "map"]
      BY <1>3 DEF L, T
    <2>6. Becomes(r, "map", T, L)
      BY <2>2, <2>3, <2>5, BuildsLinks DEF Known
    <2> QED
      BY <1>1, <2>1, <2>4, <2>6, GoesOn
  <1> QED
    BY <1>3, Ends DEF BuildOrderResponse

\* An order poll begins with nothing to map.
LEMMA PollOK ==
    ASSUME Known, [Next]_vars, NEW r \in Req, NEW o \in Order, PollOrder(r, o)
    PROVE  Moved(r)
  <1> DEFINE q == [IdleReq EXCEPT !.op = "order", !.order = o, !.pc = "poll",
                                  !.seen = orders[o].status]
  <1>1. /\ q \in ReqType /\ q.order = o /\ q.op = "order" /\ q.todo = {} /\ q.links = {}
        /\ q.pc = "poll"
    BY DEF Known, TypeOK, ReqType, IdleReq
  <1>2. req' = [req EXCEPT ![r] = q] /\ Saved(o) /\ rule' = rule
    BY DEF PollOrder
  <1> HIDE DEF q
  <1>3. LateURLs(q.op, q.order, q.todo)
    BY <1>1 DEF LateURLs
  <1> QED
    BY <1>1, <1>2, <1>3, Opens

\* ... and the CA's answer adds nothing to map.
LEMMA FetchOK ==
    ASSUME Known, [Next]_vars, NEW r \in Req, FetchOrder(r)
    PROVE  Moved(r)
  <1>1. CASE Abort(r)
    BY <1>1, Ends
  <1>2. CASE ~Abort(r)
    <2>1. /\ req[r].pc = "poll" /\ rule' = rule
          /\ req[r].order \in Order /\ Saved(req[r].order) /\ req[r].op # "new"
          /\ LateURLs(req[r].op, req[r].order, req[r].todo)
          /\ \A l \in req[r].links : l \in Mapped /\ l.order = req[r].order
      BY DEF FetchOrder, Known, ReqInv, ReqOK, NewOrderOK, LookupOK
    <2>2. PICK q \in ReqType : /\ req' = [req EXCEPT ![r] = q]
                               /\ q.op = req[r].op /\ q.order = req[r].order
                               /\ q.pc \in {"update", "build"}
                               /\ q.todo = req[r].todo /\ q.links = req[r].links
      BY <1>2, <2>1, Fetches DEF Known
    <2> QED
      BY <2>1, <2>2, Opens
  <1> QED
    BY <1>1, <1>2

\* A finalize request begins as an order poll does, goes on to record a rejection, or
\* ends with an error.
LEMMA FinalizeOK ==
    ASSUME Known, [Next]_vars, NEW r \in Req, NEW row \in res, NEW k \in KeyType,
           FinalizeOrder(r, row, k)
    PROVE  Moved(r) \/ req' = req
  <1> DEFINE o == row.order
  <1>1. o \in Order /\ Saved(o) /\ rule' = rule
    BY DEF Known, TypeOK, Row, FinalizeOrder
  <1>2. ASSUME NEW q \in ReqType, req' = [req EXCEPT ![r] = q], q.order = o, q.todo = {}, q.links = {},
               q.pc \in {"update", "reject"}, q.op \in {"order", "none"}
        PROVE  Moved(r)
    <2>1. LateURLs(q.op, q.order, q.todo)
      BY <1>2 DEF LateURLs
    <2> QED
      BY <1>1, <1>2, <2>1, Opens
  <1>3. ASSUME NEW st \in {"processing", "valid"},
               req' = [req EXCEPT ![r] = [IdleReq EXCEPT !.op = "order", !.order = o,
                                                         !.seen = st, !.pc = "update"]]
        PROVE  Moved(r)
    <2> DEFINE q == [IdleReq EXCEPT !.op = "order", !.order = o, !.seen = st, !.pc = "update"]
    <2>1. q \in ReqType /\ q.order = o /\ q.todo = {} /\ q.links = {} /\ q.pc = "update" /\ q.op = "order"
      BY <1>1 DEF ReqType, IdleReq, Status
    <2> HIDE DEF q
    <2>2. req' = [req EXCEPT ![r] = q]
      BY <1>3 DEF q
    <2> QED
      BY <1>2, <2>1, <2>2
  <1>4. ASSUME req' = [req EXCEPT ![r] = [IdleReq EXCEPT !.order = o, !.pc = "reject"]]
        PROVE  Moved(r)
    <2> DEFINE q == [IdleReq EXCEPT !.order = o, !.pc = "reject"]
    <2>1. q \in ReqType /\ q.order = o /\ q.todo = {} /\ q.links = {} /\ q.pc = "reject" /\ q.op = "none"
      BY <1>1 DEF ReqType, IdleReq
    <2> HIDE DEF q
    <2>2. req' = [req EXCEPT ![r] = q]
      BY <1>4 DEF q
    <2> QED
      BY <1>2, <2>1, <2>2
  <1> QED
    BY <1>3, <1>4 DEF FinalizeOrder

\* An authorization poll maps the challenge of an authorization of its order.
LEMMA AuthzOK ==
    ASSUME Known, [Next]_vars, NEW r \in Req, NEW row \in res, HandleAuthz(r, row)
    PROVE  Moved(r)
  <1> DEFINE T == ChallengesOf(row.url)
             q == [IdleReq EXCEPT !.op = "authz", !.order = row.order, !.todo = T, !.pc = "map"]
  <1>1. row.order \in Order /\ row.url \in URL /\ Saved(row.order) /\ rule' = rule
    BY DEF Known, TypeOK, Row, HandleAuthz
  <1>2. T \in SUBSET URL /\ \A u \in T : u[1] = "challenge"
    BY <1>1, URLParts, URLs DEF ChallengesOf, HandleAuthz
  <1>3. req' = [req EXCEPT ![r] = q]
    BY DEF HandleAuthz
  <1>4. LateURLs("authz", row.order, T)
    BY <1>2 DEF LateURLs, LateKind, OwnKind
  <1> HIDE DEF T
  <1>5. /\ q \in ReqType /\ q.order = row.order /\ q.op = "authz" /\ q.todo = T /\ q.links = {}
        /\ q.pc = "map"
    BY <1>1, <1>2 DEF ReqType, IdleReq
  <1> HIDE DEF q
  <1> QED
    BY <1>1, <1>3, <1>4, <1>5, Opens

\* A certificate request maps the alternate chain of its own order.
LEMMA CertOK ==
    ASSUME Known, [Next]_vars, NEW r \in Req, NEW row \in res, HandleCert(r, row)
    PROVE  Moved(r)
  <1> DEFINE T == AlternatesOf(row.url)
             l == [order |-> row.order, url |-> row.url, id |-> row.id]
             p == IF row.fp THEN "map" ELSE "fingerprint"
             q == [IdleReq EXCEPT !.op = "cert", !.order = row.order, !.todo = T, !.links = {l}, !.pc = p]
  <1>1. /\ row.order \in Order /\ row.url \in URL /\ Saved(row.order) /\ rule' = rule
        /\ row.url[1] \in {"cert", "alternate"}
    BY DEF Known, TypeOK, Row, HandleCert
  <1>2. l \in Mapped /\ l \in Link /\ l.order = row.order /\ l.url = row.url
    BY MappedType DEF Known
  <1>3. row.url[2] = row.order
    BY <1>1, <1>2 DEF Known, MapInv, OwnKind
  <1>4. T \in SUBSET URL /\ \A u \in T : u[1] = "alternate" /\ u[2] = row.order
    BY <1>1, <1>3, URLs DEF AlternatesOf
  <1>5. req' = [req EXCEPT ![r] = q]
    BY DEF HandleCert
  <1>6. LateURLs("cert", row.order, T)
    BY <1>4 DEF LateURLs, LateKind
  <1>7. p \in {"map", "fingerprint"}
    OBVIOUS
  <1> HIDE DEF T, l, p
  <1>8. /\ q \in ReqType /\ q.order = row.order /\ q.op = "cert" /\ q.todo = T /\ q.links = {l}
        /\ q.pc = p
    BY <1>1, <1>2, <1>4, <1>7 DEF ReqType, IdleReq
  <1> HIDE DEF q
  <1>9. \A m \in q.links : m \in Mapped /\ m.order = q.order /\ m.url[1] \in {"cert", "alternate"}
    BY <1>1, <1>2, <1>8
  <1> QED
    BY <1>1, <1>5, <1>6, <1>7, <1>8, <1>9, Opens

\* UpdateOrderStatus and CacheFingerprint only go on.
LEMMA PlainOK ==
    ASSUME Known, [Next]_vars, NEW r \in Req, UpdateOrderStatus(r) \/ CacheFingerprint(r)
    PROVE  Moved(r)
  <1>1. /\ req[r].op # "new" /\ req[r].pc # "idle" /\ rule' = rule
        /\ LateURLs(req[r].op, req[r].order, req[r].todo)
        /\ \A l \in req[r].links : l \in Mapped /\ l.order = req[r].order
    BY DEF UpdateOrderStatus, CacheFingerprint, Known, ReqInv, ReqOK, NewOrderOK, LookupOK
  <1>2. PICK p \in {"build", "map"} : req' = [req EXCEPT ![r].pc = p]
    BY DEF UpdateOrderStatus, CacheFingerprint
  <1>3. Becomes(r, p, req[r].todo, req[r].links)
    BY <1>2, GoesTo DEF Known
  <1> QED
    BY <1>1, <1>3, GoesOn

\* A step is one request's, or a new order's first, or nobody's; or all requests end.
LEMMA ReqEffect ==
    ASSUME Known, [Next]_vars
    PROVE  \/ rule' = rule /\ \E r \in Req : Moved(r)
           \/ \E r \in Req, a \in Account, o \in Order : SubmitOrder(r, a, o)
           \/ rule' = rule /\ req' = req
           \/ req' = [r \in Req |-> IdleReq]
  <1>1. ASSUME NEW r \in Req,
               \/ SaveOrder(r) \/ SaveOrderResource(r)
               \/ (\E o \in Order : PollOrder(r, o)) \/ FetchOrder(r)
               \/ UpdateOrderStatus(r) \/ RejectFinalize(r) \/ BuildOrderResponse(r)
               \/ \E row \in res : HandleAuthz(r, row) \/ HandleCert(r, row)
               \/ CacheFingerprint(r)
               \/ LookupURL(r) \/ SaveURL(r) \/ RereadURL(r)
               \/ Respond(r)
        PROVE  rule' = rule /\ Moved(r)
    <2>1. rule' = rule
      BY <1>1 DEF SaveOrder, SaveOrderResource, PollOrder, FetchOrder, UpdateOrderStatus, RejectFinalize,
                  BuildOrderResponse, HandleAuthz, HandleCert, CacheFingerprint, LookupURL, SaveURL,
                  RereadURL, Respond
    <2>2. CASE LookupURL(r)
      BY <2>1, <2>2, MappingOK DEF LookupURL
    <2>3. CASE SaveURL(r)
      BY <2>1, <2>3, MappingOK DEF SaveURL
    <2>4. CASE RereadURL(r)
      BY <2>1, <2>4, MappingOK DEF RereadURL
    <2>5. CASE RejectFinalize(r) \/ Respond(r)
      BY <2>5, Ends DEF RejectFinalize, Respond
    <2> QED
      BY <1>1, <2>1, <2>2, <2>3, <2>4, <2>5, SaveOrderOK, SaveOrderResourceOK, PollOK, FetchOK, PlainOK,
         BuildOK, AuthzOK, CertOK
  <1>2. ASSUME NEW r \in Req, NEW row \in res, NEW k \in KeyType, FinalizeOrder(r, row, k)
        PROVE  rule' = rule /\ (Moved(r) \/ req' = req)
    BY <1>2, FinalizeOK DEF FinalizeOrder
  <1>3. UNCHANGED vars \/ (\E o \in Order : Progress(o)) => rule' = rule /\ req' = req
    BY DEF Progress, vars
  <1>4. Restart => req' = [r \in Req |-> IdleReq]
    BY DEF Restart
  <1>5. \A l \in handed : GetResource(l.id) \subseteq res
    BY DEF GetResource
  <1> QED
    BY <1>1, <1>2, <1>3, <1>4, <1>5 DEF Next

\* Every step keeps what open requests have established, and their makers apart.
LEMMA StepReq ==
    ASSUME Known, [Next]_vars
    PROVE  ReqInv' /\ OneMaker'
  <1>1. ASSUME NEW r \in Req, rule' = rule, Moved(r)
        PROVE  ReqInv' /\ OneMaker'
    <2>1. ASSUME NEW s \in Req
          PROVE  ReqOK(req[s])'
      BY <1>1, Waits DEF Moved
    <2>2. OneMaker'
      BY <1>1 DEF Moved, Known, OneMaker
    <2> QED
      BY <2>1, <2>2 DEF ReqInv
  <1>2. ASSUME NEW r \in Req, NEW a \in Account, NEW o \in Order, SubmitOrder(r, a, o)
        PROVE  ReqInv' /\ OneMaker'
    <2>1. rule' = rule /\ ~Created(o)
      BY <1>2, MadeOnce DEF Known
    <2>2. ASSUME NEW s \in Req
          PROVE  ReqOK(req[s])'
      BY <1>2, <2>1, SubmitOK, Waits
    <2>3. \A s \in Req : req[s].pc # "idle" => req[s].order # o
      BY <2>1 DEF Known, ReqInv, ReqOK
    <2>4. OneMaker'
      BY <1>2, <2>3, SubmitOK DEF Known, OneMaker
    <2> QED
      BY <2>2, <2>4 DEF ReqInv
  <1>3. CASE rule' = rule /\ req' = req
    BY <1>3, Waits DEF ReqInv, Known, OneMaker
  <1>4. CASE req' = [r \in Req |-> IdleReq]
    BY <1>4 DEF ReqInv, ReqOK, OneMaker, IdleReq
  <1> QED
    BY <1>1, <1>2, <1>3, <1>4, ReqEffect

-----------------------------------------------------------------------------
(* Orders, the map and the clients *)

\* Clients learn of links and orders by a response, and CSRs go to the CA
\* for stored orders.
LEMMA GhostEffect ==
    ASSUME Known, [Next]_vars
    PROVE  /\ \/ UNCHANGED <<handed, announced>>
              \/ \E r \in Req : Respond(r)
           /\ \/ csrs' = csrs
              \/ \E o \in Order, k \in KeyType : /\ Saved(o) /\ orders[o].csr \in {AnyKey, k}
                                                 /\ csrs' = csrs \union {<<o, k>>}
  <1>1. ASSUME NEW r \in Req, NEW row \in res, NEW k \in KeyType, FinalizeOrder(r, row, k)
        PROVE  /\ UNCHANGED <<handed, announced>>
               /\ \E o \in Order : /\ Saved(o) /\ orders[o].csr \in {AnyKey, k}
                                   /\ csrs' = csrs \union {<<o, k>>}
    <2>1. row.order \in Order
      BY DEF Known, TypeOK, Row
    <2> QED
      BY <1>1, <2>1 DEF FinalizeOrder
  <1>2. ASSUME NEW r \in Req,
               \/ \E a \in Account, o \in Order : SubmitOrder(r, a, o)
               \/ SaveOrder(r) \/ SaveOrderResource(r)
               \/ (\E o \in Order : PollOrder(r, o)) \/ FetchOrder(r)
               \/ UpdateOrderStatus(r) \/ RejectFinalize(r) \/ BuildOrderResponse(r)
               \/ \E row \in res : HandleAuthz(r, row) \/ HandleCert(r, row)
               \/ CacheFingerprint(r)
               \/ LookupURL(r) \/ SaveURL(r) \/ RereadURL(r)
        PROVE  UNCHANGED <<handed, announced, csrs>>
    BY <1>2 DEF SubmitOrder, SaveOrder, SaveOrderResource, PollOrder, FetchOrder, UpdateOrderStatus,
                RejectFinalize, BuildOrderResponse, HandleAuthz, HandleCert, CacheFingerprint,
                LookupURL, SaveURL, RereadURL, ghosts
  <1>3. \A r \in Req : Respond(r) => csrs' = csrs
    BY DEF Respond
  <1>4. UNCHANGED vars \/ Restart \/ (\E o \in Order : Progress(o)) =>
            UNCHANGED <<handed, announced, csrs>>
    BY DEF Progress, Restart, vars, ghosts
  <1>5. \A l \in handed : GetResource(l.id) \subseteq res
    BY DEF GetResource
  <1> QED
    BY <1>1, <1>2, <1>3, <1>4, <1>5 DEF Next

\* Every step keeps orders stored as they were made.
LEMMA StepOrder ==
    ASSUME Known, [Next]_vars
    PROVE  OrderInv'
  <1>0. Frame
    BY StepFrame
  <1>1. ASSUME NEW o \in Order, Saved(o)'
        PROVE  Created(o)' /\ orders'[o].acct = ca'[o].acct /\ orders'[o].csr = ca'[o].rule
    <2>1. CASE Saved(o)
      BY <1>0, <2>1, Persists DEF Known, OrderInv, Frame, SameUpstream
    <2>2. CASE ~Saved(o)
      <3>1. ~(orders'[o].acct = orders[o].acct)
        BY <1>1, <2>2 DEF Saved
      <3>2. PICK r \in Req : /\ SaveOrder(r)
                             /\ req[r].order \in Order /\ Created(req[r].order)
                             /\ orders'[req[r].order].acct = ca[req[r].order].acct
                             /\ orders'[req[r].order].csr = ca[req[r].order].rule
                             /\ \A p \in Order \ {req[r].order} : orders'[p] = orders[p]
        BY <3>1, OrdersEffect
      <3>3. o = req[r].order /\ ca' = ca
        BY <3>1, <3>2 DEF SaveOrder
      <3> QED
        BY <3>2, <3>3 DEF Created
    <2> QED
      BY <2>1, <2>2
  <1>2. ASSUME NEW o \in Order, o \in announced'
        PROVE  Created(o)'
    <2>1. Created(o)
      <3>1. CASE o \in announced
        BY <3>1 DEF Known, OrderInv
      <3>2. ASSUME NEW r \in Req, Respond(r), o \notin announced
            PROVE  Created(o)
        <4>1. o = req[r].order /\ req[r].pc = "map"
          BY <1>2, <3>2 DEF Respond
        <4> QED
          BY <4>1 DEF Known, ReqInv, ReqOK
      <3> QED
        BY <1>2, <3>1, <3>2, GhostEffect
    <2> QED
      BY <1>0, <2>1, Persists
  <1>3. ASSUME NEW p \in csrs'
        PROVE  Created(p[1])'
    <2>1. p[1] \in Order /\ Created(p[1])
      BY GhostEffect DEF Known, OrderInv, TypeOK
    <2> QED
      BY <1>0, <2>1 DEF Frame, SameUpstream, Created
  <1>4. announced' \subseteq Order
    BY StepType DEF Known, ReqInv, TypeOK
  <1> QED
    BY <1>1, <1>2, <1>3, <1>4 DEF OrderInv

\* Only a CSR that the order's rule admits reaches the CA.
LEMMA StepRule ==
    ASSUME Known, RuleOutlivesConfig, [Next]_vars
    PROVE  RuleOutlivesConfig'
  <1>1. SUFFICES ASSUME NEW p \in csrs'
                 PROVE  ca'[p[1]].rule \in {AnyKey, p[2]}
    BY DEF RuleOutlivesConfig
  <1>2. p[1] \in Order /\ Created(p[1]) /\ ca[p[1]].rule \in {AnyKey, p[2]}
    <2>1. CASE p \in csrs
      BY <2>1 DEF Known, OrderInv, TypeOK, RuleOutlivesConfig
    <2>2. ASSUME NEW o \in Order, NEW k \in KeyType, Saved(o), orders[o].csr \in {AnyKey, k}, p = <<o, k>>
          PROVE  p[1] \in Order /\ Created(p[1]) /\ ca[p[1]].rule \in {AnyKey, p[2]}
      <3>1. Created(o) /\ orders[o].csr = ca[o].rule
        BY <2>2 DEF Known, OrderInv
      <3> QED
        BY <2>2, <3>1
    <2> QED
      BY <2>1, <2>2, GhostEffect
  <1> QED
    BY <1>2, StepFrame DEF Frame, SameUpstream

\* A row is added for a stored order, under a fresh ID, and none is replaced.
LEMMA StepMap ==
    ASSUME Known, [Next]_vars
    PROVE  MapInv'
  <1> DEFINE Good(l) == l.id < nextId' /\ orders'[l.order].acct # NoAccount
                        /\ (l.url[1] \in OwnKind => l.url[2] = l.order)
  <1>0. Frame
    BY StepFrame
  <1>a. \A l \in Mapped : l.order \in Order /\ l.id \in Nat /\ nextId \in Nat
    BY MappedType DEF Known, TypeOK, Link
  <1>b. nextId' \in Nat /\ nextId \in Nat
    BY StepType DEF Known, ReqInv, TypeOK
  <1>c. nextId' >= nextId => \A l \in Mapped : Good(l)
    BY <1>0, <1>a, <1>b DEF Known, MapInv, Frame, Saved
  <1>1. CASE res' = res /\ nextId' = nextId
    <2>1. Mapped' = Mapped
      BY <1>1 DEF Mapped
    <2> QED
      BY <1>1, <1>b, <1>c, <2>1 DEF Known, MapInv, Saved
  <1>2. ASSUME NEW r \in Req, NEW u \in req[r].todo, Added(req[r].order, u),
               req[r].pc \in {"save", "saveResource"}
        PROVE  MapInv'
    <2> DEFINE o == req[r].order
               new == [order |-> o, url |-> u, id |-> nextId]
    <2>1. o \in Order /\ Saved(o)
      BY <1>2 DEF Known, ReqInv, ReqOK
    <2>2. u[1] \in OwnKind => u[2] = o
      <3>1. CASE req[r].pc = "save"
        BY <3>1 DEF Known, ReqInv, ReqOK, NewOrderOK, LookupOK, LateURLs
      <3>2. CASE req[r].pc = "saveResource"
        <4>1. u \in Whole(o)
          BY <3>2, Makes DEF NewOrderOK
        <4>2. u = FinalizeURL(o) \/ u[1] = "authz"
          BY <4>1 DEF Whole, AuthzURL
        <4> QED
          BY <2>1, <4>2, URLs DEF OwnKind
      <3> QED
        BY <1>2, <3>1, <3>2
    <2>3. Mapped' = Mapped \union {new} /\ nextId' = nextId + 1
      BY <1>2 DEF Added
    <2>4. Good(new)
      BY <1>0, <1>b, <2>1, <2>2, <2>3 DEF Frame, Saved
    <2>5. new.id = nextId
      OBVIOUS
    <2> HIDE DEF new
    <2>6. \A l \in Mapped' : Good(l)
      BY <1>b, <1>c, <2>3, <2>4
    <2>7. \A l, m \in Mapped' : l.id = m.id => l = m
      <3>1. \A l \in Mapped : l.id < nextId
        BY DEF Known, MapInv
      <3> QED
        BY <1>a, <1>b, <2>3, <2>5, <3>1 DEF Known, MapInv
    <2>8. \A row \in res' : row.fp => row.url[1] \in {"cert", "alternate"}
      BY <1>2 DEF Added, Known, MapInv
    <2> QED
      BY <2>6, <2>7, <2>8 DEF MapInv, Saved
  <1>3. ASSUME NEW r \in Req, req[r].pc = "fingerprint", nextId' = nextId,
               SetFingerprint({l.id : l \in req[r].links})
        PROVE  MapInv'
    <2>1. /\ Mapped' = Mapped
          /\ \A row \in res' : \/ row \in res
                               \/ /\ row.id \in {l.id : l \in req[r].links}
                                  /\ \E old \in res : old.id = row.id /\ old.url = row.url
      BY <1>3, Fingerprinted DEF Known
    <2>2. ASSUME NEW row \in res', row.fp
          PROVE  row.url[1] \in {"cert", "alternate"}
      <3>1. CASE row \in res
        BY <2>2, <3>1 DEF Known, MapInv
      <3>2. CASE row \notin res
        <4>1. PICK l \in req[r].links : row.id = l.id
          BY <2>1, <3>2
        <4>2. PICK old \in res : old.id = row.id /\ old.url = row.url
          BY <2>1, <3>2
        <4>3. l \in Mapped /\ l.url[1] \in {"cert", "alternate"}
          BY <1>3 DEF Known, ReqInv, ReqOK
        <4>4. [order |-> old.order, url |-> old.url, id |-> old.id] = l
          BY <4>1, <4>2, <4>3, MappedType DEF Known, MapInv
        <4> QED
          BY <4>2, <4>3, <4>4
      <3> QED
        BY <3>1, <3>2
    <2> QED
      BY <1>3, <1>b, <1>c, <2>1, <2>2 DEF Known, MapInv, Saved
  <1> QED
    BY <1>1, <1>2, <1>3, MapEffect

\* What a response hands out is in the map.
LEMMA StepClient ==
    ASSUME Known, ClientInv, [Next]_vars
    PROVE  ClientInv'
  <1>0. Frame
    BY StepFrame
  <1>1. handed' \subseteq Mapped'
    <2>1. handed' \subseteq Mapped
      <3>1. ASSUME NEW r \in Req, Respond(r)
            PROVE  handed' \subseteq Mapped
        BY <3>1 DEF Respond, Known, ReqInv, ReqOK, ClientInv
      <3> QED
        BY <3>1, GhostEffect DEF ClientInv
    <2> QED
      BY <1>0, <2>1 DEF Frame
  <1>2. ASSUME NEW o \in announced'
        PROVE  Saved(o)' /\ \A u \in Whole(o)' : HasLink(o, u)'
    <2>1. o \in Order /\ Created(o) /\ Saved(o) /\ \A u \in Whole(o) : HasLink(o, u)
      <3>1. CASE o \in announced
        BY <3>1 DEF ClientInv, Known, OrderInv, TypeOK
      <3>2. ASSUME NEW r \in Req, Respond(r), o \notin announced
            PROVE  o \in Order /\ Created(o) /\ Saved(o) /\ \A u \in Whole(o) : HasLink(o, u)
        <4>1. o = req[r].order /\ req[r].op = "new" /\ req[r].pc = "map" /\ req[r].todo = {}
          BY <1>2, <3>2 DEF Respond
        <4> QED
          BY <4>1 DEF Known, ReqInv, ReqOK, NewOrderOK
      <3> QED
        BY <1>2, <3>1, <3>2, GhostEffect
    <2> QED
      BY <1>0, <2>1, Persists
  <1> QED
    BY <1>1, <1>2 DEF ClientInv

-----------------------------------------------------------------------------
(* The theorems *)

\* The inductive invariant holds in every reachable state.
THEOREM Invariance == Spec => []IInv
  <1>1. Init => IInv
    <2> SUFFICES ASSUME Init
                 PROVE  IInv
      OBVIOUS
    <2>1. TypeOK
      BY InitType
    <2>2. Mapped = {}
      BY DEF Init, Mapped
    <2>3. \A r \in Req : req[r].pc = "idle"
      BY DEF Init, IdleReq
    <2>4. \A o \in Order : ~Saved(o)
      BY DEF Init, Saved, NoRecord
    <2> QED
      BY <2>1, <2>2, <2>3, <2>4 DEF Init, IInv, OrderInv, MapInv, ReqOK, OneMaker, ClientInv,
                                    RuleOutlivesConfig
  <1>2. IInv /\ [Next]_vars => IInv'
    BY StepType, StepOrder, StepMap, StepReq, StepClient, StepRule DEF IInv, Known, ReqInv
  <1> QED
    BY <1>1, <1>2, PTL DEF Spec

\* The tables, the requests and the CA's orders keep their types: every row and every
\* link is about an order.
THEOREM TypeCorrect == Spec => []TypeOK
  <1>1. IInv => TypeOK
    BY DEF IInv
  <1> QED
    BY <1>1, Invariance, PTL

\* handleNewOrder, handleOrder, handleAuthz and handleCert: however many requests map
\* the same URL at once, and whatever saves fail, every URL in a response resolves to
\* the resource of that order.
THEOREM LinksAlwaysResolve == Spec => []LinksResolve
  <1>1. IInv => LinksResolve
    <2> SUFFICES ASSUME IInv, NEW l \in handed
                 PROVE  \E row \in res : row.id = l.id /\ row.order = l.order /\ row.url = l.url
      BY DEF LinksResolve
    <2>1. PICK row \in res : l = [order |-> row.order, url |-> row.url, id |-> row.id]
      BY DEF IInv, ClientInv, Mapped
    <2> QED
      BY <2>1
  <1> QED
    BY <1>1, Invariance, PTL

\* handleNewOrder: a client that knows of an order can finalize it and reach all its
\* authorizations.
THEOREM AnnouncedAlwaysWhole == Spec => []AnnouncedIsWhole
  <1>1. IInv => AnnouncedIsWhole
    <2> SUFFICES ASSUME IInv, NEW o \in announced
                 PROVE  /\ Saved(o)
                        /\ \A u \in Whole(o) : \E row \in res : row.order = o /\ row.url = u
      BY DEF AnnouncedIsWhole, Whole
    <2>1. Saved(o) /\ \A u \in Whole(o) : HasLink(o, u)
      BY DEF IInv, ClientInv
    <2>2. ASSUME NEW u \in Whole(o)
          PROVE  \E row \in res : row.order = o /\ row.url = u
      <3>1. PICK l \in Mapped : l.order = o /\ l.url = u
        BY <2>1 DEF HasLink
      <3>2. PICK row \in res : l = [order |-> row.order, url |-> row.url, id |-> row.id]
        BY DEF Mapped
      <3> QED
        BY <3>1, <3>2
    <2> QED
      BY <2>1, <2>2
  <1> QED
    BY <1>1, Invariance, PTL

\* handleFinalize: the CSR policy is that of the rule in force when the order was
\* routed, over any number of restarts with other configurations.
THEOREM RuleIsKept == Spec => []RuleOutlivesConfig
  <1>1. IInv => RuleOutlivesConfig
    BY DEF IInv
  <1> QED
    BY <1>1, Invariance, PTL

-----------------------------------------------------------------------------
(* Revocation *)

\* A cached fingerprint of o's certificate leads to a stored order.
Routed(o) == \E row \in res : row.fp /\ row.url[2] = o /\ Saved(row.order)

\* Whichever row the query returns, it leads to the account of the order.
RouteInv == \A o \in Order : RevokeTarget(o) = IF Routed(o) THEN ca[o].acct ELSE NoAccount

\* A fingerprint is cached in rows of the order's own certificate only.
LEMMA Routes ==
    ASSUME IInv
    PROVE  RouteInv
  <1> SUFFICES ASSUME NEW o \in Order
               PROVE  RevokeTarget(o) = IF Routed(o) THEN ca[o].acct ELSE NoAccount
    BY DEF RouteInv
  <1> DEFINE cached == {row \in ByCertFingerprint(o) : Saved(row.order)}
  <1>1. ASSUME NEW row \in cached
        PROVE  orders[row.order].acct = ca[o].acct
    <2> DEFINE l == [order |-> row.order, url |-> row.url, id |-> row.id]
    <2>1. row \in res /\ row.fp /\ row.url[2] = o /\ Saved(row.order)
      BY DEF ByCertFingerprint
    <2>2. l \in Mapped
      BY <2>1, MappedType DEF IInv
    <2>3. row.url[1] \in OwnKind
      BY <2>1 DEF IInv, MapInv, OwnKind
    <2>4. l.url[1] \in OwnKind => l.url[2] = l.order
      BY <2>2 DEF IInv, MapInv
    <2>5. row.order = o
      BY <2>1, <2>3, <2>4
    <2> QED
      BY <2>1, <2>5 DEF IInv, OrderInv
  <1>2. Routed(o) <=> cached # {}
    BY DEF Routed, ByCertFingerprint
  <1>3. RevokeTarget(o) = IF cached = {} THEN NoAccount
                          ELSE orders[(CHOOSE row \in cached : TRUE).order].acct
    BY DEF RevokeTarget
  <1>4. cached # {} => (CHOOSE row \in cached : TRUE) \in cached
    OBVIOUS
  <1> HIDE DEF cached
  <1> QED
    BY <1>1, <1>2, <1>3, <1>4

\* handleRevokeCert: once there is a cached route for an order's certificate it leads to
\* the account that ordered it, and no step of any request, on this or another order, and
\* no restart takes it away or points it elsewhere.
THEOREM RevocationRouted == Spec => RevocationStaysRouted
  <1> DEFINE Kept == \A o \in Order : RevokeTarget(o) # NoAccount =>
                          RevokeTarget(o) = ca[o].acct /\ RevokeTarget(o)' = ca[o].acct
  <1>1. IInv /\ RouteInv /\ RouteInv' /\ [Next]_vars => [Kept]_vars
    <2> SUFFICES ASSUME IInv, RouteInv, RouteInv', [Next]_vars, NEW o \in Order,
                        RevokeTarget(o) # NoAccount
                 PROVE  RevokeTarget(o) = ca[o].acct /\ RevokeTarget(o)' = ca[o].acct
      OBVIOUS
    <2>0. Known
      BY DEF IInv, Known, ReqInv
    <2>1. Routed(o) /\ RevokeTarget(o) = ca[o].acct
      BY DEF RouteInv
    <2>2. Created(o) /\ Frame
      <3>1. ca[o].acct \in Account \union {NoAccount}
        BY <2>0 DEF Known, TypeOK
      <3> QED
        BY <2>0, <2>1, <3>1, StepFrame DEF Created
    <2>3. PICK row \in res : row.fp /\ row.url[2] = o /\ Saved(row.order)
      BY <2>1 DEF Routed
    <2>4. \E new \in res' : new.fp /\ new.url = row.url /\ new.order = row.order
      BY <2>0, <2>3, MapEffect, Fingerprinted DEF Known, Added
    <2>5. Saved(row.order)'
      <3>1. row.order \in Order
        BY <2>0 DEF Known, TypeOK, Row
      <3> QED
        BY <2>2, <2>3, <3>1 DEF Frame, Saved
    <2>6. Routed(o)'
      BY <2>3, <2>4, <2>5 DEF Routed, Saved
    <2> QED
      BY <2>1, <2>2, <2>6 DEF RouteInv, Frame, SameUpstream
  <1>2. IInv => RouteInv
    BY Routes
  <1>3. Spec => []IInv /\ [][Next]_vars
    BY Invariance, PTL DEF Spec
  <1> QED
    BY <1>1, <1>2, <1>3, PTL DEF RevocationStaysRouted

=============================================================================
