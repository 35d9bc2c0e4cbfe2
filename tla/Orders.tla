------------------------------- MODULE Orders -------------------------------
(***************************************************************************)
(* Orders and the resource map: handleNewOrder, handleOrder, handleAuthz,  *)
(* handleFinalize, handleCert and handleRevokeCert of                      *)
(* internal/server/handlers.go over the orders and resource_map tables of  *)
(* internal/store.                                                         *)
(*                                                                         *)
(* Requests run concurrently and interleave at every statement and at      *)
(* every call of the CA; any of these may fail, and the process may stop   *)
(* between them.  The CA (external) mints a new order for every            *)
(* SubmitOrder, with its own finalize and certificate URLs, but may hand   *)
(* out one authorization in several orders of an account; so a gateway     *)
(* order is named by its upstream order.  Orders are bound to the upstream *)
(* account of their gateway account (slot -1).                             *)
(*                                                                         *)
(* Clients use each URL they were given under its own endpoint.  (The      *)
(* handlers do not look at resource_type, so an ID under another endpoint  *)
(* would be sent to the CA, whose answer to that is anyone's guess.)       *)
(***************************************************************************)
EXTENDS Naturals

CONSTANTS
    Account,    \* gateway accounts
    Order,      \* orders
    Authz,      \* authorizations of the CA
    Req,        \* concurrent HTTP requests
    KeyType,    \* CSR key types
    NoAccount, NoOrder,
    AnyKey,     \* require_csr_key_type is not set
    MaxRestart  \* bound on restarts

ASSUME OrdersAssumption ==
    /\ NoAccount \notin Account
    /\ NoOrder \notin Order
    /\ AnyKey \notin KeyType
    /\ MaxRestart \in Nat

VARIABLES
    rule,       \* require_csr_key_type of the routing rule in the configuration
    restarts,
    orders,     \* the orders table
    res,        \* the resource_map table
    nextId,     \* the next UUID
    req,        \* open requests
    ca,         \* the CA's orders
    handed,     \* resource URLs that clients have been given
    announced,  \* orders whose URL a client has been given
    refused,    \* orders of which "invalid" was stored after a definitive rejection
    csrs        \* CSR key types that reached the CA, per order

db == <<orders, res, nextId>>
ghosts == <<handed, announced, refused, csrs>>
vars == <<rule, restarts, db, req, ca, ghosts>>

-----------------------------------------------------------------------------
(* State *)

Status == {"pending", "ready", "processing", "valid", "invalid"}

FinalizeURL(o) == <<"finalize", o>>
CertURL(o) == <<"cert", o>>
AlternateURL(o) == <<"alternate", o>>
AuthzURL(z) == <<"authz", z>>
ChallengeURL(z) == <<"challenge", z>>

URL == ({"finalize", "cert", "alternate"} \X Order) \union ({"authz", "challenge"} \X Authz)

\* A row of resource_map.  Its resource_type follows from the upstream URL; fp:
\* the fingerprint of the order's certificate is cached.
Row == [id : Nat, order : Order, url : URL, fp : BOOLEAN]

\* A gateway URL in a response: the order the client asked about, the upstream
\* URL it stands for, and the gateway ID.
Link == [order : Order, url : URL, id : Nat]

NoRecord == [acct |-> NoAccount, status |-> "none", csr |-> AnyKey]

NoUpstream == [acct |-> NoAccount, status |-> "none", authz |-> {}, rule |-> AnyKey]

IdleReq == [pc |-> "idle", op |-> "none", order |-> NoOrder, todo |-> {},
            links |-> {}, seen |-> "none"]

ReqType == [pc : {"idle", "saveOrder", "saveResource", "poll", "update", "reject",
                  "build", "fingerprint", "map", "save", "reread"},
            op : {"none", "new", "order", "authz", "cert"},
            order : Order \union {NoOrder},
            todo : SUBSET URL,
            links : SUBSET Link,
            seen : Status \union {"none"}]

TypeOK ==
    /\ rule \in KeyType \union {AnyKey}
    /\ restarts \in Nat
    /\ orders \in [Order -> [acct : Account \union {NoAccount},
                             status : Status \union {"none"},
                             csr : KeyType \union {AnyKey}]]
    /\ res \in SUBSET Row
    /\ nextId \in Nat
    /\ req \in [Req -> ReqType]
    /\ ca \in [Order -> [acct : Account \union {NoAccount}, status : Status \union {"none"},
                         authz : SUBSET Authz, rule : KeyType \union {AnyKey}]]
    /\ handed \in SUBSET Link
    /\ announced \in SUBSET Order
    /\ refused \in SUBSET Order
    /\ csrs \in SUBSET (Order \X KeyType)

Init ==
    /\ rule \in KeyType \union {AnyKey}
    /\ restarts = 0
    /\ orders = [o \in Order |-> NoRecord]
    /\ res = {}
    /\ nextId = 0
    /\ req = [r \in Req |-> IdleReq]
    /\ ca = [o \in Order |-> NoUpstream]
    /\ handed = {}
    /\ announced = {}
    /\ refused = {}
    /\ csrs = {}

-----------------------------------------------------------------------------
(* internal/store *)

\* GetOrder: the order exists.
Saved(o) == orders[o].acct # NoAccount

\* Mutant: INSERT OR REPLACE.
InsertOrReplace(o, u) ==
    /\ nextId' = nextId + 1
    /\ res' = {row \in res : ~(row.order = o /\ row.url = u)} \union
              {[id |-> nextId, order |-> o, url |-> u, fp |-> FALSE]}

\* SaveResource under a new UUID: INSERT OR IGNORE on (order_id, upstream_url).
\* The UUID of an ignored row is stored nowhere and counts as unused.
Insert(o, u) ==
    IF \E row \in res : row.order = o /\ row.url = u
    THEN UNCHANGED <<res, nextId>>
    ELSE /\ nextId' = nextId + 1
         /\ res' = res \union {[id |-> nextId, order |-> o, url |-> u, fp |-> FALSE]}

\* GetResource, GetResourceByUpstreamURL, GetResourceByUpstreamURLAndOrder: the
\* query returns one of these rows.
GetResource(id) == {row \in res : row.id = id}

ByUpstreamURL(u) == {row \in res : row.url = u}

ByUpstreamURLAndOrder(u, o) == {row \in res : row.url = u /\ row.order = o}

\* GetResourceByCertFingerprint, for the certificate of o (its alternate chain has
\* the same leaf), and GetAuthzResourcesByOrderID.
ByCertFingerprint(o) == {row \in res : row.fp /\ row.url[2] = o}

AuthzResources(o) == {row \in res : row.order = o /\ row.url[1] = "authz"}

\* UpdateResourceCertFingerprint
SetFingerprint(ids) ==
    res' = {IF row.id \in ids THEN [row EXCEPT !.fp = TRUE] ELSE row : row \in res}

\* UpdateOrderStatus
SetStatus(o, status) == orders' = [orders EXCEPT ![o].status = status]

-----------------------------------------------------------------------------
(* The operations of internal/upstream/order.go, as the CA carries them out *)

\* Client.SubmitOrder: account a gets the new order o.
CreateOrder(o, a, Z, status) ==
    /\ ca[o] = NoUpstream
    /\ \A p \in Order : ca[p].authz \intersect Z # {} => ca[p].acct = a
    /\ ca' = [ca EXCEPT ![o] = [acct |-> a, status |-> status, authz |-> Z, rule |-> rule]]

\* Client.GetOrder
OrderStatus(o) == ca[o].status

\* Client.FinalizeOrder: the CA moves a ready order to s, or leaves it as it is.
Finalize(o, s) ==
    /\ s # ca[o].status => ca[o].status = "ready"
    /\ ca' = [ca EXCEPT ![o].status = s]

\* Client.GetAuthorization and Client.FetchCertificateWithAlternates: the URLs in
\* their answers.
ChallengesOf(authz) == {ChallengeURL(authz[2])}

AlternatesOf(cert) == {AlternateURL(cert[2])}

-----------------------------------------------------------------------------
(* The end of a request *)

Abort(r) == req' = [req EXCEPT ![r] = IdleReq]

\* The links collected so far are sent.
Respond(r) ==
    /\ req[r].pc = "map"
    /\ req[r].todo = {}
    /\ handed' = handed \union req[r].links
    /\ announced' = IF req[r].op = "new" THEN announced \union {req[r].order} ELSE announced
    /\ Abort(r)
    /\ UNCHANGED <<rule, restarts, db, ca, refused, csrs>>

-----------------------------------------------------------------------------
(* handleNewOrder *)

\* Route, GetClientForAccount and SubmitOrder.  The routing rule is read here.
\* (An error of any of them is an answer that changes nothing.)
SubmitOrder(r, a, o) ==
    /\ req[r].pc = "idle"
    /\ \E Z \in (SUBSET Authz) \ {{}}, status \in {"pending", "ready"} :
          /\ CreateOrder(o, a, Z, status)
          /\ req' = [req EXCEPT ![r] =
                       [IdleReq EXCEPT !.pc = "saveOrder", !.op = "new", !.order = o,
                                       !.seen = status,
                                       !.todo = {FinalizeURL(o)} \union
                                                {AuthzURL(z) : z \in Z}]]
    /\ UNCHANGED <<rule, restarts, db, ghosts>>

\* SaveOrder, with the rule of the routing decision.
SaveOrder(r) ==
    LET o == req[r].order IN
    /\ req[r].pc = "saveOrder"
    /\ \/ /\ orders' = [orders EXCEPT ![o] = [acct |-> ca[o].acct, status |-> req[r].seen,
                                              csr |-> rule]]
          /\ req' = [req EXCEPT ![r].pc = "saveResource"]
       \/ /\ UNCHANGED orders
          /\ Abort(r)
    /\ UNCHANGED <<rule, restarts, res, nextId, ca, ghosts>>

\* Mutant: an error of SaveResource is ignored.
SaveOrderResourceUnchecked(r) ==
    LET o == req[r].order IN
    /\ req[r].pc = "saveResource"
    /\ \E u \in req[r].todo :
          /\ Insert(o, u) \/ UNCHANGED <<res, nextId>>
          /\ req' = [req EXCEPT ![r].todo = @ \ {u},
                                ![r].pc = IF req[r].todo = {u} THEN "map" ELSE @]
    /\ UNCHANGED <<rule, restarts, orders, ca, ghosts>>

\* SaveResource for the finalize URL and then for each authorization.  The ID in
\* the response is the one generated here, not one read back.
SaveOrderResource(r) ==
    LET o == req[r].order IN
    /\ req[r].pc = "saveResource"
    /\ \/ \E u \in req[r].todo :
             /\ FinalizeURL(o) \in req[r].todo => u = FinalizeURL(o)
             /\ Insert(o, u)
             /\ req' = [req EXCEPT ![r].todo = @ \ {u},
                                   ![r].links = @ \union {[order |-> o, url |-> u, id |-> nextId]},
                                   ![r].pc = IF req[r].todo = {u} THEN "map" ELSE @]
       \/ /\ UNCHANGED <<res, nextId>>
          /\ Abort(r)
    /\ UNCHANGED <<rule, restarts, orders, ca, ghosts>>

-----------------------------------------------------------------------------
(* handleOrder, and the order response it shares with handleFinalize *)

\* The client polls an order of its own: the row, with the stored status, is read.
PollOrder(r, o) ==
    /\ req[r].pc = "idle"
    /\ Saved(o)
    /\ o \in announced
    /\ req' = [req EXCEPT ![r] = [IdleReq EXCEPT !.op = "order", !.order = o, !.pc = "poll",
                                                 !.seen = orders[o].status]]
    /\ UNCHANGED <<rule, restarts, db, ca, ghosts>>

\* The upstream order, and a comparison with the status read before; or an error.
FetchOrder(r) ==
    LET status == OrderStatus(req[r].order) IN
    /\ req[r].pc = "poll"
    /\ \/ req' = [req EXCEPT ![r].seen = status,
                            ![r].pc = IF status # req[r].seen THEN "update" ELSE "build"]
       \/ Abort(r)
    /\ UNCHANGED <<rule, restarts, db, ca, ghosts>>

\* UpdateOrderStatus; its error is ignored.
UpdateOrderStatus(r) ==
    /\ req[r].pc = "update"
    /\ SetStatus(req[r].order, req[r].seen) \/ UNCHANGED orders
    /\ req' = [req EXCEPT ![r].pc = "build"]
    /\ UNCHANGED <<rule, restarts, res, nextId, ca, ghosts>>

\* buildOrderResponse: the finalize URL, found by upstream URL alone, the authz
\* URLs of the order (left out if they cannot be read), and what is left to map:
\* the certificate of a valid order.
BuildOrderResponse(r) ==
    LET o == req[r].order
        finalize == ByUpstreamURL(FinalizeURL(o)) IN
    /\ req[r].pc = "build"
    /\ \/ \E rows \in {finalize, finalize \union AuthzResources(o)} :
             req' = [req EXCEPT ![r].links = {[order |-> o, url |-> row.url, id |-> row.id] :
                                                 row \in rows},
                                ![r].todo = IF req[r].seen = "valid" THEN {CertURL(o)} ELSE {},
                                ![r].seen = "none", ![r].pc = "map"]
       \/ Abort(r)
    /\ UNCHANGED <<rule, restarts, db, ca, ghosts>>

-----------------------------------------------------------------------------
(* handleFinalize *)

\* Mutant: the key type is checked against the rule of the running configuration.
FinalizeByCurrentRule(r, row, k) ==
    LET o == row.order IN
    /\ req[r].pc = "idle"
    /\ row.url = FinalizeURL(o)
    /\ rule \in {AnyKey, k}
    /\ csrs' = csrs \union {<<o, k>>}
    /\ UNCHANGED <<rule, restarts, db, req, ca, handed, announced, refused>>

\* Statuses of an error of the CA that represent the cases; 0, the error is not an
\* ACME problem (transport, undecodable).
UpstreamError == {0, 201, 403, 408, 429, 503}

RelayUpstreamError(e) == IF e = 0 THEN 500 ELSE IF e \in 400 .. 599 THEN e ELSE 502

IsDefinitiveRejection(status) == status \in 400 .. 499 /\ status \notin {408, 429}

\* The CSR's key type must be the one stored with the order.  FinalizeOrder then
\* succeeds; or it ends in an error.  Rejecting it for good, the CA may leave the
\* order as it was; after a transient error nobody knows whether it went ahead.
FinalizeOrder(r, row, k) ==
    LET o == row.order
        Terminal(e) == IsDefinitiveRejection(RelayUpstreamError(e)) IN
    /\ req[r].pc = "idle"
    /\ row.url = FinalizeURL(o)
    /\ Saved(o)
    /\ orders[o].csr \in {AnyKey, k}
    /\ csrs' = csrs \union {<<o, k>>}
    /\ \/ /\ ca[o].status = "ready"
          /\ \E s \in {"processing", "valid"} :
                /\ Finalize(o, s)
                /\ req' = [req EXCEPT ![r] = [IdleReq EXCEPT !.op = "order", !.order = o,
                                                             !.seen = s, !.pc = "update"]]
       \/ \E e \in UpstreamError, s \in {ca[o].status, "processing", "valid", "invalid"} :
             /\ Finalize(o, s)
             /\ Terminal(e) => s \in {ca[o].status, "invalid"}
             /\ req' = IF Terminal(e)
                       THEN [req EXCEPT ![r] = [IdleReq EXCEPT !.order = o, !.pc = "reject"]]
                       ELSE req
    /\ UNCHANGED <<rule, restarts, db, handed, announced, refused>>

\* Mutant: a status that ACME orders do not have.
RejectByOddStatus(r) ==
    /\ req[r].pc = "reject"
    /\ SetStatus(req[r].order, "rejected")
    /\ Abort(r)
    /\ UNCHANGED <<rule, restarts, res, nextId, ca, ghosts>>

\* A definitive rejection is stored as "invalid" and relayed to the client.
RejectFinalize(r) ==
    LET o == req[r].order IN
    /\ req[r].pc = "reject"
    /\ \/ /\ SetStatus(o, "invalid")
          /\ refused' = refused \union {o}
       \/ UNCHANGED <<orders, refused>>
    /\ Abort(r)
    /\ UNCHANGED <<rule, restarts, res, nextId, ca, handed, announced, csrs>>

-----------------------------------------------------------------------------
(* handleAuthz and handleCert *)

\* The authorization is fetched; its challenge is to be mapped.
HandleAuthz(r, row) ==
    /\ req[r].pc = "idle"
    /\ row.url[1] = "authz"
    /\ Saved(row.order)
    /\ req' = [req EXCEPT ![r] = [IdleReq EXCEPT !.op = "authz", !.order = row.order,
                                                 !.todo = ChallengesOf(row.url),
                                                 !.pc = "map"]]
    /\ UNCHANGED <<rule, restarts, db, ca, ghosts>>

\* The certificate is fetched, with the URL of its alternate chain.
HandleCert(r, row) ==
    /\ req[r].pc = "idle"
    /\ row.url[1] \in {"cert", "alternate"}
    /\ Saved(row.order)
    /\ req' = [req EXCEPT ![r] =
                 [IdleReq EXCEPT !.op = "cert", !.order = row.order,
                                 !.todo = AlternatesOf(row.url),
                                 !.links = {[order |-> row.order, url |-> row.url, id |-> row.id]},
                                 !.pc = IF row.fp THEN "map" ELSE "fingerprint"]]
    /\ UNCHANGED <<rule, restarts, db, ca, ghosts>>

\* The fingerprint is cached in the row that was asked for; an error is logged.
CacheFingerprint(r) ==
    /\ req[r].pc = "fingerprint"
    /\ SetFingerprint({l.id : l \in req[r].links}) \/ UNCHANGED res
    /\ req' = [req EXCEPT ![r].pc = "map"]
    /\ UNCHANGED <<rule, restarts, orders, nextId, ca, ghosts>>

-----------------------------------------------------------------------------
(* Mapping an upstream URL to a gateway ID on first sight *)

\* Mutant: every lookup goes by the upstream URL alone.
FoundInAnyOrder(r) == UNION {ByUpstreamURL(u) : u \in req[r].todo}

\* The row of the URL in the request's order.  The certificate of an order
\* response is looked up by its URL alone.
Found(r) ==
    UNION {IF req[r].op = "order" THEN ByUpstreamURL(u)
           ELSE ByUpstreamURLAndOrder(u, req[r].order) : u \in req[r].todo}

\* The row's ID goes into the response.
Use(r, row) ==
    req' = [req EXCEPT ![r].links = @ \union {[order |-> req[r].order, url |-> row.url,
                                              id |-> row.id]},
                       ![r].todo = {},
                       ![r].pc = "map"]

\* A URL that could not be mapped: handleAuthz fails, the others leave it out.
GiveUp(r) ==
    IF req[r].op = "authz" THEN Abort(r)
    ELSE req' = [req EXCEPT ![r].todo = {}, ![r].pc = "map"]

\* buildOrderResponse takes a lookup that failed for one that found nothing.
LookupURL(r) ==
    /\ req[r].pc = "map"
    /\ req[r].todo # {}
    /\ \/ \E row \in Found(r) : Use(r, row)
       \/ /\ Found(r) = {} \/ req[r].op = "order"
          /\ req' = [req EXCEPT ![r].pc = "save"]
       \/ /\ req[r].op # "order"
          /\ GiveUp(r)
    /\ UNCHANGED <<rule, restarts, db, ca, ghosts>>

\* SaveResource.  buildOrderResponse ignores its error and reads on.
SaveURL(r) ==
    /\ req[r].pc = "save"
    /\ \/ /\ \E u \in req[r].todo : Insert(req[r].order, u)
          /\ req' = [req EXCEPT ![r].pc = "reread"]
       \/ /\ UNCHANGED <<res, nextId>>
          /\ IF req[r].op = "order" THEN req' = [req EXCEPT ![r].pc = "reread"]
                                    ELSE GiveUp(r)
    /\ UNCHANGED <<rule, restarts, orders, ca, ghosts>>

\* Whoever's row was stored is the one that counts.
RereadURL(r) ==
    /\ req[r].pc = "reread"
    /\ \/ \E row \in Found(r) : Use(r, row)
       \/ GiveUp(r)
    /\ UNCHANGED <<rule, restarts, db, ca, ghosts>>

-----------------------------------------------------------------------------
(* handleRevokeCert *)

\* The routing decision: the account whose upstream client signs the revocation of
\* o's certificate, that of the order the cached fingerprint leads to.  Without
\* one the request goes to slot 0 of the default upstream, nobody's (NoAccount).
RevokeTarget(o) ==
    LET cached == {row \in ByCertFingerprint(o) : Saved(row.order)} IN
    IF cached = {} THEN NoAccount
    ELSE orders[(CHOOSE row \in cached : TRUE).order].acct

-----------------------------------------------------------------------------
(* The CA and restarts *)

\* The CA validates the authorizations, or issues.
Progress(o) ==
    /\ \/ ca[o].status = "pending" /\ \E s \in {"ready", "invalid"} :
                                        ca' = [ca EXCEPT ![o].status = s]
       \/ ca[o].status = "processing" /\ \E s \in {"valid", "invalid"} :
                                           ca' = [ca EXCEPT ![o].status = s]
    /\ UNCHANGED <<rule, restarts, db, req, ghosts>>

\* The process stops, in the middle of any request, and comes back, perhaps with
\* another configuration.
Restart ==
    /\ restarts < MaxRestart
    /\ restarts' = restarts + 1
    /\ rule' \in KeyType \union {AnyKey}
    /\ req' = [r \in Req |-> IdleReq]
    /\ UNCHANGED <<db, ca, ghosts>>

Next ==
    \/ \E r \in Req :
          \/ \E a \in Account, o \in Order : SubmitOrder(r, a, o)
          \/ SaveOrder(r) \/ SaveOrderResource(r)
          \/ \E o \in Order : PollOrder(r, o)
          \/ FetchOrder(r) \/ UpdateOrderStatus(r) \/ RejectFinalize(r) \/ BuildOrderResponse(r)
          \/ \E l \in handed : \E row \in GetResource(l.id) :
                \/ HandleAuthz(r, row)
                \/ HandleCert(r, row)
                \/ \E k \in KeyType : FinalizeOrder(r, row, k)
          \/ CacheFingerprint(r)
          \/ LookupURL(r) \/ SaveURL(r) \/ RereadURL(r)
          \/ Respond(r)
    \/ \E o \in Order : Progress(o)
    \/ Restart

Spec == Init /\ [][Next]_vars

-----------------------------------------------------------------------------
(* Safety *)

\* Every URL a client was given keeps resolving to a resource of the order it
\* asked about: not to one that a concurrent request's INSERT OR IGNORE dropped,
\* and not to another order that shares the upstream URL.
LinksResolve ==
    \A l \in handed : \E row \in res :
        row.id = l.id /\ row.order = l.order /\ row.url = l.url

\* An order that a client knows of is whole: however late handleNewOrder failed
\* or was cut short, no client holds an order without its finalize and authz URLs.
AnnouncedIsWhole ==
    \A o \in announced :
        /\ Saved(o)
        /\ \A u \in {FinalizeURL(o)} \union {AuthzURL(z) : z \in ca[o].authz} :
              \E row \in res : row.order = o /\ row.url = u

\* A CSR reaches the CA only with the key type that the routing rule required
\* when the order was created, whatever the configuration says by now.
RuleOutlivesConfig ==
    \A p \in csrs : ca[p[1]].rule \in {AnyKey, p[2]}

\* Once the fingerprint of an order's certificate is cached, the revocation of the
\* certificate goes to the account that ordered it and to no other, for good: no poll
\* or download that races on the mapping of the certificate, and no restart, drops the
\* fingerprint or the row that holds it.
RevocationStaysRouted ==
    [][\A o \in Order : RevokeTarget(o) # NoAccount =>
            RevokeTarget(o) = ca[o].acct /\ RevokeTarget(o)' = ca[o].acct]_vars

-----------------------------------------------------------------------------
(* Statements of the repository that the code does not meet *)

\* handlers.go:1072-1075: a definitive rejection "is terminal: mark our order
\* invalid so the client sees a final state".
RejectionIsFinal == \A o \in refused : orders[o].status = "invalid"

=============================================================================
