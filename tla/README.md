# TLA+ verification of acme-gateway

acme-gateway is an ACME (RFC 8555) server that keeps no CA of its own: it
authenticates clients, routes every order to an upstream CA (Let's Encrypt,
DigiCert, ...), answers dns-01 challenges by running DNS hook scripts, and hands
the upstream's resources back under URLs of its own.  This directory models the
parts in which requests, background goroutines, the database, the CA and
restarts interleave.

* [Inventory](#inventory)
* [Modules and code](#modules-and-code)
* [Runs](#runs)
* [Bounds, fairness and symmetry](#bounds-fairness-and-symmetry)
* [Proofs](#proofs)
* [What is not modelled](#what-is-not-modelled)
* [Plan](#plan)

Paths below are relative to the repository; `handlers.go` is
`internal/server/handlers.go`.

## Inventory

| Component | State | Operations | Talks to |
|---|---|---|---|
| Challenge processing (`handlers.go`, `dns_policy.go`) | `Handler.challengeProc`, a `sync.Map` from challenge to `*challengeProgress`; one goroutine and at most one cleanup watcher per record; the TXT record in DNS | `handleChallenge`, `beginChallengeProc`, `evictStaleChallengeProc`, `startChallengeProcessing`, `prepareDNS01Challenge`, `waitForDNSPropagation`, the overlay in `handleAuthz` | CA (authorization, trigger), hook scripts, authoritative nameservers |
| Replay nonces (`store/nonces.go`, `store/store.go`) | table `nonces` | `IssueNonce`, `ConsumeNonce`, `PruneExpiredNonces` | every handler; SQLite in WAL mode |
| Orders and resource map (`handlers.go`, `store/orders.go`, `store/resources.go`) | tables `orders`, `resource_map` | `handleNewOrder`, `handleOrder`, `handleAuthz`, `handleFinalize`, `handleCert`, `handleRevokeCert`, `buildOrderResponse`, `ensureGatewayCertURL` | CA, account pool, router |
| Upstream account pool (`upstream/pool.go`, `upstream/account.go`) | `accountClients`, per-account registration locks, table of upstream accounts | `GetClientForAccount`, `Register`, `SaveUpstreamAccountForAccount`; legacy slots | CA (new-account), store |
| Gateway accounts (`handlers.go`, `store/accounts.go`) | table `accounts` | `handleNewAccount`, `resolveAccount`, `resolveAndVerify` | nonce store, JWS |
| Upstream client (`upstream/client.go`, `order.go`) | nonce ring, cached directory | `getNonce`, `saveNonce`, `signedPost` with badNonce retry, link parsing | CA |
| Propagation and delegation (`dns_policy.go`) | per-nameserver streaks | `waitForDNSPropagation`, `quorumRequirement`, `resolveDelegatedFQDN` | DNS |
| JWS (`server/jws.go`) | none | `ParseJWS`, `VerifySignature`, `KeyTypeFromJWK` | every POST |
| Router (`router/router.go`) | the loaded routing section | `Route`, `ResolveUpstreamProfile` | new-order |
| Configuration (`config/config.go`) | the loaded file | `Load`, `validate`, `validateDNSHookPolicy` and the policies' defaults | router, hooks, bootstrap |
| Bootstrap (`bootstrap/*.go`) | key, certificate, account key and account URL files; the certificate being served | `Bootstrap`, `renewalLoop`, `acquire` | CA, hooks, server |
| Server (`server/server.go`) | TLS certificate pointer | `SetCertificate`, route table | bootstrap |
| Health, schema migration, `main`, `acme-probe` | none of their own | wiring and diagnostics | all |

What is hard here, and what correctness means:

* **Answering a challenge is asynchronous.**  A POST returns at once and a
  goroutine deploys, waits and triggers.  Retries, authorization polls, the sweep
  of old records and the goroutine share one map, in which two places delete by
  key.  Correct: one goroutine per challenge, no "processing" record without a
  goroutine, failures that reach the client, records that stay published until
  the CA has looked and are removed afterwards, goroutines that end.
* **A nonce is spent in a read-then-write transaction** on a database that other
  connections write to.  Correct: no nonce is accepted twice, none is lost while
  it is valid.
* **Upstream URLs are mapped on first sight** by whichever request sees them
  first, and the CA may show one authorization in several orders.  Correct: each
  URL handed out resolves, to the right order; an order that a client knows of is
  complete.
* **The first order of an account registers an upstream account** with several
  failing steps and possibly several concurrent callers.  Correct: one upstream
  account per gateway account and CA, persisted before use.
* **A request may arrive twice, late or at another endpoint**, and its copies run
  concurrently; the nonce is used up before the signature is looked at, and the
  account is looked up and saved in two steps.  Correct: what a client signs once
  is done at most once, on behalf of the account whose key signed it, and goes to
  the upstream that the configuration file names for it.
* **DNS answers are unreliable twice over**: when the delegation is followed, and
  when the record is awaited.  Correct: the record is where the CA will look, a
  quorum is one, and the wait ends in time whatever the nameservers do.
* **The gateway's own certificate** takes a dozen failing steps and two files that
  cannot be replaced together.  Correct: an account and a pair to serve survive
  restarts, no TXT record is forgotten, no renewal is missed in silence.
* **Nothing is journaled.**  A restart loses the map, the watchers and every open
  request, and may bring another configuration.

`PROJECT.json` lists each hazard at the line where it bites, with the properties
that cover it.

## Modules and code

Each module has one action per statement, call of the CA or lock operation at
which other goroutines can interleave; local computation in between is part of
the action.  An operator whose comment starts with "Mutant:" is a plausible bug
kept beside the definition it would replace; no specification uses it.
`MC*.tla` add symmetry sets and, where a constant is a function or a set of records
(`MCChallengeProc`, `MCDNSPolicy`, `MCFrontend`), its value.

**`ChallengeProc`.**  Every record is created with the goroutine that owns it, so
a record is named by its `Worker`; `challengeProc[c]` is the worker stored under
key `c` and the record's status is a function of that worker's `pc`.
`FetchChallenge`, `LoadProgress`, `EvictVisit`, `EvictDelete` and
`BeginChallengeProc` are `handleChallenge` in the order in which it reads the CA,
the map, the clock and the map again.  `Prepare`, `Deploy`, `Propagate`,
`TriggerChallenge` and `Unregister` are the goroutine, `Cleanup` the watcher.
Hooks, nameservers and the CA (`Validate`) are nondeterministic; a deploy script
may publish and still fail, and the trigger may reach the CA although the gateway
sees an error.  The CA is an ideal one in that a trigger that reaches it ends
"pending" at once.  `UpstreamURL` takes a gateway challenge to the CA's: where two
orders share a pending authorization, two gateway IDs stand for one upstream
challenge and one TXT record, and their workers (`Target`) and watchers work on the
same one.  Time is a counter: a step bounded by a context or an HTTP timeout
stops the clock (`Tick`) until it is taken, and contexts that have ended close
the successful branches.  `Failed` is what `handleAuthz` overlays; the rest of that
handler is in `Orders`.

**`NonceStore`** models what the transaction of `ConsumeNonce` may assume of
SQLite in WAL mode: it reads from a snapshot (`ConsumeSelect`), and its first
write must upgrade to the single write lock, which fails at once if the snapshot
is stale or the lock is taken (`ConsumeDelete`).  Autocommitted statements
(`IssueNonce`, `PruneExpiredNonces`, `OtherWrite`) wait for the lock.  The prune
compares text written in RFC 3339 with the driver's own rendering of a time, so
which of the expired rows it removes is left open.  **`OneTimeNonce`** is the
abstract promise: issued once, live, spent at most once or lapsed; `NonceStatus`
is the refinement mapping.

**`Orders`.**  Orders are named by their upstream order; resource rows carry a UUID
from a counter.  `SubmitOrder`, `SaveOrder`, `SaveOrderResource` are
`handleNewOrder`; `PollOrder` (the stored row), `FetchOrder` (the CA's answer),
`UpdateOrderStatus` and `BuildOrderResponse` are `handleOrder`; `FinalizeOrder`,
`RejectFinalize` are `handleFinalize` (which joins `handleOrder` at the status
update); `HandleAuthz`, `HandleCert`, `CacheFingerprint` begin those handlers.  The
look-up, insert-or-ignore and re-read that `handleAuthz`, `ensureGatewayCertURL` and
`buildOrderResponse` share are `LookupURL`, `SaveURL`, `RereadURL`, with each
caller's own reaction to an error (`GiveUp`).  `RevokeTarget` is the routing decision
of `handleRevokeCert`, the account by which a revocation would be sent; its signature
and ownership checks and the call itself change no state of the gateway and are left
out. Clients use a URL they were given under the endpoint it was given for
(`GetResource` itself does not look at the row's type).  The CA's finalize and
certificate URLs belong to one order; an authorization has one challenge and an
order's certificate one alternate chain, since the code treats each in turn in the
same way.  The variables `handed`, `announced`, `refused` and `csrs` record what
clients and the CA have been shown.

**`AccountPool`.**  `FastPath`, `AccountRegLock`, `Recheck`, `LoadAccount`,
`Register`, `SaveUpstreamAccount`, `CacheClient` are `GetClientForAccount` from
its first cache look-up to its last.  A client is named by its key.  A failed
registration or save may have taken effect.

**`UpstreamClient`.**  `Start`, `GetNonce`, `Directory`, `HeadNonce`, `Send` and
`Answer` are `signedPostWithHeaders` with `getNonce` and `saveNonce`; one action
per critical section of the client's mutex and per HTTP round trip.  A call whose
look-up found the ring empty goes on to fetch a nonce although another may have
been saved meanwhile.  The CA (external) rejects a nonce that it has forgotten
(`Expire`).  Names of nonces that nobody holds are used again, so the model needs
no bound on the number of posts.  **`NonceQueue`** is what the
ring implements, with the slots from `nonceHead` on as refinement mapping.

**`Frontend`** is what happens before `Orders` begins.  Clients `Sign` messages;
`Arrive` hands a message to a handler, any number of times and at either endpoint.
`ParseAndValidateJWS` checks the url and consumes the nonce; `LookUpAccount` and
`SaveAccount` are `handleNewAccount` with the gap between `GetAccount` and the
`INSERT OR REPLACE`; `RouteOrder` (`resolveAccount`, the signature, the routing
decision) and `SubmitOrder` are `handleNewOrder` up to the call of the CA.  A
message is a record of who signed it and what it says; its signature is good for
the key of its signer.  `file` is the routing section as written, `config` as
`Load` leaves it (`require_csr_key_type` is rewritten in upper case, `key_type` is
only compared so), and `Restart` brings another file or one that `Validate`
refuses.  `Matches`, `Route` and `ResolveUpstreamProfile` are the router;
`GoesAsWritten` is the reference they are checked against, a reading of the file
without a normalised copy.

**`DNSPolicy`** is one challenge's way through `dns_policy.go`: `LookupCNAME` is a
turn of the CNAME walk, in which a resolver may answer with the next name, with the
end of the chain, or not at all (`Chain` is the least set of names that CNAME records
do not lead out of, stated without recursion so that it can be reasoned about); `Deploy`, then the rounds of
`waitForDNSPropagation` (`AuthoritativeNameservers`, `QueryTXT`, `EndRound`,
`Poll`) with each nameserver's streak, and `Settle`.  Policies are taken as they
are written, zero and negative numbers included, through `ValidateDNSHookPolicy`
and the `...OrDefault` methods.  `missed` and `round` remember when each nameserver
last failed, so that `QuorumIsStable` need not trust the counters it is about.

**`Bootstrap`** has `acquire` with one action per call of the CA, hook or file
write, `Bootstrap` and `run` (`Start`, `Exit`) and the renewal loop (`Check`,
`LoadRenewed`).  Files outlive `Crash`, memory does not.  A failed write leaves the
file as it was, since `atomicWrite` renames.  A certificate carries the time it has
left and `Tick` takes from it, so certificates are renewed for ever within a finite
state space; keys that nobody holds are used again for the same reason.  Each
crash, error or change of the configured CA costs one of `MaxFault` faults.  `record`
says that the hook has published the record of the authorization under way, `stray`
counts the records left in the zone, by a hook that failed or was killed (it may have
done its work or not), by a start that ran out of time or by a crash, and `excused`
counts those; `torn` says that the certificate was not written after its key.

The modules meet at narrow interfaces.  `Frontend` uses the nonce table only
through `OneTimeNonce`, which `NonceStore` is shown to implement: so
`SignedOnceActsOnce` rests on the SQLite transaction.  Its `SubmitOrder` is the
first action of `Orders`, whose rule `RuleOutlivesConfig` is the
`require_csr_key_type` that `RoutedAsWritten` speaks of.  `DNSPolicy` details the
step `Propagate` of `ChallengeProc`, which takes either outcome at any time up to
the worker's deadline.  `Orders` and `ChallengeProc` use the pool only for a
client, which `AccountPool` shows to be the same one each time; each call of the CA
in the other modules is one signed post, whose duration (`TriggerBound`) and way to
fail `UpstreamClient` details; `ChallengeProc` and `Orders` both model a part of
`handleAuthz` (the overlay and the mapping) that touch disjoint state.

## Runs

Passing runs:

| Run | What it shows |
|---|---|
| `challenge_proc` | Three challenges, of which two are one upstream challenge with hooks and the third has none, two POSTs at a time, two goroutines, a clock beyond the retention, a restart. A "processing" record has a live goroutine (`ProcessingHasWorker`); a worker that published its record finds it published when it triggers, although its own watcher runs and another challenge may share the record (`RecordStaysUntilTrigger`, except for the watcher of a worker that failed); the sweep, which looks only at ages, never picks a record in flight (`SweepSparesInFlight`); a running worker is the registered one (`SingleFlight`) unless a failed record of its own challenge has outlived the retention (`Young`). Until a restart, a record that is still published has a worker or a watcher in charge of it, or belongs to a worker that failed (`RecordHasCustodian`). Under fairness every goroutine ends (`WorkerSettles`) and every watcher runs its hook (`WatcherCleansUp`), even if the CA never validates. |
| `nonce_safety` | Three transactions over three nonces with prunes, other writers, rollbacks and crashes: `SingleUse`, `LiveNonceKept`, and refinement of `OneTimeNonce`. |
| `orders_shared` | Two orders share an authorization, two requests race on its challenge, any save fails: `LinksResolve`, `AnnouncedIsWhole`. |
| `orders_flow` | One order and two requests at a time, from new-order to the download of the certificate, with a restart that changes the routing rule: finalize enforces the rule the order was created under (`RuleOutlivesConfig`), and once a fingerprint is cached the routing decision of a revocation stays with the account that ordered, although polls and downloads race on the certificate's mapping (`RevocationStaysRouted`). |
| `pool_calls` | Three concurrent calls, two accounts, failures and a crash: `DeterministicRouting`, `GivenIsRegistered`, and every call returns (`CallReturns`). |
| `client_posts` | Three posts at a time over a ring of two nonces, three attempts each: a nonce signs one request (`NonceUsedOnce`), and the ring, wrapping around and dropping at its capacity, is a queue (`RingIsQueue`). |
| `frontend_requests` | Requests of two clients (orders under one's own and another's account, with and without an account, with a `jwk` where a `kid` belongs), two signed, each delivered at will to two handlers, with failing saves and a restart under one of five files: one nonce, one order (`SignedOnceActsOnce`); orders and accounts are their signer's (`OrderIsAuthentic`); an account URL once given stays good although two requests look up before either saves (`AnnouncedAccountResolves`); first matching rule, default, profile and CSR demand as the file reads (`RoutedAsWritten`). |
| `dns_policy` | Three nameservers under twelve policies for the wait; chains of up to three CNAME records and loops under four policies for the walk. The record goes to a name of the chain, and in strict mode to its end or nowhere if that end exists before the deploy (`RecordWhereCALooks`); `QuorumIsStable`; rounds and time are bounded (`WaitIsBounded`); after a successful deploy a wait that fails does not keep the CA from being triggered (`BestEffort`); `WaitEnds`. |
| `bootstrap_renew` | Four faults anywhere in acquisitions and renewals: the files hold a pair for a restart, no older than the one served, except between the two writes (`RestartKeepsCertificate`); one account (`AccountIsKept`); every way out of `acquire` after a successful deploy goes through a cleanup, and every record left in the zone has a failed hook, a timed-out start or a crash of its own (`NoRecordForgotten`); an expired certificate takes a failure at every check of the window (`ExpiredOnlyAfterFailures`); once faults cease, a certificate that is not about to expire is served again and again (`StaysCertified`). |

Runs that end in a counterexample, each about a sentence of the repository that
the code does not meet (quoted under `findings` in `PROJECT.json`):

| Run | Sentence | What happens |
|---|---|---|
| `challenge_retry` | a retried POST "does not re-deploy or re-trigger" | The POST reads "pending" from the CA, the worker triggers and deletes its record, the POST's `Load` misses and a second worker starts. |
| `challenge_sweep` | the sweep "removes challenge processing records older than the retention window" | Two sweeps pick one old record; the first deletes it and a new record is stored under the key, which the second deletes: a goroutine runs on unregistered, or a fresh failure is gone from the poll. |
| `orders_final` | a definitive rejection "is terminal" | A finalize that is tried again and accepted by the CA, or the next poll, overwrites the stored "invalid". |

### Weaknesses the models show

Each of these is part of the actions, and an exception of a property or, where no
property speaks of it, only written down here.

**Challenges**

* The sweep deletes by key (`challenge_sweep`).  `SingleFlight` and `FailureSticks`
  therefore need their premise `Young`, for the challenge they speak of: no worker of
  the running process failed for it more than the retention ago.  Records of other
  challenges may be as old as they like, and be swept.
* Where two challenges share an upstream challenge and the worker of one fails to
  trigger it, that worker's watcher runs into its deadline and removes the record that
  the other's worker may be waiting on (the exception of `RecordStaysUntilTrigger`).
* `RecordHasCustodian` excepts restarts and failed workers: a context that ends
  during the propagation wait returns before the cleanup watcher is started, a
  deploy hook may fail after it has published, and a restart ends the watchers; in
  each case the record stays in DNS.
* The trigger's response may be lost: the challenge is reported "invalid" although
  the CA goes on to validate, while the comment at `handlers.go:64-66` speaks of a step
  that failed "before the upstream challenge could be triggered".
* A failed authorization fetch makes `prepareDNS01Challenge` return nil and the CA
  is triggered with no record published (`Prepare`).
* Where the end of a CNAME chain does not exist yet, a resolver may answer "no such
  host" for the source; the walk takes that for "no CNAME" and the record is
  published where the CA does not look (`dangling` in `DNSPolicy`).

**Nonces**

* `ConsumeNonce` reads before it writes in a deferred transaction, so SQLite does
  not let it wait for the write lock: a concurrent commit makes it fail with
  SQLITE_BUSY and a valid nonce is refused (though kept: `LiveNonceKept`), while a
  comment in `store.go` says that writers wait.
* After a badNonce response the new nonce goes to the tail of the ring and the
  retry takes the head, which may be as stale; three such nonces fail the request.

**Accounts and orders**

* `resolveAndVerify`, meant for a `kid`, also accepts an embedded `jwk` and then
  returns no account and no error for a key that has none; the handlers behind it
  use the account.  `handleNewAccount` and `handleNewOrder`, which `Frontend`
  models, check the form themselves.
* Between `SubmitOrder` and `SaveOrder` an upstream order may be orphaned.  A failed
  insert of the certificate mapping yields a "valid" order without a certificate
  URL until the next poll (`SaveURL`).  A failed fingerprint update is only logged,
  and the certificate's revocation goes to slot 0 of the default upstream
  (`CacheFingerprint`, `RevokeTarget`).
* `GetResource` does not look at a row's type: a client that presents one of its own
  URLs' IDs under another endpoint gets as far as the upstream call.
* `GetResourceByUpstreamURL` relies on the CA minting finalize and certificate URLs
  per order.
* `ensureSlotRegistered` sets the account URL before the key is saved; its only way
  in, `NextClient`, has no caller.

**Bootstrap**

* The saved account URL is used without a look at its CA or key: after a change of
  `bootstrap.upstream`, or when the key file could not be read and was replaced,
  every acquisition fails until the file is removed (`Stranded`, the exception of
  `StaysCertified`).
* Cleanup runs under the context of the acquisition: when that has timed out the
  record stays, and a deploy hook that fails after publishing is not cleaned up
  (`stray`).
* Between the writes of the key and of the certificate a crash or an error leaves a
  pair that does not load, until the next certificate (`torn`).
* `renew_before_days` is not validated: a value above the certificate's lifetime
  renews at every check (`BootstrapAssumption` excludes it), and 0, the value when it
  is unset, leaves no window before the expiry (`ExpiredOnlyAfterFailures` is then
  empty).
* `onRenew` is documented for the initial certificate and renewals; only renewals
  call it.

## Bounds, fairness and symmetry

Bounds.  `Worker` bounds the goroutines of `ChallengeProc` (`WorkerLeft` lets a
request start only while each open one can still get a worker); `MaxTime`,
`MaxCrash`, `MaxRestart` and `MaxKey` bound the clock, restarts and generated
keys.  They are chosen so that what the properties speak of happens: two
requests are enough for every race found (each is between a request and one
other actor), two workers for a retry and for two challenges that share a record,
`MaxTime` exceeds the retention and the watcher's deadline, and `nonceTTL < MaxTime` lets
nonces expire.  The durations keep the order of the code's values (retention 1h,
worker 10min, watcher 5min, trigger 3 x 30s, and microseconds between the clock
reading and `LoadOrStore`), not their ratios; the proofs cover all of them.
`CHECK_DEADLOCK FALSE` stands where the model stops because a bound is used up or
no client asks for anything; the pool and the upstream client, which never stop, are
checked for deadlock.  Three posts are the fewest that can find a ring of two full.
In `DNSPolicy` the limit of ten lookups is two, so that chains of three exceed it;
the three nameservers make 34% and 67% of them round up; timeout, streak and poll
interval allow the quorum in the last round as well as too late, and `MaxTime` is
beyond every deadline (were it not, `WaitEnds` would fail).  In `Bootstrap` four
faults let two failed renewals, a crash and a further error coincide, the renewal
window has room for two checks, and nothing else is bounded.  In `Frontend` two
signed messages, two handlers and two nonces suffice for every pair (a duplicate of
one message, two messages with one nonce, two accounts with one key); the theorems
cover any number.  A sweep needs a worker to spare: one that deletes while a fresh
worker runs takes three of them, and one that deletes a fresh record four, which
`challenge_sweep` has; that sweeps of other challenges' records hurt neither
`SingleFlight` nor `FailureSticks` is the theorems' to say.  `orders_flow` has one
order and `orders_shared` two, without certificates; both at once are beyond TLC, and
the theorems of `OrdersProofs` cover any number of orders and accounts.

Fairness.  `ChallengeProc!FairSpec`: goroutines that can move are scheduled (WF on
handlers, workers and watchers) and the clock never stops.  Nothing is assumed of
clients or of the CA: calls are bounded by the worker's context or the HTTP
client's 30s timeout, and `runDNSHookScript` gives every hook two minutes, also the
cleanup after a watcher's timeout.
`AccountPool!FairSpec`: statements and HTTP calls end (WF), and a goroutine queued
on a `sync.Mutex` is not overtaken for ever (SF), which is what the mutex's
starvation mode guarantees.  `DNSPolicy!FairSpec`: the worker moves and the clock
runs (WF); queries end by the resolver's timeout (`QueryBound`).
`Bootstrap!FairSpec`: WF on the steps of the program, among them its restart
(`acme-gateway.service` says `Restart=on-failure`, after an orderly exit it is the
operator's; CA calls have a 30s timeout and
hooks one of two minutes), and on the clock.  Nothing is assumed of the CA beyond
the bound on faults.  Runs with liveness use no symmetry.

Symmetry sets contain only constants that the specification treats alike.

## Proofs

The theorems hold for any sets of challenges, requests, workers, nonces,
transactions, orders, authorizations, accounts, calls and posts, for any ring size,
any routing configuration, any zone data, nameservers and DNS policies, any
lifetimes and intervals, and for any values of the bounds.  Every safety property
that a passing run checks is stated by a theorem, with the premises and exceptions
that its definition names.

* **`ChallengeProcProofs`** assumes `TimeAssumption`: `Stall + WorkerTimeout <=
  Retention` (10 minutes and a moment against an hour) and `TriggerBound <
  WatchTimeout` (a minute and a half against five).  The inductive invariant
  adds to the types: a handler in the sweep read the clock in this process and at
  most `Stall` ago (`HandlerInv`); a running worker is within a deadline that is
  at most `Stall + WorkerTimeout` after its record's creation time (`WorkerInv`),
  so that an over-age record belongs to a worker that failed (`StaleNotInFlight`,
  `VictimInv`); a stored record is under its own key, running or failed (`MapInv`).
  `SingleFlight` is inductive only together with `VictimInv`: a sweep that is about to
  delete under a key has found a failure of that challenge older than the retention,
  which `Young` excludes for this challenge and for no other.  Results: `TypeCorrect`,
  `SweepSafe`, `SingleFlightHolds`, `ProcessingBacked`, and the action property
  `FailureSticksHolds`, which TLC has checked with three workers, beyond the run.  A
  second invariant, `RecordInv`, is inductive relative to the first and is about the
  published record.  Its part `WatchInv` ties each watcher to the step of its worker:
  none before the record is published, and one that outlasts the trigger
  (`CleanupWatch`).  So a watcher that removes the record of a challenge that is still
  pending has a worker that failed (`OnlyFailedRemove`), and a failed worker and its
  watcher stay what they are (`FailedStays`), so that the exception of
  `RecordStaysUntilTrigger` lasts as long as its effect: `RecordStays`.  `Custody`
  strengthens `RecordHasCustodian` by naming the workers that hold a record, so that a
  custodian stays one (`CustodianHolds`).
* **`NonceStoreProofs`**.  A transaction whose snapshot is not stale still sees
  the current row (`SnapshotInv`), those between DELETE and COMMIT are the lock
  holder (`LockInv`), a row belongs to an issued, unused nonce (`RowInv`).  Hence
  `SingleUseHolds` (with `SpentIsGone`), `LiveNonceKeptHolds`, and
  `RefinesOneTime`: each step of `NonceStore` is a step of `OneTimeNonce` under
  the mapping, or a stutter.
* **`OrdersProofs`** assumes only that the marks for "none" differ from accounts,
  orders and key types.  The inductive invariant follows an open request: new-order
  has mapped exactly what is no longer in its `todo` and nobody else has mapped the
  rest (`NewOrderOK`), which holds because an order has one maker (`OneMaker`) and the
  others map only certificates and challenges (`LookupOK`); the links of a response
  under construction are rows already (`ReqOK`), so that responses hand out only what
  resolves (`ClientInv`).  Rows are never replaced and IDs are not shared (`MapInv`);
  an order is stored with the account and rule it was made with (`OrderInv`).  `Frame`
  says once what no step undoes, `Becomes` what a step does to a request, and each
  action has its lemma.  Results: `TypeCorrect`, `LinksAlwaysResolve`,
  `AnnouncedAlwaysWhole`, `RuleIsKept`, and the action property `RevocationRouted`, for
  which `RouteInv` shows that the row the fingerprint query happens to return does not
  matter, whoever else maps or caches the same certificate.
* **`DNSPolicyProofs`** assumes `PolicyAssumption`: finitely many names and nameservers
  and positive limits and defaults.  `PhaseInv` orders the phases; `WalkInv` keeps the
  walk and its target on the chain of the source, and the target at the end of it if
  that end exists, for chains of any length and with loops; `TimeInv` accounts for the
  time of each round, query by query, and places the rounds at least a poll interval
  apart; `StreakInv` bounds a streak by the rounds since the last miss.  Results:
  `TypeCorrect`, `PublishedWhereCALooks`, `QuorumHolds` (with the rounding of the
  percentage), `BoundedWait`, `WaitIsBestEffort`.
* **`BootstrapProofs`** assumes `BootstrapAssumption`: positive lifetime and interval, a
  window no longer than the lifetime, and sets of keys large enough for the model never
  to run out (`FreshCertKey` and its counterpart for account keys are counting arguments
  over the keys in use).  `ProcInv` ties the process, the certificate in memory and the
  step of `acquire` together, `AcctInv` the key under way to the saved one and the keys
  used to the faults, and `RenewInv` says that the time a certificate is past the start
  of its window is made up of failed checks and the time since the last; multiplied out,
  this is `ExpiryTakesFailures`.  `ZoneInv` keeps the records left in the zone, and the
  one that may be added to them, within the hooks, starts and crashes to blame.  Other
  results: `TypeCorrect`, `RestartKeeps`, `OneAccount`, `RecordsRemembered`.
* **`FrontendProofs`** assumes `FrontendAssumption`, which only fixes the types of
  the constants.  The inductive invariant: the file in force is valid while the
  process is up; what an open request has established (`ReqInv`): its message was
  signed, from the nonce on it is for this endpoint and its nonce is spent, and an
  order about to be submitted is good; a spent nonce backs one request in flight or
  one order (`NonceInv`), which is what makes `SignedOnceActsOnce` inductive; a row
  belongs to the key it is filed under and that signed for it (`AccountInv`).
  `MoveReq`, `AbortFrame` and `Frame` say once what each action leaves alone, and
  each action has its lemma.  For the router, `MatchesAsWritten` shows that the
  loaded rule matches exactly what the written one asks for, and `RouteAsWritten`
  that the smallest matching index, which exists by well-foundedness of `<`
  (`SmallestOf`), meets the reference.  Results: `TypeCorrect`, `ActsOnce`,
  `Authentic`, `AccountsResolve`, `RoutesAsWritten`.
* **`AccountPoolProofs`**.  The lock is held throughout the critical section
  (`LockInv`), a key is saved only after it was registered and only where there is
  no row (`KeyInv`), and what is cached or was handed out is the row (`RowInv`);
  since a row is never replaced, `RoutingIsDeterministic` and
  `ClientsAreRegistered` follow.
* **`UpstreamClientProofs`**.  The occupied slots are the `nonceCount` slots from
  `nonceHead` on, around the end, and `nonceTail` is the slot after them
  (`RingInv`); a call has a nonce exactly while it sends and a reply only while it
  handles the answer (`PhaseInv`); a nonce is in one slot, one call or one reply
  (`HolderInv`).  `UsedOnce` follows from the last two.  For
  `RingImplementsQueue`, that the ring refines `NonceQueue`, the remainder in the
  code's index arithmetic is first replaced by a case distinction (`AfterIsNext`,
  `WrapOnce`); taking from the head is then `Tail` of the contents and saving is
  `Append`, for which `RingInv` shows that the slot written is not one in use.

`TypeCorrect` is proved in every proofs module.

Each inductive invariant was first checked with TLC on the instances of the runs.

Only model-checked: liveness under fairness (`WorkerSettles`, `WatcherCleansUp`,
`CallReturns`, `WaitEnds`, `StaysCertified`), which is outside the prover's reach, and
of course the counterexamples.

## What is not modelled

* JSON, PEM, YAML and cryptography: a signature is good for the key of its signer,
  a file is the record it decodes to.  Environment variables and the checks of
  single configuration fields.
* The handlers behind `resolveAndVerify` (authorization, order, challenge, finalize,
  certificate) take a request as authenticated for the order it names.
* Health endpoints, the route table and listeners, the externally managed
  certificate (read once at start), schema migration (before the listener starts)
  and the `acme-probe` command, a diagnostic client that keeps no state.
* The legacy slot pool: `NextClient` has no caller, so slot-bound orders exist
  only in old databases.

## Plan

Done: `ChallengeProc`, `NonceStore` (with `OneTimeNonce`), `Orders`,
`AccountPool`, `UpstreamClient` (with `NonceQueue`), `DNSPolicy`, `Bootstrap`,
`Frontend`, their runs, and the proofs above, which cover every safety property of
the passing runs.  Left:

1. What holds of a challenge once an old record of its own was swept: how many workers
   it can have at a time.
2. Further refinements: `AccountPool` as an abstract registry that gives each account
   one client, `ChallengeProc` as the life of one challenge.
