---------------------------- MODULE ChallengeProc ----------------------------
(***************************************************************************)
(* Asynchronous dns-01 challenge processing in internal/server/handlers.go. *)
(*                                                                         *)
(* handleChallenge answers a challenge at once and leaves the work to a    *)
(* goroutine (startChallengeProcessing).  The sync.Map challengeProc holds *)
(* one *challengeProgress per challenge.  Every progress record is created *)
(* together with the goroutine that owns it, so a record is identified by  *)
(* its Worker: challengeProc[c] is the worker whose record is stored under *)
(* key c, and the record's status is a function of that worker's pc.       *)
(*                                                                         *)
(* The CA may hand out one pending authorization in two orders: several    *)
(* challenge IDs then stand for one upstream challenge and one TXT record  *)
(* (UpstreamURL).                                                          *)
(*                                                                         *)
(* Handlers, workers, cleanup watchers and the CA interleave at each of    *)
(* their reads and writes of shared state; the process may crash.  Time is *)
(* a counter; a step that a context deadline bounds cannot outlive it      *)
(* (Tick waits for it).                                                    *)
(***************************************************************************)
EXTENDS Integers, FiniteSets

CONSTANTS
    Chal,           \* gateway challenge IDs
    Req,            \* concurrent HTTP requests (goroutines of net/http)
    Worker,         \* background goroutines; each runs at most once
    NoChal, NoWorker,
    UpChal,         \* challenges of the CA; each has its own TXT value
    UpstreamURL,    \* the resource map: the CA's challenge behind a gateway ID
    Hooked,         \* dns-01 challenges whose upstream has a deploy script
    Cleaned,        \* ... and a cleanup script
    Retention,      \* challengeProcRetention
    WorkerTimeout,  \* the worker's context deadline (10 minutes)
    WatchTimeout,   \* the cleanup watcher's deadline (5 minutes)
    TriggerBound,   \* longest TriggerChallenge: 3 attempts of 30s HTTP calls
    Stall,          \* longest beginChallengeProc (no I/O between its steps)
    MaxTime,        \* bound on the clock
    MaxCrash        \* bound on restarts

ASSUME ChalAssumption ==
    /\ NoChal \notin Chal
    /\ NoWorker \notin Worker
    /\ Cleaned \subseteq Hooked
    /\ Hooked \subseteq UpChal
    /\ UpstreamURL \in [Chal -> UpChal]

ASSUME TimeAssumption ==
    /\ {Retention, WorkerTimeout, WatchTimeout, TriggerBound, Stall} \subseteq Nat
    /\ {MaxTime, MaxCrash} \subseteq Nat
    /\ Stall + WorkerTimeout <= Retention
    /\ TriggerBound < WatchTimeout

VARIABLES
    now,            \* the clock
    crashes,        \* restarts so far (for MaxCrash)
    challengeProc,  \* the sync.Map of Handler
    req,            \* handler goroutines
    worker,         \* startChallengeProcessing goroutines and their records
    watch,          \* cleanup watcher goroutines, one per worker at most
    upstream,       \* the CA's status of each challenge
    dns             \* challenges of the CA whose TXT record is published

vars == <<now, crashes, challengeProc, req, worker, watch, upstream, dns>>

-----------------------------------------------------------------------------
(* State *)

ReqPC == {"idle", "load", "sweep", "delete"}

WorkerPC == {"idle", "prepare", "deploy", "propagate", "trigger", "unregister",
             "done", "failed", "killed"}

UpstreamStatus == {"pending", "processing", "valid", "invalid"}

ReqType == [pc : ReqPC, chal : Chal \union {NoChal}, at : Nat,
            victim : Worker \union {NoWorker}]

WorkerType == [pc : WorkerPC, chal : Chal \union {NoChal}, createdAt : Nat, due : Nat]

WatchType == [pc : {"off", "watching", "stopped"}, until : Nat]

IdleReq == [pc |-> "idle", chal |-> NoChal, at |-> 0,
            victim |-> NoWorker]

IdleWorker == [pc |-> "idle", chal |-> NoChal, createdAt |-> 0, due |-> 0]

NoWatch == [pc |-> "off", until |-> 0]

\* The goroutine still runs: its record's status is "processing".
InFlight(w) ==
    worker[w].pc \in {"prepare", "deploy", "propagate", "trigger", "unregister"}

\* challengeProgress.snapshot: fail() has set the status of the stored record.
\* handleAuthz overlays it: the challenge and its authorization are "invalid" to a
\* client that polls, whatever the CA says.
Failed(c) ==
    /\ challengeProc[c] # NoWorker
    /\ worker[challengeProc[c]].pc = "failed"

TypeOK ==
    /\ now \in Nat
    /\ crashes \in Nat
    /\ challengeProc \in [Chal -> Worker \union {NoWorker}]
    /\ req \in [Req -> ReqType]
    /\ worker \in [Worker -> WorkerType]
    /\ watch \in [Worker -> WatchType]
    /\ upstream \in [UpChal -> UpstreamStatus]
    /\ dns \in SUBSET UpChal

Init ==
    /\ now = 0
    /\ crashes = 0
    /\ challengeProc = [c \in Chal |-> NoWorker]
    /\ req = [r \in Req |-> IdleReq]
    /\ worker = [w \in Worker |-> IdleWorker]
    /\ watch = [w \in Worker |-> NoWatch]
    /\ upstream = [u \in UpChal |-> "pending"]
    /\ dns = {}

-----------------------------------------------------------------------------
(* handleChallenge: POST to the challenge URL *)

\* writeJSON: the request ends.
Respond(r) == req' = [req EXCEPT ![r] = IdleReq]

\* Bound: a request starts only while there is a worker for each open request.
WorkerLeft ==
    Cardinality({r \in Req : req[r].pc # "idle"})
        < Cardinality({w \in Worker : worker[w].pc = "idle"})

\* gatewayAuthzURLForChallenge: the live challenge behind the gateway ID, found in
\* the order's authorizations.
LiveStatus(c) == upstream[UpstreamURL[c]]

\* The live challenge is fetched.  Past "pending" its status is the answer.  (A
\* failed fetch is an error answer and changes nothing.)
FetchChallenge(r, c) ==
    /\ req[r].pc = "idle"
    /\ \/ /\ LiveStatus(c) = "pending"
          /\ WorkerLeft
          /\ req' = [req EXCEPT ![r] = [IdleReq EXCEPT !.pc = "load", !.chal = c]]
       \/ /\ LiveStatus(c) # "pending"
          /\ Respond(r)
    /\ UNCHANGED <<now, crashes, challengeProc, worker, watch, upstream, dns>>

\* Mutant: beginChallengeProc hands the sweep a precomputed cutoff.
LoadProgressCutoff(r) ==
    /\ req[r].pc = "load"
    /\ challengeProc[req[r].chal] = NoWorker
    /\ req' = [req EXCEPT ![r].pc = "sweep", ![r].at = now - Retention]
    /\ UNCHANGED <<now, crashes, challengeProc, worker, watch, upstream, dns>>

\* challengeProc.Load(chalID): a hit is reported; a miss enters
\* beginChallengeProc, which reads the clock first.
LoadProgress(r) ==
    LET w == challengeProc[req[r].chal] IN
    /\ req[r].pc = "load"
    /\ \/ /\ w # NoWorker
          /\ Respond(r)
       \/ /\ w = NoWorker
          /\ req' = [req EXCEPT ![r].pc = "sweep", ![r].at = now]
    /\ UNCHANGED <<now, crashes, challengeProc, worker, watch, upstream, dns>>

\* Mutant: any record older than the sweep counts as stale.
StaleAtAnyAge(r, c) ==
    challengeProc[c] # NoWorker /\ req[r].at > worker[challengeProc[c]].createdAt

\* The record under key c is older than the retention, to the sweep of request r.
Stale(r, c) ==
    /\ challengeProc[c] # NoWorker
    /\ req[r].at - worker[challengeProc[c]].createdAt > Retention

\* evictStaleChallengeProc: Range hands the stored records to the callback, in any
\* order.  It passes over a record that is not stale; one that is ...
EvictVisit(r, c) ==
    /\ req[r].pc = "sweep"
    /\ Stale(r, c)
    /\ req' = [req EXCEPT ![r].pc = "delete", ![r].victim = challengeProc[c]]
    /\ UNCHANGED <<now, crashes, challengeProc, worker, watch, upstream, dns>>

\* ... it deletes by KEY, whatever is stored there by then.
EvictDelete(r) ==
    /\ req[r].pc = "delete"
    /\ challengeProc' = [challengeProc EXCEPT ![worker[req[r].victim].chal] = NoWorker]
    /\ req' = [req EXCEPT ![r].pc = "sweep", ![r].victim = NoWorker]
    /\ UNCHANGED <<now, crashes, worker, watch, upstream, dns>>

\* Mutant: Store where LoadOrStore is needed.
BeginByStore(r) ==
    LET c == req[r].chal IN
    /\ req[r].pc = "sweep"
    /\ \A k \in Chal : ~Stale(r, k)
    /\ \E w \in Worker :
          /\ worker[w].pc = "idle"
          /\ challengeProc' = [challengeProc EXCEPT ![c] = w]
          /\ worker' = [worker EXCEPT ![w] =
                          [pc |-> "prepare", chal |-> c, createdAt |-> req[r].at,
                           due |-> now + WorkerTimeout]]
    /\ Respond(r)
    /\ UNCHANGED <<now, crashes, watch, upstream, dns>>

\* LoadOrStore(chalID, prog) and, for the caller that stored, the goroutine.
\* Either way handleChallenge answers "processing".
BeginChallengeProc(r) ==
    LET c == req[r].chal IN
    /\ req[r].pc = "sweep"
    /\ \A k \in Chal : ~Stale(r, k)
    /\ \/ /\ challengeProc[c] # NoWorker
          /\ UNCHANGED <<challengeProc, worker>>
       \/ /\ challengeProc[c] = NoWorker
          /\ \E w \in Worker :
                /\ worker[w].pc = "idle"
                /\ challengeProc' = [challengeProc EXCEPT ![c] = w]
                /\ worker' = [worker EXCEPT ![w] =
                                [pc |-> "prepare", chal |-> c, createdAt |-> req[r].at,
                                 due |-> now + WorkerTimeout]]
    /\ Respond(r)
    /\ UNCHANGED <<now, crashes, watch, upstream, dns>>

-----------------------------------------------------------------------------
(* startChallengeProcessing: the background goroutine *)

\* The upstream challenge that w works on.
Target(w) == UpstreamURL[worker[w].chal]

SmallerOf(a, b) == IF a < b THEN a ELSE b

Goto(w, pc) == worker' = [worker EXCEPT ![w].pc = pc]

\* prog.fail: the record stays behind, with its creation time.
Fail(w) == worker' = [worker EXCEPT ![w].pc = "failed", ![w].due = 0]

\* prepareDNS01Challenge up to the hook.  No hook, or another challenge type:
\* nothing to publish.  The authorization found: deploy.  Its fetch failed, so
\* that no authorization holds the challenge: nil as well, the trigger follows.
\* Listing the authorizations, or resolving the target name, failed: fatal.
Prepare(w) ==
    /\ worker[w].pc = "prepare"
    /\ \/ /\ Target(w) \in Hooked
          /\ now < worker[w].due
          /\ Goto(w, "deploy")
       \/ worker' = [worker EXCEPT ![w].pc = "trigger",
                                   ![w].due = SmallerOf(@, now + TriggerBound)]
       \/ /\ Target(w) \in Hooked
          /\ Fail(w)
    /\ UNCHANGED <<now, crashes, challengeProc, req, watch, upstream, dns>>

\* runDNSHookScript(DeployScript): an error is fatal, whether or not the script
\* got as far as publishing.
Deploy(w) ==
    LET published == dns \union {Target(w)} IN
    /\ worker[w].pc = "deploy"
    /\ \/ /\ now < worker[w].due
          /\ dns' = published
          /\ Goto(w, "propagate")
       \/ /\ Fail(w)
          /\ dns' \in {dns, published}
    /\ UNCHANGED <<now, crashes, challengeProc, req, watch, upstream>>

\* Mutant: the propagation wait ignores the worker's context.
PropagateDeaf(w) ==
    /\ worker[w].pc = "propagate"
    /\ now < worker[w].due
    /\ worker' = [worker EXCEPT ![w].pc = "trigger",
                                ![w].due = SmallerOf(@, now + TriggerBound)]
    /\ UNCHANGED <<now, crashes, challengeProc, req, watch, upstream, dns>>

\* Mutant: the watcher's deadline runs from the start of the processing.
PropagateEarlyWatch(w) ==
    /\ worker[w].pc = "propagate"
    /\ now < worker[w].due
    /\ watch' = [watch EXCEPT ![w] = [pc |-> "watching",
                                      until |-> worker[w].createdAt + WatchTimeout]]
    /\ worker' = [worker EXCEPT ![w].pc = "trigger",
                                ![w].due = SmallerOf(@, now + TriggerBound)]
    /\ UNCHANGED <<now, crashes, challengeProc, req, upstream, dns>>

\* waitForDNSPropagation: quorum or its timeout, the trigger follows and the
\* cleanup watcher starts; a dead worker context aborts without a watcher.
Propagate(w) ==
    /\ worker[w].pc = "propagate"
    /\ \/ /\ now < worker[w].due
          /\ watch' = IF Target(w) \in Cleaned
                      THEN [watch EXCEPT ![w] = [pc |-> "watching",
                                                 until |-> now + WatchTimeout]]
                      ELSE watch
          /\ worker' = [worker EXCEPT ![w].pc = "trigger",
                                      ![w].due = SmallerOf(@, now + TriggerBound)]
       \/ /\ now >= worker[w].due
          /\ Fail(w)
          /\ UNCHANGED watch
    /\ UNCHANGED <<now, crashes, challengeProc, req, upstream, dns>>

\* Mutant: a failed trigger ends the goroutine without prog.fail.
TriggerForgetsFail(w) ==
    /\ worker[w].pc = "trigger"
    /\ Goto(w, "killed")
    /\ UNCHANGED <<now, crashes, challengeProc, req, watch, upstream, dns>>

\* TriggerChallenge.  The request may reach the CA or not, and an error may be
\* reported even though it did (the response was lost or timed out).  The CA is an
\* ideal one: a trigger that reaches it ends "pending" at once.
TriggerChallenge(w) ==
    /\ worker[w].pc = "trigger"
    /\ \/ /\ upstream' = [upstream EXCEPT ![Target(w)] = IF @ = "pending" THEN "processing" ELSE @]
          /\ \/ Goto(w, "unregister")
             \/ Fail(w)
       \/ /\ UNCHANGED upstream
          /\ Fail(w)
    /\ UNCHANGED <<now, crashes, challengeProc, req, watch, dns>>

\* challengeProc.Delete(chalID), again by key.
Unregister(w) ==
    /\ worker[w].pc = "unregister"
    /\ challengeProc' = [challengeProc EXCEPT ![worker[w].chal] = NoWorker]
    /\ worker' = [worker EXCEPT ![w] =
                    [IdleWorker EXCEPT !.pc = "done", !.chal = worker[w].chal]]
    /\ UNCHANGED <<now, crashes, req, watch, upstream, dns>>

\* Mutant: the watcher waits for a terminal status only.
CleanupWithoutTimeout(w) ==
    /\ watch[w].pc = "watching"
    /\ upstream[Target(w)] \in {"valid", "invalid"}
    /\ dns' \in {dns, dns \ {Target(w)}}
    /\ watch' = [watch EXCEPT ![w] = [pc |-> "stopped", until |-> 0]]
    /\ UNCHANGED <<now, crashes, challengeProc, req, worker, upstream>>

\* The cleanup watcher: the authorization left "pending", or the watcher's own
\* deadline passed.  One attempt: a failing cleanup hook is only logged.
Cleanup(w) ==
    /\ watch[w].pc = "watching"
    /\ upstream[Target(w)] \in {"valid", "invalid"} \/ now >= watch[w].until
    /\ dns' \in {dns, dns \ {Target(w)}}
    /\ watch' = [watch EXCEPT ![w] = [pc |-> "stopped", until |-> 0]]
    /\ UNCHANGED <<now, crashes, challengeProc, req, worker, upstream>>

-----------------------------------------------------------------------------
(* The CA, the clock, and restarts *)

Validate(u) ==
    /\ upstream[u] = "processing"
    /\ \E s \in {"valid", "invalid"} : upstream' = [upstream EXCEPT ![u] = s]
    /\ UNCHANGED <<now, crashes, challengeProc, req, worker, watch, dns>>

\* Time passes unless a bounded step is at its limit.
Tick ==
    /\ now < MaxTime
    /\ \A w \in Worker : InFlight(w) => now < worker[w].due
    /\ \A r \in Req : req[r].pc \in {"sweep", "delete"} => now < req[r].at + Stall
    /\ now' = now + 1
    /\ UNCHANGED <<crashes, challengeProc, req, worker, watch, upstream, dns>>

\* The process dies (main.run waits for no background goroutine, so an orderly
\* shutdown is the same) and starts again with an empty map.
Restart ==
    /\ crashes < MaxCrash
    /\ crashes' = crashes + 1
    /\ challengeProc' = [c \in Chal |-> NoWorker]
    /\ req' = [r \in Req |-> IdleReq]
    /\ worker' = [w \in Worker |-> IF worker[w].pc = "idle" THEN worker[w]
                                   ELSE [IdleWorker EXCEPT !.pc = "killed",
                                                           !.chal = worker[w].chal]]
    /\ watch' = [w \in Worker |-> NoWatch]
    /\ UNCHANGED <<now, upstream, dns>>

HandlerStep(r) ==
    \/ LoadProgress(r)
    \/ \E c \in Chal : EvictVisit(r, c)
    \/ EvictDelete(r)
    \/ BeginChallengeProc(r)

WorkerStep(w) ==
    Prepare(w) \/ Deploy(w) \/ Propagate(w) \/ TriggerChallenge(w) \/ Unregister(w)

Next ==
    \/ \E r \in Req : HandlerStep(r) \/ \E c \in Chal : FetchChallenge(r, c)
    \/ \E w \in Worker : WorkerStep(w) \/ Cleanup(w)
    \/ \E u \in UpChal : Validate(u)
    \/ Tick
    \/ Restart

Spec == Init /\ [][Next]_vars

\* Goroutines are scheduled: a handler, worker or watcher that can move does,
\* and the clock never stops.  Clients and the CA owe nothing.
FairSpec ==
    /\ Spec
    /\ \A r \in Req : WF_vars(HandlerStep(r))
    /\ \A w \in Worker : WF_vars(WorkerStep(w)) /\ WF_vars(Cleanup(w))
    /\ WF_vars(Tick)

-----------------------------------------------------------------------------
(* Safety *)

\* No failure that the running process recorded for c has outlived the retention,
\* so that no sweep has picked, or will pick by now, a record of c.
Young(c) ==
    \A w \in Worker : worker[w].pc = "failed" /\ worker[w].chal = c =>
        now - worker[w].createdAt <= Retention

\* evictStaleChallengeProc reclaims records "left behind by pre-trigger
\* failures" only: a sweep never picks a record whose goroutine still runs,
\* although it looks at the age alone and not at the status.
SweepSparesInFlight ==
    \A r \in Req : req[r].pc = "delete" => ~InFlight(req[r].victim)

\* Single flight: however POSTs, retries, sweeps of other challenges' records and
\* finishing workers interleave, a running worker is the one registered for its
\* challenge, so no second one runs beside it.  (Where an old record of the same
\* challenge was swept, see SweepTakesStaleOnly.)
SingleFlight ==
    \A w \in Worker : InFlight(w) /\ Young(worker[w].chal) =>
        challengeProc[worker[w].chal] = w

\* A record that tells clients "processing" has a goroutine behind it that will
\* settle it; no error path, restart or sweep leaves one orphaned.
ProcessingHasWorker ==
    \A c \in Chal : challengeProc[c] # NoWorker =>
        InFlight(challengeProc[c]) \/ Failed(c)

\* A worker that published its record still finds it published when it triggers
\* the CA: its own watcher does not remove it first, nor does that of another worker
\* that shares the upstream challenge, unless that one failed to trigger it (its
\* watcher then runs into its deadline whoever else waits on the record).
RecordStaysUntilTrigger ==
    \A w \in Worker :
        /\ \/ worker[w].pc = "propagate"
           \/ worker[w].pc = "trigger" /\ watch[w].pc # "off"
        /\ upstream[Target(w)] = "pending"
        /\ \A v \in Worker : worker[v].pc = "failed" /\ Target(v) = Target(w) =>
              watch[v].pc = "off"
        => Target(w) \in dns

\* A published record is somebody's: the worker that still needs it, a watcher
\* that removes it or has tried to, or a worker that failed, which the client is
\* told.  No successful challenge leaves its record behind unattended.  (A restart
\* does: watchers are not persisted.)
RecordHasCustodian ==
    crashes = 0 => \A u \in Cleaned \intersect dns : \E w \in Worker :
        /\ worker[w].chal \in Chal /\ Target(w) = u
        /\ InFlight(w) \/ watch[w].pc # "off" \/ worker[w].pc = "failed"

\* handlers.go:59-60: "a failure stays visible on the authz poll".  No retry, no sweep
\* (which does run and delete other challenges' records by now) and no other worker's
\* delete by key takes a recorded failure away before a restart, as long as no failure
\* of the same challenge is older than the retention.
FailureSticks ==
    [][\A c \in Chal : Failed(c) /\ Young(c) => Failed(c)' \/ crashes' # crashes]_vars

-----------------------------------------------------------------------------
(* Liveness *)

\* Background processing always ends, in a trigger or in a recorded failure:
\* the propagation wait cannot outlast the worker's context.
WorkerSettles ==
    \A w \in Worker : InFlight(w) ~> ~InFlight(w)

\* Every cleanup watcher runs its hook, even when the CA never finishes
\* validating (until <= MaxTime: the clock of the model reaches its deadline).
WatcherCleansUp ==
    \A w \in Worker :
        (watch[w].pc = "watching" /\ watch[w].until <= MaxTime)
            ~> watch[w].pc # "watching"

-----------------------------------------------------------------------------
(* Statements of the repository that the code does not meet *)

\* handlers.go:45-47: "It makes answer-challenge idempotent (a retried POST does
\* not re-deploy or re-trigger)".
TriggeredOnce ==
    \A v, w \in Worker :
        /\ worker[v].pc \in {"unregister", "done"}
        /\ worker[w].pc \in {"unregister", "done"}
        /\ worker[v].chal = worker[w].chal
        => v = w

\* handlers.go:110-111: "evictStaleChallengeProc removes challenge processing records
\* older than the retention window".  What a sweep is about to delete is such a record.
SweepTakesStaleOnly ==
    \A r \in Req : req[r].pc = "delete" =>
        LET w == challengeProc[worker[req[r].victim].chal] IN
        w # NoWorker => now - worker[w].createdAt > Retention

=============================================================================
