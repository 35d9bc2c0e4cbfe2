------------------------------ MODULE DNSPolicy ------------------------------
(***************************************************************************)
(* internal/server/dns_policy.go: where a dns-01 TXT record is published   *)
(* (the CNAME walk of resolveDelegatedFQDN) and how long the worker then   *)
(* waits before it triggers the CA (waitForDNSPropagation), for one        *)
(* challenge, under the policy of its hook (internal/config).              *)
(*                                                                         *)
(* ChallengeProc takes the outcome of this wait as given; here are its     *)
(* rounds.  The zone's CNAME records stand still, DNS answers fail at will *)
(* and the nameservers come and go; the worker's context may end at any    *)
(* point.  Time is a counter: a query, a poll and a settle delay each end  *)
(* by their limit (due).                                                   *)
(***************************************************************************)
EXTENDS Integers, FiniteSets

CONSTANTS
    Name, source,       \* DNS names; the challenge's _acme-challenge name
    Records,            \* zone data: the CNAME record of each name; itself, if none
    Zone, InZone,       \* allowed_zone_suffixes; <<n, z>>: n is z or ends in ".z"
    Nameserver,
    MaxDepth,           \* CNAME lookups in a walk (10)
    QueryBound,         \* longest TXT query (the resolver's timeout)
    DefaultTimeout, DefaultPoll, DefaultConsecutive,    \* 300s, 2s and 3
    Policy,             \* dns_hook sections of the configuration file
    MaxTime             \* bound on the clock

\* A dns_hook section as it is written.
PolicyType == [propagation : BOOLEAN, timeout_seconds : Int, poll_seconds : Int,
               min_consecutive : Int, quorum_percent : Int, settle_seconds : Int,
               delegation : BOOLEAN, mode : {"", "strict", "permissive"},
               suffixes : SUBSET Zone]

ASSUME PolicyAssumption ==
    /\ source \in Name
    /\ IsFiniteSet(Name)
    /\ Records \subseteq [Name -> Name]
    /\ InZone \subseteq Name \X Zone
    /\ IsFiniteSet(Nameserver)
    /\ {MaxDepth, QueryBound, DefaultTimeout, DefaultPoll, DefaultConsecutive}
          \subseteq Nat \ {0}
    /\ MaxTime \in Nat
    /\ Policy \subseteq PolicyType

VARIABLES
    hook,       \* the policy in force
    cname,      \* the zone data
    dangling,   \* ... in which the name at the end of the source's chain is missing
    now,        \* the clock
    ctx,        \* the worker's context is alive
    pc,
    current, depth, seen,   \* the walk
    target,     \* EffectiveFQDN
    published,  \* names that hold the TXT record
    hosts,      \* the zone's nameservers
    todo,       \* ... still to be asked in this round
    successes,  \* length of each nameserver's streak
    deadline,
    due,        \* limit of the query, poll or settle delay under way
    round,      \* rounds begun
    missed,     \* the last round in which each nameserver did not answer well
    quorum      \* the wait has seen its quorum

dns == <<hook, cname, dangling, published>>
walk == <<current, depth, seen, target>>
wait == <<hosts, todo, successes, deadline, due, round, missed, quorum>>
vars == <<dns, now, ctx, pc, walk, wait>>

-----------------------------------------------------------------------------
(* The policy *)

\* validateDNSHookPolicy: Load refuses any other section.  (settle_seconds is not
\* checked.)
ValidateDNSHookPolicy(p) ==
    /\ p.timeout_seconds >= 0
    /\ p.poll_seconds >= 0
    /\ p.min_consecutive >= 0
    /\ p.quorum_percent \in 0 .. 100

TimeoutOrDefault == IF hook.timeout_seconds <= 0 THEN DefaultTimeout ELSE hook.timeout_seconds

PollOrDefault == IF hook.poll_seconds <= 0 THEN DefaultPoll ELSE hook.poll_seconds

MinConsecutiveOrDefault ==
    IF hook.min_consecutive <= 0 THEN DefaultConsecutive ELSE hook.min_consecutive

QuorumPercentOrDefault == IF hook.quorum_percent <= 0 THEN 100 ELSE hook.quorum_percent

SettleDelayOrDefault == IF hook.settle_seconds <= 0 THEN 0 ELSE hook.settle_seconds

ModeOrDefault == IF hook.mode = "" THEN "strict" ELSE hook.mode

\* Mutant: the division truncates.
QuorumRoundedDown(totalNS, quorumPercent) == (totalNS * quorumPercent) \div 100

\* math.Ceil of a quotient; the percentage is clamped to 1 .. 100.
QuorumRequirement(totalNS, quorumPercent) ==
    LET percent == IF quorumPercent <= 0 \/ quorumPercent > 100 THEN 100 ELSE quorumPercent IN
    IF totalNS <= 0 THEN 0 ELSE (totalNS * percent + 99) \div 100

\* How many nameservers must agree.
Required ==
    LET required == QuorumRequirement(Cardinality(hosts), QuorumPercentOrDefault) IN
    IF required < 1 THEN 1 ELSE required

-----------------------------------------------------------------------------
(* State *)

PC == {"resolve", "lookup", "deploy", "nameservers", "query", "poll", "settle",
       "trigger", "aborted", "failed"}

Ended == pc \in {"trigger", "aborted", "failed"}

TypeOK ==
    /\ hook \in Policy
    /\ cname \in Records
    /\ dangling \in BOOLEAN
    /\ now \in Nat
    /\ ctx \in BOOLEAN
    /\ pc \in PC
    /\ current \in Name
    /\ depth \in 0 .. MaxDepth
    /\ seen \in SUBSET Name
    /\ target \in Name
    /\ published \in SUBSET Name
    /\ hosts \in SUBSET Nameserver
    /\ todo \in SUBSET hosts
    /\ successes \in [Nameserver -> Nat]
    /\ deadline \in Nat
    /\ due \in Nat
    /\ round \in Nat
    /\ missed \in [Nameserver -> Nat]
    /\ quorum \in BOOLEAN

Init ==
    /\ hook \in {p \in Policy : ValidateDNSHookPolicy(p)}
    /\ cname \in Records
    /\ dangling \in BOOLEAN
    /\ ~hook.delegation => ~dangling /\ \A n \in Name : cname[n] = n   \* nobody asks
    /\ now = 0
    /\ ctx = TRUE
    /\ pc = "resolve"
    /\ current = source
    /\ depth = 0
    /\ seen = {}
    /\ target = source
    /\ published = {}
    /\ hosts = {}
    /\ todo = {}
    /\ successes = [ns \in Nameserver |-> 0]
    /\ deadline = 0
    /\ due = 0
    /\ round = 0
    /\ missed = [ns \in Nameserver |-> 0]
    /\ quorum = FALSE

-----------------------------------------------------------------------------
(* resolveDNSChallengeTarget *)

Resolve ==
    /\ pc = "resolve"
    /\ pc' = IF hook.delegation THEN "lookup" ELSE "deploy"
    /\ UNCHANGED <<dns, now, ctx, walk, wait>>

\* The names on n's chain: those in every set with n that CNAME records do not lead out of.
Chain(n) ==
    {m \in Name : \A S \in SUBSET Name :
        n \in S /\ (\A x \in S : cname[x] \in S) => m \in S}

\* The end of n's chain; a chain that loops has none.
ChainEnds(n) == {m \in Chain(n) : cname[m] = m}

\* A resolver asked for the CNAME of n gives the next name, or follows the chain
\* itself to its end.  If that does not exist it may say "no such host" of n, and the
\* walk takes this to mean that n has no CNAME.
CNAMEAnswers(n) == {cname[n]} \union ChainEnds(n) \union {m \in {n} : dangling}

\* validateDelegatedTarget
ValidateDelegatedTarget(n) ==
    hook.suffixes = {} \/ \E z \in hook.suffixes : <<n, z>> \in InZone

\* An error of the walk or of the suffix policy.
DelegationError ==
    /\ pc' = IF ModeOrDefault = "permissive" THEN "deploy" ELSE "failed"
    /\ UNCHANGED <<current, depth, seen, target>>

\* The walk has ended at the current name.
Delegated ==
    IF depth = 0 THEN pc' = "deploy" /\ UNCHANGED walk
    ELSE IF ValidateDelegatedTarget(current)
    THEN /\ target' = current
         /\ pc' = "deploy"
         /\ UNCHANGED <<current, depth, seen>>
    ELSE DelegationError

\* Mutant: the walk stops after one record, as if that were the end of the chain.
LookupCNAMEOneHop ==
    /\ pc = "lookup"
    /\ target' = cname[current]
    /\ pc' = "deploy"
    /\ UNCHANGED <<dns, now, ctx, current, depth, seen, wait>>

\* Mutant: neither the limit nor the loop check is there.
LookupCNAMEForever ==
    /\ pc = "lookup"
    /\ \/ cname[current] = current /\ Delegated
       \/ /\ cname[current] # current
          /\ current' = cname[current]
          /\ UNCHANGED <<depth, seen, target, pc>>
    /\ UNCHANGED <<dns, now, ctx, wait>>

\* Mutant: the limit is one lookup late.
LookupCNAMETooDeep ==
    /\ pc = "lookup"
    /\ \/ /\ depth <= MaxDepth
          /\ current \notin seen
          /\ cname[current] # current
          /\ current' = cname[current]
          /\ seen' = seen \union {current}
          /\ depth' = depth + 1
          /\ UNCHANGED <<target, pc>>
       \/ DelegationError
    /\ UNCHANGED <<dns, now, ctx, wait>>

\* One turn of resolveDelegatedFQDN's loop: the limit, the loop check, the lookup.
LookupCNAME ==
    /\ pc = "lookup"
    /\ \/ /\ depth < MaxDepth
          /\ current \notin seen
          /\ \E n \in CNAMEAnswers(current) :
                \/ n = current /\ Delegated
                \/ /\ n # current
                   /\ current' = n
                   /\ seen' = seen \union {current}
                   /\ depth' = depth + 1
                   /\ UNCHANGED <<target, pc>>
       \/ DelegationError   \* also: the lookup fails
    /\ UNCHANGED <<dns, now, ctx, wait>>

-----------------------------------------------------------------------------
(* prepareDNS01Challenge, around the wait *)

\* The deploy hook.  An error is fatal, published or not.
Deploy ==
    /\ pc = "deploy"
    /\ \/ /\ published' = published \union {target}
          /\ pc' = "nameservers"
       \/ /\ published' \in {published, published \union {target}}
          /\ pc' = "failed"
    /\ UNCHANGED <<hook, cname, dangling, now, ctx, walk, wait>>

\* Mutant: any error of the wait ends the challenge.
WaitErrorIsFatal == pc' = "aborted"

\* The wait returned an error: best effort, the CA is triggered all the same unless
\* the context is dead.
WaitError == pc' = IF ctx THEN "trigger" ELSE "aborted"

-----------------------------------------------------------------------------
(* waitForDNSPropagation *)

\* A round: every nameserver is to be asked.
BeginRound(H) ==
    /\ todo' = H
    /\ round' = round + 1
    /\ due' = now + QueryBound
    /\ pc' = "query"

\* authoritativeNameservers and resolveNameserverEndpoints: the nameservers of the
\* closest ancestor that has any, or an error.
AuthoritativeNameservers ==
    /\ pc = "nameservers"
    /\ \/ /\ ~hook.propagation
          /\ pc' = "trigger"
          /\ UNCHANGED wait
       \/ /\ hook.propagation
          /\ WaitError
          /\ UNCHANGED wait
       \/ /\ hook.propagation
          /\ ctx
          /\ \E H \in (SUBSET Nameserver) \ {{}} :
                hosts' = H /\ BeginRound(H)
          /\ deadline' = now + TimeoutOrDefault
          /\ UNCHANGED <<successes, missed, quorum>>
    /\ UNCHANGED <<dns, now, ctx, walk>>

\* queryTXTFromNameserver: the expected value; or another, none, or an error.
QueryTXT(ns) ==
    /\ pc = "query"
    /\ ns \in todo
    /\ todo' = todo \ {ns}
    /\ due' = IF todo = {ns} THEN now ELSE now + QueryBound
    /\ \/ /\ ctx
          /\ successes' = [successes EXCEPT ![ns] = @ + 1]
          /\ UNCHANGED missed
       \/ /\ successes' = [successes EXCEPT ![ns] = 0]
          /\ missed' = [missed EXCEPT ![ns] = round]
    /\ UNCHANGED <<dns, now, ctx, pc, walk, hosts, deadline, round, quorum>>

\* Nameservers that answered well often enough in a row.
Stable == {ns \in hosts : successes[ns] >= MinConsecutiveOrDefault}

\* Every nameserver has been asked: the quorum, or a poll interval.
EndRound ==
    /\ pc = "query"
    /\ todo = {}
    /\ \/ /\ Cardinality(Stable) >= Required
          /\ quorum' = TRUE
          /\ due' = now + SettleDelayOrDefault
          /\ pc' = "settle"
       \/ /\ Cardinality(Stable) < Required
          /\ due' = now + PollOrDefault
          /\ pc' = "poll"
          /\ UNCHANGED quorum
    /\ UNCHANGED <<dns, now, ctx, walk, hosts, todo, successes, deadline, round, missed>>

\* Mutant: the deadline is set anew in every round.
PollRestartsClock ==
    /\ pc = "poll"
    /\ now >= due
    /\ BeginRound(hosts)
    /\ deadline' = now + TimeoutOrDefault
    /\ UNCHANGED <<dns, now, ctx, walk, hosts, successes, missed, quorum>>

\* The timer fires: another round, if the deadline has not passed.  Or the context
\* ends the wait.
Poll ==
    /\ pc = "poll"
    /\ \/ /\ now >= due
          /\ now < deadline
          /\ BeginRound(hosts)
       \/ /\ (now >= due /\ now >= deadline) \/ ~ctx
          /\ WaitError
          /\ UNCHANGED <<todo, round, due>>
    /\ UNCHANGED <<dns, now, ctx, walk, hosts, successes, deadline, missed, quorum>>

\* settleAfterQuorum.  Without a delay the context is not looked at.
Settle ==
    /\ pc = "settle"
    /\ \/ now >= due /\ pc' = "trigger"
       \/ SettleDelayOrDefault > 0 /\ ~ctx /\ WaitError
    /\ UNCHANGED <<dns, now, ctx, walk, wait>>

-----------------------------------------------------------------------------

\* Shutdown, or the deadline of the worker's context.
Cancel ==
    /\ ctx
    /\ ~Ended
    /\ ctx' = FALSE
    /\ UNCHANGED <<dns, now, pc, walk, wait>>

Tick ==
    /\ now < MaxTime
    /\ pc \in {"query", "poll", "settle"}
    /\ now < due
    /\ now' = now + 1
    /\ UNCHANGED <<dns, ctx, pc, walk, wait>>

Step ==
    \/ Resolve \/ LookupCNAME \/ Deploy \/ AuthoritativeNameservers
    \/ \E ns \in Nameserver : QueryTXT(ns)
    \/ EndRound \/ Poll \/ Settle

Next == Step \/ Cancel \/ Tick

Spec == Init /\ [][Next]_vars

\* The goroutine is scheduled, its queries end and the clock runs.
FairSpec == Spec /\ WF_vars(Step) /\ WF_vars(Tick)

-----------------------------------------------------------------------------
(* Safety *)

\* A record goes where the CA may come to look for it, whatever lookups fail or jump
\* ahead, and wherever the walk's limit or loop check strikes: to a name of the chain,
\* and under the strict mode to its end or nowhere, if that end exists.  (When it does
\* not exist yet the walk may stop short of it.)  In either mode delegation leads
\* nowhere outside the allowed zones.
RecordWhereCALooks ==
    /\ published \subseteq Chain(source)
    /\ hook.delegation /\ ModeOrDefault = "strict" /\ ~dangling =>
          published \subseteq ChainEnds(source)
    /\ \A n \in published \ {source} :
          hook.suffixes = {} \/ \E z \in hook.suffixes : <<n, z>> \in InZone

\* A quorum is a quorum: when the wait ends with one, at least quorum_percent of
\* the zone's nameservers, and at least one, have given the expected answer in each
\* of the last min_consecutive_successes rounds, and these rounds were a poll
\* interval apart.  No error, cancelled query or late answer is counted.
QuorumIsStable ==
    pc = "settle" =>
        \E Q \in SUBSET hosts :
            /\ Q # {}
            /\ Cardinality(Q) * 100 >= Cardinality(hosts) * QuorumPercentOrDefault
            /\ \A ns \in Q : round - missed[ns] >= MinConsecutiveOrDefault
            /\ (round - 1) * PollOrDefault <= now - (deadline - TimeoutOrDefault)

\* The wait makes no more rounds than fit into its timeout, and overruns it by at
\* most the round that was under way and one poll interval.
WaitIsBounded ==
    pc \in {"query", "poll"} =>
        /\ (round - 1) * PollOrDefault < TimeoutOrDefault
        /\ now <= deadline + Cardinality(hosts) * QueryBound + PollOrDefault

\* Propagation is best effort: once the deploy hook has succeeded only a dead context
\* keeps the CA from being triggered (a hook that fails is fatal, even if it has
\* published the record), and a zone whose nameservers were found is
\* given its full timeout to reach the quorum before that.
BestEffort ==
    /\ pc = "aborted" => ~ctx
    /\ pc = "trigger" /\ hosts # {} => quorum \/ now >= deadline

-----------------------------------------------------------------------------
(* Liveness *)

\* A published challenge is triggered or given up: no nameserver that never answers
\* well, and no CNAME loop, keeps the worker.
WaitEnds == <>Ended

=============================================================================
