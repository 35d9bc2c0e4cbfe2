-------------------------- MODULE DNSPolicyProofs ---------------------------
(***************************************************************************)
(* Proofs about DNSPolicy for any zone, any nameservers, any policy of the *)
(* configuration and any of the limits.                                    *)
(***************************************************************************)
EXTENDS DNSPolicy, FiniteSetTheorems, TLAPS

\* The policy in force was validated; before the wait nothing of it has begun.
PhaseInv ==
    /\ ValidateDNSHookPolicy(hook)
    /\ pc \in {"resolve", "lookup", "deploy", "nameservers"} => hosts = {} /\ todo = {} /\ round = 0
    /\ pc \in {"resolve", "lookup", "deploy"} => published = {}
    /\ pc \in {"query", "poll", "settle"} => hosts # {} /\ round > 0 /\ now <= due
    /\ pc \in {"poll", "settle"} => todo = {}
    /\ pc = "settle" => quorum

\* The walk stays on the chain of the source, and a target is its end.
WalkInv ==
    /\ current \in Chain(source)
    /\ depth = 0 => current = source
    /\ target = source \/ ValidateDelegatedTarget(target)
    /\ target \in Chain(source)
    /\ published \subseteq {target}
    /\ pc \in {"resolve", "lookup"} => target = source
    /\ pc = "lookup" => hook.delegation
    /\ pc \notin {"resolve", "lookup", "failed"} \/ published # {} =>
          (hook.delegation /\ ModeOrDefault = "strict" /\ ~dangling => target \in ChainEnds(source))

\* Rounds are a poll interval apart, each begins before the deadline, and its queries
\* take their time one by one.
TimeInv ==
    LET n == Cardinality(hosts)
        m == Cardinality(todo)
        start == deadline - TimeoutOrDefault IN
    /\ pc \in {"query", "poll", "settle"} => (round - 1) * PollOrDefault < TimeoutOrDefault
    /\ pc \in {"query", "settle"} => start + (round - 1) * PollOrDefault <= now
    /\ pc = "query" =>
          due < deadline + (IF todo = {} THEN n ELSE n - m + 1) * QueryBound
    /\ pc = "poll" =>
          /\ start + round * PollOrDefault <= due
          /\ due < deadline + n * QueryBound + PollOrDefault

\* A streak is no longer than the rounds since the last miss.
StreakInv ==
    \A ns \in Nameserver :
        successes[ns] + missed[ns] <= (IF ns \in todo THEN round - 1 ELSE round)

IInv ==
    /\ TypeOK
    /\ PhaseInv
    /\ WalkInv
    /\ TimeInv
    /\ StreakInv
    /\ QuorumIsStable
    /\ BestEffort

-----------------------------------------------------------------------------
(* Types *)

\* The assumptions, one by one.
LEMMA Constants ==
    /\ MaxDepth \in Nat /\ MaxDepth > 0
    /\ QueryBound \in Nat /\ QueryBound > 0
    /\ DefaultTimeout \in Nat /\ DefaultTimeout > 0
    /\ DefaultPoll \in Nat /\ DefaultPoll > 0
    /\ DefaultConsecutive \in Nat /\ DefaultConsecutive > 0
    /\ source \in Name
    /\ Records \subseteq [Name -> Name]
    /\ IsFiniteSet(Nameserver)
  BY PolicyAssumption

\* Whatever a section leaves out or sets to a senseless value, the limits in force
\* are positive (timeoutOrDefault, pollOrDefault and the others of internal/config).
LEMMA Limits ==
    ASSUME hook \in Policy
    PROVE  /\ TimeoutOrDefault \in Nat /\ TimeoutOrDefault > 0
           /\ PollOrDefault \in Nat /\ PollOrDefault > 0
           /\ MinConsecutiveOrDefault \in Nat /\ MinConsecutiveOrDefault > 0
           /\ SettleDelayOrDefault \in Nat
           /\ QuorumPercentOrDefault \in Int
  <1>1. hook \in PolicyType
    BY PolicyAssumption
  <1>2. hook.timeout_seconds \in Int /\ hook.poll_seconds \in Int /\ hook.min_consecutive \in Int
        /\ hook.quorum_percent \in Int /\ hook.settle_seconds \in Int
    BY <1>1 DEF PolicyType
  <1> QED
    BY <1>2, Constants DEF TimeoutOrDefault, PollOrDefault, MinConsecutiveOrDefault,
                           SettleDelayOrDefault, QuorumPercentOrDefault

\* The resolver's answers are names of the zone.
LEMMA Answers ==
    ASSUME TypeOK, NEW n \in Name
    PROVE  CNAMEAnswers(n) \subseteq Name
  BY Constants DEF TypeOK, CNAMEAnswers, ChainEnds, Chain

\* A challenge begins well typed, under any valid policy.
LEMMA InitType ==
    ASSUME Init
    PROVE  TypeOK
  <1>1. hook \in Policy /\ cname \in Records /\ dangling \in BOOLEAN /\ ctx \in BOOLEAN /\ quorum \in BOOLEAN
    BY DEF Init
  <1>2. successes \in [Nameserver -> Nat] /\ missed \in [Nameserver -> Nat]
    BY DEF Init
  <1>3. /\ pc \in PC /\ depth \in 0 .. MaxDepth /\ todo \in SUBSET hosts
        /\ now \in Nat /\ deadline \in Nat /\ due \in Nat /\ round \in Nat
        /\ {current, target} \subseteq Name /\ seen \in SUBSET Name
        /\ published \in SUBSET Name /\ hosts \in SUBSET Nameserver
    BY Constants DEF Init, PC
  <1> QED
    BY <1>1, <1>2, <1>3 DEF TypeOK

\* Every step keeps the types; the walk counts no further than its limit.
LEMMA StepType ==
    ASSUME TypeOK, [Next]_vars
    PROVE  TypeOK'
  <1> USE Constants
  <1>1. CASE Resolve
    BY <1>1 DEF TypeOK, PC, Resolve, dns, walk, wait
  <1>2. CASE LookupCNAME
    <2>1. CASE DelegationError /\ UNCHANGED <<dns, now, ctx, wait>>
      BY <2>1 DEF TypeOK, PC, DelegationError, dns, wait
    <2>2. ASSUME NEW n \in CNAMEAnswers(current), n # current, depth < MaxDepth,
                 current' = n, seen' = seen \union {current}, depth' = depth + 1,
                 UNCHANGED <<target, pc>>, UNCHANGED <<dns, now, ctx, wait>>
          PROVE  TypeOK'
      <3>1. n \in Name
        BY <2>2, Answers DEF TypeOK
      <3> QED
        BY <2>2, <3>1 DEF TypeOK, PC, dns, wait
    <2>3. CASE Delegated /\ UNCHANGED <<dns, now, ctx, wait>>
      BY <2>3, <2>1 DEF TypeOK, PC, Delegated, dns, walk, wait
    <2> QED
      BY <1>2, <2>1, <2>2, <2>3 DEF LookupCNAME
  <1>3. CASE Deploy
    BY <1>3 DEF TypeOK, PC, Deploy, walk, wait
  <1>4. CASE AuthoritativeNameservers
    <2>1. CASE UNCHANGED wait
      BY <1>4, <2>1 DEF TypeOK, PC, AuthoritativeNameservers, WaitError, BeginRound, dns, walk, wait
    <2>2. ASSUME NEW H \in (SUBSET Nameserver) \ {{}}, hosts' = H, BeginRound(H),
                 deadline' = now + TimeoutOrDefault,
                 UNCHANGED <<successes, missed, quorum>>, UNCHANGED <<dns, now, ctx, walk>>
          PROVE  TypeOK'
      BY <2>2, Limits DEF TypeOK, PC, BeginRound, dns, walk
    <2> QED
      BY <1>4, <2>1, <2>2 DEF AuthoritativeNameservers
  <1>5. ASSUME NEW ns \in Nameserver, QueryTXT(ns)
        PROVE  TypeOK'
    BY <1>5 DEF TypeOK, PC, QueryTXT, dns, walk
  <1>6. CASE EndRound
    <2>1. due' \in Nat
      BY <1>6, Limits DEF TypeOK, EndRound
    <2>2. pc' \in PC /\ quorum' \in BOOLEAN
      BY <1>6 DEF TypeOK, PC, EndRound
    <2> QED
      BY <1>6, <2>1, <2>2 DEF TypeOK, EndRound, dns, walk
  <1>7. CASE Poll
    BY <1>7 DEF TypeOK, PC, Poll, BeginRound, WaitError, dns, walk
  <1>8. CASE Settle
    BY <1>8 DEF TypeOK, PC, Settle, WaitError, dns, walk, wait
  <1>9. CASE Cancel
    BY <1>9 DEF TypeOK, Cancel, dns, walk, wait
  <1>10. CASE Tick
    BY <1>10 DEF TypeOK, Tick, dns, walk, wait
  <1>11. CASE UNCHANGED vars
    BY <1>11 DEF TypeOK, vars, dns, walk, wait
  <1> QED
    BY <1>1, <1>2, <1>3, <1>4, <1>5, <1>6, <1>7, <1>8, <1>9, <1>10, <1>11 DEF Next, Step

-----------------------------------------------------------------------------
(* Phases *)

\* Nothing is published and no round has begun at first.
LEMMA InitPhase ==
    ASSUME Init
    PROVE  PhaseInv
  BY DEF Init, PhaseInv

\* Every step keeps the phases apart.
LEMMA StepPhase ==
    ASSUME TypeOK, PhaseInv, [Next]_vars
    PROVE  PhaseInv'
  <1> USE Constants
  <1>0. hook' = hook /\ ValidateDNSHookPolicy(hook)'
    <2>1. hook' = hook
      BY DEF Next, Step, Resolve, LookupCNAME, Deploy, AuthoritativeNameservers, QueryTXT,
             EndRound, Poll, Settle, Cancel, Tick, dns, vars
    <2> QED
      BY <2>1 DEF PhaseInv, ValidateDNSHookPolicy
  <1>1. CASE Resolve
    BY <1>0, <1>1 DEF TypeOK, PhaseInv, Resolve, dns, walk, wait
  <1>2. CASE LookupCNAME
    <2>1. pc' \in {"lookup", "deploy", "failed"}
      BY <1>2 DEF LookupCNAME, Delegated, DelegationError
    <2> QED
      BY <1>0, <1>2, <2>1 DEF PhaseInv, LookupCNAME, dns, wait
  <1>3. CASE Deploy
    BY <1>0, <1>3 DEF PhaseInv, Deploy, walk, wait
  <1>4. CASE AuthoritativeNameservers
    <2>1. CASE UNCHANGED wait
      <3>1. pc' \in {"trigger", "aborted"}
        BY <1>4, <2>1 DEF TypeOK, PhaseInv, AuthoritativeNameservers, WaitError, BeginRound, wait
      <3> QED
        BY <1>0, <1>4, <2>1, <3>1 DEF PhaseInv, AuthoritativeNameservers, dns, wait
    <2>2. CASE ~UNCHANGED wait
      <3>1. PICK H \in (SUBSET Nameserver) \ {{}} : hosts' = H /\ BeginRound(H)
        BY <1>4, <2>2 DEF AuthoritativeNameservers
      <3> QED
        <4>1. pc' = "query" /\ hosts' # {} /\ round' > 0 /\ now' <= due'
          BY <1>4, <3>1 DEF TypeOK, AuthoritativeNameservers, BeginRound
        <4> QED
          BY <1>0, <4>1 DEF PhaseInv
    <2> QED
      BY <2>1, <2>2
  <1>5. ASSUME NEW ns \in Nameserver, QueryTXT(ns)
        PROVE  PhaseInv'
    BY <1>0, <1>5 DEF TypeOK, PhaseInv, QueryTXT, dns
  <1>6. CASE EndRound
    BY <1>0, <1>6, Limits DEF TypeOK, PhaseInv, EndRound, dns
  <1>7. CASE Poll
    BY <1>0, <1>7 DEF TypeOK, PhaseInv, Poll, BeginRound, WaitError, dns
  <1>8. CASE Settle
    BY <1>0, <1>8 DEF PhaseInv, Settle, WaitError, dns, wait
  <1>9. CASE Cancel
    BY <1>0, <1>9 DEF PhaseInv, Cancel, dns, wait
  <1>10. CASE Tick
    BY <1>0, <1>10 DEF TypeOK, PhaseInv, Tick, dns, wait
  <1>11. CASE UNCHANGED vars
    BY <1>0, <1>11 DEF PhaseInv, vars, dns, wait
  <1> QED
    BY <1>1, <1>2, <1>3, <1>4, <1>5, <1>6, <1>7, <1>8, <1>9, <1>10, <1>11 DEF Next, Step

-----------------------------------------------------------------------------
(* The walk *)

\* The start of a chain is on it.
LEMMA ChainStart ==
    ASSUME NEW n \in Name
    PROVE  n \in Chain(n)
  BY DEF Chain

\* What a resolver may answer for a name on a chain is on that chain too, whether it
\* gives the next name or jumps to the end.
LEMMA AnswerOnChain ==
    ASSUME TypeOK, NEW m \in Chain(source), NEW n \in CNAMEAnswers(m)
    PROVE  n \in Chain(source)
  <1>1. m \in Name /\ n \in Name
    BY Answers DEF Chain
  <1>2. SUFFICES ASSUME NEW S \in SUBSET Name, source \in S, \A x \in S : cname[x] \in S
                 PROVE  n \in S
    BY <1>1 DEF Chain
  <1>3. m \in S
    BY <1>2 DEF Chain
  <1>4. n = cname[m] \/ n \in Chain(m) \/ n = m
    BY DEF CNAMEAnswers, ChainEnds
  <1>5. CASE n \in Chain(m)
    BY <1>2, <1>3, <1>5 DEF Chain
  <1> QED
    BY <1>2, <1>3, <1>4, <1>5

\* A name that is its own answer, while the chain's end exists, is the end.
LEMMA AnswerIsEnd ==
    ASSUME TypeOK, ~dangling, NEW m \in Chain(source), m \in CNAMEAnswers(m)
    PROVE  m \in ChainEnds(source)
  BY DEF CNAMEAnswers, ChainEnds

\* The walk begins at the source, which is on its own chain.
LEMMA InitWalk ==
    ASSUME Init
    PROVE  WalkInv
  BY Constants, ChainStart DEF Init, WalkInv

\* A step that leaves the walk alone, publishes nothing and leads on from the deploy.
LEMMA KeepWalk ==
    ASSUME WalkInv, UNCHANGED <<dns, walk>>,
           pc' = pc \/ (pc \notin {"resolve", "lookup", "failed"} /\ pc' \notin {"resolve", "lookup"})
    PROVE  WalkInv'
  <1>1. /\ Chain(source)' = Chain(source)
        /\ ChainEnds(source)' = ChainEnds(source)
        /\ ModeOrDefault' = ModeOrDefault
        /\ ValidateDelegatedTarget(target)' = ValidateDelegatedTarget(target)
    BY DEF Chain, ChainEnds, ModeOrDefault, ValidateDelegatedTarget, dns, walk
  <1> QED
    BY <1>1 DEF WalkInv, dns, walk

\* A lookup stays on the chain, and the walk ends at the end of it or fails.
LEMMA StepWalk ==
    ASSUME TypeOK, PhaseInv, WalkInv, [Next]_vars
    PROVE  WalkInv'
  <1> USE Constants
  <1>0. ASSUME UNCHANGED <<hook, cname, dangling>>
        PROVE  /\ Chain(source)' = Chain(source)
               /\ ChainEnds(source)' = ChainEnds(source)
               /\ ModeOrDefault' = ModeOrDefault
               /\ \A n : (hook.suffixes = {} \/ \E z \in hook.suffixes : <<n, z>> \in InZone)
                      =  (hook'.suffixes = {} \/ \E z \in hook'.suffixes : <<n, z>> \in InZone)
    BY <1>0 DEF Chain, ChainEnds, ModeOrDefault
  <1>1. CASE Resolve
    <2>1. hook.delegation' = hook.delegation
      BY <1>1 DEF Resolve, dns
    <2> QED
      BY <1>0, <1>1, <2>1 DEF WalkInv, PhaseInv, Resolve, ValidateDelegatedTarget, dns, walk
  <1>2. CASE LookupCNAME
    <2>0. /\ UNCHANGED <<hook, cname, dangling, published>>
          /\ pc = "lookup" /\ published = {} /\ hook.delegation /\ target = source
      BY <1>2 DEF LookupCNAME, PhaseInv, WalkInv, dns
    <2>1. CASE DelegationError
      <3>1. pc' = IF ModeOrDefault = "permissive" THEN "deploy" ELSE "failed"
        BY <2>1 DEF DelegationError
      <3> QED
        BY <1>0, <2>0, <2>1, <3>1 DEF WalkInv, DelegationError, ValidateDelegatedTarget
    <2>2. ASSUME NEW n \in CNAMEAnswers(current), n # current,
                 current' = n, depth' = depth + 1, UNCHANGED <<target, pc>>
          PROVE  WalkInv'
      <3>1. n \in Chain(source)
        BY <2>2, AnswerOnChain DEF WalkInv
      <3>2. depth' # 0
        BY <2>2 DEF TypeOK
      <3> QED
        BY <1>0, <2>0, <2>2, <3>1, <3>2 DEF WalkInv, ValidateDelegatedTarget
    <2>3. CASE current \in CNAMEAnswers(current) /\ Delegated
      <3>1. ~dangling => current \in ChainEnds(source)
        BY <2>3, AnswerIsEnd DEF WalkInv
      <3>2. CASE depth = 0
        <4>1. pc' = "deploy" /\ UNCHANGED walk /\ current = target
          BY <2>0, <2>3, <3>2 DEF Delegated, WalkInv
        <4> QED
          BY <1>0, <2>0, <3>1, <4>1 DEF WalkInv, ValidateDelegatedTarget, walk
      <3>3. CASE depth # 0 /\ ValidateDelegatedTarget(current)
        <4>1. pc' = "deploy" /\ target' = current /\ UNCHANGED <<current, depth, seen>>
          BY <2>3, <3>3 DEF Delegated
        <4> QED
          BY <1>0, <2>0, <3>1, <3>3, <4>1 DEF WalkInv, ValidateDelegatedTarget
      <3> QED
        BY <2>1, <2>3, <3>2, <3>3 DEF Delegated
    <2> QED
      BY <1>2, <2>1, <2>2, <2>3 DEF LookupCNAME
  <1>3. CASE Deploy
    <2>1. /\ UNCHANGED <<hook, cname, dangling, current, depth, target>>
          /\ pc = "deploy" /\ pc' \in {"nameservers", "failed"}
          /\ published' \subseteq {target}
      BY <1>3 DEF Deploy, PhaseInv, walk
    <2> QED
      BY <1>0, <2>1 DEF WalkInv, ValidateDelegatedTarget
  <1>4. CASE AuthoritativeNameservers
    BY <1>4, KeepWalk DEF AuthoritativeNameservers, WaitError, BeginRound
  <1>5. ASSUME NEW ns \in Nameserver, QueryTXT(ns)
        PROVE  WalkInv'
    BY <1>5, KeepWalk DEF QueryTXT
  <1>6. CASE EndRound
    BY <1>6, KeepWalk DEF EndRound
  <1>7. CASE Poll
    BY <1>7, KeepWalk DEF Poll, BeginRound, WaitError
  <1>8. CASE Settle
    BY <1>8, KeepWalk DEF Settle, WaitError
  <1>9. CASE Cancel \/ Tick \/ UNCHANGED vars
    BY <1>9, KeepWalk DEF Cancel, Tick, vars
  <1> QED
    BY <1>1, <1>2, <1>3, <1>4, <1>5, <1>6, <1>7, <1>8, <1>9 DEF Next, Step

-----------------------------------------------------------------------------
(* Time *)

\* Multiplication by a sum, which the solver needs spelled out.
LEMMA Product ==
    ASSUME NEW a \in Int, NEW b \in Int
    PROVE  a * b \in Int /\ (a + 1) * b = a * b + b
  OBVIOUS

\* The nameservers and those still to be asked can be counted.
LEMMA Counts ==
    ASSUME TypeOK
    PROVE  /\ IsFiniteSet(hosts) /\ IsFiniteSet(todo)
           /\ Cardinality(hosts) \in Nat /\ Cardinality(todo) \in Nat
           /\ hosts # {} => Cardinality(hosts) > 0
  <1>1. IsFiniteSet(hosts)
    BY Constants, FS_Subset DEF TypeOK
  <1>2. IsFiniteSet(todo)
    BY <1>1, FS_Subset DEF TypeOK
  <1> QED
    BY <1>1, <1>2, FS_CardinalityType, FS_EmptySet

\* Before the wait there is no deadline to keep.
LEMMA InitTime ==
    ASSUME Init
    PROVE  TimeInv
  BY DEF Init, TimeInv

\* The limits are those of the policy, which a step does not change.
LEMMA SamePolicy ==
    ASSUME hook' = hook
    PROVE  /\ TimeoutOrDefault' = TimeoutOrDefault
           /\ PollOrDefault' = PollOrDefault
           /\ MinConsecutiveOrDefault' = MinConsecutiveOrDefault
           /\ QuorumPercentOrDefault' = QuorumPercentOrDefault
  BY DEF TimeoutOrDefault, PollOrDefault, MinConsecutiveOrDefault, QuorumPercentOrDefault

\* Every step keeps within the time of its round.
LEMMA StepTime ==
    ASSUME TypeOK, PhaseInv, TimeInv, [Next]_vars
    PROVE  TimeInv'
  <1> USE Constants
  <1> DEFINE T == TimeoutOrDefault
             P == PollOrDefault
             before == (round - 1) * P
             spent == (Cardinality(hosts) - Cardinality(todo) + 1) * QueryBound
             all == Cardinality(hosts) * QueryBound
  <1>a. /\ T \in Nat /\ T > 0 /\ P \in Nat /\ P > 0
        /\ now \in Nat /\ due \in Nat /\ deadline \in Nat /\ round \in Nat
        /\ Cardinality(hosts) \in Nat /\ Cardinality(todo) \in Nat
    BY Limits, Counts DEF TypeOK
  <1>b. /\ before \in Int /\ spent \in Int /\ all \in Int
        /\ round * P = before + P
        /\ (Cardinality(hosts) - Cardinality(todo) + 2) * QueryBound = spent + QueryBound
    <2>1. round - 1 \in Int /\ Cardinality(hosts) - Cardinality(todo) + 1 \in Int
      BY <1>a
    <2>2. before \in Int /\ spent \in Int /\ all \in Int
      BY <1>a, <2>1, Product
    <2>3. (round - 1 + 1) * P = before + P
      BY <1>a, <2>1, Product
    <2>4. (Cardinality(hosts) - Cardinality(todo) + 1 + 1) * QueryBound = spent + QueryBound
      BY <1>a, <2>1, Product
    <2>5. round - 1 + 1 = round
          /\ Cardinality(hosts) - Cardinality(todo) + 1 + 1 = Cardinality(hosts) - Cardinality(todo) + 2
      BY <1>a
    <2> QED
      BY <2>2, <2>3, <2>4, <2>5
  <1>c. hook' = hook => T' = T /\ P' = P
    BY SamePolicy
  <1>q. pc = "query" => /\ before < T /\ deadline - T + before <= now /\ now <= due
                        /\ todo = {} => due < deadline + all
                        /\ todo # {} => due < deadline + spent
    BY DEF PhaseInv, TimeInv
  <1>p. pc = "poll" => /\ before < T
                       /\ deadline - T + round * P <= due /\ now <= due
                       /\ due < deadline + all + P
    BY DEF PhaseInv, TimeInv
  <1>s. pc = "settle" => before < T /\ deadline - T + before <= now
    BY DEF TimeInv
  <1> HIDE DEF T, P, before, spent, all
  <1>1. CASE pc' \notin {"query", "poll", "settle"}
    BY <1>1 DEF TimeInv
  <1>2. CASE AuthoritativeNameservers /\ pc' = "query"
    <2>1. PICK H \in (SUBSET Nameserver) \ {{}} : hosts' = H /\ BeginRound(H)
      BY <1>2 DEF AuthoritativeNameservers, WaitError
    <2>2. /\ todo' = hosts' /\ hosts' # {} /\ now' = now /\ due' = now + QueryBound
          /\ deadline' = now + T /\ hook' = hook /\ round' = 1
      BY <1>2, <2>1 DEF AuthoritativeNameservers, BeginRound, PhaseInv, WaitError, dns, wait, T
    <2>3. Cardinality(hosts') \in Nat
      BY <2>1, FS_CardinalityType, FS_Subset
    <2>4. (round' - 1) * P' = 0 /\ (Cardinality(hosts') - Cardinality(todo') + 1) * QueryBound = QueryBound
      BY <1>a, <1>c, <2>2, <2>3
    <2> QED
      BY <1>2, <1>a, <1>c, <2>2, <2>4 DEF TimeInv, T, P
  <1>3. ASSUME NEW ns \in Nameserver, QueryTXT(ns)
        PROVE  TimeInv'
    <2>1. /\ pc = "query" /\ pc' = "query" /\ todo # {} /\ hook' = hook
          /\ now' = now /\ hosts' = hosts /\ deadline' = deadline /\ round' = round
          /\ todo' = todo \ {ns}
      BY <1>3 DEF QueryTXT, dns
    <2>2. (round' - 1) * P' < T' /\ deadline' - T' + (round' - 1) * P' <= now'
      BY <1>q, <1>c, <2>1 DEF before
    <2>3. CASE todo' = {}
      <3>1. todo = {ns} /\ due' = now
        BY <1>3, <2>1, <2>3 DEF QueryTXT
      <3>2. Cardinality(todo) = 1
        BY <3>1, FS_Singleton
      <3>3. spent = all
        <4>1. Cardinality(hosts) - Cardinality(todo) + 1 = Cardinality(hosts)
          BY <1>a, <3>2
        <4> QED
          BY <4>1 DEF spent, all
      <3>4. due' < deadline' + Cardinality(hosts') * QueryBound
        BY <1>a, <1>b, <1>q, <2>1, <3>1, <3>3 DEF all
      <3> QED
        BY <2>1, <2>2, <2>3, <3>4 DEF TimeInv, T, P
    <2>4. CASE todo' # {}
      <3>1. due' = now + QueryBound
        BY <1>3, <2>1, <2>4 DEF QueryTXT
      <3>2. Cardinality(todo') = Cardinality(todo) - 1
        BY <1>3, <2>1, Counts, FS_RemoveElement DEF QueryTXT
      <3>3. (Cardinality(hosts') - Cardinality(todo') + 1) * QueryBound = spent + QueryBound
        <4>1. Cardinality(hosts') - Cardinality(todo') + 1 = Cardinality(hosts) - Cardinality(todo) + 2
          BY <1>a, <2>1, <3>2
        <4> QED
          BY <4>1, <1>b
      <3>4. due' < deadline' + (Cardinality(hosts') - Cardinality(todo') + 1) * QueryBound
        BY <1>a, <1>b, <1>q, <2>1, <3>1, <3>3
      <3> QED
        BY <2>1, <2>2, <2>4, <3>4 DEF TimeInv, T, P
    <2> QED
      BY <2>3, <2>4
  <1>4. CASE EndRound
    <2>1. /\ pc = "query" /\ todo = {} /\ hook' = hook
          /\ now' = now /\ hosts' = hosts /\ deadline' = deadline /\ round' = round
          /\ pc' = "settle" \/ (pc' = "poll" /\ due' = now + P)
      BY <1>4 DEF EndRound, dns, P
    <2>2. (round' - 1) * P' < T' /\ deadline' - T' + (round' - 1) * P' <= now'
      BY <1>q, <1>c, <2>1 DEF before
    <2>3. CASE pc' = "settle"
      BY <2>2, <2>3 DEF TimeInv, T, P
    <2>4. CASE pc' = "poll"
      <3>1. deadline - T + (before + P) <= due' /\ due' < deadline + all + P
        BY <1>a, <1>b, <1>q, <2>1, <2>4
      <3>2. /\ deadline' - T' + round' * P' <= due'
            /\ due' < deadline' + Cardinality(hosts') * QueryBound + P'
        BY <1>b, <1>c, <2>1, <3>1 DEF all
      <3> QED
        BY <2>2, <2>4, <3>2 DEF TimeInv, T, P
    <2> QED
      BY <2>1, <2>3, <2>4
  <1>5. CASE Poll /\ pc' = "query"
    <2>1. /\ pc = "poll" /\ now >= due /\ now < deadline /\ hook' = hook
          /\ now' = now /\ hosts' = hosts /\ deadline' = deadline /\ round' = round + 1
          /\ todo' = hosts' /\ hosts' # {} /\ due' = now + QueryBound
      BY <1>5 DEF Poll, WaitError, BeginRound, PhaseInv, dns
    <2>2. round' - 1 = round /\ (Cardinality(hosts') - Cardinality(todo') + 1) * QueryBound = QueryBound
      BY <1>a, <2>1
    <2>3. /\ deadline - T + round * P <= now
          /\ round * P < T
          /\ now + QueryBound < deadline + QueryBound
      BY <1>a, <1>b, <1>p, <2>1
    <2> QED
      BY <1>5, <1>c, <2>1, <2>2, <2>3 DEF TimeInv, T, P
  <1>6. CASE Tick
    <2>1. /\ pc \in {"query", "poll", "settle"} /\ pc' = pc /\ now' = now + 1
          /\ UNCHANGED <<hook, hosts, todo, deadline, due, round>>
      BY <1>6 DEF Tick, dns, wait
    <2>2. before < T /\ (pc # "poll" => deadline - T + before <= now + 1)
      BY <1>a, <1>b, <1>q, <1>p, <1>s, <2>1
    <2>3. /\ (round' - 1) * P' < T'
          /\ pc' # "poll" => deadline' - T' + (round' - 1) * P' <= now'
      BY <1>c, <2>1, <2>2 DEF before
    <2> QED
      BY <1>c, <2>1, <2>3 DEF TimeInv, T, P
  <1>7. CASE pc' = pc /\ UNCHANGED <<hook, hosts, todo, deadline, due, round, now>>
    BY <1>7, <1>c DEF TimeInv, T, P
  <1>8. (Resolve \/ LookupCNAME \/ Deploy) => pc' \notin {"query", "poll", "settle"}
    BY DEF Resolve, LookupCNAME, Delegated, DelegationError, Deploy
  <1>9. AuthoritativeNameservers => pc' \in {"query", "trigger", "aborted"}
    BY DEF AuthoritativeNameservers, WaitError, BeginRound
  <1>10. Poll => pc' \in {"query", "trigger", "aborted"}
    BY DEF Poll, WaitError, BeginRound
  <1>11. Settle => pc' \in {"trigger", "aborted"}
    BY DEF Settle, WaitError
  <1>12. Cancel \/ UNCHANGED vars => pc' = pc /\ UNCHANGED <<hook, hosts, todo, deadline, due, round, now>>
    BY DEF Cancel, vars, dns, wait
  <1> QED
    BY <1>1, <1>2, <1>3, <1>4, <1>5, <1>6, <1>7, <1>8, <1>9, <1>10, <1>11, <1>12 DEF Next, Step

-----------------------------------------------------------------------------
(* Streaks and the quorum *)

\* No nameserver has a streak at first.
LEMMA InitStreak ==
    ASSUME Init
    PROVE  StreakInv
  BY DEF Init, StreakInv

\* A round adds at most one to a streak, and a miss ends it.
LEMMA StepStreak ==
    ASSUME TypeOK, PhaseInv, StreakInv, [Next]_vars
    PROVE  StreakInv'
  <1>1. CASE UNCHANGED <<todo, round, successes, missed>>
    BY <1>1 DEF StreakInv
  <1>2. ASSUME NEW H, BeginRound(H), todo = {}, UNCHANGED <<successes, missed>>
        PROVE  StreakInv'
    BY <1>2 DEF StreakInv, BeginRound, TypeOK
  <1>3. ASSUME NEW ns \in Nameserver, QueryTXT(ns)
        PROVE  StreakInv'
    <2>1. /\ ns \in todo /\ round' = round /\ todo' = todo \ {ns}
          /\ \/ successes'[ns] = successes[ns] + 1 /\ missed'[ns] = missed[ns]
             \/ successes'[ns] = 0 /\ missed'[ns] = round
          /\ \A m \in Nameserver \ {ns} : successes'[m] = successes[m] /\ missed'[m] = missed[m]
      BY <1>3 DEF QueryTXT, TypeOK
    <2>2. successes[ns] + missed[ns] <= round - 1
      BY <2>1 DEF StreakInv
    <2>3. successes'[ns] + missed'[ns] <= round
      BY <2>1, <2>2 DEF TypeOK
    <2> QED
      BY <2>1, <2>3 DEF StreakInv
  <1>4. CASE AuthoritativeNameservers
    BY <1>1, <1>2, <1>4 DEF AuthoritativeNameservers, PhaseInv, wait
  <1>5. CASE Poll
    BY <1>1, <1>2, <1>5 DEF Poll, PhaseInv
  <1> QED
    BY <1>1, <1>3, <1>4, <1>5 DEF Next, Step, Resolve, LookupCNAME, Deploy, EndRound, Settle,
                                  Cancel, Tick, wait, vars

\* Rounding up: so many hundreds make up at least the number.
LEMMA Ceiling ==
    ASSUME NEW m \in Nat, NEW c \in Nat, c >= (m + 99) \div 100
    PROVE  c * 100 >= m
  OBVIOUS

\* The nameservers that quorumRequirement asks for are at least the percentage of all,
\* and at least one.
LEMMA QuorumReached ==
    ASSUME TypeOK, ValidateDNSHookPolicy(hook), NEW c \in Nat, c >= Required
    PROVE  c >= 1 /\ c * 100 >= Cardinality(hosts) * QuorumPercentOrDefault
  <1> DEFINE n == Cardinality(hosts)
             p == QuorumPercentOrDefault
  <1>1. n \in Nat
    BY Counts
  <1>2. p \in 1 .. 100
    <2>1. hook.quorum_percent \in 0 .. 100
      BY DEF ValidateDNSHookPolicy
    <2> QED
      BY <2>1 DEF QuorumPercentOrDefault
  <1>3. n * p \in Nat
    BY <1>1, <1>2
  <1>4. c >= 1 /\ (n > 0 => c >= (n * p + 99) \div 100)
    <2>1. QuorumRequirement(n, p) = IF n <= 0 THEN 0 ELSE (n * p + 99) \div 100
      BY <1>2 DEF QuorumRequirement
    <2>2. (n * p + 99) \div 100 \in Int
      BY <1>3
    <2> HIDE DEF n, p
    <2> QED
      BY <1>1, <2>1, <2>2 DEF Required, n, p
  <1>5. CASE n = 0
    BY <1>2, <1>4, <1>5
  <1>6. CASE n > 0
    BY <1>3, <1>4, <1>6, Ceiling
  <1> QED
    BY <1>1, <1>4, <1>5, <1>6

\* A quorum is only declared with enough streaks that are long enough.
LEMMA StepQuorum ==
    ASSUME TypeOK, PhaseInv, StreakInv, TimeInv, QuorumIsStable, [Next]_vars
    PROVE  QuorumIsStable'
  <1>0. SUFFICES ASSUME pc' = "settle"
                 PROVE  QuorumIsStable'
    BY DEF QuorumIsStable
  <1>1. CASE EndRound
    <2>1. /\ pc = "query" /\ todo = {} /\ Cardinality(Stable) >= Required
          /\ UNCHANGED <<hook, now, hosts, successes, deadline, round, missed>>
      BY <1>0, <1>1 DEF EndRound, dns
    <2>2. Stable \in SUBSET hosts
      BY DEF Stable
    <2>3. IsFiniteSet(Stable) /\ Cardinality(Stable) \in Nat
      BY <2>2, Counts, FS_Subset, FS_CardinalityType
    <2>4. /\ Cardinality(Stable) >= 1
          /\ Cardinality(Stable) * 100 >= Cardinality(hosts) * QuorumPercentOrDefault
      BY <2>1, <2>3, QuorumReached DEF PhaseInv
    <2>5. Stable # {}
      BY <2>4, FS_EmptySet
    <2>6. ASSUME NEW ns \in Stable
          PROVE  round - missed[ns] >= MinConsecutiveOrDefault
      <3>1. ns \in Nameserver /\ successes[ns] >= MinConsecutiveOrDefault
        BY DEF Stable, TypeOK
      <3>2. successes[ns] + missed[ns] <= round
        BY <2>1, <3>1 DEF StreakInv
      <3> QED
        BY <3>1, <3>2, Limits DEF TypeOK
    <2>7. (round - 1) * PollOrDefault <= now - (deadline - TimeoutOrDefault)
      <3>1. deadline - TimeoutOrDefault + (round - 1) * PollOrDefault <= now
        BY <2>1 DEF TimeInv
      <3>2. (round - 1) * PollOrDefault \in Int
        BY Limits, Product DEF TypeOK
      <3> QED
        BY <3>1, <3>2, Limits DEF TypeOK
    <2> QED
      BY <2>1, <2>2, <2>4, <2>5, <2>6, <2>7, SamePolicy DEF QuorumIsStable
  <1>2. CASE pc = "settle" /\ now' >= now /\ UNCHANGED <<hook, hosts, deadline, round, missed>>
    <2>1. PICK Q \in SUBSET hosts :
              /\ Q # {}
              /\ Cardinality(Q) * 100 >= Cardinality(hosts) * QuorumPercentOrDefault
              /\ \A ns \in Q : round - missed[ns] >= MinConsecutiveOrDefault
              /\ (round - 1) * PollOrDefault <= now - (deadline - TimeoutOrDefault)
      BY <1>2 DEF QuorumIsStable
    <2>2. (round - 1) * PollOrDefault <= now' - (deadline - TimeoutOrDefault)
      <3>1. (round - 1) * PollOrDefault \in Int
        BY Limits, Product DEF TypeOK
      <3> QED
        BY <1>2, <2>1, <3>1, Limits, StepType DEF TypeOK
    <2> QED
      BY <1>2, <2>1, <2>2, SamePolicy DEF QuorumIsStable
  <1>3. (Cancel \/ Tick \/ UNCHANGED vars) =>
            pc = "settle" /\ now' >= now /\ UNCHANGED <<hook, hosts, deadline, round, missed>>
    BY <1>0 DEF Cancel, Tick, vars, dns, wait, TypeOK
  <1>4. ~(Resolve \/ LookupCNAME \/ Deploy \/ AuthoritativeNameservers \/ Poll \/ Settle)
    BY <1>0 DEF Resolve, LookupCNAME, Delegated, DelegationError, Deploy, AuthoritativeNameservers,
                Poll, Settle, WaitError, BeginRound
  <1>5. \A ns \in Nameserver : ~QueryTXT(ns)
    BY <1>0 DEF QueryTXT
  <1> QED
    BY <1>1, <1>2, <1>3, <1>4, <1>5 DEF Next, Step

\* A wait without a quorum ends in the trigger after its timeout, or with the context.
LEMMA StepBest ==
    ASSUME TypeOK, PhaseInv, BestEffort, [Next]_vars
    PROVE  BestEffort'
  <1>1. CASE AuthoritativeNameservers
    BY <1>1 DEF BestEffort, PhaseInv, AuthoritativeNameservers, WaitError, BeginRound, wait
  <1>2. CASE Poll
    BY <1>2 DEF BestEffort, TypeOK, Poll, WaitError, BeginRound
  <1>3. CASE Settle
    BY <1>3 DEF BestEffort, PhaseInv, TypeOK, Settle, WaitError, wait
  <1>4. CASE Cancel \/ Tick
    BY <1>4 DEF BestEffort, Cancel, Tick, Ended, wait
  <1>5. CASE UNCHANGED vars
    BY <1>5 DEF BestEffort, vars, wait
  <1>6. (Resolve \/ LookupCNAME \/ Deploy \/ EndRound) => pc' \notin {"aborted", "trigger"}
    BY DEF Resolve, LookupCNAME, Delegated, DelegationError, Deploy, EndRound
  <1>7. \A ns \in Nameserver : QueryTXT(ns) => pc' \notin {"aborted", "trigger"}
    BY DEF QueryTXT
  <1>8. pc' \notin {"aborted", "trigger"} => BestEffort'
    BY DEF BestEffort
  <1> QED
    BY <1>1, <1>2, <1>3, <1>4, <1>5, <1>6, <1>7, <1>8 DEF Next, Step

-----------------------------------------------------------------------------
(* The theorems *)

\* The inductive invariant holds in every reachable state.
THEOREM Invariance == Spec => []IInv
  <1>1. Init => IInv
    <2>1. Init => QuorumIsStable /\ BestEffort
      BY DEF Init, QuorumIsStable, BestEffort
    <2> QED
      BY <2>1, InitType, InitPhase, InitWalk, InitTime, InitStreak DEF IInv
  <1>2. IInv /\ [Next]_vars => IInv'
    BY StepType, StepPhase, StepWalk, StepTime, StepStreak, StepQuorum, StepBest DEF IInv
  <1> QED
    BY <1>1, <1>2, PTL DEF Spec

\* The policy, the walk and the wait keep their types: the walk makes at most
\* maxDelegationDepth lookups, whatever the zone holds.
THEOREM TypeCorrect == Spec => []TypeOK
  <1>1. IInv => TypeOK
    BY DEF IInv
  <1> QED
    BY <1>1, Invariance, PTL

\* resolveDelegatedFQDN and validateDelegatedTarget: for any zone, with chains of any
\* length and any loops, the record goes to a name of the chain, and never out of the
\* allowed zones.  If the end of the chain exists before the deploy, strict delegation
\* publishes there or not at all; if it does not (dns_policy.go:101), the name may be
\* any of the chain.
THEOREM PublishedWhereCALooks == Spec => []RecordWhereCALooks
  <1>1. WalkInv => RecordWhereCALooks
    BY DEF WalkInv, RecordWhereCALooks, ValidateDelegatedTarget
  <1> QED
    BY <1>1, Invariance, PTL DEF IInv

\* waitForDNSPropagation: for any number of nameservers and any valid policy, a wait
\* that ends with a quorum has seen it in enough rounds in a row.
THEOREM QuorumHolds == Spec => []QuorumIsStable
  <1>1. IInv => QuorumIsStable
    BY DEF IInv
  <1> QED
    BY <1>1, Invariance, PTL

\* waitForDNSPropagation: the wait overruns its deadline by at most one round and one
\* poll interval, whatever the timeouts, intervals and answers are.
THEOREM BoundedWait == Spec => []WaitIsBounded
  <1>1. IInv => WaitIsBounded
    <2> SUFFICES ASSUME IInv, pc \in {"query", "poll"}
                 PROVE  /\ (round - 1) * PollOrDefault < TimeoutOrDefault
                        /\ now <= deadline + Cardinality(hosts) * QueryBound + PollOrDefault
      BY DEF WaitIsBounded
    <2> DEFINE n == Cardinality(hosts)
               m == Cardinality(todo)
    <2>1. /\ n \in Nat /\ m \in Nat /\ PollOrDefault \in Nat /\ now \in Nat /\ due \in Nat
          /\ deadline \in Nat /\ QueryBound \in Nat /\ now <= due
      BY Counts, Limits, Constants DEF IInv, TypeOK, PhaseInv
    <2>2. n * QueryBound \in Nat
      BY <2>1
    <2>3. (round - 1) * PollOrDefault < TimeoutOrDefault
      BY DEF IInv, TimeInv
    <2>4. CASE pc = "query" /\ todo # {}
      <3>1. m >= 1
        BY <2>1, <2>4, Counts, FS_EmptySet DEF IInv
      <3>2. (n - m + 1) * QueryBound <= n * QueryBound
        BY <2>1, <3>1
      <3>3. due < deadline + (n - m + 1) * QueryBound
        BY <2>4 DEF IInv, TimeInv
      <3>4. (n - m + 1) * QueryBound \in Int
        BY <2>1
      <3> HIDE DEF n, m
      <3>5. now <= deadline + n * QueryBound + PollOrDefault
        BY <2>1, <2>2, <3>2, <3>3, <3>4
      <3> QED
        BY <2>3, <3>5 DEF n
    <2>5. CASE pc = "query" /\ todo = {}
      <3>1. due < deadline + n * QueryBound
        BY <2>5 DEF IInv, TimeInv
      <3> QED
        BY <2>1, <2>2, <2>3, <3>1
    <2>6. CASE pc = "poll"
      <3>1. due < deadline + n * QueryBound + PollOrDefault
        BY <2>6 DEF IInv, TimeInv
      <3> QED
        BY <2>1, <2>2, <2>3, <3>1
    <2> QED
      BY <2>4, <2>5, <2>6
  <1> QED
    BY <1>1, Invariance, PTL

\* prepareDNS01Challenge: an error of the wait is never fatal by itself, and a trigger
\* without a quorum comes after the full timeout.
THEOREM WaitIsBestEffort == Spec => []BestEffort
  <1>1. IInv => BestEffort
    BY DEF IInv
  <1> QED
    BY <1>1, Invariance, PTL

=============================================================================
