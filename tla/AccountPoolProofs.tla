------------------------- MODULE AccountPoolProofs -------------------------
(***************************************************************************)
(* Proofs about AccountPool for any gateway accounts and upstreams, any    *)
(* number of concurrent calls, failures and crashes.                       *)
(***************************************************************************)
EXTENDS AccountPool, TLAPS

Critical == {"recheck", "load", "register", "save", "cache"}

\* A call between the lock and its return holds the lock of its pair.
LockInv ==
    \A c \in Call :
        /\ call[c].pc # "idle" => call[c].pair \in Pair
        /\ call[c].pc \in Critical => regMap[call[c].pair] = c

\* What a call knows about its key: while it registers and saves a new one, the
\* table has no row for the pair; what it caches is the row.
KeyInv ==
    \A c \in Call :
        LET p == call[c].pair
            k == call[c].key IN
        /\ call[c].pc \in {"register", "save"} => row[p] = NoKey /\ k # NoKey
        /\ call[c].pc = "save" => k \in registered
        /\ call[c].pc = "cache" => row[p] = k /\ k # NoKey

\* The table is the only source of clients: what is cached or was ever handed out
\* is the pair's row, and its key is registered.
RowInv ==
    /\ \A p \in Pair : row[p] # NoKey => row[p] \in registered
    /\ \A p \in Pair : accountClients[p] # NoKey => accountClients[p] = row[p]
    /\ \A x \in given : x[2] # NoKey /\ x[2] = row[x[1]]

IInv == TypeOK /\ LockInv /\ KeyInv /\ RowInv

\* The empty pool satisfies the inductive invariant.
LEMMA InitIInv == Init => IInv
  BY PoolAssumption
     DEF Init, IInv, TypeOK, LockInv, KeyInv, RowInv, IdleCall, CallType, CallPC,
         NoKey, Critical

\* A call that is over is well typed and makes no claim.
LEMMA IdleFacts == IdleCall \in CallType /\ IdleCall.pc = "idle"
  BY DEF IdleCall, CallType, CallPC, NoKey

\* Returning (an error, or a client) releases only the lock of the call's pair.
LEMMA EndOfCall ==
    ASSUME IInv, NEW c \in Call, call[c].pc \in Critical,
           call' = [call EXCEPT ![c] = IdleCall],
           regMap' = [regMap EXCEPT ![call[c].pair] = NoCall]
    PROVE  /\ call' \in [Call -> CallType]
           /\ regMap' \in [Pair -> Call \union {NoCall}]
           /\ LockInv'
           /\ call'[c].pc = "idle"
           /\ \A d \in Call : d # c => call'[d] = call[d]
<1>1. call' \in [Call -> CallType] /\ regMap' \in [Pair -> Call \union {NoCall}]
  BY IdleFacts DEF IInv, TypeOK
<1>2. call'[c].pc = "idle" /\ \A d \in Call : d # c => call'[d] = call[d]
  BY IdleFacts DEF IInv, TypeOK
<1>3. call[c].pair \in Pair /\ regMap[call[c].pair] = c
  BY DEF IInv, LockInv, Critical
<1>4. ASSUME NEW d \in Call
      PROVE  /\ call'[d].pc # "idle" => call'[d].pair \in Pair
             /\ call'[d].pc \in Critical => regMap'[call'[d].pair] = d
  <2>1. CASE d = c
    BY <1>2, <2>1 DEF Critical
  <2>2. CASE d # c
    BY <1>2, <1>3, <2>2 DEF IInv, TypeOK, LockInv
  <2> QED
    BY <2>1, <2>2
<1> QED
  BY <1>1, <1>2, <1>4 DEF LockInv

\* Moving a call on inside its critical section keeps the lock invariant.
LEMMA MoveCall ==
    ASSUME IInv, NEW c \in Call, call[c].pc \in Critical, NEW pc \in Critical, NEW k \in Nat,
           call' = [call EXCEPT ![c].pc = pc, ![c].key = k], regMap' = regMap
    PROVE  /\ call' \in [Call -> CallType]
           /\ regMap' \in [Pair -> Call \union {NoCall}]
           /\ LockInv'
           /\ call'[c].pc = pc /\ call'[c].pair = call[c].pair /\ call'[c].key = k
           /\ \A d \in Call : d # c => call'[d] = call[d]
<1>1. call' \in [Call -> CallType]
  <2>1. [[call[c] EXCEPT !.pc = pc] EXCEPT !.key = k] \in CallType
    BY DEF IInv, TypeOK, CallType, CallPC, Critical
  <2>2. call' = [call EXCEPT ![c] = [[call[c] EXCEPT !.pc = pc] EXCEPT !.key = k]]
    BY DEF IInv, TypeOK, CallType
  <2> QED
    BY <2>1, <2>2 DEF IInv, TypeOK
<1>2. /\ call'[c].pc = pc /\ call'[c].pair = call[c].pair /\ call'[c].key = k
      /\ \A d \in Call : d # c => call'[d] = call[d]
  BY DEF IInv, TypeOK, CallType
<1>3. LockInv'
  BY <1>2 DEF IInv, LockInv, Critical
<1> QED
  BY <1>1, <1>2, <1>3 DEF IInv, TypeOK

\* The fast path hands out the cached client or queues on the lock.
LEMMA FastPathIInv == ASSUME IInv, NEW c \in Call, NEW p \in Pair, FastPath(c, p) PROVE IInv'
<1> USE DEF IInv
<1>0. /\ UNCHANGED <<accountClients, regMap, row, lastKey, registered, crashes>>
      /\ call[c].pc = "idle"
  BY DEF FastPath
<1>1. CASE accountClients[p] # NoKey
  <2>1. call' = call /\ given' = given \union {<<p, accountClients[p]>>}
    BY <1>1 DEF FastPath, ReturnClient
  <2>2. TypeOK'
    BY <1>0, <2>1 DEF TypeOK
  <2>3. LockInv' /\ KeyInv'
    BY <1>0, <2>1 DEF LockInv, KeyInv
  <2>4. RowInv'
    BY <1>0, <1>1, <2>1 DEF RowInv
  <2> QED
    BY <2>2, <2>3, <2>4
<1>2. CASE accountClients[p] = NoKey
  <2> DEFINE new == [pc |-> "lock", pair |-> p, key |-> NoKey]
  <2>1. call' = [call EXCEPT ![c] = new] /\ given' = given
    BY <1>2 DEF FastPath
  <2>2. new \in CallType
    BY DEF CallType, CallPC, NoKey
  <2>3. TypeOK'
    BY <1>0, <2>1, <2>2 DEF TypeOK
  <2>4. call'[c] = new /\ \A d \in Call : d # c => call'[d] = call[d]
    BY <2>1 DEF TypeOK
  <2>5. LockInv'
    BY <1>0, <2>4 DEF LockInv, Critical
  <2>6. KeyInv'
    BY <1>0, <2>4 DEF KeyInv
  <2>7. RowInv'
    BY <1>0, <2>1 DEF RowInv
  <2> QED
    BY <2>3, <2>5, <2>6, <2>7
<1> QED
  BY <1>1, <1>2

\* Only a free lock is taken.
LEMMA LockIInv == ASSUME IInv, NEW c \in Call, AccountRegLock(c) PROVE IInv'
<1> USE DEF IInv
<1>1. /\ UNCHANGED <<accountClients, row, lastKey, registered, given, crashes>>
      /\ call[c].pc = "lock" /\ call[c].pair \in Pair /\ regMap[call[c].pair] = NoCall
      /\ regMap' = [regMap EXCEPT ![call[c].pair] = c]
      /\ call' = [call EXCEPT ![c].pc = "recheck"]
  BY DEF AccountRegLock, Goto, LockInv
<1>2. TypeOK'
  <2>1. call' \in [Call -> CallType]
    BY <1>1 DEF TypeOK, CallType, CallPC
  <2> QED
    BY <1>1, <2>1 DEF TypeOK
<1>3. /\ call'[c].pc = "recheck" /\ call'[c].pair = call[c].pair
      /\ \A d \in Call : d # c => call'[d] = call[d]
  BY <1>1 DEF TypeOK, CallType
<1>4. LockInv'
  BY <1>1, <1>3, PoolAssumption DEF LockInv, Critical, TypeOK
<1>5. KeyInv'
  BY <1>1, <1>3 DEF KeyInv
<1>6. RowInv'
  BY <1>1 DEF RowInv
<1> QED
  BY <1>2, <1>4, <1>5, <1>6

\* The steps inside the critical section.
LEMMA StepIInv == ASSUME IInv, NEW c \in Call, Step(c) PROVE IInv'
<1> DEFINE p == call[c].pair
<1>p. call[c].pc \in Critical /\ p \in Pair /\ call[c].key \in Nat
  BY DEF Step, Recheck, LoadAccount, StoredKey, Register, SaveUpstreamAccount, StoreKey, CacheClient, Critical,
         IInv, LockInv, TypeOK, CallType
\* While c is in its critical section no other call is in one of the same pair.
<1>x. \A d \in Call : d # c /\ call[d].pc \in Critical => call[d].pair # call[c].pair
  BY <1>p DEF IInv, LockInv
<1>1. CASE Recheck(c)
  <2>0. UNCHANGED <<accountClients, row, lastKey, registered, crashes>>
    BY <1>1 DEF Recheck
  <2>1. CASE accountClients[p] # NoKey
    <3>1. /\ call' = [call EXCEPT ![c] = IdleCall]
          /\ regMap' = [regMap EXCEPT ![call[c].pair] = NoCall]
          /\ given' = given \union {<<p, accountClients[p]>>}
      BY <1>1, <2>1 DEF Recheck, ReturnClient, Unlock
    <3>2. /\ call' \in [Call -> CallType] /\ regMap' \in [Pair -> Call \union {NoCall}]
          /\ LockInv' /\ call'[c].pc = "idle"
          /\ \A d \in Call : d # c => call'[d] = call[d]
      BY <1>p, <3>1, EndOfCall
    <3>3. TypeOK'
      BY <1>p, <2>0, <3>1, <3>2 DEF IInv, TypeOK
    <3>4. KeyInv'
      BY <2>0, <3>2 DEF IInv, KeyInv
    <3>5. RowInv'
      BY <1>p, <2>0, <2>1, <3>1 DEF IInv, RowInv
    <3> QED
      BY <3>2, <3>3, <3>4, <3>5 DEF IInv
  <2>2. CASE accountClients[p] = NoKey
    <3>1. call' = [call EXCEPT ![c].pc = "load"] /\ regMap' = regMap /\ given' = given
      BY <1>1, <2>2 DEF Recheck, Goto
    <3>2. call' = [call EXCEPT ![c].pc = "load", ![c].key = call[c].key]
      BY <3>1 DEF IInv, TypeOK, CallType
    <3>3. /\ call' \in [Call -> CallType] /\ regMap' \in [Pair -> Call \union {NoCall}]
          /\ LockInv' /\ call'[c].pc = "load"
          /\ \A d \in Call : d # c => call'[d] = call[d]
      BY <1>p, <3>1, <3>2, MoveCall DEF Critical
    <3>4. TypeOK'
      BY <2>0, <3>1, <3>3 DEF IInv, TypeOK
    <3>5. KeyInv' /\ RowInv'
      BY <2>0, <3>1, <3>3 DEF IInv, KeyInv, RowInv
    <3> QED
      BY <3>3, <3>4, <3>5 DEF IInv
  <2> QED
    BY <2>1, <2>2
\* A call that returns an error after changing nothing else.
<1>e. ASSUME ReturnError(c), UNCHANGED <<accountClients, row, lastKey, given, crashes>>,
             registered' = registered \/ registered' = registered \union {call[c].key}
      PROVE  IInv'
  <2>1. /\ call' \in [Call -> CallType] /\ regMap' \in [Pair -> Call \union {NoCall}]
        /\ LockInv' /\ call'[c].pc = "idle"
        /\ \A d \in Call : d # c => call'[d] = call[d]
    BY <1>p, <1>e, EndOfCall DEF ReturnError, Unlock
  <2>2. TypeOK'
    BY <1>p, <1>e, <2>1 DEF IInv, TypeOK
  <2>3. KeyInv'
    BY <1>e, <2>1 DEF IInv, KeyInv
  <2>4. RowInv'
    BY <1>e DEF IInv, RowInv
  <2> QED
    BY <2>1, <2>2, <2>3, <2>4 DEF IInv
<1>2. CASE LoadAccount(c)
  <2>0. UNCHANGED <<accountClients, row, registered, given, crashes>>
    BY <1>2 DEF LoadAccount, StoredKey
  <2>1. CASE row[p] # NoKey /\ call' = [call EXCEPT ![c].pc = "cache", ![c].key = row[p]]
             /\ UNCHANGED <<regMap, lastKey>>
    <3>1. /\ call' \in [Call -> CallType] /\ regMap' \in [Pair -> Call \union {NoCall}]
          /\ LockInv' /\ call'[c].pc = "cache" /\ call'[c].pair = p /\ call'[c].key = row[p]
          /\ \A d \in Call : d # c => call'[d] = call[d]
      <4>1. row[p] \in Nat
        BY <1>p DEF IInv, TypeOK
      <4> QED
        BY <1>p, <2>1, <4>1, MoveCall DEF Critical
    <3>2. TypeOK'
      BY <2>0, <2>1, <3>1 DEF IInv, TypeOK
    <3>3. KeyInv'
      BY <2>0, <2>1, <3>1 DEF IInv, KeyInv
    <3>4. RowInv'
      BY <2>0 DEF IInv, RowInv
    <3> QED
      BY <3>1, <3>2, <3>3, <3>4 DEF IInv
  <2>2. CASE /\ row[p] = NoKey /\ lastKey' = lastKey + 1
             /\ call' = [call EXCEPT ![c].pc = "register", ![c].key = lastKey + 1]
             /\ regMap' = regMap
    <3>0. lastKey + 1 \in Nat /\ lastKey + 1 # NoKey
      BY DEF IInv, TypeOK, NoKey
    <3>1. /\ call' \in [Call -> CallType] /\ regMap' \in [Pair -> Call \union {NoCall}]
          /\ LockInv' /\ call'[c].pc = "register" /\ call'[c].pair = p
          /\ call'[c].key = lastKey + 1
          /\ \A d \in Call : d # c => call'[d] = call[d]
      BY <1>p, <2>2, <3>0, MoveCall DEF Critical
    <3>2. TypeOK'
      BY <2>0, <2>2, <3>0, <3>1 DEF IInv, TypeOK
    <3>3. KeyInv'
      BY <2>0, <2>2, <3>0, <3>1 DEF IInv, KeyInv
    <3>4. RowInv'
      BY <2>0 DEF IInv, RowInv
    <3> QED
      BY <3>1, <3>2, <3>3, <3>4 DEF IInv
  <2>3. CASE ReturnError(c) /\ UNCHANGED lastKey
    BY <2>0, <2>3, <1>e
  <2> QED
    BY <1>2, <2>1, <2>2, <2>3 DEF LoadAccount, StoredKey
<1>3. CASE Register(c)
  <2>0. UNCHANGED <<accountClients, row, lastKey, given, crashes>> /\ call[c].pc = "register"
    BY <1>3 DEF Register
  <2>1. CASE /\ registered' = registered \union {call[c].key}
             /\ Goto(c, "save") /\ UNCHANGED regMap
    <3>1. call' = [call EXCEPT ![c].pc = "save", ![c].key = call[c].key]
      BY <2>1 DEF Goto, IInv, TypeOK, CallType
    <3>2. /\ call' \in [Call -> CallType] /\ regMap' \in [Pair -> Call \union {NoCall}]
          /\ LockInv' /\ call'[c].pc = "save" /\ call'[c].pair = p
          /\ call'[c].key = call[c].key
          /\ \A d \in Call : d # c => call'[d] = call[d]
      BY <1>p, <2>1, <3>1, MoveCall DEF Critical
    <3>3. TypeOK'
      BY <1>p, <2>0, <2>1, <3>2 DEF IInv, TypeOK
    <3>4. KeyInv'
      BY <2>0, <2>1, <3>2 DEF IInv, KeyInv
    <3>5. RowInv'
      BY <2>0, <2>1 DEF IInv, RowInv
    <3> QED
      BY <3>2, <3>3, <3>4, <3>5 DEF IInv
  <2> QED
    BY <1>3, <2>0, <2>1, <1>e DEF Register
<1>4. CASE SaveUpstreamAccount(c)
  <2>0. /\ UNCHANGED <<accountClients, lastKey, registered, given, crashes>>
        /\ call[c].pc = "save"
    BY <1>4 DEF SaveUpstreamAccount, StoreKey
  <2>1. row[p] = NoKey /\ call[c].key # NoKey /\ call[c].key \in registered
    BY <2>0 DEF IInv, KeyInv
  <2>2. CASE row' = [row EXCEPT ![p] = call[c].key]
    <3>1. /\ row' \in [Pair -> Nat] /\ row'[p] = call[c].key
          /\ \A q \in Pair : q # p => row'[q] = row[q]
      BY <1>p, <2>2 DEF IInv, TypeOK
    \* The row was empty, so no client of the pair had been handed out.
    <3>2. RowInv'
      <4>1. \A x \in given : x[1] \in Pair /\ x[1] # p
        BY <2>1 DEF IInv, RowInv, TypeOK
      <4>2. accountClients[p] = NoKey
        BY <1>p, <2>1 DEF IInv, RowInv
      <4> QED
        BY <2>0, <2>1, <3>1, <4>1, <4>2 DEF IInv, RowInv
    <3>3. CASE Goto(c, "cache") /\ UNCHANGED regMap
      <4>1. call' = [call EXCEPT ![c].pc = "cache", ![c].key = call[c].key]
        BY <3>3 DEF Goto, IInv, TypeOK, CallType
      <4>2. /\ call' \in [Call -> CallType] /\ regMap' \in [Pair -> Call \union {NoCall}]
            /\ LockInv' /\ call'[c].pc = "cache" /\ call'[c].pair = p
            /\ call'[c].key = call[c].key
            /\ \A d \in Call : d # c => call'[d] = call[d]
        BY <1>p, <3>3, <4>1, MoveCall DEF Critical
      <4>3. TypeOK'
        BY <2>0, <3>1, <4>2 DEF IInv, TypeOK
      <4>4. KeyInv'
        <5>1. \A d \in Call : d # c /\ call[d].pc \in Critical => row'[call[d].pair] = row[call[d].pair]
          BY <1>x, <3>1 DEF IInv, LockInv, Critical
        <5> QED
          BY <2>0, <2>1, <3>1, <4>2, <5>1 DEF IInv, KeyInv, Critical
      <4> QED
        BY <3>2, <4>2, <4>3, <4>4 DEF IInv
    <3>4. CASE ReturnError(c)
      <4>1. /\ call' \in [Call -> CallType] /\ regMap' \in [Pair -> Call \union {NoCall}]
            /\ LockInv' /\ call'[c].pc = "idle"
            /\ \A d \in Call : d # c => call'[d] = call[d]
        BY <1>p, <3>4, EndOfCall DEF ReturnError, Unlock
      <4>2. TypeOK'
        BY <2>0, <3>1, <4>1 DEF IInv, TypeOK
      <4>3. KeyInv'
        <5>1. \A d \in Call : d # c /\ call[d].pc \in Critical => row'[call[d].pair] = row[call[d].pair]
          BY <1>x, <3>1 DEF IInv, LockInv, Critical
        <5> QED
          BY <2>0, <4>1, <5>1 DEF IInv, KeyInv, Critical
      <4> QED
        BY <3>2, <4>1, <4>2, <4>3 DEF IInv
    <3> QED
      BY <1>4, <2>2, <2>1, <3>1, <3>3, <3>4 DEF SaveUpstreamAccount, StoreKey
  <2>3. CASE row' = row /\ ReturnError(c)
    BY <2>0, <2>3, <1>e
  <2> QED
    BY <1>4, <2>2, <2>3 DEF SaveUpstreamAccount, StoreKey
<1>5. CASE CacheClient(c)
  <2>0. /\ UNCHANGED <<row, lastKey, registered, crashes>>
        /\ accountClients' = [accountClients EXCEPT ![p] = call[c].key]
        /\ given' = given \union {<<p, call[c].key>>}
        /\ row[p] = call[c].key /\ call[c].key # NoKey
    BY <1>5 DEF CacheClient, ReturnClient, IInv, KeyInv
  <2>1. /\ call' \in [Call -> CallType] /\ regMap' \in [Pair -> Call \union {NoCall}]
        /\ LockInv' /\ call'[c].pc = "idle"
        /\ \A d \in Call : d # c => call'[d] = call[d]
    BY <1>p, <1>5, EndOfCall DEF CacheClient, Unlock
  <2>2. TypeOK'
    <3>1. accountClients' \in [Pair -> Nat]
      BY <1>p, <2>0 DEF IInv, TypeOK
    <3>2. given' \in SUBSET (Pair \X Nat)
      BY <1>p, <2>0 DEF IInv, TypeOK
    <3> QED
      BY <2>0, <2>1, <3>1, <3>2 DEF IInv, TypeOK
  <2>3. KeyInv'
    BY <2>0, <2>1 DEF IInv, KeyInv
  <2>4. RowInv'
    BY <1>p, <2>0 DEF IInv, RowInv, TypeOK
  <2> QED
    BY <2>1, <2>2, <2>3, <2>4 DEF IInv
<1> QED
  BY <1>1, <1>2, <1>3, <1>4, <1>5 DEF Step

\* A crash empties the cache and the locks; the table and what was given stay.
LEMMA CrashIInv == IInv /\ Crash => IInv'
<1> SUFFICES ASSUME IInv, Crash PROVE IInv'
  OBVIOUS
<1>1. TypeOK'
  BY IdleFacts DEF IInv, TypeOK, Crash, NoKey
<1>2. \A c \in Call : call'[c].pc = "idle"
  BY IdleFacts DEF Crash
<1>3. LockInv' /\ KeyInv'
  BY <1>2 DEF LockInv, KeyInv, Critical
<1>4. RowInv'
  BY DEF IInv, RowInv, Crash
<1> QED
  BY <1>1, <1>3, <1>4 DEF IInv

\* Every step keeps the inductive invariant.
LEMMA NextIInv == IInv /\ [Next]_vars => IInv'
<1> SUFFICES ASSUME IInv, [Next]_vars PROVE IInv'
  OBVIOUS
<1>1. CASE UNCHANGED vars
  BY <1>1 DEF vars, IInv, TypeOK, LockInv, KeyInv, RowInv
<1> QED
  BY <1>1, FastPathIInv, LockIInv, StepIInv, CrashIInv DEF Next

\* The inductive invariant holds in every reachable state.
THEOREM Invariance == Spec => []IInv
  BY InitIInv, NextIInv, PTL DEF Spec

\* Every variable keeps its type.
THEOREM TypeCorrect == Spec => []TypeOK
<1>1. IInv => TypeOK
  BY DEF IInv
<1> QED
  BY <1>1, Invariance, PTL

\* ADR 0004 holds for any number of accounts, callers, failures and crashes: a
\* gateway account maps to one upstream account per CA, for good.
THEOREM RoutingIsDeterministic == Spec => []DeterministicRouting
<1>1. IInv => DeterministicRouting
  BY DEF IInv, RowInv, DeterministicRouting
<1> QED
  BY <1>1, Invariance, PTL

\* A client is handed out only with an account at the CA.
THEOREM ClientsAreRegistered == Spec => []GivenIsRegistered
<1>1. IInv => GivenIsRegistered
  BY DEF IInv, TypeOK, RowInv, GivenIsRegistered
<1> QED
  BY <1>1, Invariance, PTL
=============================================================================
