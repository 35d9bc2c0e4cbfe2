---------------------------- MODULE AccountPool ----------------------------
(***************************************************************************)
(* Pool.GetClientForAccount of internal/upstream/pool.go: the upstream     *)
(* account that a gateway account uses at an upstream CA.                  *)
(*                                                                         *)
(* Calls run concurrently in the goroutines of requests and workers.  They *)
(* interleave at the pool's two mutexes, the statements of the store and   *)
(* the registration at the CA; each of these may fail, and the process may *)
(* die between them.  A client is named by its private key.                *)
(***************************************************************************)
EXTENDS Naturals

CONSTANTS
    Pair,       \* (upstream ID, gateway account ID)
    Call,       \* concurrent calls of GetClientForAccount
    NoPair, NoCall,
    MaxKey,     \* bound on generated keys
    MaxCrash    \* bound on crashes

ASSUME PoolAssumption ==
    /\ NoPair \notin Pair
    /\ NoCall \notin Call
    /\ MaxKey \in Nat
    /\ MaxCrash \in Nat

VARIABLES
    accountClients, \* the pool's cache: the client of each pair
    regMap,         \* who holds the registration lock of each pair
    row,            \* upstream_accounts_by_account: the stored key of each pair
    call,           \* open calls
    lastKey,        \* keys generated so far are 1 .. lastKey
    registered,     \* keys with an account at the CA
    given,          \* clients that calls have returned, per pair
    crashes

vars == <<accountClients, regMap, row, call, lastKey, registered, given, crashes>>

-----------------------------------------------------------------------------

NoKey == 0

CallPC == {"idle", "lock", "recheck", "load", "register", "save", "cache"}

CallType == [pc : CallPC, pair : Pair \union {NoPair}, key : Nat]

IdleCall == [pc |-> "idle", pair |-> NoPair, key |-> NoKey]

TypeOK ==
    /\ accountClients \in [Pair -> Nat]
    /\ regMap \in [Pair -> Call \union {NoCall}]
    /\ row \in [Pair -> Nat]
    /\ call \in [Call -> CallType]
    /\ lastKey \in Nat
    /\ registered \in SUBSET Nat
    /\ given \in SUBSET (Pair \X Nat)
    /\ crashes \in Nat

Init ==
    /\ accountClients = [p \in Pair |-> NoKey]
    /\ regMap = [p \in Pair |-> NoCall]
    /\ row = [p \in Pair |-> NoKey]
    /\ call = [c \in Call |-> IdleCall]
    /\ lastKey = 0
    /\ registered = {}
    /\ given = {}
    /\ crashes = 0

-----------------------------------------------------------------------------

\* A return statement: the deferred unlock, and the client unless it is an error.
Unlock(c) == regMap' = [regMap EXCEPT ![call[c].pair] = NoCall]

ReturnClient(p, k) == given' = given \union {<<p, k>>}

Goto(c, pc) == call' = [call EXCEPT ![c].pc = pc]

\* GetUpstreamAccountForAccount and SaveUpstreamAccountForAccount: INSERT OR
\* REPLACE on the pair.
StoredKey(p) == row[p]

StoreKey(p, k) == row' = [row EXCEPT ![p] = k]

ReturnError(c) ==
    /\ call' = [call EXCEPT ![c] = IdleCall]
    /\ Unlock(c)

\* The fast path: a cached client is returned without the registration lock.
FastPath(c, p) ==
    /\ call[c].pc = "idle"
    /\ \/ /\ accountClients[p] # NoKey
          /\ ReturnClient(p, accountClients[p])
          /\ UNCHANGED call
       \/ /\ accountClients[p] = NoKey
          /\ call' = [call EXCEPT ![c] = [pc |-> "lock", pair |-> p, key |-> NoKey]]
          /\ UNCHANGED given
    /\ UNCHANGED <<accountClients, regMap, row, lastKey, registered, crashes>>

\* Mutant: every call gets a mutex of its own.
AccountRegLockPerCall(c) ==
    /\ call[c].pc = "lock"
    /\ regMap' = [regMap EXCEPT ![call[c].pair] = c]
    /\ Goto(c, "recheck")
    /\ UNCHANGED <<accountClients, row, lastKey, registered, given, crashes>>

\* accountRegLock
AccountRegLock(c) ==
    /\ call[c].pc = "lock"
    /\ regMap[call[c].pair] = NoCall
    /\ regMap' = [regMap EXCEPT ![call[c].pair] = c]
    /\ Goto(c, "recheck")
    /\ UNCHANGED <<accountClients, row, lastKey, registered, given, crashes>>

\* "Re-check after waiting on the per-account lock."
Recheck(c) ==
    LET p == call[c].pair IN
    /\ call[c].pc = "recheck"
    /\ \/ /\ accountClients[p] # NoKey
          /\ ReturnClient(p, accountClients[p])
          /\ call' = [call EXCEPT ![c] = IdleCall]
          /\ Unlock(c)
       \/ /\ accountClients[p] = NoKey
          /\ Goto(c, "load")
          /\ UNCHANGED <<regMap, given>>
    /\ UNCHANGED <<accountClients, row, lastKey, registered, crashes>>

\* Mutant: a new key is stored before it is registered.
LoadAccountSavesFirst(c) ==
    /\ call[c].pc = "load"
    /\ row[call[c].pair] = NoKey
    /\ lastKey < MaxKey
    /\ lastKey' = lastKey + 1
    /\ call' = [call EXCEPT ![c].pc = "save", ![c].key = lastKey + 1]
    /\ UNCHANGED <<accountClients, regMap, row, registered, given, crashes>>

\* The stored key, or a new one to be registered.
\* Reading, parsing or generating it may fail.
LoadAccount(c) ==
    LET p == call[c].pair IN
    /\ call[c].pc = "load"
    /\ \/ /\ StoredKey(p) # NoKey
          /\ call' = [call EXCEPT ![c].pc = "cache", ![c].key = StoredKey(p)]
          /\ UNCHANGED <<regMap, lastKey>>
       \/ /\ StoredKey(p) = NoKey
          /\ lastKey < MaxKey
          /\ lastKey' = lastKey + 1
          /\ call' = [call EXCEPT ![c].pc = "register", ![c].key = lastKey + 1]
          /\ UNCHANGED regMap
       \/ /\ ReturnError(c)
          /\ UNCHANGED lastKey
    /\ UNCHANGED <<accountClients, row, registered, given, crashes>>

\* Mutant: the error path keeps the lock.
RegisterKeepsLock(c) ==
    /\ call[c].pc = "register"
    /\ call' = [call EXCEPT ![c] = IdleCall]
    /\ UNCHANGED <<accountClients, regMap, row, lastKey, registered, given, crashes>>

\* Client.Register.  An error may hide an account that was created.
Register(c) ==
    /\ call[c].pc = "register"
    /\ \/ /\ registered' = registered \union {call[c].key}
          /\ \/ Goto(c, "save") /\ UNCHANGED regMap
             \/ ReturnError(c)
       \/ /\ UNCHANGED registered
          /\ ReturnError(c)
    /\ UNCHANGED <<accountClients, row, lastKey, given, crashes>>

\* The key is persisted.  An error (a cancelled request) may be reported
\* although the row was written.
SaveUpstreamAccount(c) ==
    LET p == call[c].pair IN
    /\ call[c].pc = "save"
    /\ \/ /\ StoreKey(p, call[c].key)
          /\ \/ Goto(c, "cache") /\ UNCHANGED regMap
             \/ ReturnError(c)
       \/ /\ UNCHANGED row
          /\ ReturnError(c)
    /\ UNCHANGED <<accountClients, lastKey, registered, given, crashes>>

CacheClient(c) ==
    LET p == call[c].pair IN
    /\ call[c].pc = "cache"
    /\ accountClients' = [accountClients EXCEPT ![p] = call[c].key]
    /\ ReturnClient(p, call[c].key)
    /\ call' = [call EXCEPT ![c] = IdleCall]
    /\ Unlock(c)
    /\ UNCHANGED <<row, lastKey, registered, crashes>>

\* The process dies and starts with an empty pool.
Crash ==
    /\ crashes < MaxCrash
    /\ crashes' = crashes + 1
    /\ accountClients' = [p \in Pair |-> NoKey]
    /\ regMap' = [p \in Pair |-> NoCall]
    /\ call' = [c \in Call |-> IdleCall]
    /\ UNCHANGED <<row, lastKey, registered, given>>

Step(c) ==
    \/ Recheck(c) \/ LoadAccount(c) \/ Register(c) \/ SaveUpstreamAccount(c)
    \/ CacheClient(c)

Next ==
    \/ \E c \in Call : AccountRegLock(c) \/ Step(c) \/ \E p \in Pair : FastPath(c, p)
    \/ Crash

Spec == Init /\ [][Next]_vars

\* Statements and HTTP calls end (the store's busy timeout, the client's 30s
\* timeout), and a goroutine queued on a sync.Mutex is not overtaken forever (its
\* starvation mode).
FairSpec ==
    /\ Spec
    /\ \A c \in Call : WF_vars(Step(c)) /\ SF_vars(AccountRegLock(c))

-----------------------------------------------------------------------------

\* ADR 0004: "Every gateway account consistently maps to the same upstream account
\* per upstream CA".  Whatever calls race, fail or are cut off by a crash, a
\* gateway account is never given two different upstream accounts at one CA: its
\* orders would otherwise be out of reach of the later one.
DeterministicRouting ==
    \A x, y \in given : x[1] = y[1] => x[2] = y[2]

\* A client that is handed out has an account at the CA, even when it comes from
\* the cache or from the table after a registration whose caller failed.
GivenIsRegistered ==
    \A x \in given : x[2] \in registered

\* No call waits forever on the registration lock: every path out of the
\* critical section, errors included, releases it.
CallReturns ==
    \A c \in Call : call[c].pc # "idle" ~> call[c].pc = "idle"

=============================================================================
