-------------------------- MODULE NonceStoreProofs --------------------------
(***************************************************************************)
(* Proofs about NonceStore for any sets of nonces and transactions.        *)
(***************************************************************************)
EXTENDS NonceStore, TLAPS

\* A row belongs to an issued nonce that nobody has used.
RowInv ==
    \A n \in Nonce :
        /\ row[n] # NoRow => n \in issued /\ accepted[n] = 0
        /\ accepted[n] > 0 => accepted[n] = 1 /\ n \in issued

\* While no commit has outdated a transaction's snapshot, the row it read is
\* still there.
SnapshotInv ==
    \A t \in Txn : txn[t].pc # "idle" =>
        /\ txn[t].nonce \in Nonce
        /\ ~txn[t].stale => row[txn[t].nonce] # NoRow /\ row[txn[t].nonce] = txn[t].exp

\* The transactions between DELETE and COMMIT are those that hold the lock; no
\* other connection can have committed meanwhile.
LockInv ==
    \A t \in Txn :
        /\ txn[t].pc \in {"deleted", "expired"} <=> writer = t
        /\ writer = t => ~txn[t].stale
        /\ txn[t].pc = "expired" => now > txn[t].exp

IInv == TypeOK /\ RowInv /\ SnapshotInv /\ LockInv

\* The empty table satisfies the inductive invariant.
LEMMA InitIInv == Init => IInv
  BY NonceAssumption
     DEF Init, IInv, TypeOK, RowInv, SnapshotInv, LockInv, IdleTxn, TxnType, TxnPC, NoRow

\* A transaction that ended is well typed.
LEMMA IdleTxnType == IdleTxn \in TxnType
  BY DEF IdleTxn, TxnType, TxnPC, NoRow

\* What a commit of another connection does to an open transaction.
LEMMA OutdateFacts ==
    ASSUME TypeOK, NEW t \in Txn
    PROVE  /\ Outdate(t).pc = txn[t].pc
           /\ Outdate(t).nonce = txn[t].nonce
           /\ Outdate(t).exp = txn[t].exp
           /\ txn[t].pc # "idle" => Outdate(t).stale
  BY DEF TypeOK, TxnType, Outdate

\* Every step keeps the types (a commit writes the row of the nonce it selected).
LEMMA TypeStep == IInv /\ [Next]_vars => TypeOK'
<1> SUFFICES ASSUME TypeOK, SnapshotInv, [Next]_vars PROVE TypeOK'
  BY DEF IInv
<1> USE IdleTxnType, NonceAssumption DEF TypeOK
<1>a. \A t \in Txn : Outdate(t) \in TxnType
  BY DEF Outdate, TxnType
<1>1. ASSUME NEW n \in Nonce, IssueNonce(n) PROVE TypeOK'
  BY <1>1, <1>a DEF IssueNonce
<1>2. ASSUME NEW n \in Nonce, NEW t \in Txn, ConsumeSelect(t, n) PROVE TypeOK'
  <2>1. [pc |-> "selected", nonce |-> n, exp |-> row[n], stale |-> FALSE] \in TxnType
    BY DEF TxnType, TxnPC, NoRow
  <2> QED
    BY <1>2, <2>1 DEF ConsumeSelect
<1>3. ASSUME NEW t \in Txn, ConsumeDelete(t) PROVE TypeOK'
  <2>1. txn' \in [Txn -> TxnType]
    BY <1>3 DEF ConsumeDelete, TxnType, TxnPC
  <2> QED
    BY <1>3, <2>1 DEF ConsumeDelete, SnapshotInv
<1>4. ASSUME NEW t \in Txn, ConsumeCommit(t) PROVE TypeOK'
  <2>1. txn' \in [Txn -> TxnType]
    BY <1>4, <1>a DEF ConsumeCommit
  <2>2. row' \in [Nonce -> Nat \union {NoRow}]
    BY <1>4 DEF ConsumeCommit
  <2>3. accepted' \in [Nonce -> Nat]
    <3>1. txn[t].nonce \in Nonce
      BY <1>4 DEF ConsumeCommit, SnapshotInv
    <3> QED
      BY <1>4, <3>1 DEF ConsumeCommit
  <2> QED
    BY <1>4, <2>1, <2>2, <2>3 DEF ConsumeCommit
<1>5. ASSUME NEW t \in Txn, ConsumeRollback(t) PROVE TypeOK'
  BY <1>5 DEF ConsumeRollback
<1>6. CASE PruneExpiredNonces
  BY <1>6, <1>a DEF PruneExpiredNonces
<1>7. CASE OtherWrite
  BY <1>7, <1>a DEF OtherWrite
<1>8. CASE Tick \/ Crash
  BY <1>8 DEF Tick, Crash
<1>9. CASE UNCHANGED vars
  BY <1>9 DEF vars
<1> QED
  BY <1>1, <1>2, <1>3, <1>4, <1>5, <1>6, <1>7, <1>8, <1>9 DEF Next

\* Every step keeps the inductive invariant.
LEMMA NextIInv == IInv /\ [Next]_vars => IInv'
<1> SUFFICES ASSUME IInv, [Next]_vars PROVE IInv'
  OBVIOUS
<1>t. TypeOK'
  BY TypeStep
<1> SUFFICES (RowInv /\ SnapshotInv /\ LockInv)'
  BY <1>t DEF IInv
<1> USE NonceAssumption DEF IInv, TypeOK, RowInv, SnapshotInv, LockInv, TxnType, NoRow
<1>1. ASSUME NEW n \in Nonce, IssueNonce(n) PROVE (RowInv /\ SnapshotInv /\ LockInv)'
  BY <1>1 DEF IssueNonce, Outdate
<1>2. ASSUME NEW n \in Nonce, NEW t \in Txn, ConsumeSelect(t, n)
      PROVE  (RowInv /\ SnapshotInv /\ LockInv)'
  BY <1>2 DEF ConsumeSelect
<1>3. ASSUME NEW t \in Txn, ConsumeDelete(t) PROVE (RowInv /\ SnapshotInv /\ LockInv)'
  BY <1>3 DEF ConsumeDelete, IdleTxn
<1>4. ASSUME NEW t \in Txn, ConsumeCommit(t) PROVE (RowInv /\ SnapshotInv /\ LockInv)'
  <2> DEFINE n == txn[t].nonce
  <2>1. /\ n \in Nonce /\ writer = t /\ row[n] # NoRow /\ accepted[n] = 0 /\ n \in issued
        /\ \A u \in Txn : txn[u].pc \in {"deleted", "expired"} => u = t
    BY <1>4 DEF ConsumeCommit
  <2>2. /\ row' = [row EXCEPT ![n] = NoRow] /\ issued' = issued /\ now' = now
        /\ writer' = NoTxn
        /\ accepted' = accepted \/ accepted' = [accepted EXCEPT ![n] = @ + 1]
        /\ txn'[t] = IdleTxn
        /\ \A u \in Txn : u # t => txn'[u] = Outdate(u)
    BY <1>4 DEF ConsumeCommit
  <2>3. RowInv'
    BY <2>1, <2>2
  <2>a. /\ txn'[t].pc = "idle"
        /\ \A u \in Txn : u # t => /\ txn'[u].pc = txn[u].pc
                                   /\ txn'[u].nonce = txn[u].nonce
                                   /\ txn[u].pc # "idle" => txn'[u].stale
    BY <2>2, OutdateFacts DEF IdleTxn
  <2>4. SnapshotInv'
    BY <2>a
  <2>5. LockInv'
    BY <2>1, <2>2, <2>a
  <2> QED
    BY <2>3, <2>4, <2>5
<1>5. ASSUME NEW t \in Txn, ConsumeRollback(t) PROVE (RowInv /\ SnapshotInv /\ LockInv)'
  BY <1>5 DEF ConsumeRollback, IdleTxn
<1>6. CASE PruneExpiredNonces
  <2>1. RowInv'
    BY <1>6 DEF PruneExpiredNonces
  <2>a. /\ writer = NoTxn /\ writer' = NoTxn
        /\ \A u \in Txn : /\ txn'[u].pc = txn[u].pc
                          /\ txn'[u].nonce = txn[u].nonce
                          /\ txn[u].pc # "idle" => txn'[u].stale
    BY <1>6, OutdateFacts DEF PruneExpiredNonces
  <2>2. SnapshotInv'
    BY <2>a
  <2>3. LockInv'
    BY <2>a
  <2> QED
    BY <2>1, <2>2, <2>3
<1>7. CASE OtherWrite
  BY <1>7 DEF OtherWrite, Outdate
<1>8. CASE Tick \/ Crash
  BY <1>8 DEF Tick, Crash, IdleTxn
<1>9. CASE UNCHANGED vars
  BY <1>9 DEF vars
<1> QED
  BY <1>1, <1>2, <1>3, <1>4, <1>5, <1>6, <1>7, <1>8, <1>9 DEF Next

\* The inductive invariant holds in every reachable state.
THEOREM Invariance == Spec => []IInv
  BY InitIInv, NextIInv, PTL DEF Spec

\* Every variable keeps its type.
THEOREM TypeCorrect == Spec => []TypeOK
<1>1. IInv => TypeOK
  BY DEF IInv
<1> QED
  BY <1>1, Invariance, PTL

\* ConsumeNonce returns nil at most once per nonce, for any number of concurrent
\* callers, writers, prunes and crashes.
THEOREM SingleUseHolds == Spec => [](SingleUse /\ SpentIsGone)
<1>1. IInv => SingleUse /\ SpentIsGone
  BY DEF IInv, TypeOK, RowInv, SingleUse, SpentIsGone
<1> QED
  BY <1>1, Invariance, PTL

\* An unexpired nonce's row disappears only when it is accepted.
THEOREM LiveNonceKeptHolds == Spec => LiveNonceKept
<1>1. ASSUME IInv, [Next]_vars, NEW n \in Nonce, row[n] > now, row'[n] = NoRow
      PROVE  accepted'[n] = accepted[n] + 1
  <2>0. now \in Nat /\ row[n] \in Int /\ row[n] # NoRow
    BY <1>1 DEF IInv, TypeOK, NoRow
  <2>1. CASE UNCHANGED row
    BY <1>1, <2>0, <2>1
  <2>2. ASSUME NEW m \in Nonce, IssueNonce(m) PROVE FALSE
    BY <1>1, <2>0, <2>2, NonceAssumption DEF IssueNonce, IInv, TypeOK, NoRow
  <2>3. CASE PruneExpiredNonces
    BY <1>1, <2>0, <2>3 DEF PruneExpiredNonces
  <2>4. ASSUME NEW t \in Txn, ConsumeCommit(t) PROVE accepted'[n] = accepted[n] + 1
    <3>1. txn[t].nonce = n
      BY <1>1, <2>0, <2>4 DEF ConsumeCommit, IInv, TypeOK
    <3>2. txn[t].pc = "deleted"
      BY <1>1, <2>0, <2>4, <3>1 DEF ConsumeCommit, IInv, SnapshotInv, LockInv
    <3> QED
      BY <1>1, <2>4, <3>1, <3>2 DEF ConsumeCommit, IInv, TypeOK
  <2> QED
    BY <1>1, <2>1, <2>2, <2>3, <2>4
       DEF Next, ConsumeSelect, ConsumeDelete, ConsumeRollback, OtherWrite, Tick, Crash, vars
<1>2. IInv /\ [Next]_vars =>
        [\A n \in Nonce : row[n] > now /\ row'[n] = NoRow => accepted'[n] = accepted[n] + 1]_vars
  BY <1>1
<1> QED
  BY <1>2, Invariance, PTL DEF Spec, LiveNonceKept

\* Every step of the table is a step of OneTimeNonce or leaves its state alone.
LEMMA StepSimulation ==
    ASSUME IInv, [Next]_vars
    PROVE  [OneTime!Next]_<<[n \in Nonce |-> NonceStatus(n)], accepted>>
<1> DEFINE st == [n \in Nonce |-> NonceStatus(n)]
<1> SUFFICES ASSUME ~UNCHANGED <<st, accepted>> PROVE OneTime!Next
  OBVIOUS
<1>t. /\ \A n \in Nonce : row[n] \in Nat \union {NoRow} /\ accepted[n] \in Nat
      /\ \A n \in Nonce : row[n] # NoRow => n \in issued /\ accepted[n] = 0
  BY DEF IInv, TypeOK, RowInv
<1>u. accepted \in [Nonce -> Nat] /\ row \in [Nonce -> Nat \union {NoRow}]
  BY DEF IInv, TypeOK
<1>l. \A n \in Nonce : row[n] # NoRow => NonceStatus(n) = "live"
  BY <1>t DEF NonceStatus
<1>1. ASSUME NEW m \in Nonce, IssueNonce(m) PROVE OneTime!Next
  <2>1. NonceStatus(m) = "unissued"
    BY <1>1, <1>t DEF IssueNonce, NonceStatus, IInv, RowInv
  <2>2. /\ row' = [row EXCEPT ![m] = now + nonceTTL] /\ accepted' = accepted
        /\ issued' = issued \union {m} /\ now + nonceTTL # NoRow
    BY <1>1, NonceAssumption DEF IssueNonce, IInv, TypeOK, NoRow
  <2>3. NonceStatus(m)' = "live"
    BY <2>2, <1>1, <1>t, <1>u DEF NonceStatus, IInv, RowInv, IssueNonce
  <2>4. \A n \in Nonce : n # m => NonceStatus(n)' = NonceStatus(n)
    BY <2>2, <1>u DEF NonceStatus
  <2>5. st' = [st EXCEPT ![m] = "live"]
    BY <2>3, <2>4
  <2> QED
    BY <2>1, <2>2, <2>5 DEF OneTime!Next, OneTime!Issue
<1>2. ASSUME NEW t \in Txn, ConsumeCommit(t) PROVE OneTime!Next
  <2>1. PICK m \in Nonce : m = txn[t].nonce /\ row[m] # NoRow
    BY <1>2 DEF ConsumeCommit, IInv, SnapshotInv, LockInv
  <2>2. row' = [row EXCEPT ![m] = NoRow] /\ issued' = issued
    BY <1>2, <2>1 DEF ConsumeCommit
  <2>3. NonceStatus(m) = "live" /\ m \in issued /\ accepted[m] = 0
    BY <2>1, <1>l, <1>t
  <2>4. CASE txn[t].pc = "deleted"
    <3>1. accepted' = [accepted EXCEPT ![m] = @ + 1]
      BY <1>2, <2>1, <2>4 DEF ConsumeCommit
    <3>2. NonceStatus(m)' = "spent"
      BY <3>1, <2>1, <2>3, <1>u DEF NonceStatus
    <3>3. \A n \in Nonce : n # m => NonceStatus(n)' = NonceStatus(n)
      BY <3>1, <2>1, <2>2, <1>u DEF NonceStatus
    <3>4. st' = [st EXCEPT ![m] = "spent"]
      BY <3>2, <3>3
    <3> QED
      BY <3>1, <3>4, <2>1, <2>3 DEF OneTime!Next, OneTime!Spend
  <2>5. CASE txn[t].pc # "deleted"
    <3>1. accepted' = accepted
      BY <1>2, <2>5 DEF ConsumeCommit
    <3>2. NonceStatus(m)' = "lapsed"
      BY <3>1, <2>1, <2>2, <2>3, <1>u DEF NonceStatus
    <3>3. \A n \in Nonce : n # m => NonceStatus(n)' = NonceStatus(n)
      BY <3>1, <2>1, <2>2, <1>u DEF NonceStatus
    <3>4. st' = [n \in Nonce |-> IF n \in {m} THEN "lapsed" ELSE st[n]]
      BY <3>2, <3>3
    <3>5. OneTime!Lapse({m})
      BY <3>1, <3>4, <2>1, <2>3 DEF OneTime!Lapse
    <3> QED
      BY <3>5, <2>1 DEF OneTime!Next
  <2> QED
    BY <2>4, <2>5
<1>3. CASE PruneExpiredNonces
  <2>1. PICK S \in SUBSET {n \in Nonce : row[n] # NoRow /\ row[n] <= now} :
          row' = [n \in Nonce |-> IF n \in S THEN NoRow ELSE row[n]]
    BY <1>3 DEF PruneExpiredNonces
  <2>2. accepted' = accepted /\ issued' = issued
    BY <1>3 DEF PruneExpiredNonces
  <2>3. \A n \in S : NonceStatus(n) = "live" /\ NonceStatus(n)' = "lapsed"
    BY <2>1, <2>2, <1>t, <1>l DEF NonceStatus
  <2>4. \A n \in Nonce : n \notin S => NonceStatus(n)' = NonceStatus(n)
    BY <2>1, <2>2 DEF NonceStatus
  <2>5. st' = [n \in Nonce |-> IF n \in S THEN "lapsed" ELSE st[n]]
    BY <2>3, <2>4
  <2>6. OneTime!Lapse(S)
    BY <2>1, <2>2, <2>3, <2>5 DEF OneTime!Lapse
  <2> QED
    BY <2>1, <2>6 DEF OneTime!Next
<1>4. CASE UNCHANGED <<row, issued, accepted>>
  <2>1. \A n \in Nonce : NonceStatus(n)' = NonceStatus(n)
    BY <1>4 DEF NonceStatus
  <2> QED
    BY <1>4, <2>1
<1> QED
  BY <1>1, <1>2, <1>3, <1>4
     DEF Next, ConsumeSelect, ConsumeDelete, ConsumeRollback, OtherWrite, Tick, Crash, vars

\* Refinement: for any set of nonces and any number of concurrent connections the
\* SQLite-backed store implements the one-time-nonce service.
THEOREM RefinesOneTime == Spec => ImplementsOneTime
<1>1. Init => OneTime!Init
  BY DEF Init, OneTime!Init, NonceStatus
<1> QED
  BY <1>1, StepSimulation, Invariance, PTL DEF Spec, ImplementsOneTime, OneTime!Spec
=============================================================================
