----------------------------- MODULE NonceStore -----------------------------
(***************************************************************************)
(* The nonces table of internal/store on SQLite in WAL mode, as the pool of *)
(* connections sees it.                                                     *)
(*                                                                         *)
(* ConsumeNonce is a deferred transaction: its SELECT takes a snapshot, its *)
(* DELETE asks for the write lock.  SQLite (external) refuses the lock at   *)
(* once, without the busy timeout, when another connection holds it or has  *)
(* committed since the snapshot: a transaction that already reads cannot    *)
(* wait.  Every other write of the store is a single autocommitted          *)
(* statement, which waits for the lock.                                     *)
(***************************************************************************)
EXTENDS Integers

CONSTANTS
    Nonce,      \* values rand.Read can produce; each is drawn once
    Txn,        \* concurrent ConsumeNonce calls
    NoNonce, NoTxn,
    nonceTTL,
    MaxTime     \* bound on the clock

\* expires_at of an absent row
NoRow == -1

ASSUME NonceAssumption ==
    /\ NoNonce \notin Nonce
    /\ NoTxn \notin Txn
    /\ nonceTTL \in Nat
    /\ MaxTime \in Nat

VARIABLES
    now,        \* the clock
    row,        \* the nonces table: expires_at of each row, or NoRow
    issued,     \* nonces that have been inserted
    txn,        \* open ConsumeNonce transactions
    writer,     \* the connection that holds the write lock
    accepted    \* how many ConsumeNonce calls returned nil for each nonce

vars == <<now, row, issued, txn, writer, accepted>>

-----------------------------------------------------------------------------

TxnPC == {"idle", "selected", "deleted", "expired"}

TxnType == [pc : TxnPC, nonce : Nonce \union {NoNonce}, exp : Int, stale : BOOLEAN]

IdleTxn == [pc |-> "idle", nonce |-> NoNonce, exp |-> NoRow, stale |-> FALSE]

TypeOK ==
    /\ now \in Nat
    /\ row \in [Nonce -> Nat \union {NoRow}]
    /\ issued \in SUBSET Nonce
    /\ txn \in [Txn -> TxnType]
    /\ writer \in Txn \union {NoTxn}
    /\ accepted \in [Nonce -> Nat]

Init ==
    /\ now = 0
    /\ row = [n \in Nonce |-> NoRow]
    /\ issued = {}
    /\ txn = [t \in Txn |-> IdleTxn]
    /\ writer = NoTxn
    /\ accepted = [n \in Nonce |-> 0]

\* A commit by another connection makes every open snapshot stale.
Outdate(t) == [txn[t] EXCEPT !.stale = txn[t].pc # "idle"]

-----------------------------------------------------------------------------
(* Autocommitted writes: they wait for the lock *)

\* IssueNonce
IssueNonce(n) ==
    /\ writer = NoTxn
    /\ n \notin issued
    /\ row' = [row EXCEPT ![n] = now + nonceTTL]
    /\ issued' = issued \union {n}
    /\ txn' = [t \in Txn |-> Outdate(t)]
    /\ UNCHANGED <<now, writer, accepted>>

\* Mutant: the cutoff is the expiry of a nonce issued now.
PruneTooEarly ==
    /\ writer = NoTxn
    /\ row' = [n \in Nonce |-> IF row[n] <= now + nonceTTL THEN NoRow ELSE row[n]]
    /\ txn' = [t \in Txn |-> Outdate(t)]
    /\ UNCHANGED <<now, issued, writer, accepted>>

\* PruneExpiredNonces.  expires_at is text and the bound time is formatted by the
\* driver, so which of the expired rows compare as older is left open.
PruneExpiredNonces ==
    /\ writer = NoTxn
    /\ \E S \in SUBSET {n \in Nonce : row[n] # NoRow /\ row[n] <= now} :
          /\ S # {}
          /\ row' = [n \in Nonce |-> IF n \in S THEN NoRow ELSE row[n]]
    /\ txn' = [t \in Txn |-> Outdate(t)]
    /\ UNCHANGED <<now, issued, writer, accepted>>

\* A statement on another table (SaveOrder, SaveResource, UpdateOrderStatus, ...)
OtherWrite ==
    /\ writer = NoTxn
    /\ txn' = [t \in Txn |-> Outdate(t)]
    /\ UNCHANGED <<now, row, issued, writer, accepted>>

-----------------------------------------------------------------------------
(* ConsumeNonce *)

\* BeginTx and SELECT.  (No row: "nonce not found", nothing changes.)
ConsumeSelect(t, n) ==
    /\ txn[t].pc = "idle"
    /\ row[n] # NoRow
    /\ txn' = [txn EXCEPT ![t] = [pc |-> "selected", nonce |-> n, exp |-> row[n],
                                  stale |-> FALSE]]
    /\ UNCHANGED <<now, row, issued, writer, accepted>>

\* Mutant: SELECT and DELETE are not one transaction.
ConsumeDeleteUnisolated(t) ==
    /\ txn[t].pc = "selected"
    /\ writer = NoTxn
    /\ writer' = t
    /\ txn' = [txn EXCEPT ![t].pc = IF now > txn[t].exp THEN "expired" ELSE "deleted"]
    /\ UNCHANGED <<now, row, issued, accepted>>

\* The expiry check and the DELETE on either side of it.  SQLITE_BUSY ends the
\* call; of an expired nonce the DELETE's error is ignored.
ConsumeDelete(t) ==
    /\ txn[t].pc = "selected"
    /\ \/ /\ ~txn[t].stale
          /\ writer = NoTxn
          /\ writer' = t
          /\ txn' = [txn EXCEPT ![t].pc = IF now > txn[t].exp THEN "expired" ELSE "deleted"]
       \/ /\ txn[t].stale \/ writer # NoTxn
          /\ txn' = [txn EXCEPT ![t] = IdleTxn]
          /\ UNCHANGED writer
    /\ UNCHANGED <<now, row, issued, accepted>>

\* Commit.  An expired nonce is deleted too, but reported as an error.
ConsumeCommit(t) ==
    LET n == txn[t].nonce IN
    /\ txn[t].pc \in {"deleted", "expired"}
    /\ row' = [row EXCEPT ![n] = NoRow]
    /\ accepted' = IF txn[t].pc = "deleted" THEN [accepted EXCEPT ![n] = @ + 1]
                                            ELSE accepted
    /\ writer' = NoTxn
    /\ txn' = [u \in Txn |-> IF u = t THEN IdleTxn ELSE Outdate(u)]
    /\ UNCHANGED <<now, issued>>

\* The deferred Rollback: the request's context is cancelled or a statement fails.
ConsumeRollback(t) ==
    /\ txn[t].pc # "idle"
    /\ txn' = [txn EXCEPT ![t] = IdleTxn]
    /\ writer' = IF writer = t THEN NoTxn ELSE writer
    /\ UNCHANGED <<now, row, issued, accepted>>

-----------------------------------------------------------------------------

Tick ==
    /\ now < MaxTime
    /\ now' = now + 1
    /\ UNCHANGED <<row, issued, txn, writer, accepted>>

\* The process dies: committed rows stay, open transactions are gone.
Crash ==
    /\ \E t \in Txn : txn[t].pc # "idle"
    /\ txn' = [t \in Txn |-> IdleTxn]
    /\ writer' = NoTxn
    /\ UNCHANGED <<now, row, issued, accepted>>

Next ==
    \/ \E n \in Nonce : IssueNonce(n) \/ \E t \in Txn : ConsumeSelect(t, n)
    \/ \E t \in Txn : ConsumeDelete(t) \/ ConsumeCommit(t) \/ ConsumeRollback(t)
    \/ PruneExpiredNonces
    \/ OtherWrite
    \/ Tick
    \/ Crash

Spec == Init /\ [][Next]_vars

-----------------------------------------------------------------------------
(* Safety *)

\* Replay protection: however ConsumeNonce calls for one nonce interleave with
\* each other, with prunes and with crashes, at most one of them returns nil.
SingleUse == \A n \in Nonce : accepted[n] <= 1

\* A spent nonce is gone for good: no rollback, crash or late commit leaves or
\* brings back its row.
SpentIsGone == \A n \in Nonce : accepted[n] > 0 => row[n] = NoRow

\* A nonce that a client may still use disappears only by being used: neither
\* the pruner nor a ConsumeNonce that is abandoned or that loses the write lock
\* (SQLITE_BUSY, which its client sees as badNonce) destroys it.
LiveNonceKept ==
    [][\A n \in Nonce : row[n] > now /\ row'[n] = NoRow => accepted'[n] = accepted[n] + 1]_vars

\* A nonce's state as OneTimeNonce sees it.
NonceStatus(n) ==
    CASE accepted[n] > 0                    -> "spent"
      [] accepted[n] = 0 /\ row[n] # NoRow  -> "live"
      [] accepted[n] = 0 /\ row[n] = NoRow /\ n \in issued -> "lapsed"
      [] OTHER                              -> "unissued"

OneTime == INSTANCE OneTimeNonce WITH
    status <- [n \in Nonce |-> NonceStatus(n)],
    uses <- accepted

\* The table implements the promise of OneTimeNonce (RFC 8555 section 6.5): every
\* insert, consuming commit and prune is an Issue, a Spend or a Lapse, and
\* nothing else that happens to a transaction is visible.
ImplementsOneTime == OneTime!Spec

=============================================================================
