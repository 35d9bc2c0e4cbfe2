--------------------------- MODULE UpstreamClient ---------------------------
(***************************************************************************)
(* Client of internal/upstream/client.go: signedPostWithHeaders and the    *)
(* ring of nonces that all requests through one client share.              *)
(*                                                                         *)
(* Posts run concurrently and interleave at the client's mutex and at each *)
(* HTTP round trip, which may fail before or after the CA has acted on it. *)
(* The CA (external) accepts each of its nonces once, and not after it has *)
(* expired.  Nonces are names: the name of one that nobody holds any more  *)
(* serves for a new one, so that posts may go on for ever.                 *)
(***************************************************************************)
EXTENDS Naturals

CONSTANTS
    Post,           \* concurrent calls of signedPost
    Nonce, NoNonce,
    noncePoolSize,
    maxAttempts

ASSUME ClientAssumption ==
    /\ NoNonce \notin Nonce
    /\ noncePoolSize \in Nat \ {0}
    /\ maxAttempts \in Nat \ {0}

VARIABLES
    nonces, nonceHead, nonceTail, nonceCount,   \* the ring
    directory,  \* the CA's directory is cached
    post,       \* open calls
    live        \* nonces that the CA would accept

ring == <<nonces, nonceHead, nonceTail, nonceCount>>
vars == <<ring, directory, post, live>>

-----------------------------------------------------------------------------
(* State *)

Slot == 0 .. noncePoolSize - 1

\* The answer of the CA: bad, a badNonce problem; reply, its Replay-Nonce header.
PostType == [pc : {"idle", "get", "directory", "head", "send", "answer"},
             attempt : 0 .. maxAttempts - 1,
             nonce : Nonce \union {NoNonce},
             bad : BOOLEAN,
             reply : Nonce \union {NoNonce}]

IdlePost == [pc |-> "idle", attempt |-> 0, nonce |-> NoNonce, bad |-> FALSE,
             reply |-> NoNonce]

TypeOK ==
    /\ nonces \in [Slot -> Nonce \union {NoNonce}]
    /\ nonceHead \in Slot
    /\ nonceTail \in Slot
    /\ nonceCount \in 0 .. noncePoolSize
    /\ directory \in BOOLEAN
    /\ post \in [Post -> PostType]
    /\ live \in SUBSET Nonce

Init ==
    /\ nonces = [i \in Slot |-> NoNonce]
    /\ nonceHead = 0
    /\ nonceTail = 0
    /\ nonceCount = 0
    /\ directory = FALSE
    /\ post = [p \in Post |-> IdlePost]
    /\ live = {}

After(i) == (i + 1) % noncePoolSize

Pooled == {nonces[i] : i \in Slot} \ {NoNonce}

Held == Pooled \union {post[p].nonce : p \in Post} \union {post[p].reply : p \in Post}

\* The nonce that the CA issues next.
CanIssue == ~(Nonce \subseteq Held)

Unused == CHOOSE n \in Nonce : n \notin Held

Return(p) == post' = [post EXCEPT ![p] = IdlePost]

-----------------------------------------------------------------------------
(* getNonce *)

\* Mutant: a pooled nonce is read and left where it is.
GetNoncePeeks(p) ==
    /\ post[p].pc = "get"
    /\ \/ /\ nonceCount > 0
          /\ post' = [post EXCEPT ![p].pc = "send", ![p].nonce = nonces[nonceHead]]
       \/ /\ nonceCount = 0
          /\ post' = [post EXCEPT ![p].pc = "directory"]
    /\ UNCHANGED <<ring, directory, live>>

\* The oldest pooled nonce; if there is none, one is fetched.
GetNonce(p) ==
    /\ post[p].pc = "get"
    /\ \/ /\ nonceCount > 0
          /\ post' = [post EXCEPT ![p].pc = "send", ![p].nonce = nonces[nonceHead]]
          /\ nonces' = [nonces EXCEPT ![nonceHead] = NoNonce]
          /\ nonceHead' = After(nonceHead)
          /\ nonceCount' = nonceCount - 1
          /\ UNCHANGED nonceTail
       \/ /\ nonceCount = 0
          /\ post' = [post EXCEPT ![p].pc = "directory"]
          /\ UNCHANGED ring
    /\ UNCHANGED <<directory, live>>

\* Directory: cached, or fetched and cached; or an error.
Directory(p) ==
    /\ post[p].pc = "directory"
    /\ \/ /\ directory' = TRUE
          /\ post' = [post EXCEPT ![p].pc = "head"]
       \/ /\ ~directory
          /\ Return(p)
          /\ UNCHANGED directory
    /\ UNCHANGED <<ring, live>>

\* HEAD new-nonce; an error, or no Replay-Nonce in the answer, ends the call.
HeadNonce(p) ==
    /\ post[p].pc = "head"
    /\ \/ /\ CanIssue
          /\ post' = [post EXCEPT ![p].pc = "send", ![p].nonce = Unused]
          /\ live' = live \union {Unused}
       \/ /\ Return(p)
          /\ UNCHANGED live
    /\ UNCHANGED <<ring, directory>>

-----------------------------------------------------------------------------
(* signedPostWithHeaders *)

Start(p) ==
    /\ post[p].pc = "idle"
    /\ post' = [post EXCEPT ![p].pc = "get"]
    /\ UNCHANGED <<ring, directory, live>>

\* The round trip.  It fails, and whether or not the CA took the nonce it is lost;
\* or the CA answers, with a Replay-Nonce or without.
Send(p) ==
    LET n == post[p].nonce
        answer == [post[p] EXCEPT !.pc = "answer", !.nonce = NoNonce,
                                  !.bad = n \notin live] IN
    /\ post[p].pc = "send"
    /\ \/ /\ Return(p) \/ post' = [post EXCEPT ![p] = answer]
          /\ live' = live \ {n}
       \/ /\ CanIssue
          /\ post' = [post EXCEPT ![p] = [answer EXCEPT !.reply = Unused]]
          /\ live' = (live \ {n}) \union {Unused}
    /\ UNCHANGED <<ring, directory>>

\* Mutant: a full pool has its oldest nonce overwritten.
SaveNonceOverwrites(n) ==
    IF n # NoNonce
    THEN /\ nonces' = [nonces EXCEPT ![nonceTail] = n]
         /\ nonceTail' = After(nonceTail)
         /\ nonceCount' = IF nonceCount < noncePoolSize THEN nonceCount + 1 ELSE nonceCount
         /\ UNCHANGED nonceHead
    ELSE UNCHANGED ring

\* saveNonce: a nonce that finds the pool full is dropped.
SaveNonce(n) ==
    IF n # NoNonce /\ nonceCount < noncePoolSize
    THEN /\ nonces' = [nonces EXCEPT ![nonceTail] = n]
         /\ nonceTail' = After(nonceTail)
         /\ nonceCount' = nonceCount + 1
         /\ UNCHANGED nonceHead
    ELSE UNCHANGED ring

\* The answer's nonce is pooled.  badNonce is retried, maxAttempts in all.  Any
\* other answer is the caller's, and so is one whose body cannot be read.
Answer(p) ==
    /\ post[p].pc = "answer"
    /\ SaveNonce(post[p].reply)
    /\ \/ /\ post[p].bad
          /\ post[p].attempt + 1 < maxAttempts
          /\ post' = [post EXCEPT ![p].pc = "get", ![p].attempt = @ + 1,
                                  ![p].bad = FALSE, ![p].reply = NoNonce]
       \/ Return(p)
    /\ UNCHANGED <<directory, live>>

\* The CA forgets a nonce that was not used in time.
Expire(n) ==
    /\ n \in live
    /\ live' = live \ {n}
    /\ UNCHANGED <<ring, directory, post>>

Step(p) == GetNonce(p) \/ Directory(p) \/ HeadNonce(p) \/ Send(p) \/ Answer(p)

Next ==
    \/ \E p \in Post : Start(p) \/ Step(p)
    \/ \E n \in Nonce : Expire(n)

Spec == Init /\ [][Next]_vars

-----------------------------------------------------------------------------

\* A nonce signs one request.  A request is sent with a nonce of the CA, never with
\* an emptied slot, and by then no slot of the ring and no other call has it:
\* posts that race for the ring, retries and lost answers bring no nonce to the CA
\* a second time.
NonceUsedOnce ==
    \A p \in Post : post[p].pc = "send" =>
        /\ post[p].nonce \in Nonce \ Pooled
        /\ \A q \in Post : post[p].nonce # post[q].reply
        /\ \A q \in Post \ {p} : post[p].nonce # post[q].nonce

\* The ring, its indices wrapping around, is a queue: at its capacity it drops the
\* new nonce and overwrites none.
Contents == [i \in 1 .. nonceCount |-> nonces[(nonceHead + i - 1) % noncePoolSize]]

Queue == INSTANCE NonceQueue WITH Size <- noncePoolSize, queue <- Contents

RingIsQueue == Queue!Spec

=============================================================================
