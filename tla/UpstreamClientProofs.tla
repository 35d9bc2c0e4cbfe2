------------------------ MODULE UpstreamClientProofs ------------------------
(***************************************************************************)
(* Proofs about UpstreamClient, for any number of concurrent calls, any    *)
(* size of the ring and any number of attempts.                            *)
(***************************************************************************)
EXTENDS UpstreamClient, SequenceTheorems, TLAPS

\* Slot i holds a nonce: the slots from nonceHead on, around the end.
Occupied(i) ==
    \/ nonceHead <= i /\ i < nonceHead + nonceCount
    \/ i + noncePoolSize < nonceHead + nonceCount

\* The ring's indices agree with its contents.
RingInv ==
    /\ nonceTail = IF nonceHead + nonceCount < noncePoolSize
                   THEN nonceHead + nonceCount
                   ELSE nonceHead + nonceCount - noncePoolSize
    /\ \A i \in Slot : nonces[i] # NoNonce <=> Occupied(i)

\* A call has a nonce while it sends, and a reply while it handles the answer.
PhaseInv ==
    \A p \in Post : /\ post[p].nonce # NoNonce <=> post[p].pc = "send"
                    /\ post[p].reply # NoNonce => post[p].pc = "answer"

\* A nonce is in one place: a slot, a call that sends it, or a reply.
HolderInv ==
    /\ \A i, j \in Slot : nonces[i] # NoNonce /\ nonces[i] = nonces[j] => i = j
    /\ \A i \in Slot, p \in Post :
          nonces[i] # NoNonce => nonces[i] # post[p].nonce /\ nonces[i] # post[p].reply
    /\ \A p, q \in Post :
          /\ post[p].nonce # NoNonce => post[p].nonce # post[q].reply
          /\ post[p].nonce # NoNonce /\ post[p].nonce = post[q].nonce => p = q
          /\ post[p].reply # NoNonce /\ post[p].reply = post[q].reply => p = q

IInv == TypeOK /\ RingInv /\ PhaseInv /\ HolderInv

-----------------------------------------------------------------------------

\* (i + 1) % noncePoolSize of getNonce and saveNonce: the next slot, around the end.
LEMMA AfterIsNext ==
  ASSUME NEW i \in Slot
  PROVE  After(i) = IF i + 1 = noncePoolSize THEN 0 ELSE i + 1
<1>1. noncePoolSize \in Nat \ {0} /\ i \in Nat /\ i + 1 <= noncePoolSize
  BY ClientAssumption DEF Slot
<1>2. CASE i + 1 = noncePoolSize
  <2>1. noncePoolSize % noncePoolSize = 0
    BY <1>1, SMT
  <2> QED BY <1>2, <2>1 DEF After
<1>3. CASE i + 1 < noncePoolSize
  <2>1. (i + 1) % noncePoolSize = i + 1
    BY <1>1, <1>3, SMT
  <2> QED BY <1>1, <1>3, <2>1 DEF After
<1> QED BY <1>1, <1>2, <1>3

\* A nonce that the CA issues is in no slot and in no call.
LEMMA UnusedIsNew ==
  ASSUME CanIssue
  PROVE  /\ Unused \in Nonce
         /\ Unused # NoNonce
         /\ \A i \in Slot : nonces[i] # Unused
         /\ \A p \in Post : post[p].nonce # Unused /\ post[p].reply # Unused
<1>1. \E n \in Nonce : n \notin Held
  BY DEF CanIssue
<1>2. Unused \in Nonce /\ Unused \notin Held
  BY <1>1 DEF Unused
<1>3. Unused # NoNonce
  BY <1>2, ClientAssumption
<1> QED BY <1>2, <1>3 DEF Held, Pooled

\* The record of an idle call has its type.
LEMMA IdleType == IdlePost \in PostType
  BY ClientAssumption DEF IdlePost, PostType

\* Type correctness is preserved by every step.
LEMMA TypeStep ==
  ASSUME TypeOK, [Next]_vars
  PROVE  TypeOK'
<1> USE ClientAssumption DEF TypeOK
<1>0. \A i \in Slot : After(i) \in Slot
  BY AfterIsNext DEF Slot
<1>1. ASSUME NEW p \in Post, GetNonce(p) PROVE TypeOK'
  <2>1. CASE nonceCount > 0
    <3>3. nonces[nonceHead] \in Nonce \union {NoNonce}
      OBVIOUS
    <3>4. post[p] \in PostType
      OBVIOUS
    <3>5. post' \in [Post -> PostType]
      <4>1. post' = [post EXCEPT ![p].pc = "send", ![p].nonce = nonces[nonceHead]]
        BY <1>1, <2>1 DEF GetNonce
      <4>2. [post[p] EXCEPT !.pc = "send", !.nonce = nonces[nonceHead]] \in PostType
        BY <3>3, <3>4 DEF PostType
      <4> QED BY <4>1, <4>2
    <3>6. nonces' \in [Slot -> Nonce \union {NoNonce}] /\ nonceHead' \in Slot
          /\ nonceCount' \in 0 .. noncePoolSize
      BY <1>0, <1>1, <2>1 DEF GetNonce
    <3> QED BY <1>1, <2>1, <3>5, <3>6 DEF GetNonce
  <2>2. CASE nonceCount = 0
    <3>1. post' = [post EXCEPT ![p].pc = "directory"]
      BY <1>1, <2>2 DEF GetNonce
    <3>2. post' \in [Post -> PostType]
      BY <3>1 DEF PostType
    <3> QED BY <1>1, <2>2, <3>2 DEF GetNonce, ring
  <2> QED BY <1>1, <2>1, <2>2 DEF GetNonce
<1>2. ASSUME NEW p \in Post, Directory(p) PROVE TypeOK'
  <2>1. post' \in [Post -> PostType]
    BY <1>2, IdleType DEF Directory, Return, PostType
  <2> QED BY <1>2, <2>1 DEF Directory, ring
<1>3. ASSUME NEW p \in Post, HeadNonce(p) PROVE TypeOK'
  <2>1. CASE Return(p) /\ UNCHANGED live
    <3>1. post' \in [Post -> PostType]
      BY <2>1, IdleType DEF Return
    <3> QED BY <1>3, <2>1, <3>1 DEF HeadNonce, ring
  <2>2. CASE ~(Return(p) /\ UNCHANGED live)
    <3>1. Unused \in Nonce
      BY <1>3, <2>2, UnusedIsNew DEF HeadNonce
    <3>2. post' = [post EXCEPT ![p].pc = "send", ![p].nonce = Unused]
      BY <1>3, <2>2 DEF HeadNonce
    <3>3. post' \in [Post -> PostType]
      <4>1. [post[p] EXCEPT !.pc = "send", !.nonce = Unused] \in PostType
        BY <3>1 DEF PostType
      <4> QED BY <3>2, <4>1
    <3> QED BY <1>3, <2>2, <3>1, <3>3 DEF HeadNonce, ring
  <2> QED BY <2>1, <2>2
<1>4. ASSUME NEW p \in Post, Start(p) PROVE TypeOK'
  <2>1. post' \in [Post -> PostType]
    BY <1>4 DEF Start, PostType
  <2> QED BY <1>4, <2>1 DEF Start, ring
<1>5. ASSUME NEW p \in Post, Send(p) PROVE TypeOK'
  <2> DEFINE n == post[p].nonce
             bad == n \notin live
             answer == [post[p] EXCEPT !.pc = "answer", !.nonce = NoNonce, !.bad = bad]
  <2>1. bad \in BOOLEAN
    OBVIOUS
  <2>3. post[p] \in PostType
    OBVIOUS
  <2>4. answer \in PostType
    <3> HIDE DEF bad
    <3> QED BY <2>1, <2>3 DEF PostType
  <2>5. CASE post' = [post EXCEPT ![p] = IdlePost] /\ live' = live \ {n}
    <3>1. post' \in [Post -> PostType]
      BY <2>5, IdleType
    <3> QED BY <1>5, <2>5, <3>1 DEF Send, ring
  <2>6. CASE post' = [post EXCEPT ![p] = answer] /\ live' = live \ {n}
    <3> HIDE DEF answer
    <3>1. post' \in [Post -> PostType]
      BY <2>4, <2>6
    <3> QED BY <1>5, <2>6, <3>1 DEF Send, ring
  <2>7. CASE /\ CanIssue
             /\ post' = [post EXCEPT ![p] = [answer EXCEPT !.reply = Unused]]
             /\ live' = (live \ {n}) \union {Unused}
    <3> HIDE DEF answer
    <3>1. Unused \in Nonce
      BY <2>7, UnusedIsNew
    <3>2. [answer EXCEPT !.reply = Unused] \in PostType
      BY <2>4, <3>1 DEF PostType
    <3>3. post' \in [Post -> PostType]
      BY <2>7, <3>2
    <3> QED BY <1>5, <2>7, <3>1, <3>3 DEF Send, ring
  <2> QED BY <1>5, <2>5, <2>6, <2>7 DEF Send, Return
<1>6. ASSUME NEW p \in Post, Answer(p) PROVE TypeOK'
  <2>1. post' \in [Post -> PostType]
    <3>1. CASE Return(p)
      BY <3>1, IdleType DEF Return
    <3>2. CASE ~Return(p)
      <4>1. /\ post[p].attempt + 1 < maxAttempts
            /\ post' = [post EXCEPT ![p].pc = "get", ![p].attempt = @ + 1,
                                    ![p].bad = FALSE, ![p].reply = NoNonce]
        BY <1>6, <3>2 DEF Answer
      <4>2. post[p] \in PostType
        OBVIOUS
      <4>3. post[p].attempt + 1 \in 0 .. maxAttempts - 1
        BY <4>1, <4>2 DEF PostType
      <4>4. [post[p] EXCEPT !.pc = "get", !.attempt = @ + 1, !.bad = FALSE,
                            !.reply = NoNonce] \in PostType
        BY <4>2, <4>3 DEF PostType
      <4> QED BY <4>1, <4>4
    <3> QED BY <3>1, <3>2
  <2>2. /\ nonces' \in [Slot -> Nonce \union {NoNonce}]
        /\ nonceHead' \in Slot /\ nonceTail' \in Slot
        /\ nonceCount' \in 0 .. noncePoolSize
    <3>1. post[p].reply \in Nonce \union {NoNonce}
      BY DEF PostType
    <3>2. SaveNonce(post[p].reply)
      BY <1>6 DEF Answer
    <3>3. CASE UNCHANGED ring
      BY <3>3 DEF ring
    <3>4. CASE ~UNCHANGED ring
      <4>1. /\ nonceCount < noncePoolSize
            /\ nonces' = [nonces EXCEPT ![nonceTail] = post[p].reply]
            /\ nonceTail' = After(nonceTail)
            /\ nonceCount' = nonceCount + 1
            /\ nonceHead' = nonceHead
        BY <3>2, <3>4 DEF SaveNonce
      <4> QED BY <1>0, <3>1, <4>1
    <3> QED BY <3>3, <3>4
  <2> QED BY <1>6, <2>1, <2>2 DEF Answer
<1>7. ASSUME NEW n \in Nonce, Expire(n) PROVE TypeOK'
  BY <1>7 DEF Expire, ring
<1>8. CASE UNCHANGED vars
  BY <1>8 DEF vars, ring
<1> QED BY <1>1, <1>2, <1>3, <1>4, <1>5, <1>6, <1>7, <1>8 DEF Next, Step

-----------------------------------------------------------------------------

\* Taking from the head and appending at the tail keep indices and contents in
\* step, also when they wrap around.
LEMMA RingStep ==
  ASSUME TypeOK, RingInv, [Next]_vars
  PROVE  RingInv'
<1> USE ClientAssumption DEF TypeOK
<1>1. ASSUME UNCHANGED ring PROVE RingInv'
  BY <1>1 DEF RingInv, Occupied, ring
<1>2. ASSUME NEW p \in Post, GetNonce(p), nonceCount > 0 PROVE RingInv'
  <2>1. /\ nonces' = [nonces EXCEPT ![nonceHead] = NoNonce]
        /\ nonceHead' = IF nonceHead + 1 = noncePoolSize THEN 0 ELSE nonceHead + 1
        /\ nonceCount' = nonceCount - 1
        /\ nonceTail' = nonceTail
    BY <1>2, AfterIsNext DEF GetNonce
  <2>2. ASSUME NEW i \in Slot PROVE nonces'[i] # NoNonce <=> Occupied(i)'
    <3>1. nonces[i] # NoNonce <=> Occupied(i)
      BY DEF RingInv
    <3>2. Occupied(i)' <=> Occupied(i) /\ i # nonceHead
      BY <1>2, <2>1 DEF Occupied, Slot
    <3> QED BY <2>1, <3>1, <3>2
  <2>3. nonceTail' = IF nonceHead' + nonceCount' < noncePoolSize
                     THEN nonceHead' + nonceCount'
                     ELSE nonceHead' + nonceCount' - noncePoolSize
    BY <1>2, <2>1 DEF RingInv, Slot
  <2> QED BY <2>2, <2>3 DEF RingInv
<1>3. ASSUME NEW p \in Post, Answer(p), ~UNCHANGED ring PROVE RingInv'
  <2>1. /\ post[p].reply # NoNonce
        /\ nonceCount < noncePoolSize
        /\ nonces' = [nonces EXCEPT ![nonceTail] = post[p].reply]
        /\ nonceTail' = IF nonceTail + 1 = noncePoolSize THEN 0 ELSE nonceTail + 1
        /\ nonceCount' = nonceCount + 1
        /\ nonceHead' = nonceHead
    BY <1>3, AfterIsNext DEF Answer, SaveNonce
  <2>2. ASSUME NEW i \in Slot PROVE nonces'[i] # NoNonce <=> Occupied(i)'
    <3>1. nonces[i] # NoNonce <=> Occupied(i)
      BY DEF RingInv
    <3>2. Occupied(i)' <=> Occupied(i) \/ i = nonceTail
      BY <2>1 DEF Occupied, Slot, RingInv
    <3> QED BY <2>1, <3>1, <3>2
  <2>3. nonceTail' = IF nonceHead' + nonceCount' < noncePoolSize
                     THEN nonceHead' + nonceCount'
                     ELSE nonceHead' + nonceCount' - noncePoolSize
    BY <2>1 DEF RingInv, Slot
  <2> QED BY <2>2, <2>3 DEF RingInv
<1>4. \/ UNCHANGED ring
      \/ \E p \in Post : GetNonce(p) /\ nonceCount > 0
      \/ \E p \in Post : Answer(p) /\ ~UNCHANGED ring
  BY DEF Next, Step, vars, GetNonce, Directory, HeadNonce, Start, Send, Expire
<1> QED BY <1>1, <1>2, <1>3, <1>4

-----------------------------------------------------------------------------

\* No step copies a nonce: it moves from the CA to a call or a reply, from a reply
\* to a slot and from a slot to a call, or it is dropped.
LEMMA HolderStep ==
  ASSUME IInv, [Next]_vars
  PROVE  PhaseInv' /\ HolderInv'
<1> USE DEF IInv, TypeOK
<1>0. IdlePost.pc = "idle" /\ IdlePost.nonce = NoNonce /\ IdlePost.reply = NoNonce
  BY DEF IdlePost
<1>00. \A p \in Post : post[p] \in PostType
  OBVIOUS
\* A step that leaves the ring alone and gives no call a nonce.
<1>1. ASSUME nonces' = nonces,
             \A q \in Post :
                /\ post'[q].nonce \in {post[q].nonce, NoNonce}
                /\ post'[q].reply \in {post[q].reply, NoNonce}
                /\ post'[q].nonce # NoNonce <=> post'[q].pc = "send"
                /\ post'[q].reply # NoNonce => post'[q].pc = "answer"
      PROVE PhaseInv' /\ HolderInv'
  <2>1. PhaseInv'
    BY <1>1 DEF PhaseInv
  <2>2. HolderInv'
    BY <1>1 DEF HolderInv
  <2> QED BY <2>1, <2>2
<1>2. ASSUME NEW p \in Post, GetNonce(p), nonceCount > 0 PROVE PhaseInv' /\ HolderInv'
  <2>1. nonceHead \in Slot /\ nonces[nonceHead] # NoNonce
    BY <1>2, ClientAssumption DEF RingInv, Occupied, Slot
  <2>2. nonces' = [nonces EXCEPT ![nonceHead] = NoNonce]
    BY <1>2 DEF GetNonce
  <2>3. post'[p].pc = "send" /\ post'[p].nonce = nonces[nonceHead]
        /\ post'[p].reply = post[p].reply /\ post[p].pc = "get"
    <3>2. post' = [post EXCEPT ![p].pc = "send", ![p].nonce = nonces[nonceHead]]
      BY <1>2 DEF GetNonce
    <3> QED BY <1>2, <3>2, <1>00 DEF GetNonce, PostType
  <2>4. \A q \in Post \ {p} : /\ post'[q].pc = post[q].pc
                              /\ post'[q].nonce = post[q].nonce
                              /\ post'[q].reply = post[q].reply
    BY <1>2, <1>00 DEF GetNonce, PostType
  <2>5. post[p].reply = NoNonce /\ post[p].nonce = NoNonce
    BY <2>3 DEF PhaseInv
  <2>6. PhaseInv'
    BY <2>1, <2>3, <2>4, <2>5 DEF PhaseInv
  <2>7. \A i \in Slot : nonces'[i] = IF i = nonceHead THEN NoNonce ELSE nonces[i]
    BY <2>2
  <2>8. HolderInv'
    <3>1. \A i \in Slot : i # nonceHead => nonces[i] # nonces[nonceHead]
      BY <2>1 DEF HolderInv
    <3>2. \A q \in Post : /\ post[q].nonce # nonces[nonceHead]
                          /\ post[q].reply # nonces[nonceHead]
      BY <2>1 DEF HolderInv
    <3>3. \A i, j \in Slot : nonces'[i] # NoNonce /\ nonces'[i] = nonces'[j] => i = j
      BY <2>7 DEF HolderInv
    <3>4. \A i \in Slot, q \in Post : nonces'[i] # NoNonce =>
             nonces'[i] # post'[q].nonce /\ nonces'[i] # post'[q].reply
      BY <2>3, <2>4, <2>7, <3>1 DEF HolderInv
    <3>5. \A q, s \in Post :
             /\ post'[q].nonce # NoNonce => post'[q].nonce # post'[s].reply
             /\ post'[q].nonce # NoNonce /\ post'[q].nonce = post'[s].nonce => q = s
             /\ post'[q].reply # NoNonce /\ post'[q].reply = post'[s].reply => q = s
      BY <2>3, <2>4, <2>5, <3>2 DEF HolderInv
    <3> QED BY <3>3, <3>4, <3>5 DEF HolderInv
  <2> QED BY <2>6, <2>8
<1>3. ASSUME NEW p \in Post, GetNonce(p), nonceCount = 0 PROVE PhaseInv' /\ HolderInv'
  BY <1>3, <1>1, <1>00 DEF GetNonce, ring, PhaseInv, PostType
<1>4. ASSUME NEW p \in Post, Directory(p) PROVE PhaseInv' /\ HolderInv'
  BY <1>4, <1>1, <1>0, <1>00 DEF Directory, Return, ring, PhaseInv, PostType
<1>5. ASSUME NEW p \in Post, HeadNonce(p) PROVE PhaseInv' /\ HolderInv'
  <2>1. CASE Return(p)
    BY <1>5, <2>1, <1>1, <1>0, <1>00 DEF HeadNonce, Return, ring, PhaseInv
  <2>2. CASE ~Return(p)
    <3>1. CanIssue /\ post' = [post EXCEPT ![p].pc = "send", ![p].nonce = Unused]
          /\ nonces' = nonces /\ post[p].pc = "head"
      BY <1>5, <2>2 DEF HeadNonce, ring
    <3>2. post'[p].pc = "send" /\ post'[p].nonce = Unused /\ post'[p].reply = post[p].reply
      BY <3>1, <1>00 DEF PostType
    <3>3. \A q \in Post \ {p} : post'[q] = post[q]
      BY <3>1
    <3>4. post[p].reply = NoNonce
      BY <3>1 DEF PhaseInv
    <3>5. PhaseInv'
      BY <3>1, <3>2, <3>3, <3>4, UnusedIsNew DEF PhaseInv
    <3>6. HolderInv'
      BY <3>1, <3>2, <3>3, <3>4, UnusedIsNew DEF HolderInv
    <3> QED BY <3>5, <3>6
  <2> QED BY <2>1, <2>2
<1>6. ASSUME NEW p \in Post, Start(p) PROVE PhaseInv' /\ HolderInv'
  BY <1>6, <1>1, <1>00 DEF Start, ring, PhaseInv, PostType
<1>7. ASSUME NEW p \in Post, Send(p) PROVE PhaseInv' /\ HolderInv'
  <2>1. CASE Return(p)
    BY <1>7, <2>1, <1>1, <1>0, <1>00 DEF Send, Return, ring, PhaseInv
  <2>2. CASE ~Return(p)
    <3>1. nonces' = nonces /\ post[p].pc = "send" /\ post[p].reply = NoNonce
      BY <1>7 DEF Send, ring, PhaseInv
    <3>2. \A q \in Post \ {p} : post'[q] = post[q]
      BY <1>7, <2>2 DEF Send
    <3>3. /\ post'[p].pc = "answer" /\ post'[p].nonce = NoNonce
          /\ post'[p].reply = post[p].reply \/ (CanIssue /\ post'[p].reply = Unused)
      <4> DEFINE bad == post[p].nonce \notin live
                 answer == [post[p] EXCEPT !.pc = "answer", !.nonce = NoNonce, !.bad = bad]
      <4>1. \/ post' = [post EXCEPT ![p] = answer]
            \/ CanIssue /\ post' = [post EXCEPT ![p] = [answer EXCEPT !.reply = Unused]]
        BY <1>7, <2>2 DEF Send
      <4> HIDE DEF bad
      <4>2. answer.pc = "answer" /\ answer.nonce = NoNonce /\ answer.reply = post[p].reply
            /\ [answer EXCEPT !.reply = Unused].pc = "answer"
            /\ [answer EXCEPT !.reply = Unused].nonce = NoNonce
            /\ [answer EXCEPT !.reply = Unused].reply = Unused
        BY <1>00 DEF PostType
      <4> HIDE DEF answer
      <4> QED BY <4>1, <4>2
    <3>4. PhaseInv'
      BY <3>1, <3>2, <3>3 DEF PhaseInv
    <3>5. HolderInv'
      BY <3>1, <3>2, <3>3, UnusedIsNew DEF HolderInv
    <3> QED BY <3>4, <3>5
  <2> QED BY <2>1, <2>2
<1>8. ASSUME NEW p \in Post, Answer(p) PROVE PhaseInv' /\ HolderInv'
  <2>1. /\ post'[p].nonce = NoNonce /\ post'[p].reply = NoNonce
        /\ post'[p].pc \in {"idle", "get"} /\ post[p].nonce = NoNonce
    <3>1. post[p].nonce = NoNonce
      BY <1>8 DEF Answer, PhaseInv
    <3>2. CASE Return(p)
      BY <3>1, <3>2, <1>0 DEF Return
    <3>3. CASE ~Return(p)
      BY <1>8, <3>1, <3>3, <1>00 DEF Answer, PostType
    <3> QED BY <3>2, <3>3
  <2>2. \A q \in Post \ {p} : post'[q] = post[q]
    BY <1>8 DEF Answer, Return
  <2>3. PhaseInv'
    BY <2>1, <2>2 DEF PhaseInv
  <2>4. CASE nonces' = nonces
    BY <2>1, <2>2, <2>3, <2>4 DEF HolderInv
  <2>5. CASE nonces' # nonces
    <3>1. /\ nonces' = [nonces EXCEPT ![nonceTail] = post[p].reply]
          /\ post[p].reply # NoNonce /\ nonceTail \in Slot
      BY <1>8, <2>5 DEF Answer, SaveNonce, ring
    <3>2. \A i \in Slot : nonces'[i] = IF i = nonceTail THEN post[p].reply ELSE nonces[i]
      BY <3>1
    <3>3. \A i \in Slot : nonces[i] # NoNonce => nonces[i] # post[p].reply
      BY DEF HolderInv
    <3>4. \A q \in Post \ {p} : post[q].nonce # post[p].reply /\ post[q].reply # post[p].reply
      BY <3>1 DEF HolderInv
    <3>5. HolderInv'
      BY <2>1, <2>2, <3>1, <3>2, <3>3, <3>4 DEF HolderInv
    <3> QED BY <2>3, <3>5
  <2> QED BY <2>4, <2>5
<1>9. ASSUME NEW n \in Nonce, Expire(n) PROVE PhaseInv' /\ HolderInv'
  BY <1>9, <1>1 DEF Expire, ring, PhaseInv
<1>10. CASE UNCHANGED vars
  BY <1>10, <1>1 DEF vars, ring, PhaseInv
<1>11. ASSUME NEW p \in Post, GetNonce(p) PROVE PhaseInv' /\ HolderInv'
  BY <1>2, <1>3, <1>11 DEF GetNonce
<1> QED BY <1>4, <1>5, <1>6, <1>7, <1>8, <1>9, <1>10, <1>11 DEF Next, Step

-----------------------------------------------------------------------------

\* The invariant holds in every reachable state of the client.
THEOREM Invariance == Spec => []IInv
<1>1. Init => IInv
  <2> SUFFICES ASSUME Init PROVE IInv
    OBVIOUS
  <2>1. TypeOK
    <3>1. post \in [Post -> PostType]
      BY IdleType DEF Init
    <3>2. 0 \in Slot /\ 0 \in 0 .. noncePoolSize
      BY ClientAssumption DEF Slot
    <3> QED BY <3>1, <3>2 DEF Init, TypeOK
  <2>2. RingInv
    BY ClientAssumption DEF Init, RingInv, Occupied, Slot
  <2>3. PhaseInv /\ HolderInv
    BY DEF Init, PhaseInv, HolderInv, IdlePost
  <2> QED BY <2>1, <2>2, <2>3 DEF IInv
<1>2. IInv /\ [Next]_vars => IInv'
  BY TypeStep, RingStep, HolderStep DEF IInv
<1> QED BY <1>1, <1>2, PTL DEF Spec

\* The state of the client and of its calls keeps its type: in particular the
\* ring's indices stay within it and its count within its size.
THEOREM TypeCorrect == Spec => []TypeOK
<1>1. IInv => TypeOK
  BY DEF IInv
<1> QED BY <1>1, Invariance, PTL

\* signedPostWithHeaders never sends a nonce that is still in the ring, that
\* another call sends or has received, or that was read from an emptied slot.
THEOREM UsedOnce == Spec => []NonceUsedOnce
<1>1. IInv => NonceUsedOnce
  <2> SUFFICES ASSUME IInv, NEW p \in Post, post[p].pc = "send"
               PROVE  /\ post[p].nonce \in Nonce \ Pooled
                      /\ \A q \in Post : post[p].nonce # post[q].reply
                      /\ \A q \in Post \ {p} : post[p].nonce # post[q].nonce
    BY DEF NonceUsedOnce
  <2>1. post[p].nonce # NoNonce
    BY DEF IInv, PhaseInv
  <2>2. post[p].nonce \in Nonce
    BY <2>1 DEF IInv, TypeOK, PostType
  <2>3. post[p].nonce \notin Pooled
    BY <2>1 DEF IInv, HolderInv, Pooled
  <2> QED BY <2>1, <2>2, <2>3 DEF IInv, HolderInv
<1> QED BY <1>1, Invariance, PTL

-----------------------------------------------------------------------------
(* The ring implements the queue *)

\* Indices wrap around once.
LEMMA WrapOnce ==
  ASSUME NEW x \in Nat, x < 2 * noncePoolSize
  PROVE  x % noncePoolSize = IF x < noncePoolSize THEN x ELSE x - noncePoolSize
<1>1. noncePoolSize \in Nat \ {0}
  BY ClientAssumption
<1>2. CASE x < noncePoolSize
  BY <1>1, <1>2, SMT
<1>3. CASE x >= noncePoolSize
  <2>1. PICK y \in Nat : x = y + noncePoolSize /\ y < noncePoolSize
    BY <1>1, <1>3
  <2>2. y % noncePoolSize = y /\ (y + noncePoolSize) % noncePoolSize = y
    BY <1>1, <2>1, SMT
  <2> QED BY <1>1, <1>3, <2>1, <2>2
<1> QED BY <1>1, <1>2, <1>3

\* The i-th nonce of the queue, without the remainder.
Place(i) ==
    IF nonceHead + i - 1 < noncePoolSize THEN nonceHead + i - 1
    ELSE nonceHead + i - 1 - noncePoolSize

ContentsByPlace ==
    /\ Contents = [i \in 1 .. nonceCount |-> nonces[Place(i)]]
    /\ \A i \in 1 .. nonceCount : Place(i) \in Slot

\* (nonceHead + i - 1) % noncePoolSize is that place, and a slot.
LEMMA ContentsIs == TypeOK => ContentsByPlace
<1> SUFFICES ASSUME TypeOK PROVE ContentsByPlace
  OBVIOUS
<1>1. ASSUME NEW i \in 1 .. nonceCount
      PROVE  Place(i) \in Slot /\ (nonceHead + i - 1) % noncePoolSize = Place(i)
  <2> DEFINE x == nonceHead + i - 1
  <2>1. x \in Nat /\ x < 2 * noncePoolSize
    BY ClientAssumption DEF TypeOK, Slot
  <2>2. x % noncePoolSize = IF x < noncePoolSize THEN x ELSE x - noncePoolSize
    <3> HIDE DEF x
    <3> QED BY <2>1, WrapOnce
  <2>3. Place(i) \in Slot
    BY <2>1, ClientAssumption DEF Place, TypeOK, Slot
  <2>4. Place(i) = IF x < noncePoolSize THEN x ELSE x - noncePoolSize
    BY <2>1, ClientAssumption DEF Place, TypeOK, Slot
  <2>5. x % noncePoolSize = Place(i)
    <3> HIDE DEF x
    <3> QED BY <2>2, <2>4
  <2> QED BY <2>3, <2>5
<1> QED BY <1>1 DEF Contents, ContentsByPlace

\* The contents are a sequence of nonces.
LEMMA ContentsType ==
  ASSUME IInv
  PROVE  Contents \in Seq(Nonce) /\ Len(Contents) = nonceCount
<1>1. \A i \in 1 .. nonceCount : nonces[Place(i)] \in Nonce
  <2> SUFFICES ASSUME NEW i \in 1 .. nonceCount PROVE nonces[Place(i)] \in Nonce
    OBVIOUS
  <2>1. Place(i) \in Slot
    BY ContentsIs DEF IInv, ContentsByPlace
  <2>2. Occupied(Place(i))
    BY ClientAssumption DEF IInv, TypeOK, Place, Occupied, Slot
  <2> QED BY <2>1, <2>2 DEF IInv, RingInv, TypeOK
<1>2. nonceCount \in Nat
  BY ClientAssumption DEF IInv, TypeOK
<1>3. Contents \in [1 .. nonceCount -> Nonce]
  BY <1>1, ContentsIs DEF IInv, ContentsByPlace
<1> QED BY <1>2, <1>3

\* The nonce pool of the client implements NonceQueue: in every interleaving its
\* nonces come out in the order in which they went in, none of them twice, and a
\* full pool refuses the new one.
THEOREM RingImplementsQueue == Spec => RingIsQueue
<1>1. Init => Queue!Init
  <2> SUFFICES ASSUME Init PROVE Contents = <<>>
    BY DEF Queue!Init
  <2>1. nonceCount = 0
    BY DEF Init
  <2> QED BY <2>1 DEF Contents
<1>2. IInv /\ IInv' /\ [Next]_vars => [Queue!Put \/ Queue!Take]_Contents
  <2> SUFFICES ASSUME IInv, IInv', [Next]_vars
               PROVE  Queue!Put \/ Queue!Take \/ Contents' = Contents
    OBVIOUS
  <2>0. ContentsByPlace'
    <3>1. TypeOK'
      BY DEF IInv
    <3> QED BY <3>1, ContentsIs, PTL
  <2>1. CASE UNCHANGED ring
    BY <2>1 DEF Contents, ring
  <2>2. ASSUME NEW p \in Post, GetNonce(p), nonceCount > 0 PROVE Queue!Take
    <3>1. /\ nonces' = [nonces EXCEPT ![nonceHead] = NoNonce]
          /\ nonceHead' = IF nonceHead + 1 = noncePoolSize THEN 0 ELSE nonceHead + 1
          /\ nonceCount' = nonceCount - 1
      BY <2>2, AfterIsNext DEF GetNonce, IInv, TypeOK
    <3>2. Contents' = [i \in 1 .. nonceCount - 1 |-> Contents[i + 1]]
      <4>1. Contents' = [i \in 1 .. nonceCount' |-> nonces'[Place(i)']]
        BY <2>0 DEF ContentsByPlace
      <4>2. ASSUME NEW i \in 1 .. nonceCount - 1
            PROVE  nonces'[Place(i)'] = Contents[i + 1]
        <5>1. Place(i)' = Place(i + 1) /\ Place(i + 1) # nonceHead
          BY <3>1, ClientAssumption DEF Place, IInv, TypeOK, Slot
        <5>2. i + 1 \in 1 .. nonceCount
          BY ClientAssumption DEF IInv, TypeOK
        <5>3. Place(i + 1) \in Slot /\ Contents[i + 1] = nonces[Place(i + 1)]
          BY <5>2, ContentsIs DEF IInv, ContentsByPlace
        <5> QED BY <3>1, <5>1, <5>3 DEF IInv, TypeOK
      <4> QED BY <3>1, <4>1, <4>2
    <3>3. Contents # <<>> /\ Tail(Contents) = [i \in 1 .. nonceCount - 1 |-> Contents[i + 1]]
      <4>1. Contents \in Seq(Nonce) /\ Len(Contents) = nonceCount /\ nonceCount \in Nat
        BY ContentsType, ClientAssumption DEF IInv, TypeOK
      <4>2. Contents # <<>>
        BY <2>2, <4>1
      <4>3. Tail(Contents) \in Seq(Nonce) /\ Len(Tail(Contents)) = nonceCount - 1
            /\ \A i \in 1 .. nonceCount - 1 : Tail(Contents)[i] = Contents[i + 1]
        BY <4>1, <4>2, HeadTailProperties
      <4> DEFINE t == Tail(Contents)
      <4> HIDE DEF t
      <4>4. t \in Seq(Nonce) /\ Len(t) = nonceCount - 1
            /\ \A i \in 1 .. nonceCount - 1 : t[i] = Contents[i + 1]
        BY <4>3 DEF t
      <4>5. t = [i \in 1 .. nonceCount - 1 |-> Contents[i + 1]]
        BY <4>4
      <4> QED BY <4>2, <4>5 DEF t
    <3> QED BY <3>2, <3>3 DEF Queue!Take
  <2>3. ASSUME NEW p \in Post, Answer(p), ~UNCHANGED ring PROVE Queue!Put
    <3> DEFINE n == post[p].reply
    <3>1. /\ n # NoNonce
          /\ nonceCount < noncePoolSize
          /\ nonces' = [nonces EXCEPT ![nonceTail] = n]
          /\ nonceCount' = nonceCount + 1
          /\ nonceHead' = nonceHead
      BY <2>3 DEF Answer, SaveNonce
    <3>2. n \in Nonce
      BY <3>1 DEF IInv, TypeOK, PostType
    <3>3. Contents' = [i \in 1 .. nonceCount + 1 |-> IF i = nonceCount + 1 THEN n ELSE Contents[i]]
      <4>1. Contents' = [i \in 1 .. nonceCount' |-> nonces'[Place(i)']]
        BY <2>0 DEF ContentsByPlace
      <4>2. ASSUME NEW i \in 1 .. nonceCount + 1
            PROVE  nonces'[Place(i)'] = IF i = nonceCount + 1 THEN n ELSE Contents[i]
        <5>1. Place(i)' = Place(i)
          BY <3>1 DEF Place
        <5>2. CASE i = nonceCount + 1
          <6>1. Place(i) = nonceTail
            BY <5>2, ClientAssumption DEF Place, IInv, RingInv, TypeOK, Slot
          <6> QED BY <3>1, <5>1, <5>2, <6>1 DEF IInv, TypeOK
        <5>3. CASE i # nonceCount + 1
          <6>1. i \in 1 .. nonceCount
            BY <5>3, ClientAssumption DEF IInv, TypeOK
          <6>2. Place(i) \in Slot /\ Contents[i] = nonces[Place(i)]
            BY <6>1, ContentsIs DEF IInv, ContentsByPlace
          <6>3. Place(i) # nonceTail
            BY <3>1, <6>1, ClientAssumption DEF Place, IInv, RingInv, TypeOK, Slot
          <6> QED BY <3>1, <5>1, <5>3, <6>2, <6>3 DEF IInv, TypeOK
        <5> QED BY <5>2, <5>3
      <4> QED BY <3>1, <4>1, <4>2
    <3>4. Len(Contents) < noncePoolSize /\ Contents' = Append(Contents, n)
      BY <3>1, <3>2, <3>3, ContentsType
    <3> QED BY <3>2, <3>4 DEF Queue!Put
  <2>4. \/ UNCHANGED ring
        \/ \E p \in Post : GetNonce(p) /\ nonceCount > 0
        \/ \E p \in Post : Answer(p) /\ ~UNCHANGED ring
    BY DEF Next, Step, vars, GetNonce, Directory, HeadNonce, Start, Send, Expire
  <2> QED BY <2>1, <2>2, <2>3, <2>4
<1> QED BY <1>1, <1>2, Invariance, PTL DEF Spec, RingIsQueue, Queue!Spec

=============================================================================
