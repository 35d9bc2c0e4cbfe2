------------------------- MODULE ChallengeProcProofs -------------------------
(***************************************************************************)
(* Proofs about ChallengeProc for any sets of challenges, requests and     *)
(* workers and any timeouts that satisfy TimeAssumption.                   *)
(***************************************************************************)
EXTENDS ChallengeProc, TLAPS

\* A handler between time.Now and LoadOrStore read the clock at most Stall ago.
HandlerInv ==
    \A r \in Req :
        /\ req[r].pc # "idle" => req[r].chal \in Chal
        /\ req[r].pc \in {"sweep", "delete"} =>
              req[r].at <= now /\ now <= req[r].at + Stall

\* A sweep about to delete has found a record whose goroutine failed, and whose
\* challenge is therefore not young.
VictimInv ==
    \A r \in Req : req[r].pc = "delete" =>
        /\ req[r].victim \in Worker
        /\ worker[req[r].victim].pc = "failed"
        /\ worker[req[r].victim].chal \in Chal
        /\ now - worker[req[r].victim].createdAt > Retention

\* A running worker is within its deadline, and its deadline is at most
\* Stall + WorkerTimeout after its record's creation time.
WorkerInv ==
    \A w \in Worker : InFlight(w) =>
        /\ worker[w].chal \in Chal
        /\ now <= worker[w].due
        /\ worker[w].due <= worker[w].createdAt + Stall + WorkerTimeout

\* A stored record is under its own challenge's key and belongs to a running or a
\* failed worker.
MapInv ==
    \A c \in Chal : challengeProc[c] # NoWorker =>
        /\ worker[challengeProc[c]].chal = c
        /\ InFlight(challengeProc[c]) \/ worker[challengeProc[c]].pc = "failed"

IInv ==
    /\ TypeOK
    /\ HandlerInv
    /\ VictimInv
    /\ WorkerInv
    /\ MapInv
    /\ SingleFlight

-----------------------------------------------------------------------------

\* What a request, a worker and a watcher are reset to is well typed.
LEMMA IdleTypes == IdleReq \in ReqType /\ IdleWorker \in WorkerType /\ NoWatch \in WatchType
  BY DEF IdleReq, IdleWorker, NoWatch, ReqType, WorkerType, WatchType, ReqPC, WorkerPC

\* The empty map satisfies the inductive invariant.
LEMMA InitIInv == Init => IInv
<1> SUFFICES ASSUME Init PROVE IInv
  OBVIOUS
<1>1. TypeOK
  BY IdleTypes DEF Init, TypeOK, UpstreamStatus
<1>2. HandlerInv /\ VictimInv /\ WorkerInv /\ MapInv /\ SingleFlight
  BY DEF Init, HandlerInv, VictimInv, WorkerInv, MapInv, SingleFlight,
         IdleReq, IdleWorker, InFlight
<1> QED
  BY <1>1, <1>2 DEF IInv

\* Every action preserves the types.
LEMMA TypeStep == IInv /\ [Next]_vars => TypeOK'
<1> SUFFICES ASSUME TypeOK, HandlerInv, WorkerInv, [Next]_vars PROVE TypeOK'
  BY DEF IInv
<1>a. /\ Retention \in Nat /\ WorkerTimeout \in Nat /\ WatchTimeout \in Nat
      /\ TriggerBound \in Nat /\ Stall \in Nat
  BY TimeAssumption
<1> USE IdleTypes, <1>a DEF TypeOK
<1>1. ASSUME NEW r \in Req, NEW c \in Chal, FetchChallenge(r, c) PROVE TypeOK'
  <2>1. [IdleReq EXCEPT !.pc = "load", !.chal = c] \in ReqType
    BY DEF IdleReq, ReqType, ReqPC
  <2> QED
    BY <1>1, <2>1 DEF FetchChallenge, Respond
<1>2. ASSUME NEW r \in Req, LoadProgress(r) PROVE TypeOK'
  <2>1. req' \in [Req -> ReqType]
    BY <1>2 DEF LoadProgress, Respond, ReqType, ReqPC
  <2> QED
    BY <1>2, <2>1 DEF LoadProgress
<1>3. ASSUME NEW r \in Req, NEW c \in Chal, EvictVisit(r, c) PROVE TypeOK'
  <2>1. req' \in [Req -> ReqType]
    BY <1>3 DEF EvictVisit, Stale, ReqType, ReqPC
  <2> QED
    BY <1>3, <2>1 DEF EvictVisit
<1>4. ASSUME NEW r \in Req, EvictDelete(r) PROVE TypeOK'
  <2>1. req' \in [Req -> ReqType]
    BY <1>4 DEF EvictDelete, ReqType, ReqPC
  <2> QED
    BY <1>4, <2>1 DEF EvictDelete
<1>5. ASSUME NEW r \in Req, BeginChallengeProc(r) PROVE TypeOK'
  <2>1. worker' \in [Worker -> WorkerType]
    BY <1>5 DEF BeginChallengeProc, WorkerType, WorkerPC, ReqType
  <2> QED
    BY <1>5, <2>1 DEF BeginChallengeProc, Respond
<1>6. ASSUME NEW w \in Worker, WorkerStep(w) PROVE TypeOK'
  <2>1. worker' \in [Worker -> WorkerType]
    <3>1. CASE Prepare(w)
      BY <3>1 DEF Prepare, Goto, Fail, SmallerOf, WorkerType, WorkerPC
    <3>2. CASE Deploy(w)
      BY <3>2 DEF Deploy, Goto, Fail, WorkerType, WorkerPC
    <3>3. CASE Propagate(w)
      BY <3>3 DEF Propagate, Goto, Fail, SmallerOf, WorkerType, WorkerPC
    <3>4. CASE TriggerChallenge(w)
      <4>1. Goto(w, "unregister") \/ Fail(w)
        BY <3>4, Zenon DEF TriggerChallenge
      <4> QED
        BY <4>1 DEF Goto, Fail, WorkerType, WorkerPC
    <3>5. CASE Unregister(w)
      BY <3>5 DEF Unregister, IdleWorker, WorkerType, WorkerPC
    <3> QED
      BY <1>6, <3>1, <3>2, <3>3, <3>4, <3>5 DEF WorkerStep
  <2>2. CASE Prepare(w)
    BY <2>1, <2>2 DEF Prepare
  <2>3. CASE Deploy(w)
    <3>1. Target(w) \in UpChal
      BY <2>3, ChalAssumption DEF Deploy, WorkerInv, InFlight, Target
    <3> QED
      BY <2>1, <2>3, <3>1 DEF Deploy
  <2>4. CASE Propagate(w)
    <3>1. [pc |-> "watching", until |-> now + WatchTimeout] \in WatchType
      BY DEF WatchType
    <3> QED
      BY <2>1, <2>4, <3>1 DEF Propagate
  <2>5. CASE TriggerChallenge(w)
    BY <2>1, <2>5 DEF TriggerChallenge, UpstreamStatus
  <2>6. CASE Unregister(w)
    BY <2>1, <2>6 DEF Unregister
  <2> QED
    BY <1>6, <2>2, <2>3, <2>4, <2>5, <2>6 DEF WorkerStep
<1>7. ASSUME NEW w \in Worker, Cleanup(w) PROVE TypeOK'
  <2>1. [pc |-> "stopped", until |-> 0] \in WatchType
    BY DEF WatchType
  <2> QED
    BY <1>7, <2>1 DEF Cleanup
<1>8. ASSUME NEW u \in UpChal, Validate(u) PROVE TypeOK'
  BY <1>8 DEF Validate, UpstreamStatus
<1>9. CASE Tick
  BY <1>9 DEF Tick
<1>10. CASE Restart
  <2>1. worker' \in [Worker -> WorkerType]
    BY <1>10 DEF Restart, IdleWorker, WorkerType, WorkerPC
  <2>2. watch' \in [Worker -> WatchType]
    BY <1>10 DEF Restart
  <2>3. req' \in [Req -> ReqType]
    BY <1>10 DEF Restart
  <2>4. challengeProc' \in [Chal -> Worker \union {NoWorker}]
    BY <1>10 DEF Restart
  <2>5. /\ crashes' = crashes + 1
        /\ now' = now /\ upstream' = upstream /\ dns' = dns
    BY <1>10, Zenon DEF Restart
  <2> QED
    BY <2>1, <2>2, <2>3, <2>4, <2>5
<1>11. CASE UNCHANGED vars
  BY <1>11 DEF vars
<1> QED
  BY <1>1, <1>2, <1>3, <1>4, <1>5, <1>6, <1>7, <1>8, <1>9, <1>10, <1>11
     DEF Next, HandlerStep

-----------------------------------------------------------------------------
\* What a step of worker w does to the records, short of Delete(chalID): it
\* touches its own record only, and leaves it running within its old deadline or
\* failed, with the same key and creation time.
LEMMA WorkerFrame ==
    ASSUME TypeOK, WorkerInv, NEW w \in Worker, WorkerStep(w), ~Unregister(w)
    PROVE  /\ InFlight(w)
           /\ UNCHANGED <<now, crashes, challengeProc, req>>
           /\ \A v \in Worker : v # w => worker'[v] = worker[v]
           /\ worker'[w].chal = worker[w].chal
           /\ worker'[w].createdAt = worker[w].createdAt
           /\ \/ worker'[w].pc = "failed"
              \/ InFlight(w)' /\ worker'[w].due <= worker[w].due /\ now <= worker'[w].due
<1> USE DEF TypeOK, WorkerType, InFlight
<1>1. TriggerBound \in Nat
  BY TimeAssumption
<1>2. CASE Prepare(w)
  BY <1>1, <1>2 DEF Prepare, Goto, Fail, SmallerOf, WorkerInv
<1>3. CASE Deploy(w)
  BY <1>3 DEF Deploy, Goto, Fail, WorkerInv
<1>4. CASE Propagate(w)
  BY <1>1, <1>4 DEF Propagate, Goto, Fail, SmallerOf, WorkerInv
<1>5. CASE TriggerChallenge(w)
  BY <1>5 DEF TriggerChallenge, Goto, Fail, WorkerInv
<1> QED
  BY <1>2, <1>3, <1>4, <1>5 DEF WorkerStep

\* A worker's step keeps the inductive invariant.
LEMMA WorkerStepIInv == ASSUME IInv, NEW w \in Worker, WorkerStep(w) PROVE IInv'
<1> USE DEF IInv
<1>1. TypeOK'
  <2>1. Next
    BY DEF Next
  <2> QED
    BY <2>1, TypeStep
<1>2. CASE ~Unregister(w)
  <2>2. HandlerInv'
    BY <1>2, WorkerFrame DEF HandlerInv
  <2>3. VictimInv'
    BY <1>2, WorkerFrame DEF VictimInv, InFlight
  <2>4. WorkerInv'
    <3> SUFFICES ASSUME NEW v \in Worker, InFlight(v)'
                 PROVE  /\ worker'[v].chal \in Chal
                        /\ now' <= worker'[v].due
                        /\ worker'[v].due <= worker'[v].createdAt + Stall + WorkerTimeout
      BY DEF WorkerInv
    <3>1. CASE v # w
      BY <1>2, <3>1, WorkerFrame DEF WorkerInv, InFlight
    <3>2. CASE v = w
      <4>1. /\ worker[w].due \in Nat /\ worker'[w].due \in Nat
            /\ worker[w].createdAt \in Nat /\ Stall \in Nat /\ WorkerTimeout \in Nat
        BY <1>1, TimeAssumption DEF TypeOK, WorkerType
      <4>2. worker'[w].due <= worker[w].due /\ now <= worker'[w].due
        BY <1>2, <3>2, WorkerFrame DEF InFlight
      <4> QED
        BY <1>2, <3>2, <4>1, <4>2, WorkerFrame DEF WorkerInv
    <3> QED
      BY <3>1, <3>2
  <2>5. MapInv'
    BY <1>2, WorkerFrame, ChalAssumption DEF MapInv, InFlight, TypeOK
  <2>6. SingleFlight'
    BY <1>2, WorkerFrame DEF SingleFlight, Young, InFlight
  <2> QED
    BY <1>1, <2>2, <2>3, <2>4, <2>5, <2>6
<1>3. CASE Unregister(w)
  <2>1. /\ InFlight(w) /\ ~InFlight(w)'
        /\ UNCHANGED <<now, req>>
        /\ \A v \in Worker : v # w => worker'[v] = worker[v]
        /\ worker'[w].pc = "done"
        /\ challengeProc' = [challengeProc EXCEPT ![worker[w].chal] = NoWorker]
        /\ worker[w].chal \in Chal
    BY <1>3 DEF Unregister, InFlight, IdleWorker, TypeOK, WorkerType, WorkerInv
  <2>2. HandlerInv'
    BY <2>1 DEF HandlerInv
  <2>3. VictimInv'
    BY <2>1 DEF VictimInv, InFlight
  <2>4. WorkerInv'
    BY <2>1 DEF WorkerInv, InFlight
  \* Only w itself can be stored under another key than its own, and is not.
  <2>5. MapInv'
    <3> SUFFICES ASSUME NEW c \in Chal, challengeProc'[c] # NoWorker
                 PROVE  /\ worker'[challengeProc'[c]].chal = c
                        /\ InFlight(challengeProc[c])' \/ worker'[challengeProc'[c]].pc = "failed"
      BY DEF MapInv
    <3>1. c # worker[w].chal /\ challengeProc'[c] = challengeProc[c]
      BY <2>1 DEF TypeOK
    <3>2. challengeProc[c] \in Worker /\ challengeProc[c] # w
      BY <3>1 DEF TypeOK, MapInv
    <3> QED
      BY <2>1, <3>1, <3>2 DEF MapInv, InFlight
  <2>6. SingleFlight'
    BY <2>1 DEF SingleFlight, Young, InFlight, WorkerInv, TypeOK
  <2> QED
    BY <1>1, <2>2, <2>3, <2>4, <2>5, <2>6
<1> QED
  BY <1>2, <1>3

-----------------------------------------------------------------------------
\* A handler's steps: no worker other than a new one changes.

\* Fetching the live challenge touches no record.
LEMMA FetchIInv == ASSUME IInv, NEW r \in Req, NEW c \in Chal, FetchChallenge(r, c)
                   PROVE  IInv'
<1> USE DEF IInv
<1>1. TypeOK'
  BY TypeStep DEF Next
<1>2. /\ UNCHANGED <<now, challengeProc, worker>>
      /\ \A q \in Req : q # r => req'[q] = req[q]
      /\ \/ req'[r].pc = "load" /\ req'[r].chal = c
         \/ req'[r].pc = "idle"
  <2>1. CASE req' = [req EXCEPT ![r] = [IdleReq EXCEPT !.pc = "load", !.chal = c]]
    BY <2>1 DEF FetchChallenge, IdleReq, TypeOK
  <2>2. CASE req' = [req EXCEPT ![r] = IdleReq]
    BY <2>2 DEF FetchChallenge, IdleReq, TypeOK
  <2> QED
    BY <2>1, <2>2, Zenon DEF FetchChallenge, Respond
<1>3. HandlerInv' /\ VictimInv'
  BY <1>2 DEF HandlerInv, VictimInv, InFlight
<1>4. WorkerInv' /\ MapInv' /\ SingleFlight'
  BY <1>2 DEF WorkerInv, MapInv, SingleFlight, Young, InFlight
<1> QED
  BY <1>1, <1>2, <1>3, <1>4

\* Loading the record reads the clock.
LEMMA LoadIInv == ASSUME IInv, NEW r \in Req, LoadProgress(r) PROVE IInv'
<1> USE DEF IInv
<1>1. TypeOK'
  BY TypeStep DEF Next, HandlerStep
<1>2. /\ UNCHANGED <<now, challengeProc, worker>>
      /\ \A q \in Req : q # r => req'[q] = req[q]
      /\ \/ req'[r].pc = "sweep" /\ req'[r].at = now /\ req'[r].chal = req[r].chal
         \/ req'[r].pc = "idle"
      /\ req[r].pc = "load"
  BY DEF LoadProgress, Respond, IdleReq, TypeOK, ReqType
<1>3. Stall \in Nat /\ now \in Nat
  BY TimeAssumption DEF TypeOK
<1>4. HandlerInv'
  BY <1>2, <1>3 DEF HandlerInv
<1>5. VictimInv'
  BY <1>2 DEF VictimInv, InFlight
<1>6. WorkerInv' /\ MapInv' /\ SingleFlight'
  BY <1>2 DEF WorkerInv, MapInv, SingleFlight, Young, InFlight
<1> QED
  BY <1>1, <1>2, <1>4, <1>5, <1>6

\* The heart of the argument: a record that looks stale to a sweep is not in
\* flight, because Stall + WorkerTimeout <= Retention.
LEMMA StaleNotInFlight ==
    ASSUME IInv, NEW r \in Req, NEW c \in Chal, req[r].pc = "sweep", Stale(r, c)
    PROVE  /\ worker[challengeProc[c]].pc = "failed"
           /\ now - worker[challengeProc[c]].createdAt > Retention
<1> DEFINE w == challengeProc[c]
<1>1. w \in Worker
  BY DEF IInv, TypeOK, Stale
<1>2. /\ now \in Nat /\ req[r].at \in Nat
      /\ worker[w].createdAt \in Nat /\ worker[w].due \in Nat
      /\ Retention \in Nat /\ Stall \in Nat /\ WorkerTimeout \in Nat
  BY <1>1, TimeAssumption DEF IInv, TypeOK, ReqType, WorkerType
<1>3. req[r].at <= now /\ req[r].at - worker[w].createdAt > Retention
  BY DEF IInv, HandlerInv, Stale
<1>4. ~InFlight(w)
  <2>1. InFlight(w) => /\ now <= worker[w].due
                       /\ worker[w].due <= worker[w].createdAt + Stall + WorkerTimeout
    BY <1>1 DEF IInv, WorkerInv
  <2> QED
    BY <1>2, <1>3, <2>1, TimeAssumption
<1>5. InFlight(w) \/ worker[w].pc = "failed"
  BY DEF IInv, MapInv, Stale
<1>6. now - worker[w].createdAt > Retention
  BY <1>2, <1>3
<1> QED
  BY <1>4, <1>5, <1>6

\* A visited record becomes a victim only when it is stale.
LEMMA VisitIInv == ASSUME IInv, NEW r \in Req, NEW c \in Chal, EvictVisit(r, c)
                   PROVE  IInv'
<1> USE DEF IInv
<1>1. TypeOK'
  BY TypeStep DEF Next, HandlerStep
<1>2. /\ UNCHANGED <<now, challengeProc, worker>>
      /\ \A q \in Req : q # r => req'[q] = req[q]
      /\ req[r].pc = "sweep" /\ Stale(r, c)
      /\ req'[r].at = req[r].at /\ req'[r].chal = req[r].chal
      /\ req'[r].pc = "delete" /\ req'[r].victim = challengeProc[c]
  BY DEF EvictVisit, TypeOK, ReqType
<1>3. HandlerInv'
  BY <1>2 DEF HandlerInv
<1>4. VictimInv'
  <2>1. challengeProc[c] \in Worker /\ worker[challengeProc[c]].chal = c
    BY <1>2 DEF TypeOK, MapInv, Stale
  <2> QED
    BY <1>2, <2>1, StaleNotInFlight DEF VictimInv
<1>5. WorkerInv' /\ MapInv' /\ SingleFlight'
  BY <1>2 DEF WorkerInv, MapInv, SingleFlight, Young, InFlight
<1> QED
  BY <1>1, <1>2, <1>3, <1>4, <1>5

\* Deleting by key removes a record that single flight no longer protects.
LEMMA DeleteIInv == ASSUME IInv, NEW r \in Req, EvictDelete(r) PROVE IInv'
<1> USE DEF IInv
<1>1. TypeOK'
  BY TypeStep DEF Next, HandlerStep
<1>2. /\ UNCHANGED <<now, worker>>
      /\ \A q \in Req : q # r => req'[q] = req[q]
      /\ req[r].pc = "delete" /\ req'[r].pc = "sweep"
      /\ req'[r].at = req[r].at /\ req'[r].chal = req[r].chal
      /\ challengeProc' = [challengeProc EXCEPT ![worker[req[r].victim].chal] = NoWorker]
  BY DEF EvictDelete, TypeOK, ReqType
<1>3. HandlerInv' /\ VictimInv' /\ WorkerInv'
  BY <1>2 DEF HandlerInv, VictimInv, WorkerInv, InFlight
<1>4. MapInv'
  BY <1>2 DEF MapInv, InFlight, TypeOK
<1>5. SingleFlight'
  <2>1. /\ req[r].victim \in Worker /\ ~Young(worker[req[r].victim].chal)
        /\ worker[req[r].victim].chal \in Chal
    <3>1. now \in Nat /\ Retention \in Nat /\ worker[req[r].victim].createdAt \in Nat
      BY <1>2, TimeAssumption DEF VictimInv, TypeOK, WorkerType
    <3> QED
      BY <1>2, <3>1 DEF VictimInv, Young
  <2> QED
    BY <1>2, <2>1 DEF SingleFlight, Young, InFlight, TypeOK
<1> QED
  BY <1>1, <1>2, <1>3, <1>4, <1>5

\* A stored record comes with its running worker, and replaces none.
LEMMA BeginIInv == ASSUME IInv, NEW r \in Req, BeginChallengeProc(r) PROVE IInv'
<1> USE DEF IInv
<1>1. TypeOK'
  BY TypeStep DEF Next, HandlerStep
<1>2. /\ UNCHANGED now
      /\ \A q \in Req : q # r => req'[q] = req[q]
      /\ req[r].pc = "sweep" /\ req'[r].pc = "idle"
      /\ req[r].chal \in Chal
  BY DEF BeginChallengeProc, Respond, IdleReq, TypeOK, HandlerInv
<1>3. HandlerInv'
  BY <1>2 DEF HandlerInv
<1>4. CASE UNCHANGED <<challengeProc, worker>>
  <2>1. VictimInv' /\ WorkerInv' /\ MapInv' /\ SingleFlight'
    BY <1>2, <1>4 DEF VictimInv, WorkerInv, MapInv, SingleFlight, Young, InFlight
  <2> QED
    BY <1>1, <1>2, <1>3, <2>1
<1>5. CASE ~UNCHANGED <<challengeProc, worker>>
  <2> DEFINE c == req[r].chal
  <2>1. PICK w \in Worker :
           /\ worker[w].pc = "idle"
           /\ challengeProc' = [challengeProc EXCEPT ![c] = w]
           /\ worker' = [worker EXCEPT ![w] =
                           [pc |-> "prepare", chal |-> c, createdAt |-> req[r].at,
                            due |-> now + WorkerTimeout]]
    BY <1>5 DEF BeginChallengeProc
  <2>2. challengeProc[c] = NoWorker
    BY <1>5 DEF BeginChallengeProc
  <2>3. /\ \A v \in Worker : v # w => worker'[v] = worker[v]
        /\ worker'[w] = [pc |-> "prepare", chal |-> c, createdAt |-> req[r].at,
                         due |-> now + WorkerTimeout]
        /\ \A d \in Chal : d # c => challengeProc'[d] = challengeProc[d]
        /\ challengeProc'[c] = w
    BY <1>2, <2>1 DEF TypeOK
  <2>4. /\ now <= req[r].at + Stall
        /\ now \in Nat /\ req[r].at \in Nat /\ Stall \in Nat /\ WorkerTimeout \in Nat
    BY <1>2, TimeAssumption DEF HandlerInv, TypeOK, ReqType
  <2>5. VictimInv'
    BY <1>2, <2>1, <2>3 DEF VictimInv
  <2>6. WorkerInv'
    <3>1. now + WorkerTimeout <= req[r].at + Stall + WorkerTimeout
      BY <2>4
    <3> QED
      BY <1>2, <2>3, <2>4, <3>1 DEF WorkerInv, InFlight
  <2>7. MapInv'
    <3> SUFFICES ASSUME NEW d \in Chal, challengeProc'[d] # NoWorker
                 PROVE  /\ worker'[challengeProc'[d]].chal = d
                        /\ InFlight(challengeProc[d])' \/ worker'[challengeProc'[d]].pc = "failed"
      BY DEF MapInv
    <3>1. CASE d = c
      BY <1>2, <2>3, <2>4, <3>1 DEF InFlight
    <3>2. CASE d # c
      <4>1. challengeProc[d] \in Worker /\ challengeProc[d] # w
        BY <2>1, <2>3, <3>2 DEF TypeOK, MapInv, InFlight
      <4> QED
        BY <1>2, <2>3, <3>2, <4>1 DEF MapInv, InFlight
    <3> QED
      BY <3>1, <3>2
  \* No running worker has the key c, or it would be registered there.
  <2>8. SingleFlight'
    BY <1>2, <2>1, <2>2, <2>3, ChalAssumption
       DEF SingleFlight, Young, InFlight, WorkerInv
  <2> QED
    BY <1>1, <1>2, <1>3, <2>5, <2>6, <2>7, <2>8
<1> QED
  BY <1>4, <1>5

-----------------------------------------------------------------------------

\* Time passes no bounded step.
LEMMA TickIInv == ASSUME IInv, Tick PROVE IInv'
<1> USE DEF IInv
<1>1. TypeOK'
  BY TypeStep DEF Next
<1>2. /\ now' = now + 1 /\ UNCHANGED <<challengeProc, req, worker>>
      /\ now \in Nat
  BY DEF Tick, TypeOK
<1>3. \A w \in Worker : worker[w].createdAt \in Nat
  BY DEF TypeOK, WorkerType
<1>0. Retention \in Nat
  BY TimeAssumption
<1>4. HandlerInv'
  <2> SUFFICES ASSUME NEW r \in Req, req[r].pc \in {"sweep", "delete"}
               PROVE  req[r].at <= now + 1 /\ now + 1 <= req[r].at + Stall
    BY <1>2 DEF HandlerInv
  <2>1. req[r].at \in Nat /\ Stall \in Nat
    BY TimeAssumption DEF TypeOK, ReqType
  <2>2. req[r].at <= now /\ now < req[r].at + Stall
    BY DEF Tick, HandlerInv
  <2> QED
    BY <1>2, <2>1, <2>2
<1>5. VictimInv'
  BY <1>2, <1>3, <1>0 DEF VictimInv
<1>6. WorkerInv'
  <2> SUFFICES ASSUME NEW w \in Worker, InFlight(w)
               PROVE  now + 1 <= worker[w].due
    BY <1>2 DEF WorkerInv, InFlight
  <2>1. worker[w].due \in Nat /\ now < worker[w].due
    BY DEF Tick, TypeOK, WorkerType
  <2> QED
    BY <1>2, <2>1
<1>7. MapInv' /\ SingleFlight'
  <2>1. \A c \in Chal : Young(c)' => Young(c)
    BY <1>0, <1>2, <1>3 DEF Young
  <2> QED
    BY <1>2, <2>1 DEF MapInv, SingleFlight, InFlight, WorkerInv
<1> QED
  BY <1>1, <1>4, <1>5, <1>6, <1>7

\* A restart leaves no record, no request and no running worker.
LEMMA RestartIInv == ASSUME IInv, Restart PROVE IInv'
<1> USE DEF IInv
<1>1. TypeOK'
  BY TypeStep DEF Next
<1>3. \A r \in Req : req'[r].pc = "idle"
  BY DEF Restart, IdleReq
<1>4. \A w \in Worker : ~InFlight(w)'
  BY DEF Restart, InFlight, IdleWorker
<1>5. \A c \in Chal : challengeProc'[c] = NoWorker
  BY DEF Restart
<1>6. HandlerInv' /\ VictimInv' /\ WorkerInv' /\ MapInv' /\ SingleFlight'
  BY <1>3, <1>4, <1>5 DEF HandlerInv, VictimInv, WorkerInv, MapInv, SingleFlight
<1> QED
  BY <1>1, <1>6

\* Watchers and the CA leave every record alone.
LEMMA FrameIInv ==
    ASSUME IInv, [Next]_vars, UNCHANGED <<now, challengeProc, req, worker>>
    PROVE  IInv'
<1>1. TypeOK'
  BY TypeStep
<1> QED
  BY <1>1 DEF IInv, HandlerInv, VictimInv, WorkerInv, MapInv, SingleFlight, Young, InFlight

\* Every step keeps the inductive invariant.
LEMMA NextIInv == IInv /\ [Next]_vars => IInv'
<1> SUFFICES ASSUME IInv, [Next]_vars PROVE IInv'
  OBVIOUS
<1>1. ASSUME NEW w \in Worker, Cleanup(w) PROVE IInv'
  BY <1>1, FrameIInv DEF Cleanup
<1>2. ASSUME NEW u \in UpChal, Validate(u) PROVE IInv'
  BY <1>2, FrameIInv DEF Validate
<1>3. CASE UNCHANGED vars
  BY <1>3, FrameIInv DEF vars
<1> QED
  BY <1>1, <1>2, <1>3, FetchIInv, LoadIInv, VisitIInv, DeleteIInv, BeginIInv,
     WorkerStepIInv, TickIInv, RestartIInv
     DEF Next, HandlerStep

-----------------------------------------------------------------------------

\* The inductive invariant holds in every reachable state.
THEOREM Invariance == Spec => []IInv
  BY InitIInv, NextIInv, PTL DEF Spec

\* Every variable keeps its type.
THEOREM TypeCorrect == Spec => []TypeOK
<1>1. IInv => TypeOK
  BY DEF IInv
<1> QED
  BY <1>1, Invariance, PTL

\* evictStaleChallengeProc never picks a record whose goroutine still runs, for
\* any retention of at least Stall + WorkerTimeout.
THEOREM SweepSafe == Spec => []SweepSparesInFlight
<1>1. IInv => SweepSparesInFlight
  BY DEF IInv, VictimInv, SweepSparesInFlight, InFlight
<1> QED
  BY <1>1, Invariance, PTL

\* A running worker is the registered one, whatever the number of concurrent and
\* retried POSTs and of sweeps, unless an old failed record of its own challenge was
\* there to be swept.
THEOREM SingleFlightHolds == Spec => []SingleFlight
<1>1. IInv => SingleFlight
  BY DEF IInv
<1> QED
  BY <1>1, Invariance, PTL

\* A "processing" record always has its goroutine behind it.
THEOREM ProcessingBacked == Spec => []ProcessingHasWorker
<1>1. IInv => ProcessingHasWorker
  BY DEF IInv, MapInv, ProcessingHasWorker, Failed
<1> QED
  BY <1>1, Invariance, PTL

\* Only a restart takes a recorded failure off the authorization poll while no failure
\* of that challenge is older than the retention: sweeps delete other challenges'
\* records meanwhile, and other workers unregister.
THEOREM FailureSticksHolds == Spec => FailureSticks
<1>1. ASSUME IInv, [Next]_vars, NEW c \in Chal, Failed(c), Young(c)
      PROVE  Failed(c)' \/ crashes' # crashes
  <2> DEFINE v == challengeProc[c]
  <2>1. v \in Worker /\ worker[v].pc = "failed" /\ ~InFlight(v)
    BY <1>1 DEF Failed, IInv, TypeOK, InFlight
  <2>2. CASE UNCHANGED <<challengeProc, worker>>
    BY <1>1, <2>2 DEF Failed
  \* The victim's challenge is another one.
  <2>3. ASSUME NEW r \in Req, EvictDelete(r) PROVE Failed(c)'
    <3>1. now \in Nat /\ Retention \in Nat
      BY <1>1, TimeAssumption DEF IInv, TypeOK
    <3>2. /\ req[r].victim \in Worker /\ worker[req[r].victim].pc = "failed"
          /\ now - worker[req[r].victim].createdAt > Retention
          /\ worker[req[r].victim].createdAt \in Nat
      BY <1>1, <2>3 DEF EvictDelete, IInv, VictimInv, TypeOK, WorkerType
    <3>3. worker[req[r].victim].chal # c
      BY <1>1, <3>1, <3>2 DEF Young
    <3> QED
      BY <1>1, <2>1, <2>3, <3>3 DEF EvictDelete, Failed, IInv, TypeOK
  <2>4. ASSUME NEW r \in Req, BeginChallengeProc(r) PROVE Failed(c)'
    <3>1. CASE UNCHANGED <<challengeProc, worker>>
      BY <2>2, <3>1, <2>4, <1>1 DEF Failed
    <3>2. CASE ~UNCHANGED <<challengeProc, worker>>
      <4>1. PICK w \in Worker :
               /\ worker[w].pc = "idle"
               /\ challengeProc[req[r].chal] = NoWorker
               /\ challengeProc' = [challengeProc EXCEPT ![req[r].chal] = w]
               /\ worker' = [worker EXCEPT ![w] =
                               [pc |-> "prepare", chal |-> req[r].chal,
                                createdAt |-> req[r].at, due |-> now + WorkerTimeout]]
        BY <2>4, <3>2 DEF BeginChallengeProc
      <4>2. c # req[r].chal /\ v # w
        BY <1>1, <2>1, <4>1 DEF Failed
      <4> QED
        BY <1>1, <2>1, <4>1, <4>2 DEF Failed, IInv, TypeOK
    <3> QED
      BY <3>1, <3>2
  <2>5. ASSUME NEW w \in Worker, WorkerStep(w) PROVE Failed(c)'
    <3>1. CASE ~Unregister(w)
      <4>1. /\ InFlight(w) /\ UNCHANGED challengeProc
            /\ \A u \in Worker : u # w => worker'[u] = worker[u]
        BY <1>1, <2>5, <3>1, WorkerFrame DEF IInv
      <4> QED
        BY <1>1, <2>1, <4>1 DEF Failed
    \* A worker unregisters its own record, and a failed one is not running.
    <3>2. CASE Unregister(w)
      <4>1. InFlight(w)
        BY <3>2 DEF Unregister, InFlight
      <4>2. w # v
        BY <2>1, <4>1
      <4>3. worker[w].chal # c
        BY <1>1, <4>1, <4>2 DEF IInv, SingleFlight
      <4> QED
        BY <1>1, <2>1, <3>2, <4>2, <4>3 DEF Unregister, Failed, IInv, TypeOK
    <3> QED
      BY <3>1, <3>2
  <2>6. CASE Restart
    <3>1. crashes \in Nat /\ crashes' = crashes + 1
      BY <1>1, <2>6 DEF Restart, IInv, TypeOK
    <3> QED
      BY <3>1
  <2> QED
    BY <1>1, <2>2, <2>3, <2>4, <2>5, <2>6
       DEF Next, HandlerStep, FetchChallenge, LoadProgress, EvictVisit, Cleanup,
           Validate, Tick, vars
<1>2. IInv /\ [Next]_vars =>
        [\A c \in Chal : Failed(c) /\ Young(c) => Failed(c)' \/ crashes' # crashes]_vars
  BY <1>1
<1> QED
  BY <1>2, Invariance, PTL DEF Spec, FailureSticks

-----------------------------------------------------------------------------
(* The published record and its cleanup watchers *)

\* A worker has no watcher before its record is published, and a watcher whose
\* worker still has to trigger outlasts the trigger; one that has stopped by then
\* saw the CA settle the challenge.  A triggered challenge is not pending.
WatchInv ==
    \A w \in Worker :
        /\ worker[w].pc # "idle" => worker[w].chal \in Chal
        /\ worker[w].pc \in {"idle", "prepare", "deploy", "propagate"} =>
              watch[w].pc = "off"
        /\ worker[w].pc \in {"unregister", "done"} => upstream[Target(w)] # "pending"
        /\ watch[w].pc = "watching" =>
              worker[w].pc \in {"trigger", "unregister", "done", "failed"}
        /\ watch[w].pc = "watching" /\ worker[w].pc = "trigger" =>
              worker[w].due < watch[w].until
        /\ watch[w].pc = "stopped" /\ worker[w].pc = "trigger" =>
              upstream[Target(w)] # "pending"

\* The worker that has published and waits, one that failed, or one that has left
\* the record to a watcher.
Custodian(w) == worker[w].pc \in {"propagate", "failed"} \/ watch[w].pc # "off"

Custody ==
    crashes = 0 => \A u \in Cleaned \intersect dns : \E w \in Worker :
        worker[w].chal \in Chal /\ Target(w) = u /\ Custodian(w)

RecordInv == WatchInv /\ RecordStaysUntilTrigger /\ Custody

\* A worker moves by its own step or when it is started; a watcher by its worker's
\* Propagate or its own Cleanup.  Nothing else touches them before a restart.
LEMMA Moves ==
    ASSUME IInv, [Next]_vars, ~Restart, NEW w \in Worker
    PROVE  /\ \/ worker'[w] = worker[w]
              \/ /\ worker[w].pc = "idle" /\ worker'[w].pc = "prepare"
                 /\ worker'[w].chal \in Chal
                 /\ UNCHANGED <<watch, upstream, dns>>
              \/ WorkerStep(w)
           /\ watch'[w] = watch[w] \/ Propagate(w) \/ Cleanup(w)
<1> USE DEF IInv, TypeOK
<1>1. ASSUME NEW r \in Req, BeginChallengeProc(r)
      PROVE  /\ UNCHANGED <<watch, upstream, dns>>
             /\ \/ worker'[w] = worker[w]
                \/ /\ worker[w].pc = "idle" /\ worker'[w].pc = "prepare"
                   /\ worker'[w].chal \in Chal
  <2>1. req[r].chal \in Chal
    BY <1>1 DEF BeginChallengeProc, HandlerInv
  <2> QED
    BY <1>1, <2>1 DEF BeginChallengeProc
<1>2. ASSUME NEW v \in Worker, v # w, WorkerStep(v)
      PROVE  worker'[w] = worker[w] /\ watch'[w] = watch[w]
  BY <1>2 DEF WorkerStep, Prepare, Deploy, Propagate, TriggerChallenge, Unregister,
              Goto, Fail
<1>3. WorkerStep(w) => watch'[w] = watch[w] \/ Propagate(w)
  BY DEF WorkerStep, Prepare, Deploy, TriggerChallenge, Unregister
<1>4. ASSUME NEW v \in Worker, Cleanup(v)
      PROVE  worker'[w] = worker[w] /\ (v # w => watch'[w] = watch[w])
  BY <1>4 DEF Cleanup
<1>5. ASSUME NEW r \in Req, NEW c \in Chal,
             FetchChallenge(r, c) \/ EvictVisit(r, c)
      PROVE  UNCHANGED <<worker, watch>>
  BY <1>5 DEF FetchChallenge, EvictVisit
<1>6. ASSUME NEW r \in Req, LoadProgress(r) \/ EvictDelete(r)
      PROVE  UNCHANGED <<worker, watch>>
  BY <1>6 DEF LoadProgress, EvictDelete
<1>7. ASSUME NEW u \in UpChal, Validate(u) PROVE UNCHANGED <<worker, watch>>
  BY <1>7 DEF Validate
<1>8. Tick \/ UNCHANGED vars => UNCHANGED <<worker, watch>>
  BY DEF Tick, vars
<1>9. CASE \E v \in Worker : WorkerStep(v) \/ Cleanup(v)
  <2>1. PICK v \in Worker : WorkerStep(v) \/ Cleanup(v)
    BY <1>9
  <2>2. CASE WorkerStep(v)
    BY <2>2, <1>2, <1>3
  <2>3. CASE Cleanup(v)
    BY <2>3, <1>4
  <2> QED
    BY <2>1, <2>2, <2>3
<1>10. CASE \E r \in Req : HandlerStep(r) \/ \E c \in Chal : FetchChallenge(r, c)
  BY <1>10, <1>1, <1>5, <1>6 DEF HandlerStep
<1> QED
  BY <1>7, <1>8, <1>9, <1>10 DEF Next

\* The CA's status of a challenge never returns to "pending".
LEMMA UpstreamMoves ==
    ASSUME IInv, [Next]_vars, NEW u \in UpChal, upstream'[u] = "pending"
    PROVE  upstream[u] = "pending"
<1> USE DEF IInv, TypeOK
<1>1. ASSUME NEW w \in Worker, TriggerChallenge(w)
      PROVE  \/ UNCHANGED upstream
             \/ upstream' = [upstream EXCEPT ![Target(w)] =
                               IF @ = "pending" THEN "processing" ELSE @]
  BY <1>1 DEF TriggerChallenge
<1>2. ASSUME NEW d \in UpChal, Validate(d)
      PROVE  \E s \in {"valid", "invalid"} : upstream' = [upstream EXCEPT ![d] = s]
  BY <1>2 DEF Validate
<1>3. \/ UNCHANGED upstream
      \/ \E w \in Worker : TriggerChallenge(w)
      \/ \E d \in UpChal : Validate(d)
  BY DEF Next, HandlerStep, WorkerStep, FetchChallenge, LoadProgress, EvictVisit,
         EvictDelete, BeginChallengeProc, Prepare, Deploy, Propagate, Unregister,
         Cleanup, Tick, Restart, vars
<1> QED
  BY <1>1, <1>2, <1>3

\* What is published is unpublished by a cleanup watcher only.
LEMMA DNSMoves ==
    ASSUME IInv, [Next]_vars, NEW u \in dns, u \notin dns'
    PROVE  \E v \in Worker : Cleanup(v) /\ Target(v) = u
<1>1. ASSUME NEW v \in Worker, Deploy(v) PROVE u \in dns'
  BY <1>1 DEF Deploy
<1>2. ASSUME NEW v \in Worker, Cleanup(v) PROVE Target(v) = u
  BY <1>2 DEF Cleanup
<1> QED
  BY <1>1, <1>2
     DEF Next, HandlerStep, WorkerStep, FetchChallenge, LoadProgress, EvictVisit,
         EvictDelete, BeginChallengeProc, Prepare, Propagate, TriggerChallenge,
         Unregister, Validate, Tick, Restart, vars

-----------------------------------------------------------------------------

\* A restart leaves no watcher and no worker that needs a record.
LEMMA RestartWatch == ASSUME IInv, WatchInv, Restart PROVE WatchInv'
<1>1. ASSUME NEW w \in Worker
      PROVE  /\ watch'[w].pc = "off"
             /\ worker'[w].pc \in {"idle", "killed"}
             /\ worker'[w].pc # "idle" => worker'[w].chal \in Chal
  BY DEF Restart, NoWatch, IdleWorker, WatchInv
<1> QED
  BY <1>1 DEF WatchInv

\* The watcher of a worker at the trigger is still needed: its deadline is later
\* than the trigger's, so its cleanup saw the CA's verdict.
LEMMA CleanupWatch ==
    ASSUME IInv, WatchInv, NEW w \in Worker, Cleanup(w), worker[w].pc = "trigger"
    PROVE  upstream[Target(w)] # "pending"
<1>1. now \in Nat /\ worker[w].due \in Nat /\ watch[w].until \in Nat
  BY DEF IInv, TypeOK, WorkerType, WatchType
<1>2. now <= worker[w].due /\ worker[w].due < watch[w].until
  BY DEF IInv, WorkerInv, InFlight, WatchInv, Cleanup
<1> QED
  BY <1>1, <1>2 DEF Cleanup

\* A worker's own steps keep what WatchInv says of it.
LEMMA WorkerWatch ==
    ASSUME IInv, WatchInv, NEW w \in Worker, WorkerStep(w)
    PROVE  /\ worker'[w].chal = worker[w].chal
           /\ worker[w].chal \in Chal
           /\ worker'[w].pc # "idle"
           /\ worker'[w].pc \in {"prepare", "deploy", "propagate"} => watch'[w].pc = "off"
           /\ worker'[w].pc \in {"unregister", "done"} => upstream'[Target(w)] # "pending"
           /\ watch'[w].pc = "watching" =>
                 worker'[w].pc \in {"trigger", "unregister", "done", "failed"}
           /\ watch'[w].pc = "watching" /\ worker'[w].pc = "trigger" =>
                 worker'[w].due < watch'[w].until
           /\ watch'[w].pc # "stopped" \/ worker'[w].pc # "trigger"
<1> USE DEF IInv, TypeOK, WorkerType, WatchType
<1>1. /\ TriggerBound \in Nat /\ WatchTimeout \in Nat /\ TriggerBound < WatchTimeout
      /\ now \in Nat /\ worker[w].due \in Nat
  BY TimeAssumption
<1>2. worker[w].chal \in Chal
  BY DEF WorkerStep, Prepare, Deploy, Propagate, TriggerChallenge, Unregister, WatchInv
<1>3. CASE Prepare(w)
  BY <1>2, <1>3 DEF Prepare, Goto, Fail, WatchInv
<1>4. CASE Deploy(w)
  BY <1>2, <1>4 DEF Deploy, Goto, Fail, WatchInv
<1>5. CASE Propagate(w)
  <2>1. CASE Fail(w) /\ UNCHANGED watch
    BY <1>2, <1>5, <2>1 DEF Propagate, Fail, WatchInv
  <2>2. CASE worker' = [worker EXCEPT ![w].pc = "trigger",
                                      ![w].due = SmallerOf(@, now + TriggerBound)]
    <3>1. /\ worker'[w].pc = "trigger" /\ worker'[w].chal = worker[w].chal
          /\ worker'[w].due = SmallerOf(worker[w].due, now + TriggerBound)
      BY <2>2
    <3>2. \/ watch'[w].pc = "off"
          \/ watch'[w].pc = "watching" /\ watch'[w].until = now + WatchTimeout
      BY <1>5, <2>2 DEF Propagate, WatchInv
    <3>3. SmallerOf(worker[w].due, now + TriggerBound) < now + WatchTimeout
      BY <1>1 DEF SmallerOf
    <3> QED
      BY <1>2, <3>1, <3>2, <3>3
  <2> QED
    BY <1>5, <2>1, <2>2 DEF Propagate
<1>6. CASE TriggerChallenge(w)
  <2>1. Target(w) \in UpChal
    BY <1>2, ChalAssumption DEF Target
  <2> QED
    BY <1>2, <1>6, <2>1 DEF TriggerChallenge, Goto, Fail, WatchInv
<1>7. CASE Unregister(w)
  BY <1>2, <1>7 DEF Unregister, IdleWorker, WatchInv
<1> QED
  BY <1>3, <1>4, <1>5, <1>6, <1>7 DEF WorkerStep

\* Every step keeps WatchInv.
LEMMA WatchStep == ASSUME IInv, IInv', WatchInv, [Next]_vars PROVE WatchInv'
<1>1. CASE Restart
  BY <1>1, RestartWatch
<1>2. CASE ~Restart
  <2> SUFFICES ASSUME NEW w \in Worker
               PROVE  /\ worker'[w].pc # "idle" => worker'[w].chal \in Chal
                      /\ worker'[w].pc \in {"idle", "prepare", "deploy", "propagate"} =>
                            watch'[w].pc = "off"
                      /\ worker'[w].pc \in {"unregister", "done"} =>
                            upstream'[UpstreamURL[worker'[w].chal]] # "pending"
                      /\ watch'[w].pc = "watching" =>
                            worker'[w].pc \in {"trigger", "unregister", "done", "failed"}
                      /\ watch'[w].pc = "watching" /\ worker'[w].pc = "trigger" =>
                            worker'[w].due < watch'[w].until
                      /\ watch'[w].pc = "stopped" /\ worker'[w].pc = "trigger" =>
                            upstream'[UpstreamURL[worker'[w].chal]] # "pending"
    BY DEF WatchInv, Target
  <2>1. CASE WorkerStep(w)
    BY <2>1, WorkerWatch DEF Target
  <2>2. CASE ~WorkerStep(w) /\ worker'[w] # worker[w]
    <3>1. /\ worker[w].pc = "idle" /\ worker'[w].pc = "prepare"
          /\ worker'[w].chal \in Chal /\ UNCHANGED watch
      BY <1>2, <2>2, Moves
    <3> QED
      BY <3>1 DEF WatchInv
  <2>3. CASE worker'[w] = worker[w] /\ Cleanup(w)
    <3>1. watch'[w].pc = "stopped" /\ watch[w].pc = "watching" /\ UNCHANGED upstream
      BY <2>3 DEF Cleanup, IInv, TypeOK
    <3> QED
      BY <2>3, <3>1, CleanupWatch DEF WatchInv, Target
  <2>4. CASE ~WorkerStep(w) /\ worker'[w] = worker[w] /\ ~Cleanup(w)
    <3>1. watch'[w] = watch[w]
      BY <1>2, <2>4, Moves DEF WorkerStep
    <3>2. worker[w].pc # "idle" => worker[w].chal \in Chal /\ Target(w) \in UpChal
      BY ChalAssumption DEF WatchInv, Target
    <3>3. /\ worker[w].pc \in {"unregister", "done"} => upstream'[Target(w)] # "pending"
          /\ watch[w].pc = "stopped" /\ worker[w].pc = "trigger" =>
                upstream'[Target(w)] # "pending"
      BY <3>2, UpstreamMoves DEF WatchInv
    <3> QED
      BY <2>4, <3>1, <3>2, <3>3 DEF WatchInv, Target
  <2> QED
    BY <2>1, <2>2, <2>3, <2>4
<1> QED
  BY <1>1, <1>2

\* No watcher removes the record of a pending challenge, except one whose worker
\* failed: a worker that has yet to trigger is within its watcher's deadline, and one
\* that has triggered ended "pending".
LEMMA OnlyFailedRemove ==
    ASSUME IInv, WatchInv, NEW v \in Worker, Cleanup(v), upstream[Target(v)] = "pending"
    PROVE  worker[v].pc = "failed" /\ watch[v].pc = "watching"
<1>1. watch[v].pc = "watching"
  BY DEF Cleanup
<1>2. worker[v].pc \in {"trigger", "failed"}
  BY <1>1 DEF WatchInv
<1> QED
  BY <1>1, <1>2, CleanupWatch

\* A failed worker and its watcher stay what they are, until a restart.
LEMMA FailedStays ==
    ASSUME IInv, [Next]_vars, ~Restart, NEW v \in Worker,
           worker[v].pc = "failed", watch[v].pc # "off"
    PROVE  worker'[v] = worker[v] /\ watch'[v].pc # "off"
<1>1. ~WorkerStep(v)
  BY DEF WorkerStep, Prepare, Deploy, Propagate, TriggerChallenge, Unregister
<1>2. worker'[v] = worker[v]
  BY <1>1, Moves
<1>3. watch'[v] = watch[v] \/ Cleanup(v)
  BY <1>1, Moves DEF WorkerStep
<1>4. Cleanup(v) => watch'[v].pc = "stopped"
  BY DEF Cleanup, IInv, TypeOK
<1> QED
  BY <1>2, <1>3, <1>4

\* Every step keeps the record of a worker that has yet to trigger published.
LEMMA RecordStep ==
    ASSUME IInv, IInv', WatchInv, WatchInv', RecordStaysUntilTrigger, [Next]_vars
    PROVE  RecordStaysUntilTrigger'
<1> SUFFICES ASSUME NEW w \in Worker,
                    \/ worker'[w].pc = "propagate"
                    \/ worker'[w].pc = "trigger" /\ watch'[w].pc # "off",
                    upstream'[Target(w)'] = "pending",
                    \A v \in Worker : worker'[v].pc = "failed" /\ Target(v)' = Target(w)' =>
                        watch'[v].pc = "off"
             PROVE  Target(w)' \in dns'
  BY DEF RecordStaysUntilTrigger
<1>1. ~Restart
  <2>1. Restart => worker'[w].pc \notin {"propagate", "trigger"}
    BY DEF Restart, IdleWorker
  <2> QED
    BY <2>1
<1>2. CASE Deploy(w)
  BY <1>2 DEF Deploy, Goto, Fail, IInv, TypeOK, WorkerType, Target
<1>3. CASE ~Deploy(w)
  \* The worker was already waiting on its published record.
  <2>1. /\ \/ worker[w].pc = "propagate"
           \/ worker[w].pc = "trigger" /\ watch[w].pc # "off"
        /\ worker'[w].chal = worker[w].chal
    <3>1. CASE WorkerStep(w)
      <4>1. CASE Prepare(w)
        BY <4>1 DEF Prepare, Goto, Fail, IInv, TypeOK, WorkerType, WatchInv
      <4>2. CASE Propagate(w)
        BY <4>2, <3>1, WorkerWatch DEF Propagate
      <4>3. CASE TriggerChallenge(w)
        BY <4>3 DEF TriggerChallenge, Goto, Fail, IInv, TypeOK, WorkerType
      <4>4. CASE Unregister(w)
        BY <4>4 DEF Unregister, IdleWorker, IInv, TypeOK
      <4> QED
        BY <1>3, <3>1, <4>1, <4>2, <4>3, <4>4 DEF WorkerStep
    <3>2. CASE ~WorkerStep(w)
      <4>1. worker'[w] = worker[w]
        BY <1>1, <3>2, Moves
      <4>2. watch'[w] = watch[w] \/ Cleanup(w)
        BY <1>1, <3>2, Moves DEF WorkerStep
      <4> QED
        BY <4>1, <4>2 DEF Cleanup
    <3> QED
      BY <3>1, <3>2
  <2>2. Target(w)' = Target(w) /\ Target(w) \in UpChal
    BY <2>1, ChalAssumption DEF WatchInv, Target
  <2>3. upstream[Target(w)] = "pending"
    BY <2>2, UpstreamMoves
  <2>4. \A v \in Worker : worker[v].pc = "failed" /\ Target(v) = Target(w) =>
            watch[v].pc = "off"
    BY <1>1, <2>2, FailedStays DEF Target
  <2>5. Target(w) \in dns
    BY <2>1, <2>3, <2>4 DEF RecordStaysUntilTrigger
  <2>6. ASSUME Target(w) \notin dns' PROVE FALSE
    <3>1. PICK v \in Worker : Cleanup(v) /\ Target(v) = Target(w)
      BY <2>5, <2>6, DNSMoves
    <3>2. worker[v].pc = "failed" /\ watch[v].pc = "watching"
      BY <2>3, <3>1, OnlyFailedRemove
    <3> QED
      BY <2>4, <3>1, <3>2
  <2> QED
    BY <2>2, <2>6
<1> QED
  BY <1>2, <1>3

\* Before a restart a custodian stays one, for the same challenge.
LEMMA CustodianStays ==
    ASSUME IInv, WatchInv, [Next]_vars, ~Restart, NEW w \in Worker,
           Target(w) \in Cleaned, Custodian(w)
    PROVE  worker'[w].chal = worker[w].chal /\ Custodian(w)'
<1> USE DEF IInv, TypeOK, WorkerType, WatchType
<1>1. worker[w].pc # "idle"
  BY DEF Custodian, WatchInv
<1>2. CASE WorkerStep(w)
  <2>1. worker'[w].chal = worker[w].chal
    BY <1>2, WorkerWatch
  <2>2. CASE Propagate(w)
    BY <2>2 DEF Propagate, Fail, Custodian
  <2>3. CASE ~Propagate(w)
    <3>1. UNCHANGED watch
      BY <1>2, <2>3 DEF WorkerStep, Prepare, Deploy, TriggerChallenge, Unregister
    <3>2. watch[w].pc # "off"
      BY <1>2, <2>3 DEF Custodian, WorkerStep, Prepare, Deploy, TriggerChallenge, Unregister
    <3> QED
      BY <2>1, <3>1, <3>2 DEF Custodian
  <2> QED
    BY <2>1, <2>2, <2>3
<1>3. CASE ~WorkerStep(w)
  <2>1. worker'[w] = worker[w]
    BY <1>1, <1>3, Moves
  <2>2. watch'[w] = watch[w] \/ Cleanup(w)
    BY <1>3, Moves DEF WorkerStep
  <2>3. Cleanup(w) => watch'[w].pc = "stopped"
    BY DEF Cleanup
  <2> QED
    BY <2>1, <2>2, <2>3 DEF Custodian
<1> QED
  BY <1>2, <1>3

\* Every step keeps a custodian for every published record.
LEMMA CustodyStep ==
    ASSUME IInv, IInv', WatchInv, Custody, [Next]_vars
    PROVE  Custody'
<1> SUFFICES ASSUME crashes' = 0, NEW u \in Cleaned, u \in dns'
             PROVE  \E w \in Worker : worker'[w].chal \in Chal /\ Target(w)' = u /\ Custodian(w)'
  BY DEF Custody
<1>1. ~Restart /\ crashes = 0
  <2>1. crashes \in Nat
    BY DEF IInv, TypeOK
  <2>2. crashes' = crashes \/ Restart
    BY DEF Next, HandlerStep, WorkerStep, FetchChallenge, LoadProgress, EvictVisit,
           EvictDelete, BeginChallengeProc, Prepare, Deploy, Propagate, TriggerChallenge,
           Unregister, Cleanup, Validate, Tick, vars
  <2>3. Restart => crashes' = crashes + 1
    BY Zenon DEF Restart
  <2> QED
    BY <2>1, <2>2, <2>3
<1>2. CASE u \in dns
  <2>1. PICK w \in Worker : worker[w].chal \in Chal /\ Target(w) = u /\ Custodian(w)
    BY <1>1, <1>2 DEF Custody
  <2> QED
    BY <1>1, <2>1, CustodianStays DEF Target
<1>3. CASE u \notin dns
  <2>1. PICK w \in Worker : Deploy(w) /\ Target(w) = u
    <3>1. ASSUME NEW w \in Worker, Deploy(w) PROVE Target(w) = u
      BY <1>3, <3>1 DEF Deploy
    <3>2. ASSUME NEW w \in Worker, Cleanup(w) PROVE FALSE
      BY <1>3, <3>2 DEF Cleanup
    <3> QED
      BY <1>1, <1>3, <3>1, <3>2
         DEF Next, HandlerStep, WorkerStep, FetchChallenge, LoadProgress, EvictVisit,
             EvictDelete, BeginChallengeProc, Prepare, Propagate, TriggerChallenge,
             Unregister, Validate, Tick, vars
  <2>2. worker'[w].chal = worker[w].chal /\ worker'[w].pc \in {"propagate", "failed"}
    BY <2>1 DEF Deploy, Goto, Fail, IInv, TypeOK, WorkerType
  <2>3. worker[w].chal \in Chal
    BY <2>1 DEF Deploy, WatchInv
  <2> QED
    BY <2>1, <2>2, <2>3 DEF Custodian, Target
<1> QED
  BY <1>2, <1>3

-----------------------------------------------------------------------------

\* What concerns published records holds in every reachable state.
THEOREM RecordInvariance == Spec => []RecordInv
<1>1. Init => RecordInv
  BY DEF Init, RecordInv, WatchInv, RecordStaysUntilTrigger, Custody,
         IdleWorker, NoWatch
<1>2. IInv /\ IInv' /\ RecordInv /\ [Next]_vars => RecordInv'
  BY WatchStep, RecordStep, CustodyStep DEF RecordInv
<1> QED
  BY <1>1, <1>2, Invariance, PTL DEF Spec

\* A worker that published its record finds it published when it triggers the CA, for
\* any timeouts with TriggerBound < WatchTimeout, whatever shares its upstream
\* challenge, unless the watcher of a worker that failed took it away.
THEOREM RecordStays == Spec => []RecordStaysUntilTrigger
<1>1. RecordInv => RecordStaysUntilTrigger
  BY DEF RecordInv
<1> QED
  BY <1>1, RecordInvariance, PTL

\* Until a restart, every record published for a challenge with a cleanup script
\* has a worker or a watcher that answers for it.
THEOREM CustodianHolds == Spec => []RecordHasCustodian
<1>1. IInv /\ RecordInv => RecordHasCustodian
  BY DEF RecordInv, Custody, Custodian, RecordHasCustodian, InFlight
<1> QED
  BY <1>1, Invariance, RecordInvariance, PTL

=============================================================================
