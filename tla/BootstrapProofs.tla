-------------------------- MODULE BootstrapProofs ---------------------------
(***************************************************************************)
(* Proofs about Bootstrap for any lifetime, renewal window and interval,   *)
(* any number of faults and any keys.                                      *)
(***************************************************************************)
EXTENDS Bootstrap, FiniteSetTheorems, TLAPS

\* The process, the certificate in memory and the step of acquire go together.
ProcInv ==
    /\ proc = "down" => pc = "idle" /\ served = None /\ elapsed = 0
    /\ proc = "starting" => pc # "idle" /\ served = None /\ elapsed = 0
    /\ proc = "serving" => served # None /\ (pc # "idle" => elapsed = 0)
    /\ proc = "serving" => ctx
    /\ pc # "idle" => certKey \in CertKey
    /\ pc = "write_cert" => keyFile = certKey
    /\ pc \in {"deploy", "trigger", "poll", "cleanup_valid", "cleanup_error"} => todo > 0
    /\ pc = "load" => certFile # None /\ certFile.left = Life

\* The account keys that were ever saved, but for those that no CA has seen.
UsedKeys == ({acctKey} \union {a[2] : a \in accounts}) \ {None}

\* The key under way is the saved one, and a key is only made when there is none or
\* by a fault.
AcctInv ==
    /\ pc \notin {"idle", "account_key"} => key = acctKey /\ acctKey # None
    /\ acctKey = None => accounts = {}
    /\ IsFiniteSet(UsedKeys)
    /\ Cardinality(UsedKeys) <= faults + 1

\* A start that has run out of time has paid for the record it may have to leave.
ZoneInv ==
    /\ stray <= excused
    /\ ~ctx /\ pc \in {"deploy", "trigger", "poll", "cleanup_valid", "cleanup_error"} =>
          stray + 1 <= excused

\* The time that a certificate is past the start of its window is made up of failed
\* checks and the time since the last one.
RenewInv ==
    served # None /\ failures < MaxFailures =>
        RenewBefore - served.left <=
            (IF pc = "idle" THEN failures ELSE failures + 1) * CheckInterval + elapsed

IInv ==
    /\ TypeOK
    /\ ProcInv
    /\ AcctInv
    /\ AccountIsKept
    /\ RestartKeepsCertificate
    /\ NoRecordForgotten
    /\ ZoneInv
    /\ RenewInv

-----------------------------------------------------------------------------
(* Types *)

\* The assumptions on numbers, one by one.
LEMMA Constants ==
    /\ Life \in Nat /\ CheckInterval \in Nat /\ MaxAuthz \in Nat /\ MaxFailures \in Nat
    /\ RenewBefore \in Nat /\ MaxFault \in Nat
    /\ Life > 0 /\ CheckInterval > 0 /\ MaxAuthz > 0 /\ MaxFailures > 0
    /\ RenewBefore <= Life
    /\ None \notin CertKey /\ None \notin AcctKey /\ None \notin CA \X AcctKey
    /\ None \notin Certificate
  BY BootstrapAssumption

\* A set of three has no more than three elements.
LEMMA ThreeAtMost ==
    ASSUME NEW a, NEW b, NEW c
    PROVE  IsFiniteSet({a, b, c}) /\ Cardinality({a, b, c}) <= 3
<1>1. IsFiniteSet({a}) /\ Cardinality({a}) = 1
  BY FS_Singleton
<1>2. IsFiniteSet({a} \union {b}) /\ Cardinality({a} \union {b}) <= 2
  BY <1>1, FS_AddElement
<1>3. Cardinality({a} \union {b}) \in Nat
  BY <1>2, FS_CardinalityType
<1>4. IsFiniteSet(({a} \union {b}) \union {c}) /\ Cardinality(({a} \union {b}) \union {c}) <= 3
  BY <1>2, <1>3, FS_AddElement
<1>5. ({a} \union {b}) \union {c} = {a, b, c}
  OBVIOUS
<1> QED
  BY <1>4, <1>5

\* acquire finds a key for its certificate: at most three are in use.
LEMMA FreshCertKey ==
    ASSUME TypeOK
    PROVE  Fresh(CertKey, {keyFile} \union {c.key : c \in {certFile, served} \ {None}}) \in CertKey
<1> DEFINE used == {keyFile} \union {c.key : c \in {certFile, served} \ {None}}
           three == {keyFile, certFile.key, served.key}
<1>1. used \subseteq three
  OBVIOUS
<1>2. IsFiniteSet(three) /\ Cardinality(three) <= 3 /\ Cardinality(three) \in Nat
  BY ThreeAtMost, FS_CardinalityType
<1>3. ~(CertKey \subseteq three)
  <2> SUFFICES ASSUME CertKey \subseteq three PROVE FALSE
    OBVIOUS
  <2> HIDE DEF three
  <2>1. Cardinality(CertKey) <= Cardinality(three)
    BY <1>2, FS_Subset
  <2>2. Cardinality(CertKey) \in Nat /\ Cardinality(CertKey) >= 4
    BY BootstrapAssumption, FS_CardinalityType
  <2> QED
    BY <1>2, <2>1, <2>2
<1>4. \E k \in CertKey \ used : TRUE
  BY <1>1, <1>3
<1> HIDE DEF used
<1>5. Fresh(CertKey, used) \in CertKey
  BY <1>4 DEF Fresh
<1> QED
  BY <1>5 DEF used

\* The account finds a key, too: each but the first costs a fault.
LEMMA FreshAcctKey ==
    ASSUME TypeOK, AcctInv
    PROVE  Fresh(AcctKey, {acctKey} \union {a[2] : a \in accounts}) \in AcctKey \ UsedKeys
<1> DEFINE used == {acctKey} \union {a[2] : a \in accounts}
<1>1. UsedKeys = used \ {None}
  BY DEF UsedKeys
<1>2. ~(AcctKey \subseteq UsedKeys)
  <2> SUFFICES ASSUME AcctKey \subseteq UsedKeys PROVE FALSE
    OBVIOUS
  <2>1. IsFiniteSet(UsedKeys) /\ Cardinality(UsedKeys) <= faults + 1
    BY DEF AcctInv
  <2>2. Cardinality(AcctKey) <= Cardinality(UsedKeys) /\ Cardinality(UsedKeys) \in Nat
    BY <2>1, FS_Subset, FS_CardinalityType
  <2>3. Cardinality(AcctKey) \in Nat /\ Cardinality(AcctKey) >= MaxFault + 2
    BY BootstrapAssumption, FS_CardinalityType
  <2>4. faults \in Nat /\ faults <= MaxFault /\ MaxFault \in Nat
    BY Constants DEF TypeOK
  <2> QED
    BY <2>1, <2>2, <2>3, <2>4
<1>3. PICK k \in AcctKey : k \notin UsedKeys
  BY <1>2
<1>4. k \in AcctKey \ used
  BY <1>1, <1>3, Constants
<1> HIDE DEF used
<1>5. Fresh(AcctKey, used) \in AcctKey \ used
  BY <1>4 DEF Fresh
<1>6. Fresh(AcctKey, used) \in AcctKey \ UsedKeys
  BY <1>1, <1>5
<1> QED
  BY <1>6 DEF used

\* Types of what the ways out of acquire assign.
LocalType ==
    /\ pc \in PC
    /\ certKey \in CertKey \union {None}
    /\ key \in AcctKey \union {None}
    /\ kid \in Account \union {None}
    /\ todo \in 0 .. MaxAuthz

ProcessType ==
    /\ proc \in {"down", "starting", "serving"}
    /\ ctx \in BOOLEAN
    /\ served \in Certificate \union {None}
    /\ elapsed \in 0 .. CheckInterval
    /\ failures \in 0 .. MaxFailures

FileType ==
    /\ keyFile \in CertKey \union {None}
    /\ certFile \in Certificate \union {None}
    /\ acctKey \in AcctKey \union {None}
    /\ acctURL \in Account \union {None}
    /\ ca \in CA
    /\ accounts \in SUBSET Account
    /\ record \in BOOLEAN
    /\ {stray, excused} \subseteq Nat
    /\ torn \in BOOLEAN
    /\ replaced \in BOOLEAN

\* The types in parts: the local variables of acquire, the process and the files.
LEMMA TypeParts ==
    /\ TypeOK <=> LocalType /\ ProcessType /\ FileType /\ faults \in 0 .. MaxFault
    /\ TypeOK' <=> LocalType' /\ ProcessType' /\ FileType' /\ faults' \in 0 .. MaxFault
  BY DEF TypeOK, LocalType, ProcessType, FileType

\* A fault is taken from those that are left.
LEMMA FaultType == ASSUME TypeOK, Fault PROVE faults' \in 0 .. MaxFault
  BY Constants DEF TypeOK, Fault

\* A call, failed or not, uses up at most one fault.
LEMMA CallType ==
    ASSUME TypeOK, CallFails \/ CallSucceeds \/ faults' = faults
    PROVE  faults' \in 0 .. MaxFault
  BY FaultType DEF CallFails, CallSucceeds, TypeOK

\* A hook that fails leaves one record more at most.
LEMMA HookType ==
    ASSUME TypeOK, HookFails
    PROVE  faults' \in 0 .. MaxFault /\ {stray', excused'} \subseteq Nat
<1>1. faults' \in 0 .. MaxFault
  BY FaultType DEF HookFails, TypeOK
<1>2. stray \in Nat /\ excused \in Nat
  BY DEF TypeOK
<1>3. excused' \in {excused, excused + 1} /\ stray' \in {stray, stray + 1}
  BY DEF HookFails
<1> QED
  BY <1>1, <1>2, <1>3

\* The end of acquire forgets its local variables.
LEMMA ClearType == ASSUME ClearLocals PROVE LocalType'
  BY Constants DEF ClearLocals, LocalType, PC

\* A process that exits leaves nothing in memory.
LEMMA ExitType == ASSUME Exit PROVE ProcessType'
<1>1. elapsed' \in 0 .. CheckInterval /\ failures' \in 0 .. MaxFailures
  BY Constants DEF Exit
<1> QED
  BY <1>1 DEF Exit, ProcessType

\* A failed acquisition ends the process or goes back to the renewal loop.
LEMMA FailType == ASSUME TypeOK, Fail PROVE LocalType' /\ ProcessType'
<1>1. LocalType'
  BY ClearType DEF Fail
<1>2. CASE Exit
  BY <1>1, <1>2, ExitType
<1>3. CASE ~Exit
  BY <1>1, <1>3, Constants, SMT DEF Fail, ProcessType, TypeOK
<1> QED
  BY <1>2, <1>3

\* A pair that loads is one that can be served.
LEMMA ServeType ==
    ASSUME TypeOK, Loads, SetCertificate, elapsed' = elapsed PROVE ProcessType'
<1>1. served' \in Certificate
  BY DEF SetCertificate, Loads, TypeOK
<1> QED
  BY <1>1, Constants DEF SetCertificate, ProcessType, TypeOK

\* An acquisition can always generate a fresh certificate key.
LEMMA AcquireType == ASSUME TypeOK, Acquire PROVE LocalType'
  BY FreshCertKey DEF Acquire, LocalType, TypeOK, PC

\* A certificate that ages stays one.
LEMMA OlderType ==
    ASSUME TypeOK
    PROVE  {Older(certFile), Older(served)} \subseteq Certificate \union {None}
<1>1. ASSUME NEW c \in Certificate PROVE Older(c) \in Certificate
  <2>1. c.left \in -1 .. Life /\ c.key \in CertKey /\ Life \in Nat
    BY Constants DEF Certificate
  <2>2. c.left >= 0 => c.left - 1 \in -1 .. Life
    BY <2>1
  <2> QED
    BY <2>1, <2>2 DEF Older, Certificate
<1>2. Older(None) = None
  BY DEF Older
<1> QED
  BY <1>1, <1>2 DEF TypeOK

\* Every step keeps the types.
LEMMA TypeStep == ASSUME IInv, [Next]_vars PROVE TypeOK'
<1> USE Constants DEF IInv, vars, pair, account, process, local, zone
<1> DEFINE FT == faults' \in 0 .. MaxFault
<1>0. /\ TypeOK /\ LocalType /\ ProcessType /\ FileType
      /\ UNCHANGED <<pc, local>> => LocalType'
      /\ UNCHANGED process => ProcessType'
      /\ UNCHANGED <<pair, torn, account, ca, zone>> => FileType'
  BY TypeParts DEF LocalType, ProcessType, FileType
<1>1. CASE Start
  <2>1. LocalType'
    BY <1>0, <1>1, AcquireType DEF Start
  <2>2. ProcessType'
    <3>1. CASE SetCertificate
      BY <1>0, <1>1, <3>1, ServeType DEF Start, SetCertificate
    <3>2. CASE ~SetCertificate
      BY <1>0, <1>1, <3>2 DEF Start, ProcessType
    <3> QED BY <3>1, <3>2
  <2> QED BY <1>0, <1>1, <2>1, <2>2, TypeParts, CallType, FaultType DEF Start, FileType
<1>2. CASE Check
  <2>1. LocalType'
    BY <1>0, <1>2, AcquireType DEF Check
  <2>2. ProcessType'
    BY <1>0, <1>2 DEF Check, ProcessType
  <2> QED BY <1>0, <1>2, <2>1, <2>2, TypeParts, CallType DEF Check
<1>3. CASE LoadOrCreateAccountKey
  <2>1. FT
    BY <1>0, <1>3, CallType, FaultType DEF LoadOrCreateAccountKey
  <2>2. CASE Fail /\ UNCHANGED <<acctKey, replaced>>
    BY <1>0, <1>3, <2>1, <2>2, FailType, TypeParts DEF LoadOrCreateAccountKey
  <2>3. CASE CreateAccountKey /\ replaced' \in BOOLEAN
    <3>1. acctKey' \in AcctKey /\ key' = acctKey'
      BY <1>0, <2>3, FreshAcctKey DEF CreateAccountKey
    <3>2. LocalType' /\ ProcessType'
      BY <1>0, <2>3, <3>1 DEF CreateAccountKey, LocalType, ProcessType, PC
    <3>3. FileType'
      BY <1>0, <1>3, <2>3, <3>1 DEF LoadOrCreateAccountKey, FileType
    <3> QED BY <2>1, <3>2, <3>3, TypeParts
  <2>4. CASE /\ acctKey # None /\ key' = acctKey /\ pc' = "account"
             /\ UNCHANGED <<acctKey, process, certKey, kid, todo, replaced>>
    <3>1. LocalType' /\ ProcessType' /\ FileType'
      BY <1>0, <1>3, <2>4 DEF LoadOrCreateAccountKey, LocalType, ProcessType, FileType, PC
    <3> QED BY <2>1, <3>1, TypeParts
  <2> QED BY <1>0, <1>3, <2>2, <2>3, <2>4 DEF LoadOrCreateAccountKey, TypeOK
<1>4. CASE ReuseOrRegister
  <2>0. FT
    BY <1>0, <1>4, CallType, FaultType DEF ReuseOrRegister
  <2>1. pc = "account" /\ key \in AcctKey /\ <<ca, key>> \in Account
    BY <1>0, <1>4 DEF ReuseOrRegister, AcctInv, TypeOK, Account
  <2>2. FileType'
    BY <1>0, <1>4, <2>1 DEF ReuseOrRegister, FileType
  <2>3. LocalType' /\ ProcessType'
    <3>1. CASE Fail
      BY <1>0, <3>1, FailType
    <3>2. CASE ~Fail
      BY <1>0, <1>4, <2>1, <3>2 DEF ReuseOrRegister, LocalType, ProcessType, FileType, PC
    <3> QED BY <3>1, <3>2
  <2> QED BY <2>0, <2>2, <2>3, TypeParts
<1>5. CASE SubmitOrder
  <2>1. FT
    BY <1>0, <1>5, CallType, FaultType DEF SubmitOrder
  <2>2. FileType'
    BY <1>0, <1>5 DEF SubmitOrder, FileType, LocalType, Certificate, ProcInv
  <2>3. LocalType' /\ ProcessType'
    <3>1. CASE Fail
      BY <1>0, <3>1, FailType
    <3>2. CASE ~Fail
      BY <1>0, <1>5, <3>2 DEF SubmitOrder, LocalType, ProcessType, ProcInv, PC
    <3> QED BY <3>1, <3>2
  <2> QED BY <2>1, <2>2, <2>3, TypeParts
<1>6. CASE GetAuthorization
  <2>1. FT
    BY <1>0, <1>6, CallType, FaultType DEF GetAuthorization
  <2>2. FileType'
    BY <1>0, <1>6 DEF GetAuthorization, FileType, LocalType, Certificate, ProcInv
  <2>3. LocalType' /\ ProcessType'
    <3>1. CASE Fail
      BY <1>0, <3>1, FailType
    <3>2. CASE ~Fail
      BY <1>0, <1>6, <3>2 DEF GetAuthorization, LocalType, ProcessType, ProcInv, PC
    <3> QED BY <3>1, <3>2
  <2> QED BY <2>1, <2>2, <2>3, TypeParts
<1>7. CASE Deploy
  <2>1. FT
    BY <1>0, <1>7, CallType, HookType DEF Deploy
  <2>2. FileType'
    BY <1>0, <1>7, HookType DEF Deploy, FileType
  <2>3. LocalType' /\ ProcessType'
    <3>1. CASE Fail
      BY <1>0, <3>1, FailType
    <3>2. CASE ~Fail
      BY <1>0, <1>7, <3>2 DEF Deploy, LocalType, ProcessType, ProcInv, PC
    <3> QED BY <3>1, <3>2
  <2> QED BY <2>1, <2>2, <2>3, TypeParts
<1>8. CASE TriggerChallenge
  <2>1. FT
    BY <1>0, <1>8, CallType, FaultType DEF TriggerChallenge
  <2>2. FileType'
    BY <1>0, <1>8 DEF TriggerChallenge, FileType, LocalType, Certificate, ProcInv
  <2>3. LocalType' /\ ProcessType'
    <3>1. CASE Fail
      BY <1>0, <3>1, FailType
    <3>2. CASE ~Fail
      BY <1>0, <1>8, <3>2 DEF TriggerChallenge, LocalType, ProcessType, ProcInv, PC
    <3> QED BY <3>1, <3>2
  <2> QED BY <2>1, <2>2, <2>3, TypeParts
<1>9. CASE PollAuthorization
  <2>1. FT
    BY <1>0, <1>9, CallType, FaultType DEF PollAuthorization
  <2>2. FileType'
    BY <1>0, <1>9 DEF PollAuthorization, FileType, LocalType, Certificate, ProcInv
  <2>3. LocalType' /\ ProcessType'
    <3>1. CASE Fail
      BY <1>0, <3>1, FailType
    <3>2. CASE ~Fail
      BY <1>0, <1>9, <3>2 DEF PollAuthorization, LocalType, ProcessType, ProcInv, PC
    <3> QED BY <3>1, <3>2
  <2> QED BY <2>1, <2>2, <2>3, TypeParts
<1>10. CASE Cleanup
  <2>1. FT
    BY <1>0, <1>10, CallType, HookType DEF Cleanup
  <2>2. FileType'
    BY <1>0, <1>10, HookType DEF Cleanup, FileType
  <2>3. LocalType' /\ ProcessType'
    <3>1. CASE Fail
      BY <1>0, <3>1, FailType
    <3>2. CASE ~Fail
      BY <1>0, <1>10, <3>2 DEF Cleanup, LocalType, ProcessType, ProcInv, PC
    <3> QED BY <3>1, <3>2
  <2> QED BY <2>1, <2>2, <2>3, TypeParts
<1>11. CASE Finalize
  <2>1. FT
    BY <1>0, <1>11, CallType, FaultType DEF Finalize
  <2>2. FileType'
    BY <1>0, <1>11 DEF Finalize, FileType, LocalType, Certificate, ProcInv
  <2>3. LocalType' /\ ProcessType'
    <3>1. CASE Fail
      BY <1>0, <3>1, FailType
    <3>2. CASE ~Fail
      BY <1>0, <1>11, <3>2 DEF Finalize, LocalType, ProcessType, ProcInv, PC
    <3> QED BY <3>1, <3>2
  <2> QED BY <2>1, <2>2, <2>3, TypeParts
<1>12. CASE WriteKey
  <2>1. FT
    BY <1>0, <1>12, CallType, FaultType DEF WriteKey
  <2>2. FileType'
    BY <1>0, <1>12 DEF WriteKey, FileType, LocalType, Certificate, ProcInv
  <2>3. LocalType' /\ ProcessType'
    <3>1. CASE Fail
      BY <1>0, <3>1, FailType
    <3>2. CASE ~Fail
      BY <1>0, <1>12, <3>2 DEF WriteKey, LocalType, ProcessType, ProcInv, PC
    <3> QED BY <3>1, <3>2
  <2> QED BY <2>1, <2>2, <2>3, TypeParts
<1>13. CASE WriteCert
  <2>1. FT
    BY <1>0, <1>13, CallType, FaultType DEF WriteCert
  <2>2. FileType'
    <3>1. certKey \in CertKey /\ Life \in -1 .. Life
      BY <1>0, <1>13 DEF WriteCert, ProcInv
    <3>2. certFile' \in Certificate \union {None} /\ torn' \in BOOLEAN
      <4>1. [key |-> certKey, left |-> Life] \in Certificate
        BY <3>1 DEF Certificate
      <4>2. torn' \in BOOLEAN /\ certFile' \in {certFile, [key |-> certKey, left |-> Life]}
        BY <1>13 DEF WriteCert
      <4> QED BY <1>0, <4>1, <4>2 DEF FileType
    <3> QED BY <1>0, <1>13, <3>2 DEF WriteCert, FileType
  <2>3. LocalType' /\ ProcessType'
    <3>1. CASE Fail
      BY <1>0, <3>1, FailType
    <3>2. CASE ~Fail
      BY <1>0, <1>13, <3>2 DEF WriteCert, LocalType, ProcessType, ProcInv, PC
    <3> QED BY <3>1, <3>2
  <2> QED BY <2>1, <2>2, <2>3, TypeParts
<1>14. CASE LoadRenewed
  <2>1. FT
    BY <1>0, <1>14, CallType, FaultType DEF LoadRenewed
  <2>2. LocalType' /\ ProcessType'
    BY <1>0, <1>14, FailType, ClearType, ServeType DEF LoadRenewed
  <2> QED BY <1>0, <1>14, <2>1, <2>2, TypeParts DEF LoadRenewed, FileType
<1>15. CASE Crash
  <2>1. stray \in Nat /\ excused \in Nat
    BY <1>0 DEF FileType
  <2>2. {stray', excused'} \subseteq Nat /\ torn' \in BOOLEAN
    BY <1>15, <2>1 DEF Crash
  <2>3. FileType'
    BY <1>0, <1>15, <2>2 DEF Crash, FileType
  <2> QED BY <1>0, <1>15, <2>3, FaultType, ClearType, ExitType, TypeParts DEF Crash
<1>16. CASE StartTimeout
  <2>1. stray \in Nat /\ excused \in Nat
    BY <1>0 DEF FileType
  <2>2. {stray', excused'} \subseteq Nat
    BY <1>16, <2>1 DEF StartTimeout
  <2>3. FileType'
    BY <1>0, <1>16, <2>2 DEF StartTimeout, FileType
  <2> QED BY <1>0, <1>16, <2>3, FaultType, TypeParts DEF StartTimeout, ProcessType
<1>17. CASE Reconfigure
  BY <1>0, <1>17, FaultType, TypeParts DEF Reconfigure, FileType
<1>18. CASE Tick
  <2>1. FileType' /\ ProcessType'
    BY <1>0, <1>18, OlderType DEF Tick, FileType, ProcessType
  <2> QED BY <1>0, <1>18, <2>1, TypeParts, CallType DEF Tick
<1>19. CASE UNCHANGED vars
  BY <1>19 DEF TypeOK
<1> QED
  BY <1>1, <1>2, <1>3, <1>4, <1>5, <1>6, <1>7, <1>8, <1>9, <1>10, <1>11, <1>12, <1>13,
     <1>14, <1>15, <1>16, <1>17, <1>18, <1>19 DEF Next, Step

-----------------------------------------------------------------------------
(* The other parts of the invariant *)

\* Time takes from a certificate and changes nothing else of it.
LEMMA OlderKeeps ==
    ASSUME TypeOK, NEW c \in {certFile, served}
    PROVE  /\ Older(c) # None <=> c # None
           /\ c # None => /\ Older(c).key = c.key
                          /\ c.left \in Int
                          /\ Older(c).left = IF c.left < 0 THEN c.left ELSE c.left - 1
<1>1. CASE c # None
  <2>1. c \in [key : CertKey, left : -1 .. Life]
    BY <1>1 DEF TypeOK, Certificate
  <2>2. c.left \in -1 .. Life /\ Life \in Nat
    BY <2>1, Constants
  <2>3. CASE c.left < 0
    BY <1>1, <2>2, <2>3 DEF Older
  <2>4. CASE ~(c.left < 0)
    <3>1. Older(c) = [c EXCEPT !.left = c.left - 1]
      BY <1>1, <2>1, <2>4 DEF Older
    <3>2. c.left - 1 \in -1 .. Life
      BY <2>2, <2>4
    <3>3. Older(c) \in Certificate
      BY <2>1, <3>1, <3>2 DEF Certificate
    <3> QED BY <1>1, <2>1, <2>2, <2>4, <3>1, <3>3, Constants
  <2> QED BY <2>3, <2>4
<1>2. CASE c = None
  BY <1>2 DEF Older
<1> QED
  BY <1>1, <1>2

\* The process and acquire stay in step.
LEMMA ProcStep == ASSUME TypeOK, ProcInv, [Next]_vars PROVE ProcInv'
<1> USE Constants DEF vars, pair, account, process, local, zone, ProcInv, TypeOK
<1>1. CASE Start
  <2>1. pc' = "account_key" => certKey' \in CertKey
    BY <1>1, FreshCertKey DEF Start, SetCertificate, Acquire
  <2>2. CASE SetCertificate
    <3>1. served' # None
      BY <1>1, <2>2 DEF Start, SetCertificate, Loads
    <3> QED BY <1>1, <2>2, <3>1 DEF Start, SetCertificate, Acquire
  <2>3. CASE ~SetCertificate
    BY <1>1, <2>1, <2>3 DEF Start, Acquire
  <2> QED BY <2>2, <2>3
<1>2. CASE Check
  <2>1. pc' = "account_key" => certKey' \in CertKey
    BY <1>2, FreshCertKey DEF Check, Acquire
  <2> QED BY <1>2, <2>1 DEF Check, Acquire
<1>3. CASE LoadOrCreateAccountKey
  BY <1>3 DEF LoadOrCreateAccountKey, CreateAccountKey, Fail, ClearLocals, Exit
<1>4. CASE ReuseOrRegister
  BY <1>4 DEF ReuseOrRegister, Fail, ClearLocals, Exit
<1>5. CASE SubmitOrder
  BY <1>5 DEF SubmitOrder, Fail, ClearLocals, Exit
<1>6. CASE GetAuthorization
  BY <1>6 DEF GetAuthorization, Fail, ClearLocals, Exit
<1>7. CASE Deploy
  BY <1>7 DEF Deploy, Fail, ClearLocals, Exit
<1>8. CASE TriggerChallenge
  BY <1>8 DEF TriggerChallenge
<1>9. CASE PollAuthorization
  BY <1>9 DEF PollAuthorization
<1>10. CASE Cleanup
  BY <1>10 DEF Cleanup, Fail, ClearLocals, Exit
<1>11. CASE Finalize
  BY <1>11 DEF Finalize, Fail, ClearLocals, Exit
<1>12. CASE WriteKey
  BY <1>12 DEF WriteKey, Fail, ClearLocals, Exit
<1>13. CASE WriteCert
  <2>1. CASE Fail
    BY <1>13, <2>1 DEF WriteCert, Fail, ClearLocals, Exit
  <2>2. CASE ~Fail
    <3>1. certFile' = [key |-> certKey, left |-> Life] /\ certFile' \in Certificate
      BY <1>13, <2>2 DEF WriteCert, Certificate
    <3>2. certFile' # None
      BY <3>1, Constants
    <3> QED BY <1>13, <2>2, <3>1, <3>2 DEF WriteCert
  <2> QED BY <2>1, <2>2
<1>14. CASE LoadRenewed
  <2>1. CASE Fail
    BY <1>14, <2>1 DEF LoadRenewed, Fail, ClearLocals, Exit
  <2>2. CASE ~Fail
    <3>1. served' # None
      BY <1>14, <2>2 DEF LoadRenewed, SetCertificate, Loads
    <3> QED BY <1>14, <2>2, <3>1 DEF LoadRenewed, SetCertificate, ClearLocals
  <2> QED BY <2>1, <2>2
<1>15. CASE Crash
  BY <1>15 DEF Crash, ClearLocals, Exit
<1>16. CASE StartTimeout
  BY <1>16 DEF StartTimeout
<1>17. CASE Reconfigure
  BY <1>17 DEF Reconfigure
<1>18. CASE Tick
  BY <1>18, OlderKeeps DEF Tick
<1>19. CASE UNCHANGED vars
  BY <1>19
<1> QED
  BY <1>1, <1>2, <1>3, <1>4, <1>5, <1>6, <1>7, <1>8, <1>9, <1>10, <1>11, <1>12, <1>13,
     <1>14, <1>15, <1>16, <1>17, <1>18, <1>19 DEF Next, Step

\* The keys in use stay what they are.
LEMMA UsedStays ==
    ASSUME TypeOK, AcctInv, TypeOK', UsedKeys' = UsedKeys, faults' \in {faults, faults + 1}
    PROVE  IsFiniteSet(UsedKeys)' /\ (Cardinality(UsedKeys) <= faults + 1)'
<1>1. IsFiniteSet(UsedKeys) /\ Cardinality(UsedKeys) <= faults + 1
  BY DEF AcctInv
<1>2. Cardinality(UsedKeys) \in Nat /\ faults \in Nat
  BY <1>1, Constants, FS_CardinalityType DEF TypeOK
<1>3. IsFiniteSet(UsedKeys')
  BY <1>1
<1>4. Cardinality(UsedKeys') <= faults' + 1
  BY <1>1, <1>2
<1> QED
  BY <1>3, <1>4

\* A step that leaves the account's files and the CAs alone.
LEMMA AcctFrame ==
    ASSUME TypeOK, AcctInv, TypeOK', UNCHANGED <<acctKey, accounts>>,
           faults' \in {faults, faults + 1},
           \/ pc' \in {"idle", "account_key"}
           \/ pc \notin {"idle", "account_key"} /\ key' = key
           \/ key' = acctKey /\ acctKey # None
    PROVE  AcctInv'
<1>1. UsedKeys' = UsedKeys
  BY DEF UsedKeys
<1> QED
  BY <1>1, UsedStays DEF AcctInv

\* A new account key is one more, and costs a fault unless it is the first.
LEMMA CreateAcct ==
    ASSUME TypeOK, AcctInv, TypeOK', CreateAccountKey, UNCHANGED accounts,
           \/ acctKey = None /\ faults' = faults
           \/ faults' = faults + 1
    PROVE  AcctInv'
<1>1. acctKey' \in AcctKey \ UsedKeys /\ key' = acctKey' /\ pc' = "account"
  BY FreshAcctKey DEF CreateAccountKey
<1>2. acctKey' # None
  BY <1>1, Constants
<1>3. /\ IsFiniteSet(UsedKeys) /\ Cardinality(UsedKeys) <= faults + 1
      /\ Cardinality(UsedKeys) \in Nat /\ faults \in Nat
  BY Constants, FS_CardinalityType DEF AcctInv, TypeOK
<1>4. UsedKeys' \subseteq UsedKeys \union {acctKey'}
  BY DEF UsedKeys
<1> DEFINE more == UsedKeys \union {acctKey'}
<1>5. IsFiniteSet(more) /\ Cardinality(more) = Cardinality(UsedKeys) + 1
  BY <1>1, <1>3, FS_AddElement
<1>6. IsFiniteSet(UsedKeys') /\ Cardinality(UsedKeys') <= Cardinality(more)
  <2>1. UsedKeys' \in SUBSET more
    BY <1>4
  <2> HIDE DEF more
  <2> QED BY <1>5, <2>1, FS_Subset
<1>7. Cardinality(UsedKeys') \in Nat
  BY <1>6, FS_CardinalityType
<1>8. Cardinality(UsedKeys') <= faults' + 1
  <2>1. CASE faults' = faults + 1
    BY <1>3, <1>5, <1>6, <1>7, <2>1
  <2>2. CASE acctKey = None /\ faults' = faults
    <3>1. UsedKeys = {}
      BY <2>2 DEF AcctInv, UsedKeys
    <3>2. Cardinality(UsedKeys) = 0
      BY <3>1, FS_EmptySet
    <3> QED BY <1>3, <1>5, <1>6, <1>7, <2>2, <3>2
  <2> QED BY <2>1, <2>2
<1> QED
  BY <1>1, <1>2, <1>6, <1>8 DEF AcctInv

\* The account's key is the saved one, and keys are made for a fault.
LEMMA AcctStep == ASSUME TypeOK, AcctInv, TypeOK', [Next]_vars PROVE AcctInv'
<1> USE DEF vars, pair, account, process, local, zone
<1>0. faults' \in {faults, faults + 1}
  BY DEF Next, Step, Start, Check, LoadOrCreateAccountKey, ReuseOrRegister, SubmitOrder,
     GetAuthorization, Deploy, TriggerChallenge, PollAuthorization, Cleanup, Finalize,
     WriteKey, WriteCert, LoadRenewed, Crash, StartTimeout, Reconfigure, Tick,
     CallFails, CallSucceeds, HookFails, Fault
<1>1. CASE LoadOrCreateAccountKey
  <2>1. CASE CreateAccountKey /\ ((acctKey = None /\ faults' = faults) \/ faults' = faults + 1)
    BY <1>1, <2>1, CreateAcct DEF LoadOrCreateAccountKey
  <2>2. CASE Fail /\ UNCHANGED acctKey
    BY <1>0, <1>1, <2>2, AcctFrame DEF LoadOrCreateAccountKey, Fail, ClearLocals
  <2>3. CASE acctKey # None /\ key' = acctKey /\ UNCHANGED acctKey
    BY <1>0, <1>1, <2>3, AcctFrame DEF LoadOrCreateAccountKey
  <2> QED BY <1>1, <2>1, <2>2, <2>3 DEF LoadOrCreateAccountKey, Fault
<1>2. CASE ReuseOrRegister
  <2>1. key = acctKey /\ acctKey # None /\ acctKey' = acctKey
    BY <1>2 DEF ReuseOrRegister, AcctInv
  <2>2. accounts' \in {accounts, accounts \union {<<ca, key>>}}
    BY <1>2 DEF ReuseOrRegister
  <2>3. UsedKeys' = UsedKeys
    BY <2>1, <2>2 DEF UsedKeys
  <2>4. key' = key \/ pc' = "idle"
    BY <1>2 DEF ReuseOrRegister, Fail, ClearLocals
  <2> QED BY <1>0, <2>1, <2>3, <2>4, UsedStays DEF AcctInv
<1>3. CASE Start \/ Check \/ Crash \/ Reconfigure \/ Tick \/ LoadRenewed
  BY <1>0, <1>3, AcctFrame DEF Start, Check, Crash, Reconfigure, Tick, LoadRenewed,
     ClearLocals, Acquire, Fail, AcctInv
<1>4. CASE \/ SubmitOrder \/ GetAuthorization \/ Deploy \/ TriggerChallenge
           \/ PollAuthorization \/ Cleanup \/ Finalize \/ WriteKey \/ WriteCert
  <2>1. /\ UNCHANGED <<acctKey, accounts>>
        /\ pc' = "idle" \/ (pc \notin {"idle", "account_key"} /\ key' = key)
    BY <1>4 DEF SubmitOrder, GetAuthorization, Deploy, TriggerChallenge,
       PollAuthorization, Cleanup, Finalize, WriteKey, WriteCert, Fail, ClearLocals
  <2> QED BY <1>0, <2>1, AcctFrame
<1>5. CASE StartTimeout \/ UNCHANGED vars
  BY <1>0, <1>5, AcctFrame DEF StartTimeout, AcctInv, UsedKeys
<1> QED
  BY <1>1, <1>2, <1>3, <1>4, <1>5 DEF Next, Step

\* Accounts and the saved URL stay the saved key's.
LEMMA KeptStep == ASSUME TypeOK, AcctInv, AccountIsKept, [Next]_vars PROVE AccountIsKept'
<1> USE Constants DEF vars, pair, account, process, local, zone, AccountIsKept, AcctInv, TypeOK, Account
<1>1. CASE Start
  BY <1>1 DEF Start
<1>2. CASE Check
  BY <1>2 DEF Check, IsExpiringSoon, Acquire
<1>3. CASE LoadOrCreateAccountKey
  BY <1>3 DEF LoadOrCreateAccountKey, CreateAccountKey, Fail, ClearLocals, Exit
<1>4. CASE ReuseOrRegister
  BY <1>4 DEF ReuseOrRegister, Fail, ClearLocals, Exit
<1>5. CASE SubmitOrder
  BY <1>5 DEF SubmitOrder, Fail, ClearLocals, Exit
<1>6. CASE GetAuthorization
  BY <1>6 DEF GetAuthorization, Fail, ClearLocals, Exit
<1>7. CASE Deploy
  BY <1>7 DEF Deploy, Fail, ClearLocals, Exit
<1>8. CASE TriggerChallenge
  BY <1>8 DEF TriggerChallenge
<1>9. CASE PollAuthorization
  BY <1>9 DEF PollAuthorization
<1>10. CASE Cleanup
  BY <1>10 DEF Cleanup, Fail, ClearLocals, Exit
<1>11. CASE Finalize
  BY <1>11 DEF Finalize, Fail, ClearLocals, Exit
<1>12. CASE WriteKey
  BY <1>12 DEF WriteKey, Fail, ClearLocals, Exit
<1>13. CASE WriteCert
  BY <1>13 DEF WriteCert, Fail, ClearLocals, Exit
<1>14. CASE LoadRenewed
  BY <1>14 DEF LoadRenewed, Loads, Fail, SetCertificate, ClearLocals, Exit
<1>15. CASE Crash
  BY <1>15 DEF Crash, ClearLocals, Exit
<1>16. CASE StartTimeout
  BY <1>16 DEF StartTimeout
<1>17. CASE Reconfigure
  BY <1>17 DEF Reconfigure
<1>18. CASE Tick
  BY <1>18 DEF Tick
<1>19. CASE UNCHANGED vars
  BY <1>19
<1> QED
  BY <1>1, <1>2, <1>3, <1>4, <1>5, <1>6, <1>7, <1>8, <1>9, <1>10, <1>11, <1>12, <1>13,
     <1>14, <1>15, <1>16, <1>17, <1>18, <1>19 DEF Next, Step

\* The files keep the served pair.
LEMMA RestartStep ==
    ASSUME TypeOK, ProcInv, RestartKeepsCertificate, [Next]_vars
    PROVE  RestartKeepsCertificate'
<1> USE Constants DEF vars, pair, account, process, local, zone, RestartKeepsCertificate, ProcInv,
              TypeOK, Certificate, Loads
<1>1. CASE Start
  <2>1. CASE SetCertificate
    BY <1>1, <2>1 DEF Start, SetCertificate, Loads, Acquire
  <2>2. CASE ~SetCertificate
    BY <1>1, <2>2 DEF Start, Acquire
  <2> QED BY <2>1, <2>2
<1>2. CASE Check
  BY <1>2 DEF Check, IsExpiringSoon, Acquire
<1>3. CASE LoadOrCreateAccountKey
  BY <1>3 DEF LoadOrCreateAccountKey, CreateAccountKey, Fail, ClearLocals, Exit
<1>4. CASE ReuseOrRegister
  BY <1>4 DEF ReuseOrRegister, Fail, ClearLocals, Exit
<1>5. CASE SubmitOrder
  BY <1>5 DEF SubmitOrder, Fail, ClearLocals, Exit
<1>6. CASE GetAuthorization
  BY <1>6 DEF GetAuthorization, Fail, ClearLocals, Exit
<1>7. CASE Deploy
  BY <1>7 DEF Deploy, Fail, ClearLocals, Exit
<1>8. CASE TriggerChallenge
  BY <1>8 DEF TriggerChallenge
<1>9. CASE PollAuthorization
  BY <1>9 DEF PollAuthorization
<1>10. CASE Cleanup
  BY <1>10 DEF Cleanup, Fail, ClearLocals, Exit
<1>11. CASE Finalize
  BY <1>11 DEF Finalize, Fail, ClearLocals, Exit
<1>12. CASE WriteKey
  BY <1>12 DEF WriteKey, Fail, ClearLocals, Exit
<1>13. CASE WriteCert
  <2>1. CASE Fail
    BY <1>13, <2>1 DEF WriteCert, Fail, ClearLocals, Exit
  <2>2. CASE ~Fail
    <3>1. certFile' = [key |-> certKey, left |-> Life] /\ keyFile' = certKey /\ served' = served
      BY <1>13, <2>2 DEF WriteCert
    <3>2. certFile' \in Certificate /\ certFile'.key = keyFile' /\ certFile'.left = Life
      BY <1>13, <3>1 DEF WriteCert
    <3>3. served # None => Life >= served.left
      OBVIOUS
    <3> QED BY <3>1, <3>2, <3>3
  <2> QED BY <2>1, <2>2
<1>14. CASE LoadRenewed
  BY <1>14 DEF LoadRenewed, Loads, Fail, SetCertificate, ClearLocals, Exit
<1>15. CASE Crash
  BY <1>15 DEF Crash, ClearLocals, Exit
<1>16. CASE StartTimeout
  BY <1>16 DEF StartTimeout
<1>17. CASE Reconfigure
  BY <1>17 DEF Reconfigure
<1>18. CASE Tick
  <2>1. SUFFICES ASSUME served' # None, ~torn
                 PROVE  Loads' /\ certFile'.left >= served'.left
    BY <1>18 DEF Tick
  <2>2. served' = Older(served) /\ certFile' = Older(certFile) /\ keyFile' = keyFile /\ pc = "idle"
    BY <1>18 DEF Tick
  <2>3. served # None
    BY <2>1, <2>2, OlderKeeps
  <2>4. Loads /\ certFile.left >= served.left
    BY <2>1, <2>2, <2>3
  <2> QED BY <2>2, <2>3, <2>4, OlderKeeps
<1>19. CASE UNCHANGED vars
  BY <1>19
<1> QED
  BY <1>1, <1>2, <1>3, <1>4, <1>5, <1>6, <1>7, <1>8, <1>9, <1>10, <1>11, <1>12, <1>13,
     <1>14, <1>15, <1>16, <1>17, <1>18, <1>19 DEF Next, Step

\* Every way out after the deploy goes through a cleanup, and every record that stays has
\* its cause.
LEMMA RecordStep ==
    ASSUME TypeOK, ProcInv, ZoneInv, NoRecordForgotten, [Next]_vars
    PROVE  ZoneInv' /\ NoRecordForgotten'
<1>0. stray \in Nat /\ excused \in Nat
  BY DEF TypeOK
<1> USE <1>0 DEF vars, pair, account, process, local, zone, ProcInv, NoRecordForgotten, ZoneInv
<1>1. CASE Start
  BY <1>1 DEF Start, Loads, IsExpiringSoon, SetCertificate, Acquire
<1>2. CASE Check
  BY <1>2 DEF Check, IsExpiringSoon, Acquire
<1>3. CASE LoadOrCreateAccountKey
  BY <1>3 DEF LoadOrCreateAccountKey, CreateAccountKey, Fail, ClearLocals, Exit
<1>4. CASE ReuseOrRegister
  BY <1>4 DEF ReuseOrRegister, Fail, ClearLocals, Exit
<1>5. CASE SubmitOrder
  BY <1>5 DEF SubmitOrder, Fail, ClearLocals, Exit
<1>6. CASE GetAuthorization
  BY <1>6 DEF GetAuthorization, CallSucceeds, Fail, ClearLocals, Exit
<1>7. CASE Deploy
  BY <1>7 DEF Deploy, CallSucceeds, HookFails, Fail, ClearLocals, Exit
<1>8. CASE TriggerChallenge
  BY <1>8 DEF TriggerChallenge
<1>9. CASE PollAuthorization
  BY <1>9 DEF PollAuthorization
<1>10. CASE Cleanup
  BY <1>10 DEF Cleanup, CallSucceeds, HookFails, Fail, ClearLocals, Exit
<1>11. CASE Finalize
  BY <1>11 DEF Finalize, Fail, ClearLocals, Exit
<1>12. CASE WriteKey
  BY <1>12 DEF WriteKey, Fail, ClearLocals, Exit
<1>13. CASE WriteCert
  BY <1>13 DEF WriteCert, Fail, ClearLocals, Exit
<1>14. CASE LoadRenewed
  BY <1>14 DEF LoadRenewed, Loads, Fail, SetCertificate, ClearLocals, Exit
<1>15. CASE Crash
  BY <1>15 DEF Crash, ClearLocals, Exit
<1>16. CASE StartTimeout
  BY <1>16 DEF StartTimeout
<1>17. CASE Reconfigure
  BY <1>17 DEF Reconfigure
<1>18. CASE Tick
  BY <1>18 DEF Tick
<1>19. CASE UNCHANGED vars
  BY <1>19
<1> QED
  BY <1>1, <1>2, <1>3, <1>4, <1>5, <1>6, <1>7, <1>8, <1>9, <1>10, <1>11, <1>12, <1>13,
     <1>14, <1>15, <1>16, <1>17, <1>18, <1>19 DEF Next, Step

\* Failed checks account for the time a certificate is overdue.
LEMMA RenewStep == ASSUME TypeOK, ProcInv, RenewInv, [Next]_vars PROVE RenewInv'
<1> USE Constants DEF vars, pair, account, process, local, zone, RenewInv, ProcInv, TypeOK
<1>1. CASE Start
  <2>1. CASE SetCertificate
    <3>1. certFile # None /\ ~IsExpiringSoon(certFile) /\ pc' = pc
      BY <1>1, <2>1 DEF Start, SetCertificate, Loads
    <3>2. certFile.left \in Int /\ certFile.left >= RenewBefore
      BY <3>1 DEF IsExpiringSoon, Certificate
    <3>3. served'.left = certFile.left /\ failures' = 0 /\ elapsed' = 0 /\ pc' = "idle"
      BY <1>1, <2>1, <3>1 DEF Start, SetCertificate
    <3> QED BY <3>2, <3>3
  <2>2. CASE ~SetCertificate
    BY <1>1, <2>2 DEF Start
  <2> QED BY <2>1, <2>2
<1>2. CASE Check
  <2>0. served \in Certificate /\ served.left \in Int
    BY <1>2 DEF Check, Certificate
  <2>1. failures \in Nat /\ CheckInterval \in Nat
    OBVIOUS
  <2>2. (failures + 1) * CheckInterval = failures * CheckInterval + CheckInterval
        /\ failures * CheckInterval \in Nat
    BY <2>1
  <2>3. CASE IsExpiringSoon(served)
    BY <1>2, <2>0, <2>2, <2>3 DEF Check, Acquire
  <2>4. CASE ~IsExpiringSoon(served)
    BY <1>2, <2>0, <2>2, <2>4 DEF Check, IsExpiringSoon
  <2> QED BY <2>3, <2>4
<1>3. CASE LoadOrCreateAccountKey
  BY <1>3 DEF LoadOrCreateAccountKey, CreateAccountKey, Fail, ClearLocals, Exit
<1>4. CASE ReuseOrRegister
  BY <1>4 DEF ReuseOrRegister, Fail, ClearLocals, Exit
<1>5. CASE SubmitOrder
  BY <1>5 DEF SubmitOrder, Fail, ClearLocals, Exit
<1>6. CASE GetAuthorization
  BY <1>6 DEF GetAuthorization, Fail, ClearLocals, Exit
<1>7. CASE Deploy
  BY <1>7 DEF Deploy, Fail, ClearLocals, Exit
<1>8. CASE TriggerChallenge
  BY <1>8 DEF TriggerChallenge
<1>9. CASE PollAuthorization
  BY <1>9 DEF PollAuthorization
<1>10. CASE Cleanup
  BY <1>10 DEF Cleanup, Fail, ClearLocals, Exit
<1>11. CASE Finalize
  BY <1>11 DEF Finalize, Fail, ClearLocals, Exit
<1>12. CASE WriteKey
  BY <1>12 DEF WriteKey, Fail, ClearLocals, Exit
<1>13. CASE WriteCert
  BY <1>13 DEF WriteCert, Fail, ClearLocals, Exit
<1>14. CASE LoadRenewed
  BY <1>14 DEF LoadRenewed, Loads, Fail, SetCertificate, ClearLocals, Exit
<1>15. CASE Crash
  BY <1>15 DEF Crash, ClearLocals, Exit
<1>16. CASE StartTimeout
  BY <1>16 DEF StartTimeout
<1>17. CASE Reconfigure
  BY <1>17 DEF Reconfigure
<1>18. CASE Tick
  <2>1. CASE served # None
    <3>1. served.left \in Int /\ served'.left \in {served.left, served.left - 1}
      BY <1>18, <2>1, OlderKeeps DEF Tick
    <3>2. proc = "serving" /\ elapsed' = elapsed + 1 /\ pc = "idle" /\ pc' = "idle"
          /\ failures' = failures
      BY <1>18, <2>1 DEF Tick
    <3>3. failures * CheckInterval \in Nat /\ elapsed \in Nat
      OBVIOUS
    <3> QED BY <2>1, <3>1, <3>2, <3>3
  <2>2. CASE served = None
    BY <1>18, <2>2, OlderKeeps DEF Tick
  <2> QED BY <2>1, <2>2
<1>19. CASE UNCHANGED vars
  BY <1>19
<1> QED
  BY <1>1, <1>2, <1>3, <1>4, <1>5, <1>6, <1>7, <1>8, <1>9, <1>10, <1>11, <1>12, <1>13,
     <1>14, <1>15, <1>16, <1>17, <1>18, <1>19 DEF Next, Step

-----------------------------------------------------------------------------
(* The theorems *)

\* The files are empty and nothing has happened.
LEMMA InitIInv == Init => IInv
<1> SUFFICES ASSUME Init PROVE IInv
  OBVIOUS
<1> USE Constants DEF Init
<1>1. TypeOK
  <2>1. 0 \in 0 .. CheckInterval /\ 0 \in 0 .. MaxAuthz /\ 0 \in 0 .. MaxFailures
        /\ 0 \in 0 .. MaxFault
    OBVIOUS
  <2>2. {stray, excused} \subseteq Nat
    OBVIOUS
  <2> QED BY <2>1, <2>2 DEF TypeOK, PC
<1>2. UsedKeys = {}
  BY DEF UsedKeys
<1>3. AcctInv
  BY <1>2, FS_EmptySet DEF AcctInv
<1>4. ProcInv /\ AccountIsKept /\ RestartKeepsCertificate /\ NoRecordForgotten /\ ZoneInv /\ RenewInv
  BY DEF ProcInv, AccountIsKept, RestartKeepsCertificate, NoRecordForgotten, ZoneInv, RenewInv
<1> QED
  BY <1>1, <1>3, <1>4 DEF IInv

\* Every step keeps the inductive invariant.
LEMMA NextIInv == IInv /\ [Next]_vars => IInv'
<1> SUFFICES ASSUME IInv, [Next]_vars PROVE IInv'
  OBVIOUS
<1>1. TypeOK'
  BY TypeStep
<1> QED
  BY <1>1, ProcStep, AcctStep, KeptStep, RestartStep, RecordStep, RenewStep DEF IInv

\* The inductive invariant holds throughout, whatever faults strike acquire.
THEOREM Invariance == Spec => []IInv
  BY InitIInv, NextIInv, PTL DEF Spec

\* Every variable of the bootstrap model keeps its type; a fresh key can always be had.
THEOREM TypeCorrect == Spec => []TypeOK
<1>1. IInv => TypeOK
  BY DEF IInv
<1> QED
  BY <1>1, Invariance, PTL

\* A restart finds a pair that loads and is no older than the served one, unless the
\* write of a certificate failed or is under way: in the window between the two writes
\* (bootstrap.go:252-255) the pair is lost.
THEOREM RestartKeeps == Spec => []RestartKeepsCertificate
<1>1. IInv => RestartKeepsCertificate
  BY DEF IInv
<1> QED
  BY <1>1, Invariance, PTL

\* No interruption of acquire's account steps makes it register a second key, as long
\* as no key file was replaced (bootstrap.go:112-145, 377-408).
THEOREM OneAccount == Spec => []AccountIsKept
<1>1. IInv => AccountIsKept
  BY DEF IInv
<1> QED
  BY <1>1, Invariance, PTL

\* Every way out of acquire after a successful deploy hook goes through the cleanup hook,
\* and each record that stays in the zone has a failed hook, a timed out start or a
\* crash of its own as its cause (bootstrap.go:193-210, dnshook.go:46-60).
THEOREM RecordsRemembered == Spec => []NoRecordForgotten
<1>1. IInv => NoRecordForgotten
  BY DEF IInv
<1> QED
  BY <1>1, Invariance, PTL

\* n intervals that cover more than a window, but for less than one of them, are as
\* many as the window has room for.
LEMMA Checks ==
    ASSUME NEW n \in Nat, NEW window \in Nat, NEW interval \in Nat, interval > 0,
           window + 1 <= n * interval + interval
    PROVE  n >= window \div interval
<1> DEFINE q == window \div interval
<1>1. q \in Nat /\ q * interval <= window
  BY SMT
<1>2. (n + 1) * interval = n * interval + interval
  BY SMT
<1> HIDE DEF q
<1>3. SUFFICES ASSUME n + 1 <= q PROVE FALSE
  BY <1>1 DEF q
<1>4. (n + 1) * interval <= q * interval
  BY <1>1, <1>3, SMT
<1>5. (n + 1) * interval \in Nat /\ q * interval \in Nat
  BY <1>1, SMT
<1> QED
  BY <1>1, <1>2, <1>4, <1>5

\* For any lifetime, window and interval, an expired certificate is served only after
\* a failed renewal at each check of the window (bootstrap.go:68-102).
THEOREM ExpiryTakesFailures == Spec => []ExpiredOnlyAfterFailures
<1>1. ASSUME IInv PROVE ExpiredOnlyAfterFailures
  <2> SUFFICES ASSUME served # None, served.left < 0
               PROVE  failures >= RenewBefore \div CheckInterval
    BY DEF ExpiredOnlyAfterFailures
  <2>1. served.left = -1 /\ failures \in Nat /\ elapsed \in 0 .. CheckInterval
    <3>1. served \in Certificate /\ failures \in 0 .. MaxFailures /\ elapsed \in 0 .. CheckInterval
      BY <1>1 DEF IInv, TypeOK
    <3>2. served.left \in -1 .. Life
      BY <3>1 DEF Certificate
    <3> QED BY <3>1, <3>2, Constants
  <2>2. CASE failures < MaxFailures
    <3> DEFINE n == IF pc = "idle" THEN failures ELSE failures + 1
    <3>1. RenewBefore + 1 <= n * CheckInterval + elapsed
      <4>1. RenewBefore - served.left <= n * CheckInterval + elapsed
        BY <1>1, <2>2 DEF IInv, RenewInv
      <4>2. n \in Nat /\ n * CheckInterval \in Nat
        BY <2>1, Constants
      <4> QED BY <2>1, <4>1, <4>2, Constants
    <3>2. pc # "idle" => elapsed = 0
      BY <1>1 DEF IInv, ProcInv, TypeOK
    <3>3. failures * CheckInterval \in Nat
          /\ (failures + 1) * CheckInterval = failures * CheckInterval + CheckInterval
      BY <2>1, Constants
    <3>4. RenewBefore + 1 <= failures * CheckInterval + CheckInterval
      BY <2>1, <3>1, <3>2, <3>3, Constants
    <3> QED BY <2>1, <3>4, Checks, Constants
  <2>3. CASE ~(failures < MaxFailures)
    <3>1. RenewBefore \div CheckInterval <= MaxFailures
      BY BootstrapAssumption
    <3>2. RenewBefore \div CheckInterval \in Nat
      BY Constants, SMT
    <3> QED BY <2>1, <2>3, <3>1, <3>2, Constants
  <2> QED BY <2>2, <2>3
<1> QED
  BY <1>1, Invariance, PTL

=============================================================================
