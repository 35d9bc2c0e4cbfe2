------------------------------ MODULE Bootstrap ------------------------------
(***************************************************************************)
(* internal/bootstrap, and the certificate it installs in the server: how  *)
(* the gateway obtains its own TLS certificate at start, renews it every   *)
(* CheckInterval if it expires soon, and keeps the pair, the ACME account  *)
(* key and the account's URL in four files.                                *)
(*                                                                         *)
(* A crash may strike between any two steps, any call and any file         *)
(* operation may fail; each costs one of MaxFault faults.  Certificates    *)
(* carry the time they have left, so that the clock needs no bound.  An    *)
(* acquisition takes minutes and a tick is hours: the clock stands still   *)
(* during one.                                                             *)
(***************************************************************************)
EXTENDS Integers, FiniteSets

CONSTANTS
    CertKey, AcctKey,   \* private keys: of certificates, of the account
    CA,                 \* upstream directories
    Life,               \* lifetime of an issued certificate
    RenewBefore,        \* renew_before_days
    CheckInterval,      \* renewCheckInterval
    MaxAuthz,           \* bound on the authorizations of an order
    MaxFailures,        \* bound on the count of failed renewals
    MaxFault,           \* bound on crashes, errors and changes of the configuration
    None

Certificate == [key : CertKey, left : -1 .. Life]     \* left < 0: expired

ASSUME BootstrapAssumption ==
    /\ IsFiniteSet(CertKey) /\ Cardinality(CertKey) >= 4    \* three may be in use
    /\ IsFiniteSet(AcctKey) /\ Cardinality(AcctKey) >= MaxFault + 2
    /\ None \notin CertKey \union AcctKey \union (CA \X AcctKey)
    /\ None \notin Certificate
    /\ {Life, CheckInterval, MaxAuthz, MaxFailures} \subseteq Nat \ {0}
    /\ {RenewBefore, MaxFault} \subseteq Nat
    /\ RenewBefore <= Life      \* of the operator: the value is not validated
    /\ RenewBefore \div CheckInterval <= MaxFailures

VARIABLES
    keyFile, certFile,  \* key_path and cert_path
    acctKey, acctURL,   \* bootstrap-account.key and bootstrap-account.key.url
    ca,                 \* upstreams[bootstrap.upstream]
    accounts,           \* accounts that the CAs have
    proc,               \* the process
    ctx,                \* acquire's context is alive
    served,             \* the server's certificate, also the loop's current one
    elapsed,            \* time since the ticker last fired
    pc,                 \* of acquire; "idle" outside it
    certKey, key, kid,  \* acquire's key, and its client's account key and URL
    todo,               \* authorizations to go through
    record,             \* the deploy hook has published the TXT record of the authorization
    stray,              \* TXT records that were left in the zone
    excused,            \* hooks that failed, starts that timed out, and crashes
    torn,               \* the certificate was not written after its key was
    failures,           \* renewals that failed since the last certificate
    replaced,           \* an account key file that could not be read was replaced
    faults

account == <<acctKey, acctURL, accounts, replaced>>
pair == <<keyFile, certFile>>
process == <<proc, ctx, served, elapsed, failures>>
local == <<certKey, key, kid, todo>>
zone == <<record, stray, excused>>
vars == <<pair, torn, account, ca, process, pc, local, zone, faults>>

-----------------------------------------------------------------------------
(* State *)

Account == CA \X AcctKey

PC == {"idle", "account_key", "account", "order", "authz", "deploy", "trigger", "poll",
       "cleanup_valid", "cleanup_error", "finalize", "write_key", "write_cert", "load"}

TypeOK ==
    /\ keyFile \in CertKey \union {None}
    /\ certFile \in Certificate \union {None}
    /\ acctKey \in AcctKey \union {None}
    /\ acctURL \in Account \union {None}
    /\ ca \in CA
    /\ accounts \in SUBSET Account
    /\ proc \in {"down", "starting", "serving"}
    /\ ctx \in BOOLEAN
    /\ served \in Certificate \union {None}
    /\ elapsed \in 0 .. CheckInterval
    /\ pc \in PC
    /\ certKey \in CertKey \union {None}
    /\ key \in AcctKey \union {None}
    /\ kid \in Account \union {None}
    /\ todo \in 0 .. MaxAuthz
    /\ record \in BOOLEAN
    /\ {stray, excused} \subseteq Nat
    /\ torn \in BOOLEAN
    /\ replaced \in BOOLEAN
    /\ failures \in 0 .. MaxFailures
    /\ faults \in 0 .. MaxFault

Init ==
    /\ keyFile = None
    /\ certFile = None
    /\ acctKey = None
    /\ acctURL = None
    /\ ca \in CA
    /\ accounts = {}
    /\ proc = "down"
    /\ ctx = FALSE
    /\ served = None
    /\ elapsed = 0
    /\ pc = "idle"
    /\ certKey = None
    /\ key = None
    /\ kid = None
    /\ todo = 0
    /\ replaced = FALSE
    /\ record = FALSE
    /\ stray = 0
    /\ excused = 0
    /\ torn = FALSE
    /\ failures = 0
    /\ faults = 0

\* A fault happens, if there are any left.
Fault ==
    /\ faults < MaxFault
    /\ faults' = faults + 1

\* A generated key: it is none of those in use.
Fresh(S, used) == CHOOSE k \in S \ used : TRUE

\* isExpiringSoon
IsExpiringSoon(cert) == cert.left < RenewBefore

\* loadExistingCert: tls.LoadX509KeyPair refuses a pair that does not match.
Loads == certFile # None /\ certFile.key = keyFile

-----------------------------------------------------------------------------
(* The ways out of acquire *)

ClearLocals ==
    /\ pc' = "idle"
    /\ certKey' = None
    /\ key' = None
    /\ kid' = None
    /\ todo' = 0

\* The process ends; what it kept in memory is gone.
Exit ==
    /\ proc' = "down"
    /\ ctx' = FALSE
    /\ served' = None
    /\ elapsed' = 0
    /\ failures' = 0

\* An error: fatal at start, while the renewal loop logs it and waits for the ticker.
Fail ==
    /\ ClearLocals
    /\ \/ proc = "starting" /\ Exit
       \/ /\ proc = "serving"
          /\ failures' = IF failures < MaxFailures THEN failures + 1 ELSE failures
          /\ UNCHANGED <<proc, ctx, served, elapsed>>

\* A call made under the context: it fails if that is dead, or by a fault.
CallFails == (~ctx /\ UNCHANGED faults) \/ (ctx /\ Fault)

CallSucceeds == ctx /\ UNCHANGED faults

\* A hook that fails, or is killed with the context: it may have done its work or not.
HookFails ==
    /\ \/ ~ctx /\ UNCHANGED <<faults, excused>>
       \/ ctx /\ Fault /\ excused' = excused + 1
    /\ stray' \in {stray, stray + 1}

\* SetCertificate; the renewal loop has a context of its own.
SetCertificate ==
    /\ proc' = "serving"
    /\ ctx' = TRUE
    /\ served' = certFile
    /\ failures' = 0

-----------------------------------------------------------------------------
(* run, Bootstrap and renewalLoop *)

\* acquire is entered with a fresh key.
Acquire ==
    /\ certKey' = Fresh(CertKey, {keyFile} \union {c.key : c \in {certFile, served} \ {None}})
    /\ pc' = "account_key"
    /\ UNCHANGED <<key, kid, todo>>

\* The start of the process.  Files that cannot be read are like files that are not there.
Start ==
    /\ proc = "down"
    /\ \/ /\ Loads /\ ~IsExpiringSoon(certFile)
          /\ SetCertificate
          /\ UNCHANGED <<pc, local, faults>>
       \/ /\ Fault \/ (~(Loads /\ ~IsExpiringSoon(certFile)) /\ UNCHANGED faults)
          /\ Acquire
          /\ proc' = "starting"
          /\ ctx' = TRUE
          /\ UNCHANGED <<served, failures>>
    /\ UNCHANGED <<pair, torn, account, ca, elapsed, zone>>

\* Mutant: the loop gives up after a failure.
CheckNotAgain ==
    /\ proc = "serving" /\ pc = "idle"
    /\ elapsed = CheckInterval
    /\ elapsed' = 0
    /\ \/ IsExpiringSoon(served) /\ failures = 0 /\ Acquire
       \/ (~IsExpiringSoon(served) \/ failures > 0) /\ UNCHANGED <<pc, local>>
    /\ UNCHANGED <<pair, torn, account, ca, proc, ctx, served, failures, zone, faults>>

\* Mutant: only an expired certificate is renewed.
CheckTooLate ==
    /\ proc = "serving" /\ pc = "idle"
    /\ elapsed = CheckInterval
    /\ elapsed' = 0
    /\ \/ served.left < 0 /\ Acquire
       \/ served.left >= 0 /\ UNCHANGED <<pc, local>>
    /\ UNCHANGED <<pair, torn, account, ca, proc, ctx, served, failures, zone, faults>>

\* The ticker of renewalLoop fires.
Check ==
    /\ proc = "serving" /\ pc = "idle"
    /\ elapsed = CheckInterval
    /\ elapsed' = 0
    /\ \/ IsExpiringSoon(served) /\ Acquire
       \/ ~IsExpiringSoon(served) /\ UNCHANGED <<pc, local>>
    /\ UNCHANGED <<pair, torn, account, ca, proc, ctx, served, failures, zone, faults>>

-----------------------------------------------------------------------------
(* acquire: the account *)

\* A fresh account key is generated and saved.
CreateAccountKey ==
    /\ key' = Fresh(AcctKey, {acctKey} \union {a[2] : a \in accounts})
    /\ acctKey' = key'
    /\ pc' = "account"
    /\ UNCHANGED <<process, certKey, kid, todo>>

\* Mutant: the new key is not saved.
LoadOrCreateUnsaved ==
    /\ pc = "account_key"
    /\ key' = Fresh(AcctKey, {a[2] : a \in accounts})
    /\ pc' = "account"
    /\ UNCHANGED <<pair, torn, account, ca, process, certKey, kid, todo, zone, faults>>

\* loadOrCreateAccountKey.  A key that cannot be read or parsed is replaced, and the
\* saved URL stays.
LoadOrCreateAccountKey ==
    /\ pc = "account_key"
    /\ \/ /\ acctKey # None
          /\ key' = acctKey
          /\ pc' = "account"
          /\ UNCHANGED <<acctKey, process, certKey, kid, todo, replaced, faults>>
       \/ /\ acctKey = None
          /\ CreateAccountKey
          /\ UNCHANGED <<replaced, faults>>
       \/ /\ acctKey # None
          /\ Fault
          /\ CreateAccountKey
          /\ replaced' = TRUE
       \/ /\ Fault      \* the key cannot be written
          /\ Fail
          /\ UNCHANGED <<acctKey, replaced>>
    /\ UNCHANGED <<pair, torn, acctURL, accounts, ca, zone>>

\* The saved URL is used, whatever account and CA it belongs to.  Without one (or if
\* it cannot be read) the key is registered, which gives an existing account back,
\* and the URL is saved; when that fails it is a warning.
ReuseOrRegister ==
    /\ pc = "account"
    /\ \/ /\ acctURL # None
          /\ kid' = acctURL
          /\ pc' = "order"
          /\ UNCHANGED <<acctURL, accounts, process, certKey, key, todo, faults>>
       \/ /\ ctx
          /\ \/ acctURL = None /\ acctURL' = <<ca, key>> /\ UNCHANGED faults
             \/ acctURL' \in {acctURL, <<ca, key>>} /\ Fault
          /\ kid' = <<ca, key>>
          /\ accounts' = accounts \union {<<ca, key>>}
          /\ pc' = "order"
          /\ UNCHANGED <<process, certKey, key, todo>>
       \/ /\ acctURL = None \/ ctx
          /\ CallFails
          /\ accounts' \in {accounts, accounts \union {<<ca, key>>}}
          /\ Fail
          /\ UNCHANGED acctURL
    /\ UNCHANGED <<pair, torn, acctKey, replaced, ca, zone>>

\* SubmitOrder.  The CA refuses a kid that is not the account of the signing key.
SubmitOrder ==
    /\ pc = "order"
    /\ \/ /\ CallSucceeds
          /\ kid = <<ca, key>>
          /\ todo' \in 1 .. MaxAuthz
          /\ pc' = "authz"
          /\ UNCHANGED <<process, certKey, key, kid>>
       \/ /\ CallFails \/ (CallSucceeds /\ kid # <<ca, key>>)
          /\ Fail
    /\ UNCHANGED <<pair, torn, account, ca, zone>>

-----------------------------------------------------------------------------
(* acquire: the authorizations *)

\* The head of the loop.  An authorization that is valid already is skipped.
GetAuthorization ==
    /\ pc = "authz"
    /\ \/ /\ todo = 0
          /\ pc' = "finalize"
          /\ UNCHANGED <<process, local, faults>>
       \/ /\ todo > 0
          /\ CallSucceeds
          /\ \/ todo' = todo - 1 /\ UNCHANGED pc
             \/ pc' = "deploy" /\ UNCHANGED todo
          /\ UNCHANGED <<process, certKey, key, kid>>
       \/ /\ todo > 0
          /\ CallFails
          /\ Fail
    /\ UNCHANGED <<pair, torn, account, ca, zone>>

\* DNSHook.Deploy, under a limit of its own.  When it fails acquire returns and nothing
\* is cleaned up, although the record may be there.
Deploy ==
    /\ pc = "deploy"
    /\ \/ /\ CallSucceeds
          /\ record' = TRUE
          /\ pc' = "trigger"
          /\ UNCHANGED <<process, local, stray, excused>>
       \/ /\ HookFails
          /\ Fail
          /\ UNCHANGED record
    /\ UNCHANGED <<pair, torn, account, ca>>

\* Mutant: an error returns at once.
TriggerReturns ==
    /\ pc = "trigger"
    /\ \/ CallSucceeds /\ pc' = "poll" /\ UNCHANGED <<process, local>>
       \/ CallFails /\ Fail
    /\ UNCHANGED <<pair, torn, account, ca, zone>>

TriggerChallenge ==
    /\ pc = "trigger"
    /\ \/ CallSucceeds /\ pc' = "poll"
       \/ CallFails /\ pc' = "cleanup_error"
    /\ UNCHANGED <<pair, torn, account, ca, process, local, zone>>

\* pollAuthorization: valid, or invalid, an error, five minutes or the context.
PollAuthorization ==
    /\ pc = "poll"
    /\ \/ CallSucceeds /\ pc' = "cleanup_valid"
       \/ CallFails /\ pc' = "cleanup_error"
    /\ UNCHANGED <<pair, torn, account, ca, process, local, zone>>

\* DNSHook.Cleanup, under the same context and with its error ignored.
Cleanup ==
    /\ pc \in {"cleanup_valid", "cleanup_error"}
    /\ record' = FALSE
    /\ (CallSucceeds /\ UNCHANGED <<stray, excused>>) \/ HookFails
    /\ \/ /\ pc = "cleanup_valid"
          /\ todo' = todo - 1
          /\ pc' = "authz"
          /\ UNCHANGED <<process, certKey, key, kid>>
       \/ /\ pc = "cleanup_error"
          /\ Fail
    /\ UNCHANGED <<pair, torn, account, ca>>

-----------------------------------------------------------------------------
(* acquire: the certificate *)

\* Mutant: the key is written first, as soon as there is one to order a certificate for.
FinalizeKeyFirst ==
    /\ pc = "finalize"
    /\ keyFile' = certKey
    /\ \/ CallSucceeds /\ pc' = "write_key" /\ UNCHANGED <<process, local>>
       \/ CallFails /\ Fail
    /\ UNCHANGED <<certFile, torn, account, ca, zone>>

\* FinalizeOrder, pollOrder, GetOrder and FetchCertificate.
Finalize ==
    /\ pc = "finalize"
    /\ \/ CallSucceeds /\ pc' = "write_key" /\ UNCHANGED <<process, local>>
       \/ CallFails /\ Fail
    /\ UNCHANGED <<pair, torn, account, ca, zone>>

\* atomicWrite of the key: the certificate on disk is no longer its.
WriteKey ==
    /\ pc = "write_key"
    /\ \/ /\ keyFile' = certKey
          /\ pc' = "write_cert"
          /\ UNCHANGED <<process, local, faults>>
       \/ /\ Fault
          /\ Fail
          /\ UNCHANGED keyFile
    /\ UNCHANGED <<certFile, torn, account, ca, zone>>

\* atomicWrite of the chain.
WriteCert ==
    /\ pc = "write_cert"
    /\ \/ /\ certFile' = [key |-> certKey, left |-> Life]
          /\ torn' = FALSE
          /\ pc' = "load"
          /\ UNCHANGED <<process, local, faults>>
       \/ /\ Fault
          /\ Fail
          /\ torn' = TRUE
          /\ UNCHANGED certFile
    /\ UNCHANGED <<keyFile, account, ca, zone>>

\* The caller loads what acquire has written and hands it to the server.
LoadRenewed ==
    /\ pc = "load"
    /\ \/ /\ Loads
          /\ SetCertificate
          /\ ClearLocals
          /\ UNCHANGED <<elapsed, faults>>
       \/ /\ Fault
          /\ Fail
    /\ UNCHANGED <<pair, torn, account, ca, zone>>

-----------------------------------------------------------------------------
(* The environment *)

\* Also a shutdown: run returns without waiting for the renewal loop.
Crash ==
    /\ proc # "down"
    /\ Fault
    /\ Exit
    /\ ClearLocals
    /\ torn' = (torn \/ pc = "write_cert")
    /\ record' = FALSE
    /\ \/ (record \/ pc = "deploy") /\ stray' = stray + 1
       \/ ~record /\ UNCHANGED stray
    /\ excused' = excused + 1
    /\ UNCHANGED <<pair, account, ca>>

\* The ten minutes of Bootstrap's context are over.
StartTimeout ==
    /\ proc = "starting" /\ ctx
    /\ Fault
    /\ ctx' = FALSE
    /\ excused' = excused + 1
    /\ UNCHANGED <<pair, torn, account, ca, proc, served, elapsed, failures, pc, local, record,
                   stray>>

\* The operator names another upstream for the bootstrap.
Reconfigure ==
    /\ proc = "down"
    /\ Fault
    /\ ca' \in CA \ {ca}
    /\ UNCHANGED <<pair, torn, account, process, pc, local, zone>>

\* A tick takes one off the time left, down to expired.
Older(cert) ==
    IF cert = None \/ cert.left < 0 THEN cert ELSE [cert EXCEPT !.left = @ - 1]

Tick ==
    /\ pc = "idle"
    /\ certFile' = Older(certFile)
    /\ served' = Older(served)
    /\ \/ proc = "down" /\ UNCHANGED elapsed
       \/ proc = "serving" /\ elapsed < CheckInterval /\ elapsed' = elapsed + 1
    /\ UNCHANGED <<keyFile, torn, account, ca, proc, ctx, failures, pc, local, zone, faults>>

Step ==
    \/ Start \/ Check \/ LoadOrCreateAccountKey \/ ReuseOrRegister \/ SubmitOrder
    \/ GetAuthorization \/ Deploy \/ TriggerChallenge \/ PollAuthorization \/ Cleanup
    \/ Finalize \/ WriteKey \/ WriteCert \/ LoadRenewed

Next == Step \/ Crash \/ StartTimeout \/ Reconfigure \/ Tick

Spec == Init /\ [][Next]_vars

\* The supervisor restarts the process (Restart=on-failure; the operator, after an
\* orderly exit), its goroutines are scheduled, calls end by their timeouts, and the
\* ticker of a process that is up fires.
FairSpec == Spec /\ WF_vars(Step) /\ WF_vars(Tick)

-----------------------------------------------------------------------------
(* Safety *)

\* The files hold a pair that a restart loads without the CA, no older than the one that
\* is served: whatever step of a renewal fails or is cut short, but for the window
\* between the write of the key and that of the certificate.
RestartKeepsCertificate ==
    served # None /\ ~torn /\ pc # "write_cert" => Loads /\ certFile.left >= served.left

\* Renewals reuse the one account: whatever step a crash or an error interrupts, no
\* second key is registered with a CA and the saved URL is an account of the saved
\* key, as long as no key file was replaced.
AccountIsKept ==
    ~replaced =>
        /\ \A a \in accounts : a[2] = acctKey
        /\ acctURL # None => acctURL \in accounts

\* A TXT record stays in the zone only for a hook that has failed, a start that ran out
\* of its ten minutes or a crash, and at most one for each of them.  After any other
\* error, of the trigger or of the validation, acquire does not return with a record
\* that it has deployed and not cleaned up.
NoRecordForgotten ==
    /\ stray <= excused
    /\ record => pc \in {"trigger", "poll", "cleanup_valid", "cleanup_error"}

\* The gateway serves an expired certificate only after every check of the renewal
\* window, RenewBefore \div CheckInterval of them, was followed by a failed renewal.
\* (Of a window of no length, renew_before_days left unset, this says nothing.)
ExpiredOnlyAfterFailures ==
    served # None /\ served.left < 0 => failures >= RenewBefore \div CheckInterval

-----------------------------------------------------------------------------
(* Liveness *)

\* The saved URL is not the account of the saved key at the configured CA: a state
\* the program never leaves by itself.
Stranded == acctURL # None /\ acctURL # <<ca, acctKey>>

\* Once errors, crashes and changes of the configuration have ceased, the gateway
\* comes back from any mixture of files they have left, and again and again serves a
\* certificate that is not about to expire; unless it is stranded.
StaysCertified ==
    [](~Stranded) => []<>(proc = "serving" /\ ~IsExpiringSoon(served))

=============================================================================
