----------------------------- MODULE MCDNSPolicy -----------------------------
EXTENDS DNSPolicy, TLC

CONSTANTS n0, n1, n2, n3

Plain == [propagation |-> TRUE, timeout_seconds |-> 0, poll_seconds |-> 0,
          min_consecutive |-> 0, quorum_percent |-> 0, settle_seconds |-> 0,
          delegation |-> FALSE, mode |-> "", suffixes |-> {}]

\* Policies for the wait (without delegation) and for the walk (without a wait),
\* and sections that Load refuses.
MCPolicy ==
    {[Plain EXCEPT !.min_consecutive = k, !.quorum_percent = q, !.settle_seconds = s] :
        k \in {0, 1}, q \in {0, 34, 67}, s \in {-1, 1}} \union
    {[Plain EXCEPT !.propagation = FALSE, !.delegation = TRUE, !.mode = m, !.suffixes = z] :
        m \in {"", "permissive"}, z \in SUBSET Zone} \union
    {[Plain EXCEPT !.min_consecutive = -1], [Plain EXCEPT !.quorum_percent = 101]}

\* No CNAME, chains of one to three records, a loop, a chain that runs into a loop.
MCRecords ==
    LET With(f) == [n \in Name |-> IF n \in DOMAIN f THEN f[n] ELSE n] IN
    {With(f) : f \in {[n \in {} |-> n], n0 :> n1, n0 :> n1 @@ n1 :> n2,
                      n0 :> n1 @@ n1 :> n2 @@ n2 :> n3,
                      n0 :> n1 @@ n1 :> n0, n0 :> n1 @@ n1 :> n2 @@ n2 :> n1}}

\* All but the source and n2 lie in the one zone of the policies.
MCInZone == (Name \ {n0, n2}) \X Zone

=============================================================================
