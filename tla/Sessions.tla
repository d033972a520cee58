------------------------------ MODULE Sessions ------------------------------
(***************************************************************************)
(* The table sessions, one row per client address: how requests are        *)
(* counted (DB.TouchSession), limited and blocked (sessionMiddleware) and  *)
(* how the hourly counts are reset (DB.ResetHourlyCounts).  TouchSession   *)
(* is a single statement, and its answer alone decides on the request: the *)
(* two are one step.  Every request under /api/jobs passes here, polls of  *)
(* a waiting page and refused requests included.                           *)
(***************************************************************************)
EXTENDS Naturals

CONSTANTS
    IPs,
    RateLimit,      \* Config.RateLimitPerHour
    FlagThreshold,  \* Config.FlagThreshold
    MaxRequests     \* bound on the requests one address makes

ASSUME SessionsAssumption ==
    /\ RateLimit \in Nat
    /\ FlagThreshold \in Nat
    /\ MaxRequests \in Nat

VARIABLES
    count,     \* sessions.hourly_request_count
    total,     \* sessions.total_request_count; 0 where there is no row
    flagged,   \* the addresses with sessions.is_flagged
    quiet,     \* the addresses whose last_request_at is over an hour old
    admitted,  \* requests let through since an hour last went by without one
    served     \* requests ever let through

sessionVars == <<count, total, flagged, quiet, admitted, served>>

Init ==
    /\ count = [ip \in IPs |-> 0]
    /\ total = [ip \in IPs |-> 0]
    /\ flagged = {}
    /\ quiet = {}
    /\ admitted = [ip \in IPs |-> 0]
    /\ served = [ip \in IPs |-> 0]

\* The count a request gets: a new row starts at 1 by its zero total.
NewCount(ip) == IF ip \in quiet THEN 1 ELSE count[ip] + 1

\* Mutant of Flags: flags one request late.
FlagsLate(ip) == total[ip] > 0 /\ total[ip] + 1 > FlagThreshold

\* A new row is never flagged: the CASE is in the UPDATE branch only.
Flags(ip) == total[ip] > 0 /\ total[ip] + 1 >= FlagThreshold

TouchSession(ip) ==
    /\ count' = [count EXCEPT ![ip] = NewCount(ip)]
    /\ total' = [total EXCEPT ![ip] = @ + 1]
    /\ flagged' = IF Flags(ip) THEN flagged \cup {ip} ELSE flagged
    /\ quiet' = quiet \ {ip}

\* Not flagged and not over the limit, by the row TouchSession returned.
Admits(ip) == ip \notin flagged' /\ count'[ip] <= RateLimit

\* The statement may be executed and reported as an error all the same: the
\* request is then counted and not served.
Request(ip) ==
    /\ total[ip] < MaxRequests
    /\ TouchSession(ip)
    /\ \/ /\ Admits(ip)
          /\ admitted' = [admitted EXCEPT ![ip] = @ + 1]
          /\ served' = [served EXCEPT ![ip] = @ + 1]
       \/ UNCHANGED <<admitted, served>>

HourPasses(ip) ==
    /\ total[ip] > 0
    /\ quiet' = quiet \cup {ip}
    /\ admitted' = [admitted EXCEPT ![ip] = 0]
    /\ UNCHANGED <<count, total, flagged, served>>

\* Mutants of ResetHourlyCounts: whatever its age; the wrong column.
ResetAllCounts ==
    /\ \E ip \in IPs : count[ip] > 0
    /\ count' = [ip \in IPs |-> 0]
    /\ UNCHANGED <<total, flagged, quiet, admitted, served>>

ResetTotals ==
    /\ \E ip \in quiet : count[ip] > 0
    /\ total' = [ip \in IPs |-> IF ip \in quiet THEN 0 ELSE total[ip]]
    /\ UNCHANGED <<count, flagged, quiet, admitted, served>>

ResetHourlyCounts ==
    /\ \E ip \in quiet : count[ip] > 0
    /\ count' = [ip \in IPs |-> IF ip \in quiet THEN 0 ELSE count[ip]]
    /\ UNCHANGED <<total, flagged, quiet, admitted, served>>

Next ==
    \/ \E ip \in IPs : Request(ip) \/ HourPasses(ip)
    \/ ResetHourlyCounts

Spec == Init /\ [][Next]_sessionVars

----------------------------------------------------------------------------

\* Every row is well formed, and an hour's requests are among all requests.
SessionsTypeOK ==
    /\ count \in [IPs -> Nat] /\ total \in [IPs -> Nat]
    /\ admitted \in [IPs -> Nat] /\ served \in [IPs -> Nat]
    /\ flagged \in SUBSET IPs /\ quiet \in SUBSET IPs
    /\ \A ip \in IPs : count[ip] <= total[ip]

\* RATE_LIMIT_PER_HOUR: no address has more than RateLimit requests let
\* through without an hour of silence in between, so never more within one
\* hour, although the count is reset at two places: by TouchSession and by
\* the cleanup.
HourlyLimit == \A ip \in IPs : admitted[ip] <= RateLimit

\* The threshold cuts an address off for good: over all hours and resets it
\* never has more than FlagThreshold - 1 requests let through.  The first
\* request of an address gets through whatever the threshold.
LifetimeLimit ==
    \A ip \in IPs : served[ip] < FlagThreshold \/ served[ip] <= 1

\* What LifetimeLimit rests on: who is let through is counted, and who has
\* reached the threshold is flagged from the second request on.
FlagInv ==
    \A ip \in IPs :
        /\ served[ip] <= total[ip]
        /\ ip \notin flagged => total[ip] < FlagThreshold \/ total[ip] <= 1

\* What HourlyLimit rests on: a count covers all that was let through since
\* the last silence, for only a silence resets it.
CountInv ==
    \A ip \in IPs :
        /\ admitted[ip] <= count[ip]
        /\ ip \in quiet => admitted[ip] = 0

=============================================================================
