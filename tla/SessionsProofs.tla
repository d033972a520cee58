--------------------------- MODULE SessionsProofs ---------------------------
(***************************************************************************)
(* The two limits hold for every number of addresses, every configuration  *)
(* of RATE_LIMIT_PER_HOUR and FLAG_THRESHOLD and any number of requests.   *)
(***************************************************************************)
EXTENDS Sessions, TLAPS

\* The rows stay well formed through TouchSession and ResetHourlyCounts.
THEOREM SessionsTyping == Spec => []SessionsTypeOK
<1>1. Init => SessionsTypeOK
  BY SMT DEF Init, SessionsTypeOK
<1>2. SessionsTypeOK /\ [Next]_sessionVars => SessionsTypeOK'
  <2> SUFFICES ASSUME SessionsTypeOK, [Next]_sessionVars
               PROVE  SessionsTypeOK'
    OBVIOUS
  <2>1. ASSUME NEW ip \in IPs, Request(ip) PROVE SessionsTypeOK'
    <3>1. /\ count' \in [IPs -> Nat] /\ total' \in [IPs -> Nat]
          /\ admitted' \in [IPs -> Nat] /\ served' \in [IPs -> Nat]
      BY <2>1 DEF SessionsTypeOK, Request, TouchSession, NewCount
    <3>2. flagged' \in SUBSET IPs /\ quiet' \in SUBSET IPs
      BY <2>1 DEF SessionsTypeOK, Request, TouchSession
    <3>3. \A p \in IPs : count'[p] <= total'[p]
      BY <2>1 DEF SessionsTypeOK, Request, TouchSession, NewCount
    <3> QED BY <3>1, <3>2, <3>3 DEF SessionsTypeOK
  <2>2. ASSUME NEW ip \in IPs, HourPasses(ip) PROVE SessionsTypeOK'
    BY <2>2 DEF SessionsTypeOK, HourPasses
  <2>3. CASE ResetHourlyCounts
    BY <2>3 DEF SessionsTypeOK, ResetHourlyCounts
  <2>4. CASE UNCHANGED sessionVars
    BY <2>4 DEF SessionsTypeOK, sessionVars
  <2> QED BY <2>1, <2>2, <2>3, <2>4 DEF Next
<1> QED BY <1>1, <1>2, PTL DEF Spec

\* What was let through since the last silence never exceeds the count that
\* sessionMiddleware compares with the limit.
LEMMA Counting == Spec => [](CountInv /\ HourlyLimit)
<1>1. Init => CountInv /\ HourlyLimit
  BY SessionsAssumption DEF Init, CountInv, HourlyLimit
<1>2. SessionsTypeOK /\ CountInv /\ HourlyLimit /\ [Next]_sessionVars
        => (CountInv /\ HourlyLimit)'
  <2> SUFFICES ASSUME SessionsTypeOK, CountInv, HourlyLimit, [Next]_sessionVars
               PROVE  CountInv' /\ HourlyLimit'
    OBVIOUS
  <2> USE SessionsAssumption DEF SessionsTypeOK, CountInv, HourlyLimit
  <2>1. ASSUME NEW ip \in IPs, Request(ip) PROVE CountInv' /\ HourlyLimit'
    <3>1. admitted'[ip] <= count'[ip] /\ admitted'[ip] <= RateLimit
      <4>1. CASE /\ Admits(ip)
                 /\ admitted' = [admitted EXCEPT ![ip] = @ + 1]
        BY <2>1, <4>1 DEF Request, TouchSession, NewCount, Admits
      <4>2. CASE UNCHANGED admitted
        BY <2>1, <4>2 DEF Request, TouchSession, NewCount
      <4> QED BY <2>1, <4>1, <4>2 DEF Request
    <3>2. \A p \in IPs \ {ip} : /\ admitted'[p] = admitted[p]
                                /\ count'[p] = count[p]
      BY <2>1 DEF Request, TouchSession
    <3>3. quiet' = quiet \ {ip}
      BY <2>1 DEF Request, TouchSession
    <3> QED BY <3>1, <3>2, <3>3
  <2>2. ASSUME NEW ip \in IPs, HourPasses(ip) PROVE CountInv' /\ HourlyLimit'
    BY <2>2 DEF HourPasses
  <2>3. CASE ResetHourlyCounts
    BY <2>3 DEF ResetHourlyCounts
  <2>4. CASE UNCHANGED sessionVars
    BY <2>4 DEF sessionVars
  <2> QED BY <2>1, <2>2, <2>3, <2>4 DEF Next
<1> QED BY <1>1, <1>2, SessionsTyping, PTL DEF Spec

\* Whoever has reached the threshold is flagged and stays so, whatever the
\* cleanup does to the counts.
LEMMA Flagging == Spec => [](FlagInv /\ LifetimeLimit)
<1>1. Init => FlagInv /\ LifetimeLimit
  BY SessionsAssumption DEF Init, FlagInv, LifetimeLimit
<1>2. SessionsTypeOK /\ FlagInv /\ LifetimeLimit /\ [Next]_sessionVars
        => (FlagInv /\ LifetimeLimit)'
  <2> SUFFICES ASSUME SessionsTypeOK, FlagInv, LifetimeLimit,
                      [Next]_sessionVars
               PROVE  FlagInv' /\ LifetimeLimit'
    OBVIOUS
  <2> USE SessionsAssumption DEF SessionsTypeOK, FlagInv, LifetimeLimit
  <2>1. ASSUME NEW ip \in IPs, Request(ip) PROVE FlagInv' /\ LifetimeLimit'
    <3>1. /\ total'[ip] = total[ip] + 1
          /\ served'[ip] \in {served[ip], served[ip] + 1}
      BY <2>1 DEF Request, TouchSession
    <3>2. ip \notin flagged' => total'[ip] < FlagThreshold \/ total'[ip] <= 1
      BY <2>1, <3>1 DEF Request, TouchSession, Flags
    <3>3. served'[ip] # served[ip] => ip \notin flagged'
      BY <2>1 DEF Request, Admits
    <3>4. \A p \in IPs \ {ip} : /\ served'[p] = served[p]
                                /\ total'[p] = total[p]
                                /\ p \in flagged' <=> p \in flagged
      BY <2>1 DEF Request, TouchSession
    <3>5. /\ served'[ip] <= total'[ip]
          /\ served'[ip] < FlagThreshold \/ served'[ip] <= 1
      BY <3>1, <3>2, <3>3
    <3> QED BY <3>2, <3>4, <3>5
  <2>2. ASSUME NEW ip \in IPs, HourPasses(ip) PROVE FlagInv' /\ LifetimeLimit'
    BY <2>2 DEF HourPasses
  <2>3. CASE ResetHourlyCounts
    BY <2>3 DEF ResetHourlyCounts
  <2>4. CASE UNCHANGED sessionVars
    BY <2>4 DEF sessionVars
  <2> QED BY <2>1, <2>2, <2>3, <2>4 DEF Next
<1> QED BY <1>1, <1>2, SessionsTyping, PTL DEF Spec

\* No address has more than RateLimit requests let through between two hours
\* of silence, hence in any hour.
THEOREM HourlyLimitHolds == Spec => []HourlyLimit
BY Counting, PTL

\* No address has FlagThreshold or more requests let through in its life.
THEOREM LifetimeLimitHolds == Spec => []LifetimeLimit
BY Flagging, PTL

=============================================================================
