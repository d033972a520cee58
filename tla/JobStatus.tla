----------------------------- MODULE JobStatus -----------------------------
(***************************************************************************)
(* What the service promises about the status of a job, as a client that   *)
(* polls GET /api/jobs/{id} may rely on it: a job waits, runs, possibly    *)
(* waits again for at most MaxRetries retries, and ends completed or       *)
(* failed; what has ended never changes any more, and a removed job never  *)
(* comes back.                                                             *)
(***************************************************************************)
EXTENDS Naturals

CONSTANTS Jobs, MaxRetries

VARIABLES state, tries

vars == <<state, tries>>

Init ==
    /\ state = [j \in Jobs |-> "absent"]
    /\ tries = [j \in Jobs |-> 0]

Move(j, from, to) ==
    /\ state[j] \in from
    /\ state' = [state EXCEPT ![j] = to]

Create(j) == Move(j, {"absent"}, "pending") /\ UNCHANGED tries

Reject(j) == Move(j, {"absent"}, "gone") /\ UNCHANGED tries

Start(j) ==
    /\ tries[j] <= MaxRetries
    /\ Move(j, {"pending"}, "processing")
    /\ UNCHANGED tries

Retry(j) ==
    /\ Move(j, {"processing"}, "pending")
    /\ tries' = [tries EXCEPT ![j] = @ + 1]

Finish(j) == Move(j, {"processing"}, "completed") /\ UNCHANGED tries

Fail(j) == Move(j, {"pending", "processing"}, "failed") /\ UNCHANGED tries

\* A deletion by the client removes one job, the cleanup any number.
Remove(S) ==
    /\ S # {} /\ \A j \in S : state[j] \notin {"absent", "gone"}
    /\ state' = [j \in Jobs |-> IF j \in S THEN "gone" ELSE state[j]]
    /\ tries' = [j \in Jobs |-> IF j \in S THEN 0 ELSE tries[j]]

Next ==
    \/ \E j \in Jobs : \/ Create(j) \/ Reject(j) \/ Start(j)
                       \/ Retry(j) \/ Finish(j) \/ Fail(j)
    \/ \E S \in SUBSET Jobs : Remove(S)

Spec == Init /\ [][Next]_vars

=============================================================================
