------------------------------ MODULE Backend ------------------------------
(***************************************************************************)
(* The state the API and the worker share and the operations they run on   *)
(* it: the PostgreSQL table jobs (internal/database), the Redis list       *)
(* fileforge:jobs:pending (internal/queue) and the encrypted files of the  *)
(* storage volume (internal/storage).  One SQL statement or Redis command  *)
(* is one atomic operator; the components decide when it runs and what     *)
(* they do when it reports an error.                                       *)
(***************************************************************************)
EXTENDS Naturals, Sequences

CONSTANTS
    Jobs,         \* job ids; every upload draws a fresh one
    Workers,      \* the worker goroutines of cmd/worker
    NoJob,        \* what an idle goroutine holds
    MaxRetries,   \* Config.Retries of the jobs' operation
    Faults        \* the faults the environment may produce

FaultKinds ==
    {"db",         \* a SQL statement reports an error, executed or not
     "redis",      \* a Redis command reports an error and was not executed
     "reply",      \* a push was executed, but its reply was lost
     "pop_reply",  \* a pop was executed, but its reply was lost
     "evict",      \* Redis drops the list to make room
     "crash",      \* the worker process dies
     "sigterm",    \* the worker process is told to stop
     "api_crash",  \* the API process dies
     "client"}     \* the client of an upload disconnects

ASSUME BackendAssumption ==
    /\ NoJob \notin Jobs
    /\ MaxRetries \in Nat
    /\ Faults \subseteq FaultKinds

VARIABLES
    status,    \* jobs.status, or "none" where there is no row
    retries,   \* jobs.retry_count
    expired,   \* the jobs whose expires_at has passed
    queue,     \* the Redis list; its head is the end BRPOP takes from
    inputs,    \* the file storage/inputs/<id>
    outputs    \* the file storage/outputs/<id>

rows  == <<status, retries>>
files == <<inputs, outputs>>
backendVars == <<status, retries, expired, queue, inputs, outputs>>

Statuses == {"pending", "processing", "completed", "failed"}

\* A file is absent, cut short, complete, or written by two writers at once.
Contents == {"none", "partial", "whole", "torn"}

BackendTypeOK ==
    /\ status \in [Jobs -> Statuses \cup {"none"}]
    /\ retries \in [Jobs -> Nat]
    /\ expired \in SUBSET Jobs
    /\ queue \in Seq(Jobs)
    /\ inputs \in [Jobs -> Contents]
    /\ outputs \in [Jobs -> Contents]

BackendInit ==
    /\ status = [j \in Jobs |-> "none"]
    /\ retries = [j \in Jobs |-> 0]
    /\ expired = {}
    /\ queue = <<>>
    /\ inputs = [j \in Jobs |-> "none"]
    /\ outputs = [j \in Jobs |-> "none"]

HasRow(j) == status[j] # "none"

InQueue(j) == \E i \in 1..Len(queue) : queue[i] = j

----------------------------------------------------------------------------
(* The table jobs.                                                         *)

CreateJob(j) ==
    /\ status' = [status EXCEPT ![j] = "pending"]
    /\ retries' = [retries EXCEPT ![j] = 0]

\* UPDATE ... WHERE id = $1: without a row it changes nothing and reports
\* no error.
SetStatus(j, s) ==
    /\ status' = [status EXCEPT ![j] = IF @ = "none" THEN "none" ELSE s]
    /\ UNCHANGED retries

UpdateJobStarted(j) == SetStatus(j, "processing")

UpdateJobCompleted(j) == SetStatus(j, "completed")

UpdateJobFailed(j) == SetStatus(j, "failed")

\* UPDATE ... RETURNING: without a row the scan of its result is an error.
IncrementRetryCount(j) ==
    /\ HasRow(j)
    /\ status' = [status EXCEPT ![j] = "pending"]
    /\ retries' = [retries EXCEPT ![j] = @ + 1]

DeleteJobs(S) ==
    /\ status' = [j \in Jobs |-> IF j \in S THEN "none" ELSE status[j]]
    /\ retries' = [j \in Jobs |-> IF j \in S THEN 0 ELSE retries[j]]

DeleteJob(j) == DeleteJobs({j})

\* Mutant of ExpiredJobs: only ended jobs are looked for.
ExpiredEndedJobs == {j \in expired : status[j] \in {"completed", "failed"}}

ExpiredJobs == {j \in expired : HasRow(j)}

CleanupExpiredJobs == DeleteJobs(ExpiredJobs)

----------------------------------------------------------------------------
(* The Redis list.                                                         *)

\* What one push leaves in the list.  queue.New keeps the client's default
\* of sending a command again when its reply does not arrive.
Copies(j) == {<<j>>} \cup (IF "reply" \in Faults THEN {<<j, j>>} ELSE {})

Enqueue(j) == \E c \in Copies(j) : queue' = queue \o c

Requeue(j) == \E c \in Copies(j) : queue' = c \o queue

Dequeue ==
    /\ queue # <<>>
    /\ queue' = Tail(queue)

\* maxmemory-policy allkeys-lru: the list is a key like any other.
Evict ==
    /\ "evict" \in Faults /\ queue # <<>>
    /\ queue' = <<>>
    /\ UNCHANGED <<rows, expired, files>>

----------------------------------------------------------------------------
(* The storage volume.                                                     *)

DeleteJobFiles(j) ==
    /\ inputs' = [inputs EXCEPT ![j] = "none"]
    /\ outputs' = [outputs EXCEPT ![j] = "none"]

=============================================================================
