------------------------------- MODULE Worker -------------------------------
(***************************************************************************)
(* The worker process (cmd/worker): WorkerConcurrency goroutines that take *)
(* jobs from the Redis list and run processJob, each statement of which    *)
(* reads or writes state that the API and the other goroutines share.  The *)
(* goroutines share one context: once SIGTERM has cancelled it, every SQL  *)
(* and Redis call fails, while file operations and tools that do not look  *)
(* at it go on.                                                            *)
(***************************************************************************)
EXTENDS Backend

VARIABLES
    pc,         \* the statement each goroutine runs next
    job,        \* the job it has popped
    sandbox,    \* what the directory TmpDir/<id> of each job holds
    stopping    \* the context is cancelled

workerVars == <<pc, job, sandbox, stopping>>

\* Where the goroutine answers for its job: no other may be working on it.
Claiming == {"mkdir", "fetch", "start", "decrypt", "process", "stat",
             "enc_open", "encrypt", "complete", "retry", "requeue",
             "fail", "fail_no_dir"}

Labels == Claiming \cup {"loop", "brpop", "wipe", "stopped"}

\* An empty set stands for a directory that does not exist.
SandboxEntries == {"dir", "input", "output"}

WorkerTypeOK ==
    /\ pc \in [Workers -> Labels]
    /\ job \in [Workers -> Jobs \cup {NoJob}]
    /\ \A w \in Workers : pc[w] \in Claiming \cup {"wipe"} => job[w] \in Jobs
    /\ sandbox \in [Jobs -> SUBSET SandboxEntries]
    /\ stopping \in BOOLEAN

WorkerInit ==
    /\ pc = [w \in Workers |-> "loop"]
    /\ job = [w \in Workers |-> NoJob]
    /\ sandbox = [j \in Jobs |-> {}]
    /\ stopping = FALSE

\* Goroutine w answers for job j.
Claims(w, j) == pc[w] \in Claiming /\ job[w] = j

Goto(w, label) ==
    /\ pc' = [pc EXCEPT ![w] = label]
    /\ UNCHANGED <<job, stopping>>

\* A statement reports an error.  It may have been executed all the same;
\* where that makes no difference to a success it is not told apart.
SqlError == stopping \/ "db" \in Faults

Put(j, entries) == sandbox' = [sandbox EXCEPT ![j] = @ \cup entries]

----------------------------------------------------------------------------
(* run: the loop around BRPOP.                                             *)

Loop(w) ==
    /\ pc[w] = "loop"
    /\ Goto(w, IF stopping THEN "stopped" ELSE "brpop")
    /\ UNCHANGED <<backendVars, sandbox>>

\* Mutant of Pop: takes the key of BRPOP's reply for the job.
PopKey(w) ==
    /\ pc[w] = "brpop"
    /\ Dequeue
    /\ pc' = [pc EXCEPT ![w] = "mkdir"]
    /\ job' = [job EXCEPT ![w] = NoJob]
    /\ UNCHANGED <<rows, expired, files, sandbox, stopping>>

\* A pop under way is not interrupted by the cancelled context.
Pop(w) ==
    /\ pc[w] = "brpop"
    /\ Dequeue
    /\ \/ /\ pc' = [pc EXCEPT ![w] = "mkdir"]
          /\ job' = [job EXCEPT ![w] = Head(queue)]
       \/ /\ "pop_reply" \in Faults
          /\ pc' = [pc EXCEPT ![w] = "loop"]
          /\ UNCHANGED job
    /\ UNCHANGED <<rows, expired, files, sandbox, stopping>>

\* The timeout over an empty list, or an error, whatever the list holds.
PopNothing(w) ==
    /\ pc[w] = "brpop"
    /\ \/ /\ queue = <<>> \/ "redis" \in Faults
          /\ Goto(w, "loop")
       \/ stopping /\ Goto(w, "stopped")
    /\ UNCHANGED <<backendVars, sandbox>>

----------------------------------------------------------------------------
(* processJob.                                                             *)

MakeSandbox(w) ==
    /\ pc[w] = "mkdir"
    /\ \/ Put(job[w], {"dir"}) /\ Goto(w, "fetch")
       \/ UNCHANGED sandbox /\ Goto(w, "fail_no_dir")
    /\ UNCHANGED backendVars

\* The status decided on here is not looked at again by UpdateJobStarted.
Fetch(w) ==
    /\ pc[w] = "fetch"
    /\ \/ /\ ~stopping
          /\ Goto(w, IF status[job[w]] = "pending" THEN "start" ELSE "wipe")
       \/ SqlError /\ Goto(w, "wipe")
    /\ UNCHANGED <<backendVars, sandbox>>

Start(w) ==
    /\ pc[w] = "start"
    /\ \/ ~stopping /\ UpdateJobStarted(job[w]) /\ Goto(w, "decrypt")
       \/ /\ SqlError
          /\ UpdateJobStarted(job[w]) \/ UNCHANGED rows
          /\ Goto(w, "wipe")
    /\ UNCHANGED <<expired, queue, files, sandbox>>

\* Needs the stored input and a directory to write the plain one to.
Decrypt(w) ==
    /\ pc[w] = "decrypt"
    /\ \/ /\ inputs[job[w]] = "whole" /\ "dir" \in sandbox[job[w]]
          /\ Put(job[w], {"input"})
          /\ Goto(w, "process")
       \/ UNCHANGED sandbox /\ Goto(w, "fail")
    /\ UNCHANGED backendVars

\* dispatch: a tool may fail, time out, or end well with or without output.
Process(w) ==
    /\ pc[w] = "process"
    /\ \/ /\ "input" \in sandbox[job[w]]
          /\ \E made \in {{}, {"output"}} : Put(job[w], made)
          /\ Goto(w, "stat")
       \/ UNCHANGED sandbox /\ Goto(w, "retry")
    /\ UNCHANGED backendVars

Stat(w) ==
    /\ pc[w] = "stat"
    /\ Goto(w, IF "output" \in sandbox[job[w]] THEN "enc_open" ELSE "fail")
    /\ UNCHANGED <<backendVars, sandbox>>

\* Mutant of EncryptOpen: the job is completed before its result is written.
CompleteThenEncrypt(w) ==
    /\ pc[w] = "enc_open"
    /\ outputs' = [outputs EXCEPT ![job[w]] = "partial"]
    /\ UpdateJobCompleted(job[w])
    /\ Goto(w, "encrypt")
    /\ UNCHANGED <<expired, queue, inputs, sandbox>>

\* EncryptFile opens the plain output and truncates the stored one; a file
\* another goroutine is writing is then written by both.
EncryptOpen(w) ==
    LET contended == \E v \in Workers \ {w} :
                        pc[v] = "encrypt" /\ job[v] = job[w]
    IN  /\ pc[w] = "enc_open"
        /\ \/ /\ "output" \in sandbox[job[w]]
              /\ outputs' = [outputs EXCEPT ![job[w]] =
                    IF contended /\ @ # "none" THEN "torn" ELSE "partial"]
              /\ Goto(w, "encrypt")
           \/ UNCHANGED outputs /\ Goto(w, "fail")
        /\ UNCHANGED <<rows, expired, queue, inputs, sandbox>>

\* Mutant of EncryptOutput: the error of EncryptFile is not looked at.
EncryptUnchecked(w) ==
    /\ pc[w] = "encrypt"
    /\ \E c \in {"whole", "none"} : outputs' = [outputs EXCEPT ![job[w]] = c]
    /\ Goto(w, "complete")
    /\ UNCHANGED <<rows, expired, queue, inputs, sandbox>>

\* A failed copy removes the file; a failed Sync leaves it.  A file removed
\* meanwhile stays removed.
EncryptOutput(w) ==
    /\ pc[w] = "encrypt"
    /\ \/ /\ outputs' = [outputs EXCEPT ![job[w]] =
                            IF @ = "partial" THEN "whole" ELSE @]
          /\ Goto(w, "complete") \/ Goto(w, "fail")
       \/ /\ outputs' = [outputs EXCEPT ![job[w]] = "none"]
          /\ Goto(w, "fail")
    /\ UNCHANGED <<rows, expired, queue, inputs, sandbox>>

\* An error is logged and the job left as it is.
Complete(w) ==
    /\ pc[w] = "complete"
    /\ \/ ~stopping /\ UpdateJobCompleted(job[w])
       \/ SqlError /\ UNCHANGED rows
    /\ Goto(w, "wipe")
    /\ UNCHANGED <<expired, queue, files, sandbox>>

----------------------------------------------------------------------------
(* handleProcessError and failJob.                                         *)

\* Mutant of CountRetry: one retry too many.
CountRetryLate(w) ==
    /\ pc[w] = "retry" /\ ~stopping
    /\ IncrementRetryCount(job[w])
    /\ Goto(w, IF retries[job[w]] <= MaxRetries THEN "requeue" ELSE "fail")
    /\ UNCHANGED <<expired, queue, files, sandbox>>

CountRetry(w) ==
    /\ pc[w] = "retry"
    /\ \/ /\ IncrementRetryCount(job[w])
          /\ \/ /\ ~stopping
                /\ Goto(w, IF retries'[job[w]] <= MaxRetries
                           THEN "requeue" ELSE "fail")
             \/ SqlError /\ Goto(w, "fail")
       \/ /\ SqlError \/ ~HasRow(job[w])
          /\ UNCHANGED rows
          /\ Goto(w, "fail")
    /\ UNCHANGED <<expired, queue, files, sandbox>>

\* Mutants of RequeueJob: its error is only logged; the job is failed even
\* after a push that succeeded.
RequeueUnchecked(w) ==
    /\ pc[w] = "requeue"
    /\ Requeue(job[w]) \/ ("redis" \in Faults /\ UNCHANGED queue)
    /\ Goto(w, "wipe")
    /\ UNCHANGED <<rows, expired, files, sandbox>>

RequeueThenFail(w) ==
    /\ pc[w] = "requeue"
    /\ Requeue(job[w])
    /\ Goto(w, "fail")
    /\ UNCHANGED <<rows, expired, files, sandbox>>

RequeueJob(w) ==
    /\ pc[w] = "requeue"
    /\ \/ ~stopping /\ Requeue(job[w]) /\ Goto(w, "wipe")
       \/ /\ "reply" \in Faults /\ ~stopping
          /\ Requeue(job[w])
          /\ Goto(w, "fail")
       \/ stopping /\ UNCHANGED queue /\ Goto(w, "fail")
       \/ "redis" \in Faults /\ UNCHANGED queue /\ Goto(w, "fail")
    /\ UNCHANGED <<rows, expired, files, sandbox>>

\* Mutant of FailJob: only a job that is running is failed.
FailStarted(w) ==
    /\ pc[w] \in {"fail", "fail_no_dir"} /\ ~stopping
    /\ IF status[job[w]] = "processing"
       THEN UpdateJobFailed(job[w]) ELSE UNCHANGED rows
    /\ pc' = [pc EXCEPT ![w] = IF @ = "fail" THEN "wipe" ELSE "loop"]
    /\ UNCHANGED <<job, expired, queue, files, sandbox, stopping>>

\* Without a sandbox of its own there is no deferred removal to run.
FailJob(w) ==
    /\ pc[w] \in {"fail", "fail_no_dir"}
    /\ \/ ~stopping /\ UpdateJobFailed(job[w])
       \/ SqlError /\ UNCHANGED rows
    /\ pc' = [pc EXCEPT ![w] = IF @ = "fail" THEN "wipe" ELSE "loop"]
    /\ job' = [job EXCEPT ![w] = IF pc[w] = "fail" THEN @ ELSE NoJob]
    /\ UNCHANGED <<expired, queue, files, sandbox, stopping>>

\* The deferred os.RemoveAll, whoever works in the directory by now.
Wipe(w) ==
    /\ pc[w] = "wipe"
    /\ sandbox' = [sandbox EXCEPT ![job[w]] = {}]
    /\ pc' = [pc EXCEPT ![w] = "loop"]
    /\ job' = [job EXCEPT ![w] = NoJob]
    /\ UNCHANGED <<backendVars, stopping>>

WorkerStep(w) ==
    \/ Loop(w) \/ Pop(w) \/ PopNothing(w)
    \/ MakeSandbox(w) \/ Fetch(w) \/ Start(w) \/ Decrypt(w)
    \/ Process(w) \/ Stat(w) \/ EncryptOpen(w) \/ EncryptOutput(w)
    \/ Complete(w) \/ CountRetry(w) \/ RequeueJob(w) \/ FailJob(w) \/ Wipe(w)

----------------------------------------------------------------------------
(* The process: main, and the container that starts it again.              *)

Sigterm ==
    /\ "sigterm" \in Faults /\ ~stopping
    /\ stopping' = TRUE
    /\ UNCHANGED <<backendVars, pc, job, sandbox>>

\* A new process finds an empty tmpfs and no job in hand.
Restart ==
    /\ pc' = [w \in Workers |-> "loop"]
    /\ job' = [w \in Workers |-> NoJob]
    /\ sandbox' = [j \in Jobs |-> {}]
    /\ stopping' = FALSE
    /\ UNCHANGED backendVars

\* main returns when all goroutines have stopped or two minutes are over.
Exit == stopping /\ Restart

Crash == "crash" \in Faults /\ Restart

WorkerNext == (\E w \in Workers : WorkerStep(w)) \/ Sigterm \/ Exit \/ Crash

=============================================================================
