----------------------------- MODULE FileForge -----------------------------
(***************************************************************************)
(* The whole service: API, worker, and the state they share.  Steps of the *)
(* two processes interleave freely.                                        *)
(***************************************************************************)
EXTENDS Api, Worker

vars == <<backendVars, apiVars, workerVars>>

Init == BackendInit /\ ApiInit /\ WorkerInit

Next ==
    \/ ApiNext /\ UNCHANGED workerVars
    \/ WorkerNext /\ UNCHANGED apiVars
    \/ Evict /\ UNCHANGED <<apiVars, workerVars>>

Spec == Init /\ [][Next]_vars

\* A goroutine that can run does, and tools are ended by their timeout.  A pop
\* may fail any number of times, for run tries again, but not all pops over a
\* list that has entries do.
WorkerFairness ==
    /\ \A w \in Workers : WF_vars(WorkerStep(w) /\ UNCHANGED apiVars)
    /\ SF_vars((\E w \in Workers : Pop(w)) /\ UNCHANGED apiVars)

\* Time passes, the cleanup ticker fires, and not every DELETE of the cleanup
\* fails.
RetentionFairness ==
    /\ \A j \in Jobs : WF_vars(Expire(j) /\ UNCHANGED workerVars)
    /\ WF_vars(Sweep /\ UNCHANGED workerVars)
    /\ \A j \in Jobs : WF_vars(SweepFiles(j) /\ UNCHANGED workerVars)

LiveSpec == Spec /\ WorkerFairness

RetentionSpec == Spec /\ RetentionFairness

----------------------------------------------------------------------------
(* Invariants.                                                             *)

TypeOK == BackendTypeOK /\ ApiTypeOK /\ WorkerTypeOK

\* A job is answered for at most once: it has at most one entry in the Redis
\* list, no goroutine works on it while it has one, and no two goroutines
\* work on it.  Nothing in the database enforces this (Fetch and Start are
\* two statements); it rests on who pushes when.
ExclusiveClaim ==
    \A j \in Jobs :
        /\ \A a, b \in 1..Len(queue) :
              queue[a] = j /\ queue[b] = j => a = b
        /\ \A w \in Workers : Claims(w, j) => ~InQueue(j)
        /\ \A w, v \in Workers : Claims(w, j) /\ Claims(v, j) => w = v

\* Once a client is told "completed" the encrypted result is there, complete,
\* until the row is removed: EncryptFile ends before UpdateJobCompleted, the
\* row goes before the files, and nobody writes the file again.
CompletedHasOutput ==
    \A j \in Jobs : status[j] = "completed" => outputs[j] = "whole"

\* handleDownload opens the file after it looked at the row: what it opens
\* then is the complete result or nothing, whatever ran in between.
DownloadIsWhole == \A j \in found : outputs[j] \in {"none", "whole"}

\* As long as an accepted job has a row its stored input is complete, so
\* every retry can read it: the compensations of an upload and the deletions
\* take the row first.
InputKept ==
    \A j \in Jobs : upload[j] = "accepted" /\ HasRow(j) => inputs[j] = "whole"

\* No accepted job is forgotten: one that waits is in the list or in the
\* hands of a goroutine, and one that is "processing" is in the hands of a
\* goroutine that will still write its status.
NothingForgotten ==
    \A j \in Jobs :
        /\ upload[j] = "accepted" /\ status[j] = "pending" =>
              InQueue(j) \/ \E w \in Workers : Claims(w, j)
        /\ status[j] = "processing" => \E w \in Workers : Claims(w, j)

\* An uploaded file never loses the last one who would remove it: there is a
\* row for the cleanup to find, or a handler about to remove the file.
InputHasOwner ==
    \A j \in Jobs : inputs[j] # "none" =>
        HasRow(j) \/ j \in deleting \cup sweeping \/ upload[j] = "undo_files"

----------------------------------------------------------------------------
(* What the invariants rest on; together they are inductive.               *)

\* Nothing refers to a job that has not been created, and what is being
\* removed has no row any more: a row once gone does not come back.
FreshUploads ==
    \A j \in Jobs : upload[j] = "new" =>
        ~HasRow(j) /\ j \notin deleting \cup sweeping \cup found

GoneStaysGone == \A j \in deleting \cup sweeping : ~HasRow(j)

InputReady ==
    \A j \in Jobs : upload[j] \in {"enqueue", "accepted"} /\ HasRow(j) =>
        inputs[j] = "whole"

KeptInv == FreshUploads /\ GoneStaysGone /\ InputReady

\* Until its upload ends a job keeps its row, and it has no file before
\* CreateInput; so does a job whose row is all there is to take back.
OwnerInv ==
    /\ \A j \in Jobs : upload[j] \in {"new", "create_input", "undo_row_only"} =>
          inputs[j] = "none"
    /\ \A j \in Jobs : upload[j] \in InFlight \ {"undo_files"} =>
          HasRow(j) /\ j \notin expired
    /\ \A j \in expired : upload[j] \in {"accepted", "closed"}
    /\ InputHasOwner

Idle(j) == ~InQueue(j) /\ \A w \in Workers : ~Claims(w, j)

\* An upload pushes its job last, and once.
IdleUntilAccepted == \A j \in Jobs : upload[j] # "accepted" => Idle(j)

ClaimInv == ExclusiveClaim /\ IdleUntilAccepted

\* The only goroutine that may touch a job's row or output is the one that
\* answers for it, and none answers for a job that has completed.
OutputInv ==
    /\ \A j \in Jobs : upload[j] # "accepted" =>
          status[j] \in {"none", "pending"}
    /\ \A j \in Jobs : status[j] = "completed" =>
          Idle(j) /\ outputs[j] = "whole"
    /\ \A j \in found : /\ Idle(j) /\ upload[j] = "accepted"
                        /\ status[j] \in {"completed", "none"}
                        /\ outputs[j] \in {"none", "whole"}
    /\ \A w \in Workers : pc[w] = "encrypt" /\ HasRow(job[w]) =>
          outputs[job[w]] = "partial"
    /\ \A w \in Workers : pc[w] = "complete" /\ HasRow(job[w]) =>
          outputs[job[w]] = "whole"

\* A job that has retries left and that no goroutine has begun to run.
Waiting(j) == status[j] \in {"none", "pending"} /\ retries[j] <= MaxRetries

Running == {"decrypt", "process", "stat", "enc_open", "encrypt", "complete",
            "retry"}

\* Even where several goroutines run one job: of those that have begun, one
\* has not yet written how its run ended.
RunAttended ==
    \A j \in Jobs : status[j] = "processing" =>
        \E w \in Workers : job[w] = j /\ pc[w] \in Running \cup {"fail"}

\* The status of a job tells where the goroutine that answers for it is,
\* although Fetch is the only statement that looks at it: a job that waits in
\* the list or in a goroutine's hands is not running, and one that runs is
\* changed by its own goroutine alone.
PhaseInv ==
    /\ \A j \in Jobs : ~HasRow(j) => retries[j] = 0
    /\ \A j \in Jobs : upload[j] # "accepted" \/ InQueue(j) => Waiting(j)
    /\ \A w \in Workers :
          /\ pc[w] \in Claiming \ (Running \cup {"fail"}) => Waiting(job[w])
          /\ pc[w] \in Running => status[job[w]] \in {"none", "processing"}
          /\ pc[w] = "fail" =>
                status[job[w]] \in {"none", "pending", "processing"}

----------------------------------------------------------------------------
(* What a client sees is the promised life of a job.                       *)

ClientView(j) ==
    IF HasRow(j) THEN status[j]
    ELSE IF upload[j] = "new" THEN "absent" ELSE "gone"

Promise == INSTANCE JobStatus WITH
    state <- [j \in Jobs |-> ClientView(j)],
    tries <- retries

\* The statuses of a job follow JobStatus: an ended job never changes again
\* although no UPDATE of the worker looks at the status it replaces, and a
\* run starts at most MaxRetries + 1 times.
KeepsPromise == Promise!Spec

----------------------------------------------------------------------------
(* Liveness.                                                               *)

\* Every accepted job ends, or is removed: no failure of a tool, of a push
\* or of the API process leaves it waiting or running for ever.
EveryJobEnds ==
    \A j \in Jobs :
        upload[j] = "accepted" ~> status[j] \in {"completed", "failed", "none"}

\* However a job got stuck, a row whose upload ended is removed in the end.
RowsAreRemoved ==
    \A j \in Jobs :
        (HasRow(j) /\ upload[j] \in {"accepted", "closed"}) ~> ~HasRow(j)

----------------------------------------------------------------------------
(* Statements of the documentation that runs refute.                       *)

\* README, Automated Cleanup: with its record a job's input and output files
\* are deleted.  Once nobody has anything left to do for a job without a row
\* there is no file of it.
NoFilesWithoutRow ==
    \A j \in Jobs :
        /\ upload[j] \in {"accepted", "closed"} /\ ~HasRow(j)
        /\ j \notin deleting \cup sweeping
        /\ \A w \in Workers : ~Claims(w, j)
        => inputs[j] = "none" /\ outputs[j] = "none"

\* cmd/worker main, "All worker goroutines stopped gracefully": then no job
\* is left running.
GracefulStopFinishesJobs ==
    stopping /\ (\A w \in Workers : pc[w] = "stopped") =>
        \A j \in Jobs : status[j] # "processing"

\* README, Secure Worker Processing: the input is decrypted into a sandbox
\* and processed there.  The tool that is about to read it finds it.
SandboxHoldsInput ==
    \A w \in Workers : pc[w] = "process" => "input" \in sandbox[job[w]]

=============================================================================
