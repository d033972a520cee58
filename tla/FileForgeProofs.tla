-------------------------- MODULE FileForgeProofs --------------------------
(***************************************************************************)
(* Proofs about FileForge, for any sets of jobs and goroutines, any retry  *)
(* limit and any set of faults a theorem does not exclude.                 *)
(***************************************************************************)
EXTENDS FileForge, SequenceTheorems, TLAPS

----------------------------------------------------------------------------
(* Type correctness.                                                       *)

\* What the operators on the shared state leave behind is well typed.
LEMMA QueueTypes ==
    ASSUME queue \in Seq(Jobs), NEW j \in Jobs
    PROVE  /\ Enqueue(j) => queue' \in Seq(Jobs)
           /\ Requeue(j) => queue' \in Seq(Jobs)
           /\ Dequeue => queue' \in Seq(Jobs) /\ Head(queue) \in Jobs
<1>1. <<j>> \in Seq(Jobs) /\ <<j, j>> \in Seq(Jobs)
  OBVIOUS
<1>2. \A c \in Copies(j) : c \in Seq(Jobs)
  BY <1>1 DEF Copies
<1>3. \A c \in Seq(Jobs) : queue \o c \in Seq(Jobs) /\ c \o queue \in Seq(Jobs)
  OBVIOUS
<1>4. ASSUME queue # <<>>
      PROVE  Tail(queue) \in Seq(Jobs) /\ Head(queue) \in Jobs
  BY <1>4, HeadTailProperties
<1> QED
  BY <1>2, <1>3, <1>4 DEF Enqueue, Requeue, Dequeue

RowsTyped ==
    status \in [Jobs -> Statuses \cup {"none"}] /\ retries \in [Jobs -> Nat]

FilesTyped == inputs \in [Jobs -> Contents] /\ outputs \in [Jobs -> Contents]

LEMMA RowTypes ==
    ASSUME RowsTyped, NEW j \in Jobs, NEW S
    PROVE  /\ CreateJob(j) => RowsTyped'
           /\ UpdateJobStarted(j) => RowsTyped'
           /\ UpdateJobCompleted(j) => RowsTyped'
           /\ UpdateJobFailed(j) => RowsTyped'
           /\ IncrementRetryCount(j) => RowsTyped'
           /\ DeleteJobs(S) => RowsTyped'
           /\ UNCHANGED rows => RowsTyped'
<1>1. ASSUME NEW s \in Statuses, SetStatus(j, s)
      PROVE  RowsTyped'
  BY <1>1 DEF RowsTyped, SetStatus
<1>2. {"pending", "processing", "completed", "failed"} \subseteq Statuses
  BY DEF Statuses
<1>3. CreateJob(j) => RowsTyped'
  BY <1>2 DEF RowsTyped, CreateJob
<1>4. IncrementRetryCount(j) => RowsTyped'
  BY <1>2 DEF RowsTyped, IncrementRetryCount
<1>5. DeleteJobs(S) => RowsTyped'
  BY DEF RowsTyped, DeleteJobs
<1>6. UNCHANGED rows => RowsTyped'
  BY DEF RowsTyped, rows
<1> QED
  BY <1>1, <1>2, <1>3, <1>4, <1>5, <1>6
  DEF UpdateJobStarted, UpdateJobCompleted, UpdateJobFailed

LEMMA FileTypes ==
    ASSUME FilesTyped, NEW j \in Jobs
    PROVE  DeleteJobFiles(j) => FilesTyped'
BY DEF FilesTyped, DeleteJobFiles, Contents

LEMMA TypeOKSplit ==
    BackendTypeOK <=> /\ RowsTyped /\ FilesTyped
                      /\ expired \in SUBSET Jobs
                      /\ queue \in Seq(Jobs)
BY DEF BackendTypeOK, RowsTyped, FilesTyped

\* A step of the API keeps its own state and the shared one well typed.
LEMMA ApiTypes ==
    ASSUME BackendTypeOK, ApiTypeOK, ApiNext
    PROVE  BackendTypeOK' /\ ApiTypeOK'
<1> USE DEF ApiTypeOK, UploadStates, InFlight, UploadGoto, backendVars, rows,
        files, RowsTyped, FilesTyped
<1>0. RowsTyped /\ FilesTyped /\ expired \in SUBSET Jobs /\ queue \in Seq(Jobs)
  BY TypeOKSplit
<1> SUFFICES /\ RowsTyped' /\ FilesTyped' /\ ApiTypeOK'
             /\ expired' \in SUBSET Jobs /\ queue' \in Seq(Jobs)
  BY DEF BackendTypeOK
<1>1. ASSUME NEW j \in Jobs, Upload(j)
      PROVE  /\ RowsTyped' /\ FilesTyped' /\ ApiTypeOK'
             /\ expired' \in SUBSET Jobs /\ queue' \in Seq(Jobs)
  <2>1. CASE CreateRow(j)
    BY <1>0, <2>1, RowTypes DEF CreateRow
  <2>2. CASE CreateInput(j)
    BY <1>0, <2>2 DEF CreateInput, Contents
  <2>3. CASE EncryptInput(j)
    BY <1>0, <2>3 DEF EncryptInput, Contents
  <2>4. CASE EnqueueUpload(j)
    BY <1>0, <2>4, QueueTypes DEF EnqueueUpload
  <2>5. CASE UndoRow(j)
    BY <1>0, <2>5, RowTypes DEF UndoRow, DeleteJob
  <2>6. CASE UndoFiles(j)
    BY <1>0, <2>6, FileTypes DEF UndoFiles
  <2> QED
    BY <1>1, <2>1, <2>2, <2>3, <2>4, <2>5, <2>6 DEF Upload
<1>2. ASSUME NEW j \in Jobs, DeleteRow(j)
      PROVE  /\ RowsTyped' /\ FilesTyped' /\ ApiTypeOK'
             /\ expired' \in SUBSET Jobs /\ queue' \in Seq(Jobs)
  BY <1>0, <1>2, RowTypes DEF DeleteRow, DeleteJob
<1>3. ASSUME NEW j \in Jobs, DeleteFiles(j) \/ SweepFiles(j)
      PROVE  /\ RowsTyped' /\ FilesTyped' /\ ApiTypeOK'
             /\ expired' \in SUBSET Jobs /\ queue' \in Seq(Jobs)
  BY <1>0, <1>3, FileTypes DEF DeleteFiles, SweepFiles
<1>4. ASSUME NEW j \in Jobs,
             DownloadLookup(j) \/ DownloadOpen(j) \/ Expire(j)
      PROVE  /\ RowsTyped' /\ FilesTyped' /\ ApiTypeOK'
             /\ expired' \in SUBSET Jobs /\ queue' \in Seq(Jobs)
  BY <1>0, <1>4 DEF DownloadLookup, DownloadOpen, Expire, apiVars
<1>5. ASSUME Sweep
      PROVE  /\ RowsTyped' /\ FilesTyped' /\ ApiTypeOK'
             /\ expired' \in SUBSET Jobs /\ queue' \in Seq(Jobs)
  <2>1. RowsTyped'
    BY <1>0, <1>5 DEF Sweep, CleanupExpiredJobs, DeleteJobs
  <2> QED
    BY <1>0, <1>5, <2>1 DEF Sweep, ExpiredJobs
<1>6. ASSUME ApiCrash
      PROVE  /\ RowsTyped' /\ FilesTyped' /\ ApiTypeOK'
             /\ expired' \in SUBSET Jobs /\ queue' \in Seq(Jobs)
  BY <1>0, <1>6 DEF ApiCrash
<1> QED
  BY <1>1, <1>2, <1>3, <1>4, <1>5, <1>6 DEF ApiNext, ApiStep

LEMMA WorkerTypes ==
    ASSUME BackendTypeOK, WorkerTypeOK, WorkerNext
    PROVE  BackendTypeOK' /\ WorkerTypeOK'
<1> USE DEF WorkerTypeOK, Labels, Claiming, SandboxEntries, Goto, Put,
        backendVars, rows, files
<1> DEFINE SharedTyped == /\ RowsTyped /\ FilesTyped
                          /\ expired \in SUBSET Jobs /\ queue \in Seq(Jobs)
<1>0. SharedTyped
  BY TypeOKSplit
<1> SUFFICES SharedTyped' /\ WorkerTypeOK'
  BY DEF BackendTypeOK, RowsTyped, FilesTyped
<1>1. UNCHANGED backendVars => SharedTyped'
  BY <1>0 DEF RowsTyped, FilesTyped
<1>2. UNCHANGED <<expired, queue, files>> /\ RowsTyped' => SharedTyped'
  BY <1>0 DEF FilesTyped
<1> HIDE DEF SharedTyped
<1>3. ASSUME NEW w \in Workers, WorkerStep(w)
      PROVE  SharedTyped' /\ WorkerTypeOK'
  <2>1. CASE Loop(w)
    BY <1>1, <2>1 DEF Loop
  <2>2. CASE Pop(w)
    <3>1. queue' \in Seq(Jobs) /\ Head(queue) \in Jobs
      <4>1. queue # <<>> /\ queue \in Seq(Jobs) /\ queue' = Tail(queue)
        BY <1>0, <2>2 DEF Pop, Dequeue, SharedTyped
      <4> QED
        BY <4>1, HeadTailProperties
    <3>2. SharedTyped'
      BY <1>0, <2>2, <3>1 DEF Pop, SharedTyped, RowsTyped, FilesTyped
    <3> QED
      BY <2>2, <3>1, <3>2 DEF Pop
  <2>3. CASE PopNothing(w)
    BY <1>1, <2>3 DEF PopNothing
  <2>4. CASE MakeSandbox(w)
    BY <1>1, <2>4 DEF MakeSandbox
  <2>5. CASE Fetch(w)
    BY <1>1, <2>5 DEF Fetch
  <2>6. CASE Start(w)
    <3>1. RowsTyped'
      BY <1>0, <2>6, RowTypes DEF Start, SharedTyped
    <3> QED
      BY <1>2, <2>6, <3>1 DEF Start
  <2>7. CASE Decrypt(w)
    BY <1>1, <2>7 DEF Decrypt
  <2>8. CASE Process(w)
    BY <1>1, <2>8 DEF Process
  <2>9. CASE Stat(w)
    BY <1>1, <2>9 DEF Stat
  <2>10. CASE EncryptOpen(w)
    <3>1. job[w] \in Jobs /\ outputs \in [Jobs -> Contents]
      BY <1>0, <2>10 DEF EncryptOpen, SharedTyped, FilesTyped
    <3>2. outputs' \in [Jobs -> Contents]
      BY <2>10, <3>1 DEF EncryptOpen, Contents
    <3>3. SharedTyped'
      BY <1>0, <2>10, <3>2 DEF EncryptOpen, SharedTyped, RowsTyped, FilesTyped
    <3> QED
      BY <2>10, <3>3 DEF EncryptOpen
  <2>11. CASE EncryptOutput(w)
    <3>1. job[w] \in Jobs /\ outputs \in [Jobs -> Contents]
      BY <1>0, <2>11 DEF EncryptOutput, SharedTyped, FilesTyped
    <3>2. outputs' \in [Jobs -> Contents]
      BY <2>11, <3>1 DEF EncryptOutput, Contents
    <3>3. SharedTyped'
      BY <1>0, <2>11, <3>2 DEF EncryptOutput, SharedTyped, RowsTyped, FilesTyped
    <3> QED
      BY <2>11, <3>3 DEF EncryptOutput
  <2>12. CASE Complete(w)
    <3>1. RowsTyped'
      BY <1>0, <2>12, RowTypes DEF Complete, SharedTyped
    <3> QED
      BY <1>2, <2>12, <3>1 DEF Complete
  <2>13. CASE CountRetry(w)
    <3>1. RowsTyped'
      BY <1>0, <2>13, RowTypes DEF CountRetry, SharedTyped
    <3> QED
      BY <1>2, <2>13, <3>1 DEF CountRetry
  <2>14. CASE RequeueJob(w)
    <3>1. job[w] \in Jobs
      BY <2>14 DEF RequeueJob
    <3>2. queue' \in Seq(Jobs)
      BY <1>0, <2>14, <3>1, QueueTypes DEF RequeueJob, SharedTyped
    <3>3. SharedTyped'
      BY <1>0, <2>14, <3>2 DEF RequeueJob, SharedTyped, RowsTyped, FilesTyped
    <3> QED
      BY <2>14, <3>3 DEF RequeueJob
  <2>15. CASE FailJob(w)
    <3>1. RowsTyped'
      BY <1>0, <2>15, RowTypes DEF FailJob, SharedTyped
    <3> QED
      BY <1>2, <2>15, <3>1 DEF FailJob
  <2>16. CASE Wipe(w)
    BY <1>1, <2>16 DEF Wipe
  <2> QED
    BY <1>3, <2>1, <2>2, <2>3, <2>4, <2>5, <2>6, <2>7, <2>8, <2>9, <2>10,
       <2>11, <2>12, <2>13, <2>14, <2>15, <2>16 DEF WorkerStep
<1>4. ASSUME Sigterm
      PROVE  SharedTyped' /\ WorkerTypeOK'
  BY <1>1, <1>4 DEF Sigterm
<1>5. ASSUME Restart
      PROVE  SharedTyped' /\ WorkerTypeOK'
  BY <1>1, <1>5 DEF Restart
<1> QED
  BY <1>3, <1>4, <1>5 DEF WorkerNext, Exit, Crash

LEMMA TypesInductive == TypeOK /\ [Next]_vars => TypeOK'
<1> SUFFICES ASSUME TypeOK, [Next]_vars
             PROVE  TypeOK'
  OBVIOUS
<1> USE DEF TypeOK
<1>1. CASE ApiNext /\ UNCHANGED workerVars
  <2>1. BackendTypeOK' /\ ApiTypeOK'
    BY <1>1, ApiTypes
  <2> QED
    BY <1>1, <2>1 DEF workerVars, WorkerTypeOK
<1>2. CASE WorkerNext /\ UNCHANGED apiVars
  <2>1. BackendTypeOK' /\ WorkerTypeOK'
    BY <1>2, WorkerTypes
  <2> QED
    BY <1>2, <2>1 DEF apiVars, ApiTypeOK
<1>3. CASE Evict /\ UNCHANGED <<apiVars, workerVars>>
  BY <1>3 DEF Evict, rows, files, apiVars, workerVars, BackendTypeOK, ApiTypeOK,
              WorkerTypeOK
<1>4. CASE UNCHANGED vars
  BY <1>4 DEF vars, backendVars, apiVars, workerVars, BackendTypeOK, ApiTypeOK,
              WorkerTypeOK
<1> QED
  BY <1>1, <1>2, <1>3, <1>4 DEF Next

\* The state of the service is well typed whatever happens; in particular a
\* goroutine past its BRPOP always has a job to answer for.
THEOREM Typing == Spec => []TypeOK
<1>1. Init => TypeOK
  <2> SUFFICES ASSUME Init
               PROVE  TypeOK
    OBVIOUS
  <2>1. BackendTypeOK
    BY DEF Init, BackendInit, BackendTypeOK, Contents
  <2>2. ApiTypeOK
    BY DEF Init, ApiInit, ApiTypeOK, UploadStates
  <2>3. WorkerTypeOK
    BY DEF Init, WorkerInit, WorkerTypeOK, Labels, Claiming
  <2> QED
    BY <2>1, <2>2, <2>3 DEF TypeOK
<1> QED
  BY <1>1, TypesInductive, PTL DEF Spec

----------------------------------------------------------------------------
(* Stored inputs are kept.                                                 *)

\* No UPDATE makes a row appear or go; only CreateJob and DeleteJobs do.
LEMMA UpdatesKeepRows ==
    ASSUME RowsTyped, NEW j \in Jobs, NEW k \in Jobs, NEW S \in SUBSET Jobs
    PROVE  /\ UpdateJobStarted(j) => (HasRow(k)' <=> HasRow(k))
           /\ UpdateJobCompleted(j) => (HasRow(k)' <=> HasRow(k))
           /\ UpdateJobFailed(j) => (HasRow(k)' <=> HasRow(k))
           /\ IncrementRetryCount(j) => (HasRow(k)' <=> HasRow(k))
           /\ DeleteJobs(S) => (HasRow(k)' <=> HasRow(k) /\ k \notin S)
           /\ UNCHANGED rows => (HasRow(k)' <=> HasRow(k))
<1>1. ASSUME NEW s \in Statuses, SetStatus(j, s)
      PROVE  HasRow(k)' <=> HasRow(k)
  BY <1>1 DEF SetStatus, HasRow, RowsTyped, Statuses
<1>2. IncrementRetryCount(j) => (HasRow(k)' <=> HasRow(k))
  BY DEF IncrementRetryCount, HasRow, RowsTyped
<1>3. DeleteJobs(S) => (HasRow(k)' <=> HasRow(k) /\ k \notin S)
  BY DEF DeleteJobs, HasRow
<1>4. UNCHANGED rows => (HasRow(k)' <=> HasRow(k))
  BY DEF HasRow, rows
<1> QED
  BY <1>1, <1>2, <1>3, <1>4
  DEF UpdateJobStarted, UpdateJobCompleted, UpdateJobFailed, Statuses

\* A step of the worker neither makes nor removes a row or an input.
LEMMA WorkerKeeps ==
    ASSUME TypeOK, WorkerNext, NEW k \in Jobs
    PROVE  (HasRow(k)' <=> HasRow(k)) /\ UNCHANGED <<inputs, expired>>
<1> USE DEF backendVars, files
<1>1. ASSUME NEW w \in Workers, WorkerStep(w)
      PROVE  (HasRow(k)' <=> HasRow(k)) /\ UNCHANGED <<inputs, expired>>
  <2>0. RowsTyped
    BY TypeOKSplit DEF TypeOK
  <2>1. CASE Loop(w) \/ Pop(w) \/ PopNothing(w) \/ MakeSandbox(w) \/ Fetch(w)
    BY <2>1 DEF Loop, Pop, PopNothing, MakeSandbox, Fetch, HasRow, rows
  <2>2. CASE Decrypt(w) \/ Process(w) \/ Stat(w) \/ EncryptOpen(w)
    BY <2>2 DEF Decrypt, Process, Stat, EncryptOpen, HasRow, rows
  <2>3. CASE EncryptOutput(w) \/ RequeueJob(w) \/ Wipe(w)
    BY <2>3 DEF EncryptOutput, RequeueJob, Wipe, HasRow, rows
  <2>4. CASE Start(w) \/ Complete(w) \/ CountRetry(w) \/ FailJob(w)
    <3>1. job[w] \in Jobs
      BY <2>4
      DEF Start, Complete, CountRetry, FailJob, TypeOK, WorkerTypeOK, Claiming
    <3>2. \/ UpdateJobStarted(job[w]) \/ UpdateJobCompleted(job[w])
          \/ IncrementRetryCount(job[w]) \/ UpdateJobFailed(job[w])
          \/ UNCHANGED rows
      BY <2>4 DEF Start, Complete, CountRetry, FailJob
    <3>3. UNCHANGED <<inputs, expired>>
      BY <2>4 DEF Start, Complete, CountRetry, FailJob
    <3> QED
      BY <2>0, <3>1, <3>2, <3>3, UpdatesKeepRows
  <2> QED
    BY <1>1, <2>1, <2>2, <2>3, <2>4 DEF WorkerStep
<1>2. ASSUME Sigterm \/ Restart
      PROVE  (HasRow(k)' <=> HasRow(k)) /\ UNCHANGED <<inputs, expired>>
  BY <1>2 DEF Sigterm, Restart, HasRow
<1> QED
  BY <1>1, <1>2 DEF WorkerNext, Exit, Crash

LEMMA ApiKeeps ==
    ASSUME TypeOK, KeptInv, ApiNext
    PROVE  KeptInv'
<1> USE DEF KeptInv, FreshUploads, GoneStaysGone, InputReady, UploadGoto
<1>0. RowsTyped /\ FilesTyped /\ ApiTypeOK
  BY TypeOKSplit DEF TypeOK
<1> USE DEF ApiTypeOK
<1>1. ASSUME NEW j \in Jobs, CreateRow(j)
      PROVE  KeptInv'
  <2>1. \A k \in Jobs \ {j} : HasRow(k)' <=> HasRow(k)
    BY <1>0, <1>1 DEF CreateRow, CreateJob, HasRow, rows, RowsTyped
  <2>2. /\ upload[j] = "new"
        /\ upload' = [upload EXCEPT ![j] = "create_input"]
           \/ upload' = [upload EXCEPT ![j] = "closed"]
        /\ UNCHANGED <<inputs, deleting, sweeping, found>>
    BY <1>1 DEF CreateRow, files
  <2> QED
    BY <1>0, <2>1, <2>2
<1>2. ASSUME NEW j \in Jobs,
             CreateInput(j) \/ EncryptInput(j) \/ EnqueueUpload(j)
      PROVE  KeptInv'
  <2>1. \A k \in Jobs : HasRow(k)' <=> HasRow(k)
    BY <1>2 DEF CreateInput, EncryptInput, EnqueueUpload, HasRow, rows
  <2>2. CASE CreateInput(j)
    BY <1>0, <2>1, <2>2 DEF CreateInput, FilesTyped
  <2>3. CASE EncryptInput(j)
    BY <1>0, <2>1, <2>3 DEF EncryptInput, FilesTyped
  <2>4. CASE EnqueueUpload(j)
    BY <1>0, <2>1, <2>4 DEF EnqueueUpload, files
  <2> QED
    BY <1>2, <2>2, <2>3, <2>4
<1>3. ASSUME NEW j \in Jobs, UndoRow(j)
      PROVE  KeptInv'
  <2>1. \A k \in Jobs : HasRow(k)' => HasRow(k)
    BY <1>0, <1>3, UpdatesKeepRows DEF UndoRow, DeleteJob
  <2> QED
    BY <1>0, <1>3, <2>1 DEF UndoRow, files
<1>4. ASSUME NEW j \in Jobs, UndoFiles(j)
      PROVE  KeptInv'
  <2>1. \A k \in Jobs : HasRow(k)' <=> HasRow(k)
    BY <1>4 DEF UndoFiles, HasRow, rows
  <2> QED
    BY <1>0, <1>4, <2>1 DEF UndoFiles, DeleteJobFiles, FilesTyped
<1>5. ASSUME NEW j \in Jobs, DeleteRow(j)
      PROVE  KeptInv'
  <2>1. \A k \in Jobs : HasRow(k)' => HasRow(k) /\ k # j
    BY <1>0, <1>5, UpdatesKeepRows DEF DeleteRow, DeleteJob
  <2> QED
    BY <1>0, <1>5, <2>1 DEF DeleteRow, files
<1>6. ASSUME NEW j \in Jobs, DeleteFiles(j) \/ SweepFiles(j)
      PROVE  KeptInv'
  <2>1. \A k \in Jobs : HasRow(k)' <=> HasRow(k)
    BY <1>6 DEF DeleteFiles, SweepFiles, HasRow, rows
  <2>2. /\ ~HasRow(j)
        /\ \A k \in Jobs \ {j} : inputs'[k] = inputs[k]
        /\ UNCHANGED <<upload, found>>
        /\ deleting' \subseteq deleting /\ sweeping' \subseteq sweeping
    BY <1>0, <1>6 DEF DeleteFiles, SweepFiles, DeleteJobFiles, FilesTyped
  <2> QED
    BY <1>0, <2>1, <2>2
<1>7. ASSUME NEW j \in Jobs,
             DownloadLookup(j) \/ DownloadOpen(j) \/ Expire(j)
      PROVE  KeptInv'
  <2>1. /\ \A k \in Jobs : HasRow(k)' <=> HasRow(k)
        /\ UNCHANGED <<upload, inputs, deleting, sweeping>>
    BY <1>7
    DEF DownloadLookup, DownloadOpen, Expire, HasRow, rows, files,
        backendVars, apiVars
  <2>2. \A k \in found' : k \in found \/ upload[k] # "new"
    BY <1>7 DEF DownloadLookup, DownloadOpen, Expire, apiVars
  <2> QED
    BY <1>0, <2>1, <2>2
<1>8. ASSUME Sweep
      PROVE  KeptInv'
  <2>1. /\ \A k \in Jobs : HasRow(k)' => HasRow(k) /\ k \notin ExpiredJobs
        /\ ExpiredJobs \subseteq {k \in Jobs : HasRow(k)}
    BY <1>8
    DEF Sweep, CleanupExpiredJobs, DeleteJobs, HasRow, ExpiredJobs, TypeOK,
        BackendTypeOK
  <2>2. /\ UNCHANGED <<upload, inputs, deleting, found>>
        /\ sweeping' = ExpiredJobs \/ sweeping' = sweeping
    BY <1>8 DEF Sweep, files
  <2> QED
    BY <1>0, <2>1, <2>2
<1>9. ASSUME ApiCrash
      PROVE  KeptInv'
  <2>1. /\ \A k \in Jobs : HasRow(k)' <=> HasRow(k)
        /\ UNCHANGED inputs
        /\ deleting' = {} /\ sweeping' = {} /\ found' = {}
    BY <1>9 DEF ApiCrash, backendVars, HasRow
  <2>2. \A k \in Jobs :
           /\ upload'[k] = "new" => upload[k] = "new"
           /\ upload'[k] = "accepted" => upload[k] = "accepted"
           /\ upload'[k] # "enqueue"
    BY <1>0, <1>9 DEF ApiCrash, InFlight
  <2> QED
    BY <2>1, <2>2
<1> QED
  BY <1>1, <1>2, <1>3, <1>4, <1>5, <1>6, <1>7, <1>8, <1>9
  DEF ApiNext, ApiStep, Upload

LEMMA KeptInductive == TypeOK /\ KeptInv /\ [Next]_vars => KeptInv'
<1> SUFFICES ASSUME TypeOK, KeptInv, [Next]_vars
             PROVE  KeptInv'
  OBVIOUS
<1>1. CASE ApiNext /\ UNCHANGED workerVars
  BY <1>1, ApiKeeps
<1>2. CASE WorkerNext /\ UNCHANGED apiVars
  <2>1. \A k \in Jobs : HasRow(k)' => HasRow(k)
    BY <1>2, WorkerKeeps
  <2>2. Jobs # {} => UNCHANGED inputs
    BY <1>2, WorkerKeeps
  <2> QED
    BY <1>2, <2>1, <2>2
    DEF KeptInv, FreshUploads, GoneStaysGone, InputReady, apiVars, TypeOK,
        ApiTypeOK
<1>3. CASE Evict /\ UNCHANGED <<apiVars, workerVars>>
  BY <1>3
  DEF Evict, rows, files, apiVars, KeptInv, FreshUploads, GoneStaysGone,
      InputReady, HasRow
<1>4. CASE UNCHANGED vars
  BY <1>4
  DEF vars, backendVars, apiVars, KeptInv, FreshUploads, GoneStaysGone,
      InputReady, HasRow
<1> QED
  BY <1>1, <1>2, <1>3, <1>4 DEF Next

LEMMA KeptInit == Init => KeptInv
BY DEF Init, BackendInit, ApiInit, KeptInv, FreshUploads, GoneStaysGone,
       InputReady, HasRow

\* Whatever fails, the stored input of an accepted job is complete as long
\* as the job has a row.
THEOREM InputsAreKept == Spec => []InputKept
<1>1. TypeOK /\ KeptInv => InputKept
  BY DEF KeptInv, InputReady, InputKept
<1> QED
  BY <1>1, Typing, KeptInit, KeptInductive, PTL DEF Spec

----------------------------------------------------------------------------
(* Every stored input has somebody who will remove it.                     *)

\* What OwnerInv says of one job.
OwnerOf(j) ==
    /\ upload[j] \in {"new", "create_input", "undo_row_only"} =>
          inputs[j] = "none"
    /\ upload[j] \in InFlight \ {"undo_files"} => HasRow(j) /\ j \notin expired
    /\ j \in expired => upload[j] \in {"accepted", "closed"}
    /\ inputs[j] # "none" =>
          HasRow(j) \/ j \in deleting \cup sweeping \/ upload[j] = "undo_files"

LEMMA OwnerPerJob ==
    ASSUME expired \in SUBSET Jobs
    PROVE  OwnerInv <=> \A j \in Jobs : OwnerOf(j)
BY DEF OwnerInv, InputHasOwner, OwnerOf

LEMMA OwnerPerJobNext ==
    ASSUME expired' \in SUBSET Jobs, \A j \in Jobs : OwnerOf(j)'
    PROVE  OwnerInv'
BY DEF OwnerInv, InputHasOwner, OwnerOf

\* A step that leaves the job's upload, its input and those who are removing
\* it alone.
LEMMA OwnerFrame ==
    ASSUME NEW j \in Jobs, OwnerOf(j), HasRow(j)' <=> HasRow(j),
           UNCHANGED <<upload[j], inputs[j]>>,
           j \in deleting \cup sweeping => j \in deleting' \cup sweeping',
           j \in expired' =>
              j \in expired \/ upload[j] \in {"accepted", "closed"}
    PROVE  OwnerOf(j)'
BY DEF OwnerOf, InFlight

LEMMA ApiOwner ==
    ASSUME {"db", "client", "api_crash"} \cap Faults = {},
           TypeOK, TypeOK', KeptInv, OwnerInv, ApiNext
    PROVE  OwnerInv'
<1> SUFFICES ASSUME NEW j \in Jobs
             PROVE  OwnerOf(j)'
  BY OwnerPerJobNext DEF TypeOK, BackendTypeOK
<1>0. OwnerOf(j) /\ RowsTyped /\ FilesTyped /\ ApiTypeOK /\ ~SqlFails
  BY OwnerPerJob, TypeOKSplit DEF TypeOK, SqlFails
<1> USE DEF UploadGoto, ApiTypeOK, FilesTyped, rows, files
<1>1. ASSUME NEW i \in Jobs, CreateRow(i)
      PROVE  OwnerOf(j)'
  BY <1>0, <1>1
  DEF CreateRow, CreateJob, RowsTyped, HasRow, OwnerOf, InFlight
<1>2. ASSUME NEW i \in Jobs,
             CreateInput(i) \/ EncryptInput(i) \/ EnqueueUpload(i)
      PROVE  OwnerOf(j)'
  BY <1>0, <1>2
  DEF CreateInput, EncryptInput, EnqueueUpload, HasRow, OwnerOf, InFlight
<1>3. ASSUME NEW i \in Jobs, UndoRow(i)
      PROVE  OwnerOf(j)'
  <2>1. HasRow(j)' <=> HasRow(j) /\ j # i
    BY <1>0, <1>3, UpdatesKeepRows DEF UndoRow, DeleteJob
  <2> QED
    BY <1>0, <1>3, <2>1 DEF UndoRow, OwnerOf, InFlight
<1>4. ASSUME NEW i \in Jobs, UndoFiles(i)
      PROVE  OwnerOf(j)'
  BY <1>0, <1>4 DEF UndoFiles, DeleteJobFiles, HasRow, OwnerOf, InFlight
<1>5. ASSUME NEW i \in Jobs, DeleteRow(i)
      PROVE  OwnerOf(j)'
  <2>1. HasRow(j)' <=> HasRow(j) /\ j # i
    BY <1>0, <1>5, UpdatesKeepRows DEF DeleteRow, DeleteJob
  <2> QED
    BY <1>0, <1>5, <2>1 DEF DeleteRow, OwnerOf, InFlight
<1>6. ASSUME NEW i \in Jobs, DeleteFiles(i) \/ SweepFiles(i)
      PROVE  OwnerOf(j)'
  <2>1. /\ UNCHANGED <<upload, expired>> /\ (HasRow(j)' <=> HasRow(j))
        /\ inputs'[j] = IF i = j THEN "none" ELSE inputs[j]
        /\ deleting \ {i} \subseteq deleting' /\ sweeping \ {i} \subseteq sweeping'
    BY <1>0, <1>6 DEF DeleteFiles, SweepFiles, DeleteJobFiles, HasRow
  <2>2. j \in deleting \cup sweeping \/ i # j
    BY <1>6 DEF DeleteFiles, SweepFiles
  <2> QED
    BY <1>0, <2>1, <2>2 DEF OwnerOf
<1>7. ASSUME NEW i \in Jobs, DownloadLookup(i) \/ DownloadOpen(i) \/ Expire(i)
      PROVE  OwnerOf(j)'
  <2>1. /\ UNCHANGED <<upload, inputs, deleting, sweeping>>
        /\ HasRow(j)' <=> HasRow(j)
        /\ j \in expired' =>
              j \in expired \/ upload[j] \in {"accepted", "closed"}
    BY <1>7
    DEF DownloadLookup, DownloadOpen, Expire, backendVars, apiVars, HasRow
  <2> QED
    BY <1>0, <2>1, OwnerFrame
<1>8. ASSUME Sweep
      PROVE  OwnerOf(j)'
  <2>1. /\ HasRow(j)' <=> HasRow(j) /\ j \notin ExpiredJobs
        /\ sweeping = {} /\ sweeping' = ExpiredJobs
        /\ UNCHANGED <<expired, upload, inputs, deleting>>
    BY <1>0, <1>8
    DEF Sweep, CleanupExpiredJobs, DeleteJobs, HasRow, SqlFails
  <2>2. j \in ExpiredJobs => upload[j] \in {"accepted", "closed"}
    BY <1>0 DEF ExpiredJobs, OwnerOf
  <2> QED
    BY <1>0, <2>1, <2>2 DEF OwnerOf, InFlight
<1>9. ~ApiCrash
  BY DEF ApiCrash
<1> QED
  BY <1>1, <1>2, <1>3, <1>4, <1>5, <1>6, <1>7, <1>8, <1>9
  DEF ApiNext, ApiStep, Upload

LEMMA OwnerInductive ==
    ASSUME {"db", "client", "api_crash"} \cap Faults = {}
    PROVE  TypeOK /\ TypeOK' /\ KeptInv /\ OwnerInv /\ [Next]_vars => OwnerInv'
<1> SUFFICES ASSUME TypeOK, TypeOK', KeptInv, OwnerInv, [Next]_vars
             PROVE  OwnerInv'
  OBVIOUS
<1>1. CASE ApiNext /\ UNCHANGED workerVars
  BY <1>1, ApiOwner
<1>2. CASE ~(ApiNext /\ UNCHANGED workerVars)
  <2> SUFFICES ASSUME NEW j \in Jobs
               PROVE  OwnerOf(j)'
    BY OwnerPerJobNext DEF TypeOK, BackendTypeOK
  <2>1. /\ HasRow(j)' <=> HasRow(j)
        /\ UNCHANGED <<inputs, expired, apiVars>>
    <3>1. CASE WorkerNext /\ UNCHANGED apiVars
      BY <3>1, WorkerKeeps
    <3>2. CASE Evict /\ UNCHANGED <<apiVars, workerVars>>
      BY <3>2 DEF Evict, rows, files, HasRow
    <3>3. CASE UNCHANGED vars
      BY <3>3 DEF vars, backendVars, HasRow
    <3> QED
      BY <1>2, <3>1, <3>2, <3>3 DEF Next
  <2>2. OwnerOf(j)
    BY OwnerPerJob DEF TypeOK, BackendTypeOK
  <2> QED
    BY <2>1, <2>2, OwnerFrame DEF apiVars
<1> QED
  BY <1>1, <1>2

LEMMA OwnerInit == Init => OwnerInv
BY DEF Init, BackendInit, ApiInit, OwnerInv, InputHasOwner, InFlight

\* Whatever happens to the worker, to Redis and to file operations, every
\* stored input has a row for the cleanup to find or a handler about to
\* remove it.  A database error, a disconnected client or an API crash
\* between the removal of a row and of its files breaks this.
THEOREM InputsHaveOwners ==
    ASSUME {"db", "client", "api_crash"} \cap Faults = {}
    PROVE  Spec => []InputHasOwner
<1>1. OwnerInv => InputHasOwner
  BY DEF OwnerInv
<1> QED
  BY <1>1, Typing, TypesInductive, KeptInit, KeptInductive, OwnerInit,
     OwnerInductive, PTL DEF Spec

----------------------------------------------------------------------------
(* A job is answered for at most once, unless the Redis client sends a     *)
(* push again whose reply it did not get.                                  *)

OneClaim(j) ==
    /\ \A a, b \in 1..Len(queue) : queue[a] = j /\ queue[b] = j => a = b
    /\ \A w \in Workers : Claims(w, j) => ~InQueue(j)
    /\ \A w, v \in Workers : Claims(w, j) /\ Claims(v, j) => w = v
    /\ upload[j] # "accepted" => Idle(j)

LEMMA ClaimInvPerJob == ClaimInv <=> \A j \in Jobs : OneClaim(j)
BY DEF ClaimInv, ExclusiveClaim, IdleUntilAccepted, OneClaim

\* The list is left alone and nobody takes a job in hand.
LEMMA ClaimsShrink ==
    ASSUME NEW j \in Jobs, OneClaim(j), UNCHANGED queue,
           \A w \in Workers : Claims(w, j)' => Claims(w, j),
           upload'[j] # "accepted" => upload[j] # "accepted" \/ Idle(j)
    PROVE  OneClaim(j)'
BY DEF OneClaim, InQueue, Idle

\* An upload pushes its job to the end the others were pushed to.
LEMMA PushKeeps ==
    ASSUME queue \in Seq(Jobs), NEW i \in Jobs, NEW j \in Jobs, OneClaim(j),
           i = j => Idle(j),
           queue' = queue \o <<i>>,
           \A w \in Workers : Claims(w, j)' => Claims(w, j),
           upload'[j] # "accepted" => upload[j] # "accepted" /\ i # j
    PROVE  OneClaim(j)'
<1>1. /\ Len(queue') = Len(queue) + 1 /\ Len(queue) \in Nat
      /\ queue'[Len(queue) + 1] = i
      /\ \A a \in 1..Len(queue) : queue'[a] = queue[a]
  OBVIOUS
<1>2. InQueue(j)' <=> InQueue(j) \/ i = j
  BY <1>1 DEF InQueue
<1>3. ASSUME NEW a \in 1..Len(queue'), NEW b \in 1..Len(queue'),
             queue'[a] = j, queue'[b] = j
      PROVE  a = b
  <2>1. CASE i = j
    BY <1>1, <1>3, <2>1 DEF Idle, InQueue
  <2>2. CASE i # j
    BY <1>1, <1>3, <2>2 DEF OneClaim
  <2> QED
    BY <2>1, <2>2
<1> QED
  BY <1>2, <1>3 DEF OneClaim, Idle

\* A goroutine gives the job it holds back, to the end BRPOP takes from.
LEMMA GiveBackKeeps ==
    ASSUME queue \in Seq(Jobs), NEW i \in Jobs, NEW j \in Jobs, OneClaim(j),
           NEW w \in Workers, Claims(w, i),
           queue' = <<i>> \o queue,
           \A v \in Workers : Claims(v, j)' => Claims(v, j) /\ v # w,
           UNCHANGED upload
    PROVE  OneClaim(j)'
<1>1. /\ Len(queue') = Len(queue) + 1 /\ Len(queue) \in Nat
      /\ queue'[1] = i
      /\ \A a \in 1..Len(queue) : queue'[a + 1] = queue[a]
      /\ \A a \in 2..Len(queue') : a - 1 \in 1..Len(queue) /\ queue'[a] = queue[a - 1]
  OBVIOUS
<1>2. InQueue(j)' <=> InQueue(j) \/ i = j
  <2>1. InQueue(j)' => InQueue(j) \/ i = j
    BY <1>1 DEF InQueue
  <2>2. InQueue(j) => InQueue(j)'
    <3>1. \A a \in 1..Len(queue) : a + 1 \in 1..Len(queue')
      BY <1>1
    <3> QED
      BY <1>1, <3>1 DEF InQueue
  <2>3. i = j => InQueue(j)'
    BY <1>1 DEF InQueue
  <2> QED
    BY <2>1, <2>2, <2>3
<1>3. ASSUME NEW a \in 1..Len(queue'), NEW b \in 1..Len(queue'),
             queue'[a] = j, queue'[b] = j
      PROVE  a = b
  <2>1. CASE i = j
    <3>1. ~InQueue(j)
      BY <2>1 DEF OneClaim
    <3>2. a = 1 /\ b = 1
      BY <1>1, <1>3, <3>1 DEF InQueue
    <3> QED
      BY <3>2
  <2>2. CASE i # j
    <3>1. a \in 2..Len(queue') /\ b \in 2..Len(queue')
      BY <1>1, <1>3, <2>2
    <3>2. a - 1 = b - 1
      BY <1>1, <1>3, <3>1 DEF OneClaim
    <3> QED
      BY <3>1, <3>2
  <2> QED
    BY <2>1, <2>2
<1> QED
  BY <1>2, <1>3 DEF OneClaim, Idle

\* A goroutine that holds nothing takes the head of the list.
LEMMA TakeKeeps ==
    ASSUME queue \in Seq(Jobs), queue # <<>>, NEW j \in Jobs, OneClaim(j),
           NEW w \in Workers,
           queue' = Tail(queue),
           \A v \in Workers : Claims(v, j)' =>
              Claims(v, j) \/ (v = w /\ j = Head(queue)),
           ~Claims(w, j), UNCHANGED upload
    PROVE  OneClaim(j)'
<1>1. /\ Len(queue') = Len(queue) - 1 /\ Len(queue) \in Nat \ {0}
      /\ \A a \in 1..Len(queue') : a + 1 \in 1..Len(queue) /\ queue'[a] = queue[a + 1]
      /\ Head(queue) = queue[1]
  BY HeadTailProperties
<1>2. InQueue(j)' => InQueue(j)
  BY <1>1 DEF InQueue
<1>3. j = Head(queue) => InQueue(j) /\ ~InQueue(j)'
  <2>1. SUFFICES ASSUME j = Head(queue)
                 PROVE  InQueue(j) /\ ~InQueue(j)'
    OBVIOUS
  <2>2. queue[1] = j /\ 1 \in 1..Len(queue)
    BY <1>1, <2>1
  <2>3. \A a \in 1..Len(queue') : queue'[a] # j
    BY <1>1, <2>2 DEF OneClaim
  <2> QED
    BY <2>2, <2>3 DEF InQueue
<1>4. ASSUME NEW a \in 1..Len(queue'), NEW b \in 1..Len(queue'),
             queue'[a] = j, queue'[b] = j
      PROVE  a = b
  <2>1. a + 1 = b + 1
    BY <1>1, <1>4 DEF OneClaim
  <2> QED
    BY <1>1, <2>1
<1> QED
  BY <1>2, <1>3, <1>4 DEF OneClaim, Idle

LEMMA ApiClaims ==
    ASSUME "reply" \notin Faults, TypeOK, ClaimInv, ApiNext, UNCHANGED workerVars
    PROVE  ClaimInv'
<1> SUFFICES ASSUME NEW j \in Jobs
             PROVE  OneClaim(j)'
  BY DEF ClaimInv, ExclusiveClaim, IdleUntilAccepted, OneClaim
<1>0. /\ OneClaim(j) /\ ApiTypeOK /\ queue \in Seq(Jobs)
      /\ \A w \in Workers : Claims(w, j)' => Claims(w, j)
  BY ClaimInvPerJob DEF workerVars, Claims, TypeOK, BackendTypeOK
<1>1. ASSUME NEW i \in Jobs, EnqueueUpload(i)
      PROVE  OneClaim(j)'
  <2>1. CASE UNCHANGED queue
    <3>1. upload'[j] # "accepted" => upload[j] # "accepted" \/ Idle(j)
      BY <1>0, <1>1 DEF EnqueueUpload, UploadGoto, ApiTypeOK
    <3> QED
      BY <1>0, <2>1, <3>1, ClaimsShrink
  <2>2. CASE Enqueue(i)
    <3>1. queue' = queue \o <<i>>
      BY <2>2 DEF Enqueue, Copies
    <3>2. upload' = [upload EXCEPT ![i] = "accepted"] \/ UNCHANGED queue
      BY <1>1 DEF EnqueueUpload, UploadGoto
    <3>3. i = j => Idle(j)
      BY <1>0, <1>1 DEF EnqueueUpload, OneClaim
    <3>4. CASE upload' = [upload EXCEPT ![i] = "accepted"]
      <4>1. upload'[j] # "accepted" => upload[j] # "accepted" /\ i # j
        BY <1>0, <3>4 DEF ApiTypeOK
      <4> QED
        BY <1>0, <3>1, <3>3, <4>1, PushKeeps
    <3> QED
      BY <2>1, <3>2, <3>4
  <2> QED
    BY <1>1, <2>1, <2>2 DEF EnqueueUpload
<1>2. CASE \E i \in Jobs : \/ CreateRow(i) \/ CreateInput(i) \/ EncryptInput(i)
                          \/ UndoRow(i) \/ UndoFiles(i)
  <2>1. UNCHANGED queue
    BY <1>2 DEF CreateRow, CreateInput, EncryptInput, UndoRow, UndoFiles
  <2>2. upload'[j] # "accepted" => upload[j] # "accepted"
    BY <1>0, <1>2
    DEF CreateRow, CreateInput, EncryptInput, UndoRow, UndoFiles, UploadGoto,
        ApiTypeOK
  <2> QED
    BY <1>0, <2>1, <2>2, ClaimsShrink
<1>3. CASE Sweep \/ ApiCrash \/ \E i \in Jobs :
             \/ DeleteRow(i) \/ DeleteFiles(i) \/ DownloadLookup(i)
             \/ DownloadOpen(i) \/ Expire(i) \/ SweepFiles(i)
  <2>1. UNCHANGED queue
    BY <1>3
    DEF Sweep, ApiCrash, DeleteRow, DeleteFiles, DownloadLookup, DownloadOpen,
        Expire, SweepFiles, backendVars
  <2>2. UNCHANGED upload \/ ApiCrash
    BY <1>3
    DEF Sweep, DeleteRow, DeleteFiles, DownloadLookup, DownloadOpen, Expire,
        SweepFiles, apiVars
  <2>3. upload'[j] # "accepted" => upload[j] # "accepted"
    BY <1>0, <2>2 DEF ApiCrash, InFlight, ApiTypeOK
  <2> QED
    BY <1>0, <2>1, <2>3, ClaimsShrink
<1> QED
  BY <1>1, <1>2, <1>3 DEF ApiNext, ApiStep, Upload

LEMMA WorkerClaims ==
    ASSUME "reply" \notin Faults, TypeOK, ClaimInv, WorkerNext, UNCHANGED apiVars
    PROVE  ClaimInv'
<1> SUFFICES ASSUME NEW j \in Jobs
             PROVE  OneClaim(j)'
  BY DEF ClaimInv, ExclusiveClaim, IdleUntilAccepted, OneClaim
<1>0. OneClaim(j) /\ WorkerTypeOK /\ queue \in Seq(Jobs) /\ UNCHANGED upload
  BY ClaimInvPerJob DEF apiVars, TypeOK, BackendTypeOK
<1> USE DEF Claims, Claiming, WorkerTypeOK, Goto, backendVars
<1>1. ASSUME NEW w \in Workers, Pop(w)
      PROVE  OneClaim(j)'
  <2>1. /\ queue # <<>> /\ queue' = Tail(queue) /\ ~Claims(w, j)
        /\ \/ /\ pc' = [pc EXCEPT ![w] = "mkdir"]
              /\ job' = [job EXCEPT ![w] = Head(queue)]
           \/ pc' = [pc EXCEPT ![w] = "loop"] /\ UNCHANGED job
    BY <1>0, <1>1 DEF Pop, Dequeue
  <2>2. \A v \in Workers :
           Claims(v, j)' => Claims(v, j) \/ (v = w /\ j = Head(queue))
    BY <1>0, <2>1
  <2> QED
    BY <1>0, <2>1, <2>2, TakeKeeps
<1>2. ASSUME NEW w \in Workers, RequeueJob(w), ~UNCHANGED queue
      PROVE  OneClaim(j)'
  <2>1. /\ Requeue(job[w]) /\ pc' = [pc EXCEPT ![w] = "wipe"] /\ job' = job
        /\ job[w] \in Jobs /\ Claims(w, job[w])
    BY <1>0, <1>2 DEF RequeueJob
  <2>2. queue' = <<job[w]>> \o queue
    BY <2>1 DEF Requeue, Copies
  <2>3. \A v \in Workers : Claims(v, j)' => Claims(v, j) /\ v # w
    BY <1>0, <2>1
  <2> QED
    BY <1>0, <2>1, <2>2, <2>3, GiveBackKeeps
<1>3. ASSUME NEW w \in Workers,
             \/ Loop(w) \/ PopNothing(w) \/ MakeSandbox(w) \/ Fetch(w)
             \/ Start(w) \/ Decrypt(w) \/ Process(w) \/ Stat(w)
             \/ EncryptOpen(w) \/ EncryptOutput(w) \/ Complete(w)
             \/ CountRetry(w) \/ RequeueJob(w) \/ FailJob(w) \/ Wipe(w),
             UNCHANGED queue
      PROVE  OneClaim(j)'
  <2>1. \A v \in Workers \ {w} : Claims(v, j)' => Claims(v, j)
    <3>1. \A v \in Workers \ {w} : pc'[v] = pc[v] /\ job'[v] = job[v]
      BY <1>0, <1>3
      DEF Loop, PopNothing, MakeSandbox, Fetch, Start, Decrypt, Process, Stat,
          EncryptOpen, EncryptOutput, Complete, CountRetry, RequeueJob,
          FailJob, Wipe
    <3> QED
      BY <3>1
  <2>2. Claims(w, j)' => Claims(w, j)
    <3>1. CASE Loop(w) \/ PopNothing(w) \/ Wipe(w)
      BY <1>0, <3>1 DEF Loop, PopNothing, Wipe
    <3>2. CASE FailJob(w)
      BY <1>0, <3>2 DEF FailJob
    <3>3. CASE \/ MakeSandbox(w) \/ Fetch(w) \/ Start(w) \/ Decrypt(w)
               \/ Process(w) \/ Stat(w) \/ EncryptOpen(w) \/ EncryptOutput(w)
               \/ Complete(w) \/ CountRetry(w) \/ RequeueJob(w)
      <4>1. pc[w] \in Claiming /\ UNCHANGED job
        BY <3>3
        DEF MakeSandbox, Fetch, Start, Decrypt, Process, Stat, EncryptOpen,
            EncryptOutput, Complete, CountRetry, RequeueJob
      <4> QED
        BY <4>1
    <3> QED
      BY <1>3, <3>1, <3>2, <3>3
  <2> QED
    BY <1>0, <1>3, <2>1, <2>2, ClaimsShrink
<1>4. ASSUME NEW w \in Workers, WorkerStep(w)
      PROVE  OneClaim(j)'
  <2>1. ~Pop(w) /\ ~RequeueJob(w) => UNCHANGED queue
    BY <1>4
    DEF WorkerStep, Loop, PopNothing, MakeSandbox, Fetch, Start, Decrypt,
        Process, Stat, EncryptOpen, EncryptOutput, Complete, CountRetry,
        FailJob, Wipe
  <2> QED
    BY <1>1, <1>2, <1>3, <1>4, <2>1 DEF WorkerStep
<1>5. ASSUME Sigterm \/ Restart
      PROVE  OneClaim(j)'
  <2>1. /\ UNCHANGED queue
        /\ \A w \in Workers : Claims(w, j)' => Claims(w, j)
    BY <1>5 DEF Sigterm, Restart
  <2> QED
    BY <1>0, <2>1, ClaimsShrink
<1> QED
  BY <1>4, <1>5 DEF WorkerNext, Exit, Crash

LEMMA ClaimsInductive ==
    ASSUME "reply" \notin Faults
    PROVE  TypeOK /\ ClaimInv /\ [Next]_vars => ClaimInv'
<1>1. UNCHANGED vars /\ ClaimInv => ClaimInv'
  BY DEF vars, backendVars, apiVars, workerVars, ClaimInv, ExclusiveClaim,
         IdleUntilAccepted, Idle, InQueue, Claims
<1>2. Evict /\ UNCHANGED <<apiVars, workerVars>> /\ ClaimInv => ClaimInv'
  BY DEF Evict, apiVars, workerVars, ClaimInv, ExclusiveClaim,
         IdleUntilAccepted, Idle, InQueue, Claims
<1> QED
  BY <1>1, <1>2, ApiClaims, WorkerClaims DEF Next

LEMMA ClaimsInit == Init => ClaimInv
BY DEF Init, BackendInit, ApiInit, WorkerInit, ClaimInv, ExclusiveClaim,
       IdleUntilAccepted, Idle, InQueue, Claims, Claiming

\* Crashes, restarts, lost statements and disconnected clients included, a
\* job is in the list at most once, and not while a goroutine answers for it.
THEOREM ClaimsAreExclusive ==
    ASSUME "reply" \notin Faults
    PROVE  Spec => []ExclusiveClaim
<1>1. ClaimInv => ExclusiveClaim
  BY DEF ClaimInv
<1> QED
  BY <1>1, Typing, ClaimsInit, ClaimsInductive, PTL DEF Spec

----------------------------------------------------------------------------
(* What a step leaves of the jobs it is not about.                         *)

\* A push, sent once or again, adds its job and removes none.
LEMMA PushAdds ==
    ASSUME queue \in Seq(Jobs), NEW i \in Jobs, NEW j \in Jobs,
           Enqueue(i) \/ Requeue(i)
    PROVE  InQueue(i)' /\ (InQueue(j) => InQueue(j)')
<1>1. \A c \in Copies(i) : c \in Seq(Jobs) /\ Len(c) >= 1 /\ c[1] = i
  <2>1. /\ <<i>> \in Seq(Jobs) /\ Len(<<i>>) >= 1 /\ <<i>>[1] = i
        /\ <<i, i>> \in Seq(Jobs) /\ Len(<<i, i>>) >= 1 /\ <<i, i>>[1] = i
    OBVIOUS
  <2> QED
    BY <2>1 DEF Copies
<1>2. PICK c \in Seq(Jobs) : /\ Len(c) >= 1 /\ c[1] = i
                             /\ queue' = queue \o c \/ queue' = c \o queue
  BY <1>1 DEF Enqueue, Requeue
<1>3. CASE queue' = queue \o c
  <2>1. Len(queue) + 1 \in 1..Len(queue') /\ queue'[Len(queue) + 1] = i
    BY <1>2, <1>3
  <2>2. \A a \in 1..Len(queue) : a \in 1..Len(queue') /\ queue'[a] = queue[a]
    BY <1>3
  <2> QED
    BY <2>1, <2>2 DEF InQueue
<1>4. CASE queue' = c \o queue
  <2>1. 1 \in 1..Len(queue') /\ queue'[1] = i
    BY <1>2, <1>4
  <2>2. \A a \in 1..Len(queue) :
           a + Len(c) \in 1..Len(queue') /\ queue'[a + Len(c)] = queue[a]
    BY <1>4
  <2> QED
    BY <2>1, <2>2 DEF InQueue
<1> QED
  BY <1>2, <1>3, <1>4

\* A push, sent once or again, adds entries of its own job only.
LEMMA PushIsOwn ==
    ASSUME queue \in Seq(Jobs), NEW i \in Jobs, NEW j \in Jobs \ {i},
           Enqueue(i) \/ Requeue(i)
    PROVE  InQueue(j)' => InQueue(j)
<1>1. \A c \in Copies(i) : c \in Seq({i})
  <2>1. <<i>> \in Seq({i}) /\ <<i, i>> \in Seq({i})
    OBVIOUS
  <2> QED
    BY <2>1 DEF Copies
<1>2. PICK c \in Seq({i}) : queue' = queue \o c \/ queue' = c \o queue
  BY <1>1 DEF Enqueue, Requeue
<1>3. CASE queue' = queue \o c
  <2>1. ASSUME NEW a \in 1..Len(queue'), queue'[a] = j
        PROVE  a \in 1..Len(queue) /\ queue[a] = j
    BY <1>3, <2>1
  <2> QED
    BY <2>1 DEF InQueue
<1>4. CASE queue' = c \o queue
  <2>1. ASSUME NEW a \in 1..Len(queue'), queue'[a] = j
        PROVE  a - Len(c) \in 1..Len(queue) /\ queue[a - Len(c)] = j
    BY <1>4, <2>1
  <2> QED
    BY <2>1 DEF InQueue
<1> QED
  BY <1>2, <1>3, <1>4

\* A pop takes the head, adds nothing and takes nothing else.
LEMMA PopShrinks ==
    ASSUME queue \in Seq(Jobs), Dequeue, NEW j \in Jobs
    PROVE  /\ InQueue(j)' => InQueue(j)
           /\ Head(queue) = j => InQueue(j)
           /\ InQueue(j) => InQueue(j)' \/ Head(queue) = j
<1>1. /\ Len(queue') = Len(queue) - 1 /\ Len(queue) \in Nat \ {0}
      /\ \A a \in 1..Len(queue') :
            a + 1 \in 1..Len(queue) /\ queue'[a] = queue[a + 1]
      /\ Head(queue) = queue[1]
  BY HeadTailProperties DEF Dequeue
<1>2. 1 \in 1..Len(queue)
  BY <1>1
<1>3. \A a \in 1..Len(queue) : a # 1 =>
         a - 1 \in 1..Len(queue') /\ queue'[a - 1] = queue[a]
  BY <1>1
<1> QED
  BY <1>1, <1>2, <1>3 DEF InQueue

\* A goroutine changes nothing of a job it does not answer for, except that
\* it may take it from the list.
LEMMA WorkerLeaves ==
    ASSUME TypeOK, NEW w \in Workers, WorkerStep(w),
           NEW j \in Jobs, ~Claims(w, j)
    PROVE  /\ status'[j] = status[j] /\ retries'[j] = retries[j]
           /\ outputs'[j] = outputs[j]
           /\ InQueue(j)' => InQueue(j)
           /\ \A v \in Workers \ {w} : pc'[v] = pc[v] /\ job'[v] = job[v]
           /\ pc'[w] \in Claiming /\ job'[w] = j =>
                 pc'[w] = "mkdir" /\ InQueue(j)
<1> USE DEF Claims, Claiming, Goto, backendVars, rows, files
<1>0. /\ WorkerTypeOK /\ RowsTyped /\ FilesTyped /\ queue \in Seq(Jobs)
  BY TypeOKSplit DEF TypeOK
<1> USE DEF WorkerTypeOK, RowsTyped, FilesTyped
<1>1. \A v \in Workers \ {w} : pc'[v] = pc[v] /\ job'[v] = job[v]
  BY <1>0
  DEF WorkerStep, Loop, Pop, PopNothing, MakeSandbox, Fetch, Start, Decrypt,
      Process, Stat, EncryptOpen, EncryptOutput, Complete, CountRetry,
      RequeueJob, FailJob, Wipe
<1>2. CASE Pop(w)
  <2>1. /\ UNCHANGED <<status, retries, outputs>> /\ Dequeue
        /\ pc'[w] = "loop" \/ (pc'[w] = "mkdir" /\ job'[w] = Head(queue))
    BY <1>0, <1>2 DEF Pop
  <2> QED
    BY <1>0, <1>1, <2>1, PopShrinks
<1>3. CASE Loop(w) \/ PopNothing(w) \/ Wipe(w)
  <2>1. /\ UNCHANGED <<status, retries, outputs, queue>>
        /\ pc'[w] \in {"loop", "brpop", "stopped"}
    BY <1>0, <1>3 DEF Loop, PopNothing, Wipe
  <2> QED
    BY <1>1, <2>1 DEF InQueue
<1>4. CASE ~(Pop(w) \/ Loop(w) \/ PopNothing(w) \/ Wipe(w))
  <2>1. pc[w] \in Claiming
    BY <1>4
    DEF WorkerStep, MakeSandbox, Fetch, Start, Decrypt, Process, Stat,
        EncryptOpen, EncryptOutput, Complete, CountRetry, RequeueJob, FailJob
  <2>2. job[w] \in Jobs \ {j}
    BY <1>0, <2>1
  <2>3. job'[w] # j
    <3>1. job'[w] \in {job[w], NoJob}
      BY <1>0, <1>4
      DEF WorkerStep, MakeSandbox, Fetch, Start, Decrypt, Process, Stat,
          EncryptOpen, EncryptOutput, Complete, CountRetry, RequeueJob, FailJob
    <3> QED
      BY <2>2, <3>1, BackendAssumption DEF BackendAssumption
  <2>4. status'[j] = status[j] /\ retries'[j] = retries[j]
    BY <1>0, <1>4, <2>2
    DEF WorkerStep, MakeSandbox, Fetch, Start, Decrypt, Process, Stat,
        EncryptOpen, EncryptOutput, Complete, CountRetry, RequeueJob, FailJob,
        SetStatus, UpdateJobStarted, UpdateJobCompleted, UpdateJobFailed,
        IncrementRetryCount
  <2>5. outputs'[j] = outputs[j]
    BY <1>0, <1>4, <2>2
    DEF WorkerStep, MakeSandbox, Fetch, Start, Decrypt, Process, Stat,
        EncryptOpen, EncryptOutput, Complete, CountRetry, RequeueJob, FailJob
  <2>6. UNCHANGED queue \/ Requeue(job[w])
    BY <1>4
    DEF WorkerStep, MakeSandbox, Fetch, Start, Decrypt, Process, Stat,
        EncryptOpen, EncryptOutput, Complete, CountRetry, RequeueJob, FailJob
  <2>7. InQueue(j)' => InQueue(j)
    <3>1. UNCHANGED queue => (InQueue(j)' => InQueue(j))
      BY DEF InQueue
    <3> QED
      BY <1>0, <2>2, <2>6, <3>1, PushIsOwn
  <2> QED
    BY <1>1, <2>3, <2>4, <2>5, <2>7
<1> QED
  BY <1>2, <1>3, <1>4

----------------------------------------------------------------------------
(* A completed job has its whole result, and a download serves it whole.   *)

OutputOf(j) ==
    /\ upload[j] # "accepted" => status[j] \in {"none", "pending"}
    /\ status[j] = "completed" => Idle(j) /\ outputs[j] = "whole"
    /\ j \in found => /\ Idle(j) /\ upload[j] = "accepted"
                     /\ status[j] \in {"completed", "none"}
                     /\ outputs[j] \in {"none", "whole"}
    /\ \A w \in Workers : pc[w] = "encrypt" /\ job[w] = j /\ HasRow(j) =>
          outputs[j] = "partial"
    /\ \A w \in Workers : pc[w] = "complete" /\ job[w] = j /\ HasRow(j) =>
          outputs[j] = "whole"

LEMMA OutputPerJob ==
    ASSUME TypeOK
    PROVE  OutputInv <=> \A j \in Jobs : OutputOf(j)
BY DEF OutputInv, OutputOf, TypeOK, ApiTypeOK, WorkerTypeOK, Claiming

LEMMA OutputPerJobNext ==
    ASSUME TypeOK', \A j \in Jobs : OutputOf(j)'
    PROVE  OutputInv'
BY DEF OutputInv, OutputOf, TypeOK, ApiTypeOK, WorkerTypeOK, Claiming

\* What a step does to a job it is not about.
LEMMA OutputFrame ==
    ASSUME NEW j \in Jobs, OutputOf(j),
           status'[j] \in {status[j], "none"},
           UNCHANGED <<outputs[j], upload[j]>>,
           Idle(j) => Idle(j)',
           j \in found' => j \in found,
           \A w \in Workers :
              pc'[w] \in {"encrypt", "complete"} /\ job'[w] = j =>
              pc[w] = pc'[w] /\ job[w] = j
    PROVE  OutputOf(j)'
BY DEF OutputOf, HasRow

LEMMA ApiOutput ==
    ASSUME TypeOK, TypeOK', KeptInv, ClaimInv, ClaimInv', OutputInv,
           ApiNext, UNCHANGED workerVars
    PROVE  OutputInv'
<1> SUFFICES ASSUME NEW j \in Jobs
             PROVE  OutputOf(j)'
  BY OutputPerJobNext
<1>0. /\ OutputOf(j) /\ RowsTyped /\ FilesTyped /\ ApiTypeOK
      /\ UNCHANGED <<pc, job>>
      /\ UNCHANGED queue => (Idle(j) => Idle(j)')
      /\ upload[j] # "accepted" => Idle(j)
      /\ upload'[j] # "accepted" => Idle(j)'
  BY OutputPerJob, TypeOKSplit
  DEF TypeOK, workerVars, Idle, InQueue, Claims, ClaimInv, IdleUntilAccepted
<1> USE DEF UploadGoto, ApiTypeOK, FilesTyped, RowsTyped, rows, files
\* As long as its upload has not ended, nobody else looks at a job.
<1>1. ASSUME upload[j] # "accepted", UNCHANGED <<found, deleting>>,
             status'[j] \in {"none", "pending"},
             upload'[j] # "accepted" \/ UNCHANGED <<pc, job>>
      PROVE  OutputOf(j)'
  BY <1>0, <1>1 DEF OutputOf, Idle, Claims, Claiming
<1>2. ASSUME NEW i \in Jobs, Upload(i)
      PROVE  OutputOf(j)'
  <2>1. /\ UNCHANGED <<found, deleting>> /\ upload[i] # "accepted"
        /\ i # j => upload'[j] = upload[j] /\ outputs'[j] = outputs[j]
    BY <1>0, <1>2
    DEF Upload, CreateRow, CreateInput, EncryptInput, EnqueueUpload, UndoRow,
        UndoFiles, DeleteJobFiles
  <2>2. status'[j] \in {status[j], "none"} \/ (i = j /\ status'[j] = "pending")
    BY <1>0, <1>2
    DEF Upload, CreateRow, CreateInput, EncryptInput, EnqueueUpload, UndoRow,
        UndoFiles, CreateJob, DeleteJob, DeleteJobs
  <2>3. CASE i = j
    <3>1. status'[j] \in {"none", "pending"}
      BY <1>0, <2>1, <2>2, <2>3 DEF OutputOf
    <3> QED
      BY <1>0, <1>1, <2>1, <2>3, <3>1
  <2>4. CASE i # j
    <3>1. Idle(j) => Idle(j)'
      <4>1. CASE EnqueueUpload(i)
        <5>1. UNCHANGED queue => (InQueue(j)' => InQueue(j))
          BY DEF InQueue
        <5>2. InQueue(j)' => InQueue(j)
          BY <2>4, <4>1, <5>1, PushIsOwn
          DEF EnqueueUpload, TypeOK, BackendTypeOK
        <5> QED
          BY <1>0, <5>2 DEF Idle, Claims
      <4>2. CASE ~EnqueueUpload(i)
        BY <1>0, <1>2, <4>2
        DEF Upload, CreateRow, CreateInput, EncryptInput, UndoRow, UndoFiles
      <4> QED
        BY <4>1, <4>2
    <3> QED
      BY <1>0, <2>1, <2>2, <2>4, <3>1, OutputFrame
  <2> QED
    BY <2>3, <2>4
<1>3. ASSUME Sweep \/ ApiCrash \/ \E i \in Jobs :
             DeleteRow(i) \/ DownloadOpen(i) \/ Expire(i)
      PROVE  OutputOf(j)'
  <2>1. /\ UNCHANGED <<queue, outputs>> /\ found' \subseteq found
        /\ status'[j] \in {status[j], "none"}
    BY <1>0, <1>3
    DEF Sweep, ApiCrash, DeleteRow, DownloadOpen, Expire, backendVars, apiVars,
        CleanupExpiredJobs, DeleteJob, DeleteJobs
  <2>2. CASE UNCHANGED upload
    BY <1>0, <2>1, <2>2, OutputFrame
  <2>3. CASE ApiCrash
    <3>1. /\ upload[j] = "accepted" => upload'[j] = upload[j]
          /\ found' = {} /\ status' = status
          /\ upload'[j] # "accepted" => upload[j] # "accepted"
      BY <1>0, <2>3 DEF ApiCrash, InFlight, backendVars
    <3> QED
      BY <1>0, <2>1, <3>1 DEF OutputOf, HasRow
  <2> QED
    BY <1>3, <2>2, <2>3 DEF Sweep, DeleteRow, DownloadOpen, Expire, apiVars
<1>4. ASSUME NEW i \in Jobs, DeleteFiles(i) \/ SweepFiles(i)
      PROVE  OutputOf(j)'
  <2>1. /\ UNCHANGED <<queue, upload, found, status>> /\ ~HasRow(i)
        /\ outputs'[j] = IF i = j THEN "none" ELSE outputs[j]
    BY <1>0, <1>4
    DEF DeleteFiles, SweepFiles, DeleteJobFiles, KeptInv, GoneStaysGone
  <2>2. CASE i = j
    BY <1>0, <2>1, <2>2 DEF OutputOf, HasRow
  <2>3. CASE i # j
    BY <1>0, <2>1, <2>3, OutputFrame
  <2> QED
    BY <2>2, <2>3
<1>5. ASSUME NEW i \in Jobs, DownloadLookup(i)
      PROVE  OutputOf(j)'
  <2>1. /\ UNCHANGED <<queue, status, outputs, upload>>
        /\ status[i] = "completed" /\ upload[i] = "accepted"
        /\ found' = found \cup {i}
    BY <1>5 DEF DownloadLookup, backendVars
  <2> QED
    BY <1>0, <2>1 DEF OutputOf, HasRow
<1> QED
  BY <1>2, <1>3, <1>4, <1>5 DEF ApiNext, ApiStep

\* A step of a goroutine that does not answer for the job.
LEMMA WorkerFrame ==
    ASSUME TypeOK, NEW w \in Workers, WorkerStep(w), UNCHANGED apiVars,
           NEW j \in Jobs, ~Claims(w, j), OutputOf(j)
    PROVE  OutputOf(j)'
<1>1. /\ status'[j] = status[j] /\ outputs'[j] = outputs[j]
      /\ UNCHANGED <<upload, found>>
  BY WorkerLeaves DEF apiVars
<1>2. Idle(j) => Idle(j)'
  BY WorkerLeaves DEF Idle, Claims
<1>3. \A v \in Workers :
         pc'[v] \in {"encrypt", "complete"} /\ job'[v] = j =>
         pc[v] = pc'[v] /\ job[v] = j
  BY WorkerLeaves DEF Claiming
<1> QED
  BY <1>1, <1>2, <1>3, OutputFrame

\* A step of the goroutine that answers for the job.
LEMMA WorkerHolds ==
    ASSUME TypeOK, ClaimInv, ClaimInv',
           NEW w \in Workers, WorkerStep(w), UNCHANGED apiVars,
           NEW j \in Jobs, Claims(w, j), OutputOf(j)
    PROVE  OutputOf(j)'
<1> USE DEF Claims, Claiming, Goto, backendVars, rows, files
<1>0. /\ WorkerTypeOK /\ RowsTyped /\ FilesTyped
      /\ UNCHANGED <<upload, found>>
      /\ job[w] = j /\ pc[w] \in Claiming
  BY TypeOKSplit DEF TypeOK, apiVars
<1> USE DEF WorkerTypeOK, RowsTyped, FilesTyped
\* So far the job has not ended, and no other goroutine works on it.
<1>1. /\ status[j] # "completed" /\ j \notin found /\ upload[j] = "accepted"
      /\ ~InQueue(j)
      /\ \A v \in Workers \ {w} : ~Claims(v, j)
  BY <1>0 DEF OutputOf, Idle, ClaimInv, ExclusiveClaim, IdleUntilAccepted
<1>2. ASSUME status'[j] # "completed",
             pc'[w] = "encrypt" /\ HasRow(j)' => outputs'[j] = "partial",
             pc'[w] = "complete" /\ HasRow(j)' => outputs'[j] = "whole"
      PROVE  OutputOf(j)'
  <2>1. \A v \in Workers \ {w} :
           pc'[v] \in {"encrypt", "complete"} => job'[v] # j
    <3>1. \A v \in Workers \ {w} : pc'[v] = pc[v] /\ job'[v] = job[v]
      BY <1>0
      DEF WorkerStep, Loop, Pop, PopNothing, MakeSandbox, Fetch, Start,
          Decrypt, Process, Stat, EncryptOpen, EncryptOutput, Complete,
          CountRetry, RequeueJob, FailJob, Wipe
    <3> QED
      BY <1>1, <3>1
  <2> QED
    BY <1>0, <1>1, <1>2, <2>1 DEF OutputOf
<1>3. CASE \/ MakeSandbox(w) \/ Fetch(w) \/ Decrypt(w) \/ Process(w)
           \/ Stat(w) \/ RequeueJob(w)
  BY <1>0, <1>1, <1>2, <1>3
  DEF MakeSandbox, Fetch, Decrypt, Process, Stat, RequeueJob
<1>4. CASE Start(w) \/ CountRetry(w) \/ FailJob(w)
  <2>1. status'[j] # "completed"
    BY <1>0, <1>1, <1>4
    DEF Start, CountRetry, FailJob, UpdateJobStarted, UpdateJobFailed,
        IncrementRetryCount, SetStatus
  <2>2. pc'[w] \notin {"encrypt", "complete"}
    BY <1>0, <1>4 DEF Start, CountRetry, FailJob
  <2> QED
    BY <1>2, <2>1, <2>2
<1>5. CASE EncryptOpen(w)
  <2>1. /\ pc'[w] = "encrypt" => outputs'[j] = "partial"
        /\ pc'[w] # "complete" /\ UNCHANGED status
    BY <1>0, <1>1, <1>5 DEF EncryptOpen
  <2> QED
    BY <1>1, <1>2, <2>1
<1>6. CASE EncryptOutput(w)
  <2>1. HasRow(j) => outputs[j] = "partial"
    BY <1>0, <1>6 DEF EncryptOutput, OutputOf
  <2>2. /\ pc'[w] = "complete" /\ HasRow(j)' => outputs'[j] = "whole"
        /\ pc'[w] # "encrypt" /\ UNCHANGED status
    BY <1>0, <1>6, <2>1 DEF EncryptOutput, HasRow
  <2> QED
    BY <1>1, <1>2, <2>2
<1>7. CASE Complete(w)
  <2>1. pc'[w] = "wipe" /\ UNCHANGED <<queue, outputs, job>>
    BY <1>0, <1>7 DEF Complete
  <2>2. CASE status'[j] # "completed"
    BY <1>2, <2>1, <2>2
  <2>3. CASE status'[j] = "completed"
    <3>1. HasRow(j)
      BY <1>0, <1>1, <1>7, <2>3
      DEF Complete, UpdateJobCompleted, SetStatus, HasRow
    <3>2. outputs'[j] = "whole"
      BY <1>0, <1>7, <2>1, <3>1 DEF Complete, OutputOf
    <3>3. \A v \in Workers : ~Claims(v, j)'
      BY <1>0, <1>1, <1>7, <2>1 DEF Complete
    <3>4. Idle(j)'
      BY <1>1, <2>1, <3>3 DEF Idle, InQueue
    <3> QED
      BY <1>0, <1>1, <2>3, <3>2, <3>3, <3>4 DEF OutputOf
  <2> QED
    BY <2>2, <2>3
<1>8. ~(Loop(w) \/ Pop(w) \/ PopNothing(w) \/ Wipe(w))
  BY <1>0 DEF Loop, Pop, PopNothing, Wipe
<1> QED
  BY <1>3, <1>4, <1>5, <1>6, <1>7, <1>8 DEF WorkerStep

LEMMA OutputInductive ==
    ASSUME "reply" \notin Faults
    PROVE  /\ TypeOK /\ TypeOK' /\ KeptInv /\ ClaimInv /\ ClaimInv' /\ OutputInv
           /\ [Next]_vars
           => OutputInv'
<1> SUFFICES ASSUME TypeOK, TypeOK', KeptInv, ClaimInv, ClaimInv', OutputInv,
                    [Next]_vars
             PROVE  OutputInv'
  OBVIOUS
<1>1. CASE ApiNext /\ UNCHANGED workerVars
  BY <1>1, ApiOutput
<1>2. CASE WorkerNext /\ UNCHANGED apiVars
  <2> SUFFICES ASSUME NEW j \in Jobs
               PROVE  OutputOf(j)'
    BY OutputPerJobNext
  <2>0. OutputOf(j)
    BY OutputPerJob
  <2>1. ASSUME NEW w \in Workers, WorkerStep(w)
        PROVE  OutputOf(j)'
    BY <1>2, <2>0, <2>1, WorkerFrame, WorkerHolds
  <2>2. ASSUME Sigterm \/ Restart
        PROVE  OutputOf(j)'
    <3>1. /\ UNCHANGED <<status, outputs, upload, found, queue>>
          /\ UNCHANGED <<pc, job>> \/ \A w \in Workers : pc'[w] = "loop"
      BY <1>2, <2>2 DEF Sigterm, Restart, backendVars, apiVars
    <3>2. Idle(j) => Idle(j)'
      BY <3>1 DEF Idle, InQueue, Claims, Claiming
    <3> QED
      BY <2>0, <3>1, <3>2, OutputFrame
  <2> QED
    BY <1>2, <2>1, <2>2 DEF WorkerNext, Exit, Crash
<1>3. CASE Evict /\ UNCHANGED <<apiVars, workerVars>>
  BY <1>3
  DEF Evict, rows, files, apiVars, workerVars, OutputInv, HasRow, Idle,
      InQueue, Claims
<1>4. CASE UNCHANGED vars
  BY <1>4
  DEF vars, backendVars, apiVars, workerVars, OutputInv, HasRow, Idle, InQueue,
      Claims
<1> QED
  BY <1>1, <1>2, <1>3, <1>4 DEF Next

LEMMA OutputInit == Init => OutputInv
BY DEF Init, BackendInit, ApiInit, WorkerInit, OutputInv

LEMMA OutputAlways ==
    ASSUME "reply" \notin Faults
    PROVE  Spec => []OutputInv
BY Typing, TypesInductive, KeptInit, KeptInductive, ClaimsInit,
   ClaimsInductive, OutputInit, OutputInductive, PTL DEF Spec

\* A job that is "completed" has its whole result in storage: nobody writes
\* or removes that file again before the row is gone.
THEOREM CompletedJobsHaveOutput ==
    ASSUME "reply" \notin Faults
    PROVE  Spec => []CompletedHasOutput
<1>1. OutputInv => CompletedHasOutput
  BY DEF OutputInv, CompletedHasOutput
<1> QED
  BY <1>1, OutputAlways, PTL

\* A download that has looked at the row opens the whole result or none,
\* although it never looks at the row again.
THEOREM DownloadsAreWhole ==
    ASSUME "reply" \notin Faults
    PROVE  Spec => []DownloadIsWhole
<1>1. OutputInv => DownloadIsWhole
  BY DEF OutputInv, DownloadIsWhole
<1> QED
  BY <1>1, OutputAlways, PTL

=============================================================================
