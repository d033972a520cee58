---------------------------- MODULE PromiseProofs ----------------------------
(***************************************************************************)
(* Proofs of what the service promises about a job: its status follows the *)
(* goroutine that answers for it, no accepted job is forgotten, and what a *)
(* client sees is a life that JobStatus allows.                            *)
(***************************************************************************)
EXTENDS FileForgeProofs

----------------------------------------------------------------------------
(* The status of a job tells how far its goroutine is.                     *)

\* What PhaseInv says of one job.
PhaseOf(j) ==
    /\ ~HasRow(j) => retries[j] = 0
    /\ upload[j] # "accepted" \/ InQueue(j) => Waiting(j)
    /\ \A w \in Workers : job[w] = j =>
          /\ pc[w] \in Claiming \ (Running \cup {"fail"}) => Waiting(j)
          /\ pc[w] \in Running => status[j] \in {"none", "processing"}
          /\ pc[w] = "fail" => status[j] \in {"none", "pending", "processing"}

LEMMA PhasePerJob ==
    ASSUME TypeOK
    PROVE  PhaseInv <=> \A j \in Jobs : PhaseOf(j)
BY DEF PhaseInv, PhaseOf, TypeOK, WorkerTypeOK, Claiming, Running

LEMMA PhasePerJobNext ==
    ASSUME TypeOK', \A j \in Jobs : PhaseOf(j)'
    PROVE  PhaseInv'
BY DEF PhaseInv, PhaseOf, TypeOK, WorkerTypeOK, Claiming, Running

\* What a step of the API does to the row and the list entries of a job.
LEMMA ApiLeaves ==
    ASSUME TypeOK, ApiNext, NEW j \in Jobs
    PROVE  /\ \/ status'[j] = status[j] /\ retries'[j] = retries[j]
              \/ status'[j] = "none" /\ retries'[j] = 0
              \/ /\ upload[j] = "new"
                 /\ status'[j] = "pending" /\ retries'[j] = 0
           /\ InQueue(j)' => InQueue(j) \/ upload[j] = "enqueue"
           /\ upload'[j] # "accepted" => upload[j] # "accepted"
<1>0. RowsTyped /\ ApiTypeOK /\ queue \in Seq(Jobs)
  BY TypeOKSplit DEF TypeOK
<1> USE DEF RowsTyped, ApiTypeOK, UploadGoto, rows, backendVars
<1>1. UNCHANGED queue => (InQueue(j)' => InQueue(j))
  BY DEF InQueue
<1>2. ASSUME NEW i \in Jobs, CreateRow(i)
      PROVE  /\ UNCHANGED queue /\ upload[i] = "new"
             /\ \/ status'[j] = status[j] /\ retries'[j] = retries[j]
                \/ i = j /\ status'[j] = "pending" /\ retries'[j] = 0
             /\ upload'[j] # "accepted" => upload[j] # "accepted"
  BY <1>0, <1>2 DEF CreateRow, CreateJob
<1>3. ASSUME NEW i \in Jobs, EnqueueUpload(i)
      PROVE  /\ UNCHANGED <<status, retries>>
             /\ InQueue(j)' => InQueue(j) \/ upload[j] = "enqueue"
             /\ upload'[j] # "accepted" => upload[j] # "accepted"
  <2>1. CASE i = j
    BY <1>0, <1>3, <2>1 DEF EnqueueUpload
  <2>2. CASE i # j
    <3>1. InQueue(j)' => InQueue(j)
      BY <1>0, <1>1, <1>3, <2>2, PushIsOwn DEF EnqueueUpload
    <3> QED
      BY <1>0, <1>3, <2>2, <3>1 DEF EnqueueUpload
  <2> QED
    BY <2>1, <2>2
<1>4. ASSUME NEW i \in Jobs, UndoRow(i) \/ DeleteRow(i)
      PROVE  /\ UNCHANGED queue
             /\ \/ status'[j] = status[j] /\ retries'[j] = retries[j]
                \/ status'[j] = "none" /\ retries'[j] = 0
             /\ upload'[j] # "accepted" => upload[j] # "accepted"
  BY <1>0, <1>4 DEF UndoRow, DeleteRow, DeleteJob, DeleteJobs
<1>5. ASSUME Sweep
      PROVE  /\ UNCHANGED <<queue, upload>>
             /\ \/ status'[j] = status[j] /\ retries'[j] = retries[j]
                \/ status'[j] = "none" /\ retries'[j] = 0
  BY <1>0, <1>5 DEF Sweep, CleanupExpiredJobs, DeleteJobs
<1>6. ASSUME \/ ApiCrash
             \/ \E i \in Jobs :
                   \/ CreateInput(i) \/ EncryptInput(i) \/ UndoFiles(i)
                   \/ DeleteFiles(i) \/ SweepFiles(i) \/ Expire(i)
                   \/ DownloadLookup(i) \/ DownloadOpen(i)
      PROVE  /\ UNCHANGED <<queue, status, retries>>
             /\ upload'[j] # "accepted" => upload[j] # "accepted"
  BY <1>0, <1>6
  DEF ApiCrash, CreateInput, EncryptInput, UndoFiles, DeleteFiles, SweepFiles,
      Expire, DownloadLookup, DownloadOpen, InFlight, apiVars
<1> QED
  BY <1>1, <1>2, <1>3, <1>4, <1>5, <1>6 DEF ApiNext, ApiStep, Upload

LEMMA ApiPhase ==
    ASSUME TypeOK, TypeOK', ClaimInv, PhaseInv, ApiNext, UNCHANGED workerVars
    PROVE  PhaseInv'
<1> SUFFICES ASSUME NEW j \in Jobs
             PROVE  PhaseOf(j)'
  BY PhasePerJobNext
<1>0. PhaseOf(j) /\ UNCHANGED <<pc, job>>
  BY PhasePerJob DEF workerVars
<1>1. /\ InQueue(j)' => InQueue(j) \/ upload[j] = "enqueue"
      /\ upload'[j] # "accepted" => upload[j] # "accepted"
  BY ApiLeaves
<1>2. CASE status'[j] = status[j] /\ retries'[j] = retries[j]
  BY <1>0, <1>1, <1>2 DEF PhaseOf, HasRow, Waiting
<1>3. CASE status'[j] = "none" /\ retries'[j] = 0
  <2>1. Waiting(j)'
    BY <1>3, BackendAssumption DEF Waiting, BackendAssumption
  <2> QED
    BY <1>3, <2>1 DEF PhaseOf, HasRow
\* A job whose row is being created is in nobody's hands.
<1>4. CASE upload[j] = "new" /\ status'[j] = "pending" /\ retries'[j] = 0
  <2>1. Waiting(j)'
    BY <1>4, BackendAssumption DEF Waiting, BackendAssumption
  <2>2. \A w \in Workers : job'[w] = j => pc'[w] \notin Claiming
    BY <1>0, <1>4 DEF ClaimInv, IdleUntilAccepted, Idle, Claims
  <2> QED
    BY <1>4, <2>1, <2>2 DEF PhaseOf, HasRow, Claiming, Running
<1> QED
  BY <1>2, <1>3, <1>4, ApiLeaves

\* A step of a goroutine that does not answer for the job.
LEMMA WorkerPhaseFrame ==
    ASSUME TypeOK, NEW w \in Workers, WorkerStep(w), UNCHANGED apiVars,
           NEW j \in Jobs, ~Claims(w, j), PhaseOf(j)
    PROVE  PhaseOf(j)'
<1>1. /\ status'[j] = status[j] /\ retries'[j] = retries[j]
      /\ UNCHANGED upload
      /\ InQueue(j)' => InQueue(j)
      /\ \A v \in Workers \ {w} : pc'[v] = pc[v] /\ job'[v] = job[v]
      /\ pc'[w] \in Claiming /\ job'[w] = j => pc'[w] = "mkdir" /\ InQueue(j)
  BY WorkerLeaves DEF apiVars
<1> QED
  BY <1>1 DEF PhaseOf, HasRow, Waiting, Claiming, Running

\* A step of the goroutine that answers for the job.
LEMMA WorkerPhaseHolds ==
    ASSUME TypeOK, ClaimInv,
           NEW w \in Workers, WorkerStep(w), UNCHANGED apiVars,
           NEW j \in Jobs, Claims(w, j), PhaseOf(j)
    PROVE  PhaseOf(j)'
<1> USE DEF Claims, Claiming, Running, Goto, backendVars, rows, files
<1>0. /\ WorkerTypeOK /\ RowsTyped /\ UNCHANGED upload
      /\ job[w] = j /\ pc[w] \in Claiming
  BY TypeOKSplit DEF TypeOK, apiVars
<1> USE DEF WorkerTypeOK, RowsTyped
<1>1. /\ upload[j] = "accepted" /\ ~InQueue(j)
      /\ \A v \in Workers \ {w} : ~Claims(v, j)
  BY DEF ClaimInv, ExclusiveClaim, IdleUntilAccepted, Idle
\* So it is enough to look at the row, the list and this goroutine.
<1>2. ASSUME ~HasRow(j)' => retries'[j] = 0,
             InQueue(j)' => Waiting(j)',
             job'[w] = j =>
                /\ pc'[w] \in Claiming \ (Running \cup {"fail"}) => Waiting(j)'
                /\ pc'[w] \in Running => status'[j] \in {"none", "processing"}
                /\ pc'[w] = "fail" =>
                      status'[j] \in {"none", "pending", "processing"}
      PROVE  PhaseOf(j)'
  <2>1. \A v \in Workers \ {w} : job'[v] = j => pc'[v] \notin Claiming
    <3>1. \A v \in Workers \ {w} : pc'[v] = pc[v] /\ job'[v] = job[v]
      BY <1>0
      DEF WorkerStep, Loop, Pop, PopNothing, MakeSandbox, Fetch, Start,
          Decrypt, Process, Stat, EncryptOpen, EncryptOutput, Complete,
          CountRetry, RequeueJob, FailJob, Wipe
    <3> QED
      BY <1>1, <3>1
  <2> QED
    BY <1>0, <1>1, <1>2, <2>1 DEF PhaseOf
<1>3. UNCHANGED queue => ~InQueue(j)'
  BY <1>1 DEF InQueue
<1>4. CASE \/ MakeSandbox(w) \/ Fetch(w) \/ Decrypt(w) \/ Process(w)
           \/ Stat(w) \/ EncryptOpen(w) \/ EncryptOutput(w)
  <2>1. UNCHANGED <<status, retries, queue, job>>
    BY <1>4
    DEF MakeSandbox, Fetch, Decrypt, Process, Stat, EncryptOpen, EncryptOutput
  <2>2. /\ pc'[w] \in Claiming \ (Running \cup {"fail"}) =>
              pc[w] \in Claiming \ (Running \cup {"fail"})
        /\ pc'[w] \in Running => pc[w] \in Running
        /\ pc'[w] = "fail" => pc[w] \in Running
    BY <1>0, <1>4
    DEF MakeSandbox, Fetch, Decrypt, Process, Stat, EncryptOpen, EncryptOutput
  <2> QED
    BY <1>0, <1>2, <1>3, <2>1, <2>2 DEF PhaseOf, HasRow, Waiting
<1>5. CASE Start(w)
  <2>1. UNCHANGED <<queue, job, retries>> /\ pc[w] = "start" /\ Waiting(j)
    BY <1>0, <1>5 DEF Start, PhaseOf, UpdateJobStarted, SetStatus
  <2>2. status'[j] = status[j] \/ status[j] # "none"
    BY <1>0, <1>5 DEF Start, UpdateJobStarted, SetStatus
  <2>3. /\ pc'[w] \in {"decrypt", "wipe"}
        /\ pc'[w] = "decrypt" => status'[j] \in {"none", "processing"}
    BY <1>0, <1>5 DEF Start, UpdateJobStarted, SetStatus
  <2> QED
    BY <1>0, <1>2, <1>3, <1>5, <2>1, <2>2, <2>3
    DEF PhaseOf, HasRow, Start, UpdateJobStarted, SetStatus
<1>6. CASE Complete(w) \/ FailJob(w)
  <2>1. /\ UNCHANGED <<queue, retries>> /\ pc'[w] \in {"wipe", "loop"}
        /\ status'[j] = "none" => status[j] = "none"
    BY <1>0, <1>6
    DEF Complete, FailJob, UpdateJobCompleted, UpdateJobFailed, SetStatus
  <2> QED
    BY <1>0, <1>2, <1>3, <2>1 DEF PhaseOf, HasRow
<1>7. CASE CountRetry(w)
  <2>1. /\ UNCHANGED <<queue, job>>
        /\ status[j] \in {"none", "processing"}
        /\ pc'[w] \in {"requeue", "fail"}
    BY <1>0, <1>7 DEF CountRetry, PhaseOf
  <2>2. CASE IncrementRetryCount(j)
    <3>1. /\ status'[j] = "pending"
          /\ pc'[w] = "requeue" => retries'[j] <= MaxRetries
      BY <1>0, <1>7, <2>2 DEF CountRetry, IncrementRetryCount
    <3> QED
      BY <1>2, <1>3, <2>1, <3>1 DEF HasRow, Waiting
  <2>3. CASE UNCHANGED rows /\ pc'[w] = "fail"
    BY <1>0, <1>2, <1>3, <2>1, <2>3 DEF HasRow, PhaseOf
  <2> QED
    BY <1>0, <1>7, <2>2, <2>3 DEF CountRetry
<1>8. CASE RequeueJob(w)
  <2>1. /\ UNCHANGED <<status, retries, job>> /\ pc[w] = "requeue"
        /\ pc'[w] \in {"wipe", "fail"}
    BY <1>0, <1>8 DEF RequeueJob
  <2> QED
    BY <1>0, <1>2, <2>1 DEF PhaseOf, HasRow, Waiting
<1>9. ~(Loop(w) \/ Pop(w) \/ PopNothing(w) \/ Wipe(w))
  BY <1>0 DEF Loop, Pop, PopNothing, Wipe
<1> QED
  BY <1>4, <1>5, <1>6, <1>7, <1>8, <1>9 DEF WorkerStep

LEMMA PhaseInductive ==
    TypeOK /\ TypeOK' /\ ClaimInv /\ PhaseInv /\ [Next]_vars => PhaseInv'
<1> SUFFICES ASSUME TypeOK, TypeOK', ClaimInv, PhaseInv, [Next]_vars
             PROVE  PhaseInv'
  OBVIOUS
<1>1. CASE ApiNext /\ UNCHANGED workerVars
  BY <1>1, ApiPhase
<1>2. CASE ~(ApiNext /\ UNCHANGED workerVars)
  <2> SUFFICES ASSUME NEW j \in Jobs
               PROVE  PhaseOf(j)'
    BY PhasePerJobNext
  <2>0. PhaseOf(j)
    BY PhasePerJob
  <2>1. ASSUME NEW w \in Workers, WorkerStep(w), UNCHANGED apiVars
        PROVE  PhaseOf(j)'
    BY <2>0, <2>1, WorkerPhaseFrame, WorkerPhaseHolds
  <2>2. ASSUME UNCHANGED <<status, retries, upload>>,
               InQueue(j)' => InQueue(j),
               UNCHANGED <<pc, job>> \/ \A w \in Workers : pc'[w] = "loop"
        PROVE  PhaseOf(j)'
    BY <2>0, <2>2 DEF PhaseOf, HasRow, Waiting, Claiming, Running
  <2>3. CASE (Sigterm \/ Restart) /\ UNCHANGED apiVars
    BY <2>2, <2>3 DEF Sigterm, Restart, backendVars, apiVars, InQueue
  <2>4. CASE Evict /\ UNCHANGED <<apiVars, workerVars>>
    BY <2>2, <2>4 DEF Evict, rows, apiVars, workerVars, InQueue
  <2>5. CASE UNCHANGED vars
    BY <2>2, <2>5 DEF vars, backendVars, apiVars, workerVars, InQueue
  <2> QED
    BY <1>2, <2>1, <2>3, <2>4, <2>5 DEF Next, WorkerNext, Exit, Crash
<1> QED
  BY <1>1, <1>2

LEMMA PhaseInit == Init => PhaseInv
BY BackendAssumption
DEF Init, BackendInit, ApiInit, WorkerInit, PhaseInv, HasRow, InQueue, Waiting,
    Claiming, Running, BackendAssumption

\* Whatever fails, unless a push whose reply is lost is sent again: a job in
\* the list or in the hands of a goroutine that has not started it is not
\* running and has retries left, and a running one is changed by the goroutine that
\* runs it alone.
THEOREM StatusFollowsGoroutine ==
    ASSUME "reply" \notin Faults
    PROVE  Spec => []PhaseInv
BY Typing, TypesInductive, ClaimsInit, ClaimsInductive, PhaseInit,
   PhaseInductive, PTL DEF Spec

----------------------------------------------------------------------------
(* No accepted job is forgotten as long as the worker process goes on, its *)
(* database answers and no pop and no eviction loses an entry of the list. *)
(* Several goroutines may then have the same job, pushed twice.            *)

WorkerSurvives ==
    Faults \cap {"db", "pop_reply", "evict", "crash", "sigterm"} = {}

\* What RunAttended says of one job.
Attended(j) ==
    status[j] = "processing" =>
        \E w \in Workers : job[w] = j /\ pc[w] \in Running \cup {"fail"}

\* A goroutine that has begun a run goes on to write how it ended, and the
\* one that writes it leaves the job's status at something else.
LEMMA WorkerAttends ==
    ASSUME WorkerSurvives, ~stopping, TypeOK, NEW w \in Workers,
           WorkerStep(w), UNCHANGED apiVars, NEW j \in Jobs, Attended(j)
    PROVE  Attended(j)'
<1> USE DEF Claims, Claiming, Running, Goto, backendVars, rows, files
<1>0. WorkerTypeOK /\ RowsTyped /\ ~SqlError
  BY TypeOKSplit DEF TypeOK, WorkerSurvives, SqlError
<1> USE DEF WorkerTypeOK, RowsTyped
<1>1. \A v \in Workers \ {w} : pc'[v] = pc[v] /\ job'[v] = job[v]
  BY <1>0
  DEF WorkerStep, Loop, Pop, PopNothing, MakeSandbox, Fetch, Start, Decrypt,
      Process, Stat, EncryptOpen, EncryptOutput, Complete, CountRetry,
      RequeueJob, FailJob, Wipe
<1>2. CASE ~Claims(w, j)
  BY <1>1, <1>2, WorkerLeaves DEF Attended
<1>3. ASSUME Claims(w, j), status'[j] # "processing"
      PROVE  Attended(j)'
  BY <1>3 DEF Attended
<1>4. CASE Claims(w, j) /\ Start(w)
  BY <1>0, <1>4 DEF Start, Attended
<1>5. CASE /\ Claims(w, j)
           /\ \/ MakeSandbox(w) \/ Fetch(w) \/ Decrypt(w) \/ Process(w)
              \/ Stat(w) \/ EncryptOpen(w) \/ EncryptOutput(w) \/ RequeueJob(w)
  <2>1. /\ UNCHANGED <<status, job>>
        /\ pc[w] \in Running \cup {"fail"} => pc'[w] \in Running \cup {"fail"}
    BY <1>0, <1>5
    DEF MakeSandbox, Fetch, Decrypt, Process, Stat, EncryptOpen,
        EncryptOutput, RequeueJob
  <2> QED
    BY <1>1, <2>1 DEF Attended
<1>6. CASE Claims(w, j) /\ (Complete(w) \/ FailJob(w) \/ CountRetry(w))
  <2>1. status'[j] # "processing"
    BY <1>0, <1>6
    DEF Complete, FailJob, CountRetry, UpdateJobCompleted, UpdateJobFailed,
        SetStatus, IncrementRetryCount, HasRow
  <2> QED
    BY <1>3, <1>6, <2>1
<1>7. Claims(w, j) => ~(Loop(w) \/ Pop(w) \/ PopNothing(w) \/ Wipe(w))
  BY <1>0 DEF Loop, Pop, PopNothing, Wipe
<1> QED
  BY <1>2, <1>4, <1>5, <1>6, <1>7 DEF WorkerStep

\* What NothingForgotten says of one job.
Remembered(j) ==
    /\ upload[j] = "accepted" /\ status[j] = "pending" =>
          InQueue(j) \/ \E w \in Workers : Claims(w, j)
    /\ status[j] = "processing" => \E w \in Workers : Claims(w, j)

\* An upload is accepted with its job in the list, and the API takes no job
\* from the list.
LEMMA ApiRemembers ==
    ASSUME WorkerSurvives, TypeOK, NothingForgotten, ApiNext,
           UNCHANGED workerVars, NEW j \in Jobs
    PROVE  Remembered(j)'
<1>0. /\ Remembered(j) /\ ApiTypeOK /\ RowsTyped /\ queue \in Seq(Jobs)
      /\ \A w \in Workers : Claims(w, j)' <=> Claims(w, j)
  BY TypeOKSplit
  DEF NothingForgotten, Remembered, TypeOK, workerVars, Claims
<1> USE DEF ApiTypeOK, RowsTyped, UploadGoto, rows, backendVars
<1>1. InQueue(j) => InQueue(j)'
  <2>1. UNCHANGED queue \/ \E i \in Jobs : Enqueue(i)
    BY DEF ApiNext, ApiStep, Upload, CreateRow, CreateInput, EncryptInput,
           EnqueueUpload, UndoRow, UndoFiles, DeleteRow, DeleteFiles,
           DownloadLookup, DownloadOpen, Expire, Sweep, SweepFiles, ApiCrash
  <2> QED
    BY <1>0, <2>1, PushAdds DEF InQueue
<1>2. upload'[j] = "accepted" =>
         upload[j] = "accepted" \/ (upload[j] = "enqueue" /\ InQueue(j)')
  <2>1. ASSUME NEW i \in Jobs, EnqueueUpload(i), upload'[j] = "accepted"
        PROVE  upload[j] = "accepted" \/ (upload[j] = "enqueue" /\ InQueue(j)')
    <3>1. CASE upload' = [upload EXCEPT ![i] = "undo_row"]
      BY <1>0, <2>1, <3>1
    <3>2. CASE Enqueue(i) /\ upload' = [upload EXCEPT ![i] = "accepted"]
      BY <1>0, <2>1, <3>2, PushAdds DEF EnqueueUpload
    <3> QED
      BY <2>1, <3>1, <3>2 DEF EnqueueUpload
  <2>2. CASE ~\E i \in Jobs : EnqueueUpload(i)
    BY <1>0, <2>2
    DEF ApiNext, ApiStep, Upload, CreateRow, CreateInput, EncryptInput,
        UndoRow, UndoFiles, DeleteRow, DeleteFiles, DownloadLookup,
        DownloadOpen, Expire, Sweep, SweepFiles, ApiCrash, apiVars
  <2> QED
    BY <2>1, <2>2
<1> QED
  BY <1>0, <1>1, <1>2, ApiLeaves DEF Remembered

\* A goroutine that does not answer for the job may take it, and leaves it
\* with those who do.
LEMMA WorkerRemembersOthers ==
    ASSUME WorkerSurvives, TypeOK, NEW w \in Workers, WorkerStep(w),
           UNCHANGED apiVars, NEW j \in Jobs, ~Claims(w, j), Remembered(j)
    PROVE  Remembered(j)'
<1>0. /\ status'[j] = status[j] /\ UNCHANGED upload
      /\ queue \in Seq(Jobs) /\ WorkerTypeOK
      /\ \A v \in Workers : Claims(v, j) => Claims(v, j)'
  BY WorkerLeaves DEF apiVars, TypeOK, BackendTypeOK, Claims
<1>1. InQueue(j) => InQueue(j)' \/ Claims(w, j)'
  <2>1. CASE Pop(w)
    <3>1. Dequeue /\ pc'[w] = "mkdir" /\ job'[w] = Head(queue)
      BY <1>0, <2>1 DEF Pop, WorkerTypeOK, WorkerSurvives
    <3> QED
      BY <1>0, <3>1, PopShrinks DEF Claims, Claiming
  <2>2. CASE RequeueJob(w)
    <3>1. UNCHANGED queue \/ Requeue(job[w])
      BY <2>2 DEF RequeueJob
    <3>2. job[w] \in Jobs
      BY <1>0, <2>2 DEF RequeueJob, WorkerTypeOK, Claiming
    <3> QED
      BY <1>0, <3>1, <3>2, PushAdds DEF InQueue
  <2>3. CASE ~Pop(w) /\ ~RequeueJob(w)
    <3>1. UNCHANGED queue
      BY <2>3
      DEF WorkerStep, Loop, PopNothing, MakeSandbox, Fetch, Start, Decrypt,
          Process, Stat, EncryptOpen, EncryptOutput, Complete, CountRetry,
          FailJob, Wipe, backendVars
    <3> QED
      BY <3>1 DEF InQueue
  <2> QED
    BY <2>1, <2>2, <2>3
<1> QED
  BY <1>0, <1>1 DEF Remembered

\* The goroutine that answers for a job leaves it only when it has ended, or
\* is in the list again, or has no row.
LEMMA WorkerRemembersOwn ==
    ASSUME WorkerSurvives, ~stopping, TypeOK, NEW w \in Workers,
           WorkerStep(w), UNCHANGED apiVars,
           NEW j \in Jobs, Claims(w, j), Remembered(j), Attended(j)
    PROVE  Remembered(j)'
<1> USE DEF Claims, Claiming, Goto, backendVars, rows, files
<1>0. /\ WorkerTypeOK /\ RowsTyped /\ queue \in Seq(Jobs) /\ ~SqlError
      /\ job[w] = j /\ pc[w] \in Claiming
  BY TypeOKSplit
  DEF TypeOK, apiVars, BackendTypeOK, WorkerSurvives, SqlError
<1> USE DEF WorkerTypeOK, RowsTyped
<1>1. CASE Claims(w, j)'
  BY <1>1 DEF Remembered
<1>2. ASSUME status'[j] \in {"none", "completed", "failed"}
      PROVE  Remembered(j)'
  BY <1>2 DEF Remembered
\* A run that w has not begun, or has given back, is in other hands.
<1>3. ASSUME UNCHANGED status, status[j] # "pending" \/ InQueue(j)',
             pc[w] \in {"fetch", "requeue"}
      PROVE  Remembered(j)'
  <2>1. \A v \in Workers \ {w} : pc'[v] = pc[v] /\ job'[v] = job[v]
    BY <1>0
    DEF WorkerStep, Loop, Pop, PopNothing, MakeSandbox, Fetch, Start,
        Decrypt, Process, Stat, EncryptOpen, EncryptOutput, Complete,
        CountRetry, RequeueJob, FailJob, Wipe
  <2>2. CASE status[j] = "processing"
    <3>1. PICK v \in Workers : job[v] = j /\ pc[v] \in Running \cup {"fail"}
      BY <2>2 DEF Attended
    <3>2. Claims(v, j)' /\ v # w
      BY <1>3, <2>1, <3>1 DEF Running
    <3> QED
      BY <3>2 DEF Remembered
  <2>3. CASE status[j] # "processing"
    BY <1>3, <2>3 DEF Remembered
  <2> QED
    BY <2>2, <2>3
<1>4. CASE Fetch(w) \/ RequeueJob(w)
  <2>1. CASE Fetch(w) /\ ~Claims(w, j)'
    <3>1. UNCHANGED status /\ status[j] # "pending" /\ pc[w] = "fetch"
      BY <1>0, <2>1 DEF Fetch
    <3> QED
      BY <1>3, <3>1
  <2>2. CASE RequeueJob(w) /\ ~Claims(w, j)'
    <3>1. UNCHANGED status /\ InQueue(j)' /\ pc[w] = "requeue"
      BY <1>0, <2>2, PushAdds DEF RequeueJob
    <3> QED
      BY <1>3, <3>1
  <2> QED
    BY <1>1, <1>4, <2>1, <2>2
<1>5. CASE Complete(w) \/ FailJob(w)
  <2>1. status'[j] \in {"none", "completed", "failed"}
    BY <1>0, <1>5
    DEF Complete, FailJob, UpdateJobCompleted, UpdateJobFailed, SetStatus
  <2> QED
    BY <1>2, <2>1
<1>6. CASE \/ MakeSandbox(w) \/ Start(w) \/ Decrypt(w) \/ Process(w)
           \/ Stat(w) \/ EncryptOpen(w) \/ EncryptOutput(w)
           \/ CountRetry(w)
  <2>1. Claims(w, j)'
    BY <1>0, <1>6
    DEF MakeSandbox, Start, Decrypt, Process, Stat, EncryptOpen,
        EncryptOutput, CountRetry
  <2> QED
    BY <1>1, <2>1
<1>7. ~(Loop(w) \/ Pop(w) \/ PopNothing(w) \/ Wipe(w))
  BY <1>0 DEF Loop, Pop, PopNothing, Wipe
<1> QED
  BY <1>4, <1>5, <1>6, <1>7 DEF WorkerStep

LEMMA NothingForgottenInductive ==
    ASSUME WorkerSurvives
    PROVE  /\ TypeOK /\ ~stopping /\ RunAttended /\ NothingForgotten
           /\ [Next]_vars
           => ~stopping' /\ RunAttended' /\ NothingForgotten'
<1> SUFFICES ASSUME TypeOK, ~stopping, RunAttended, NothingForgotten,
                    [Next]_vars
             PROVE  ~stopping' /\ RunAttended' /\ NothingForgotten'
  OBVIOUS
<1>1. ~stopping'
  <2>1. CASE ApiNext /\ UNCHANGED workerVars
    BY <2>1 DEF workerVars
  <2>2. ASSUME NEW w \in Workers, WorkerStep(w)
        PROVE  UNCHANGED stopping
    BY <2>2
    DEF WorkerStep, Loop, Pop, PopNothing, MakeSandbox, Fetch, Start, Decrypt,
        Process, Stat, EncryptOpen, EncryptOutput, Complete, CountRetry,
        RequeueJob, FailJob, Wipe, Goto
  <2>3. ~Sigterm /\ ~Exit /\ ~Crash
    BY DEF WorkerSurvives, Sigterm, Exit, Crash
  <2>4. UNCHANGED vars => UNCHANGED stopping
    BY DEF vars, workerVars
  <2> QED
    BY <2>1, <2>2, <2>3, <2>4 DEF Next, WorkerNext, workerVars
<1>2. ASSUME NEW j \in Jobs
      PROVE  Attended(j)' /\ Remembered(j)'
  <2>0. Remembered(j) /\ Attended(j)
    BY DEF NothingForgotten, RunAttended, Remembered, Attended
  <2>1. CASE ApiNext /\ UNCHANGED workerVars
    <3>1. status'[j] = "processing" => status[j] = "processing"
      BY <2>1, ApiLeaves
    <3>2. Attended(j)'
      BY <2>0, <2>1, <3>1 DEF Attended, workerVars
    <3> QED
      BY <2>1, <3>2, ApiRemembers
  <2>2. ASSUME NEW w \in Workers, WorkerStep(w), UNCHANGED apiVars
        PROVE  Attended(j)' /\ Remembered(j)'
    BY <2>0, <2>2, WorkerAttends, WorkerRemembersOthers, WorkerRemembersOwn
  <2>3. ~Sigterm /\ ~Exit /\ ~Crash /\ ~Evict
    BY DEF WorkerSurvives, Sigterm, Exit, Crash, Evict
  <2>4. CASE UNCHANGED vars
    BY <2>0, <2>4
    DEF vars, backendVars, apiVars, workerVars, Attended, Remembered, InQueue,
        Claims
  <2> QED
    BY <2>1, <2>2, <2>3, <2>4 DEF Next, WorkerNext
<1>3. RunAttended' /\ NothingForgotten'
  BY <1>2 DEF NothingForgotten, RunAttended, Remembered, Attended
<1> QED
  BY <1>1, <1>3

\* As long as the worker process lives and neither the database nor the list
\* loses anything, every accepted job that waits is in the list or in the
\* hands of a goroutine, and every running one in the hands of a goroutine:
\* failed tools, pushes and pops, pushes sent twice, disconnected clients and
\* API crashes lose none.
THEOREM NoJobIsForgotten ==
    ASSUME WorkerSurvives
    PROVE  Spec => []NothingForgotten
<1>1. Init => ~stopping /\ RunAttended /\ NothingForgotten
  BY DEF Init, BackendInit, WorkerInit, RunAttended, NothingForgotten
<1> QED
  BY <1>1, Typing, NothingForgottenInductive, PTL DEF Spec

----------------------------------------------------------------------------
(* The service implements JobStatus.                                       *)

\* A step that changes what a client sees of one job only is a move of the
\* abstract specification.
LEMMA OneJobMoves ==
    ASSUME NEW i \in Jobs, NEW from, NEW to,
           ClientView(i) \in from, ClientView(i)' = to,
           \A k \in Jobs \ {i} : ClientView(k)' = ClientView(k)
    PROVE  Promise!Move(i, from, to)
BY DEF Promise!Move

LEMMA NothingSeen ==
    ASSUME \A k \in Jobs : ClientView(k)' = ClientView(k), UNCHANGED retries
    PROVE  UNCHANGED Promise!vars
BY DEF Promise!vars

\* Removing the rows of S is seen as a removal, or not at all.
LEMMA RemovalSeen ==
    ASSUME TypeOK, PhaseInv, KeptInv, NEW S \in SUBSET Jobs,
           \A j \in S : HasRow(j), DeleteJobs(S),
           \A j \in Jobs : upload'[j] = "new" <=> upload[j] = "new"
    PROVE  [Promise!Next]_(Promise!vars)
<1>0. RowsTyped /\ \A j \in S : upload[j] # "new"
  BY TypeOKSplit DEF TypeOK, KeptInv, FreshUploads
<1>1. \A j \in Jobs : ClientView(j)' = IF j \in S THEN "gone" ELSE ClientView(j)
  BY <1>0 DEF DeleteJobs, ClientView, HasRow
<1>2. CASE S = {}
  <2>1. UNCHANGED retries
    BY <1>0, <1>2 DEF DeleteJobs, RowsTyped
  <2> QED
    BY <1>1, <1>2, <2>1, NothingSeen
<1>3. CASE S # {}
  <2>1. \A j \in S : ClientView(j) \notin {"absent", "gone"}
    BY <1>0 DEF ClientView, HasRow, RowsTyped, Statuses
  <2>2. Promise!Remove(S)
    BY <1>1, <1>3, <2>1 DEF Promise!Remove, DeleteJobs
  <2> QED
    BY <2>2 DEF Promise!Next
<1> QED
  BY <1>2, <1>3

LEMMA ApiPromise ==
    ASSUME TypeOK, KeptInv, PhaseInv, ApiNext
    PROVE  [Promise!Next]_(Promise!vars)
<1>0. RowsTyped /\ ApiTypeOK
  BY TypeOKSplit DEF TypeOK
<1> USE DEF RowsTyped, ApiTypeOK, UploadGoto, rows
<1>1. ASSUME NEW i \in Jobs, CreateRow(i)
      PROVE  [Promise!Next]_(Promise!vars)
  <2>1. /\ upload[i] = "new" /\ ~HasRow(i) /\ retries[i] = 0
        /\ upload'[i] # "new"
        /\ \A k \in Jobs \ {i} : upload'[k] = upload[k]
    BY <1>0, <1>1
    DEF CreateRow, KeptInv, FreshUploads, PhaseInv
  <2>2. ClientView(i) \in {"absent"}
    BY <2>1 DEF ClientView
  <2>3. CASE CreateJob(i)
    <3>1. UNCHANGED retries
      BY <1>0, <2>1, <2>3 DEF CreateJob
    <3>2. ClientView(i)' = "pending"
      BY <1>0, <2>3 DEF CreateJob, ClientView, HasRow
    <3>3. \A k \in Jobs \ {i} : ClientView(k)' = ClientView(k)
      BY <1>0, <2>1, <2>3 DEF CreateJob, ClientView, HasRow
    <3>4. Promise!Create(i)
      BY <2>2, <3>1, <3>2, <3>3, OneJobMoves DEF Promise!Create
    <3> QED
      BY <3>4 DEF Promise!Next
  <2>4. CASE UNCHANGED rows
    <3>1. ClientView(i)' = "gone"
      BY <2>1, <2>4 DEF ClientView, HasRow
    <3>2. \A k \in Jobs \ {i} : ClientView(k)' = ClientView(k)
      BY <2>1, <2>4 DEF ClientView, HasRow
    <3>3. Promise!Reject(i)
      BY <2>2, <2>4, <3>1, <3>2, OneJobMoves DEF Promise!Reject
    <3> QED
      BY <3>3 DEF Promise!Next
  <2> QED
    BY <1>1, <2>3, <2>4 DEF CreateRow
<1>2. ASSUME NEW i \in Jobs, UndoRow(i) \/ DeleteRow(i)
      PROVE  [Promise!Next]_(Promise!vars)
  <2>1. \A j \in Jobs : upload'[j] = "new" <=> upload[j] = "new"
    BY <1>0, <1>2 DEF UndoRow, DeleteRow
  <2>2. CASE UNCHANGED rows
    BY <2>1, <2>2, NothingSeen DEF ClientView, HasRow
  <2>3. CASE DeleteJobs({i})
    <3>1. CASE HasRow(i)
      BY <2>1, <2>3, <3>1, RemovalSeen
    <3>2. CASE ~HasRow(i)
      <4>1. retries[i] = 0 /\ status[i] = "none"
        BY <3>2 DEF PhaseInv, HasRow
      <4>2. UNCHANGED <<status, retries>>
        BY <1>0, <2>3, <4>1 DEF DeleteJobs
      <4> QED
        BY <2>1, <4>2, NothingSeen DEF ClientView, HasRow
    <3> QED
      BY <3>1, <3>2
  <2> QED
    BY <1>2, <2>2, <2>3 DEF UndoRow, DeleteRow, DeleteJob
<1>3. ASSUME Sweep
      PROVE  [Promise!Next]_(Promise!vars)
  <2>1. ExpiredJobs \in SUBSET Jobs /\ \A j \in ExpiredJobs : HasRow(j)
    BY DEF ExpiredJobs, TypeOK, BackendTypeOK
  <2> QED
    BY <1>3, <2>1, RemovalSeen DEF Sweep, CleanupExpiredJobs
<1>4. ASSUME \/ ApiCrash
             \/ \E i \in Jobs :
                   \/ CreateInput(i) \/ EncryptInput(i) \/ EnqueueUpload(i)
                   \/ UndoFiles(i) \/ DeleteFiles(i) \/ SweepFiles(i)
                   \/ Expire(i) \/ DownloadLookup(i) \/ DownloadOpen(i)
      PROVE  [Promise!Next]_(Promise!vars)
  <2>1. UNCHANGED <<status, retries>>
    BY <1>4
    DEF ApiCrash, CreateInput, EncryptInput, EnqueueUpload, UndoFiles,
        DeleteFiles, SweepFiles, Expire, DownloadLookup, DownloadOpen,
        backendVars
  <2>2. \A j \in Jobs : upload'[j] = "new" <=> upload[j] = "new"
    BY <1>0, <1>4
    DEF ApiCrash, CreateInput, EncryptInput, EnqueueUpload, UndoFiles,
        DeleteFiles, SweepFiles, Expire, DownloadLookup, DownloadOpen,
        InFlight, apiVars
  <2> QED
    BY <2>1, <2>2, NothingSeen DEF ClientView, HasRow
<1> QED
  BY <1>1, <1>2, <1>3, <1>4 DEF ApiNext, ApiStep, Upload

\* The UPDATEs of a goroutine, none of which looks at the status it
\* replaces, find the status that JobStatus lets them replace.
LEMMA WorkerPromise ==
    ASSUME TypeOK, PhaseInv, KeptInv, NEW w \in Workers, WorkerStep(w),
           UNCHANGED apiVars
    PROVE  [Promise!Next]_(Promise!vars)
<1>i. PICK i : i = job[w]
  OBVIOUS
<1>0. /\ WorkerTypeOK /\ RowsTyped /\ UNCHANGED upload
      /\ \A k \in Jobs : HasRow(k) => ClientView(k) = status[k]
  BY TypeOKSplit DEF TypeOK, apiVars, ClientView
<1> USE DEF Goto, backendVars, rows
<1>1. ASSUME UNCHANGED <<status, retries>>
      PROVE  [Promise!Next]_(Promise!vars)
  BY <1>0, <1>1, NothingSeen DEF ClientView, HasRow
<1>2. ASSUME i \in Jobs, HasRow(i), HasRow(i)',
             \A k \in Jobs \ {i} : status'[k] = status[k],
             NEW from, NEW to, status[i] \in from, status'[i] = to
      PROVE  Promise!Move(i, from, to)
  <2>1. \A k \in Jobs \ {i} : ClientView(k)' = ClientView(k)
    BY <1>0, <1>2 DEF ClientView, HasRow
  <2>2. ClientView(i) \in from /\ ClientView(i)' = to
    BY <1>0, <1>2 DEF ClientView
  <2> QED
    BY <1>2, <2>1, <2>2, OneJobMoves
\* Without a row an UPDATE by id changes nothing.
<1>3. ASSUME i \in Jobs, NEW s \in Statuses, SetStatus(i, s)
      PROVE  /\ ~HasRow(i) => UNCHANGED <<status, retries>>
             /\ HasRow(i) => /\ UNCHANGED retries /\ HasRow(i)'
                             /\ \A k \in Jobs \ {i} : status'[k] = status[k]
                             /\ status'[i] = s
  BY <1>0, <1>3 DEF SetStatus, HasRow, RowsTyped, Statuses
<1>4. CASE Start(w)
  <2>1. /\ i \in Jobs /\ Waiting(i)
        /\ UNCHANGED rows \/ SetStatus(i, "processing")
    BY <1>i, <1>0, <1>4
    DEF Start, PhaseInv, WorkerTypeOK, Claiming, Running, UpdateJobStarted
  <2>2. CASE SetStatus(i, "processing") /\ HasRow(i)
    <3>1. Promise!Move(i, {"pending"}, "processing") /\ UNCHANGED retries
      BY <1>2, <1>3, <2>1, <2>2 DEF Waiting, HasRow, Statuses
    <3>2. Promise!Start(i)
      BY <2>1, <3>1 DEF Promise!Start, Waiting
    <3> QED
      BY <2>1, <3>2 DEF Promise!Next
  <2> QED
    BY <1>1, <1>3, <2>1, <2>2 DEF Statuses
<1>5. CASE Complete(w)
  <2>1. /\ i \in Jobs /\ status[i] \in {"none", "processing"}
        /\ UNCHANGED rows \/ SetStatus(i, "completed")
    BY <1>i, <1>0, <1>5
    DEF Complete, PhaseInv, WorkerTypeOK, Claiming, Running,
        UpdateJobCompleted
  <2>2. CASE SetStatus(i, "completed") /\ HasRow(i)
    <3>1. Promise!Move(i, {"processing"}, "completed") /\ UNCHANGED retries
      BY <1>2, <1>3, <2>1, <2>2 DEF HasRow, Statuses
    <3> QED
      BY <2>1, <3>1 DEF Promise!Finish, Promise!Next
  <2> QED
    BY <1>1, <1>3, <2>1, <2>2 DEF Statuses
<1>6. CASE FailJob(w)
  <2>1. /\ i \in Jobs /\ status[i] \in {"none", "pending", "processing"}
        /\ UNCHANGED rows \/ SetStatus(i, "failed")
    BY <1>i, <1>0, <1>6
    DEF FailJob, PhaseInv, Waiting, WorkerTypeOK, Claiming, Running,
        UpdateJobFailed
  <2>2. CASE SetStatus(i, "failed") /\ HasRow(i)
    <3>1. Promise!Move(i, {"pending", "processing"}, "failed") /\ UNCHANGED retries
      BY <1>2, <1>3, <2>1, <2>2 DEF HasRow, Statuses
    <3> QED
      BY <2>1, <3>1 DEF Promise!Fail, Promise!Next
  <2> QED
    BY <1>1, <1>3, <2>1, <2>2 DEF Statuses
<1>7. CASE CountRetry(w)
  <2>1. /\ i \in Jobs /\ status[i] \in {"none", "processing"}
        /\ UNCHANGED rows \/ IncrementRetryCount(i)
    BY <1>i, <1>0, <1>7
    DEF CountRetry, PhaseInv, WorkerTypeOK, Claiming, Running
  <2>2. CASE IncrementRetryCount(i)
    <3>1. /\ HasRow(i) /\ HasRow(i)' /\ status'[i] = "pending"
          /\ \A k \in Jobs \ {i} : status'[k] = status[k]
      BY <1>0, <2>1, <2>2 DEF IncrementRetryCount, HasRow, RowsTyped
    <3>2. Promise!Move(i, {"processing"}, "pending")
      BY <1>2, <2>1, <3>1 DEF HasRow
    <3>3. Promise!Retry(i)
      BY <2>2, <3>2 DEF Promise!Retry, IncrementRetryCount
    <3> QED
      BY <2>1, <3>3 DEF Promise!Next
  <2> QED
    BY <1>1, <2>1, <2>2
<1>8. CASE ~(Start(w) \/ Complete(w) \/ FailJob(w) \/ CountRetry(w))
  <2>1. UNCHANGED <<status, retries>>
    BY <1>8
    DEF WorkerStep, Loop, Pop, PopNothing, MakeSandbox, Fetch, Decrypt,
        Process, Stat, EncryptOpen, EncryptOutput, RequeueJob, Wipe
  <2> QED
    BY <1>1, <2>1
<1> QED
  BY <1>4, <1>5, <1>6, <1>7, <1>8

LEMMA PromiseStep ==
    TypeOK /\ KeptInv /\ PhaseInv /\ [Next]_vars
    => [Promise!Next]_(Promise!vars)
<1> SUFFICES ASSUME TypeOK, KeptInv, PhaseInv, [Next]_vars
             PROVE  [Promise!Next]_(Promise!vars)
  OBVIOUS
<1>1. CASE ApiNext
  BY <1>1, ApiPromise
<1>2. CASE (\E w \in Workers : WorkerStep(w)) /\ UNCHANGED apiVars
  BY <1>2, WorkerPromise
<1>3. CASE ~ApiNext /\ ~\E w \in Workers : WorkerStep(w)
  <2>1. UNCHANGED <<status, retries, upload>>
    BY <1>3
    DEF Next, WorkerNext, Sigterm, Exit, Crash, Restart, Evict, rows, apiVars,
        vars, backendVars
  <2> QED
    BY <2>1, NothingSeen DEF ClientView, HasRow
<1> QED
  BY <1>1, <1>2, <1>3 DEF Next, WorkerNext, Sigterm, Exit, Crash, Restart,
                          Evict, vars

LEMMA PromiseInit == Init => Promise!Init
BY DEF Init, BackendInit, ApiInit, Promise!Init, ClientView, HasRow

\* Whatever fails, crashes and restarts included, unless a push whose reply
\* is lost is sent again: a client that polls a job sees a life that JobStatus
\* promises, with at most MaxRetries + 1 runs, no change once it has ended,
\* and no return once it is removed.
THEOREM ServiceKeepsPromise ==
    ASSUME "reply" \notin Faults
    PROVE  Spec => KeepsPromise
<1>1. Spec => []TypeOK
  BY Typing
<1>2. Spec => []KeptInv
  BY Typing, KeptInit, KeptInductive, PTL DEF Spec
<1>3. Spec => []PhaseInv
  BY StatusFollowsGoroutine
<1> QED
  BY <1>1, <1>2, <1>3, PromiseInit, PromiseStep, PTL
  DEF Spec, KeepsPromise, Promise!Spec

=============================================================================
