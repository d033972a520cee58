---------------------------- MODULE FrontendProofs ----------------------------
(***************************************************************************)
(* Proofs about the page, for any uploads a user starts.                   *)
(***************************************************************************)
EXTENDS Frontend, TLAPS

----------------------------------------------------------------------------
(* Type correctness.                                                       *)

LEMMA UserTypes ==
    ASSUME FrontendTypeOK, User
    PROVE  FrontendTypeOK'
<1> USE DEF FrontendTypeOK, Views, result, server
<1>1. {selected', enabled', uploading', timer', hurried'} \subseteq BOOLEAN
  <2>1. {selected', enabled', uploading', timer'} \subseteq BOOLEAN
    BY DEF User, SetFile, ClearFile, SwitchTool, Retry, ResetUI,
           StartProcessing
  <2>2. hurried' \in BOOLEAN
    BY DEF User
  <2> QED
    BY <2>1, <2>2
<1>2. {jobId', link'} \subseteq Jobs \cup {NoJob} /\ view' \in Views
  BY DEF User, SetFile, ClearFile, SwitchTool, Retry, ResetUI, StartProcessing
<1>3. posts' \in SUBSET Jobs /\ started' \in Seq(Jobs)
  BY DEF User, SetFile, ClearFile, SwitchTool, Retry, ResetUI, StartProcessing
<1> QED
  BY <1>1, <1>2, <1>3 DEF User

LEMMA PollTypes ==
    ASSUME FrontendTypeOK, NEW s \in Slots, Poll(s)
    PROVE  FrontendTypeOK'
<1> USE DEF FrontendTypeOK, Views, Polls, Answers, form, result, uploads
<1>1. CASE Tick(s)
  BY <1>1 DEF Tick
<1>2. ASSUME NEW answer \in Answers, AnswerPoll(s, answer)
      PROVE  FrontendTypeOK'
  <2>1. polls[s] \in Polls
    BY <1>2 DEF AnswerPoll
  <2>2. polls' \in [Slots -> Polls \cup {NoPoll}]
    BY <1>2, <2>1 DEF AnswerPoll
  <2> QED
    BY <1>2, <2>2 DEF AnswerPoll
<1>3. CASE PollServed(s) \/ PollRefused(s)
  BY <1>2, <1>3 DEF PollServed, PollRefused
<1>4. CASE PollDelivered(s) \/ PollLost(s)
  BY <1>4 DEF PollDelivered, PollLost
<1> QED
  BY <1>1, <1>3, <1>4 DEF Poll

LEMMA TypesInductive == FrontendTypeOK /\ [Next]_pageVars => FrontendTypeOK'
<1> SUFFICES ASSUME FrontendTypeOK, [Next]_pageVars
             PROVE  FrontendTypeOK'
  OBVIOUS
<1>1. CASE User
  BY <1>1, UserTypes
<1>2. ASSUME NEW j \in Jobs, PostAnswered(j) \/ PostFailed(j)
      PROVE  FrontendTypeOK'
  BY <1>2 DEF PostAnswered, PostFailed, FrontendTypeOK, Views, result
<1>3. ASSUME NEW s \in Slots, Poll(s)
      PROVE  FrontendTypeOK'
  BY <1>3, PollTypes
<1>4. CASE Serve \/ UNCHANGED pageVars
  BY <1>4 DEF Serve, pageVars, form, result, uploads, FrontendTypeOK
<1> QED
  BY <1>1, <1>2, <1>3, <1>4 DEF Next

\* The page's state is well typed, with any number of polls at once.
THEOREM PageTyping == Spec => []FrontendTypeOK
<1>1. Init => FrontendTypeOK
  <2> SUFFICES ASSUME Init
               PROVE  FrontendTypeOK
    OBVIOUS
  <2>1. {selected, enabled, uploading, timer, hurried} \subseteq BOOLEAN
    BY DEF Init
  <2>2. started \in Seq(Jobs) /\ posts \in SUBSET Jobs
    BY DEF Init
  <2>3. /\ {jobId, link} \subseteq Jobs \cup {NoJob} /\ view \in Views
        /\ polls \in [Slots -> Polls \cup {NoPoll}]
    BY DEF Init, Views
  <2> QED
    BY <2>1, <2>2, <2>3 DEF FrontendTypeOK
<1> QED
  BY <1>1, TypesInductive, PTL DEF Spec

----------------------------------------------------------------------------
(* The link of the result.                                                 *)

\* What the service has said of the jobs.
JobStates == {"absent", "pending", "processing", "completed", "failed", "gone"}

ServerTyped == state \in [Jobs -> JobStates]

\* What has completed stays so until it is removed: JobStatus.
LEMMA ServeKeeps ==
    ASSUME ServerTyped, Service!Next
    PROVE  /\ ServerTyped'
           /\ \A j \in Jobs : Delivered(j) => Delivered(j)'
<1> USE DEF ServerTyped, JobStates, Delivered
<1>1. ASSUME NEW j \in Jobs,
             \/ Service!Create(j) \/ Service!Reject(j) \/ Service!Start(j)
             \/ Service!Retry(j) \/ Service!Finish(j) \/ Service!Fail(j)
      PROVE  /\ ServerTyped'
             /\ \A k \in Jobs : Delivered(k) => Delivered(k)'
  <2>1. PICK to \in JobStates :
           /\ state' = [state EXCEPT ![j] = to]
           /\ Delivered(j) => to \in {"completed", "gone"}
    BY <1>1
    DEF Service!Create, Service!Reject, Service!Start, Service!Retry,
        Service!Finish, Service!Fail, Service!Move
  <2> QED
    BY <2>1
<1>2. ASSUME NEW S \in SUBSET Jobs, Service!Remove(S)
      PROVE  /\ ServerTyped'
             /\ \A k \in Jobs : Delivered(k) => Delivered(k)'
  BY <1>2 DEF Service!Remove
<1> QED
  BY <1>1, <1>2 DEF Service!Next

\* What the user does while no progress is shown finds nothing under way.
LEMMA UserWaits ==
    ASSUME FrontendTypeOK, WaitInv, User
    PROVE  WaitInv'
<1> SUFFICES ASSUME ~hurried'
             PROVE  WaitInv'
  BY DEF WaitInv
<1>1. /\ ~hurried /\ view # "progress" /\ UNCHANGED <<polls, state>>
  BY DEF User, server
<1>2. posts = {} /\ ~timer /\ \A s \in Slots : polls[s] = NoPoll
  BY <1>1 DEF WaitInv
<1>3. CASE SetFile \/ ClearFile
  BY <1>1, <1>2, <1>3
  DEF SetFile, ClearFile, WaitInv, LinkIsResult, result
<1>4. CASE SwitchTool \/ Retry
  BY <1>1, <1>2, <1>4 DEF SwitchTool, Retry, ResetUI, WaitInv, LinkIsResult
<1>5. ASSUME NEW j \in Jobs, StartProcessing(j)
      PROVE  WaitInv'
  <2>1. Last(started') = j
    BY <1>5 DEF StartProcessing, FrontendTypeOK, Last
  <2>2. view' = "progress" /\ ~timer' /\ posts' = {j}
    BY <1>2, <1>5 DEF StartProcessing
  <2> QED
    BY <1>1, <1>2, <2>1, <2>2 DEF WaitInv, LinkIsResult
<1> QED
  BY <1>3, <1>4, <1>5 DEF User

LEMMA PostWaits ==
    ASSUME FrontendTypeOK, WaitInv, NEW j \in Jobs,
           PostAnswered(j) \/ PostFailed(j)
    PROVE  WaitInv'
<1> SUFFICES ASSUME ~hurried'
             PROVE  WaitInv'
  BY DEF WaitInv
<1>1. /\ ~hurried /\ UNCHANGED <<started, polls, state>>
      /\ j \in posts /\ posts' = posts \ {j}
  BY DEF PostAnswered, PostFailed, server
<1>2. /\ posts' = {} /\ j = Last(started) /\ view = "progress" /\ ~timer
      /\ \A s \in Slots : polls[s] = NoPoll
  BY <1>1 DEF WaitInv
<1>3. CASE PostAnswered(j)
  BY <1>1, <1>2, <1>3 DEF PostAnswered, WaitInv, LinkIsResult, result
<1>4. CASE PostFailed(j)
  BY <1>1, <1>2, <1>4 DEF PostFailed, WaitInv, LinkIsResult
<1> QED
  BY <1>3, <1>4

\* The answer that ends the polling is about the job of the page, and no
\* other poll is under way to speak after it.
LEMMA PollWaits ==
    ASSUME \A s, t \in Slots : s = t,
           FrontendTypeOK, ServerTyped, WaitInv, NEW s \in Slots, Poll(s)
    PROVE  WaitInv'
<1> SUFFICES ASSUME ~hurried'
             PROVE  WaitInv'
  BY DEF WaitInv
<1>0. /\ ~hurried /\ UNCHANGED <<jobId, started, posts, state>>
      /\ polls \in [Slots -> Polls \cup {NoPoll}]
  BY DEF Poll, Tick, PollServed, PollRefused, AnswerPoll, PollDelivered,
         PollLost, uploads, server, FrontendTypeOK
<1>1. CASE Tick(s)
  <2>1. /\ UNCHANGED <<timer, view, link>> /\ timer
        /\ polls'[s] = [job |-> jobId, answer |-> "none"]
    BY <1>0, <1>1 DEF Tick, result
  <2> QED
    BY <1>0, <2>1 DEF WaitInv, LinkIsResult, Delivered
<1>2. ASSUME NEW answer \in Answers, AnswerPoll(s, answer),
             answer = "completed" => state[polls[s].job] = "completed"
      PROVE  WaitInv'
  <2>1. /\ UNCHANGED <<timer, view, link>> /\ polls[s] # NoPoll
        /\ polls[s] \in Polls
        /\ polls' = [polls EXCEPT ![s].answer = answer]
    BY <1>0, <1>2 DEF AnswerPoll, result
  <2>2. polls'[s].job = polls[s].job /\ polls'[s].answer = answer
    BY <1>0, <2>1 DEF Polls
  <2>3. timer /\ polls[s].job = jobId
    BY <1>0, <2>1 DEF WaitInv
  <2> QED
    BY <1>0, <1>2, <2>1, <2>2, <2>3 DEF WaitInv, LinkIsResult, Delivered
<1>3. CASE PollServed(s) \/ PollRefused(s)
  BY <1>2, <1>3 DEF PollServed, PollRefused, Answers
<1>4. CASE PollDelivered(s)
  <2>1. /\ timer /\ view = "progress" /\ posts = {}
        /\ jobId \in Jobs /\ jobId = Last(started)
        /\ polls[s].answer = "completed" => Delivered(jobId)
    BY <1>0, <1>4 DEF PollDelivered, Arrived, WaitInv
  <2>2. \A t \in Slots : polls'[t] = NoPoll
    BY <1>0, <1>4 DEF PollDelivered
  <2>3. \/ UNCHANGED <<timer, view, link>>
        \/ ~timer' /\ view' = "error"
        \/ /\ ~timer' /\ view' = "success" /\ link' = jobId
           /\ polls[s].answer = "completed"
    BY <1>4 DEF PollDelivered, result
  <2> QED
    BY <1>0, <2>1, <2>2, <2>3 DEF WaitInv, LinkIsResult, Delivered
<1>5. CASE PollLost(s)
  <2>1. /\ UNCHANGED <<timer, view, link>>
        /\ \A t \in Slots : polls'[t] = NoPoll
    BY <1>0, <1>5 DEF PollLost, result
  <2> QED
    BY <1>0, <2>1 DEF WaitInv, LinkIsResult, Delivered
<1> QED
  BY <1>1, <1>3, <1>4, <1>5 DEF Poll

LEMMA WaitInductive ==
    ASSUME \A s, t \in Slots : s = t
    PROVE  /\ FrontendTypeOK /\ ServerTyped /\ WaitInv /\ [Next]_pageVars
           => ServerTyped' /\ WaitInv'
<1> SUFFICES ASSUME FrontendTypeOK, ServerTyped, WaitInv, [Next]_pageVars
             PROVE  ServerTyped' /\ WaitInv'
  OBVIOUS
<1>1. ASSUME UNCHANGED server
      PROVE  ServerTyped'
  BY <1>1 DEF server, ServerTyped
<1>2. CASE User
  BY <1>1, <1>2, UserWaits DEF User
<1>3. ASSUME NEW j \in Jobs, PostAnswered(j) \/ PostFailed(j)
      PROVE  ServerTyped' /\ WaitInv'
  BY <1>1, <1>3, PostWaits DEF PostAnswered, PostFailed
<1>4. ASSUME NEW s \in Slots, Poll(s)
      PROVE  ServerTyped' /\ WaitInv'
  <2>1. UNCHANGED server
    BY <1>4
    DEF Poll, Tick, PollServed, PollRefused, AnswerPoll, PollDelivered, PollLost
  <2> QED
    BY <1>1, <1>4, <2>1, PollWaits
<1>5. CASE Serve
  <2>1. /\ ServerTyped'
        /\ \A j \in Jobs : Delivered(j) => Delivered(j)'
    BY <1>5, ServeKeeps DEF Serve
  <2>2. UNCHANGED <<jobId, timer, view, link, started, posts, hurried, polls>>
    BY <1>5 DEF Serve, result, uploads
  <2> QED
    BY <2>1, <2>2 DEF WaitInv, LinkIsResult, Delivered
<1>6. CASE UNCHANGED pageVars
  BY <1>1, <1>6
  DEF pageVars, form, result, uploads, server, WaitInv, LinkIsResult, Delivered
<1> QED
  BY <1>2, <1>3, <1>4, <1>5, <1>6 DEF Next

LEMMA WaitInit == Init => ServerTyped /\ WaitInv
BY DEF Init, Service!Init, ServerTyped, JobStates, WaitInv, LinkIsResult

\* As long as the answer to a poll arrives before the next poll is sent, the
\* link a waiting user is shown leads to the upload started last, and that
\* upload has completed, whatever was uploaded, abandoned or lost before.
\* With two polls under way the run "link" shows that it need not.
THEOREM LinkLeadsToResult ==
    ASSUME \A s, t \in Slots : s = t
    PROVE  Spec => []LinkIsResult
<1>1. WaitInv => LinkIsResult
  BY DEF WaitInv, LinkIsResult
<1> QED
  BY <1>1, PageTyping, WaitInit, WaitInductive, PTL DEF Spec

=============================================================================
