------------------------------ MODULE Frontend ------------------------------
(***************************************************************************)
(* The page (frontend/app.js): a user who selects files and starts         *)
(* uploads, the answers of POST /api/jobs, and the poll timer with its     *)
(* fetches.  JavaScript runs one callback at a time; between the fetch of  *)
(* pollJob and its answer anything may run, other polls included.  The     *)
(* service is what JobStatus promises of it.                               *)
(***************************************************************************)
EXTENDS Naturals, Sequences, SequencesExt

CONSTANTS
    Jobs,      \* the ids the service draws, one for each start of an upload
    NoJob,     \* the null of state.jobId
    Slots,     \* polls that may be under way at once
    NoPoll

ASSUME FrontendAssumption == NoJob \notin Jobs

VARIABLES
    selected,   \* state.selectedFile is set; the dropzone is hidden
    enabled,    \* btnProcess is not disabled
    uploading,  \* state.uploading
    jobId,      \* state.jobId
    timer,      \* state.pollTimer is set
    view,       \* which of the page's sections is shown below the form
    link,       \* the job resultDownload.href leads to
    started,    \* the uploads startProcessing began, in order
    posts,      \* those whose answer has not arrived
    polls,      \* per slot, the fetch under way
    hurried,    \* history: the user did something while progress was shown
    state, tries    \* the jobs as the service presents them

form == <<selected, enabled, uploading>>
result == <<view, link>>
uploads == <<started, posts, hurried>>
server == <<state, tries>>
pageVars == <<form, jobId, timer, result, uploads, polls, server>>

Service == INSTANCE JobStatus WITH MaxRetries <- 0

Views == {"form", "progress", "success", "error"}

\* "refused" is any answer with res.ok false: unknown job, limit, failure.
Answers == {"pending", "processing", "completed", "failed", "refused"}

Polls == [job : Jobs, answer : Answers \cup {"none"}]

FrontendTypeOK ==
    /\ {selected, enabled, uploading, timer, hurried} \subseteq BOOLEAN
    /\ {jobId, link} \subseteq Jobs \cup {NoJob}
    /\ view \in Views
    /\ posts \in SUBSET Jobs
    /\ started \in Seq(Jobs)
    /\ polls \in [Slots -> Polls \cup {NoPoll}]

Init ==
    /\ selected = FALSE /\ enabled = FALSE /\ uploading = FALSE
    /\ jobId = NoJob /\ timer = FALSE
    /\ view = "form" /\ link = NoJob
    /\ started = <<>> /\ posts = {} /\ hurried = FALSE
    /\ polls = [s \in Slots |-> NoPoll]
    /\ Service!Init

----------------------------------------------------------------------------
(* The user, who may wait while the page shows progress or go on: the tabs *)
(* and the file's controls stay in reach.                                  *)

\* The dropzone shows only while no file is selected.
SetFile ==
    /\ ~selected
    /\ selected' = TRUE /\ enabled' = TRUE
    /\ UNCHANGED <<uploading, jobId, timer, result, started, posts>>

\* Leaves the job, its timer and its result alone.
ClearFile ==
    /\ selected
    /\ selected' = FALSE /\ enabled' = FALSE
    /\ UNCHANGED <<uploading, jobId, timer, result, started, posts>>

\* Neither the upload nor the polls under way are given up.
ResetUI ==
    /\ timer' = FALSE /\ jobId' = NoJob /\ uploading' = FALSE
    /\ view' = "form"
    /\ UNCHANGED <<link, started, posts>>

\* clearFile and resetUI, which finds no file.
SwitchTool ==
    /\ selected' = FALSE /\ enabled' = FALSE
    /\ ResetUI

\* The button of the error card.
Retry ==
    /\ view = "error"
    /\ enabled' = selected
    /\ UNCHANGED selected
    /\ ResetUI

StartProcessing(j) ==
    /\ enabled /\ selected /\ ~uploading
    /\ j \notin ToSet(started)
    /\ uploading' = TRUE /\ enabled' = FALSE
    /\ view' = "progress"
    /\ started' = Append(started, j)
    /\ posts' = posts \cup {j}
    /\ UNCHANGED <<selected, jobId, timer, link>>

User ==
    /\ \/ SetFile \/ ClearFile \/ SwitchTool \/ Retry
       \/ \E j \in Jobs : StartProcessing(j)
    /\ hurried' = (hurried \/ view = "progress")
    /\ UNCHANGED <<polls, server>>

----------------------------------------------------------------------------
(* The callbacks of the upload.                                            *)

\* Mutant of PostAnswered: an id that is set already is kept.
PostAnsweredOldId(j) ==
    /\ j \in posts /\ state[j] \notin {"absent", "gone"}
    /\ posts' = posts \ {j}
    /\ uploading' = FALSE /\ timer' = TRUE
    /\ jobId' = IF jobId = NoJob THEN j ELSE jobId
    /\ UNCHANGED <<selected, enabled, result, started, hurried, polls, server>>

\* load with a 2xx status; startPolling replaces a timer that is set.
PostAnswered(j) ==
    /\ j \in posts /\ state[j] \notin {"absent", "gone"}
    /\ posts' = posts \ {j}
    /\ uploading' = FALSE /\ jobId' = j /\ timer' = TRUE
    /\ UNCHANGED <<selected, enabled, result, started, hurried, polls, server>>

\* load with another status or with a body that is no JSON, or error: the
\* service may have created the job all the same.
PostFailed(j) ==
    /\ j \in posts
    /\ posts' = posts \ {j}
    /\ uploading' = FALSE /\ view' = "error"
    /\ UNCHANGED <<selected, enabled, jobId, timer, link, started, hurried,
                   polls, server>>

----------------------------------------------------------------------------
(* The poll timer.                                                         *)

Tick(s) ==
    /\ timer /\ jobId # NoJob /\ polls[s] = NoPoll
    /\ polls' = [polls EXCEPT ![s] = [job |-> jobId, answer |-> "none"]]
    /\ UNCHANGED <<form, jobId, timer, result, uploads, server>>

AnswerPoll(s, answer) ==
    /\ polls[s] # NoPoll /\ polls[s].answer = "none"
    /\ polls' = [polls EXCEPT ![s].answer = answer]
    /\ UNCHANGED <<form, jobId, timer, result, uploads, server>>

\* Mutant of PollServed: a removed job is answered like any other.
PollServedRaw(s) == polls[s] # NoPoll /\ AnswerPoll(s, state[polls[s].job])

\* handleGetJob: the status the job has now, or 404.
PollServed(s) ==
    /\ polls[s] # NoPoll
    /\ LET now == state[polls[s].job]
       IN  AnswerPoll(s, IF now \in Answers THEN now ELSE "refused")

\* sessionMiddleware or an error of the service.
PollRefused(s) == AnswerPoll(s, "refused")

Arrived(s) == polls[s] # NoPoll /\ polls[s].answer # "none"

\* Mutant of PollDelivered: an error stops the polling and says nothing.
PollDeliveredSilently(s) ==
    /\ Arrived(s)
    /\ polls' = [polls EXCEPT ![s] = NoPoll]
    /\ \/ /\ polls[s].answer \in {"pending", "processing"}
          /\ UNCHANGED <<timer, result>>
       \/ /\ polls[s].answer = "completed"
          /\ timer' = FALSE
          /\ view' = "success" /\ link' = jobId
       \/ /\ polls[s].answer \in {"failed", "refused"}
          /\ timer' = FALSE
          /\ UNCHANGED result
    /\ UNCHANGED <<form, jobId, uploads, server>>

\* The rest of pollJob, after its awaits: it does not look whether the job
\* it asked for is still the job of the page.
PollDelivered(s) ==
    /\ Arrived(s)
    /\ polls' = [polls EXCEPT ![s] = NoPoll]
    /\ \/ /\ polls[s].answer \in {"pending", "processing"}
          /\ UNCHANGED <<timer, result>>
       \/ /\ polls[s].answer = "completed"
          /\ timer' = FALSE
          /\ view' = "success" /\ link' = jobId
       \/ /\ polls[s].answer \in {"failed", "refused"}
          /\ timer' = FALSE
          /\ view' = "error"
          /\ UNCHANGED link
    /\ UNCHANGED <<form, jobId, uploads, server>>

\* The catch: a fetch that fails is ignored, the timer tries again.
PollLost(s) ==
    /\ polls[s] # NoPoll
    /\ polls' = [polls EXCEPT ![s] = NoPoll]
    /\ UNCHANGED <<form, jobId, timer, result, uploads, server>>

Poll(s) ==
    \/ Tick(s) \/ PollServed(s) \/ PollRefused(s)
    \/ PollDelivered(s) \/ PollLost(s)

\* The service creates only jobs it is asked for, whether or not its answer
\* still finds the page.
Serve ==
    /\ Service!Next
    /\ \A j \in Jobs \ ToSet(started) : state'[j] = "absent"
    /\ UNCHANGED <<form, jobId, timer, result, uploads, polls>>

Next ==
    \/ User
    \/ \E j \in Jobs : PostAnswered(j) \/ PostFailed(j)
    \/ \E s \in Slots : Poll(s)
    \/ Serve

Spec == Init /\ [][Next]_pageVars

\* An upload is answered or fails, the timer fires, the network does not
\* lose every poll nor every answer, and a job ends or is removed.
Fairness ==
    /\ \A j \in Jobs : WF_pageVars(PostAnswered(j) \/ PostFailed(j))
    /\ \A s \in Slots : /\ WF_pageVars(Tick(s))
                        /\ SF_pageVars(PollServed(s))
                        /\ SF_pageVars(PollDelivered(s))
    /\ WF_pageVars(Serve)

LiveSpec == Spec /\ Fairness

----------------------------------------------------------------------------

\* frontend/privacy.html, Delivery: the processed file can be downloaded by
\* its link.  To a user who waits while progress is shown, a page that
\* announces success links to the upload it started last, which has completed.
LinkIsResult ==
    view = "success" /\ ~hurried =>
        /\ link \in Jobs /\ link = Last(started)
        /\ state[link] \in {"completed", "gone"}

\* To a user who waits while progress is shown: one upload or one job is
\* followed at a time, it is the one started last, and while none is followed
\* nothing under way can change the page.
Delivered(j) == state[j] \in {"completed", "gone"}

WaitInv ==
    ~hurried =>
        /\ posts # {} => view = "progress" /\ ~timer /\ posts = {Last(started)}
        /\ timer => view = "progress" /\ jobId \in Jobs /\ jobId = Last(started)
        /\ \A s \in Slots : polls[s] # NoPoll =>
              /\ timer /\ polls[s].job = jobId
              /\ polls[s].answer = "completed" => Delivered(jobId)
        /\ LinkIsResult

\* A page that shows progress comes to an end: no combination of answers, of
\* abandoned uploads and of their late answers leaves it waiting with nothing
\* under way, whatever the user does meanwhile.
PageSettles == view = "progress" ~> view # "progress"

=============================================================================
