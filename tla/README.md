# Specifications of the file conversion service

TLA+ models of the service in `src/`, checked with TLC, and proofs about them
checked with TLAPS. Paths of code are relative to the repository's root.

## The system

A user uploads a file to an API, which encrypts and stores it and queues a job;
a worker decrypts it into a sandbox, runs a tool on it, and stores the encrypted
result; the page polls the job and offers the result for download; a cleanup
removes everything after the retention time.

| Component | State it keeps | Operations | What makes it correct |
|---|---|---|---|
| jobs table (`internal/database`, `db/init.sql`) | status, retry count, expiry per job | one SQL statement each: create, started, completed, failed, retry, delete, cleanup | an ended job never changes; rows go in the end |
| job queue (`internal/queue`) | the Redis list of ids | LPUSH, RPUSH, BRPOP | an id that waits is in it once |
| file storage (`internal/storage`) | an input and an output file per job | create, open, delete both | whole while a row needs them, gone afterwards |
| stream encryption (`internal/crypto`) | none; a file format | two loops over chunks | round trip; a decryption that ends well has read a complete file of the format (one cut between two chunks is the file of a shorter text) |
| API handlers (`cmd/api/handlers.go`) | the requests under way | upload, status, download, delete | compensation of a failed upload; only whole results are sent |
| retention (`cmd/api/main.go`) | the ids it works through | delete expired rows, then their files; reset hourly counts | nothing that is still needed goes |
| sessions (`cmd/api/middleware.go`, table `sessions`) | count, total, flag per address | touch, admit, reset | the limits hold to the request |
| worker (`cmd/worker`) | per goroutine its job and statement; the sandboxes | loop, processJob, retry, fail, shutdown | one goroutine per job; no job is forgotten; bounded retries |
| page (`frontend/app.js`) | file, button, job id, poll timer, what it shows | select, clear, switch, start, retry, poll | its link leads to its own completed job; it never waits for ever |
| request validation (`handlers.go`, `internal/models`) | none | formats, parameters, names of results | what the page offers is accepted, and what is accepted can be run |
| processors (`internal/processor`), rembg service | the output and one scratch file | a chain of tools per operation | a cut file is never a result; they end although a tool hangs; tools get numbers they take |
| nginx, static pages, configuration | none | | |

The components interact through shared state only: API and worker share the jobs
table, the list and the storage volume and never call each other; the page calls
the API over HTTP. **Hard** here is: every handler and processJob are sequences of
statements that others run between, with the status read in one statement and
overwritten in another; compensation after partial failure, under a context that
may be cancelled; a pop that removes the id before the work is done; retries that
push a job while its last attempt still cleans up; crashes, SIGTERM, expiry and
deletion in the middle of a run; a sandbox named by the job and not by the
attempt; answers of overlapping polls that arrive after the page moved on; chains of
tools that fall back on one another after a failure or a timeout; tables of formats and
bounds kept in four places.
`PROJECT.json` lists these hazards at their lines.

## The modules

    Backend      jobs table, Redis list, storage volume       (operators + state)
      Api        upload, delete, download, cleanup             EXTENDS Backend
      Worker     goroutines, sandboxes, process                EXTENDS Backend
        FileForge   both, interleaved; properties              EXTENDS Api, Worker
          FileForgeProofs                                      theorems
            PromiseProofs                                      no job is forgotten; the refinement
    JobStatus    abstract: the life of a job a client may rely on
                 (FileForge refines it; Frontend runs against it)
    Requests     formats, validation, parameters, the page's forms   (operators)
      Processors   one attempt: the chain of tools             EXTENDS Requests
        ProcessorsProofs                                       theorems
    Sessions     limits per client address;   SessionsProofs   theorems
    Frontend     the page;                     FrontendProofs    theorems
    CryptoStream the format of stored files;   CryptoStreamProofs  theorems
    MC*          constants of small instances for TLC

Operators marked "Mutant of" in a module are plausible bugs that a definition is
replaced with to see that a property notices; no specification uses them.

### Backend, Api, Worker

`Backend` has an operator per SQL statement, Redis command and storage call, each
atomic as it is in the code. `Api` has one action per statement of
`handleCreateJob` (`CreateRow`, `CreateInput`, `EncryptInput`, `EnqueueUpload`,
`UndoRow`, `UndoFiles`; `upload[j]` is its program counter), two each for
`handleDeleteJob` and `handleDownload`, and the cleanup (`Expire`, `Sweep`,
`SweepFiles`). `Worker` has one action per statement of `run`, `processJob`,
`handleProcessError` and `failJob`; `pc[w]` names the next one.
`handleGetJob` reads only and is the state function `ClientView`.

What is abstracted:

* The content of a file is absent, `partial`, `whole`, or `torn` when two
  goroutines write it at once. `CryptoStream` shows what "whole" rests on.
* A tool (`Process`) fails, or ends well with or without an output file; its
  timeout is a failure. It is one step, as is `DeleteJobFiles`. `Processors` opens that
  step up and shows what it rests on: it ends, and a file it ends well with is whole.
* A row expires at any moment after its upload ended: retention is counted in
  hours, an upload in minutes. A job may expire while it waits or runs.
* Which requests exist: only the client of an accepted upload knows the id.
* One worker container, as in docker-compose.

`Faults` is the set of things that may go wrong in a run: `db` (a SQL statement
reports an error, executed or not), `redis` (a command reports an error and was
not executed; a pop then fails whatever the list holds, and `run` tries again), `reply` (a push was executed and its
reply lost; go-redis sends it again, so an id may be in the list twice), `pop_reply` (a pop was
executed and its reply lost: the id is gone), `client` (the upload's client
disconnects: the request's context fails SQL and Redis calls, compensations
included), `crash`, `sigterm` (of the worker), `api_crash`, `evict` (Redis drops the list under
memory pressure). Errors of file
operations and tools are always possible. A restarted worker finds an empty tmpfs.
Of the libraries the models assume: a BRPOP under way is not interrupted by the
cancelled context, and a statement on a cancelled context fails.

### Requests, Processors

`Requests` holds the tables of `internal/models`, the API's validation with its defaults, the way of the
parameters through the row (a zero is not stored), and `PageForms`, all forms the page's panels can send. The page has
tables of its own, each transcribed from where it is written: the formats the API publishes (`formatsJSON`) or, without an answer, the page's
`fallbackFormats`, the panels (`toolConfig`) and the resolutions of its select (`DpiOptions`). Nothing in them refers to the API's validation,
so that `PageRequestsServed` compares the two.
An extension stands for a file name, and a MIME type for its format. `Processors` takes one form from the
request to the end of one attempt: `Submit`, `Dispatch`, an action per tool with the fallback the code has for its
failure, and `Stat`. A tool ends well (with a whole file or an empty one) or fails (with no file, or one cut
short). `ContextEnds` is the timeout or SIGTERM: a command or a request cannot succeed after it,
libvips and copying can. The arguments of a tool that depend on the request are operators
(`Setting`, `minQuality`, `monoDPI`, `pdfPreset`); constant ones are left out. Only the compression of audio looks at `lossless`
when it computes its setting (`LosslessAudio`); a form may ask it of any operation. What ranges encoders take (`CodecRange`) is
assumed of them. What becomes of an attempt (retry, encryption of the result) is `Worker`.

### Sessions

`TouchSession` is one upsert and the middleware decides from the row it returns,
so `Request` is one step. Time is whether an address's last request is more than
an hour old (`quiet`). `admitted` (since the last silent hour) and `served` (ever)
are history: what the limits are about. The statement may be executed and still be
reported as an error, in which case a request counts and is not served.
The code counts from the last silent hour, not per clock hour, and counts the
page's polls and refused requests; the properties say what that guarantees.

### Frontend

A callback is a step; `polls` are the fetches of `pollJob` between their request and
the code after `await`, in a few `Slots`. The service is `JobStatus`; any poll may also be
refused (limit, unknown job, error) or lost. The user may switch tools, clear the file or start
another upload while progress is shown, as the code lets them, and what was under way goes on; `hurried` remembers that they did.
`LinkIsResult` is about the others, `PageSettles` about all. Consent dialog, option panels, texts and
sizes are left out; the forms the panels compose are in `Requests`.

### CryptoStream

A unit of a stored file knows the nonce and text of its chunk and its place in it, so a chunk opens
exactly when AES-GCM would open it. A writer may be cut short anywhere.
`Format` defines the file unit by unit, without a loop; the loops are checked and proved against it.

## The runs

All state graphs are explored completely.

| Run | Instance | Shows |
|---|---|---|
| `live` | 2 jobs, 2 goroutines, 1 retry; `redis`, `client`, `api_crash`; worker fairness | `TypeOK`, `NothingForgotten`, `CompletedHasOutput`, `EveryJobEnds` (597 312 states) |
| `faults` | 1 job, 2 goroutines, 1 retry; every fault but `reply`; cleanup fairness | `ExclusiveClaim`, `DownloadIsWhole`, `InputKept`; `KeepsPromise`: FileForge refines JobStatus; `RowsAreRemoved` (6 287) |
| `resent` | 1 job, 2 goroutines, 1 retry; `redis`, `reply`; worker fairness | `NothingForgotten`, `EveryJobEnds` although two goroutines may run the job at once; `InputHasOwner` (41 813) |
| `sessions` | 2 addresses, 7 requests each, limit 2, threshold 5 | `SessionsTypeOK`, `HourlyLimit`, `LifetimeLimit` (93 025) |
| `page` | 2 uploads, one poll at a time, any user | `FrontendTypeOK`, `LinkIsResult`, `PageSettles` (44 920) |
| `conversion` | all forms of the page with every position of the sliders; every operation with every input and output format; numbers at and past their bounds; lossless forms of every operation | `ProcessorsTypeOK`, `CompletedIsWhole`, `NameTellsContent`, `ArgumentsInRange`, `SliderIsFaithful`, `PageRequestsServed`, `AttemptEnds` (135 077) |
| `stream` | files of up to 5 units, chunks of 2 | `CryptoTypeOK`, `RoundTrip`, `SendsPrefix`, `CutIsNoticed` (3 582) |

**Bounds.** Two goroutines and one job give every race on a job (two attempts of one job, an
attempt and a removal); a second job adds the queue's order and the goroutines' competition, and is
used where that matters (`live`). One retry reaches both
outcomes of the comparison with the limit. `reply` may put two entries in the list per push, which `resent` bounds by one job and
one retry. Seven requests pass both limits. Five units in chunks of two cover the empty file, whole chunks and a short last one. One slot says
that a poll is answered before the next (2 s); `link` gives up just that (`PageSettles` holds with two slots as well, in 469 446 states). An attempt stops when it is over, hence no deadlock check. `conversion` has no bound but the combinations of odd values it leaves out: the page's forms are all there.

**Why the faults of each run.** A property is checked under the faults the code is meant to
survive. `NothingForgotten` and `EveryJobEnds` fail as soon as the worker may die, a SQL statement
may fail or the reply of a pop may be lost: the id has left the list and nothing but expiry ends the job; the code accepts that and
`RowsAreRemoved`, checked under these faults, is what remains. `InputHasOwner` excludes what leaves a
file and no row (a DELETE executed and reported as failed, an API that dies between row and
files); faults of the worker alone touch neither rows nor inputs, and the theorem covers them. `ExclusiveClaim` and what rests on it exclude pushes that go-redis sends twice; that no
job is forgotten does not rest on it, and `resent` checks it with such pushes.

**Fairness.** `WorkerFairness`: a goroutine that can take a step does (Go schedules it; every tool runs
under a timeout, BRPOP returns after 5 s). Nothing is assumed of uploads, tools, or pushes: they may fail every time. Of the pops over a list with entries not
all fail (strong fairness, for each may, and `run` tries again for ever): with a Redis that never answers again no code
could end a job. `RetentionFairness`: time passes, the cleanup's ticker fires, and although `db` lets any single DELETE of the cleanup fail, not all do; nothing
is assumed of the worker. `Fairness` of an attempt: its timeout fires, and once it has,
the tool that runs ends (a command is killed, a request given up; libvips and a copy are assumed to end); no tool is assumed to end before. `Fairness` of the page: an upload
is answered or fails, the 2 s interval fires, not all polls are lost (strong fairness, for each single poll may be), and
a job ends or is removed, which `EveryJobEnds` and `RowsAreRemoved` say of the service.

### Disagreements between code and documentation

These runs check one statement each and TLC refutes it.

| Run | Statement | What the code does |
|---|---|---|
| `bmp` | `cmd/api/handlers.go:460`: BMP is an input format of image_compress | ImageCompress has no way to write it: every attempt fails |
| `orphans` | `README.md:86`: input and output files are deleted with the record | a job removed while it runs gets its result written afterwards, for good |
| `graceful` | `cmd/worker/main.go:91`: goroutines stopped gracefully, against line 93 | SIGTERM cancels the context of the statements that would end the job: it stays `processing` |
| `sandbox` | `README.md:72-73`: the input is decrypted to the sandbox, then processed | the deferred RemoveAll of a failed attempt runs after the job was pushed back and wipes the sandbox of its retry |
| `link` | `frontend/privacy.html:116`: the file can be downloaded by its link | a late answer of an overlapping poll shows success with a link to `null` or to a job that has not completed |

Also noticed, without a run of its own: `README.md:67` says the record follows the stored input, where `handleCreateJob`
inserts the row first. `frontend/privacy.html:117` says deletion includes Redis queue entries; the cleanup never touches the
list. `handlers.go:461` publishes "same_as_input" for the compressions, which take any `output_format`
they are sent. `README.md:17` ties each preset to a resolution, where preset and resolution are independent parameters.
`README.md:86` has the cleanup run every 15 minutes, where the default is 10.

## The proofs

TLAPS proves every invariant that the passing runs check, and the refinement, for any sets of jobs,
goroutines, addresses, uploads and forms, any limits, chunk sizes and lengths:

| Module | Theorem | Statement | Assumes |
|---|---|---|---|
| `FileForgeProofs` | `Typing` | `Spec => []TypeOK` | |
| | `InputsAreKept` | `Spec => []InputKept` | |
| | `InputsHaveOwners` | `Spec => []InputHasOwner` | no `db`, `client`, `api_crash` |
| | `ClaimsAreExclusive` | `Spec => []ExclusiveClaim` | no `reply` |
| | `CompletedJobsHaveOutput` | `Spec => []CompletedHasOutput` | no `reply` |
| | `DownloadsAreWhole` | `Spec => []DownloadIsWhole` | no `reply` |
| `PromiseProofs` | `StatusFollowsGoroutine` | `Spec => []PhaseInv` | no `reply` |
| | `NoJobIsForgotten` | `Spec => []NothingForgotten` | `WorkerSurvives`: no `db`, `pop_reply`, `evict`, `crash`, `sigterm` |
| | `ServiceKeepsPromise` | `Spec => KeepsPromise` | no `reply` |
| `SessionsProofs` | `SessionsTyping`, `HourlyLimitHolds`, `LifetimeLimitHolds` | `SessionsTypeOK`, `HourlyLimit`, `LifetimeLimit` | |
| `FrontendProofs` | `PageTyping` | `Spec => []FrontendTypeOK` | |
| | `LinkLeadsToResult` | `Spec => []LinkIsResult` | at most one slot |
| `ProcessorsProofs` | `ParametersAreSound`, `ResultsAreWhole`, `NamesTellContents`, `ArgumentsStayInRange`, `SlidersAreFaithful`, `PageIsServed` | `ProcessorsTypeOK`, `CompletedIsWhole`, `NameTellsContent`, `ArgumentsInRange`, `SliderIsFaithful`, `PageRequestsServed` | |
| `CryptoStreamProofs` | `StreamTyping`, `OnlyPrefixesAreSent`, `CutsAreNoticed`, `TextsComeBack` | `CryptoTypeOK`, `SendsPrefix`, `CutIsNoticed`, `RoundTrip` | |

besides the named assumptions on constants (`BackendAssumption`, `SessionsAssumption`, `CryptoAssumption`).
"No `reply`" is `"reply" \notin Faults`: every other fault is allowed. The hypotheses are those of the runs or weaker, and each is
needed. A push that go-redis sends again puts an id in the list twice, and two goroutines run one job; `PhaseInv` and the
promise fall with it, since either may end the job under the other. `NothingForgotten` does not. What `NoJobIsForgotten` and `InputsHaveOwners`
exclude is explained under "the faults of each run". `LinkLeadsToResult` fails with two slots: that is the run `link`.

### The service

The argument goes through inductive invariants, each using the ones before:

1. `TypeOK`. Its conjunct on `job` (a goroutine past its BRPOP has one) makes the rest of processJob well defined.
2. `KeptInv`: a row once gone does not come back (`FreshUploads`, `GoneStaysGone`), so whoever removes files removes
   those of a job without a row, and `InputReady` carries the whole input from the end of the encryption to the acceptance. `InputKept` follows.
3. `OwnerInv`: an upload on its way has its row, for nobody who could remove it knows the id and it does not expire
   meanwhile; so an input appears under a row, and a row goes only by a hand that takes the files next. It needs that a failed statement
   was not executed and that nobody stops in between, hence its hypothesis.
4. `ClaimInv`: `ExclusiveClaim` alone is not inductive, for an upload pushes: `IdleUntilAccepted` adds that before
   its only push nobody knows the id. A goroutine gives the id back (`RequeueJob`) in the step in which it stops answering for it.
   That is all there is to exclusiveness: neither GetJob nor UpdateJobStarted would stop a second goroutine.
5. `OutputInv`: a completed job is idle, so no one writes its output or its status; a goroutine that encrypts or completes a
   job with a row has the output in the state its own last step left it in, since it is the only one (4.). A download under way refers to such a job, or to one whose row is gone.
6. `PhaseInv`: where the goroutine of a job is tells the status of its row, and conversely. A job in the list is pending with retries
   left; from `UpdateJobStarted` to its end it is processing. The SQL statements do not look at the status
   they overwrite, so this rests on 4. alone.
7. `NothingForgotten` needs none of 4. to 6., and holds when two goroutines have one job. It is inductive together with a worker that
   nobody stops (`~stopping`) and `RunAttended`: a job in `processing` has a goroutine between its `UpdateJobStarted` and the
   statement that writes how the run ended, and that statement, whoever executes it, leaves another status. An id leaves the list only into a hand,
   and a hand lets go of it only after the job has ended, its row has gone, the id is back in the list, or, found to be running, in the hand of the one who runs it.
8. `KeepsPromise`. The mapping is `ClientView`, the answer of handleGetJob. A step of the API or of a goroutine changes the
   view of one job at most (`OneJobMoves`); 6. says from which state, so that the change is an action of `JobStatus`: a run begins only
   from `pending` with retries left, a completion comes only from `processing`, and nothing comes after an end.

### The other components

*Sessions.* What was admitted never exceeds the count that is compared (`CountInv`), since only a silent hour resets the count, by whichever
of the two places; who has reached the threshold is flagged, from the second request on (`FlagInv`).

*Frontend.* `LinkIsResult` is not inductive: it is about what an answer does when it arrives. `WaitInv` says what a page is in whose user only
waits: the upload that waits for its id is the last one started, the timer runs for that upload's id alone, and the one poll under way
carries an answer about it, which if it is `completed` still holds on arrival, for a job ends once.

*Processors.* `AttemptInv`, in parts: what the worker reads back is what the API made of an accepted form (`ReadsBack`: leaving zeros out loses
nothing, `StoredIsReadBack`); no fallback leads to a tool of another operation or format (`RightTool`); a file cut short is
written again or given up before anyone looks (`WholeOrGivenUp`); a failure has a cause (`MishapNoted`). `ToolKeeps` is
proved once for a tool with any format and fallback and cited by each. For the numbers, `ScaleIsFollowed` is a lemma about every
scale of integers, rising or falling: the setting stays between the ends, within one unit of the line, and monotone. The scales of the
code are then looked up one by one against what the codecs take. `TablesAgree` compares `formatsJSON` and the page's fallback with the tables of
the validation entry by entry, `PanelSends` says what the panels put into a form, and `PageFormsAccepted` concludes that the API takes it and in which format.

*CryptoStream.* `StreamInv`: the file is at any time a beginning of `Format(plain)`; before each step of either loop its
position is a whole number of chunks. Lemmas about whole steps (`UnitInChunk`, `FileAfterChunks`, `PieceOfText`) replace an induction over the
length: each turn of a loop needs only the chunk it is at. `CutBetweenChunks` shows that a cut at the end of a chunk leaves the
format of a shorter text, `LongerTextLongerFile` that no two texts of which one begins the other have files of one length, so a complete file gives the
whole text back.

TLC checked each of these invariants on the instances of the runs before it was proved.

### Only model-checked

Liveness: `EveryJobEnds`, `RowsAreRemoved`, `PageSettles`, `AttemptEnds`. Liveness under fairness is beyond the prover. The five runs that TLC
refutes are about single behaviours. That the step `Process` of `Worker` is what `Processors` does in many is argued here and not stated in TLA+.

## Not modelled

Constant arguments of tools, and what tools compute; the library behind the rembg service; nginx, whose own limits
come before the sessions'; parsing of the environment; consent dialog and texts of the page; the views for statistics. A
restart of Redis that loses the last second of its log is not a fault of its own: a lost push or list is `redis`, `reply` or
`evict`, but a pop that is undone, so that the id returns while a goroutine works on it, is left out. So are two worker
containers, whose sandboxes would be separate, and real time: how long a job takes against how many polls an hour admits.

## Plan

1. `Processors` as an implementation of the step `Process` of `Worker`: an abstract attempt (it runs; it ends without a file, with a whole one,
   or in failure) that the chain of tools refines, checked and proved step by step.
2. `CryptoStream` the same way for `EncryptOutput`: a file is absent, partial or whole.
3. Proofs under weaker hypotheses: what of the promise is left when a push is sent twice (that no job is forgotten is proved); `InputHasOwner` with clients that leave.
4. `Client`: Frontend and Sessions together, with a poll as a request that counts.
5. Worker detail: cancellation of a tool against the two minutes of the shutdown; a second worker process.
