-------------------------------- MODULE Api --------------------------------
(***************************************************************************)
(* The API process (cmd/api): the upload, delete and download handlers,    *)
(* each a sequence of statements that other processes run between, and the *)
(* cleanup goroutine.  A handler's statements carry the request's context, *)
(* which ends when the client disconnects; from then on SQL and Redis      *)
(* calls fail and file operations still succeed.                           *)
(***************************************************************************)
EXTENDS Backend

VARIABLES
    upload,     \* how far handleCreateJob is with the job
    deleting,   \* jobs whose row handleDeleteJob removed, files not yet
    sweeping,   \* ids runCleanup still has to remove the files of
    found       \* jobs handleDownload has seen completed, file not yet open

apiVars == <<upload, deleting, sweeping, found>>

InFlight == {"create_input", "encrypt", "enqueue",
             "undo_row_only", "undo_row", "undo_files"}

UploadStates == InFlight \cup {"new", "accepted", "closed"}

ApiTypeOK ==
    /\ upload \in [Jobs -> UploadStates]
    /\ deleting \in SUBSET Jobs
    /\ sweeping \in SUBSET Jobs
    /\ found \in SUBSET Jobs

ApiInit ==
    /\ upload = [j \in Jobs |-> "new"]
    /\ deleting = {}
    /\ sweeping = {}
    /\ found = {}

----------------------------------------------------------------------------
(* handleCreateJob, from the INSERT on: the request is validated and its   *)
(* body has been read.                                                     *)

UploadGoto(j, next) ==
    /\ upload' = [upload EXCEPT ![j] = next]
    /\ UNCHANGED <<deleting, sweeping, found>>

\* A statement of a request reports an error, executed or not.
SqlFails == Faults \cap {"db", "client"} # {}

CreateRow(j) ==
    /\ upload[j] = "new"
    /\ \/ CreateJob(j) /\ UploadGoto(j, "create_input")
       \/ /\ SqlFails
          /\ CreateJob(j) \/ UNCHANGED rows
          /\ UploadGoto(j, "closed")
    /\ UNCHANGED <<expired, queue, files>>

\* An input that cannot be created takes only its row back.
CreateInput(j) ==
    /\ upload[j] = "create_input"
    /\ \/ /\ inputs' = [inputs EXCEPT ![j] = "partial"]
          /\ UploadGoto(j, "encrypt")
       \/ UNCHANGED inputs /\ UploadGoto(j, "undo_row_only")
    /\ UNCHANGED <<rows, expired, queue, outputs>>

EncryptInput(j) ==
    /\ upload[j] = "encrypt"
    /\ \/ /\ inputs' = [inputs EXCEPT ![j] = "whole"]
          /\ UploadGoto(j, "enqueue")
       \/ UNCHANGED inputs /\ UploadGoto(j, "undo_row")
    /\ UNCHANGED <<rows, expired, queue, outputs>>

\* Mutant of EnqueueUpload: the error of the push is not looked at.
EnqueueUnchecked(j) ==
    /\ upload[j] = "enqueue"
    /\ \/ Enqueue(j)
       \/ Faults \cap {"redis", "client"} # {} /\ UNCHANGED queue
    /\ UploadGoto(j, "accepted")
    /\ UNCHANGED <<rows, expired, files>>

EnqueueUpload(j) ==
    /\ upload[j] = "enqueue"
    /\ \/ Enqueue(j) /\ UploadGoto(j, "accepted")
       \/ "reply" \in Faults /\ Enqueue(j) /\ UploadGoto(j, "undo_row")
       \/ /\ Faults \cap {"redis", "client"} # {}
          /\ UNCHANGED queue
          /\ UploadGoto(j, "undo_row")
    /\ UNCHANGED <<rows, expired, files>>

\* Mutant of UndoRow: the compensation forgets the files.
UndoRowOnly(j) ==
    /\ upload[j] \in {"undo_row", "undo_row_only"}
    /\ DeleteJob(j)
    /\ UploadGoto(j, "closed")
    /\ UNCHANGED <<expired, queue, files>>

\* The error of this DeleteJob is ignored; it runs under the request's
\* context too, so a disconnected client makes it fail.
UndoRow(j) ==
    /\ upload[j] \in {"undo_row", "undo_row_only"}
    /\ \/ DeleteJob(j)
       \/ SqlFails /\ UNCHANGED rows
    /\ UploadGoto(j, IF upload[j] = "undo_row" THEN "undo_files" ELSE "closed")
    /\ UNCHANGED <<expired, queue, files>>

UndoFiles(j) ==
    /\ upload[j] = "undo_files"
    /\ DeleteJobFiles(j)
    /\ UploadGoto(j, "closed")
    /\ UNCHANGED <<rows, expired, queue>>

Upload(j) ==
    \/ CreateRow(j) \/ CreateInput(j) \/ EncryptInput(j)
    \/ EnqueueUpload(j) \/ UndoRow(j) \/ UndoFiles(j)

----------------------------------------------------------------------------
(* handleDeleteJob and handleDownload.  Only the client of an accepted     *)
(* upload knows the id.  A delete that finds no row answers 404 and        *)
(* changes nothing, as does one whose statement was not executed.          *)

\* Mutant of DeleteRow: no return on the error of DeleteJob.
DeleteRowUnchecked(j) ==
    /\ upload[j] = "accepted" /\ HasRow(j)
    /\ DeleteJob(j) \/ (SqlFails /\ UNCHANGED rows)
    /\ deleting' = deleting \cup {j}
    /\ UNCHANGED <<expired, queue, files, upload, sweeping, found>>

DeleteRow(j) ==
    /\ upload[j] = "accepted" /\ HasRow(j)
    /\ DeleteJob(j)
    /\ \/ deleting' = deleting \cup {j}
       \/ SqlFails /\ UNCHANGED deleting
    /\ UNCHANGED <<expired, queue, files, upload, sweeping, found>>

DeleteFiles(j) ==
    /\ j \in deleting
    /\ DeleteJobFiles(j)
    /\ deleting' = deleting \ {j}
    /\ UNCHANGED <<rows, expired, queue, upload, sweeping, found>>

DownloadLookup(j) ==
    /\ upload[j] = "accepted" /\ j \notin found
    /\ status[j] = "completed"
    /\ found' = found \cup {j}
    /\ UNCHANGED <<backendVars, upload, deleting, sweeping>>

\* The file is streamed from here on, or 404 answered if it is gone.
DownloadOpen(j) ==
    /\ j \in found
    /\ found' = found \ {j}
    /\ UNCHANGED <<backendVars, upload, deleting, sweeping>>

----------------------------------------------------------------------------
(* Retention.  The hours of FILE_RETENTION_HOURS pass for a row at any     *)
(* moment after its upload ended.                                          *)

Expire(j) ==
    /\ HasRow(j) /\ j \notin expired
    /\ upload[j] \in {"accepted", "closed"}
    /\ expired' = expired \cup {j}
    /\ UNCHANGED <<rows, queue, files, apiVars>>

\* An error while the deleted ids are read back skips the files of all of
\* them.
Sweep ==
    /\ sweeping = {} /\ ExpiredJobs # {}
    /\ CleanupExpiredJobs
    /\ \/ sweeping' = ExpiredJobs
       \/ "db" \in Faults /\ UNCHANGED sweeping
    /\ UNCHANGED <<expired, queue, files, upload, deleting, found>>

SweepFiles(j) ==
    /\ j \in sweeping
    /\ DeleteJobFiles(j)
    /\ sweeping' = sweeping \ {j}
    /\ UNCHANGED <<rows, expired, queue, upload, deleting, found>>

\* The process dies and is started again: its handlers and its cleanup
\* goroutine stop where they are.
ApiCrash ==
    /\ "api_crash" \in Faults
    /\ upload' = [j \in Jobs |-> IF upload[j] \in InFlight THEN "closed"
                                 ELSE upload[j]]
    /\ deleting' = {} /\ sweeping' = {} /\ found' = {}
    /\ UNCHANGED backendVars

ApiStep(j) ==
    \/ Upload(j)
    \/ DeleteRow(j) \/ DeleteFiles(j)
    \/ DownloadLookup(j) \/ DownloadOpen(j)
    \/ Expire(j) \/ SweepFiles(j)

ApiNext == (\E j \in Jobs : ApiStep(j)) \/ Sweep \/ ApiCrash

=============================================================================
