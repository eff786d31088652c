-------------------------------- MODULE Backups --------------------------------
(***************************************************************************)
(* The runs of one server backup.  A run is a row of backup_jobs and a job *)
(* of the queue that carries its id.  It is made by RunBackup, for a       *)
(* request, or by PollDueBackups, which the scheduler of every worker      *)
(* process queues once a minute; the job claims the row, runs the script   *)
(* on the server and records the result in the row.                        *)
(*                                                                         *)
(* A step is one statement on the database, one call of the queue or one   *)
(* session on the server: requests, pollers and jobs interleave between    *)
(* them, and each may fail.  asynq gives a job half an hour, although the  *)
(* script has an hour: after that it archives the job and cancels its      *)
(* context, while the handler goes on, no longer able to use the database. *)
(***************************************************************************)
EXTENDS Naturals, FiniteSets

CONSTANTS Requests,  \* concurrent requests for a manual run
          Pollers,   \* worker goroutines that run PollDueBackups
          MaxRuns,   \* bound: rows
          Minutes,   \* bound: the minutes 1..Minutes pass
          MaxFaults  \* bound: failures of the database, the queue, the workers

ASSUME BoundAssumption == {MaxRuns, MaxFaults} \subseteq Nat /\ Minutes \in Nat \ {0}

VARIABLES backup,    \* the backup's row: present or deleted
          rows,      \* backup_jobs
          created,   \* number of rows created
          jobs,      \* the job of each run
          requests,  \* the progress of each RunBackup
          pollers,   \* the progress of each PollDueBackups
          now,       \* the minute
          faults,    \* number of faults so far
          started,   \* history: how often each run's script was started
          uploaded,  \* history: runs whose script ended with exit code 0
          crashed,   \* history: runs that a dead or stopped worker left behind
          unsaved,   \* history: runs one of whose results could not be saved
          expired    \* runs whose job has outlived its context

vars == <<backup, rows, created, jobs, requests, pollers, now, faults,
          started, uploaded, crashed, unsaved, expired>>

Runs == 1..MaxRuns
Active == {"pending", "running"}
Places == {"none", "queued", "load", "start", "script",
           "recordSuccess", "recordFailure", "Failed", "archived", "done"}

(* A row's minute is 0 for a manual run. *)
TypeOK ==
  /\ backup \in {"present", "deleted"}
  /\ rows \in [Runs -> [status: Active \cup {"none", "finished", "failed", "deleted"},
                        minute: 0..Minutes]]
  /\ created \in 0..MaxRuns
  /\ jobs \in [Runs -> Places]
  /\ requests \in [Requests -> [at: {"ready", "create", "validate", "dispatch", "fail", "done"},
                                run: 0..MaxRuns]]
  /\ pollers \in [Pollers -> [at: {"idle", "create", "enqueue", "delete", "fail"},
                              run: 0..MaxRuns, minute: 0..Minutes]]
  /\ now \in 1..Minutes /\ faults \in 0..MaxFaults
  /\ started \in [Runs -> Nat]
  /\ {uploaded, crashed, unsaved, expired} \subseteq SUBSET Runs

Idle == [at |-> "idle", run |-> 0, minute |-> 0]

Init ==
  /\ backup = "present"
  /\ rows = [r \in Runs |-> [status |-> "none", minute |-> 0]]
  /\ created = 0
  /\ jobs = [r \in Runs |-> "none"]
  /\ requests = [u \in Requests |-> [at |-> "ready", run |-> 0]]
  /\ pollers = [p \in Pollers |-> Idle]
  /\ now = 1 /\ faults = 0
  /\ started = [r \in Runs |-> 0]
  /\ uploaded = {} /\ crashed = {} /\ unsaved = {} /\ expired = {}

history == <<started, uploaded, crashed, unsaved, expired>>

-----------------------------------------------------------------------------
(* The repository.                                                         *)

Status(r, s) == [rows EXCEPT ![r].status = s]
Fault == faults < MaxFaults /\ faults' = faults + 1

CreateBackupJob(minute) ==
  /\ created < MaxRuns
  /\ created' = created + 1
  /\ rows' = [rows EXCEPT ![created + 1] = [status |-> "pending", minute |-> minute]]

(* Mutant of MarkBackupJobFailedForRun: whatever the status is.            *)
MarkFailedAlways(r) == rows' = Status(r, "failed")

MarkBackupJobFailedForRun(r) ==
  rows' = IF rows[r].status \in Active THEN Status(r, "failed") ELSE rows

MarkBackupJobFinishedForRun(r) ==
  rows' = IF rows[r].status = "running" THEN Status(r, "finished") ELSE rows

MarkBackupJobRunningForRun(r) ==
  rows' = IF rows[r].status \in Active THEN Status(r, "running") ELSE rows

-----------------------------------------------------------------------------
(* RunBackup.                                                              *)

RequestGoto(u, place) == requests' = [requests EXCEPT ![u].at = place]

RunBackup(u) ==
  /\ requests[u].at = "ready" /\ backup = "present"
  /\ requests' = [requests EXCEPT ![u].at = "create"]
  /\ UNCHANGED <<backup, rows, created, jobs, pollers, now, faults, history>>

CreateManual(u) ==
  /\ requests[u].at = "create"
  /\ CreateBackupJob(0)
  /\ requests' = [requests EXCEPT ![u].at = "validate", ![u].run = created + 1]
  /\ UNCHANGED <<backup, jobs, pollers, now, faults, history>>

(* The provider is gone, or is not S3. *)
validateS3StorageProvider(u) ==
  /\ requests[u].at = "validate"
  /\ \E place \in {"dispatch", "fail"} : RequestGoto(u, place)
  /\ UNCHANGED <<backup, rows, created, jobs, pollers, now, faults, history>>

(* The queue may have taken the job although its answer was lost. *)
DispatchManual(u) ==
  LET r == requests[u].run IN
    /\ requests[u].at = "dispatch"
    /\ \/ /\ jobs' = [jobs EXCEPT ![r] = "queued"]
          /\ RequestGoto(u, "done")
          /\ UNCHANGED faults
       \/ /\ Fault
          /\ jobs' \in {jobs, [jobs EXCEPT ![r] = "queued"]}
          /\ RequestGoto(u, "fail")
    /\ UNCHANGED <<backup, rows, created, pollers, now, history>>

(* A failure that cannot be saved is logged. *)
recordManualBackupFailure(u) ==
  LET r == requests[u].run IN
    /\ requests[u].at = "fail"
    /\ \/ MarkBackupJobFailedForRun(r) /\ UNCHANGED <<faults, unsaved>>
       \/ Fault /\ unsaved' = unsaved \cup {r} /\ UNCHANGED rows
    /\ RequestGoto(u, "done")
    /\ UNCHANGED <<backup, created, jobs, pollers, now, started, uploaded, crashed, expired>>

-----------------------------------------------------------------------------
(* The schedule.                                                           *)

Tick ==
  /\ now < Minutes
  /\ now' = now + 1
  /\ UNCHANGED <<backup, rows, created, jobs, requests, pollers, faults, history>>

PollerDone(p) == pollers' = [pollers EXCEPT ![p] = Idle]
PollerGoto(p, place) == pollers' = [pollers EXCEPT ![p].at = place]

(* PollDueBackups starts.  Every worker process has a scheduler that       *)
(* queues one a minute, and it may start late: it looks at the clock, not  *)
(* at the minute it was queued in.  The backup is enabled and due.         *)
ListEnabled(p) ==
  /\ pollers[p].at = "idle" /\ backup = "present"
  /\ pollers' = [pollers EXCEPT ![p] = [at |-> "create", run |-> 0, minute |-> now]]
  /\ UNCHANGED <<backup, rows, created, jobs, requests, now, faults, history>>

CreateScheduled(p) ==
  /\ pollers[p].at = "create"
  /\ CreateBackupJob(pollers[p].minute)
  /\ pollers' = [pollers EXCEPT ![p].at = "enqueue", ![p].run = created + 1]
  /\ UNCHANGED <<backup, jobs, requests, now, faults, history>>

(* The backups cannot be listed or the row cannot be created. *)
PollFails(p) ==
  /\ pollers[p].at = "create"
  /\ Fault
  /\ PollerDone(p)
  /\ UNCHANGED <<backup, rows, created, jobs, requests, now, history>>

(* scheduledBackupTaskID names the backup and the minute; the id is free   *)
(* again when the job has succeeded.                                       *)
Held(minute) ==
  \E r \in Runs : rows[r].minute = minute /\ jobs[r] \notin {"none", "done"}

(* Mutant of EnqueueScheduled: a TaskID of its own for every run.          *)
EnqueueScheduledAlways(p) ==
  LET r == pollers[p].run IN
    /\ pollers[p].at = "enqueue"
    /\ jobs' = [jobs EXCEPT ![r] = "queued"]
    /\ PollerDone(p)
    /\ UNCHANGED <<backup, rows, created, requests, now, faults, history>>

EnqueueScheduled(p) ==
  LET r == pollers[p].run IN
    /\ pollers[p].at = "enqueue"
    /\ \/ /\ ~Held(pollers[p].minute)
          /\ jobs' = [jobs EXCEPT ![r] = "queued"]
          /\ PollerDone(p)
          /\ UNCHANGED faults
       \/ /\ Held(pollers[p].minute)
          /\ PollerGoto(p, "delete")
          /\ UNCHANGED <<jobs, faults>>
       \/ /\ Fault
          /\ jobs' \in IF Held(pollers[p].minute) THEN {jobs}
                       ELSE {jobs, [jobs EXCEPT ![r] = "queued"]}
          /\ PollerGoto(p, "fail")
    /\ UNCHANGED <<backup, rows, created, requests, now, history>>

DeleteDuplicate(p) ==
  LET r == pollers[p].run IN
    /\ pollers[p].at = "delete"
    /\ \/ rows' = Status(r, "deleted") /\ PollerDone(p) /\ UNCHANGED faults
       \/ Fault /\ PollerGoto(p, "fail") /\ UNCHANGED rows
    /\ UNCHANGED <<backup, created, jobs, requests, now, history>>

failRun(p) ==
  LET r == pollers[p].run IN
    /\ pollers[p].at = "fail"
    /\ \/ MarkBackupJobFailedForRun(r) /\ UNCHANGED <<faults, unsaved>>
       \/ Fault /\ unsaved' = unsaved \cup {r} /\ UNCHANGED rows
    /\ PollerDone(p)
    /\ UNCHANGED <<backup, created, jobs, requests, now, started, uploaded, crashed, expired>>

-----------------------------------------------------------------------------
(* RunManualBackupJob.  Saved(r) is a statement of the job of r on the     *)
(* database that succeeds, Unsaved(r) one that fails: all of them do once  *)
(* the job's context has expired.                                          *)

Saved(r) == r \notin expired /\ UNCHANGED faults
Unsaved(r) == IF r \in expired THEN UNCHANGED faults ELSE Fault

At(r, place) == jobs[r] = place
Goto(r, place) == jobs' = [jobs EXCEPT ![r] = place]

(* asynq frees the TaskID of a job that succeeds and archives one that     *)
(* fails, or whose context has expired.                                    *)
Succeeds(r) == Goto(r, IF r \in expired THEN "archived" ELSE "done")

elsewhere == <<backup, created, requests, pollers, now>>

(* Mutant of Claim: a row that is running can be claimed again.            *)
ClaimRunning(r) ==
  /\ At(r, "queued")
  /\ IF rows[r].status \in Active
     THEN rows' = Status(r, "running") /\ Goto(r, "load")
     ELSE Succeeds(r) /\ UNCHANGED rows
  /\ UNCHANGED <<elsewhere, faults, history>>

(* ClaimPendingBackupJobForRun.  The job is not retried: the row of a job  *)
(* that was stopped and starts again is no longer pending.                 *)
Claim(r) ==
  /\ At(r, "queued")
  /\ \/ /\ UNCHANGED faults
        /\ IF rows[r].status = "pending"
           THEN rows' = Status(r, "running") /\ Goto(r, "load")
           ELSE Succeeds(r) /\ UNCHANGED rows
     \/ Fault /\ Goto(r, "Failed") /\ UNCHANGED rows
  /\ UNCHANGED <<elsewhere, history>>

(* The claimed row and the backup are read.  The backup may be gone, or an *)
(* update may have given it another storage provider: the job fails.  Or   *)
(* its credentials, paths or databases are not usable: the run does.       *)
LoadBackup(r) ==
  /\ At(r, "load")
  /\ \/ Saved(r) /\ backup = "present" /\ \E place \in {"start", "recordFailure"} : Goto(r, place)
     \/ Saved(r) /\ Goto(r, "Failed")
     \/ Unsaved(r) /\ Goto(r, "Failed")
  /\ UNCHANGED <<elsewhere, rows, history>>

(* RunTask creates the task's row, attaches it to the run and connects. *)
recordStarted(r) ==
  /\ At(r, "start")
  /\ \/ /\ started' = [started EXCEPT ![r] = @ + 1]
        /\ Goto(r, "script")
        /\ \/ Saved(r) /\ MarkBackupJobRunningForRun(r)
           \/ Unsaved(r) /\ UNCHANGED rows
     \/ Goto(r, "recordFailure") /\ UNCHANGED <<rows, faults, started>>
  /\ UNCHANGED <<elsewhere, uploaded, crashed, unsaved, expired>>

(* The script ends, or its session does: then it may yet have uploaded. *)
ScriptEnds(r) ==
  /\ At(r, "script")
  /\ \/ uploaded' = uploaded \cup {r} /\ Goto(r, "recordSuccess")
     \/ uploaded' \in {uploaded, uploaded \cup {r}} /\ Goto(r, "recordFailure")
  /\ UNCHANGED <<elsewhere, rows, faults, started, crashed, unsaved, expired>>

recordSuccess(r) ==
  /\ At(r, "recordSuccess")
  /\ \/ Saved(r) /\ MarkBackupJobFinishedForRun(r) /\ Succeeds(r)
     \/ Unsaved(r) /\ Goto(r, "Failed") /\ UNCHANGED rows
  /\ UNCHANGED <<elsewhere, history>>

recordFailure(r) ==
  /\ At(r, "recordFailure")
  /\ \/ Saved(r) /\ MarkBackupJobFailedForRun(r) /\ Succeeds(r)
     \/ Unsaved(r) /\ Goto(r, "Failed") /\ UNCHANGED rows
  /\ UNCHANGED <<elsewhere, history>>

(* Mutant of Failed: it only logs.                                         *)
FailedOnlyLogs(r) ==
  /\ At(r, "Failed")
  /\ Goto(r, "archived")
  /\ UNCHANGED <<elsewhere, rows, faults, history>>

(* Handle returned an error, and there is no other attempt. *)
Failed(r) ==
  /\ At(r, "Failed")
  /\ \/ Saved(r) /\ MarkBackupJobFailedForRun(r) /\ UNCHANGED unsaved
     \/ Unsaved(r) /\ unsaved' = unsaved \cup {r} /\ UNCHANGED rows
  /\ Goto(r, "archived")
  /\ UNCHANGED <<elsewhere, started, uploaded, crashed, expired>>

-----------------------------------------------------------------------------
(* What happens to workers, and to the backup.                             *)

Working(r) == jobs[r] \notin {"none", "queued", "archived", "done"}

(* asynq's half hour is over while the script runs. *)
Expires(r) ==
  /\ At(r, "script") /\ r \notin expired
  /\ expired' = expired \cup {r}
  /\ UNCHANGED <<elsewhere, rows, jobs, faults, started, uploaded, crashed, unsaved>>

(* A worker dies, and asynq archives its job, which has no retries; or it  *)
(* is stopped, and asynq queues the job again.                             *)
WorkerStops(r) ==
  /\ Working(r)
  /\ Fault
  /\ \E place \in {"archived", "queued"} : Goto(r, IF r \in expired THEN "archived" ELSE place)
  /\ crashed' = crashed \cup {r}
  /\ UNCHANGED <<elsewhere, rows, started, uploaded, unsaved, expired>>

(* A process dies in the middle of a poll or of a request. *)
PollerStops(p) ==
  /\ pollers[p].at # "idle"
  /\ Fault
  /\ crashed' = IF pollers[p].run = 0 THEN crashed ELSE crashed \cup {pollers[p].run}
  /\ PollerDone(p)
  /\ UNCHANGED <<backup, rows, created, jobs, requests, now, started, uploaded, unsaved, expired>>

RequestStops(u) ==
  /\ requests[u].at \notin {"ready", "done"}
  /\ Fault
  /\ crashed' = IF requests[u].run = 0 THEN crashed ELSE crashed \cup {requests[u].run}
  /\ RequestGoto(u, "done")
  /\ UNCHANGED <<backup, rows, created, jobs, pollers, now, started, uploaded, unsaved, expired>>

DeleteBackup ==
  /\ backup = "present"
  /\ backup' = "deleted"
  /\ UNCHANGED <<rows, created, jobs, requests, pollers, now, faults, history>>

-----------------------------------------------------------------------------
RequestStep(u) ==
  CreateManual(u) \/ validateS3StorageProvider(u) \/ DispatchManual(u) \/ recordManualBackupFailure(u)

PollerStep(p) == CreateScheduled(p) \/ EnqueueScheduled(p) \/ DeleteDuplicate(p) \/ failRun(p)

JobStep(r) ==
  \/ Claim(r) \/ LoadBackup(r) \/ recordStarted(r) \/ ScriptEnds(r)
  \/ recordSuccess(r) \/ recordFailure(r) \/ Failed(r)

Next ==
  \/ Tick \/ DeleteBackup
  \/ \E u \in Requests : RunBackup(u) \/ RequestStep(u) \/ RequestStops(u)
  \/ \E p \in Pollers : ListEnabled(p) \/ PollerStep(p) \/ PollFails(p) \/ PollerStops(p)
  \/ \E r \in Runs : JobStep(r) \/ Expires(r) \/ WorkerStops(r)

(* A handler that has begun goes on, and a worker takes a queued job. *)
Spec ==
  /\ Init /\ [][Next]_vars
  /\ \A u \in Requests : WF_vars(RequestStep(u))
  /\ \A p \in Pollers : WF_vars(PollerStep(p))
  /\ \A r \in Runs : WF_vars(JobStep(r))

-----------------------------------------------------------------------------
(* A run that says finished has uploaded its archive.                      *)
FinishedIsUploaded == \A r \in Runs : rows[r].status = "finished" => r \in uploaded

(* The script of a run is started at most once, however often its job is   *)
(* delivered: a claim is for ever.                                         *)
StartedOnce == \A r \in Runs : started[r] <= 1

(* Of the runs scheduled for one minute at most one has a job at work.     *)
OneAtWork ==
  \A r, s \in Runs : Working(r) /\ Working(s) /\ rows[r].minute = rows[s].minute /\ r # s
                      => rows[r].minute = 0

(* A run that has ended, or was deleted, stays so: the failure of a        *)
(* dispatch whose answer was lost and the result of the job that was       *)
(* dispatched all the same do not overwrite each other.                    *)
Ended == {"finished", "failed", "deleted"}
EndedIsFinal ==
  [][\A r \in Runs : rows[r].status \in Ended => rows'[r].status = rows[r].status]_vars

(* A run that is not ended has somebody who will end it, unless a worker   *)
(* died or was stopped, its failure could not be saved or its script       *)
(* outlived the job.                                                       *)
RunSettles ==
  \A r \in Runs :
    rows[r].status \in Active
    ~> rows[r].status \in Ended \/ r \in crashed \cup unsaved \cup expired

-----------------------------------------------------------------------------
(* The inductive invariant behind StartedOnce, FinishedIsUploaded,         *)
(* OneAtWork and EndedIsFinal.                                             *)

(* Rows that were not inserted have neither contents nor a job.            *)
Unborn == \A r \in Runs : created < r => rows[r].status = "none" /\ jobs[r] = "none"

(* A request knows its run, which is a manual one.                         *)
RequestKnows ==
  \A u \in Requests : requests[u].at \in {"validate", "dispatch", "fail"} =>
    requests[u].run \in 1..created /\ rows[requests[u].run].minute = 0

(* So does a poller; until it has enqueued the job nobody else touches the *)
(* run, and no other poller has the same.                                  *)
Owning == {"enqueue", "delete", "fail"}
PollerKnows ==
  \A p \in Pollers :
    LET q == pollers[p] IN
      /\ q.at # "idle" => q.minute # 0
      /\ q.at \in Owning => q.run \in 1..created /\ rows[q.run].minute # 0
      /\ q.at \in {"enqueue", "delete"} =>
           /\ jobs[q.run] = "none" /\ rows[q.run].status = "pending"
           /\ rows[q.run].minute = q.minute
PollersApart ==
  \A p, q \in Pollers :
    p # q /\ pollers[p].at \in Owning /\ pollers[q].at \in Owning => pollers[p].run # pollers[q].run

(* A job that is about to start the script has claimed the row, for the    *)
(* first time; nothing makes the row pending again.                        *)
Unclaimed == {"none", "pending"}
ClaimedOnce ==
  \A r \in Runs :
    /\ started[r] <= 1
    /\ rows[r].status \in Unclaimed => started[r] = 0
    /\ jobs[r] \in {"load", "start"} => started[r] = 0 /\ rows[r].status \notin Unclaimed

(* A success on its way to the row is the script's.                        *)
SuccessIsKnown ==
  /\ \A r \in Runs : jobs[r] = "recordSuccess" => r \in uploaded
  /\ FinishedIsUploaded

(* The queue holds a scheduled job once.                                   *)
HeldOnce ==
  \A r, s \in Runs :
    jobs[r] \notin {"none", "done"} /\ jobs[s] \notin {"none", "done"}
    /\ rows[r].minute = rows[s].minute /\ r # s => rows[r].minute = 0

RunInv == /\ TypeOK /\ Unborn /\ RequestKnows /\ PollerKnows /\ PollersApart
          /\ ClaimedOnce /\ SuccessIsKnown /\ HeldOnce
=============================================================================
