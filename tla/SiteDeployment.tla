--------------------------- MODULE SiteDeployment ---------------------------
(***************************************************************************)
(* The deployments of one site.                                            *)
(*                                                                         *)
(* A deployment is a row of the deployments table, a job of the asynq      *)
(* queue and a tracked remote task.  Requests create rows                  *)
(* (internal/modules/site/services/deployment_service.go and the job of    *)
(* jobs/create_deployment.go), workers run the jobs (jobs/deploy.go,       *)
(* jobs/rollback.go), and the task's callbacks (tasks/deploy.go) record    *)
(* the outcome, promote the next queued deployment and delete old rows.    *)
(* There is no lock and no transaction between them: every statement that  *)
(* reads or writes the table or the queue is a step of its own.            *)
(*                                                                         *)
(* The task itself is known only through what TrackedTask promises, which  *)
(* TaskRecovery is shown to keep.                                          *)
(***************************************************************************)
EXTENDS Integers, Sequences, FiniteSets

CONSTANTS
  Deployments,   \* the rows that may be created
  Requests,      \* the requests that may be served at the same time
  Kinds,         \* the entry points they use, a subset of AllKinds
  Queueing,      \* the site's QueueDeployments setting
  Retention,     \* the number of rows that cleanupOldDeployments keeps
  MaxRuns,       \* bound on the executions of one deployment's job
  Failures       \* the kinds of failure the environment may inject

(***************************************************************************)
(*   deploy     createDeployment, for Deploy and DeployFromWebhook         *)
(*   webhook    CreateDeploymentJob, for a push that ProcessGitWebhookJob  *)
(*              received                                                   *)
(*   rollback   Rollback                                                   *)
(***************************************************************************)
AllKinds == {"deploy", "webhook", "rollback"}

(***************************************************************************)
(*   start      the task's row or the server's connection cannot be had    *)
(*   session    a rollback's SSH session breaks without an exit status     *)
(*   enqueue    a job cannot be enqueued, or its producer dies first       *)
(*   crash      the worker process dies                                    *)
(***************************************************************************)
AllFailures == {"start", "session", "enqueue", "crash"}

ASSUME DeploymentAssumption ==
  /\ IsFiniteSet(Deployments)
  /\ Kinds \subseteq AllKinds
  /\ Queueing \in BOOLEAN
  /\ Retention \in Nat \ {0}
  /\ MaxRuns \in Nat \ {0}
  /\ Failures \subseteq AllFailures

-----------------------------------------------------------------------------
VARIABLES
  status,    \* status[d]: the status column; "none" before, "gone" after the row
  born,      \* born[d]: the rank of created_at, 0 before the row
  kind,      \* kind[d]: the entry point that created it
  queue,     \* queue[d]: the asynq task whose TaskID is made of d's id
  runs,      \* runs[d]: how often a worker took it
  req,       \* req[q]: where the request is
  job,       \* job[x]: where Handle and Failed are, in execution x = <<d, n>>
  cb,        \* cb[x]: where the callback of x's task is
  prom,      \* prom[x]: where x's processNextQueuedDeployment is
  found,     \* found[x]: the rows its last query returned
  row, code, calls,   \* the tracked task of x
  lost,      \* the deployments that a crash or a refused enqueue left alone
  stale      \* the deployments whose verdict was overwritten by their own job

tableVars == <<status, born, kind>>
taskVars == <<row, code, calls>>
procVars == <<job, cb, prom, found>>
vars == <<tableVars, queue, runs, req, procVars, taskVars, lost, stale>>

Active == {"pending", "installing"}
Complete == {"finished", "failed", "timeout"}
Runs == Deployments \X (1..MaxRuns)

Task == INSTANCE TrackedTask WITH Tasks <- Runs

\* The TaskID is taken in every state but "none": an archived task keeps it.
QueueState == {"none", "waiting", "active", "archived"}

\* found   the row was read          marked   it was saved as installing
\* ready   the git provider was told saving  the task's goroutine runs
\* dispatch a rollback's task runs   finishing handleRollbackSuccess comes next
\* unreachable, preflight   failTrackedTask saves the task's row, and notifies
\* failing, failsave handleDeploymentFailure of Handle and of Failed come next
\* promote, promote2 their processNextQueuedDeployment comes next
\* failed  Handle returned an error  ending   Failed returns
\* over    nothing is left to do     dead     the worker crashed
JobPC == {"none", "found", "marked", "ready", "saving", "dispatch", "finishing",
          "unreachable", "preflight", "failing", "promote", "failed", "failsave",
          "promote2", "ending", "over", "dead"}
CallbackPC == {"none", "status", "promote", "cleanup", "delete", "over"}
Idle == [at |-> "idle"]

TypeOK ==
  /\ status \in [Deployments -> {"none", "queued", "gone"} \cup Active \cup Complete]
  /\ born \in [Deployments -> 0..Cardinality(Deployments)]
  /\ kind \in [Deployments -> AllKinds]
  /\ queue \in [Deployments -> QueueState]
  /\ runs \in [Deployments -> 0..MaxRuns]
  /\ req \in [Requests -> {Idle} \cup [at : {"free", "busy"}, kind : Kinds]
                                 \cup [at : {"enqueue"}, d : Deployments]]
  /\ job \in [Runs -> JobPC]
  /\ cb \in [Runs -> CallbackPC]
  /\ prom \in [Runs -> {"none", "update", "enqueue"}]
  /\ found \in [Runs -> SUBSET Deployments]
  /\ row \in [Runs -> {"none"} \cup Task!Unsettled \cup Task!Verdicts]
  /\ code \in [Runs -> {-1, 0, 1, 124}]
  /\ calls \in [Runs -> {<< >>, <<"OnSuccess">>, <<"OnFailure">>, <<"OnExpired">>}]
  /\ lost \subseteq Deployments
  /\ stale \subseteq Deployments

Init ==
  /\ status = [d \in Deployments |-> "none"]
  /\ born = [d \in Deployments |-> 0]
  /\ kind = [d \in Deployments |-> "deploy"]
  /\ queue = [d \in Deployments |-> "none"]
  /\ runs = [d \in Deployments |-> 0]
  /\ req = [q \in Requests |-> Idle]
  /\ job = [x \in Runs |-> "none"]
  /\ cb = [x \in Runs |-> "none"]
  /\ prom = [x \in Runs |-> "none"]
  /\ found = [x \in Runs |-> {}]
  /\ Task!Init
  /\ lost = {}
  /\ stale = {}

-----------------------------------------------------------------------------
(* The table.                                                              *)

Rows == {d \in Deployments : status[d] \notin {"none", "gone"}}
Unborn == {d \in Deployments : born[d] = 0}

\* Mutant of ActiveBySite: only installing rows count.
InstallingBySite == {d \in Deployments : status[d] = "installing"}

\* FindActiveBySite
ActiveBySite == {d \in Deployments : status[d] \in Active}

\* FindQueuedBySite, of which only the first is used.
QueuedBySite == {d \in Deployments : status[d] = "queued"}

\* Mutant of OldestQueued: ORDER BY created_at DESC.
NewestQueued == {d \in QueuedBySite : \A e \in QueuedBySite : born[d] >= born[e]}
OldestQueued == {d \in QueuedBySite : \A e \in QueuedBySite : born[d] <= born[e]}

\* The keep list of cleanupOldDeployments.
Newest(n) == {d \in Rows : Cardinality({e \in Rows : born[e] > born[d]}) < n}

\* Base.Update is db.Save of the whole row: it inserts a row that was deleted.
Save(d, s) == status' = [status EXCEPT ![d] = s]

\* UPDATE ... SET status WHERE id: nothing happens to a row that was deleted.
UpdateStatus(d, s) == status' = [status EXCEPT ![d] = IF @ = "gone" THEN @ ELSE s]

-----------------------------------------------------------------------------
(* Requests.                                                               *)

\* The check for an active deployment; the request ends here if it is refused.
Check(q) ==
  /\ req[q] = Idle
  /\ Cardinality({p \in Requests : req[p].at \in {"free", "busy"}}) < Cardinality(Unborn)
  /\ \E k \in Kinds :
       /\ k = "rollback" => \E d \in Deployments : status[d] = "finished"
       /\ ActiveBySite = {} \/ (Queueing /\ k # "rollback")
       /\ req' = [req EXCEPT ![q] =
                    [at |-> IF ActiveBySite = {} THEN "free" ELSE "busy", kind |-> k]]
  /\ UNCHANGED <<tableVars, queue, runs, procVars, taskVars, lost, stale>>

\* The row is created, pending or queued according to the check.
Create(q) ==
  /\ req[q].at \in {"free", "busy"}
  /\ \E d \in Unborn :
       /\ born' = [born EXCEPT ![d] = Cardinality(Deployments \ Unborn) + 1]
       /\ kind' = [kind EXCEPT ![d] = req[q].kind]
       /\ Save(d, IF req[q].at = "free" THEN "pending" ELSE "queued")
       /\ req' = [req EXCEPT ![q] =
                    IF @.at = "free" THEN [at |-> "enqueue", d |-> d] ELSE Idle]
  /\ UNCHANGED <<queue, runs, procVars, taskVars, lost, stale>>

Enqueue(q) ==
  /\ req[q].at = "enqueue"
  /\ queue' = [queue EXCEPT ![req[q].d] = "waiting"]
  /\ req' = [req EXCEPT ![q] = Idle]
  /\ UNCHANGED <<tableVars, runs, procVars, taskVars, lost, stale>>

\* CreateDeploymentJob marks the row failed; the service only logs the error.
EnqueueFails(q) ==
  /\ "enqueue" \in Failures
  /\ req[q].at = "enqueue"
  /\ LET d == req[q].d IN
       IF kind[d] = "webhook"
         THEN UpdateStatus(d, "failed") /\ UNCHANGED lost
         ELSE lost' = lost \cup {d} /\ UNCHANGED status
  /\ req' = [req EXCEPT ![q] = Idle]
  /\ UNCHANGED <<born, kind, queue, runs, procVars, taskVars, stale>>

\* One UPDATE ... WHERE status = queued.
CancelQueued ==
  /\ QueuedBySite # {}
  /\ status' = [d \in Deployments |-> IF status[d] = "queued" THEN "failed" ELSE status[d]]
  /\ UNCHANGED <<born, kind, queue, runs, req, procVars, taskVars, lost, stale>>

-----------------------------------------------------------------------------
(* processNextQueuedDeployment, on behalf of x's job or callback.          *)

Select(x) ==
  IF QueuedBySite = {}
    THEN UNCHANGED <<prom, found>>
    ELSE /\ found' = [found EXCEPT ![x] = OldestQueued]
         /\ prom' = [prom EXCEPT ![x] = "update"]

\* Mutant of PromoteUpdate: returns before the job is dispatched.
PromoteOnlyUpdates(x) ==
  /\ prom[x] = "update"
  /\ \E d \in found[x] : UpdateStatus(d, "pending")
  /\ prom' = [prom EXCEPT ![x] = "none"]
  /\ UNCHANGED <<born, kind, queue, runs, req, job, cb, found, taskVars, lost, stale>>

\* The job saves the whole row, the callback updates its status.
PromoteUpdate(x) ==
  /\ prom[x] = "update"
  /\ \E d \in found[x] :
       IF job[x] \in {"failed", "ending"} THEN Save(d, "pending") ELSE UpdateStatus(d, "pending")
  /\ prom' = [prom EXCEPT ![x] = "enqueue"]
  /\ UNCHANGED <<born, kind, queue, runs, req, job, cb, found, taskVars, lost, stale>>

\* The queue refuses a TaskID that is taken; an error is only logged.
PromoteEnqueue(x) ==
  /\ prom[x] = "enqueue"
  /\ \E d \in found[x] :
       \/ /\ queue[d] = "none"
          /\ queue' = [queue EXCEPT ![d] = "waiting"]
          /\ UNCHANGED lost
       \/ /\ queue[d] # "none" \/ "enqueue" \in Failures
          /\ lost' = IF queue[d] = "waiting" THEN lost ELSE lost \cup {d}
          /\ UNCHANGED queue
  /\ prom' = [prom EXCEPT ![x] = "none"]
  /\ found' = [found EXCEPT ![x] = {}]
  /\ UNCHANGED <<tableVars, runs, req, job, cb, taskVars, stale>>

-----------------------------------------------------------------------------
(* The job: DeployJob and RollbackJob.                                     *)

Goto(x, at) == job' = [job EXCEPT ![x] = at]

\* A worker takes the job and reads the row.  Without one Handle fails, and so
\* does the query of Failed: nothing else happens.  A rollback reads its target
\* too, one of the rows, and fails if it was deleted.
Handle(d) ==
  /\ queue[d] = "waiting"
  /\ runs[d] < MaxRuns
  /\ IF status[d] = "gone"
       THEN queue' = [queue EXCEPT ![d] = "archived"] /\ UNCHANGED <<runs, job>>
       ELSE /\ queue' = [queue EXCEPT ![d] = "active"]
            /\ runs' = [runs EXCEPT ![d] = @ + 1]
            /\ \/ Goto(<<d, runs[d] + 1>>, "found")
               \/ /\ kind[d] = "rollback"
                  /\ \E target \in Deployments : status[target] = "gone"
                  /\ Goto(<<d, runs[d] + 1>>, "failed")
  /\ UNCHANGED <<tableVars, req, cb, prom, found, taskVars, lost, stale>>

MarkInstalling(x) ==
  /\ job[x] = "found"
  /\ Save(x[1], "installing")
  /\ Goto(x, IF kind[x[1]] = "rollback" THEN "ready" ELSE "marked")
  /\ UNCHANGED <<born, kind, queue, runs, req, cb, prom, found, taskVars, lost, stale>>

\* The row is saved once more if the git provider answered.
CreateProviderDeployment(x) ==
  /\ job[x] = "marked"
  /\ Save(x[1], "installing") \/ UNCHANGED status
  /\ Goto(x, "ready")
  /\ UNCHANGED <<born, kind, queue, runs, req, cb, prom, found, taskVars, lost, stale>>

\* The task's row is created; RunInBackground returns at once while its goroutine
\* runs the task, the Dispatch of a rollback waits for it.
StartTask(x) ==
  /\ job[x] = "ready"
  /\ Task!Create(x)
  /\ Goto(x, IF kind[x[1]] = "rollback" THEN "dispatch" ELSE "saving")
  /\ UNCHANGED <<tableVars, queue, runs, req, cb, prom, found, lost, stale>>

CreateTaskFails(x) ==
  /\ "start" \in Failures
  /\ job[x] = "ready"
  /\ Goto(x, "failing")
  /\ UNCHANGED <<tableVars, queue, runs, req, cb, prom, found, taskVars, lost, stale>>

\* RunInBackground creates the task's row and finds that the server has no address
\* or no key: failTrackedTask saves the row and invokes OnFailure before it returns.
NoConnection(x) ==
  /\ "start" \in Failures
  /\ job[x] = "ready"
  /\ kind[x[1]] # "rollback"
  /\ Task!Create(x)
  /\ Goto(x, "unreachable")
  /\ UNCHANGED <<tableVars, queue, runs, req, cb, prom, found, lost, stale>>

FailTracked(x) ==
  /\ job[x] = "unreachable"
  /\ Task!Settle(x)
  /\ row'[x] = "failed"
  /\ Goto(x, "preflight")
  /\ UNCHANGED <<tableVars, queue, runs, req, cb, prom, found, lost, stale>>

PreflightFailed(x) ==
  /\ job[x] = "preflight"
  /\ cb[x] = "over"
  /\ Goto(x, "failing")
  /\ UNCHANGED <<tableVars, queue, runs, req, cb, prom, found, taskVars, lost, stale>>

\* The row as it was read, with the task's id: its status is still installing.
SaveTaskID(x) ==
  /\ job[x] = "saving"
  /\ Save(x[1], "installing")
  /\ stale' = IF cb[x] \in {"none", "status"} THEN stale ELSE stale \cup {x[1]}
  /\ Goto(x, "over")
  /\ queue' = [queue EXCEPT ![x[1]] = "none"]
  /\ UNCHANGED <<born, kind, runs, req, cb, prom, found, taskVars, lost>>

\* handleDeploymentFailure, handleRollbackFailure
HandleFails(x) ==
  /\ job[x] = "failing"
  /\ Save(x[1], "failed")
  /\ Goto(x, IF kind[x[1]] = "rollback" THEN "failed" ELSE "promote")
  /\ UNCHANGED <<born, kind, queue, runs, req, cb, prom, found, taskVars, lost, stale>>

JobPromotes(x) ==
  /\ job[x] \in {"promote", "promote2"}
  /\ Select(x)
  /\ Goto(x, IF job[x] = "promote" THEN "failed" ELSE "ending")
  /\ UNCHANGED <<tableVars, queue, runs, req, cb, taskVars, lost, stale>>

\* Register calls Failed because Handle returned an error; it reads the row.
Failed(x) ==
  /\ job[x] = "failed"
  /\ prom[x] = "none"
  /\ Goto(x, IF status[x[1]] = "gone" THEN "ending" ELSE "failsave")
  /\ UNCHANGED <<tableVars, queue, runs, req, cb, prom, found, taskVars, lost, stale>>

FailedSaves(x) ==
  /\ job[x] = "failsave"
  /\ Save(x[1], "failed")
  /\ Goto(x, IF kind[x[1]] = "rollback" THEN "ending" ELSE "promote2")
  /\ UNCHANGED <<born, kind, queue, runs, req, cb, prom, found, taskVars, lost, stale>>

\* MaxRetry is 0: a job that failed is archived.
Archive(x) ==
  /\ job[x] = "ending"
  /\ prom[x] = "none"
  /\ Goto(x, "over")
  /\ queue' = [queue EXCEPT ![x[1]] = "archived"]
  /\ UNCHANGED <<tableVars, runs, req, cb, prom, found, taskVars, lost, stale>>

\* GetExitCode: a broken session leaves 0, whatever became of the script.
ExitCodes(x) ==
  CASE row[x] = "finished" -> {0}
    [] row[x] = "timeout" -> {124}
    [] row[x] = "failed" -> {1} \cup IF "session" \in Failures THEN {0} ELSE {}
    [] OTHER -> {}

\* Dispatch returned a result: the row is saved with the task's id.
RollbackReturns(x) ==
  /\ job[x] = "dispatch"
  /\ \E exit \in ExitCodes(x) : Goto(x, IF exit = 0 THEN "finishing" ELSE "failing")
  /\ Save(x[1], "installing")
  /\ UNCHANGED <<born, kind, queue, runs, req, cb, prom, found, taskVars, lost, stale>>

\* Dispatch returned an error: the server has no address or no key.
RollbackUnreachable(x) ==
  /\ "start" \in Failures
  /\ job[x] = "dispatch"
  /\ row[x] = "failed"
  /\ Goto(x, "failing")
  /\ UNCHANGED <<tableVars, queue, runs, req, cb, prom, found, taskVars, lost, stale>>

\* handleRollbackSuccess
RollbackSucceeds(x) ==
  /\ job[x] = "finishing"
  /\ Save(x[1], "finished")
  /\ Goto(x, "over")
  /\ queue' = [queue EXCEPT ![x[1]] = "none"]
  /\ UNCHANGED <<born, kind, runs, req, cb, prom, found, taskVars, lost, stale>>

-----------------------------------------------------------------------------
(* The tracked task and its callback.                                      *)

\* Somebody runs x's task: the runner, or after a restart TaskRecovery, which
\* takes care of running rows only.
Attended(x) ==
  \/ row[x] = "running"
  \/ job[x] \in {"saving", "dispatch", "over"}

TaskRuns(x) ==
  /\ Attended(x)
  /\ \/ Task!Begin(x)
     \/ row[x] = "running" /\ Task!End(x)
     \/ Task!Settle(x)
  /\ UNCHANGED <<tableVars, queue, runs, req, procVars, lost, stale>>

\* RollbackDeployment is a BaseTask: it has no callbacks.
Notify(x) ==
  /\ kind[x[1]] # "rollback"
  /\ cb[x] = "none"
  /\ Task!Notify(x)
  /\ cb' = [cb EXCEPT ![x] = "status"]
  /\ UNCHANGED <<tableVars, queue, runs, req, job, prom, found, lost, stale>>

\* Mutant of StatusOf: a status that DeploymentStatus does not have.
StatusOfUnknown(callback) ==
  CASE callback = "OnSuccess" -> "finished"
    [] callback = "OnFailure" -> "failed"
    [] callback = "OnExpired" -> "expired"

\* Mutant of StatusOf: a timeout passes for a success.
StatusOfLenient(callback) == IF callback = "OnFailure" THEN "failed" ELSE "finished"

\* What OnSuccess, OnFailure and OnExpired write first.
StatusOf(callback) ==
  CASE callback = "OnSuccess" -> "finished"
    [] callback = "OnFailure" -> "failed"
    [] callback = "OnExpired" -> "timeout"

\* Mutant of CallbackUpdates: OnExpired forgets to record the timeout.
CallbackForgetsTimeout(x) ==
  /\ cb[x] = "status"
  /\ IF calls[x][1] = "OnExpired"
       THEN UNCHANGED status
       ELSE UpdateStatus(x[1], StatusOf(calls[x][1]))
  /\ cb' = [cb EXCEPT ![x] = IF Queueing THEN "promote" ELSE "cleanup"]
  /\ UNCHANGED <<born, kind, queue, runs, req, job, prom, found, taskVars, lost, stale>>

CallbackUpdates(x) ==
  /\ cb[x] = "status"
  /\ UpdateStatus(x[1], StatusOf(calls[x][1]))
  /\ cb' = [cb EXCEPT ![x] = IF Queueing THEN "promote" ELSE "cleanup"]
  /\ UNCHANGED <<born, kind, queue, runs, req, job, prom, found, taskVars, lost, stale>>

CallbackPromotes(x) ==
  /\ cb[x] = "promote"
  /\ Select(x)
  /\ cb' = [cb EXCEPT ![x] = "cleanup"]
  /\ UNCHANGED <<tableVars, queue, runs, req, job, taskVars, lost, stale>>

\* cleanupOldDeployments, which only OnSuccess calls: the keep list.
CallbackKeeps(x) ==
  /\ cb[x] = "cleanup"
  /\ prom[x] = "none"
  /\ IF calls[x][1] = "OnSuccess" /\ Cardinality(Newest(Retention)) = Retention
       THEN /\ found' = [found EXCEPT ![x] = Newest(Retention)]
            /\ cb' = [cb EXCEPT ![x] = "delete"]
       ELSE cb' = [cb EXCEPT ![x] = "over"] /\ UNCHANGED found
  /\ UNCHANGED <<tableVars, queue, runs, req, job, prom, taskVars, lost, stale>>

\* DELETE ... WHERE id NOT IN the keep list.
CallbackDeletes(x) ==
  /\ cb[x] = "delete"
  /\ status' = [d \in Deployments |-> IF d \in Rows \ found[x] THEN "gone" ELSE status[d]]
  /\ found' = [found EXCEPT ![x] = {}]
  /\ cb' = [cb EXCEPT ![x] = "over"]
  /\ UNCHANGED <<born, kind, queue, runs, req, job, prom, taskVars, lost, stale>>

-----------------------------------------------------------------------------
(* The worker process.                                                     *)

\* x's job, its callback or the goroutine of its task has something left to do.
UnderWay(x) ==
  \/ job[x] \notin {"none", "over", "dead"}
  \/ cb[x] \notin {"none", "over"}
  \/ job[x] # "dead" /\ row[x] = "pending"
  \/ kind[x[1]] # "rollback" /\ row[x] \in Task!Verdicts /\ cb[x] = "none"

\* The requests that the worker serves; the service's run in another process.
Dying ==
  {q \in Requests : /\ req[q] # Idle
                    /\ "webhook" = IF req[q].at = "enqueue" THEN kind[req[q].d] ELSE req[q].kind}

\* The jobs under way are archived, and so is a CreateDeploymentJob.  A task that
\* was settled is not recovered, so its callback is lost.
Crash ==
  /\ "crash" \in Failures
  /\ Dying # {} \/ \E x \in Runs : UnderWay(x)
  /\ lost' = lost \cup {x[1] : x \in {y \in Runs : UnderWay(y)}}
                  \cup {req[q].d : q \in {p \in Dying : req[p].at = "enqueue"}}
                  \cup UNION {found[x] : x \in {y \in Runs : prom[y] # "none"}}
  /\ req' = [q \in Requests |-> IF q \in Dying THEN Idle ELSE req[q]]
  /\ queue' = [d \in Deployments |-> IF queue[d] = "active" THEN "archived" ELSE queue[d]]
  /\ job' = [x \in Runs |-> IF job[x] = "none" THEN "none" ELSE "dead"]
  /\ cb' = [x \in Runs |-> IF cb[x] = "none" /\ row[x] \notin Task!Verdicts THEN "none" ELSE "over"]
  /\ prom' = [x \in Runs |-> "none"]
  /\ found' = [x \in Runs |-> {}]
  /\ UNCHANGED <<tableVars, runs, taskVars, stale>>

-----------------------------------------------------------------------------
Request(q) == Check(q) \/ Create(q) \/ Enqueue(q) \/ EnqueueFails(q)

Job(x) ==
  \/ MarkInstalling(x) \/ CreateProviderDeployment(x) \/ StartTask(x) \/ CreateTaskFails(x)
  \/ NoConnection(x) \/ FailTracked(x) \/ PreflightFailed(x) \/ SaveTaskID(x)
  \/ RollbackReturns(x) \/ RollbackUnreachable(x) \/ RollbackSucceeds(x)
  \/ HandleFails(x) \/ JobPromotes(x) \/ Failed(x) \/ FailedSaves(x) \/ Archive(x)

Callback(x) ==
  \/ CallbackUpdates(x) \/ CallbackPromotes(x) \/ CallbackKeeps(x) \/ CallbackDeletes(x)

Promote(x) == PromoteUpdate(x) \/ PromoteEnqueue(x)

\* Nothing is under way and nobody asks for a deployment.
Quiet ==
  /\ \A q \in Requests : req[q] = Idle
  /\ \A d \in Deployments : queue[d] = "waiting" => runs[d] = MaxRuns
  /\ \A x \in Runs : ~UnderWay(x) /\ row[x] # "running" /\ prom[x] = "none"
  /\ UNCHANGED vars

Next ==
  \/ \E q \in Requests : Request(q)
  \/ CancelQueued
  \/ \E d \in Deployments : Handle(d)
  \/ \E x \in Runs : Job(x) \/ Promote(x) \/ TaskRuns(x) \/ Notify(x) \/ Callback(x)
  \/ Crash
  \/ Quiet

Spec == Init /\ [][Next]_vars

(***************************************************************************)
(* Requests and goroutines are scheduled, the queue delivers, and a task   *)
(* is settled and notifies as TaskRecovery's RunningSettles has it.  Nobody*)
(* has to ask for a deployment or to cancel one.                           *)
(***************************************************************************)
Fairness ==
  /\ \A q \in Requests : WF_vars(Create(q)) /\ WF_vars(Enqueue(q) \/ EnqueueFails(q))
  /\ \A d \in Deployments : WF_vars(Handle(d))
  /\ \A x \in Runs :
       /\ WF_vars(Job(x)) /\ WF_vars(Promote(x))
       /\ WF_vars(TaskRuns(x)) /\ WF_vars(Notify(x)) /\ WF_vars(Callback(x))

FairSpec == Spec /\ Fairness

-----------------------------------------------------------------------------
(* Properties.                                                             *)

\* A deployment recorded as finished has a script that the server ran to a zero
\* exit code: no interleaving of jobs, callbacks, promotions and restarts lets a
\* failed or unfinished one through (OnSuccess, handleRollbackSuccess).
FinishedMeansSucceeded ==
  \A d \in Deployments : status[d] = "finished" =>
    \E n \in 1..MaxRuns : code[<<d, n>>] = 0

\* A pending or installing row keeps every other deployment of its site waiting;
\* it always has a request, a job, a promotion, a task or a callback that will
\* move it on, unless a crash or a refused enqueue left it alone or its own job
\* overwrote its verdict.
ActiveIsOwned ==
  \A d \in Deployments : status[d] \in Active =>
    \/ d \in lost \cup stale
    \/ queue[d] = "waiting"
    \/ \E q \in Requests : req[q] = [at |-> "enqueue", d |-> d]
    \/ \E x \in Runs : prom[x] = "enqueue" /\ d \in found[x]
    \/ \E n \in 1..MaxRuns :
         \/ job[<<d, n>>] \notin {"none", "over", "dead"}
         \/ row[<<d, n>>] \in Task!Unsettled
         \/ kind[d] # "rollback" /\ row[<<d, n>>] # "none" /\ cb[<<d, n>>] \in {"none", "status"}

\* Queued deployments are promoted in the order they were created, however many
\* callbacks and failing jobs promote at the same time
\* (processNextQueuedDeployment orders by created_at and takes the first).
PromotedInOrder ==
  [][\A d \in Deployments : status[d] = "queued" /\ status'[d] = "pending" =>
       \A e \in Deployments : status[e] = "queued" => born[d] <= born[e]]_vars

\* A deployment that is pending or installing does not stay so, with the same
\* exceptions: nothing but a crash, a refused enqueue or the stale save of the
\* task's id can leave a site blocked.
ActiveSettles ==
  \A d \in Deployments :
    status[d] \in Active ~> (status[d] \notin Active \/ d \in lost \cup stale)

\* "Can't start a new deployment while one is active and queuing is disabled"
\* (jobs/create_deployment.go): at most one deployment's task is in flight.
OneInFlight ==
  \A x, y \in Runs : row[x] \in Task!Unsettled /\ row[y] \in Task!Unsettled => x = y

\* "it will be processed when the active deployment finishes"
\* (jobs/create_deployment.go): a queued deployment does not stay queued.
QueueMoves ==
  \A d \in Deployments : status[d] = "queued" ~> status[d] # "queued"

-----------------------------------------------------------------------------
(* The inductive invariant behind PromotedInOrder and FinishedMeansSucceeded. *)

\* A callback at work was invoked with a verdict.
CallbackIsKnown ==
  \A x \in Runs : cb[x] \notin {"none", "over"} => calls[x] # << >>

\* created_at numbers the rows without leaving room for a later one below.
BornInOrder ==
  /\ \A d \in Deployments : born[d] <= Cardinality(Deployments \ Unborn)
  /\ \A d \in Deployments : status[d] = "queued" => born[d] # 0

\* What a promotion read stays ahead of whatever is queued when it writes.
FoundIsOldest ==
  \A x \in Runs : prom[x] = "update" =>
    \A d \in found[x] :
      /\ born[d] # 0
      /\ \A e \in Deployments : status[e] = "queued" => born[d] <= born[e]

\* A success on its way to the row is the script's.
SuccessIsEarned ==
  \A x \in Runs :
    /\ row[x] = "finished" => code[x] = 0
    /\ calls[x] = <<"OnSuccess">> => code[x] = 0
    /\ job[x] = "finishing" => code[x] = 0

OrderInv == TypeOK /\ CallbackIsKnown /\ BornInOrder /\ FoundIsOldest

-----------------------------------------------------------------------------
(* The inductive invariant behind ActiveIsOwned.                           *)

AtWork(x) == job[x] \notin {"none", "over", "dead"}

\* Handle returned an error, or its Failed is running.
Failing == {"failing", "promote", "failed", "failsave", "promote2", "ending"}

\* No two rows have the same created_at, and a row that does not exist has no job.
BornApart ==
  /\ \A d, e \in Deployments : born[d] = born[e] /\ born[d] # 0 => d = e
  /\ \A d \in Deployments : born[d] = 0 => queue[d] = "none" /\ runs[d] = 0

\* A request that is to enqueue a job is the first to do so for its row: the row was
\* never queued, so that no promotion can be ahead of it.
RequestIsFirst ==
  \A q \in Requests : req[q].at = "enqueue" =>
    /\ born[req[q].d] # 0 /\ status[req[q].d] # "queued" /\ queue[req[q].d] = "none"
    /\ \A p \in Requests : req[p] = req[q] => p = q

\* A promotion is of a single row, one that no request is to enqueue.
FoundIsSingle ==
  \A x \in Runs : prom[x] # "none" =>
    \A d \in found[x] :
      /\ born[d] # 0 /\ found[x] = {d}
      /\ \A q \in Requests : req[q] # [at |-> "enqueue", d |-> d]

\* An execution holds its TaskID while it works, so that a row has one at a time.
HoldsTaskID(x) ==
  /\ AtWork(x) => queue[x[1]] = "active" /\ runs[x[1]] = x[2]
  /\ x[2] > runs[x[1]] => job[x] = "none"

\* What the job, the task and the callback of an execution know of each other.
JobKnowsTask(x) ==
  /\ job[x] \in {"none", "found", "marked", "ready"} => row[x] = "none"
  /\ job[x] = "saving" => kind[x[1]] # "rollback" /\ row[x] # "none"
  /\ job[x] \in {"dispatch", "finishing"} => kind[x[1]] = "rollback"
  /\ job[x] \in Failing => kind[x[1]] = "rollback" \/ row[x] = "none" \/ cb[x] = "over"
  /\ row[x] \notin Task!Verdicts => cb[x] = "none"
  /\ kind[x[1]] = "rollback" => cb[x] \in {"none", "over"}
  /\ kind[x[1]] = "rollback" /\ row[x] \in Task!Unsettled => job[x] = "dispatch" \/ x[1] \in lost

\* The job and the callback of an execution never promote at the same time.
PromotesOnce(x) == prom[x] # "none" => cb[x] = "cleanup" \/ job[x] \in {"failed", "ending"}

\* ActiveIsOwned without the jobs that have written their last status.
OwnedByRun(d, x) ==
  /\ x[1] = d
  /\ \/ AtWork(x) /\ job[x] \notin {"promote2", "ending"}
     \/ row[x] \in Task!Unsettled
     \/ kind[d] # "rollback" /\ row[x] # "none" /\ cb[x] \in {"none", "status"}

Owned(d) ==
  \/ d \in lost \cup stale
  \/ queue[d] = "waiting"
  \/ \E q \in Requests : req[q] = [at |-> "enqueue", d |-> d]
  \/ \E x \in Runs : prom[x] = "enqueue" /\ d \in found[x]
  \/ \E x \in Runs : OwnedByRun(d, x)

RunInv == \A x \in Runs : HoldsTaskID(x) /\ JobKnowsTask(x) /\ PromotesOnce(x)

OwnerInv ==
  /\ OrderInv /\ BornApart /\ RequestIsFirst /\ FoundIsSingle /\ RunInv
  /\ \A d \in Deployments : status[d] \in Active => Owned(d)
=============================================================================
