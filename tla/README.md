# Verification of launch-go: managed servers and what runs on them

launch-go manages servers: an API and a worker process keep rows in a database, the worker
takes jobs from an asynq queue, runs scripts on managed servers over SSH and records what
became of them.  This project models the parts whose rows are written by several actors at
once, as TLA+ modules, checks them with TLC on small instances and proves the main results
with TLAPS.

## The system

| part | state | operations | interacts with |
|---|---|---|---|
| task runner (`server/tasks/runner.go`) | rows of `tasks`, one goroutine per task | Run, RunAsync, RunInBackground, Prepare | dispatcher, callbacks |
| dispatcher, stream monitor (`pkg/taskrunner`) | `activeStreams`, a completion channel per task | Run, MonitorBackgroundTask | managed servers over SSH |
| task recovery (`server/tasks/recovery.go`) | the running rows at boot, re-monitor goroutines | RecoverOrphanedTasks | servers, callbacks |
| site deployments (`site/services`, `site/jobs`, `site/tasks`) | rows of `deployments`, jobs and their TaskIDs | Deploy, Rollback, webhook, CancelQueued, the jobs, the callbacks | queue, task runner |
| daemons, cron jobs, firewall rules (`server/services`, `server/jobs`) | rows with four status columns, artefacts on the server | create, update, delete, sync, the install and uninstall jobs | queue, servers |
| docker workloads (`docker/services`, `docker/jobs`, `docker/handlers`) | the workload's row, deployment rows, its container | deploy, reload, stop, start, remove, the GitHub Actions endpoints | queue, servers, GitHub |
| server lifecycle (`server/services`, `server/jobs`, `server/tasks`) | the server's row, its instance at the provider | create, wait, provision, clean up, retry, update, archive, delete | providers, queue, task runner |
| backups (`backup/services`, `backup/jobs`) | rows of `backup_jobs` | run, poll, claim, record | scheduler, queue, servers |
| websocket hub (`pkg/websocket`) | connected clients, channels, buffers | register, subscribe, broadcast, shut down | Redis, browsers |
| prepared tasks, PHP patching | pending task rows | Prepare, claim, fail, finish | task runner |
| load balancers, schedules | counters, due times | health check, run | task runner, queue |
| auth, teams, billing, dns, certificates, databases, scripts, notifications, platform, staff | rows | request handlers | tracked tasks where a server is involved |

Where the difficulty lies:

* A task's row, its script and its goroutines live in three places that fail separately: the
  connection breaks, the deadline passes, the worker restarts, the script dies.  Every save
  of the row is an unconditional `db.Save`; correctness rests on one writer at a time.
* Recovery reconstructs the state of a script from two files that it reads one after the other.
* Rows are read, decided upon and written later, without lock or transaction, by requests, jobs
  and callbacks.  Some write one column, some the whole row they read.
* Jobs run once (`MaxRetry` is 0) and are deduplicated by a TaskID.  It is free again when the
  job returns, which may be before the work ends, and stays taken for good when the job fails or
  its worker dies; the services answer a taken TaskID as success.
* What exists on a server, at a provider or at GitHub outlives the row that names it.
* The hub's goroutines share maps, buffers and unbuffered channels, and any of them may be the
  last to notice that a client, or the hub, is gone.

What makes the parts correct: a verdict is the script's own; a row that shows progress has
somebody who will end it; what reads installed, running, finished or successful is so on the
server; what was deleted leaves nothing behind; what has ended stays ended; a failure is
visible; nobody waits for ever.  Where the code does not go that far, the property names the
exception and allows no other.

## Modules

| module | contents |
|---|---|
| `TrackedTask` | what a tracked task promises: the abstract specification |
| `TaskRunner` | runner, dispatcher, monitor and script, for a worker that stays up |
| `TaskRecovery`, `TaskRecoveryProofs` | extends it with crashes, the boot and the re-monitors; properties, inductive invariant, theorems |
| `SiteDeployment`, `SiteDeploymentProofs` | the deployments of one site, on top of `TrackedTask` |
| `ManagedResource`, `ManagedResourceProofs` | daemons, cron jobs and firewall rules of a server |
| `DockerDeployment`, `DockerDeploymentProofs` | one Docker workload: its deployments, its removal, the GitHub Actions runs that build it |
| `ServerLifecycle`, `ServerLifecycleProofs` | one server from its creation to its deletion |
| `Backups`, `BackupsProofs` | the runs of one backup |
| `WebSocketHub`, `WebSocketHubProofs` | the hub, the handlers and pumps of its connections, the Redis subscriber |
| `MC...` | what the runs instantiate |

In every module a step is what one actor does between two points at which another can
interfere: one statement on the database, one call of the queue, one session on a server, one
critical section.  A step that the code lets fail has its failing branch, above all the
UPDATE that records an end: where the code only logs that failure, the step goes on without
the write.  (A request whose very first statement fails answers with the error and changes
nothing; it has no step.  For sites see "Not modelled".)  Variables marked history are read by
no guard; properties use them to name their exceptions.  Bounds
(`MaxRequests`, `MaxFaults`, `MaxRuns`, ...) appear in guards only.

### Tracked tasks

`row[t]` is the status column, `runner[t]` the position of the runner's goroutine, `owed[t]`
the callback between the save of the row and its invocation, `calls[t]` the callbacks invoked
so far.  `script[t]` and `code[t]` are the script on the server: it runs, exits, writes its
exit code file and then its marker, each a step that anything may come between.  `monitor[t]`
and `chan[t]` are the stream monitor and the completion channel.

* `Create`, `MarkRunning`, `NoConnection`, `DispatchFails`, `Launch` are the preflight, in the
  order each of the three modes has it; every error goes through `failTrackedTask`.
* `ForegroundReturns`, `ForegroundBreaks` end a synchronous command; `BackgroundStarted`,
  `Receive`, `DeadlinePasses` are the select of `runLongRunning`.
* `MonitorAttaches`, `MonitorSeesMarker`, `MonitorBreaks`, `MonitorFails` are the monitor.
* `Crash` ends every goroutine; `Boot` queries the running rows; `Visit...` is `recoverTask`,
  one task at a time, with the error path back into `markTaskFailed`; `Remonitor...` and
  `Recheck...` are the goroutine of `remonitorRunningTask`.

A task result is reduced to exit code, `TimedOut` and whether there is an `Error`.  Output,
broadcasts and progress markers are left out.  Jobs of a `CompletionConfig` are dispatched at
the place of a callback and are not told apart from one.

### Site deployments

`status`, `born` and `kind` are the columns of a row, `queue[d]` the asynq task whose TaskID
is made of the row's id, `req[q]` a request between its check and its insert.  An execution
`<<d, n>>` is the n-th time a worker took d's job; `job`, `cb` and `prom` are the positions of
its Handle and Failed, of its task's callback, and of a `processNextQueuedDeployment` it is
in, and `found` holds what the last query returned.  `Base.Update` is a save of the whole row
(`Save`), which restores a row that was deleted; `UpdateStatus` is an UPDATE that does nothing
then.  The task is used through the actions of `TrackedTask`; `TaskRecovery` is shown to
implement those, so the two models compose.

`lost` collects the deployments a crash or a refused enqueue left alone, `stale` those whose
verdict was overwritten by the save of the task's id.

### Daemons, cron jobs and firewall rules

`rows[i]` holds the status columns of `InstallableModel` and a version of the contents,
`remote[i]` the version on the server, `jobs[t][i]` the asynq task under the TaskID of job
type and resource, `client[c]` a request between its read and its write.  The three kinds
share their actions and differ in the operators named after the code: what counts as a failed
script (`UninstallDaemonProceeds` ignores an exit code, the others do not), what `Failed`
writes, what an update does (a daemon installs again, a cron job and a rule only save).
`Save` writes every column and inserts a row that is gone; when the row is no longer what the
writer read, the resource enters `lost`.  `SyncLoad`, `SyncSave` and `SyncEnd` are
`SyncDaemonsJob`, which does exactly that to every daemon.

A daemon's install job runs two scripts: the second one, `ReloadSupervisor`, makes supervisor
read all files again (`loaded[i]` is the version it has of daemon i), and its outcome decides
nothing.  A reload that failed puts the daemon into `unreloaded` until one works.  `Failed`
only logs that it could not mark the row (`MarkOrLog`, `unsaved`).  A worker that dies leaves
its job archived (`crashed`); one that is stopped hands it back to the queue (`WorkerDies`).

### Docker workloads

One application or stack, built on the server or by GitHub Actions.  `app` is its row, `rows`
its deployments with the run they belong to, `jobs[d]` the job of deployment d (0 is the one
that recreates the container), `remove`, `life` the other jobs, `container` the host.
Requests are followed from their read through every later statement (`client[c].op` is the
next one).  A run builds, notifies (`BuildEnds`, `upsertGHADeployment`,
`enqueueApplicationDeploy`), polls (`deploymentStatus`) and reports a failure
(`GHAApplicationStatus`, `markGHADeploymentFailed`); the workflow template and GitHub are
external.  `Create` inserts a row and prunes the history in one transaction.

An UPDATE by which a deploy job, or the `Failed` of a removal, records something is only logged
when it fails (`Written`, `Lost`); `stranded` collects the rows whose last write failed, or
never came because the request that owed it stopped (`ClientStops`: the API process dies, or a
statement fails) or because the notification of a failure did not arrive.  A refused enqueue
has its compensation as a statement of its own (`DeployGivesUp`, `DeleteRestores`), which may
fail as well.  A job that outlives asynq's half hour, so that none of its writes goes through,
is a `WorkerDies`; a worker that is stopped requeues the job.

### Server lifecycle

`row` is the server's row reduced to its status, `connected`, `archived`, the instance, the
address and the SSH host key it names; `cloud` the instances that exist at the provider; `jobs`
the jobs under their TaskIDs and the cleanups that callbacks dispatch without one; `scripts` the
provisioning scripts and the machines they run on; `clients` the requests that read, decide and
write later.  Each job is modelled statement by statement where another actor could come between;
`CreateFails`, `WaitFails`, `ProvisionFails`, `CleanupFails`, `DeleteFails` are an error anywhere
in Handle followed by Failed, whose own statements may fail: `broken` is the set of those that do,
in one `Outage`.  The callbacks `OnSuccess` and `OnFailure` return when they cannot write the
status, the latter without the cleanup.  A request reads (`Read`), writes (`RetryReset`,
`TryPersist`, `UpdateSave`) and dispatches (`Dispatch`) in separate steps; the queue may refuse
the dispatch, or the process die before it.  `Pin` is the host-key callback of the SSH client:
whoever answers first is pinned, anybody else refused.  A custom server enters at `provision`.

`spoiled` collects the instances whose provisioning failed, `stuck` the jobs that were refused,
swallowed or killed, that failed at the provider or, in a deletion and in a cleanup, in the
database, `unsaved` what a step failed to write and went on without, and `raced` records that a
request wrote on a row that was no longer the one it had read.  `Crossed` says that two chains
of jobs may be at work at once: by such a request, or because the write is missing that keeps
the second chain away (`connected` after a wait, the status at the start of a retry).

### Backups

`rows[r]` is a row of `backup_jobs`, `jobs[r]` where its job is, `requests` and `pollers` the
requests and the executions of `PollDueBackups` between two statements.  The repository's
updates carry their `WHERE status` (`Claim`, `MarkBackupJob...`).  A job may be delivered
again, its worker may stop or die, every save may fail, and `expired` holds the jobs that have
outlived asynq's half hour, whose context no longer reaches the database.

### WebSocket hub

`hub` is what `Run` is doing, `handler[c]`, `writer[c]` the goroutines of a connection,
`leaving[c]` the pending `go h.Unregister(client)`, `shutdown` and `feed` the goroutines of
Shutdown and of the Redis subscriber.  A critical section is one step, except the two that
another goroutine can look into: `Subscribe` between its second look at the client and the map
update (`mu`), and `SafeSend` between its look at `closing` and its send (`SendLocked`).
`register` and `unregister` are unbuffered: `HubRegister`, `HubUnregister` are the rendezvous
and `RegisterDone`, `UnregisterDone` what the sender does when the hub is gone.

## Runs

The fault and failure kinds of the first runs are constants (`Faults`, `Failures`); the later
modules bound the number of faults, each of which may be any of the kinds they know.

| run | instance | shows |
|---|---|---|
| `faults` | two tasks, every fault, one crash | `VerdictIsTheScripts`, `NotifiedAsRecorded` |
| `once` | one task, three crashes, fair scheduling, no failing writes or callbacks | `RunningIsOwned`, `TerminalIsFinal`, `KeepsPromise`, `RunningSettles` |
| `safe` | two deployments, two requests, deploys and rollbacks, every failure but a broken session, fair scheduling | `FinishedMeansSucceeded`, `ActiveIsOwned`, `ActiveSettles` |
| `serial` | three deployments, one request at a time, webhooks and rollbacks, no queueing, failing starts and enqueues, crashes | `OneInFlight` |
| `order` | three deployments, queueing, no failures | `PromotedInOrder` |
| `drift` | one resource of any kind, two concurrent clients, three requests, one fault | `InstalledIsPresent`, `CleanRemoval`, `FailureIsRecorded`, `InstalledIsCurrent`, `UninstallSettles` |
| `deploys` | one workload of any kind and build, two clients, two deployments, one GitHub run with re-runs, three requests and two faults but four of both together | `SuccessIsEarned`, `PendingIsOnItsWay`, `BuildingIsOwned`, `CleanDelete`, `DeletingIsOwned` |
| `provision` | a cloud or custom server, two clients, two scripts, a callback's cleanup, three instances, three requests and two faults but three of both together, fair scheduling | `InProgressIsOwned`, `RunningIsBuilt`, `DeleteHonoured`, `FailedIsRemoved` |
| `runs` | two runs, one request, one poller, two minutes, two faults, fair scheduling | `StartedOnce`, `OneAtWork`, `EndedIsFinal`, `RunSettles` |
| `hub` | one connection, two channels, two events, buffers of one, a slow browser, a shutdown at any time, fair scheduling | `SendsOpen`, `NoGhost`, `NoSilentGap`, `HandlerEnds`, `ShutdownEndsAll`, `FeedIsFree` |

`TypeOK` is checked in `faults`, `safe`, `drift`, `deploys` and `provision`; it is proved of
every module.  Two runs record disagreements between the code and what its
comments say; TLC finds each of them:

| run | the code's own words | what happens |
|---|---|---|
| `wakeup` | a queued deployment is processed when the active one finishes | it is inserted after the promotion, and waits |
| `retry` | on a retry after a failed provisioning the droplet exists | the cleanup of that failure has deleted it and left `connected` true, so the branch is taken without a droplet |

Bounds.  One task meets every path of a task, since tasks share only the recovery loop; two
tasks exercise the loop, with one crash.  Three crashes of one task allow crashes during
recovery and during the recovery after it.  The races between deployments are between two of
them, which two rows and two requests reach; promotion out of order needs an active deployment
and two queued ones, hence three.  There the failures are left out, which would take too long to
check: what failing jobs and crashes do to the order is covered by a theorem below.  `MaxRuns =
2` in `safe` admits the second execution that deduplication should prevent.  `Retention` is 1
where the cleanup is to happen and beyond the number of rows where it is not; only its relation
to the number of rows matters, and the same holds of `HistoryLimit` in `deploys`.  Resources and
workloads do not share rows, so one of each is enough; two clients are every pair of requests
whose statements interleave, and three requests are an update, a delete and whatever comes
between.  In `deploys` and `provision` the constraint `Together` bounds requests and faults by
their sum (an application that GitHub builds meets its third request only without a fault; a stack
meets it with one), and the clients of `deploys` are interchangeable.  A failing write after a
refused enqueue, or a request after two failures, fits into that.  In `provision` three requests
admit retry, delete and update of one server, and three instances a retry after a retry;
`Together` stops only requests and faults, for which no fairness is assumed, so it cuts off no
fair ending.  In `runs` the two rows are a manual and a scheduled one, or two of one or of two
minutes; one poller suffices for two polls of a minute, whose overlap the queue decides, and the
theorems hold for any number.  In `hub` buffers of one are full after one message, and the hub
serves clients one after the other; what several clients may do to each other is covered by the
theorems.

Fairness.  Goroutines and requests are scheduled, contexts have deadlines (`runLongRunning`,
the monitor and the re-monitor each set one), the queue delivers, and whoever runs the worker
restarts it: weak fairness of the corresponding steps.  Nothing is assumed of users, browsers
or Redis, of a deployment's script before its deadline, nor of a fault.  In `SiteDeployment`
the fairness of a task's steps is what `RunningSettles` shows for `TaskRecovery`, and in
`ServerLifecycle` a provisioning script ends for the same reason.  In `Backups` the script has
a timeout of an hour.  The rendezvous of the hub has strong fairness: Go's select picks at
random among the ready cases, so that a sender is not passed over for ever by a hub that keeps
coming back to its select.

Deadlock checking is on for tasks and site deployments: the states in which nothing is left to
do are named (`Terminated`, `Quiet`) and everything else must have a successor.  It is off in
the later modules, whose requests, faults and messages are bounded: once they are used up the
system may stop anywhere.  What must not stop there is stated as liveness (`UninstallSettles`,
`DeleteHonoured`, `FailedIsRemoved`, `RunSettles`, `HandlerEnds`, `ShutdownEndsAll`,
`FeedIsFree`) or as an owner that every unfinished row has (`PendingIsOnItsWay`,
`BuildingIsOwned`, `DeletingIsOwned`, `InProgressIsOwned`).

### Behaviours that the actions reproduce without a run of their own

Tasks and site deployments:

* a background task that times out has exit code 124 and is recorded as failed; in recovery an
  error of `OnSuccess` leads to `OnFailure`;
* a script that printed nothing for a minute is given up after a restart
  (`VisitFindsStaleOutput`); a worker that dies before a row is running leaves it pending;
* two requests check for an active deployment before either inserts; a cancellation between the
  read and the write of a promotion is undone (`CancelQueued`, `PromoteUpdate`); the same
  deployment runs twice, since its TaskID is free again once the first job returned;
* the job's later save of the task's id overwrites the callback's verdict; a broken session of
  a rollback reads as finished; the cleanup deletes a row that was created after its keep list
  was read (`CallbackKeeps`, `CallbackDeletes`).

Resources and workloads:

* an archived job keeps its TaskID, and the services answer every later dispatch under it as a
  success (`pkg/service/base.go`, `ignoreDuplicateTask`): a failed install, uninstall, removal
  or provisioning cannot be repeated until the archive is emptied;
* a mark of failure, a terminal status or a revert that the database refuses is only logged: the
  row goes on reading uninstalling, pending, building or deleting (`MarkOrLog`, `RecordRow`,
  `RecordApp`, `FailJob`, `DeployGivesUp`, `DeleteRestores`, `RemoveApplicationFailed`);
* the reload of supervisor may fail while the daemon reads installed (`ReloadSupervisor`);
* deleting a resource that is not installed yet leaves its install job to install it without a
  row; the sync of the daemons inserts rows that were deleted meanwhile;
* superseding cancels rows, not jobs: a workflow that polls a cancelled row ends its run, and
  with it the token of the image, while the job may still have to pull it
  (`docker/services/application_service.go:727`);
* a removal that failed restores the status it had read, which may be building although the
  build has ended; the history of ten rows also drops deployments that are still queued.

Servers:

* a callback of the provisioning script that cannot write the status returns: progress is shown
  for ever and nobody cleans up; a `Failed` that cannot write it goes on to the cleanup;
* a deletion whose job fails in the database leaves the row deleting, and its TaskID taken;
* `connected` and the instance survive the cleanup; a cleanup still queued tears down a server
  that was retried meanwhile, even one that runs again;
* the cleanup dispatched by a failed wait leaves the TaskID of `wait_connect` archived: every
  later retry makes an instance, fails to dispatch the wait and leaves the instance behind;
* the host key of the first instance stays pinned, so that no later instance of the row is
  reachable;
* an instance made while the server is being deleted, or whose answer is lost with the worker,
  is known to nobody; overlapping retries make two; `UpdateServer` saves a deleted row again.

Backups and the hub:

* a backup that outlives its job's half hour cannot save its result, although its script has an
  hour; the runs a dead process leaves pending or running stay so;
* a client that asks again for a channel it has, while it is being removed, stays in the index;
  a connection that the hub took out of `register` during Shutdown may miss Shutdown's copy of
  the clients; a client whose buffer is full loses messages and is disconnected.

## Proofs

All theorems hold for any sets of actors and any bounds; the named assumptions on the constants
say only that bounds are numbers and names are distinct.  Four theorems have a further
hypothesis on what may fail, and without it TLC finds the property violated; it is named with
each of them.  Every invariant that a run checks is also proved, except `OneInFlight`.
None of them but the simplest is inductive as it stands.  What has to be added is stated at
the end of the component's module (for the queue and the verdicts of a site, beside the
properties) and was checked with TLC on the instances of the runs before it was proved.

`TaskRecoveryProofs`:

* `TypeCorrect`, `VerdictCorrect`, `NotificationCorrect`: `TypeOK`, `VerdictIsTheScripts` and
  `NotifiedAsRecorded` are invariants;
* `RunningHasAnOwner`: if the writes of rows succeed, `RunningIsOwned` is an invariant;
* `TerminalStays`: if callbacks return no errors, a terminal row is never rewritten;
* `Refinement`: if also the writes of rows succeed, the specification implements `TrackedTask`.

None of the first three invariants is inductive: a step that writes a row says nothing of who else
may be about to.  `IndInv` adds who that is (`OneWriter`: the runner, the recovery loop or a
re-monitor, never two), what the writer knows of the row (`RowIsKnown`), that the exit code is set
once (`CodeIsSetOnce`), and that whatever is in flight, a result in the channel or a callback that
is owed, already agrees with the script and with the row (`PendingVerdict`, `PendingCallback`,
`CallbackFollowsStatus`).  `NextInd` has a lemma for each group of actions and a step for each
action.  `RunningIsOwned` needs only `VisitHasSettled` besides (`WatchInv`): a recovery that is
about to call back has left a terminal row.  That is where the hypothesis comes in, for nobody
repeats a write of a row that failed.  The refinement maps `row`, `code` and `calls` to
themselves; every action of the detailed specification is one of the promise or a stutter.  Both
of its assumptions are needed: in recovery an error of `OnSuccess` makes a finished task fail.

`SiteDeploymentProofs`:

* `DeploymentTypes`: `TypeOK` is an invariant;
* `PromotionOrder`: the queue is served in the order of creation (`PromotedInOrder`);
* `FinishedCorrect`: if no session of a rollback breaks, `FinishedMeansSucceeded` is an
  invariant;
* `ActiveHasAnOwner`: `ActiveIsOwned` is an invariant, with every failure and any `Retention`.

`PromotedInOrder` speaks of the moment a promotion writes, which is not the moment it read.
`OrderInv` therefore says what stays true in between: the rows it found are not younger than
anything queued (`FoundIsOldest`), because whatever is created later is numbered after all
there is (`BornInOrder`) and nothing returns to the queue.  Every step but the insertion and
the promotion's write leaves the queue alone (`QueueKept`), so the argument is made once for
all of them.  `CallbackIsKnown` is what the type of a callback's status needs.  For
`FinishedCorrect` the invariant adds that a success on its way to the row, in the task, in a
callback or in the rollback job, is the script's (`SuccessIsEarned`).  Its assumption is
needed: a broken session has exit code 0, and the job looks at nothing else.

`ActiveIsOwned` fails to be inductive because an owner may leave for two reasons that nothing
in it excludes: another execution of the same deployment has taken over its TaskID, or a
promotion finds it while its request is still to enqueue it.  `OwnerInv` adds who holds a
TaskID and that executions of a row follow each other (`HoldsTaskID`), what the job, the task
and the callback of one execution know of each other (`JobKnowsTask`, `PromotesOnce`), that a
promotion is of a single row that no request has in hand (`FoundIsSingle`, `RequestIsFirst`),
and it takes the jobs that have written their last status out of the owners (`Owned`).  Almost
every step belongs to one execution and touches at most its own row and the rows it promotes;
`StepKeeps` makes the argument once for all of these, and each action only has to show that it
is such a step and that its execution keeps its own part (`RunOK`).

`ManagedResourceProofs`, for any number of resources, clients, requests and faults:

* `TypeCorrect`, `InstalledIsOnTheServer`, `RemovedIsOffTheServer`, `FailureStaysRecorded`,
  `IdleDaemonIsCurrent`: `TypeOK`, `InstalledIsPresent`, `CleanRemoval`, `FailureIsRecorded` and
  `InstalledIsCurrent` are invariants.

Rows, jobs and the server drift apart and meet again; `DriftInv` says how far.  An uninstall job
stands behind a row that says so (`UninstallIsShown`), hence what is installed stays until the
row shows otherwise (`InstallIsPresent`).  A daemon's install job works with the contents of the
row, or a request that changed them is about to ask for another (`InstallIsCurrent`).  A cron
job or a rule is installed once, before anybody can have read installed from its row
(`InstalledOnce`), which is why no install can come after its removal.  Between the two scripts
of a daemon's job the file is ahead of supervisor; without a job the two agree unless the last
reload failed (`LoadedIsCurrent`).  `OneByOne` splits the
invariant by resource, since no step touches two.

`DockerDeploymentProofs`, for any number of clients, runs, rows, requests and faults:

* `TypeCorrect`, `SuccessWasEarned`, `PendingHasAnOwner`, `BuildingHasAJob`,
  `DeletingHasARemoval`, `DeletedIsGone`: `TypeOK`, `SuccessIsEarned`, `PendingIsOnItsWay`,
  `BuildingIsOwned`, `DeletingIsOwned` and `CleanDelete` are invariants.

A deployment row is found by its number, by the run that built it or as the latest of the
workload, and those who found it act on it later.  `DeployInv` says that numbers and runs name
one row (`Numbered`, `OneRowPerRun`), that nobody else may enqueue what a request is about to
(`EnqueuedOnce`), and what a job knows of its script and, unless its write is `stranded`, of its
row (`JobsAreHonest`).  `PendingIsNamed` is
`PendingIsOnItsWay` without the run's own memory of its row, which a re-run forgets; the
deletion is followed by what it remembers of the status (`DeletionsRemember`) and by who may
still start a container (`TornIsFinal`).  The steps of requests, jobs, removals and runs each
have a frame of what they leave alone (`HostMoves`, `JobMoves`, `RunMoves`, `RowsSame`).

`WebSocketHubProofs`, for any set of connections and channels:

* `HubKeepsTypes`, `SafeSendIsSafe`, `NoClientStaysBehind`, `NothingIsSkipped`: `TypeOK`,
  `SendsOpen`, `NoGhost` and `NoSilentGap` are invariants.

`SendsOpen` follows from the lock.  `NoGhost` is the subtle one: Subscribe looks at the client
before it enters it in the index, and removeClient copies the client's own list of channels
before it empties the index.  `HubInv` says why one of the two always notices: a client the hub
no longer holds is closing (`GoneIsClosing`, `RemovalCloses`), whoever is about to enter the
index holds the mutex and is still held by the hub (`LockIsHeld`), a client's own list is ahead
of the index (`OwnsAsked`, `OwnsListed`), and so the copy covers what is there and what may
still come (`CopyCovers`).  The connection that has left no trace yet (`OutsideIsUnknown`) is
the base.  Clients in `again` are exempt, for the duplicate request breaks `NotYetListed`.

`NoSilentGap` balances what a client is due against its socket, its buffer and the hub's hands;
`GapInv` adds that what is on its way is an event (`EventsAreEvents`) and that a broadcast has
targets only while it sends (`TargetsAreSentTo`).  The balance disregards the replies in the
buffer, which `Events` filters out recursively.  What it does to a buffer that grows or shrinks
(`EventsOfAppend`, `EventsOfTail`) is proved by induction, in a form that speaks of sets only:
`LeastNumber`, from the well-foundedness of the numbers in the library, and `NumberInduction`.

`BackupsProofs`, for any number of requests, pollers, runs, minutes and faults:

* `BackupTypes`, `UploadCorrect`, `StartsOnce`, `WorksAlone`: `TypeOK`, `FinishedIsUploaded`,
  `StartedOnce` and `OneAtWork` are invariants;
* `EndStays`: a run that has ended is never rewritten (`EndedIsFinal`).

`RunInv` adds who knows a run and what he knows of it (`RequestKnows`, `PollerKnows`,
`PollersApart`: until a poller has enqueued a job its row is untouched, and no two pollers have
the same row), that a claim happens once because nothing makes a row pending again
(`ClaimedOnce`), that a success on its way to the row is the script's (`SuccessIsKnown`), and
that a TaskID made of the minute is held by one run at a time (`HeldOnce`), which is all that
keeps two runs of a minute apart.

`ServerLifecycleProofs`, for any number of requests, scripts, instances and faults:

* `LifeTypes`, `ProgressIsOwned`, `RunningCorrect`: `TypeOK`, `InProgressIsOwned` and
  `RunningIsBuilt` are invariants.

`InProgressIsOwned` is nearly inductive: with `RequestKnows` every step that makes the row show
progress also leaves a job of the chain at work or records why not.  `RunningIsBuilt` needs to
know that nobody exchanges the instance under a script, and nothing in the code says so: the
jobs of the chain have different TaskIDs.  `LifeInv` shows that they exclude each other all the
same as long as nothing has `Crossed`: the first two work only on a row that is neither
connected nor running (`CreateAlone`, `WaitAlone`), the third only on a connected one
(`ProvisionIsConnected`, `DispatchIsConnected`), a retry looks at `connected` to choose between
them and is the only one about to make an instance (`CreateOnce`), and a cleanup comes only
after the chain has left its first part (`CleanupComesLate`).  From that,
what is provisioned is the row's instance (`TargetIsInstance`, `ConnectedIsAddressed`).  The
part that holds only until two chains cross is proved apart (`Straight`), group of actions by
group of actions.

Only model-checked: the liveness properties (`RunningSettles`, `ActiveSettles`,
`UninstallSettles`, `DeleteHonoured`, `FailedIsRemoved`, `RunSettles`, `HandlerEnds`,
`ShutdownEndsAll`, `FeedIsFree`), which rest on fairness and are out of the prover's reach;
`OneInFlight`, which holds only while requests come one at a time, as in its run; and that the
runs find the two disagreements above.

## Not modelled

* Two workers at once, for tasks: `docker-compose.yml` runs one, and nothing in the code
  excludes a second from recovering the first one's tasks.  (`Backups` has any number of
  pollers and workers.)
* Failing database statements in the deployment code of sites (their jobs' `Failed` and callbacks
  only log some of them, as elsewhere), and a worker that is stopped in the middle of a site's
  deployment or of a task: asynq requeues its job, the models archive it.  Nor is `created_at`
  told apart from the order of insertion: the application takes it a moment earlier.  Deletion of
  the site or the server, the provider deployments and notifications.  A change of a site's
  settings while a deployment is under way.
* `ProcessNextQueued` of the deployment service and `CleanupPendingDeploymentJob`, which
  nothing calls.
* The moment between the check for a running server in `middleware/server_provisioned.go` and the
  read in `UpdateServer`, which are one step here: an update that was let through would have to
  wait there for a whole failure and retry of the server to save a row that shows progress.
* A remote script that goes on after its session: `ssh_client.go` sends it a signal when the
  context ends and returns at once.  Tracked tasks, which run in the background, do model it.
* The scripts: in particular the release directory that a rollback switches to, which
  `jobs/rollback.go` derives from `created_at` in another format than `jobs/deploy.go`.
* The configuration of Docker workloads (environment, volumes, domains, Traefik files),
  their databases and schedules, the bootstrap of a repository.
* The progress columns and markers of provisioning, keys, services and firewall rules that come
  with a server, and the refusal to delete a server that has Docker projects.
* Backups: the legacy payload without a row, the agent's webhook, which inserts ended rows,
  storage providers, and the install and delete jobs, which are stubs.
* Redis Pub/Sub between the publisher and the hub, which may lose events without notice.
* A `tail -f` that ends with status 0 before the marker; callbacks that get the context whose
  deadline made the task fail.
* Prepared tasks, load balancers, schedules, auth, teams, billing, certificates, DNS,
  databases, notifications and the HTTP layer.

The map covers a small share of the repository.  Most of the rest is request handlers, views
and script texts that keep no state of their own; what would be worth modelling is below.

## Plan

1. Prepared tasks: `Prepare`, `claimPreparedTask` and `FailPreparedTask` race for a pending
   row by conditional updates; `PatchPhpVersion` as their client.  Abstract specification: a
   prepared task is executed or failed, not both.
2. Load balancer health checks, as counters with thresholds and a configuration that follows.
3. Safety facts that the liveness properties rest on, as invariants or action properties of
   their own, with proofs; sharper exceptions for `ActiveIsOwned` and `PendingIsOnItsWay`.
4. Databases and certificates, which follow the shape of `ManagedResource`.
