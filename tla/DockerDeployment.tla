-------------------------- MODULE DockerDeployment --------------------------
(***************************************************************************)
(* One Docker workload (an application or a compose stack) of a server:    *)
(* its row, its deployment rows, its container on the host, the jobs that  *)
(* deploy, recreate, stop, start and remove it, the HTTP requests that     *)
(* dispatch them, and the GitHub Actions runs that build its image and     *)
(* notify Launch.                                                          *)
(*                                                                         *)
(* A row read by a request is acted upon in later statements; jobs of      *)
(* different TaskIDs run at once; nothing locks a row.  Deployments are    *)
(* numbered in the order of their creation; job d deploys deployment d and *)
(* job 0 recreates the container without a deployment.                     *)
(***************************************************************************)
EXTENDS Naturals, FiniteSets

CONSTANTS Kinds,         \* kinds of workload: "application", "compose"
          Builds,        \* where images are built: "server", "github_actions"
          Clients,       \* HTTP requests that may be in flight together
          Runs,          \* GitHub Actions runs
          MaxRows,       \* bound: deployments ever created
          HistoryLimit,  \* deployments kept per workload (10 in the code)
          MaxRequests,   \* bound: requests, pushes and re-runs
          MaxFaults      \* bound: crashes, refused enqueues, lost calls, failing
                         \* statements

ASSUME KindsAssumption == Kinds \subseteq {"application", "compose"}
ASSUME BuildsAssumption == Builds \subseteq {"server", "github_actions"}
ASSUME LimitsAssumption == HistoryLimit \in Nat \ {0} /\ MaxRows \in Nat \ {0}
ASSUME BoundsAssumption == MaxRequests \in Nat /\ MaxFaults \in Nat
ASSUME NoRunAssumption == "none" \notin Runs

VARIABLES kind,       \* the workload's kind; never changes
          build,      \* its build location; never changes
          app,        \* its row: status, live (not deleted), deployed (once)
          rows,       \* deployment rows
          container,  \* what runs on the host
          jobs,       \* deploy jobs and, under 0, the recreate job
          life,       \* the stop and the start job
          remove,     \* the remove job and its payload
          client,     \* the request each client serves
          run,        \* GitHub Actions runs
          requests, faults,  \* how many of each so far
          earned,     \* history: deployments whose script succeeded
          crashed,    \* history: jobs that were interrupted with their worker
          stranded,   \* history: rows whose last write failed or never came
          restored,   \* history: a deletion that failed restored "building"
          swallowed,  \* history: a removal was refused by its TaskID
          overlap,    \* history: a job deployed while the removal worked
          torn        \* history: a removal took the container away

work == <<jobs, life, remove, client, run>>
history == <<earned, crashed, stranded, restored, swallowed, overlap, torn>>
vars == <<kind, build, app, rows, container, jobs, life, remove, client, run,
          requests, faults, earned, crashed, stranded, restored, swallowed, overlap,
          torn>>

Ids      == 1..MaxRows
Statuses == {"idle", "building", "running", "stopped", "failed", "deleting"}
InFlight == {"pending", "building", "deploying"}
NoRun    == "none"
Actions  == {"stop", "start"}

(* In crashed, 0 is the recreate job; in stranded it is the workload.  The *)
(* removal has the number RemoveJob in both.                               *)
RemoveJob == MaxRows + 1

JobStates    == {"none", "queued", "loaded", "marked", "running", "ok", "bad",
                 "okrow", "badrow", "failing", "archived"}
Deploying    == {"loaded", "marked", "running"}
Active       == JobStates \ {"none", "archived"}
RunStates    == {"none", "queued", "building", "found", "written", "waiting",
                 "failing", "failfound", "ended"}

TypeOK ==
  /\ kind \in Kinds /\ build \in Builds
  /\ app \in [status: Statuses, live: BOOLEAN, deployed: BOOLEAN]
  /\ rows \in [Ids -> [st: {"none", "gone", "pending", "deploying", "success",
                            "failed", "cancelled"}, run: Runs \cup {NoRun}]]
  /\ container \in {"absent", "up", "stopped"}
  /\ jobs \in [0..MaxRows -> JobStates]
  /\ life \in [Actions -> {"none", "queued", "ok", "archived"}]
  /\ remove \in [st: {"none", "queued", "ran", "failing", "archived"},
                 prev: Statuses, had: BOOLEAN]
  /\ client \in [Clients -> [op: {"idle", "supersede", "create", "placeholder", "enqueue",
                    "giveup", "reload", "stop", "start", "mark", "delete", "remove",
                    "restore"},
                    d: 0..MaxRows, prev: Statuses, had: BOOLEAN]]
  /\ run \in [Runs -> [st: RunStates, d: 0..MaxRows]]
  /\ requests \in 0..MaxRequests /\ faults \in 0..MaxFaults
  /\ earned \subseteq Ids /\ crashed \subseteq 0..RemoveJob /\ stranded \subseteq 0..RemoveJob
  /\ restored \in BOOLEAN /\ swallowed \in BOOLEAN /\ overlap \in BOOLEAN /\ torn \in BOOLEAN

-----------------------------------------------------------------------------
(* Rows.                                                                   *)

HasRow(d) == d # 0 /\ rows[d].st \notin {"none", "gone"}

(* UpdateFields and UpdateStatus change nothing when the row is gone; a    *)
(* workload that is soft-deleted is gone for them.                         *)
SetRow(d, st) == rows' = IF HasRow(d) THEN [rows EXCEPT ![d].st = st] ELSE rows
SetStatus(st) == app' = IF app.live THEN [app EXCEPT !.status = st] ELSE app

NextId == 1 + Cardinality({d \in Ids : rows[d].st # "none"})

(* Create inserts the row and prunes all but the newest HistoryLimit, in   *)
(* one transaction and whatever their status.                              *)
Create(st, r) ==
  LET n == NextId
      all == [rows EXCEPT ![n] = [st |-> st, run |-> r]]
      kept(d) == Cardinality({x \in d + 1..n : all[x].st # "gone"}) < HistoryLimit
  IN /\ n \in Ids
     /\ rows' = [d \in Ids |->
          IF d > n \/ kept(d) THEN all[d] ELSE [st |-> "gone", run |-> NoRun]]

(* Mutant of Supersede. *)
SupersedePending ==
  rows' = [d \in Ids |-> IF rows[d].st = "deploying"
                         THEN [rows[d] EXCEPT !.st = "cancelled"] ELSE rows[d]]

Supersede ==
  rows' = [d \in Ids |-> IF rows[d].st \in InFlight
                         THEN [rows[d] EXCEPT !.st = "cancelled"] ELSE rows[d]]

-----------------------------------------------------------------------------
Init ==
  /\ kind \in Kinds /\ build \in Builds
  /\ app = [status |-> "idle", live |-> TRUE, deployed |-> FALSE]
  /\ rows = [d \in Ids |-> [st |-> "none", run |-> NoRun]]
  /\ container = "absent"
  /\ jobs = [d \in 0..MaxRows |-> "none"]
  /\ life = [a \in Actions |-> "none"]
  /\ remove = [st |-> "none", prev |-> "idle", had |-> FALSE]
  /\ client = [c \in Clients |-> [op |-> "idle", d |-> 0, prev |-> "idle", had |-> FALSE]]
  /\ run = [r \in Runs |-> [st |-> "none", d |-> 0]]
  /\ requests = 0 /\ faults = 0 /\ earned = {} /\ crashed = {} /\ stranded = {}
  /\ restored = FALSE /\ swallowed = FALSE /\ overlap = FALSE /\ torn = FALSE

Request == requests < MaxRequests /\ requests' = requests + 1
Fault   == faults < MaxFaults /\ faults' = faults + 1

(* A write that is the last one to a row goes through, or fails: that is   *)
(* only logged, and what it was about is stranded.                         *)
Written  == UNCHANGED <<faults, stranded>>
Lost(ds) == Fault /\ stranded' = stranded \cup ds

Idle(c)   == client[c].op = "idle"
Answer(c) == client' = [client EXCEPT ![c] =
                          [op |-> "idle", d |-> 0, prev |-> "idle", had |-> FALSE]]
Then(c, op) == client' = [client EXCEPT ![c].op = op]
Fixed == UNCHANGED <<kind, build>>

-----------------------------------------------------------------------------
(* Requests.  Each first reads the workload's row, which must be live.     *)

(* Deploy refuses a workload that reads building ...                       *)
Deploy(c) ==
  /\ Idle(c) /\ app.live /\ app.status # "building" /\ Request
  /\ Then(c, "supersede")
  /\ UNCHANGED <<app, rows, container, jobs, life, remove, run, faults, history>> /\ Fixed

(* ... cancels what is in flight, whether or not its job runs (should the  *)
(* UPDATE fail, that is only logged) ...                                   *)
DeploySupersedes(c) ==
  /\ client[c].op = "supersede"
  /\ \/ Supersede /\ UNCHANGED faults
     \/ Fault /\ UNCHANGED rows
  /\ Then(c, "create")
  /\ UNCHANGED <<app, container, jobs, life, remove, run, requests, history>> /\ Fixed

(* ... and inserts a row.  With GitHub Actions a workflow was dispatched   *)
(* just before (or the request ended with its error) and the row is a      *)
(* placeholder without a run.                                              *)
DeployCreates(c) ==
  /\ client[c].op = "create" /\ build = "server"
  /\ Create("pending", NoRun)
  /\ client' = [client EXCEPT ![c].op = "enqueue", ![c].d = NextId]
  /\ UNCHANGED <<app, container, jobs, life, remove, run, requests, faults, history>> /\ Fixed

DispatchWorkflow(c) ==
  /\ client[c].op = "create" /\ build = "github_actions"
  /\ \/ \E r \in Runs : /\ run[r].st = "none"
                        /\ run' = [run EXCEPT ![r].st = "queued"]
                        /\ Then(c, "placeholder")
     \/ Answer(c) /\ UNCHANGED run
  /\ UNCHANGED <<app, rows, container, jobs, life, remove, requests, faults, history>> /\ Fixed

CreatePlaceholder(c) ==
  /\ client[c].op = "placeholder"
  /\ Create("pending", NoRun)
  /\ Answer(c)
  /\ UNCHANGED <<app, container, jobs, life, remove, run, requests, faults, history>> /\ Fixed

(* The job is enqueued.  When that is refused ...                          *)
DeployEnqueues(c) ==
  /\ client[c].op = "enqueue"
  /\ \/ /\ jobs' = [jobs EXCEPT ![client[c].d] = IF @ = "none" THEN "queued" ELSE @]
        /\ Answer(c) /\ UNCHANGED faults
     \/ Fault /\ Then(c, "giveup") /\ UNCHANGED jobs
  /\ UNCHANGED <<app, rows, container, life, remove, run, requests, history>> /\ Fixed

GiveUpOnly == UNCHANGED <<app, container, jobs, life, remove, run, requests, earned, crashed,
                          restored, swallowed, overlap, torn>> /\ Fixed

(* Mutant of DeployGivesUp. *)
DeployGivesUpLeaks(c) ==
  /\ client[c].op = "giveup"
  /\ UNCHANGED rows /\ Written
  /\ Answer(c) /\ GiveUpOnly

(* ... the row is marked failed, which may fail too.                       *)
DeployGivesUp(c) ==
  /\ client[c].op = "giveup"
  /\ \/ SetRow(client[c].d, "failed") /\ Written
     \/ UNCHANGED rows /\ Lost({client[c].d})
  /\ Answer(c) /\ GiveUpOnly

(* Restart of an application and Reload of a stack recreate the container  *)
(* as it is, with the current environment; only Reload looks at building.  *)
recreateApplication(c) ==
  /\ Idle(c) /\ kind = "application" /\ app.live /\ app.deployed /\ Request
  /\ Then(c, "reload")
  /\ UNCHANGED <<app, rows, container, jobs, life, remove, run, faults, history>> /\ Fixed

Reload(c) ==
  /\ Idle(c) /\ kind = "compose" /\ app.live /\ app.deployed /\ Request
  /\ app.status # "building"
  /\ Then(c, "reload")
  /\ UNCHANGED <<app, rows, container, jobs, life, remove, run, faults, history>> /\ Fixed

Lifecycle(c, action) ==
  /\ Idle(c) /\ kind = "application" /\ app.live /\ app.deployed /\ Request
  /\ Then(c, action)
  /\ UNCHANGED <<app, rows, container, jobs, life, remove, run, faults, history>> /\ Fixed

(* EnqueueTask: a TaskID that is taken counts as success.                  *)
DispatchAction(c) ==
  /\ client[c].op \in {"reload", "stop", "start"}
  /\ LET a == client[c].op
     IN \/ /\ a = "reload"
           /\ jobs' = [jobs EXCEPT ![0] = IF @ = "none" THEN "queued" ELSE @]
           /\ UNCHANGED life
        \/ /\ a # "reload"
           /\ life' = [life EXCEPT ![a] = IF @ = "none" THEN "queued" ELSE @]
           /\ UNCHANGED jobs
  /\ Answer(c)
  /\ UNCHANGED <<app, rows, container, remove, run, requests, faults, history>> /\ Fixed

(* A deletion remembers the status and whether there is a container.  An   *)
(* application that reads deleting is refused and else marked deleting; a  *)
(* stack is soft-deleted at once.                                          *)
Delete(c) ==
  /\ Idle(c) /\ app.live /\ Request
  /\ kind = "application" => app.status # "deleting"
  /\ client' = [client EXCEPT ![c] =
       [op |-> IF kind = "application" THEN "mark" ELSE "delete", d |-> 0,
        prev |-> app.status, had |-> app.deployed]]
  /\ UNCHANGED <<app, rows, container, jobs, life, remove, run, faults, history>> /\ Fixed

DeleteApplicationMarks(c) ==
  /\ client[c].op = "mark"
  /\ SetStatus("deleting")
  /\ Then(c, "remove")
  /\ UNCHANGED <<rows, container, jobs, life, remove, run, requests, faults, history>> /\ Fixed

DeleteCompose(c) ==
  /\ client[c].op = "delete"
  /\ app' = [app EXCEPT !.live = FALSE]
  /\ Then(c, "remove")
  /\ UNCHANGED <<rows, container, jobs, life, remove, run, requests, faults, history>> /\ Fixed

(* The removal is enqueued.  A TaskID that is taken counts as success; a   *)
(* refusal is only logged for a stack, and an application ...              *)
DeleteEnqueues(c) ==
  /\ client[c].op = "remove"
  /\ \/ /\ remove.st = "none"
        /\ remove' = [st |-> "queued", prev |-> client[c].prev, had |-> client[c].had]
        /\ Answer(c) /\ UNCHANGED <<faults, swallowed>>
     \/ /\ remove.st # "none" /\ swallowed' = TRUE
        /\ Answer(c) /\ UNCHANGED <<remove, faults>>
     \/ /\ Fault
        /\ IF kind = "application" THEN Then(c, "restore") ELSE Answer(c)
        /\ UNCHANGED <<remove, swallowed>>
  /\ UNCHANGED <<app, rows, container, jobs, life, run, requests, earned, crashed, stranded,
                 restored, overlap, torn>> /\ Fixed

RestoreOnly == UNCHANGED <<rows, container, jobs, life, remove, run, requests, earned, crashed,
                           swallowed, overlap, torn>> /\ Fixed

(* Mutant of DeleteRestores. *)
DeleteRestoresNothing(c) ==
  /\ client[c].op = "restore"
  /\ UNCHANGED <<app, restored>> /\ Written
  /\ Answer(c) /\ RestoreOnly

(* ... gets its status back, unless that fails too.                        *)
DeleteRestores(c) ==
  /\ client[c].op = "restore"
  /\ \/ /\ SetStatus(client[c].prev) /\ Written
        /\ restored' = (restored \/ client[c].prev = "building")
     \/ UNCHANGED <<app, restored>> /\ Lost({RemoveJob})
  /\ Answer(c) /\ RestoreOnly

(* A request ends where it is: the process dies, or a statement fails and  *)
(* the request answers with its error.  What it had begun stays.           *)
ClientStops(c) ==
  /\ ~Idle(c)
  /\ Lost(CASE client[c].op \in {"enqueue", "giveup"} -> {client[c].d}
            [] client[c].op \in {"remove", "restore"} -> {RemoveJob}
            [] OTHER -> {})
  /\ Answer(c)
  /\ UNCHANGED <<app, rows, container, jobs, life, remove, run, requests, earned, crashed,
                 restored, swallowed, overlap, torn>> /\ Fixed

(* A deployment row may be deleted at any time.                            *)
DeleteDeployment(d) ==
  /\ app.live /\ HasRow(d) /\ Request
  /\ rows' = [rows EXCEPT ![d] = [st |-> "gone", run |-> NoRun]]
  /\ UNCHANGED <<app, container, work, faults, history>> /\ Fixed

-----------------------------------------------------------------------------
(* The worker.  Several jobs run at once and none is retried.              *)

SetJob(d, st) == jobs' = [jobs EXCEPT ![d] = st]

StartOnly == UNCHANGED <<app, rows, container, life, remove, client, run, requests,
                         earned, crashed, stranded, restored, swallowed, torn>> /\ Fixed

(* Mutant of StartJob. *)
StartJobUnchecked(d) ==
  /\ jobs[d] = "queued"
  /\ SetJob(d, IF d = 0 \/ HasRow(d) THEN "loaded" ELSE "failing")
  /\ overlap' = (overlap \/ (jobs'[d] = "loaded" /\ remove.st = "ran"))
  /\ UNCHANGED faults /\ StartOnly

(* Handle loads the deployment and the workload, which may fail.  A job of *)
(* a GitHub run gives up when the token it pulls with has expired.         *)
StartJob(d) ==
  /\ jobs[d] = "queued"
  /\ LET found == app.live /\ (d = 0 \/ HasRow(d))
     IN \/ /\ found
           /\ SetJob(d, "loaded")
           /\ overlap' = (overlap \/ remove.st = "ran")
           /\ UNCHANGED faults
        \/ /\ found /\ d # 0 /\ build = "github_actions"
           /\ SetJob(d, "bad")
           /\ UNCHANGED <<overlap, faults>>
        \/ /\ IF found THEN Fault ELSE UNCHANGED faults
           /\ SetJob(d, "failing")
           /\ UNCHANGED overlap
  /\ StartOnly

JobOnly == UNCHANGED <<container, life, remove, client, run, requests, earned,
                       crashed, restored, swallowed, overlap, torn>> /\ Fixed

(* Failed marks the deployment; the workload keeps its status.             *)
FailJob(d) ==
  /\ jobs[d] = "failing"
  /\ \/ SetRow(d, "failed") /\ Written
     \/ UNCHANGED rows /\ Lost({d} \cap Ids)
  /\ SetJob(d, "archived")
  /\ UNCHANGED app /\ JobOnly

(* Neither mark stops the job when its UPDATE fails.                       *)
MarkDeploying(d) ==
  /\ jobs[d] = "loaded"
  /\ \/ SetRow(d, "deploying") /\ Written
     \/ UNCHANGED rows /\ Lost({})
  /\ SetJob(d, "marked")
  /\ UNCHANGED app /\ JobOnly

MarkBuilding(d) ==
  /\ jobs[d] = "marked"
  /\ \/ SetStatus("building") /\ Written
     \/ UNCHANGED app /\ Lost({})
  /\ SetJob(d, "running")
  /\ UNCHANGED rows /\ JobOnly

ScriptOnly == UNCHANGED <<app, rows, life, remove, client, run, requests, faults, crashed,
                          stranded, restored, swallowed, overlap, torn>> /\ Fixed

(* Mutant of RunScript. *)
RunScriptUnchecked(d) ==
  /\ jobs[d] = "running"
  /\ \E ok \in BOOLEAN, c \in {container, "absent", "up"} :
       /\ ok => c = "up"
       /\ container' = c
       /\ SetJob(d, "ok")
       /\ earned' = IF ok THEN earned \cup ({d} \cap Ids) ELSE earned
  /\ ScriptOnly

(* The script replaces the container.  One that fails, or whose connection *)
(* does, leaves the old one, none, or the new one.                         *)
RunScript(d) ==
  /\ jobs[d] = "running"
  /\ \E ok \in BOOLEAN, c \in {container, "absent", "up"} :
       /\ ok => c = "up"
       /\ container' = c
       /\ SetJob(d, IF ok THEN "ok" ELSE "bad")
       /\ earned' = IF ok THEN earned \cup ({d} \cap Ids) ELSE earned
  /\ ScriptOnly

(* handleSuccess and handleFailure write the deployment ...                *)
RecordRow(d) ==
  /\ \E st \in {"ok", "bad"} :
       /\ jobs[d] = st
       /\ \/ SetRow(d, IF st = "ok" THEN "success" ELSE "failed") /\ Written
          \/ UNCHANGED rows /\ Lost({d} \cap Ids)
       /\ SetJob(d, IF st = "ok" THEN "okrow" ELSE "badrow")
  /\ UNCHANGED app /\ JobOnly

Recorded(st) ==
  app' = IF ~app.live THEN app
         ELSE IF st = "badrow" THEN [app EXCEPT !.status = "failed"]
         ELSE [app EXCEPT !.status = "running", !.deployed = TRUE]

(* Mutant of RecordApp. *)
RecordAppSuccessOnly(d) ==
  /\ \/ jobs[d] = "okrow" /\ Recorded("okrow")
     \/ jobs[d] = "badrow" /\ UNCHANGED app
  /\ Written
  /\ SetJob(d, "none")
  /\ UNCHANGED rows /\ JobOnly

(* ... and then the workload, whatever its status has become; an UPDATE    *)
(* that fails is only logged.  The job ends well either way: its TaskID is *)
(* free again.                                                             *)
RecordApp(d) ==
  /\ jobs[d] \in {"okrow", "badrow"}
  /\ \/ Recorded(jobs[d]) /\ Written
     \/ UNCHANGED app /\ Lost({0})
  /\ SetJob(d, "none")
  /\ UNCHANGED rows /\ JobOnly

(* The process dies: the script may have replaced the container, no Failed *)
(* is called and the queue archives the task.  A worker that is stopped    *)
(* requeues it.  A job that outlives its half hour is archived as well and *)
(* none of its writes goes through: that is the same.                      *)
WorkerDies(d) ==
  /\ jobs[d] \in Active \ {"queued"} /\ Fault
  /\ container' \in IF jobs[d] = "running" THEN {container, "absent", "up"} ELSE {container}
  /\ \E st \in {"archived", "queued"} : SetJob(d, st)
  /\ crashed' = crashed \cup {d}
  /\ UNCHANGED <<app, rows, life, remove, client, run, requests, stranded,
                 earned, restored, swallowed, overlap, torn>> /\ Fixed

(* Stop and start: without a container the script exits 0.  A job that     *)
(* fails, be it only in its UPDATE, is archived and broadcasts.            *)
RunLifecycle(a) ==
  /\ life[a] = "queued"
  /\ \/ /\ container' = IF container = "absent" THEN container
                         ELSE IF a = "stop" THEN "stopped" ELSE "up"
        /\ life' = [life EXCEPT ![a] = "ok"]
     \/ life' = [life EXCEPT ![a] = "archived"] /\ UNCHANGED container
  /\ UNCHANGED <<app, rows, jobs, remove, client, run, requests, faults, history>> /\ Fixed

(* Mutant of RecordLifecycle. *)
RecordLifecyclePending(a) ==
  /\ life[a] = "ok"
  /\ SetStatus(IF a = "stop" THEN "stopping" ELSE "starting")
  /\ life' = [life EXCEPT ![a] = "none"]
  /\ UNCHANGED <<rows, container, jobs, remove, client, run, requests, faults, history>> /\ Fixed

RecordLifecycle(a) ==
  /\ life[a] = "ok"
  /\ \/ /\ SetStatus(IF a = "stop" THEN "stopped" ELSE "running")
        /\ life' = [life EXCEPT ![a] = "none"]
        /\ UNCHANGED faults
     \/ Fault /\ life' = [life EXCEPT ![a] = "archived"] /\ UNCHANGED app
  /\ UNCHANGED <<rows, container, jobs, remove, client, run, requests, history>> /\ Fixed

RemoveOnly == UNCHANGED <<rows, jobs, life, client, run, requests, earned, swallowed>> /\ Fixed

(* The removal script stops and removes what is there and goes on when it  *)
(* cannot; its exit code is only logged.  A workload that was never        *)
(* deployed has no script.  A broken connection fails the job.             *)
RunRemove ==
  /\ remove.st = "queued"
  /\ \/ /\ remove' = [remove EXCEPT !.st = "ran"]  \* no script, or it left it
        /\ UNCHANGED <<container, torn, overlap>>
     \/ /\ remove.had
        /\ remove' = [remove EXCEPT !.st = "ran"]
        /\ container' = "absent" /\ torn' = TRUE
        /\ overlap' = (overlap \/ \E d \in 0..MaxRows : jobs[d] \in Deploying)
     \/ /\ remove.had
        /\ remove' = [remove EXCEPT !.st = "failing"]
        /\ container' \in {container, "absent"}
        /\ UNCHANGED <<torn, overlap>>
  /\ UNCHANGED <<app, faults, crashed, stranded, restored>> /\ RemoveOnly

(* finaliseDelete soft-deletes the application; an error of the database   *)
(* fails the job.  A stack already is deleted.                             *)
finaliseDelete ==
  /\ remove.st = "ran" /\ kind = "application"
  /\ \/ /\ app' = [app EXCEPT !.live = FALSE]
        /\ remove' = [remove EXCEPT !.st = "none"]
        /\ UNCHANGED faults
     \/ /\ Fault
        /\ remove' = [remove EXCEPT !.st = "failing"]
        /\ UNCHANGED app
  /\ UNCHANGED <<container, crashed, stranded, restored, overlap, torn>> /\ RemoveOnly

RemoveComposeEnds ==
  /\ remove.st = "ran" /\ kind = "compose"
  /\ remove' = [remove EXCEPT !.st = "none"]
  /\ UNCHANGED <<app, container, faults, crashed, stranded, restored, overlap, torn>>
  /\ RemoveOnly

(* Failed gives an application the status it had, unless that fails, and   *)
(* only logs for a stack; the task is archived and keeps its TaskID.       *)
RemoveApplicationFailed ==
  /\ remove.st = "failing" /\ kind = "application"
  /\ \/ /\ SetStatus(remove.prev) /\ Written
        /\ restored' = (restored \/ remove.prev = "building")
     \/ UNCHANGED <<app, restored>> /\ Lost({RemoveJob})
  /\ remove' = [remove EXCEPT !.st = "archived"]
  /\ UNCHANGED <<container, crashed, overlap, torn>> /\ RemoveOnly

RemoveComposeFailed ==
  /\ remove.st = "failing" /\ kind = "compose"
  /\ remove' = [remove EXCEPT !.st = "archived"]
  /\ UNCHANGED <<app, container, faults, crashed, stranded, restored, overlap, torn>>
  /\ RemoveOnly

(* As WorkerDies.  A removal that is taken again works on what it finds.   *)
RemoveDies ==
  /\ remove.st \in {"ran", "failing"} /\ Fault
  /\ \/ /\ remove' = [remove EXCEPT !.st = "archived"]
        /\ crashed' = crashed \cup {RemoveJob}
        /\ UNCHANGED torn
     \/ /\ remove' = [remove EXCEPT !.st = "queued"]
        /\ torn' = FALSE
        /\ UNCHANGED crashed
  /\ UNCHANGED <<app, container, stranded, restored, overlap>> /\ RemoveOnly

-----------------------------------------------------------------------------
(* A GitHub Actions run: it builds, notifies Launch of its image, polls    *)
(* the deployment it was answered until that is terminal, and notifies a   *)
(* failure when a step failed.  The concurrency group lets one run work    *)
(* at a time.                                                              *)

RunStep(r, st) == run' = [run EXCEPT ![r].st = st]
RunOnly == UNCHANGED <<app, container, life, remove, client, history>> /\ Fixed

Push(r) ==
  /\ build = "github_actions" /\ run[r].st = "none" /\ Request
  /\ RunStep(r, "queued")
  /\ UNCHANGED <<rows, jobs, faults>> /\ RunOnly

(* "Re-run" keeps the run's id.                                            *)
Rerun(r) ==
  /\ run[r].st = "ended" /\ Request
  /\ RunStep(r, "queued")
  /\ UNCHANGED <<rows, jobs, faults>> /\ RunOnly

StartRun(r) ==
  /\ run[r].st = "queued"
  /\ \A q \in Runs : run[q].st \in {"none", "queued", "ended"}
  /\ RunStep(r, "building")
  /\ UNCHANGED <<rows, jobs, requests, faults>> /\ RunOnly

(* A run cancelled on GitHub notifies nobody.                              *)
CancelRun(r) ==
  /\ run[r].st \in {"queued", "building", "waiting"} /\ Fault
  /\ RunStep(r, "ended")
  /\ UNCHANGED <<rows, jobs, requests>> /\ RunOnly

(* The row a notification is about: the run's own, else the newest pending *)
(* placeholder, which it claims, else none.                                *)
RowsOf(r) == {d \in Ids : rows[d].run = r}
Placeholders == {d \in Ids : rows[d].st = "pending" /\ rows[d].run = NoRun}
claimGHAPlaceholder ==
  IF Placeholders = {} THEN 0
  ELSE CHOOSE d \in Placeholders : \A x \in Placeholders : x <= d
RowFor(r) == IF RowsOf(r) # {} THEN CHOOSE d \in RowsOf(r) : TRUE
             ELSE claimGHAPlaceholder

(* GHAApplicationDeploy and GHAComposeDeploy find the workload and a row,  *)
BuildEnds(r) ==
  /\ run[r].st = "building"
  /\ run' = [run EXCEPT ![r] =
       IF app.live THEN [st |-> "found", d |-> RowFor(r)] ELSE [st |-> "failing", d |-> 0]]
  /\ UNCHANGED <<rows, jobs, requests, faults>> /\ RunOnly

BuildFails(r) ==
  /\ run[r].st = "building"
  /\ RunStep(r, "failing")
  /\ UNCHANGED <<rows, jobs, requests, faults>> /\ RunOnly

(* write it (a row keeps its status, a new one is pending), ...            *)
upsertGHADeployment(r) ==
  /\ run[r].st = "found"
  /\ LET d == run[r].d
     IN \/ /\ d = 0
           /\ Create("pending", r)
           /\ run' = [run EXCEPT ![r] = [st |-> "written", d |-> NextId]]
           /\ UNCHANGED faults
        \/ /\ d # 0
           /\ rows' = IF HasRow(d) THEN [rows EXCEPT ![d].run = r] ELSE rows
           /\ RunStep(r, "written")
           /\ UNCHANGED faults
        \/ Fault /\ RunStep(r, "failing") /\ UNCHANGED rows
  /\ UNCHANGED <<jobs, requests>> /\ RunOnly

(* and enqueue the deployment.  Here a TaskID that is taken is an error.   *)
enqueueApplicationDeploy(r) ==
  /\ run[r].st = "written"
  /\ LET d == run[r].d
     IN \/ /\ jobs[d] = "none"
           /\ SetJob(d, "queued") /\ RunStep(r, "waiting")
           /\ UNCHANGED faults
        \/ /\ jobs[d] # "none"
           /\ RunStep(r, "failing")
           /\ UNCHANGED <<jobs, faults>>
        \/ /\ Fault
           /\ RunStep(r, "failing")
           /\ UNCHANGED jobs
  /\ UNCHANGED <<rows, requests>> /\ RunOnly

(* "Wait for Launch deploy to finish" reads the row's status.              *)
deploymentStatus(r) ==
  /\ run[r].st = "waiting"
  /\ LET d == run[r].d
     IN IF app.live /\ rows[d].st = "success" THEN RunStep(r, "ended")
        ELSE /\ ~app.live \/ ~HasRow(d) \/ rows[d].st \in {"failed", "cancelled"}
             /\ RunStep(r, "failing")
  /\ UNCHANGED <<rows, jobs, requests, faults>> /\ RunOnly

(* After 20 minutes, or ten polls that fail, the step fails.               *)
WaitGivesUp(r) ==
  /\ run[r].st = "waiting" /\ Fault
  /\ RunStep(r, "failing")
  /\ UNCHANGED <<rows, jobs, requests>> /\ RunOnly

NotifyOnly == UNCHANGED <<app, jobs, container, life, remove, client, requests, earned,
                          crashed, restored, swallowed, overlap, torn>> /\ Fixed

(* GHAApplicationStatus, which is called once and may not arrive, finds a  *)
(* row in the same way ...                                                 *)
GHAApplicationStatus(r) ==
  /\ run[r].st = "failing"
  /\ \/ /\ app.live
        /\ run' = [run EXCEPT ![r] = [st |-> "failfound", d |-> RowFor(r)]]
        /\ Written
     \/ ~app.live /\ RunStep(r, "ended") /\ Written
     \/ RunStep(r, "ended") /\ Lost(RowsOf(r))
  /\ UNCHANGED rows /\ NotifyOnly

(* ... and marks it failed, whatever its status and its job's.             *)
markGHADeploymentFailed(r) ==
  /\ run[r].st = "failfound"
  /\ LET d == run[r].d
     IN \/ d = 0 /\ Create("failed", r) /\ Written
        \/ /\ d # 0 /\ Written
           /\ rows' = IF HasRow(d) THEN [rows EXCEPT ![d] = [st |-> "failed", run |-> r]]
                                   ELSE rows
        \/ UNCHANGED rows /\ Lost(RowsOf(r))
  /\ RunStep(r, "ended")
  /\ NotifyOnly

-----------------------------------------------------------------------------
JobStep(d) == StartJob(d) \/ FailJob(d) \/ MarkDeploying(d) \/ MarkBuilding(d)
              \/ RunScript(d) \/ RecordRow(d) \/ RecordApp(d)
RemoveStep == RunRemove \/ finaliseDelete \/ RemoveComposeEnds
              \/ RemoveApplicationFailed \/ RemoveComposeFailed
ClientStep(c) ==
  \/ DeploySupersedes(c) \/ DeployCreates(c) \/ DispatchWorkflow(c)
  \/ CreatePlaceholder(c) \/ DeployEnqueues(c) \/ DeployGivesUp(c)
  \/ DispatchAction(c) \/ DeleteApplicationMarks(c) \/ DeleteCompose(c)
  \/ DeleteEnqueues(c) \/ DeleteRestores(c) \/ ClientStops(c)
NotifyStep(r) == upsertGHADeployment(r) \/ enqueueApplicationDeploy(r)
                 \/ GHAApplicationStatus(r) \/ markGHADeploymentFailed(r)

Next ==
  \/ \E c \in Clients : Deploy(c) \/ recreateApplication(c) \/ Reload(c) \/ Delete(c) \/ ClientStep(c)
  \/ \E c \in Clients, a \in Actions : Lifecycle(c, a)
  \/ \E d \in Ids : DeleteDeployment(d)
  \/ \E d \in 0..MaxRows : JobStep(d) \/ WorkerDies(d)
  \/ \E a \in Actions : RunLifecycle(a) \/ RecordLifecycle(a)
  \/ RemoveStep \/ RemoveDies
  \/ \E r \in Runs : Push(r) \/ Rerun(r) \/ StartRun(r) \/ CancelRun(r) \/ BuildEnds(r)
                    \/ BuildFails(r) \/ deploymentStatus(r) \/ WaitGivesUp(r) \/ NotifyStep(r)

Spec == Init /\ [][Next]_vars

-----------------------------------------------------------------------------
(* Properties.                                                             *)

(* A deployment reads success only when the script of that very deployment *)
(* succeeded, whatever was superseded, claimed, re-run or overtaken.       *)
SuccessIsEarned == \A d \in Ids : rows[d].st = "success" => d \in earned

(* A deployment that reads in flight has somebody who will end it: a job,  *)
(* or a handler on its way to enqueue it or to mark it failed.  Excepted   *)
(* are the rows whose job was interrupted with its worker, and those whose *)
(* last write failed or whose last writer died or was not reached: the     *)
(* code only logs that and nothing sweeps such rows.                       *)
PendingIsOnItsWay ==
  \A d \in Ids \ (crashed \cup stranded) :
    /\ app.live /\ rows[d].st \in InFlight
    /\ build = "server" \/ rows[d].run # NoRun
    => \/ jobs[d] \in Active
       \/ \E c \in Clients : client[c].op \in {"enqueue", "giveup"} /\ client[c].d = d
       \/ \E r \in Runs : /\ run[r].st \in {"written", "failing", "failfound"}
                          /\ rows[d].run = r \/ run[r].d = d

(* A workload that reads building, and so refuses deployments, has a job   *)
(* that will write another status.  Excepted are an interrupted job, a     *)
(* job whose last UPDATE of the workload failed, and a deletion that gave  *)
(* it back the status of a job that has meanwhile ended.                   *)
BuildingIsOwned ==
  /\ app.live /\ app.status = "building"
  /\ crashed = {} /\ 0 \notin stranded /\ ~restored
  => \E d \in 0..MaxRows : jobs[d] \in {"running", "ok", "bad", "okrow", "badrow"}

(* A workload whose removal took its container away leaves nothing on the  *)
(* host, unless a deployment was at work at that very time.                *)
CleanDelete == ~app.live /\ torn /\ ~overlap => container = "absent"

(* An application that reads deleting, and so refuses another deletion,    *)
(* has a request or a job that will end it.  Excepted are a removal that   *)
(* died with its worker, a request that stopped before it had enqueued it, *)
(* a revert that failed, and a removal refused by its TaskID.              *)
DeletingIsOwned ==
  /\ app.live /\ app.status = "deleting"
  /\ RemoveJob \notin crashed \cup stranded /\ ~swallowed
  => \/ remove.st \in {"queued", "ran", "failing"}
     \/ \E c \in Clients : client[c].op \in {"remove", "restore"}

-----------------------------------------------------------------------------
(* The inductive invariant behind the safety properties.                   *)

(* Deployments are numbered without a gap, and what names one names one    *)
(* that was created.                                                       *)
Numbered ==
  /\ \E k \in 0..MaxRows : \A d \in Ids : rows[d].st # "none" <=> d <= k
  /\ \A d \in Ids : rows[d].st = "none" => jobs[d] = "none" /\ rows[d].run = NoRun
  /\ \A r \in Runs : run[r].st = "written" => run[r].d # 0
  /\ \A r \in Runs : run[r].d # 0 => rows[run[r].d].st # "none"

(* A handler that is about to enqueue a deployment is the only one, and    *)
(* the TaskID is free; GitHub builds nothing of a workload built here.     *)
Enqueuing(c, d) == client[c].op \in {"enqueue", "giveup"} /\ client[c].d = d
EnqueuedOnce ==
  /\ build = "server" => \A r \in Runs : run[r].st = "none"
  /\ \A c \in Clients :
       /\ client[c].op = "placeholder" => build # "server"
       /\ client[c].op \in {"enqueue", "giveup"} => build = "server" /\ client[c].d # 0
  /\ \A c \in Clients, d \in Ids : Enqueuing(c, d) => rows[d].st # "none" /\ jobs[d] = "none"
  /\ \A c, e \in Clients, d \in Ids : Enqueuing(c, d) /\ Enqueuing(e, d) => c = e

(* A run has at most one row, the one it found, claimed or created.        *)
OneRowPerRun ==
  /\ \A d, e \in Ids : rows[d].run = rows[e].run => d = e \/ rows[d].run = NoRun
  /\ \A r \in Runs : run[r].st \in {"found", "written", "failfound"} =>
       \A d \in Ids : rows[d].run = r => d = run[r].d

(* What a job knows of its script is what happened, and it has left no     *)
(* deployment in flight when it comes to the workload, unless that failed. *)
JobsAreHonest ==
  \A d \in Ids :
    /\ jobs[d] \in {"ok", "okrow"} => d \in earned
    /\ jobs[d] \in {"okrow", "badrow"} => rows[d].st \notin InFlight \/ d \in stranded

(* PendingIsOnItsWay without the run's memory of a row: the row itself     *)
(* names the run that will end it.                                         *)
PendingIsNamed ==
  \A d \in Ids \ (crashed \cup stranded) :
    /\ app.live /\ rows[d].st \in InFlight
    /\ build = "server" \/ rows[d].run # NoRun
    => \/ jobs[d] \in Active
       \/ \E c \in Clients : Enqueuing(c, d)
       \/ \E r \in Runs : rows[d].run = r /\ run[r].st \in {"written", "failing", "failfound"}

(* Only an application reads deleting, and no deletion remembers that.     *)
DeletionsRemember ==
  /\ kind = "compose" => app.status # "deleting"
  /\ remove.prev # "deleting"
  /\ \A c \in Clients :
       /\ client[c].op = "mark" => kind = "application"
       /\ client[c].op = "delete" => kind = "compose"
       /\ client[c].op \in {"mark", "delete", "remove", "restore"} => client[c].prev # "deleting"
       /\ client[c].op = "restore" => kind = "application"

(* A removal that took the container away is the last one of a workload    *)
(* that lives, and nothing was deploying then or can be now.               *)
TornIsFinal ==
  /\ kind = "compose" /\ app.live =>
       remove.st = "none" /\ ~torn /\ \A c \in Clients : client[c].op # "remove"
  /\ kind = "application" /\ app.live /\ torn => remove.st \in {"ran", "failing", "archived"}
  /\ (~app.live \/ remove.st = "ran") /\ torn /\ ~overlap =>
       container = "absent" /\ \A d \in 0..MaxRows : jobs[d] \notin Deploying

DeployInv ==
  /\ TypeOK /\ Numbered /\ EnqueuedOnce /\ OneRowPerRun /\ JobsAreHonest /\ SuccessIsEarned
  /\ PendingIsNamed /\ BuildingIsOwned /\ DeletionsRemember /\ DeletingIsOwned /\ TornIsFinal
=============================================================================
