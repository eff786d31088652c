---------------------------- MODULE ServerLifecycle ----------------------------
(***************************************************************************)
(* The life of one server, from the row that CreateServer inserts to the   *)
(* one that DeleteServer removes.  A cloud server goes through a chain of  *)
(* jobs: create_on_provider makes the instance, wait_for_connect polls it, *)
(* provision starts the script, and the callbacks of the script record the *)
(* end.  A custom server enters at provision, by TryConnection.  Failures  *)
(* dispatch a cleanup that deletes the instance and keeps the row, and     *)
(* RetryProvision puts a failed server back into the chain.                *)
(*                                                                         *)
(* Jobs carry a TaskID and are never retried: a job that fails, or whose   *)
(* worker dies, is archived and keeps its TaskID.  A dispatch under a held *)
(* TaskID is ignored by the service and an error to a job.  Only the       *)
(* cleanup that a callback dispatches has no TaskID and is retried.        *)
(*                                                                         *)
(* The database and the queue may fail any statement.  Where the code only *)
(* logs that, the step goes on without it.                                 *)
(***************************************************************************)
EXTENDS Naturals, FiniteSets

CONSTANTS Clients,       \* concurrent requests that read before they write
          Callbacks,     \* cleanups dispatched by callbacks (bound)
          Scripts,       \* scripts at work (bound)
          MaxInstances,  \* bound: instances made
          MaxRequests,   \* bound: requests of users
          MaxFaults      \* bound: worker deaths, failures of provider, database and queue

ASSUME BoundAssumption == {MaxInstances, MaxRequests, MaxFaults} \subseteq Nat

VARIABLES row,       \* the server's row
          made,      \* number of instances made so far
          cloud,     \* instances that exist at the provider
          jobs,      \* the jobs, by TaskID or by callback
          scripts,   \* the instance each script runs on
          clients,   \* requests between their read, their write and their dispatch
          requests,  \* number of requests so far
          faults,    \* number of faults so far
          built,     \* history: instances on which a script has succeeded
          spoiled,   \* history: instances of the row whose provisioning failed
          stuck,     \* history: jobs that were ignored, refused, killed or failed
          unsaved,   \* history: what a step failed to write and went on without
          raced      \* history: a request wrote what it had decided on an older row

vars == <<row, made, cloud, jobs, scripts, clients, requests, faults,
          built, spoiled, stuck, unsaved, raced>>

Instances == 1..MaxInstances
None == 0                    \* no instance; the machine of a custom server
TaskIDs == {"create_on_provider", "wait_connect", "provision", "delete_server",
            "cleanup_provisioning"}
Cleanups == {"cleanup_provisioning"} \cup Callbacks
Jobs == TaskIDs \cup Callbacks
Requests == {"retry", "try", "update"}     \* requests that have read the row
Dispatched == {"create_on_provider", "provision", "delete_server"}  \* jobs that requests dispatch
Ops == {"idle"} \cup Requests \cup Dispatched
ASSUME CallbackAssumption == Callbacks \cap (TaskIDs \cup Ops) = {}

Free == [at |-> "free", instance |-> None]
Statuses == {"new", "awaiting_connection", "starting", "provisioning", "running", "failed",
             "deleting", "archived", "stopped"}
Rows == [present: BOOLEAN, provider: {"cloud", "custom"}, status: Statuses,
         connected: BOOLEAN, archived: BOOLEAN,
         instance: Instances \cup {None},   \* provider_data and the keys
         ip: Instances \cup {None},         \* whose public_ipv4 it is
         hostKey: Instances \cup {None}]    \* the instance whose host key is pinned
Writes == {"starting", "connected", "disconnected", "running", "failed"}

TypeOK ==
  /\ row \in Rows
  /\ made \in 0..MaxInstances
  /\ cloud \in SUBSET (1..made)
  /\ jobs \in [Jobs -> [at: {"free", "queued", "create", "save", "address", "connect", "dispatch",
                             "run", "delete", "erase", "archived"},
                        instance: Instances \cup {None}]]
  /\ scripts \in [Scripts -> [busy: BOOLEAN, instance: Instances \cup {None}]]
  /\ clients \in [Clients -> [op: Ops, read: Rows]]
  /\ requests \in 0..MaxRequests /\ faults \in 0..MaxFaults
  /\ built \in SUBSET (Instances \cup {None}) /\ spoiled \in SUBSET Instances
  /\ stuck \in SUBSET Jobs /\ unsaved \in SUBSET Writes /\ raced \in BOOLEAN

history == <<built, spoiled, stuck, unsaved, raced>>

(* CreateServer: the row, and for a cloud server the first job of the      *)
(* chain, unless the queue refuses it, which is only logged.               *)
NewRow(p) ==
  [present |-> TRUE, provider |-> p,
   status |-> IF p = "custom" THEN "awaiting_connection" ELSE "new",
   connected |-> FALSE, archived |-> FALSE, instance |-> None, ip |-> None, hostKey |-> None]

Quiet == [op |-> "idle", read |-> NewRow("custom")]

Init ==
  /\ \E p \in {"cloud", "custom"}, refused \in BOOLEAN :
       /\ refused => p = "cloud"
       /\ row = NewRow(p)
       /\ jobs = [k \in Jobs |-> IF k = "create_on_provider" /\ p = "cloud" /\ ~refused
                                 THEN [Free EXCEPT !.at = "queued"] ELSE Free]
       /\ stuck = IF refused THEN {"create_on_provider"} ELSE {}
  /\ made = 0 /\ cloud = {}
  /\ scripts = [s \in Scripts |-> [busy |-> FALSE, instance |-> None]]
  /\ clients = [c \in Clients |-> Quiet]
  /\ requests = 0 /\ faults = 0
  /\ built = {} /\ spoiled = {} /\ unsaved = {} /\ raced = FALSE

-----------------------------------------------------------------------------
(* An update of columns changes nothing when the row is gone.              *)
UpdateFields(new) == row' = IF row.present THEN new ELSE row
UpdateStatus(s) == UpdateFields([row EXCEPT !.status = s])

Delete == row' = [NewRow(row.provider) EXCEPT !.present = FALSE]

(* SSH as root, with the key of the instance, to the address of the row.   *)
(* The first machine that answers has its host key pinned, before the key  *)
(* of the instance is looked at; any other one is refused from then on.    *)
Pin == IF row.hostKey = None /\ row.ip \in cloud THEN row.ip ELSE row.hostKey
Reachable ==
  \/ row.provider = "custom"
  \/ row.ip = row.instance /\ row.instance \in cloud /\ Pin = row.instance

Goto(k, at, i) == [jobs EXCEPT ![k] = [at |-> at, instance |-> i]]

(* The queue takes a job under a TaskID that nobody holds.                 *)
Enqueue(j, k) == IF j[k].at = "free" THEN [j EXCEPT ![k].at = "queued"] ELSE j

(* A TaskID held by a job that is queued or at work is a job that will do  *)
(* the work; one held by an archived job is not.                           *)
Ignored(k) == IF jobs[k].at = "archived" THEN stuck \cup {k} ELSE stuck

Fault == faults < MaxFaults /\ faults' = faults + 1

(* The statements of one step that fail, all of them in one fault.         *)
Outage(broken) == IF broken = {} THEN UNCHANGED faults ELSE Fault

(* Base.EnqueueTask: a held TaskID counts as success.  A refusal is an     *)
(* error that the row no longer shows; so is a process that dies before.   *)
EnqueueTask(k) ==
  \/ jobs' = Enqueue(jobs, k) /\ stuck' = Ignored(k) /\ UNCHANGED faults
  \/ Fault /\ stuck' = stuck \cup {k} /\ UNCHANGED jobs

(* A handler returned an error: Failed has run and the job is archived.    *)
(* Failed writes the status, and those of wait_connect and provision       *)
(* dispatch the cleanup; that one of these statements fails is only logged *)
Archived(k) == Goto(k, "archived", None)
WriteFailed(broken) ==
  /\ IF "failed" \in broken THEN UNCHANGED row ELSE UpdateStatus("failed")
  /\ unsaved' = unsaved \cup (broken \cap Writes)
CleanupAfter(k) == Enqueue(Archived(k), "cleanup_provisioning")
DispatchCleanup(broken) ==
  stuck' = IF "cleanup" \in broken THEN stuck \cup {"cleanup_provisioning"}
           ELSE Ignored("cleanup_provisioning")

-----------------------------------------------------------------------------
(* CreateOnProvider *)

CreateStart ==
  LET k == "create_on_provider" IN
  /\ jobs[k].at = "queued" /\ row.present
  /\ UpdateStatus("starting")
  /\ jobs' = Goto(k, "create", None)
  /\ UNCHANGED <<made, cloud, scripts, clients, requests, faults, history>>

(* Mutant of CreateInstance: the instance is not counted.                  *)
CreateInstanceReused ==
  LET k == "create_on_provider" IN
  /\ jobs[k].at = "create" /\ made < MaxInstances
  /\ cloud' = cloud \cup {made + 1}
  /\ jobs' = Goto(k, "save", made + 1)
  /\ UNCHANGED <<row, made, scripts, clients, requests, faults, history>>

CreateInstance ==
  LET k == "create_on_provider" IN
  /\ jobs[k].at = "create" /\ made < MaxInstances
  /\ made' = made + 1
  /\ cloud' = cloud \cup {made + 1}
  /\ jobs' = Goto(k, "save", made + 1)
  /\ UNCHANGED <<row, scripts, clients, requests, faults, history>>

SaveInstance ==
  LET k == "create_on_provider" IN
  /\ jobs[k].at = "save"
  /\ UpdateFields([row EXCEPT !.instance = jobs[k].instance])
  /\ jobs' = Goto(k, "address", None)
  /\ UNCHANGED <<made, cloud, scripts, clients, requests, faults, history>>

(* waitForPublicIP asks for the address of the row's instance and may give *)
(* up, which is only logged.                                               *)
FindAddress ==
  LET k == "create_on_provider" IN
  /\ jobs[k].at = "address"
  /\ \E found \in BOOLEAN :
       /\ found => row.present /\ row.instance \in cloud
       /\ UpdateFields([row EXCEPT !.ip = IF found THEN row.instance ELSE @])
  /\ jobs' = Goto(k, "dispatch", None)
  /\ UNCHANGED <<made, cloud, scripts, clients, requests, faults, history>>

CreateEnds ==
  LET k == "create_on_provider" IN
  /\ jobs[k].at = "dispatch" /\ jobs["wait_connect"].at = "free"
  /\ jobs' = Enqueue(Goto(k, "free", None), "wait_connect")
  /\ UNCHANGED <<row, made, cloud, scripts, clients, requests, faults, history>>

(* Every call of the handler may fail; the dispatch does when the TaskID   *)
(* of the next job is held.  Failing before the instance is saved also     *)
(* stands for an answer of the provider that is lost.                      *)
CreateFails ==
  LET k == "create_on_provider" IN
  /\ jobs[k].at \in {"queued", "create", "save", "address", "dispatch"}
  /\ \E broken \in SUBSET {"failed"} : Outage(broken) /\ WriteFailed(broken)
  /\ jobs' = Archived(k)
  /\ UNCHANGED <<made, cloud, scripts, clients, requests, built, spoiled, stuck, raced>>

-----------------------------------------------------------------------------
(* WaitForServerToConnect *)

WaitStart ==
  LET k == "wait_connect" IN
  /\ jobs[k].at = "queued" /\ row.present
  /\ UpdateStatus("starting")
  /\ jobs' = Goto(k, "connect", None)
  /\ UNCHANGED <<made, cloud, scripts, clients, requests, faults, history>>

(* Every attempt reads the row again.  A connection that cannot be written *)
(* is only logged; the pin is a write of its own.                          *)
WaitConnects ==
  LET k == "wait_connect" IN
  /\ jobs[k].at = "connect" /\ row.present /\ row.ip # None /\ Reachable
  /\ \E broken \in SUBSET {"connected"} :
       /\ Outage(broken)
       /\ UpdateFields([row EXCEPT !.connected = (broken = {} \/ @), !.hostKey = Pin])
       /\ unsaved' = unsaved \cup broken
  /\ jobs' = Goto(k, "dispatch", None)
  /\ UNCHANGED <<made, cloud, scripts, clients, requests, built, spoiled, stuck, raced>>

WaitEnds ==
  LET k == "wait_connect" IN
  /\ jobs[k].at = "dispatch" /\ jobs["provision"].at = "free"
  /\ jobs' = Enqueue(Goto(k, "free", None), "provision")
  /\ UNCHANGED <<row, made, cloud, scripts, clients, requests, faults, history>>

(* Mutant of WaitFails: the status is left to the cleanup.                 *)
WaitFailsQuietly ==
  LET k == "wait_connect" IN
  /\ jobs[k].at \in {"queued", "connect", "dispatch"}
  /\ UpdateFields([row EXCEPT !.connected = FALSE])
  /\ jobs' = CleanupAfter(k)
  /\ DispatchCleanup({})
  /\ UNCHANGED <<made, cloud, scripts, clients, requests, faults, built, spoiled, unsaved, raced>>

(* No address, no connection in thirty attempts, the row is gone or the    *)
(* TaskID of the next job is held.                                         *)
WaitFails ==
  LET k == "wait_connect" IN
  /\ jobs[k].at \in {"queued", "connect", "dispatch"}
  /\ \E key \in {row.hostKey, Pin}, broken \in SUBSET {"failed", "disconnected", "cleanup"} :
       /\ jobs[k].at # "connect" => key = row.hostKey
       /\ Outage(broken)
       /\ UpdateFields([row EXCEPT !.status = IF "failed" \in broken THEN @ ELSE "failed",
                                   !.connected = "disconnected" \in broken /\ @,
                                   !.hostKey = key])
       /\ unsaved' = unsaved \cup (broken \cap Writes)
       /\ jobs' = IF "cleanup" \in broken THEN Archived(k) ELSE CleanupAfter(k)
       /\ DispatchCleanup(broken)
  /\ UNCHANGED <<made, cloud, scripts, clients, requests, built, spoiled, raced>>

-----------------------------------------------------------------------------
(* ProvisionServer and the script *)

ProvisionStart ==
  LET k == "provision" IN
  /\ jobs[k].at = "queued" /\ row.present
  /\ UpdateStatus("provisioning")
  /\ jobs' = Goto(k, "run", row.ip)
  /\ UNCHANGED <<made, cloud, scripts, clients, requests, faults, history>>

(* RunInBackground starts the script and returns.                          *)
ProvisionRuns(s) ==
  LET k == "provision" IN
  /\ jobs[k].at = "run" /\ ~scripts[s].busy
  /\ scripts' = [scripts EXCEPT ![s] = [busy |-> TRUE, instance |-> jobs[k].instance]]
  /\ jobs' = Goto(k, "free", None)
  /\ UNCHANGED <<row, made, cloud, clients, requests, faults, history>>

(* The instance the row shows has failed, on which i was being provisioned *)
Spoiled(i) ==
  IF row.present /\ i = row.instance /\ i \in cloud THEN spoiled \cup {i} ELSE spoiled

(* "cleanup" stands for the read that decides on the cleanup and for its   *)
(* dispatch.  When there is no connection to run on, the tracked task has  *)
(* failed too and OnFailure has dispatched a cleanup of its own, unless it *)
(* could not write the status.                                             *)
ProvisionFails ==
  LET k == "provision" IN
  /\ jobs[k].at \in {"queued", "run"}
  /\ \E broken \in SUBSET {"failed", "cleanup"} :
       LET dispatched == row.present /\ "cleanup" \notin broken
           failed == IF dispatched THEN CleanupAfter(k) ELSE Archived(k) IN
       /\ Outage(broken) /\ WriteFailed(broken)
       /\ \/ jobs' = failed
          \/ /\ jobs[k].at = "run" /\ "failed" \notin broken
             /\ \E c \in Callbacks : jobs[c].at = "free" /\ jobs' = Enqueue(failed, c)
       /\ IF row.present THEN DispatchCleanup(broken) ELSE UNCHANGED stuck
  /\ spoiled' = Spoiled(row.instance)
  /\ UNCHANGED <<made, cloud, scripts, clients, requests, built, raced>>

ScriptDone(s) == scripts' = [scripts EXCEPT ![s] = [busy |-> FALSE, instance |-> None]]

(* ProvisionFreshServerTask.OnSuccess; nobody calls it again when it could *)
(* not write the status.                                                   *)
OnSuccess(s) ==
  LET i == scripts[s].instance IN
  /\ scripts[s].busy
  /\ row.provider = "custom" \/ (i \in cloud /\ row.hostKey \in {None, i})
  /\ \/ UpdateStatus("running") /\ UNCHANGED <<faults, unsaved>>
     \/ Fault /\ unsaved' = unsaved \cup {"running"} /\ UNCHANGED row
  /\ built' = built \cup {i}
  /\ ScriptDone(s)
  /\ UNCHANGED <<made, cloud, jobs, clients, requests, spoiled, stuck, raced>>

(* Mutant of OnFailure: no cleanup.                                        *)
OnFailureOnly(s) ==
  /\ scripts[s].busy
  /\ UpdateStatus("failed")
  /\ spoiled' = Spoiled(scripts[s].instance)
  /\ ScriptDone(s)
  /\ UNCHANGED <<made, cloud, jobs, clients, requests, faults, built, stuck, unsaved, raced>>

(* OnFailure and OnExpired: the script failed, could not be started, or    *)
(* its machine is gone.  They return when they cannot write the status,    *)
(* and only log that the queue has refused the cleanup.                    *)
OnFailure(s) ==
  /\ scripts[s].busy
  /\ \/ /\ UpdateStatus("failed")
        /\ \E c \in Callbacks : jobs[c].at = "free" /\ jobs' = Enqueue(jobs, c)
        /\ UNCHANGED <<faults, stuck, unsaved>>
     \/ /\ Fault /\ stuck' = stuck \cup {"cleanup_provisioning"} /\ UNCHANGED jobs
        /\ \E broken \in SUBSET {"failed"} : WriteFailed(broken)
  /\ spoiled' = Spoiled(scripts[s].instance)
  /\ ScriptDone(s)
  /\ UNCHANGED <<made, cloud, clients, requests, built, raced>>

-----------------------------------------------------------------------------
(* CleanupFailedProvisioning *)

(* That the status cannot be written is only logged.                       *)
CleanupStart(k) ==
  /\ jobs[k].at = "queued" /\ row.present
  /\ \/ UpdateStatus("failed") /\ UNCHANGED faults
     \/ Fault /\ UNCHANGED row
  /\ jobs' = Goto(k, "delete", row.instance)
  /\ UNCHANGED <<made, cloud, scripts, clients, requests, history>>

(* The row keeps the id of the instance, and connected.  An error of the   *)
(* provider is only logged.                                                *)
CleanupDeletes(k) ==
  /\ jobs[k].at = "delete"
  /\ \/ cloud' = cloud \ {jobs[k].instance} /\ UNCHANGED <<faults, stuck>>
     \/ Fault /\ stuck' = stuck \cup {k} /\ UNCHANGED cloud
  /\ jobs' = Goto(k, "free", None)
  /\ UNCHANGED <<row, made, scripts, clients, requests, built, spoiled, unsaved, raced>>

(* The row is gone, or the database failed; a callback's cleanup is tried  *)
(* again until its retries are used up.                                    *)
CleanupFails(k) ==
  /\ jobs[k].at = "queued"
  /\ \/ /\ ~row.present
        /\ jobs' = IF k \in Callbacks THEN Goto(k, "free", None) ELSE Archived(k)
        /\ UNCHANGED <<row, faults, stuck>>
     \/ /\ row.present /\ Fault
        /\ UpdateStatus("failed") \/ UNCHANGED row
        /\ jobs' = IF k \in Callbacks THEN jobs ELSE Archived(k)
        /\ stuck' = IF k \in Callbacks THEN stuck ELSE stuck \cup {k}
  /\ UNCHANGED <<made, cloud, scripts, clients, requests, built, spoiled, unsaved, raced>>

-----------------------------------------------------------------------------
(* DeleteServer *)

Request == requests < MaxRequests /\ requests' = requests + 1

(* The row of a custom server may stay when its deletion fails.            *)
DeleteServer(c) ==
  /\ clients[c].op = "idle" /\ row.present /\ Request
  /\ IF row.provider = "custom"
     THEN /\ \/ Delete /\ UNCHANGED <<faults, stuck>>
             \/ Fault /\ UpdateStatus("deleting") /\ stuck' = stuck \cup {"delete_server"}
          /\ UNCHANGED clients
     ELSE /\ UpdateStatus("deleting")
          /\ clients' = [clients EXCEPT ![c].op = "delete_server"]
          /\ UNCHANGED <<faults, stuck>>
  /\ UNCHANGED <<made, cloud, jobs, scripts, built, spoiled, unsaved, raced>>

(* Mutant of DeleteStart: a status that is no longer deleting ends the job *)
(* with an error.                                                          *)
DeleteStartGuarded ==
  LET k == "delete_server" IN
  /\ jobs[k].at = "queued" /\ row.present
  /\ jobs' = IF row.status = "deleting" THEN Goto(k, "delete", row.instance) ELSE Archived(k)
  /\ UNCHANGED <<row, made, cloud, scripts, clients, requests, faults, history>>

DeleteStart ==
  LET k == "delete_server" IN
  /\ jobs[k].at = "queued" /\ row.present
  /\ jobs' = Goto(k, "delete", row.instance)
  /\ UNCHANGED <<row, made, cloud, scripts, clients, requests, faults, history>>

(* An error of the provider is notified; the row goes all the same.        *)
DeleteInstance ==
  LET k == "delete_server" IN
  /\ jobs[k].at = "delete"
  /\ \/ cloud' = cloud \ {jobs[k].instance} /\ UNCHANGED faults
     \/ Fault /\ UNCHANGED cloud
  /\ jobs' = Goto(k, "erase", None)
  /\ UNCHANGED <<row, made, scripts, clients, requests, history>>

DeleteEnds ==
  LET k == "delete_server" IN
  /\ jobs[k].at = "erase"
  /\ Delete
  /\ spoiled' = {}
  /\ jobs' = Goto(k, "free", None)
  /\ UNCHANGED <<made, cloud, scripts, clients, requests, faults, built, stuck, unsaved, raced>>

(* The row is gone, or could not be read or deleted; Failed only tells the *)
(* team.                                                                   *)
DeleteFails ==
  LET k == "delete_server" IN
  /\ jobs[k].at \in {"queued", "erase"}
  /\ \/ ~row.present /\ jobs[k].at = "queued" /\ UNCHANGED <<faults, stuck>>
     \/ row.present /\ Fault /\ stuck' = stuck \cup {k}
  /\ jobs' = Archived(k)
  /\ UNCHANGED <<row, made, cloud, scripts, clients, requests, built, spoiled, unsaved, raced>>

-----------------------------------------------------------------------------
(* Requests that read the row, decide, and write later *)

Read(c, op) ==
  /\ clients[c].op = "idle" /\ row.present /\ Request
  /\ clients' = [clients EXCEPT ![c] = [op |-> op, read |-> row]]
  /\ UNCHANGED <<row, made, cloud, jobs, scripts, faults, history>>

(* It writes what it has decided, and may have a job to dispatch.          *)
Decide(c, next) ==
  /\ clients' = [clients EXCEPT ![c] = [Quiet EXCEPT !.op = next]]
  /\ raced' = (raced \/ row # clients[c].read)

RetryProvision(c) == row.status = "failed" /\ Read(c, "retry")

(* The branch follows the row that was read.                               *)
needsCloudCreate(read) == ~read.connected /\ read.provider = "cloud"

(* That the status cannot be reset is only logged.                         *)
RetryReset(c) ==
  /\ clients[c].op = "retry"
  /\ \/ UpdateStatus("starting") /\ UNCHANGED <<faults, unsaved>>
     \/ Fault /\ unsaved' = unsaved \cup {"starting"} /\ UNCHANGED row
  /\ Decide(c, IF needsCloudCreate(clients[c].read) THEN "create_on_provider" ELSE "provision")
  /\ UNCHANGED <<made, cloud, jobs, scripts, requests, built, spoiled, stuck>>

(* The SSH attempt lies between the check and the write.                   *)
TryConnection(c) ==
  row.provider = "custom" /\ row.status = "awaiting_connection" /\ Read(c, "try")

TryPersist(c) ==
  /\ clients[c].op = "try"
  /\ UpdateFields([row EXCEPT !.connected = TRUE, !.status = "starting"])
  /\ Decide(c, "provision")
  /\ UNCHANGED <<made, cloud, jobs, scripts, requests, faults, built, spoiled, stuck, unsaved>>

(* The dispatch that RetryProvision, TryConnection and DeleteServer end    *)
(* with.                                                                   *)
Dispatch(c) ==
  /\ clients[c].op \in Dispatched
  /\ EnqueueTask(clients[c].op)
  /\ clients' = [clients EXCEPT ![c] = Quiet]
  /\ UNCHANGED <<row, made, cloud, scripts, requests, built, spoiled, unsaved, raced>>

(* UpdateServer saves the whole row it read; Save inserts a row that is    *)
(* gone.                                                                   *)
UpdateServer(c) == row.status = "running" /\ Read(c, "update")

UpdateSave(c) ==
  /\ clients[c].op = "update"
  /\ row' = clients[c].read
  /\ Decide(c, "idle")
  /\ UNCHANGED <<made, cloud, jobs, scripts, requests, faults, built, spoiled, stuck, unsaved>>

-----------------------------------------------------------------------------
(* Requests and jobs of one statement *)

Archive ==
  /\ row.present /\ Request
  /\ UpdateFields([row EXCEPT !.archived = TRUE, !.status = "archived"])
  /\ UNCHANGED <<made, cloud, jobs, scripts, clients, faults, history>>

Unarchive ==
  /\ row.present /\ Request
  /\ UpdateFields([row EXCEPT !.archived = FALSE, !.status = "stopped"])
  /\ UNCHANGED <<made, cloud, jobs, scripts, clients, faults, history>>

(* ConnectServer *)
ConnectServer ==
  /\ row.present /\ row.status = "running" /\ Reachable /\ Request
  /\ UpdateFields([row EXCEPT !.connected = TRUE, !.hostKey = Pin])
  /\ UNCHANGED <<made, cloud, jobs, scripts, clients, faults, history>>

(* Mutant of UpdateConnectivity: a server that answers is running.         *)
UpdateConnectivityRevives ==
  /\ row.present /\ ~row.archived
  /\ \A k \in Jobs : jobs[k].at \in {"free", "archived"}
  /\ \A s \in Scripts : ~scripts[s].busy
  /\ \A c \in Clients : clients[c].op = "idle"
  /\ Reachable
  /\ UpdateFields([row EXCEPT !.connected = TRUE, !.status = "running", !.hostKey = Pin])
  /\ UNCHANGED <<made, cloud, jobs, scripts, clients, requests, faults, history>>

(* UpdateConnectivity, for a row that nobody has touched for a week: no    *)
(* job, script or request lasts that long.                                 *)
UpdateConnectivity ==
  /\ row.present /\ ~row.archived
  /\ \A k \in Jobs : jobs[k].at \in {"free", "archived"}
  /\ \A s \in Scripts : ~scripts[s].busy
  /\ \A c \in Clients : clients[c].op = "idle"
  /\ \E isConnected \in BOOLEAN, key \in {row.hostKey, Pin} :
       /\ isConnected => Reachable /\ key = Pin
       /\ UpdateFields([row EXCEPT !.connected = isConnected, !.hostKey = key])
  /\ UNCHANGED <<made, cloud, jobs, scripts, clients, requests, faults, history>>

(* A worker dies in a handler: asynq archives the job, or retries it, and  *)
(* no Failed runs.  One that is stopped hands the job back.                *)
WorkerDies(k) ==
  /\ jobs[k].at \notin {"free", "queued", "archived"}
  /\ Fault
  /\ \/ jobs' = Goto(k, "queued", None) /\ UNCHANGED stuck
     \/ k \notin Callbacks /\ jobs' = Archived(k) /\ stuck' = stuck \cup {k}
  /\ UNCHANGED <<row, made, cloud, scripts, clients, requests, built, spoiled, unsaved, raced>>

-----------------------------------------------------------------------------
Create ==
  CreateStart \/ CreateInstance \/ SaveInstance \/ FindAddress \/ CreateEnds \/ CreateFails
Wait == WaitStart \/ WaitConnects \/ WaitEnds \/ WaitFails
Provision == ProvisionStart \/ ProvisionFails \/ \E s \in Scripts : ProvisionRuns(s)
Script(s) == OnSuccess(s) \/ OnFailure(s)
Cleanup(k) == CleanupStart(k) \/ CleanupDeletes(k) \/ CleanupFails(k)
DeleteJob == DeleteStart \/ DeleteInstance \/ DeleteEnds \/ DeleteFails
Finish(c) == RetryReset(c) \/ TryPersist(c) \/ UpdateSave(c) \/ Dispatch(c)

Next ==
  \/ Create \/ Wait \/ Provision \/ DeleteJob
  \/ \E s \in Scripts : Script(s)
  \/ \E k \in Cleanups : Cleanup(k)
  \/ \E c \in Clients : RetryProvision(c) \/ TryConnection(c) \/ UpdateServer(c) \/ Finish(c)
  \/ \E c \in Clients : DeleteServer(c)
  \/ Archive \/ Unarchive \/ ConnectServer \/ UpdateConnectivity
  \/ \E k \in Jobs : WorkerDies(k)

(* Workers take the queued jobs and end them, a script ends or expires,    *)
(* and a request that was read is answered.                                *)
Spec ==
  /\ Init /\ [][Next]_vars
  /\ WF_vars(Create) /\ WF_vars(Wait) /\ WF_vars(Provision) /\ WF_vars(DeleteJob)
  /\ \A s \in Scripts : WF_vars(Script(s))
  /\ \A k \in Cleanups : WF_vars(Cleanup(k))
  /\ \A c \in Clients : WF_vars(Finish(c))

-----------------------------------------------------------------------------
(* A worker or the queue has the job, or a request is about to dispatch it *)
Asked(k) == \E c \in Clients : clients[c].op = k
AtWork(k) == jobs[k].at \notin {"free", "archived"} \/ Asked(k)
Chain == {"create_on_provider", "wait_connect", "provision"}

(* A server that shows progress has a job, a script or a request that will *)
(* end it, unless a dispatch was ignored or refused, a worker died, or the *)
(* end came when the database could not record it (every such write is     *)
(* only logged or returned to nobody).  No other failure of a job, of a    *)
(* script or of the provider leaves the row in the state it was in.        *)
InProgressIsOwned ==
  row.present /\ row.status \in {"new", "starting", "provisioning"} =>
    \/ \E k \in Chain : AtWork(k)
    \/ \E s \in Scripts : scripts[s].busy
    \/ stuck \cap Chain # {} \/ unsaved \cap {"running", "failed"} # {}

(* A second chain of jobs may be at work on the server: a request wrote    *)
(* what it had decided on an older row, or the write is missing that would *)
(* have kept the second chain away (connected when a wait has succeeded,   *)
(* the status when a retry begins).                                        *)
Crossed == raced \/ unsaved \cap {"connected", "starting"} # {}

(* A server that says running has been provisioned, the machine the row    *)
(* now points to and not one it had before, unless two chains crossed.     *)
RunningIsBuilt ==
  row.present /\ row.status = "running" => row.instance \in built \/ Crossed

(* A deletion that was asked for happens, whatever the jobs of the chain   *)
(* write over the status meanwhile and whatever the provider answers,      *)
(* unless its job was refused or died, or the database failed in it: its   *)
(* Failed writes nothing, and the row goes on saying deleting.             *)
DeleteHonoured ==
  row.present /\ row.status = "deleting" ~> ~row.present \/ "delete_server" \in stuck

(* The instance of a server that could not be provisioned is deleted at    *)
(* the provider, unless that call failed, its job was lost or never got    *)
(* into the queue (a callback that cannot write the status dispatches      *)
(* none), the server is deleted first (the deletion may have read the row  *)
(* before it knew the instance) or a second chain has put another instance *)
(* in its place.                                                           *)
FailedIsRemoved ==
  \A i \in Instances :
    i \in spoiled ~> i \notin cloud \cap spoiled \/ stuck \cap Cleanups # {} \/ Crossed

(* When RetryProvision chooses to provision again, the droplet exists.     *)
RetryFindsDroplet ==
  [][\A c \in Clients :
       RetryReset(c) /\ row.present /\ row.provider = "cloud"
       /\ ~needsCloudCreate(clients[c].read) => row.instance \in cloud]_vars

-----------------------------------------------------------------------------
(* The inductive invariant behind InProgressIsOwned and RunningIsBuilt.    *)

Provisioning == AtWork("provision") \/ \E s \in Scripts : scripts[s].busy

(* A request knows a state of the server in which it was admitted.         *)
RequestKnows ==
  \A c \in Clients : clients[c].op \in Requests =>
    /\ clients[c].read.present /\ clients[c].read.provider = row.provider
    /\ clients[c].op = "update" => clients[c].read.status = "running"
    /\ clients[c].op = "retry" => clients[c].read.status = "failed"
    /\ clients[c].op = "try" => row.provider = "custom"

(* A custom server has no instance and never enters the first two jobs.    *)
CustomIsWhole ==
  row.provider = "custom" =>
    /\ row.instance = None /\ row.ip = None
    /\ ~AtWork("create_on_provider") /\ ~AtWork("wait_connect")

(* The jobs of the chain exclude each other: the first works only on a row *)
(* that is not connected, the third only on one that is.                   *)
CreateAlone ==
  AtWork("create_on_provider") =>
    /\ ~row.connected /\ row.status # "running"
    /\ ~AtWork("wait_connect") /\ ~Provisioning
    /\ jobs["wait_connect"].at # "archived" => row.status # "failed"
CreateOnce ==
  jobs["wait_connect"].at # "archived" =>
    /\ \A c, d \in Clients : clients[c].op = "create_on_provider" /\ clients[d].op = clients[c].op
                            => c = d
    /\ Asked("create_on_provider") => jobs["create_on_provider"].at \in {"free", "archived"}
WaitAlone ==
  AtWork("wait_connect") => row.status \notin {"running", "failed"} /\ ~Provisioning
ProvisionIsConnected ==
  Provisioning /\ row.present /\ row.provider = "cloud" => row.connected
DispatchIsConnected ==
  jobs["wait_connect"].at = "dispatch" /\ row.present => row.connected
CleanupComesLate ==
  row.present /\ row.provider = "cloud" /\ jobs["wait_connect"].at # "archived"
  /\ (~row.connected \/ AtWork("wait_connect")) => \A k \in Cleanups : ~AtWork(k)

(* What is provisioned is the instance of the row.                         *)
ConnectedIsAddressed == row.provider = "cloud" /\ row.connected => row.ip = row.instance
TargetIsInstance ==
  row.present =>
    /\ jobs["provision"].at = "run" => jobs["provision"].instance = row.instance
    /\ \A s \in Scripts : scripts[s].busy => scripts[s].instance = row.instance

LifeInv ==
  /\ TypeOK /\ RequestKnows /\ InProgressIsOwned
  /\ Crossed \/ ( /\ CustomIsWhole /\ CreateAlone /\ CreateOnce /\ WaitAlone
                  /\ ProvisionIsConnected /\ DispatchIsConnected /\ CleanupComesLate
                  /\ ConnectedIsAddressed /\ TargetIsInstance /\ RunningIsBuilt )
=============================================================================
