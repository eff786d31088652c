--------------------------- MODULE ManagedResource ---------------------------
(***************************************************************************)
(* The resources a server carries: daemons (supervisor programs), cron     *)
(* jobs and firewall rules.  Each is a database row with four status       *)
(* columns and an artefact on the server.  The HTTP services write the row *)
(* and dispatch a job; the worker's jobs run a script on the server and    *)
(* then write the row.  Services read a row, decide, and write it later,   *)
(* some of them with a Save of the whole row, and nothing locks the row    *)
(* between the two; jobs carry a TaskID that the queue refuses twice.      *)
(*                                                                         *)
(* asynq is not part of the repository: a TaskID stays taken while its     *)
(* task is queued, running or archived, a failed task without retries is   *)
(* archived, a task that ends well is deleted.                             *)
(***************************************************************************)
EXTENDS Naturals, FiniteSets

CONSTANTS Ids,          \* resources that may be created
          Clients,      \* HTTP requests that may be in flight together
          MaxVersion,   \* bound: versions of a resource's contents
          MaxRequests,  \* bound: update, delete and sync requests
          MaxFaults     \* bound: refused enqueues, failing queries, stopped workers

ASSUME MaxVersionAssumption == MaxVersion \in Nat \ {0}
ASSUME BoundsAssumption == MaxRequests \in Nat /\ MaxFaults \in Nat

VARIABLES kind,      \* kind[i]: what resource i is; never changes
          rows,      \* rows[i]: its database row
          remote,    \* remote[i]: version on the server, 0 when absent
          loaded,    \* loaded[i]: version that supervisor has loaded of a daemon
          jobs,      \* jobs[t][i]: the task with the TaskID of t and i
          client,    \* client[c]: the request c is serving
          sync,      \* the sync_daemons job
          requests,  \* number of requests so far
          faults,    \* number of faults so far
          lost,      \* history: rows whose newer columns a Save overwrote
          unserved,  \* history: resources whose install was not enqueued
          created,   \* history: resources that have had a row
          removed,   \* history: resources an uninstall job removed
          crashed,   \* history: resources whose job died with its worker
          unsaved,   \* history: resources whose job could not record its failure
          unreloaded \* history: daemons whose reload failed, and none worked since

vars == <<kind, rows, remote, loaded, jobs, client, sync, requests, faults,
          lost, unserved, created, removed, crashed, unsaved, unreloaded>>
server == <<remote, loaded, unreloaded>>

Kinds    == {"daemon", "cron", "rule"}
JobTypes == {"install", "uninstall"}
Ops      == {"update", "delete"}  \* then "install" or "uninstall": to dispatch
Versions == 1..MaxVersion
NoRow    == [absent |-> TRUE]
Row      == [installed: BOOLEAN, failed: BOOLEAN, requested: BOOLEAN,
             unfailed: BOOLEAN, ver: Versions]
MaybeRow == Row \cup {NoRow}

JobStates == {"none", "queued", "running", "uploaded", "ran", "failing", "archived"}
Idle      == [op |-> "idle"]

TypeOK ==
  /\ kind \in [Ids -> Kinds]
  /\ rows \in [Ids -> MaybeRow]
  /\ remote \in [Ids -> 0..MaxVersion] /\ loaded \in [Ids -> 0..MaxVersion]
  /\ jobs \in [JobTypes -> [Ids -> [st: JobStates, ver: 0..MaxVersion]]]
  /\ client \in [Clients -> [op: Ops \cup JobTypes, id: Ids, row: Row] \cup {Idle}]
  /\ sync \in [st: {"none", "queued", "running"}, copy: [Ids -> MaybeRow]]
  /\ requests \in 0..MaxRequests
  /\ faults \in 0..MaxFaults
  /\ {lost, unserved, created, removed, crashed, unsaved, unreloaded} \subseteq SUBSET Ids

-----------------------------------------------------------------------------
(* Status of a row and the column updates of the repository.               *)

Exists(i) == rows[i] # NoRow
IsInstalled(row) == row.installed /\ ~row.failed
IsUninstalling(row) == row.requested /\ ~row.unfailed

(* An UPDATE ... WHERE id = i: without the row it changes nothing and is   *)
(* no error.                                                               *)
UpdateFields(i, F(_)) ==
  rows' = IF Exists(i) THEN [rows EXCEPT ![i] = F(@)] ELSE rows

MarkAsInstalled(row) == [row EXCEPT !.installed = TRUE, !.failed = FALSE]
MarkAsFailed(row) == [row EXCEPT !.failed = TRUE]
MarkInstallationFailed(row) == [row EXCEPT !.installed = FALSE, !.failed = TRUE]
MarkAsUninstalling(row) == [row EXCEPT !.requested = TRUE]
(* Mutant of MarkUninstallationFailed.                                    *)
MarkUninstallationFailedNot(row) == row

MarkUninstallationFailed(row) == [row EXCEPT !.requested = FALSE, !.unfailed = TRUE]

(* db.Save writes every column of the caller's copy and inserts the row    *)
(* when it is gone.  read is what the caller had loaded.                   *)
Save(i, read, row) ==
  /\ rows' = [rows EXCEPT ![i] = row]
  /\ lost' = IF rows[i] = read THEN lost ELSE lost \cup {i}

(* What the two jobs of each kind do differently.                          *)
InstallDaemonFailed(row) == MarkInstallationFailed(row)
InstallCronFailed(row) == MarkInstallationFailed(row)
InstallFirewallRuleFailed(row) == MarkAsFailed(row)
InstallFailed(k, row) ==
  CASE k = "daemon" -> InstallDaemonFailed(row)
    [] k = "cron"   -> InstallCronFailed(row)
    [] k = "rule"   -> InstallFirewallRuleFailed(row)

(* The outcomes of a script after which Handle goes on.  "unsuccessful" is *)
(* a script that exits badly, "error" a connection that breaks.            *)
InstallDaemonProceeds(outcome) == outcome = "ok"
InstallCronProceeds(outcome) == outcome = "ok"
InstallFirewallRuleProceeds(outcome) == outcome = "ok"
InstallProceeds(k, outcome) ==
  CASE k = "daemon" -> InstallDaemonProceeds(outcome)
    [] k = "cron"   -> InstallCronProceeds(outcome)
    [] k = "rule"   -> InstallFirewallRuleProceeds(outcome)

UninstallDaemonProceeds(outcome) == outcome \in {"ok", "unsuccessful"}
(* Mutant of UninstallCronProceeds.                                       *)
UninstallCronProceedsAlways(outcome) == TRUE

UninstallCronProceeds(outcome) == outcome = "ok"
UninstallFirewallRuleProceeds(outcome) == outcome = "ok"
UninstallProceeds(k, outcome) ==
  CASE k = "daemon" -> UninstallDaemonProceeds(outcome)
    [] k = "cron"   -> UninstallCronProceeds(outcome)
    [] k = "rule"   -> UninstallFirewallRuleProceeds(outcome)

-----------------------------------------------------------------------------
Init ==
  /\ kind \in [Ids -> Kinds]
  /\ rows = [i \in Ids |-> NoRow]
  /\ remote = [i \in Ids |-> 0] /\ loaded = [i \in Ids |-> 0]
  /\ jobs = [t \in JobTypes |-> [i \in Ids |-> [st |-> "none", ver |-> 0]]]
  /\ client = [c \in Clients |-> Idle]
  /\ sync = [st |-> "none", copy |-> [i \in Ids |-> NoRow]]
  /\ requests = 0 /\ faults = 0
  /\ lost = {} /\ unserved = {} /\ created = {} /\ removed = {}
  /\ crashed = {} /\ unsaved = {} /\ unreloaded = {}

SetJob(t, i, st) == jobs' = [jobs EXCEPT ![t][i].st = st]

-----------------------------------------------------------------------------
(* HTTP services.                                                          *)

(* Create inserts the row, then the install job is dispatched.  The three   *)
(* services differ in what they check and fill in.                         *)
Create(c, i) ==
  /\ client[c] = Idle
  /\ i \notin created
  /\ LET row == [installed |-> FALSE, failed |-> FALSE, requested |-> FALSE,
                 unfailed |-> FALSE, ver |-> 1]
     IN /\ rows' = [rows EXCEPT ![i] = row]
        /\ client' = [client EXCEPT ![c] = [op |-> "install", id |-> i, row |-> row]]
  /\ created' = created \cup {i}
  /\ UNCHANGED <<kind, server, jobs, sync, requests, faults, lost, unserved, removed, crashed, unsaved>>

CreateDaemon(c, i) == kind[i] = "daemon" /\ Create(c, i)
CreateCron(c, i) == kind[i] = "cron" /\ Create(c, i)
CreateFirewallRule(c, i) == kind[i] = "rule" /\ Create(c, i)

(* An update or a delete finds the row ...                                 *)
Find(c, i, op) ==
  /\ client[c] = Idle
  /\ Exists(i)
  /\ requests < MaxRequests
  /\ requests' = requests + 1
  /\ client' = [client EXCEPT ![c] = [op |-> op, id |-> i, row |-> rows[i]]]
  /\ UNCHANGED <<kind, rows, server, jobs, sync, faults, lost, unserved, created, removed, crashed, unsaved>>

Answer(c) == client' = [client EXCEPT ![c] = Idle]
ThenDispatch(c, t) == client' = [client EXCEPT ![c].op = t]

(* Mutant of UpdateDaemon.                                                *)
UpdateDaemonSaveOnly(c, i, row) ==
  \E v \in Versions \ {row.ver} : Save(i, row, [row EXCEPT !.ver = v]) /\ Answer(c)

(* ... UpdateDaemon saves new contents and installs again,                 *)
UpdateDaemon(c, i, row) ==
  \E v \in Versions \ {row.ver} :
    /\ Save(i, row, [row EXCEPT !.ver = v])
    /\ ThenDispatch(c, "install")

(* UpdateCron saves new contents and leaves the server alone,              *)
UpdateCron(c, i, row) ==
  \E v \in Versions \ {row.ver} : Save(i, row, [row EXCEPT !.ver = v]) /\ Answer(c)

(* UpdateFirewallRule saves a name or a note, nothing the server carries.  *)
UpdateFirewallRule(c, i, row) == Save(i, row, row) /\ Answer(c)

Update(c) ==
  /\ client[c].op = "update"
  /\ LET i == client[c].id
         row == client[c].row
     IN \/ kind[i] = "daemon" /\ UpdateDaemon(c, i, row)
        \/ kind[i] = "cron" /\ UpdateCron(c, i, row)
        \/ kind[i] = "rule" /\ UpdateFirewallRule(c, i, row)
  /\ UNCHANGED <<kind, server, jobs, sync, requests, faults, unserved, created, removed, crashed, unsaved>>

(* UninstallOrDelete: decided by the row the request has read.             *)
UninstallOrDelete(c) ==
  /\ client[c].op = "delete"
  /\ LET i == client[c].id
     IN \/ /\ IsInstalled(client[c].row)
           /\ UpdateFields(i, MarkAsUninstalling)
           /\ ThenDispatch(c, "uninstall")
        \/ /\ ~IsInstalled(client[c].row)
           /\ rows' = [rows EXCEPT ![i] = NoRow]
           /\ Answer(c)
  /\ UNCHANGED <<kind, server, jobs, sync, requests, faults, lost, unserved, created, removed, crashed, unsaved>>

(* MustDispatch: EnqueueTask takes a TaskID that is taken for success; an  *)
(* enqueue that fails (or an API process that dies before it) leaves the   *)
(* row as it is, and the create and update handlers only log it.           *)
Dispatch(c) ==
  /\ client[c].op \in JobTypes
  /\ LET t == client[c].op
         i == client[c].id
     IN \/ /\ jobs[t][i].st = "none"
           /\ SetJob(t, i, "queued")
           /\ UNCHANGED <<faults, unserved>>
        \/ /\ jobs[t][i].st # "none"
           /\ unserved' = IF t = "install" /\ jobs[t][i].st # "queued"
                          THEN unserved \cup {i} ELSE unserved
           /\ UNCHANGED <<jobs, faults>>
        \/ /\ faults < MaxFaults
           /\ faults' = faults + 1
           /\ unserved' = IF t = "install" THEN unserved \cup {i} ELSE unserved
           /\ UNCHANGED jobs
  /\ Answer(c)
  /\ UNCHANGED <<kind, rows, server, sync, requests, lost, created, removed, crashed, unsaved>>

(* SyncDaemonsStatus and the schedule: the task has no TaskID, one is      *)
(* modelled at a time.                                                     *)
SyncDaemonsStatus ==
  /\ sync.st = "none"
  /\ \E i \in Ids : kind[i] = "daemon" /\ Exists(i)
  /\ requests < MaxRequests
  /\ requests' = requests + 1
  /\ sync' = [sync EXCEPT !.st = "queued"]
  /\ UNCHANGED <<kind, rows, server, jobs, client, faults, lost, unserved, created, removed, crashed, unsaved>>

-----------------------------------------------------------------------------
(* The worker.  Several jobs run at once.                                  *)

JobUnchanged == UNCHANGED <<kind, client, sync, requests, lost, unserved, created>>

(* A step of a handler that neither writes the row nor ends badly.         *)
Quiet == UNCHANGED <<rows, faults, removed, crashed, unsaved>> /\ JobUnchanged

Fault == faults < MaxFaults /\ faults' = faults + 1

Daemons == {i \in Ids : kind[i] = "daemon"}

(* supervisorctl reread and update load the files of every daemon on the   *)
(* server; when they fail, those of some or of none.                       *)
Load(files, some) == loaded' = [i \in Ids |-> IF i \in some THEN files[i] ELSE loaded[i]]

(* Handle starts and loads the row; without it the job fails.              *)
StartJob(t, i) ==
  /\ jobs[t][i].st = "queued"
  /\ jobs' = [jobs EXCEPT ![t][i] =
       IF Exists(i) THEN [st |-> "running", ver |-> rows[i].ver]
                    ELSE [st |-> "failing", ver |-> 0]]
  /\ UNCHANGED server /\ Quiet

(* Mutant of RunInstall.                                                  *)
RunInstallUnchecked(i) ==
  /\ jobs["install"][i].st = "running"
  /\ \E done \in BOOLEAN :
       remote' = [remote EXCEPT ![i] = IF done THEN jobs["install"][i].ver ELSE @]
  /\ SetJob("install", i, "ran")
  /\ UNCHANGED <<loaded, unreloaded>> /\ Quiet

(* The install script: when it fails or its connection does, it may have   *)
(* done its work all the same.  A daemon's is followed by a second one.    *)
RunInstall(i) ==
  /\ jobs["install"][i].st = "running"
  /\ \E outcome \in {"ok", "unsuccessful", "error"}, done \in BOOLEAN :
       /\ outcome = "ok" => done
       /\ remote' = [remote EXCEPT ![i] = IF done THEN jobs["install"][i].ver ELSE @]
       /\ SetJob("install", i,
            IF ~InstallProceeds(kind[i], outcome) THEN "failing"
            ELSE IF kind[i] = "daemon" THEN "uploaded" ELSE "ran")
  /\ UNCHANGED <<loaded, unreloaded>> /\ Quiet

(* The second script makes supervisor load what was uploaded; the job goes *)
(* on whatever becomes of it: an error is logged, an exit code not read.   *)
ReloadSupervisor(i) ==
  /\ jobs["install"][i].st = "uploaded"
  /\ UNCHANGED remote
  /\ \/ Load(remote, Daemons) /\ unreloaded' = {}
     \/ \E some \in SUBSET Daemons : Load(remote, some) /\ unreloaded' = unreloaded \cup {i}
  /\ SetJob("install", i, "ran")
  /\ Quiet

(* The uninstall script; a daemon's also reloads supervisor, after it has  *)
(* removed the file.  whole says that it ran to its end.                   *)
Uninstalls(i, whole) ==
  LET files == [remote EXCEPT ![i] = 0]
  IN IF kind[i] = "daemon"
     THEN \E some \in SUBSET Daemons :
            /\ whole => some = Daemons
            /\ remote' = files /\ Load(files, some) /\ UNCHANGED unreloaded
     ELSE remote' = files /\ UNCHANGED <<loaded, unreloaded>>

RunUninstall(i) ==
  /\ jobs["uninstall"][i].st = "running"
  /\ \E outcome \in {"ok", "unsuccessful", "error"} :
       /\ \/ outcome # "ok" /\ UNCHANGED server
          \/ Uninstalls(i, outcome = "ok")
       /\ SetJob("uninstall", i,
            IF UninstallProceeds(kind[i], outcome) THEN "ran" ELSE "failing")
  /\ Quiet

(* Mutant of FinishInstall: the queue retains a completed task. *)
FinishInstallRetained(i) ==
  /\ jobs["install"][i].st = "ran"
  /\ UpdateFields(i, MarkAsInstalled)
  /\ SetJob("install", i, "completed")
  /\ UNCHANGED <<server, faults, removed, crashed, unsaved>> /\ JobUnchanged

FinishInstall(i) ==
  /\ jobs["install"][i].st = "ran"
  /\ UpdateFields(i, MarkAsInstalled)
  /\ SetJob("install", i, "none")
  /\ UNCHANGED <<server, faults, removed, crashed, unsaved>> /\ JobUnchanged

FinishUninstall(i) ==
  /\ jobs["uninstall"][i].st = "ran"
  /\ rows' = [rows EXCEPT ![i] = NoRow]
  /\ removed' = removed \cup {i}
  /\ SetJob("uninstall", i, "none")
  /\ UNCHANGED <<server, faults, crashed, unsaved>> /\ JobUnchanged

(* Failed marks the row; an UPDATE that fails there is only logged.        *)
MarkOrLog(i, Mark(_)) ==
  \/ UpdateFields(i, Mark) /\ UNCHANGED <<faults, unsaved>>
  \/ Fault /\ unsaved' = unsaved \cup {i} /\ UNCHANGED rows

(* Failed, then the queue archives the task under its TaskID.              *)
FailInstall(i) ==
  /\ jobs["install"][i].st = "failing"
  /\ MarkOrLog(i, LAMBDA row : InstallFailed(kind[i], row))
  /\ SetJob("install", i, "archived")
  /\ UNCHANGED <<server, removed, crashed>> /\ JobUnchanged

FailUninstall(i) ==
  /\ jobs["uninstall"][i].st = "failing"
  /\ MarkOrLog(i, MarkUninstallationFailed)
  /\ SetJob("uninstall", i, "archived")
  /\ UNCHANGED <<server, removed, crashed>> /\ JobUnchanged

(* A query of the handler fails, and with it the handler.                  *)
DatabaseFails(t, i) ==
  /\ jobs[t][i].st \in {"running", "ran"}
  /\ Fault
  /\ SetJob(t, i, "failing")
  /\ UNCHANGED <<rows, server, removed, crashed, unsaved>> /\ JobUnchanged

(* The worker's process ends under the job and no Failed is called: it     *)
(* dies, and the queue archives the task when its lease expires, or it is  *)
(* shut down, and asynq queues the task again.  The script in flight may   *)
(* have done its work.                                                     *)
WorkerDies(t, i) ==
  /\ jobs[t][i].st \in {"running", "uploaded", "ran", "failing"}
  /\ Fault
  /\ \/ SetJob(t, i, "archived") /\ crashed' = crashed \cup {i}
     \/ SetJob(t, i, "queued") /\ UNCHANGED crashed
  /\ \/ UNCHANGED server
     \/ /\ t = "install" /\ jobs[t][i].st = "running"
        /\ remote' = [remote EXCEPT ![i] = jobs[t][i].ver]
        /\ UNCHANGED <<loaded, unreloaded>>
     \/ /\ t = "install" /\ jobs[t][i].st = "uploaded"
        /\ \E some \in SUBSET Daemons : Load(remote, some)
        /\ UNCHANGED <<remote, unreloaded>>
     \/ /\ t = "uninstall" /\ jobs[t][i].st = "running"
        /\ Uninstalls(i, FALSE)
  /\ UNCHANGED <<rows, removed, unsaved>> /\ JobUnchanged

(* SyncDaemonsJob: loads the daemons, asks the server (a failure ends the  *)
(* job), then saves each of the rows it loaded.                            *)
SyncLoad ==
  /\ sync.st = "queued"
  /\ sync' = [st |-> "running",
              copy |-> [i \in Ids |-> IF kind[i] = "daemon" THEN rows[i] ELSE NoRow]]
  /\ UNCHANGED <<kind, rows, server, jobs, client, requests, faults, lost, unserved, created, removed, crashed, unsaved>>

SyncSave(i) ==
  /\ sync.st = "running"
  /\ sync.copy[i] # NoRow
  /\ Save(i, sync.copy[i], sync.copy[i])
  /\ sync' = [sync EXCEPT !.copy[i] = NoRow]
  /\ UNCHANGED <<kind, server, jobs, client, requests, faults, unserved, created, removed, crashed, unsaved>>

SyncEnd ==
  /\ sync.st = "running"
  /\ sync' = [st |-> "none", copy |-> [i \in Ids |-> NoRow]]
  /\ UNCHANGED <<kind, rows, server, jobs, client, requests, faults, lost, unserved, created, removed, crashed, unsaved>>

JobStep(i) ==
  \/ \E t \in JobTypes : StartJob(t, i)
  \/ RunInstall(i) \/ ReloadSupervisor(i) \/ FinishInstall(i) \/ FailInstall(i)
  \/ RunUninstall(i) \/ FinishUninstall(i) \/ FailUninstall(i)

ClientStep(c) == Update(c) \/ UninstallOrDelete(c) \/ Dispatch(c)

Next ==
  \/ \E i \in Ids : JobStep(i) \/ SyncSave(i)
  \/ \E c \in Clients, i \in Ids :
       CreateDaemon(c, i) \/ CreateCron(c, i) \/ CreateFirewallRule(c, i)
  \/ \E c \in Clients : ClientStep(c)
  \/ \E c \in Clients, i \in Ids, op \in Ops : Find(c, i, op)
  \/ \E t \in JobTypes, i \in Ids : WorkerDies(t, i) \/ DatabaseFails(t, i)
  \/ SyncDaemonsStatus \/ SyncLoad \/ SyncEnd

(* The worker's goroutines and the handlers run to their end; requests and *)
(* faults need not come.                                                   *)
Fairness == /\ \A i \in Ids : WF_vars(JobStep(i))
            /\ \A c \in Clients : WF_vars(ClientStep(c))

Spec == Init /\ [][Next]_vars /\ Fairness

-----------------------------------------------------------------------------
(* Properties.                                                             *)

(* A row that reads installed, and that nobody ever asked to remove, is on *)
(* the server - in every interleaving of updates, deletes, syncs and the   *)
(* two jobs, unless a Save overwrote the columns a job had written.        *)
InstalledIsPresent ==
  \A i \in Ids \ lost :
    Exists(i) /\ IsInstalled(rows[i]) /\ ~rows[i].requested /\ ~rows[i].unfailed
      => remote[i] # 0

(* A cron or a rule whose uninstall job deleted the row is off the server  *)
(* for good: no install of it can still be under way, whatever updates and *)
(* stale Saves came between.                                               *)
CleanRemoval == \A i \in removed : kind[i] # "daemon" => remote[i] = 0

(* A job that failed in its handler is visible on the row, if the UPDATE   *)
(* of its Failed succeeded, and stays so: nothing but a stale Save takes   *)
(* the mark away, for the TaskID of the archived task is never run again.  *)
FailureIsRecorded ==
  \A i \in Ids \ (lost \cup crashed \cup unsaved) :
    Exists(i) => /\ jobs["install"][i].st = "archived" => rows[i].failed
                 /\ jobs["uninstall"][i].st = "archived" => rows[i].unfailed

(* An idle daemon that reads installed has the contents of its row on the  *)
(* server, if every install asked for was enqueued: an update while the    *)
(* install runs is swallowed by the TaskID and counts as not enqueued.     *)
(* Supervisor has loaded them too, unless the last reload, whose outcome   *)
(* no job checks, failed.                                                  *)
InstalledIsCurrent ==
  \A i \in Ids \ (lost \cup unserved) :
    /\ kind[i] = "daemon" /\ Exists(i) /\ IsInstalled(rows[i])
    /\ ~rows[i].requested /\ ~rows[i].unfailed
    /\ jobs["install"][i].st = "none"
    /\ \A c \in Clients : client[c] = Idle
    => /\ remote[i] = rows[i].ver
       /\ i \notin unreloaded => loaded[i] = rows[i].ver

(* An uninstall that was enqueued ends: the row goes, or says it failed,   *)
(* unless the worker died under it or could not write that it failed.      *)
UninstallSettles ==
  \A i \in Ids :
    jobs["uninstall"][i].st = "queued"
      ~> (~Exists(i) \/ rows[i].unfailed \/ i \in lost \cup crashed \cup unsaved)

-----------------------------------------------------------------------------
(* The inductive invariant behind the safety properties.                   *)

Dispatching(t, i) == \E c \in Clients : client[c].op = t /\ client[c].id = i

(* The row is gone, or says that somebody asked to remove it.              *)
Leaving(i) == ~Exists(i) \/ rows[i].requested \/ rows[i].unfailed

(* A resource that was not created yet has left no trace.                  *)
UncreatedIsUnknown ==
  \A i \in Ids \ created :
    /\ ~Exists(i) /\ sync.copy[i] = NoRow /\ i \notin removed
    /\ kind[i] = "daemon" => loaded[i] = remote[i]
    /\ \A t \in JobTypes : jobs[t][i].st = "none"
    /\ \A c \in Clients : client[c] # Idle => client[c].id # i

(* An uninstall job, or a request on its way to dispatch one, is behind a  *)
(* row that says so.                                                       *)
UninstallIsShown ==
  \A i \in Ids \ lost :
    jobs["uninstall"][i].st # "none" \/ Dispatching("uninstall", i) => Leaving(i)

(* The install script leaves something on the server that only an          *)
(* uninstall takes away.                                                   *)
InstallIsPresent ==
  \A i \in Ids :
    /\ jobs["install"][i].st = "running" => jobs["install"][i].ver # 0
    /\ jobs["install"][i].st \in {"uploaded", "ran"} /\ i \notin lost
         => remote[i] # 0 \/ Leaving(i)

(* The install job of a daemon works with the contents of the row, or a    *)
(* request that has changed them is about to ask for another one.          *)
Current(i) == jobs["install"][i].ver = rows[i].ver \/ Dispatching("install", i)
InstallIsCurrent ==
  \A i \in Ids \ (lost \cup unserved) :
    kind[i] = "daemon" /\ ~Leaving(i) =>
      /\ jobs["install"][i].st = "running" => Current(i)
      /\ jobs["install"][i].st \in {"uploaded", "ran"}
           => Current(i) /\ remote[i] = jobs["install"][i].ver
      /\ jobs["install"][i].st = "none" /\ IsInstalled(rows[i])
           => remote[i] = rows[i].ver \/ Dispatching("install", i)

(* What is on the server of a daemon without a job supervisor has loaded.  *)
LoadedIsCurrent ==
  \A i \in Ids \ (lost \cup unreloaded) :
    /\ kind[i] = "daemon" /\ ~Leaving(i)
    /\ jobs["install"][i].st \in {"none", "ran"}
    => loaded[i] = remote[i]

(* A cron or a rule is installed once, before anything can ask for its     *)
(* removal: nobody has read installed from its row before that, and no     *)
(* sync has a copy of it.                                                  *)
Settled(i) == ~Dispatching("install", i) /\ jobs["install"][i].st \in {"none", "archived"}
Touched(i) ==
  \/ Exists(i) /\ rows[i].installed
  \/ \E c \in Clients : client[c] # Idle /\ client[c].id = i /\ client[c].row.installed
  \/ Dispatching("uninstall", i) \/ jobs["uninstall"][i].st # "none" \/ i \in removed
InstalledOnce ==
  \A i \in Ids : kind[i] # "daemon" =>
    /\ Touched(i) => Settled(i)
    /\ Dispatching("install", i) => jobs["install"][i].st = "none"
    /\ \A c, d \in Clients :
         /\ client[c].op = "install" /\ client[c].id = i
         /\ client[d].op = "install" /\ client[d].id = i
         => c = d
    /\ jobs["uninstall"][i].st = "ran" => remote[i] = 0
    /\ sync.copy[i] = NoRow

DriftInv ==
  /\ TypeOK /\ UncreatedIsUnknown /\ UninstallIsShown /\ InstallIsPresent /\ InstalledIsPresent
  /\ InstallIsCurrent /\ LoadedIsCurrent /\ InstalledOnce /\ CleanRemoval /\ FailureIsRecorded
=============================================================================
