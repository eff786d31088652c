---------------------------- MODULE TaskRecovery ----------------------------
(***************************************************************************)
(* Tracked remote tasks of a worker that may crash and boot again.         *)
(*                                                                         *)
(* TaskRunner's goroutines die with the worker; the row and the script     *)
(* survive it.  Before it consumes jobs a booting worker runs              *)
(* RecoverOrphanedTasks (internal/modules/server/tasks/recovery.go) over   *)
(* the rows it finds running: a script that left an exit code file is      *)
(* finalized, one whose output moved within a minute is monitored again in *)
(* a goroutine, any other is marked failed.  One worker runs at a time, as *)
(* in docker-compose.yml.                                                  *)
(***************************************************************************)
EXTENDS TaskRunner

CONSTANT MaxCrashes    \* bound on the crashes of a behaviour

ASSUME MaxCrashesAssumption == MaxCrashes \in Nat

VARIABLES
  worker,    \* "up", "down" or "booting"
  crashes,   \* how often it crashed
  todo,      \* the running rows that RecoverOrphanedTasks has yet to visit
  visit,     \* visit[t]: where recoverTask is with t
  remon,     \* remon[t]: where the goroutine of remonitorRunningTask is
  lost       \* lost[t]: a crash hit t between a save of its row and the callback

recoveryVars == <<worker, crashes, todo, visit, remon, lost>>
vars == <<taskVars, recoveryVars>>

\* recoverTask runs for one task at a time; the others are at "no".
\*   exitfile, output   which file of the server is read next
\*   notify             finalizeCompletedTask saved the row; its callback is owed
\*   lost               markTaskFailed as the last statement of recoverTask
\*   fail               markTaskFailed because recoverTask returned an error
\*   failnotify         markTaskFailed saved the row; OnFailure is owed
VisitPC == {"no", "exitfile", "output", "notify", "lost", "fail", "failnotify"}
RemonPC == {"off", "watching", "recheck", "notify"}

TypeOK ==
  /\ TaskTypeOK
  /\ worker \in {"up", "down", "booting"}
  /\ crashes \in 0..MaxCrashes
  /\ todo \subseteq Tasks
  /\ visit \in [Tasks -> VisitPC]
  /\ remon \in [Tasks -> RemonPC]
  /\ lost \in [Tasks -> BOOLEAN]

Init ==
  /\ TaskInit
  /\ worker = "up"
  /\ crashes = 0
  /\ todo = {}
  /\ visit = [t \in Tasks |-> "no"]
  /\ remon = [t \in Tasks |-> "off"]
  /\ lost = [t \in Tasks |-> FALSE]

\* finalizeCompletedTask and invokeCallbacks go by the exit code alone.
FinalStatus(c) == IF c = 0 THEN "finished" ELSE IF c = 124 THEN "timeout" ELSE "failed"

\* Mutant of FinalCallback: a timeout is notified like any failure.
FinalCallbackNoExpiry(c) == IF c = 0 THEN "OnSuccess" ELSE "OnFailure"

FinalCallback(c) == IF c = 0 THEN "OnSuccess" ELSE IF c = 124 THEN "OnExpired" ELSE "OnFailure"

-----------------------------------------------------------------------------
(* The process.                                                            *)

\* A callback is owed by a goroutine that is about to invoke it.
Owing(t) == \/ runner[t] = "settled"
            \/ visit[t] \in {"notify", "failnotify"}
            \/ remon[t] = "notify"

\* Every goroutine dies, and the queue's copy of an idle task's job survives.
Crash ==
  /\ "crash" \in Faults
  /\ worker # "down"
  /\ crashes < MaxCrashes
  /\ crashes' = crashes + 1
  /\ worker' = "down"
  /\ lost' = [t \in Tasks |-> lost[t] \/ Owing(t)]
  /\ runner' = [t \in Tasks |-> IF runner[t] = "idle" THEN "idle" ELSE "gone"]
  /\ owed' = [t \in Tasks |-> NoCallback]
  /\ monitor' = [t \in Tasks |-> "off"]
  /\ chan' = [t \in Tasks |-> NoResult]
  /\ todo' = {}
  /\ visit' = [t \in Tasks |-> "no"]
  /\ remon' = [t \in Tasks |-> "off"]
  /\ UNCHANGED <<mode, row, calls, scriptVars>>

\* Mutant of Boot: the query has no condition on the status.
BootFindsAll ==
  /\ worker = "down"
  /\ worker' = "booting"
  /\ todo' = {t \in Tasks : row[t] # "none"}
  /\ UNCHANGED <<taskVars, crashes, visit, remon, lost>>

\* RecoverOrphanedTasks: the query for running rows.
Boot ==
  /\ worker = "down"
  /\ worker' = "booting"
  /\ todo' = {t \in Tasks : row[t] = "running"}
  /\ UNCHANGED <<taskVars, crashes, visit, remon, lost>>

\* RecoverOrphanedTasks returns; the worker starts to consume jobs.
BootDone ==
  /\ worker = "booting"
  /\ todo = {}
  /\ \A t \in Tasks : visit[t] = "no"
  /\ worker' = "up"
  /\ UNCHANGED <<taskVars, crashes, todo, visit, remon, lost>>

-----------------------------------------------------------------------------
(* recoverTask, one task after the other.                                  *)

Goto(t, at) == visit' = [visit EXCEPT ![t] = at]

Visit(t) ==
  /\ worker = "booting"
  /\ t \in todo
  /\ \A u \in Tasks : visit[u] = "no"
  /\ todo' = todo \ {t}
  /\ Goto(t, "exitfile")
  /\ UNCHANGED <<taskVars, worker, crashes, remon, lost>>

\* The server is gone, has no address or key, or cannot be dialled.
VisitUnreachable(t) ==
  /\ "ssh" \in Faults
  /\ visit[t] = "exitfile"
  /\ Goto(t, "fail")
  /\ UNCHANGED <<taskVars, worker, crashes, todo, remon, lost>>

HasExitFile(t) == script[t] \in {"coded", "marked"}

\* finalizeCompletedTask: the save; its failure is recoverTask's error.
VisitFindsExitFile(t) ==
  /\ visit[t] = "exitfile"
  /\ HasExitFile(t)
  /\ \/ /\ row' = [row EXCEPT ![t] = FinalStatus(code[t])]
        /\ owed' = [owed EXCEPT ![t] = FinalCallback(code[t])]
        /\ Goto(t, "notify")
     \/ /\ "db" \in Faults
        /\ Goto(t, "fail")
        /\ UNCHANGED <<row, owed>>
  /\ UNCHANGED <<mode, runner, calls, scriptVars, monitor, chan>>
  /\ UNCHANGED <<worker, crashes, todo, remon, lost>>

\* The file is not there, or the command that reads it fails.
VisitFindsNoExitFile(t) ==
  /\ visit[t] = "exitfile"
  /\ ~HasExitFile(t) \/ "ssh" \in Faults
  /\ Goto(t, "output")
  /\ UNCHANGED <<taskVars, worker, crashes, todo, remon, lost>>

\* find -mmin -1 prints the output file: remonitorRunningTask.
VisitFindsRecentOutput(t) ==
  /\ visit[t] = "output"
  /\ script[t] # "absent"
  /\ Goto(t, "no")
  /\ remon' = [remon EXCEPT ![t] = "watching"]
  /\ monitor' = [monitor EXCEPT ![t] = "dialing"]
  /\ UNCHANGED <<mode, row, runner, owed, calls, scriptVars, chan>>
  /\ UNCHANGED <<worker, crashes, todo, lost>>

\* The output is missing, was silent for a minute, or cannot be read.
VisitFindsStaleOutput(t) ==
  /\ visit[t] = "output"
  /\ Goto(t, "lost")
  /\ UNCHANGED <<taskVars, worker, crashes, todo, remon, lost>>

\* markTaskFailed: the save.  Its failure inside recoverTask is an error, and
\* the caller tries once more; its failure there is ignored.
VisitMarksFailed(t) ==
  /\ visit[t] \in {"lost", "fail"}
  /\ \/ /\ row' = [row EXCEPT ![t] = "failed"]
        /\ owed' = [owed EXCEPT ![t] = "OnFailure"]
        /\ Goto(t, "failnotify")
     \/ /\ "db" \in Faults
        /\ Goto(t, IF visit[t] = "lost" THEN "fail" ELSE "no")
        /\ UNCHANGED <<row, owed>>
  /\ UNCHANGED <<mode, runner, calls, scriptVars, monitor, chan>>
  /\ UNCHANGED <<worker, crashes, todo, remon, lost>>

\* invokeCallbacks at the end of finalizeCompletedTask: an error of the callback
\* is returned by recoverTask, so the task is marked failed after all.
VisitNotifies(t) ==
  /\ visit[t] = "notify"
  /\ calls' = [calls EXCEPT ![t] = Append(@, owed[t])]
  /\ owed' = [owed EXCEPT ![t] = NoCallback]
  /\ \/ Goto(t, "no")
     \/ "callback" \in Faults /\ Goto(t, "fail")
  /\ UNCHANGED <<mode, row, runner, scriptVars, monitor, chan>>
  /\ UNCHANGED <<worker, crashes, todo, remon, lost>>

\* invokeCallbacks at the end of markTaskFailed: an error is ignored.
VisitNotifiesFailure(t) ==
  /\ visit[t] = "failnotify"
  /\ calls' = [calls EXCEPT ![t] = Append(@, owed[t])]
  /\ owed' = [owed EXCEPT ![t] = NoCallback]
  /\ Goto(t, "no")
  /\ UNCHANGED <<mode, row, runner, scriptVars, monitor, chan>>
  /\ UNCHANGED <<worker, crashes, todo, remon, lost>>

-----------------------------------------------------------------------------
(* The goroutine of remonitorRunningTask.                                  *)

\* The save of finalizeCompletedTask or markTaskFailed: when it fails the
\* goroutine ends there and the row stays as it is.
RemonitorSettles(t, s, cb) ==
  /\ \/ /\ row' = [row EXCEPT ![t] = s]
        /\ owed' = [owed EXCEPT ![t] = cb]
        /\ remon' = [remon EXCEPT ![t] = "notify"]
     \/ /\ "db" \in Faults
        /\ remon' = [remon EXCEPT ![t] = "off"]
        /\ UNCHANGED <<row, owed>>
  /\ UNCHANGED <<mode, runner, calls, scriptVars, monitor>>
  /\ UNCHANGED <<worker, crashes, todo, visit, lost>>

\* MonitorBackgroundTask returns an error, so the exit file is read again.
RemonitorFails(t) ==
  /\ "ssh" \in Faults
  /\ remon[t] = "watching"
  /\ monitor[t] = "dialing"
  /\ monitor' = [monitor EXCEPT ![t] = "off"]
  /\ remon' = [remon EXCEPT ![t] = "recheck"]
  /\ UNCHANGED <<mode, row, runner, owed, calls, scriptVars, chan>>
  /\ UNCHANGED <<worker, crashes, todo, visit, lost>>

RecheckFindsExitFile(t) ==
  /\ remon[t] = "recheck"
  /\ HasExitFile(t)
  /\ RemonitorSettles(t, FinalStatus(code[t]), FinalCallback(code[t]))
  /\ UNCHANGED chan

RecheckFindsNothing(t) ==
  /\ remon[t] = "recheck"
  /\ ~HasExitFile(t) \/ "ssh" \in Faults
  /\ RemonitorSettles(t, "failed", "OnFailure")
  /\ UNCHANGED chan

\* The monitor's result arrives: only its exit code is looked at.
RemonitorReceives(t) ==
  /\ remon[t] = "watching"
  /\ chan[t] # NoResult
  /\ RemonitorSettles(t, FinalStatus(chan[t].exit), FinalCallback(chan[t].exit))
  /\ chan' = [chan EXCEPT ![t] = NoResult]

\* An error of the callback is only logged.
RemonitorNotifies(t) ==
  /\ remon[t] = "notify"
  /\ calls' = [calls EXCEPT ![t] = Append(@, owed[t])]
  /\ owed' = [owed EXCEPT ![t] = NoCallback]
  /\ remon' = [remon EXCEPT ![t] = "off"]
  /\ UNCHANGED <<mode, row, runner, scriptVars, monitor, chan>>
  /\ UNCHANGED <<worker, crashes, todo, visit, lost>>

-----------------------------------------------------------------------------
VisitStep(t) ==
  \/ Visit(t) \/ VisitUnreachable(t) \/ VisitFindsExitFile(t) \/ VisitFindsNoExitFile(t)
  \/ VisitFindsRecentOutput(t) \/ VisitFindsStaleOutput(t) \/ VisitMarksFailed(t)
  \/ VisitNotifies(t) \/ VisitNotifiesFailure(t)

RemonitorStep(t) ==
  \/ RemonitorFails(t) \/ RecheckFindsExitFile(t) \/ RecheckFindsNothing(t)
  \/ RemonitorReceives(t) \/ RemonitorNotifies(t)

\* Jobs are consumed, and so tasks created, only by a worker that is up.
NewTask(t) == worker = "up" /\ Create(t) /\ UNCHANGED recoveryVars
Runner(t) == worker = "up" /\ RunnerStep(t) /\ UNCHANGED recoveryVars

\* A dial that fails is the recoverer's to handle where the recoverer attached.
Monitor(t) ==
  /\ \/ remon[t] # "watching" /\ MonitorFails(t)
     \/ MonitorStep(t)
  /\ UNCHANGED recoveryVars

Script(t) == ScriptStep(t) /\ UNCHANGED recoveryVars

\* Every task was created and nothing that belongs to one still runs.
Terminated ==
  /\ worker = "up"
  /\ \A t \in Tasks :
       /\ runner[t] = "gone" /\ monitor[t] = "off" /\ remon[t] = "off"
       /\ script[t] \in {"absent", "marked", "dead"} \cup
                        IF mode[t] = "background" THEN {} ELSE {"exited"}
  /\ UNCHANGED vars

Next ==
  \/ Crash \/ Boot \/ BootDone \/ Terminated
  \/ \E t \in Tasks :
       \/ NewTask(t) \/ Runner(t) \/ Monitor(t) \/ Script(t)
       \/ VisitStep(t) \/ RemonitorStep(t)

Spec == Init /\ [][Next]_vars

(***************************************************************************)
(* Goroutines are scheduled, contexts have deadlines, and whoever runs the *)
(* worker restarts it.  Nothing is assumed of the script or of the job     *)
(* that would create a task.                                               *)
(***************************************************************************)
Fairness ==
  /\ WF_vars(Boot) /\ WF_vars(BootDone)
  /\ \A t \in Tasks :
       /\ WF_vars(Runner(t))
       /\ WF_vars(Monitor(t))
       /\ WF_vars(VisitStep(t))
       /\ WF_vars(RemonitorStep(t))

FairSpec == Spec /\ Fairness

-----------------------------------------------------------------------------
(* Properties.                                                             *)

\* The callbacks of a log that report a success or a timeout report exit code c.
ReportsTruly(log, c) ==
  \A i \in 1..Len(log) : /\ log[i] = "OnSuccess" => c = 0
                         /\ log[i] = "OnExpired" => c = 124

\* Nothing is ever reported as a success that the server did not run to a zero
\* exit code, and nothing as timed out that timeout(1) did not end: neither a
\* lost connection, a deadline nor a restart between the script's exit and the
\* marker turns into a verdict of its own (updateTaskModel, invokeTaskCallbacks,
\* finalizeCompletedTask, invokeCallbacks).
VerdictIsTheScripts ==
  \A t \in Tasks :
    /\ row[t] = "finished" => code[t] = 0
    /\ row[t] = "timeout" => code[t] = 124
    /\ ReportsTruly(calls[t], code[t])

\* The callback that belongs to a recorded status.
CallbackFor(s) ==
  IF s = "finished" THEN "OnSuccess" ELSE IF s = "timeout" THEN "OnExpired" ELSE "OnFailure"

\* Once a row is terminal, its last callback is the one its status calls for,
\* unless that callback is about to be invoked or a crash hit the window between
\* db.Save and handleTaskCompletion (or invokeCallbacks): no other path, deadline
\* or failed write loses a callback or leaves the last one contradicting the row.
NotifiedAsRecorded ==
  \A t \in Tasks : row[t] \in Terminal =>
    \/ Owing(t) \/ lost[t]
    \/ /\ calls[t] # << >>
       /\ calls[t][Len(calls[t])] = CallbackFor(row[t])

\* A running row always has somebody who will settle it: a goroutine of the
\* runner, the recovery loop, a re-monitor, or the next boot.
RunningIsOwned ==
  \A t \in Tasks : row[t] = "running" =>
    \/ runner[t] \in {"marked", "launched", "waiting"}
    \/ worker = "down" \/ t \in todo \/ visit[t] # "no"
    \/ remon[t] = "recheck"
    \/ remon[t] = "watching" /\ (monitor[t] # "off" \/ chan[t] # NoResult)

\* A terminal row is never rewritten: db.Save is unconditional everywhere, so
\* this rests on no two goroutines ever settling the same row.
TerminalIsFinal ==
  [][\A t \in Tasks : row[t] \in Terminal => row'[t] = row[t]]_vars

\* A row that is running becomes terminal, whatever the script, the connection
\* or the worker do ("without allowing a missing terminal marker to leave the
\* persisted action running", runLongRunning).
RunningSettles ==
  \A t \in Tasks : row[t] = "running" ~> row[t] \in Terminal

\* A worker whose row writes and callbacks succeed keeps the promise that
\* TrackedTask states, across lost connections, deadlines, dead scripts and
\* restarts: the composition of Run, RunAsync, RunInBackground, the monitor and
\* RecoverOrphanedTasks implements it.
Promise == INSTANCE TrackedTask
KeepsPromise == Promise!Spec

-----------------------------------------------------------------------------
(* The inductive invariant behind the safety properties.                   *)

\* At most one actor at a time can write a row: the runner, the recovery loop or
\* the goroutine of a re-monitor.
OneWriter(t) ==
  /\ runner[t] \notin {"idle", "gone"} => worker = "up"
  /\ worker # "booting" => t \notin todo /\ visit[t] = "no"
  /\ worker = "down" => remon[t] = "off"
  /\ t \in todo \/ visit[t] # "no" \/ remon[t] # "off" => runner[t] = "gone"
  /\ t \in todo => visit[t] = "no" /\ remon[t] = "off"
  /\ visit[t] # "no" => remon[t] = "off"

\* What each of them knows of the row it is about to write.
RowIsKnown(t) ==
  /\ row[t] = "none" <=> runner[t] = "idle"
  /\ runner[t] = "created" => row[t] = "pending"
  /\ runner[t] \in {"marked", "launched", "waiting"} => row[t] = "running"
  /\ t \in todo => row[t] = "running"
  /\ visit[t] \in {"exitfile", "output", "lost"} => row[t] = "running"
  /\ visit[t] = "fail" => row[t] = "running" \/ "callback" \in Faults
  /\ remon[t] \in {"watching", "recheck"} => row[t] = "running"

\* The script runs once, and its exit code is set once, when it ends.
CodeIsSetOnce(t) ==
  /\ runner[t] \in {"idle", "created", "marked"} => script[t] = "absent"
  /\ script[t] \in {"absent", "running"} => code[t] = NoCode
  /\ script[t] \in {"exited", "coded", "marked"} => code[t] \in Codes

\* A verdict in flight is already the script's.
PendingVerdict(t) ==
  /\ chan[t].exit \in {0, 124} => chan[t].exit = code[t]
  /\ ~chan[t].timedOut
  /\ owed[t] = "OnSuccess" => code[t] = 0
  /\ owed[t] = "OnExpired" => code[t] = 124

\* The callback in flight is the one of the recorded status.
PendingCallback(t) ==
  /\ Owing(t) => owed[t] \in Callbacks
  /\ Owing(t) /\ row[t] \in Terminal => lost[t] \/ owed[t] = CallbackFor(row[t])

\* Without failed writes and failed callbacks a callback follows its status and
\* is the task's only one.
CallbackFollowsStatus(t) ==
  Faults \cap {"db", "callback"} = {} =>
    /\ row[t] \notin Terminal => ~Owing(t) /\ calls[t] = << >>
    /\ Owing(t) => calls[t] = << >> /\ owed[t] = CallbackFor(row[t])

IndInv ==
  /\ TypeOK
  /\ VerdictIsTheScripts
  /\ NotifiedAsRecorded
  /\ \A t \in Tasks :
       /\ OneWriter(t) /\ RowIsKnown(t) /\ CodeIsSetOnce(t)
       /\ PendingVerdict(t) /\ PendingCallback(t) /\ CallbackFollowsStatus(t)

\* While writes succeed, a recovery that owes a callback has settled the row.
VisitHasSettled ==
  \A t \in Tasks : visit[t] \in {"notify", "failnotify"} => row[t] \in Terminal

WatchInv == IndInv /\ RunningIsOwned /\ VisitHasSettled
=============================================================================
