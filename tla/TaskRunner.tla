----------------------------- MODULE TaskRunner -----------------------------
(***************************************************************************)
(* Tracked remote tasks of a worker that stays up.                         *)
(*                                                                         *)
(* A tracked task is a row of the tasks table, a script on a managed       *)
(* server and the goroutines that tie one to the other: the runner         *)
(* (internal/modules/server/tasks/runner.go), the dispatcher and the       *)
(* stream monitor (internal/pkg/taskrunner).  Every statement that the     *)
(* database, the server or another goroutine can observe is a step of its  *)
(* own, so a row may be saved and its callback still be owed.              *)
(*                                                                         *)
(* TaskRecovery adds the worker's crashes and what its next boot does.     *)
(***************************************************************************)
EXTENDS Integers, Sequences

CONSTANTS
  Tasks,     \* the rows that may be created
  Faults     \* the kinds of failure the environment may inject

(***************************************************************************)
(*   ssh       a dial, an upload, a command or a stream fails              *)
(*   db        a write of a task row fails                                 *)
(*   callback  OnSuccess, OnFailure or OnExpired returns an error          *)
(*   host      the managed server loses the script before it reports       *)
(*   crash     the worker process dies                                     *)
(***************************************************************************)
FaultKinds == {"ssh", "db", "callback", "host", "crash"}

ASSUME FaultsAssumption == Faults \subseteq FaultKinds

-----------------------------------------------------------------------------
(* Values.                                                                 *)

\* models/task.go and types: the status column, "none" before the row exists.
Terminal == {"finished", "failed", "timeout"}
RowStatus == {"none", "pending", "running"} \cup Terminal

\* Run, RunAsync and RunInBackground.
Modes == {"sync", "async", "background"}

\* What the script's shell can report: success, failure, and the 124 of timeout(1).
Codes == {0, 1, 124}
NoCode == -1

Callbacks == {"OnSuccess", "OnFailure", "OnExpired"}
NoCallback == "none"

\* TaskResult, reduced to the fields that decide the verdict.
Results == [exit : Codes, timedOut : BOOLEAN, error : BOOLEAN]
NoResult == [exit |-> NoCode, timedOut |-> FALSE, error |-> FALSE]

\* TaskResult.IsSuccessful
IsSuccessful(r) == r.exit = 0 /\ ~r.timedOut /\ ~r.error

\* The status updateTaskModel writes for a result.
StatusOf(r) ==
  IF r.timedOut THEN "timeout" ELSE IF IsSuccessful(r) THEN "finished" ELSE "failed"

\* Mutant of CallbackOf: no branch for a result that timed out.
CallbackOfNoExpiry(r) ==
  IF IsSuccessful(r) THEN "OnSuccess" ELSE IF r.timedOut THEN NoCallback ELSE "OnFailure"

\* The callback invokeTaskCallbacks picks for a result.
CallbackOf(r) ==
  IF IsSuccessful(r) THEN "OnSuccess" ELSE IF r.timedOut THEN "OnExpired" ELSE "OnFailure"

\* runRemoteForeground: the exit status of the SSH command is the script's.
ForegroundResult(c) == [exit |-> c, timedOut |-> c = 124, error |-> FALSE]

\* runRemoteForeground when client.Run returns an error: no exit status came.
BrokenForegroundResult == [exit |-> 0, timedOut |-> FALSE, error |-> TRUE]

\* handleMarker: the final status that an exit_code marker stands for.
MarkerStatus(c) == IF c = 0 THEN "finished" ELSE "failed"

\* ToTaskResult of what MonitorBackgroundTask reports once it saw the marker.
MarkerResult(c) ==
  [exit |-> c, timedOut |-> MarkerStatus(c) = "timeout", error |-> FALSE]

\* Mutant of BrokenMonitorResult: the exit code is left at its zero value.
BrokenMonitorResultZero == [exit |-> 0, timedOut |-> FALSE, error |-> TRUE]

\* The monitor's result when its connection or its context ends first, and the
\* dispatcher's when the monitor could not even be attached.
BrokenMonitorResult == [exit |-> 1, timedOut |-> FALSE, error |-> TRUE]

-----------------------------------------------------------------------------
VARIABLES
  mode,      \* mode[t]: how the runner executes t
  row,       \* row[t]: the status column of the task's row
  runner,    \* runner[t]: where the runner's goroutine is
  owed,      \* owed[t]: the callback the runner has yet to invoke
  calls,     \* calls[t]: the callbacks that were invoked, in order
  script,    \* script[t]: the script on the managed server
  code,      \* code[t]: the exit code the script ended with
  monitor,   \* monitor[t]: the entry of activeStreams and how far it got
  chan       \* chan[t]: completionChan, a channel with room for one result

runnerVars == <<mode, runner, owed>>
scriptVars == <<script, code>>
taskVars == <<mode, row, runner, owed, calls, script, code, monitor, chan>>

RunnerPC == {"idle", "created", "marked", "launched", "waiting", "settled", "gone"}
MonitorPC == {"off", "dialing", "tailing"}

\* "exited" before the exit code file, "coded" once it is written, "marked" once
\* the exit_code marker is in the output too; "dead" if the host lost the script.
ScriptState == {"absent", "running", "exited", "coded", "marked", "dead"}

TaskTypeOK ==
  /\ mode \in [Tasks -> Modes]
  /\ row \in [Tasks -> RowStatus]
  /\ runner \in [Tasks -> RunnerPC]
  /\ owed \in [Tasks -> Callbacks \cup {NoCallback}]
  /\ calls \in [Tasks -> Seq(Callbacks)]
  /\ script \in [Tasks -> ScriptState]
  /\ code \in [Tasks -> Codes \cup {NoCode}]
  /\ monitor \in [Tasks -> MonitorPC]
  /\ chan \in [Tasks -> Results \cup {NoResult}]

TaskInit ==
  /\ mode \in [Tasks -> Modes]
  /\ row = [t \in Tasks |-> "none"]
  /\ runner = [t \in Tasks |-> "idle"]
  /\ owed = [t \in Tasks |-> NoCallback]
  /\ calls = [t \in Tasks |-> << >>]
  /\ script = [t \in Tasks |-> "absent"]
  /\ code = [t \in Tasks |-> NoCode]
  /\ monitor = [t \in Tasks |-> "off"]
  /\ chan = [t \in Tasks |-> NoResult]

-----------------------------------------------------------------------------
(* The runner.                                                             *)

\* Whether a write of the row succeeds; its error is logged, never propagated.
Saves == {TRUE} \cup IF "db" \in Faults THEN {FALSE} ELSE {}

\* db.Save of the whole row with status s.
SaveRow(t, s) ==
  \E saved \in Saves : row' = [row EXCEPT ![t] = IF saved THEN s ELSE @]

\* The row is saved; handleTaskCompletion comes next.
Settle(t, s, cb) ==
  /\ SaveRow(t, s)
  /\ runner' = [runner EXCEPT ![t] = "settled"]
  /\ owed' = [owed EXCEPT ![t] = cb]
  /\ UNCHANGED mode

\* failTrackedTask
FailTracked(t) == Settle(t, "failed", "OnFailure")

\* updateTaskModel, then handleTaskCompletion with the same result.
SettleWith(t, r) == Settle(t, StatusOf(r), CallbackOf(r))

\* createTaskModel
Create(t) ==
  /\ runner[t] = "idle"
  /\ row[t] = "none"
  /\ row' = [row EXCEPT ![t] = "pending"]
  /\ runner' = [runner EXCEPT ![t] = "created"]
  /\ UNCHANGED <<mode, owed, calls, scriptVars, monitor, chan>>

\* The row is set to running: under WHERE status = pending by Run, without a
\* condition by RunAsync and RunInBackground.
MarkRunning(t) ==
  /\ runner[t] = "created"
  /\ row' = [row EXCEPT ![t] =
               IF mode[t] = "sync" /\ @ # "pending" THEN @ ELSE "running"]
  /\ runner' = [runner EXCEPT ![t] = "marked"]
  /\ UNCHANGED <<mode, owed, calls, scriptVars, monitor, chan>>

\* The write above fails.
MarkRunningFails(t) ==
  /\ "db" \in Faults
  /\ runner[t] = "created"
  /\ FailTracked(t)
  /\ UNCHANGED <<calls, scriptVars, monitor, chan>>

\* getConnection: Run asks for it after the row is running, RunAsync and
\* RunInBackground before.
NoConnection(t) ==
  /\ "ssh" \in Faults
  /\ runner[t] = IF mode[t] = "sync" THEN "marked" ELSE "created"
  /\ FailTracked(t)
  /\ UNCHANGED <<calls, scriptVars, monitor, chan>>

\* runRemote: the dial, the mkdir or the upload fails; the script never starts.
DispatchFails(t) ==
  /\ "ssh" \in Faults
  /\ runner[t] = "marked"
  /\ FailTracked(t)
  /\ UNCHANGED <<calls, scriptVars, monitor, chan>>

\* The command that starts the script reaches the server.
Launch(t) ==
  /\ runner[t] = "marked"
  /\ script' = [script EXCEPT ![t] = "running"]
  /\ runner' = [runner EXCEPT ![t] = "launched"]
  /\ UNCHANGED <<mode, row, owed, calls, code, monitor, chan>>

\* runRemoteBackground: the shell answers with a PID; the monitor goroutine is
\* spawned and the runner waits for its result.
BackgroundStarted(t) ==
  /\ mode[t] = "background"
  /\ runner[t] = "launched"
  /\ runner' = [runner EXCEPT ![t] = "waiting"]
  /\ monitor' = [monitor EXCEPT ![t] = "dialing"]
  /\ UNCHANGED <<mode, row, owed, calls, scriptVars, chan>>

\* runRemoteBackground: nohup was sent but its answer is lost, empty or no PID.
BackgroundStartLost(t) ==
  /\ "ssh" \in Faults
  /\ mode[t] = "background"
  /\ runner[t] = "launched"
  /\ FailTracked(t)
  /\ UNCHANGED <<calls, scriptVars, monitor, chan>>

\* runRemoteForeground: the SSH command ends with the script's exit status.
ForegroundReturns(t) ==
  /\ mode[t] # "background"
  /\ runner[t] = "launched"
  /\ script[t] = "exited"
  /\ SettleWith(t, ForegroundResult(code[t]))
  /\ UNCHANGED <<calls, scriptVars, monitor, chan>>

\* runRemoteForeground: the connection breaks or the context's deadline passes.
ForegroundBreaks(t) ==
  /\ mode[t] # "background"
  /\ runner[t] = "launched"
  /\ SettleWith(t, BrokenForegroundResult)
  /\ UNCHANGED <<calls, scriptVars, monitor, chan>>

\* runLongRunning: the select takes the monitor's result.
Receive(t) ==
  /\ runner[t] = "waiting"
  /\ chan[t] # NoResult
  /\ SettleWith(t, chan[t])
  /\ chan' = [chan EXCEPT ![t] = NoResult]
  /\ UNCHANGED <<calls, scriptVars, monitor>>

\* Mutant of DeadlinePasses: the goroutine returns without failing the row.
DeadlineIgnored(t) ==
  /\ runner[t] = "waiting"
  /\ runner' = [runner EXCEPT ![t] = "gone"]
  /\ UNCHANGED <<mode, row, owed, calls, scriptVars, monitor, chan>>

\* Mutant of DeadlinePasses: the row is failed but the return is missing, so a
\* result that comes later is still taken.
DeadlineFallsThrough(t) ==
  /\ runner[t] = "waiting"
  /\ row' = [row EXCEPT ![t] = "failed"]
  /\ UNCHANGED <<mode, runner, owed, calls, scriptVars, monitor, chan>>

\* runLongRunning: the select takes bgCtx.Done, even if a result is there too.
DeadlinePasses(t) ==
  /\ runner[t] = "waiting"
  /\ FailTracked(t)
  /\ UNCHANGED <<calls, scriptVars, monitor, chan>>

\* handleTaskCompletion: an error of the callback is only logged.
Notify(t) ==
  /\ runner[t] = "settled"
  /\ calls' = [calls EXCEPT ![t] = Append(@, owed[t])]
  /\ owed' = [owed EXCEPT ![t] = NoCallback]
  /\ runner' = [runner EXCEPT ![t] = "gone"]
  /\ UNCHANGED <<mode, row, scriptVars, monitor, chan>>

-----------------------------------------------------------------------------
(* MonitorBackgroundTask, for whoever attached it.                         *)

\* The dial fails: the dispatcher reports a failed result in its place.
MonitorFails(t) ==
  /\ "ssh" \in Faults
  /\ monitor[t] = "dialing"
  /\ monitor' = [monitor EXCEPT ![t] = "off"]
  /\ chan' = [chan EXCEPT ![t] = BrokenMonitorResult]
  /\ UNCHANGED <<runnerVars, row, calls, scriptVars>>

\* tail -n +1 -f of the output starts.
MonitorAttaches(t) ==
  /\ monitor[t] = "dialing"
  /\ monitor' = [monitor EXCEPT ![t] = "tailing"]
  /\ UNCHANGED <<runnerVars, row, calls, scriptVars, chan>>

\* The exit_code marker is read from the output.
MonitorSeesMarker(t) ==
  /\ monitor[t] = "tailing"
  /\ script[t] = "marked"
  /\ monitor' = [monitor EXCEPT ![t] = "off"]
  /\ chan' = [chan EXCEPT ![t] = MarkerResult(code[t])]
  /\ UNCHANGED <<runnerVars, row, calls, scriptVars>>

\* Mutant of MonitorBreaks: nothing is sent on the completion channel.
MonitorBreaksSilently(t) ==
  /\ monitor[t] = "tailing"
  /\ monitor' = [monitor EXCEPT ![t] = "off"]
  /\ UNCHANGED <<runnerVars, row, calls, scriptVars, chan>>

\* The stream breaks or the monitor's own deadline passes.
MonitorBreaks(t) ==
  /\ monitor[t] = "tailing"
  /\ monitor' = [monitor EXCEPT ![t] = "off"]
  /\ chan' = [chan EXCEPT ![t] = BrokenMonitorResult]
  /\ UNCHANGED <<runnerVars, row, calls, scriptVars>>

-----------------------------------------------------------------------------
(* The managed server: the shell line that runRemoteBackground or          *)
(* runRemoteForeground sent.                                               *)

ScriptExits(t) ==
  /\ script[t] = "running"
  /\ script' = [script EXCEPT ![t] = "exited"]
  /\ \E c \in Codes : code' = [code EXCEPT ![t] = c]
  /\ UNCHANGED <<runnerVars, row, calls, monitor, chan>>

\* echo $EXIT_CODE > exit_code file; only the background line writes one.
ScriptWritesExitFile(t) ==
  /\ mode[t] = "background"
  /\ script[t] = "exited"
  /\ script' = [script EXCEPT ![t] = "coded"]
  /\ UNCHANGED <<runnerVars, row, calls, code, monitor, chan>>

\* echo "::LAUNCH::exit_code::$EXIT_CODE" >> output
ScriptWritesMarker(t) ==
  /\ script[t] = "coded"
  /\ script' = [script EXCEPT ![t] = "marked"]
  /\ UNCHANGED <<runnerVars, row, calls, code, monitor, chan>>

\* The server reboots or kills the shell: nothing more is written.
ScriptDies(t) ==
  /\ "host" \in Faults
  /\ script[t] \in {"running", "exited"}
  /\ script' = [script EXCEPT ![t] = "dead"]
  /\ UNCHANGED <<runnerVars, row, calls, code, monitor, chan>>

-----------------------------------------------------------------------------
RunnerStep(t) ==
  \/ MarkRunning(t) \/ MarkRunningFails(t) \/ NoConnection(t)
  \/ DispatchFails(t) \/ Launch(t) \/ BackgroundStarted(t) \/ BackgroundStartLost(t)
  \/ ForegroundReturns(t) \/ ForegroundBreaks(t)
  \/ Receive(t) \/ DeadlinePasses(t) \/ Notify(t)

MonitorStep(t) ==
  \/ MonitorAttaches(t) \/ MonitorSeesMarker(t) \/ MonitorBreaks(t)

ScriptStep(t) ==
  \/ ScriptExits(t) \/ ScriptWritesExitFile(t) \/ ScriptWritesMarker(t) \/ ScriptDies(t)
=============================================================================
