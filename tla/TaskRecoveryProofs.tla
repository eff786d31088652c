------------------------- MODULE TaskRecoveryProofs -------------------------
(***************************************************************************)
(* Theorems about TaskRecovery, for every set of tasks, every choice of    *)
(* faults and every number of crashes.                                     *)
(***************************************************************************)
EXTENDS TaskRecovery, SequenceTheorems, TLAPS

\* The results that travel over completionChan are well formed.
LEMMA ResultTypes ==
  /\ BrokenMonitorResult \in Results
  /\ \A c \in Codes : MarkerResult(c) \in Results
  /\ \A c \in Codes : ForegroundResult(c) \in Results
  /\ BrokenForegroundResult \in Results
  /\ \A r \in Results : StatusOf(r) \in Terminal /\ CallbackOf(r) \in Callbacks
  /\ NoResult \notin Results
BY DEF BrokenMonitorResult, MarkerResult, MarkerStatus, ForegroundResult,
       BrokenForegroundResult, Results, StatusOf, CallbackOf, IsSuccessful, Terminal,
       Callbacks, Codes, NoResult, NoCode

\* finalizeCompletedTask and invokeCallbacks pick a status and a callback.
LEMMA FinalTypes ==
  \A c \in Codes \cup {NoCode} : FinalStatus(c) \in Terminal /\ FinalCallback(c) \in Callbacks
BY DEF FinalStatus, FinalCallback, Codes, NoCode, Terminal, Callbacks

\* The callback the code picks for a status it derives from a result or an exit
\* code is the one that belongs to that status.
LEMMA VerdictsAgree ==
  /\ \A r \in Results : CallbackOf(r) = CallbackFor(StatusOf(r))
  /\ \A r \in Results : StatusOf(r) = "finished" => r.exit = 0
  /\ \A r \in Results : StatusOf(r) = "timeout" => r.timedOut
  /\ \A s \in Terminal : CallbackFor(s) \in Callbacks
  /\ \A s \in Terminal : CallbackFor(s) = "OnSuccess" => s = "finished"
  /\ \A s \in Terminal : CallbackFor(s) = "OnExpired" => s = "timeout"
  /\ \A c \in Codes : FinalCallback(c) = CallbackFor(FinalStatus(c))
  /\ \A c \in Codes : FinalStatus(c) = "finished" => c = 0
  /\ \A c \in Codes : FinalStatus(c) = "timeout" => c = 124
BY DEF CallbackOf, StatusOf, IsSuccessful, CallbackFor, FinalCallback, FinalStatus,
       Results, Codes, Callbacks, Terminal

\* Settle, by whichever path the runner came to it, preserves the invariant: the
\* runner is the only one to write the row and its verdict is the script's.
LEMMA SettleInd ==
  ASSUME IndInv, NEW t \in Tasks, NEW s \in Terminal,
         worker = "up",
         runner[t] \in {"created", "marked", "launched", "waiting"},
         s = "finished" => code[t] = 0,
         s = "timeout" => code[t] = 124,
         runner[t] = "created" => s = "failed",
         Settle(t, s, CallbackFor(s)),
         chan' = chan \/ chan' = [chan EXCEPT ![t] = NoResult],
         UNCHANGED <<calls, scriptVars, monitor, recoveryVars>>
  PROVE  IndInv'
<1> USE DEF IndInv, scriptVars, recoveryVars, Settle, SaveRow
<1>0. CallbackFor(s) \in Callbacks
  BY VerdictsAgree
<1>1. TypeOK'
  <2>1. row' \in [Tasks -> RowStatus]
    BY DEF TypeOK, TaskTypeOK, RowStatus
  <2>2. runner' \in [Tasks -> RunnerPC]
    BY DEF TypeOK, TaskTypeOK, RunnerPC
  <2>3. owed' \in [Tasks -> Callbacks \cup {NoCallback}]
    BY <1>0 DEF TypeOK, TaskTypeOK
  <2>4. chan' \in [Tasks -> Results \cup {NoResult}]
    <3>1. chan \in [Tasks -> Results \cup {NoResult}]
      BY DEF TypeOK, TaskTypeOK
    <3>2. CASE chan' = chan
      BY <3>1, <3>2
    <3>3. CASE chan' = [chan EXCEPT ![t] = NoResult]
      BY <3>1, <3>3
    <3> QED
      BY <3>2, <3>3
  <2> QED
    BY <2>1, <2>2, <2>3, <2>4 DEF TypeOK, TaskTypeOK
<1>2. VerdictIsTheScripts'
  BY DEF VerdictIsTheScripts, TypeOK, TaskTypeOK
<1>3. NotifiedAsRecorded'
  BY DEF NotifiedAsRecorded, Owing, TypeOK, TaskTypeOK
<1>4. \A u \in Tasks : OneWriter(u)' /\ RowIsKnown(u)'
  BY DEF OneWriter, RowIsKnown, TypeOK, TaskTypeOK, Terminal
<1>5. \A u \in Tasks : CodeIsSetOnce(u)'
  BY DEF CodeIsSetOnce, TypeOK, TaskTypeOK
<1>6. \A u \in Tasks : PendingVerdict(u)'
  BY VerdictsAgree DEF PendingVerdict, TypeOK, TaskTypeOK, NoResult, NoCode
<1>7. \A u \in Tasks : PendingCallback(u)'
  BY <1>0 DEF PendingCallback, OneWriter, RowIsKnown, Owing, TypeOK, TaskTypeOK, Terminal
<1>8. \A u \in Tasks : CallbackFollowsStatus(u)'
  <2>1. Faults \cap {"db", "callback"} = {} => row' = [row EXCEPT ![t] = s]
    BY DEF Saves
  <2>2. row[t] \notin Terminal
    BY DEF RowIsKnown, Terminal
  <2> QED
    BY <2>1, <2>2 DEF CallbackFollowsStatus, Owing, TypeOK, TaskTypeOK
<1> QED
  BY <1>1, <1>2, <1>3, <1>4, <1>5, <1>6, <1>7, <1>8
\* One more callback in the log of t: it is the last one there, and if it reports
\* a success or a timeout then so did the script.
LEMMA NotifyCalls ==
  ASSUME IndInv, NEW t \in Tasks, Owing(t),
         calls' = [calls EXCEPT ![t] = Append(@, owed[t])]
  PROVE  /\ calls' \in [Tasks -> Seq(Callbacks)]
         /\ calls'[t] # << >> /\ calls'[t][Len(calls'[t])] = owed[t]
         /\ \A u \in Tasks : u # t => calls'[u] = calls[u]
         /\ \A u \in Tasks : ReportsTruly(calls'[u], code[u])
<1>1. calls[t] \in Seq(Callbacks) /\ owed[t] \in Callbacks
  BY DEF IndInv, TypeOK, TaskTypeOK, PendingCallback
<1>2. calls \in [Tasks -> Seq(Callbacks)]
  BY DEF IndInv, TypeOK, TaskTypeOK
<1>3. calls'[t] = Append(calls[t], owed[t])
  BY <1>2
<1>4. /\ calls'[t] \in Seq(Callbacks) /\ calls'[t] # << >>
      /\ calls'[t][Len(calls'[t])] = owed[t]
  BY <1>1, <1>3
<1>5. \A i \in 1..Len(calls'[t]) :
        \/ calls'[t][i] = owed[t]
        \/ i \in 1..Len(calls[t]) /\ calls'[t][i] = calls[t][i]
  <2>1. /\ Len(calls'[t]) = Len(calls[t]) + 1
        /\ \A i \in 1..Len(calls[t]) : calls'[t][i] = calls[t][i]
    BY <1>1, <1>3, AppendProperties
  <2>2. Len(calls[t]) \in Nat
    BY <1>1, LenProperties
  <2> QED
    BY <1>4, <2>1, <2>2
<1>6. \A u \in Tasks : u # t => calls'[u] = calls[u]
  BY <1>2
<1>7. calls' \in [Tasks -> Seq(Callbacks)]
  BY <1>1, <1>2, <1>3, <1>4
<1>8. ReportsTruly(calls'[t], code[t])
  <2>1. /\ owed[t] = "OnSuccess" => code[t] = 0
        /\ owed[t] = "OnExpired" => code[t] = 124
        /\ ReportsTruly(calls[t], code[t])
    BY DEF IndInv, VerdictIsTheScripts, PendingVerdict
  <2> QED
    BY <1>5, <2>1 DEF ReportsTruly
<1>9. \A u \in Tasks : ReportsTruly(calls'[u], code[u])
  BY <1>6, <1>8 DEF IndInv, VerdictIsTheScripts
<1> QED
  BY <1>4, <1>6, <1>7, <1>9

\* Invoking the callback that is owed preserves the invariant, whoever owes it.
LEMMA NotifyInd ==
  ASSUME IndInv, NEW t \in Tasks, Owing(t),
         calls' = [calls EXCEPT ![t] = Append(@, owed[t])],
         owed' = [owed EXCEPT ![t] = NoCallback],
         UNCHANGED <<mode, row, scriptVars, monitor, chan>>,
         UNCHANGED <<worker, crashes, todo, lost>>,
         runner' \in [Tasks -> RunnerPC],
         visit' \in [Tasks -> VisitPC],
         remon' \in [Tasks -> RemonPC],
         ~Owing(t)',
         \A u \in Tasks : u # t => (Owing(u)' <=> Owing(u)),
         \A u \in Tasks : OneWriter(u)' /\ RowIsKnown(u)' /\ CodeIsSetOnce(u)'
  PROVE  IndInv'
<1> USE DEF scriptVars
<1>1. TypeOK'
  BY NotifyCalls DEF IndInv, TypeOK, TaskTypeOK
<1>2. VerdictIsTheScripts'
  BY NotifyCalls DEF IndInv, VerdictIsTheScripts
<1>3. NotifiedAsRecorded'
  <2> SUFFICES ASSUME NEW u \in Tasks, row[u] \in Terminal
               PROVE  \/ Owing(u)' \/ lost[u]
                      \/ /\ calls'[u] # << >>
                         /\ calls'[u][Len(calls'[u])] = CallbackFor(row[u])
    BY DEF NotifiedAsRecorded
  <2>1. CASE u = t
    BY <2>1, NotifyCalls DEF IndInv, PendingCallback
  <2>2. CASE u # t
    BY <2>2, NotifyCalls DEF IndInv, NotifiedAsRecorded
  <2> QED
    BY <2>1, <2>2
<1>4. \A u \in Tasks : PendingVerdict(u)' /\ PendingCallback(u)'
  BY DEF IndInv, PendingVerdict, PendingCallback, TypeOK, TaskTypeOK, NoCallback
<1>5. \A u \in Tasks : CallbackFollowsStatus(u)'
  BY NotifyCalls DEF IndInv, CallbackFollowsStatus, TypeOK, TaskTypeOK
<1> QED
  BY <1>1, <1>2, <1>3, <1>4, <1>5 DEF IndInv

\* Saving a true verdict during recovery preserves the invariant: the row was not
\* settled before, unless a callback failed.
LEMMA RecoverySettles ==
  ASSUME IndInv, NEW t \in Tasks, NEW s \in Terminal,
         s = "finished" => code[t] = 0,
         s = "timeout" => code[t] = 124,
         row[t] \notin Terminal \/ "callback" \in Faults,
         row' = [row EXCEPT ![t] = s],
         owed' = [owed EXCEPT ![t] = CallbackFor(s)],
         UNCHANGED <<mode, runner, calls, scriptVars, monitor>>,
         UNCHANGED <<worker, crashes, todo, lost>>,
         chan' \in [Tasks -> Results \cup {NoResult}],
         chan'[t] = chan[t] \/ chan'[t] = NoResult,
         \A u \in Tasks : u # t => chan'[u] = chan[u],
         visit' \in [Tasks -> VisitPC],
         remon' \in [Tasks -> RemonPC],
         Owing(t)',
         \A u \in Tasks : u # t => (Owing(u)' <=> Owing(u)),
         \A u \in Tasks : OneWriter(u)' /\ RowIsKnown(u)'
  PROVE  IndInv'
<1> USE DEF scriptVars
<1>1. TypeOK'
  BY VerdictsAgree DEF IndInv, TypeOK, TaskTypeOK, RowStatus
<1>2. VerdictIsTheScripts'
  BY DEF IndInv, VerdictIsTheScripts, TypeOK, TaskTypeOK
<1>3. NotifiedAsRecorded'
  BY DEF IndInv, NotifiedAsRecorded, TypeOK, TaskTypeOK
<1>4. \A u \in Tasks : CodeIsSetOnce(u)'
  BY DEF IndInv, CodeIsSetOnce
<1>5. \A u \in Tasks : PendingVerdict(u)'
  <2>1. NoResult.exit = -1 /\ ~NoResult.timedOut
    BY DEF NoResult, NoCode
  <2> QED
    BY <2>1, VerdictsAgree DEF IndInv, PendingVerdict, TypeOK, TaskTypeOK
<1>6. \A u \in Tasks : PendingCallback(u)'
  BY VerdictsAgree DEF IndInv, PendingCallback, TypeOK, TaskTypeOK
<1>7. \A u \in Tasks : CallbackFollowsStatus(u)'
  BY DEF IndInv, CallbackFollowsStatus, TypeOK, TaskTypeOK
<1> QED
  BY <1>1, <1>2, <1>3, <1>4, <1>5, <1>6, <1>7 DEF IndInv

\* A step of the runner's goroutine preserves the invariant.
LEMMA RunnerInd ==
  ASSUME IndInv, NEW t \in Tasks, NewTask(t) \/ Runner(t)
  PROVE  IndInv'
<1>1. CASE NewTask(t)
  BY <1>1 DEF IndInv, VerdictIsTheScripts, NotifiedAsRecorded, OneWriter, RowIsKnown,
     CodeIsSetOnce, PendingVerdict, PendingCallback, CallbackFollowsStatus, Owing,
     TypeOK, TaskTypeOK, scriptVars, recoveryVars, NewTask, Create, RowStatus, RunnerPC, Terminal
<1>2. CASE worker = "up" /\ MarkRunning(t) /\ UNCHANGED recoveryVars
  BY <1>2 DEF IndInv, VerdictIsTheScripts, NotifiedAsRecorded, OneWriter, RowIsKnown,
     CodeIsSetOnce, PendingVerdict, PendingCallback, CallbackFollowsStatus, Owing,
     TypeOK, TaskTypeOK, scriptVars, recoveryVars, MarkRunning, RowStatus, RunnerPC, Terminal
<1>3. CASE worker = "up" /\ MarkRunningFails(t) /\ UNCHANGED recoveryVars
  BY <1>3, SettleInd DEF MarkRunningFails, FailTracked, CallbackFor, Terminal
<1>4. CASE worker = "up" /\ NoConnection(t) /\ UNCHANGED recoveryVars
  BY <1>4, SettleInd DEF NoConnection, FailTracked, CallbackFor, Terminal
<1>5. CASE worker = "up" /\ DispatchFails(t) /\ UNCHANGED recoveryVars
  BY <1>5, SettleInd DEF DispatchFails, FailTracked, CallbackFor, Terminal
<1>6. CASE worker = "up" /\ BackgroundStartLost(t) /\ UNCHANGED recoveryVars
  BY <1>6, SettleInd DEF BackgroundStartLost, FailTracked, CallbackFor, Terminal
<1>7. CASE worker = "up" /\ DeadlinePasses(t) /\ UNCHANGED recoveryVars
  BY <1>7, SettleInd DEF DeadlinePasses, FailTracked, CallbackFor, Terminal
<1>8. CASE worker = "up" /\ Launch(t) /\ UNCHANGED recoveryVars
  BY <1>8 DEF IndInv, VerdictIsTheScripts, NotifiedAsRecorded, OneWriter, RowIsKnown,
     CodeIsSetOnce, PendingVerdict, PendingCallback, CallbackFollowsStatus, Owing,
     TypeOK, TaskTypeOK, scriptVars, recoveryVars, Launch, RunnerPC, ScriptState
<1>9. CASE worker = "up" /\ BackgroundStarted(t) /\ UNCHANGED recoveryVars
  BY <1>9 DEF IndInv, VerdictIsTheScripts, NotifiedAsRecorded, OneWriter, RowIsKnown,
     CodeIsSetOnce, PendingVerdict, PendingCallback, CallbackFollowsStatus, Owing,
     TypeOK, TaskTypeOK, scriptVars, recoveryVars, BackgroundStarted, RunnerPC, MonitorPC
<1>10. CASE worker = "up" /\ ForegroundReturns(t) /\ UNCHANGED recoveryVars
  <2> DEFINE r == ForegroundResult(code[t])
  <2>1. code[t] \in Codes
    BY <1>10 DEF ForegroundReturns, IndInv, CodeIsSetOnce
  <2>2. r \in Results /\ r.exit = code[t] /\ (r.timedOut => code[t] = 124)
    BY <2>1, ResultTypes DEF ForegroundResult
  <2>3. /\ StatusOf(r) \in Terminal
        /\ StatusOf(r) = "finished" => code[t] = 0
        /\ StatusOf(r) = "timeout" => code[t] = 124
        /\ CallbackOf(r) = CallbackFor(StatusOf(r))
    BY <2>2, VerdictsAgree, ResultTypes
  <2> QED
    BY <1>10, <2>3, SettleInd DEF ForegroundReturns, SettleWith
<1>11. CASE worker = "up" /\ ForegroundBreaks(t) /\ UNCHANGED recoveryVars
  <2>1. StatusOf(BrokenForegroundResult) = "failed"
    BY DEF BrokenForegroundResult, StatusOf, IsSuccessful
  <2>2. CallbackOf(BrokenForegroundResult) = CallbackFor("failed")
    BY <2>1, VerdictsAgree, ResultTypes
  <2> QED
    BY <1>11, <2>1, <2>2, SettleInd DEF ForegroundBreaks, SettleWith, Terminal
<1>12. CASE worker = "up" /\ Receive(t) /\ UNCHANGED recoveryVars
  <2>1. chan[t] \in Results
    BY <1>12 DEF Receive, IndInv, TypeOK, TaskTypeOK
  <2>2. /\ StatusOf(chan[t]) \in Terminal
        /\ StatusOf(chan[t]) = "finished" => code[t] = 0
        /\ StatusOf(chan[t]) = "timeout" => code[t] = 124
        /\ CallbackOf(chan[t]) = CallbackFor(StatusOf(chan[t]))
    BY <2>1, VerdictsAgree, ResultTypes DEF IndInv, PendingVerdict
  <2>3. /\ runner[t] = "waiting"
        /\ Settle(t, StatusOf(chan[t]), CallbackFor(StatusOf(chan[t])))
        /\ chan' = [chan EXCEPT ![t] = NoResult]
        /\ UNCHANGED <<calls, scriptVars, monitor, recoveryVars>>
    BY <1>12, <2>2 DEF Receive, SettleWith
  <2> QED
    BY <1>12, <2>2, <2>3, SettleInd
<1>13. CASE worker = "up" /\ Notify(t) /\ UNCHANGED recoveryVars
  <2>1. /\ Owing(t) /\ ~Owing(t)'
        /\ \A u \in Tasks : u # t => (Owing(u)' <=> Owing(u))
    BY <1>13 DEF Notify, recoveryVars, Goto, Owing, IndInv, OneWriter, TypeOK, TaskTypeOK,
         VisitPC, RemonPC, RunnerPC
  <2>2. /\ runner' \in [Tasks -> RunnerPC]
        /\ visit' \in [Tasks -> VisitPC]
        /\ remon' \in [Tasks -> RemonPC]
    BY <1>13 DEF Notify, recoveryVars, Goto, IndInv, TypeOK, TaskTypeOK, RunnerPC
  <2>3. \A u \in Tasks : OneWriter(u)' /\ RowIsKnown(u)' /\ CodeIsSetOnce(u)'
    BY <1>13 DEF Notify, recoveryVars, Goto, IndInv, OneWriter, RowIsKnown, CodeIsSetOnce,
         TypeOK, TaskTypeOK, scriptVars
  <2> QED
    BY <1>13, <2>1, <2>2, <2>3, NotifyInd DEF Notify, recoveryVars
<1> QED
  BY <1>1, <1>2, <1>3, <1>4, <1>5, <1>6, <1>7, <1>8, <1>9, <1>10, <1>11, <1>12, <1>13 DEF
       Runner, RunnerStep

\* A step of a monitor preserves the invariant.
LEMMA MonitorInd ==
  ASSUME IndInv, NEW t \in Tasks, Monitor(t)
  PROVE  IndInv'
<1>1. CASE remon[t] # "watching" /\ MonitorFails(t) /\ UNCHANGED recoveryVars
  BY <1>1, ResultTypes DEF IndInv, VerdictIsTheScripts, NotifiedAsRecorded, OneWriter, RowIsKnown,
     CodeIsSetOnce, PendingVerdict, PendingCallback, CallbackFollowsStatus, Owing,
     TypeOK, TaskTypeOK, scriptVars, recoveryVars, MonitorFails, runnerVars, MonitorPC,
     BrokenMonitorResult
<1>2. CASE MonitorAttaches(t) /\ UNCHANGED recoveryVars
  BY <1>2 DEF IndInv, VerdictIsTheScripts, NotifiedAsRecorded, OneWriter, RowIsKnown,
     CodeIsSetOnce, PendingVerdict, PendingCallback, CallbackFollowsStatus, Owing,
     TypeOK, TaskTypeOK, scriptVars, recoveryVars, MonitorAttaches, runnerVars, MonitorPC
<1>3. CASE MonitorSeesMarker(t) /\ UNCHANGED recoveryVars
  <2>1. code[t] \in Codes
    BY <1>3 DEF MonitorSeesMarker, IndInv, CodeIsSetOnce
  <2>2. /\ MarkerResult(code[t]) \in Results
        /\ MarkerResult(code[t]).exit = code[t]
        /\ ~MarkerResult(code[t]).timedOut
    BY <2>1, ResultTypes DEF MarkerResult, MarkerStatus
  <2> QED
    BY <1>3, <2>2 DEF MonitorSeesMarker, runnerVars, MonitorPC, IndInv, VerdictIsTheScripts,
         NotifiedAsRecorded, OneWriter, RowIsKnown,
     CodeIsSetOnce, PendingVerdict, PendingCallback, CallbackFollowsStatus, Owing,
     TypeOK, TaskTypeOK, scriptVars, recoveryVars
<1>4. CASE MonitorBreaks(t) /\ UNCHANGED recoveryVars
  BY <1>4, ResultTypes DEF IndInv, VerdictIsTheScripts, NotifiedAsRecorded, OneWriter, RowIsKnown,
     CodeIsSetOnce, PendingVerdict, PendingCallback, CallbackFollowsStatus, Owing,
     TypeOK, TaskTypeOK, scriptVars, recoveryVars, MonitorBreaks, runnerVars, MonitorPC,
     BrokenMonitorResult
<1> QED
  BY <1>1, <1>2, <1>3, <1>4 DEF Monitor, MonitorStep

\* A step of the script preserves the invariant.
LEMMA ScriptInd ==
  ASSUME IndInv, NEW t \in Tasks, Script(t)
  PROVE  IndInv'
<1>1. CASE ScriptExits(t) /\ UNCHANGED recoveryVars
  <2>1. PICK c \in Codes : code' = [code EXCEPT ![t] = c]
    BY <1>1 DEF ScriptExits
  <2>2. code[t] = NoCode
    BY <1>1 DEF ScriptExits, IndInv, CodeIsSetOnce
  <2>3. ReportsTruly(calls[t], NoCode) => ReportsTruly(calls[t], c)
    BY DEF ReportsTruly, NoCode
  <2> QED
    BY <1>1, <2>1, <2>2, <2>3 DEF ScriptExits, runnerVars, ScriptState, Codes, NoCode,
     IndInv, VerdictIsTheScripts, NotifiedAsRecorded, OneWriter, RowIsKnown,
     CodeIsSetOnce, PendingVerdict, PendingCallback, CallbackFollowsStatus, Owing,
     TypeOK, TaskTypeOK, scriptVars, recoveryVars
<1>2. CASE ScriptWritesExitFile(t) /\ UNCHANGED recoveryVars
  BY <1>2 DEF IndInv, VerdictIsTheScripts, NotifiedAsRecorded, OneWriter, RowIsKnown,
     CodeIsSetOnce, PendingVerdict, PendingCallback, CallbackFollowsStatus, Owing,
     TypeOK, TaskTypeOK, scriptVars, recoveryVars, ScriptWritesExitFile, runnerVars,
     ScriptState, Codes, NoCode
<1>3. CASE ScriptWritesMarker(t) /\ UNCHANGED recoveryVars
  BY <1>3 DEF IndInv, VerdictIsTheScripts, NotifiedAsRecorded, OneWriter, RowIsKnown,
     CodeIsSetOnce, PendingVerdict, PendingCallback, CallbackFollowsStatus, Owing,
     TypeOK, TaskTypeOK, scriptVars, recoveryVars, ScriptWritesMarker, runnerVars, ScriptState,
     Codes, NoCode
<1>4. CASE ScriptDies(t) /\ UNCHANGED recoveryVars
  BY <1>4 DEF IndInv, VerdictIsTheScripts, NotifiedAsRecorded, OneWriter, RowIsKnown,
     CodeIsSetOnce, PendingVerdict, PendingCallback, CallbackFollowsStatus, Owing,
     TypeOK, TaskTypeOK, scriptVars, recoveryVars, ScriptDies, runnerVars, ScriptState, Codes,
     NoCode
<1> QED
  BY <1>1, <1>2, <1>3, <1>4 DEF Script, ScriptStep

\* A step of the recovery loop preserves the invariant.
LEMMA VisitInd ==
  ASSUME IndInv, NEW t \in Tasks, VisitStep(t)
  PROVE  IndInv'
<1>1. CASE Visit(t)
  BY <1>1 DEF IndInv, VerdictIsTheScripts, NotifiedAsRecorded, OneWriter, RowIsKnown,
     CodeIsSetOnce, PendingVerdict, PendingCallback, CallbackFollowsStatus, Owing,
     TypeOK, TaskTypeOK, scriptVars, recoveryVars, taskVars, Goto, VisitPC, RemonPC, Visit
<1>2. CASE VisitUnreachable(t)
  BY <1>2 DEF IndInv, VerdictIsTheScripts, NotifiedAsRecorded, OneWriter, RowIsKnown,
     CodeIsSetOnce, PendingVerdict, PendingCallback, CallbackFollowsStatus, Owing,
     TypeOK, TaskTypeOK, scriptVars, recoveryVars, taskVars, Goto, VisitPC, RemonPC,
     VisitUnreachable
<1>3. CASE VisitFindsExitFile(t)
  <2>1. code[t] \in Codes /\ row[t] = "running"
    BY <1>3 DEF VisitFindsExitFile, HasExitFile, IndInv, CodeIsSetOnce, RowIsKnown
  <2>2. CASE visit' = [visit EXCEPT ![t] = "notify"]
    <3>1. /\ row' = [row EXCEPT ![t] = FinalStatus(code[t])]
          /\ owed' = [owed EXCEPT ![t] = CallbackFor(FinalStatus(code[t]))]
      BY <1>3, <2>1, <2>2, VerdictsAgree
      DEF VisitFindsExitFile, Goto, IndInv, TypeOK, VisitPC
    <3>2. /\ Owing(t)' /\ visit' \in [Tasks -> VisitPC]
          /\ \A u \in Tasks : u # t => (Owing(u)' <=> Owing(u))
      BY <1>3, <2>2 DEF VisitFindsExitFile, Owing, IndInv, TypeOK, VisitPC
    <3>3. FinalStatus(code[t]) \in Terminal
      BY <2>1, FinalTypes
    <3>4. \A u \in Tasks : OneWriter(u)' /\ RowIsKnown(u)'
      BY <1>3, <2>2, <3>1, <3>3
      DEF VisitFindsExitFile, IndInv, OneWriter, RowIsKnown, TypeOK, TaskTypeOK, Terminal
    <3> QED
      BY <1>3, <2>1, <3>1, <3>2, <3>3, <3>4, RecoverySettles, VerdictsAgree
      DEF VisitFindsExitFile, IndInv, TypeOK, TaskTypeOK, Terminal
  <2>3. CASE visit' = [visit EXCEPT ![t] = "fail"] /\ UNCHANGED <<row, owed>>
    BY <1>3, <2>1, <2>3 DEF VisitFindsExitFile, VisitPC,
     IndInv, VerdictIsTheScripts, NotifiedAsRecorded, OneWriter, RowIsKnown,
     CodeIsSetOnce, PendingVerdict, PendingCallback, CallbackFollowsStatus, Owing,
     TypeOK, TaskTypeOK, scriptVars, recoveryVars
  <2> QED
    BY <1>3, <2>2, <2>3 DEF VisitFindsExitFile, Goto
<1>4. CASE VisitFindsNoExitFile(t)
  BY <1>4 DEF IndInv, VerdictIsTheScripts, NotifiedAsRecorded, OneWriter, RowIsKnown,
     CodeIsSetOnce, PendingVerdict, PendingCallback, CallbackFollowsStatus, Owing,
     TypeOK, TaskTypeOK, scriptVars, recoveryVars, taskVars, Goto, VisitPC, RemonPC,
     VisitFindsNoExitFile
<1>5. CASE VisitFindsRecentOutput(t)
  BY <1>5 DEF IndInv, VerdictIsTheScripts, NotifiedAsRecorded, OneWriter, RowIsKnown,
     CodeIsSetOnce, PendingVerdict, PendingCallback, CallbackFollowsStatus, Owing,
     TypeOK, TaskTypeOK, scriptVars, recoveryVars, taskVars, Goto, VisitPC, RemonPC,
     VisitFindsRecentOutput, MonitorPC
<1>6. CASE VisitFindsStaleOutput(t)
  BY <1>6 DEF IndInv, VerdictIsTheScripts, NotifiedAsRecorded, OneWriter, RowIsKnown,
     CodeIsSetOnce, PendingVerdict, PendingCallback, CallbackFollowsStatus, Owing,
     TypeOK, TaskTypeOK, scriptVars, recoveryVars, taskVars, Goto, VisitPC, RemonPC,
     VisitFindsStaleOutput
<1>7. CASE VisitMarksFailed(t)
  <2>1. row[t] \notin Terminal \/ "callback" \in Faults
    BY <1>7 DEF VisitMarksFailed, IndInv, RowIsKnown, Terminal
  <2>2. CASE visit' = [visit EXCEPT ![t] = "failnotify"]
    <3>1. /\ row' = [row EXCEPT ![t] = "failed"]
          /\ owed' = [owed EXCEPT ![t] = CallbackFor("failed")]
      BY <1>7, <2>2 DEF VisitMarksFailed, Goto, IndInv, TypeOK, VisitPC, CallbackFor
    <3>2. /\ Owing(t)' /\ visit' \in [Tasks -> VisitPC]
          /\ \A u \in Tasks : u # t => (Owing(u)' <=> Owing(u))
      BY <1>7, <2>2 DEF VisitMarksFailed, Owing, IndInv, TypeOK, VisitPC
    <3>3. \A u \in Tasks : OneWriter(u)' /\ RowIsKnown(u)'
      BY <1>7, <2>2, <3>1
      DEF VisitMarksFailed, IndInv, OneWriter, RowIsKnown, TypeOK, TaskTypeOK
    <3> QED
      BY <1>7, <2>1, <3>1, <3>2, <3>3, RecoverySettles
      DEF VisitMarksFailed, IndInv, TypeOK, TaskTypeOK, Terminal
  <2>3. CASE /\ visit' = [visit EXCEPT ![t] = IF visit[t] = "lost" THEN "fail" ELSE "no"]
             /\ UNCHANGED <<row, owed>>
    BY <1>7, <2>3 DEF VisitMarksFailed, VisitPC,
     IndInv, VerdictIsTheScripts, NotifiedAsRecorded, OneWriter, RowIsKnown,
     CodeIsSetOnce, PendingVerdict, PendingCallback, CallbackFollowsStatus, Owing,
     TypeOK, TaskTypeOK, scriptVars, recoveryVars
  <2> QED
    BY <1>7, <2>2, <2>3 DEF VisitMarksFailed, Goto
<1>8. CASE VisitNotifies(t)
  <2>1. /\ Owing(t) /\ ~Owing(t)'
        /\ \A u \in Tasks : u # t => (Owing(u)' <=> Owing(u))
    BY <1>8 DEF VisitNotifies, Goto, Owing, IndInv, OneWriter, TypeOK, TaskTypeOK, VisitPC,
         RemonPC, RunnerPC
  <2>2. /\ runner' \in [Tasks -> RunnerPC]
        /\ visit' \in [Tasks -> VisitPC]
        /\ remon' \in [Tasks -> RemonPC]
    BY <1>8 DEF VisitNotifies, Goto, IndInv, TypeOK, TaskTypeOK, VisitPC
  <2>3. \A u \in Tasks : OneWriter(u)' /\ RowIsKnown(u)' /\ CodeIsSetOnce(u)'
    BY <1>8 DEF VisitNotifies, Goto, IndInv, OneWriter, RowIsKnown, CodeIsSetOnce, TypeOK,
         TaskTypeOK, scriptVars
  <2> QED
    BY <1>8, <2>1, <2>2, <2>3, NotifyInd DEF VisitNotifies
<1>9. CASE VisitNotifiesFailure(t)
  <2>1. /\ Owing(t) /\ ~Owing(t)'
        /\ \A u \in Tasks : u # t => (Owing(u)' <=> Owing(u))
    BY <1>9 DEF VisitNotifiesFailure, Goto, Owing, IndInv, OneWriter, TypeOK, TaskTypeOK,
         VisitPC, RemonPC, RunnerPC
  <2>2. /\ runner' \in [Tasks -> RunnerPC]
        /\ visit' \in [Tasks -> VisitPC]
        /\ remon' \in [Tasks -> RemonPC]
    BY <1>9 DEF VisitNotifiesFailure, Goto, IndInv, TypeOK, TaskTypeOK, VisitPC
  <2>3. \A u \in Tasks : OneWriter(u)' /\ RowIsKnown(u)' /\ CodeIsSetOnce(u)'
    BY <1>9 DEF VisitNotifiesFailure, Goto, IndInv, OneWriter, RowIsKnown, CodeIsSetOnce,
         TypeOK, TaskTypeOK, scriptVars
  <2> QED
    BY <1>9, <2>1, <2>2, <2>3, NotifyInd DEF VisitNotifiesFailure
<1> QED
  BY <1>1, <1>2, <1>3, <1>4, <1>5, <1>6, <1>7, <1>8, <1>9 DEF VisitStep

\* The same for the save of the goroutine that re-monitors.
LEMMA RemonitorSettlesInd ==
  ASSUME IndInv, NEW t \in Tasks, NEW s \in Terminal,
         remon[t] \in {"watching", "recheck"},
         s = "finished" => code[t] = 0,
         s = "timeout" => code[t] = 124,
         RemonitorSettles(t, s, CallbackFor(s)),
         chan' = chan \/ chan' = [chan EXCEPT ![t] = NoResult]
  PROVE  IndInv'
<1>1. row[t] \notin Terminal
  BY DEF IndInv, RowIsKnown, Terminal
<1>2. chan \in [Tasks -> Results \cup {NoResult}]
  BY DEF IndInv, TypeOK, TaskTypeOK
<1>3. /\ chan' \in [Tasks -> Results \cup {NoResult}]
      /\ chan'[t] = chan[t] \/ chan'[t] = NoResult
      /\ \A u \in Tasks : u # t => chan'[u] = chan[u]
  <2>1. CASE chan' = chan
    BY <1>2, <2>1
  <2>2. CASE chan' = [chan EXCEPT ![t] = NoResult]
    BY <1>2, <2>2
  <2> QED
    BY <2>1, <2>2
<1>4. CASE remon' = [remon EXCEPT ![t] = "notify"]
  <2>1. /\ row' = [row EXCEPT ![t] = s]
        /\ owed' = [owed EXCEPT ![t] = CallbackFor(s)]
    BY <1>4 DEF RemonitorSettles, IndInv, TypeOK, RemonPC
  <2>2. /\ Owing(t)' /\ remon' \in [Tasks -> RemonPC]
        /\ \A u \in Tasks : u # t => (Owing(u)' <=> Owing(u))
    BY <1>4 DEF RemonitorSettles, Owing, IndInv, TypeOK, RemonPC
  <2>3. \A u \in Tasks : OneWriter(u)' /\ RowIsKnown(u)'
    BY <1>4, <2>1 DEF RemonitorSettles, IndInv, OneWriter, RowIsKnown, TypeOK, TaskTypeOK, Terminal
  <2> QED
    BY <1>1, <1>3, <2>1, <2>2, <2>3, RecoverySettles DEF RemonitorSettles, IndInv, TypeOK
<1>5. CASE remon' = [remon EXCEPT ![t] = "off"] /\ UNCHANGED <<row, owed>>
  <2>1. \A u \in Tasks : Owing(u)' <=> Owing(u)
    BY <1>5 DEF RemonitorSettles, Owing, IndInv, TypeOK, RemonPC
  <2>2. TypeOK'
    BY <1>3, <1>5 DEF RemonitorSettles, IndInv, TypeOK, TaskTypeOK, RemonPC, scriptVars
  <2>3. VerdictIsTheScripts' /\ NotifiedAsRecorded'
    BY <1>5, <2>1 DEF RemonitorSettles, IndInv, VerdictIsTheScripts, NotifiedAsRecorded, scriptVars
  <2>4. \A u \in Tasks : OneWriter(u)' /\ RowIsKnown(u)' /\ CodeIsSetOnce(u)'
    BY <1>5 DEF RemonitorSettles, IndInv, OneWriter, RowIsKnown, CodeIsSetOnce, TypeOK, scriptVars
  <2>5. \A u \in Tasks : PendingVerdict(u)'
    BY <1>3, <1>5 DEF RemonitorSettles, IndInv, PendingVerdict, NoResult, NoCode, scriptVars
  <2>6. \A u \in Tasks : PendingCallback(u)' /\ CallbackFollowsStatus(u)'
    BY <1>5, <2>1 DEF RemonitorSettles, IndInv, PendingCallback, CallbackFollowsStatus
  <2> QED
    BY <2>2, <2>3, <2>4, <2>5, <2>6 DEF IndInv
<1> QED
  BY <1>4, <1>5 DEF RemonitorSettles

\* A step of the goroutine that re-monitors preserves the invariant.
LEMMA RemonitorInd ==
  ASSUME IndInv, NEW t \in Tasks, RemonitorStep(t)
  PROVE  IndInv'
<1>1. CASE RemonitorFails(t)
  BY <1>1 DEF IndInv, VerdictIsTheScripts, NotifiedAsRecorded, OneWriter, RowIsKnown,
     CodeIsSetOnce, PendingVerdict, PendingCallback, CallbackFollowsStatus, Owing,
     TypeOK, TaskTypeOK, scriptVars, recoveryVars, taskVars, Goto, VisitPC, RemonPC,
     RemonitorFails, MonitorPC
<1>2. CASE RecheckFindsExitFile(t)
  <2>1. code[t] \in Codes
    BY <1>2 DEF RecheckFindsExitFile, HasExitFile, IndInv, CodeIsSetOnce
  <2> QED
    BY <1>2, <2>1, FinalTypes, VerdictsAgree, RemonitorSettlesInd DEF RecheckFindsExitFile
<1>3. CASE RecheckFindsNothing(t)
  BY <1>3, RemonitorSettlesInd DEF RecheckFindsNothing, Terminal, CallbackFor
<1>4. CASE RemonitorReceives(t)
  <2> DEFINE c == chan[t].exit
  <2>1. chan[t] \in Results /\ c \in Codes
    BY <1>4 DEF RemonitorReceives, IndInv, TypeOK, TaskTypeOK, Results
  <2>2. c \in {0, 124} => c = code[t]
    BY DEF IndInv, PendingVerdict
  <2>3. /\ FinalStatus(c) \in Terminal
        /\ FinalCallback(c) = CallbackFor(FinalStatus(c))
        /\ FinalStatus(c) = "finished" => code[t] = 0
        /\ FinalStatus(c) = "timeout" => code[t] = 124
    BY <2>1, <2>2, FinalTypes, VerdictsAgree
  <2>4. /\ remon[t] = "watching"
        /\ RemonitorSettles(t, FinalStatus(c), CallbackFor(FinalStatus(c)))
        /\ chan' = [chan EXCEPT ![t] = NoResult]
    BY <1>4, <2>3 DEF RemonitorReceives
  <2> QED
    BY <2>3, <2>4, RemonitorSettlesInd
<1>5. CASE RemonitorNotifies(t)
  <2>1. /\ Owing(t) /\ ~Owing(t)'
        /\ \A u \in Tasks : u # t => (Owing(u)' <=> Owing(u))
    BY <1>5 DEF RemonitorNotifies, Goto, Owing, IndInv, OneWriter, TypeOK, TaskTypeOK, VisitPC,
         RemonPC, RunnerPC
  <2>2. /\ runner' \in [Tasks -> RunnerPC]
        /\ visit' \in [Tasks -> VisitPC]
        /\ remon' \in [Tasks -> RemonPC]
    BY <1>5 DEF RemonitorNotifies, Goto, IndInv, TypeOK, TaskTypeOK, RemonPC
  <2>3. \A u \in Tasks : OneWriter(u)' /\ RowIsKnown(u)' /\ CodeIsSetOnce(u)'
    BY <1>5 DEF RemonitorNotifies, Goto, IndInv, OneWriter, RowIsKnown, CodeIsSetOnce, TypeOK,
         TaskTypeOK, scriptVars
  <2> QED
    BY <1>5, <2>1, <2>2, <2>3, NotifyInd DEF RemonitorNotifies
<1> QED
  BY <1>1, <1>2, <1>3, <1>4, <1>5 DEF RemonitorStep

\* A crash preserves the invariant: a callback that it takes away is on record in
\* lost, and nobody is left to write a row.
LEMMA CrashInd ==
  ASSUME IndInv, Crash
  PROVE  IndInv'
<1> USE DEF Crash, scriptVars
<1>1. TypeOK'
  BY MaxCrashesAssumption DEF IndInv, TypeOK, TaskTypeOK, RunnerPC, MonitorPC, VisitPC, RemonPC
<1>2. VerdictIsTheScripts'
  BY DEF IndInv, VerdictIsTheScripts
<1>3. \A u \in Tasks : ~Owing(u)'
  BY DEF Owing
<1>4. NotifiedAsRecorded'
  BY DEF IndInv, NotifiedAsRecorded
<1>5. \A u \in Tasks : OneWriter(u)' /\ RowIsKnown(u)' /\ CodeIsSetOnce(u)'
  BY DEF IndInv, OneWriter, RowIsKnown, CodeIsSetOnce, TypeOK, TaskTypeOK, RunnerPC
<1>6. \A u \in Tasks : PendingVerdict(u)'
  BY DEF PendingVerdict, NoResult, NoCode, NoCallback
<1>7. \A u \in Tasks : PendingCallback(u)' /\ CallbackFollowsStatus(u)'
  BY <1>3 DEF IndInv, PendingCallback, CallbackFollowsStatus
<1> QED
  BY <1>1, <1>2, <1>4, <1>5, <1>6, <1>7 DEF IndInv

\* The query for orphans finds only rows that no goroutine of the new process
\* works on, and its end leaves them to the re-monitors.
LEMMA BootInd ==
  ASSUME IndInv, Boot \/ BootDone
  PROVE  IndInv'
<1>1. CASE Boot
  <2> USE <1>1 DEF Boot, taskVars
  <2>1. TypeOK'
    BY DEF IndInv, TypeOK, TaskTypeOK
  <2>2. \A u \in Tasks : OneWriter(u)' /\ RowIsKnown(u)'
    BY DEF IndInv, OneWriter, RowIsKnown, TypeOK, TaskTypeOK, RunnerPC
  <2> QED
    BY <2>1, <2>2 DEF IndInv, VerdictIsTheScripts, NotifiedAsRecorded, CodeIsSetOnce,
       PendingVerdict, PendingCallback, CallbackFollowsStatus, Owing
<1>2. CASE BootDone
  <2> USE <1>2 DEF BootDone, taskVars
  <2>1. TypeOK'
    BY DEF IndInv, TypeOK, TaskTypeOK
  <2>2. \A u \in Tasks : OneWriter(u)' /\ RowIsKnown(u)'
    BY DEF IndInv, OneWriter, RowIsKnown
  <2> QED
    BY <2>1, <2>2 DEF IndInv, VerdictIsTheScripts, NotifiedAsRecorded, CodeIsSetOnce,
       PendingVerdict, PendingCallback, CallbackFollowsStatus, Owing
<1> QED
  BY <1>1, <1>2

\* The invariant holds of an empty table and a worker that is up.
LEMMA InitInd == Init => IndInv
<1> SUFFICES ASSUME Init PROVE IndInv
  OBVIOUS
<1> USE DEF Init, TaskInit
<1>1. TypeOK
  BY MaxCrashesAssumption DEF TypeOK, TaskTypeOK, RowStatus, RunnerPC, MonitorPC, ScriptState,
     VisitPC, RemonPC
<1>2. \A t \in Tasks : calls[t] = << >> /\ row[t] = "none" /\ ~Owing(t)
  BY DEF Owing
<1>3. VerdictIsTheScripts /\ NotifiedAsRecorded
  BY <1>2 DEF VerdictIsTheScripts, ReportsTruly, NotifiedAsRecorded, Terminal
<1>4. \A t \in Tasks : OneWriter(t) /\ RowIsKnown(t) /\ CodeIsSetOnce(t)
  BY DEF OneWriter, RowIsKnown, CodeIsSetOnce
<1>5. \A t \in Tasks : PendingVerdict(t)
  BY DEF PendingVerdict, NoResult, NoCode, NoCallback
<1>6. \A t \in Tasks : PendingCallback(t) /\ CallbackFollowsStatus(t)
  BY <1>2 DEF PendingCallback, CallbackFollowsStatus
<1> QED
  BY <1>1, <1>3, <1>4, <1>5, <1>6 DEF IndInv

\* Every step of runner, monitor, script, worker and recovery keeps the invariant.
LEMMA NextInd ==
  ASSUME IndInv, [Next]_vars
  PROVE  IndInv'
<1>1. CASE UNCHANGED vars
  BY <1>1 DEF vars, taskVars, recoveryVars, scriptVars, IndInv, TypeOK, TaskTypeOK,
     VerdictIsTheScripts, NotifiedAsRecorded, OneWriter, RowIsKnown, CodeIsSetOnce,
     PendingVerdict, PendingCallback, CallbackFollowsStatus, Owing
<1>2. CASE Crash
  BY <1>2, CrashInd
<1>3. CASE Boot \/ BootDone
  BY <1>3, BootInd
<1>4. ASSUME NEW t \in Tasks,
             NewTask(t) \/ Runner(t) \/ Monitor(t) \/ Script(t) \/ VisitStep(t)
               \/ RemonitorStep(t)
      PROVE  IndInv'
  BY <1>4, RunnerInd, MonitorInd, ScriptInd, VisitInd, RemonitorInd
<1> QED
  BY <1>1, <1>2, <1>3, <1>4 DEF Next, Terminated

\* The conjunction that makes the safety properties inductive holds in every
\* reachable state, whatever the faults and however often the worker crashes.
THEOREM Invariance == Spec => []IndInv
<1>1. IndInv /\ [Next]_vars => IndInv'
  BY NextInd
<1> QED
  BY <1>1, InitInd, PTL DEF Spec

\* Every variable keeps its type.
THEOREM TypeCorrect == Spec => []TypeOK
<1>1. IndInv => TypeOK
  BY DEF IndInv
<1> QED
  BY <1>1, Invariance, PTL

\* A row says finished, or OnSuccess runs, only if the script exited with 0, and
\* timeout or OnExpired only if it exited with 124: under every combination of
\* lost connections, deadlines, failed writes, failing callbacks and restarts.
THEOREM VerdictCorrect == Spec => []VerdictIsTheScripts
<1>1. IndInv => VerdictIsTheScripts
  BY DEF IndInv
<1> QED
  BY <1>1, Invariance, PTL

\* A terminal row was reported by its own callback, is about to be, or lost that
\* callback to a crash between the save and the call, under all the same faults.
THEOREM NotificationCorrect == Spec => []NotifiedAsRecorded
<1>1. IndInv => NotifiedAsRecorded
  BY DEF IndInv
<1> QED
  BY <1>1, Invariance, PTL

-----------------------------------------------------------------------------
(* A settled row stays as it is.                                           *)

\* Without failing callbacks, who writes a row finds it unsettled.
LEMMA TerminalStep ==
  ASSUME "callback" \notin Faults, IndInv, [Next]_vars
  PROVE  \A u \in Tasks : row[u] \in Terminal => row'[u] = row[u]
<1> USE DEF IndInv, TypeOK, TaskTypeOK, RowIsKnown, Terminal
<1>1. CASE UNCHANGED vars \/ Crash \/ Boot \/ BootDone
  BY <1>1 DEF vars, taskVars, Crash, Boot, BootDone
<1>2. ASSUME NEW t \in Tasks, NewTask(t) \/ Runner(t)
      PROVE  \A u \in Tasks : row[u] \in Terminal => row'[u] = row[u]
  BY <1>2 DEF NewTask, Create, Runner, RunnerStep, MarkRunning, MarkRunningFails, NoConnection,
     DispatchFails, Launch, BackgroundStarted, BackgroundStartLost, ForegroundReturns,
     ForegroundBreaks, Receive, DeadlinePasses, Notify, FailTracked, SettleWith, Settle, SaveRow
<1>3. ASSUME NEW t \in Tasks, Monitor(t) \/ Script(t) PROVE row' = row
  BY <1>3 DEF Monitor, MonitorStep, MonitorFails, MonitorAttaches, MonitorSeesMarker,
     MonitorBreaks, Script, ScriptStep, ScriptExits, ScriptWritesExitFile,
     ScriptWritesMarker, ScriptDies
<1>4. ASSUME NEW t \in Tasks, VisitStep(t)
      PROVE  \A u \in Tasks : row[u] \in Terminal => row'[u] = row[u]
  BY <1>4 DEF VisitStep, Visit, VisitUnreachable, VisitFindsExitFile, VisitFindsNoExitFile,
     VisitFindsRecentOutput, VisitFindsStaleOutput, VisitMarksFailed, VisitNotifies,
     VisitNotifiesFailure, taskVars
<1>5. ASSUME NEW t \in Tasks, RemonitorStep(t)
      PROVE  \A u \in Tasks : row[u] \in Terminal => row'[u] = row[u]
  BY <1>5 DEF RemonitorStep, RemonitorFails, RecheckFindsExitFile, RecheckFindsNothing,
     RemonitorReceives, RemonitorNotifies, RemonitorSettles
<1> QED
  BY <1>1, <1>2, <1>3, <1>4, <1>5 DEF Next, Terminated

\* No terminal row is rewritten, although every db.Save is unconditional, as long
\* as callbacks return no error; failed writes of the row do not matter.
THEOREM TerminalStays ==
  ASSUME "callback" \notin Faults
  PROVE  Spec => TerminalIsFinal
<1>1. IndInv /\ [Next]_vars => [\A t \in Tasks : row[t] \in Terminal => row'[t] = row[t]]_vars
  BY TerminalStep
<1> QED
  BY <1>1, Invariance, PTL DEF Spec, TerminalIsFinal

-----------------------------------------------------------------------------
(* A running row has somebody who will settle it.                          *)

\* While writes succeed, a runner that settles leaves a row that is terminal, and
\* any other step of it leaves the row with the runner.
LEMMA RunnerWatches ==
  ASSUME "db" \notin Faults, WatchInv, NEW t \in Tasks, NewTask(t) \/ Runner(t)
  PROVE  (RunningIsOwned /\ VisitHasSettled)'
<1> USE DEF WatchInv, IndInv
<1>1. worker = "up" /\ UNCHANGED recoveryVars
  BY DEF NewTask, Runner
<1>2. visit[t] = "no" /\ t \notin todo
  BY <1>1 DEF OneWriter
<1>3. /\ row'[t] = "running" => runner'[t] \in {"marked", "launched", "waiting"}
      /\ \A u \in Tasks : u # t => /\ row'[u] = row[u] /\ runner'[u] = runner[u]
                                   /\ monitor'[u] = monitor[u] /\ chan'[u] = chan[u]
  <2> USE DEF TypeOK, TaskTypeOK
  <2>1. CASE NewTask(t)
    BY <2>1 DEF NewTask, Create
  <2>2. CASE MarkRunning(t) \/ Launch(t) \/ BackgroundStarted(t)
    BY <2>2 DEF MarkRunning, Launch, BackgroundStarted
  <2>3. ASSUME NEW s \in Terminal, NEW cb, Settle(t, s, cb),
               chan' = chan \/ chan' = [chan EXCEPT ![t] = NoResult], monitor' = monitor
        PROVE  /\ row'[t] # "running"
               /\ \A u \in Tasks : u # t => /\ row'[u] = row[u] /\ runner'[u] = runner[u]
                                            /\ monitor'[u] = monitor[u] /\ chan'[u] = chan[u]
    BY <2>3 DEF Settle, SaveRow, Saves, Terminal
  <2>4. CASE \/ MarkRunningFails(t) \/ NoConnection(t) \/ DispatchFails(t) \/ BackgroundStartLost(t)
             \/ DeadlinePasses(t)
    BY <2>3, <2>4 DEF MarkRunningFails, NoConnection, DispatchFails, BackgroundStartLost,
       DeadlinePasses, FailTracked, Terminal
  <2>5. CASE ForegroundReturns(t)
    <3>1. code[t] \in Codes
      BY <2>5 DEF ForegroundReturns, CodeIsSetOnce
    <3>2. StatusOf(ForegroundResult(code[t])) \in Terminal
      BY <3>1, ResultTypes
    <3> QED
      BY <2>3, <2>5, <3>2 DEF ForegroundReturns, SettleWith
  <2>6. CASE ForegroundBreaks(t)
    <3>1. StatusOf(BrokenForegroundResult) \in Terminal
      BY ResultTypes
    <3> QED
      BY <2>3, <2>6, <3>1 DEF ForegroundBreaks, SettleWith
  <2>7. CASE Receive(t)
    <3>1. StatusOf(chan[t]) \in Terminal
      BY <2>7, ResultTypes DEF Receive
    <3> QED
      BY <2>3, <2>7, <3>1 DEF Receive, SettleWith
  <2>8. CASE Notify(t)
    <3>1. row[t] # "running"
      <4>1. runner[t] = "settled" /\ remon[t] = "off"
        BY <2>8 DEF Notify, OneWriter
      <4> QED
        BY <1>1, <1>2, <4>1 DEF RunningIsOwned
    <3> QED
      BY <2>8, <3>1 DEF Notify
  <2> QED
    BY <2>1, <2>2, <2>4, <2>5, <2>6, <2>7, <2>8 DEF Runner, RunnerStep
<1>4. RunningIsOwned'
  BY <1>1, <1>3 DEF RunningIsOwned, recoveryVars
<1>5. VisitHasSettled'
  BY <1>1, <1>2, <1>3 DEF VisitHasSettled, recoveryVars
<1> QED
  BY <1>4, <1>5

\* A monitor that ends leaves a result for whoever attached it.
LEMMA MonitorWatches ==
  ASSUME WatchInv, NEW t \in Tasks, Monitor(t) \/ Script(t)
  PROVE  (RunningIsOwned /\ VisitHasSettled)'
<1> USE DEF WatchInv, IndInv
<1>1. UNCHANGED <<runner, row, recoveryVars>>
  BY DEF Monitor, MonitorStep, MonitorFails, MonitorAttaches, MonitorSeesMarker, MonitorBreaks,
     Script, ScriptStep, ScriptExits, ScriptWritesExitFile, ScriptWritesMarker, ScriptDies, runnerVars
<1>2. \A u \in Tasks : remon[u] = "watching" /\ (monitor[u] # "off" \/ chan[u] # NoResult)
                          => monitor'[u] # "off" \/ chan'[u] # NoResult
  <2> USE DEF TypeOK, TaskTypeOK
  <2>1. CASE Script(t)
    BY <2>1 DEF Script, ScriptStep, ScriptExits, ScriptWritesExitFile, ScriptWritesMarker, ScriptDies
  <2>2. CASE remon[t] # "watching" /\ MonitorFails(t)
    BY <2>2 DEF MonitorFails
  <2>3. CASE MonitorAttaches(t)
    BY <2>3 DEF MonitorAttaches
  <2>4. CASE MonitorSeesMarker(t)
    <3>1. MarkerResult(code[t]) # NoResult
      BY <2>4, ResultTypes DEF MonitorSeesMarker, CodeIsSetOnce
    <3> QED
      BY <2>4, <3>1 DEF MonitorSeesMarker
  <2>5. CASE MonitorBreaks(t)
    <3>1. BrokenMonitorResult # NoResult
      BY ResultTypes
    <3> QED
      BY <2>5, <3>1 DEF MonitorBreaks
  <2> QED
    BY <2>1, <2>2, <2>3, <2>4, <2>5 DEF Monitor, MonitorStep
<1>3. RunningIsOwned'
  BY <1>1, <1>2 DEF RunningIsOwned, recoveryVars
<1>4. VisitHasSettled'
  BY <1>1 DEF VisitHasSettled, recoveryVars
<1> QED
  BY <1>3, <1>4

\* The recovery leaves a row settled, or to a goroutine that monitors it again.
LEMMA VisitWatches ==
  ASSUME "db" \notin Faults, WatchInv, NEW t \in Tasks, VisitStep(t)
  PROVE  (RunningIsOwned /\ VisitHasSettled)'
<1> USE DEF WatchInv, IndInv
<1>1. /\ worker' = worker /\ runner' = runner /\ chan' = chan
      /\ \A u \in Tasks : u # t => /\ row'[u] = row[u] /\ (u \in todo => u \in todo')
                                   /\ visit'[u] = visit[u] /\ remon'[u] = remon[u]
                                   /\ monitor'[u] = monitor[u]
  BY DEF VisitStep, Visit, VisitUnreachable, VisitFindsExitFile, VisitFindsNoExitFile,
     VisitFindsRecentOutput, VisitFindsStaleOutput, VisitMarksFailed, VisitNotifies,
     VisitNotifiesFailure, Goto, taskVars, TypeOK, TaskTypeOK
<1>2. /\ \/ row'[t] # "running"
         \/ visit'[t] # "no"
         \/ remon'[t] = "watching" /\ monitor'[t] = "dialing"
      /\ visit'[t] \in {"notify", "failnotify"} => row'[t] \in Terminal
  <2> USE DEF TypeOK, TaskTypeOK, Goto, taskVars
  <2>1. CASE \/ Visit(t) \/ VisitUnreachable(t) \/ VisitFindsNoExitFile(t)
             \/ VisitFindsRecentOutput(t) \/ VisitFindsStaleOutput(t)
    BY <2>1 DEF Visit, VisitUnreachable, VisitFindsNoExitFile, VisitFindsRecentOutput,
       VisitFindsStaleOutput
  <2>2. CASE VisitFindsExitFile(t)
    <3>1. FinalStatus(code[t]) \in Terminal
      BY FinalTypes
    <3> QED
      BY <2>2, <3>1 DEF VisitFindsExitFile, Terminal
  <2>3. CASE VisitMarksFailed(t)
    BY <2>3 DEF VisitMarksFailed, Terminal
  <2>4. CASE VisitNotifies(t) \/ VisitNotifiesFailure(t)
    <3>1. row[t] \in Terminal
      BY <2>4 DEF VisitNotifies, VisitNotifiesFailure, VisitHasSettled
    <3> QED
      BY <2>4, <3>1 DEF VisitNotifies, VisitNotifiesFailure, Terminal
  <2> QED
    BY <2>1, <2>2, <2>3, <2>4 DEF VisitStep
<1>3. RunningIsOwned'
  BY <1>1, <1>2 DEF RunningIsOwned
<1>4. VisitHasSettled'
  BY <1>1, <1>2 DEF VisitHasSettled
<1> QED
  BY <1>3, <1>4

\* The goroutine that monitors again settles the row before it ends.
LEMMA RemonitorWatches ==
  ASSUME "db" \notin Faults, WatchInv, NEW t \in Tasks, RemonitorStep(t)
  PROVE  (RunningIsOwned /\ VisitHasSettled)'
<1> USE DEF WatchInv, IndInv
<1>1. /\ worker' = worker /\ runner' = runner /\ todo' = todo /\ visit' = visit
      /\ \A u \in Tasks : u # t => /\ row'[u] = row[u] /\ remon'[u] = remon[u]
                                   /\ monitor'[u] = monitor[u] /\ chan'[u] = chan[u]
  BY DEF RemonitorStep, RemonitorFails, RecheckFindsExitFile, RecheckFindsNothing,
     RemonitorReceives, RemonitorNotifies, RemonitorSettles, TypeOK, TaskTypeOK
<1>2. visit[t] = "no" /\ t \notin todo /\ worker # "down" /\ runner[t] = "gone"
  BY DEF RemonitorStep, RemonitorFails, RecheckFindsExitFile, RecheckFindsNothing,
     RemonitorReceives, RemonitorNotifies, OneWriter, TypeOK
<1>3. row'[t] # "running" \/ remon'[t] = "recheck"
  <2> USE DEF TypeOK, TaskTypeOK
  <2>1. CASE RemonitorFails(t)
    BY <2>1 DEF RemonitorFails
  <2>2. ASSUME NEW s \in Terminal, NEW cb, RemonitorSettles(t, s, cb)
        PROVE  row'[t] # "running"
    BY <2>2 DEF RemonitorSettles, Terminal
  <2>3. CASE RecheckFindsExitFile(t)
    <3>1. FinalStatus(code[t]) \in Terminal
      BY FinalTypes
    <3> QED
      BY <2>2, <2>3, <3>1 DEF RecheckFindsExitFile
  <2>4. CASE RecheckFindsNothing(t)
    BY <2>2, <2>4 DEF RecheckFindsNothing, Terminal
  <2>5. CASE RemonitorReceives(t)
    <3>1. chan[t] \in Results /\ chan[t].exit \in Codes
      BY <2>5 DEF RemonitorReceives, Results
    <3>2. FinalStatus(chan[t].exit) \in Terminal
      BY <3>1, FinalTypes
    <3> QED
      BY <2>2, <2>5, <3>2 DEF RemonitorReceives
  <2>6. CASE RemonitorNotifies(t)
    <3>1. row[t] # "running"
      BY <1>2, <2>6 DEF RemonitorNotifies, RunningIsOwned
    <3> QED
      BY <2>6, <3>1 DEF RemonitorNotifies
  <2> QED
    BY <2>1, <2>3, <2>4, <2>5, <2>6 DEF RemonitorStep
<1>4. RunningIsOwned'
  BY <1>1, <1>3 DEF RunningIsOwned
<1>5. VisitHasSettled'
  BY <1>1, <1>2 DEF VisitHasSettled
<1> QED
  BY <1>4, <1>5

\* A crash leaves all to the next boot, which finds every running row.
LEMMA BootWatches ==
  ASSUME WatchInv, Crash \/ Boot \/ BootDone \/ UNCHANGED vars
  PROVE  (RunningIsOwned /\ VisitHasSettled)'
<1> USE DEF WatchInv, IndInv
<1>1. CASE Crash
  BY <1>1 DEF Crash, RunningIsOwned, VisitHasSettled
<1>2. CASE Boot
  BY <1>2 DEF Boot, taskVars, RunningIsOwned, VisitHasSettled
<1>3. CASE BootDone
  BY <1>3 DEF BootDone, taskVars, RunningIsOwned, VisitHasSettled
<1>4. CASE UNCHANGED vars
  BY <1>4 DEF vars, taskVars, recoveryVars, RunningIsOwned, VisitHasSettled
<1> QED
  BY <1>1, <1>2, <1>3, <1>4

\* A row that is running has a goroutine, the recovery or the next boot that will
\* settle it: no interleaving of deadlines, lost streams, dead scripts, failing
\* callbacks and crashes leaves one running for ever.  Writes of the row have to
\* succeed: nobody repeats one that failed.
THEOREM RunningHasAnOwner ==
  ASSUME "db" \notin Faults
  PROVE  Spec => []RunningIsOwned
<1>1. Init => RunningIsOwned /\ VisitHasSettled
  BY DEF Init, TaskInit, RunningIsOwned, VisitHasSettled
<1>2. WatchInv /\ [Next]_vars => (RunningIsOwned /\ VisitHasSettled)'
  <2> SUFFICES ASSUME WatchInv, [Next]_vars PROVE (RunningIsOwned /\ VisitHasSettled)'
    OBVIOUS
  <2>1. ASSUME NEW t \in Tasks,
               NewTask(t) \/ Runner(t) \/ Monitor(t) \/ Script(t) \/ VisitStep(t)
                 \/ RemonitorStep(t)
        PROVE  (RunningIsOwned /\ VisitHasSettled)'
    BY <2>1, RunnerWatches, MonitorWatches, VisitWatches, RemonitorWatches
  <2> QED
    BY <2>1, BootWatches DEF Next, Terminated
<1>3. IndInv /\ RunningIsOwned /\ VisitHasSettled => WatchInv
  BY DEF WatchInv
<1> QED
  BY <1>1, <1>2, <1>3, Invariance, PTL DEF Spec

-----------------------------------------------------------------------------
(* The detailed specification implements TrackedTask.                      *)

\* A save by the runner is the abstract Settle, for rows that are written.
LEMMA SettleRefines ==
  ASSUME Faults \cap {"db", "callback"} = {}, IndInv, NEW t \in Tasks, NEW s \in Terminal,
         row[t] \in {"pending", "running"},
         s = "finished" => code[t] = 0,
         s = "timeout" => code[t] = 124,
         row' = [row EXCEPT ![t] = s],
         UNCHANGED <<code, calls>>
  PROVE  Promise!Settle(t)
BY DEF Promise!Settle, Promise!Unsettled, Promise!Verdicts, Terminal

\* An invocation of the callback that is owed is the abstract Notify.
LEMMA NotifyRefines ==
  ASSUME Faults \cap {"db", "callback"} = {}, IndInv, NEW t \in Tasks, Owing(t),
         calls' = [calls EXCEPT ![t] = Append(@, owed[t])],
         UNCHANGED <<row, code>>
  PROVE  Promise!Notify(t)
<1>1. /\ row[t] \in Terminal
      /\ calls[t] = << >>
      /\ owed[t] = CallbackFor(row[t])
  BY DEF IndInv, CallbackFollowsStatus
<1>2. Append(<< >>, owed[t]) = <<owed[t]>>
  OBVIOUS
<1> QED
  BY <1>1, <1>2 DEF Promise!Notify, Promise!Verdicts, Promise!CallbackFor, CallbackFor, Terminal

\* A step of the runner or the monitor is a step of the promise, or none.
LEMMA RunnerRefines ==
  ASSUME Faults \cap {"db", "callback"} = {}, IndInv,
         NEW t \in Tasks, NewTask(t) \/ Runner(t)
  PROVE  [Promise!Next]_(Promise!vars)
<1> USE DEF scriptVars, Promise!vars
<1>0. Saves = {TRUE}
  BY DEF Saves
<1>1. CASE NewTask(t)
  BY <1>1 DEF NewTask, Create, Promise!Next, Promise!Create
<1>2. CASE MarkRunning(t)
  <2>1. row[t] = "pending"
    BY <1>2 DEF MarkRunning, IndInv, RowIsKnown
  <2> QED
    BY <1>2, <2>1 DEF MarkRunning, Promise!Next, Promise!Begin
<1>3. CASE \/ MarkRunningFails(t) \/ NoConnection(t) \/ DispatchFails(t)
           \/ BackgroundStartLost(t) \/ DeadlinePasses(t)
  <2>1. row[t] \in {"pending", "running"}
    BY <1>3 DEF MarkRunningFails, NoConnection, DispatchFails, BackgroundStartLost,
       DeadlinePasses, IndInv, RowIsKnown
  <2>2. row' = [row EXCEPT ![t] = "failed"] /\ UNCHANGED <<code, calls>>
    BY <1>0, <1>3 DEF MarkRunningFails, NoConnection, DispatchFails, BackgroundStartLost,
       DeadlinePasses, FailTracked, Settle, SaveRow
  <2> QED
    BY <2>1, <2>2, SettleRefines DEF Promise!Next, Terminal
<1>4. CASE Launch(t) \/ BackgroundStarted(t)
  BY <1>4 DEF Launch, BackgroundStarted
<1>5. ASSUME NEW r \in Results, row[t] = "running", SettleWith(t, r),
             r.exit = 0 /\ ~r.error => code[t] = 0,
             r.timedOut => code[t] = 124,
             UNCHANGED <<calls, code>>
      PROVE  Promise!Next
  <2>1. row' = [row EXCEPT ![t] = StatusOf(r)]
    BY <1>0, <1>5 DEF SettleWith, Settle, SaveRow
  <2>2. /\ StatusOf(r) \in Terminal
        /\ StatusOf(r) = "finished" => code[t] = 0
        /\ StatusOf(r) = "timeout" => code[t] = 124
    BY <1>5, ResultTypes DEF StatusOf, IsSuccessful
  <2> QED
    BY <1>5, <2>1, <2>2, SettleRefines DEF Promise!Next
<1>6. CASE ForegroundReturns(t)
  <2>1. code[t] \in Codes /\ row[t] = "running"
    BY <1>6 DEF ForegroundReturns, IndInv, CodeIsSetOnce, RowIsKnown
  <2> QED
    BY <1>5, <1>6, <2>1, ResultTypes DEF ForegroundReturns, ForegroundResult
<1>7. CASE ForegroundBreaks(t)
  BY <1>5, <1>7, ResultTypes DEF ForegroundBreaks, BrokenForegroundResult, IndInv, RowIsKnown
<1>8. CASE Receive(t)
  <2>1. chan[t] \in Results /\ row[t] = "running"
    BY <1>8 DEF Receive, IndInv, TypeOK, TaskTypeOK, RowIsKnown
  <2>2. /\ chan[t].exit = 0 => code[t] = 0
        /\ ~chan[t].timedOut
    BY DEF IndInv, PendingVerdict
  <2> QED
    BY <1>5, <1>8, <2>1, <2>2 DEF Receive
<1>9. CASE Notify(t)
  BY <1>9, NotifyRefines DEF Notify, Owing, Promise!Next
<1> QED
  BY <1>1, <1>2, <1>3, <1>4, <1>6, <1>7, <1>8, <1>9 DEF Runner, RunnerStep

\* A script ends as the promise allows; its files do not matter to it.
LEMMA ScriptRefines ==
  ASSUME IndInv, NEW t \in Tasks, Monitor(t) \/ Script(t)
  PROVE  [Promise!Next]_(Promise!vars)
<1> USE DEF scriptVars, Promise!vars
<1>1. CASE Monitor(t)
  BY <1>1 DEF Monitor, MonitorStep, MonitorFails, MonitorAttaches, MonitorSeesMarker,
     MonitorBreaks
<1>2. CASE ScriptExits(t)
  <2>1. row[t] # "none" /\ code[t] = -1
    BY <1>2 DEF ScriptExits, IndInv, RowIsKnown, CodeIsSetOnce, NoCode
  <2> QED
    BY <1>2, <2>1 DEF ScriptExits, Promise!Next, Promise!End, Codes
<1>3. CASE ScriptWritesExitFile(t) \/ ScriptWritesMarker(t) \/ ScriptDies(t)
  BY <1>3 DEF ScriptWritesExitFile, ScriptWritesMarker, ScriptDies
<1> QED
  BY <1>1, <1>2, <1>3 DEF Script, ScriptStep

\* A visit of the recovery loop settles and notifies like anybody else.
LEMMA VisitRefines ==
  ASSUME Faults \cap {"db", "callback"} = {}, IndInv, NEW t \in Tasks, VisitStep(t)
  PROVE  [Promise!Next]_(Promise!vars)
<1> USE DEF scriptVars, Promise!vars
<1>1. CASE \/ Visit(t) \/ VisitUnreachable(t) \/ VisitFindsNoExitFile(t)
           \/ VisitFindsRecentOutput(t) \/ VisitFindsStaleOutput(t)
  BY <1>1 DEF Visit, VisitUnreachable, VisitFindsNoExitFile, VisitFindsRecentOutput,
     VisitFindsStaleOutput, taskVars
<1>2. CASE VisitFindsExitFile(t)
  <2>1. code[t] \in Codes /\ row[t] = "running"
    BY <1>2 DEF VisitFindsExitFile, HasExitFile, IndInv, CodeIsSetOnce, RowIsKnown
  <2> QED
    BY <1>2, <2>1, FinalTypes, VerdictsAgree, SettleRefines DEF VisitFindsExitFile, Promise!Next
<1>3. CASE VisitMarksFailed(t)
  <2>1. row[t] = "running"
    BY <1>3 DEF VisitMarksFailed, IndInv, RowIsKnown
  <2> QED
    BY <1>3, <2>1, SettleRefines DEF VisitMarksFailed, Terminal, Promise!Next
<1>4. CASE VisitNotifies(t) \/ VisitNotifiesFailure(t)
  BY <1>4, NotifyRefines DEF VisitNotifies, VisitNotifiesFailure, Owing, Promise!Next
<1> QED
  BY <1>1, <1>2, <1>3, <1>4 DEF VisitStep

\* And so does the goroutine of a re-monitor.
LEMMA RemonitorRefines ==
  ASSUME Faults \cap {"db", "callback"} = {}, IndInv, NEW t \in Tasks, RemonitorStep(t)
  PROVE  [Promise!Next]_(Promise!vars)
<1> USE DEF scriptVars, Promise!vars
<1>1. CASE RemonitorFails(t)
  BY <1>1 DEF RemonitorFails
<1>2. ASSUME NEW s \in Terminal, NEW cb, remon[t] \in {"watching", "recheck"},
             RemonitorSettles(t, s, cb),
             s = "finished" => code[t] = 0, s = "timeout" => code[t] = 124
      PROVE  Promise!Next
  <2>1. row[t] = "running"
    BY <1>2 DEF IndInv, RowIsKnown
  <2>2. row' = [row EXCEPT ![t] = s] /\ UNCHANGED <<code, calls>>
    BY <1>2 DEF RemonitorSettles
  <2> QED
    BY <1>2, <2>1, <2>2, SettleRefines DEF Promise!Next
<1>3. CASE RecheckFindsExitFile(t)
  <2>1. code[t] \in Codes
    BY <1>3 DEF RecheckFindsExitFile, HasExitFile, IndInv, CodeIsSetOnce
  <2> QED
    BY <1>2, <1>3, <2>1, FinalTypes, VerdictsAgree DEF RecheckFindsExitFile
<1>4. CASE RecheckFindsNothing(t)
  BY <1>2, <1>4 DEF RecheckFindsNothing, Terminal
<1>5. CASE RemonitorReceives(t)
  <2>1. chan[t].exit \in Codes
    BY <1>5 DEF RemonitorReceives, IndInv, TypeOK, TaskTypeOK, Results
  <2>2. chan[t].exit \in {0, 124} => chan[t].exit = code[t]
    BY DEF IndInv, PendingVerdict
  <2>3. /\ FinalStatus(chan[t].exit) \in Terminal
        /\ FinalStatus(chan[t].exit) = "finished" => code[t] = 0
        /\ FinalStatus(chan[t].exit) = "timeout" => code[t] = 124
    BY <2>1, <2>2, FinalTypes, VerdictsAgree
  <2> QED
    BY <1>2, <1>5, <2>3 DEF RemonitorReceives
<1>6. CASE RemonitorNotifies(t)
  BY <1>6, NotifyRefines DEF RemonitorNotifies, Owing, Promise!Next
<1> QED
  BY <1>1, <1>3, <1>4, <1>5, <1>6 DEF RemonitorStep

\* As long as writes of the row and callbacks succeed, the runner, the monitor,
\* the script and the recovery together implement TrackedTask: lost connections,
\* deadlines, dead scripts and restarts included.
THEOREM Refinement ==
  ASSUME Faults \cap {"db", "callback"} = {}
  PROVE  Spec => KeepsPromise
<1>1. Init => Promise!Init
  BY DEF Init, TaskInit, Promise!Init, NoCode
<1>2. IndInv /\ [Next]_vars => [Promise!Next]_(Promise!vars)
  <2> SUFFICES ASSUME IndInv, [Next]_vars PROVE [Promise!Next]_(Promise!vars)
    OBVIOUS
  <2>1. CASE UNCHANGED vars \/ Crash \/ Boot \/ BootDone
    BY <2>1 DEF vars, taskVars, scriptVars, Crash, Boot, BootDone, Promise!vars
  <2>2. ASSUME NEW t \in Tasks,
               NewTask(t) \/ Runner(t) \/ Monitor(t) \/ Script(t) \/ VisitStep(t)
                 \/ RemonitorStep(t)
        PROVE  [Promise!Next]_(Promise!vars)
    BY <2>2, RunnerRefines, ScriptRefines, VisitRefines, RemonitorRefines
  <2> QED
    BY <2>1, <2>2 DEF Next, Terminated
<1> QED
  BY <1>1, <1>2, Invariance, PTL DEF Spec, KeepsPromise, Promise!Spec
=============================================================================
