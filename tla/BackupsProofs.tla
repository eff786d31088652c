----------------------------- MODULE BackupsProofs -----------------------------
(***************************************************************************)
(* What holds of the runs of a backup for any number of requests, pollers, *)
(* runs, minutes and faults: the variables keep their types, no script is  *)
(* started twice, a run that says finished has uploaded, of the runs of a  *)
(* minute at most one is at work, and a run that ended stays ended.        *)
(***************************************************************************)
EXTENDS Backups, TLAPS

RowType == [status: Active \cup {"none", "finished", "failed", "deleted"}, minute: 0..Minutes]

-----------------------------------------------------------------------------
(* Facts about the operators.                                              *)

\* The bounds are numbers.
LEMMA Bounds == MaxRuns \in Nat /\ MaxFaults \in Nat /\ Minutes \in Nat /\ 0 \in 0..Minutes /\ 1 \in 1..Minutes
BY BoundAssumption

\* An update of a status keeps the table's type, every minute and every other row.
LEMMA StatusTyped ==
  ASSUME rows \in [Runs -> RowType], NEW r,
         NEW s \in Active \cup {"none", "finished", "failed", "deleted"}
  PROVE  /\ Status(r, s) \in [Runs -> RowType]
         /\ \A x \in Runs : Status(r, s)[x].minute = rows[x].minute
         /\ \A x \in Runs : x # r => Status(r, s)[x] = rows[x]
         /\ r \in Runs => Status(r, s)[r].status = s
BY DEF Status, RowType

\* A row is inserted as the next one, pending.
LEMMA CreateTyped ==
  ASSUME TypeOK, NEW minute \in 0..Minutes, CreateBackupJob(minute)
  PROVE  /\ created' \in 0..MaxRuns /\ created + 1 \in Runs
         /\ rows' \in [Runs -> RowType]
         /\ rows'[created + 1] = [status |-> "pending", minute |-> minute]
         /\ \A x \in Runs : x # created + 1 => rows'[x] = rows[x]
BY Bounds DEF TypeOK, CreateBackupJob, Runs, RowType, Active

\* A failure is written over an active status only.
LEMMA FailedTyped ==
  ASSUME rows \in [Runs -> RowType], NEW r, MarkBackupJobFailedForRun(r)
  PROVE  /\ rows' \in [Runs -> RowType]
         /\ \A x \in Runs : rows'[x].minute = rows[x].minute
         /\ \A x \in Runs : x # r => rows'[x] = rows[x]
         /\ \A x \in Runs : rows'[x] # rows[x] => rows[x].status \in Active /\ rows'[x].status = "failed"
BY StatusTyped DEF MarkBackupJobFailedForRun

\* A success is written over a running status only.
LEMMA FinishedTyped ==
  ASSUME rows \in [Runs -> RowType], NEW r, MarkBackupJobFinishedForRun(r)
  PROVE  /\ rows' \in [Runs -> RowType]
         /\ \A x \in Runs : rows'[x].minute = rows[x].minute
         /\ \A x \in Runs : x # r => rows'[x] = rows[x]
         /\ \A x \in Runs : rows'[x] # rows[x] => rows[x].status = "running" /\ rows'[x].status = "finished"
BY StatusTyped DEF MarkBackupJobFinishedForRun

\* The attachment of the task keeps an active row active.
LEMMA RunningTyped ==
  ASSUME rows \in [Runs -> RowType], NEW r, MarkBackupJobRunningForRun(r)
  PROVE  /\ rows' \in [Runs -> RowType]
         /\ \A x \in Runs : rows'[x].minute = rows[x].minute
         /\ \A x \in Runs : x # r => rows'[x] = rows[x]
         /\ \A x \in Runs : rows'[x] # rows[x] => rows[x].status \in Active /\ rows'[x].status = "running"
BY StatusTyped DEF MarkBackupJobRunningForRun, Active

\* A fault counts.
LEMMA FaultTyped ==
  ASSUME TypeOK, Fault \/ UNCHANGED faults
  PROVE  faults' \in 0..MaxFaults
BY Bounds DEF TypeOK, Fault

-----------------------------------------------------------------------------
(* The steps of a run's job.                                               *)

\* What a step of the job of r may change: r's own row, from an active status to
\* one that cannot be claimed, r's own place, and the history of r.
JobEffect(r) ==
  /\ UNCHANGED elsewhere
  /\ faults' \in 0..MaxFaults
  /\ jobs' \in [Runs -> Places] /\ jobs[r] \notin {"none", "done"} /\ jobs'[r] # "none"
  /\ \A x \in Runs : x # r => jobs'[x] = jobs[x] /\ rows'[x] = rows[x] /\ started'[x] = started[x]
  /\ rows' \in [Runs -> RowType] /\ rows'[r].minute = rows[r].minute
  /\ rows'[r] # rows[r] => rows[r].status \in Active /\ rows'[r].status \notin Unclaimed
  /\ started' \in [Runs -> Nat]
  /\ {uploaded', crashed', unsaved', expired'} \subseteq SUBSET Runs /\ uploaded \subseteq uploaded'

\* A change of place alone.
LEMMA GotoTyped ==
  ASSUME TypeOK, NEW r \in Runs, NEW place \in Places, Goto(r, place)
  PROVE  /\ jobs' \in [Runs -> Places] /\ jobs'[r] = place
         /\ \A x \in Runs : x # r => jobs'[x] = jobs[x]
BY DEF TypeOK, Goto

\* A job that returns without an error.
LEMMA SucceedsTyped ==
  ASSUME TypeOK, NEW r \in Runs, Succeeds(r)
  PROVE  /\ jobs' \in [Runs -> Places] /\ jobs'[r] \in {"archived", "done"}
         /\ \A x \in Runs : x # r => jobs'[x] = jobs[x]
BY GotoTyped DEF Succeeds, Places

\* A statement of the job counts a fault, or none.
LEMMA StatementTyped ==
  ASSUME TypeOK, NEW r, Saved(r) \/ Unsaved(r)
  PROVE  faults' \in 0..MaxFaults
<1>1. Fault \/ UNCHANGED faults
  BY DEF Saved, Unsaved
<1> QED
  BY <1>1, FaultTyped

\* What the types of the table and of the jobs are.
LEMMA Typed ==
  ASSUME TypeOK
  PROVE  /\ rows \in [Runs -> RowType] /\ jobs \in [Runs -> Places] /\ started \in [Runs -> Nat]
         /\ faults \in 0..MaxFaults
         /\ {uploaded, crashed, unsaved, expired} \subseteq SUBSET Runs
BY DEF TypeOK, RowType

\* Every step of a job has that effect.
LEMMA JobActs ==
  ASSUME RunInv, NEW r \in Runs, JobStep(r) \/ Expires(r) \/ WorkerStops(r)
  PROVE  JobEffect(r)
<1> USE Typed DEF RunInv
<1>1. CASE Claim(r)
  <2>1. faults' \in 0..MaxFaults
    BY <1>1, FaultTyped DEF Claim
  <2>2. CASE rows[r].status = "pending" /\ rows' = Status(r, "running") /\ Goto(r, "load")
    BY <1>1, <2>1, <2>2, StatusTyped, GotoTyped
       DEF Claim, JobEffect, At, Places, Active, Unclaimed, history
  <2>3. CASE Succeeds(r) /\ UNCHANGED rows
    BY <1>1, <2>1, <2>3, SucceedsTyped DEF Claim, JobEffect, At, history
  <2>4. CASE Goto(r, "Failed") /\ UNCHANGED rows
    BY <1>1, <2>1, <2>4, GotoTyped DEF Claim, JobEffect, At, Places, history
  <2> QED
    BY <1>1, <2>2, <2>3, <2>4 DEF Claim
<1>2. CASE LoadBackup(r)
  <2>1. faults' \in 0..MaxFaults
    BY <1>2, StatementTyped DEF LoadBackup
  <2>2. PICK place \in {"start", "recordFailure", "Failed"} : Goto(r, place)
    BY <1>2 DEF LoadBackup
  <2> QED
    BY <1>2, <2>1, <2>2, GotoTyped DEF LoadBackup, JobEffect, At, Places, history
<1>3. CASE recordStarted(r)
  <2>1. faults' \in 0..MaxFaults
    BY <1>3, StatementTyped DEF recordStarted
  <2>2. CASE started' = [started EXCEPT ![r] = @ + 1] /\ Goto(r, "script") /\ Saved(r) /\ MarkBackupJobRunningForRun(r)
    BY <1>3, <2>1, <2>2, GotoTyped, RunningTyped DEF recordStarted, JobEffect, At, Places, Unclaimed
  <2>3. CASE started' = [started EXCEPT ![r] = @ + 1] /\ Goto(r, "script") /\ UNCHANGED rows
    BY <1>3, <2>1, <2>3, GotoTyped DEF recordStarted, JobEffect, At, Places
  <2>4. CASE Goto(r, "recordFailure") /\ UNCHANGED <<rows, faults, started>>
    BY <1>3, <2>1, <2>4, GotoTyped DEF recordStarted, JobEffect, At, Places
  <2> QED
    BY <1>3, <2>2, <2>3, <2>4 DEF recordStarted
<1>4. CASE ScriptEnds(r)
  <2>1. PICK place \in {"recordSuccess", "recordFailure"} : Goto(r, place)
    BY <1>4 DEF ScriptEnds
  <2> QED
    BY <1>4, <2>1, GotoTyped DEF ScriptEnds, JobEffect, At, Places
<1>5. CASE recordSuccess(r)
  <2>1. faults' \in 0..MaxFaults
    BY <1>5, StatementTyped DEF recordSuccess
  <2>2. CASE MarkBackupJobFinishedForRun(r) /\ Succeeds(r)
    BY <1>5, <2>1, <2>2, SucceedsTyped, FinishedTyped
       DEF recordSuccess, JobEffect, At, Active, Unclaimed, history
  <2>3. CASE Goto(r, "Failed") /\ UNCHANGED rows
    BY <1>5, <2>1, <2>3, GotoTyped DEF recordSuccess, JobEffect, At, Places, history
  <2> QED
    BY <1>5, <2>2, <2>3 DEF recordSuccess
<1>6. CASE recordFailure(r)
  <2>1. faults' \in 0..MaxFaults
    BY <1>6, StatementTyped DEF recordFailure
  <2>2. CASE MarkBackupJobFailedForRun(r) /\ Succeeds(r)
    BY <1>6, <2>1, <2>2, SucceedsTyped, FailedTyped DEF recordFailure, JobEffect, At, Unclaimed, history
  <2>3. CASE Goto(r, "Failed") /\ UNCHANGED rows
    BY <1>6, <2>1, <2>3, GotoTyped DEF recordFailure, JobEffect, At, Places, history
  <2> QED
    BY <1>6, <2>2, <2>3 DEF recordFailure
<1>7. CASE Failed(r)
  <2>1. faults' \in 0..MaxFaults
    BY <1>7, StatementTyped DEF Failed
  <2>2. CASE MarkBackupJobFailedForRun(r) /\ UNCHANGED unsaved
    BY <1>7, <2>1, <2>2, GotoTyped, FailedTyped DEF Failed, JobEffect, At, Places, Unclaimed
  <2>3. CASE unsaved' = unsaved \cup {r} /\ UNCHANGED rows
    BY <1>7, <2>1, <2>3, GotoTyped DEF Failed, JobEffect, At, Places
  <2> QED
    BY <1>7, <2>2, <2>3 DEF Failed
<1>8. CASE Expires(r)
  BY <1>8 DEF Expires, JobEffect, At
<1>9. CASE WorkerStops(r)
  <2>1. faults' \in 0..MaxFaults
    BY <1>9, FaultTyped DEF WorkerStops
  <2>2. PICK place \in {"archived", "queued"} : Goto(r, place)
    BY <1>9 DEF WorkerStops
  <2> QED
    BY <1>9, <2>1, <2>2, GotoTyped DEF WorkerStops, JobEffect, Working, Places
<1> QED
  BY <1>1, <1>2, <1>3, <1>4, <1>5, <1>6, <1>7, <1>8, <1>9 DEF JobStep

\* A row whose status cannot be claimed may have changed; its minute has not.
LEMMA JobKeepsRows ==
  ASSUME RunInv, NEW r \in Runs, JobEffect(r), NEW x \in Runs
  PROVE  /\ rows'[x].minute = rows[x].minute
         /\ jobs[x] = "none" => jobs'[x] = "none" /\ rows'[x] = rows[x]
         /\ jobs'[x] \notin {"none", "done"} => jobs[x] \notin {"none", "done"}
         /\ rows'[x].status \in Unclaimed => rows[x].status \in Unclaimed
BY DEF JobEffect

\* With that effect, what requests and pollers know of their runs stays true.
LEMMA JobKeeps ==
  ASSUME RunInv, NEW r \in Runs, JobEffect(r)
  PROVE  TypeOK' /\ Unborn' /\ RequestKnows' /\ PollerKnows' /\ PollersApart' /\ HeldOnce'
<1> USE JobKeepsRows DEF RunInv
<1>1. TypeOK'
  BY DEF TypeOK, JobEffect, RowType, elsewhere
<1>2. Unborn'
  BY DEF Unborn, JobEffect, elsewhere
<1>3. RequestKnows'
  <2> SUFFICES ASSUME NEW u \in Requests, requests'[u].at \in {"validate", "dispatch", "fail"}
               PROVE  requests'[u].run \in 1..created' /\ rows'[requests'[u].run].minute = 0
    BY DEF RequestKnows
  <2>1. requests' = requests /\ created' = created /\ created \in 0..MaxRuns
    BY DEF JobEffect, elsewhere, TypeOK
  <2>2. requests[u].run \in 1..created /\ rows[requests[u].run].minute = 0
    BY <2>1 DEF RequestKnows
  <2>3. requests[u].run \in Runs
    BY <2>1, <2>2, Bounds DEF Runs
  <2> QED
    BY <2>1, <2>2, <2>3
<1>4. PollerKnows'
  <2> SUFFICES ASSUME NEW p \in Pollers
               PROVE  LET q == pollers[p] IN
                        /\ q.at # "idle" => q.minute # 0
                        /\ q.at \in Owning => q.run \in 1..created /\ rows'[q.run].minute # 0
                        /\ q.at \in {"enqueue", "delete"} =>
                             /\ jobs'[q.run] = "none" /\ rows'[q.run].status = "pending"
                             /\ rows'[q.run].minute = q.minute
    BY DEF PollerKnows, JobEffect, elsewhere
  <2>1. created \in 0..MaxRuns
    BY DEF TypeOK
  <2>2. pollers[p].at \in Owning => pollers[p].run \in Runs
    BY <2>1, Bounds DEF Runs, PollerKnows
  <2> QED
    BY <2>2 DEF PollerKnows, Owning
<1>5. PollersApart'
  BY DEF PollersApart, JobEffect, elsewhere
<1>6. HeldOnce'
  BY DEF HeldOnce
<1> QED
  BY <1>1, <1>2, <1>3, <1>4, <1>5, <1>6

\* No step of a job makes the start of its script possible again.
LEMMA JobClaimsOnce ==
  ASSUME RunInv, NEW r \in Runs, JobStep(r) \/ Expires(r) \/ WorkerStops(r), JobEffect(r)
  PROVE  ClaimedOnce'
<1> USE Typed DEF RunInv
<1>1. SUFFICES
        /\ started'[r] <= 1
        /\ rows'[r].status \in Unclaimed => started'[r] = 0
        /\ jobs'[r] \in {"load", "start"} => started'[r] = 0 /\ rows'[r].status \notin Unclaimed
  BY DEF ClaimedOnce, JobEffect
<1>2. /\ started[r] \in Nat /\ started[r] <= 1
      /\ rows'[r].status \in Unclaimed => rows[r].status \in Unclaimed /\ started[r] = 0
  BY JobKeepsRows DEF ClaimedOnce
<1>3. CASE started' = started /\ jobs'[r] \notin {"load", "start"}
  BY <1>2, <1>3
<1>4. CASE Claim(r)
  <2>1. CASE rows[r].status = "pending" /\ rows' = Status(r, "running")
    <3>1. rows'[r].status = "running" /\ started'[r] = 0
      BY <1>2, <1>4, <2>1, StatusTyped DEF Claim, history, Active, ClaimedOnce, Unclaimed
    <3> QED
      BY <3>1 DEF Unclaimed
  <2>2. CASE started' = started /\ rows' = rows /\ (Succeeds(r) \/ Goto(r, "Failed"))
    BY <1>3, <2>2, GotoTyped, SucceedsTyped DEF Places
  <2> QED
    BY <1>4, <2>1, <2>2 DEF Claim, history
<1>5. CASE LoadBackup(r)
  <2>1. jobs[r] = "load" /\ rows' = rows /\ started' = started
    BY <1>5 DEF LoadBackup, history, At
  <2> QED
    BY <1>2, <2>1 DEF ClaimedOnce
<1>6. CASE recordStarted(r)
  <2>1. jobs[r] = "start" /\ started[r] = 0 /\ rows[r].status \notin Unclaimed
    BY <1>6 DEF recordStarted, At, ClaimedOnce
  <2>2. jobs'[r] \in {"script", "recordFailure"} /\ started'[r] \in {0, 1}
    BY <1>6, <2>1, GotoTyped DEF recordStarted, Places
  <2>3. rows'[r].status \notin Unclaimed
    BY <2>1, JobKeepsRows
  <2> QED
    BY <2>2, <2>3
<1>7. CASE ScriptEnds(r)
  BY <1>3, <1>7, GotoTyped DEF ScriptEnds, Places
<1>8. CASE recordSuccess(r)
  BY <1>3, <1>8, GotoTyped, SucceedsTyped DEF recordSuccess, history, Places
<1>9. CASE recordFailure(r)
  BY <1>3, <1>9, GotoTyped, SucceedsTyped DEF recordFailure, history, Places
<1>10. CASE Failed(r)
  BY <1>3, <1>10, GotoTyped DEF Failed, Places
<1>11. CASE Expires(r)
  BY <1>2, <1>11 DEF Expires, At, elsewhere
<1>12. CASE WorkerStops(r)
  <2>1. PICK place \in {"archived", "queued"} : Goto(r, place)
    BY <1>12 DEF WorkerStops
  <2> QED
    BY <1>3, <1>12, <2>1, GotoTyped DEF WorkerStops, Places
<1> QED
  BY <1>4, <1>5, <1>6, <1>7, <1>8, <1>9, <1>10, <1>11, <1>12 DEF JobStep

\* A success that a job is about to save, or has saved, is its script's.
LEMMA JobEarnsSuccess ==
  ASSUME RunInv, NEW r \in Runs, JobStep(r) \/ Expires(r) \/ WorkerStops(r), JobEffect(r)
  PROVE  SuccessIsKnown'
<1> USE Typed DEF RunInv
<1>1. SUFFICES /\ jobs'[r] = "recordSuccess" => r \in uploaded'
               /\ rows'[r].status = "finished" => r \in uploaded'
  BY DEF SuccessIsKnown, FinishedIsUploaded, JobEffect
<1>2. /\ uploaded \subseteq uploaded'
      /\ jobs[r] = "recordSuccess" => r \in uploaded
      /\ rows[r].status = "finished" => r \in uploaded
  BY DEF SuccessIsKnown, FinishedIsUploaded, JobEffect
<1>3. CASE jobs'[r] # "recordSuccess" /\ rows'[r].status \in {rows[r].status, "running", "failed"}
  BY <1>2, <1>3
<1>4. CASE Claim(r)
  BY <1>3, <1>4, GotoTyped, StatusTyped, SucceedsTyped DEF Claim, Places, Active
<1>5. CASE LoadBackup(r)
  BY <1>3, <1>5, GotoTyped DEF LoadBackup, Places
<1>6. CASE recordStarted(r)
  <2>1. jobs'[r] # "recordSuccess"
    BY <1>6, GotoTyped DEF recordStarted, Places
  <2>2. rows'[r].status \in {rows[r].status, "running"}
    BY <1>6, RunningTyped DEF recordStarted
  <2> QED
    BY <1>3, <2>1, <2>2
<1>7. CASE ScriptEnds(r)
  BY <1>2, <1>7, GotoTyped DEF ScriptEnds, Places
<1>8. CASE recordSuccess(r)
  <2>1. r \in uploaded'
    BY <1>2, <1>8 DEF recordSuccess, At
  <2> QED
    BY <2>1
<1>9. CASE recordFailure(r)
  BY <1>3, <1>9, GotoTyped, FailedTyped, SucceedsTyped DEF recordFailure, Places
<1>10. CASE Failed(r)
  BY <1>3, <1>10, GotoTyped, FailedTyped DEF Failed, Places
<1>11. CASE Expires(r)
  BY <1>2, <1>11 DEF Expires
<1>12. CASE WorkerStops(r)
  <2>1. PICK place \in {"archived", "queued"} : Goto(r, place)
    BY <1>12 DEF WorkerStops
  <2> QED
    BY <1>3, <1>12, <2>1, GotoTyped DEF WorkerStops, Places
<1> QED
  BY <1>4, <1>5, <1>6, <1>7, <1>8, <1>9, <1>10, <1>11, <1>12 DEF JobStep

-----------------------------------------------------------------------------
(* The steps of requests and pollers.                                      *)

\* What is said of rows and jobs.
RowInv == Unborn /\ ClaimedOnce /\ SuccessIsKnown /\ HeldOnce

\* It survives a step that at most ends active rows without a success.
LEMMA EndKeepsRows ==
  ASSUME RunInv, UNCHANGED <<created, jobs, started, uploaded>>,
         \A x \in Runs : /\ rows'[x].minute = rows[x].minute
                         /\ rows'[x] # rows[x] => /\ rows[x].status \in Active
                                                  /\ rows'[x].status \in {"failed", "deleted"}
  PROVE  RowInv'
<1> USE DEF RunInv
<1>1. Unborn'
  BY DEF Unborn, Active
<1>2. ClaimedOnce'
  BY DEF ClaimedOnce, Unclaimed
<1>3. SuccessIsKnown'
  BY DEF SuccessIsKnown, FinishedIsUploaded
<1>4. HeldOnce'
  BY DEF HeldOnce
<1> QED
  BY <1>1, <1>2, <1>3, <1>4 DEF RowInv

\* So it does the insertion of a row.
LEMMA CreateKeepsRows ==
  ASSUME RunInv, NEW minute \in 0..Minutes, CreateBackupJob(minute),
         UNCHANGED <<jobs, started, uploaded>>
  PROVE  RowInv'
<1> USE DEF RunInv
<1>1. /\ created \in 0..MaxRuns /\ created' = created + 1 /\ created + 1 \in Runs
      /\ rows'[created + 1] = [status |-> "pending", minute |-> minute]
      /\ \A x \in Runs : x # created + 1 => rows'[x] = rows[x]
  BY CreateTyped DEF TypeOK, CreateBackupJob
<1>2. /\ \A x \in Runs : created < x => rows[x].status = "none" /\ jobs[x] = "none"
      /\ created < created + 1
  BY <1>1 DEF Unborn
<1>3. Unborn'
  BY <1>1, <1>2 DEF Unborn, Runs
<1>4. ClaimedOnce'
  BY <1>1, <1>2 DEF ClaimedOnce, Unclaimed
<1>5. SuccessIsKnown'
  BY <1>1, <1>2 DEF SuccessIsKnown, FinishedIsUploaded
<1>6. HeldOnce'
  BY <1>1, <1>2 DEF HeldOnce
<1> QED
  BY <1>3, <1>4, <1>5, <1>6 DEF RowInv

\* And so it does the enqueueing of a run that the queue does not hold for its
\* minute.
LEMMA EnqueueKeepsRows ==
  ASSUME RunInv, NEW r \in 1..created, jobs' = [jobs EXCEPT ![r] = "queued"],
         UNCHANGED <<rows, created, started, uploaded>>,
         rows[r].minute = 0 \/ ~Held(rows[r].minute)
  PROVE  RowInv'
<1> USE Typed DEF RunInv
<1>1. r \in Runs /\ created \in 0..MaxRuns
  BY Bounds DEF TypeOK, Runs
<1>2. jobs'[r] = "queued" /\ \A x \in Runs : x # r => jobs'[x] = jobs[x]
  BY <1>1
<1>3. Unborn'
  BY <1>1, <1>2 DEF Unborn, Runs
<1>4. ClaimedOnce'
  BY <1>2 DEF ClaimedOnce
<1>5. SuccessIsKnown'
  BY <1>2 DEF SuccessIsKnown, FinishedIsUploaded
<1>6. HeldOnce'
  BY <1>1, <1>2 DEF HeldOnce, Held
<1> QED
  BY <1>3, <1>4, <1>5, <1>6 DEF RowInv

\* A run that somebody knows of is one of the table.
LEMMA KnownRuns ==
  ASSUME RunInv
  PROVE  /\ \A u \in Requests : requests[u].at \in {"validate", "dispatch", "fail"} => requests[u].run \in Runs
         /\ \A p \in Pollers : pollers[p].at \in Owning => pollers[p].run \in Runs
<1>1. created \in 0..MaxRuns
  BY DEF RunInv, TypeOK
<1>2. 1..created \subseteq Runs
  BY <1>1, Bounds DEF Runs
<1> QED
  BY <1>2 DEF RunInv, RequestKnows, PollerKnows

\* A request that moves on.
LEMMA RequestMoves ==
  ASSUME TypeOK, NEW u \in Requests,
         NEW place \in {"create", "validate", "dispatch", "fail", "done"}, RequestGoto(u, place)
  PROVE  /\ requests' \in [Requests -> [at: {"ready", "create", "validate", "dispatch", "fail", "done"},
                                        run: 0..MaxRuns]]
         /\ requests'[u].at = place /\ requests'[u].run = requests[u].run
         /\ \A v \in Requests : v # u => requests'[v] = requests[v]
BY DEF TypeOK, RequestGoto

\* What pollers know is not touched by a request: its run is a manual one.
LEMMA RequestKeepsPollers ==
  ASSUME RunInv, NEW u \in Requests, requests[u].at \in {"validate", "dispatch", "fail"},
         UNCHANGED <<pollers, created>>,
         \A x \in Runs : /\ rows'[x].minute = rows[x].minute
                         /\ x # requests[u].run => rows'[x] = rows[x] /\ jobs'[x] = jobs[x]
  PROVE  PollerKnows' /\ PollersApart'
<1>1. rows[requests[u].run].minute = 0
  BY DEF RunInv, RequestKnows
<1>2. \A p \in Pollers : pollers[p].at \in Owning => pollers[p].run \in Runs /\ rows[pollers[p].run].minute # 0
  BY KnownRuns DEF RunInv, PollerKnows
<1>3. \A p \in Pollers : pollers[p].at \in Owning => pollers[p].run # requests[u].run
  BY <1>1, <1>2
<1>4. PollerKnows'
  BY <1>2, <1>3 DEF RunInv, PollerKnows, Owning
<1> QED
  BY <1>4 DEF RunInv, PollersApart

\* Every step of a request keeps the invariant.
LEMMA RequestKeeps ==
  ASSUME RunInv, NEW u \in Requests, RunBackup(u) \/ RequestStep(u) \/ RequestStops(u)
  PROVE  RunInv'
<1> USE Typed, KnownRuns
<1>1. CASE RunBackup(u)
  <2>1. RowInv'
    BY <1>1, EndKeepsRows DEF RunBackup, history
  <2>2. TypeOK'
    BY <1>1 DEF RunInv, RunBackup, history, TypeOK
  <2>3. RequestKnows'
    BY <1>1 DEF RunInv, RunBackup, RequestKnows, TypeOK
  <2>4. PollerKnows' /\ PollersApart'
    BY <1>1 DEF RunInv, RunBackup, PollerKnows, PollersApart
  <2> QED
    BY <2>1, <2>2, <2>3, <2>4 DEF RunInv, RowInv
<1>2. CASE CreateManual(u)
  <2> DEFINE n == created + 1
  <2>1. /\ created' = n /\ n \in Runs /\ created' \in 0..MaxRuns /\ rows' \in [Runs -> RowType]
        /\ rows'[n].minute = 0 /\ \A x \in Runs : x # n => rows'[x] = rows[x]
    BY <1>2, CreateTyped, Bounds DEF RunInv, CreateManual, CreateBackupJob
  <2>2. created \in 0..MaxRuns /\ \A x \in 1..created : x \in Runs /\ x # n
    BY Bounds DEF RunInv, TypeOK, Runs
  <2>3. RowInv'
    BY <1>2, CreateKeepsRows, Bounds DEF CreateManual, history
  <2>4. TypeOK'
    <3>1. requests' \in [Requests -> [at: {"ready", "create", "validate", "dispatch", "fail", "done"},
                                      run: 0..MaxRuns]]
      <4>1. requests'[u] = [at |-> "validate", run |-> created + 1]
        BY <1>2 DEF RunInv, CreateManual, TypeOK
      <4>2. created + 1 \in 0..MaxRuns
        BY <2>1
      <4>3. \A v \in Requests : v # u => requests'[v] = requests[v]
        BY <1>2 DEF RunInv, CreateManual, TypeOK
      <4>4. requests' = [v \in Requests |-> requests'[v]]
        BY <1>2 DEF RunInv, CreateManual, TypeOK
      <4> QED
        BY <4>1, <4>2, <4>3, <4>4 DEF RunInv, TypeOK
    <3> QED
      BY <1>2, <2>1, <3>1 DEF RunInv, CreateManual, history, TypeOK, RowType
  <2>5. /\ requests'[u].run = n
        /\ \A v \in Requests : v # u => requests'[v] = requests[v]
    BY <1>2 DEF RunInv, CreateManual, TypeOK
  <2>6. RequestKnows'
    BY <2>1, <2>2, <2>5 DEF RunInv, RequestKnows
  <2>7. PollerKnows' /\ PollersApart'
    <3>1. UNCHANGED <<pollers, jobs>>
      BY <1>2 DEF CreateManual
    <3>2. \A p \in Pollers : pollers[p].at \in Owning =>
            pollers[p].run \in 1..created /\ rows'[pollers[p].run] = rows[pollers[p].run]
      BY <2>1, <2>2 DEF RunInv, PollerKnows
    <3> QED
      BY <2>1, <2>2, <3>1, <3>2 DEF RunInv, PollerKnows, PollersApart, Owning
  <2> QED
    BY <2>3, <2>4, <2>6, <2>7 DEF RunInv, RowInv
<1>3. CASE validateS3StorageProvider(u)
  <2>1. PICK place \in {"dispatch", "fail"} : RequestGoto(u, place)
    BY <1>3 DEF validateS3StorageProvider
  <2>2. RowInv'
    BY <1>3, EndKeepsRows DEF validateS3StorageProvider, history
  <2>3. TypeOK'
    BY <1>3, <2>1, RequestMoves DEF RunInv, validateS3StorageProvider, history, TypeOK
  <2>4. RequestKnows'
    BY <1>3, <2>1, RequestMoves DEF RunInv, validateS3StorageProvider, RequestKnows
  <2>5. PollerKnows' /\ PollersApart'
    BY <1>3 DEF RunInv, validateS3StorageProvider, PollerKnows, PollersApart
  <2> QED
    BY <2>2, <2>3, <2>4, <2>5 DEF RunInv, RowInv
<1>4. CASE DispatchManual(u)
  <2> DEFINE r == requests[u].run
  <2>1. r \in 1..created /\ r \in Runs /\ rows[r].minute = 0
    BY <1>4 DEF RunInv, DispatchManual, RequestKnows
  <2>2. PICK place \in {"done", "fail"} : RequestGoto(u, place)
    BY <1>4 DEF DispatchManual
  <2>3. faults' \in 0..MaxFaults
    BY <1>4, FaultTyped DEF RunInv, DispatchManual
  <2>4. jobs' \in [Runs -> Places] /\ \A x \in Runs : x # r => jobs'[x] = jobs[x]
    <3>1. jobs' = jobs \/ jobs' = [jobs EXCEPT ![r] = "queued"]
      BY <1>4 DEF DispatchManual
    <3>2. jobs \in [Runs -> Places] /\ "queued" \in Places
      BY DEF RunInv, Places
    <3> QED
      BY <2>1, <3>1, <3>2
  <2>5. RowInv'
    <3>1. CASE jobs' = [jobs EXCEPT ![r] = "queued"]
      BY <1>4, <2>1, <3>1, EnqueueKeepsRows DEF DispatchManual, history
    <3>2. CASE jobs' = jobs
      BY <1>4, <3>2, EndKeepsRows DEF DispatchManual, history
    <3> QED
      BY <1>4, <3>1, <3>2 DEF DispatchManual
  <2>6. TypeOK'
    BY <1>4, <2>2, <2>3, <2>4, RequestMoves DEF RunInv, DispatchManual, history, TypeOK
  <2>7. RequestKnows'
    BY <1>4, <2>2, RequestMoves DEF RunInv, DispatchManual, RequestKnows
  <2>8. PollerKnows' /\ PollersApart'
    BY <1>4, <2>4, RequestKeepsPollers DEF DispatchManual
  <2> QED
    BY <2>5, <2>6, <2>7, <2>8 DEF RunInv, RowInv
<1>5. CASE recordManualBackupFailure(u)
  <2> DEFINE r == requests[u].run
  <2>1. r \in Runs
    BY <1>5 DEF recordManualBackupFailure
  <2>2. RequestGoto(u, "done")
    BY <1>5 DEF recordManualBackupFailure
  <2>3. faults' \in 0..MaxFaults
    BY <1>5, FaultTyped DEF RunInv, recordManualBackupFailure
  <2>4. /\ rows' \in [Runs -> RowType]
        /\ \A x \in Runs : /\ rows'[x].minute = rows[x].minute
                           /\ x # r => rows'[x] = rows[x]
                           /\ rows'[x] # rows[x] => rows[x].status \in Active /\ rows'[x].status \in {"failed", "deleted"}
    BY <1>5, FailedTyped DEF RunInv, recordManualBackupFailure
  <2>5. RowInv'
    BY <1>5, <2>4, EndKeepsRows DEF recordManualBackupFailure
  <2>6. unsaved' \subseteq Runs
    BY <1>5, <2>1 DEF RunInv, recordManualBackupFailure
  <2>7. TypeOK'
    BY <1>5, <2>2, <2>3, <2>4, <2>6, RequestMoves DEF RunInv, recordManualBackupFailure, TypeOK, RowType
  <2>8. RequestKnows'
    <3>1. \A v \in Requests : requests'[v].at \in {"validate", "dispatch", "fail"} => requests'[v] = requests[v]
      BY <2>2, RequestMoves DEF RunInv
    <3> QED
      BY <1>5, <2>4, <3>1 DEF RunInv, recordManualBackupFailure, RequestKnows
  <2>9. PollerKnows' /\ PollersApart'
    BY <1>5, <2>4, RequestKeepsPollers DEF recordManualBackupFailure
  <2> QED
    BY <2>5, <2>7, <2>8, <2>9 DEF RunInv, RowInv
<1>6. CASE RequestStops(u)
  <2>1. RowInv'
    BY <1>6, EndKeepsRows DEF RequestStops
  <2>2. crashed' \subseteq Runs
    BY <1>6, Bounds DEF RunInv, RequestStops, TypeOK, Runs
  <2>3. faults' \in 0..MaxFaults
    BY <1>6, FaultTyped DEF RunInv, RequestStops
  <2>4. TypeOK'
    BY <1>6, <2>2, <2>3, RequestMoves DEF RunInv, RequestStops, TypeOK
  <2>5. RequestKnows'
    BY <1>6, RequestMoves DEF RunInv, RequestStops, RequestKnows
  <2>6. PollerKnows' /\ PollersApart'
    BY <1>6 DEF RunInv, RequestStops, PollerKnows, PollersApart
  <2> QED
    BY <2>1, <2>4, <2>5, <2>6 DEF RunInv, RowInv
<1> QED
  BY <1>1, <1>2, <1>3, <1>4, <1>5, <1>6 DEF RequestStep

PollerType == [at: {"idle", "create", "enqueue", "delete", "fail"}, run: 0..MaxRuns, minute: 0..Minutes]
(* A poller that moves on, or is done.                                     *)
LEMMA PollerMoves ==
  ASSUME TypeOK, NEW p \in Pollers,
         PollerDone(p) \/ \E place \in {"delete", "fail"} : PollerGoto(p, place)
  PROVE  /\ pollers' \in [Pollers -> PollerType]
         /\ pollers'[p].at \in {"idle", "delete", "fail"}
         /\ pollers'[p].at # "idle" => /\ pollers'[p].run = pollers[p].run
                                       /\ pollers'[p].minute = pollers[p].minute
         /\ \A q \in Pollers : q # p => pollers'[q] = pollers[q]
BY Bounds DEF TypeOK, PollerDone, PollerGoto, PollerType, Idle

\* When a poller is done with its run, or has failed to do with it what it
\* wanted, the others still know theirs.
LEMMA PollerKeepsOthers ==
  ASSUME RunInv, NEW p \in Pollers, pollers[p].at \in Owning, UNCHANGED created,
         PollerDone(p) \/ PollerGoto(p, "fail"),
         \A x \in Runs : /\ rows'[x].minute = rows[x].minute
                         /\ x # pollers[p].run => rows'[x] = rows[x] /\ jobs'[x] = jobs[x]
  PROVE  PollerKnows' /\ PollersApart'
<1> USE KnownRuns
<1>1. /\ pollers'[p].at \in {"idle", "fail"}
      /\ pollers'[p].at # "idle" => /\ pollers'[p].run = pollers[p].run
                                    /\ pollers'[p].minute = pollers[p].minute
      /\ \A q \in Pollers : q # p => pollers'[q] = pollers[q]
  BY DEF RunInv, TypeOK, PollerDone, PollerGoto, Idle
<1>2. \A q \in Pollers : q # p /\ pollers[q].at \in Owning => pollers[q].run # pollers[p].run
  BY DEF RunInv, PollersApart
<1>3. pollers[p].run \in 1..created /\ rows[pollers[p].run].minute # 0 /\ pollers[p].minute # 0
  BY DEF RunInv, PollerKnows, Owning
<1>4. PollerKnows'
  <2> SUFFICES ASSUME NEW q \in Pollers
               PROVE  LET k == pollers'[q] IN
                        /\ k.at # "idle" => k.minute # 0
                        /\ k.at \in Owning => k.run \in 1..created /\ rows'[k.run].minute # 0
                        /\ k.at \in {"enqueue", "delete"} =>
                             /\ jobs'[k.run] = "none" /\ rows'[k.run].status = "pending"
                             /\ rows'[k.run].minute = k.minute
    BY DEF PollerKnows
  <2>1. CASE q = p
    BY <1>1, <1>3, <2>1 DEF Owning
  <2>2. CASE q # p
    BY <1>1, <1>2, <2>2 DEF RunInv, PollerKnows, Owning
  <2> QED
    BY <2>1, <2>2
<1>5. PollersApart'
  BY <1>1, <1>2 DEF RunInv, PollersApart, Owning
<1> QED
  BY <1>4, <1>5

\* What requests know is not touched either.
LEMMA PollerKeepsRequests ==
  ASSUME RunInv, UNCHANGED <<requests, created>>,
         \A x \in Runs : rows'[x].minute = rows[x].minute
  PROVE  RequestKnows'
BY KnownRuns DEF RunInv, RequestKnows

\* Every step of a poller keeps the invariant.
LEMMA PollerKeeps ==
  ASSUME RunInv, NEW p \in Pollers,
         ListEnabled(p) \/ PollerStep(p) \/ PollFails(p) \/ PollerStops(p)
  PROVE  RunInv'
<1> USE Typed, KnownRuns
<1>1. CASE ListEnabled(p)
  <2>1. /\ pollers'[p] = [at |-> "create", run |-> 0, minute |-> now]
        /\ \A q \in Pollers : q # p => pollers'[q] = pollers[q]
    BY <1>1 DEF RunInv, ListEnabled, TypeOK
  <2>2. now \in 1..Minutes
    BY DEF RunInv, TypeOK
  <2>3. RowInv'
    BY <1>1, EndKeepsRows DEF ListEnabled, history
  <2>4. TypeOK'
    BY <1>1, <2>2, Bounds DEF RunInv, ListEnabled, history, TypeOK
  <2>5. PollerKnows' /\ PollersApart'
    BY <1>1, <2>1, <2>2, Bounds DEF RunInv, ListEnabled, PollerKnows, PollersApart, Owning
  <2>6. RequestKnows'
    BY <1>1 DEF RunInv, ListEnabled, RequestKnows
  <2> QED
    BY <2>3, <2>4, <2>5, <2>6 DEF RunInv, RowInv
<1>2. CASE CreateScheduled(p)
  <2> DEFINE n == created + 1
             m == pollers[p].minute
  <2>1. m \in 0..Minutes /\ m # 0 /\ created \in 0..MaxRuns
    BY <1>2 DEF RunInv, TypeOK, PollerKnows, CreateScheduled
  <2>2. /\ created' = n /\ n \in Runs /\ created' \in 0..MaxRuns /\ rows' \in [Runs -> RowType]
        /\ rows'[n] = [status |-> "pending", minute |-> m] /\ \A x \in Runs : x # n => rows'[x] = rows[x]
    BY <1>2, <2>1, CreateTyped DEF RunInv, CreateScheduled, CreateBackupJob
  <2>3. /\ \A x \in 1..created : x \in Runs /\ x # n
        /\ jobs[n] = "none"
    BY <2>1, <2>2, Bounds DEF RunInv, Unborn, Runs
  <2>4. RowInv'
    BY <1>2, <2>1, CreateKeepsRows DEF CreateScheduled, history
  <2>5. /\ pollers'[p] = [at |-> "enqueue", run |-> n, minute |-> m]
        /\ \A q \in Pollers : q # p => pollers'[q] = pollers[q]
        /\ UNCHANGED <<jobs, requests>>
    BY <1>2 DEF RunInv, CreateScheduled, TypeOK
  <2>6. TypeOK'
    <3>1. pollers'[p] \in PollerType
      <4>1. n \in 0..MaxRuns
        BY <2>2, Bounds DEF Runs
      <4> QED
        BY <2>1, <2>5, <4>1 DEF PollerType
    <3>2. pollers' \in [Pollers -> PollerType]
      <4>1. pollers \in [Pollers -> PollerType]
        BY DEF RunInv, TypeOK, PollerType
      <4>2. pollers' = [pollers EXCEPT ![p] = pollers'[p]]
        BY <1>2, <4>1 DEF CreateScheduled
      <4> HIDE DEF n, m
      <4> QED
        BY <3>1, <4>1, <4>2
    <3> QED
      BY <1>2, <2>2, <3>2 DEF RunInv, CreateScheduled, history, TypeOK, RowType, PollerType
  <2>7. \A q \in Pollers : pollers[q].at \in Owning =>
          pollers[q].run \in 1..created /\ rows'[pollers[q].run] = rows[pollers[q].run]
    BY <2>2, <2>3 DEF RunInv, PollerKnows
  <2>8. PollerKnows'
    <3> SUFFICES ASSUME NEW q \in Pollers
                 PROVE  LET k == pollers'[q] IN
                          /\ k.at # "idle" => k.minute # 0
                          /\ k.at \in Owning => k.run \in 1..created' /\ rows'[k.run].minute # 0
                          /\ k.at \in {"enqueue", "delete"} =>
                               /\ jobs'[k.run] = "none" /\ rows'[k.run].status = "pending"
                               /\ rows'[k.run].minute = k.minute
      BY DEF PollerKnows
    <3>1. CASE q = p
      BY <2>1, <2>2, <2>3, <2>5, <3>1
    <3>2. CASE q # p
      BY <2>1, <2>2, <2>5, <2>7, <3>2 DEF RunInv, PollerKnows, Owning
    <3> QED
      BY <3>1, <3>2
  <2>9. PollersApart'
    BY <2>3, <2>5, <2>7 DEF RunInv, PollersApart
  <2>10. RequestKnows'
    BY <2>1, <2>2, <2>3, <2>5 DEF RunInv, RequestKnows
  <2> QED
    BY <2>4, <2>6, <2>8, <2>9, <2>10 DEF RunInv, RowInv
<1>3. CASE PollFails(p)
  <2>1. RowInv'
    BY <1>3, EndKeepsRows DEF PollFails, history
  <2>2. faults' \in 0..MaxFaults
    BY <1>3, FaultTyped DEF RunInv, PollFails
  <2>3. TypeOK'
    BY <1>3, <2>2, PollerMoves DEF RunInv, PollFails, history, TypeOK, PollerType
  <2>4. PollerKnows' /\ PollersApart'
    <3>1. pollers'[p].at = "idle" /\ \A q \in Pollers : q # p => pollers'[q] = pollers[q]
      BY <1>3 DEF RunInv, TypeOK, PollFails, PollerDone, Idle
    <3> QED
      BY <1>3, <3>1 DEF RunInv, PollFails, PollerKnows, PollersApart, Owning
  <2>5. RequestKnows'
    BY <1>3 DEF RunInv, PollFails, RequestKnows
  <2> QED
    BY <2>1, <2>3, <2>4, <2>5 DEF RunInv, RowInv
<1>4. CASE EnqueueScheduled(p)
  <2> DEFINE r == pollers[p].run
  <2>1. /\ r \in 1..created /\ r \in Runs /\ rows[r].minute = pollers[p].minute
        /\ jobs[r] = "none" /\ rows[r].status = "pending" /\ rows[r].minute # 0
    BY <1>4 DEF RunInv, EnqueueScheduled, PollerKnows, Owning
  <2>2. PollerDone(p) \/ \E place \in {"delete", "fail"} : PollerGoto(p, place)
    BY <1>4 DEF EnqueueScheduled
  <2>3. faults' \in 0..MaxFaults
    BY <1>4, FaultTyped DEF RunInv, EnqueueScheduled
  <2>4. jobs' = jobs \/ (jobs' = [jobs EXCEPT ![r] = "queued"] /\ ~Held(rows[r].minute))
    BY <1>4, <2>1 DEF EnqueueScheduled
  <2>5. jobs' \in [Runs -> Places] /\ \A x \in Runs : x # r => jobs'[x] = jobs[x]
    <3>1. jobs \in [Runs -> Places] /\ "queued" \in Places
      BY DEF RunInv, Places
    <3> QED
      BY <2>1, <2>4, <3>1
  <2>6. RowInv'
    <3>1. CASE jobs' = jobs
      BY <1>4, <3>1, EndKeepsRows DEF EnqueueScheduled, history
    <3>2. CASE jobs' = [jobs EXCEPT ![r] = "queued"] /\ ~Held(rows[r].minute)
      BY <1>4, <2>1, <3>2, EnqueueKeepsRows DEF EnqueueScheduled, history
    <3> QED
      BY <2>4, <3>1, <3>2
  <2>7. TypeOK'
    BY <1>4, <2>2, <2>3, <2>5, PollerMoves DEF RunInv, EnqueueScheduled, history, TypeOK, PollerType
  <2>8. PollerKnows' /\ PollersApart'
    <3>1. CASE PollerDone(p) \/ PollerGoto(p, "fail")
      BY <1>4, <2>5, <3>1, PollerKeepsOthers DEF EnqueueScheduled, Owning
    <3>2. CASE PollerGoto(p, "delete") /\ jobs' = jobs
      <4>1. /\ pollers'[p].at = "delete" /\ pollers'[p].run = r /\ pollers'[p].minute = pollers[p].minute
            /\ \A q \in Pollers : q # p => pollers'[q] = pollers[q]
        BY <3>2 DEF RunInv, TypeOK, PollerGoto
      <4>2. UNCHANGED <<rows, created>>
        BY <1>4 DEF EnqueueScheduled
      <4>3. pollers[p].at = "enqueue"
        BY <1>4 DEF EnqueueScheduled
      <4> QED
        BY <2>1, <3>2, <4>1, <4>2, <4>3 DEF RunInv, PollerKnows, PollersApart, Owning
    <3> QED
      BY <1>4, <3>1, <3>2 DEF EnqueueScheduled
  <2>9. RequestKnows'
    BY <1>4, PollerKeepsRequests DEF EnqueueScheduled
  <2> QED
    BY <2>6, <2>7, <2>8, <2>9 DEF RunInv, RowInv
<1>5. CASE DeleteDuplicate(p) \/ failRun(p)
  <2> DEFINE r == pollers[p].run
  <2>1. r \in Runs /\ pollers[p].at \in {"delete", "fail"}
    BY <1>5 DEF DeleteDuplicate, failRun, Owning
  <2>2. PollerDone(p) \/ PollerGoto(p, "fail")
    BY <1>5 DEF DeleteDuplicate, failRun
  <2>3. faults' \in 0..MaxFaults
    BY <1>5, FaultTyped DEF RunInv, DeleteDuplicate, failRun
  <2>4. /\ rows' \in [Runs -> RowType]
        /\ \A x \in Runs : /\ rows'[x].minute = rows[x].minute
                           /\ x # r => rows'[x] = rows[x]
                           /\ rows'[x] # rows[x] => rows[x].status \in Active /\ rows'[x].status \in {"failed", "deleted"}
    <3>1. CASE DeleteDuplicate(p)
      <4>1. rows[r].status = "pending"
        BY <3>1 DEF RunInv, DeleteDuplicate, PollerKnows
      <4>2. rows' = rows \/ rows' = Status(r, "deleted")
        BY <3>1 DEF DeleteDuplicate
      <4> QED
        BY <2>1, <4>1, <4>2, StatusTyped DEF RunInv, Active
    <3>2. CASE failRun(p)
      <4>1. rows' = rows \/ MarkBackupJobFailedForRun(r)
        BY <3>2 DEF failRun
      <4> QED
        BY <2>1, <4>1, FailedTyped DEF RunInv
    <3> QED
      BY <1>5, <3>1, <3>2
  <2>5. UNCHANGED <<created, jobs, started, uploaded, requests, backup, now, crashed, expired>>
    BY <1>5 DEF DeleteDuplicate, failRun, history
  <2>6. RowInv'
    BY <2>4, <2>5, EndKeepsRows
  <2>7. unsaved' \subseteq Runs
    BY <1>5, <2>1 DEF RunInv, DeleteDuplicate, failRun, history
  <2>8. TypeOK'
    BY <2>2, <2>3, <2>4, <2>5, <2>7, PollerMoves DEF RunInv, TypeOK, PollerType, RowType
  <2>9. PollerKnows' /\ PollersApart'
    BY <2>1, <2>2, <2>4, <2>5, PollerKeepsOthers DEF Owning
  <2>10. RequestKnows'
    BY <2>4, <2>5, PollerKeepsRequests
  <2> QED
    BY <2>6, <2>8, <2>9, <2>10 DEF RunInv, RowInv
<1>6. CASE PollerStops(p)
  <2>1. RowInv'
    BY <1>6, EndKeepsRows DEF PollerStops
  <2>2. faults' \in 0..MaxFaults
    BY <1>6, FaultTyped DEF RunInv, PollerStops
  <2>3. crashed' \subseteq Runs
    BY <1>6, Bounds DEF RunInv, PollerStops, TypeOK, Runs
  <2>4. TypeOK'
    BY <1>6, <2>2, <2>3, PollerMoves DEF RunInv, PollerStops, TypeOK, PollerType
  <2>5. PollerKnows' /\ PollersApart'
    <3>1. pollers'[p].at = "idle" /\ \A q \in Pollers : q # p => pollers'[q] = pollers[q]
      BY <1>6 DEF RunInv, TypeOK, PollerStops, PollerDone, Idle
    <3> QED
      BY <1>6, <3>1 DEF RunInv, PollerStops, PollerKnows, PollersApart, Owning
  <2>6. RequestKnows'
    BY <1>6 DEF RunInv, PollerStops, RequestKnows
  <2> QED
    BY <2>1, <2>4, <2>5, <2>6 DEF RunInv, RowInv
<1> QED
  BY <1>1, <1>2, <1>3, <1>4, <1>5, <1>6 DEF PollerStep

-----------------------------------------------------------------------------
(* The theorems.                                                           *)

\* Nothing has been made yet.
LEMMA RunInit == Init => RunInv
<1> SUFFICES ASSUME Init PROVE RunInv
  OBVIOUS
<1>1. TypeOK
  BY Bounds DEF Init, TypeOK, Idle, Active, Places
<1>2. Unborn /\ RequestKnows
  BY DEF Init, Unborn, RequestKnows
<1>3. PollerKnows /\ PollersApart
  BY DEF Init, Idle, PollerKnows, PollersApart, Owning
<1>4. ClaimedOnce /\ SuccessIsKnown /\ HeldOnce
  BY DEF Init, ClaimedOnce, SuccessIsKnown, FinishedIsUploaded, HeldOnce
<1> QED
  BY <1>1, <1>2, <1>3, <1>4 DEF RunInv

\* The clock and the deletion of the backup touch neither rows nor jobs.
LEMMA OutsideKeeps ==
  ASSUME RunInv, Tick \/ DeleteBackup
  PROVE  RunInv'
<1>1. RowInv'
  BY EndKeepsRows DEF Tick, DeleteBackup, history
<1>2. TypeOK'
  BY Bounds DEF RunInv, Tick, DeleteBackup, history, TypeOK
<1>3. RequestKnows' /\ PollerKnows' /\ PollersApart'
  BY DEF RunInv, Tick, DeleteBackup, RequestKnows, PollerKnows, PollersApart
<1> QED
  BY <1>1, <1>2, <1>3 DEF RunInv, RowInv

\* Every step keeps the invariant.
LEMMA RunNext == RunInv /\ [Next]_vars => RunInv'
<1> SUFFICES ASSUME RunInv, [Next]_vars PROVE RunInv'
  OBVIOUS
<1>1. CASE Tick \/ DeleteBackup
  BY <1>1, OutsideKeeps
<1>2. CASE \E u \in Requests : RunBackup(u) \/ RequestStep(u) \/ RequestStops(u)
  BY <1>2, RequestKeeps
<1>3. CASE \E p \in Pollers : ListEnabled(p) \/ PollerStep(p) \/ PollFails(p) \/ PollerStops(p)
  BY <1>3, PollerKeeps
<1>4. CASE \E r \in Runs : JobStep(r) \/ Expires(r) \/ WorkerStops(r)
  <2>1. PICK r \in Runs : JobStep(r) \/ Expires(r) \/ WorkerStops(r)
    BY <1>4
  <2>2. JobEffect(r)
    BY <2>1, JobActs
  <2> QED
    BY <2>1, <2>2, JobKeeps, JobClaimsOnce, JobEarnsSuccess DEF RunInv
<1>5. CASE UNCHANGED vars
  BY <1>5 DEF RunInv, vars, TypeOK, Unborn, RequestKnows, PollerKnows, PollersApart, ClaimedOnce,
             SuccessIsKnown, FinishedIsUploaded, HeldOnce
<1> QED
  BY <1>1, <1>2, <1>3, <1>4, <1>5 DEF Next

\* The invariant of rows, jobs and of those who know of them.
THEOREM RunInvariance == Spec => []RunInv
<1> QED
  BY RunInit, RunNext, PTL DEF Spec

\* RunBackup, PollDueBackups and RunManualBackupJob keep the types of their state.
THEOREM BackupTypes == Spec => []TypeOK
<1>1. RunInv => TypeOK
  BY DEF RunInv
<1> QED
  BY <1>1, RunInvariance, PTL

\* A run that reads finished has uploaded its archive (recordSuccess is reached
\* with exit code 0 only, and nothing else writes finished).
THEOREM UploadCorrect == Spec => []FinishedIsUploaded
<1>1. RunInv => FinishedIsUploaded
  BY DEF RunInv, SuccessIsKnown
<1> QED
  BY <1>1, RunInvariance, PTL

\* However often a job is delivered or dispatched, its claim lets the script start
\* once (ClaimPendingBackupJobForRun).
THEOREM StartsOnce == Spec => []StartedOnce
<1>1. RunInv => StartedOnce
  BY DEF RunInv, ClaimedOnce, StartedOnce
<1> QED
  BY <1>1, RunInvariance, PTL

\* The TaskID of a scheduled backup keeps two runs of a minute from working at
\* the same time, whichever worker polled (scheduledBackupTaskID).
THEOREM WorksAlone == Spec => []OneAtWork
<1>1. RunInv => OneAtWork
  BY DEF RunInv, HeldOnce, OneAtWork, Working
<1> QED
  BY <1>1, RunInvariance, PTL

\* The guarded updates of the repository and the deletion of a duplicate never
\* change a run that has ended.
THEOREM EndStays == Spec => EndedIsFinal
<1> DEFINE Stay == \A r \in Runs : rows[r].status \in Ended => rows'[r].status = rows[r].status
<1>1. RunInv /\ [Next]_vars => [Stay]_vars
  <2> SUFFICES ASSUME RunInv, Next PROVE Stay
    BY DEF vars
  <2> USE Typed DEF RunInv, Ended
  <2>1. CASE Tick \/ DeleteBackup
    BY <2>1 DEF Tick, DeleteBackup
  <2>2. ASSUME NEW u \in Requests, RunBackup(u) \/ RequestStep(u) \/ RequestStops(u)
        PROVE  Stay
    <3>1. CASE CreateManual(u)
      BY <3>1, CreateTyped, Bounds DEF CreateManual, Unborn, CreateBackupJob, TypeOK
    <3>2. CASE recordManualBackupFailure(u)
      BY <3>2, FailedTyped DEF recordManualBackupFailure, Active
    <3>3. CASE UNCHANGED rows
      BY <3>3
    <3> QED
      BY <2>2, <3>1, <3>2, <3>3
         DEF RunBackup, RequestStep, RequestStops, validateS3StorageProvider, DispatchManual
  <2>3. ASSUME NEW p \in Pollers, ListEnabled(p) \/ PollerStep(p) \/ PollFails(p) \/ PollerStops(p)
        PROVE  Stay
    <3>1. CASE CreateScheduled(p)
      <4>1. pollers[p].minute \in 0..Minutes
        BY DEF TypeOK
      <4> QED
        BY <3>1, <4>1, CreateTyped DEF CreateScheduled, Unborn, CreateBackupJob, TypeOK
    <3>2. CASE DeleteDuplicate(p)
      <4>1. rows[pollers[p].run].status = "pending"
        BY <3>2 DEF DeleteDuplicate, PollerKnows
      <4>2. rows' = rows \/ rows' = Status(pollers[p].run, "deleted")
        BY <3>2 DEF DeleteDuplicate
      <4> QED
        BY <4>1, <4>2, StatusTyped
    <3>3. CASE failRun(p)
      BY <3>3, FailedTyped DEF failRun, Active
    <3>4. CASE UNCHANGED rows
      BY <3>4
    <3> QED
      BY <2>3, <3>1, <3>2, <3>3, <3>4
         DEF ListEnabled, PollerStep, PollFails, PollerStops, EnqueueScheduled
  <2>4. ASSUME NEW r \in Runs, JobStep(r) \/ Expires(r) \/ WorkerStops(r)
        PROVE  Stay
    <3>1. JobEffect(r)
      BY <2>4, JobActs
    <3> QED
      BY <3>1 DEF JobEffect, Active
  <2> QED
    BY <2>1, <2>2, <2>3, <2>4 DEF Next
<1> QED
  BY <1>1, RunInvariance, PTL DEF Spec, EndedIsFinal

=============================================================================
