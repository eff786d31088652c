------------------------ MODULE SiteDeploymentProofs ------------------------
(***************************************************************************)
(* What holds of the deployments of a site for any number of deployments,  *)
(* requests and executions: the variables keep their types, the queue is   *)
(* served in the order of creation, what is recorded as finished           *)
(* succeeded, and an active row has an owner.                              *)
(***************************************************************************)
EXTENDS SiteDeployment, FiniteSetTheorems, TLAPS

StatusType == {"none", "queued", "gone"} \cup Active \cup Complete

-----------------------------------------------------------------------------
(* Facts about the operators.                                              *)

\* An execution is one of a deployment.
LEMMA RunOfDeployment ==
  ASSUME NEW x \in Runs
  PROVE  x[1] \in Deployments
BY DEF Runs

\* Saving a row keeps the table's type.
LEMMA SaveTyped ==
  ASSUME status \in [Deployments -> StatusType], NEW d \in Deployments,
         NEW s \in StatusType, Save(d, s)
  PROVE  /\ status' \in [Deployments -> StatusType]
         /\ status'[d] = s
         /\ \A e \in Deployments : e # d => status'[e] = status[e]
BY DEF Save

\* So does the update of a status; it leaves a deleted row alone.
LEMMA UpdateTyped ==
  ASSUME status \in [Deployments -> StatusType], NEW d \in Deployments,
         NEW s \in StatusType, UpdateStatus(d, s)
  PROVE  /\ status' \in [Deployments -> StatusType]
         /\ status'[d] \in {s, "gone"}
         /\ status'[d] # s => status'[d] = status[d]
         /\ \A e \in Deployments : e # d => status'[e] = status[e]
BY DEF UpdateStatus, StatusType

\* A callback that was invoked writes a complete status, and finished only as
\* OnSuccess.
LEMMA StatusOfCall ==
  ASSUME TypeOK, NEW x \in Runs, calls[x] # << >>
  PROVE  /\ StatusOf(calls[x][1]) \in Complete
         /\ StatusOf(calls[x][1]) = "finished" => calls[x] = <<"OnSuccess">>
<1>1. calls[x] \in {<<"OnSuccess">>, <<"OnFailure">>, <<"OnExpired">>}
  BY DEF TypeOK
<1>2. CASE calls[x] = <<"OnSuccess">>
  BY <1>2 DEF StatusOf, Complete
<1>3. CASE calls[x] = <<"OnFailure">>
  BY <1>3 DEF StatusOf, Complete
<1>4. CASE calls[x] = <<"OnExpired">>
  BY <1>4 DEF StatusOf, Complete
<1> QED
  BY <1>1, <1>2, <1>3, <1>4

\* What a request that is about to enqueue a job knows.
LEMMA RequestEnqueues ==
  ASSUME TypeOK, NEW q \in Requests, req[q].at = "enqueue"
  PROVE  req[q].d \in Deployments
<1>1. req[q] \in {Idle} \cup [at : {"free", "busy"}, kind : Kinds]
                        \cup [at : {"enqueue"}, d : Deployments]
  BY DEF TypeOK
<1>2. CASE req[q] = Idle
  BY <1>2 DEF Idle
<1>3. CASE req[q] \in [at : {"free", "busy"}, kind : Kinds]
  BY <1>3
<1>4. CASE req[q] \in [at : {"enqueue"}, d : Deployments]
  BY <1>4
<1> QED
  BY <1>1, <1>2, <1>3, <1>4

\* What a request that is about to create a row knows.
LEMMA RequestCreates ==
  ASSUME TypeOK, NEW q \in Requests, req[q].at \in {"free", "busy"}
  PROVE  req[q].kind \in AllKinds
<1>1. req[q] \in {Idle} \cup [at : {"free", "busy"}, kind : Kinds]
                        \cup [at : {"enqueue"}, d : Deployments]
  BY DEF TypeOK
<1>2. CASE req[q] = Idle
  BY <1>2 DEF Idle
<1>3. CASE req[q] \in [at : {"free", "busy"}, kind : Kinds]
  BY <1>3, DeploymentAssumption
<1>4. CASE req[q] \in [at : {"enqueue"}, d : Deployments]
  BY <1>4
<1> QED
  BY <1>1, <1>2, <1>3, <1>4

\* Reading the queue starts a promotion of what was read, or none.
LEMMA SelectTyped ==
  ASSUME TypeOK, NEW x \in Runs, Select(x)
  PROVE  /\ prom' \in [Runs -> {"none", "update", "enqueue"}]
         /\ found' \in [Runs -> SUBSET Deployments]
         /\ \A y \in Runs : prom'[y] = "update" =>
              \/ prom[y] = "update" /\ found'[y] = found[y]
              \/ found'[y] = OldestQueued
<1>1. CASE QueuedBySite = {}
  BY <1>1 DEF Select, TypeOK
<1>2. CASE QueuedBySite # {}
  <2>1. found' = [found EXCEPT ![x] = OldestQueued] /\ prom' = [prom EXCEPT ![x] = "update"]
    BY <1>2 DEF Select
  <2>2. OldestQueued \in SUBSET Deployments
    BY DEF OldestQueued, QueuedBySite
  <2> QED
    BY <2>1, <2>2 DEF TypeOK
<1> QED
  BY <1>1, <1>2

\* The new row of Create is the youngest one.
LEMMA CreateIsYoungest ==
  ASSUME TypeOK, NEW d \in Unborn,
         born' = [born EXCEPT ![d] = Cardinality(Deployments \ Unborn) + 1]
  PROVE  /\ born' \in [Deployments -> 0..Cardinality(Deployments)]
         /\ Cardinality(Deployments \ Unborn) \in Nat
         /\ Cardinality((Deployments \ Unborn)') = Cardinality(Deployments \ Unborn) + 1
         /\ born'[d] = Cardinality(Deployments \ Unborn) + 1
<1> DEFINE B == Deployments \ Unborn
<1>1. IsFiniteSet(Deployments) /\ IsFiniteSet(B) /\ d \in Deployments /\ d \notin B
  BY DeploymentAssumption, FS_Subset DEF Unborn
<1>2. Cardinality(B) \in Nat /\ Cardinality(Deployments) \in Nat
  BY <1>1, FS_CardinalityType
<1>3. Cardinality(B \cup {d}) = Cardinality(B) + 1
  BY <1>1, FS_AddElement
<1>4. Cardinality(B \cup {d}) <= Cardinality(Deployments)
  BY <1>1, FS_Subset DEF Unborn
<1>5. \A e \in Deployments : born'[e] = IF e = d THEN Cardinality(B) + 1 ELSE born[e]
  BY DEF TypeOK
<1>6. (Deployments \ Unborn)' = B \cup {d}
  BY <1>1, <1>2, <1>5 DEF Unborn
<1>7. born' \in [Deployments -> 0..Cardinality(Deployments)]
  BY <1>1, <1>2, <1>3, <1>4, <1>5 DEF TypeOK
<1> QED
  BY <1>1, <1>2, <1>3, <1>5, <1>6, <1>7

-----------------------------------------------------------------------------
(* Types.  A lemma per group of actions.                                   *)

\* Requests and cancellations keep the types.
LEMMA RequestTyped ==
  ASSUME TypeOK, NEW q \in Requests, Request(q)
  PROVE  TypeOK'
<1>1. CASE Check(q)
  <2>1. PICK k \in Kinds, a \in {"free", "busy"} : req' = [req EXCEPT ![q] = [at |-> a, kind |-> k]]
    BY <1>1 DEF Check
  <2> QED
    BY <1>1, <2>1 DEF TypeOK, Check, tableVars, procVars, taskVars
<1>2. CASE Create(q)
  <2>1. PICK d \in Unborn :
          /\ born' = [born EXCEPT ![d] = Cardinality(Deployments \ Unborn) + 1]
          /\ kind' = [kind EXCEPT ![d] = req[q].kind]
          /\ Save(d, IF req[q].at = "free" THEN "pending" ELSE "queued")
          /\ req' = [req EXCEPT ![q] = IF @.at = "free" THEN [at |-> "enqueue", d |-> d] ELSE Idle]
    BY <1>2 DEF Create
  <2>2. d \in Deployments /\ req[q].kind \in AllKinds
    BY <1>2, RequestCreates DEF Create, Unborn
  <2>3. born' \in [Deployments -> 0..Cardinality(Deployments)]
    BY <2>1, CreateIsYoungest
  <2>4. kind' \in [Deployments -> AllKinds]
    BY <2>1, <2>2 DEF TypeOK
  <2>5. status' \in [Deployments -> StatusType]
    BY <2>1, <2>2 DEF TypeOK, Save, StatusType, Active
  <2>6. req' \in [Requests -> {Idle} \cup [at : {"free", "busy"}, kind : Kinds]
                                     \cup [at : {"enqueue"}, d : Deployments]]
    BY <2>1, <2>2 DEF TypeOK
  <2> QED
    BY <1>2, <2>3, <2>4, <2>5, <2>6 DEF TypeOK, StatusType, Create, procVars, taskVars
<1>3. CASE Enqueue(q)
  BY <1>3 DEF TypeOK, Enqueue, QueueState, tableVars, procVars, taskVars
<1>4. CASE EnqueueFails(q)
  <2>1. req[q].d \in Deployments
    BY <1>4, RequestEnqueues DEF EnqueueFails
  <2>2. status' \in [Deployments -> StatusType] /\ lost' \subseteq Deployments
    <3>1. CASE kind[req[q].d] = "webhook"
      <4>1. UpdateStatus(req[q].d, "failed") /\ lost' = lost
        BY <1>4, <3>1 DEF EnqueueFails
      <4> QED
        BY <2>1, <4>1 DEF TypeOK, UpdateStatus, StatusType, Complete
    <3>2. CASE kind[req[q].d] # "webhook"
      <4>1. lost' = lost \cup {req[q].d} /\ status' = status
        BY <1>4, <3>2 DEF EnqueueFails
      <4> QED
        BY <2>1, <4>1 DEF TypeOK, StatusType
    <3> QED
      BY <3>1, <3>2
  <2>3. req' \in [Requests -> {Idle} \cup [at : {"free", "busy"}, kind : Kinds]
                                     \cup [at : {"enqueue"}, d : Deployments]]
    BY <1>4 DEF TypeOK, EnqueueFails
  <2> QED
    BY <1>4, <2>2, <2>3 DEF TypeOK, StatusType, EnqueueFails, procVars, taskVars
<1> QED
  BY <1>1, <1>2, <1>3, <1>4 DEF Request

\* Taking a job keeps the types.
LEMMA HandleTyped ==
  ASSUME TypeOK, NEW d \in Deployments, Handle(d)
  PROVE  TypeOK'
<1>1. CASE status[d] = "gone"
  <2>1. queue' = [queue EXCEPT ![d] = "archived"] /\ runs' = runs /\ job' = job
    BY <1>1 DEF Handle
  <2> QED
    BY <2>1 DEF TypeOK, Handle, QueueState, tableVars, taskVars
<1>2. CASE status[d] # "gone"
  <2>1. /\ queue' = [queue EXCEPT ![d] = "active"]
        /\ runs' = [runs EXCEPT ![d] = @ + 1]
        /\ \E at \in JobPC : Goto(<<d, runs[d] + 1>>, at)
    BY <1>2 DEF Handle, JobPC
  <2>2. queue' \in [Deployments -> QueueState]
    BY <2>1 DEF TypeOK, QueueState
  <2>3. runs' \in [Deployments -> 0..MaxRuns]
    BY <2>1, DeploymentAssumption DEF TypeOK, Handle
  <2>4. job' \in [Runs -> JobPC]
    <3>1. PICK at \in JobPC : job' = [job EXCEPT ![<<d, runs[d] + 1>>] = at]
      BY <2>1 DEF Goto
    <3>2. \A y \in Runs : job'[y] \in {job[y], at}
      BY <3>1 DEF TypeOK
    <3> QED
      BY <3>1, <3>2 DEF TypeOK
  <2> QED
    BY <2>2, <2>3, <2>4 DEF TypeOK, Handle, tableVars, taskVars
<1> QED
  BY <1>1, <1>2

\* Handle and Failed keep the types.
LEMMA JobTyped ==
  ASSUME TypeOK, NEW x \in Runs, Job(x)
  PROVE  TypeOK'
<1> USE RunOfDeployment DEF Goto, JobPC
<1>1. CASE MarkInstalling(x)
  BY <1>1 DEF TypeOK, MarkInstalling, Save, Active, taskVars
<1>2. CASE CreateProviderDeployment(x)
  BY <1>2 DEF TypeOK, CreateProviderDeployment, Save, Active, taskVars
<1>3. CASE StartTask(x)
  BY <1>3 DEF TypeOK, StartTask, Task!Create, Task!Unsettled, tableVars
<1>4. CASE CreateTaskFails(x)
  BY <1>4 DEF TypeOK, CreateTaskFails, tableVars, taskVars
<1>5. CASE NoConnection(x)
  BY <1>5 DEF TypeOK, NoConnection, Task!Create, Task!Unsettled, tableVars
<1>6. CASE FailTracked(x)
  BY <1>6 DEF TypeOK, FailTracked, Task!Settle, Task!Verdicts, tableVars
<1>7. CASE PreflightFailed(x)
  BY <1>7 DEF TypeOK, PreflightFailed, tableVars, taskVars
<1>8. CASE SaveTaskID(x)
  BY <1>8 DEF TypeOK, SaveTaskID, Save, Active, QueueState, taskVars
<1>9. CASE RollbackReturns(x)
  BY <1>9 DEF TypeOK, RollbackReturns, Save, Active, taskVars
<1>10. CASE RollbackUnreachable(x)
  BY <1>10 DEF TypeOK, RollbackUnreachable, tableVars, taskVars
<1>11. CASE RollbackSucceeds(x)
  BY <1>11 DEF TypeOK, RollbackSucceeds, Save, Complete, QueueState, taskVars
<1>12. CASE HandleFails(x)
  BY <1>12 DEF TypeOK, HandleFails, Save, Complete, taskVars
<1>13. CASE JobPromotes(x)
  <2>1. Select(x)
    BY <1>13 DEF JobPromotes
  <2> QED
    BY <1>13, <2>1, SelectTyped DEF TypeOK, JobPromotes, tableVars, taskVars
<1>14. CASE Failed(x)
  BY <1>14 DEF TypeOK, Failed, tableVars, taskVars
<1>15. CASE FailedSaves(x)
  BY <1>15 DEF TypeOK, FailedSaves, Save, Complete, taskVars
<1>16. CASE Archive(x)
  BY <1>16 DEF TypeOK, Archive, QueueState, tableVars, taskVars
<1> QED
  BY <1>1, <1>2, <1>3, <1>4, <1>5, <1>6, <1>7, <1>8, <1>9, <1>10, <1>11, <1>12, <1>13,
     <1>14, <1>15, <1>16 DEF Job

\* Promotions keep the types.
LEMMA PromoteTyped ==
  ASSUME TypeOK, NEW x \in Runs, Promote(x)
  PROVE  TypeOK'
<1>1. CASE PromoteUpdate(x)
  <2>1. PICK d \in found[x] : Save(d, "pending") \/ UpdateStatus(d, "pending")
    BY <1>1 DEF PromoteUpdate
  <2>2. d \in Deployments /\ "pending" \in StatusType
    BY DEF TypeOK, StatusType, Active
  <2>3. status' \in [Deployments -> StatusType]
    BY <2>1, <2>2, SaveTyped, UpdateTyped DEF TypeOK, StatusType
  <2>4. prom' \in [Runs -> {"none", "update", "enqueue"}]
    BY <1>1 DEF TypeOK, PromoteUpdate
  <2> QED
    BY <1>1, <2>3, <2>4 DEF TypeOK, StatusType, PromoteUpdate, taskVars
<1>2. CASE PromoteEnqueue(x)
  <2>1. queue' \in [Deployments -> QueueState] /\ lost' \subseteq Deployments
    <3>1. PICK d \in found[x] :
            \/ queue' = [queue EXCEPT ![d] = "waiting"] /\ lost' = lost
            \/ lost' \in {lost, lost \cup {d}} /\ queue' = queue
      BY <1>2 DEF PromoteEnqueue
    <3>2. d \in Deployments
      BY DEF TypeOK
    <3>3. CASE queue' = [queue EXCEPT ![d] = "waiting"] /\ lost' = lost
      BY <3>2, <3>3 DEF TypeOK, QueueState
    <3>4. CASE lost' \in {lost, lost \cup {d}} /\ queue' = queue
      BY <3>2, <3>4 DEF TypeOK
    <3> QED
      BY <3>1, <3>3, <3>4
  <2>2. /\ prom' \in [Runs -> {"none", "update", "enqueue"}]
        /\ found' \in [Runs -> SUBSET Deployments]
    BY <1>2 DEF TypeOK, PromoteEnqueue
  <2> QED
    BY <1>2, <2>1, <2>2 DEF TypeOK, PromoteEnqueue, tableVars, taskVars
<1> QED
  BY <1>1, <1>2 DEF Promote

\* A task and its callback keep the types.
LEMMA TaskTyped ==
  ASSUME TypeOK, NEW x \in Runs, TaskRuns(x) \/ Notify(x)
  PROVE  TypeOK'
<1>1. CASE TaskRuns(x)
  <2> USE <1>1 DEF TypeOK, TaskRuns, Task!Unsettled, Task!Verdicts, tableVars, procVars
  <2>1. CASE Task!Begin(x)
    BY <2>1 DEF Task!Begin
  <2>2. CASE Task!End(x)
    BY <2>2 DEF Task!End
  <2>3. CASE Task!Settle(x)
    BY <2>3 DEF Task!Settle
  <2> QED
    BY <2>1, <2>2, <2>3
<1>2. CASE Notify(x)
  BY <1>2 DEF TypeOK, Notify, Task!Notify, Task!CallbackFor, CallbackPC, tableVars
<1> QED
  BY <1>1, <1>2

\* So do the statements of a callback.
LEMMA CallbackTyped ==
  ASSUME TypeOK, CallbackIsKnown, NEW x \in Runs, Callback(x)
  PROVE  TypeOK'
<1> USE RunOfDeployment DEF CallbackPC
<1>1. CASE CallbackUpdates(x)
  <2>1. StatusOf(calls[x][1]) \in Complete
    BY <1>1, StatusOfCall DEF CallbackUpdates, CallbackIsKnown
  <2> QED
    BY <1>1, <2>1 DEF TypeOK, CallbackUpdates, UpdateStatus, taskVars
<1>2. CASE CallbackPromotes(x)
  <2>1. Select(x)
    BY <1>2 DEF CallbackPromotes
  <2> QED
    BY <1>2, <2>1, SelectTyped DEF TypeOK, CallbackPromotes, tableVars, taskVars
<1>3. CASE CallbackKeeps(x)
  <2>1. Newest(Retention) \subseteq Deployments
    BY DEF Newest, Rows
  <2>2. found' \in [Runs -> SUBSET Deployments] /\ cb' \in [Runs -> CallbackPC]
    <3>1. \/ found' = [found EXCEPT ![x] = Newest(Retention)] /\ cb' = [cb EXCEPT ![x] = "delete"]
          \/ found' = found /\ cb' = [cb EXCEPT ![x] = "over"]
      BY <1>3 DEF CallbackKeeps
    <3>2. CASE found' = [found EXCEPT ![x] = Newest(Retention)] /\ cb' = [cb EXCEPT ![x] = "delete"]
      BY <2>1, <3>2 DEF TypeOK
    <3>3. CASE found' = found /\ cb' = [cb EXCEPT ![x] = "over"]
      BY <3>3 DEF TypeOK
    <3> QED
      BY <3>1, <3>2, <3>3
  <2> QED
    BY <1>3, <2>2 DEF TypeOK, CallbackKeeps, tableVars, taskVars
<1>4. CASE CallbackDeletes(x)
  BY <1>4 DEF TypeOK, CallbackDeletes, taskVars
<1> QED
  BY <1>1, <1>2, <1>3, <1>4 DEF Callback

\* A crash keeps the types.
LEMMA CrashTyped ==
  ASSUME TypeOK, Crash
  PROVE  TypeOK'
<1>1. \A q \in Dying : req[q].at = "enqueue" => req[q].d \in Deployments
  BY RequestEnqueues DEF Dying
<1>2. lost' \subseteq Deployments
  BY <1>1, RunOfDeployment DEF TypeOK, Crash
<1> QED
  BY <1>2 DEF TypeOK, Crash, QueueState, JobPC, CallbackPC, tableVars, taskVars

-----------------------------------------------------------------------------
(* Order.  Every step but Create and PromoteUpdate leaves the queue alone: *)
(* nothing enters it, what leaves it is not promoted, and a promotion that *)
(* starts has just read its head.                                          *)

NoneEnters == \A d \in Deployments : status'[d] = "queued" => status[d] = "queued"

NonePromoted == \A d \in Deployments : status[d] = "queued" => status'[d] # "pending"

PromotesHead ==
  \A x \in Runs : prom'[x] = "update" =>
    \/ prom[x] = "update" /\ found'[x] = found[x]
    \/ found'[x] \subseteq OldestQueued

QueueKept == born' = born /\ NoneEnters /\ PromotesHead

\* Such a step keeps the invariants of the queue.
LEMMA KeptInOrder ==
  ASSUME TypeOK, BornInOrder, FoundIsOldest, QueueKept
  PROVE  BornInOrder' /\ FoundIsOldest'
<1>1. BornInOrder'
  BY DEF BornInOrder, QueueKept, NoneEnters, Unborn
<1>2. FoundIsOldest'
  <2> SUFFICES ASSUME NEW x \in Runs, prom'[x] = "update", NEW d \in found'[x]
               PROVE  /\ born[d] # 0
                      /\ \A e \in Deployments : status[e] = "queued" => born[d] <= born[e]
    BY DEF FoundIsOldest, QueueKept, NoneEnters
  <2>1. CASE prom[x] = "update" /\ found'[x] = found[x]
    BY <2>1 DEF FoundIsOldest
  <2>2. CASE found'[x] \subseteq OldestQueued
    BY <2>2 DEF OldestQueued, QueuedBySite, BornInOrder
  <2> QED
    BY <2>1, <2>2 DEF QueueKept, PromotesHead
<1> QED
  BY <1>1, <1>2

\* A job leaves the queue alone.
LEMMA JobKeepsQueue ==
  ASSUME TypeOK, NEW x \in Runs, Job(x)
  PROVE  QueueKept /\ NonePromoted
<1> USE RunOfDeployment DEF QueueKept, NoneEnters, NonePromoted, PromotesHead
<1>1. CASE JobPromotes(x)
  BY <1>1, SelectTyped DEF JobPromotes, tableVars
<1>2. CASE \/ StartTask(x) \/ CreateTaskFails(x) \/ NoConnection(x) \/ FailTracked(x)
           \/ PreflightFailed(x) \/ RollbackUnreachable(x) \/ Failed(x) \/ Archive(x)
  BY <1>2 DEF StartTask, CreateTaskFails, NoConnection, FailTracked, PreflightFailed,
              RollbackUnreachable, Failed, Archive, tableVars
<1>3. CASE \/ MarkInstalling(x) \/ CreateProviderDeployment(x) \/ SaveTaskID(x)
           \/ RollbackReturns(x) \/ RollbackSucceeds(x) \/ HandleFails(x) \/ FailedSaves(x)
  <2>1. /\ born' = born /\ prom' = prom /\ found' = found
        /\ status' = status \/ \E s \in {"installing", "finished", "failed"} : Save(x[1], s)
    BY <1>3 DEF MarkInstalling, CreateProviderDeployment, SaveTaskID, RollbackReturns,
                RollbackSucceeds, HandleFails, FailedSaves
  <2>2. CASE status' = status
    BY <2>1, <2>2
  <2>3. CASE \E s \in {"installing", "finished", "failed"} : Save(x[1], s)
    BY <2>1, <2>3 DEF Save, TypeOK
  <2> QED
    BY <2>1, <2>2, <2>3
<1> QED
  BY <1>1, <1>2, <1>3 DEF Job

\* So does a callback.
LEMMA CallbackKeepsQueue ==
  ASSUME TypeOK, CallbackIsKnown, NEW x \in Runs, Callback(x)
  PROVE  QueueKept /\ NonePromoted
<1> USE RunOfDeployment DEF QueueKept, NoneEnters, NonePromoted, PromotesHead
<1>1. CASE CallbackUpdates(x)
  <2>1. StatusOf(calls[x][1]) \in Complete
    BY <1>1, StatusOfCall DEF CallbackUpdates, CallbackIsKnown
  <2> QED
    BY <1>1, <2>1 DEF TypeOK, CallbackUpdates, UpdateStatus, Complete
<1>2. CASE CallbackPromotes(x)
  BY <1>2, SelectTyped DEF CallbackPromotes, tableVars
<1>3. CASE CallbackKeeps(x)
  BY <1>3 DEF TypeOK, CallbackKeeps, tableVars
<1>4. CASE CallbackDeletes(x)
  BY <1>4 DEF TypeOK, CallbackDeletes
<1> QED
  BY <1>1, <1>2, <1>3, <1>4 DEF Callback

\* And so does whatever else is no request and no write of a promotion.
LEMMA RestKeepsQueue ==
  ASSUME TypeOK,
         \/ CancelQueued \/ Crash
         \/ \E d \in Deployments : Handle(d)
         \/ \E x \in Runs : PromoteEnqueue(x) \/ TaskRuns(x) \/ Notify(x)
         \/ UNCHANGED vars
  PROVE  QueueKept /\ NonePromoted
<1> USE DEF QueueKept, NoneEnters, NonePromoted, PromotesHead
<1>1. CASE CancelQueued
  BY <1>1 DEF TypeOK, CancelQueued, procVars
<1>2. CASE Crash
  BY <1>2 DEF Crash, tableVars
<1>3. ASSUME NEW d \in Deployments, Handle(d) PROVE QueueKept /\ NonePromoted
  BY <1>3 DEF Handle, tableVars
<1>4. ASSUME NEW x \in Runs, PromoteEnqueue(x) PROVE QueueKept /\ NonePromoted
  BY <1>4 DEF TypeOK, PromoteEnqueue, tableVars
<1>5. ASSUME NEW x \in Runs, TaskRuns(x) PROVE QueueKept /\ NonePromoted
  BY <1>5 DEF TaskRuns, tableVars, procVars
<1>6. ASSUME NEW x \in Runs, Notify(x) PROVE QueueKept /\ NonePromoted
  BY <1>6 DEF Notify, tableVars
<1>7. CASE UNCHANGED vars
  BY <1>7 DEF vars, tableVars, procVars
<1> QED
  BY <1>1, <1>2, <1>3, <1>4, <1>5, <1>6, <1>7

\* A request may add to the queue, behind everything that was read before.
LEMMA RequestInOrder ==
  ASSUME TypeOK, BornInOrder, FoundIsOldest, NEW q \in Requests, Request(q)
  PROVE  BornInOrder' /\ FoundIsOldest' /\ NonePromoted
<1>1. CASE Check(q) \/ Enqueue(q)
  <2>1. QueueKept /\ NonePromoted
    BY <1>1 DEF Check, Enqueue, QueueKept, NoneEnters, NonePromoted, PromotesHead,
                tableVars, procVars
  <2> QED
    BY <2>1, KeptInOrder
<1>2. CASE EnqueueFails(q)
  <2>1. status' = status \/ \E d \in Deployments : UpdateStatus(d, "failed")
    BY <1>2, RequestEnqueues DEF EnqueueFails
  <2>2. NoneEnters /\ NonePromoted
    <3>1. CASE status' = status
      BY <3>1 DEF NoneEnters, NonePromoted
    <3>2. CASE \E d \in Deployments : UpdateStatus(d, "failed")
      BY <3>2 DEF TypeOK, UpdateStatus, NoneEnters, NonePromoted
    <3> QED
      BY <2>1, <3>1, <3>2
  <2>3. QueueKept
    BY <1>2, <2>2 DEF EnqueueFails, QueueKept, PromotesHead, procVars
  <2> QED
    BY <2>2, <2>3, KeptInOrder
<1>3. CASE Create(q)
  <2>1. PICK d \in Unborn :
          /\ born' = [born EXCEPT ![d] = Cardinality(Deployments \ Unborn) + 1]
          /\ status' = [status EXCEPT ![d] = IF req[q].at = "free" THEN "pending" ELSE "queued"]
    BY <1>3 DEF Create, Save
  <2> DEFINE n == Cardinality(Deployments \ Unborn)
  <2>2. d \in Deployments /\ born[d] = 0
    BY DEF Unborn
  <2>3. n \in Nat /\ born'[d] = n + 1 /\ Cardinality((Deployments \ Unborn)') = n + 1
    BY <2>1, CreateIsYoungest
  <2>4. \A e \in Deployments : e # d => born'[e] = born[e] /\ status'[e] = status[e]
    BY <2>1, <2>2 DEF TypeOK
  <2>5. \A e \in Deployments : born[e] \in Int /\ born[e] <= n
    <3>1. Cardinality(Deployments) \in Nat
      BY DeploymentAssumption, FS_CardinalityType
    <3>2. \A e \in Deployments : born[e] \in 0..Cardinality(Deployments)
      BY DEF TypeOK
    <3>3. \A e \in Deployments : born[e] <= n
      BY DEF BornInOrder
    <3> QED
      BY <3>1, <3>2, <3>3
  <2> HIDE DEF n
  <2>6. \A e \in Deployments : born'[e] <= n + 1
    BY <2>2, <2>3, <2>4, <2>5
  <2>7. \A e \in Deployments : status'[e] = "queued" => born'[e] # 0
    BY <2>2, <2>3, <2>4 DEF BornInOrder
  <2>8. BornInOrder'
    BY <2>3, <2>6, <2>7 DEF BornInOrder
  <2>9. FoundIsOldest'
    <3> SUFFICES ASSUME NEW x \in Runs, prom[x] = "update", NEW f \in found[x]
                 PROVE  /\ born'[f] # 0
                        /\ \A e \in Deployments : status'[e] = "queued" => born'[f] <= born'[e]
      BY <1>3 DEF FoundIsOldest, Create, procVars
    <3>1. f \in Deployments /\ born[f] # 0
      BY DEF TypeOK, FoundIsOldest
    <3>2. f # d /\ born'[f] = born[f]
      BY <2>2, <2>4, <3>1
    <3>3. \A e \in Deployments : status'[e] = "queued" => born'[f] <= born'[e]
      BY <2>2, <2>3, <2>4, <2>5, <3>1, <3>2 DEF FoundIsOldest
    <3> QED
      BY <3>1, <3>2, <3>3
  <2>10. NonePromoted
    BY <2>2, <2>4 DEF NonePromoted, BornInOrder
  <2> QED
    BY <2>8, <2>9, <2>10
<1> QED
  BY <1>1, <1>2, <1>3 DEF Request

\* A promotion takes the head of the queue, whatever happened since it was read.
LEMMA PromotionInOrder ==
  ASSUME TypeOK, BornInOrder, FoundIsOldest, NEW x \in Runs, PromoteUpdate(x)
  PROVE  /\ QueueKept
         /\ \A d \in Deployments : (status[d] = "queued" /\ status'[d] = "pending") =>
              \A e \in Deployments : status[e] = "queued" => born[d] <= born[e]
<1>1. PICK f \in found[x] : Save(f, "pending") \/ UpdateStatus(f, "pending")
  BY DEF PromoteUpdate
<1>2. f \in Deployments /\ "pending" \in StatusType /\ status \in [Deployments -> StatusType]
  BY DEF TypeOK, StatusType, Active
<1>3. /\ \A e \in Deployments : e # f => status'[e] = status[e]
      /\ status'[f] \in {"pending", "gone"}
  <2>1. CASE Save(f, "pending")
    BY <1>2, <2>1, SaveTyped
  <2>2. CASE UpdateStatus(f, "pending")
    BY <1>2, <2>2, UpdateTyped
  <2> QED
    BY <1>1, <2>1, <2>2
<1>4. QueueKept
  BY <1>2, <1>3 DEF PromoteUpdate, QueueKept, NoneEnters, PromotesHead, TypeOK
<1>5. \A e \in Deployments : status[e] = "queued" => born[f] <= born[e]
  BY DEF PromoteUpdate, FoundIsOldest
<1> QED
  BY <1>2, <1>3, <1>4, <1>5

-----------------------------------------------------------------------------
(* Callbacks.                                                              *)

\* Only Notify starts a callback, and calls never shrink.
LEMMA CallbackStaysKnown ==
  ASSUME TypeOK, CallbackIsKnown, [Next]_vars
  PROVE  CallbackIsKnown'
<1> DEFINE Kept == \A x \in Runs : (cb'[x] \notin {"none", "over"} => cb[x] \notin {"none", "over"})
<1>1. ASSUME Kept, calls' = calls PROVE CallbackIsKnown'
  BY <1>1 DEF CallbackIsKnown
<1>2. ASSUME NEW q \in Requests, Request(q) PROVE CallbackIsKnown'
  BY <1>1, <1>2 DEF Request, Check, Create, Enqueue, EnqueueFails, procVars, taskVars
<1>3. CASE CancelQueued
  BY <1>1, <1>3 DEF CancelQueued, procVars, taskVars
<1>4. ASSUME NEW d \in Deployments, Handle(d) PROVE CallbackIsKnown'
  BY <1>1, <1>4 DEF Handle, taskVars
<1>5. ASSUME NEW x \in Runs, Job(x) PROVE CallbackIsKnown'
  <2>1. cb' = cb
    BY <1>5 DEF Job, MarkInstalling, CreateProviderDeployment, StartTask, CreateTaskFails,
         NoConnection, FailTracked, PreflightFailed, SaveTaskID, RollbackReturns,
         RollbackUnreachable, RollbackSucceeds, HandleFails, JobPromotes, Failed, FailedSaves,
         Archive
  <2>2. calls' = calls
    BY <1>5 DEF Job, MarkInstalling, CreateProviderDeployment, StartTask, CreateTaskFails,
         NoConnection, FailTracked, PreflightFailed, SaveTaskID, RollbackReturns,
         RollbackUnreachable, RollbackSucceeds, HandleFails, JobPromotes, Failed, FailedSaves,
         Archive, Task!Create, Task!Settle, taskVars
  <2> QED
    BY <1>1, <2>1, <2>2
<1>6. ASSUME NEW x \in Runs, Promote(x) PROVE CallbackIsKnown'
  BY <1>1, <1>6 DEF Promote, PromoteUpdate, PromoteEnqueue, taskVars
<1>7. ASSUME NEW x \in Runs, TaskRuns(x) PROVE CallbackIsKnown'
  BY <1>1, <1>7 DEF TaskRuns, Task!Begin, Task!End, Task!Settle, procVars
<1>8. ASSUME NEW x \in Runs, Notify(x) PROVE CallbackIsKnown'
  BY <1>8 DEF Notify, Task!Notify, CallbackIsKnown, TypeOK
<1>9. ASSUME NEW x \in Runs, Callback(x) PROVE CallbackIsKnown'
  <2>1. calls' = calls
    BY <1>9 DEF Callback, CallbackUpdates, CallbackPromotes, CallbackKeeps, CallbackDeletes,
         taskVars
  <2>2. cb[x] \notin {"none", "over"} /\ \E c \in CallbackPC : cb' = [cb EXCEPT ![x] = c]
    BY <1>9 DEF Callback, CallbackUpdates, CallbackPromotes, CallbackKeeps, CallbackDeletes,
         CallbackPC
  <2>3. Kept
    BY <2>2 DEF TypeOK
  <2> QED
    BY <1>1, <2>1, <2>3
<1>10. CASE Crash
  BY <1>1, <1>10 DEF Crash, taskVars
<1>11. CASE UNCHANGED vars
  BY <1>1, <1>11 DEF vars, procVars, taskVars
<1> QED
  BY <1>2, <1>3, <1>4, <1>5, <1>6, <1>7, <1>8, <1>9, <1>10, <1>11 DEF Next, Quiet

-----------------------------------------------------------------------------
(* The theorems.                                                           *)

\* No step leaves the types.
LEMMA NextTyped ==
  ASSUME TypeOK, CallbackIsKnown, [Next]_vars
  PROVE  TypeOK'
<1>1. CASE CancelQueued
  BY <1>1 DEF TypeOK, CancelQueued, Complete, procVars, taskVars
<1>2. CASE UNCHANGED vars
  BY <1>2 DEF TypeOK, vars, tableVars, procVars, taskVars
<1> QED
  BY <1>1, <1>2, RequestTyped, HandleTyped, JobTyped, PromoteTyped, TaskTyped, CallbackTyped,
     CrashTyped DEF Next, Quiet

\* Every step keeps the queue in order, and promotes only its head.
LEMMA NextInOrder ==
  ASSUME OrderInv, [Next]_vars
  PROVE  /\ BornInOrder' /\ FoundIsOldest'
         /\ \A d \in Deployments : (status[d] = "queued" /\ status'[d] = "pending") =>
              \A e \in Deployments : status[e] = "queued" => born[d] <= born[e]
<1> DEFINE Goal == /\ BornInOrder' /\ FoundIsOldest'
                   /\ \A d \in Deployments : (status[d] = "queued" /\ status'[d] = "pending") =>
                        \A e \in Deployments : status[e] = "queued" => born[d] <= born[e]
<1> USE DEF OrderInv
<1>1. ASSUME QueueKept, NonePromoted PROVE Goal
  BY <1>1, KeptInOrder DEF NonePromoted
<1>2. ASSUME NEW q \in Requests, Request(q) PROVE Goal
  BY <1>2, RequestInOrder DEF NonePromoted
<1>3. ASSUME NEW x \in Runs, PromoteUpdate(x) PROVE Goal
  BY <1>3, PromotionInOrder, KeptInOrder
<1>4. ASSUME NEW x \in Runs, Job(x) PROVE Goal
  BY <1>1, <1>4, JobKeepsQueue
<1>5. ASSUME NEW x \in Runs, Callback(x) PROVE Goal
  BY <1>1, <1>5, CallbackKeepsQueue
<1>6. ASSUME \/ CancelQueued \/ Crash
             \/ \E d \in Deployments : Handle(d)
             \/ \E x \in Runs : PromoteEnqueue(x) \/ TaskRuns(x) \/ Notify(x)
             \/ UNCHANGED vars
      PROVE  Goal
  BY <1>1, <1>6, RestKeepsQueue
<1> HIDE DEF Goal
<1>7. ASSUME NEW x \in Runs,
             Job(x) \/ Promote(x) \/ TaskRuns(x) \/ Notify(x) \/ Callback(x)
      PROVE  Goal
  BY <1>3, <1>4, <1>5, <1>6, <1>7 DEF Promote
<1>8. Goal
  BY <1>2, <1>6, <1>7 DEF Next, Quiet
<1> QED
  BY <1>8 DEF Goal

\* The invariant: the types, that a callback at work was invoked with a verdict,
\* and that a promotion holds the head of the queue until it writes.
THEOREM QueueInvariance == Spec => []OrderInv
<1>1. Init => OrderInv
  <2> SUFFICES ASSUME Init PROVE OrderInv
    OBVIOUS
  <2>1. Cardinality(Deployments) \in Nat /\ Unborn = Deployments /\ Cardinality({}) = 0
    BY DeploymentAssumption, FS_CardinalityType, FS_EmptySet DEF Init, Unborn
  <2>2. TypeOK
    BY <2>1, DeploymentAssumption DEF Init, Task!Init, TypeOK, QueueState, JobPC, CallbackPC,
         AllKinds
  <2>3. CallbackIsKnown /\ FoundIsOldest
    BY DEF Init, CallbackIsKnown, FoundIsOldest
  <2>4. Deployments \ Unborn = {}
    BY <2>1
  <2>5. BornInOrder
    BY <2>1, <2>4 DEF Init, BornInOrder
  <2> QED
    BY <2>2, <2>3, <2>5 DEF OrderInv
<1>2. OrderInv /\ [Next]_vars => OrderInv'
  BY NextTyped, CallbackStaysKnown, NextInOrder DEF OrderInv
<1> QED
  BY <1>1, <1>2, PTL DEF Spec

\* Requests, jobs, promotions, tasks, callbacks and crashes keep the types of all
\* they share.
THEOREM DeploymentTypes == Spec => []TypeOK
<1>1. OrderInv => TypeOK
  BY DEF OrderInv
<1> QED
  BY <1>1, QueueInvariance, PTL

\* processNextQueuedDeployment serves the queue in the order of created_at, for any
\* number of deployments, of concurrent promoters and of failures, although it reads
\* and writes in two statements.
THEOREM PromotionOrder == Spec => PromotedInOrder
<1>1. OrderInv /\ [Next]_vars =>
        [\A d \in Deployments : status[d] = "queued" /\ status'[d] = "pending" =>
           \A e \in Deployments : status[e] = "queued" => born[d] <= born[e]]_vars
  BY NextInOrder
<1> QED
  BY <1>1, QueueInvariance, PTL DEF Spec, PromotedInOrder

-----------------------------------------------------------------------------
(* Success.                                                                *)

EarnedInv == OrderInv /\ SuccessIsEarned /\ FinishedMeansSucceeded

\* A script's exit code is set once.
CodeKept == \A x \in Runs : code[x] # -1 => code'[x] = code[x]

\* What is newly finished in a step was reported by an execution that succeeded.
FinishedNow ==
  \A d \in Deployments : (status'[d] = "finished" /\ status[d] # "finished") =>
    \E n \in 1..MaxRuns : code[<<d, n>>] = 0

\* What is said of the success of an execution was true before, or becomes so.
SuccessKept ==
  \A x \in Runs :
    /\ (row'[x] = "finished" /\ row[x] # "finished") => code[x] = 0
    /\ (calls'[x] = <<"OnSuccess">> /\ calls[x] # <<"OnSuccess">>) => row[x] = "finished"
    /\ (job'[x] = "finishing" /\ job[x] # "finishing") => row[x] = "finished"

\* Such a step keeps the invariant.
LEMMA KeptEarned ==
  ASSUME EarnedInv, CodeKept, FinishedNow, SuccessKept
  PROVE  SuccessIsEarned' /\ FinishedMeansSucceeded'
<1>1. SuccessIsEarned'
  <2> SUFFICES ASSUME NEW x \in Runs
               PROVE  /\ row'[x] = "finished" => code'[x] = 0
                      /\ calls'[x] = <<"OnSuccess">> => code'[x] = 0
                      /\ job'[x] = "finishing" => code'[x] = 0
    BY DEF SuccessIsEarned
  <2>1. /\ row[x] = "finished" => code[x] = 0
        /\ calls[x] = <<"OnSuccess">> => code[x] = 0
        /\ job[x] = "finishing" => code[x] = 0
    BY DEF EarnedInv, SuccessIsEarned
  <2>2. code[x] = 0 => code'[x] = 0
    BY DEF CodeKept
  <2>3. /\ (row'[x] = "finished" /\ row[x] # "finished") => code[x] = 0
        /\ (calls'[x] = <<"OnSuccess">> /\ calls[x] # <<"OnSuccess">>) => row[x] = "finished"
        /\ (job'[x] = "finishing" /\ job[x] # "finishing") => row[x] = "finished"
    BY DEF SuccessKept
  <2> QED
    BY <2>1, <2>2, <2>3
<1>2. FinishedMeansSucceeded'
  <2> SUFFICES ASSUME NEW d \in Deployments, status'[d] = "finished"
               PROVE  \E n \in 1..MaxRuns : code'[<<d, n>>] = 0
    BY DEF FinishedMeansSucceeded
  <2>1. PICK n \in 1..MaxRuns : code[<<d, n>>] = 0
    BY DEF FinishedNow, EarnedInv, FinishedMeansSucceeded
  <2>2. <<d, n>> \in Runs
    BY DEF Runs
  <2> QED
    BY <2>1, <2>2 DEF CodeKept
<1> QED
  BY <1>1, <1>2

\* handleRollbackSuccess comes after a task that was recorded as finished, as long as
\* no session breaks without an exit status.
LEMMA ReturnIsEarned ==
  ASSUME TypeOK, "session" \notin Failures, NEW x \in Runs, RollbackReturns(x)
  PROVE  job'[x] = "finishing" => row[x] = "finished"
<1>1. PICK exit \in ExitCodes(x) :
        job' = [job EXCEPT ![x] = IF exit = 0 THEN "finishing" ELSE "failing"]
  BY DEF RollbackReturns, Goto
<1>2. CASE row[x] = "finished"
  BY <1>2
<1>3. CASE row[x] = "timeout"
  <2>1. ExitCodes(x) = {124}
    BY <1>3 DEF ExitCodes
  <2> QED
    BY <1>1, <2>1 DEF TypeOK
<1>4. CASE row[x] = "failed"
  <2>1. ExitCodes(x) = {1}
    BY <1>4 DEF ExitCodes
  <2> QED
    BY <1>1, <2>1 DEF TypeOK
<1>5. CASE row[x] \notin {"finished", "timeout", "failed"}
  <2>1. ExitCodes(x) = {}
    BY <1>5 DEF ExitCodes
  <2> QED
    BY <1>1, <2>1
<1> QED
  BY <1>2, <1>3, <1>4, <1>5

\* A job records a success only in RollbackSucceeds.
LEMMA JobKeepsSuccess ==
  ASSUME EarnedInv, "session" \notin Failures, NEW x \in Runs, Job(x)
  PROVE  CodeKept /\ FinishedNow /\ SuccessKept
<1> USE RunOfDeployment DEF EarnedInv, OrderInv, CodeKept, FinishedNow, SuccessKept, Goto
<1>1. CASE MarkInstalling(x) \/ CreateProviderDeployment(x)
  BY <1>1 DEF TypeOK, MarkInstalling, CreateProviderDeployment, Save, taskVars
<1>2. CASE StartTask(x) \/ NoConnection(x)
  BY <1>2 DEF TypeOK, StartTask, NoConnection, Task!Create, tableVars
<1>3. CASE \/ CreateTaskFails(x) \/ PreflightFailed(x) \/ RollbackUnreachable(x)
           \/ Failed(x) \/ Archive(x) \/ JobPromotes(x)
  BY <1>3 DEF TypeOK, CreateTaskFails, PreflightFailed, RollbackUnreachable, Failed, Archive,
              JobPromotes, tableVars, taskVars
<1>4. CASE FailTracked(x)
  BY <1>4 DEF TypeOK, FailTracked, Task!Settle, tableVars
<1>5. CASE SaveTaskID(x) \/ HandleFails(x) \/ FailedSaves(x)
  BY <1>5 DEF TypeOK, SaveTaskID, HandleFails, FailedSaves, Save, taskVars
<1>6. CASE RollbackReturns(x)
  <2>1. job'[x] = "finishing" => row[x] = "finished"
    BY <1>6, ReturnIsEarned
  <2> QED
    BY <1>6, <2>1 DEF TypeOK, RollbackReturns, Save, taskVars
<1>7. CASE RollbackSucceeds(x)
  <2>1. PICK d \in Deployments, n \in 1..MaxRuns : x = <<d, n>>
    BY DEF Runs
  <2>2. code[<<d, n>>] = 0 /\ x[1] = d
    BY <1>7, <2>1 DEF RollbackSucceeds, SuccessIsEarned
  <2> QED
    BY <1>7, <2>2 DEF TypeOK, RollbackSucceeds, Save, taskVars
<1> QED
  BY <1>1, <1>2, <1>3, <1>4, <1>5, <1>6, <1>7 DEF Job

\* A callback records one only as OnSuccess.
LEMMA CallbackKeepsSuccess ==
  ASSUME EarnedInv, NEW x \in Runs, Callback(x)
  PROVE  CodeKept /\ FinishedNow /\ SuccessKept
<1> USE RunOfDeployment DEF EarnedInv, OrderInv, CodeKept, FinishedNow, SuccessKept
<1>1. CASE CallbackUpdates(x)
  <2>1. PICK d \in Deployments, n \in 1..MaxRuns : x = <<d, n>>
    BY DEF Runs
  <2>2. StatusOf(calls[x][1]) = "finished" => calls[x] = <<"OnSuccess">>
    BY <1>1, StatusOfCall DEF CallbackUpdates, CallbackIsKnown
  <2>3. StatusOf(calls[x][1]) = "finished" => code[<<d, n>>] = 0 /\ x[1] = d
    BY <2>1, <2>2 DEF SuccessIsEarned
  <2> QED
    BY <1>1, <2>1, <2>3 DEF TypeOK, CallbackUpdates, UpdateStatus, taskVars
<1>2. CASE CallbackPromotes(x) \/ CallbackKeeps(x)
  BY <1>2 DEF CallbackPromotes, CallbackKeeps, tableVars, taskVars
<1>3. CASE CallbackDeletes(x)
  BY <1>3 DEF TypeOK, CallbackDeletes, taskVars
<1> QED
  BY <1>1, <1>2, <1>3 DEF Callback

\* The task keeps its promise.
LEMMA TaskKeepsSuccess ==
  ASSUME EarnedInv, NEW x \in Runs, TaskRuns(x) \/ Notify(x)
  PROVE  CodeKept /\ FinishedNow /\ SuccessKept
<1> USE DEF EarnedInv, OrderInv, TypeOK, CodeKept, FinishedNow, SuccessKept
<1>1. CASE Notify(x)
  BY <1>1 DEF Notify, Task!Notify, Task!CallbackFor, tableVars
<1>2. CASE TaskRuns(x)
  <2> USE <1>2 DEF TaskRuns, tableVars, procVars
  <2>1. CASE Task!Begin(x)
    BY <2>1 DEF Task!Begin
  <2>2. CASE Task!End(x)
    BY <2>2 DEF Task!End
  <2>3. CASE Task!Settle(x)
    BY <2>3 DEF Task!Settle
  <2> QED
    BY <2>1, <2>2, <2>3
<1> QED
  BY <1>1, <1>2

\* Nothing else records a success.
LEMMA RestKeepsSuccess ==
  ASSUME EarnedInv,
         \/ \E q \in Requests : Request(q)
         \/ CancelQueued \/ Crash
         \/ \E d \in Deployments : Handle(d)
         \/ \E x \in Runs : Promote(x)
         \/ UNCHANGED vars
  PROVE  CodeKept /\ FinishedNow /\ SuccessKept
<1> USE DEF EarnedInv, OrderInv, CodeKept, FinishedNow, SuccessKept
<1>1. ASSUME NEW q \in Requests, Check(q) \/ Enqueue(q)
      PROVE  CodeKept /\ FinishedNow /\ SuccessKept
  BY <1>1 DEF Check, Enqueue, tableVars, procVars, taskVars
<1>2. ASSUME NEW q \in Requests, Create(q) PROVE CodeKept /\ FinishedNow /\ SuccessKept
  BY <1>2 DEF TypeOK, Create, Save, Unborn, procVars, taskVars
<1>3. ASSUME NEW q \in Requests, EnqueueFails(q) PROVE CodeKept /\ FinishedNow /\ SuccessKept
  BY <1>3, RequestEnqueues DEF TypeOK, EnqueueFails, UpdateStatus, procVars, taskVars
<1>4. CASE CancelQueued
  BY <1>4 DEF TypeOK, CancelQueued, procVars, taskVars
<1>5. CASE Crash
  BY <1>5 DEF Crash, tableVars, taskVars
<1>6. ASSUME NEW d \in Deployments, Handle(d) PROVE CodeKept /\ FinishedNow /\ SuccessKept
  BY <1>6 DEF TypeOK, Handle, Goto, tableVars, taskVars
<1>7. ASSUME NEW x \in Runs, PromoteUpdate(x) PROVE CodeKept /\ FinishedNow /\ SuccessKept
  BY <1>7 DEF TypeOK, PromoteUpdate, Save, UpdateStatus, taskVars
<1>8. ASSUME NEW x \in Runs, PromoteEnqueue(x) PROVE CodeKept /\ FinishedNow /\ SuccessKept
  BY <1>8 DEF PromoteEnqueue, tableVars, taskVars
<1>9. CASE UNCHANGED vars
  BY <1>9 DEF vars, tableVars, procVars, taskVars
<1> QED
  BY <1>1, <1>2, <1>3, <1>4, <1>5, <1>6, <1>7, <1>8, <1>9 DEF Request, Promote

\* A deployment is recorded as finished only if its script ended with exit code 0,
\* for any number of deployments, executions and crashes, unless the session of a
\* rollback breaks.
THEOREM FinishedCorrect ==
  ASSUME "session" \notin Failures
  PROVE  Spec => []FinishedMeansSucceeded
<1>1. Init => SuccessIsEarned /\ FinishedMeansSucceeded
  BY DEF Init, Task!Init, SuccessIsEarned, FinishedMeansSucceeded
<1>2. EarnedInv /\ [Next]_vars => SuccessIsEarned' /\ FinishedMeansSucceeded'
  <2> SUFFICES ASSUME EarnedInv, [Next]_vars
               PROVE  CodeKept /\ FinishedNow /\ SuccessKept
    BY KeptEarned
  <2>1. ASSUME NEW x \in Runs, Job(x) \/ TaskRuns(x) \/ Notify(x) \/ Callback(x)
        PROVE  CodeKept /\ FinishedNow /\ SuccessKept
    BY <2>1, JobKeepsSuccess, TaskKeepsSuccess, CallbackKeepsSuccess
  <2> QED
    BY <2>1, RestKeepsSuccess DEF Next, Quiet
<1>3. OrderInv /\ SuccessIsEarned /\ FinishedMeansSucceeded <=> EarnedInv
  BY DEF EarnedInv
<1> QED
  BY <1>1, <1>2, <1>3, QueueInvariance, PTL DEF Spec

-----------------------------------------------------------------------------
(* Owners.  Most steps are of one execution x: what they leave alone is    *)
(* said once (StepOf), and what it implies is proved once (StepKeeps).     *)

RunOK(x) == HoldsTaskID(x) /\ JobKnowsTask(x) /\ PromotesOnce(x)

TableInv == BornApart /\ RequestIsFirst /\ FoundIsSingle

ActiveOwned == \A d \in Deployments : status[d] \in Active => Owned(d)

OwnersKept == TableInv' /\ RunInv' /\ ActiveOwned'

SameRun(x) ==
  /\ job'[x] = job[x] /\ row'[x] = row[x] /\ cb'[x] = cb[x] /\ prom'[x] = prom[x]
  /\ kind'[x[1]] = kind[x[1]] /\ runs'[x[1]] = runs[x[1]]

\* An execution is its deployment and its number.
LEMMA SameExecution ==
  ASSUME NEW x \in Runs, NEW y \in Runs, x[1] = y[1], x[2] = y[2]
  PROVE  x = y
<1>1. PICK d \in Deployments, n \in 1..MaxRuns : x = <<d, n>>
  BY DEF Runs
<1>2. PICK e \in Deployments, m \in 1..MaxRuns : y = <<e, m>>
  BY DEF Runs
<1> QED
  BY <1>1, <1>2

\* What is said of an execution stays true while nobody touches it.
LEMMA SameRunOK ==
  ASSUME NEW x \in Runs, RunOK(x), SameRun(x), lost \subseteq lost',
         AtWork(x) => queue'[x[1]] = queue[x[1]]
  PROVE  RunOK(x)'
<1>1. HoldsTaskID(x)'
  BY DEF RunOK, SameRun, HoldsTaskID, AtWork
<1>2. JobKnowsTask(x)'
  BY DEF RunOK, SameRun, JobKnowsTask
<1>3. PromotesOnce(x)'
  BY DEF RunOK, SameRun, PromotesOnce
<1> QED
  BY <1>1, <1>2, <1>3 DEF RunOK

\* The head of the queue is a single row, and no request is to enqueue it.
LEMMA OldestIsSingle ==
  ASSUME OrderInv, TableInv, NEW d \in OldestQueued
  PROVE  /\ d \in Deployments /\ born[d] # 0 /\ OldestQueued = {d}
         /\ \A q \in Requests : req[q] # [at |-> "enqueue", d |-> d]
<1>1. d \in Deployments /\ status[d] = "queued"
  BY DEF OldestQueued, QueuedBySite
<1>2. born[d] # 0
  BY <1>1 DEF OrderInv, BornInOrder
<1>3. ASSUME NEW e \in OldestQueued PROVE e = d
  <2>1. e \in Deployments /\ born[e] <= born[d] /\ born[d] <= born[e]
    BY <1>3 DEF OldestQueued, QueuedBySite
  <2>2. born[e] = born[d]
    <3>1. IsFiniteSet(Deployments) /\ Cardinality(Deployments) \in Nat
      BY DeploymentAssumption, FS_CardinalityType
    <3>2. born[e] \in Int /\ born[d] \in Int
      BY <1>1, <2>1, <3>1 DEF OrderInv, TypeOK
    <3> QED
      BY <2>1, <3>2
  <2> QED
    BY <1>1, <1>2, <2>1, <2>2 DEF TableInv, BornApart
<1>4. ASSUME NEW q \in Requests, req[q] = [at |-> "enqueue", d |-> d] PROVE FALSE
  BY <1>1, <1>4 DEF TableInv, RequestIsFirst
<1> QED
  BY <1>1, <1>2, <1>3, <1>4

\* A step that neither creates a row nor enqueues a job.
TableStep ==
  /\ born' = born /\ NoneEnters
  /\ \A q \in Requests : req'[q].at = "enqueue" => req'[q] = req[q]
  /\ \A d \in Deployments : queue[d] = "none" => queue'[d] = "none" /\ runs'[d] = runs[d]
  /\ \A x \in Runs : prom'[x] # "none" =>
       \/ prom[x] # "none" /\ found'[x] = found[x]
       \/ found'[x] = OldestQueued

LEMMA TableStepKeeps ==
  ASSUME OrderInv, TableInv, TableStep
  PROVE  TableInv'
<1>1. BornApart'
  BY DEF TableInv, BornApart, TableStep
<1>2. RequestIsFirst'
  <2> SUFFICES ASSUME NEW q \in Requests, req'[q].at = "enqueue"
               PROVE  /\ born'[req'[q].d] # 0 /\ status'[req'[q].d] # "queued"
                      /\ queue'[req'[q].d] = "none"
                      /\ \A p \in Requests : req'[p] = req'[q] => p = q
    BY DEF RequestIsFirst
  <2>1. req'[q] = req[q] /\ req[q].at = "enqueue" /\ req[q].d \in Deployments
    BY RequestEnqueues DEF TableStep, OrderInv
  <2>2. \A p \in Requests : req'[p] = req'[q] => req[p] = req[q]
    BY <2>1 DEF TableStep
  <2> QED
    BY <2>1, <2>2 DEF TableStep, NoneEnters, TableInv, RequestIsFirst
<1>3. FoundIsSingle'
  <2> SUFFICES ASSUME NEW x \in Runs, prom'[x] # "none", NEW d \in found'[x]
               PROVE  /\ born'[d] # 0 /\ found'[x] = {d}
                      /\ \A q \in Requests : req'[q] # [at |-> "enqueue", d |-> d]
    BY DEF FoundIsSingle
  <2>1. /\ born[d] # 0 /\ found'[x] = {d}
        /\ \A q \in Requests : req[q] # [at |-> "enqueue", d |-> d]
    <3>1. CASE prom[x] # "none" /\ found'[x] = found[x]
      BY <3>1 DEF TableInv, FoundIsSingle
    <3>2. CASE found'[x] = OldestQueued
      BY <3>2, OldestIsSingle
    <3> QED
      BY <3>1, <3>2 DEF TableStep
  <2>2. \A q \in Requests : req'[q] = [at |-> "enqueue", d |-> d] => req'[q] = req[q]
    BY DEF TableStep
  <2> QED
    BY <2>1, <2>2 DEF TableStep
<1> QED
  BY <1>1, <1>2, <1>3 DEF TableInv

\* An owner that stays is still one.
LEMMA StillOwned ==
  ASSUME NEW d \in Deployments, Owned(d), lost \subseteq lost', stale \subseteq stale',
         queue[d] = "waiting" => queue'[d] = "waiting",
         \A q \in Requests : req[q] = [at |-> "enqueue", d |-> d] => req'[q] = req[q],
         \A x \in Runs : prom[x] = "enqueue" /\ d \in found[x] =>
                           prom'[x] = "enqueue" /\ d \in found'[x],
         \A x \in Runs : OwnedByRun(d, x) => OwnedByRun(d, x)'
  PROVE  Owned(d)'
<1>1. CASE d \in lost \cup stale
  BY <1>1 DEF Owned
<1>2. CASE queue[d] = "waiting"
  BY <1>2 DEF Owned
<1>3. CASE \E q \in Requests : req[q] = [at |-> "enqueue", d |-> d]
  BY <1>3 DEF Owned
<1>4. CASE \E x \in Runs : prom[x] = "enqueue" /\ d \in found[x]
  BY <1>4 DEF Owned
<1>5. CASE \E x \in Runs : OwnedByRun(d, x)
  BY <1>5 DEF Owned
<1> QED
  BY <1>1, <1>2, <1>3, <1>4, <1>5 DEF Owned

\* An execution that nobody touches owns what it owned.
LEMMA SameRunOwns ==
  ASSUME NEW x \in Runs, SameRun(x), NEW d \in Deployments, OwnedByRun(d, x)
  PROVE  OwnedByRun(d, x)'
BY DEF SameRun, OwnedByRun, AtWork

\* A step of x.
StepOf(x) ==
  /\ born' = born /\ req' = req /\ kind' = kind /\ runs' = runs
  /\ lost \subseteq lost' /\ stale \subseteq stale' /\ NoneEnters
  /\ \A y \in Runs : y # x =>
       /\ job'[y] = job[y] /\ row'[y] = row[y] /\ cb'[y] = cb[y]
       /\ prom'[y] = prom[y] /\ found'[y] = found[y]
  /\ \/ queue' = queue
     \/ AtWork(x) /\ \A d \in Deployments : d # x[1] => queue'[d] = queue[d]
  /\ prom'[x] # "none" => \/ prom[x] # "none" /\ found'[x] = found[x]
                          \/ found'[x] = OldestQueued
  /\ prom[x] = "enqueue" => prom'[x] = "enqueue" /\ found'[x] = found[x]

\* What it makes active, or leaves active, is owned.
LeavesOwned(x) ==
  \A d \in Deployments : status'[d] \in Active =>
    \/ status[d] \in Active /\ (OwnedByRun(d, x) => OwnedByRun(d, x)')
    \/ d \in lost' \cup stale'
    \/ prom'[x] = "enqueue" /\ d \in found'[x]
    \/ OwnedByRun(d, x)'

LEMMA StepKeeps ==
  ASSUME OwnerInv, NEW x \in Runs, StepOf(x), RunOK(x)', LeavesOwned(x)
  PROVE  OwnersKept
<1>1. OrderInv /\ TableInv /\ RunInv /\ ActiveOwned
  BY DEF OwnerInv, TableInv, ActiveOwned
<1>2. \A y \in Runs : RunOK(y)
  BY <1>1 DEF RunInv, RunOK
<1>3. \A d \in Deployments : queue[d] \in {"none", "waiting"} => queue'[d] = queue[d]
  BY <1>2 DEF StepOf, RunOK, HoldsTaskID
<1>4. \A y \in Runs : y # x => SameRun(y)
  BY DEF StepOf, SameRun
<1>5. \A y \in Runs : y # x /\ AtWork(y) => queue'[y[1]] = queue[y[1]]
  BY <1>2, SameExecution, RunOfDeployment DEF StepOf, RunOK, HoldsTaskID
<1>6. RunInv'
  <2> SUFFICES ASSUME NEW y \in Runs PROVE RunOK(y)'
    BY DEF RunInv, RunOK
  <2>1. CASE y = x
    BY <2>1
  <2>2. CASE y # x
    BY <1>2, <1>4, <1>5, <2>2, SameRunOK DEF StepOf
  <2> QED
    BY <2>1, <2>2
<1>7. TableInv'
  <2>1. TableStep
    BY <1>3 DEF StepOf, TableStep
  <2> QED
    BY <1>1, <2>1, TableStepKeeps
<1>8. ActiveOwned'
  <2> SUFFICES ASSUME NEW d \in Deployments, status'[d] \in Active PROVE Owned(d)'
    BY DEF ActiveOwned
  <2>1. CASE status[d] \in Active /\ (OwnedByRun(d, x) => OwnedByRun(d, x)')
    <3>1. Owned(d)
      BY <1>1, <2>1 DEF ActiveOwned
    <3>2. \A y \in Runs : OwnedByRun(d, y) => OwnedByRun(d, y)'
      BY <1>4, <2>1, SameRunOwns
    <3>3. \A y \in Runs : prom[y] = "enqueue" /\ d \in found[y] =>
                            prom'[y] = "enqueue" /\ d \in found'[y]
      BY DEF StepOf
    <3>4. req' = req /\ lost \subseteq lost' /\ stale \subseteq stale'
      BY DEF StepOf
    <3>5. queue[d] = "waiting" => queue'[d] = "waiting"
      BY <1>3
    <3> QED
      BY <3>1, <3>2, <3>3, <3>4, <3>5, StillOwned
  <2>2. CASE d \in lost' \cup stale'
    BY <2>2 DEF Owned
  <2>3. CASE prom'[x] = "enqueue" /\ d \in found'[x]
    BY <2>3 DEF Owned
  <2>4. CASE OwnedByRun(d, x)'
    BY <2>4 DEF Owned
  <2> QED
    BY <2>1, <2>2, <2>3, <2>4 DEF LeavesOwned
<1> QED
  BY <1>6, <1>7, <1>8 DEF OwnersKept

\* A job takes no step but its own: it leaves the table's other rows, the promotions
\* and the callbacks alone.
JobFrame(x) ==
  /\ born' = born /\ req' = req /\ kind' = kind /\ runs' = runs /\ lost' = lost
  /\ prom' = prom /\ found' = found /\ cb' = cb /\ stale \subseteq stale'
  /\ \A y \in Runs : y # x => job'[y] = job[y] /\ row'[y] = row[y]
  /\ \A d \in Deployments : d # x[1] => queue'[d] = queue[d] /\ status'[d] = status[d]

\* Every step of a job leaves its row owned.
JobOwns(x) ==
  \/ status'[x[1]] \notin Active
  \/ x[1] \in stale'
  \/ OwnedByRun(x[1], x)'

JobStep(x) == AtWork(x) /\ JobFrame(x) /\ RunOK(x)' /\ JobOwns(x)

LEMMA JobStepKeeps ==
  ASSUME OwnerInv, NEW x \in Runs, Job(x), JobStep(x)
  PROVE  OwnersKept
<1>1. StepOf(x)
  BY JobKeepsQueue DEF QueueKept, JobFrame, StepOf, JobStep, OwnerInv, OrderInv
<1>2. LeavesOwned(x)
  BY DEF JobFrame, JobOwns, LeavesOwned, OwnedByRun, JobStep
<1> QED
  BY <1>1, <1>2, StepKeeps DEF JobStep

\* What is known of a job.
LEMMA JobKnows ==
  ASSUME OwnerInv, NEW x \in Runs
  PROVE  TypeOK /\ x[1] \in Deployments /\ HoldsTaskID(x) /\ JobKnowsTask(x) /\ PromotesOnce(x)
BY RunOfDeployment DEF OwnerInv, OrderInv, RunInv

\* The steps of Handle before the script.
LEMMA HandleOwned ==
  ASSUME OwnerInv, NEW x \in Runs,
         \/ MarkInstalling(x) \/ CreateProviderDeployment(x) \/ StartTask(x)
         \/ CreateTaskFails(x) \/ NoConnection(x) \/ FailTracked(x) \/ PreflightFailed(x)
  PROVE  JobStep(x)
<1> USE JobKnows DEF JobStep
<1>1. CASE MarkInstalling(x)
  <2>1. /\ job[x] = "found" /\ job'[x] \in {"ready", "marked"} /\ queue' = queue /\ row' = row
        /\ lost' = lost /\ JobFrame(x)
    BY <1>1 DEF TypeOK, MarkInstalling, Goto, Save, JobFrame, taskVars
  <2>2. RunOK(x)'
    BY <2>1 DEF JobFrame, RunOK, HoldsTaskID, JobKnowsTask, PromotesOnce, AtWork, Failing
  <2> QED
    BY <2>1, <2>2 DEF JobOwns, OwnedByRun, AtWork
<1>2. CASE CreateProviderDeployment(x)
  <2>1. /\ job[x] = "marked" /\ job'[x] = "ready" /\ queue' = queue /\ row' = row
        /\ lost' = lost /\ JobFrame(x)
    BY <1>2 DEF TypeOK, CreateProviderDeployment, Goto, Save, JobFrame, taskVars
  <2>2. RunOK(x)'
    BY <2>1 DEF JobFrame, RunOK, HoldsTaskID, JobKnowsTask, PromotesOnce, AtWork, Failing
  <2> QED
    BY <2>1, <2>2 DEF JobOwns, OwnedByRun, AtWork
<1>3. CASE StartTask(x)
  <2>1. /\ job[x] = "ready" /\ queue' = queue /\ row'[x] = "pending" /\ lost' = lost
        /\ job'[x] = IF kind[x[1]] = "rollback" THEN "dispatch" ELSE "saving"
        /\ JobFrame(x)
    BY <1>3 DEF TypeOK, StartTask, Task!Create, Goto, JobFrame, tableVars
  <2>2. RunOK(x)'
    BY <2>1 DEF JobFrame, RunOK, HoldsTaskID, JobKnowsTask, PromotesOnce, AtWork, Failing,
                      Task!Verdicts
  <2> QED
    BY <2>1, <2>2 DEF JobOwns, OwnedByRun, AtWork
<1>4. CASE CreateTaskFails(x)
  <2>1. /\ job[x] = "ready" /\ job'[x] = "failing" /\ queue' = queue /\ row' = row
        /\ lost' = lost /\ JobFrame(x)
    BY <1>4 DEF TypeOK, CreateTaskFails, Goto, JobFrame, tableVars, taskVars
  <2>2. RunOK(x)'
    BY <2>1 DEF JobFrame, RunOK, HoldsTaskID, JobKnowsTask, PromotesOnce, AtWork, Failing,
                      Task!Unsettled
  <2> QED
    BY <2>1, <2>2 DEF JobOwns, OwnedByRun, AtWork
<1>5. CASE NoConnection(x)
  <2>1. /\ job[x] = "ready" /\ job'[x] = "unreachable" /\ queue' = queue /\ lost' = lost
        /\ row'[x] = "pending" /\ kind[x[1]] # "rollback" /\ JobFrame(x)
    BY <1>5 DEF TypeOK, NoConnection, Task!Create, Goto, JobFrame, tableVars
  <2>2. RunOK(x)'
    BY <2>1 DEF JobFrame, RunOK, HoldsTaskID, JobKnowsTask, PromotesOnce, AtWork, Failing,
                      Task!Verdicts
  <2> QED
    BY <2>1, <2>2 DEF JobOwns, OwnedByRun, AtWork
<1>6. CASE FailTracked(x)
  <2>1. /\ job[x] = "unreachable" /\ job'[x] = "preflight" /\ queue' = queue /\ lost' = lost
        /\ row'[x] = "failed" /\ JobFrame(x)
    BY <1>6 DEF TypeOK, FailTracked, Task!Settle, Goto, JobFrame, tableVars
  <2>2. RunOK(x)'
    BY <2>1 DEF JobFrame, RunOK, HoldsTaskID, JobKnowsTask, PromotesOnce, AtWork, Failing,
                      Task!Verdicts, Task!Unsettled
  <2> QED
    BY <2>1, <2>2 DEF JobOwns, OwnedByRun, AtWork
<1>7. CASE PreflightFailed(x)
  <2>1. /\ job[x] = "preflight" /\ job'[x] = "failing" /\ queue' = queue /\ row' = row
        /\ cb[x] = "over" /\ lost' = lost /\ JobFrame(x)
    BY <1>7 DEF TypeOK, PreflightFailed, Goto, JobFrame, tableVars, taskVars
  <2>2. RunOK(x)'
    BY <2>1 DEF JobFrame, RunOK, HoldsTaskID, JobKnowsTask, PromotesOnce, AtWork, Failing
  <2> QED
    BY <2>1, <2>2 DEF JobOwns, OwnedByRun, AtWork
<1> QED
  BY <1>1, <1>2, <1>3, <1>4, <1>5, <1>6, <1>7

\* Its steps after the script, and those of Failed.
LEMMA OutcomeOwned ==
  ASSUME OwnerInv, NEW x \in Runs,
         \/ SaveTaskID(x) \/ RollbackReturns(x) \/ RollbackUnreachable(x)
         \/ RollbackSucceeds(x) \/ HandleFails(x) \/ Failed(x) \/ FailedSaves(x)
  PROVE  JobStep(x)
<1> USE JobKnows DEF JobStep
<1>1. CASE SaveTaskID(x)
  <2>1. /\ job[x] = "saving" /\ job'[x] = "over" /\ row' = row /\ lost' = lost
        /\ cb[x] \notin {"none", "status"} => x[1] \in stale'
        /\ JobFrame(x)
    BY <1>1 DEF TypeOK, SaveTaskID, Goto, Save, JobFrame, taskVars
  <2>2. RunOK(x)'
    BY <2>1 DEF JobFrame, RunOK, HoldsTaskID, JobKnowsTask, PromotesOnce, AtWork, Failing
  <2>3. JobOwns(x)
    BY <2>1 DEF JobOwns, OwnedByRun, JobFrame, JobKnowsTask
  <2> QED
    BY <2>1, <2>2, <2>3 DEF AtWork
<1>2. CASE RollbackReturns(x)
  <2>1. /\ job[x] = "dispatch" /\ job'[x] \in {"finishing", "failing"} /\ row' = row
        /\ row[x] \in Task!Verdicts
        /\ queue' = queue /\ lost' = lost /\ JobFrame(x)
    BY <1>2 DEF TypeOK, RollbackReturns, Goto, Save, ExitCodes, JobFrame, Task!Verdicts, taskVars
  <2>2. RunOK(x)'
    BY <2>1 DEF JobFrame, RunOK, HoldsTaskID, JobKnowsTask, PromotesOnce, AtWork, Failing,
                Task!Verdicts, Task!Unsettled
  <2> QED
    BY <2>1, <2>2 DEF JobOwns, OwnedByRun, AtWork
<1>3. CASE RollbackUnreachable(x)
  <2>1. /\ job[x] = "dispatch" /\ job'[x] = "failing" /\ row' = row /\ row[x] = "failed"
        /\ queue' = queue /\ lost' = lost /\ JobFrame(x)
    BY <1>3 DEF TypeOK, RollbackUnreachable, Goto, JobFrame, tableVars, taskVars
  <2>2. RunOK(x)'
    BY <2>1 DEF JobFrame, RunOK, HoldsTaskID, JobKnowsTask, PromotesOnce, AtWork, Failing,
                Task!Verdicts, Task!Unsettled
  <2> QED
    BY <2>1, <2>2 DEF JobOwns, OwnedByRun, AtWork
<1>4. CASE RollbackSucceeds(x)
  <2>1. /\ job[x] = "finishing" /\ job'[x] = "over" /\ row' = row /\ lost' = lost
        /\ status'[x[1]] = "finished" /\ JobFrame(x)
    BY <1>4 DEF TypeOK, RollbackSucceeds, Goto, Save, JobFrame, taskVars
  <2>2. RunOK(x)'
    BY <2>1 DEF JobFrame, RunOK, HoldsTaskID, JobKnowsTask, PromotesOnce, AtWork, Failing
  <2> QED
    BY <2>1, <2>2 DEF JobOwns, Active, AtWork
<1>5. CASE HandleFails(x)
  <2>1. /\ job[x] = "failing" /\ job'[x] \in {"failed", "promote"} /\ row' = row
        /\ queue' = queue /\ lost' = lost /\ JobFrame(x)
    BY <1>5 DEF TypeOK, HandleFails, Goto, Save, JobFrame, taskVars
  <2>2. RunOK(x)'
    BY <2>1 DEF JobFrame, RunOK, HoldsTaskID, JobKnowsTask, PromotesOnce, AtWork, Failing
  <2> QED
    BY <2>1, <2>2 DEF JobOwns, OwnedByRun, AtWork
<1>6. CASE Failed(x)
  <2>1. /\ job[x] = "failed" /\ prom[x] = "none" /\ row' = row
        /\ job'[x] = IF status[x[1]] = "gone" THEN "ending" ELSE "failsave"
        /\ status' = status /\ queue' = queue /\ lost' = lost /\ JobFrame(x)
    BY <1>6 DEF TypeOK, Failed, Goto, JobFrame, tableVars, taskVars
  <2>2. RunOK(x)'
    BY <2>1 DEF JobFrame, RunOK, HoldsTaskID, JobKnowsTask, PromotesOnce, AtWork, Failing
  <2> QED
    BY <2>1, <2>2 DEF JobOwns, OwnedByRun, AtWork, Active
<1>7. CASE FailedSaves(x)
  <2>1. /\ job[x] = "failsave" /\ job'[x] \in {"ending", "promote2"} /\ row' = row
        /\ status'[x[1]] = "failed" /\ queue' = queue /\ lost' = lost /\ JobFrame(x)
    BY <1>7 DEF TypeOK, FailedSaves, Goto, Save, JobFrame, taskVars
  <2>2. RunOK(x)'
    BY <2>1 DEF JobFrame, RunOK, HoldsTaskID, JobKnowsTask, PromotesOnce, AtWork, Failing
  <2> QED
    BY <2>1, <2>2 DEF JobOwns, Active, AtWork
<1> QED
  BY <1>1, <1>2, <1>3, <1>4, <1>5, <1>6, <1>7

\* A promotion that starts, if the queue is not empty.
LEMMA SelectStarts ==
  ASSUME TypeOK, NEW x \in Runs, Select(x)
  PROVE  /\ \A y \in Runs : y # x => prom'[y] = prom[y] /\ found'[y] = found[y]
         /\ \/ prom'[x] = prom[x] /\ found'[x] = found[x]
            \/ prom'[x] = "update" /\ found'[x] = OldestQueued
BY DEF Select, TypeOK

\* The rest of Failed: its promotion, and the return of the job.
LEMMA EndOwned ==
  ASSUME OwnerInv, NEW x \in Runs, JobPromotes(x) \/ Archive(x)
  PROVE  OwnersKept
<1> USE JobKnows
<1>1. NoneEnters /\ Job(x)
  BY JobKeepsQueue DEF Job, QueueKept
<1>2. ASSUME StepOf(x), RunOK(x)', status' = status,
             \A d \in Deployments : OwnedByRun(d, x) => OwnedByRun(d, x)'
      PROVE  OwnersKept
  BY <1>2, StepKeeps DEF LeavesOwned
<1>3. CASE JobPromotes(x)
  <2>1. /\ job[x] \in {"promote", "promote2"} /\ row' = row /\ cb' = cb /\ kind' = kind
        /\ job'[x] = IF job[x] = "promote" THEN "failed" ELSE "ending"
        /\ \A y \in Runs : y # x => job'[y] = job[y]
        /\ born' = born /\ req' = req /\ runs' = runs /\ status' = status /\ queue' = queue
        /\ lost' = lost /\ stale' = stale
    BY <1>3 DEF TypeOK, JobPromotes, Goto, tableVars, taskVars
  <2>2. prom[x] = "none"
    BY <2>1 DEF PromotesOnce, JobKnowsTask, Failing, Task!Verdicts
  <2>3. StepOf(x)
    BY <1>1, <1>3, <2>1, <2>2, SelectStarts DEF JobPromotes, StepOf
  <2>4. RunOK(x)'
    BY <2>1 DEF RunOK, HoldsTaskID, JobKnowsTask, PromotesOnce, AtWork, Failing
  <2>5. \A d \in Deployments : OwnedByRun(d, x) => OwnedByRun(d, x)'
    BY <2>1 DEF OwnedByRun, AtWork
  <2> QED
    BY <1>2, <2>1, <2>3, <2>4, <2>5
<1>4. CASE Archive(x)
  <2>1. /\ job[x] = "ending" /\ job'[x] = "over" /\ prom[x] = "none" /\ row' = row /\ cb' = cb
        /\ \A y \in Runs : y # x => job'[y] = job[y]
        /\ \A d \in Deployments : d # x[1] => queue'[d] = queue[d]
        /\ born' = born /\ req' = req /\ runs' = runs /\ status' = status /\ kind' = kind
        /\ prom' = prom /\ found' = found /\ lost' = lost /\ stale' = stale
    BY <1>4 DEF TypeOK, Archive, Goto, tableVars, taskVars
  <2>2. StepOf(x)
    BY <1>1, <2>1 DEF StepOf, AtWork
  <2>3. RunOK(x)'
    BY <2>1 DEF RunOK, HoldsTaskID, JobKnowsTask, PromotesOnce, AtWork, Failing
  <2>4. \A d \in Deployments : OwnedByRun(d, x) => OwnedByRun(d, x)'
    BY <2>1 DEF OwnedByRun, AtWork
  <2> QED
    BY <1>2, <2>1, <2>2, <2>3, <2>4
<1> QED
  BY <1>3, <1>4

\* No step of a job leaves an active row alone.
LEMMA JobOwned ==
  ASSUME OwnerInv, NEW x \in Runs, Job(x)
  PROVE  OwnersKept
<1>1. CASE JobPromotes(x) \/ Archive(x)
  BY <1>1, EndOwned
<1>2. CASE ~(JobPromotes(x) \/ Archive(x))
  <2>1. JobStep(x)
    BY <1>2, HandleOwned, OutcomeOwned DEF Job
  <2> QED
    BY <2>1, JobStepKeeps
<1> QED
  BY <1>1, <1>2

\* A task that runs, or notifies: its job waits for it, or its callback is to come.
LEMMA TaskOwned ==
  ASSUME OwnerInv, NEW x \in Runs, TaskRuns(x) \/ Notify(x)
  PROVE  OwnersKept
<1> USE JobKnows
<1>1. NoneEnters
  BY RestKeepsQueue DEF QueueKept
<1>2. ASSUME StepOf(x), RunOK(x)', status' = status,
             \A d \in Deployments : OwnedByRun(d, x) => OwnedByRun(d, x)' \/ d \in lost'
      PROVE  OwnersKept
  BY <1>2, StepKeeps DEF LeavesOwned
<1>3. CASE TaskRuns(x)
  <2>1. /\ \A y \in Runs : y # x => row'[y] = row[y]
        /\ row[x] \in Task!Unsettled \/ row'[x] = row[x]
        /\ row[x] \in Task!Unsettled => row'[x] \in Task!Unsettled \cup Task!Verdicts
        /\ row'[x] \in Task!Unsettled => row[x] \in Task!Unsettled
    <3> USE <1>3 DEF TypeOK, TaskRuns, Task!Unsettled, Task!Verdicts
    <3>1. CASE Task!Begin(x)
      BY <3>1 DEF Task!Begin
    <3>2. CASE Task!End(x)
      BY <3>2 DEF Task!End
    <3>3. CASE Task!Settle(x)
      BY <3>3 DEF Task!Settle
    <3> QED
      BY <3>1, <3>2, <3>3
  <2>2. /\ job' = job /\ cb' = cb /\ prom' = prom /\ found' = found /\ born' = born /\ req' = req
        /\ kind' = kind /\ runs' = runs /\ status' = status /\ queue' = queue
        /\ lost' = lost /\ stale' = stale
    BY <1>3 DEF TaskRuns, tableVars, procVars
  <2>3. StepOf(x)
    BY <1>1, <2>1, <2>2 DEF StepOf
  <2>4. row[x] \in Task!Unsettled => cb[x] = "none" /\ row[x] # "none" /\ row'[x] # "none"
    BY <2>1 DEF JobKnowsTask, Task!Verdicts, Task!Unsettled
  <2>5. RunOK(x)'
    BY <2>1, <2>2, <2>4 DEF RunOK, HoldsTaskID, JobKnowsTask, PromotesOnce, AtWork
  <2>6. \A d \in Deployments : OwnedByRun(d, x) => OwnedByRun(d, x)' \/ d \in lost'
    BY <2>1, <2>2, <2>4 DEF OwnedByRun, AtWork, JobKnowsTask
  <2> QED
    BY <1>2, <2>2, <2>3, <2>5, <2>6
<1>4. CASE Notify(x)
  <2>1. /\ job' = job /\ row' = row /\ prom' = prom /\ found' = found /\ born' = born /\ req' = req
        /\ kind' = kind /\ runs' = runs /\ status' = status /\ queue' = queue
        /\ lost' = lost /\ stale' = stale /\ kind[x[1]] # "rollback"
        /\ cb[x] = "none" /\ cb'[x] = "status" /\ \A y \in Runs : y # x => cb'[y] = cb[y]
        /\ row[x] \in Task!Verdicts
    BY <1>4 DEF TypeOK, Notify, Task!Notify, tableVars
  <2>2. StepOf(x)
    BY <1>1, <2>1 DEF StepOf
  <2>3. RunOK(x)'
    BY <2>1 DEF RunOK, HoldsTaskID, JobKnowsTask, PromotesOnce, AtWork, Failing, Task!Verdicts
  <2>4. \A d \in Deployments : OwnedByRun(d, x) => OwnedByRun(d, x)' \/ d \in lost'
    BY <2>1 DEF OwnedByRun, AtWork
  <2> QED
    BY <1>2, <2>1, <2>2, <2>3, <2>4
<1> QED
  BY <1>3, <1>4

\* A callback that is at work has its execution to itself: nobody else promotes for it.
LEMMA CallbackAlone ==
  ASSUME OwnerInv, NEW x \in Runs, cb[x] \notin {"none", "over"}
  PROVE  /\ kind[x[1]] # "rollback" /\ row[x] \in Task!Verdicts /\ job[x] \notin Failing
         /\ cb[x] # "cleanup" => prom[x] = "none"
BY JobKnows DEF JobKnowsTask, PromotesOnce, Failing, Task!Verdicts

\* A callback writes a verdict, then it owns nothing any more.
LEMMA CallbackOwned ==
  ASSUME OwnerInv, NEW x \in Runs, Callback(x)
  PROVE  OwnersKept
<1> USE JobKnows
<1>1. /\ NoneEnters /\ cb[x] \notin {"none", "over"}
      /\ job' = job /\ row' = row /\ born' = born /\ req' = req /\ kind' = kind /\ runs' = runs
      /\ queue' = queue /\ lost' = lost /\ stale' = stale
      /\ \A y \in Runs : y # x => cb'[y] = cb[y]
  <2>1. NoneEnters
    BY CallbackKeepsQueue DEF QueueKept, OwnerInv, OrderInv
  <2> QED
    BY <2>1 DEF TypeOK, Callback, CallbackUpdates, CallbackPromotes, CallbackKeeps,
                CallbackDeletes, tableVars, taskVars
<1>2. /\ kind[x[1]] # "rollback" /\ row[x] \in Task!Verdicts /\ job[x] \notin Failing
      /\ cb[x] # "cleanup" => prom[x] = "none"
  BY <1>1, CallbackAlone
<1>3. ASSUME cb'[x] \notin {"none", "status"},
             prom'[x] # "none" => cb'[x] = "cleanup"
      PROVE  RunOK(x)'
  BY <1>1, <1>2, <1>3 DEF RunOK, HoldsTaskID, JobKnowsTask, PromotesOnce, AtWork, Task!Verdicts
<1>4. CASE CallbackUpdates(x)
  <2>1. /\ cb[x] = "status" /\ cb'[x] \in {"promote", "cleanup"}
        /\ prom' = prom /\ found' = found
    BY <1>4 DEF TypeOK, CallbackUpdates
  <2>2. StatusOf(calls[x][1]) \in Complete
    BY <2>1, StatusOfCall DEF OwnerInv, OrderInv, CallbackIsKnown
  <2>3. /\ status'[x[1]] \notin Active
        /\ \A d \in Deployments : d # x[1] => status'[d] = status[d]
    BY <1>4, <2>2 DEF TypeOK, CallbackUpdates, UpdateStatus, Complete, Active
  <2>4. StepOf(x)
    BY <1>1, <2>1 DEF StepOf
  <2>5. RunOK(x)'
    BY <1>2, <1>3, <2>1
  <2>6. LeavesOwned(x)
    BY <2>3 DEF LeavesOwned, OwnedByRun
  <2> QED
    BY <2>4, <2>5, <2>6, StepKeeps
<1>5. CASE CallbackPromotes(x)
  <2>1. cb[x] = "promote" /\ cb'[x] = "cleanup" /\ status' = status
    BY <1>5 DEF TypeOK, CallbackPromotes, tableVars
  <2>2. StepOf(x)
    BY <1>1, <1>2, <1>5, <2>1, SelectStarts DEF StepOf, CallbackPromotes
  <2>3. RunOK(x)'
    BY <1>3, <2>1
  <2>4. LeavesOwned(x)
    BY <1>1, <2>1 DEF LeavesOwned, OwnedByRun, AtWork, Task!Unsettled
  <2> QED
    BY <2>2, <2>3, <2>4, StepKeeps
<1>6. CASE CallbackKeeps(x)
  <2>1. /\ cb[x] = "cleanup" /\ cb'[x] \in {"delete", "over"} /\ prom[x] = "none"
        /\ prom' = prom /\ status' = status
        /\ \A y \in Runs : y # x => found'[y] = found[y]
    BY <1>6 DEF TypeOK, CallbackKeeps, tableVars
  <2>2. StepOf(x)
    BY <1>1, <2>1 DEF StepOf
  <2>3. RunOK(x)'
    BY <1>3, <2>1
  <2>4. LeavesOwned(x)
    BY <1>1, <2>1 DEF LeavesOwned, OwnedByRun, AtWork, Task!Unsettled
  <2> QED
    BY <2>2, <2>3, <2>4, StepKeeps
<1>7. CASE CallbackDeletes(x)
  <2>1. /\ cb[x] = "delete" /\ cb'[x] = "over" /\ prom' = prom
        /\ \A y \in Runs : y # x => found'[y] = found[y]
        /\ \A d \in Deployments : status'[d] \in {status[d], "gone"}
    BY <1>7 DEF TypeOK, CallbackDeletes
  <2>2. StepOf(x)
    BY <1>1, <1>2, <2>1 DEF StepOf
  <2>3. RunOK(x)'
    BY <1>2, <1>3, <2>1
  <2>4. LeavesOwned(x)
    BY <1>1, <2>1 DEF LeavesOwned, OwnedByRun, AtWork, Task!Unsettled, Active
  <2> QED
    BY <2>2, <2>3, <2>4, StepKeeps
<1> QED
  BY <1>4, <1>5, <1>6, <1>7 DEF Callback

\* The row that a request is to enqueue is all it knows.
LEMMA RequestIsRecord ==
  ASSUME TypeOK, NEW q \in Requests, req[q].at = "enqueue"
  PROVE  req[q] = [at |-> "enqueue", d |-> req[q].d]
<1>1. req[q] \in {Idle} \cup [at : {"free", "busy"}, kind : Kinds]
                        \cup [at : {"enqueue"}, d : Deployments]
  BY DEF TypeOK
<1>2. CASE req[q] = Idle
  BY <1>2 DEF Idle
<1>3. CASE req[q] \in [at : {"free", "busy"}, kind : Kinds]
  BY <1>3
<1>4. CASE req[q] \in [at : {"enqueue"}, d : Deployments]
  BY <1>4
<1> QED
  BY <1>1, <1>2, <1>3, <1>4

\* A promotion owns the row between its two statements; then a job does, or the queue
\* has refused it.
LEMMA PromoteOwned ==
  ASSUME OwnerInv, NEW x \in Runs, Promote(x)
  PROVE  OwnersKept
<1> USE JobKnows
<1>1. CASE PromoteUpdate(x)
  <2>1. PICK f \in found[x] : Save(f, "pending") \/ UpdateStatus(f, "pending")
    BY <1>1 DEF PromoteUpdate
  <2>2. f \in Deployments /\ found[x] = {f}
    BY <1>1, <2>1 DEF TypeOK, PromoteUpdate, OwnerInv, FoundIsSingle
  <2>3. \A d \in Deployments : d # f => status'[d] = status[d]
    BY <2>1, <2>2 DEF TypeOK, Save, UpdateStatus
  <2>4. NoneEnters
    BY <1>1, PromotionInOrder DEF QueueKept, OwnerInv, OrderInv
  <2>5. /\ prom[x] = "update" /\ prom'[x] = "enqueue" /\ found' = found
        /\ \A y \in Runs : y # x => prom'[y] = prom[y]
        /\ job' = job /\ row' = row /\ cb' = cb /\ born' = born /\ req' = req /\ kind' = kind
        /\ runs' = runs /\ queue' = queue /\ lost' = lost /\ stale' = stale
    BY <1>1 DEF TypeOK, PromoteUpdate, taskVars
  <2>6. StepOf(x)
    BY <2>4, <2>5 DEF StepOf
  <2>7. RunOK(x)'
    BY <2>5 DEF RunOK, HoldsTaskID, JobKnowsTask, PromotesOnce, AtWork
  <2>8. LeavesOwned(x)
    BY <2>2, <2>3, <2>5 DEF LeavesOwned, OwnedByRun, AtWork
  <2> QED
    BY <2>6, <2>7, <2>8, StepKeeps
<1>2. CASE PromoteEnqueue(x)
  <2>1. PICK f \in found[x] :
          \/ queue[f] = "none" /\ queue' = [queue EXCEPT ![f] = "waiting"] /\ lost' = lost
          \/ /\ queue' = queue
             /\ lost' = IF queue[f] = "waiting" THEN lost ELSE lost \cup {f}
    BY <1>2 DEF PromoteEnqueue
  <2>2. prom[x] = "enqueue" /\ f \in Deployments
    BY <1>2 DEF TypeOK, PromoteEnqueue
  <2>3. /\ born[f] # 0 /\ found[x] = {f}
        /\ \A q \in Requests : req[q] # [at |-> "enqueue", d |-> f]
    BY <2>2 DEF OwnerInv, FoundIsSingle
  <2>4. /\ prom'[x] = "none"
        /\ \A y \in Runs : y # x => prom'[y] = prom[y] /\ found'[y] = found[y]
        /\ job' = job /\ row' = row /\ cb' = cb /\ born' = born /\ req' = req /\ kind' = kind
        /\ runs' = runs /\ status' = status /\ stale' = stale
    BY <1>2 DEF TypeOK, PromoteEnqueue, tableVars, taskVars
  <2>5. /\ lost \subseteq lost'
        /\ queue'[f] = "waiting" \/ f \in lost'
        /\ \A d \in Deployments : queue'[d] = queue[d] \/ (d = f /\ queue[f] = "none")
    BY <2>1, <2>2 DEF TypeOK
  <2>6. TableInv'
    <3>1. BornApart'
      BY <2>3, <2>4, <2>5 DEF OwnerInv, BornApart
    <3>2. RequestIsFirst'
      <4> SUFFICES ASSUME NEW q \in Requests, req[q].at = "enqueue"
                   PROVE  queue'[req[q].d] = "none"
        BY <2>4 DEF OwnerInv, RequestIsFirst
      <4>1. /\ req[q].d \in Deployments /\ queue[req[q].d] = "none"
            /\ req[q] = [at |-> "enqueue", d |-> req[q].d]
        BY RequestEnqueues, RequestIsRecord DEF OwnerInv, RequestIsFirst
      <4> QED
        BY <2>3, <2>5, <4>1
    <3>3. FoundIsSingle'
      BY <2>4 DEF OwnerInv, FoundIsSingle
    <3> QED
      BY <3>1, <3>2, <3>3 DEF TableInv
  <2>7. RunInv'
    <3> SUFFICES ASSUME NEW y \in Runs PROVE RunOK(y)'
      BY DEF RunInv, RunOK
    <3>1. RunOK(y) /\ y[1] \in Deployments
      BY JobKnows DEF RunOK
    <3>2. HoldsTaskID(y)'
      BY <2>4, <2>5, <3>1 DEF RunOK, HoldsTaskID, AtWork
    <3>3. JobKnowsTask(y)'
      BY <2>4, <2>5, <3>1 DEF RunOK, JobKnowsTask
    <3>4. PromotesOnce(y)'
      BY <2>4, <3>1 DEF RunOK, PromotesOnce
    <3> QED
      BY <3>2, <3>3, <3>4 DEF RunOK
  <2>8. ActiveOwned'
    <3> SUFFICES ASSUME NEW d \in Deployments, status'[d] \in Active PROVE Owned(d)'
      BY DEF ActiveOwned
    <3>1. CASE d = f
      BY <2>5, <3>1 DEF Owned
    <3>2. CASE d # f
      <4>1. Owned(d)
        BY <2>4 DEF OwnerInv
      <4>2. \A y \in Runs : OwnedByRun(d, y) => OwnedByRun(d, y)'
        BY <2>4 DEF OwnedByRun, AtWork
      <4>3. \A y \in Runs : prom[y] = "enqueue" /\ d \in found[y] =>
                              prom'[y] = "enqueue" /\ d \in found'[y]
        BY <2>3, <2>4, <3>2
      <4> QED
        BY <2>4, <2>5, <3>2, <4>1, <4>2, <4>3, StillOwned
    <3> QED
      BY <3>1, <3>2
  <2> QED
    BY <2>6, <2>7, <2>8 DEF OwnersKept
<1> QED
  BY <1>1, <1>2 DEF Promote

\* Nobody touches any execution.
LEMMA RunsKept ==
  ASSUME OwnerInv, \A x \in Runs : SameRun(x), lost \subseteq lost',
         \A x \in Runs : AtWork(x) => queue'[x[1]] = queue[x[1]]
  PROVE  RunInv'
<1>1. \A x \in Runs : RunOK(x)
  BY DEF OwnerInv, RunInv, RunOK
<1>2. \A x \in Runs : RunOK(x)'
  BY <1>1, SameRunOK
<1> QED
  BY <1>2 DEF RunInv, RunOK

\* A row that is created has the request that created it.
LEMMA CreateOwned ==
  ASSUME OwnerInv, NEW q \in Requests, Create(q)
  PROVE  OwnersKept
<1>0. TypeOK /\ BornInOrder /\ BornApart /\ RequestIsFirst /\ FoundIsSingle
  BY DEF OwnerInv, OrderInv
<1>1. PICK d \in Unborn :
        /\ born' = [born EXCEPT ![d] = Cardinality(Deployments \ Unborn) + 1]
        /\ kind' = [kind EXCEPT ![d] = req[q].kind]
        /\ status' = [status EXCEPT ![d] = IF req[q].at = "free" THEN "pending" ELSE "queued"]
        /\ req' = [req EXCEPT ![q] = IF @.at = "free" THEN [at |-> "enqueue", d |-> d] ELSE Idle]
  BY DEF Create, Save
<1>2. /\ queue' = queue /\ runs' = runs /\ job' = job /\ cb' = cb /\ prom' = prom
      /\ found' = found /\ row' = row /\ lost' = lost /\ stale' = stale
      /\ req[q].at \in {"free", "busy"}
  BY DEF Create, procVars, taskVars
<1>3. d \in Deployments /\ born[d] = 0 /\ queue[d] = "none" /\ runs[d] = 0
  BY <1>0 DEF Unborn, BornApart
<1>4. /\ born'[d] # 0
      /\ \A e \in Deployments : e # d =>
           /\ born'[e] = born[e] /\ born'[e] # born'[d]
           /\ status'[e] = status[e] /\ kind'[e] = kind[e]
  <2> DEFINE n == Cardinality(Deployments \ Unborn)
  <2>1. n \in Nat /\ born'[d] = n + 1
    BY <1>0, <1>1, CreateIsYoungest
  <2>2. \A e \in Deployments : born[e] \in Int /\ born[e] <= n
    <3>1. Cardinality(Deployments) \in Nat
      BY DeploymentAssumption, FS_CardinalityType
    <3>2. \A e \in Deployments : born[e] \in 0..Cardinality(Deployments)
      BY <1>0 DEF TypeOK
    <3>3. \A e \in Deployments : born[e] <= n
      BY <1>0 DEF BornInOrder
    <3> QED
      BY <3>1, <3>2, <3>3
  <2> HIDE DEF n
  <2>3. \A e \in Deployments : e # d =>
          born'[e] = born[e] /\ status'[e] = status[e] /\ kind'[e] = kind[e]
    BY <1>0, <1>1, <1>3 DEF TypeOK
  <2> QED
    BY <2>1, <2>2, <2>3
<1>5. /\ \A p \in Requests : p # q => req'[p] = req[p]
      /\ \/ req'[q] = [at |-> "enqueue", d |-> d] /\ status'[d] = "pending"
         \/ req'[q] = Idle /\ status'[d] = "queued"
  BY <1>0, <1>1, <1>3 DEF TypeOK
<1>6. BornApart'
  BY <1>0, <1>2, <1>4 DEF BornApart
<1>7. \A p \in Requests : req[p].at = "enqueue" => req[p].d \in Deployments /\ req[p].d # d
  BY <1>0, <1>3, RequestEnqueues DEF RequestIsFirst
<1>8. RequestIsFirst'
  <2>1. ASSUME NEW p \in Requests, p # q, req'[p].at = "enqueue"
        PROVE  /\ born'[req'[p].d] # 0 /\ status'[req'[p].d] # "queued"
               /\ queue'[req'[p].d] = "none"
               /\ \A r \in Requests : req'[r] = req'[p] => r = p
    <3>1. req'[p] = req[p]
      BY <1>5, <2>1
    <3>2. req'[q] # req[p]
      <4>1. CASE req'[q] = Idle
        BY <2>1, <3>1, <4>1 DEF Idle
      <4>2. CASE req'[q] = [at |-> "enqueue", d |-> d]
        BY <1>7, <2>1, <3>1, <4>2
      <4> QED
        BY <1>5, <4>1, <4>2
    <3> QED
      BY <1>0, <1>2, <1>4, <1>5, <1>7, <2>1, <3>1, <3>2 DEF RequestIsFirst
  <2>2. ASSUME req'[q].at = "enqueue"
        PROVE  /\ born'[req'[q].d] # 0 /\ status'[req'[q].d] # "queued"
               /\ queue'[req'[q].d] = "none"
               /\ \A r \in Requests : req'[r] = req'[q] => r = q
    <3>1. req'[q] = [at |-> "enqueue", d |-> d] /\ status'[d] = "pending"
      BY <1>5, <2>2 DEF Idle
    <3>2. \A r \in Requests : r # q => req'[r] # req'[q]
      BY <1>5, <1>7, <3>1
    <3> QED
      BY <1>2, <1>3, <1>4, <3>1, <3>2
  <2> QED
    BY <2>1, <2>2 DEF RequestIsFirst
<1>9. FoundIsSingle'
  <2> SUFFICES ASSUME NEW x \in Runs, prom[x] # "none", NEW f \in found[x]
               PROVE  /\ born'[f] # 0 /\ found[x] = {f}
                      /\ \A p \in Requests : req'[p] # [at |-> "enqueue", d |-> f]
    BY <1>2 DEF FoundIsSingle
  <2>1. /\ f \in Deployments /\ born[f] # 0 /\ found[x] = {f}
        /\ \A p \in Requests : req[p] # [at |-> "enqueue", d |-> f]
    BY <1>0 DEF TypeOK, FoundIsSingle
  <2>2. f # d
    BY <1>3, <2>1
  <2>3. req'[q] # [at |-> "enqueue", d |-> f]
    BY <1>5, <2>2 DEF Idle
  <2> QED
    BY <1>4, <1>5, <2>1, <2>2, <2>3
<1>10. RunInv'
  <2> SUFFICES ASSUME NEW x \in Runs PROVE RunOK(x)'
    BY DEF RunInv, RunOK
  <2>1. RunOK(x) /\ x[1] \in Deployments
    BY JobKnows DEF RunOK
  <2>2. CASE x[1] = d
    <3>1. x[2] > runs[d]
      BY <1>3 DEF Runs
    <3>2. job[x] = "none" /\ row[x] = "none" /\ cb[x] = "none"
      BY <2>1, <2>2, <3>1 DEF RunOK, HoldsTaskID, JobKnowsTask, Task!Verdicts
    <3>3. PromotesOnce(x)'
      BY <1>2, <2>1 DEF RunOK, PromotesOnce
    <3> QED
      BY <1>2, <3>2, <3>3 DEF RunOK, HoldsTaskID, JobKnowsTask, AtWork, Failing, Task!Unsettled
  <2>3. CASE x[1] # d
    BY <1>2, <1>4, <2>1, <2>3, SameRunOK DEF SameRun
  <2> QED
    BY <2>2, <2>3
<1>11. ActiveOwned'
  <2> SUFFICES ASSUME NEW e \in Deployments, status'[e] \in Active PROVE Owned(e)'
    BY DEF ActiveOwned
  <2>1. CASE e = d
    BY <1>5, <2>1 DEF Owned, Active
  <2>2. CASE e # d
    <3>1. Owned(e)
      BY <1>4, <2>2 DEF OwnerInv
    <3>2. \A x \in Runs : OwnedByRun(e, x) => OwnedByRun(e, x)'
      BY <1>2, <1>4, <2>2 DEF OwnedByRun, AtWork
    <3>3. \A p \in Requests : req[p] = [at |-> "enqueue", d |-> e] => req'[p] = req[p]
      BY <1>2, <1>5
    <3> QED
      BY <1>2, <3>1, <3>2, <3>3, StillOwned
  <2> QED
    BY <2>1, <2>2
<1> QED
  BY <1>6, <1>8, <1>9, <1>10, <1>11 DEF OwnersKept, TableInv

\* A request that has enqueued a job has left the row to it.
LEMMA EnqueueOwned ==
  ASSUME OwnerInv, NEW q \in Requests, Enqueue(q)
  PROVE  OwnersKept
<1>0. TypeOK /\ BornApart /\ RequestIsFirst /\ FoundIsSingle
  BY DEF OwnerInv, OrderInv
<1> DEFINE d == req[q].d
<1>1. /\ d \in Deployments /\ req[q] = [at |-> "enqueue", d |-> d]
      /\ born[d] # 0 /\ queue[d] = "none"
      /\ \A p \in Requests : req[p] = req[q] => p = q
  BY <1>0, RequestEnqueues, RequestIsRecord DEF Enqueue, RequestIsFirst
<1>2. /\ queue' = [queue EXCEPT ![d] = "waiting"] /\ req' = [req EXCEPT ![q] = Idle]
      /\ status' = status /\ born' = born /\ kind' = kind /\ runs' = runs /\ job' = job
      /\ cb' = cb /\ prom' = prom /\ found' = found /\ row' = row /\ lost' = lost
      /\ stale' = stale
  BY DEF Enqueue, tableVars, procVars, taskVars
<1> HIDE DEF d
<1>3. /\ queue'[d] = "waiting" /\ \A e \in Deployments : e # d => queue'[e] = queue[e]
      /\ req'[q] = Idle /\ \A p \in Requests : p # q => req'[p] = req[p]
  BY <1>0, <1>1, <1>2 DEF TypeOK
<1>4. BornApart'
  BY <1>0, <1>1, <1>2, <1>3 DEF BornApart
<1>5. RequestIsFirst'
  <2> SUFFICES ASSUME NEW p \in Requests, req'[p].at = "enqueue"
               PROVE  /\ born[req'[p].d] # 0 /\ status[req'[p].d] # "queued"
                      /\ queue'[req'[p].d] = "none"
                      /\ \A r \in Requests : req'[r] = req'[p] => r = p
    BY <1>2 DEF RequestIsFirst
  <2>1. p # q /\ req'[p] = req[p]
    BY <1>3 DEF Idle
  <2>2. /\ req[p].d \in Deployments /\ req[p] = [at |-> "enqueue", d |-> req[p].d]
        /\ req[p].d # d
    BY <1>0, <1>1, <2>1, RequestEnqueues, RequestIsRecord
  <2>3. req'[q] # req'[p]
    BY <1>3 DEF Idle
  <2> QED
    BY <1>0, <1>3, <2>1, <2>2, <2>3 DEF RequestIsFirst
<1>6. FoundIsSingle'
  <2> SUFFICES ASSUME NEW x \in Runs, prom[x] # "none", NEW f \in found[x]
               PROVE  /\ born[f] # 0 /\ found[x] = {f}
                      /\ \A p \in Requests : req'[p] # [at |-> "enqueue", d |-> f]
    BY <1>2 DEF FoundIsSingle
  <2>1. /\ born[f] # 0 /\ found[x] = {f}
        /\ \A p \in Requests : req[p] # [at |-> "enqueue", d |-> f]
    BY <1>0 DEF FoundIsSingle
  <2>2. req'[q] # [at |-> "enqueue", d |-> f]
    BY <1>3 DEF Idle
  <2> QED
    BY <1>3, <2>1, <2>2
<1>7. RunInv'
  <2>1. \A x \in Runs : AtWork(x) => x[1] \in Deployments /\ x[1] # d
    BY <1>1, JobKnows DEF HoldsTaskID
  <2> QED
    BY <1>2, <1>3, <2>1, RunsKept DEF SameRun
<1>8. ActiveOwned'
  <2> SUFFICES ASSUME NEW e \in Deployments, status[e] \in Active PROVE Owned(e)'
    BY <1>2 DEF ActiveOwned
  <2>1. CASE e = d
    BY <1>3, <2>1 DEF Owned
  <2>2. CASE e # d
    <3>1. \A p \in Requests : req[p] = [at |-> "enqueue", d |-> e] => req'[p] = req[p]
      BY <1>1, <1>3, <2>2
    <3>2. Owned(e)
      BY DEF OwnerInv
    <3>3. \A x \in Runs : OwnedByRun(e, x) => OwnedByRun(e, x)'
      BY <1>2 DEF OwnedByRun, AtWork
    <3> QED
      BY <1>2, <1>3, <2>2, <3>1, <3>2, <3>3, StillOwned
  <2> QED
    BY <2>1, <2>2
<1> QED
  BY <1>4, <1>5, <1>6, <1>7, <1>8 DEF OwnersKept, TableInv

\* A request that only checks owns nothing; one that cannot enqueue its job says so.
LEMMA RequestOwned ==
  ASSUME OwnerInv, NEW q \in Requests, Request(q)
  PROVE  OwnersKept
<1>0. TypeOK /\ OrderInv /\ TableInv
  BY DEF OwnerInv, OrderInv, TableInv
<1>1. CASE Check(q)
  <2>1. /\ req[q] = Idle /\ req'[q].at \in {"free", "busy"}
        /\ \A p \in Requests : p # q => req'[p] = req[p]
        /\ status' = status /\ born' = born /\ kind' = kind /\ runs' = runs /\ job' = job
        /\ queue' = queue /\ cb' = cb /\ prom' = prom /\ found' = found /\ row' = row
        /\ lost' = lost /\ stale' = stale
    BY <1>0, <1>1 DEF TypeOK, Check, tableVars, procVars, taskVars
  <2>2. TableInv'
    <3>1. TableStep
      BY <2>1 DEF TableStep, NoneEnters
    <3> QED
      BY <1>0, <3>1, TableStepKeeps
  <2>3. RunInv'
    BY <2>1, RunsKept DEF SameRun
  <2>4. ActiveOwned'
    <3> SUFFICES ASSUME NEW e \in Deployments, status[e] \in Active PROVE Owned(e)'
      BY <2>1 DEF ActiveOwned
    <3>1. \A p \in Requests : req[p] = [at |-> "enqueue", d |-> e] => req'[p] = req[p]
      BY <2>1 DEF Idle
    <3>2. Owned(e)
      BY DEF OwnerInv
    <3>3. \A x \in Runs : OwnedByRun(e, x) => OwnedByRun(e, x)'
      BY <2>1 DEF OwnedByRun, AtWork
    <3> QED
      BY <2>1, <3>1, <3>2, <3>3, StillOwned
  <2> QED
    BY <2>2, <2>3, <2>4 DEF OwnersKept
<1>2. CASE EnqueueFails(q)
  <2> DEFINE d == req[q].d
  <2>1. /\ d \in Deployments /\ req[q] = [at |-> "enqueue", d |-> d]
    BY <1>0, <1>2, RequestEnqueues, RequestIsRecord DEF EnqueueFails
  <2>2. /\ req' = [req EXCEPT ![q] = Idle] /\ lost \subseteq lost'
        /\ \/ UpdateStatus(d, "failed")
           \/ d \in lost' /\ status' = status
        /\ born' = born /\ kind' = kind /\ runs' = runs /\ job' = job
        /\ queue' = queue /\ cb' = cb /\ prom' = prom /\ found' = found /\ row' = row
        /\ stale' = stale
    BY <1>2 DEF EnqueueFails, procVars, taskVars
  <2> HIDE DEF d
  <2>3. req'[q] = Idle /\ \A p \in Requests : p # q => req'[p] = req[p]
    BY <1>0, <2>2 DEF TypeOK
  <2>4. /\ status'[d] \notin Active \/ d \in lost'
        /\ \A e \in Deployments : e # d => status'[e] = status[e]
        /\ status'[d] \in {status[d], "failed"}
    BY <1>0, <2>1, <2>2 DEF TypeOK, UpdateStatus, Active
  <2>5. TableInv'
    <3>1. NoneEnters
      BY <2>4 DEF NoneEnters
    <3>2. TableStep
      BY <2>2, <2>3, <3>1 DEF TableStep, Idle
    <3> QED
      BY <1>0, <3>2, TableStepKeeps
  <2>6. RunInv'
    BY <2>2, RunsKept DEF SameRun
  <2>7. ActiveOwned'
    <3> SUFFICES ASSUME NEW e \in Deployments, status'[e] \in Active PROVE Owned(e)'
      BY DEF ActiveOwned
    <3>1. CASE e = d
      BY <2>4, <3>1 DEF Owned
    <3>2. CASE e # d
      <4>1. \A p \in Requests : req[p] = [at |-> "enqueue", d |-> e] => req'[p] = req[p]
        BY <2>1, <2>3, <3>2
      <4>2. Owned(e)
        BY <2>4, <3>2 DEF OwnerInv
      <4>3. \A x \in Runs : OwnedByRun(e, x) => OwnedByRun(e, x)'
        BY <2>2 DEF OwnedByRun, AtWork
      <4> QED
        BY <2>2, <4>1, <4>2, <4>3, StillOwned
    <3> QED
      BY <3>1, <3>2
  <2> QED
    BY <2>5, <2>6, <2>7 DEF OwnersKept
<1> QED
  BY <1>1, <1>2, CreateOwned, EnqueueOwned DEF Request

\* A worker that takes a job owns its row.
LEMMA TakeOwned ==
  ASSUME OwnerInv, NEW d \in Deployments, Handle(d)
  PROVE  OwnersKept
<1>0. TypeOK /\ OrderInv /\ TableInv
  BY DEF OwnerInv, OrderInv, TableInv
<1>1. /\ queue[d] = "waiting" /\ runs[d] < MaxRuns
      /\ status' = status /\ born' = born /\ kind' = kind /\ req' = req /\ cb' = cb
      /\ prom' = prom /\ found' = found /\ row' = row /\ lost' = lost /\ stale' = stale
      /\ queue'[d] # "none"
      /\ \A e \in Deployments : e # d => queue'[e] = queue[e] /\ runs'[e] = runs[e]
  BY <1>0 DEF TypeOK, Handle, tableVars, taskVars
<1>2. TableInv'
  <2>1. TableStep
    BY <1>1 DEF TableStep, NoneEnters
  <2> QED
    BY <1>0, <2>1, TableStepKeeps
<1>3. \A x \in Runs : AtWork(x) => x[1] \in Deployments /\ x[1] # d
  BY <1>1, JobKnows DEF HoldsTaskID
<1>4. ASSUME NEW e \in Deployments, e # d, status[e] \in Active,
             \A x \in Runs : x[1] # d => job'[x] = job[x]
      PROVE  Owned(e)'
  <2>1. \A x \in Runs : OwnedByRun(e, x) => OwnedByRun(e, x)'
    BY <1>1, <1>4 DEF OwnedByRun, AtWork
  <2>2. Owned(e)
    BY <1>4 DEF OwnerInv
  <2> QED
    BY <1>1, <1>4, <2>1, <2>2, StillOwned
<1>5. CASE status[d] = "gone"
  <2>1. runs' = runs /\ job' = job
    BY <1>5 DEF Handle
  <2>2. RunInv'
    BY <1>1, <1>3, <2>1, RunsKept DEF SameRun
  <2>3. ActiveOwned'
    BY <1>1, <1>4, <1>5, <2>1 DEF ActiveOwned, Active
  <2> QED
    BY <1>2, <2>2, <2>3 DEF OwnersKept
<1>6. CASE status[d] # "gone"
  <2>0. runs[d] \in Nat /\ <<d, runs[d] + 1>> \in Runs
    BY <1>0, <1>1, DeploymentAssumption DEF TypeOK, Runs
  <2>1. PICK x \in Runs : x = <<d, runs[d] + 1>> /\ x[1] = d /\ x[2] = runs[d] + 1
    BY <2>0
  <2>2. /\ queue'[d] = "active" /\ runs'[d] = x[2]
        /\ \E at \in {"found", "failed"} : job' = [job EXCEPT ![x] = at]
    BY <1>0, <1>6, <2>1 DEF TypeOK, Handle, Goto
  <2>3. job'[x] \in {"found", "failed"} /\ \A y \in Runs : y # x => job'[y] = job[y]
    BY <1>0, <2>1, <2>2 DEF TypeOK
  <2>4. job[x] = "none" /\ row[x] = "none" /\ cb[x] = "none"
    BY <2>0, <2>1, JobKnows DEF HoldsTaskID, JobKnowsTask, Task!Verdicts
  <2>5. RunInv'
    <3> SUFFICES ASSUME NEW y \in Runs PROVE RunOK(y)'
      BY DEF RunInv, RunOK
    <3>1. RunOK(y) /\ y[1] \in Deployments /\ y[2] \in Nat
      BY JobKnows DEF RunOK, Runs
    <3>2. CASE y = x
      <4>1. HoldsTaskID(x)'
        BY <2>0, <2>1, <2>2, <2>3 DEF HoldsTaskID
      <4>2. JobKnowsTask(x)'
        BY <1>1, <2>3, <2>4 DEF JobKnowsTask, Failing, Task!Unsettled
      <4>3. PromotesOnce(x)'
        BY <1>1, <2>3, <2>4, <3>1, <3>2 DEF RunOK, PromotesOnce
      <4> QED
        BY <3>2, <4>1, <4>2, <4>3 DEF RunOK
    <3>3. CASE y # x /\ y[1] = d
      <4>1. HoldsTaskID(y)'
        BY <1>3, <2>0, <2>1, <2>2, <2>3, <3>1, <3>3 DEF RunOK, HoldsTaskID, AtWork
      <4>2. JobKnowsTask(y)'
        BY <1>1, <2>3, <3>1, <3>3 DEF RunOK, JobKnowsTask
      <4>3. PromotesOnce(y)'
        BY <1>1, <2>3, <3>1, <3>3 DEF RunOK, PromotesOnce
      <4> QED
        BY <4>1, <4>2, <4>3 DEF RunOK
    <3>4. CASE y[1] # d
      BY <1>1, <2>1, <2>3, <3>1, <3>4, SameRunOK DEF SameRun
    <3> QED
      BY <3>2, <3>3, <3>4
  <2>6. ActiveOwned'
    <3> SUFFICES ASSUME NEW e \in Deployments, status[e] \in Active PROVE Owned(e)'
      BY <1>1 DEF ActiveOwned
    <3>1. CASE e = d
      BY <2>1, <2>3, <3>1 DEF Owned, OwnedByRun, AtWork
    <3>2. CASE e # d
      BY <1>4, <2>1, <2>3, <3>2
    <3> QED
      BY <3>1, <3>2
  <2> QED
    BY <1>2, <2>5, <2>6 DEF OwnersKept
<1> QED
  BY <1>5, <1>6

\* What a crash interrupts is counted as lost.
LEMMA CrashOwned ==
  ASSUME OwnerInv, Crash
  PROVE  OwnersKept
<1>0. TypeOK /\ OrderInv /\ TableInv
  BY DEF OwnerInv, OrderInv, TableInv
<1>1. /\ status' = status /\ born' = born /\ kind' = kind /\ runs' = runs /\ row' = row
      /\ stale' = stale /\ lost \subseteq lost'
      /\ \A q \in Requests : req'[q] = IF q \in Dying THEN Idle ELSE req[q]
      /\ \A d \in Deployments : queue'[d] = IF queue[d] = "active" THEN "archived" ELSE queue[d]
      /\ \A x \in Runs : /\ job'[x] = IF job[x] = "none" THEN "none" ELSE "dead"
                         /\ cb'[x] \in {"none", "over"} /\ prom'[x] = "none"
                         /\ cb[x] = "none" /\ row[x] \notin Task!Verdicts => cb'[x] = "none"
  BY DEF Crash, tableVars, taskVars
<1>2. \A x \in Runs : UnderWay(x) => x[1] \in lost'
  BY DEF Crash
<1>3. \A q \in Dying : req[q].at = "enqueue" => req[q].d \in lost'
  BY DEF Crash
<1>4. \A x \in Runs : prom[x] # "none" => found[x] \subseteq lost'
  BY DEF Crash
<1>5. TableInv'
  <2>1. TableStep
    BY <1>1 DEF TableStep, NoneEnters, Idle
  <2> QED
    BY <1>0, <2>1, TableStepKeeps
<1>6. RunInv'
  <2> SUFFICES ASSUME NEW x \in Runs PROVE RunOK(x)'
    BY DEF RunInv, RunOK
  <2>1. HoldsTaskID(x) /\ JobKnowsTask(x)
    BY JobKnows
  <2>2. HoldsTaskID(x)'
    BY <1>1, <2>1 DEF HoldsTaskID, AtWork
  <2>3. JobKnowsTask(x)'
    BY <1>1, <1>2, <2>1 DEF JobKnowsTask, UnderWay, Failing
  <2>4. PromotesOnce(x)'
    BY <1>1 DEF PromotesOnce
  <2> QED
    BY <2>2, <2>3, <2>4 DEF RunOK
<1>7. ActiveOwned'
  <2> SUFFICES ASSUME NEW d \in Deployments, status[d] \in Active PROVE Owned(d)'
    BY <1>1 DEF ActiveOwned
  <2>1. CASE d \in lost \cup stale
    BY <1>1, <2>1 DEF Owned
  <2>2. CASE queue[d] = "waiting"
    BY <1>1, <2>2 DEF Owned
  <2>3. ASSUME NEW q \in Requests, req[q] = [at |-> "enqueue", d |-> d]
        PROVE  Owned(d)'
    <3>1. CASE q \in Dying
      BY <1>3, <2>3, <3>1 DEF Owned
    <3>2. CASE q \notin Dying
      BY <1>1, <2>3, <3>2 DEF Owned
    <3> QED
      BY <3>1, <3>2
  <2>4. ASSUME NEW x \in Runs, prom[x] = "enqueue", d \in found[x]
        PROVE  Owned(d)'
    BY <1>4, <2>4 DEF Owned
  <2>5. ASSUME NEW x \in Runs, OwnedByRun(d, x)
        PROVE  Owned(d)'
    <3>1. CASE row[x] \in Task!Unsettled
      BY <1>1, <2>5, <3>1 DEF Owned, OwnedByRun
    <3>2. CASE row[x] \notin Task!Unsettled
      <4>1. row[x] \in {"none"} \cup Task!Unsettled \cup Task!Verdicts
        BY <1>0 DEF TypeOK
      <4>2. UnderWay(x) /\ x[1] = d
        BY <2>5, <3>2, <4>1 DEF OwnedByRun, UnderWay, AtWork
      <4> QED
        BY <1>2, <4>2 DEF Owned
    <3> QED
      BY <3>1, <3>2
  <2> QED
    BY <2>1, <2>2, <2>3, <2>4, <2>5 DEF OwnerInv, Owned
<1> QED
  BY <1>5, <1>6, <1>7 DEF OwnersKept

\* A cancellation makes nothing active.
LEMMA CancelOwned ==
  ASSUME OwnerInv, CancelQueued \/ UNCHANGED vars
  PROVE  OwnersKept
<1>0. TypeOK /\ OrderInv /\ TableInv
  BY DEF OwnerInv, OrderInv, TableInv
<1>1. /\ born' = born /\ kind' = kind /\ runs' = runs /\ row' = row /\ req' = req /\ queue' = queue
      /\ job' = job /\ cb' = cb /\ prom' = prom /\ found' = found /\ stale' = stale /\ lost' = lost
  BY DEF CancelQueued, vars, tableVars, procVars, taskVars
<1>2. \A d \in Deployments : status'[d] \in {status[d], "failed"}
  BY DEF CancelQueued, vars, tableVars
<1>3. TableInv'
  <2>1. TableStep
    BY <1>1, <1>2 DEF TableStep, NoneEnters
  <2> QED
    BY <1>0, <2>1, TableStepKeeps
<1>4. RunInv'
  BY <1>1, RunsKept DEF SameRun
<1>5. ActiveOwned'
  <2> SUFFICES ASSUME NEW d \in Deployments, status[d] \in Active PROVE Owned(d)'
    BY <1>2 DEF ActiveOwned, Active
  <2>1. Owned(d)
    BY DEF OwnerInv
  <2>2. \A x \in Runs : OwnedByRun(d, x) => OwnedByRun(d, x)'
    BY <1>1 DEF OwnedByRun, AtWork
  <2> QED
    BY <1>1, <2>1, <2>2, StillOwned
<1> QED
  BY <1>3, <1>4, <1>5 DEF OwnersKept

\* The invariant adds to that of the queue who holds a TaskID, and what the request, the
\* job, the task, the callback and the promotion of a row know of each other.
THEOREM OwnerInvariance == Spec => []OwnerInv
<1>1. Init => TableInv /\ RunInv /\ ActiveOwned
  <2> SUFFICES ASSUME Init PROVE TableInv /\ RunInv /\ ActiveOwned
    OBVIOUS
  <2>1. TableInv
    BY DEF Init, TableInv, BornApart, RequestIsFirst, FoundIsSingle, Idle
  <2>2. RunInv
    BY DEF Init, Task!Init, RunInv, HoldsTaskID, JobKnowsTask, PromotesOnce, AtWork, Failing,
           Task!Unsettled
  <2>3. ActiveOwned
    BY DEF Init, ActiveOwned, Active
  <2> QED
    BY <2>1, <2>2, <2>3
<1>2. OrderInv /\ TableInv /\ RunInv /\ ActiveOwned <=> OwnerInv
  BY DEF OwnerInv, TableInv, ActiveOwned
<1>3. OwnerInv /\ [Next]_vars => TableInv' /\ RunInv' /\ ActiveOwned'
  <2> SUFFICES ASSUME OwnerInv, [Next]_vars PROVE OwnersKept
    BY DEF OwnersKept
  <2>1. ASSUME NEW x \in Runs,
               Job(x) \/ Promote(x) \/ TaskRuns(x) \/ Notify(x) \/ Callback(x)
        PROVE  OwnersKept
    BY <2>1, JobOwned, PromoteOwned, TaskOwned, CallbackOwned
  <2> QED
    BY <2>1, RequestOwned, CancelOwned, TakeOwned, CrashOwned DEF Next, Quiet
<1> QED
  BY <1>1, <1>2, <1>3, QueueInvariance, PTL DEF Spec

\* A pending or installing row, which keeps every other deployment of the site waiting,
\* always has somebody who will move it on: for any number of deployments, requests,
\* executions and failures, and any Retention, except as lost and stale record.
THEOREM ActiveHasAnOwner == Spec => []ActiveIsOwned
<1>1. OwnerInv => ActiveIsOwned
  <2> SUFFICES ASSUME OwnerInv, NEW d \in Deployments, status[d] \in Active
               PROVE  \/ d \in lost \cup stale
                      \/ queue[d] = "waiting"
                      \/ \E q \in Requests : req[q] = [at |-> "enqueue", d |-> d]
                      \/ \E x \in Runs : prom[x] = "enqueue" /\ d \in found[x]
                      \/ \E n \in 1..MaxRuns :
                           \/ job[<<d, n>>] \notin {"none", "over", "dead"}
                           \/ row[<<d, n>>] \in Task!Unsettled
                           \/ /\ kind[d] # "rollback" /\ row[<<d, n>>] # "none"
                              /\ cb[<<d, n>>] \in {"none", "status"}
    BY DEF ActiveIsOwned
  <2>1. Owned(d)
    BY DEF OwnerInv
  <2>2. ASSUME NEW x \in Runs, OwnedByRun(d, x)
        PROVE  \E n \in 1..MaxRuns :
                 \/ job[<<d, n>>] \notin {"none", "over", "dead"}
                 \/ row[<<d, n>>] \in Task!Unsettled
                 \/ /\ kind[d] # "rollback" /\ row[<<d, n>>] # "none"
                    /\ cb[<<d, n>>] \in {"none", "status"}
    <3>1. PICK n \in 1..MaxRuns : x = <<d, n>>
      BY <2>2 DEF Runs, OwnedByRun
    <3> QED
      BY <2>2, <3>1 DEF OwnedByRun, AtWork
  <2> QED
    BY <2>1, <2>2 DEF Owned
<1> QED
  BY <1>1, OwnerInvariance, PTL
=============================================================================
