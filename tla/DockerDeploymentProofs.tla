----------------------- MODULE DockerDeploymentProofs -----------------------
(***************************************************************************)
(* What holds of a Docker workload for every number of requests,           *)
(* deployments, GitHub runs and faults: DeployInv is inductive, and with   *)
(* it the safety properties of DockerDeployment hold in every behaviour.   *)
(*                                                                         *)
(* The invariant has two halves.  Rows is about deployments, their jobs    *)
(* and their runs, Host about the workload, its container and its removal; *)
(* most steps leave one of them alone.                                     *)
(***************************************************************************)
EXTENDS DockerDeployment, FiniteSetTheorems, WellFoundedInduction, TLAPS

-----------------------------------------------------------------------------
(* Types *)

Ops == {"idle", "supersede", "create", "placeholder", "enqueue", "giveup",
        "reload", "stop", "start", "mark", "delete", "remove", "restore"}
ClientRecord == [op: Ops, d: 0..MaxRows, prev: Statuses, had: BOOLEAN]
RowRecord == [st: {"none", "gone", "pending", "deploying", "success", "failed", "cancelled"},
              run: Runs \cup {NoRun}]
RunRecord == [st: RunStates, d: 0..MaxRows]
AppRecord == [status: Statuses, live: BOOLEAN, deployed: BOOLEAN]
RemoveRecord == [st: {"none", "queued", "ran", "failing", "archived"},
                 prev: Statuses, had: BOOLEAN]

RowStates == {"none", "gone", "pending", "deploying", "success", "failed", "cancelled"}

(* The statuses of a job that will still write the workload's.             *)
Owning == {"running", "ok", "bad", "okrow", "badrow"}
Dispatching == {"enqueue", "giveup"}
Deleting == {"mark", "delete", "remove", "restore"}
Notifying == {"written", "failing", "failfound"}

Rows == /\ Numbered /\ EnqueuedOnce /\ OneRowPerRun /\ JobsAreHonest
        /\ SuccessIsEarned /\ PendingIsNamed
Host == /\ BuildingIsOwned /\ DeletionsRemember /\ DeletingIsOwned /\ TornIsFinal

(* The bounds are numbers, and deployment 0 is none.                       *)
LEMMA Bounds == /\ MaxRows \in Nat /\ MaxRows > 0 /\ Ids \subseteq 0..MaxRows /\ 0 \notin Ids
                /\ 0 \in 0..MaxRows /\ \A d \in 0..MaxRows : d # 0 => d \in Ids
                /\ \A d \in 0..MaxRows : d \in 0..RemoveJob
                /\ RemoveJob \in 0..RemoveJob /\ RemoveJob \notin 0..MaxRows
BY LimitsAssumption DEF Ids, RemoveJob

(* The values of the variables, one by one.                                *)
LEMMA TypesHold ==
  ASSUME TypeOK
  PROVE  /\ client \in [Clients -> ClientRecord] /\ rows \in [Ids -> RowRecord]
         /\ run \in [Runs -> RunRecord] /\ app \in AppRecord /\ remove \in RemoveRecord
         /\ jobs \in [0..MaxRows -> JobStates]
         /\ \A c \in Clients : /\ client[c] \in ClientRecord /\ client[c].op \in Ops
                              /\ client[c].d \in 0..MaxRows /\ client[c].prev \in Statuses
                              /\ client[c].had \in BOOLEAN
         /\ \A d \in Ids : /\ rows[d] \in RowRecord /\ rows[d].st \in RowStates
                          /\ rows[d].run \in Runs \cup {NoRun}
         /\ \A r \in Runs : /\ run[r] \in RunRecord /\ run[r].st \in RunStates
                           /\ run[r].d \in 0..MaxRows
         /\ \A d \in 0..MaxRows : jobs[d] \in JobStates
         /\ app.status \in Statuses /\ app.live \in BOOLEAN /\ app.deployed \in BOOLEAN
         /\ remove.prev \in Statuses /\ remove.had \in BOOLEAN
BY DEF TypeOK, ClientRecord, Ops, RowRecord, RowStates, RunRecord, AppRecord, RemoveRecord

(* A request that is answered is idle, one that goes on keeps the rest.    *)
LEMMA ClientGoesOn ==
  ASSUME TypeOK, NEW c \in Clients
  PROVE  /\ Answer(c) =>
              /\ client' \in [Clients -> ClientRecord]
              /\ client'[c].op = "idle"
              /\ \A e \in Clients : e # c => client'[e] = client[e]
         /\ \A op \in Ops : Then(c, op) =>
              /\ client' \in [Clients -> ClientRecord]
              /\ client'[c].op = op /\ client'[c].d = client[c].d
              /\ client'[c].prev = client[c].prev /\ client'[c].had = client[c].had
              /\ \A e \in Clients : e # c => client'[e] = client[e]
<1>1. client \in [Clients -> ClientRecord]
  BY TypesHold
<1>2. ASSUME Answer(c)
      PROVE  /\ client' \in [Clients -> ClientRecord]
             /\ client'[c].op = "idle"
             /\ \A e \in Clients : e # c => client'[e] = client[e]
  <2> DEFINE rec == [op |-> "idle", d |-> 0, prev |-> "idle", had |-> FALSE]
  <2>1. rec \in ClientRecord /\ rec.op = "idle"
    BY Bounds DEF ClientRecord, Ops, Statuses
  <2>2. client' = [client EXCEPT ![c] = rec]
    BY <1>2 DEF Answer
  <2> HIDE DEF rec
  <2> QED
    BY <1>1, <2>1, <2>2
<1>3. ASSUME NEW op \in Ops, Then(c, op)
      PROVE  /\ client' \in [Clients -> ClientRecord]
             /\ client'[c].op = op /\ client'[c].d = client[c].d
             /\ client'[c].prev = client[c].prev /\ client'[c].had = client[c].had
             /\ \A e \in Clients : e # c => client'[e] = client[e]
  <2>1. client[c] \in ClientRecord
    BY <1>1
  <2>2. client' = [client EXCEPT ![c] = [client[c] EXCEPT !.op = op]]
    BY <1>1, <1>3 DEF Then
  <2>3. /\ [client[c] EXCEPT !.op = op] \in ClientRecord
        /\ [client[c] EXCEPT !.op = op].op = op
        /\ [client[c] EXCEPT !.op = op].d = client[c].d
        /\ [client[c] EXCEPT !.op = op].prev = client[c].prev
        /\ [client[c] EXCEPT !.op = op].had = client[c].had
    BY <2>1 DEF ClientRecord
  <2> QED
    BY <1>1, <2>2, <2>3
<1> QED
  BY <1>2, <1>3

(* The status of a job is set, and the others stay.                        *)
LEMMA JobIsSet ==
  ASSUME TypeOK, NEW d \in 0..MaxRows, NEW st \in JobStates, SetJob(d, st)
  PROVE  /\ jobs' \in [0..MaxRows -> JobStates] /\ jobs'[d] = st
         /\ \A e \in 0..MaxRows : e # d => jobs'[e] = jobs[e]
BY DEF TypeOK, SetJob

(* A row that exists gets a status and keeps its run.                      *)
LEMMA RowIsSet ==
  ASSUME TypeOK, NEW d \in 0..MaxRows, NEW st \in RowStates, SetRow(d, st)
  PROVE  /\ rows' \in [Ids -> RowRecord]
         /\ \A e \in Ids : e # d => rows'[e] = rows[e]
         /\ \A e \in Ids : rows'[e].run = rows[e].run
         /\ HasRow(d) => rows'[d].st = st
         /\ ~HasRow(d) => rows' = rows
<1>1. rows \in [Ids -> RowRecord]
  BY TypesHold
<1>2. CASE HasRow(d)
  <2>1. d \in Ids
    BY <1>2, Bounds DEF HasRow
  <2>2. rows' = [rows EXCEPT ![d] = [rows[d] EXCEPT !.st = st]]
    BY <1>1, <1>2, <2>1 DEF SetRow
  <2>3. [rows[d] EXCEPT !.st = st] \in RowRecord /\ [rows[d] EXCEPT !.st = st].run = rows[d].run
        /\ [rows[d] EXCEPT !.st = st].st = st
    BY <1>1, <2>1 DEF RowRecord, RowStates
  <2> QED
    BY <1>1, <1>2, <2>1, <2>2, <2>3
<1>3. CASE ~HasRow(d)
  BY <1>1, <1>3 DEF SetRow
<1> QED
  BY <1>2, <1>3

(* The status of a live workload is set, and nothing else of it.           *)
LEMMA StatusIsSet ==
  ASSUME TypeOK, NEW st \in Statuses, SetStatus(st)
  PROVE  /\ app' \in AppRecord /\ app'.live = app.live
         /\ app.live => app'.status = st
         /\ ~app.live => app' = app
BY TypesHold DEF SetStatus, AppRecord

(* One run changes its status, and not its deployment.                     *)
LEMMA RunIsSet ==
  ASSUME TypeOK, NEW r \in Runs, NEW st \in RunStates, RunStep(r, st)
  PROVE  /\ run' \in [Runs -> RunRecord] /\ run'[r].st = st /\ run'[r].d = run[r].d
         /\ \A q \in Runs : q # r => run'[q] = run[q]
<1>1. run \in [Runs -> RunRecord] /\ run[r] \in RunRecord
  BY TypesHold
<1>2. run' = [run EXCEPT ![r] = [run[r] EXCEPT !.st = st]]
  BY <1>1 DEF RunStep
<1>3. /\ [run[r] EXCEPT !.st = st] \in RunRecord /\ [run[r] EXCEPT !.st = st].st = st
      /\ [run[r] EXCEPT !.st = st].d = run[r].d
  BY <1>1 DEF RunRecord
<1> QED
  BY <1>1, <1>2, <1>3

(* Requests and faults stay within their bounds.                           *)
LEMMA Counted ==
  ASSUME TypeOK
  PROVE  /\ Request => requests' \in 0..MaxRequests
         /\ Fault => faults' \in 0..MaxFaults
BY BoundsAssumption DEF TypeOK, Request, Fault

-----------------------------------------------------------------------------
(* Numbers and rows *)

(* Of some deployments one is the newest.                                  *)
LEMMA Newest ==
  ASSUME NEW P, P \subseteq Ids, P # {}
  PROVE  \E d \in P : \A x \in P : x <= d
<1> DEFINE back(d) == MaxRows - d
           T == {back(d) : d \in P}
<1>1. T \subseteq Nat /\ T # {}
  <2>1. \A d \in P : d \in Ids /\ back(d) \in Nat
    BY Bounds DEF Ids
  <2> QED
    BY <2>1
<1>2. PICK m \in T : \A y \in T : ~(<<y, m>> \in OpToRel(<, Nat))
  <2> HIDE DEF T
  <2> QED
    BY <1>1, NatLessThanWellFounded, WFMin
<1>3. PICK d \in P : m = back(d)
  OBVIOUS
<1>4. ASSUME NEW x \in P PROVE x <= d
  <2>1. back(x) \in T /\ back(x) \in Nat /\ m \in Nat
    BY <1>1
  <2>2. ~(back(x) < m)
    BY <1>2, <2>1 DEF OpToRel
  <2> QED
    BY <1>3, <2>2, Bounds DEF Ids
<1> QED
  BY <1>4

(* The row a notification is about is the run's own when it has one, else  *)
(* a placeholder, else none.                                               *)
LEMMA RowForFinds ==
  ASSUME TypeOK, Rows, NEW r \in Runs
  PROVE  /\ RowFor(r) \in 0..MaxRows
         /\ \A d \in Ids : rows[d].run = r => d = RowFor(r)
         /\ RowFor(r) # 0 => rows[RowFor(r)].st # "none"
<1>1. NoRun \notin Runs
  BY NoRunAssumption DEF NoRun
<1>2. \A d \in Ids : rows[d].run = r => rows[d].st # "none"
  BY <1>1 DEF Rows, Numbered
<1>3. CASE RowsOf(r) # {}
  <2>1. RowFor(r) \in RowsOf(r)
    BY <1>3 DEF RowFor
  <2>2. RowFor(r) \in Ids /\ rows[RowFor(r)].run = r
    BY <2>1 DEF RowsOf
  <2>3. \A d \in Ids : rows[d].run = r => d = RowFor(r)
    BY <1>1, <2>2 DEF Rows, OneRowPerRun
  <2> QED
    BY <1>2, <2>2, <2>3, Bounds
<1>4. CASE RowsOf(r) = {}
  <2>1. \A d \in Ids : rows[d].run # r
    BY <1>4 DEF RowsOf
  <2>2. CASE Placeholders = {}
    BY <1>4, <2>1, <2>2, Bounds DEF RowFor, claimGHAPlaceholder
  <2>3. CASE Placeholders # {}
    <3>1. Placeholders \subseteq Ids
      BY DEF Placeholders
    <3>2. \E d \in Placeholders : \A x \in Placeholders : x <= d
      BY <2>3, <3>1, Newest
    <3>3. RowFor(r) = CHOOSE d \in Placeholders : \A x \in Placeholders : x <= d
      BY <1>4, <2>3 DEF RowFor, claimGHAPlaceholder
    <3>4. RowFor(r) \in Placeholders
      BY <3>2, <3>3
    <3>5. RowFor(r) \in Ids /\ rows[RowFor(r)].st = "pending"
      BY <3>4 DEF Placeholders
    <3> QED
      BY <2>1, <3>5, Bounds
  <2> QED
    BY <2>2, <2>3
<1> QED
  BY <1>3, <1>4

(* The next number is the first that no deployment has.                    *)
LEMMA NextIsFree ==
  ASSUME TypeOK, Numbered
  PROVE  /\ NextId \in Nat /\ NextId # 0
         /\ \A d \in Ids : rows[d].st # "none" <=> d < NextId
<1>1. PICK k \in 0..MaxRows : \A d \in Ids : rows[d].st # "none" <=> d <= k
  BY DEF Numbered
<1>2. {d \in Ids : rows[d].st # "none"} = 1..k
  BY <1>1, Bounds DEF Ids
<1>3. Cardinality(1..k) = k
  BY Bounds, FS_Interval
<1>4. NextId = 1 + k
  BY <1>2, <1>3 DEF NextId
<1> QED
  BY <1>1, <1>4, Bounds DEF Ids

(* Create adds the next row, and may take away older ones.                 *)
LEMMA CreateAdds ==
  ASSUME TypeOK, Numbered, NEW st \in {"pending", "failed"}, NEW r \in Runs \cup {NoRun},
         Create(st, r)
  PROVE  /\ NextId \in Ids /\ rows[NextId].st = "none"
         /\ rows' \in [Ids -> RowRecord]
         /\ rows'[NextId].st = st /\ rows'[NextId].run = r
         /\ \A d \in Ids : d # NextId =>
              \/ rows'[d] = rows[d]
              \/ rows[d].st # "none" /\ rows'[d].st = "gone" /\ rows'[d].run = NoRun
         /\ \E k \in 0..MaxRows : \A d \in Ids : rows'[d].st # "none" <=> d <= k
<1> DEFINE n == NextId
           new == [st |-> st, run |-> r]
           none == [st |-> "gone", run |-> NoRun]
           all == [rows EXCEPT ![n] = new]
           kept(d) == Cardinality({x \in d + 1..n : all[x].st # "gone"}) < HistoryLimit
<1>1. /\ n \in Ids
      /\ rows' = [d \in Ids |-> IF d > n \/ kept(d) THEN all[d] ELSE none]
  BY DEF Create
<1>2. /\ n \in Nat /\ \A d \in Ids : rows[d].st # "none" <=> d < n
  BY NextIsFree
<1>3. rows \in [Ids -> RowRecord] /\ new \in RowRecord /\ none \in RowRecord
      /\ new.st = st /\ new.run = r /\ none.st = "gone" /\ none.run = NoRun
  BY TypesHold DEF RowRecord
<1>4. rows[n].st = "none"
  BY <1>1, <1>2
<1>5. kept(n)
  <2>1. {x \in n + 1..n : all[x].st # "gone"} = {}
    BY <1>2
  <2>2. Cardinality({}) = 0
    BY FS_EmptySet
  <2>3. Cardinality({x \in n + 1..n : all[x].st # "gone"}) = 0
    BY <2>1, <2>2
  <2> QED
    BY <2>3, LimitsAssumption
<1> HIDE DEF n, new, none, kept
<1>6. all[n] = new /\ \A d \in Ids : d # n => all[d] = rows[d]
  BY <1>1, <1>3
<1>7. \A d \in Ids : rows'[d] = all[d] \/ (rows'[d] = none /\ ~(d > n))
  BY <1>1
<1>8. rows' \in [Ids -> RowRecord]
  BY <1>1, <1>3
<1>9. rows'[n] = new
  BY <1>1, <1>5, <1>6
<1>10. ASSUME NEW d \in Ids, d # n
       PROVE  \/ rows'[d] = rows[d]
              \/ rows[d].st # "none" /\ rows'[d] = none
  <2>1. ~(d > n) => rows[d].st # "none"
    BY <1>1, <1>2, <1>10, Bounds DEF Ids
  <2> QED
    BY <1>6, <1>7, <1>10, <2>1
<1>11. \A d \in Ids : rows'[d].st # "none" <=> d <= n
  <2>1. ASSUME NEW d \in Ids, d # n PROVE rows'[d].st # "none" <=> d <= n
    <3>1. rows'[d].st # "none" <=> rows[d].st # "none"
      BY <1>3, <1>10, <2>1
    <3>2. d \in Nat
      BY Bounds DEF Ids
    <3> QED
      BY <1>2, <2>1, <3>1, <3>2
  <2>2. rows'[n].st # "none" /\ n <= n
    BY <1>2, <1>3, <1>9
  <2> QED
    BY <2>1, <2>2
<1>12. n \in 0..MaxRows
  BY <1>1, Bounds
<1> QED
  BY <1>1, <1>3, <1>4, <1>8, <1>9, <1>10, <1>11, <1>12 DEF n

-----------------------------------------------------------------------------
(* What most steps do to the deployments *)

(* Nobody starts or stops being about to enqueue, or to claim a number.    *)
Stays(c) ==
  /\ client'[c].op \in Dispatching <=> client[c].op \in Dispatching
  /\ client[c].op \in Dispatching => client'[c].d = client[c].d
  /\ client'[c].op = "placeholder" => client[c].op = "placeholder" \/ build # "server"

(* What no step takes back.                                                *)
Onward ==
  /\ build' = build /\ (app'.live => app.live)
  /\ \A d \in Ids : /\ d \in crashed => d \in crashed'
                    /\ d \in stranded => d \in stranded'
                    /\ d \in earned => d \in earned'

RowsSame ==
  /\ Onward
  /\ \A c \in Clients : Stays(c)
  /\ \A d \in Ids : rows'[d] = rows[d] /\ jobs'[d] = jobs[d]
  /\ \A r \in Runs : run'[r] = run[r]

(* A step about nothing of the kind keeps this half of the invariant.      *)
LEMMA RowsKept ==
  ASSUME TypeOK, Rows, RowsSame
  PROVE  Rows'
<1> USE DEF RowsSame, Onward
<1>1. \A c \in Clients, d \in Ids : Enqueuing(c, d)' <=> Enqueuing(c, d)
  BY DEF Enqueuing, Stays, Dispatching
<1>2. Numbered'
  <2>1. \A r \in Runs : run[r].d # 0 => run[r].d \in Ids
    BY TypesHold, Bounds
  <2> QED
    BY <2>1 DEF Rows, Numbered
<1>3. EnqueuedOnce'
  BY <1>1 DEF Rows, EnqueuedOnce, Stays, Dispatching
<1>4. OneRowPerRun'
  BY DEF Rows, OneRowPerRun
<1>5. JobsAreHonest' /\ SuccessIsEarned'
  BY DEF Rows, JobsAreHonest, SuccessIsEarned
<1>6. PendingIsNamed'
  BY <1>1 DEF Rows, PendingIsNamed
<1> QED
  BY <1>2, <1>3, <1>4, <1>5, <1>6 DEF Rows

(* A GitHub run goes on, and takes its rows with it.                       *)
RunMoves(r) ==
  /\ Onward
  /\ \A c \in Clients : Stays(c)
  /\ \A d \in Ids : rows'[d] = rows[d] /\ jobs'[d] = jobs[d]
  /\ \A q \in Runs : q # r => run'[q] = run[q]
  /\ build # "server" \/ run[r].st # "none"
  /\ run'[r].st # "written" /\ run'[r].d \in {0, run[r].d, RowFor(r)}
  /\ run'[r].st \in {"found", "failfound"} => run'[r].d = RowFor(r)
  /\ \/ run[r].st \in Notifying => run'[r].st \in Notifying
     \/ ~app.live
     \/ \A d \in Ids : rows[d].run = r => d \in stranded'

(* A run that goes on keeps what holds of deployments.                     *)
LEMMA RunMovesKeeps ==
  ASSUME TypeOK, Rows, NEW r \in Runs, RunMoves(r)
  PROVE  Rows'
<1> USE DEF RunMoves, Onward
<1>1. \A c \in Clients, d \in Ids : Enqueuing(c, d)' <=> Enqueuing(c, d)
  BY DEF Enqueuing, Stays, Dispatching
<1>2. Numbered'
  <2>1. \A q \in Runs : run'[q].d # 0 => run'[q].d \in Ids /\ rows[run'[q].d].st # "none"
    <3>1. \A q \in Runs : run[q].d # 0 => run[q].d \in Ids /\ rows[run[q].d].st # "none"
      BY TypesHold, Bounds DEF Rows, Numbered
    <3>2. RowFor(r) # 0 => RowFor(r) \in Ids /\ rows[RowFor(r)].st # "none"
      BY RowForFinds, Bounds
    <3> QED
      BY <3>1, <3>2
  <2>2. \A q \in Runs : run'[q].st = "written" => run'[q].d # 0
    BY DEF Rows, Numbered
  <2> QED
    BY <2>1, <2>2 DEF Rows, Numbered
<1>3. EnqueuedOnce'
  BY <1>1 DEF Rows, EnqueuedOnce, Stays, Dispatching
<1>4. OneRowPerRun'
  <2>1. \A d \in Ids : rows[d].run = r => d = RowFor(r)
    BY RowForFinds
  <2> QED
    BY <2>1 DEF Rows, OneRowPerRun
<1>5. JobsAreHonest' /\ SuccessIsEarned'
  BY DEF Rows, JobsAreHonest, SuccessIsEarned
<1>6. PendingIsNamed'
  <2> SUFFICES ASSUME NEW d \in Ids, d \notin crashed', d \notin stranded', app'.live, rows[d].st \in InFlight,
                      build = "server" \/ rows[d].run # NoRun
               PROVE  \/ jobs[d] \in Active
                      \/ \E c \in Clients : Enqueuing(c, d)'
                      \/ \E q \in Runs : rows[d].run = q /\ run'[q].st \in Notifying
    BY DEF PendingIsNamed, Notifying
  <2>1. \/ jobs[d] \in Active
        \/ \E c \in Clients : Enqueuing(c, d)
        \/ \E q \in Runs : rows[d].run = q /\ run[q].st \in Notifying
    BY DEF Rows, PendingIsNamed, Notifying
  <2>2. ASSUME NEW q \in Runs, rows[d].run = q, run[q].st \in Notifying
        PROVE  run'[q].st \in Notifying
    BY <2>2
  <2> QED
    BY <1>1, <2>1, <2>2
<1> QED
  BY <1>2, <1>3, <1>4, <1>5, <1>6 DEF Rows

(* The job of a deployment goes on: it writes that deployment's row.       *)
JobMoves(d) ==
  /\ Onward
  /\ \A c \in Clients : Stays(c)
  /\ \A r \in Runs : run'[r] = run[r]
  /\ \A e \in Ids : e # d => rows'[e] = rows[e] /\ jobs'[e] = jobs[e]
  /\ jobs[d] # "none" /\ rows'[d].run = rows[d].run
  /\ rows'[d] = rows[d] \/ (rows[d].st # "none" /\ rows'[d].st # "none")
  /\ rows'[d].st = "success" => d \in earned
  /\ jobs'[d] \in {"ok", "okrow"} => d \in earned'
  /\ jobs'[d] \in {"okrow", "badrow"} => rows'[d].st \notin InFlight \/ d \in stranded'
  /\ rows'[d].st \in InFlight => jobs'[d] \in Active \/ d \in crashed' \/ d \in stranded'

(* A job that goes on keeps what holds of deployments.                     *)
LEMMA JobMovesKeeps ==
  ASSUME TypeOK, Rows, NEW d \in Ids, JobMoves(d)
  PROVE  Rows'
<1> USE DEF JobMoves, Onward
<1>1. \A c \in Clients, e \in Ids : Enqueuing(c, e)' <=> Enqueuing(c, e)
  BY DEF Enqueuing, Stays, Dispatching
<1>2. rows[d].st # "none"
  BY DEF Rows, Numbered
<1>3. \A e \in Ids : (rows'[e].st # "none" <=> rows[e].st # "none") /\ rows'[e].run = rows[e].run
  BY <1>2
<1>4. Numbered'
  <2>1. \A r \in Runs : run[r].d # 0 => run[r].d \in Ids
    BY TypesHold, Bounds
  <2>2. \A e \in Ids : rows[e].st = "none" => jobs'[e] = "none" /\ rows[e].run = NoRun
    BY <1>2 DEF Rows, Numbered
  <2> QED
    BY <1>3, <2>1, <2>2 DEF Rows, Numbered
<1>5. EnqueuedOnce'
  <2>1. \A c \in Clients : ~Enqueuing(c, d)
    BY DEF Rows, EnqueuedOnce
  <2> QED
    BY <1>1, <1>3, <2>1 DEF Rows, EnqueuedOnce, Stays, Dispatching
<1>6. OneRowPerRun'
  BY <1>3 DEF Rows, OneRowPerRun
<1>7. JobsAreHonest' /\ SuccessIsEarned'
  BY DEF Rows, JobsAreHonest, SuccessIsEarned
<1>8. PendingIsNamed'
  BY <1>1, <1>3 DEF Rows, PendingIsNamed
<1> QED
  BY <1>4, <1>5, <1>6, <1>7, <1>8 DEF Rows

-----------------------------------------------------------------------------
(* The steps that create, delete and cancel deployments *)

(* A new row disturbs no other deployment, and nothing knew its number.    *)
LEMMA AddsKeeps ==
  ASSUME TypeOK, Rows, Onward, NEW st \in {"pending", "failed"}, NEW r \in Runs \cup {NoRun},
         Create(st, r), \A d \in Ids : jobs'[d] = jobs[d],
         r # NoRun => \A d \in Ids : rows[d].run # r,
         NEW n \in Ids, n = NextId
  PROVE  /\ rows[n].st = "none" /\ jobs[n] = "none" /\ rows'[n].st = st /\ rows'[n].run = r
         /\ rows' \in [Ids -> RowRecord]
         /\ \A d \in Ids : d # n => rows'[d] = rows[d] \/ (rows'[d].st = "gone" /\ rows'[d].run = NoRun)
         /\ \A d \in Ids : rows[d].st # "none" => rows'[d].st # "none"
         /\ \A c \in Clients : ~Enqueuing(c, n)
         /\ \E k \in 0..MaxRows : \A d \in Ids : rows'[d].st # "none" <=> d <= k
         /\ \A d \in Ids : rows'[d].st = "none" => jobs'[d] = "none" /\ rows'[d].run = NoRun
         /\ \A d, e \in Ids : rows'[d].run = rows'[e].run => d = e \/ rows'[d].run = NoRun
         /\ JobsAreHonest' /\ SuccessIsEarned'
<1>1. /\ rows[n].st = "none"
      /\ rows' \in [Ids -> RowRecord]
      /\ rows'[n].st = st /\ rows'[n].run = r
      /\ \A d \in Ids : d # n =>
           \/ rows'[d] = rows[d]
           \/ rows[d].st # "none" /\ rows'[d].st = "gone" /\ rows'[d].run = NoRun
      /\ \E k \in 0..MaxRows : \A d \in Ids : rows'[d].st # "none" <=> d <= k
  BY CreateAdds DEF Rows
<1>2. jobs[n] = "none" /\ \A c \in Clients : ~Enqueuing(c, n)
  BY <1>1 DEF Rows, Numbered, EnqueuedOnce
<1>3. \A d \in Ids : d # n => rows'[d] = rows[d] \/ (rows'[d].st = "gone" /\ rows'[d].run = NoRun)
  BY <1>1
<1>4. \A d \in Ids : rows[d].st # "none" => rows'[d].st # "none"
  BY <1>1
<1>5. \A d \in Ids : rows'[d].st = "none" => jobs'[d] = "none" /\ rows'[d].run = NoRun
  <2>1. ASSUME NEW d \in Ids, rows'[d].st = "none"
        PROVE  jobs'[d] = "none" /\ rows'[d].run = NoRun
    <3>1. d # n
      BY <1>1, <2>1
    <3>2. rows'[d] = rows[d]
      BY <1>1, <2>1, <3>1
    <3> QED
      BY <2>1, <3>2 DEF Rows, Numbered
  <2> QED
    BY <2>1
<1>6. \A d, e \in Ids : rows'[d].run = rows'[e].run => d = e \/ rows'[d].run = NoRun
  <2>1. \A d \in Ids : d # n => rows'[d].run = NoRun \/ rows'[d].run = rows[d].run
    BY <1>1
  <2> QED
    BY <1>1, <2>1 DEF Rows, OneRowPerRun
<1>7. JobsAreHonest' /\ SuccessIsEarned'
  <2>1. ASSUME NEW d \in Ids
        PROVE  /\ rows'[d].st \in InFlight /\ d # n => rows[d].st \in InFlight
               /\ rows'[d].st = "success" => rows[d].st = "success"
    BY <1>1 DEF InFlight
  <2> QED
    BY <1>2, <2>1 DEF Rows, JobsAreHonest, SuccessIsEarned, Onward
<1> QED
  BY <1>1, <1>2, <1>3, <1>4, <1>5, <1>6, <1>7

(* A request on its way to dispatch has created a row of its own.          *)
LEMMA CreatesKeeps ==
  ASSUME TypeOK, Rows, NEW c \in Clients, DeployCreates(c) \/ CreatePlaceholder(c)
  PROVE  Rows' /\ TypeOK'
<1> DEFINE op == IF build = "server" THEN "enqueue" ELSE "idle"
<1>1. /\ Create("pending", NoRun) /\ client[c].op \in {"create", "placeholder"}
      /\ UNCHANGED <<kind, build, app, container, jobs, life, remove, run, requests, faults, history>>
      /\ NextId \in Ids
  BY DEF DeployCreates, CreatePlaceholder, Fixed, Create
<1>2. build = "server" <=> client[c].op = "create" /\ DeployCreates(c)
  BY DEF DeployCreates, CreatePlaceholder, Rows, EnqueuedOnce
<1>3. /\ client' \in [Clients -> ClientRecord]
      /\ client'[c].op = op /\ (op = "enqueue" => client'[c].d = NextId)
      /\ \A e \in Clients : e # c => client'[e] = client[e]
  <2>1. client \in [Clients -> ClientRecord] /\ client[c] \in ClientRecord
    BY TypesHold
  <2>2. CASE build = "server"
    <3>1. client' = [client EXCEPT ![c] = [client[c] EXCEPT !.op = "enqueue", !.d = NextId]]
      BY <1>2, <2>1, <2>2 DEF DeployCreates
    <3>2. /\ [client[c] EXCEPT !.op = "enqueue", !.d = NextId] \in ClientRecord
          /\ [client[c] EXCEPT !.op = "enqueue", !.d = NextId].op = "enqueue"
          /\ [client[c] EXCEPT !.op = "enqueue", !.d = NextId].d = NextId
      BY <1>1, <2>1, Bounds DEF ClientRecord, Ops
    <3> QED
      BY <2>1, <2>2, <3>1, <3>2
  <2>3. CASE build # "server"
    <3>1. Answer(c)
      BY <1>2, <2>3 DEF CreatePlaceholder, DeployCreates
    <3> QED
      BY <2>3, <3>1, ClientGoesOn
  <2> QED
    BY <2>2, <2>3
<1> SUFFICES ASSUME NEW n \in Ids, n = NextId PROVE Rows' /\ TypeOK'
  BY <1>1
<1>4. Onward /\ NoRun \in Runs \cup {NoRun}
  BY <1>1 DEF Onward, history
<1>5. /\ rows[n].st = "none" /\ jobs[n] = "none" /\ rows'[n].st = "pending" /\ rows'[n].run = NoRun
      /\ rows' \in [Ids -> RowRecord]
      /\ \A d \in Ids : d # n => rows'[d] = rows[d] \/ (rows'[d].st = "gone" /\ rows'[d].run = NoRun)
      /\ \A d \in Ids : rows[d].st # "none" => rows'[d].st # "none"
      /\ \A e \in Clients : ~Enqueuing(e, n)
      /\ \E k \in 0..MaxRows : \A d \in Ids : rows'[d].st # "none" <=> d <= k
      /\ \A d \in Ids : rows'[d].st = "none" => jobs'[d] = "none" /\ rows'[d].run = NoRun
      /\ \A d, e \in Ids : rows'[d].run = rows'[e].run => d = e \/ rows'[d].run = NoRun
      /\ JobsAreHonest' /\ SuccessIsEarned'
  BY <1>1, <1>4, AddsKeeps
<1>6. TypeOK'
  BY <1>1, <1>3, <1>5 DEF TypeOK, ClientRecord, Ops, RowRecord, history
<1>7. Numbered'
  <2>1. \A r \in Runs : run[r].d # 0 => run[r].d \in Ids
    BY TypesHold, Bounds
  <2> QED
    BY <1>1, <1>5, <2>1 DEF Rows, Numbered
<1>8. \A e \in Clients, d \in Ids : Enqueuing(e, d)' <=>
        \/ e # c /\ Enqueuing(e, d)
        \/ e = c /\ d = n /\ build = "server"
  BY <1>3 DEF Enqueuing
<1>9. EnqueuedOnce'
  <2>1. \A e \in Clients :
          /\ client'[e].op = "placeholder" => build # "server"
          /\ client'[e].op \in Dispatching => build = "server" /\ client'[e].d # 0
    BY <1>3, Bounds DEF Rows, EnqueuedOnce, Dispatching
  <2>2. \A e \in Clients, d \in Ids : Enqueuing(e, d)' => rows'[d].st # "none" /\ jobs[d] = "none"
    BY <1>5, <1>8 DEF Rows, EnqueuedOnce
  <2>3. \A e, f \in Clients, d \in Ids : Enqueuing(e, d)' /\ Enqueuing(f, d)' => e = f
    BY <1>5, <1>8 DEF Rows, EnqueuedOnce
  <2> QED
    BY <1>1, <2>1, <2>2, <2>3 DEF Rows, EnqueuedOnce, Dispatching
<1>10. OneRowPerRun'
  <2>1. NoRun \notin Runs
    BY NoRunAssumption DEF NoRun
  <2>2. \A r \in Runs, d \in Ids : rows'[d].run = r => rows[d].run = r
    BY <1>5, <2>1
  <2> QED
    BY <1>1, <1>5, <2>2 DEF Rows, OneRowPerRun
<1>11. PendingIsNamed'
  <2> SUFFICES ASSUME NEW d \in Ids, d \notin crashed, d \notin stranded, app.live, rows'[d].st \in InFlight,
                      build = "server" \/ rows'[d].run # NoRun
               PROVE  \/ jobs[d] \in Active
                      \/ \E e \in Clients : Enqueuing(e, d)'
                      \/ \E r \in Runs : rows'[d].run = r /\ run[r].st \in Notifying
    BY <1>1 DEF PendingIsNamed, Notifying, history
  <2>1. CASE d = n
    BY <1>5, <1>8, <2>1
  <2>2. CASE d # n
    <3>1. rows'[d] = rows[d]
      BY <1>5, <2>2 DEF InFlight
    <3>2. \A e \in Clients : Enqueuing(e, d) => e # c
      BY <1>1 DEF Enqueuing
    <3>3. \/ jobs[d] \in Active
          \/ \E e \in Clients : Enqueuing(e, d)
          \/ \E r \in Runs : rows[d].run = r /\ run[r].st \in Notifying
      BY <3>1 DEF Rows, PendingIsNamed, Notifying
    <3> QED
      BY <1>8, <3>1, <3>2, <3>3
  <2> QED
    BY <2>1, <2>2
<1> QED
  BY <1>5, <1>6, <1>7, <1>9, <1>10, <1>11 DEF Rows

(* Rows that are cancelled or deleted need nobody any more.                *)
LEMMA DropsKeeps ==
  ASSUME TypeOK, Rows, Onward, \A c \in Clients : Stays(c),
         \A d \in Ids : jobs'[d] = jobs[d], \A r \in Runs : run'[r] = run[r],
         rows' \in [Ids -> RowRecord],
         \A d \in Ids : \/ rows'[d] = rows[d]
                       \/ /\ rows[d].st # "none" /\ rows'[d].st \in {"gone", "cancelled"}
                          /\ rows'[d].run \in {rows[d].run, NoRun}
  PROVE  Rows'
<1>1. \A c \in Clients, d \in Ids : Enqueuing(c, d)' <=> Enqueuing(c, d)
  BY DEF Enqueuing, Stays, Dispatching
<1>2. /\ \A d \in Ids : rows'[d].st # "none" <=> rows[d].st # "none"
      /\ \A d \in Ids : rows'[d].run \in {rows[d].run, NoRun}
      /\ \A d \in Ids : rows'[d].st \in InFlight \cup {"success", "none"} => rows'[d] = rows[d]
  BY DEF InFlight
<1>3. Numbered'
  <2>1. \A r \in Runs : run[r].d # 0 => run[r].d \in Ids
    BY TypesHold, Bounds
  <2> QED
    BY <1>2, <2>1 DEF Rows, Numbered
<1>4. EnqueuedOnce'
  <2>1. build' = build
    BY DEF Onward
  <2> QED
    BY <1>1, <1>2, <2>1 DEF Rows, EnqueuedOnce, Stays, Dispatching
<1>5. OneRowPerRun'
  <2>1. NoRun \notin Runs
    BY NoRunAssumption DEF NoRun
  <2>2. \A r \in Runs, d \in Ids : rows'[d].run = r => rows[d].run = r
    BY <1>2, <2>1
  <2>3. \A d, e \in Ids : rows'[d].run = rows'[e].run => d = e \/ rows'[d].run = NoRun
    BY <1>2 DEF Rows, OneRowPerRun
  <2> QED
    BY <2>2, <2>3 DEF Rows, OneRowPerRun
<1>6. JobsAreHonest' /\ SuccessIsEarned'
  BY <1>2 DEF Rows, JobsAreHonest, SuccessIsEarned, Onward
<1>7. PendingIsNamed'
  BY <1>1, <1>2 DEF Rows, PendingIsNamed, Onward
<1> QED
  BY <1>3, <1>4, <1>5, <1>6, <1>7 DEF Rows

(* A deployment supersedes what is in flight.                              *)
LEMMA SupersedesKeeps ==
  ASSUME TypeOK, Rows, NEW c \in Clients, DeploySupersedes(c)
  PROVE  Rows' /\ TypeOK'
<1>1. /\ client[c].op = "supersede" /\ Then(c, "create")
      /\ UNCHANGED <<kind, build, app, container, jobs, life, remove, run, requests, history>>
      /\ Supersede \/ UNCHANGED rows
      /\ faults' \in 0..MaxFaults
  BY Counted DEF DeploySupersedes, Fixed, TypeOK
<1>2. rows \in [Ids -> RowRecord]
  BY TypesHold
<1>3. ASSUME NEW d \in Ids
      PROVE  /\ [rows[d] EXCEPT !.st = "cancelled"] \in RowRecord
             /\ [rows[d] EXCEPT !.st = "cancelled"].st = "cancelled"
             /\ [rows[d] EXCEPT !.st = "cancelled"].run = rows[d].run
  BY <1>2 DEF RowRecord
<1>4. rows' \in [Ids -> RowRecord]
  BY <1>1, <1>2, <1>3 DEF Supersede
<1>5. \A d \in Ids : \/ rows'[d] = rows[d]
                    \/ /\ rows[d].st # "none" /\ rows'[d].st \in {"gone", "cancelled"}
                       /\ rows'[d].run \in {rows[d].run, NoRun}
  BY <1>1, <1>3 DEF Supersede, InFlight
<1>6. /\ client' \in [Clients -> ClientRecord]
      /\ client'[c].op = "create"
      /\ \A e \in Clients : e # c => client'[e] = client[e]
  BY <1>1, ClientGoesOn DEF Ops
<1>7. \A e \in Clients : Stays(e)
  BY <1>1, <1>6 DEF Stays, Dispatching
<1>8. Onward
  BY <1>1 DEF Onward, history
<1>9. Rows'
  BY <1>1, <1>4, <1>5, <1>7, <1>8, DropsKeeps
<1> QED
  BY <1>1, <1>4, <1>6, <1>9 DEF TypeOK, ClientRecord, Ops, RowRecord, history

(* A row is deleted by hand.                                               *)
LEMMA DeletionKeeps ==
  ASSUME TypeOK, Rows, NEW x \in Ids, DeleteDeployment(x)
  PROVE  Rows' /\ TypeOK'
<1> DEFINE none == [st |-> "gone", run |-> NoRun]
<1>1. /\ HasRow(x) /\ rows' = [rows EXCEPT ![x] = none] /\ requests' \in 0..MaxRequests
      /\ UNCHANGED <<kind, build, app, container, jobs, life, remove, client, run, faults, history>>
  BY Counted DEF DeleteDeployment, work, Fixed
<1>2. rows \in [Ids -> RowRecord] /\ none \in RowRecord /\ none.st = "gone" /\ none.run = NoRun
  BY TypesHold DEF RowRecord
<1> HIDE DEF none
<1>3. rows' \in [Ids -> RowRecord]
  BY <1>1, <1>2
<1>4. \A d \in Ids : \/ rows'[d] = rows[d]
                    \/ /\ rows[d].st # "none" /\ rows'[d].st \in {"gone", "cancelled"}
                       /\ rows'[d].run \in {rows[d].run, NoRun}
  BY <1>1, <1>2 DEF HasRow
<1>5. Onward /\ \A e \in Clients : Stays(e)
  BY <1>1 DEF Onward, history, Stays
<1>6. Rows'
  BY <1>1, <1>3, <1>4, <1>5, DropsKeeps
<1> QED
  BY <1>1, <1>3, <1>6 DEF TypeOK, RowRecord, history

(* A request that was to enqueue a deployment is answered: the deployment  *)
(* has its job, or it is no longer in flight, or it is stranded.           *)
LEMMA DispatchEndsKeeps ==
  ASSUME TypeOK, Rows, NEW c \in Clients, client[c].op \in Dispatching, Answer(c),
         NEW x \in Ids, x = client[c].d,
         UNCHANGED <<build, app, run, earned, crashed>>, stranded \subseteq stranded',
         \A d \in Ids : d # x => jobs'[d] = jobs[d] /\ rows'[d] = rows[d],
         rows'[x].run = rows[x].run,
         \/ jobs'[x] = "queued" /\ rows'[x] = rows[x]
         \/ jobs'[x] = "none" /\ rows'[x].st \notin InFlight \cup {"none", "success"}
         \/ jobs'[x] = "none" /\ rows'[x] = rows[x] /\ (x \in stranded' \/ rows[x].st = "gone")
  PROVE  Rows'
<1>2. /\ Enqueuing(c, x) /\ build = "server" /\ jobs[x] = "none" /\ rows[x].st # "none"
      /\ x \in 0..MaxRows
  BY Bounds DEF Rows, EnqueuedOnce, Enqueuing, Dispatching
<1>4. /\ client'[c].op = "idle"
      /\ \A e \in Clients : e # c => client'[e] = client[e]
  BY ClientGoesOn
<1>5. /\ \A d \in Ids : d \in stranded => d \in stranded'
      /\ build' = build /\ app' = app /\ run' = run /\ earned' = earned /\ crashed' = crashed
  OBVIOUS
<1>7. /\ \A d \in Ids : rows'[d].st # "none" <=> rows[d].st # "none"
      /\ \A d \in Ids : rows'[d].run = rows[d].run
  BY <1>2
<1>8. Numbered'
  <2>1. \A r \in Runs : run[r].d # 0 => run[r].d \in Ids
    BY TypesHold, Bounds
  <2>2. \A d \in Ids : rows'[d].st = "none" => jobs'[d] = "none" /\ rows'[d].run = NoRun
    BY <1>2, <1>7 DEF Rows, Numbered
  <2> QED
    BY <1>5, <1>7, <2>1, <2>2 DEF Rows, Numbered
<1>9. \A e \in Clients, d \in Ids : Enqueuing(e, d)' <=> e # c /\ Enqueuing(e, d)
  BY <1>4 DEF Enqueuing
<1>10. \A e \in Clients, d \in Ids : Enqueuing(e, d)' => d # x
  BY <1>2, <1>9 DEF Rows, EnqueuedOnce
<1>11. EnqueuedOnce'
  BY <1>4, <1>5, <1>7, <1>9, <1>10 DEF Rows, EnqueuedOnce
<1>12. OneRowPerRun'
  BY <1>5, <1>7 DEF Rows, OneRowPerRun
<1>13. JobsAreHonest' /\ SuccessIsEarned'
  BY <1>2, <1>5 DEF Rows, JobsAreHonest, SuccessIsEarned, InFlight
<1>14. PendingIsNamed'
  <2> SUFFICES ASSUME NEW d \in Ids, d \notin crashed, d \notin stranded', app.live,
                      rows'[d].st \in InFlight, build = "server" \/ rows'[d].run # NoRun
               PROVE  \/ jobs'[d] \in Active
                      \/ \E e \in Clients : Enqueuing(e, d)'
                      \/ \E r \in Runs : rows'[d].run = r /\ run[r].st \in Notifying
    BY <1>5 DEF PendingIsNamed, Notifying
  <2>1. CASE d = x
    BY <2>1 DEF Active, JobStates, InFlight
  <2>2. CASE d # x
    <3>1. rows'[d] = rows[d] /\ jobs'[d] = jobs[d] /\ d \notin stranded
      BY <1>5, <2>2
    <3>2. \A e \in Clients : Enqueuing(e, d) => e # c
      BY <1>2, <2>2 DEF Enqueuing
    <3>3. \/ jobs[d] \in Active
          \/ \E e \in Clients : Enqueuing(e, d)
          \/ \E r \in Runs : rows[d].run = r /\ run[r].st \in Notifying
      BY <3>1 DEF Rows, PendingIsNamed, Notifying
    <3> QED
      BY <1>9, <3>1, <3>2, <3>3
  <2> QED
    BY <2>1, <2>2
<1> QED
  BY <1>8, <1>11, <1>12, <1>13, <1>14 DEF Rows

(* The enqueue gives the deployment its job, or the request gives up.      *)
LEMMA EnqueuesKeeps ==
  ASSUME TypeOK, Rows, NEW c \in Clients, DeployEnqueues(c)
  PROVE  Rows' /\ TypeOK'
<1>1. /\ client[c].op = "enqueue"
      /\ UNCHANGED <<kind, build, app, rows, container, life, remove, run, requests, history>>
  BY DEF DeployEnqueues, Fixed
<1> SUFFICES ASSUME NEW x \in Ids, x = client[c].d PROVE Rows' /\ TypeOK'
  BY <1>1, TypesHold, Bounds DEF Rows, EnqueuedOnce
<1>2. jobs[x] = "none" /\ x \in 0..MaxRows
  BY <1>1, Bounds DEF Rows, EnqueuedOnce, Enqueuing
<1>3. CASE SetJob(x, "queued") /\ Answer(c) /\ UNCHANGED faults
  <2>1. /\ jobs' \in [0..MaxRows -> JobStates] /\ jobs'[x] = "queued"
        /\ \A e \in 0..MaxRows : e # x => jobs'[e] = jobs[e]
    BY <1>2, <1>3, JobIsSet DEF JobStates
  <2>2. /\ client' \in [Clients -> ClientRecord] /\ client'[c].op = "idle"
    BY <1>3, ClientGoesOn
  <2>3. TypeOK'
    BY <1>1, <1>3, <2>1, <2>2 DEF TypeOK, ClientRecord, Ops, history
  <2>4. Rows'
    <3>1. /\ client[c].op \in Dispatching
          /\ UNCHANGED <<build, app, run, earned, crashed>> /\ stranded \subseteq stranded'
          /\ \A d \in Ids : d # x => jobs'[d] = jobs[d] /\ rows'[d] = rows[d]
          /\ rows'[x].run = rows[x].run /\ jobs'[x] = "queued" /\ rows'[x] = rows[x]
      BY <1>1, <2>1, Bounds DEF Dispatching, history
    <3> QED
      BY <1>3, <3>1, DispatchEndsKeeps
  <2> QED
    BY <2>3, <2>4
<1>4. CASE Fault /\ Then(c, "giveup") /\ UNCHANGED jobs
  <2>1. /\ client' \in [Clients -> ClientRecord]
        /\ client'[c].op = "giveup" /\ client'[c].d = client[c].d
        /\ \A e \in Clients : e # c => client'[e] = client[e]
    BY <1>4, ClientGoesOn DEF Ops
  <2>2. \A e \in Clients : Stays(e)
    BY <1>1, <2>1 DEF Stays, Dispatching
  <2>3. RowsSame
    BY <1>1, <1>4, <2>2 DEF RowsSame, Onward, history
  <2>4. Rows'
    BY <2>3, RowsKept
  <2>5. faults' \in 0..MaxFaults
    BY <1>4, Counted
  <2> QED
    BY <1>1, <1>4, <2>1, <2>4, <2>5 DEF TypeOK, ClientRecord, Ops, history
<1> QED
  BY <1>2, <1>3, <1>4 DEF DeployEnqueues, SetJob

(* A deployment that has no job is marked failed, or stranded.             *)
LEMMA GivesUpKeeps ==
  ASSUME TypeOK, Rows, NEW c \in Clients,
         \/ DeployGivesUp(c)
         \/ ClientStops(c) /\ client[c].op \in Dispatching
  PROVE  Rows' /\ TypeOK'
<1>1. /\ client[c].op \in Dispatching /\ Answer(c)
      /\ UNCHANGED <<kind, build, app, container, jobs, life, remove, run, requests, earned,
                     crashed, restored, swallowed, overlap, torn>>
  BY DEF DeployGivesUp, GiveUpOnly, ClientStops, Fixed, Dispatching
<1> SUFFICES ASSUME NEW x \in Ids, x = client[c].d PROVE Rows' /\ TypeOK'
  BY <1>1, TypesHold, Bounds DEF Rows, EnqueuedOnce, Dispatching
<1>2. jobs[x] = "none" /\ rows[x].st # "none" /\ x \in 0..MaxRows /\ x \in 0..RemoveJob
  BY <1>1, Bounds DEF Rows, EnqueuedOnce, Enqueuing, Dispatching
<1>3. \/ SetRow(x, "failed") /\ Written
      \/ UNCHANGED rows /\ Lost({x})
  BY <1>1 DEF DeployGivesUp, ClientStops, Dispatching
<1>4. /\ rows' \in [Ids -> RowRecord] /\ faults' \in 0..MaxFaults
      /\ stranded' \subseteq 0..RemoveJob /\ stranded \subseteq stranded'
      /\ \A d \in Ids : d # x => rows'[d] = rows[d]
      /\ rows'[x].run = rows[x].run
      /\ \/ rows'[x].st \notin InFlight \cup {"none", "success"}
         \/ rows'[x] = rows[x] /\ (x \in stranded' \/ rows[x].st = "gone")
  <2>1. CASE SetRow(x, "failed") /\ Written
    <3>1. /\ rows' \in [Ids -> RowRecord]
          /\ \A e \in Ids : e # x => rows'[e] = rows[e]
          /\ \A e \in Ids : rows'[e].run = rows[e].run
          /\ HasRow(x) => rows'[x].st = "failed"
          /\ ~HasRow(x) => rows' = rows
      BY <1>2, <2>1, RowIsSet DEF RowStates
    <3>2. HasRow(x) \/ rows[x].st = "gone"
      BY <1>2, Bounds DEF HasRow
    <3> QED
      BY <2>1, <3>1, <3>2 DEF Written, TypeOK, InFlight
  <2>2. CASE UNCHANGED rows /\ Lost({x})
    BY <1>2, <2>2, TypesHold, Counted DEF Lost, TypeOK
  <2> QED
    BY <1>3, <2>1, <2>2
<1>5. client' \in [Clients -> ClientRecord]
  BY <1>1, ClientGoesOn
<1>6. TypeOK'
  BY <1>1, <1>4, <1>5 DEF TypeOK, ClientRecord, Ops, RowRecord
<1>7. Rows'
  <2>1. /\ UNCHANGED <<build, app, run, earned, crashed>> /\ stranded \subseteq stranded'
        /\ \A d \in Ids : d # x => jobs'[d] = jobs[d] /\ rows'[d] = rows[d]
        /\ rows'[x].run = rows[x].run
        /\ \/ jobs'[x] = "none" /\ rows'[x].st \notin InFlight \cup {"none", "success"}
           \/ jobs'[x] = "none" /\ rows'[x] = rows[x] /\ (x \in stranded' \/ rows[x].st = "gone")
    BY <1>1, <1>2, <1>4
  <2> QED
    BY <1>1, <2>1, DispatchEndsKeeps
<1> QED
  BY <1>6, <1>7

(* A run that knows of no row adds one; it knows of none when none is its. *)
LEMMA RunAddsKeeps ==
  ASSUME TypeOK, Rows, Onward, NEW r \in Runs, NEW st \in {"pending", "failed"}, Create(st, r),
         run[r].st \in {"found", "failfound"}, run[r].d = 0,
         \A d \in Ids : jobs'[d] = jobs[d], client' = client,
         \A q \in Runs : q # r => run'[q] = run[q],
         \/ st = "pending" /\ run'[r] = [st |-> "written", d |-> NextId]
         \/ st = "failed" /\ run'[r].st = "ended" /\ run'[r].d = 0
  PROVE  Rows' /\ rows' \in [Ids -> RowRecord] /\ NextId \in Ids
<1>0. NextId \in Ids
  BY DEF Create
<1> SUFFICES ASSUME NEW n \in Ids, n = NextId PROVE Rows' /\ rows' \in [Ids -> RowRecord]
  BY <1>0
<1>1. \A d \in Ids : rows[d].run # r
  BY Bounds DEF Rows, OneRowPerRun
<1>2. r # NoRun /\ NoRun \notin Runs
  BY NoRunAssumption DEF NoRun
<1>3. /\ rows[n].st = "none" /\ jobs[n] = "none" /\ rows'[n].st = st /\ rows'[n].run = r
      /\ rows' \in [Ids -> RowRecord]
      /\ \A d \in Ids : d # n => rows'[d] = rows[d] \/ (rows'[d].st = "gone" /\ rows'[d].run = NoRun)
      /\ \A d \in Ids : rows[d].st # "none" => rows'[d].st # "none"
      /\ \A c \in Clients : ~Enqueuing(c, n)
      /\ \E k \in 0..MaxRows : \A d \in Ids : rows'[d].st # "none" <=> d <= k
      /\ \A d \in Ids : rows'[d].st = "none" => jobs'[d] = "none" /\ rows'[d].run = NoRun
      /\ \A d, e \in Ids : rows'[d].run = rows'[e].run => d = e \/ rows'[d].run = NoRun
      /\ JobsAreHonest' /\ SuccessIsEarned'
  BY <1>1, AddsKeeps
<1>4. /\ run'[r].st \in {"written", "ended"} /\ run'[r].d \in {0, n}
      /\ run'[r].st = "written" => run'[r].d = n
  OBVIOUS
<1>5. Numbered'
  <2>1. \A q \in Runs : run[q].d # 0 => run[q].d \in Ids /\ rows[run[q].d].st # "none"
    BY TypesHold, Bounds DEF Rows, Numbered
  <2>2. \A q \in Runs : run'[q].d # 0 => rows'[run'[q].d].st # "none"
    BY <1>3, <1>4, <2>1
  <2>3. \A q \in Runs : run'[q].st = "written" => run'[q].d # 0
    BY <1>4, Bounds DEF Rows, Numbered
  <2> QED
    BY <1>3, <2>2, <2>3 DEF Numbered
<1>6. build # "server" /\ build' = build
  BY DEF Rows, EnqueuedOnce, Onward
<1>7. \A c \in Clients, d \in Ids : Enqueuing(c, d)' <=> Enqueuing(c, d)
  BY DEF Enqueuing
<1>8. EnqueuedOnce'
  BY <1>3, <1>6, <1>7 DEF Rows, EnqueuedOnce
<1>9. OneRowPerRun'
  <2>1. ASSUME NEW q \in Runs, run'[q].st \in {"found", "written", "failfound"},
               NEW d \in Ids, rows'[d].run = q
        PROVE  d = run'[q].d
    <3>1. CASE q = r
      <4>1. d = n
        BY <1>1, <1>2, <1>3, <2>1, <3>1
      <4> QED
        BY <1>4, <2>1, <3>1, <4>1
    <3>2. CASE q # r
      <4>1. d # n /\ rows[d].run = q
        BY <1>2, <1>3, <2>1, <3>2
      <4> QED
        BY <2>1, <3>2, <4>1 DEF Rows, OneRowPerRun
    <3> QED
      BY <3>1, <3>2
  <2> QED
    BY <1>3, <2>1 DEF OneRowPerRun
<1>10. PendingIsNamed'
  <2> SUFFICES ASSUME NEW d \in Ids, d \notin crashed, d \notin stranded, app.live, rows'[d].st \in InFlight,
                      rows'[d].run # NoRun
               PROVE  \/ jobs[d] \in Active
                      \/ \E c \in Clients : Enqueuing(c, d)
                      \/ \E q \in Runs : rows'[d].run = q /\ run'[q].st \in Notifying
    BY <1>6, <1>7 DEF PendingIsNamed, Notifying, Onward
  <2>1. CASE d = n
    BY <1>3, <2>1 DEF Notifying, InFlight
  <2>2. CASE d # n
    <3>1. rows'[d] = rows[d] /\ rows[d].run # r
      BY <1>1, <1>3, <2>2 DEF InFlight
    <3>2. \/ jobs[d] \in Active
          \/ \E c \in Clients : Enqueuing(c, d)
          \/ \E q \in Runs : rows[d].run = q /\ run[q].st \in Notifying
      BY <3>1 DEF Rows, PendingIsNamed, Notifying
    <3> QED
      BY <3>1, <3>2
  <2> QED
    BY <2>1, <2>2
<1> QED
  BY <1>3, <1>5, <1>8, <1>9, <1>10 DEF Rows

(* A run that knows of a row claims it, or marks it failed; one that is    *)
(* gone by now it leaves alone.                                            *)
LEMMA RunClaimsKeeps ==
  ASSUME TypeOK, Rows, Onward, NEW r \in Runs, NEW x \in Ids, x = run[r].d,
         run[r].st \in {"found", "failfound"},
         \A d \in Ids : jobs'[d] = jobs[d], client' = client,
         \A q \in Runs : q # r => run'[q] = run[q], run'[r].d = x,
         rows' \in [Ids -> RowRecord], \A d \in Ids : d # x => rows'[d] = rows[d],
         IF HasRow(x) THEN rows'[x].run = r ELSE rows'[x] = rows[x],
         \/ run'[r].st = "written" /\ rows'[x].st = rows[x].st
         \/ run'[r].st = "ended" /\ (HasRow(x) => rows'[x].st = "failed")
  PROVE  Rows'
<1>1. r # NoRun /\ NoRun \notin Runs
  BY NoRunAssumption DEF NoRun
<1>2. x # 0 /\ rows[x].st # "none" /\ (~HasRow(x) <=> rows[x].st = "gone")
  BY Bounds DEF Rows, Numbered, HasRow
<1>3. build # "server" /\ build' = build
  BY DEF Rows, EnqueuedOnce, Onward
<1>4. \A d \in Ids : rows[d].run = r => d = x
  BY DEF Rows, OneRowPerRun
<1>5. \A d \in Ids : rows'[d].st # "none" <=> rows[d].st # "none"
  BY <1>2
<1>6. \A c \in Clients, d \in Ids : Enqueuing(c, d)' <=> Enqueuing(c, d)
  BY DEF Enqueuing
<1>7. Numbered'
  <2>1. \A q \in Runs : run[q].d # 0 => run[q].d \in Ids
    BY TypesHold, Bounds
  <2>2. \A q \in Runs : run'[q].d = run[q].d
    OBVIOUS
  <2>3. \A q \in Runs : run'[q].st = "written" => run'[q].d # 0
    BY <1>2 DEF Rows, Numbered
  <2>4. \A d \in Ids : rows'[d].st = "none" => jobs'[d] = "none" /\ rows'[d].run = NoRun
    BY <1>2, <1>5 DEF Rows, Numbered
  <2> QED
    BY <1>5, <2>1, <2>2, <2>3, <2>4 DEF Rows, Numbered
<1>8. EnqueuedOnce'
  BY <1>3, <1>5, <1>6 DEF Rows, EnqueuedOnce
<1>9. OneRowPerRun'
  <2>1. \A d, e \in Ids : rows'[d].run = rows'[e].run => d = e \/ rows'[d].run = NoRun
    BY <1>4 DEF Rows, OneRowPerRun
  <2>2. ASSUME NEW q \in Runs, run'[q].st \in {"found", "written", "failfound"},
               NEW d \in Ids, rows'[d].run = q
        PROVE  d = run'[q].d
    <3>1. CASE q = r
      BY <1>4, <2>2, <3>1
    <3>2. CASE q # r
      <4>1. rows[d].run = q
        BY <2>2, <3>2
      <4> QED
        BY <2>2, <3>2, <4>1 DEF Rows, OneRowPerRun
    <3> QED
      BY <3>1, <3>2
  <2> QED
    BY <2>1, <2>2 DEF OneRowPerRun
<1>10. JobsAreHonest' /\ SuccessIsEarned'
  <2>1. ASSUME NEW d \in Ids
        PROVE  /\ rows'[d].st \in InFlight => rows[d].st \in InFlight
               /\ rows'[d].st = "success" => rows[d].st = "success"
    BY <1>2 DEF InFlight
  <2> QED
    BY <2>1 DEF Rows, JobsAreHonest, SuccessIsEarned, Onward
<1>11. PendingIsNamed'
  <2> SUFFICES ASSUME NEW d \in Ids, d \notin crashed, d \notin stranded, app.live, rows'[d].st \in InFlight,
                      rows'[d].run # NoRun
               PROVE  \/ jobs[d] \in Active
                      \/ \E c \in Clients : Enqueuing(c, d)
                      \/ \E q \in Runs : rows'[d].run = q /\ run'[q].st \in Notifying
    BY <1>3, <1>6 DEF PendingIsNamed, Notifying, Onward
  <2>1. CASE d = x
    <3>1. run'[r].st = "written" /\ rows'[x].run = r
      BY <1>2, <2>1 DEF InFlight
    <3> QED
      BY <2>1, <3>1 DEF Notifying
  <2>2. CASE d # x
    <3>1. rows'[d] = rows[d] /\ rows[d].run # r
      BY <1>4, <2>2
    <3>2. \/ jobs[d] \in Active
          \/ \E c \in Clients : Enqueuing(c, d)
          \/ \E q \in Runs : rows[d].run = q /\ run[q].st \in Notifying
      BY <3>1 DEF Rows, PendingIsNamed, Notifying
    <3> QED
      BY <3>1, <3>2
  <2> QED
    BY <2>1, <2>2
<1> QED
  BY <1>7, <1>8, <1>9, <1>10, <1>11 DEF Rows

(* A run gets a status and a deployment.                                   *)
LEMMA RunIsWritten ==
  ASSUME TypeOK, NEW r \in Runs, NEW st \in RunStates, NEW d \in 0..MaxRows,
         run' = [run EXCEPT ![r] = [st |-> st, d |-> d]]
  PROVE  /\ run' \in [Runs -> RunRecord] /\ run'[r].st = st /\ run'[r].d = d
         /\ run'[r] = [st |-> st, d |-> d]
         /\ \A q \in Runs : q # r => run'[q] = run[q]
<1>1. run \in [Runs -> RunRecord] /\ [st |-> st, d |-> d] \in RunRecord
  BY TypesHold DEF RunRecord
<1> QED
  BY <1>1

(* A run that Launch could not serve has failed, or ended with its rows    *)
(* stranded.                                                               *)
LEMMA RunFailsKeeps ==
  ASSUME TypeOK, Rows, NEW r \in Runs, run[r].st \in {"found", "failfound"},
         NEW st \in {"failing", "ended"}, RunStep(r, st),
         st = "ended" => \A d \in Ids : rows[d].run = r => d \in stranded',
         faults' \in 0..MaxFaults, stranded' \subseteq 0..RemoveJob, stranded \subseteq stranded',
         UNCHANGED <<kind, build, app, rows, container, jobs, life, remove, client, requests,
                     earned, crashed, restored, swallowed, overlap, torn>>
  PROVE  Rows' /\ TypeOK'
<1>1. /\ run' \in [Runs -> RunRecord] /\ run'[r].st = st /\ run'[r].d = run[r].d
      /\ \A q \in Runs : q # r => run'[q] = run[q]
  BY RunIsSet DEF RunStates
<1>2. Onward /\ \A c \in Clients : Stays(c)
  BY DEF Onward, Stays
<1>3. RunMoves(r)
  BY <1>1, <1>2 DEF RunMoves, Notifying
<1>4. TypeOK'
  BY <1>1 DEF TypeOK, RunRecord
<1> QED
  BY <1>3, <1>4, RunMovesKeeps

(* Launch writes the row of a run that has built its image.                *)
LEMMA UpsertKeeps ==
  ASSUME TypeOK, Rows, NEW r \in Runs, upsertGHADeployment(r)
  PROVE  Rows' /\ TypeOK'
<1>1. /\ run[r].st = "found" /\ faults' \in 0..MaxFaults
      /\ UNCHANGED <<kind, build, app, container, jobs, life, remove, client, requests, history>>
  BY Counted DEF upsertGHADeployment, RunOnly, Fixed, TypeOK
<1>2. Onward /\ jobs' = jobs
  BY <1>1 DEF Onward, history
<1>5. CASE RunStep(r, "failing") /\ UNCHANGED rows
  <2>1. UNCHANGED <<earned, crashed, stranded, restored, swallowed, overlap, torn>>
    BY <1>1 DEF history
  <2>2. stranded' \subseteq 0..RemoveJob /\ stranded \subseteq stranded'
    BY <2>1 DEF TypeOK
  <2> QED
    BY <1>1, <1>5, <2>1, <2>2, RunFailsKeeps
<1> SUFFICES ASSUME ~(RunStep(r, "failing") /\ UNCHANGED rows) PROVE Rows' /\ TypeOK'
  BY <1>5
<1>3. CASE run[r].d = 0
  <2>1. /\ Create("pending", r)
        /\ run' = [run EXCEPT ![r] = [st |-> "written", d |-> NextId]]
    BY <1>3 DEF upsertGHADeployment
  <2>2. NextId \in Ids /\ NextId \in 0..MaxRows
    BY <2>1, Bounds DEF Create
  <2>3. /\ run' \in [Runs -> RunRecord] /\ run'[r] = [st |-> "written", d |-> NextId]
        /\ \A q \in Runs : q # r => run'[q] = run[q]
    BY <2>1, <2>2, RunIsWritten DEF RunStates
  <2>4. Rows' /\ rows' \in [Ids -> RowRecord]
    BY <1>1, <1>2, <1>3, <2>1, <2>3, RunAddsKeeps
  <2> QED
    BY <1>1, <2>3, <2>4 DEF TypeOK, RowRecord, RunRecord, history
<1>4. CASE run[r].d # 0
  <2> SUFFICES ASSUME NEW x \in Ids, x = run[r].d PROVE Rows' /\ TypeOK'
    BY <1>4, TypesHold, Bounds
  <2>1. /\ rows' = IF HasRow(x) THEN [rows EXCEPT ![x].run = r] ELSE rows
        /\ RunStep(r, "written")
    BY <1>4 DEF upsertGHADeployment
  <2>2. /\ run' \in [Runs -> RunRecord] /\ run'[r].st = "written" /\ run'[r].d = x
        /\ \A q \in Runs : q # r => run'[q] = run[q]
    BY <2>1, RunIsSet DEF RunStates
  <2>3. /\ rows' \in [Ids -> RowRecord] /\ \A d \in Ids : d # x => rows'[d] = rows[d]
        /\ rows'[x].st = rows[x].st
        /\ IF HasRow(x) THEN rows'[x].run = r ELSE rows'[x] = rows[x]
    <3>1. rows \in [Ids -> RowRecord] /\ rows[x] \in RowRecord
      BY TypesHold
    <3>2. /\ [rows[x] EXCEPT !.run = r] \in RowRecord /\ [rows[x] EXCEPT !.run = r].run = r
          /\ [rows[x] EXCEPT !.run = r].st = rows[x].st
      BY <3>1 DEF RowRecord
    <3>3. rows' = IF HasRow(x) THEN [rows EXCEPT ![x] = [rows[x] EXCEPT !.run = r]] ELSE rows
      BY <2>1, <3>1
    <3> QED
      BY <3>1, <3>2, <3>3
  <2>4. Rows'
    BY <1>1, <1>2, <2>2, <2>3, RunClaimsKeeps
  <2> QED
    BY <1>1, <2>2, <2>3, <2>4 DEF TypeOK, RowRecord, RunRecord, history
<1> QED
  BY <1>3, <1>4

(* The failure of a run marks its row.                                     *)
LEMMA MarkFailedKeeps ==
  ASSUME TypeOK, Rows, NEW r \in Runs, markGHADeploymentFailed(r)
  PROVE  Rows' /\ TypeOK'
<1>0. /\ run[r].st = "failfound" /\ RunStep(r, "ended")
      /\ UNCHANGED <<kind, build, app, container, jobs, life, remove, client, requests, earned,
                     crashed, restored, swallowed, overlap, torn>>
  BY DEF markGHADeploymentFailed, NotifyOnly, Fixed
<1>6. CASE UNCHANGED rows /\ Lost(RowsOf(r))
  <2>1. RowsOf(r) \subseteq Ids /\ \A d \in Ids : rows[d].run = r => d \in RowsOf(r)
    BY DEF RowsOf
  <2>2. faults' \in 0..MaxFaults /\ stranded' = stranded \cup RowsOf(r)
    BY <1>6, Counted DEF Lost
  <2>3. stranded' \subseteq 0..RemoveJob /\ stranded \subseteq stranded'
    BY <2>1, <2>2, Bounds DEF TypeOK
  <2> QED
    BY <1>0, <1>6, <2>1, <2>2, <2>3, RunFailsKeeps
<1> SUFFICES ASSUME Written, ~(UNCHANGED rows /\ Lost(RowsOf(r))) PROVE Rows' /\ TypeOK'
  BY <1>6 DEF markGHADeploymentFailed
<1>1. /\ run[r].st = "failfound" /\ RunStep(r, "ended")
      /\ UNCHANGED <<kind, build, app, container, jobs, life, remove, client, requests, faults, history>>
  BY <1>0 DEF Written, history
<1>2. Onward /\ jobs' = jobs
  BY <1>1 DEF Onward, history
<1>3. /\ run' \in [Runs -> RunRecord] /\ run'[r].st = "ended" /\ run'[r].d = run[r].d
      /\ \A q \in Runs : q # r => run'[q] = run[q]
  BY <1>1, RunIsSet DEF RunStates
<1>4. CASE run[r].d = 0
  <2>1. Create("failed", r)
    BY <1>4 DEF markGHADeploymentFailed
  <2>2. Rows' /\ rows' \in [Ids -> RowRecord]
    BY <1>1, <1>2, <1>3, <1>4, <2>1, RunAddsKeeps
  <2> QED
    BY <1>1, <1>3, <2>2 DEF TypeOK, RowRecord, RunRecord, history
<1>5. CASE run[r].d # 0
  <2> DEFINE new == [st |-> "failed", run |-> r]
  <2> SUFFICES ASSUME NEW x \in Ids, x = run[r].d PROVE Rows' /\ TypeOK'
    BY <1>5, TypesHold, Bounds
  <2>1. rows' = IF HasRow(x) THEN [rows EXCEPT ![x] = new] ELSE rows
    BY <1>5 DEF markGHADeploymentFailed
  <2>2. /\ rows' \in [Ids -> RowRecord] /\ \A d \in Ids : d # x => rows'[d] = rows[d]
        /\ HasRow(x) => rows'[x].st = "failed"
        /\ IF HasRow(x) THEN rows'[x].run = r ELSE rows'[x] = rows[x]
    <3>1. rows \in [Ids -> RowRecord] /\ new \in RowRecord /\ new.st = "failed" /\ new.run = r
      BY TypesHold DEF RowRecord
    <3> HIDE DEF new
    <3> QED
      BY <2>1, <3>1
  <2>3. Rows'
    BY <1>1, <1>2, <1>3, <2>2, RunClaimsKeeps
  <2> QED
    BY <1>1, <1>3, <2>2, <2>3 DEF TypeOK, RowRecord, RunRecord, history
<1> QED
  BY <1>4, <1>5

(* A run's deployment gets its job, or the run fails.                      *)
LEMMA RunEnqueuesKeeps ==
  ASSUME TypeOK, Rows, NEW r \in Runs, enqueueApplicationDeploy(r)
  PROVE  Rows' /\ TypeOK'
<1>1. /\ run[r].st = "written"
      /\ UNCHANGED <<kind, build, app, rows, container, life, remove, client, requests, history>>
  BY DEF enqueueApplicationDeploy, RunOnly, Fixed
<1> SUFFICES ASSUME NEW x \in Ids, x = run[r].d PROVE Rows' /\ TypeOK'
  BY <1>1, TypesHold, Bounds DEF Rows, Numbered
<1>2. rows[x].st # "none" /\ x \in 0..MaxRows
  BY <1>1, Bounds DEF Rows, Numbered
<1>3. \/ jobs[x] = "none" /\ SetJob(x, "queued") /\ RunStep(r, "waiting") /\ UNCHANGED faults
      \/ RunStep(r, "failing") /\ UNCHANGED jobs /\ faults' \in 0..MaxFaults
  BY Counted DEF enqueueApplicationDeploy, TypeOK
<1>4. /\ run' \in [Runs -> RunRecord] /\ run'[r].d = x
      /\ \A q \in Runs : q # r => run'[q] = run[q]
      /\ run'[r].st \in {"waiting", "failing"}
      /\ jobs' \in [0..MaxRows -> JobStates] /\ faults' \in 0..MaxFaults
      /\ \A d \in Ids : d # x => jobs'[d] = jobs[d]
      /\ \/ jobs'[x] = "queued" /\ jobs[x] = "none"
         \/ jobs'[x] = jobs[x] /\ run'[r].st = "failing"
  <2>1. CASE jobs[x] = "none" /\ SetJob(x, "queued") /\ RunStep(r, "waiting") /\ UNCHANGED faults
    <3>1. /\ jobs' \in [0..MaxRows -> JobStates] /\ jobs'[x] = "queued"
          /\ \A e \in 0..MaxRows : e # x => jobs'[e] = jobs[e]
      BY <1>2, <2>1, JobIsSet DEF JobStates
    <3>2. faults' \in 0..MaxFaults
      BY <2>1 DEF TypeOK
    <3> QED
      BY <2>1, <3>1, <3>2, RunIsSet, Bounds DEF RunStates
  <2>2. CASE RunStep(r, "failing") /\ UNCHANGED jobs /\ faults' \in 0..MaxFaults
    BY <2>2, RunIsSet, TypesHold DEF RunStates
  <2> QED
    BY <1>3, <2>1, <2>2
<1>5. TypeOK'
  BY <1>1, <1>4 DEF TypeOK, RunRecord, history
<1>6. Numbered'
  <2>1. \A q \in Runs : run'[q].d # 0 => rows[run'[q].d].st # "none"
    BY <1>2, <1>4 DEF Rows, Numbered
  <2>2. \A q \in Runs : run'[q].st = "written" => run'[q].d # 0
    BY <1>4 DEF Rows, Numbered
  <2>3. \A d \in Ids : rows[d].st = "none" => jobs'[d] = "none" /\ rows[d].run = NoRun
    BY <1>2, <1>4 DEF Rows, Numbered
  <2> QED
    BY <1>1, <2>1, <2>2, <2>3 DEF Rows, Numbered
<1>7. build # "server"
  BY <1>1 DEF Rows, EnqueuedOnce
<1>8. \A c \in Clients : client[c].op \notin Dispatching
  BY <1>7 DEF Rows, EnqueuedOnce, Dispatching
<1>9. EnqueuedOnce'
  BY <1>1, <1>7, <1>8 DEF EnqueuedOnce, Enqueuing, Dispatching
<1>10. OneRowPerRun'
  BY <1>1, <1>4 DEF Rows, OneRowPerRun
<1>11. JobsAreHonest' /\ SuccessIsEarned'
  BY <1>1, <1>4 DEF Rows, JobsAreHonest, SuccessIsEarned, history
<1>12. PendingIsNamed'
  <2> SUFFICES ASSUME NEW d \in Ids, d \notin crashed, d \notin stranded, app.live, rows[d].st \in InFlight,
                      rows[d].run # NoRun
               PROVE  \/ jobs'[d] \in Active
                      \/ \E q \in Runs : rows[d].run = q /\ run'[q].st \in Notifying
    BY <1>1, <1>7 DEF PendingIsNamed, Notifying, history
  <2>1. \/ jobs[d] \in Active
        \/ \E q \in Runs : rows[d].run = q /\ run[q].st \in Notifying
    BY <1>8 DEF Rows, PendingIsNamed, Notifying, Enqueuing, Dispatching
  <2>2. ASSUME jobs[d] \in Active PROVE jobs'[d] \in Active
    BY <1>4, <2>2 DEF Active, JobStates
  <2>3. ASSUME NEW q \in Runs, rows[d].run = q, run[q].st \in Notifying, q # r
        PROVE  run'[q].st \in Notifying
    BY <1>4, <2>3
  <2>4. ASSUME rows[d].run = r
        PROVE  jobs'[d] \in Active \/ run'[r].st \in Notifying
    <3>1. d = x
      BY <1>1, <2>4 DEF Rows, OneRowPerRun
    <3> QED
      BY <1>4, <3>1 DEF Active, JobStates, Notifying
  <2> QED
    BY <2>1, <2>2, <2>3, <2>4
<1> QED
  BY <1>5, <1>6, <1>9, <1>10, <1>11, <1>12 DEF Rows

-----------------------------------------------------------------------------
(* What most steps do to the workload *)

(* Nobody starts or stops deleting the workload.                           *)
Minds(c) ==
  /\ client'[c].op \in Deleting => client'[c].op = client[c].op /\ client'[c].prev = client[c].prev
  /\ client[c].op \in {"remove", "restore"} => client'[c].op = client[c].op

(* The workload keeps its status, and whoever owns it.                     *)
StillOwned ==
  /\ app' = app
  /\ \/ ~app.live
     \/ crashed' # {} \/ 0 \in stranded'
     \/ \A d \in 0..MaxRows : jobs[d] \in Owning => jobs'[d] \in Owning

(* A step of no deletion: a job that comes to deploy finds the workload    *)
(* alive, what changes the container is a job that deploys, and a status   *)
(* is written by a job that has one to write.                              *)
HostMoves ==
  /\ kind' = kind /\ remove' = remove /\ torn' = torn
  /\ restored' = restored /\ swallowed' = swallowed /\ app'.live = app.live
  /\ overlap => overlap'
  /\ \A x \in 0..RemoveJob : /\ x \in crashed => x \in crashed'
                             /\ x \in stranded => x \in stranded'
  /\ \A c \in Clients : Minds(c)
  /\ container = "absent" => \/ container' = "absent"
                             \/ \E d \in 0..MaxRows : jobs[d] \in Deploying
  /\ \A d \in 0..MaxRows :
       jobs'[d] \in Deploying => \/ jobs[d] \in Deploying
                                \/ (app.live /\ remove.st # "ran")
                                \/ overlap'
  /\ \/ StillOwned
     \/ /\ app'.status # "deleting"
        /\ app'.status = "building" => \E d \in 0..MaxRows : jobs'[d] \in Owning

(* A step of no deletion keeps what holds of the workload.                 *)
LEMMA HostMovesKeeps ==
  ASSUME TypeOK, Host, HostMoves
  PROVE  Host'
<1>5. \A x \in 0..RemoveJob : /\ x \in crashed => x \in crashed'
                              /\ x \in stranded => x \in stranded'
  BY DEF HostMoves
<1> USE DEF HostMoves, StillOwned
<1>0. /\ crashed' = {} => crashed = {}
      /\ RemoveJob \in crashed => RemoveJob \in crashed'
      /\ RemoveJob \in stranded => RemoveJob \in stranded'
      /\ 0 \in stranded => 0 \in stranded'
  <2>1. crashed \subseteq 0..RemoveJob
    BY DEF TypeOK
  <2>2. 0 \in 0..RemoveJob /\ RemoveJob \in 0..RemoveJob
    BY Bounds
  <2> HIDE DEF HostMoves, StillOwned
  <2>4. ASSUME crashed' = {} PROVE crashed = {}
    <3>1. \A x \in crashed : x \in crashed'
      BY <1>5, <2>1
    <3> QED
      BY <2>4, <3>1
  <2> QED
    BY <1>5, <2>2, <2>4
<1>1. BuildingIsOwned'
  BY <1>0 DEF Host, BuildingIsOwned, Owning
<1>2. DeletionsRemember'
  BY DEF Host, DeletionsRemember, Minds, Deleting
<1>3. DeletingIsOwned'
  BY <1>0 DEF Host, DeletingIsOwned, Minds
<1>4. TornIsFinal'
  <2>1. \A c \in Clients : client'[c].op = "remove" => client[c].op = "remove"
    BY DEF Minds, Deleting
  <2>2. ASSUME ~app.live \/ remove.st = "ran", torn, ~overlap'
        PROVE  container' = "absent" /\ \A d \in 0..MaxRows : jobs'[d] \notin Deploying
    <3>1. container = "absent" /\ \A d \in 0..MaxRows : jobs[d] \notin Deploying
      BY <2>2 DEF Host, TornIsFinal
    <3> QED
      BY <2>2, <3>1
  <2> QED
    BY <2>1, <2>2 DEF Host, TornIsFinal
<1> QED
  BY <1>1, <1>2, <1>3, <1>4 DEF Host

-----------------------------------------------------------------------------
(* The jobs of a deployment *)

Held == TypeOK /\ Rows /\ Host

(* The job of a deployment, or job 0, which has none, goes on.             *)
LEMMA JobMovesRows ==
  ASSUME TypeOK, Rows, NEW d \in 0..MaxRows, d \in Ids => JobMoves(d),
         d = 0 => RowsSame
  PROVE  Rows'
<1>1. CASE d = 0
  BY <1>1, RowsKept
<1>2. CASE d \in Ids
  BY <1>2, JobMovesKeeps
<1> QED
  BY <1>1, <1>2, Bounds

(* Handle loads the deployment and the workload, or fails.                 *)
LEMMA StartJobKeeps ==
  ASSUME Held, NEW d \in 0..MaxRows, StartJob(d)
  PROVE  Held'
<1>1. /\ jobs[d] = "queued" /\ faults' \in 0..MaxFaults
      /\ UNCHANGED <<kind, build, app, rows, container, life, remove, client, run, requests,
                     earned, crashed, stranded, restored, swallowed, torn>>
  BY Counted DEF StartJob, StartOnly, Fixed, Held, TypeOK
<1>2. PICK st \in {"loaded", "bad", "failing"} :
        /\ SetJob(d, st)
        /\ st = "loaded" => app.live /\ overlap' = (overlap \/ remove.st = "ran")
        /\ st # "loaded" => overlap' = overlap
  BY DEF StartJob
<1>3. /\ jobs' \in [0..MaxRows -> JobStates] /\ jobs'[d] = st
      /\ \A e \in 0..MaxRows : e # d => jobs'[e] = jobs[e]
  BY <1>2, JobIsSet DEF JobStates, Held
<1>4. overlap' \in BOOLEAN
  BY <1>2 DEF Held, TypeOK
<1>5. TypeOK'
  BY <1>1, <1>3, <1>4 DEF Held, TypeOK
<1>6. Onward /\ \A c \in Clients : Stays(c) /\ Minds(c)
  BY <1>1 DEF Onward, Stays, Minds
<1>7. d \in Ids => JobMoves(d)
  BY <1>1, <1>3, <1>6, Bounds
     DEF JobMoves, Held, Rows, SuccessIsEarned, Active, JobStates
<1>8. d = 0 => RowsSame
  BY <1>1, <1>3, <1>6, Bounds DEF RowsSame
<1>9. Rows'
  BY <1>7, <1>8, JobMovesRows DEF Held
<1>10. HostMoves
  BY <1>1, <1>2, <1>3, <1>6 DEF HostMoves, StillOwned, Deploying, Owning, Held, TypeOK
<1> QED
  BY <1>5, <1>9, <1>10, HostMovesKeeps DEF Held

(* Steps of a job that write the row, and no status of the workload.       *)
LEMMA JobWritesRowKeeps ==
  ASSUME Held, NEW d \in 0..MaxRows, FailJob(d) \/ MarkDeploying(d) \/ RecordRow(d)
  PROVE  Held'
<1>1. UNCHANGED <<kind, build, app, container, life, remove, client, run, requests, earned,
                  crashed, restored, swallowed, overlap, torn>>
  BY DEF FailJob, MarkDeploying, RecordRow, JobOnly, Fixed
<1>2. PICK st \in {"failed", "deploying", "success"}, to \in {"archived", "marked", "okrow", "badrow"} :
        /\ SetJob(d, to)
        /\ \/ SetRow(d, st) /\ Written
           \/ UNCHANGED rows /\ Lost(IF to = "marked" THEN {} ELSE {d} \cap Ids)
        /\ \/ jobs[d] = "failing" /\ st = "failed" /\ to = "archived"
           \/ jobs[d] = "loaded" /\ st = "deploying" /\ to = "marked"
           \/ jobs[d] = "ok" /\ st = "success" /\ to = "okrow"
           \/ jobs[d] = "bad" /\ st = "failed" /\ to = "badrow"
  BY DEF FailJob, MarkDeploying, RecordRow
<1>3. /\ jobs' \in [0..MaxRows -> JobStates] /\ jobs'[d] = to
      /\ \A e \in 0..MaxRows : e # d => jobs'[e] = jobs[e]
  BY <1>2, JobIsSet DEF JobStates, Held
<1>4. /\ rows' \in [Ids -> RowRecord]
      /\ \A e \in Ids : e # d => rows'[e] = rows[e]
      /\ \A e \in Ids : rows'[e].run = rows[e].run
      /\ \/ HasRow(d) /\ rows'[d].st = st
         \/ ~HasRow(d) /\ rows' = rows
         \/ rows' = rows /\ (to = "marked" \/ (d \in Ids => d \in stranded'))
      /\ faults' \in 0..MaxFaults
      /\ stranded' \subseteq 0..RemoveJob /\ stranded \subseteq stranded'
  <2>1. CASE SetRow(d, st) /\ Written
    <3>1. faults' \in 0..MaxFaults /\ stranded' = stranded /\ stranded \subseteq 0..RemoveJob
      BY <2>1 DEF Written, Held, TypeOK
    <3> QED
      BY <2>1, <3>1, RowIsSet DEF RowStates, Held
  <2>2. CASE UNCHANGED rows /\ Lost(IF to = "marked" THEN {} ELSE {d} \cap Ids)
    <3>1. /\ faults' \in 0..MaxFaults
          /\ stranded' = stranded \cup (IF to = "marked" THEN {} ELSE {d} \cap Ids)
      BY <2>2, Counted DEF Lost, Held
    <3>2. stranded \subseteq 0..RemoveJob
      BY DEF Held, TypeOK
    <3> QED
      BY <2>2, <3>1, <3>2, TypesHold, Bounds DEF Held
  <2> QED
    BY <1>2, <2>1, <2>2
<1>5. TypeOK'
  BY <1>1, <1>3, <1>4 DEF Held, TypeOK, RowRecord
<1>6. Onward /\ \A c \in Clients : Stays(c) /\ Minds(c)
  BY <1>1, <1>4 DEF Onward, Stays, Minds
<1>7. ASSUME d \in Ids PROVE JobMoves(d)
  <2>1. HasRow(d) \/ rows[d].st \in {"none", "gone"}
    BY <1>7, Bounds DEF HasRow
  <2>2. jobs[d] = "ok" => d \in earned
    BY <1>7 DEF Held, Rows, JobsAreHonest
  <2>3. rows[d].st = "success" => d \in earned
    BY <1>7 DEF Held, Rows, SuccessIsEarned
  <2>4. rows'[d] = rows[d] \/ (rows[d].st # "none" /\ rows'[d].st # "none")
    BY <1>2, <1>4, <2>1 DEF HasRow
  <2>5. rows'[d].st = "success" => d \in earned
    BY <1>2, <1>4, <2>1, <2>2, <2>3
  <2>6. to \in {"okrow", "badrow", "archived"} => rows'[d].st \notin InFlight \/ d \in stranded'
    BY <1>2, <1>4, <1>7, <2>1 DEF InFlight
  <2>7. to = "okrow" => d \in earned
    BY <1>2, <2>2
  <2>8. to \in Active \/ to = "archived"
    BY DEF Active, JobStates
  <2>9. jobs[d] # "none" /\ earned' = earned
    BY <1>1, <1>2
  <2> QED
    BY <1>1, <1>3, <1>4, <1>6, <1>7, <2>4, <2>5, <2>6, <2>7, <2>8, <2>9, Bounds DEF JobMoves
<1>8. ASSUME d = 0 PROVE RowsSame
  <2>1. \A e \in Ids : rows'[e] = rows[e]
    BY <1>4, <1>8, Bounds
  <2> QED
    BY <1>1, <1>3, <1>6, <1>8, <2>1, Bounds DEF RowsSame
<1>9. Rows'
  BY <1>7, <1>8, JobMovesRows DEF Held
<1>10. HostMoves
  <2>1. \A e \in 0..MaxRows : jobs'[e] \in Deploying => jobs[e] \in Deploying
    BY <1>2, <1>3 DEF Deploying
  <2>2. \A e \in 0..MaxRows : jobs[e] \in Owning => jobs'[e] \in Owning
    BY <1>2, <1>3 DEF Owning
  <2> QED
    BY <1>1, <1>4, <1>6, <2>1, <2>2 DEF HostMoves, StillOwned
<1> QED
  BY <1>5, <1>9, <1>10, HostMovesKeeps DEF Held

(* Steps of a job that write the workload, or run the script, and leave    *)
(* the rows alone.                                                         *)
JobWorks(d) == MarkBuilding(d) \/ RunScript(d) \/ RecordApp(d)

(* A job that works keeps the invariant.                                   *)
LEMMA JobWorksKeeps ==
  ASSUME Held, NEW d \in 0..MaxRows, JobWorks(d)
  PROVE  Held'
<1>1. /\ UNCHANGED <<kind, build, rows, life, remove, client, run, requests,
                     crashed, restored, swallowed, overlap, torn>>
      /\ faults' \in 0..MaxFaults
      /\ stranded' \subseteq 0..RemoveJob /\ stranded \subseteq stranded'
  BY Counted, Bounds DEF JobWorks, MarkBuilding, RunScript, RecordApp, JobOnly, ScriptOnly, Fixed,
                         Written, Lost, Held, TypeOK
<1>2. PICK to \in {"running", "ok", "bad", "none"} :
        /\ SetJob(d, to)
        /\ \/ /\ jobs[d] = "marked" /\ to = "running" 
              /\ SetStatus("building") \/ UNCHANGED app
              /\ UNCHANGED <<container, earned>>
           \/ /\ jobs[d] = "running" /\ to \in {"ok", "bad"} /\ UNCHANGED app
              /\ container' \in {container, "absent", "up"}
              /\ earned' = IF to = "ok" THEN earned \cup ({d} \cap Ids) ELSE earned
           \/ /\ jobs[d] \in {"okrow", "badrow"} /\ to = "none"
              /\ UNCHANGED <<container, earned>>
              /\ \/ SetStatus("failed")
                 \/ app' = IF app.live THEN [app EXCEPT !.status = "running", !.deployed = TRUE] ELSE app
                 \/ UNCHANGED app /\ 0 \in stranded'
  <2>1. CASE MarkBuilding(d)
    BY <2>1 DEF MarkBuilding, JobOnly
  <2>2. CASE RunScript(d)
    BY <2>2 DEF RunScript, ScriptOnly
  <2>3. CASE RecordApp(d)
    <3>1. /\ jobs[d] \in {"okrow", "badrow"} /\ SetJob(d, "none") /\ UNCHANGED <<container, earned>>
          /\ Recorded(jobs[d]) \/ (UNCHANGED app /\ 0 \in stranded')
      BY <2>3 DEF RecordApp, JobOnly, Lost
    <3>2. Recorded(jobs[d]) =>
            \/ SetStatus("failed")
            \/ app' = IF app.live THEN [app EXCEPT !.status = "running", !.deployed = TRUE] ELSE app
      BY <3>1 DEF Recorded, SetStatus
    <3> QED
      BY <3>1, <3>2
  <2> QED
    BY <2>1, <2>2, <2>3 DEF JobWorks
<1>3. /\ jobs' \in [0..MaxRows -> JobStates] /\ jobs'[d] = to
      /\ \A e \in 0..MaxRows : e # d => jobs'[e] = jobs[e]
  BY <1>2, JobIsSet DEF JobStates, Held
<1>4. /\ app' \in AppRecord /\ app'.live = app.live
      /\ ~app.live => app' = app
      /\ app.live => \/ app' = app /\ (jobs[d] \in {"marked", "running"} \/ 0 \in stranded')
                     \/ app'.status = "building" /\ to = "running"
                     \/ app'.status \in {"failed", "running"}
  <2>1. app \in AppRecord
    BY TypesHold DEF Held
  <2>2. CASE SetStatus("building") /\ to = "running"
    BY <2>2, StatusIsSet DEF Statuses, Held
  <2>3. CASE SetStatus("failed")
    BY <2>3, StatusIsSet DEF Statuses, Held
  <2>4. CASE app' = IF app.live THEN [app EXCEPT !.status = "running", !.deployed = TRUE] ELSE app
    BY <2>1, <2>4 DEF AppRecord, Statuses
  <2>5. CASE UNCHANGED app /\ (jobs[d] \in {"marked", "running"} \/ 0 \in stranded')
    BY <2>1, <2>5
  <2> QED
    BY <1>2, <2>2, <2>3, <2>4, <2>5
<1>5. /\ earned' \subseteq Ids /\ \A e \in Ids : e \in earned => e \in earned'
      /\ to = "ok" => (d \in Ids => d \in earned')
  BY <1>2 DEF Held, TypeOK
<1>6. container' \in {"absent", "up", "stopped"}
  BY <1>2 DEF Held, TypeOK
<1>7. TypeOK'
  BY <1>1, <1>3, <1>4, <1>5, <1>6 DEF Held, TypeOK, AppRecord
<1>8. Onward /\ \A c \in Clients : Stays(c) /\ Minds(c)
  BY <1>1, <1>4, <1>5 DEF Onward, Stays, Minds
<1>9. ASSUME d \in Ids PROVE JobMoves(d)
  <2>1. rows[d].st = "success" => d \in earned
    BY <1>9 DEF Held, Rows, SuccessIsEarned
  <2>2. to = "none" => rows[d].st \notin InFlight \/ d \in stranded
    BY <1>2, <1>9 DEF Held, Rows, JobsAreHonest
  <2>3. to # "none" => to \in Active
    BY DEF Active, JobStates
  <2>4. jobs[d] # "none"
    BY <1>2
  <2> QED
    BY <1>1, <1>3, <1>5, <1>8, <1>9, <2>1, <2>2, <2>3, <2>4, Bounds DEF JobMoves
<1>10. d = 0 => RowsSame
  BY <1>1, <1>3, <1>8, Bounds DEF RowsSame
<1>11. Rows'
  BY <1>9, <1>10, JobMovesRows DEF Held
<1>12. HostMoves
  <2>1. container = "absent" => \/ container' = "absent"
                                \/ \E e \in 0..MaxRows : jobs[e] \in Deploying
    BY <1>2 DEF Deploying
  <2>2. \A e \in 0..MaxRows : jobs'[e] \in Deploying => jobs[e] \in Deploying
    BY <1>2, <1>3 DEF Deploying
  <2>3. \/ StillOwned
        \/ /\ app'.status # "deleting"
           /\ app'.status = "building" => \E e \in 0..MaxRows : jobs'[e] \in Owning
    <3>1. CASE ~app.live
      BY <1>4, <3>1 DEF StillOwned
    <3>2. CASE app' = app /\ jobs[d] \in {"marked", "running"}
      <4>1. to \in {"running", "ok", "bad"}
        BY <1>2, <3>2
      <4> QED
        BY <1>3, <3>2, <4>1 DEF StillOwned, Owning
    <3>5. CASE app' = app /\ 0 \in stranded'
      BY <3>5 DEF StillOwned
    <3>3. CASE app'.status = "building" /\ to = "running"
      BY <1>3, <3>3 DEF Owning
    <3>4. CASE app'.status \in {"failed", "running"}
      BY <3>4
    <3> QED
      BY <1>4, <3>1, <3>2, <3>3, <3>4, <3>5 DEF Held, TypeOK
  <2> QED
    BY <1>1, <1>4, <1>8, <2>1, <2>2, <2>3 DEF HostMoves
<1> QED
  BY <1>7, <1>11, <1>12, HostMovesKeeps DEF Held

(* A job that dies with its worker leaves everything as it was, and is     *)
(* remembered.                                                             *)
LEMMA WorkerDiesKeeps ==
  ASSUME Held, NEW d \in 0..MaxRows, WorkerDies(d)
  PROVE  Held'
<1>1. UNCHANGED <<kind, build, app, rows, life, remove, client, run, requests, earned,
                  stranded, restored, swallowed, overlap, torn>>
  BY DEF WorkerDies, Fixed
<1>0. PICK to \in {"archived", "queued"} : SetJob(d, to)
  BY DEF WorkerDies
<1>2. /\ jobs[d] \in Active \ {"queued"}
      /\ crashed' = crashed \cup {d} /\ faults' \in 0..MaxFaults
      /\ container' = container \/ (jobs[d] = "running" /\ container' \in {"absent", "up"})
  BY Counted DEF WorkerDies, Held
<1>3. /\ jobs' \in [0..MaxRows -> JobStates] /\ jobs'[d] = to
      /\ \A e \in 0..MaxRows : e # d => jobs'[e] = jobs[e]
  BY <1>0, JobIsSet DEF JobStates, Held
<1>4. crashed' \subseteq 0..RemoveJob /\ d \in crashed'
  BY <1>2, Bounds DEF Held, TypeOK
<1>5. TypeOK'
  BY <1>1, <1>2, <1>3, <1>4 DEF Held, TypeOK
<1>6. Onward /\ \A c \in Clients : Stays(c) /\ Minds(c)
  BY <1>1, <1>2 DEF Onward, Stays, Minds
<1>7. ASSUME d \in Ids PROVE JobMoves(d)
  <2>1. rows[d].st = "success" => d \in earned
    BY <1>7 DEF Held, Rows, SuccessIsEarned
  <2>2. jobs[d] # "none"
    BY <1>2 DEF Active
  <2> QED
    BY <1>1, <1>3, <1>4, <1>6, <1>7, <2>1, <2>2, Bounds DEF JobMoves
<1>8. d = 0 => RowsSame
  BY <1>1, <1>3, <1>6, Bounds DEF RowsSame
<1>9. Rows'
  BY <1>7, <1>8, JobMovesRows DEF Held
<1>10. HostMoves
  <2>1. \A e \in 0..MaxRows : jobs'[e] \in Deploying => jobs[e] \in Deploying
    BY <1>3 DEF Deploying
  <2>2. container = "absent" => \/ container' = "absent"
                                \/ \E e \in 0..MaxRows : jobs[e] \in Deploying
    BY <1>2 DEF Deploying
  <2> QED
    BY <1>1, <1>2, <1>4, <1>6, <2>1, <2>2 DEF HostMoves, StillOwned
<1> QED
  BY <1>5, <1>9, <1>10, HostMovesKeeps DEF Held

-----------------------------------------------------------------------------
(* Stop and start, and the requests that change no row *)

(* Stop and start change a container that is there, and then the status.   *)
LEMMA LifecycleKeeps ==
  ASSUME Held, NEW a \in Actions, RunLifecycle(a) \/ RecordLifecycle(a)
  PROVE  Held'
<1>1. /\ UNCHANGED <<kind, build, rows, jobs, remove, client, run, requests, history>>
      /\ faults' \in 0..MaxFaults
  BY Counted DEF RunLifecycle, RecordLifecycle, Fixed, Held, TypeOK
<1>2. /\ life' \in [Actions -> {"none", "queued", "ok", "archived"}]
      /\ container' \in {"absent", "up", "stopped"}
      /\ container = "absent" => container' = "absent"
  BY DEF RunLifecycle, RecordLifecycle, Held, TypeOK
<1>3. app' = app \/ (app' \in AppRecord /\ app'.live = app.live /\ app'.status \in {"stopped", "running"})
  <2>1. CASE RunLifecycle(a)
    BY <2>1 DEF RunLifecycle
  <2>2. CASE RecordLifecycle(a)
    <3>1. app' = app \/ \E st \in {"stopped", "running"} : SetStatus(st)
      BY <2>2 DEF RecordLifecycle
    <3> QED
      BY <3>1, StatusIsSet, TypesHold DEF Held, Statuses
  <2> QED
    BY <2>1, <2>2
<1>4. TypeOK'
  BY <1>1, <1>2, <1>3 DEF Held, TypeOK, AppRecord, history
<1>5. Onward /\ \A c \in Clients : Stays(c) /\ Minds(c)
  BY <1>1, <1>3 DEF Onward, Stays, Minds, history
<1>6. Rows'
  BY <1>1, <1>5, RowsKept DEF RowsSame, Held
<1>7. HostMoves
  BY <1>1, <1>2, <1>3, <1>5 DEF HostMoves, StillOwned, history
<1> QED
  BY <1>4, <1>6, <1>7, HostMovesKeeps DEF Held

(* A step that at most queues a job leaves the workload as it is.          *)
LEMMA HostIdles ==
  ASSUME TypeOK, Host, UNCHANGED <<kind, app, container, remove, restored, swallowed, overlap, torn>>,
         \A x \in 0..RemoveJob : x \in crashed => x \in crashed',
         \A x \in 0..RemoveJob : x \in stranded => x \in stranded',
         \A c \in Clients : Minds(c),
         \A d \in 0..MaxRows : jobs'[d] = jobs[d] \/ (jobs[d] = "none" /\ jobs'[d] = "queued")
  PROVE  Host'
<1>1. \A d \in 0..MaxRows : jobs'[d] = jobs[d] \/ (jobs[d] = "none" /\ jobs'[d] = "queued")
  OBVIOUS
<1>2. \A d \in 0..MaxRows : jobs'[d] \in Deploying => jobs[d] \in Deploying
  BY <1>1 DEF Deploying
<1>3. \A d \in 0..MaxRows : jobs[d] \in Owning => jobs'[d] \in Owning
  BY <1>1 DEF Owning
<1>4. /\ app' = app /\ app'.live = app.live /\ kind' = kind /\ container' = container
      /\ remove' = remove /\ restored' = restored /\ swallowed' = swallowed /\ torn' = torn
      /\ overlap => overlap'
  OBVIOUS
<1>5. StillOwned
  BY <1>3, <1>4 DEF StillOwned
<1>6. HostMoves
  BY <1>2, <1>4, <1>5 DEF HostMoves
<1> QED
  BY <1>6, HostMovesKeeps

(* A request other than a deletion goes on, or is answered.                *)
LEMMA MindsItself ==
  ASSUME TypeOK, NEW c \in Clients, client[c].op \notin Deleting,
         NEW op \in Ops, op \notin Deleting,
         \A e \in Clients : e # c => client'[e] = client[e],
         client'[c].op = op
  PROVE  \A e \in Clients : Minds(e)
BY DEF Minds, Deleting

(* A request that enqueues no deployment goes on to anything else.         *)
LEMMA StaysItself ==
  ASSUME TypeOK, NEW c \in Clients, client[c].op \notin Dispatching,
         client'[c].op \notin Dispatching, client'[c].op # "placeholder" \/ build # "server",
         \A e \in Clients : e # c => client'[e] = client[e]
  PROVE  \A e \in Clients : Stays(e)
BY DEF Stays, Dispatching

(* A request begins: nothing but its own state changes.                    *)
LEMMA BeginsKeeps ==
  ASSUME Held, NEW c \in Clients, NEW op \in {"supersede", "reload", "stop", "start"},
         Idle(c), Then(c, op), Request,
         UNCHANGED <<kind, build, app, rows, container, jobs, life, remove, run, faults, history>>
  PROVE  Held'
<1>1. /\ client' \in [Clients -> ClientRecord] /\ client'[c].op = op
      /\ \A e \in Clients : e # c => client'[e] = client[e]
      /\ op \in Ops /\ op \notin Deleting
  BY ClientGoesOn DEF Held, Ops, Deleting
<1>2. client[c].op = "idle"
  BY DEF Idle
<1>3. requests' \in 0..MaxRequests
  BY Counted DEF Held
<1>4. TypeOK'
  BY <1>1, <1>3 DEF Held, TypeOK, ClientRecord, Ops, history
<1>5. \A e \in Clients : Minds(e) /\ Stays(e)
  BY <1>1, <1>2, MindsItself, StaysItself DEF Held, Deleting, Dispatching
<1>6. Rows'
  BY <1>5, RowsKept DEF RowsSame, Onward, Held, history
<1>7. Host'
  BY <1>5, HostIdles DEF Held, history
<1> QED
  BY <1>4, <1>6, <1>7 DEF Held

(* The requests that begin.                                                *)
LEMMA RequestKeeps ==
  ASSUME Held, NEW c \in Clients,
         \/ Deploy(c) \/ recreateApplication(c) \/ Reload(c)
         \/ \E a \in Actions : Lifecycle(c, a)
  PROVE  Held'
<1>1. CASE Deploy(c)
  BY <1>1, BeginsKeeps DEF Deploy, Fixed
<1>2. CASE recreateApplication(c)
  BY <1>2, BeginsKeeps DEF recreateApplication, Fixed
<1>3. CASE Reload(c)
  BY <1>3, BeginsKeeps DEF Reload, Fixed
<1>4. ASSUME NEW a \in Actions, Lifecycle(c, a) PROVE Held'
  <2>1. a \in {"supersede", "reload", "stop", "start"}
    BY DEF Actions
  <2> QED
    BY <1>4, <2>1, BeginsKeeps DEF Lifecycle, Fixed
<1> QED
  BY <1>1, <1>2, <1>3, <1>4

(* A restart, a stop or a start is enqueued.                               *)
LEMMA DispatchActionKeeps ==
  ASSUME Held, NEW c \in Clients, DispatchAction(c)
  PROVE  Held'
<1>1. /\ client[c].op \in {"reload", "stop", "start"} /\ Answer(c)
      /\ UNCHANGED <<kind, build, app, rows, container, remove, run, requests, faults, history>>
  BY DEF DispatchAction, Fixed
<1>2. /\ client' \in [Clients -> ClientRecord] /\ client'[c].op = "idle"
      /\ \A e \in Clients : e # c => client'[e] = client[e]
  BY <1>1, ClientGoesOn DEF Held
<1>3. \/ jobs' = [jobs EXCEPT ![0] = IF @ = "none" THEN "queued" ELSE @] /\ life' = life
      \/ /\ client[c].op \in Actions /\ jobs' = jobs
         /\ life' = [life EXCEPT ![client[c].op] = IF @ = "none" THEN "queued" ELSE @]
  BY <1>1 DEF DispatchAction, Actions
<1>4. /\ jobs' \in [0..MaxRows -> JobStates]
      /\ \A d \in 0..MaxRows : \/ jobs'[d] = jobs[d]
                              \/ (d = 0 /\ jobs[d] = "none" /\ jobs'[d] = "queued")
  <2>1. jobs \in [0..MaxRows -> JobStates] /\ "queued" \in JobStates
    BY DEF Held, TypeOK, JobStates
  <2> QED
    BY <1>3, <2>1, Bounds
<1>5. life' \in [Actions -> {"none", "queued", "ok", "archived"}]
  BY <1>3 DEF Held, TypeOK
<1>6. TypeOK'
  BY <1>1, <1>2, <1>4, <1>5 DEF Held, TypeOK, ClientRecord, Ops, history
<1>7. \A e \in Clients : Minds(e) /\ Stays(e)
  BY <1>1, <1>2, MindsItself, StaysItself DEF Held, Deleting, Dispatching, Ops
<1>8. Rows'
  BY <1>1, <1>4, <1>7, RowsKept, Bounds DEF RowsSame, Onward, Held, history
<1>9. Host'
  BY <1>1, <1>4, <1>7, HostIdles DEF Held, history
<1> QED
  BY <1>6, <1>8, <1>9 DEF Held

(* A workflow is dispatched, or the request ends with its error.           *)
LEMMA DispatchWorkflowKeeps ==
  ASSUME Held, NEW c \in Clients, DispatchWorkflow(c)
  PROVE  Held'
<1>1. /\ client[c].op = "create" /\ build = "github_actions"
      /\ UNCHANGED <<kind, build, app, rows, container, jobs, life, remove, requests, faults, history>>
  BY DEF DispatchWorkflow, Fixed
<1>2. Onward
  BY <1>1 DEF Onward, history
<1>3. CASE Answer(c) /\ UNCHANGED run
  <2>1. /\ client' \in [Clients -> ClientRecord] /\ client'[c].op = "idle"
        /\ \A e \in Clients : e # c => client'[e] = client[e]
    BY <1>3, ClientGoesOn DEF Held
  <2>2. TypeOK'
    BY <1>1, <1>3, <2>1 DEF Held, TypeOK, ClientRecord, Ops, history
  <2>3. \A e \in Clients : Minds(e) /\ Stays(e)
    BY <1>1, <2>1, MindsItself, StaysItself DEF Held, Deleting, Dispatching, Ops
  <2>4. Rows'
    BY <1>1, <1>2, <1>3, <2>3, RowsKept DEF RowsSame, Held
  <2>5. Host'
    BY <1>1, <2>3, HostIdles DEF Held, history
  <2> QED
    BY <2>2, <2>4, <2>5 DEF Held
<1>4. ASSUME NEW r \in Runs, run[r].st = "none", run' = [run EXCEPT ![r].st = "queued"],
             Then(c, "placeholder")
      PROVE  Held'
  <2>1. /\ client' \in [Clients -> ClientRecord] /\ client'[c].op = "placeholder"
        /\ \A e \in Clients : e # c => client'[e] = client[e]
    BY <1>4, ClientGoesOn DEF Held, Ops
  <2>2. /\ run' \in [Runs -> RunRecord] /\ run'[r].st = "queued" /\ run'[r].d = run[r].d
        /\ \A q \in Runs : q # r => run'[q] = run[q]
    BY <1>4, RunIsSet DEF Held, RunStep, RunStates
  <2>3. TypeOK'
    BY <1>1, <2>1, <2>2 DEF Held, TypeOK, ClientRecord, Ops, RunRecord, history
  <2>4. \A e \in Clients : Minds(e) /\ Stays(e)
    BY <1>1, <2>1, MindsItself, StaysItself DEF Held, Deleting, Dispatching, Ops
  <2>5. RunMoves(r)
    BY <1>1, <1>2, <1>4, <2>2, <2>4 DEF RunMoves, Notifying
  <2>6. Rows'
    BY <2>5, RunMovesKeeps DEF Held
  <2>7. Host'
    BY <1>1, <2>4, HostIdles DEF Held, history
  <2> QED
    BY <2>3, <2>6, <2>7 DEF Held
<1> QED
  BY <1>3, <1>4 DEF DispatchWorkflow

(* The steps of a deployment request, and the deletion of a row.           *)
LEMMA DeployRequestKeeps ==
  ASSUME Held, NEW c \in Clients,
         DeploySupersedes(c) \/ DeployCreates(c) \/ CreatePlaceholder(c) \/ DeployEnqueues(c)
  PROVE  Held'
<1>1. Rows' /\ TypeOK'
  BY SupersedesKeeps, CreatesKeeps, EnqueuesKeeps DEF Held
<1>2. /\ client[c].op \notin Deleting
      /\ UNCHANGED <<kind, app, container, remove, history>>
      /\ \/ \E op \in {"create", "giveup"} : Then(c, op)
         \/ Answer(c)
         \/ client' = [client EXCEPT ![c].op = "enqueue", ![c].d = NextId]
  BY DEF DeploySupersedes, DeployCreates, CreatePlaceholder, DeployEnqueues, Fixed, Deleting
<1>3. \A e \in Clients : Minds(e)
  <2>1. CASE (\E op \in {"create", "giveup"} : Then(c, op)) \/ Answer(c)
    <3>1. PICK op \in {"create", "giveup", "idle"} :
            /\ client'[c].op = op
            /\ \A e \in Clients : e # c => client'[e] = client[e]
      BY <2>1, ClientGoesOn DEF Held, Ops
    <3> QED
      BY <1>2, <3>1, MindsItself DEF Held, Ops, Deleting
  <2>2. CASE client' = [client EXCEPT ![c].op = "enqueue", ![c].d = NextId]
    <3>1. /\ client'[c].op = "enqueue"
          /\ \A e \in Clients : e # c => client'[e] = client[e]
      BY <2>2, TypesHold DEF Held, ClientRecord
    <3> QED
      BY <1>2, <3>1, MindsItself DEF Held, Ops, Deleting
  <2> QED
    BY <1>2, <2>1, <2>2
<1>4. \A d \in 0..MaxRows : jobs'[d] = jobs[d] \/ (jobs[d] = "none" /\ jobs'[d] = "queued")
  <2>1. CASE jobs' = jobs
    BY <2>1
  <2>2. CASE jobs' # jobs
    <3>1. jobs' = [jobs EXCEPT ![client[c].d] = IF @ = "none" THEN "queued" ELSE @]
      BY <2>2 DEF DeploySupersedes, DeployCreates, CreatePlaceholder, DeployEnqueues
    <3>2. jobs \in [0..MaxRows -> JobStates] /\ client[c].d \in 0..MaxRows
      BY TypesHold DEF Held
    <3> QED
      BY <3>1, <3>2
  <2> QED
    BY <2>1, <2>2
<1>5. Host'
  BY <1>2, <1>3, <1>4, HostIdles DEF Held, history
<1> QED
  BY <1>1, <1>5 DEF Held

(* A request gives a deployment up, or stops before it deleted anything.   *)
LEMMA RequestEndsKeeps ==
  ASSUME Held, NEW c \in Clients,
         \/ DeployGivesUp(c)
         \/ ClientStops(c) /\ client[c].op \notin {"remove", "restore"}
  PROVE  Held'
<1>1. /\ client[c].op \notin {"remove", "restore"} /\ Answer(c)
      /\ UNCHANGED <<kind, build, app, container, jobs, life, remove, run, requests, earned,
                     crashed, restored, swallowed, overlap, torn>>
  BY DEF DeployGivesUp, GiveUpOnly, ClientStops, Fixed
<1>2. /\ client' \in [Clients -> ClientRecord] /\ client'[c].op = "idle"
      /\ \A e \in Clients : e # c => client'[e] = client[e]
  BY <1>1, ClientGoesOn DEF Held
<1>3. \A e \in Clients : Minds(e)
  BY <1>1, <1>2 DEF Minds, Deleting
<1>4. stranded \subseteq stranded'
  BY DEF DeployGivesUp, ClientStops, Written, Lost
<1>5. Rows' /\ TypeOK'
  <2>1. CASE client[c].op \in Dispatching
    BY <2>1, GivesUpKeeps DEF Held
  <2>2. CASE client[c].op \notin Dispatching
    <3>1. UNCHANGED rows /\ Lost({})
      BY <1>1, <2>2 DEF DeployGivesUp, ClientStops, Dispatching
    <3>2. faults' \in 0..MaxFaults /\ stranded' = stranded
      BY <3>1, Counted DEF Lost, Held
    <3>3. TypeOK'
      BY <1>1, <1>2, <3>1, <3>2 DEF Held, TypeOK, ClientRecord, Ops
    <3>4. \A e \in Clients : Stays(e)
      BY <1>2, <2>2, StaysItself DEF Held, Dispatching
    <3>5. RowsSame
      BY <1>1, <3>1, <3>2, <3>4 DEF RowsSame, Onward
    <3> QED
      BY <3>3, <3>5, RowsKept DEF Held
  <2> QED
    BY <2>1, <2>2
<1>6. Host'
  BY <1>1, <1>3, <1>4, HostIdles DEF Held
<1> QED
  BY <1>5, <1>6 DEF Held

(* A deployment's row is deleted.                                          *)
LEMMA DeleteDeploymentKeeps ==
  ASSUME Held, NEW x \in Ids, DeleteDeployment(x)
  PROVE  Held'
<1>1. Rows' /\ TypeOK'
  BY DeletionKeeps DEF Held
<1>2. UNCHANGED <<kind, app, container, work, history>>
  BY DEF DeleteDeployment, Fixed
<1>3. \A e \in Clients : Minds(e)
  BY <1>2 DEF Minds, work
<1>4. Host'
  BY <1>2, <1>3, HostIdles DEF Held, work, history
<1> QED
  BY <1>1, <1>4 DEF Held

-----------------------------------------------------------------------------
(* GitHub Actions *)

(* A run that goes on changes no row; it looks one up at most.             *)
LEMMA RunGoesOn ==
  ASSUME Held, NEW r \in Runs, RunMoves(r), run' \in [Runs -> RunRecord],
         requests' \in 0..MaxRequests, faults' \in 0..MaxFaults,
         UNCHANGED <<kind, build, app, rows, container, jobs, life, remove, client,
                     earned, restored, swallowed, overlap, torn>>,
         crashed' = crashed, stranded' \subseteq 0..RemoveJob, stranded \subseteq stranded'
  PROVE  Held'
<1>1. TypeOK'
  BY DEF Held, TypeOK, RunRecord
<1>2. Rows'
  BY RunMovesKeeps DEF Held
<1>3. \A c \in Clients : Minds(c)
  BY DEF Minds
<1>4. Host'
  BY <1>3, HostIdles DEF Held
<1> QED
  BY <1>1, <1>2, <1>4 DEF Held

(* A run that only changes its status.                                     *)
LEMMA RunStepKeeps ==
  ASSUME Held, NEW r \in Runs, NEW st \in {"queued", "building", "failing", "ended"},
         RunStep(r, st), build # "server" \/ run[r].st # "none",
         run[r].st \notin Notifying,
         requests' \in 0..MaxRequests, faults' \in 0..MaxFaults, UNCHANGED <<rows, jobs>>, RunOnly
  PROVE  Held'
<1>1. /\ run' \in [Runs -> RunRecord] /\ run'[r].st = st /\ run'[r].d = run[r].d
      /\ \A q \in Runs : q # r => run'[q] = run[q]
  BY RunIsSet DEF Held, RunStates
<1>2. UNCHANGED <<kind, build, app, rows, container, jobs, life, remove, client, earned, crashed,
                  stranded, restored, swallowed, overlap, torn>>
  BY DEF RunOnly, Fixed, history
<1>3. Onward /\ \A c \in Clients : Stays(c)
  BY <1>2 DEF Onward, Stays
<1>4. RunMoves(r)
  BY <1>1, <1>2, <1>3 DEF RunMoves
<1>5. stranded' \subseteq 0..RemoveJob /\ stranded \subseteq stranded'
  BY <1>2 DEF Held, TypeOK
<1> QED
  BY <1>1, <1>2, <1>4, <1>5, RunGoesOn

RunAlone(r) == \/ Push(r) \/ Rerun(r) \/ StartRun(r) \/ CancelRun(r)
               \/ BuildFails(r) \/ deploymentStatus(r) \/ WaitGivesUp(r)

(* The steps of a run on GitHub itself.                                    *)
LEMMA RunAloneKeeps ==
  ASSUME Held, NEW r \in Runs, RunAlone(r)
  PROVE  Held'
<1>1. /\ Request => requests' \in 0..MaxRequests
      /\ Fault => faults' \in 0..MaxFaults
      /\ UNCHANGED requests => requests' \in 0..MaxRequests
      /\ UNCHANGED faults => faults' \in 0..MaxFaults
  BY Counted DEF Held, TypeOK
<1>2. /\ \E st \in {"queued", "building", "failing", "ended"} : RunStep(r, st)
      /\ build # "server" \/ run[r].st # "none"
      /\ run[r].st \notin Notifying
      /\ UNCHANGED <<rows, jobs>> /\ RunOnly
  <2>1. CASE Push(r)
    BY <2>1 DEF Push, Notifying, Held, TypeOK
  <2>2. CASE Rerun(r)
    BY <2>2 DEF Rerun, Notifying
  <2>3. CASE StartRun(r)
    BY <2>3 DEF StartRun, Notifying
  <2>4. CASE CancelRun(r)
    BY <2>4 DEF CancelRun, Notifying
  <2>5. CASE BuildFails(r)
    BY <2>5 DEF BuildFails, Notifying
  <2>6. CASE deploymentStatus(r)
    BY <2>6 DEF deploymentStatus, Notifying
  <2>7. CASE WaitGivesUp(r)
    BY <2>7 DEF WaitGivesUp, Notifying
  <2> QED
    BY <2>1, <2>2, <2>3, <2>4, <2>5, <2>6, <2>7 DEF RunAlone
<1>3. requests' \in 0..MaxRequests /\ faults' \in 0..MaxFaults
  BY <1>1 DEF RunAlone, Push, Rerun, StartRun, CancelRun, BuildFails, deploymentStatus, WaitGivesUp
<1> QED
  BY <1>2, <1>3, RunStepKeeps

(* Launch finds the row a notification is about.                           *)
LEMMA RunFindsKeeps ==
  ASSUME Held, NEW r \in Runs, BuildEnds(r) \/ GHAApplicationStatus(r)
  PROVE  Held'
<1>1. UNCHANGED <<kind, build, app, rows, container, jobs, life, remove, client, requests, earned,
                  crashed, restored, swallowed, overlap, torn>>
  BY DEF BuildEnds, GHAApplicationStatus, RunOnly, NotifyOnly, Fixed, history
<1>2. /\ requests' \in 0..MaxRequests /\ faults' \in 0..MaxFaults
  BY <1>1, Counted DEF BuildEnds, GHAApplicationStatus, Written, Lost, Held, TypeOK
<1>3. RowsOf(r) \subseteq Ids
  BY DEF RowsOf
<1>4. stranded' \subseteq 0..RemoveJob /\ stranded \subseteq stranded'
  BY <1>3, Bounds DEF BuildEnds, GHAApplicationStatus, RunOnly, Written, Lost, history, Held, TypeOK
<1>5. Onward /\ \A c \in Clients : Stays(c)
  BY <1>1, <1>4 DEF Onward, Stays
<1>6. run[r].st \in {"building", "failing"}
  BY DEF BuildEnds, GHAApplicationStatus
<1>7. \/ \E st \in {"found", "failfound"} :
           /\ run' = [run EXCEPT ![r] = [st |-> st, d |-> RowFor(r)]]
           /\ st = "failfound" \/ run[r].st = "building"
      \/ run' = [run EXCEPT ![r] = [st |-> "failing", d |-> 0]] /\ run[r].st = "building"
      \/ RunStep(r, "ended") /\ (~app.live \/ RowsOf(r) \subseteq stranded')
  BY <1>6 DEF BuildEnds, GHAApplicationStatus, Lost
<1>8. RowFor(r) \in 0..MaxRows
  BY RowForFinds DEF Held
<1>9. run' \in [Runs -> RunRecord] /\ RunMoves(r)
  <2>1. ASSUME NEW st \in {"found", "failfound"},
               run' = [run EXCEPT ![r] = [st |-> st, d |-> RowFor(r)]],
               st = "failfound" \/ run[r].st = "building"
        PROVE  run' \in [Runs -> RunRecord] /\ RunMoves(r)
    <3>1. /\ run' \in [Runs -> RunRecord] /\ run'[r].st = st /\ run'[r].d = RowFor(r)
          /\ \A q \in Runs : q # r => run'[q] = run[q]
      BY <1>8, <2>1, RunIsWritten DEF Held, RunStates
    <3> QED
      BY <1>1, <1>5, <1>6, <2>1, <3>1 DEF RunMoves, Notifying
  <2>2. ASSUME run' = [run EXCEPT ![r] = [st |-> "failing", d |-> 0]], run[r].st = "building"
        PROVE  run' \in [Runs -> RunRecord] /\ RunMoves(r)
    <3>1. /\ run' \in [Runs -> RunRecord] /\ run'[r].st = "failing" /\ run'[r].d = 0
          /\ \A q \in Runs : q # r => run'[q] = run[q]
      BY <2>2, RunIsWritten, Bounds DEF Held, RunStates
    <3> QED
      BY <1>1, <1>5, <2>2, <3>1 DEF RunMoves, Notifying
  <2>3. ASSUME RunStep(r, "ended"), ~app.live \/ RowsOf(r) \subseteq stranded'
        PROVE  run' \in [Runs -> RunRecord] /\ RunMoves(r)
    <3>1. /\ run' \in [Runs -> RunRecord] /\ run'[r].st = "ended" /\ run'[r].d = run[r].d
          /\ \A q \in Runs : q # r => run'[q] = run[q]
      BY <2>3, RunIsSet DEF Held, RunStates
    <3>2. ~app.live \/ \A d \in Ids : rows[d].run = r => d \in stranded'
      BY <2>3 DEF RowsOf
    <3> QED
      BY <1>1, <1>5, <1>6, <3>1, <3>2 DEF RunMoves, Notifying
  <2> QED
    BY <1>7, <2>1, <2>2, <2>3
<1> QED
  BY <1>1, <1>2, <1>4, <1>9, RunGoesOn

(* Launch writes, enqueues or fails the deployment of a run.               *)
LEMMA RunWritesKeeps ==
  ASSUME Held, NEW r \in Runs,
         upsertGHADeployment(r) \/ enqueueApplicationDeploy(r) \/ markGHADeploymentFailed(r)
  PROVE  Held'
<1>1. Rows' /\ TypeOK'
  BY UpsertKeeps, RunEnqueuesKeeps, MarkFailedKeeps DEF Held
<1>2. /\ UNCHANGED <<kind, build, app, container, life, remove, client, crashed, restored,
                     swallowed, overlap, torn>>
      /\ stranded \subseteq stranded'
  BY DEF upsertGHADeployment, enqueueApplicationDeploy, markGHADeploymentFailed, RunOnly,
         NotifyOnly, Written, Lost, Fixed, history
<1>3. \A d \in 0..MaxRows : jobs'[d] = jobs[d] \/ (jobs[d] = "none" /\ jobs'[d] = "queued")
  <2>1. CASE jobs' = jobs
    BY <2>1
  <2>2. CASE jobs' # jobs
    <3>1. jobs[run[r].d] = "none" /\ SetJob(run[r].d, "queued") /\ run[r].d \in 0..MaxRows
      BY <2>2, TypesHold DEF upsertGHADeployment, enqueueApplicationDeploy, markGHADeploymentFailed,
                            RunOnly, NotifyOnly, Held
    <3> QED
      BY <3>1, JobIsSet DEF JobStates, Held
  <2> QED
    BY <2>1, <2>2
<1>4. \A e \in Clients : Minds(e)
  BY <1>2 DEF Minds
<1>5. Host'
  BY <1>2, <1>3, <1>4, HostIdles DEF Held, history
<1> QED
  BY <1>1, <1>5 DEF Held

-----------------------------------------------------------------------------
(* Deletions *)

(* The steps of a deletion leave deployments, jobs and runs alone.         *)
LEMMA DeletionRows ==
  ASSUME Held, UNCHANGED <<build, rows, jobs, run, earned>>, crashed \subseteq crashed',
         stranded \subseteq stranded',
         app'.live => app.live, \A c \in Clients : Stays(c)
  PROVE  Rows'
<1>1. \A d \in Ids : rows'[d] = rows[d] /\ jobs'[d] = jobs[d]
  OBVIOUS
<1>2. \A r \in Runs : run'[r] = run[r]
  OBVIOUS
<1>3. Onward
  BY DEF Onward
<1>4. RowsSame
  BY <1>1, <1>2, <1>3 DEF RowsSame
<1> QED
  BY <1>4, RowsKept DEF Held

(* A deletion remembers the status it read.                                *)
LEMMA DeleteKeeps ==
  ASSUME Held, NEW c \in Clients, Delete(c)
  PROVE  Held'
<1> DEFINE rec == [op |-> IF kind = "application" THEN "mark" ELSE "delete", d |-> 0,
                   prev |-> app.status, had |-> app.deployed]
<1>1. /\ client[c].op = "idle" /\ app.live /\ requests' \in 0..MaxRequests
      /\ kind = "application" => app.status # "deleting"
      /\ client' = [client EXCEPT ![c] = rec]
      /\ UNCHANGED <<kind, build, app, rows, container, jobs, life, remove, run, faults, history>>
  BY Counted DEF Delete, Idle, Fixed, Held
<1>2. client \in [Clients -> ClientRecord] /\ app.status \in Statuses /\ app.deployed \in BOOLEAN
      /\ kind \in {"application", "compose"}
  BY TypesHold, KindsAssumption DEF Held, TypeOK
<1>3. /\ rec \in ClientRecord /\ rec.prev = app.status
      /\ rec.op = IF kind = "application" THEN "mark" ELSE "delete"
  BY <1>2, Bounds DEF ClientRecord, Ops
<1> HIDE DEF rec
<1>4. /\ client' \in [Clients -> ClientRecord] /\ client'[c] = rec
      /\ \A e \in Clients : e # c => client'[e] = client[e]
  BY <1>1, <1>2, <1>3
<1>5. TypeOK'
  BY <1>1, <1>4 DEF Held, TypeOK, ClientRecord, Ops, history
<1>6. \A e \in Clients : Stays(e)
  BY <1>1, <1>3, <1>4, StaysItself DEF Held, Dispatching
<1>7. Rows'
  BY <1>1, <1>6, DeletionRows DEF history
<1>8. BuildingIsOwned'
  BY <1>1 DEF Held, Host, BuildingIsOwned, history
<1>9. DeletionsRemember'
  <2>1. app.status # "deleting"
    BY <1>1, <1>2 DEF Held, Host, DeletionsRemember
  <2> QED
    BY <1>1, <1>2, <1>3, <1>4, <2>1 DEF Held, Host, DeletionsRemember
<1>10. DeletingIsOwned'
  <2>1. \A e \in Clients : client[e].op \in {"remove", "restore"} => client'[e].op = client[e].op
    BY <1>1, <1>4
  <2> QED
    BY <1>1, <2>1 DEF Held, Host, DeletingIsOwned, history
<1>11. TornIsFinal'
  <2>1. \A e \in Clients : client'[e].op = "remove" => client[e].op = "remove"
    BY <1>3, <1>4
  <2> QED
    BY <1>1, <2>1 DEF Held, Host, TornIsFinal, history
<1> QED
  BY <1>5, <1>7, <1>8, <1>9, <1>10, <1>11 DEF Held, Host

(* An application is marked, a stack is deleted at once; the removal is    *)
(* what comes next.                                                        *)
LEMMA DeleteMarksKeeps ==
  ASSUME Held, NEW c \in Clients, DeleteApplicationMarks(c) \/ DeleteCompose(c)
  PROVE  Held'
<1>1. /\ Then(c, "remove")
      /\ UNCHANGED <<kind, build, rows, container, jobs, life, remove, run, requests, faults, history>>
  BY DEF DeleteApplicationMarks, DeleteCompose, Fixed
<1>2. /\ client' \in [Clients -> ClientRecord] /\ client'[c].op = "remove"
      /\ client'[c].prev = client[c].prev
      /\ \A e \in Clients : e # c => client'[e] = client[e]
  BY <1>1, ClientGoesOn DEF Held, Ops
<1>3. client[c].op \in {"mark", "delete"} /\ client[c].prev # "deleting"
  BY DEF DeleteApplicationMarks, DeleteCompose, Held, Host, DeletionsRemember
<1>4. \/ /\ kind = "application" /\ app'.live = app.live
         /\ app.live => app'.status = "deleting"
         /\ ~app.live => app' = app
      \/ kind = "compose" /\ app'.live = FALSE /\ app'.status = app.status
  <2>1. CASE DeleteApplicationMarks(c)
    BY <2>1, StatusIsSet DEF DeleteApplicationMarks, Held, Host, DeletionsRemember, Statuses
  <2>2. CASE DeleteCompose(c)
    BY <2>2, TypesHold DEF DeleteCompose, Held, Host, DeletionsRemember, AppRecord
  <2> QED
    BY <2>1, <2>2
<1>5. app' \in AppRecord
  <2>1. CASE DeleteApplicationMarks(c)
    BY <2>1, StatusIsSet DEF DeleteApplicationMarks, Held, Statuses
  <2>2. CASE DeleteCompose(c)
    BY <2>2, TypesHold DEF DeleteCompose, Held, AppRecord
  <2> QED
    BY <2>1, <2>2
<1>6. TypeOK'
  BY <1>1, <1>2, <1>5 DEF Held, TypeOK, ClientRecord, Ops, AppRecord, history
<1>7. \A e \in Clients : Stays(e)
  BY <1>2, <1>3, StaysItself DEF Held, Dispatching
<1>8. app'.live => app.live
  BY <1>4
<1>9. Rows'
  BY <1>1, <1>7, <1>8, DeletionRows DEF history
<1>10. BuildingIsOwned'
  BY <1>1, <1>4 DEF Held, Host, BuildingIsOwned, history
<1>11. DeletionsRemember'
  <2>1. kind = "compose" => app'.status # "deleting"
    BY <1>4 DEF Held, Host, DeletionsRemember
  <2> QED
    BY <1>1, <1>2, <1>3, <2>1 DEF Held, Host, DeletionsRemember
<1>12. DeletingIsOwned'
  BY <1>2 DEF DeletingIsOwned
<1>13. TornIsFinal'
  <2>1. kind = "compose" /\ app.live => ~torn
    BY DEF Held, Host, TornIsFinal
  <2>2. kind = "application" => app'.live = app.live
    BY <1>4
  <2>3. kind = "compose" => ~app'.live
    BY <1>3, <1>4
  <2>4. kind = "application" \/ kind = "compose"
    BY <1>4
  <2> QED
    BY <1>1, <2>1, <2>2, <2>3, <2>4 DEF Held, Host, TornIsFinal, history
<1> QED
  BY <1>6, <1>9, <1>10, <1>11, <1>12, <1>13 DEF Held, Host

(* A deletion that comes to its end: the removal is enqueued, swallowed or *)
(* refused, and then the status is given back or the request stops.        *)
Ends(c) ==
  \/ /\ client[c].op = "remove" /\ client'[c].op = "idle" /\ remove.st = "none"
     /\ remove' \in RemoveRecord /\ remove'.st = "queued" /\ remove'.prev = client[c].prev
     /\ UNCHANGED <<app, faults, stranded, restored, swallowed>>
  \/ /\ client'[c].op = "idle" /\ remove.st # "none" /\ swallowed' = TRUE
     /\ UNCHANGED <<app, remove, faults, stranded, restored>>
  \/ /\ faults' \in 0..MaxFaults
     /\ UNCHANGED <<app, remove, stranded, restored, swallowed>>
     /\ \/ kind = "compose" /\ client'[c].op = "idle"
        \/ /\ kind = "application" /\ client'[c].op = "restore"
           /\ client'[c].prev = client[c].prev
  \/ /\ client'[c].op = "idle" /\ UNCHANGED <<remove, faults, stranded, swallowed>>
     /\ app' \in AppRecord /\ app'.live = app.live
     /\ restored' = (restored \/ client[c].prev = "building")
     /\ (app' = app /\ ~app.live) \/ app'.status = client[c].prev
  \/ /\ client'[c].op = "idle" /\ faults' \in 0..MaxFaults
     /\ UNCHANGED <<app, remove, restored, swallowed>>
     /\ stranded' = stranded \cup {RemoveJob}

LEMMA EndsKeeps ==
  ASSUME Held, NEW c \in Clients, client[c].op \in {"remove", "restore"}, Ends(c),
         client' \in [Clients -> ClientRecord],
         \A e \in Clients : e # c => client'[e] = client[e],
         UNCHANGED <<kind, build, rows, container, jobs, life, run, requests, earned, crashed,
                     overlap, torn>>
  PROVE  Held'
<1>3. /\ client[c].prev \in Statuses /\ client[c].prev # "deleting"
      /\ kind \in {"application", "compose"} /\ app \in AppRecord /\ remove \in RemoveRecord
  BY TypesHold, KindsAssumption DEF Held, TypeOK, Host, DeletionsRemember
<1>4. client'[c].op \in {"idle", "restore"}
  BY DEF Ends
<1>5. /\ app' \in AppRecord /\ remove' \in RemoveRecord /\ app'.live = app.live
      /\ faults' \in 0..MaxFaults /\ restored' \in BOOLEAN /\ swallowed' \in BOOLEAN
      /\ (restored => restored') /\ (swallowed => swallowed')
      /\ stranded' \subseteq 0..RemoveJob /\ stranded \subseteq stranded'
  BY <1>3, Bounds DEF Ends, Held, TypeOK
<1>6. TypeOK'
  BY <1>5 DEF Held, TypeOK, ClientRecord, Ops, AppRecord, RemoveRecord
<1>7. \A e \in Clients : Stays(e)
  BY <1>4, StaysItself DEF Held, Dispatching
<1>8. Rows'
  BY <1>5, <1>7, DeletionRows
<1>9. BuildingIsOwned'
  <2>1. 0 \notin stranded' => 0 \notin stranded
    BY <1>5
  <2>2. app' = app \/ (app'.status = client[c].prev /\ (client[c].prev = "building" => restored'))
    BY DEF Ends
  <2> QED
    BY <1>5, <2>1, <2>2 DEF Held, Host, BuildingIsOwned
<1>10. DeletionsRemember'
  <2>1. remove'.prev # "deleting"
    BY <1>3 DEF Ends, Held, Host, DeletionsRemember
  <2>2. kind = "compose" => app'.status # "deleting"
    BY <1>3 DEF Ends, Held, Host, DeletionsRemember
  <2>3. \A e \in Clients : \/ client'[e].op = "idle"
                           \/ client'[e] = client[e]
                           \/ /\ kind = "application" /\ client'[e].op = "restore"
                              /\ client'[e].prev = client[c].prev
    BY DEF Ends
  <2> QED
    BY <1>3, <2>1, <2>2, <2>3 DEF Held, Host, DeletionsRemember
<1>11. DeletingIsOwned'
  <2> SUFFICES ASSUME app'.live, app'.status = "deleting", RemoveJob \notin stranded', ~swallowed'
               PROVE  \/ remove'.st \in {"queued", "ran", "failing"}
                      \/ client'[c].op \in {"remove", "restore"}
    BY DEF DeletingIsOwned
  <2>1. kind = "compose" => app.status # "deleting"
    BY DEF Held, Host, DeletionsRemember
  <2> QED
    BY <1>3, <1>5, <2>1 DEF Ends
<1>12. TornIsFinal'
  <2>1. ~(kind = "compose" /\ app.live)
    BY <1>3 DEF Held, Host, TornIsFinal, DeletionsRemember
  <2>2. kind = "application" /\ app.live /\ torn => remove' = remove
    BY DEF Ends, Held, Host, TornIsFinal
  <2>3. remove'.st = "ran" => remove.st = "ran"
    BY DEF Ends
  <2> QED
    BY <1>5, <2>1, <2>2, <2>3 DEF Held, Host, TornIsFinal
<1> QED
  BY <1>6, <1>8, <1>9, <1>10, <1>11, <1>12 DEF Held, Host

(* The requests that come to the end of a deletion.                        *)
LEMMA DeleteEnqueuesKeeps ==
  ASSUME Held, NEW c \in Clients,
         \/ DeleteEnqueues(c) \/ DeleteRestores(c)
         \/ ClientStops(c) /\ client[c].op \in {"remove", "restore"}
  PROVE  Held'
<1>1. /\ client[c].op \in {"remove", "restore"}
      /\ UNCHANGED <<kind, build, rows, container, jobs, life, run, requests, earned, crashed,
                     overlap, torn>>
  BY DEF DeleteEnqueues, DeleteRestores, RestoreOnly, ClientStops, Fixed
<1>2. /\ client[c].prev \in Statuses /\ client[c].had \in BOOLEAN
      /\ kind \in {"application", "compose"} /\ app \in AppRecord /\ remove \in RemoveRecord
      /\ faults \in 0..MaxFaults
  BY TypesHold, KindsAssumption DEF Held, TypeOK
<1>3. /\ client' \in [Clients -> ClientRecord]
      /\ \A e \in Clients : e # c => client'[e] = client[e]
      /\ Answer(c) => client'[c].op = "idle"
      /\ Then(c, "restore") => client'[c].op = "restore" /\ client'[c].prev = client[c].prev
  <2>1. Answer(c) \/ Then(c, "restore")
    BY DEF DeleteEnqueues, DeleteRestores, ClientStops
  <2> QED
    BY <2>1, ClientGoesOn DEF Held, Ops
<1>4. Ends(c)
  <2>1. CASE DeleteEnqueues(c)
    <3>1. ASSUME remove' = [st |-> "queued", prev |-> client[c].prev, had |-> client[c].had]
          PROVE  remove' \in RemoveRecord /\ remove'.st = "queued" /\ remove'.prev = client[c].prev
      BY <1>2, <3>1 DEF RemoveRecord
    <3> QED
      BY <1>2, <1>3, <2>1, <3>1, Counted DEF DeleteEnqueues, Ends, Held
  <2>2. CASE DeleteRestores(c)
    <3>1. CASE SetStatus(client[c].prev) /\ Written /\ restored' = (restored \/ client[c].prev = "building")
      <4>1. /\ app' \in AppRecord /\ app'.live = app.live
            /\ (app' = app /\ ~app.live) \/ app'.status = client[c].prev
        BY <1>2, <3>1, StatusIsSet DEF Held, AppRecord
      <4> QED
        BY <1>3, <2>2, <3>1, <4>1 DEF DeleteRestores, RestoreOnly, Written, Ends
    <3>2. CASE UNCHANGED <<app, restored>> /\ Lost({RemoveJob})
      BY <1>3, <2>2, <3>2, Counted DEF DeleteRestores, RestoreOnly, Lost, Ends, Held
    <3> QED
      BY <2>2, <3>1, <3>2 DEF DeleteRestores
  <2>3. CASE ClientStops(c)
    <3>1. Lost({RemoveJob})
      BY <1>1, <2>3 DEF ClientStops
    <3> QED
      BY <1>3, <2>3, <3>1, Counted DEF ClientStops, Lost, Ends, Held
  <2> QED
    BY <2>1, <2>2, <2>3
<1> QED
  BY <1>1, <1>3, <1>4, EndsKeeps

-----------------------------------------------------------------------------
(* The removal *)

(* What every step of the removal leaves alone.                            *)
LEMMA RemovalKeeps ==
  ASSUME Held, RemoveOnly, remove' \in RemoveRecord, remove'.prev = remove.prev,
         app' \in AppRecord, container' \in {"absent", "up", "stopped"}, faults' \in 0..MaxFaults,
         crashed' \subseteq 0..RemoveJob, crashed \subseteq crashed',
         stranded' \subseteq 0..RemoveJob, stranded \subseteq stranded',
         restored' \in BOOLEAN, overlap' \in BOOLEAN, torn' \in BOOLEAN,
         app'.live => app.live, app'.status # "deleting" \/ app'.status = app.status
  PROVE  TypeOK' /\ Rows' /\ DeletionsRemember'
<1>1. UNCHANGED <<kind, build, rows, jobs, life, client, run, requests, earned, swallowed>>
  BY DEF RemoveOnly, Fixed
<1>2. TypeOK'
  BY <1>1 DEF Held, TypeOK, AppRecord, RemoveRecord
<1>3. \A c \in Clients : Stays(c)
  BY <1>1 DEF Stays
<1>4. Rows'
  BY <1>1, <1>3, DeletionRows
<1>5. DeletionsRemember'
  BY <1>1 DEF Held, Host, DeletionsRemember
<1> QED
  BY <1>2, <1>4, <1>5

(* The removal script runs.                                                *)
LEMMA RunRemoveKeeps ==
  ASSUME Held, RunRemove
  PROVE  Held'
<1>1. /\ remove.st = "queued"
      /\ UNCHANGED <<kind, build, rows, jobs, life, client, run, requests, earned, swallowed,
                     app, faults, crashed, stranded, restored>>
      /\ RemoveOnly
  BY DEF RunRemove, RemoveOnly, Fixed
<1>2. remove \in RemoveRecord /\ app \in AppRecord
  BY TypesHold DEF Held
<1>3. /\ \/ remove' = [remove EXCEPT !.st = "ran"]
         \/ remove' = [remove EXCEPT !.st = "failing"]
      /\ \/ UNCHANGED <<container, torn, overlap>>
         \/ /\ container' = "absent" /\ torn' = TRUE
            /\ remove' = [remove EXCEPT !.st = "ran"]
            /\ overlap' = (overlap \/ \E d \in 0..MaxRows : jobs[d] \in Deploying)
         \/ /\ container' \in {container, "absent"} /\ UNCHANGED <<torn, overlap>>
            /\ remove' = [remove EXCEPT !.st = "failing"]
  BY DEF RunRemove
<1>4. /\ remove' \in RemoveRecord /\ remove'.prev = remove.prev
      /\ remove'.st \in {"ran", "failing"}
  BY <1>2, <1>3 DEF RemoveRecord
<1>5. container' \in {"absent", "up", "stopped"} /\ overlap' \in BOOLEAN /\ torn' \in BOOLEAN
  BY <1>3 DEF Held, TypeOK
<1>6. TypeOK' /\ Rows' /\ DeletionsRemember'
  BY <1>1, <1>2, <1>4, <1>5, RemovalKeeps DEF Held, TypeOK
<1>7. BuildingIsOwned'
  BY <1>1 DEF Held, Host, BuildingIsOwned
<1>8. DeletingIsOwned'
  BY <1>4 DEF DeletingIsOwned
<1>9. TornIsFinal'
  <2>1. ~(kind = "compose" /\ app.live) /\ ~(kind = "application" /\ app.live /\ torn)
    BY <1>1 DEF Held, Host, TornIsFinal
  <2>2. kind \in {"application", "compose"}
    BY KindsAssumption DEF Held, TypeOK
  <2>3. app.live => ~torn
    BY <2>1, <2>2
  <2>4. CASE UNCHANGED <<container, torn, overlap>>
    BY <1>1, <1>4, <2>1, <2>3, <2>4 DEF Held, Host, TornIsFinal
  <2>5. CASE /\ container' = "absent"
             /\ overlap' = (overlap \/ \E d \in 0..MaxRows : jobs[d] \in Deploying)
    BY <1>1, <1>4, <2>1, <2>5 DEF TornIsFinal
  <2>6. CASE container' \in {container, "absent"} /\ UNCHANGED <<torn, overlap>>
    <3>1. container = "absent" => container' = "absent"
      BY <2>6
    <3> QED
      BY <1>1, <1>4, <2>1, <2>3, <2>6, <3>1 DEF Held, Host, TornIsFinal
  <2> QED
    BY <1>3, <2>4, <2>5, <2>6
<1> QED
  BY <1>6, <1>7, <1>8, <1>9 DEF Held, Host

(* The application is gone, or the removal fails.                          *)
LEMMA FinaliseKeeps ==
  ASSUME Held, finaliseDelete
  PROVE  Held'
<1>1. /\ remove.st = "ran" /\ kind = "application"
      /\ UNCHANGED <<kind, build, rows, jobs, life, client, run, requests, earned, swallowed,
                     container, crashed, stranded, restored, overlap, torn>>
      /\ RemoveOnly
  BY DEF finaliseDelete, RemoveOnly, Fixed
<1>2. remove \in RemoveRecord /\ app \in AppRecord
  BY TypesHold DEF Held
<1>3. \/ app' = [app EXCEPT !.live = FALSE] /\ remove' = [remove EXCEPT !.st = "none"] /\ UNCHANGED faults
      \/ app' = app /\ remove' = [remove EXCEPT !.st = "failing"] /\ faults' \in 0..MaxFaults
  BY Counted DEF finaliseDelete, Held
<1>4. /\ remove' \in RemoveRecord /\ remove'.prev = remove.prev
      /\ app' \in AppRecord /\ app'.status = app.status /\ faults' \in 0..MaxFaults
      /\ \/ ~app'.live /\ remove'.st = "none"
         \/ app' = app /\ remove'.st = "failing"
  BY <1>2, <1>3 DEF RemoveRecord, AppRecord, Held, TypeOK
<1>5. app'.live => app.live
  BY <1>4
<1>6. TypeOK' /\ Rows' /\ DeletionsRemember'
  BY <1>1, <1>2, <1>4, <1>5, RemovalKeeps DEF Held, TypeOK
<1>7. BuildingIsOwned'
  BY <1>1, <1>4, <1>5 DEF Held, Host, BuildingIsOwned
<1>8. DeletingIsOwned'
  BY <1>4 DEF DeletingIsOwned
<1>9. TornIsFinal'
  BY <1>1, <1>4, <1>5 DEF Held, Host, TornIsFinal
<1> QED
  BY <1>6, <1>7, <1>8, <1>9 DEF Held, Host

(* The removal of a stack ends, or fails, and so may that of an            *)
(* application.                                                            *)
LEMMA RemoveEndsKeeps ==
  ASSUME Held, RemoveComposeEnds \/ RemoveApplicationFailed \/ RemoveComposeFailed
  PROVE  Held'
<1>1. /\ UNCHANGED <<kind, build, rows, jobs, life, client, run, requests, earned, swallowed,
                     container, overlap, torn>>
      /\ RemoveOnly
  BY DEF RemoveComposeEnds, RemoveApplicationFailed, RemoveComposeFailed, RemoveOnly, Fixed
<1>2. /\ remove \in RemoveRecord /\ app \in AppRecord /\ remove.prev \in Statuses
      /\ remove.prev # "deleting"
  BY TypesHold DEF Held, Host, DeletionsRemember
<1>3. PICK st \in {"none", "archived"} : remove' = [remove EXCEPT !.st = st]
  BY DEF RemoveComposeEnds, RemoveApplicationFailed, RemoveComposeFailed
<1>4. remove' \in RemoveRecord /\ remove'.prev = remove.prev /\ remove'.st = st
  BY <1>2, <1>3 DEF RemoveRecord
<1>5. /\ faults' \in 0..MaxFaults /\ restored' \in BOOLEAN /\ (restored => restored')
      /\ crashed' = crashed /\ stranded' \subseteq 0..RemoveJob /\ stranded \subseteq stranded'
  BY Counted, Bounds DEF RemoveComposeEnds, RemoveApplicationFailed, RemoveComposeFailed,
                         Written, Lost, Held, TypeOK
<1>6. /\ app' \in AppRecord /\ app'.live = app.live
      /\ \/ app' = app
         \/ /\ app'.status = remove.prev
            /\ remove.prev = "building" => restored'
  <2>1. CASE RemoveApplicationFailed
    <3>1. \/ SetStatus(remove.prev) /\ restored' = (restored \/ remove.prev = "building")
          \/ UNCHANGED app
      BY <2>1 DEF RemoveApplicationFailed
    <3> QED
      BY <1>2, <3>1, StatusIsSet DEF Held
  <2>2. CASE ~RemoveApplicationFailed
    BY <1>2, <2>2 DEF RemoveComposeEnds, RemoveComposeFailed
  <2> QED
    BY <2>1, <2>2
<1>7. \/ kind = "compose"
      \/ app' = app /\ RemoveJob \in stranded'
      \/ ~app.live \/ app'.status = remove.prev
  <2>1. CASE RemoveApplicationFailed
    <3>1. SetStatus(remove.prev) \/ (UNCHANGED app /\ RemoveJob \in stranded')
      BY <2>1 DEF RemoveApplicationFailed, Lost
    <3> QED
      BY <1>2, <3>1, StatusIsSet DEF Held
  <2> QED
    BY <2>1 DEF RemoveComposeEnds, RemoveComposeFailed
<1>8. TypeOK' /\ Rows' /\ DeletionsRemember'
  <2>1. app'.status # "deleting" \/ app'.status = app.status
    BY <1>2, <1>6
  <2>2. container' \in {"absent", "up", "stopped"} /\ overlap' \in BOOLEAN /\ torn' \in BOOLEAN
    BY <1>1 DEF Held, TypeOK
  <2> QED
    BY <1>1, <1>4, <1>5, <1>6, <2>1, <2>2, RemovalKeeps DEF Held, TypeOK
<1>9. BuildingIsOwned'
  <2>1. (crashed' = {} => crashed = {}) /\ (0 \in stranded => 0 \in stranded')
    BY <1>5
  <2> QED
    BY <1>1, <1>5, <1>6, <2>1 DEF Held, Host, BuildingIsOwned
<1>10. DeletingIsOwned'
  <2>1. kind = "compose" => app'.status # "deleting"
    BY <1>2, <1>6 DEF Held, Host, DeletionsRemember
  <2> QED
    BY <1>2, <1>6, <1>7, <2>1 DEF DeletingIsOwned
<1>11. TornIsFinal'
  <2>1. remove.st # "none"
    BY DEF RemoveComposeEnds, RemoveApplicationFailed, RemoveComposeFailed
  <2>2. ~(kind = "compose" /\ app.live)
    BY <2>1 DEF Held, Host, TornIsFinal
  <2>3. kind = "application" => st = "archived"
    BY <1>2, <1>3, <1>4 DEF RemoveComposeEnds, RemoveApplicationFailed, RemoveComposeFailed,
                            RemoveRecord
  <2> QED
    BY <1>1, <1>4, <1>6, <2>2, <2>3 DEF Held, Host, TornIsFinal
<1> QED
  BY <1>8, <1>9, <1>10, <1>11 DEF Held, Host

(* The removal is interrupted with its worker.                             *)
LEMMA RemoveDiesKeeps ==
  ASSUME Held, RemoveDies
  PROVE  Held'
<1>1. /\ UNCHANGED <<kind, build, app, rows, jobs, life, client, run, requests, earned, swallowed,
                     container, stranded, restored, overlap>>
      /\ RemoveOnly /\ faults' \in 0..MaxFaults
  BY Counted DEF RemoveDies, RemoveOnly, Fixed, Held
<1>2. remove \in RemoveRecord /\ app \in AppRecord /\ remove.st \in {"ran", "failing"}
  BY TypesHold DEF Held, RemoveDies
<1>3. /\ remove' \in RemoveRecord /\ remove'.prev = remove.prev
      /\ \/ remove'.st = "archived" /\ crashed' = crashed \cup {RemoveJob} /\ torn' = torn
         \/ remove'.st = "queued" /\ crashed' = crashed /\ torn' = FALSE
  BY <1>2 DEF RemoveDies, RemoveRecord
<1>4. /\ crashed' \subseteq 0..RemoveJob /\ crashed \subseteq crashed' /\ torn' \in BOOLEAN
  BY <1>3, Bounds DEF Held, TypeOK
<1>5. TypeOK' /\ Rows' /\ DeletionsRemember'
  BY <1>1, <1>2, <1>3, <1>4, RemovalKeeps DEF Held, TypeOK
<1>6. BuildingIsOwned'
  <2>1. crashed' = {} => crashed = {}
    BY <1>4
  <2> QED
    BY <1>1, <2>1 DEF Held, Host, BuildingIsOwned
<1>7. DeletingIsOwned'
  BY <1>3 DEF DeletingIsOwned
<1>8. TornIsFinal'
  BY <1>1, <1>2, <1>3 DEF Held, Host, TornIsFinal
<1> QED
  BY <1>5, <1>6, <1>7, <1>8 DEF Held, Host

-----------------------------------------------------------------------------
(* The theorems *)

(* A workload that was just created satisfies the invariant.               *)
LEMMA InitHolds ==
  ASSUME Init
  PROVE  Held
<1> USE DEF Init
<1>1. TypeOK
  <2>1. /\ "idle" \in Statuses /\ "none" \in JobStates /\ "none" \in RunStates /\ 0 \in 0..MaxRows
        /\ 0 \in 0..MaxRequests /\ 0 \in 0..MaxFaults
    BY BoundsAssumption, Bounds DEF Statuses, JobStates, RunStates
  <2>2. /\ rows \in [Ids -> RowRecord] /\ client \in [Clients -> ClientRecord]
        /\ run \in [Runs -> RunRecord] /\ app \in AppRecord /\ remove \in RemoveRecord
    BY <2>1 DEF RowRecord, ClientRecord, Ops, RunRecord, AppRecord, RemoveRecord
  <2>3. jobs \in [0..MaxRows -> JobStates] /\ life \in [Actions -> {"none", "queued", "ok", "archived"}]
    BY <2>1
  <2> QED
    BY <2>1, <2>2, <2>3 DEF TypeOK, RowRecord, ClientRecord, Ops, RunRecord, AppRecord, RemoveRecord
<1>2. Numbered
  <2>1. \A d \in Ids : ~(d <= 0)
    BY Bounds DEF Ids
  <2>2. \A d \in Ids : rows[d].st = "none" /\ rows[d].run = NoRun /\ jobs[d] = "none"
    BY Bounds
  <2>3. \E k \in 0..MaxRows : \A d \in Ids : rows[d].st # "none" <=> d <= k
    BY <2>1, <2>2, Bounds
  <2> QED
    BY <2>2, <2>3 DEF Numbered
<1>3. EnqueuedOnce
  BY DEF EnqueuedOnce, Enqueuing
<1>4. OneRowPerRun /\ JobsAreHonest /\ SuccessIsEarned /\ PendingIsNamed
  BY Bounds DEF OneRowPerRun, JobsAreHonest, SuccessIsEarned, PendingIsNamed, InFlight
<1>5. Host
  BY Bounds DEF Host, BuildingIsOwned, DeletionsRemember, DeletingIsOwned, TornIsFinal, Deploying
<1> QED
  BY <1>1, <1>2, <1>3, <1>4, <1>5 DEF Held, Rows

(* Every step keeps it.                                                    *)
LEMMA NextKeeps ==
  ASSUME Held, Next
  PROVE  Held'
<1>1. ASSUME NEW c \in Clients,
             \/ Deploy(c) \/ recreateApplication(c) \/ Reload(c)
             \/ \E a \in Actions : Lifecycle(c, a)
      PROVE  Held'
  BY <1>1, RequestKeeps
<1>2. ASSUME NEW c \in Clients, Delete(c) PROVE Held'
  BY <1>2, DeleteKeeps
<1>3. ASSUME NEW c \in Clients, ClientStep(c) PROVE Held'
  BY <1>3, DeployRequestKeeps, DispatchWorkflowKeeps, DispatchActionKeeps, DeleteMarksKeeps,
     DeleteEnqueuesKeeps, RequestEndsKeeps DEF ClientStep
<1>4. ASSUME NEW d \in Ids, DeleteDeployment(d) PROVE Held'
  BY <1>4, DeleteDeploymentKeeps
<1>5. ASSUME NEW d \in 0..MaxRows, JobStep(d) PROVE Held'
  BY <1>5, StartJobKeeps, JobWritesRowKeeps, JobWorksKeeps DEF JobStep, JobWorks
<1>6. ASSUME NEW d \in 0..MaxRows, WorkerDies(d) PROVE Held'
  BY <1>6, WorkerDiesKeeps
<1>7. ASSUME NEW a \in Actions, RunLifecycle(a) \/ RecordLifecycle(a) PROVE Held'
  BY <1>7, LifecycleKeeps
<1>8. ASSUME RemoveStep \/ RemoveDies PROVE Held'
  BY <1>8, RunRemoveKeeps, FinaliseKeeps, RemoveEndsKeeps, RemoveDiesKeeps DEF RemoveStep
<1>9. ASSUME NEW r \in Runs, RunAlone(r) \/ BuildEnds(r) \/ NotifyStep(r) PROVE Held'
  BY <1>9, RunAloneKeeps, RunFindsKeeps, RunWritesKeeps DEF NotifyStep
<1> QED
  BY <1>1, <1>2, <1>3, <1>4, <1>5, <1>6, <1>7, <1>8, <1>9 DEF Next, RunAlone

(* So does a step of nothing.                                              *)
LEMMA StutterKeeps ==
  ASSUME Held, UNCHANGED vars
  PROVE  Held'
<1>1. UNCHANGED <<kind, build, app, rows, container, jobs, life, remove, client, run,
                  requests, faults, earned, crashed, stranded, restored, swallowed, overlap, torn>>
  BY DEF vars
<1>2. TypeOK'
  BY <1>1 DEF Held, TypeOK
<1>3. \A c \in Clients : Stays(c) /\ Minds(c)
  BY <1>1 DEF Stays, Minds
<1>4. Rows'
  BY <1>1, <1>3, RowsKept DEF RowsSame, Onward, Held
<1>5. Host'
  BY <1>1, <1>3, HostIdles DEF Held
<1> QED
  BY <1>2, <1>4, <1>5 DEF Held

(* DeployInv is an invariant: Init establishes it and every step of a      *)
(* request, a job, a removal or a GitHub run keeps it.                     *)
THEOREM DeployInvariance == Spec => []DeployInv
<1>1. Init => Held
  BY InitHolds
<1>2. Held /\ [Next]_vars => Held'
  BY NextKeeps, StutterKeeps
<1>3. Held => DeployInv
  BY DEF Held, Rows, Host, DeployInv
<1> QED
  BY <1>1, <1>2, <1>3, PTL DEF Spec

(* Every variable has its type, in particular within the bounds that name  *)
(* the deployments.                                                        *)
THEOREM TypeCorrect == Spec => []TypeOK
<1>1. DeployInv => TypeOK
  BY DEF DeployInv
<1> QED
  BY <1>1, DeployInvariance, PTL

(* A deployment that reads success had a script that succeeded, whatever   *)
(* was superseded, claimed, re-run or overtaken meanwhile.                 *)
THEOREM SuccessWasEarned == Spec => []SuccessIsEarned
<1>1. DeployInv => SuccessIsEarned
  BY DEF DeployInv
<1> QED
  BY <1>1, DeployInvariance, PTL

(* A deployment that reads in flight has a job, a request or a run that    *)
(* will end it, unless its job was interrupted or its last write failed or *)
(* never came.                                                             *)
THEOREM PendingHasAnOwner == Spec => []PendingIsOnItsWay
<1>1. DeployInv => PendingIsOnItsWay
  <2> SUFFICES ASSUME PendingIsNamed PROVE PendingIsOnItsWay
    BY DEF DeployInv
  <2> QED
    BY DEF PendingIsNamed, PendingIsOnItsWay, Enqueuing
<1> QED
  BY <1>1, DeployInvariance, PTL

(* A workload that reads building, and so refuses deployments, has a job   *)
(* that will write another status, but for an interrupted job, a write of  *)
(* its status that failed and a restored status.                           *)
THEOREM BuildingHasAJob == Spec => []BuildingIsOwned
<1>1. DeployInv => BuildingIsOwned
  BY DEF DeployInv
<1> QED
  BY <1>1, DeployInvariance, PTL

(* An application that reads deleting, and so refuses another deletion,    *)
(* has a removal on its way, but for an interrupted removal or request, a  *)
(* revert that failed and a swallowed removal.                             *)
THEOREM DeletingHasARemoval == Spec => []DeletingIsOwned
<1>1. DeployInv => DeletingIsOwned
  BY DEF DeployInv
<1> QED
  BY <1>1, DeployInvariance, PTL

(* A deleted workload whose removal took its container away leaves none on *)
(* the host, unless a job was deploying at that time.                      *)
THEOREM DeletedIsGone == Spec => []CleanDelete
<1>1. DeployInv => CleanDelete
  BY DEF DeployInv, TornIsFinal, CleanDelete
<1> QED
  BY <1>1, DeployInvariance, PTL
=============================================================================
