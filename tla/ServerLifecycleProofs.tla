------------------------- MODULE ServerLifecycleProofs -------------------------
(***************************************************************************)
(* What holds of the life of a server for every number of requests,        *)
(* instances, scripts and faults: LifeInv is inductive, and with it        *)
(* InProgressIsOwned and RunningIsBuilt hold in every behaviour.           *)
(***************************************************************************)
EXTENDS ServerLifecycle, TLAPS

-----------------------------------------------------------------------------
(* Types *)

(* A column can be changed to any value of its type.                       *)
LEMMA RowTyped ==
  ASSUME NEW r \in Rows
  PROVE  /\ \A s \in Statuses : [r EXCEPT !.status = s] \in Rows
         /\ \A b \in BOOLEAN : [r EXCEPT !.connected = b] \in Rows
         /\ \A s \in Statuses, b \in BOOLEAN :
              /\ [r EXCEPT !.connected = b, !.status = s] \in Rows
              /\ [r EXCEPT !.archived = b, !.status = s] \in Rows
         /\ \A s \in Statuses, b \in BOOLEAN, i \in Instances \cup {None} :
              /\ [r EXCEPT !.connected = b, !.status = s, !.hostKey = i] \in Rows
              /\ [r EXCEPT !.status = s, !.connected = b, !.hostKey = i] \in Rows
              /\ [r EXCEPT !.connected = b, !.hostKey = i] \in Rows
         /\ \A i \in Instances \cup {None} : [r EXCEPT !.instance = i] \in Rows
         /\ \A i \in Instances \cup {None} : [r EXCEPT !.ip = i] \in Rows
         /\ r.status \in Statuses /\ r.instance \in Instances \cup {None}
         /\ r.ip \in Instances \cup {None} /\ r.hostKey \in Instances \cup {None}
         /\ r.connected \in BOOLEAN
         /\ r.present \in BOOLEAN /\ r.provider \in {"cloud", "custom"}
BY DEF Rows

(* A new row, and one that is gone.                                        *)
LEMMA NewRowTyped ==
  ASSUME NEW p \in {"cloud", "custom"}
  PROVE  NewRow(p) \in Rows /\ [NewRow(p) EXCEPT !.present = FALSE] \in Rows
BY DEF Rows, NewRow, Statuses

Places == {"free", "queued", "create", "save", "address", "connect", "dispatch", "run", "delete",
           "erase", "archived"}
JobRecords == [at: Places, instance: Instances \cup {None}]

(* Jobs move from place to place.                                          *)
LEMMA JobsTyped ==
  ASSUME NEW j \in [Jobs -> JobRecords], NEW k \in Jobs
  PROVE  /\ Enqueue(j, k) \in [Jobs -> JobRecords]
         /\ \A at \in Places, i \in Instances \cup {None} :
              [j EXCEPT ![k] = [at |-> at, instance |-> i]] \in [Jobs -> JobRecords]
         /\ j[k].instance \in Instances \cup {None} /\ j[k].at \in Places
BY DEF JobRecords, Places, Enqueue

(* TypeOK holds initially.                                                 *)
LEMMA TypesInit == Init => TypeOK
<1> SUFFICES ASSUME Init PROVE TypeOK OBVIOUS
<1>1. PICK p \in {"cloud", "custom"}, refused \in BOOLEAN :
        /\ row = NewRow(p)
        /\ jobs = [k \in Jobs |-> IF k = "create_on_provider" /\ p = "cloud" /\ ~refused
                                  THEN [Free EXCEPT !.at = "queued"] ELSE Free]
        /\ stuck = IF refused THEN {"create_on_provider"} ELSE {}
  BY DEF Init
<1>2. row \in Rows /\ NewRow("custom") \in Rows
  BY <1>1, NewRowTyped
<1>3. jobs \in [Jobs -> JobRecords]
  BY <1>1 DEF JobRecords, Places, Free
<1>4. clients \in [Clients -> [op: Ops, read: Rows]]
  BY <1>2 DEF Init, Quiet, Ops
<1>5. made \in 0..MaxInstances /\ cloud \in SUBSET (1..made)
      /\ requests \in 0..MaxRequests /\ faults \in 0..MaxFaults
  BY BoundAssumption DEF Init
<1>6. scripts \in [Scripts -> [busy: BOOLEAN, instance: Instances \cup {None}]]
  BY DEF Init
<1>7. built \in SUBSET (Instances \cup {None}) /\ spoiled \in SUBSET Instances
      /\ stuck \in SUBSET Jobs /\ unsaved \in SUBSET Writes /\ raced \in BOOLEAN
  BY <1>1 DEF Init, Jobs, TaskIDs
<1> QED BY <1>2, <1>3, <1>4, <1>5, <1>6, <1>7 DEF TypeOK, JobRecords, Places

(* Every step keeps the types.                                             *)
LEMMA TypesStep == TypeOK /\ [Next]_vars => TypeOK'
<1> SUFFICES ASSUME TypeOK, [Next]_vars PROVE TypeOK' OBVIOUS
<1> USE BoundAssumption
<1> DEFINE RT == row' \in Rows
           JT == jobs' \in [Jobs -> JobRecords]
           CT == made' \in 0..MaxInstances /\ cloud' \in SUBSET (1..made')
           ST == scripts' \in [Scripts -> [busy: BOOLEAN, instance: Instances \cup {None}]]
           QT == clients' \in [Clients -> [op: Ops, read: Rows]]
           BT == requests' \in 0..MaxRequests /\ faults' \in 0..MaxFaults
           HT == /\ built' \in SUBSET (Instances \cup {None}) /\ spoiled' \in SUBSET Instances
                 /\ stuck' \in SUBSET Jobs /\ unsaved' \in SUBSET Writes /\ raced' \in BOOLEAN
<1>0. SUFFICES RT /\ JT /\ CT /\ ST /\ QT /\ BT /\ HT
  BY DEF TypeOK, JobRecords, Places
<1>T. /\ row \in Rows
      /\ jobs \in [Jobs -> JobRecords]
      /\ made \in 0..MaxInstances /\ cloud \in SUBSET (1..made)
      /\ scripts \in [Scripts -> [busy: BOOLEAN, instance: Instances \cup {None}]]
      /\ clients \in [Clients -> [op: Ops, read: Rows]]
      /\ requests \in 0..MaxRequests /\ faults \in 0..MaxFaults
      /\ built \in SUBSET (Instances \cup {None}) /\ spoiled \in SUBSET Instances
      /\ stuck \in SUBSET Jobs /\ unsaved \in SUBSET Writes /\ raced \in BOOLEAN
  BY DEF TypeOK, JobRecords, Places
<1>R. /\ \A s \in Statuses : UpdateStatus(s) => RT
      /\ Delete => RT
      /\ row' = row => RT
      /\ row.instance \in Instances \cup {None} /\ row.ip \in Instances \cup {None}
  <2>1. /\ \A s \in Statuses : [row EXCEPT !.status = s] \in Rows
        /\ row.instance \in Instances \cup {None} /\ row.ip \in Instances \cup {None}
        /\ row.provider \in {"cloud", "custom"}
    BY <1>T, RowTyped
  <2>2. Delete => RT
    BY <2>1, NewRowTyped DEF Delete
  <2>3. \A s \in Statuses : UpdateStatus(s) => RT
    BY <2>1, <1>T DEF UpdateStatus, UpdateFields
  <2> QED BY <2>1, <2>2, <2>3, <1>T
<1>H. row.hostKey \in Instances \cup {None} /\ Pin \in Instances \cup {None}
  BY <1>T, RowTyped DEF Pin
<1>S. {"starting", "provisioning", "running", "failed", "deleting"} \subseteq Statuses
  BY DEF Statuses
<1>J. /\ \A k \in Jobs, at \in Places, i \in Instances \cup {None} :
           Goto(k, at, i) \in [Jobs -> JobRecords]
      /\ \A k \in Jobs : /\ Enqueue(jobs, k) \in [Jobs -> JobRecords]
                         /\ jobs[k].instance \in Instances \cup {None}
  BY <1>T, JobsTyped DEF Goto
<1>K. TaskIDs \subseteq Jobs /\ Callbacks \subseteq Jobs
  BY DEF Jobs
<1>P. None \in Instances \cup {None} /\ {"free", "queued", "create", "save", "address", "connect",
        "dispatch", "run", "delete", "erase", "archived"} \subseteq Places
  BY DEF Places
<1>I. \A k \in Jobs : Ignored(k) \in SUBSET Jobs
  BY <1>T DEF Ignored
<1>A. /\ \A k \in Jobs : Archived(k) \in [Jobs -> JobRecords]
      /\ \A k, l \in Jobs : Enqueue(Archived(k), l) \in [Jobs -> JobRecords]
      /\ \A k, l \in Jobs : Enqueue(Goto(k, "free", None), l) \in [Jobs -> JobRecords]
  BY <1>J, <1>P, JobsTyped DEF Archived
<1>C. \A k \in Jobs : CleanupAfter(k) \in [Jobs -> JobRecords]
  BY <1>A, <1>K DEF CleanupAfter, TaskIDs
<1>F. Fault => faults' \in 0..MaxFaults
  BY <1>T DEF Fault
<1>O. \A broken : Outage(broken) => faults' \in 0..MaxFaults
  BY <1>T, <1>F DEF Outage
<1>W. /\ {"starting", "connected", "disconnected", "running", "failed"} \subseteq Writes
      /\ \A broken : WriteFailed(broken) => RT /\ unsaved' \in SUBSET Writes
      /\ \A broken : DispatchCleanup(broken) => stuck' \in SUBSET Jobs
  <2>1. \A broken : WriteFailed(broken) => RT /\ unsaved' \in SUBSET Writes
    BY <1>R, <1>S, <1>T DEF WriteFailed
  <2>2. \A broken : DispatchCleanup(broken) => stuck' \in SUBSET Jobs
    BY <1>I, <1>K, <1>T DEF DispatchCleanup, TaskIDs
  <2> QED BY <2>1, <2>2 DEF Writes
<1>Q. Request => requests' \in 0..MaxRequests
  BY <1>T DEF Request
<1>E. \A k \in Jobs : EnqueueTask(k) => JT /\ faults' \in 0..MaxFaults /\ stuck' \in SUBSET Jobs
  BY <1>T, <1>J, <1>I, <1>F DEF EnqueueTask
<1>1. CASE CreateStart
  BY <1>1, <1>T, <1>R, <1>S, <1>J, <1>K, <1>P DEF CreateStart, TaskIDs, history
<1>2. CASE CreateInstance
  <2>1. made + 1 \in Instances /\ made + 1 \in 0..MaxInstances /\ cloud' \in SUBSET (1..made')
    BY <1>2, <1>T DEF CreateInstance, Instances
  <2> QED BY <1>2, <1>T, <1>J, <1>K, <1>P, <2>1 DEF CreateInstance, TaskIDs, history
<1>3. CASE SaveInstance
  <2>1. RT
    BY <1>3, <1>T, <1>J, <1>K, RowTyped DEF SaveInstance, UpdateFields, TaskIDs
  <2> QED BY <1>3, <1>T, <1>J, <1>K, <1>P, <2>1 DEF SaveInstance, TaskIDs, history
<1>4. CASE FindAddress
  <2>1. RT
    <3>1. PICK found \in BOOLEAN :
            UpdateFields([row EXCEPT !.ip = IF found THEN row.instance ELSE @])
      BY <1>4 DEF FindAddress
    <3>2. (IF found THEN row.instance ELSE row.ip) \in Instances \cup {None}
      BY <1>R
    <3>3. [row EXCEPT !.ip = IF found THEN row.instance ELSE @] \in Rows
      BY <1>T, <3>2, RowTyped
    <3> QED BY <1>T, <3>1, <3>3 DEF UpdateFields
  <2> QED BY <1>4, <1>T, <1>J, <1>K, <1>P, <2>1 DEF FindAddress, TaskIDs, history
<1>5. CASE CreateEnds
  BY <1>5, <1>T, <1>A, <1>K DEF CreateEnds, TaskIDs, history
<1>27. CASE CreateFails
  BY <1>27, <1>T, <1>O, <1>W, <1>A, <1>K DEF CreateFails, TaskIDs
<1>6. CASE WaitStart
  BY <1>6, <1>T, <1>R, <1>S, <1>J, <1>K, <1>P DEF WaitStart, TaskIDs, history
<1>7. CASE WaitConnects
  <2>1. PICK broken \in SUBSET {"connected"} :
          /\ Outage(broken)
          /\ UpdateFields([row EXCEPT !.connected = (broken = {} \/ @), !.hostKey = Pin])
          /\ unsaved' = unsaved \cup broken
    BY <1>7 DEF WaitConnects
  <2>2. RT
    <3>1. (broken = {} \/ row.connected) \in BOOLEAN
      BY <1>T, RowTyped
    <3>2. [row EXCEPT !.connected = (broken = {} \/ @), !.hostKey = Pin] \in Rows
      BY <1>T, <1>H, <3>1, RowTyped
    <3> QED BY <2>1, <1>T, <3>2 DEF UpdateFields
  <2>3. faults' \in 0..MaxFaults /\ unsaved' \in SUBSET Writes
    BY <2>1, <1>O, <1>W, <1>T
  <2> QED BY <1>7, <1>T, <1>J, <1>K, <1>P, <2>2, <2>3 DEF WaitConnects, TaskIDs
<1>28. CASE WaitEnds
  BY <1>28, <1>T, <1>A, <1>K DEF WaitEnds, TaskIDs, history
<1>8. CASE WaitFails
  <2>1. PICK key \in {row.hostKey, Pin}, broken \in SUBSET {"failed", "disconnected", "cleanup"} :
          /\ Outage(broken)
          /\ UpdateFields([row EXCEPT !.status = IF "failed" \in broken THEN @ ELSE "failed",
                                      !.connected = "disconnected" \in broken /\ @,
                                      !.hostKey = key])
          /\ unsaved' = unsaved \cup (broken \cap Writes)
          /\ jobs' = IF "cleanup" \in broken THEN Archived("wait_connect")
                     ELSE CleanupAfter("wait_connect")
          /\ DispatchCleanup(broken)
    BY <1>8 DEF WaitFails
  <2>2. RT
    <3>1. /\ (IF "failed" \in broken THEN row.status ELSE "failed") \in Statuses
          /\ ("disconnected" \in broken /\ row.connected) \in BOOLEAN
      BY <1>T, <1>S, RowTyped
    <3>2. \A t \in Statuses, b \in BOOLEAN :
            [row EXCEPT !.status = t, !.connected = b, !.hostKey = key] \in Rows
      <4>1. key \in Instances \cup {None}
        BY <1>H
      <4> QED BY <1>T, <4>1 DEF Rows
    <3>3. [row EXCEPT !.status = IF "failed" \in broken THEN row.status ELSE "failed",
                      !.connected = "disconnected" \in broken /\ row.connected,
                      !.hostKey = key] \in Rows
      BY <3>1, <3>2, Zenon
    <3> QED BY <2>1, <1>T, <3>3 DEF UpdateFields
  <2>3. JT
    BY <2>1, <1>A, <1>C, <1>K DEF TaskIDs
  <2>4. faults' \in 0..MaxFaults /\ unsaved' \in SUBSET Writes /\ stuck' \in SUBSET Jobs
    BY <2>1, <1>O, <1>W, <1>T
  <2> QED BY <1>8, <1>T, <2>2, <2>3, <2>4 DEF WaitFails
<1>9. CASE ProvisionStart
  BY <1>9, <1>T, <1>R, <1>S, <1>J, <1>K, <1>P DEF ProvisionStart, TaskIDs, history
<1>10. ASSUME NEW s \in Scripts, ProvisionRuns(s) PROVE RT /\ JT /\ CT /\ ST /\ QT /\ BT /\ HT
  <2>1. ST
    BY <1>10, <1>T, <1>J, <1>K DEF ProvisionRuns, TaskIDs
  <2> QED BY <1>10, <1>T, <1>J, <1>K, <1>P, <2>1 DEF ProvisionRuns, TaskIDs, history
<1>V. \A i : Spoiled(i) \in SUBSET Instances
  <2>1. cloud \subseteq Instances
    BY <1>T DEF Instances
  <2> QED BY <1>T, <2>1 DEF Spoiled
<1>11. CASE ProvisionFails
  <2>1. PICK broken \in SUBSET {"failed", "cleanup"} :
          LET dispatched == row.present /\ "cleanup" \notin broken
              failed == IF dispatched THEN CleanupAfter("provision") ELSE Archived("provision") IN
          /\ Outage(broken) /\ WriteFailed(broken)
          /\ \/ jobs' = failed
             \/ /\ jobs["provision"].at = "run" /\ "failed" \notin broken
                /\ \E c \in Callbacks : jobs[c].at = "free" /\ jobs' = Enqueue(failed, c)
          /\ IF row.present THEN DispatchCleanup(broken) ELSE UNCHANGED stuck
    BY <1>11 DEF ProvisionFails
  <2>2. JT
    <3> DEFINE failed == IF row.present /\ "cleanup" \notin broken THEN CleanupAfter("provision")
                         ELSE Archived("provision")
    <3>1. failed \in [Jobs -> JobRecords]
      BY <1>A, <1>C, <1>K DEF TaskIDs
    <3>2. \A c \in Callbacks : Enqueue(failed, c) \in [Jobs -> JobRecords]
      BY <3>1, <1>K, JobsTyped
    <3> QED BY <2>1, <3>1, <3>2
  <2>3. HT
    BY <1>11, <2>1, <1>V, <1>W, <1>T DEF ProvisionFails
  <2> QED BY <1>11, <1>T, <1>W, <1>O, <2>1, <2>2, <2>3 DEF ProvisionFails
<1>12. ASSUME NEW s \in Scripts, OnSuccess(s) PROVE RT /\ JT /\ CT /\ ST /\ QT /\ BT /\ HT
  <2>1. ST /\ HT /\ BT
    BY <1>12, <1>T, <1>W, <1>F DEF OnSuccess, ScriptDone
  <2> QED BY <1>12, <1>T, <1>R, <1>S, <2>1 DEF OnSuccess
<1>13. ASSUME NEW s \in Scripts, OnFailure(s) PROVE RT /\ JT /\ CT /\ ST /\ QT /\ BT /\ HT
  <2>1. ST /\ HT /\ BT
    BY <1>13, <1>T, <1>V, <1>W, <1>F, <1>K DEF OnFailure, ScriptDone, TaskIDs
  <2>2. RT /\ JT
    BY <1>13, <1>T, <1>R, <1>S, <1>J, <1>K, <1>W DEF OnFailure
  <2> QED BY <1>13, <1>T, <2>1, <2>2 DEF OnFailure
<1>L. Cleanups \subseteq Jobs
  BY <1>K DEF Cleanups, TaskIDs
<1>14. ASSUME NEW k \in Cleanups, CleanupStart(k) PROVE RT /\ JT /\ CT /\ ST /\ QT /\ BT /\ HT
  BY <1>14, <1>T, <1>R, <1>S, <1>J, <1>L, <1>P, <1>F DEF CleanupStart, history
<1>15. ASSUME NEW k \in Cleanups, CleanupDeletes(k) PROVE RT /\ JT /\ CT /\ ST /\ QT /\ BT /\ HT
  <2>1. CT /\ stuck' \in SUBSET Jobs /\ faults' \in 0..MaxFaults
    BY <1>15, <1>T, <1>L, <1>F DEF CleanupDeletes
  <2> QED BY <1>15, <1>T, <1>J, <1>L, <1>P, <2>1 DEF CleanupDeletes
<1>16. ASSUME NEW k \in Cleanups, CleanupFails(k) PROVE RT /\ JT /\ CT /\ ST /\ QT /\ BT /\ HT
  <2>1. JT /\ stuck' \in SUBSET Jobs /\ faults' \in 0..MaxFaults
    BY <1>16, <1>T, <1>L, <1>F, <1>A, <1>J, <1>P DEF CleanupFails
  <2> QED BY <1>16, <1>T, <1>R, <1>S, <2>1 DEF CleanupFails
<1>17. ASSUME NEW c \in Clients, DeleteServer(c)
       PROVE  RT /\ JT /\ CT /\ ST /\ QT /\ BT /\ HT
  <2>1. QT
    BY <1>17, <1>T DEF DeleteServer, Ops, Dispatched
  <2> QED BY <1>17, <1>T, <1>R, <1>S, <1>Q, <1>F, <1>K, <2>1 DEF DeleteServer, TaskIDs
<1>18. CASE DeleteStart
  BY <1>18, <1>T, <1>R, <1>J, <1>K, <1>P DEF DeleteStart, TaskIDs, history
<1>29. CASE DeleteInstance
  <2>1. CT /\ BT
    BY <1>29, <1>T, <1>F DEF DeleteInstance
  <2> QED BY <1>29, <1>T, <1>R, <1>J, <1>K, <1>P, <2>1 DEF DeleteInstance, TaskIDs, history
<1>19. CASE DeleteEnds
  BY <1>19, <1>T, <1>R, <1>J, <1>K, <1>P DEF DeleteEnds, TaskIDs
<1>30. CASE DeleteFails
  <2>1. stuck' \in SUBSET Jobs /\ BT
    BY <1>30, <1>T, <1>F, <1>K DEF DeleteFails, TaskIDs
  <2> QED BY <1>30, <1>T, <1>R, <1>A, <1>K, <2>1 DEF DeleteFails, TaskIDs
<1>Y. \A c \in Clients, op \in {"retry", "try", "update"} :
        Read(c, op) => RT /\ JT /\ CT /\ ST /\ QT /\ BT /\ HT
  <2> SUFFICES ASSUME NEW c \in Clients, NEW op \in {"retry", "try", "update"}, Read(c, op)
               PROVE  RT /\ JT /\ CT /\ ST /\ QT /\ BT /\ HT
    OBVIOUS
  <2>1. op \in Ops
    BY DEF Ops, Requests
  <2> QED BY <1>T, <1>Q, <2>1 DEF Read, history
<1>Z. \A c \in Clients, next \in Ops : Decide(c, next) => QT /\ raced' \in BOOLEAN
  BY <1>T, NewRowTyped DEF Decide, Quiet
<1>20. ASSUME NEW c \in Clients, RetryProvision(c) \/ TryConnection(c) \/ UpdateServer(c)
       PROVE  RT /\ JT /\ CT /\ ST /\ QT /\ BT /\ HT
  BY <1>20, <1>Y DEF RetryProvision, TryConnection, UpdateServer
<1>21. ASSUME NEW c \in Clients, RetryReset(c) PROVE RT /\ JT /\ CT /\ ST /\ QT /\ BT /\ HT
  <2>1. QT /\ raced' \in BOOLEAN
    BY <1>21, <1>Z DEF RetryReset, Ops, Dispatched
  <2> QED BY <1>21, <1>T, <1>R, <1>S, <1>F, <1>W, <2>1 DEF RetryReset
<1>22. ASSUME NEW c \in Clients, TryPersist(c) PROVE RT /\ JT /\ CT /\ ST /\ QT /\ BT /\ HT
  <2>1. RT
    BY <1>22, <1>T, <1>S, RowTyped DEF TryPersist, UpdateFields
  <2>2. QT /\ raced' \in BOOLEAN
    BY <1>22, <1>Z DEF TryPersist, Ops, Dispatched
  <2> QED BY <1>22, <1>T, <2>1, <2>2 DEF TryPersist
<1>31. ASSUME NEW c \in Clients, Dispatch(c) PROVE RT /\ JT /\ CT /\ ST /\ QT /\ BT /\ HT
  <2>1. QT
    BY <1>31, <1>T, NewRowTyped DEF Dispatch, Quiet, Ops
  <2> QED BY <1>31, <1>T, <1>R, <1>E, <1>K, <2>1 DEF Dispatch, Dispatched, TaskIDs
<1>23. ASSUME NEW c \in Clients, UpdateSave(c) PROVE RT /\ JT /\ CT /\ ST /\ QT /\ BT /\ HT
  <2>1. QT /\ raced' \in BOOLEAN
    BY <1>23, <1>Z DEF UpdateSave, Ops
  <2> QED BY <1>23, <1>T, <2>1 DEF UpdateSave
<1>24. CASE Archive \/ Unarchive \/ ConnectServer \/ UpdateConnectivity
  <2>1. /\ \A b \in BOOLEAN, key \in {row.hostKey, Pin} :
             [row EXCEPT !.connected = b, !.hostKey = key] \in Rows
        /\ \A t \in Statuses, b \in BOOLEAN :
             [row EXCEPT !.archived = b, !.status = t] \in Rows
        /\ {"archived", "stopped"} \subseteq Statuses
    BY <1>T, <1>H, RowTyped DEF Statuses
  <2>2. Archive \/ Unarchive => RT
    BY <2>1, <1>T DEF Archive, Unarchive, UpdateFields
  <2>3. ConnectServer \/ UpdateConnectivity => RT
    BY <2>1, <1>T DEF ConnectServer, UpdateConnectivity, UpdateFields
  <2> QED BY <1>24, <1>T, <1>Q, <2>2, <2>3
          DEF Archive, Unarchive, ConnectServer, UpdateConnectivity, history
<1>25. ASSUME NEW k \in Jobs, WorkerDies(k) PROVE RT /\ JT /\ CT /\ ST /\ QT /\ BT /\ HT
  BY <1>25, <1>T, <1>F, <1>A, <1>J, <1>P DEF WorkerDies
<1>26. CASE UNCHANGED vars
  BY <1>26, <1>T DEF vars
<1> QED
  BY <1>1, <1>2, <1>3, <1>4, <1>5, <1>6, <1>7, <1>8, <1>9, <1>10, <1>11, <1>12, <1>13, <1>14,
     <1>15, <1>16, <1>17, <1>18, <1>19, <1>20, <1>21, <1>22, <1>23, <1>24, <1>25, <1>26, <1>27,
     <1>28, <1>29, <1>30, <1>31
  DEF Next, Create, Wait, Provision, DeleteJob, Script, Cleanup, Finish
-----------------------------------------------------------------------------
(* Requests and progress *)

(* A change of the status keeps the other columns.                         *)
LEMMA Columns ==
  ASSUME NEW r \in Rows
  PROVE  \A s : LET n == [r EXCEPT !.status = s] IN
           /\ n.status = s /\ n.present = r.present /\ n.provider = r.provider
           /\ n.connected = r.connected /\ n.instance = r.instance /\ n.ip = r.ip
BY DEF Rows

(* The columns of a row that is gone.                                      *)
LEMMA GoneColumns ==
  ASSUME NEW p
  PROVE  LET n == [NewRow(p) EXCEPT !.present = FALSE] IN
           /\ ~n.present /\ n.provider = p /\ n.instance = None /\ n.ip = None
           /\ ~n.connected /\ n.status \in {"new", "awaiting_connection"}
BY DEF NewRow

(* Where the jobs are after one has moved.                                 *)
LEMMA Moves ==
  ASSUME NEW j \in [Jobs -> JobRecords], NEW k \in Jobs
  PROVE  /\ \A l \in Jobs \ {k} : Enqueue(j, k)[l] = j[l]
         /\ Enqueue(j, k)[k].at = IF j[k].at = "free" THEN "queued" ELSE j[k].at
         /\ Enqueue(j, k)[k].instance = j[k].instance
         /\ \A at, i : LET n == [j EXCEPT ![k] = [at |-> at, instance |-> i]] IN
              /\ \A l \in Jobs \ {k} : n[l] = j[l]
              /\ n[k].at = at /\ n[k].instance = i
BY DEF JobRecords, Enqueue

(* The provider of a server never changes.                                 *)
LEMMA ProviderStep ==
  ASSUME TypeOK, RequestKnows, [Next]_vars
  PROVE  row'.provider = row.provider
<1>1. row \in Rows
  BY DEF TypeOK
<1>2. \A s : UpdateStatus(s) => row'.provider = row.provider
  BY <1>1, Columns DEF UpdateStatus, UpdateFields
<1>3. Delete => row'.provider = row.provider
  BY GoneColumns DEF Delete
<1>W. \A broken : WriteFailed(broken) => row'.provider = row.provider
  BY <1>2 DEF WriteFailed
<1>4. Create => row'.provider = row.provider
  <2>1. FindAddress => row'.provider = row.provider
    BY <1>1 DEF FindAddress, UpdateFields, Rows
  <2>2. SaveInstance => row'.provider = row.provider
    BY <1>1 DEF SaveInstance, UpdateFields, Rows
  <2>3. CreateFails => row'.provider = row.provider
    BY <1>W DEF CreateFails
  <2> QED BY <1>2, <2>1, <2>2, <2>3 DEF Create, CreateStart, CreateInstance, CreateEnds
<1>5. Wait => row'.provider = row.provider
  <2>1. \A b, key : [row EXCEPT !.connected = b, !.hostKey = key].provider = row.provider
    BY <1>1 DEF Rows
  <2>2. \A t, b, key :
          [row EXCEPT !.status = t, !.connected = b, !.hostKey = key].provider = row.provider
    BY <1>1 DEF Rows
  <2>3. WaitConnects => row'.provider = row.provider
    BY <2>1 DEF WaitConnects, UpdateFields
  <2>4. WaitFails => row'.provider = row.provider
    BY <2>2 DEF WaitFails, UpdateFields
  <2> QED BY <1>2, <2>3, <2>4 DEF Wait, WaitStart, WaitEnds
<1>6. Provision \/ DeleteJob => row'.provider = row.provider
  BY <1>2, <1>3, <1>W DEF Provision, ProvisionStart, ProvisionFails, ProvisionRuns, DeleteJob,
     DeleteStart, DeleteInstance, DeleteEnds, DeleteFails
<1>7. \A s \in Scripts : Script(s) => row'.provider = row.provider
  BY <1>2, <1>W DEF Script, OnSuccess, OnFailure
<1>8. \A k \in Cleanups : Cleanup(k) => row'.provider = row.provider
  BY <1>2 DEF Cleanup, CleanupStart, CleanupDeletes, CleanupFails
<1>9. \A c \in Clients : \/ RetryProvision(c) \/ TryConnection(c) \/ UpdateServer(c) \/ Finish(c)
                        \/ DeleteServer(c)
                        => row'.provider = row.provider
  <2>1. \A c \in Clients : TryPersist(c) => row'.provider = row.provider
    BY <1>1 DEF TryPersist, UpdateFields, Rows
  <2>2. \A c \in Clients : UpdateSave(c) => row'.provider = row.provider
    BY DEF UpdateSave, RequestKnows, Requests
  <2>3. \A c \in Clients : RetryReset(c) \/ Dispatch(c) \/ DeleteServer(c)
                          => row'.provider = row.provider
    BY <1>2, <1>3 DEF RetryReset, Dispatch, DeleteServer
  <2> QED BY <2>1, <2>2, <2>3
          DEF RetryProvision, TryConnection, UpdateServer, Read, Finish
<1>10. Archive \/ Unarchive \/ ConnectServer \/ UpdateConnectivity => row'.provider = row.provider
  BY <1>1 DEF Archive, Unarchive, ConnectServer, UpdateConnectivity, UpdateFields, Rows
<1>11. \A k \in Jobs : WorkerDies(k) => row'.provider = row.provider
  BY DEF WorkerDies
<1> QED BY <1>4, <1>5, <1>6, <1>7, <1>8, <1>9, <1>10, <1>11 DEF Next, vars

(* RequestKnows is inductive by itself.                                    *)
LEMMA RequestStep ==
  ASSUME TypeOK, RequestKnows, [Next]_vars
  PROVE  RequestKnows'
<1>1. row'.provider = row.provider
  BY ProviderStep
<1>2. clients' = clients => RequestKnows'
  BY <1>1 DEF RequestKnows
<1>3. ASSUME NEW c \in Clients, NEW op, op \notin Requests,
             \A d \in Clients \ {c} : clients'[d] = clients[d], clients'[c].op = op
      PROVE  RequestKnows'
  BY <1>1, <1>3 DEF RequestKnows
<1>4. ASSUME NEW c \in Clients, NEW op \in {"retry", "try", "update"}, Read(c, op),
             op = "update" => row.status = "running", op = "retry" => row.status = "failed",
             op = "try" => row.provider = "custom"
      PROVE  RequestKnows'
  BY <1>1, <1>4 DEF RequestKnows, Read, TypeOK
<1>I. "idle" \notin Requests /\ Dispatched \cap Requests = {}
  BY DEF Requests, Dispatched
<1>D. \A c \in Clients : \A next : Decide(c, next) => /\ \A d \in Clients \ {c} : clients'[d] = clients[d]
                                                /\ clients'[c].op = next
  BY DEF Decide, Quiet, TypeOK
<1>5. ASSUME NEW c \in Clients, Finish(c) PROVE RequestKnows'
  <2>1. RetryReset(c) \/ TryPersist(c) \/ UpdateSave(c) => RequestKnows'
    BY <1>3, <1>I, <1>D DEF RetryReset, TryPersist, UpdateSave, Dispatched
  <2>2. ASSUME Dispatch(c) PROVE RequestKnows'
    <3>1. (\A d \in Clients \ {c} : clients'[d] = clients[d]) /\ clients'[c].op = "idle"
      BY <2>2 DEF Dispatch, Quiet, TypeOK
    <3> QED BY <3>1, <1>3, <1>I
  <2> QED BY <1>5, <2>1, <2>2 DEF Finish
<1>10. ASSUME NEW c \in Clients, DeleteServer(c) PROVE RequestKnows'
  <2>1. CASE clients' = clients
    BY <2>1, <1>2
  <2>2. CASE clients' = [clients EXCEPT ![c].op = "delete_server"]
    <3>1. (\A d \in Clients \ {c} : clients'[d] = clients[d]) /\ clients'[c].op = "delete_server"
      BY <2>2 DEF TypeOK
    <3> QED BY <3>1, <1>3, <1>I DEF Dispatched
  <2> QED BY <1>10, <2>1, <2>2 DEF DeleteServer
<1>6. \A c \in Clients : RetryProvision(c) \/ TryConnection(c) \/ UpdateServer(c) => RequestKnows'
  BY <1>4 DEF RetryProvision, TryConnection, UpdateServer
<1>7. Create \/ Wait \/ Provision \/ DeleteJob => RequestKnows'
  BY <1>2 DEF Create, CreateStart, CreateInstance, SaveInstance, FindAddress, CreateEnds,
     CreateFails, Wait, WaitStart, WaitConnects, WaitEnds, WaitFails, Provision, ProvisionStart,
     ProvisionFails, ProvisionRuns, DeleteJob, DeleteStart, DeleteInstance, DeleteEnds, DeleteFails
<1>8. /\ \A s \in Scripts : Script(s) => RequestKnows'
      /\ \A k \in Cleanups : Cleanup(k) => RequestKnows'
      /\ \A k \in Jobs : WorkerDies(k) => RequestKnows'
  BY <1>2 DEF Script, OnSuccess, OnFailure, Cleanup, CleanupStart, CleanupDeletes, CleanupFails,
     WorkerDies
<1>9. Archive \/ Unarchive \/ ConnectServer \/ UpdateConnectivity => RequestKnows'
  BY <1>2 DEF Archive, Unarchive, ConnectServer, UpdateConnectivity
<1> QED BY <1>2, <1>5, <1>6, <1>7, <1>8, <1>9, <1>10 DEF Next, vars

(* The jobs of the chain and the cleanups are different jobs.              *)
LEMMA Kinds ==
  /\ Chain \subseteq TaskIDs /\ TaskIDs \subseteq Jobs /\ Cleanups \subseteq Jobs
  /\ Chain \cap Cleanups = {} /\ "delete_server" \notin Chain
  /\ Callbacks \subseteq Cleanups /\ Callbacks \cap TaskIDs = {}
  /\ Dispatched \subseteq TaskIDs /\ Dispatched \cap Cleanups = {}
  /\ Requests \cap Jobs = {} /\ "idle" \notin Jobs
BY CallbackAssumption DEF Chain, TaskIDs, Jobs, Cleanups, Ops, Requests, Dispatched

(* A status that shows progress has somebody who will end it.              *)
LEMMA ProgressStep ==
  ASSUME TypeOK, RequestKnows, InProgressIsOwned, [Next]_vars
  PROVE  InProgressIsOwned'
<1>T. row \in Rows /\ jobs \in [Jobs -> JobRecords]
  BY DEF TypeOK, JobRecords, Places
<1>1. /\ \A s \in {"failed", "running", "deleting"} : UpdateStatus(s) => InProgressIsOwned'
      /\ Delete => InProgressIsOwned'
  <2>1. Delete => ~row'.present
    BY GoneColumns DEF Delete
  <2>2. \A s : UpdateStatus(s) /\ row'.present => row'.status = s
    BY <1>T, Columns DEF UpdateStatus, UpdateFields
  <2> QED BY <2>1, <2>2 DEF InProgressIsOwned
<1>2. ASSUME NEW k \in Chain, jobs'[k].at \notin {"free", "archived"}
      PROVE  InProgressIsOwned'
  BY <1>2 DEF InProgressIsOwned, AtWork, Asked
<1>C. ASSUME NEW c \in Clients, clients'[c].op \in Chain
      PROVE  InProgressIsOwned'
  BY <1>C DEF InProgressIsOwned, AtWork, Asked
<1>U. unsaved' \cap {"running", "failed"} # {} => InProgressIsOwned'
  BY DEF InProgressIsOwned
<1>W. \A broken : WriteFailed(broken) => InProgressIsOwned'
  BY <1>1, <1>U DEF WriteFailed, Writes
<1>3. ASSUME row'.present => row.present /\ row'.status = row.status,
             \A k \in Chain : AtWork(k) => AtWork(k)' \/ k \in stuck',
             scripts' = scripts, stuck \subseteq stuck', unsaved \subseteq unsaved'
      PROVE  InProgressIsOwned'
  BY <1>3 DEF InProgressIsOwned
<1>G. \A at, i : \A k \in Chain :
        jobs' = Goto(k, at, i) /\ at \notin {"free", "archived"} => InProgressIsOwned'
  BY <1>2, <1>T, Moves, Kinds DEF Goto
<1>E. \A k \in Chain : EnqueueTask(k) => InProgressIsOwned'
  <2> SUFFICES ASSUME NEW k \in Chain, EnqueueTask(k) PROVE InProgressIsOwned'
    OBVIOUS
  <2>1. CASE k \in stuck'
    BY <2>1 DEF InProgressIsOwned
  <2>2. CASE k \notin stuck'
    <3>1. jobs' = Enqueue(jobs, k) /\ jobs[k].at # "archived"
      BY <2>2 DEF EnqueueTask, Ignored
    <3>2. jobs'[k].at \notin {"free", "archived"}
      BY <3>1, <1>T, Moves, Kinds
    <3> QED BY <3>2, <1>2
  <2> QED BY <2>1, <2>2
<1>N. {"create_on_provider", "wait_connect", "provision"} \subseteq Chain
  BY DEF Chain
<1>4. \/ CreateStart \/ CreateInstance \/ SaveInstance \/ FindAddress \/ WaitStart \/ WaitConnects
      \/ ProvisionStart
      => InProgressIsOwned'
  <2>1. CreateStart \/ CreateInstance \/ SaveInstance => InProgressIsOwned'
    BY <1>G, <1>N DEF CreateStart, CreateInstance, SaveInstance
  <2>2. FindAddress \/ WaitStart \/ ProvisionStart => InProgressIsOwned'
    BY <1>G, <1>N DEF FindAddress, WaitStart, ProvisionStart
  <2>3. WaitConnects => InProgressIsOwned'
    <3>1. WaitConnects => jobs' = Goto("wait_connect", "dispatch", None)
      BY DEF WaitConnects
    <3> QED BY <3>1, <1>G, <1>N
  <2> QED BY <2>1, <2>2, <2>3
<1>F. \A j \in [Jobs -> JobRecords], k \in Chain, l \in Chain :
        k # l /\ jobs' = Enqueue([j EXCEPT ![k] = [at |-> "free", instance |-> None]], l)
        /\ j[l].at = "free"
        => InProgressIsOwned'
  <2> SUFFICES ASSUME NEW j \in [Jobs -> JobRecords], NEW k \in Chain, NEW l \in Chain, k # l,
                      jobs' = Enqueue([j EXCEPT ![k] = [at |-> "free", instance |-> None]], l),
                      j[l].at = "free"
               PROVE  InProgressIsOwned'
    OBVIOUS
  <2> DEFINE n == [j EXCEPT ![k] = [at |-> "free", instance |-> None]]
  <2>1. k \in Jobs /\ l \in Jobs
    BY Kinds
  <2>2. n \in [Jobs -> JobRecords]
    BY <2>1, JobsTyped DEF Places
  <2>3. n[l].at = "free"
    BY <2>1, Moves
  <2>4. Enqueue(n, l)[l].at = "queued"
    BY <2>1, <2>2, <2>3, Moves
  <2> QED BY <2>4, <1>2
<1>5. CASE CreateEnds
  BY <1>5, <1>F, <1>T, <1>N DEF CreateEnds, Goto
<1>6. CASE WaitEnds
  BY <1>6, <1>F, <1>T, <1>N DEF WaitEnds, Goto
<1>7. CreateFails \/ ProvisionFails => InProgressIsOwned'
  BY <1>W DEF CreateFails, ProvisionFails
<1>8. CASE WaitFails
  <2>1. PICK key \in {row.hostKey, Pin}, broken \in SUBSET {"failed", "disconnected", "cleanup"} :
          /\ UpdateFields([row EXCEPT !.status = IF "failed" \in broken THEN @ ELSE "failed",
                                      !.connected = "disconnected" \in broken /\ @,
                                      !.hostKey = key])
          /\ unsaved' = unsaved \cup (broken \cap Writes)
    BY <1>8 DEF WaitFails
  <2>2. CASE "failed" \in broken
    BY <2>1, <2>2, <1>U DEF Writes
  <2>3. CASE "failed" \notin broken
    <3>1. row'.present => row'.status = "failed"
      BY <2>1, <2>3, <1>T DEF UpdateFields, Rows
    <3> QED BY <3>1 DEF InProgressIsOwned
  <2> QED BY <2>2, <2>3
<1>9. ASSUME NEW s \in Scripts, ProvisionRuns(s) PROVE InProgressIsOwned'
  <2>1. scripts'[s].busy
    BY <1>9 DEF ProvisionRuns, TypeOK
  <2> QED BY <2>1 DEF InProgressIsOwned
<1>10. \A s \in Scripts : OnSuccess(s) \/ OnFailure(s) => InProgressIsOwned'
  BY <1>1, <1>U, <1>W DEF OnSuccess, OnFailure
<1>11. ASSUME NEW k \in Jobs \ Chain, \A l \in Jobs \ {k} : jobs'[l] = jobs[l],
              row' = row \/ UpdateStatus("failed") \/ UpdateStatus("deleting"),
              scripts' = scripts, clients' = clients,
              stuck \subseteq stuck', unsaved \subseteq unsaved'
       PROVE  InProgressIsOwned'
  <2>1. \A l \in Chain : AtWork(l)' = AtWork(l)
    BY <1>11, Kinds DEF AtWork, Asked
  <2> QED BY <1>1, <1>3, <1>11, <2>1
<1>M. \A k \in Jobs : \A at, i : jobs' = Goto(k, at, i) => \A l \in Jobs \ {k} : jobs'[l] = jobs[l]
  BY <1>T, Moves DEF Goto
<1>13. ASSUME NEW k \in Cleanups, Cleanup(k) PROVE InProgressIsOwned'
  <2>1. k \in Jobs \ Chain
    BY Kinds
  <2>2. CASE CleanupStart(k)
    <3>1. \A l \in Jobs \ {k} : jobs'[l] = jobs[l]
      BY <2>1, <2>2, <1>M DEF CleanupStart
    <3> QED BY <2>1, <2>2, <3>1, <1>11 DEF CleanupStart, history
  <2>3. CASE CleanupDeletes(k)
    <3>1. \A l \in Jobs \ {k} : jobs'[l] = jobs[l]
      BY <2>1, <2>3, <1>M DEF CleanupDeletes
    <3>2. stuck \subseteq stuck'
      BY <2>3 DEF CleanupDeletes
    <3> QED BY <2>1, <2>3, <3>1, <3>2, <1>11 DEF CleanupDeletes
  <2>4. CASE CleanupFails(k)
    <3>1. \A l \in Jobs \ {k} : jobs'[l] = jobs[l]
      BY <2>1, <2>4, <1>M DEF CleanupFails, Archived
    <3>2. stuck \subseteq stuck'
      BY <2>4 DEF CleanupFails
    <3> QED BY <2>1, <2>4, <3>1, <3>2, <1>11 DEF CleanupFails
  <2> QED BY <1>13, <2>2, <2>3, <2>4 DEF Cleanup
<1>14. DeleteEnds \/ (\E c \in Clients : DeleteServer(c)) => InProgressIsOwned'
  BY <1>1 DEF DeleteServer, DeleteEnds
<1>15. CASE DeleteStart \/ DeleteInstance \/ DeleteFails
  <2>1. "delete_server" \in Jobs \ Chain
    BY Kinds DEF TaskIDs
  <2>2. \A l \in Jobs \ {"delete_server"} : jobs'[l] = jobs[l]
    BY <1>15, <2>1, <1>M DEF DeleteStart, DeleteInstance, DeleteFails, Archived
  <2>3. stuck \subseteq stuck' /\ row' = row
    BY <1>15 DEF DeleteStart, DeleteInstance, DeleteFails, history
  <2> QED BY <1>15, <2>1, <2>2, <2>3, <1>11 DEF DeleteStart, DeleteInstance, DeleteFails, history
<1>16. ASSUME NEW c \in Clients, RetryProvision(c) \/ TryConnection(c) \/ UpdateServer(c)
       PROVE  InProgressIsOwned'
  <2>1. PICK op \in Requests : Read(c, op)
    BY <1>16 DEF RetryProvision, TryConnection, UpdateServer, Requests
  <2>2. \A l \in Chain : AtWork(l) => AtWork(l)'
    <3>1. /\ jobs' = jobs /\ clients[c].op = "idle"
          /\ \A d \in Clients \ {c} : clients'[d] = clients[d]
      BY <2>1 DEF Read, TypeOK
    <3>2. "idle" \notin Chain
      BY DEF Chain
    <3> QED BY <3>1, <3>2 DEF AtWork, Asked
  <2> QED BY <2>1, <2>2, <1>3 DEF Read, history
<1>17. ASSUME NEW c \in Clients, RetryReset(c) \/ TryPersist(c) PROVE InProgressIsOwned'
  <2>1. clients'[c].op \in Chain
    BY <1>17 DEF RetryReset, TryPersist, Decide, Quiet, TypeOK, Chain
  <2> QED BY <1>C, <2>1
<1>23. ASSUME NEW c \in Clients, Dispatch(c) PROVE InProgressIsOwned'
  <2>1. CASE clients[c].op \in Chain
    BY <1>23, <2>1, <1>E DEF Dispatch
  <2>2. CASE clients[c].op \notin Chain
    <3>1. clients[c].op \in Jobs \ Chain
      BY <1>23, <2>2, Kinds DEF Dispatch
    <3>2. \A l \in Jobs \ {clients[c].op} : jobs'[l] = jobs[l]
      BY <1>23, <3>1, <1>T, Moves DEF Dispatch, EnqueueTask
    <3>3. \A l \in Chain : AtWork(l) => AtWork(l)'
      <4>1. \A d \in Clients \ {c} : clients'[d] = clients[d]
        BY <1>23 DEF Dispatch, TypeOK
      <4> QED BY <2>2, <3>1, <3>2, <4>1, Kinds DEF AtWork, Asked
    <3>4. stuck \subseteq stuck'
      BY <1>23 DEF Dispatch, EnqueueTask, Ignored
    <3> QED BY <1>23, <3>3, <3>4, <1>3 DEF Dispatch
  <2> QED BY <2>1, <2>2
<1>18. ASSUME NEW c \in Clients, UpdateSave(c) PROVE InProgressIsOwned'
  <2>1. row'.status = "running"
    BY <1>18 DEF UpdateSave, RequestKnows, Requests
  <2> QED BY <2>1 DEF InProgressIsOwned
<1>19. CASE Archive \/ Unarchive
  <2>1. row'.present => row'.status \in {"archived", "stopped"}
    BY <1>19, <1>T DEF Archive, Unarchive, UpdateFields, Rows
  <2> QED BY <2>1 DEF InProgressIsOwned
<1>20. CASE ConnectServer \/ UpdateConnectivity
  <2>1. row'.present => row.present /\ row'.status = row.status
    BY <1>20, <1>T DEF ConnectServer, UpdateConnectivity, UpdateFields, Rows
  <2> QED BY <1>20, <2>1, <1>3 DEF ConnectServer, UpdateConnectivity, history, AtWork, Asked
<1>21. ASSUME NEW k \in Jobs, WorkerDies(k) PROVE InProgressIsOwned'
  <2>1. PICK at : /\ jobs' = Goto(k, at, None)
                  /\ at = "queued" \/ k \in stuck'
    BY <1>21 DEF WorkerDies, Archived
  <2>2. \A l \in Chain : AtWork(l) => AtWork(l)' \/ l \in stuck'
    <3>1. clients' = clients
      BY <1>21 DEF WorkerDies
    <3>2. \A l \in Jobs \ {k} : jobs'[l] = jobs[l]
      BY <2>1, <1>M
    <3>3. jobs'[k].at = at
      BY <2>1, <1>T, Moves DEF Goto
    <3> QED BY <2>1, <3>1, <3>2, <3>3, Kinds DEF AtWork, Asked
  <2>3. stuck \subseteq stuck'
    BY <1>21 DEF WorkerDies
  <2> QED BY <1>21, <2>2, <2>3, <1>3 DEF WorkerDies
<1>22. UNCHANGED vars => InProgressIsOwned'
  BY <1>3 DEF vars, AtWork, Asked
<1> QED
  BY <1>4, <1>5, <1>6, <1>7, <1>8, <1>9, <1>10, <1>13, <1>14, <1>15, <1>16, <1>17, <1>18,
     <1>19, <1>20, <1>21, <1>22, <1>23
  DEF Next, Create, Wait, Provision, DeleteJob, Script, Finish

-----------------------------------------------------------------------------
(* Servers with one chain of jobs *)

(* The part of LifeInv that holds until two chains have crossed.           *)
Straight ==
  /\ CustomIsWhole /\ CreateAlone /\ WaitAlone /\ ProvisionIsConnected /\ DispatchIsConnected
  /\ CleanupComesLate /\ ConnectedIsAddressed /\ TargetIsInstance /\ RunningIsBuilt

(* Straight holds initially.                                               *)
LEMMA StraightInit == Init => Straight /\ CreateOnce
<1> SUFFICES ASSUME Init PROVE Straight /\ CreateOnce OBVIOUS
<1>1. PICK p \in {"cloud", "custom"}, refused \in BOOLEAN :
        /\ row = NewRow(p)
        /\ jobs = [k \in Jobs |-> IF k = "create_on_provider" /\ p = "cloud" /\ ~refused
                                  THEN [Free EXCEPT !.at = "queued"] ELSE Free]
  BY DEF Init
<1>2. /\ row.provider = p /\ ~row.connected /\ row.instance = None /\ row.ip = None
      /\ row.status \in {"new", "awaiting_connection"}
  BY <1>1 DEF NewRow
<1>3. \A k \in Jobs : jobs[k].at = IF k = "create_on_provider" /\ p = "cloud" /\ ~refused
                                  THEN "queued" ELSE "free"
  BY <1>1 DEF Free
<1>4. (\A s \in Scripts : ~scripts[s].busy) /\ \A k \in Jobs : ~Asked(k)
  BY Kinds DEF Init, Asked, Quiet
<1>5. /\ {"create_on_provider", "wait_connect", "provision"} \subseteq Jobs
      /\ "create_on_provider" \notin Cleanups /\ Cleanups \subseteq Jobs
  BY Kinds DEF Chain
<1>6. CreateOnce
  BY <1>4, <1>5, Kinds DEF CreateOnce, Asked
<1>7. Straight
  BY <1>2, <1>3, <1>4, <1>5
  DEF Straight, CustomIsWhole, CreateAlone, WaitAlone, ProvisionIsConnected, DispatchIsConnected,
      CleanupComesLate, ConnectedIsAddressed, TargetIsInstance, RunningIsBuilt, AtWork,
      Provisioning
<1> QED BY <1>6, <1>7

(* The first two jobs of the chain work on a row that is not connected and *)
(* not running, and hand it to the third with its address.                 *)
LEMMA StraightChain ==
  ASSUME TypeOK, Straight, CreateOnce, ~Crossed, ~Crossed', Create \/ Wait \/ Provision
  PROVE  Straight'
<1> USE DEF Straight, CustomIsWhole, CreateAlone, WaitAlone, ProvisionIsConnected,
            DispatchIsConnected, CleanupComesLate, ConnectedIsAddressed, TargetIsInstance,
            RunningIsBuilt, Crossed, AtWork,
            Provisioning, UpdateStatus, UpdateFields, Rows, Goto, Archived, CleanupAfter, Enqueue,
            JobRecords, history
<1>1. row \in Rows /\ jobs \in [Jobs -> JobRecords]
  BY DEF TypeOK, Places
<1>2. /\ {"create_on_provider", "wait_connect", "provision"} \subseteq Jobs
      /\ {"create_on_provider", "wait_connect", "provision"} \cap Cleanups = {}
      /\ Cleanups \subseteq Jobs /\ "cleanup_provisioning" \in Cleanups
      /\ Callbacks \subseteq Cleanups
  BY Kinds DEF Chain, Cleanups
<1>A. \A k : Asked(k)' <=> Asked(k)
  BY DEF Create, CreateStart, CreateInstance, SaveInstance, FindAddress, CreateEnds,
     CreateFails, Wait, WaitStart, WaitConnects, WaitEnds, WaitFails, Provision, ProvisionStart,
     ProvisionFails, ProvisionRuns, Asked
<1>N. ~Asked("wait_connect")
  BY DEF Asked, TypeOK, Ops, Requests, Dispatched
<1>O. jobs["wait_connect"].at # "archived" /\ jobs["create_on_provider"].at \notin {"free", "archived"}
      => ~Asked("create_on_provider")
  BY DEF CreateOnce
<1>F. \A broken : WriteFailed(broken) =>
        /\ row'.status \in {row.status, "failed"} /\ row'.present = row.present
        /\ row'.provider = row.provider /\ row'.connected = row.connected
        /\ row'.instance = row.instance /\ row'.ip = row.ip
  BY <1>1 DEF WriteFailed
<1>3. CASE CreateStart \/ CreateInstance
  BY <1>A, <1>1, <1>2, <1>3 DEF CreateStart, CreateInstance
<1>4. CASE SaveInstance
  BY <1>A, <1>1, <1>2, <1>4 DEF SaveInstance
<1>5. CASE FindAddress
  BY <1>A, <1>1, <1>2, <1>5 DEF FindAddress
<1>12. CASE CreateEnds
  <2>1. /\ jobs'["create_on_provider"].at = "free" /\ jobs'["wait_connect"].at = "queued"
        /\ \A l \in Jobs \ {"create_on_provider", "wait_connect"} : jobs'[l] = jobs[l]
    BY <1>1, <1>2, <1>12 DEF CreateEnds
  <2>2. /\ jobs["create_on_provider"].at = "dispatch" /\ jobs["wait_connect"].at = "free"
        /\ row' = row /\ scripts' = scripts /\ UNCHANGED <<built, unsaved, raced>>
    BY <1>12 DEF CreateEnds
  <2>3. /\ AtWork("create_on_provider") /\ ~AtWork("create_on_provider")'
        /\ ~AtWork("wait_connect") /\ (Provisioning' <=> Provisioning)
        /\ \A l \in Cleanups : AtWork(l)' <=> AtWork(l)
        /\ jobs'["provision"] = jobs["provision"] /\ jobs["wait_connect"].at # "archived"
    BY <1>A, <1>2, <1>N, <1>O, <2>1, <2>2
  <2> HIDE DEF AtWork, Provisioning
  <2> QED BY <2>1, <2>2, <2>3
<1>13. CASE CreateFails
  <2>1. /\ jobs'["create_on_provider"].at = "archived"
        /\ \A l \in Jobs \ {"create_on_provider"} : jobs'[l] = jobs[l]
    BY <1>1, <1>2, <1>13 DEF CreateFails
  <2>2. scripts' = scripts /\ UNCHANGED <<built, raced>> /\ \E broken : WriteFailed(broken)
    BY <1>13 DEF CreateFails
  <2>3. jobs["create_on_provider"].at \notin {"free", "archived"}
    BY <1>13 DEF CreateFails
  <2>4. /\ AtWork("create_on_provider") /\ (AtWork("wait_connect")' <=> AtWork("wait_connect"))
        /\ AtWork("create_on_provider")' => jobs["wait_connect"].at = "archived"
        /\ Provisioning' <=> Provisioning
        /\ \A l \in Cleanups : AtWork(l)' <=> AtWork(l)
        /\ jobs'["provision"] = jobs["provision"]
        /\ jobs'["wait_connect"] = jobs["wait_connect"]
    BY <1>A, <1>2, <1>N, <1>O, <2>1, <2>2, <2>3
  <2>5. /\ row'.status \in {row.status, "failed"} /\ row'.present = row.present
        /\ row'.provider = row.provider /\ row'.connected = row.connected
        /\ row'.instance = row.instance /\ row'.ip = row.ip
    BY <1>F, <2>2
  <2> HIDE DEF AtWork, Provisioning
  <2> QED BY <2>2, <2>4, <2>5
<1>6. CASE WaitStart
  BY <1>A, <1>1, <1>2, <1>6 DEF WaitStart
<1>7. CASE WaitConnects
  BY <1>A, <1>1, <1>2, <1>7 DEF WaitConnects, Reachable
<1>14. CASE WaitEnds
  <2>1. /\ jobs'["wait_connect"].at = "free" /\ jobs'["provision"].at = "queued"
        /\ \A l \in Jobs \ {"wait_connect", "provision"} : jobs'[l] = jobs[l]
    BY <1>1, <1>2, <1>14 DEF WaitEnds
  <2>2. /\ jobs["wait_connect"].at = "dispatch" /\ jobs["provision"].at = "free"
        /\ row' = row /\ scripts' = scripts /\ UNCHANGED <<built, unsaved, raced>>
    BY <1>14 DEF WaitEnds
  <2>3. /\ AtWork("wait_connect") /\ ~AtWork("wait_connect")'
        /\ AtWork("create_on_provider")' <=> AtWork("create_on_provider")
        /\ \A l \in Cleanups : AtWork(l)' <=> AtWork(l)
    BY <1>A, <1>2, <1>N, <2>1, <2>2
  <2> HIDE DEF AtWork
  <2> QED BY <2>1, <2>2, <2>3
<1>8. CASE WaitFails
  <2>1. /\ jobs'["wait_connect"].at = "archived" /\ jobs["wait_connect"].at \notin {"free", "archived"}
        /\ \A l \in Chain \ {"wait_connect"} : jobs'[l] = jobs[l]
    BY <1>1, <1>2, <1>8, Kinds DEF WaitFails, Chain
  <2>2. PICK key, broken :
          UpdateFields([row EXCEPT !.status = IF "failed" \in broken THEN @ ELSE "failed",
                                   !.connected = "disconnected" \in broken /\ @,
                                   !.hostKey = key])
    BY <1>8 DEF WaitFails
  <2>3. /\ row'.status \in {row.status, "failed"} /\ row'.present = row.present
        /\ row'.provider = row.provider /\ (row'.connected => row.connected)
        /\ row'.instance = row.instance /\ row'.ip = row.ip
    BY <2>2, <1>1
  <2>4. scripts' = scripts /\ UNCHANGED <<built, raced>>
    BY <1>8 DEF WaitFails
  <2>5. /\ AtWork("wait_connect") /\ ~AtWork("wait_connect")'
        /\ AtWork("create_on_provider")' <=> AtWork("create_on_provider")
        /\ Provisioning' <=> Provisioning
        /\ jobs'["provision"] = jobs["provision"]
    BY <1>A, <1>2, <1>N, <2>1, <2>4 DEF Chain
  <2> HIDE DEF AtWork, Provisioning
  <2> QED BY <2>1, <2>3, <2>4, <2>5
<1>9. CASE ProvisionStart
  BY <1>A, <1>1, <1>2, <1>9 DEF ProvisionStart
<1>10. ASSUME NEW s \in Scripts, ProvisionRuns(s) PROVE Straight'
  BY <1>A, <1>1, <1>2, <1>10 DEF ProvisionRuns, TypeOK
<1>11. CASE ProvisionFails
  BY <1>A, <1>1, <1>2, <1>11 DEF ProvisionFails, WriteFailed
<1> QED BY <1>3, <1>4, <1>5, <1>6, <1>7, <1>8, <1>9, <1>10, <1>11, <1>12, <1>13, <1>14
        DEF Create, Wait, Provision

(* The callbacks, the cleanup and the deletion leave the address and the   *)
(* instance of the row alone.                                              *)
LEMMA StraightEnds ==
  ASSUME TypeOK, Straight, CreateOnce, ~Crossed, ~Crossed',
         \/ \E s \in Scripts : Script(s)
         \/ \E k \in Cleanups : Cleanup(k)
         \/ DeleteJob
         \/ \E k \in Jobs : WorkerDies(k)
  PROVE  Straight'
<1> USE DEF Straight, CustomIsWhole, CreateAlone, WaitAlone, ProvisionIsConnected,
            DispatchIsConnected, CleanupComesLate, ConnectedIsAddressed, TargetIsInstance,
            RunningIsBuilt, Crossed, AtWork,
            Provisioning, UpdateStatus, UpdateFields, Rows, Goto, Archived, Enqueue,
            JobRecords, history
<1>1. row \in Rows /\ jobs \in [Jobs -> JobRecords]
  BY DEF TypeOK, Places
<1>2. /\ {"create_on_provider", "wait_connect", "provision", "delete_server"} \subseteq Jobs
      /\ {"create_on_provider", "wait_connect", "provision", "delete_server"} \cap Cleanups = {}
      /\ Cleanups \subseteq Jobs /\ "cleanup_provisioning" \in Cleanups
      /\ Callbacks \subseteq Cleanups
  BY Kinds DEF Chain, Cleanups, TaskIDs
<1>A. \A k : Asked(k)' <=> Asked(k)
  BY DEF Script, OnSuccess, OnFailure, Cleanup, CleanupStart, CleanupDeletes, CleanupFails,
     DeleteJob, DeleteStart, DeleteInstance, DeleteEnds, DeleteFails, WorkerDies, Asked
<1>N. ~Asked("wait_connect")
  BY DEF Asked, TypeOK, Ops, Requests, Dispatched
<1>3. ASSUME NEW s \in Scripts, OnSuccess(s) PROVE Straight'
  BY <1>A, <1>1, <1>2, <1>3 DEF OnSuccess, ScriptDone, TypeOK
<1>F. row' = row \/ UpdateStatus("failed") =>
        /\ row'.status \in {row.status, "failed"} /\ row'.present = row.present
        /\ row'.provider = row.provider /\ row'.connected = row.connected
        /\ row'.instance = row.instance /\ row'.ip = row.ip
  BY <1>1
<1>4. ASSUME NEW s \in Scripts, OnFailure(s) PROVE Straight'
  <2>1. /\ row' = row \/ UpdateStatus("failed")
        /\ jobs' = jobs \/ \E c \in Callbacks : jobs' = Enqueue(jobs, c)
    BY <1>4 DEF OnFailure, WriteFailed
  <2>2. \A l \in Chain : jobs'[l] = jobs[l]
    BY <1>1, <2>1, Kinds
  <2>3. /\ scripts[s].busy /\ \A r \in Scripts : scripts'[r].busy => scripts'[r] = scripts[r]
        /\ UNCHANGED <<built, raced>>
    BY <1>4 DEF OnFailure, ScriptDone, TypeOK
  <2>4. /\ Provisioning /\ (Provisioning' => Provisioning)
        /\ \A l \in Chain : AtWork(l)' <=> AtWork(l)
    BY <1>A, <2>2, <2>3 DEF Chain
  <2>5. row.present /\ row.provider = "cloud" => row.connected /\ ~AtWork("wait_connect")
    BY <2>4
  <2>6. /\ row'.status \in {row.status, "failed"} /\ row'.present = row.present
        /\ row'.provider = row.provider /\ row'.connected = row.connected
        /\ row'.instance = row.instance /\ row'.ip = row.ip
    BY <1>F, <2>1
  <2>7. TargetIsInstance'
    <3>1. /\ jobs'["provision"] = jobs["provision"]
          /\ \A r \in Scripts : scripts'[r].busy => scripts[r].busy /\ scripts'[r] = scripts[r]
      BY <2>2, <2>3 DEF Chain
    <3> QED BY <2>6, <3>1
  <2>8. /\ jobs'["wait_connect"] = jobs["wait_connect"]
        /\ AtWork("wait_connect")' <=> AtWork("wait_connect")
        /\ AtWork("create_on_provider")' <=> AtWork("create_on_provider")
    BY <2>2, <2>4 DEF Chain
  <2> HIDE DEF AtWork, Provisioning, TargetIsInstance
  <2>9. CreateAlone' /\ WaitAlone' /\ ProvisionIsConnected' /\ CustomIsWhole'
    BY <2>4, <2>6, <2>8
  <2>10. CleanupComesLate'
    BY <2>4, <2>5, <2>6, <2>8
  <2>11. DispatchIsConnected' /\ ConnectedIsAddressed' /\ RunningIsBuilt'
    BY <2>3, <2>6, <2>8
  <2> QED BY <2>7, <2>9, <2>10, <2>11
<1>K. ASSUME NEW k \in Cleanups, AtWork(k), row' = row \/ UpdateStatus("failed"),
             scripts' = scripts, UNCHANGED <<built, unsaved, raced>>,
             \A l \in Jobs \ {k} : jobs'[l] = jobs[l]
      PROVE  Straight'
  <2>1. \A l \in Chain : jobs'[l] = jobs[l] /\ (AtWork(l)' <=> AtWork(l))
    BY <1>A, <1>K, Kinds
  <2>2. Provisioning' <=> Provisioning
    BY <1>K, <2>1 DEF Chain
  <2>3. row.present /\ row.provider = "cloud" /\ jobs["wait_connect"].at # "archived"
        => row.connected /\ ~AtWork("wait_connect")
    BY <1>K
  <2>4. \A l \in Cleanups \ {k} : AtWork(l)' <=> AtWork(l)
    BY <1>A, <1>K, <1>2
  <2>5. /\ row'.status \in {row.status, "failed"} /\ row'.present = row.present
        /\ row'.provider = row.provider /\ row'.connected = row.connected
        /\ row'.instance = row.instance /\ row'.ip = row.ip
    BY <1>F, <1>K
  <2>6. CustomIsWhole' /\ ConnectedIsAddressed' /\ RunningIsBuilt'
    BY <1>K, <2>1, <2>5 DEF Chain
  <2>7. TargetIsInstance'
    BY <1>K, <2>1, <2>5 DEF Chain
  <2>8. /\ jobs'["wait_connect"] = jobs["wait_connect"]
        /\ AtWork("wait_connect")' <=> AtWork("wait_connect")
        /\ AtWork("create_on_provider")' <=> AtWork("create_on_provider")
    BY <2>1 DEF Chain
  <2> HIDE DEF AtWork, Provisioning
  <2>9. ~row.present => row' = row
    BY <1>K
  <2>10. WaitAlone' /\ ProvisionIsConnected' /\ DispatchIsConnected'
    <3>1. AtWork("wait_connect") => jobs["wait_connect"].at # "archived"
      BY <1>N DEF AtWork
    <3> QED BY <1>1, <1>K, <2>2, <2>3, <2>5, <2>8, <2>9, <3>1
  <2>11. CreateAlone'
    BY <1>1, <1>K, <2>2, <2>3, <2>5, <2>8, <2>9
  <2>12. CleanupComesLate'
    BY <1>K, <2>3, <2>4, <2>5, <2>8
  <2> QED BY <2>6, <2>7, <2>10, <2>11, <2>12
<1>5. ASSUME NEW k \in Cleanups, CleanupStart(k) PROVE Straight'
  <2>1. AtWork(k) /\ \A l \in Jobs \ {k} : jobs'[l] = jobs[l]
    BY <1>1, <1>2, <1>5 DEF CleanupStart
  <2> QED BY <1>K, <1>5, <2>1 DEF CleanupStart
<1>6. ASSUME NEW k \in Cleanups, CleanupDeletes(k) PROVE Straight'
  BY <1>A, <1>1, <1>2, <1>6 DEF CleanupDeletes
<1>7. ASSUME NEW k \in Cleanups, CleanupFails(k) PROVE Straight'
  <2>1. AtWork(k) /\ \A l \in Jobs \ {k} : jobs'[l] = jobs[l]
    BY <1>1, <1>2, <1>7 DEF CleanupFails
  <2> QED BY <1>K, <1>7, <2>1 DEF CleanupFails
<1>8. CASE DeleteStart \/ DeleteInstance \/ DeleteFails
  BY <1>A, <1>1, <1>2, <1>8 DEF DeleteStart, DeleteInstance, DeleteFails
<1>9. CASE DeleteEnds
  BY <1>A, <1>1, <1>2, <1>9, GoneColumns DEF DeleteEnds, Delete
<1>10. ASSUME NEW k \in Jobs, WorkerDies(k) PROVE Straight'
  <2>1. /\ jobs[k].at \notin {"free", "archived"} /\ jobs'[k].at \in {"queued", "archived"}
        /\ \A l \in Jobs \ {k} : jobs'[l] = jobs[l]
        /\ row' = row /\ scripts' = scripts /\ UNCHANGED <<built, raced>>
    BY <1>1, <1>10 DEF WorkerDies
  <2>2. \A l \in Jobs : AtWork(l)' => AtWork(l)
    BY <1>A, <2>1
  <2>3. Provisioning' => Provisioning
    BY <1>2, <2>1, <2>2
  <2>4. /\ jobs'["provision"].at = "run" => jobs'["provision"] = jobs["provision"]
        /\ jobs'["wait_connect"].at = "dispatch" => jobs["wait_connect"].at = "dispatch"
        /\ jobs["wait_connect"].at = "archived" => jobs'["wait_connect"].at = "archived"
        /\ jobs'["wait_connect"].at # "archived" => jobs["wait_connect"].at # "archived"
    BY <1>2, <2>1
  <2> HIDE DEF AtWork, Provisioning
  <2> QED BY <1>2, <2>1, <2>2, <2>3, <2>4
<1> QED BY <1>3, <1>4, <1>5, <1>6, <1>7, <1>8, <1>9, <1>10 DEF Script, Cleanup, DeleteJob

(* A request that writes what still holds of the row keeps Straight.       *)
LEMMA StraightRequests ==
  ASSUME TypeOK, RequestKnows, Straight, ~Crossed, ~Crossed',
         \/ \E c \in Clients : \/ RetryProvision(c) \/ TryConnection(c) \/ UpdateServer(c)
                              \/ Finish(c) \/ DeleteServer(c)
         \/ Archive \/ Unarchive \/ ConnectServer \/ UpdateConnectivity
  PROVE  Straight'
<1> USE DEF Straight, CustomIsWhole, CreateAlone, WaitAlone, ProvisionIsConnected,
            DispatchIsConnected, CleanupComesLate, ConnectedIsAddressed, TargetIsInstance,
            RunningIsBuilt, Crossed, AtWork,
            Provisioning, UpdateStatus, UpdateFields, Rows, Enqueue, EnqueueTask,
            JobRecords, history
<1>1. row \in Rows /\ jobs \in [Jobs -> JobRecords]
  BY DEF TypeOK, Places
<1>2. /\ {"create_on_provider", "wait_connect", "provision", "delete_server"} \subseteq Jobs
      /\ {"create_on_provider", "wait_connect", "provision", "delete_server"} \cap Cleanups = {}
      /\ Cleanups \subseteq Jobs
  BY Kinds DEF Chain, TaskIDs, Cleanups
<1>C. ASSUME NEW c \in Clients, NEW op,
             \A d \in Clients \ {c} : clients'[d] = clients[d], clients'[c].op = op
      PROVE  \A k : Asked(k)' => Asked(k) \/ k = op
  BY <1>C DEF Asked
<1>D. \A c \in Clients : \A next : Decide(c, next) => \A k : Asked(k)' => Asked(k) \/ k = next
  <2>1. \A c \in Clients : \A next :
          Decide(c, next) => /\ \A d \in Clients \ {c} : clients'[d] = clients[d]
                             /\ clients'[c].op = next
    BY DEF Decide, Quiet, TypeOK
  <2> QED BY <2>1, <1>C
<1>E. ASSUME row' = row, scripts' = scripts, UNCHANGED <<built, unsaved, raced>>,
             jobs' \in [Jobs -> JobRecords],
             \A k \in Jobs : AtWork(k)' => AtWork(k),
             jobs'["wait_connect"] = jobs["wait_connect"],
             jobs'["provision"] = jobs["provision"] \/ jobs'["provision"].at = "queued"
      PROVE  Straight'
  <2>1. Provisioning' => Provisioning
    BY <1>E, <1>2 DEF Provisioning
  <2> HIDE DEF AtWork, Provisioning
  <2> QED BY <1>E, <1>2, <2>1
<1>3. ASSUME NEW c \in Clients, RetryProvision(c) \/ TryConnection(c) \/ UpdateServer(c)
      PROVE  Straight'
  <2>1. PICK op \in Requests : Read(c, op)
    BY <1>3 DEF RetryProvision, TryConnection, UpdateServer, Requests
  <2>2. \A k : Asked(k)' => Asked(k) \/ k = op
    BY <1>C, <2>1 DEF Read, TypeOK
  <2>3. \A k \in Jobs : AtWork(k)' => AtWork(k)
    BY <2>1, <2>2, Kinds DEF Read
  <2> QED BY <1>1, <1>E, <2>1, <2>3 DEF Read
<1>4. ASSUME NEW c \in Clients, RetryReset(c) PROVE Straight'
  <2>1. /\ row = clients[c].read /\ row.status = "failed" /\ row.present
        /\ UpdateStatus("starting") /\ jobs' = jobs /\ scripts' = scripts
    BY <1>4 DEF RetryReset, Decide, RequestKnows, Requests
  <2>2. /\ row'.status = "starting" /\ row'.present /\ row'.provider = row.provider
        /\ row'.connected = row.connected /\ row'.instance = row.instance /\ row'.ip = row.ip
    BY <2>1, <1>1
  <2>3. CASE needsCloudCreate(row)
    <3>1. \A k : Asked(k)' => Asked(k) \/ k = "create_on_provider"
      BY <1>4, <1>D, <2>1, <2>3 DEF RetryReset
    <3>2. ~row.connected /\ row.provider = "cloud"
      BY <2>3 DEF needsCloudCreate
    <3> QED BY <1>1, <1>2, <2>1, <2>2, <3>1, <3>2
  <2>4. CASE ~needsCloudCreate(row)
    <3>1. \A k : Asked(k)' => Asked(k) \/ k = "provision"
      BY <1>4, <1>D, <2>1, <2>4 DEF RetryReset
    <3>2. row.connected \/ row.provider = "custom"
      BY <2>4, <1>1 DEF needsCloudCreate
    <3> QED BY <1>1, <1>2, <2>1, <2>2, <3>1, <3>2
  <2> QED BY <2>3, <2>4
<1>5. ASSUME NEW c \in Clients, TryPersist(c) PROVE Straight'
  <2>1. row.provider = "custom" /\ jobs' = jobs /\ scripts' = scripts
    BY <1>5 DEF TryPersist, RequestKnows, Requests
  <2>2. \A k : Asked(k)' => Asked(k) \/ k = "provision"
    BY <1>5, <1>D DEF TryPersist
  <2>3. row' = row \/ row' = [row EXCEPT !.connected = TRUE, !.status = "starting"]
    BY <1>5 DEF TryPersist
  <2>4. /\ row'.provider = "custom" /\ row'.present = row.present
        /\ row'.instance = row.instance /\ row'.ip = row.ip
        /\ row'.status \in {row.status, "starting"}
    BY <2>1, <2>3, <1>1
  <2> QED BY <1>1, <1>2, <1>5, <2>1, <2>2, <2>4 DEF TryPersist
<1>6. ASSUME NEW c \in Clients, UpdateSave(c) PROVE Straight'
  <2>1. row' = row /\ \A k : Asked(k)' => Asked(k) \/ k = "idle"
    BY <1>6, <1>D DEF UpdateSave, Decide
  <2>2. \A k \in Jobs : AtWork(k)' => AtWork(k)
    BY <1>6, <2>1, Kinds DEF UpdateSave
  <2>3. raced' = raced
    BY <1>6 DEF UpdateSave, Decide, TypeOK
  <2> QED BY <1>1, <1>6, <1>E, <2>1, <2>2, <2>3 DEF UpdateSave
<1>7. ASSUME NEW c \in Clients, DeleteServer(c) PROVE Straight'
  <2>0. /\ jobs' = jobs /\ scripts' = scripts
        /\ \A k : Asked(k)' => Asked(k) \/ k = "delete_server"
    <3>1. CASE clients' = clients
      BY <1>7, <3>1 DEF DeleteServer, Asked
    <3>2. CASE clients' = [clients EXCEPT ![c].op = "delete_server"]
      BY <1>7, <3>2, <1>C DEF DeleteServer, TypeOK
    <3> QED BY <1>7, <3>1, <3>2 DEF DeleteServer
  <2>1. CASE Delete
    <3>1. /\ ~row'.present /\ row'.provider = row.provider /\ row'.instance = None
          /\ row'.ip = None /\ ~row'.connected /\ row'.status \in {"new", "awaiting_connection"}
      BY <2>1, GoneColumns DEF Delete
    <3>2. row.provider = "custom"
      <4>1. row.present /\ (row.provider # "custom" => UpdateStatus("deleting"))
        BY <1>7 DEF DeleteServer
      <4>2. row.provider # "custom" => row'.present
        BY <4>1, <1>1
      <4> QED BY <3>1, <4>2
    <3> QED BY <1>1, <1>2, <2>0, <3>1, <3>2
  <2>2. CASE UpdateStatus("deleting")
    BY <1>1, <1>2, <2>0, <2>2
  <2> QED BY <1>7, <2>1, <2>2 DEF DeleteServer
<1>11. ASSUME NEW c \in Clients, Dispatch(c) PROVE Straight'
  <2>1. \A d \in Clients \ {c} : clients'[d] = clients[d] /\ clients'[c].op = "idle"
    BY <1>11 DEF Dispatch, Quiet, TypeOK
  <2>2. \A k : Asked(k)' => Asked(k) \/ k = "idle"
    BY <1>11 DEF Dispatch, Quiet, TypeOK, Asked
  <2>3. Asked(clients[c].op) /\ clients[c].op \in Jobs /\ clients[c].op # "wait_connect"
    BY <1>11, Kinds DEF Asked, Dispatch, Dispatched
  <2>4. jobs' = jobs \/ jobs' = Enqueue(jobs, clients[c].op)
    BY <1>11 DEF Dispatch, EnqueueTask
  <2>5. jobs' \in [Jobs -> JobRecords]
    BY <2>3, <2>4, <1>1, JobsTyped
  <2>6. \A k \in Jobs : AtWork(k)' => AtWork(k)
    BY <1>1, <2>2, <2>3, <2>4, Kinds, Moves
  <2>7. /\ jobs'["wait_connect"] = jobs["wait_connect"]
        /\ jobs'["provision"] = jobs["provision"] \/ jobs'["provision"].at = "queued"
    BY <1>1, <1>2, <2>3, <2>4
  <2> QED BY <1>11, <1>E, <2>5, <2>6, <2>7 DEF Dispatch
<1>A. clients' = clients => \A k : Asked(k)' <=> Asked(k)
  BY DEF Asked
<1>8. CASE Archive \/ Unarchive
  <2>1. row.present /\ jobs' = jobs /\ scripts' = scripts /\ UNCHANGED <<clients, built, raced>>
    BY <1>8 DEF Archive, Unarchive
  <2>2. /\ row'.status \in {"archived", "stopped"} /\ row'.present = row.present
        /\ row'.provider = row.provider /\ row'.connected = row.connected
        /\ row'.instance = row.instance /\ row'.ip = row.ip
    BY <1>1, <1>8 DEF Archive, Unarchive
  <2>3. /\ \A k \in Jobs : AtWork(k)' <=> AtWork(k)
        /\ Provisioning' <=> Provisioning
    BY <1>A, <1>2, <2>1
  <2> HIDE DEF AtWork, Provisioning
  <2> QED BY <1>2, <2>1, <2>2, <2>3
<1>9. CASE ConnectServer
  BY <1>A, <1>1, <1>2, <1>9 DEF ConnectServer, Reachable
<1>10. CASE UpdateConnectivity
  <2>1. \A k \in Jobs : ~Asked(k) /\ ~Asked(k)'
    BY <1>10, <1>A, Kinds DEF UpdateConnectivity, Asked
  <2> QED BY <1>1, <1>2, <1>10, <2>1 DEF UpdateConnectivity, Reachable
<1> QED BY <1>3, <1>4, <1>5, <1>6, <1>7, <1>8, <1>9, <1>10, <1>11 DEF Finish

(* Only one request at a time is about to dispatch the first job, and none *)
(* while that job is at work.                                              *)
LEMMA OnceStep ==
  ASSUME TypeOK, RequestKnows, Straight, CreateOnce, ~Crossed, ~Crossed', Next
  PROVE  CreateOnce'
<1> DEFINE make == "create_on_provider"
           wait == "wait_connect"
<1>1. row \in Rows /\ jobs \in [Jobs -> JobRecords]
  BY DEF TypeOK, JobRecords, Places
<1>2. /\ {make, wait, "provision", "delete_server"} \subseteq Jobs
      /\ {make, wait, "provision", "delete_server"} \cap Cleanups = {} /\ Cleanups \subseteq Jobs
      /\ Callbacks \subseteq Cleanups /\ "cleanup_provisioning" \in Cleanups
  BY Kinds DEF Chain, TaskIDs, Cleanups
<1>3. ASSUME clients' = clients,
             \/ jobs[wait].at = "archived" /\ jobs'[wait].at = "archived"
             \/ jobs[wait].at # "archived" /\ jobs[make].at \notin {"free", "archived"}
             \/ jobs[wait].at # "archived" /\ jobs'[make] = jobs[make]
      PROVE  CreateOnce'
  BY <1>3 DEF CreateOnce, Asked
<1>4. ASSUME clients' = clients, jobs'[wait] = jobs[wait], jobs'[make] = jobs[make]
      PROVE  CreateOnce'
  BY <1>4 DEF CreateOnce, Asked
<1>5. CASE Create
  <2>1. clients' = clients /\ jobs[make].at \notin {"free", "archived"}
    BY <1>5 DEF Create, CreateStart, CreateInstance, SaveInstance, FindAddress, CreateEnds,
       CreateFails
  <2>2. jobs[wait].at = "archived" => jobs'[wait].at = "archived"
    BY <1>1, <1>2, <1>5, Moves DEF Create, CreateStart, CreateInstance, SaveInstance, FindAddress,
       CreateEnds, CreateFails, Goto, Archived
  <2> QED BY <1>3, <2>1, <2>2
<1>6. CASE Wait
  <2>1. clients' = clients /\ jobs[wait].at # "archived"
    BY <1>6 DEF Wait, WaitStart, WaitConnects, WaitEnds, WaitFails
  <2>2. jobs'[make] = jobs[make]
    <3>1. WaitFails => jobs'[make] = jobs[make]
      BY <1>1, <1>2 DEF WaitFails, Archived, CleanupAfter, Goto, Enqueue, JobRecords
    <3>2. WaitStart \/ WaitConnects \/ WaitEnds => jobs'[make] = jobs[make]
      BY <1>1, <1>2 DEF WaitStart, WaitConnects, WaitEnds, Goto, Enqueue, JobRecords
    <3> QED BY <1>6, <3>1, <3>2 DEF Wait
  <2> QED BY <1>3, <2>1, <2>2
<1>7. CASE Provision
  <2>1. clients' = clients
    BY <1>7 DEF Provision, ProvisionStart, ProvisionFails, ProvisionRuns
  <2>2. jobs'[make] = jobs[make] /\ jobs'[wait] = jobs[wait]
    <3>1. ProvisionFails => jobs'[make] = jobs[make] /\ jobs'[wait] = jobs[wait]
      BY <1>1, <1>2 DEF ProvisionFails, Archived, CleanupAfter, Goto, Enqueue, JobRecords
    <3>2. \A s \in Scripts : ProvisionStart \/ ProvisionRuns(s)
                            => jobs'[make] = jobs[make] /\ jobs'[wait] = jobs[wait]
      BY <1>1, <1>2 DEF ProvisionStart, ProvisionRuns, Goto, JobRecords
    <3>3. ProvisionStart => jobs'[make] = jobs[make] /\ jobs'[wait] = jobs[wait]
      BY <1>1, <1>2 DEF ProvisionStart, Goto, JobRecords
    <3> QED BY <1>7, <3>1, <3>2, <3>3 DEF Provision
  <2> QED BY <1>4, <2>1, <2>2
<1>8. CASE DeleteJob
  BY <1>1, <1>2, <1>4, <1>8
  DEF DeleteJob, DeleteStart, DeleteInstance, DeleteEnds, DeleteFails, Archived, Goto, JobRecords
<1>9. ASSUME NEW s \in Scripts, Script(s) PROVE CreateOnce'
  BY <1>1, <1>2, <1>4, <1>9 DEF Script, OnSuccess, OnFailure, Enqueue, JobRecords
<1>10. ASSUME NEW k \in Cleanups, Cleanup(k) PROVE CreateOnce'
  BY <1>1, <1>2, <1>4, <1>10
  DEF Cleanup, CleanupStart, CleanupDeletes, CleanupFails, Archived, Goto, JobRecords
<1>11. Archive \/ Unarchive \/ ConnectServer \/ UpdateConnectivity => CreateOnce'
  BY <1>4 DEF Archive, Unarchive, ConnectServer, UpdateConnectivity
<1>12. ASSUME NEW k \in Jobs, WorkerDies(k) PROVE CreateOnce'
  <2>1. /\ clients' = clients /\ jobs[k].at \notin {"free", "archived"}
        /\ \A l \in Jobs \ {k} : jobs'[l] = jobs[l]
    BY <1>1, <1>12 DEF WorkerDies, Archived, Goto, JobRecords
  <2>2. CASE k = make
    BY <1>2, <1>3, <2>1, <2>2
  <2>3. CASE k # make
    BY <1>2, <1>3, <2>1, <2>3
  <2> QED BY <2>2, <2>3
<1>13. ASSUME NEW c \in Clients, NEW op, op # make,
              \A d \in Clients \ {c} : clients'[d] = clients[d], clients'[c].op = op,
              jobs' = jobs
       PROVE  CreateOnce'
  BY <1>13 DEF CreateOnce, Asked
<1>D. \A c \in Clients : \A next :
        Decide(c, next) => /\ \A d \in Clients \ {c} : clients'[d] = clients[d]
                           /\ clients'[c].op = next
  BY DEF Decide, Quiet, TypeOK
<1>14. ASSUME NEW c \in Clients, RetryProvision(c) \/ TryConnection(c) \/ UpdateServer(c)
       PROVE  CreateOnce'
  <2>1. PICK op \in {"retry", "try", "update"} : Read(c, op)
    BY <1>14 DEF RetryProvision, TryConnection, UpdateServer
  <2> QED BY <1>13, <2>1 DEF Read, TypeOK
<1>15. ASSUME NEW c \in Clients, DeleteServer(c) PROVE CreateOnce'
  <2>1. CASE clients' = clients
    BY <1>4, <1>15, <2>1 DEF DeleteServer
  <2>2. CASE clients' = [clients EXCEPT ![c].op = "delete_server"]
    BY <1>13, <1>15, <2>2 DEF DeleteServer, TypeOK
  <2> QED BY <1>15, <2>1, <2>2 DEF DeleteServer
<1>16. ASSUME NEW c \in Clients, TryPersist(c) \/ UpdateSave(c) PROVE CreateOnce'
  BY <1>13, <1>16, <1>D DEF TryPersist, UpdateSave
<1>17. ASSUME NEW c \in Clients, RetryReset(c) PROVE CreateOnce'
  <2>1. jobs' = jobs /\ row = clients[c].read /\ row.status = "failed" /\ row.present
    BY <1>17 DEF RetryReset, Decide, RequestKnows, Requests, Crossed
  <2>2. PICK next : next \in {make, "provision"} /\ Decide(c, next)
    BY <1>17 DEF RetryReset
  <2>3. CASE next = "provision"
    BY <1>13, <1>D, <2>1, <2>2, <2>3
  <2>4. CASE next = make
    <3>1. jobs[wait].at # "archived" => ~AtWork(make)
      BY <2>1 DEF Straight, CreateAlone
    <3>2. jobs[wait].at # "archived"
          => ~Asked(make) /\ jobs[make].at \in {"free", "archived"}
      BY <3>1 DEF AtWork
    <3> QED BY <1>D, <2>1, <2>2, <2>4, <3>2 DEF CreateOnce, Asked
  <2> QED BY <2>2, <2>3, <2>4
<1>18. ASSUME NEW c \in Clients, Dispatch(c) PROVE CreateOnce'
  <2>1. /\ \A d \in Clients \ {c} : clients'[d] = clients[d]
        /\ clients'[c].op = "idle" /\ clients[c].op # wait /\ clients[c].op \in Jobs
    BY <1>18, Kinds DEF Dispatch, Dispatched, Quiet, TypeOK
  <2>2. jobs' = jobs \/ jobs' = Enqueue(jobs, clients[c].op)
    BY <1>18 DEF Dispatch, EnqueueTask
  <2>3. \A l \in Jobs \ {clients[c].op} : jobs'[l] = jobs[l]
    BY <1>1, <2>1, <2>2, Moves
  <2>4. CASE clients[c].op # make
    BY <1>2, <2>1, <2>3, <2>4 DEF CreateOnce, Asked
  <2>5. CASE clients[c].op = make
    <3>1. jobs'[wait] = jobs[wait]
      BY <1>2, <2>1, <2>3
    <3>2. jobs[wait].at # "archived" => ~Asked(make)'
      BY <2>1, <2>5 DEF CreateOnce, Asked
    <3>3. \A a, b \in Clients : clients'[a].op = make /\ clients'[b].op = clients'[a].op
                               => clients[a].op = make /\ clients[b].op = clients[a].op
      BY <2>1
    <3> QED BY <3>1, <3>2, <3>3 DEF CreateOnce
  <2> QED BY <2>4, <2>5
<1> QED BY <1>5, <1>6, <1>7, <1>8, <1>9, <1>10, <1>11, <1>12, <1>14, <1>15, <1>16, <1>17, <1>18
        DEF Next, Finish

(* What has been missed or crossed stays so.                               *)
LEMMA CrossedStep ==
  ASSUME TypeOK, [Next]_vars, Crossed
  PROVE  Crossed'
<1> DEFINE Kept == (raced => raced') /\ unsaved \subseteq unsaved'
<1> SUFFICES Kept
  BY DEF Crossed
<1>K. /\ UNCHANGED history => Kept
      /\ unsaved' = unsaved /\ raced' = raced => Kept
  BY DEF history
<1>1. Create => Kept
  <2>1. CreateFails => Kept
    BY DEF CreateFails, WriteFailed
  <2> QED BY <1>K, <2>1 DEF Create, CreateStart, CreateInstance, SaveInstance, FindAddress,
             CreateEnds
<1>7. Wait => Kept
  <2>1. ASSUME WaitConnects \/ WaitFails PROVE Kept
    <3>1. (\E lost : unsaved' = unsaved \cup lost) /\ raced' = raced
      BY <2>1, Zenon DEF WaitConnects, WaitFails
    <3> QED BY <3>1
  <2> QED BY <1>K, <2>1 DEF Wait, WaitStart, WaitEnds
<1>2. Provision \/ DeleteJob => Kept
  BY DEF history, Provision, ProvisionStart, ProvisionRuns, ProvisionFails, WriteFailed, DeleteJob,
     DeleteStart, DeleteInstance, DeleteEnds, DeleteFails
<1>3. /\ \A s \in Scripts : Script(s) => Kept
      /\ \A k \in Cleanups : Cleanup(k) => Kept
      /\ \A k \in Jobs : WorkerDies(k) => Kept
  BY DEF history, Script, OnSuccess, OnFailure, WriteFailed, Cleanup, CleanupStart,
     CleanupDeletes, CleanupFails, WorkerDies
<1>4. \A c \in Clients :
        RetryProvision(c) \/ TryConnection(c) \/ UpdateServer(c) \/ DeleteServer(c) => Kept
  BY DEF history, Read, RetryProvision, TryConnection, UpdateServer, DeleteServer
<1>5. \A c \in Clients : Finish(c) => Kept
  <2>1. \A c \in Clients : Dispatch(c) => Kept
    BY <1>K DEF Dispatch
  <2>2. \A c \in Clients : \A next : Decide(c, next) => (raced => raced')
    BY DEF Decide, TypeOK
  <2>3. \A c \in Clients : RetryReset(c) \/ TryPersist(c) \/ UpdateSave(c) => Kept
    BY <2>2 DEF RetryReset, TryPersist, UpdateSave
  <2> QED BY <2>1, <2>3 DEF Finish
<1>6. Archive \/ Unarchive \/ ConnectServer \/ UpdateConnectivity \/ UNCHANGED vars => Kept
  BY <1>K DEF vars, Archive, Unarchive, ConnectServer, UpdateConnectivity
<1> QED BY <1>1, <1>2, <1>3, <1>4, <1>5, <1>6, <1>7 DEF Next

-----------------------------------------------------------------------------
(* Theorems *)

(* LifeInv holds initially.                                                *)
LEMMA LifeInit == Init => LifeInv
<1> SUFFICES ASSUME Init PROVE LifeInv OBVIOUS
<1>1. TypeOK /\ Straight /\ CreateOnce
  BY TypesInit, StraightInit
<1>2. RequestKnows
  BY DEF Init, RequestKnows, Requests, Quiet
<1>3. InProgressIsOwned
  <2>1. PICK p \in {"cloud", "custom"}, refused \in BOOLEAN :
          /\ row = NewRow(p)
          /\ jobs = [k \in Jobs |-> IF k = "create_on_provider" /\ p = "cloud" /\ ~refused
                                    THEN [Free EXCEPT !.at = "queued"] ELSE Free]
          /\ stuck = IF refused THEN {"create_on_provider"} ELSE {}
    BY DEF Init
  <2>2. "create_on_provider" \in Chain /\ "create_on_provider" \in Jobs
    BY Kinds DEF Chain
  <2>3. CASE p = "custom"
    BY <2>1, <2>3 DEF InProgressIsOwned, NewRow
  <2>4. CASE refused
    BY <2>1, <2>2, <2>4 DEF InProgressIsOwned
  <2>5. CASE p = "cloud" /\ ~refused
    <3>1. jobs["create_on_provider"].at = "queued"
      BY <2>1, <2>2, <2>5 DEF Free
    <3> QED BY <2>2, <3>1 DEF InProgressIsOwned, AtWork
  <2> QED BY <2>3, <2>4, <2>5
<1> QED BY <1>1, <1>2, <1>3 DEF LifeInv, Straight

(* Every step keeps LifeInv.                                               *)
LEMMA LifeStep == LifeInv /\ [Next]_vars => LifeInv'
<1> SUFFICES ASSUME LifeInv, [Next]_vars PROVE LifeInv' OBVIOUS
<1>1. TypeOK /\ RequestKnows /\ InProgressIsOwned /\ (Crossed \/ (Straight /\ CreateOnce))
  BY DEF LifeInv, Straight
<1>2. TypeOK' /\ RequestKnows' /\ InProgressIsOwned'
  BY <1>1, TypesStep, RequestStep, ProgressStep
<1>3. Crossed' \/ (Straight' /\ CreateOnce')
  <2> SUFFICES ASSUME ~Crossed' PROVE Straight' /\ CreateOnce'
    OBVIOUS
  <2>2. Straight /\ CreateOnce /\ ~Crossed
    BY <1>1, CrossedStep
  <2>3. CASE UNCHANGED vars
    BY <2>2, <2>3
    DEF vars, Straight, CustomIsWhole, CreateAlone, CreateOnce, WaitAlone, ProvisionIsConnected,
        DispatchIsConnected, CleanupComesLate, ConnectedIsAddressed, TargetIsInstance,
        RunningIsBuilt, Crossed, AtWork, Asked, Provisioning
  <2>4. CASE Next
    <3>1. Straight'
      BY <1>1, <2>2, <2>4, StraightChain, StraightEnds, StraightRequests DEF Next
    <3> QED BY <1>1, <2>2, <2>4, <3>1, OnceStep
  <2> QED BY <2>3, <2>4
<1> QED BY <1>2, <1>3 DEF LifeInv, Straight

(* The invariant behind the theorems of this module: who is at work on a   *)
(* server in each of its states.                                           *)
THEOREM LifeInvariance == Spec => []LifeInv
<1>1. Init => LifeInv
  BY LifeInit
<1>2. LifeInv /\ [Next]_vars => LifeInv'
  BY LifeStep
<1> QED BY <1>1, <1>2, PTL DEF Spec

(* The rows, jobs and requests keep their types.                           *)
THEOREM LifeTypes == Spec => []TypeOK
<1>1. LifeInv => TypeOK
  BY DEF LifeInv
<1> QED BY <1>1, LifeInvariance, PTL

(* A server that shows progress with nobody at work on it has had a job    *)
(* that was ignored, refused or killed, or an end that was not recorded.   *)
THEOREM ProgressIsOwned == Spec => []InProgressIsOwned
<1>1. LifeInv => InProgressIsOwned
  BY DEF LifeInv
<1> QED BY <1>1, LifeInvariance, PTL

(* A running server was provisioned on the machine its row points to.      *)
THEOREM RunningCorrect == Spec => []RunningIsBuilt
<1>1. LifeInv => RunningIsBuilt
  BY DEF LifeInv, RunningIsBuilt
<1> QED BY <1>1, LifeInvariance, PTL
=============================================================================
