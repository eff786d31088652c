------------------------- MODULE ManagedResourceProofs -------------------------
(***************************************************************************)
(* What holds of the resources of a server for every number of resources,  *)
(* clients, versions, requests and faults: DriftInv is inductive, and with *)
(* it the safety properties of ManagedResource hold in every behaviour.    *)
(***************************************************************************)
EXTENDS ManagedResource, TLAPS

(* The variables of the server, which most steps leave as they are.        *)
USE DEF server

-----------------------------------------------------------------------------
(* Types *)

JobRecord == [st: JobStates, ver: 0..MaxVersion]
Serving == [op: Ops \cup JobTypes, id: Ids, row: Row]

(* The values of the variables, one by one.                                *)
Typed ==
  /\ \A i \in Ids : kind[i] \in Kinds /\ rows[i] \in MaybeRow /\ remote[i] \in 0..MaxVersion
  /\ \A i \in Ids : Exists(i) => rows[i] \in Row
  /\ \A t \in JobTypes, i \in Ids : jobs[t][i] \in JobRecord
  /\ \A c \in Clients : client[c].op # "idle" <=> client[c] # Idle
  /\ \A c \in Clients : client[c] # Idle => client[c] \in Serving
  /\ \A i \in Ids : sync.copy[i] \in MaybeRow /\ (sync.copy[i] # NoRow => sync.copy[i] \in Row)

(* TypeOK in the form the proofs use.                                      *)
LEMMA TypesHold == TypeOK => Typed
<1> SUFFICES ASSUME TypeOK PROVE Typed
  OBVIOUS
<1>1. ASSUME NEW c \in Clients
      PROVE  /\ client[c].op # "idle" <=> client[c] # Idle
             /\ client[c] # Idle => client[c] \in Serving
  <2>1. client[c] \in Serving \cup {Idle}
    BY DEF TypeOK, Serving
  <2>2. CASE client[c] = Idle
    BY <2>2 DEF Idle
  <2>3. CASE client[c] \in Serving
    <3>1. client[c].op \in {"update", "delete", "install", "uninstall"}
      BY <2>3 DEF Serving, Ops, JobTypes
    <3> QED
      BY <2>3, <3>1 DEF Idle
  <2> QED
    BY <2>1, <2>2, <2>3
<1> QED
  BY <1>1 DEF TypeOK, Typed, Exists, MaybeRow, JobRecord

(* The columns of a row can be written one by one.                         *)
LEMMA RowTyped ==
  ASSUME NEW r \in Row
  PROVE  /\ r.installed \in BOOLEAN /\ r.failed \in BOOLEAN /\ r.requested \in BOOLEAN
         /\ r.unfailed \in BOOLEAN /\ r.ver \in Versions
         /\ \A v \in Versions : [r EXCEPT !.ver = v] \in Row
         /\ MarkAsInstalled(r) \in Row /\ MarkAsUninstalling(r) \in Row
         /\ MarkUninstallationFailed(r) \in Row
         /\ \A k \in Kinds : InstallFailed(k, r) \in Row
BY DEF Row, MarkAsInstalled, MarkAsUninstalling, MarkUninstallationFailed, InstallFailed, Kinds,
       InstallDaemonFailed, InstallCronFailed, InstallFirewallRuleFailed, MarkInstallationFailed,
       MarkAsFailed

(* What each update of the columns leaves in them.                         *)
LEMMA Columns ==
  ASSUME NEW r \in Row
  PROVE  /\ \A v \in Versions :
              LET w == [r EXCEPT !.ver = v] IN
                /\ w.installed = r.installed /\ w.failed = r.failed /\ w.requested = r.requested
                /\ w.unfailed = r.unfailed /\ w.ver = v
         /\ LET w == MarkAsInstalled(r) IN
              /\ w.installed = TRUE /\ w.failed = FALSE /\ w.requested = r.requested
              /\ w.unfailed = r.unfailed /\ w.ver = r.ver
         /\ LET w == MarkAsUninstalling(r) IN
              /\ w.installed = r.installed /\ w.failed = r.failed /\ w.requested = TRUE
              /\ w.unfailed = r.unfailed /\ w.ver = r.ver
         /\ LET w == MarkUninstallationFailed(r) IN
              /\ w.installed = r.installed /\ w.failed = r.failed /\ w.requested = FALSE
              /\ w.unfailed = TRUE /\ w.ver = r.ver
         /\ \A k \in Kinds :
              LET w == InstallFailed(k, r) IN
                /\ w.failed = TRUE /\ (w.installed => r.installed) /\ w.requested = r.requested
                /\ w.unfailed = r.unfailed /\ w.ver = r.ver
BY DEF Row, MarkAsInstalled, MarkAsUninstalling, MarkUninstallationFailed, InstallFailed, Kinds,
       InstallDaemonFailed, InstallCronFailed, InstallFirewallRuleFailed, MarkInstallationFailed,
       MarkAsFailed

-----------------------------------------------------------------------------
(* One resource at a time *)

About(c, i) == client[c] # Idle /\ client[c].id = i

(* DriftInv of a single resource, part by part.                            *)
UnknownAt(i) ==
  i \notin created =>
    /\ ~Exists(i) /\ sync.copy[i] = NoRow /\ i \notin removed
    /\ kind[i] = "daemon" => loaded[i] = remote[i]
    /\ \A t \in JobTypes : jobs[t][i].st = "none"
    /\ \A c \in Clients : ~About(c, i)
ShownAt(i) ==
  i \notin lost =>
    (jobs["uninstall"][i].st # "none" \/ Dispatching("uninstall", i) => Leaving(i))
PresentAt(i) ==
  /\ jobs["install"][i].st = "running" => jobs["install"][i].ver # 0
  /\ i \notin lost =>
       /\ jobs["install"][i].st \in {"uploaded", "ran"} => remote[i] # 0 \/ Leaving(i)
       /\ ~Leaving(i) /\ IsInstalled(rows[i]) => remote[i] # 0
CurrentAt(i) ==
  i \notin lost \cup unserved /\ kind[i] = "daemon" /\ ~Leaving(i) =>
    /\ jobs["install"][i].st = "running" => Current(i)
    /\ jobs["install"][i].st \in {"uploaded", "ran"}
         => Current(i) /\ remote[i] = jobs["install"][i].ver
    /\ jobs["install"][i].st = "none" /\ IsInstalled(rows[i])
         => remote[i] = rows[i].ver \/ Dispatching("install", i)
LoadedAt(i) ==
  /\ i \notin lost \cup unreloaded
  /\ kind[i] = "daemon" /\ ~Leaving(i)
  /\ jobs["install"][i].st \in {"none", "ran"}
  => loaded[i] = remote[i]
OnceAt(i) ==
  kind[i] # "daemon" =>
    /\ Touched(i) => Settled(i)
    /\ Dispatching("install", i) => jobs["install"][i].st = "none"
    /\ \A c, d \in Clients :
         /\ client[c].op = "install" /\ client[c].id = i
         /\ client[d].op = "install" /\ client[d].id = i
         => c = d
    /\ jobs["uninstall"][i].st = "ran" => remote[i] = 0
    /\ sync.copy[i] = NoRow
    /\ i \in removed => remote[i] = 0
RecordedAt(i) ==
  i \notin lost \cup crashed \cup unsaved /\ Exists(i) =>
    /\ jobs["install"][i].st = "archived" => rows[i].failed
    /\ jobs["uninstall"][i].st = "archived" => rows[i].unfailed
At(i) == /\ UnknownAt(i) /\ ShownAt(i) /\ PresentAt(i) /\ CurrentAt(i)
         /\ LoadedAt(i) /\ OnceAt(i) /\ RecordedAt(i)

(* DriftInv says of each resource what At says.                            *)
LEMMA OneByOne == TypeOK => (DriftInv <=> \A i \in Ids : At(i))
<1> SUFFICES ASSUME TypeOK PROVE DriftInv <=> \A i \in Ids : At(i)
  OBVIOUS
<1> USE DEF At, Leaving
<1>1. UncreatedIsUnknown <=> \A i \in Ids : UnknownAt(i)
  BY DEF UncreatedIsUnknown, UnknownAt, About
<1>2. UninstallIsShown <=> \A i \in Ids : ShownAt(i)
  BY DEF UninstallIsShown, ShownAt
<1>3. InstallIsPresent /\ InstalledIsPresent <=> \A i \in Ids : PresentAt(i)
  BY DEF InstallIsPresent, InstalledIsPresent, PresentAt
<1>4. InstallIsCurrent <=> \A i \in Ids : CurrentAt(i)
  BY DEF InstallIsCurrent, CurrentAt
<1>7. LoadedIsCurrent <=> \A i \in Ids : LoadedAt(i)
  BY DEF LoadedIsCurrent, LoadedAt
<1>5. InstalledOnce /\ CleanRemoval <=> \A i \in Ids : OnceAt(i)
  BY DEF InstalledOnce, CleanRemoval, OnceAt, TypeOK
<1>6. FailureIsRecorded <=> \A i \in Ids : RecordedAt(i)
  BY DEF FailureIsRecorded, RecordedAt
<1> QED
  BY <1>1, <1>2, <1>3, <1>4, <1>5, <1>6, <1>7 DEF DriftInv

(* What supervisor has loaded of a daemon another one's step may refresh.  *)
LoadKept(i) ==
  kind[i] = "daemon" =>
    \/ loaded'[i] = remote'[i]
    \/ loaded'[i] = loaded[i] /\ (i \in unreloaded' <=> i \in unreloaded)

(* What a step leaves alone of a resource it is not about.                 *)
Same(i) ==
  /\ kind'[i] = kind[i] /\ rows'[i] = rows[i] /\ remote'[i] = remote[i]
  /\ \A t \in JobTypes : jobs'[t][i] = jobs[t][i]
  /\ \A c \in Clients : About(c, i) \/ About(c, i)' => client'[c] = client[c]
  /\ sync'.copy[i] = sync.copy[i]
  /\ i \in lost' <=> i \in lost
  /\ i \in unserved' <=> i \in unserved
  /\ i \in created' <=> i \in created
  /\ i \in removed' <=> i \in removed
  /\ i \in crashed' <=> i \in crashed
  /\ i \in unsaved' <=> i \in unsaved
  /\ LoadKept(i)

(* A resource a step is not about keeps its part of the invariant.         *)
LEMMA Elsewhere ==
  ASSUME Typed, Typed', NEW i \in Ids, At(i), Same(i)
  PROVE  At(i)'
<1>1. \A t \in JobTypes : Dispatching(t, i)' <=> Dispatching(t, i)
  <2>1. \A c \in Clients : client[c].op \in JobTypes => client[c] # Idle
    BY DEF Typed, JobTypes, Idle
  <2>2. \A c \in Clients : client'[c].op \in JobTypes => client'[c] # Idle
    BY DEF Typed, JobTypes, Idle
  <2> QED
    BY <2>1, <2>2 DEF Dispatching, Same, About
<1>2. \A c \in Clients : About(c, i)' <=> About(c, i)
  BY DEF Same, LoadKept, About
<1>3. /\ Exists(i)' <=> Exists(i)
      /\ Leaving(i)' <=> Leaving(i)
      /\ IsInstalled(rows[i])' <=> IsInstalled(rows[i])
      /\ jobs'["install"][i] = jobs["install"][i] /\ jobs'["uninstall"][i] = jobs["uninstall"][i]
  BY DEF Same, Leaving, Exists, IsInstalled, JobTypes
<1>4. (UnknownAt(i) /\ ShownAt(i) /\ PresentAt(i) /\ RecordedAt(i))'
  BY <1>1, <1>2, <1>3 DEF Same, LoadKept, At, UnknownAt, ShownAt, PresentAt, RecordedAt, JobTypes
<1>7. LoadedAt(i)'
  BY <1>3 DEF Same, LoadKept, At, LoadedAt
<1>5. CurrentAt(i)'
  BY <1>1, <1>3 DEF Same, At, CurrentAt, Current, JobTypes
<1>6. OnceAt(i)'
  <2>1. (Touched(i)' <=> Touched(i)) /\ (Settled(i)' <=> Settled(i))
    BY <1>1, <1>2, <1>3 DEF Same, Touched, Settled, About, JobTypes
  <2>2. \A c \in Clients : client'[c].op = "install" /\ client'[c].id = i
                          => client[c].op = "install" /\ client[c].id = i
    <3>1. \A c \in Clients : client'[c].op = "install" => client'[c] # Idle
      BY DEF Idle
    <3> QED
      BY <3>1 DEF Same, LoadKept, About
  <2> QED
    BY <1>1, <1>3, <2>1, <2>2 DEF Same, At, OnceAt, JobTypes
<1> QED
  BY <1>4, <1>5, <1>6, <1>7 DEF At

-----------------------------------------------------------------------------
(* Types are kept *)

(* The initial state is well typed and holds no resource.                  *)
LEMMA InitDrift == Init => DriftInv
<1> SUFFICES ASSUME Init PROVE DriftInv
  OBVIOUS
<1>1. TypeOK
  <2>1. [st |-> "none", ver |-> 0] \in JobRecord
    BY MaxVersionAssumption DEF JobRecord, JobStates
  <2>2. jobs \in [JobTypes -> [Ids -> JobRecord]]
    BY <2>1 DEF Init
  <2> QED
    BY <2>2, MaxVersionAssumption, BoundsAssumption DEF Init, TypeOK, MaybeRow, JobRecord
<1>2. ASSUME NEW i \in Ids PROVE At(i)
  <2>1. /\ rows[i] = NoRow /\ remote[i] = 0 /\ loaded[i] = 0 /\ sync.copy[i] = NoRow
        /\ \A t \in JobTypes : jobs[t][i].st = "none"
        /\ \A c \in Clients : client[c].op = "idle"
        /\ \A c \in Clients : ~About(c, i)
        /\ i \notin removed
    BY DEF Init, Idle, About
  <2>2. jobs["install"][i].st = "none" /\ jobs["uninstall"][i].st = "none"
    BY <2>1 DEF JobTypes
  <2>3. ~Exists(i) /\ \A t \in JobTypes : ~Dispatching(t, i)
    BY <2>1 DEF Exists, Dispatching, JobTypes
  <2>4. UnknownAt(i) /\ ShownAt(i) /\ PresentAt(i) /\ CurrentAt(i) /\ LoadedAt(i) /\ RecordedAt(i)
    BY <2>1, <2>2, <2>3
       DEF UnknownAt, ShownAt, PresentAt, CurrentAt, LoadedAt, RecordedAt, Leaving
  <2>5. ~Touched(i)
    BY <2>1, <2>2, <2>3 DEF Touched, About, JobTypes
  <2>6. OnceAt(i)
    BY <2>1, <2>2, <2>3, <2>5 DEF OnceAt, JobTypes
  <2> QED
    BY <2>4, <2>6 DEF At
<1> QED
  BY <1>1, <1>2, OneByOne

(* Setting the status of a job keeps the jobs typed.                       *)
LEMMA SetJobTyped ==
  ASSUME TypeOK, NEW t \in JobTypes, NEW i \in Ids, NEW st \in JobStates, SetJob(t, i, st)
  PROVE  /\ jobs' \in [JobTypes -> [Ids -> JobRecord]]
         /\ jobs'[t][i] = [jobs[t][i] EXCEPT !.st = st]
         /\ \A u \in JobTypes, j \in Ids : u # t \/ j # i => jobs'[u][j] = jobs[u][j]
<1>1. jobs \in [JobTypes -> [Ids -> JobRecord]]
  BY DEF TypeOK, JobRecord
<1>2. [jobs[t][i] EXCEPT !.st = st] \in JobRecord
  BY <1>1 DEF JobRecord
<1>3. jobs' = [jobs EXCEPT ![t] = [jobs[t] EXCEPT ![i] = [jobs[t][i] EXCEPT !.st = st]]]
  BY <1>1 DEF SetJob
<1> QED
  BY <1>1, <1>2, <1>3

(* An update of a row that exists keeps the rows typed.                    *)
LEMMA SaveTyped ==
  ASSUME TypeOK, NEW i \in Ids, NEW read \in Row, NEW row \in Row, Save(i, read, row)
  PROVE  /\ rows' \in [Ids -> MaybeRow] /\ lost' \subseteq Ids
         /\ rows'[i] = row /\ \A j \in Ids : j # i => rows'[j] = rows[j]
BY DEF TypeOK, Save, MaybeRow

(* Of another resource a step of client c on resource i says nothing.      *)
LEMMA ClientTyped ==
  ASSUME TypeOK, NEW c \in Clients, NEW v \in Serving \cup {Idle},
         client' = [client EXCEPT ![c] = v]
  PROVE  /\ client' \in [Clients -> Serving \cup {Idle}]
         /\ client'[c] = v /\ \A d \in Clients : d # c => client'[d] = client[d]
BY DEF TypeOK, Serving

-----------------------------------------------------------------------------
(* Each step keeps the invariant *)

Held == TypeOK /\ \A i \in Ids : At(i)

(* A step about one resource has only that one to answer for.              *)
LEMMA OneResource ==
  ASSUME Held, TypeOK', NEW i \in Ids, At(i)',
         \A j \in Ids : j # i => Same(j)
  PROVE  Held'
<1>1. Typed
  BY TypesHold DEF Held
<1>2. Typed'
  BY TypesHold, PTL
<1>3. ASSUME NEW j \in Ids, j # i PROVE At(j)'
  BY <1>1, <1>2, <1>3, Elsewhere DEF Held
<1> QED
  BY <1>3 DEF Held

(* What supervisor has loaded stays what was, while nothing is written on  *)
(* the server.                                                             *)
LEMMA LoadedStays ==
  ASSUME NEW i \in Ids, At(i), UNCHANGED server, kind'[i] = kind[i],
         i \notin lost' => i \notin lost /\ (Leaving(i) => Leaving(i)'),
         jobs'["install"][i].st \in {"none", "ran"} => jobs["install"][i].st \in {"none", "ran"}
  PROVE  LoadedAt(i)'
BY DEF At, LoadedAt

(* A new row is fresh: nobody works on it and nothing is dispatched.       *)
LEMMA CreateKeeps ==
  ASSUME Held, NEW c \in Clients, NEW i \in Ids, Create(c, i)
  PROVE  Held'
<1> DEFINE row == [installed |-> FALSE, failed |-> FALSE, requested |-> FALSE,
                   unfailed |-> FALSE, ver |-> 1]
           req == [op |-> "install", id |-> i, row |-> row]
<1>1. row \in Row /\ req \in Serving
  BY MaxVersionAssumption DEF Row, Versions, Serving, Ops, JobTypes
<1>2. /\ client[c] = Idle /\ i \notin created
      /\ rows' = [rows EXCEPT ![i] = row] /\ client' = [client EXCEPT ![c] = req]
      /\ created' = created \cup {i}
      /\ UNCHANGED <<kind, server, jobs, sync, requests, faults, lost, unserved, removed, crashed, unsaved>>
  BY DEF Create
<1>3. /\ client' \in [Clients -> Serving \cup {Idle}]
      /\ client'[c] = req /\ \A d \in Clients : d # c => client'[d] = client[d]
  <2> HIDE DEF req
  <2> QED
    BY <1>1, <1>2, ClientTyped DEF Held
<1>4. rows' \in [Ids -> MaybeRow] /\ rows'[i] = row /\ \A j \in Ids : j # i => rows'[j] = rows[j]
  BY <1>1, <1>2 DEF Held, TypeOK, MaybeRow
<1>5. TypeOK'
  BY <1>2, <1>3, <1>4 DEF Held, TypeOK, Serving
<1>6. ASSUME NEW j \in Ids, j # i PROVE Same(j)
  BY <1>2, <1>3, <1>4, <1>6 DEF Same, LoadKept, About
<1>7. /\ \A t \in JobTypes : jobs'[t][i].st = "none"
      /\ jobs'["install"][i].st = "none" /\ jobs'["uninstall"][i].st = "none"
      /\ \A d \in Clients : ~About(d, i)
      /\ sync'.copy[i] = NoRow /\ i \notin removed'
  BY <1>2 DEF Held, At, UnknownAt, JobTypes
<1>8. /\ \A d \in Clients : d # c => ~About(d, i)'
      /\ \A d \in Clients : client'[d] # Idle /\ client'[d].id = i => d = c
  BY <1>3, <1>7 DEF About
<1>9. \A d \in Clients : client'[d].op \in JobTypes /\ client'[d].id = i => d = c
  BY <1>8 DEF JobTypes, Idle
<1>10. ~Dispatching("uninstall", i)'
  BY <1>3, <1>9 DEF Dispatching, JobTypes
<1>11. ~Touched(i)'
  BY <1>3, <1>4, <1>7, <1>8, <1>10 DEF Touched
<1>12. (UnknownAt(i) /\ ShownAt(i) /\ PresentAt(i) /\ RecordedAt(i))'
  BY <1>2, <1>4, <1>7, <1>10 DEF UnknownAt, ShownAt, PresentAt, RecordedAt, IsInstalled
<1>13. (CurrentAt(i) /\ OnceAt(i))'
  BY <1>4, <1>7, <1>9, <1>11 DEF CurrentAt, OnceAt, IsInstalled, JobTypes
<1>14. LoadedAt(i)'
  BY <1>2 DEF Held, At, UnknownAt, LoadedAt
<1> QED
  BY <1>5, <1>6, <1>12, <1>13, <1>14, OneResource DEF At

(* A request that has read a row knows nothing the row did not say.        *)
LEMMA FindKeeps ==
  ASSUME Held, NEW c \in Clients, NEW i \in Ids, NEW op \in Ops, Find(c, i, op)
  PROVE  Held'
<1> DEFINE req == [op |-> op, id |-> i, row |-> rows[i]]
<1>1. Typed
  BY TypesHold DEF Held
<1>2. /\ client[c] = Idle /\ Exists(i) /\ requests < MaxRequests /\ requests' = requests + 1
      /\ client' = [client EXCEPT ![c] = req]
      /\ UNCHANGED <<kind, rows, server, jobs, sync, faults, lost, unserved, created, removed, crashed, unsaved>>
  BY DEF Find
<1>3. req \in Serving
  BY <1>1, <1>2 DEF Typed, Serving
<1>4. /\ client' \in [Clients -> Serving \cup {Idle}]
      /\ client'[c] = req /\ \A d \in Clients : d # c => client'[d] = client[d]
  <2> HIDE DEF req
  <2> QED
    BY <1>2, <1>3, ClientTyped DEF Held
<1>5. TypeOK'
  <2>1. requests' \in 0..MaxRequests
    BY <1>2, BoundsAssumption DEF Held, TypeOK
  <2> QED
    BY <1>2, <1>4, <2>1 DEF Held, TypeOK, Serving
<1>6. ASSUME NEW j \in Ids, j # i PROVE Same(j)
  BY <1>2, <1>4, <1>6 DEF Same, LoadKept, About
<1>7. client[c].op \notin JobTypes /\ client'[c].op \notin JobTypes
  BY <1>2, <1>4 DEF Idle, Ops, JobTypes
<1>8. \A t \in JobTypes : Dispatching(t, i)' <=> Dispatching(t, i)
  BY <1>4, <1>7 DEF Dispatching
<1>9. /\ Exists(i)' /\ (Leaving(i)' <=> Leaving(i)) /\ (Settled(i)' <=> Settled(i))
      /\ Touched(i)' => Touched(i)
  BY <1>2, <1>4, <1>8 DEF Exists, Leaving, Settled, Touched, JobTypes
<1>10. i \in created
  BY <1>2 DEF Held, At, UnknownAt
<1>11. (UnknownAt(i) /\ ShownAt(i) /\ PresentAt(i) /\ RecordedAt(i))'
  BY <1>2, <1>8, <1>9, <1>10
     DEF Held, At, UnknownAt, ShownAt, PresentAt, RecordedAt, IsInstalled, JobTypes, Exists
<1>12. CurrentAt(i)'
  BY <1>2, <1>8, <1>9 DEF Held, At, CurrentAt, Current, IsInstalled, JobTypes
<1>13. OnceAt(i)'
  BY <1>2, <1>4, <1>7, <1>8, <1>9 DEF Held, At, OnceAt, JobTypes
<1>14. LoadedAt(i)'
  BY <1>2, <1>9, LoadedStays DEF Held
<1> QED
  BY <1>5, <1>6, <1>11, <1>12, <1>13, <1>14, OneResource DEF At

(* A row that was read is not the lack of one.                             *)
LEMMA RowIsThere == NoRow \notin Row
<1> SUFFICES ASSUME NoRow \in Row PROVE FALSE
  OBVIOUS
<1>1. DOMAIN NoRow = {"absent"}
  BY DEF NoRow
<1>2. \A r \in Row : "installed" \in DOMAIN r
  BY DEF Row
<1> QED
  BY <1>1, <1>2

(* A request at work is typed, and about the resource it names.            *)
LEMMA ServingClient ==
  ASSUME Held, NEW c \in Clients, client[c].op # "idle"
  PROVE  /\ client[c] # Idle /\ client[c] \in Serving /\ client[c].id \in Ids
         /\ client[c].row \in Row /\ client[c].op \in Ops \cup JobTypes
         /\ About(c, client[c].id) /\ client[c].id \in created
<1>1. Typed
  BY TypesHold DEF Held
<1>2. client[c] # Idle /\ client[c] \in Serving
  BY <1>1 DEF Typed
<1>3. client[c].id \in Ids /\ client[c].row \in Row /\ client[c].op \in Ops \cup JobTypes
  BY <1>2 DEF Serving
<1>4. client[c].id \in created
  BY <1>2, <1>3 DEF Held, At, UnknownAt, About
<1> QED
  BY <1>2, <1>3, <1>4 DEF About

(* What an update does, whatever the kind: it saves the row it has read    *)
(* with another version, and of a daemon it dispatches the install.        *)
Saves(c, i, row, new) ==
  /\ new \in Row /\ Save(i, row, new)
  /\ new.installed = row.installed /\ new.failed = row.failed
  /\ new.requested = row.requested /\ new.unfailed = row.unfailed
  /\ \/ kind[i] = "daemon" /\ ThenDispatch(c, "install")
     \/ kind[i] # "daemon" /\ Answer(c)

(* An update leaves the two records as they were but for one field.        *)
LEMMA UpdateSaves ==
  ASSUME Held, NEW c \in Clients, Update(c)
  PROVE  \E new \in Row : Saves(c, client[c].id, client[c].row, new)
<1> DEFINE i == client[c].id
           row == client[c].row
<1>1. row \in Row /\ i \in Ids
  BY ServingClient DEF Update
<1>2. CASE kind[i] = "daemon" /\ UpdateDaemon(c, i, row)
  <2>1. PICK v \in Versions : /\ Save(i, row, [row EXCEPT !.ver = v])
                              /\ ThenDispatch(c, "install")
    BY <1>2 DEF UpdateDaemon
  <2>2. Saves(c, i, row, [row EXCEPT !.ver = v])
    BY <1>1, <1>2, <2>1, RowTyped, Columns DEF Saves
  <2> QED
    BY <2>2 DEF Saves
<1>3. CASE kind[i] = "cron" /\ UpdateCron(c, i, row)
  <2>1. PICK v \in Versions : Save(i, row, [row EXCEPT !.ver = v]) /\ Answer(c)
    BY <1>3 DEF UpdateCron
  <2>2. Saves(c, i, row, [row EXCEPT !.ver = v])
    BY <1>1, <1>3, <2>1, RowTyped, Columns DEF Saves
  <2> QED
    BY <2>2 DEF Saves
<1>4. CASE kind[i] = "rule" /\ UpdateFirewallRule(c, i, row)
  <2>1. Saves(c, i, row, row)
    BY <1>1, <1>4 DEF Saves, UpdateFirewallRule
  <2> QED
    BY <1>1, <2>1
<1> QED
  BY <1>2, <1>3, <1>4 DEF Update

(* An update leaves a row as removable and as installed as it has read it, *)
(* and of a daemon it asks for the install of the new contents.            *)
LEMMA UpdateKeeps ==
  ASSUME Held, NEW c \in Clients, Update(c)
  PROVE  Held'
<1>0. client[c].op = "update"
  BY DEF Update
<1> SUFFICES ASSUME NEW i \in Ids, NEW row \in Row, i = client[c].id, row = client[c].row
             PROVE  Held'
  BY <1>0, ServingClient
<1>1. PICK new \in Row : Saves(c, i, row, new)
  BY UpdateSaves
<1>2. /\ client[c] \in Serving /\ client[c] # Idle
      /\ About(c, i) /\ i \in created
  BY <1>0, ServingClient
<1>3. /\ rows' \in [Ids -> MaybeRow] /\ lost' \subseteq Ids
      /\ rows'[i] = new /\ \A j \in Ids : j # i => rows'[j] = rows[j]
      /\ \A j \in Ids : j # i => (j \in lost' <=> j \in lost)
      /\ i \notin lost' => i \notin lost /\ rows[i] = row
  BY <1>1, <1>2, SaveTyped DEF Saves, Save, Held
<1>4. UNCHANGED <<kind, server, jobs, sync, requests, faults, unserved, created, removed, crashed, unsaved>>
  BY DEF Update
<1>5. /\ client' \in [Clients -> Serving \cup {Idle}]
      /\ \A d \in Clients : d # c => client'[d] = client[d]
      /\ kind[i] = "daemon" => client'[c] = [client[c] EXCEPT !.op = "install"]
      /\ kind[i] # "daemon" => client'[c] = Idle
  <2>1. [client[c] EXCEPT !.op = "install"] \in Serving
    BY <1>2 DEF Serving, JobTypes
  <2>2. CASE kind[i] = "daemon"
    <3>1. client' = [client EXCEPT ![c] = [client[c] EXCEPT !.op = "install"]]
      BY <1>1, <2>2 DEF Saves, ThenDispatch
    <3> QED
      BY <2>1, <2>2, <3>1, ClientTyped DEF Held
  <2>3. CASE kind[i] # "daemon"
    BY <1>1, <2>3, ClientTyped DEF Saves, Answer, Held
  <2> QED
    BY <2>2, <2>3
<1>6. /\ kind[i] = "daemon" => client'[c].op = "install" /\ client'[c].id = i
      /\ kind[i] # "daemon" => client'[c].op = "idle"
  BY <1>2, <1>5 DEF Serving, Idle
<1>7. TypeOK'
  BY <1>3, <1>4, <1>5 DEF Held, TypeOK, Serving
<1>8. ASSUME NEW j \in Ids, j # i PROVE Same(j)
  <2>1. ~About(c, j) /\ ~About(c, j)'
    BY <1>2, <1>5, <1>6, <1>8 DEF About, Idle
  <2> QED
    BY <1>3, <1>4, <1>5, <1>8, <2>1 DEF Same, LoadKept, About
<1>9. /\ Dispatching("uninstall", i)' => Dispatching("uninstall", i)
      /\ kind[i] = "daemon" => Dispatching("install", i)'
      /\ kind[i] # "daemon" => (Dispatching("install", i)' => Dispatching("install", i))
  BY <1>5, <1>6 DEF Dispatching
<1>10. i \notin lost' => /\ Exists(i) /\ (Leaving(i) => Leaving(i)')
                         /\ IsInstalled(rows[i])' <=> IsInstalled(rows[i])
                         /\ Leaving(i)' => Leaving(i)
  <2>1. new # NoRow /\ row # NoRow
    BY <1>2, RowIsThere
  <2> QED
    BY <1>1, <1>3, <2>1 DEF Saves, Exists, Leaving, IsInstalled
<1>11. (UnknownAt(i) /\ ShownAt(i))'
  BY <1>2, <1>3, <1>4, <1>9, <1>10 DEF Held, At, UnknownAt, ShownAt
<1>12. PresentAt(i)'
  BY <1>2, <1>3, <1>4, <1>10 DEF Held, At, PresentAt
<1>13. RecordedAt(i)'
  BY <1>1, <1>2, <1>3, <1>4, <1>10 DEF Held, At, RecordedAt, Saves
<1>14. CurrentAt(i)'
  <2>1. CASE kind[i] # "daemon"
    BY <1>4, <2>1 DEF CurrentAt
  <2>2. CASE kind[i] = "daemon"
    <3>1. Dispatching("install", i)' /\ jobs'["install"][i] = jobs["install"][i]
      BY <1>4, <1>9, <2>2
    <3>2. /\ ~Leaving(i)' /\ i \notin lost' /\ i \notin unserved
          /\ jobs["install"][i].st \in {"uploaded", "ran"}
          => remote[i] = jobs["install"][i].ver
      BY <1>2, <1>3, <1>10, <2>2 DEF Held, At, CurrentAt
    <3> QED
      BY <1>4, <3>1, <3>2 DEF CurrentAt, Current
  <2> QED
    BY <2>1, <2>2
<1>15. OnceAt(i)'
  <2>1. CASE kind[i] = "daemon"
    BY <1>4, <2>1 DEF OnceAt
  <2>2. CASE kind[i] # "daemon"
    <3>1. Touched(i)' => Touched(i)
      BY <1>1, <1>2, <1>3, <1>4, <1>5, <1>9, <2>2 DEF Touched, Saves
    <3>2. Settled(i) => Settled(i)'
      BY <1>4, <1>9, <2>2 DEF Settled
    <3> QED
      BY <1>2, <1>4, <1>5, <1>6, <1>9, <2>2, <3>1, <3>2 DEF Held, At, OnceAt
  <2> QED
    BY <2>1, <2>2
<1>16. LoadedAt(i)'
  BY <1>3, <1>4, <1>10, LoadedStays DEF Held
<1> QED
  BY <1>2, <1>7, <1>8, <1>11, <1>12, <1>13, <1>14, <1>15, <1>16, OneResource DEF At

(* A delete marks the row, or removes it; what the row said is not needed  *)
(* once somebody wants it gone.                                            *)
LEMMA DeleteKeeps ==
  ASSUME Held, NEW c \in Clients, UninstallOrDelete(c)
  PROVE  Held'
<1>0. client[c].op = "delete"
  BY DEF UninstallOrDelete
<1> SUFFICES ASSUME NEW i \in Ids, NEW row \in Row, i = client[c].id, row = client[c].row
             PROVE  Held'
  BY <1>0, ServingClient
<1>1. /\ client[c] \in Serving /\ client[c] # Idle
      /\ About(c, i) /\ i \in created
  BY <1>0, ServingClient
<1>2. UNCHANGED <<kind, server, jobs, sync, requests, faults, lost, unserved, created, removed, crashed, unsaved>>
  BY DEF UninstallOrDelete
<1>3. Typed
  BY TypesHold DEF Held
<1>4. \/ /\ IsInstalled(row)
         /\ client' = [client EXCEPT ![c] = [client[c] EXCEPT !.op = "uninstall"]]
         /\ rows' = IF Exists(i) THEN [rows EXCEPT ![i] = MarkAsUninstalling(rows[i])] ELSE rows
      \/ /\ client' = [client EXCEPT ![c] = Idle]
         /\ rows' = [rows EXCEPT ![i] = NoRow]
  BY DEF UninstallOrDelete, UpdateFields, ThenDispatch, Answer
<1>5. /\ client' \in [Clients -> Serving \cup {Idle}]
      /\ \A d \in Clients : d # c => client'[d] = client[d]
      /\ client'[c] # Idle => /\ IsInstalled(row) /\ client'[c].id = i
                              /\ client'[c].row = row /\ client'[c].op = "uninstall"
      /\ client'[c].op # "install"
  <2>1. [client[c] EXCEPT !.op = "uninstall"] \in Serving
    BY <1>1 DEF Serving, JobTypes
  <2>2. [client[c] EXCEPT !.op = "uninstall"].op = "uninstall"
    BY <1>1 DEF Serving
  <2> QED
    BY <1>1, <1>4, <2>1, <2>2, ClientTyped DEF Held, Serving, Idle
<1>6. /\ rows' \in [Ids -> MaybeRow]
      /\ \A j \in Ids : j # i => rows'[j] = rows[j]
      /\ \/ rows'[i] = NoRow
         \/ rows[i] \in Row /\ rows'[i] = MarkAsUninstalling(rows[i])
  <2>1. Exists(i) => rows[i] \in Row /\ MarkAsUninstalling(rows[i]) \in Row
    BY <1>3, RowTyped DEF Typed
  <2>2. rows \in [Ids -> MaybeRow]
    BY DEF Held, TypeOK
  <2> QED
    BY <1>4, <2>1, <2>2 DEF Exists, MaybeRow
<1>7. TypeOK'
  BY <1>2, <1>5, <1>6 DEF Held, TypeOK, Serving
<1>8. ASSUME NEW j \in Ids, j # i PROVE Same(j)
  <2>1. ~About(c, j) /\ ~About(c, j)'
    BY <1>1, <1>5, <1>8 DEF About
  <2> QED
    BY <1>2, <1>5, <1>6, <1>8, <2>1 DEF Same, LoadKept, About
<1>9. /\ Leaving(i)'
      /\ Exists(i)' => Exists(i) /\ rows'[i].installed = rows[i].installed
                       /\ rows'[i].failed = rows[i].failed /\ rows'[i].unfailed = rows[i].unfailed
  <2>1. CASE rows'[i] = NoRow
    BY <2>1 DEF Leaving, Exists
  <2>2. CASE rows[i] \in Row /\ rows'[i] = MarkAsUninstalling(rows[i])
    <3>0. \A r \in Row :
            /\ MarkAsUninstalling(r).requested = TRUE
            /\ MarkAsUninstalling(r).installed = r.installed
            /\ MarkAsUninstalling(r).failed = r.failed /\ MarkAsUninstalling(r).unfailed = r.unfailed
      BY Columns
    <3>1. /\ rows'[i].requested = TRUE
          /\ rows'[i].installed = rows[i].installed
          /\ rows'[i].failed = rows[i].failed /\ rows'[i].unfailed = rows[i].unfailed
      BY <2>2, <3>0
    <3>2. Exists(i)
      BY <2>2, RowIsThere DEF Exists
    <3> QED
      BY <3>1, <3>2 DEF Leaving
  <2> QED
    BY <1>6, <2>1, <2>2
<1>10. Dispatching("install", i)' => Dispatching("install", i)
  BY <1>5 DEF Dispatching
<1>11. (UnknownAt(i) /\ ShownAt(i) /\ CurrentAt(i) /\ LoadedAt(i))'
  BY <1>1, <1>2, <1>9 DEF UnknownAt, ShownAt, CurrentAt, LoadedAt
<1>12. PresentAt(i)'
  BY <1>2, <1>9 DEF Held, At, PresentAt
<1>13. RecordedAt(i)'
  BY <1>2, <1>9 DEF Held, At, RecordedAt
<1>14. OnceAt(i)'
  <2>1. Touched(i)' => Touched(i)
    <3>1. client'[c] # Idle => row.installed
      BY <1>5 DEF IsInstalled
    <3>2. CASE client'[c] # Idle
      BY <1>1, <3>1, <3>2 DEF Touched, About
    <3>3. CASE client'[c] = Idle
      <4>1. Dispatching("uninstall", i)' => Dispatching("uninstall", i)
        BY <1>5, <3>3 DEF Dispatching, Idle
      <4> QED
        BY <1>2, <1>5, <1>9, <3>3, <4>1 DEF Touched
    <3> QED
      BY <3>2, <3>3
  <2>2. Settled(i) => Settled(i)'
    BY <1>2, <1>10 DEF Settled
  <2> QED
    BY <1>2, <1>5, <1>10, <2>1, <2>2 DEF Held, At, OnceAt
<1> QED
  BY <1>7, <1>8, <1>11, <1>12, <1>13, <1>14, OneResource DEF At

(* An enqueue puts a task that was not there in the queue, or finds one    *)
(* with its TaskID, or is refused: the row is not written.                 *)
LEMMA DispatchKeeps ==
  ASSUME Held, NEW c \in Clients, Dispatch(c)
  PROVE  Held'
<1>0. client[c].op \in JobTypes
  BY DEF Dispatch
<1> SUFFICES ASSUME NEW i \in Ids, NEW t \in JobTypes, i = client[c].id, t = client[c].op
             PROVE  Held'
  BY <1>0, ServingClient DEF JobTypes
<1>1. /\ client[c] \in Serving /\ client[c] # Idle
      /\ About(c, i) /\ i \in created
  BY <1>0, ServingClient DEF JobTypes
<1>2. /\ UNCHANGED <<kind, rows, server, sync, requests, lost, created, removed, crashed, unsaved>>
      /\ client' = [client EXCEPT ![c] = Idle]
  BY DEF Dispatch, Answer
<1>3. \/ jobs[t][i].st = "none" /\ SetJob(t, i, "queued") /\ UNCHANGED <<faults, unserved>>
      \/ /\ jobs[t][i].st # "none" /\ UNCHANGED <<jobs, faults>>
         /\ unserved' = IF t = "install" /\ jobs[t][i].st # "queued"
                        THEN unserved \cup {i} ELSE unserved
      \/ /\ faults < MaxFaults /\ faults' = faults + 1 /\ UNCHANGED jobs
         /\ unserved' = IF t = "install" THEN unserved \cup {i} ELSE unserved
  BY DEF Dispatch
<1>4. /\ client' \in [Clients -> Serving \cup {Idle}]
      /\ client'[c] = Idle /\ \A d \in Clients : d # c => client'[d] = client[d]
  BY <1>2, ClientTyped DEF Held
<1>5. /\ jobs' \in [JobTypes -> [Ids -> JobRecord]]
      /\ \A u \in JobTypes, j \in Ids : u # t \/ j # i => jobs'[u][j] = jobs[u][j]
      /\ \/ jobs'[t][i] = jobs[t][i]
         \/ jobs[t][i].st = "none" /\ jobs'[t][i].st = "queued"
  <2>1. jobs \in [JobTypes -> [Ids -> JobRecord]]
    BY DEF Held, TypeOK, JobRecord
  <2>2. CASE jobs[t][i].st = "none" /\ SetJob(t, i, "queued")
    <3>1. /\ jobs' \in [JobTypes -> [Ids -> JobRecord]]
          /\ jobs'[t][i] = [jobs[t][i] EXCEPT !.st = "queued"]
          /\ \A u \in JobTypes, j \in Ids : u # t \/ j # i => jobs'[u][j] = jobs[u][j]
      BY <2>2, SetJobTyped DEF Held, JobStates
    <3>2. [jobs[t][i] EXCEPT !.st = "queued"].st = "queued"
      BY <2>1 DEF JobRecord
    <3> QED
      BY <2>2, <3>1, <3>2
  <2> QED
    BY <1>3, <2>1, <2>2
<1>6. TypeOK'
  <2>1. faults' \in 0..MaxFaults /\ unserved' \subseteq Ids
    BY <1>3, BoundsAssumption DEF Held, TypeOK
  <2> QED
    BY <1>2, <1>4, <1>5, <2>1 DEF Held, TypeOK, Serving, JobRecord
<1>7. ASSUME NEW j \in Ids, j # i PROVE Same(j)
  <2>1. ~About(c, j) /\ ~About(c, j)'
    BY <1>1, <1>4, <1>7 DEF About
  <2>2. j \in unserved' <=> j \in unserved
    BY <1>3, <1>7
  <2> QED
    BY <1>2, <1>4, <1>5, <1>7, <2>1, <2>2 DEF Same, LoadKept, About
<1>8. client'[c].op \notin JobTypes
  BY <1>4 DEF Idle, JobTypes
<1>9. /\ \A u \in JobTypes : Dispatching(u, i)' => Dispatching(u, i)
      /\ \A u \in JobTypes : u # t => (Dispatching(u, i)' <=> Dispatching(u, i))
      /\ Dispatching(t, i)
  BY <1>4, <1>8 DEF Dispatching
<1>10. (Leaving(i)' <=> Leaving(i)) /\ (Exists(i)' <=> Exists(i)) /\ rows'[i] = rows[i]
  BY <1>2 DEF Leaving, Exists
<1>11. UnknownAt(i)' /\ ShownAt(i)'
  <2>1. jobs'["uninstall"][i].st # "none"
        => jobs["uninstall"][i].st # "none" \/ Dispatching("uninstall", i)
    BY <1>5, <1>9 DEF JobTypes
  <2> QED
    BY <1>1, <1>2, <1>9, <1>10, <2>1 DEF Held, At, UnknownAt, ShownAt, JobTypes
<1>12. PresentAt(i)' /\ RecordedAt(i)'
  <2>1. /\ jobs'["install"][i] = jobs["install"][i] \/ jobs'["install"][i].st = "queued"
        /\ jobs'["uninstall"][i] = jobs["uninstall"][i] \/ jobs'["uninstall"][i].st = "queued"
    BY <1>5 DEF JobTypes
  <2> QED
    BY <1>2, <1>10, <2>1 DEF Held, At, PresentAt, RecordedAt
<1>13. CurrentAt(i)'
  <2>1. CASE t = "uninstall"
    <3>1. jobs'["install"][i] = jobs["install"][i] /\ unserved' = unserved
      BY <1>3, <1>5, <2>1 DEF JobTypes
    <3> QED
      BY <1>2, <1>9, <1>10, <2>1, <3>1 DEF Held, At, CurrentAt, Current, JobTypes
  <2>2. CASE t = "install"
    <3>1. jobs'["install"][i].st = "queued" \/ i \in unserved'
      <4>1. CASE SetJob(t, i, "queued")
        <5>1. jobs[t][i] \in JobRecord
          BY DEF Held, TypeOK, JobRecord
        <5>2. jobs'[t][i] = [jobs[t][i] EXCEPT !.st = "queued"]
          BY <4>1, SetJobTyped DEF Held, JobStates
        <5> QED
          BY <2>2, <5>1, <5>2 DEF JobRecord
      <4> QED
        BY <1>3, <2>2, <4>1
    <3> QED
      BY <3>1 DEF CurrentAt
  <2> QED
    BY <2>1, <2>2 DEF JobTypes
<1>14. OnceAt(i)'
  <2>1. Touched(i)' => Touched(i)
    <3>1. jobs'["uninstall"][i].st # "none"
          => jobs["uninstall"][i].st # "none" \/ Dispatching("uninstall", i)
      BY <1>5, <1>9 DEF JobTypes
    <3> QED
      BY <1>2, <1>4, <1>9, <1>10, <3>1 DEF Touched, JobTypes
  <2>2. Settled(i) => Settled(i)'
    <3>1. Settled(i) => t = "uninstall"
      BY <1>9 DEF Settled, JobTypes
    <3> QED
      BY <1>5, <1>9, <3>1 DEF Settled, JobTypes
  <2>3. kind[i] # "daemon" /\ Dispatching("install", i)' => jobs'["install"][i].st = "none"
    <3>1. kind[i] # "daemon" /\ t = "install" => ~Dispatching("install", i)'
      BY <1>4, <1>8 DEF Held, At, OnceAt, Dispatching, JobTypes
    <3> QED
      BY <1>5, <1>9, <3>1 DEF Held, At, OnceAt, JobTypes
  <2>4. jobs'["uninstall"][i].st = "ran" => jobs["uninstall"][i].st = "ran"
    BY <1>5 DEF JobTypes
  <2>5. \A d \in Clients : client'[d].op = "install" => client'[d] = client[d]
    BY <1>4, <1>8 DEF JobTypes
  <2> QED
    BY <1>2, <2>1, <2>2, <2>3, <2>4, <2>5 DEF Held, At, OnceAt
<1>15. LoadedAt(i)'
  <2>1. jobs'["install"][i] = jobs["install"][i] \/ jobs'["install"][i].st = "queued"
    BY <1>5 DEF JobTypes
  <2> QED
    BY <1>2, <1>10, <2>1, LoadedStays DEF Held
<1> QED
  BY <1>6, <1>7, <1>11, <1>12, <1>13, <1>14, <1>15, OneResource DEF At

(* What a job does until its handler ends: it is taken from the queue, its *)
(* script runs, it fails or dies.  The row is only read.                   *)
Moves(t, i) ==
  /\ UNCHANGED <<kind, rows, client, sync, requests, lost, unserved, created, removed>>
  /\ faults' \in 0..MaxFaults
  /\ jobs' \in [JobTypes -> [Ids -> JobRecord]]
  /\ \A u \in JobTypes, j \in Ids : u # t \/ j # i => jobs'[u][j] = jobs[u][j]
  /\ jobs[t][i].st \in {"queued", "running", "uploaded", "ran", "failing"}
  /\ jobs'[t][i].st \in {"queued", "running", "uploaded", "ran", "failing", "archived"}
  /\ remote' \in [Ids -> 0..MaxVersion] /\ \A j \in Ids : j # i => remote'[j] = remote[j]
  /\ loaded' \in [Ids -> 0..MaxVersion] /\ unreloaded' \subseteq Ids
  /\ \A j \in Ids : j # i => LoadKept(j)
  /\ crashed' \subseteq Ids /\ \A j \in Ids : j # i => (j \in crashed' <=> j \in crashed)
  /\ unsaved' \subseteq Ids /\ \A j \in Ids : j # i => (j \in unsaved' <=> j \in unsaved)
  /\ \A j \in Ids : j \in crashed \cup unsaved => j \in crashed' \cup unsaved'
  /\ \/ remote'[i] = remote[i]
     \/ t = "install" /\ jobs[t][i].st = "running" /\ remote'[i] = jobs[t][i].ver
     \/ t = "uninstall" /\ jobs[t][i].st = "running" /\ remote'[i] = 0
  /\ jobs'[t][i].st = "running" =>
       Exists(i) /\ jobs'[t][i].ver = rows[i].ver /\ remote'[i] = remote[i]
  /\ jobs'[t][i].st \in {"uploaded", "ran"} =>
       /\ jobs'[t][i].ver = jobs[t][i].ver
       /\ \/ jobs[t][i].st = "running" /\ (t = "install" => remote'[i] = jobs[t][i].ver)
          \/ t = "install" /\ jobs[t][i].st = "uploaded" /\ remote'[i] = remote[i]
       /\ t = "uninstall" /\ kind[i] # "daemon" => remote'[i] = 0
  /\ t = "install" /\ jobs'[t][i].st = "ran" /\ kind[i] = "daemon" =>
       i \in unreloaded' \/ loaded'[i] = remote'[i]
  /\ jobs'[t][i].st = "archived" => i \in crashed' \cup unsaved'

(* A job that moves keeps the invariant.                                   *)
LEMMA MovesKeeps ==
  ASSUME Held, NEW t \in JobTypes, NEW i \in Ids, Moves(t, i)
  PROVE  Held'
<1>1. UNCHANGED <<kind, rows, client, sync, requests, lost, unserved, created, removed>>
  BY DEF Moves
<1>2. TypeOK'
  BY <1>1 DEF Moves, Held, TypeOK, JobRecord
<1>3. ASSUME NEW j \in Ids, j # i PROVE Same(j)
  BY <1>1, <1>3 DEF Moves, Same, LoadKept, About
<1>4. /\ \A u \in JobTypes : Dispatching(u, i)' <=> Dispatching(u, i)
      /\ Exists(i)' <=> Exists(i)
      /\ Leaving(i)' <=> Leaving(i)
      /\ rows'[i] = rows[i] /\ kind'[i] = kind[i] /\ lost' = lost /\ unserved' = unserved
  BY <1>1 DEF Dispatching, Exists, Leaving
<1>5. jobs'[t][i].st # "none" /\ jobs[t][i].st # "none" /\ jobs[t][i].st # "archived"
  BY DEF Moves
<1>6. i \in created
  BY <1>5 DEF Held, At, UnknownAt
<1>7. /\ t = "install" => jobs'["uninstall"][i] = jobs["uninstall"][i]
      /\ t = "uninstall" => jobs'["install"][i] = jobs["install"][i]
      /\ t = "install" \/ t = "uninstall"
  BY DEF Moves, JobTypes
<1>8. UnknownAt(i)' /\ ShownAt(i)'
  <2>1. jobs'["uninstall"][i].st # "none" <=> jobs["uninstall"][i].st # "none"
    BY <1>5, <1>7
  <2> QED
    BY <1>1, <1>4, <1>6, <2>1 DEF Held, At, UnknownAt, ShownAt, JobTypes
<1>9. RecordedAt(i)'
  <2>1. jobs'[t][i].st = "archived" => i \in crashed' \cup unsaved'
    BY DEF Moves
  <2>2. i \in crashed \cup unsaved => i \in crashed' \cup unsaved'
    BY DEF Moves
  <2> QED
    BY <1>4, <1>7, <2>1, <2>2 DEF Held, At, RecordedAt
<1>10. Exists(i) => rows[i] \in Row /\ rows[i].ver # 0
  <2>1. Exists(i) => rows[i] \in Row
    BY TypesHold DEF Held, Typed
  <2> QED
    BY <2>1 DEF Row, Versions
<1>11. t = "uninstall" /\ i \notin lost => Leaving(i)
  BY <1>5 DEF Held, At, ShownAt
<1>12. CASE t = "install"
  <2>1. PresentAt(i)'
    <3>1. jobs'["install"][i].st = "running" => jobs'["install"][i].ver # 0
      BY <1>10, <1>12 DEF Moves
    <3>2. jobs["install"][i].st = "running" => jobs["install"][i].ver # 0
      BY DEF Held, At, PresentAt
    <3>3. remote[i] # 0 => remote'[i] # 0
      BY <1>12, <3>2 DEF Moves
    <3>4. jobs'["install"][i].st \in {"uploaded", "ran"} /\ i \notin lost
            => remote'[i] # 0 \/ Leaving(i)
      BY <1>12, <3>2 DEF Moves, Held, At, PresentAt
    <3> QED
      BY <1>4, <3>1, <3>3, <3>4 DEF Held, At, PresentAt
  <2>2. CurrentAt(i)'
    <3>1. jobs'["install"][i].st = "running" => jobs'["install"][i].ver = rows[i].ver
      BY <1>12 DEF Moves
    <3>2. jobs'["install"][i].st \in {"uploaded", "ran"} =>
            /\ jobs'["install"][i].ver = jobs["install"][i].ver
            /\ \/ /\ jobs["install"][i].st = "running"
                  /\ remote'[i] = jobs'["install"][i].ver
               \/ /\ jobs["install"][i].st = "uploaded"
                  /\ remote'[i] = remote[i]
      BY <1>12 DEF Moves
    <3>3. jobs'["install"][i].st # "none"
      BY <1>5, <1>12
    <3> QED
      BY <1>4, <3>1, <3>2, <3>3 DEF Held, At, CurrentAt, Current, JobTypes
  <2>3. OnceAt(i)'
    <3>1. ~Settled(i)
      BY <1>5, <1>12 DEF Settled
    <3>2. Touched(i)' => Touched(i)
      BY <1>1, <1>4, <1>7, <1>12 DEF Touched, JobTypes
    <3> QED
      BY <1>1, <1>4, <1>5, <1>7, <1>12, <3>1, <3>2 DEF Held, At, OnceAt, JobTypes, Touched
  <2>4. LoadedAt(i)'
    <3>1. jobs'["install"][i].st = "ran" /\ kind[i] = "daemon"
          => i \in unreloaded' \/ loaded'[i] = remote'[i]
      BY <1>12 DEF Moves
    <3> QED
      BY <1>4, <1>5, <1>12, <3>1 DEF LoadedAt
  <2> QED
    BY <1>2, <1>3, <1>8, <1>9, <2>1, <2>2, <2>3, <2>4, OneResource DEF At
<1>13. CASE t = "uninstall"
  <2>1. PresentAt(i)' /\ CurrentAt(i)' /\ LoadedAt(i)'
    BY <1>4, <1>7, <1>11, <1>13 DEF Held, At, PresentAt, CurrentAt, LoadedAt
  <2>2. OnceAt(i)'
    <3>1. Touched(i) /\ (Settled(i)' <=> Settled(i))
      BY <1>4, <1>5, <1>7, <1>13 DEF Touched, Settled, JobTypes
    <3>2. jobs'["uninstall"][i].st = "ran" /\ kind[i] # "daemon" => remote'[i] = 0
      BY <1>13 DEF Moves
    <3>3. remote[i] = 0 => remote'[i] = 0
      BY <1>13 DEF Moves
    <3> QED
      BY <1>1, <1>4, <1>7, <1>13, <3>1, <3>2, <3>3 DEF Held, At, OnceAt, JobTypes
  <2> QED
    BY <1>2, <1>3, <1>8, <1>9, <2>1, <2>2, OneResource DEF At
<1> QED
  BY <1>7, <1>12, <1>13

(* Handle starts with the row it loads, or fails without one.              *)
LEMMA StartMoves ==
  ASSUME Held, NEW t \in JobTypes, NEW i \in Ids, StartJob(t, i)
  PROVE  Moves(t, i)
<1> DEFINE job == IF Exists(i) THEN [st |-> "running", ver |-> rows[i].ver]
                               ELSE [st |-> "failing", ver |-> 0]
<1>1. /\ jobs[t][i].st = "queued" /\ jobs' = [jobs EXCEPT ![t][i] = job]
      /\ UNCHANGED <<kind, rows, server, client, sync, requests, faults, lost, unserved,
                     created, removed, crashed, unsaved>>
  BY DEF StartJob, Quiet, JobUnchanged
<1>2. job \in JobRecord
  <2>1. Exists(i) => rows[i] \in Row
    BY TypesHold DEF Held, Typed
  <2>2. Exists(i) => rows[i].ver \in 0..MaxVersion
    BY <2>1 DEF Row, Versions
  <2> QED
    BY <2>2, MaxVersionAssumption DEF JobRecord, JobStates
<1>3. /\ jobs' \in [JobTypes -> [Ids -> JobRecord]] /\ jobs'[t][i] = job
      /\ \A u \in JobTypes, j \in Ids : u # t \/ j # i => jobs'[u][j] = jobs[u][j]
  <2> HIDE DEF job
  <2>1. jobs \in [JobTypes -> [Ids -> JobRecord]]
    BY DEF Held, TypeOK, JobRecord
  <2> QED
    BY <1>1, <1>2, <2>1
<1>4. /\ jobs'[t][i].st \in {"running", "failing"}
      /\ jobs'[t][i].st = "running" => Exists(i) /\ jobs'[t][i].ver = rows[i].ver
  BY <1>3
<1> QED
  BY <1>1, <1>3, <1>4 DEF Moves, LoadKept, Held, TypeOK

(* The status of a job that is set, and the version it works with.         *)
LEMMA JobSet ==
  ASSUME Held, NEW t \in JobTypes, NEW i \in Ids, NEW st \in JobStates, SetJob(t, i, st)
  PROVE  /\ jobs' \in [JobTypes -> [Ids -> JobRecord]]
         /\ \A u \in JobTypes, j \in Ids : u # t \/ j # i => jobs'[u][j] = jobs[u][j]
         /\ jobs'[t][i].st = st /\ jobs'[t][i].ver = jobs[t][i].ver
         /\ jobs[t][i].ver \in 0..MaxVersion
<1>1. jobs[t][i] \in JobRecord
  BY DEF Held, TypeOK, JobRecord
<1>2. /\ jobs' \in [JobTypes -> [Ids -> JobRecord]]
      /\ jobs'[t][i] = [jobs[t][i] EXCEPT !.st = st]
      /\ \A u \in JobTypes, j \in Ids : u # t \/ j # i => jobs'[u][j] = jobs[u][j]
  BY SetJobTyped DEF Held
<1>3. /\ jobs'[t][i].st = st /\ jobs'[t][i].ver = jobs[t][i].ver
      /\ jobs[t][i].ver \in 0..MaxVersion
  BY <1>1, <1>2 DEF JobRecord
<1> QED
  BY <1>2, <1>3

(* A reload leaves of each daemon what was loaded, or what its file says.  *)
LEMMA LoadIsPartial ==
  ASSUME Held, NEW some \in SUBSET Daemons, remote' \in [Ids -> 0..MaxVersion],
         Load(remote', some)
  PROVE  /\ loaded' \in [Ids -> 0..MaxVersion]
         /\ \A j \in Ids : loaded'[j] = remote'[j] \/ loaded'[j] = loaded[j]
         /\ \A j \in some : loaded'[j] = remote'[j]
BY DEF Load, Daemons, Held, TypeOK

(* A script proceeds or fails, and may have done its work in either case.  *)
LEMMA RunInstallMoves ==
  ASSUME Held, NEW i \in Ids, RunInstall(i)
  PROVE  Moves("install", i)
<1>1. PICK outcome \in {"ok", "unsuccessful", "error"}, done \in BOOLEAN :
        /\ outcome = "ok" => done
        /\ remote' = [remote EXCEPT ![i] = IF done THEN jobs["install"][i].ver ELSE @]
        /\ SetJob("install", i,
             IF ~InstallProceeds(kind[i], outcome) THEN "failing"
             ELSE IF kind[i] = "daemon" THEN "uploaded" ELSE "ran")
  BY DEF RunInstall
<1>2. /\ jobs["install"][i].st = "running"
      /\ UNCHANGED <<kind, rows, loaded, unreloaded, client, sync, requests, faults, lost, unserved,
                     created, removed, crashed, unsaved>>
  BY DEF RunInstall, Quiet, JobUnchanged
<1>3. InstallProceeds(kind[i], outcome) => done
  <2>1. kind[i] \in Kinds
    BY DEF Held, TypeOK
  <2> QED
    BY <1>1, <2>1 DEF InstallProceeds, Kinds, InstallDaemonProceeds, InstallCronProceeds,
                      InstallFirewallRuleProceeds
<1>4. PICK st \in {"uploaded", "ran", "failing"} :
        /\ SetJob("install", i, st)
        /\ st \in {"uploaded", "ran"} => done
        /\ kind[i] = "daemon" => st # "ran"
  <2>1. CASE ~InstallProceeds(kind[i], outcome)
    BY <1>1, <2>1
  <2>2. CASE InstallProceeds(kind[i], outcome) /\ kind[i] = "daemon"
    BY <1>1, <1>3, <2>2
  <2>3. CASE InstallProceeds(kind[i], outcome) /\ kind[i] # "daemon"
    BY <1>1, <1>3, <2>3
  <2> QED
    BY <2>1, <2>2, <2>3
<1>5. /\ jobs' \in [JobTypes -> [Ids -> JobRecord]]
      /\ \A u \in JobTypes, j \in Ids : u # "install" \/ j # i => jobs'[u][j] = jobs[u][j]
      /\ jobs'["install"][i].st = st /\ jobs'["install"][i].ver = jobs["install"][i].ver
      /\ jobs["install"][i].ver \in 0..MaxVersion
  BY <1>4, JobSet DEF JobTypes, JobStates
<1>6. /\ remote' \in [Ids -> 0..MaxVersion] /\ \A j \in Ids : j # i => remote'[j] = remote[j]
      /\ remote'[i] = remote[i] \/ remote'[i] = jobs["install"][i].ver
      /\ done => remote'[i] = jobs["install"][i].ver
  BY <1>1, <1>5 DEF Held, TypeOK
<1> QED
  BY <1>2, <1>4, <1>5, <1>6 DEF Moves, LoadKept, Held, TypeOK

(* The reload goes wrong and is remembered, or loads every daemon's file.  *)
LEMMA ReloadMoves ==
  ASSUME Held, NEW i \in Ids, ReloadSupervisor(i)
  PROVE  Moves("install", i)
<1>1. /\ jobs["install"][i].st = "uploaded" /\ SetJob("install", i, "ran")
      /\ UNCHANGED <<kind, rows, remote, client, sync, requests, faults, lost, unserved,
                     created, removed, crashed, unsaved>>
  BY DEF ReloadSupervisor, Quiet, JobUnchanged
<1>2. /\ jobs' \in [JobTypes -> [Ids -> JobRecord]]
      /\ \A u \in JobTypes, j \in Ids : u # "install" \/ j # i => jobs'[u][j] = jobs[u][j]
      /\ jobs'["install"][i].st = "ran" /\ jobs'["install"][i].ver = jobs["install"][i].ver
  BY <1>1, JobSet DEF JobTypes, JobStates
<1>3. remote' \in [Ids -> 0..MaxVersion]
  BY <1>1 DEF Held, TypeOK
<1>4. /\ loaded' \in [Ids -> 0..MaxVersion] /\ unreloaded' \subseteq Ids
      /\ \A j \in Ids : j # i => LoadKept(j)
      /\ kind[i] = "daemon" => i \in unreloaded' \/ loaded'[i] = remote'[i]
  <2>1. CASE Load(remote, Daemons) /\ unreloaded' = {}
    <3>1. /\ loaded' \in [Ids -> 0..MaxVersion]
          /\ \A j \in Daemons : loaded'[j] = remote'[j]
      BY <1>1, <1>3, <2>1, LoadIsPartial
    <3> QED
      BY <2>1, <3>1 DEF LoadKept, Daemons
  <2>2. ASSUME NEW some \in SUBSET Daemons,
               Load(remote, some), unreloaded' = unreloaded \cup {i}
        PROVE  /\ loaded' \in [Ids -> 0..MaxVersion] /\ unreloaded' \subseteq Ids
               /\ \A j \in Ids : j # i => LoadKept(j)
               /\ i \in unreloaded'
    <3>1. /\ loaded' \in [Ids -> 0..MaxVersion]
          /\ \A j \in Ids : loaded'[j] = remote'[j] \/ loaded'[j] = loaded[j]
      BY <1>1, <1>3, <2>2, LoadIsPartial
    <3> QED
      BY <2>2, <3>1 DEF LoadKept, Held, TypeOK
  <2> QED
    BY <2>1, <2>2 DEF ReloadSupervisor
<1> QED
  BY <1>1, <1>2, <1>3, <1>4 DEF Moves, Held, TypeOK

(* What an uninstall script does to the server, cut off or not.            *)
LEMMA UninstallsPartly ==
  ASSUME Held, NEW i \in Ids, NEW whole \in BOOLEAN, Uninstalls(i, whole)
  PROVE  /\ remote' \in [Ids -> 0..MaxVersion] /\ \A j \in Ids : j # i => remote'[j] = remote[j]
         /\ remote'[i] = 0
         /\ loaded' \in [Ids -> 0..MaxVersion] /\ unreloaded' = unreloaded
         /\ \A j \in Ids : LoadKept(j)
<1>1. /\ remote' = [remote EXCEPT ![i] = 0] /\ unreloaded' = unreloaded
      /\ \/ loaded' = loaded
         \/ \E some \in SUBSET Daemons : Load(remote', some)
  BY DEF Uninstalls
<1>2. /\ remote' \in [Ids -> 0..MaxVersion] /\ remote'[i] = 0
      /\ \A j \in Ids : j # i => remote'[j] = remote[j]
  BY <1>1, MaxVersionAssumption DEF Held, TypeOK
<1>3. /\ loaded' \in [Ids -> 0..MaxVersion]
      /\ \A j \in Ids : loaded'[j] = remote'[j] \/ loaded'[j] = loaded[j]
  BY <1>1, <1>2, LoadIsPartial DEF Held, TypeOK
<1> QED
  BY <1>1, <1>2, <1>3 DEF LoadKept

(* The uninstall script: that of a daemon is taken for success whatever it *)
(* says, those of the other kinds only when they say so.                   *)
LEMMA RunUninstallMoves ==
  ASSUME Held, NEW i \in Ids, RunUninstall(i)
  PROVE  Moves("uninstall", i)
<1>1. PICK outcome \in {"ok", "unsuccessful", "error"} :
        /\ \/ outcome # "ok" /\ UNCHANGED server
           \/ Uninstalls(i, outcome = "ok")
        /\ SetJob("uninstall", i, IF UninstallProceeds(kind[i], outcome) THEN "ran" ELSE "failing")
  BY DEF RunUninstall
<1>2. /\ jobs["uninstall"][i].st = "running"
      /\ UNCHANGED <<kind, rows, client, sync, requests, faults, lost, unserved,
                     created, removed, crashed, unsaved>>
  BY DEF RunUninstall, Quiet, JobUnchanged
<1>3. UninstallProceeds(kind[i], outcome) /\ kind[i] # "daemon" => outcome = "ok"
  <2>1. kind[i] \in Kinds
    BY DEF Held, TypeOK
  <2> QED
    BY <1>1, <2>1 DEF UninstallProceeds, Kinds, UninstallCronProceeds,
                      UninstallFirewallRuleProceeds
<1>4. PICK st \in {"ran", "failing"} :
        SetJob("uninstall", i, st) /\ (st = "ran" /\ kind[i] # "daemon" => outcome = "ok")
  BY <1>1, <1>3
<1>5. /\ jobs' \in [JobTypes -> [Ids -> JobRecord]]
      /\ \A u \in JobTypes, j \in Ids : u # "uninstall" \/ j # i => jobs'[u][j] = jobs[u][j]
      /\ jobs'["uninstall"][i].st = st /\ jobs'["uninstall"][i].ver = jobs["uninstall"][i].ver
  BY <1>4, JobSet DEF JobTypes, JobStates
<1>6. /\ remote' \in [Ids -> 0..MaxVersion] /\ \A j \in Ids : j # i => remote'[j] = remote[j]
      /\ remote'[i] = remote[i] \/ remote'[i] = 0
      /\ outcome = "ok" => remote'[i] = 0
      /\ loaded' \in [Ids -> 0..MaxVersion] /\ unreloaded' = unreloaded
      /\ \A j \in Ids : LoadKept(j)
  <2>1. CASE outcome # "ok" /\ UNCHANGED server
    BY <2>1 DEF LoadKept, Held, TypeOK
  <2>2. CASE Uninstalls(i, outcome = "ok")
    BY <2>2, UninstallsPartly
  <2> QED
    BY <1>1, <2>1, <2>2
<1> QED
  BY <1>2, <1>4, <1>5, <1>6 DEF Moves, Held, TypeOK

(* A query that fails sends the handler to its failure.                    *)
LEMMA DatabaseFailsMoves ==
  ASSUME Held, NEW t \in JobTypes, NEW i \in Ids, DatabaseFails(t, i)
  PROVE  Moves(t, i)
<1>1. /\ jobs[t][i].st \in {"running", "ran"} /\ faults < MaxFaults /\ faults' = faults + 1
      /\ SetJob(t, i, "failing")
      /\ UNCHANGED <<kind, rows, server, client, sync, requests, lost, unserved,
                     created, removed, crashed, unsaved>>
  BY DEF DatabaseFails, JobUnchanged, Fault
<1>2. /\ jobs' \in [JobTypes -> [Ids -> JobRecord]]
      /\ \A u \in JobTypes, j \in Ids : u # t \/ j # i => jobs'[u][j] = jobs[u][j]
      /\ jobs'[t][i].st = "failing"
  BY <1>1, JobSet DEF JobStates
<1>3. faults' \in 0..MaxFaults
  BY <1>1, BoundsAssumption DEF Held, TypeOK
<1> QED
  BY <1>1, <1>2, <1>3 DEF Moves, LoadKept, Held, TypeOK

(* A worker that ends leaves its task archived or queued again, and what   *)
(* the script has done.                                                    *)
LEMMA WorkerDiesMoves ==
  ASSUME Held, NEW t \in JobTypes, NEW i \in Ids, WorkerDies(t, i)
  PROVE  Moves(t, i)
<1>1. /\ jobs[t][i].st \in {"running", "uploaded", "ran", "failing"} /\ faults < MaxFaults
      /\ faults' = faults + 1
      /\ UNCHANGED <<kind, rows, client, sync, requests, lost, unserved, created, removed, unsaved>>
  BY DEF WorkerDies, JobUnchanged, Fault
<1>2. PICK st \in {"archived", "queued"} :
        SetJob(t, i, st) /\ crashed' = IF st = "archived" THEN crashed \cup {i} ELSE crashed
  BY DEF WorkerDies
<1>3. /\ jobs' \in [JobTypes -> [Ids -> JobRecord]]
      /\ \A u \in JobTypes, j \in Ids : u # t \/ j # i => jobs'[u][j] = jobs[u][j]
      /\ jobs'[t][i].st = st /\ jobs[t][i].ver \in 0..MaxVersion
  BY <1>2, JobSet DEF JobStates
<1>4. faults' \in 0..MaxFaults
  BY <1>1, BoundsAssumption DEF Held, TypeOK
<1>5. /\ remote' \in [Ids -> 0..MaxVersion] /\ \A j \in Ids : j # i => remote'[j] = remote[j]
      /\ loaded' \in [Ids -> 0..MaxVersion] /\ unreloaded' = unreloaded
      /\ \A j \in Ids : LoadKept(j)
      /\ \/ remote'[i] = remote[i]
         \/ t = "install" /\ jobs[t][i].st = "running" /\ remote'[i] = jobs[t][i].ver
         \/ t = "uninstall" /\ jobs[t][i].st = "running" /\ remote'[i] = 0
  <2>1. CASE UNCHANGED server
    BY <2>1 DEF LoadKept, Held, TypeOK
  <2>2. CASE /\ t = "install" /\ jobs[t][i].st = "running"
             /\ remote' = [remote EXCEPT ![i] = jobs[t][i].ver]
             /\ UNCHANGED <<loaded, unreloaded>>
    BY <1>3, <2>2 DEF LoadKept, Held, TypeOK
  <2>3. ASSUME NEW some \in SUBSET Daemons, Load(remote, some),
               UNCHANGED <<remote, unreloaded>>
        PROVE  /\ loaded' \in [Ids -> 0..MaxVersion] /\ \A j \in Ids : LoadKept(j)
    <3>1. /\ loaded' \in [Ids -> 0..MaxVersion]
          /\ \A j \in Ids : loaded'[j] = remote'[j] \/ loaded'[j] = loaded[j]
      BY <2>3, LoadIsPartial DEF Held, TypeOK
    <3> QED
      BY <2>3, <3>1 DEF LoadKept
  <2>4. CASE t = "uninstall" /\ jobs[t][i].st = "running" /\ Uninstalls(i, FALSE)
    BY <2>4, UninstallsPartly
  <2>5. CASE UNCHANGED <<remote, unreloaded>> /\ \E some \in SUBSET Daemons : Load(remote, some)
    BY <2>3, <2>5 DEF Held, TypeOK
  <2> QED
    BY <2>1, <2>2, <2>4, <2>5 DEF WorkerDies
<1> QED
  BY <1>1, <1>2, <1>3, <1>4, <1>5 DEF Moves, Held, TypeOK

(* A failure that could not be written: the task is archived all the same. *)
Unmarked(t, i) ==
  /\ jobs[t][i].st = "failing" /\ SetJob(t, i, "archived")
  /\ Fault /\ unsaved' = unsaved \cup {i}
  /\ UNCHANGED <<rows, server, removed, crashed>> /\ JobUnchanged

LEMMA UnmarkedMoves ==
  ASSUME Held, NEW t \in JobTypes, NEW i \in Ids, Unmarked(t, i)
  PROVE  Moves(t, i)
<1>1. /\ jobs[t][i].st = "failing" /\ SetJob(t, i, "archived")
      /\ faults < MaxFaults /\ faults' = faults + 1 /\ unsaved' = unsaved \cup {i}
      /\ UNCHANGED <<kind, rows, server, client, sync, requests, lost, unserved,
                     created, removed, crashed>>
  BY DEF Unmarked, Fault, JobUnchanged
<1>2. /\ jobs' \in [JobTypes -> [Ids -> JobRecord]]
      /\ \A u \in JobTypes, j \in Ids : u # t \/ j # i => jobs'[u][j] = jobs[u][j]
      /\ jobs'[t][i].st = "archived"
  BY <1>1, JobSet DEF JobStates
<1>3. faults' \in 0..MaxFaults
  BY <1>1, BoundsAssumption DEF Held, TypeOK
<1> QED
  BY <1>1, <1>2, <1>3 DEF Moves, LoadKept, Held, TypeOK

(* What the end of a job does: it writes the row, or deletes it, and the   *)
(* queue drops the task or archives it.                                    *)
Ends(t, i, st) ==
  /\ UNCHANGED <<kind, server, client, sync, requests, faults, lost, unserved, created, crashed, unsaved>>
  /\ SetJob(t, i, st) /\ jobs[t][i].st \in {"ran", "failing"}
  /\ rows' \in [Ids -> MaybeRow] /\ \A j \in Ids : j # i => rows'[j] = rows[j]
  /\ \/ removed' = removed
     \/ t = "uninstall" /\ st = "none" /\ removed' = removed \cup {i}
  /\ \/ rows'[i] = NoRow /\ t = "uninstall" /\ st = "none"
     \/ ~Exists(i) /\ rows'[i] = rows[i]
     \/ /\ t = "install" /\ st = "none" /\ jobs[t][i].st = "ran"
        /\ rows[i] \in Row /\ rows'[i] = MarkAsInstalled(rows[i])
     \/ /\ t = "install" /\ st = "archived"
        /\ rows[i] \in Row /\ rows'[i] = InstallFailed(kind[i], rows[i])
     \/ /\ t = "uninstall" /\ st = "archived"
        /\ rows[i] \in Row /\ rows'[i] = MarkUninstallationFailed(rows[i])

(* Each of the four ends of a job is one of these, or a failure that could *)
(* not be written.                                                         *)
LEMMA JobsEnd ==
  ASSUME Held, NEW i \in Ids
  PROVE  /\ FinishInstall(i) => Ends("install", i, "none") /\ jobs["install"][i].st = "ran"
         /\ FinishUninstall(i) => Ends("uninstall", i, "none") /\ jobs["uninstall"][i].st = "ran"
         /\ FailInstall(i) => Ends("install", i, "archived") \/ Unmarked("install", i)
         /\ FailUninstall(i) => Ends("uninstall", i, "archived") \/ Unmarked("uninstall", i)
<1>1. /\ rows \in [Ids -> MaybeRow] /\ kind[i] \in Kinds
      /\ Exists(i) => rows[i] \in Row
  BY TypesHold DEF Held, TypeOK, Typed
<1>2. Exists(i) => /\ MarkAsInstalled(rows[i]) \in MaybeRow
                  /\ MarkUninstallationFailed(rows[i]) \in MaybeRow
                  /\ InstallFailed(kind[i], rows[i]) \in MaybeRow
  BY <1>1, RowTyped DEF MaybeRow
<1>3. ASSUME FinishInstall(i)
      PROVE  Ends("install", i, "none") /\ jobs["install"][i].st = "ran"
  <2>1. /\ SetJob("install", i, "none") /\ jobs["install"][i].st = "ran"
        /\ UNCHANGED <<kind, server, client, sync, requests, faults, lost, unserved, created,
                       crashed, unsaved, removed>>
        /\ rows' = IF Exists(i) THEN [rows EXCEPT ![i] = MarkAsInstalled(rows[i])] ELSE rows
    BY <1>3 DEF FinishInstall, JobUnchanged, UpdateFields
  <2> QED
    BY <1>1, <1>2, <2>1 DEF Ends
<1>4. ASSUME FinishUninstall(i)
      PROVE  Ends("uninstall", i, "none") /\ jobs["uninstall"][i].st = "ran"
  BY <1>1, <1>4 DEF FinishUninstall, JobUnchanged, Ends, MaybeRow
<1>5. ASSUME FailInstall(i) PROVE Ends("install", i, "archived") \/ Unmarked("install", i)
  <2>1. /\ SetJob("install", i, "archived") /\ jobs["install"][i].st = "failing"
        /\ UNCHANGED <<kind, server, client, sync, requests, lost, unserved, created,
                       crashed, removed>>
    BY <1>5 DEF FailInstall, JobUnchanged
  <2>2. CASE /\ rows' = IF Exists(i) THEN [rows EXCEPT ![i] = InstallFailed(kind[i], rows[i])] ELSE rows
             /\ UNCHANGED <<faults, unsaved>>
    BY <1>1, <1>2, <2>1, <2>2 DEF Ends
  <2>3. CASE Fault /\ unsaved' = unsaved \cup {i} /\ rows' = rows
    BY <2>1, <2>3 DEF Unmarked, JobUnchanged
  <2> QED
    BY <1>5, <2>2, <2>3 DEF FailInstall, MarkOrLog, UpdateFields
<1>6. ASSUME FailUninstall(i) PROVE Ends("uninstall", i, "archived") \/ Unmarked("uninstall", i)
  <2>1. /\ SetJob("uninstall", i, "archived") /\ jobs["uninstall"][i].st = "failing"
        /\ UNCHANGED <<kind, server, client, sync, requests, lost, unserved, created,
                       crashed, removed>>
    BY <1>6 DEF FailUninstall, JobUnchanged
  <2>2. CASE /\ rows' = IF Exists(i) THEN [rows EXCEPT ![i] = MarkUninstallationFailed(rows[i])] ELSE rows
             /\ UNCHANGED <<faults, unsaved>>
    BY <1>1, <1>2, <2>1, <2>2 DEF Ends
  <2>3. CASE Fault /\ unsaved' = unsaved \cup {i} /\ rows' = rows
    BY <2>1, <2>3 DEF Unmarked, JobUnchanged
  <2> QED
    BY <1>6, <2>2, <2>3 DEF FailUninstall, MarkOrLog, UpdateFields
<1> QED
  BY <1>3, <1>4, <1>5, <1>6

(* A row says what the end of its job wrote, and never becomes less        *)
(* removable by it.                                                        *)
LEMMA EndsKeeps ==
  ASSUME Held, NEW t \in JobTypes, NEW i \in Ids, NEW st \in {"none", "archived"},
         Ends(t, i, st), st = "none" => jobs[t][i].st = "ran"
  PROVE  Held'
<1>1. UNCHANGED <<kind, server, client, sync, requests, faults, lost, unserved, created, crashed, unsaved>>
  BY DEF Ends
<1>2. /\ jobs' \in [JobTypes -> [Ids -> JobRecord]]
      /\ \A u \in JobTypes, j \in Ids : u # t \/ j # i => jobs'[u][j] = jobs[u][j]
      /\ jobs'[t][i].st = st /\ jobs[t][i].st \in {"ran", "failing"}
  BY JobSet DEF Ends, JobStates
<1>3. TypeOK'
  BY <1>1, <1>2 DEF Ends, Held, TypeOK, JobRecord
<1>4. ASSUME NEW j \in Ids, j # i PROVE Same(j)
  BY <1>1, <1>2, <1>4 DEF Ends, Same, LoadKept, About
<1>5. /\ \A u \in JobTypes : Dispatching(u, i)' <=> Dispatching(u, i)
      /\ kind'[i] = kind[i] /\ lost' = lost /\ unserved' = unserved
  BY <1>1 DEF Dispatching
<1>6. i \in created
  BY <1>2 DEF Held, At, UnknownAt
<1>7. /\ t = "install" => jobs'["uninstall"][i] = jobs["uninstall"][i]
      /\ t = "uninstall" => jobs'["install"][i] = jobs["install"][i]
      /\ t = "install" \/ t = "uninstall"
  BY <1>2 DEF JobTypes
<1>8. CASE rows'[i] = NoRow \/ (~Exists(i) /\ rows'[i] = rows[i])
  <2>1. ~Exists(i)' /\ Leaving(i)'
    BY <1>8 DEF Exists, Leaving
  <2>2. (UnknownAt(i) /\ ShownAt(i) /\ PresentAt(i) /\ CurrentAt(i) /\ RecordedAt(i))'
    BY <1>1, <1>2, <1>6, <1>7, <2>1 DEF Held, At, UnknownAt, ShownAt, PresentAt, CurrentAt, RecordedAt
  <2>4. LoadedAt(i)'
    BY <2>1 DEF LoadedAt
  <2>3. OnceAt(i)'
    <3>1. Settled(i) => Settled(i)'
      BY <1>2, <1>5, <1>7 DEF Settled, JobTypes
    <3>2. Touched(i)' => Touched(i)
      BY <1>1, <1>2, <1>5, <1>7, <2>1 DEF Touched, JobTypes, Ends
    <3> QED
      BY <1>1, <1>2, <1>5, <1>7, <3>1, <3>2 DEF Held, At, OnceAt, JobTypes, Ends
  <2> QED
    BY <1>3, <1>4, <2>2, <2>3, <2>4, OneResource DEF At
<1>9. CASE t = "install" /\ rows[i] \in Row /\ Exists(i)' /\ rows'[i] \in Row
  <2>1. removed' = removed /\ Exists(i)
    BY <1>9, RowIsThere DEF Ends, Exists
  <2>2. /\ rows'[i].requested = rows[i].requested /\ rows'[i].unfailed = rows[i].unfailed
        /\ rows'[i].ver = rows[i].ver
        /\ st = "archived" => rows'[i].failed /\ (rows'[i].installed => rows[i].installed)
    <3>1. ASSUME NEW r \in Row, NEW k \in Kinds
          PROVE
            /\ InstallFailed(k, r).failed /\ (InstallFailed(k, r).installed => r.installed)
            /\ InstallFailed(k, r).requested = r.requested
            /\ InstallFailed(k, r).unfailed = r.unfailed /\ InstallFailed(k, r).ver = r.ver
      <4>1. \A q \in Kinds :
              LET w == InstallFailed(q, r) IN
                /\ w.failed = TRUE /\ (w.installed => r.installed) /\ w.requested = r.requested
                /\ w.unfailed = r.unfailed /\ w.ver = r.ver
        BY Columns
      <4> QED
        BY <4>1
    <3>2. \A r \in Row :
            /\ MarkAsInstalled(r).requested = r.requested
            /\ MarkAsInstalled(r).unfailed = r.unfailed /\ MarkAsInstalled(r).ver = r.ver
      BY Columns
    <3>3. kind[i] \in Kinds
      BY DEF Held, TypeOK
    <3>4. \/ st = "none" /\ rows'[i] = MarkAsInstalled(rows[i])
          \/ st = "archived" /\ rows'[i] = InstallFailed(kind[i], rows[i])
      BY <1>9, <2>1, RowIsThere DEF Ends, Exists
    <3> QED
      BY <1>9, <3>1, <3>2, <3>3, <3>4
  <2>3. Leaving(i)' <=> Leaving(i)
    BY <1>9, <2>1, <2>2 DEF Leaving
  <2>4. (UnknownAt(i) /\ ShownAt(i) /\ RecordedAt(i))'
    BY <1>1, <1>2, <1>5, <1>6, <1>7, <1>9, <2>1, <2>2, <2>3
       DEF Held, At, UnknownAt, ShownAt, RecordedAt, JobTypes
  <2>5. st = "archived" => ~IsInstalled(rows[i])'
    BY <2>2 DEF IsInstalled
  <2>6. PresentAt(i)'
    BY <1>1, <1>2, <1>9, <2>3, <2>5 DEF Held, At, PresentAt
  <2>7. CurrentAt(i)'
    BY <1>1, <1>2, <1>5, <1>9, <2>2, <2>3, <2>5 DEF Held, At, CurrentAt, Current, JobTypes
  <2>8. OnceAt(i)'
    <3>1. kind[i] # "daemon" => Settled(i)'
      BY <1>2, <1>5, <1>9 DEF Held, At, OnceAt, Settled, JobTypes
    <3> QED
      BY <1>1, <1>2, <1>5, <1>7, <1>9, <2>1, <3>1 DEF Held, At, OnceAt, JobTypes, Settled
  <2>9. LoadedAt(i)'
    BY <1>1, <1>2, <1>9, <2>3, LoadedStays DEF Held
  <2> QED
    BY <1>3, <1>4, <2>4, <2>6, <2>7, <2>8, <2>9, OneResource DEF At
<1>10. CASE /\ t = "uninstall" /\ st = "archived" /\ rows[i] \in Row
            /\ rows'[i] = MarkUninstallationFailed(rows[i])
  <2>1. Exists(i)
    BY <1>10, RowIsThere DEF Exists
  <2>2. /\ rows'[i].unfailed /\ rows'[i].failed = rows[i].failed
        /\ rows'[i].installed = rows[i].installed
    <3>1. \A r \in Row :
            /\ MarkUninstallationFailed(r).unfailed = TRUE
            /\ MarkUninstallationFailed(r).failed = r.failed
            /\ MarkUninstallationFailed(r).installed = r.installed
      BY Columns
    <3> QED
      BY <1>10, <3>1
  <2>3. Leaving(i)'
    BY <2>2 DEF Leaving
  <2>4. (UnknownAt(i) /\ ShownAt(i) /\ PresentAt(i) /\ CurrentAt(i) /\ LoadedAt(i)
         /\ RecordedAt(i))'
    BY <1>1, <1>2, <1>6, <1>7, <1>10, <2>1, <2>2, <2>3
       DEF Held, At, UnknownAt, ShownAt, PresentAt, CurrentAt, LoadedAt, RecordedAt
  <2>5. OnceAt(i)'
    <3>1. Touched(i)
      BY <1>2, <1>10 DEF Touched
    <3>2. removed' = removed
      BY <1>10 DEF Ends
    <3> QED
      BY <1>1, <1>2, <1>5, <1>7, <1>10, <3>1, <3>2 DEF Held, At, OnceAt, JobTypes, Settled
  <2> QED
    BY <1>3, <1>4, <2>4, <2>5, OneResource DEF At
<1>11. rows'[i] = NoRow \/ (Exists(i)' /\ rows'[i] \in Row)
  BY DEF Ends, MaybeRow, Exists
<1> QED
  <2>1. CASE t = "install"
    BY <1>8, <1>9, <1>11, <2>1 DEF Ends
  <2>2. CASE t = "uninstall"
    BY <1>8, <1>10, <2>2 DEF Ends
  <2> QED
    BY <1>7, <2>1, <2>2

(* A sync job copies the rows of daemons only.                             *)
LEMMA SyncLoadKeeps ==
  ASSUME Held, SyncLoad
  PROVE  Held'
<1>1. /\ sync' = [st |-> "running",
                  copy |-> [i \in Ids |-> IF kind[i] = "daemon" THEN rows[i] ELSE NoRow]]
      /\ UNCHANGED <<kind, rows, server, jobs, client, requests, faults, lost, unserved,
                     created, removed, crashed, unsaved>>
  BY DEF SyncLoad
<1>2. TypeOK'
  <2>1. [i \in Ids |-> IF kind[i] = "daemon" THEN rows[i] ELSE NoRow] \in [Ids -> MaybeRow]
    BY DEF Held, TypeOK, MaybeRow
  <2> QED
    BY <1>1, <2>1 DEF Held, TypeOK
<1>3. ASSUME NEW i \in Ids PROVE At(i)'
  <2>1. sync'.copy[i] = NoRow \/ (kind[i] = "daemon" /\ sync'.copy[i] = rows[i])
    BY <1>1
  <2>2. /\ \A t \in JobTypes : Dispatching(t, i)' <=> Dispatching(t, i)
        /\ (Exists(i)' <=> Exists(i)) /\ (Leaving(i)' <=> Leaving(i))
        /\ (Touched(i)' <=> Touched(i)) /\ (Settled(i)' <=> Settled(i))
    BY <1>1 DEF Dispatching, Exists, Leaving, Touched, Settled
  <2>3. UnknownAt(i)'
    BY <1>1, <2>1 DEF Held, At, UnknownAt, About, Exists
  <2>4. OnceAt(i)'
    BY <1>1, <2>1, <2>2 DEF Held, At, OnceAt, JobTypes
  <2>5. (ShownAt(i) /\ PresentAt(i) /\ RecordedAt(i))'
    BY <1>1, <2>2 DEF Held, At, ShownAt, PresentAt, RecordedAt, JobTypes
  <2>6. CurrentAt(i)'
    BY <1>1, <2>2 DEF Held, At, CurrentAt, Current, JobTypes
  <2>7. LoadedAt(i)'
    BY <1>1, <2>2, LoadedStays DEF Held
  <2> QED
    BY <2>3, <2>4, <2>5, <2>6, <2>7 DEF At
<1> QED
  BY <1>2, <1>3 DEF Held

(* A sync that starts, or ends, holds no copy.                             *)
LEMMA SyncIdleKeeps ==
  ASSUME Held, SyncDaemonsStatus \/ SyncEnd
  PROVE  Held'
<1>1. /\ UNCHANGED <<kind, rows, server, jobs, client, faults, lost, unserved,
                     created, removed, crashed, unsaved>>
      /\ sync'.copy = sync.copy \/ sync'.copy = [i \in Ids |-> NoRow]
      /\ sync' \in [st: {"none", "queued", "running"}, copy: [Ids -> MaybeRow]]
      /\ requests' \in 0..MaxRequests
  <2>1. CASE SyncDaemonsStatus
    <3>1. sync' = [sync EXCEPT !.st = "queued"] /\ requests < MaxRequests /\ requests' = requests + 1
      BY <2>1 DEF SyncDaemonsStatus
    <3>2. requests' \in 0..MaxRequests
      BY <3>1, BoundsAssumption DEF Held, TypeOK
    <3> QED
      BY <2>1, <3>1, <3>2 DEF SyncDaemonsStatus, Held, TypeOK
  <2>2. CASE SyncEnd
    BY <2>2 DEF SyncEnd, Held, TypeOK, MaybeRow
  <2> QED
    BY <2>1, <2>2
<1>2. TypeOK'
  BY <1>1 DEF Held, TypeOK
<1>3. ASSUME NEW i \in Ids PROVE At(i)'
  <2>1. sync'.copy[i] = NoRow \/ sync'.copy[i] = sync.copy[i]
    BY <1>1
  <2>2. /\ \A t \in JobTypes : Dispatching(t, i)' <=> Dispatching(t, i)
        /\ (Exists(i)' <=> Exists(i)) /\ (Leaving(i)' <=> Leaving(i))
        /\ (Touched(i)' <=> Touched(i)) /\ (Settled(i)' <=> Settled(i))
    BY <1>1 DEF Dispatching, Exists, Leaving, Touched, Settled
  <2>3. UnknownAt(i)'
    BY <1>1, <2>1 DEF Held, At, UnknownAt, About, Exists
  <2>4. OnceAt(i)'
    BY <1>1, <2>1, <2>2 DEF Held, At, OnceAt, JobTypes
  <2>5. (ShownAt(i) /\ PresentAt(i) /\ RecordedAt(i))'
    BY <1>1, <2>2 DEF Held, At, ShownAt, PresentAt, RecordedAt, JobTypes
  <2>6. CurrentAt(i)'
    BY <1>1, <2>2 DEF Held, At, CurrentAt, Current, JobTypes
  <2>7. LoadedAt(i)'
    BY <1>1, <2>2, LoadedStays DEF Held
  <2> QED
    BY <2>3, <2>4, <2>5, <2>6, <2>7 DEF At
<1> QED
  BY <1>2, <1>3 DEF Held

(* A Save of a copy that is no longer the row is what lost is about; one   *)
(* of the row itself changes nothing.                                      *)
LEMMA SyncSaveKeeps ==
  ASSUME Held, NEW i \in Ids, SyncSave(i)
  PROVE  Held'
<1> DEFINE copy == sync.copy[i]
<1>1. /\ copy # NoRow /\ Save(i, copy, copy) /\ sync' = [sync EXCEPT !.copy[i] = NoRow]
      /\ UNCHANGED <<kind, server, jobs, client, requests, faults, unserved, created, removed, crashed, unsaved>>
  BY DEF SyncSave
<1>2. copy \in Row
  BY <1>1, TypesHold DEF Held, Typed
<1>3. /\ rows' \in [Ids -> MaybeRow] /\ lost' \subseteq Ids
      /\ rows'[i] \in Row /\ \A j \in Ids : j # i => rows'[j] = rows[j]
      /\ \A j \in Ids : j # i => (j \in lost' <=> j \in lost)
      /\ i \notin lost' => i \notin lost /\ rows'[i] = rows[i]
  BY <1>1, <1>2, SaveTyped DEF Save, Held
<1>4. /\ sync' \in [st: {"none", "queued", "running"}, copy: [Ids -> MaybeRow]]
      /\ sync'.copy[i] = NoRow /\ \A j \in Ids : j # i => sync'.copy[j] = sync.copy[j]
  <2>1. sync' = [sync EXCEPT !.copy = [sync.copy EXCEPT ![i] = NoRow]]
    BY <1>1
  <2> QED
    BY <2>1 DEF Held, TypeOK, MaybeRow
<1>5. TypeOK'
  <2> HIDE DEF copy
  <2> QED
    BY <1>1, <1>3, <1>4, SMTT(30) DEF Held, TypeOK
<1>6. ASSUME NEW j \in Ids, j # i PROVE Same(j)
  BY <1>1, <1>3, <1>4, <1>6 DEF Same, LoadKept, About
<1>7. \A t \in JobTypes : Dispatching(t, i)' <=> Dispatching(t, i)
  BY <1>1 DEF Dispatching
<1>8. i \in created /\ kind[i] = "daemon"
  BY <1>1 DEF Held, At, UnknownAt, OnceAt
<1>9. i \notin lost' => /\ (Exists(i)' <=> Exists(i)) /\ (Leaving(i)' <=> Leaving(i))
                       /\ (IsInstalled(rows[i])' <=> IsInstalled(rows[i]))
  BY <1>3 DEF Exists, Leaving, IsInstalled
<1>10. (UnknownAt(i) /\ ShownAt(i) /\ OnceAt(i))'
  BY <1>1, <1>3, <1>7, <1>8, <1>9 DEF Held, At, UnknownAt, ShownAt, OnceAt, JobTypes
<1>11. (PresentAt(i) /\ RecordedAt(i))'
  BY <1>1, <1>3, <1>9 DEF Held, At, PresentAt, RecordedAt
<1>12. CurrentAt(i)'
  BY <1>1, <1>3, <1>7, <1>9 DEF Held, At, CurrentAt, Current, JobTypes
<1>13. LoadedAt(i)'
  BY <1>1, <1>3, <1>9, LoadedStays DEF Held
<1> QED
  BY <1>5, <1>6, <1>10, <1>11, <1>12, <1>13, OneResource DEF At

-----------------------------------------------------------------------------
(* The theorems *)

(* Every step keeps the invariant.                                         *)
LEMMA NextDrift == DriftInv /\ [Next]_vars => DriftInv'
<1> SUFFICES ASSUME DriftInv, [Next]_vars PROVE DriftInv'
  OBVIOUS
<1>1. Held
  BY OneByOne DEF Held, DriftInv
<1>2. CASE UNCHANGED vars
  BY <1>2 DEF vars, DriftInv, TypeOK, UncreatedIsUnknown, UninstallIsShown, InstallIsPresent,
     InstalledIsPresent, InstallIsCurrent, LoadedIsCurrent, InstalledOnce, CleanRemoval, FailureIsRecorded,
     Exists, Leaving, Dispatching, Current, Touched, Settled
<1>3. ASSUME Next PROVE Held'
  <2>1. ASSUME NEW i \in Ids, JobStep(i) PROVE Held'
    <3>1. ASSUME NEW t \in JobTypes, StartJob(t, i) PROVE Held'
      BY <1>1, <3>1, StartMoves, MovesKeeps
    <3>2. CASE RunInstall(i)
      BY <1>1, <3>2, RunInstallMoves, MovesKeeps DEF JobTypes
    <3>3. CASE RunUninstall(i)
      BY <1>1, <3>3, RunUninstallMoves, MovesKeeps DEF JobTypes
    <3>4. CASE FinishInstall(i)
      BY <1>1, <3>4, JobsEnd, EndsKeeps DEF JobTypes
    <3>5. CASE FinishUninstall(i)
      BY <1>1, <3>5, JobsEnd, EndsKeeps DEF JobTypes
    <3>6. CASE FailInstall(i)
      BY <1>1, <3>6, JobsEnd, EndsKeeps, UnmarkedMoves, MovesKeeps DEF JobTypes
    <3>7. CASE FailUninstall(i)
      BY <1>1, <3>7, JobsEnd, EndsKeeps, UnmarkedMoves, MovesKeeps DEF JobTypes
    <3>8. CASE ReloadSupervisor(i)
      BY <1>1, <3>8, ReloadMoves, MovesKeeps DEF JobTypes
    <3> QED
      BY <2>1, <3>1, <3>2, <3>3, <3>4, <3>5, <3>6, <3>7, <3>8 DEF JobStep
  <2>2. ASSUME NEW i \in Ids, SyncSave(i) PROVE Held'
    BY <1>1, <2>2, SyncSaveKeeps
  <2>3. ASSUME NEW c \in Clients, NEW i \in Ids,
               CreateDaemon(c, i) \/ CreateCron(c, i) \/ CreateFirewallRule(c, i)
        PROVE  Held'
    BY <1>1, <2>3, CreateKeeps DEF CreateDaemon, CreateCron, CreateFirewallRule
  <2>4. ASSUME NEW c \in Clients, ClientStep(c) PROVE Held'
    BY <1>1, <2>4, UpdateKeeps, DeleteKeeps, DispatchKeeps DEF ClientStep
  <2>5. ASSUME NEW c \in Clients, NEW i \in Ids, NEW op \in Ops, Find(c, i, op) PROVE Held'
    BY <1>1, <2>5, FindKeeps
  <2>6. ASSUME NEW t \in JobTypes, NEW i \in Ids, WorkerDies(t, i) \/ DatabaseFails(t, i)
        PROVE  Held'
    BY <1>1, <2>6, WorkerDiesMoves, DatabaseFailsMoves, MovesKeeps
  <2>7. CASE SyncDaemonsStatus \/ SyncLoad \/ SyncEnd
    BY <1>1, <2>7, SyncIdleKeeps, SyncLoadKeeps
  <2> QED
    BY <1>3, <2>1, <2>2, <2>3, <2>4, <2>5, <2>6, <2>7 DEF Next
<1>4. TypeOK' => (DriftInv' <=> (\A i \in Ids : At(i))')
  BY OneByOne, PTL
<1> QED
  BY <1>2, <1>3, <1>4 DEF Held

(* The drift between rows and server is the one the invariant allows, in   *)
(* every behaviour of the services, the jobs, the syncs and their faults.  *)
THEOREM DriftInvariance == Spec => []DriftInv
<1>1. DriftInv /\ [Next]_vars => DriftInv'
  BY NextDrift
<1> QED
  BY <1>1, InitDrift, PTL DEF Spec

(* Every variable keeps its type.                                          *)
THEOREM TypeCorrect == Spec => []TypeOK
<1>1. DriftInv => TypeOK
  BY DEF DriftInv
<1> QED
  BY <1>1, DriftInvariance, PTL

(* What reads installed, and nobody asked to remove, is on the server,     *)
(* unless a Save of a stale row overwrote what a job had written.          *)
THEOREM InstalledIsOnTheServer == Spec => []InstalledIsPresent
<1>1. DriftInv => InstalledIsPresent
  BY DEF DriftInv
<1> QED
  BY <1>1, DriftInvariance, PTL

(* A cron or a rule whose uninstall job deleted the row is off the server  *)
(* for good.                                                               *)
THEOREM RemovedIsOffTheServer == Spec => []CleanRemoval
<1>1. DriftInv => CleanRemoval
  BY DEF DriftInv
<1> QED
  BY <1>1, DriftInvariance, PTL

(* A job whose handler failed is visible on the row for as long as the     *)
(* queue keeps its archived task.                                          *)
THEOREM FailureStaysRecorded == Spec => []FailureIsRecorded
<1>1. DriftInv => FailureIsRecorded
  BY DEF DriftInv
<1> QED
  BY <1>1, DriftInvariance, PTL

(* An idle daemon that reads installed has the contents of its row on the  *)
(* server, if every install asked for was enqueued, and supervisor has     *)
(* loaded them unless the last reload failed.                              *)
THEOREM IdleDaemonIsCurrent == Spec => []InstalledIsCurrent
<1>1. DriftInv => InstalledIsCurrent
  <2> SUFFICES ASSUME DriftInv, NEW i \in Ids \ (lost \cup unserved),
                      kind[i] = "daemon", Exists(i), IsInstalled(rows[i]),
                      ~rows[i].requested, ~rows[i].unfailed, jobs["install"][i].st = "none",
                      \A c \in Clients : client[c] = Idle
               PROVE  /\ remote[i] = rows[i].ver
                      /\ i \notin unreloaded => loaded[i] = rows[i].ver
    BY DEF InstalledIsCurrent
  <2>1. ~Dispatching("install", i)
    BY DEF Dispatching, Idle
  <2>2. ~Leaving(i)
    BY DEF Leaving
  <2>3. remote[i] = rows[i].ver
    BY <2>1, <2>2 DEF DriftInv, InstallIsCurrent
  <2> QED
    BY <2>2, <2>3 DEF DriftInv, LoadedIsCurrent
<1> QED
  BY <1>1, DriftInvariance, PTL
=============================================================================
