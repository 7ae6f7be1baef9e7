------------------------- MODULE Maintenance_proofs -------------------------
(***************************************************************************)
(* For every number of snapshots, passes, sweeps and faults: no lock is    *)
(* left behind, a second pass prunes nothing more, startup recovery leaves *)
(* no manifest unlisted, and a snapshot that no pass decided to prune      *)
(* stays restorable.  The last two have hypotheses, each named for what    *)
(* the code does not promise.                                              *)
(***************************************************************************)
EXTENDS MaintenanceProperties, FiniteSetTheorems, FunctionTheorems, TLAPS

(***************************************************************************)
(* Types.  TypeOK says what a reader wants to know; Typed adds the fields  *)
(* that the steps compute with.                                            *)
(***************************************************************************)
Runs == [pc : {"idle", "blobs", "append", "appendWrite", "head", "index", "schedule"},
         snap : SUBSET Snapshots, started : Nat, sent : SUBSET Contents,
         copy : SUBSET Snapshots]
PassRecords == [pc : {"idle", "due", "read", "rebuild", "delete", "removeRead",
                      "removeWrite", "jobStamp"},
                auto : BOOLEAN, job : LocalIndexes, own : LocalIndexes,
                started : Nat, todo : SUBSET SnapIds, copy : SUBSET Snapshots,
                id : SnapIds \cup {NoSnap}, pruned : BOOLEAN]
SweepRecords == [pc : {"idle", "lock", "read", "list", "delete", "unlock"},
                 started : Nat, refs : SUBSET Contents, todo : SUBSET Contents]
Fetches(pcs) == [pc : pcs, found : SUBSET Snapshots]

FolderTyped ==
    /\ manifests \subseteq Snapshots /\ rows \subseteq Snapshots
    /\ indexFile \in {"ok", "missing", "corrupt"}
    /\ DOMAIN blobs \subseteq Contents /\ blobs \in [DOMAIN blobs -> Nat]
    /\ head \in SnapIds \cup {NoSnap} /\ lock \in Nat \cup {NoLock}

DeviceTyped ==
    /\ local \in LocalIndexes /\ verified \in BOOLEAN
    /\ run \in Runs
    /\ run.pc = "idle" \/ \E m \in Snapshots : run.snap = {m}
    /\ passes \in [Passes -> PassRecords]
    /\ \A p \in Passes : passes[p].pc \in {"removeRead", "removeWrite"}
                             => passes[p].id \in passes[p].todo
    /\ sweeps \in [Sweepers -> SweepRecords]
    /\ repair \in Fetches({"idle", "read", "write"})
    /\ recovery \in Fetches({"idle", "head"})

Typed ==
    /\ clock \in 0..MaxClock
    /\ counts \in [made : 0..MaxSnaps, faults : Nat, commands : Nat]
    /\ kept \subseteq Snapshots
    /\ FolderTyped /\ DeviceTyped

USE DEF NoSnap, Never, NoLock

LEMMA Bounds ==
    /\ {MaxClock, AgeGate, LockTime, Interval, RunTime, ListTime} \subseteq Nat
    /\ MaxSnaps \in Nat \ {0} /\ KeepN \in Nat
BY MaintenanceAssumption, RetentionAssumption

LEMMA InitTyped == Init => Typed
<1> SUFFICES ASSUME Init PROVE Typed
  OBVIOUS
<1>1. clock \in 0..MaxClock /\ 0 \in 0..MaxSnaps
  BY Bounds DEF Init
<1>2. NoLocal \in LocalIndexes
  BY DEF NoLocal, LocalIndexes
<1>3. DeviceTyped
  BY <1>2 DEF Init, DeviceTyped, Runs, PassRecords, SweepRecords, Fetches,
              IdleRun, IdlePass, IdleSweep, IdleRepair
<1> QED BY <1>1, <1>3 DEF Init, Typed, FolderTyped

\* A count that is spent, and what a download brings.
LEMMA SpendType ==
    ASSUME Typed, NEW what \in {"faults", "commands"}, NEW max, Spend(what, max)
    PROVE  /\ counts' \in [made : 0..MaxSnaps, faults : Nat, commands : Nat]
           /\ counts'.made = counts.made
           /\ what = "faults" => counts'.faults = counts.faults + 1
           /\ counts'.faults >= counts.faults
BY DEF Spend, Typed

LEMMA FaultType ==
    ASSUME Typed, NEW kind, Fault(kind)
    PROVE  /\ counts' \in [made : 0..MaxSnaps, faults : Nat, commands : Nat]
           /\ counts'.made = counts.made
           /\ counts'.faults = counts.faults + 1
           /\ kind \in Faults
BY SpendType DEF Fault

LEMMA CommandType ==
    ASSUME Typed, Command
    PROVE  /\ counts' \in [made : 0..MaxSnaps, faults : Nat, commands : Nat]
           /\ counts'.made = counts.made
           /\ counts'.faults = counts.faults
BY DEF Command, Spend, Typed

LEMMA DownloadType ==
    ASSUME Typed, NEW found, Downloaded(found)
    PROVE  /\ found \subseteq manifests
           /\ counts' \in [made : 0..MaxSnaps, faults : Nat, commands : Nat]
           /\ counts'.made = counts.made
           /\ counts'.faults >= counts.faults
           /\ "download" \notin Faults => found = manifests /\ counts' = counts
<1>1. CASE found = manifests /\ UNCHANGED counts
  BY <1>1 DEF Typed
<1>2. CASE \E m \in manifests : found = manifests \ {m} /\ Fault("download")
  BY <1>2, FaultType DEF Typed
<1> QED BY <1>1, <1>2 DEF Downloaded

\* What append works on.
LEMMA AppendReadEffect ==
    ASSUME Typed, AppendRead
    PROVE  \E found : /\ run' = [run EXCEPT !.pc = "appendWrite", !.copy = found]
                      /\ found \subseteq rows \cup manifests
                      /\ counts' \in [made : 0..MaxSnaps, faults : Nat, commands : Nat]
                      /\ counts'.made = counts.made
                      /\ counts'.faults >= counts.faults
                      /\ indexFile = "ok" => found = rows
                      /\ indexFile = "missing" => found = {}
                      /\ indexFile = "corrupt" => Downloaded(found)
<1>1. PICK found :
          /\ run' = [run EXCEPT !.pc = "appendWrite", !.copy = found]
          /\ CASE indexFile = "ok" -> found = rows /\ UNCHANGED counts
               [] indexFile = "missing" -> found = {} /\ UNCHANGED counts
               [] indexFile = "corrupt" -> Downloaded(found)
  BY DEF AppendRead
<1>2. indexFile \in {"ok", "missing", "corrupt"}
  BY DEF Typed, FolderTyped
<1>3. CASE indexFile \in {"ok", "missing"}
  <2>1. found \in {rows, {}} /\ counts' = counts /\ (indexFile = "ok" => found = rows)
        /\ (indexFile = "missing" => found = {}) /\ indexFile # "corrupt"
    BY <1>1, <1>3
  <2>2. counts' \in [made : 0..MaxSnaps, faults : Nat, commands : Nat]
        /\ counts'.made = counts.made /\ counts'.faults >= counts.faults
    BY <2>1 DEF Typed
  <2>3. found \subseteq rows \cup manifests
    BY <2>1
  <2> QED BY <1>1, <2>1, <2>2, <2>3
<1>4. CASE indexFile = "corrupt"
  <2>1. Downloaded(found)
    BY <1>1, <1>4
  <2> QED BY <1>1, <1>4, <2>1, DownloadType
<1> QED BY <1>2, <1>3, <1>4

\* The snapshot that a run starts with.
LEMMA StartEffect ==
    ASSUME Typed, NEW full \in BOOLEAN, NEW needs \in SUBSET Contents,
           StartBackup(full, needs)
    PROVE  \E snap \in Snapshots :
               /\ run' = [IdleRun EXCEPT !.pc = "blobs", !.snap = {snap}, !.started = clock]
               /\ snap.id = counts.made + 1 /\ snap.at = clock /\ snap.blobs = needs
               /\ snap.full \/ (snap.parent = local.last /\ local.full # NoSnap)
<1>1. PICK makeFull \in BOOLEAN :
          /\ run' = [IdleRun EXCEPT !.pc = "blobs", !.started = clock,
                 !.snap = {[id |-> counts.made + 1, full |-> makeFull,
                            parent |-> IF makeFull THEN NoSnap ELSE local.last,
                            at |-> clock, blobs |-> needs]}]
          /\ counts.made < MaxSnaps
          /\ makeFull \/ local.full # NoSnap
  BY DEF StartBackup, Spend
<1> DEFINE snap == [id |-> counts.made + 1, full |-> makeFull,
                    parent |-> IF makeFull THEN NoSnap ELSE local.last,
                    at |-> clock, blobs |-> needs]
<1>2. clock \in Nat /\ counts.made + 1 \in SnapIds /\ local.last \in SnapIds \cup {NoSnap}
  BY <1>1, Bounds DEF Typed, SnapIds, DeviceTyped, LocalIndexes
<1>3. snap \in Snapshots
  BY <1>2 DEF Snapshots
<1>4. run' = [IdleRun EXCEPT !.pc = "blobs", !.snap = {snap}, !.started = clock]
  BY <1>1 DEF IdleRun
<1>5. /\ snap.id = counts.made + 1 /\ snap.at = clock /\ snap.blobs = needs
      /\ snap.full \/ (snap.parent = local.last /\ local.full # NoSnap)
  BY <1>1
<1> HIDE DEF snap
<1> QED BY <1>3, <1>4, <1>5

LEMMA BackupTypes ==
    ASSUME Typed, BackupStep
    PROVE  Typed'
<1> USE Bounds
<1>0. clock \in Nat
  BY DEF Typed
<1>1. ASSUME NEW full \in BOOLEAN, NEW needs \in SUBSET Contents, StartBackup(full, needs)
      PROVE  Typed'
  <2>1. PICK snap \in Snapshots :
            run' = [IdleRun EXCEPT !.pc = "blobs", !.snap = {snap}, !.started = clock]
    BY <1>1, StartEffect
  <2>2. counts' \in [made : 0..MaxSnaps, faults : Nat, commands : Nat]
    BY <1>1 DEF StartBackup, Spend, Typed
  <2>3. run' \in Runs /\ run'.snap = {snap}
    BY <1>0, <2>1 DEF Runs, IdleRun
  <2> QED BY <1>1, <2>2, <2>3 DEF StartBackup, Typed, FolderTyped, DeviceTyped, folder
<1>2. ASSUME NEW c \in Contents, UploadBlob(c) PROVE Typed'
  <2>1. run' \in Runs /\ run'.snap = run.snap /\ run'.pc = run.pc
    BY <1>2 DEF UploadBlob, Typed, DeviceTyped, Runs
  <2>2. DOMAIN blobs' \subseteq Contents /\ blobs' \in [DOMAIN blobs' -> Nat]
    BY <1>2 DEF UploadBlob, Typed, FolderTyped
  <2> QED BY <1>2, <2>1, <2>2 DEF UploadBlob, Typed, FolderTyped, DeviceTyped
<1>3. CASE PutManifest \/ AppendWrite \/ PutHead \/ SaveLocalIndex
  <2>1. run.pc # "idle" /\ \E m \in Snapshots : run.snap = {m} /\ TheSnap = m
    BY <1>3 DEF PutManifest, AppendWrite, PutHead, SaveLocalIndex, TheSnap, Typed, DeviceTyped
  <2>2. TheSnap \in Snapshots /\ TheSnap.id \in SnapIds
    BY <2>1 DEF Snapshots
  <2>3. run' \in Runs /\ run'.snap = run.snap
    BY <1>3 DEF PutManifest, AppendWrite, PutHead, SaveLocalIndex, Typed, DeviceTyped, Runs
  <2>4. CASE PutManifest \/ AppendWrite
    BY <2>1, <2>3, <2>4 DEF PutManifest, AppendWrite, Typed, FolderTyped, DeviceTyped, Runs
  <2>5. CASE PutHead \/ SaveLocalIndex
    BY <2>1, <2>2, <2>3, <2>5
    DEF PutHead, SaveLocalIndex, Typed, FolderTyped, DeviceTyped, LocalIndexes, folder
  <2> QED BY <1>3, <2>4, <2>5
<1>4. CASE AppendRead
  <2>1. PICK found : /\ run' = [run EXCEPT !.pc = "appendWrite", !.copy = found]
                     /\ found \subseteq rows \cup manifests
                     /\ counts' \in [made : 0..MaxSnaps, faults : Nat, commands : Nat]
    BY <1>4, AppendReadEffect
  <2>2. found \subseteq Snapshots /\ counts' \in [made : 0..MaxSnaps, faults : Nat, commands : Nat]
    BY <2>1 DEF Typed, FolderTyped
  <2>3. run' \in Runs /\ run'.snap = run.snap
    BY <2>1, <2>2 DEF Typed, DeviceTyped, Runs
  <2>4. run.pc # "idle"
    BY <1>4 DEF AppendRead
  <2> QED BY <1>4, <2>2, <2>3, <2>4
          DEF AppendRead, Typed, FolderTyped, DeviceTyped, folder
<1>5. CASE ScheduleRetention
  <2>1. run' \in Runs /\ run'.pc = "idle"
    BY <1>5 DEF ScheduleRetention, Runs, IdleRun
  <2>2. /\ passes' \in [Passes -> PassRecords]
        /\ \A p \in Passes : passes'[p].pc \in {"removeRead", "removeWrite"}
                                 => passes'[p].id \in passes'[p].todo
    <3>1. [IdlePass EXCEPT !.pc = "due", !.auto = TRUE, !.job = local] \in PassRecords
      BY DEF Typed, DeviceTyped, PassRecords, IdlePass, NoLocal, LocalIndexes
    <3> QED BY <1>5, <3>1 DEF ScheduleRetention, Typed, DeviceTyped, IdlePass
  <2> QED BY <1>5, <2>1, <2>2 DEF ScheduleRetention, Typed, FolderTyped, DeviceTyped, folder
<1>6. CASE FailRun
  <2>1. run' \in Runs /\ run'.pc = "idle"
    BY <1>6 DEF FailRun, Runs, IdleRun
  <2> QED BY <1>6, <2>1, FaultType DEF FailRun, Typed, FolderTyped, DeviceTyped, folder
<1> QED BY <1>1, <1>2, <1>3, <1>4, <1>5, <1>6 DEF BackupStep

\* The records of passes: between the delete of a manifest and the save of the
\* index the pass still has its snapshot to do.
PassOK(r) ==
    /\ r \in PassRecords
    /\ r.pc \in {"removeRead", "removeWrite"} => r.id \in r.todo
PassesOK == passes' \in [Passes -> PassRecords] /\ \A q \in Passes : PassOK(passes'[q])

LEMMA SetPassType ==
    ASSUME Typed, NEW p \in Passes, NEW new, SetPass(p, new), PassOK(new)
    PROVE  PassesOK
BY DEF SetPass, PassesOK, PassOK, Typed, DeviceTyped

\* Every record a step of a pass makes of r.
LEMMA PassRecordTypes ==
    ASSUME NEW r, PassOK(r), NEW index \in LocalIndexes, NEW now \in Nat,
           NEW ids \in SUBSET SnapIds, NEW copy \in SUBSET Snapshots
    PROVE  /\ PassOK(IdlePass)
           /\ PassOK([IdlePass EXCEPT !.pc = "due", !.auto = TRUE, !.job = index])
           /\ PassOK([IdlePass EXCEPT !.pc = "read", !.own = index, !.started = now])
           /\ PassOK([r EXCEPT !.pc = "jobStamp"])
           /\ PassOK([r EXCEPT !.pc = "read", !.own = index, !.started = now])
           /\ PassOK([r EXCEPT !.pc = "read", !.copy = {}])
           /\ PassOK([r EXCEPT !.pc = "rebuild", !.copy = copy])
           /\ PassOK([r EXCEPT !.pc = "delete", !.todo = ids])
           /\ r.pc = "removeRead" => PassOK([r EXCEPT !.pc = "removeWrite", !.copy = copy])
           /\ \A id \in SnapIds \cap r.todo : PassOK([r EXCEPT !.pc = "removeRead", !.id = id])
           /\ \A id : PassOK([r EXCEPT !.pc = "delete", !.todo = @ \ {id}])
           /\ \A id : PassOK([r EXCEPT !.pc = "delete", !.pruned = TRUE,
                                       !.todo = @ \ {id}, !.copy = {}])
<1>1. IdlePass \in PassRecords
  BY DEF PassRecords, IdlePass, NoLocal, LocalIndexes
<1>2. PassOK(IdlePass)
  BY <1>1 DEF PassOK, IdlePass
<1>3. /\ PassOK([IdlePass EXCEPT !.pc = "due", !.auto = TRUE, !.job = index])
      /\ PassOK([IdlePass EXCEPT !.pc = "read", !.own = index, !.started = now])
  BY <1>1 DEF PassOK, PassRecords
<1>4. /\ PassOK([r EXCEPT !.pc = "jobStamp"])
      /\ PassOK([r EXCEPT !.pc = "read", !.own = index, !.started = now])
      /\ PassOK([r EXCEPT !.pc = "read", !.copy = {}])
      /\ PassOK([r EXCEPT !.pc = "rebuild", !.copy = copy])
      /\ PassOK([r EXCEPT !.pc = "delete", !.todo = ids])
      /\ r.pc = "removeRead" => PassOK([r EXCEPT !.pc = "removeWrite", !.copy = copy])
  BY DEF PassOK, PassRecords
<1>5. \A id \in SnapIds \cap r.todo : PassOK([r EXCEPT !.pc = "removeRead", !.id = id])
  BY DEF PassOK, PassRecords
<1>6. ASSUME NEW id
      PROVE  /\ PassOK([r EXCEPT !.pc = "delete", !.todo = @ \ {id}])
             /\ PassOK([r EXCEPT !.pc = "delete", !.pruned = TRUE, !.todo = @ \ {id},
                                 !.copy = {}])
  BY DEF PassOK, PassRecords
<1> QED BY <1>2, <1>3, <1>4, <1>5, <1>6

LEMMA PassTypes ==
    ASSUME Typed, NEW p \in Passes, PassStep(p)
    PROVE  Typed'
<1>1. /\ PassOK(passes[p])
      /\ local \in LocalIndexes /\ clock \in Nat
      /\ rows \subseteq Snapshots /\ manifests \subseteq Snapshots
      /\ passes[p].own \in LocalIndexes /\ passes[p].job \in LocalIndexes
      /\ passes[p].started \in Nat
  BY DEF Typed, FolderTyped, DeviceTyped, PassOK, PassRecords
<1>2. counts' \in [made : 0..MaxSnaps, faults : Nat, commands : Nat]
  BY CommandType, DownloadType, FaultType
  DEF PassStep, RunIfDue, RunNow, ReadAndEvaluate, RebuildRows, DeleteManifest,
      DeleteFails, RemoveRead, RemoveWrite, StampPass, StampJob, FailPass, Typed
<1>3. PassesOK
  <2>0. \A new : SetPass(p, new) /\ PassOK(new) => PassesOK
    BY SetPassType
  <2>1. CASE RunIfDue(p) \/ RunNow(p)
    <3>1. /\ PassOK([passes[p] EXCEPT !.pc = "jobStamp"])
          /\ PassOK([passes[p] EXCEPT !.pc = "read", !.own = local, !.started = clock])
          /\ PassOK([IdlePass EXCEPT !.pc = "read", !.own = local, !.started = clock])
      BY <1>1, PassRecordTypes
    <3> QED BY <2>0, <2>1, <3>1 DEF RunIfDue, RunNow
  <2>2. CASE StampPass(p) \/ StampJob(p) \/ FailPass(p)
    <3>1. PassOK(IdlePass) /\ PassOK([passes[p] EXCEPT !.pc = "jobStamp"])
      BY <1>1, PassRecordTypes
    <3> QED BY <2>0, <2>2, <3>1 DEF StampPass, StampJob, FailPass
  <2>3. CASE ReadAndEvaluate(p)
    <3>1. Ids(rows) \ KeepSet(rows, passes[p].started) \in SUBSET SnapIds
      BY <1>1 DEF Ids, Snapshots
    <3>2. PassOK([passes[p] EXCEPT !.pc = "delete",
                      !.todo = Ids(rows) \ KeepSet(rows, passes[p].started)])
      BY <1>1, <3>1, PassRecordTypes
    <3>3. ASSUME NEW found, Downloaded(found)
          PROVE  PassOK([passes[p] EXCEPT !.pc = "rebuild", !.copy = found])
      <4>1. found \in SUBSET Snapshots
        BY <1>1, <3>3, DownloadType
      <4> QED BY <1>1, <4>1, PassRecordTypes
    <3> QED BY <2>0, <2>3, <3>2, <3>3 DEF ReadAndEvaluate
  <2>4. CASE RebuildRows(p)
    <3>1. PassOK([passes[p] EXCEPT !.pc = "read", !.copy = {}])
      BY <1>1, PassRecordTypes
    <3> QED BY <2>0, <2>4, <3>1 DEF RebuildRows
  <2>5. \A id : GiveUpOn(p, id) => PassesOK
    <3>1. \A id : PassOK([passes[p] EXCEPT !.pc = "delete", !.todo = @ \ {id}])
      BY <1>1, PassRecordTypes
    <3> QED BY <2>0, <3>1 DEF GiveUpOn
  <2>6. ASSUME NEW id \in SnapIds, DeleteManifest(p, id) \/ DeleteFails(p, id)
        PROVE  PassesOK
    <3>1. id \in passes[p].todo => PassOK([passes[p] EXCEPT !.pc = "removeRead", !.id = id])
      BY <1>1, PassRecordTypes
    <3> QED BY <2>0, <2>5, <2>6, <3>1 DEF DeleteManifest, DeleteFails
  <2>7. CASE RemoveRead(p) \/ RemoveWrite(p)
    <3>1. {m \in rows : m.id # passes[p].id} \in SUBSET Snapshots
      BY <1>1
    <3>2. passes[p].pc = "removeRead" =>
              PassOK([passes[p] EXCEPT !.pc = "removeWrite",
                          !.copy = {m \in rows : m.id # passes[p].id}])
      BY <1>1, <3>1, PassRecordTypes
    <3>3. Pruned(p) => PassesOK
      <4>1. PassOK([passes[p] EXCEPT !.pc = "delete", !.pruned = TRUE,
                        !.todo = @ \ {passes[p].id}, !.copy = {}])
        BY <1>1, PassRecordTypes
      <4> QED BY <2>0, <4>1 DEF Pruned
    <3> QED BY <2>0, <2>5, <2>7, <3>2, <3>3 DEF RemoveRead, RemoveWrite
  <2> QED BY <2>1, <2>2, <2>3, <2>4, <2>6, <2>7 DEF PassStep
<1>4. manifests' \subseteq manifests /\ kept' \subseteq kept
  BY DEF PassStep, RunIfDue, RunNow, ReadAndEvaluate, RebuildRows, DeleteManifest,
         DeleteFails, RemoveRead, RemoveWrite, StampPass, StampJob, FailPass, folder
<1>5. rows' \subseteq Snapshots /\ indexFile' \in {"ok", "missing", "corrupt"}
  BY <1>1
  DEF PassStep, RunIfDue, RunNow, ReadAndEvaluate, RebuildRows, DeleteManifest,
      DeleteFails, RemoveRead, RemoveWrite, StampPass, StampJob, FailPass, folder,
      Typed, FolderTyped, PassOK, PassRecords
<1>6. local' \in LocalIndexes
  BY <1>1
  DEF PassStep, RunIfDue, RunNow, ReadAndEvaluate, RebuildRows, DeleteManifest,
      DeleteFails, RemoveRead, RemoveWrite, StampPass, StampJob, FailPass, LocalIndexes
<1>7. sweeps' \in [Sweepers -> SweepRecords]
  <2>1. \A s \in Sweepers : CheckLock(s) => sweeps' \in [Sweepers -> SweepRecords]
    <3>1. [IdleSweep EXCEPT !.pc = "lock", !.started = clock] \in SweepRecords
      BY <1>1 DEF IdleSweep, SweepRecords
    <3> QED BY <3>1 DEF CheckLock, StartSweep, Typed, DeviceTyped
  <2> QED BY <2>1
    DEF PassStep, RunIfDue, RunNow, ReadAndEvaluate, RebuildRows, DeleteManifest,
        DeleteFails, RemoveRead, RemoveWrite, StampPass, StampJob, FailPass,
        Typed, DeviceTyped
<1>8. UNCHANGED <<clock, blobs, head, lock, verified, run, repair, recovery>>
  BY DEF PassStep, RunIfDue, RunNow, ReadAndEvaluate, RebuildRows, DeleteManifest,
         DeleteFails, RemoveRead, RemoveWrite, StampPass, StampJob, FailPass, folder
<1> QED BY <1>2, <1>3, <1>4, <1>5, <1>6, <1>7, <1>8
        DEF Typed, FolderTyped, DeviceTyped, PassesOK, PassOK


LEMMA SweepTypes ==
    ASSUME Typed, NEW s \in Sweepers, SweepStep(s)
    PROVE  Typed'
<1>1. /\ sweeps[s] \in SweepRecords /\ IdleSweep \in SweepRecords
      /\ clock \in Nat /\ rows \subseteq Snapshots
      /\ DOMAIN blobs \subseteq Contents /\ blobs \in [DOMAIN blobs -> Nat]
  BY DEF Typed, FolderTyped, DeviceTyped, SweepRecords, IdleSweep
<1>2. counts' \in [made : 0..MaxSnaps, faults : Nat, commands : Nat]
  BY CommandType, FaultType
  DEF SweepStep, SweepCommand, WriteLock, ReadReferences, ListContent, DeleteBlob,
      RemoveLock, FailSweep, Typed
<1>3. sweeps' \in [Sweepers -> SweepRecords]
  <2>0. ASSUME NEW new \in SweepRecords, sweeps' = [sweeps EXCEPT ![s] = new]
        PROVE  sweeps' \in [Sweepers -> SweepRecords]
    BY <2>0 DEF Typed, DeviceTyped
  <2>1. CASE SweepCommand(s)
    <3>1. [IdleSweep EXCEPT !.pc = "lock", !.started = clock] \in SweepRecords
      BY <1>1 DEF SweepRecords
    <3> QED BY <2>1, <3>1, <2>0 DEF SweepCommand, CheckLock, StartSweep, Typed, DeviceTyped
  <2>2. CASE WriteLock(s) \/ RemoveLock(s) \/ FailSweep(s)
    <3>1. /\ [sweeps[s] EXCEPT !.pc = "read"] \in SweepRecords
          /\ [sweeps[s] EXCEPT !.pc = "unlock"] \in SweepRecords
      BY <1>1 DEF SweepRecords
    <3>2. \/ sweeps' = [sweeps EXCEPT ![s] = IdleSweep]
          \/ sweeps' = [sweeps EXCEPT ![s] = [sweeps[s] EXCEPT !.pc = "read"]]
          \/ sweeps' = [sweeps EXCEPT ![s] = [sweeps[s] EXCEPT !.pc = "unlock"]]
      BY <2>2 DEF WriteLock, RemoveLock, FailSweep
    <3> QED BY <1>1, <2>0, <3>1, <3>2
  <2>3. CASE ReadReferences(s)
    <3>1. UNION {m.blobs : m \in rows} \subseteq Contents
      BY <1>1 DEF Snapshots
    <3>2. /\ [sweeps[s] EXCEPT !.pc = "list", !.refs = UNION {m.blobs : m \in rows}]
                 \in SweepRecords
          /\ [sweeps[s] EXCEPT !.pc = "unlock"] \in SweepRecords
      BY <1>1, <3>1 DEF SweepRecords
    <3> QED BY <2>0, <2>3, <3>2 DEF ReadReferences
  <2>4. CASE ListContent(s)
    BY <1>1, <2>4 DEF ListContent, Typed, DeviceTyped, SweepRecords
  <2>5. CASE \E c \in Contents : DeleteBlob(s, c)
    BY <1>1, <2>5 DEF DeleteBlob, Typed, DeviceTyped, SweepRecords
  <2> QED BY <2>1, <2>2, <2>3, <2>4, <2>5 DEF SweepStep
<1>4. lock' \in Nat \cup {NoLock}
  BY <1>1
  DEF SweepStep, SweepCommand, WriteLock, ReadReferences, ListContent, DeleteBlob,
      RemoveLock, FailSweep, Typed, FolderTyped, SweepRecords, folder
<1>5. DOMAIN blobs' \subseteq Contents /\ blobs' \in [DOMAIN blobs' -> Nat]
  BY <1>1
  DEF SweepStep, SweepCommand, WriteLock, ReadReferences, ListContent, DeleteBlob,
      RemoveLock, FailSweep, folder
<1>6. UNCHANGED <<clock, manifests, rows, indexFile, head, local, verified, run,
                  passes, repair, recovery, kept>>
  BY DEF SweepStep, SweepCommand, WriteLock, ReadReferences, ListContent, DeleteBlob,
         RemoveLock, FailSweep, folder
<1>7. FolderTyped'
  BY <1>4, <1>5, <1>6 DEF Typed, FolderTyped
<1>8. DeviceTyped'
  BY <1>3, <1>6 DEF Typed, DeviceTyped
<1> QED BY <1>2, <1>6, <1>7, <1>8 DEF Typed

\* The least-number principle, for a set of numbers.
LEMMA Least ==
    ASSUME NEW T \in SUBSET Nat, T # {}
    PROVE  \E x \in T : \A y \in T : x <= y
<1> DEFINE R == {p \in Nat \X Nat : p[1] < p[2]}
<1>1. IsWellFoundedOn(R, Nat)
  BY NatLessThanWellFounded DEF OpToRel
<1>2. \A x, y \in Nat : y < x => <<y, x>> \in R
  OBVIOUS
<1> HIDE DEF R
<1>3. PICK x \in T : \A y \in T : ~(<<y, x>> \in R)
  BY <1>1, WFMin
<1>4. \A y \in T : x \in Nat /\ y \in Nat /\ ~(y < x)
  BY <1>2, <1>3
<1> QED BY <1>3, <1>4

\* A set of snapshots of the past has a newest one.
LEMMA NewestExists ==
    ASSUME NEW S \in SUBSET Snapshots, S # {}, NEW now \in Nat, \A m \in S : m.at <= now
    PROVE  \E m \in S : \A n \in S : n.at <= m.at
<1> DEFINE ages == {now - m.at : m \in S}
<1>1. ages \in SUBSET Nat /\ ages # {}
  BY DEF Snapshots
<1>2. PICK age \in ages : \A a \in ages : age <= a
  BY <1>1, Least
<1>3. PICK m \in S : age = now - m.at
  BY <1>2
<1>4. \A n \in S : n.at \in Nat /\ m.at \in Nat /\ now - m.at <= now - n.at
  BY <1>2, <1>3 DEF Snapshots
<1> QED BY <1>4

LEMMA OtherTypes ==
    ASSUME Typed,
           \/ ClearGcLock \/ RepairIndex \/ ReadManifests \/ WriteRepaired
           \/ RecoverRows \/ Tick \/ Stop \/ DamageIndexFile \/ UNCHANGED vars
    PROVE  Typed'
<1>1. counts' \in [made : 0..MaxSnaps, faults : Nat, commands : Nat]
  BY CommandType, DownloadType, FaultType
  DEF ClearGcLock, RepairIndex, ReadManifests, WriteRepaired, RecoverRows, Tick,
      Stop, DamageIndexFile, vars, Typed
<1>2. clock' \in 0..MaxClock
  BY Bounds
  DEF ClearGcLock, RepairIndex, ReadManifests, WriteRepaired, RecoverRows, Tick,
      Stop, DamageIndexFile, vars, Typed
<1>3. FolderTyped'
  <2>1. repair.found \subseteq Snapshots /\ manifests \subseteq Snapshots
    BY DEF Typed, FolderTyped, DeviceTyped, Fetches
  <2>2. \A found \in SUBSET manifests : found \subseteq Snapshots
    BY <2>1
  <2>3. /\ rows' \subseteq Snapshots /\ indexFile' \in {"ok", "missing", "corrupt"}
        /\ lock' \in Nat \cup {NoLock} /\ UNCHANGED <<manifests, blobs, head>>
    BY <2>1, <2>2
    DEF ClearGcLock, RepairIndex, ReadManifests, WriteRepaired, RecoverRows, Tick,
        Stop, DamageIndexFile, vars, folder, Typed, FolderTyped
  <2> QED BY <2>3 DEF Typed, FolderTyped
<1>4. DeviceTyped'
  <2>1. manifests \subseteq Snapshots
    BY DEF Typed, FolderTyped
  <2>2. CASE RepairIndex \/ ReadManifests \/ WriteRepaired \/ RecoverRows
    <3>1. repair' \in Fetches({"idle", "read", "write"})
      BY <2>1, <2>2
      DEF RepairIndex, ReadManifests, WriteRepaired, RecoverRows, IdleRepair, Typed,
          DeviceTyped, Fetches
    <3>2. recovery' \in Fetches({"idle", "head"})
      BY <2>1, <2>2
      DEF RepairIndex, ReadManifests, WriteRepaired, RecoverRows, Typed, DeviceTyped,
          Fetches
    <3>3. UNCHANGED <<local, verified, run, passes, sweeps>>
      BY <2>2 DEF RepairIndex, ReadManifests, WriteRepaired, RecoverRows
    <3> QED BY <3>1, <3>2, <3>3 DEF Typed, DeviceTyped
  <2>3. CASE Stop
    <3>1. IdleRun \in Runs /\ IdleRun.pc = "idle"
      BY DEF IdleRun, Runs
    <3>2. IdlePass \in PassRecords /\ IdlePass.pc = "idle"
      BY DEF PassRecords, IdlePass, NoLocal, LocalIndexes
    <3>3. IdleSweep \in SweepRecords
      BY DEF IdleSweep, SweepRecords
    <3>4. IdleRepair \in Fetches({"idle", "read", "write"}) \cap Fetches({"idle", "head"})
      BY DEF IdleRepair, Fetches
    <3> QED BY <2>3, <3>1, <3>2, <3>3, <3>4 DEF Stop, Typed, DeviceTyped
  <2>4. CASE ClearGcLock \/ Tick \/ DamageIndexFile \/ UNCHANGED vars
    BY <2>4 DEF ClearGcLock, Tick, DamageIndexFile, vars, device, Typed, DeviceTyped
  <2> QED BY <2>2, <2>3, <2>4
<1>5. kept' \subseteq Snapshots
  BY DEF ClearGcLock, RepairIndex, ReadManifests, WriteRepaired, RecoverRows, Tick,
         Stop, DamageIndexFile, vars, Typed
<1> QED BY <1>1, <1>2, <1>3, <1>4, <1>5 DEF Typed

(***************************************************************************)
(* Snapshots are made one after the other, and never changed: wherever a   *)
(* copy of one is, it is the same snapshot.                                *)
(***************************************************************************)
Known == UNION ({manifests, rows, kept, run.snap, run.copy, repair.found, recovery.found}
                    \cup {passes[p].copy : p \in Passes})

InOrder(S) ==
    \A m, n \in S : /\ m.id = n.id => m = n
                    /\ m.id <= n.id => m.at <= n.at

History ==
    /\ InOrder(Known)
    /\ \A m \in Known : m.id <= counts.made /\ m.at <= clock
    /\ \A m \in run.snap : m.id = counts.made /\ m.at = run.started

LEMMA KnownType == Typed => Known \subseteq Snapshots
<1> SUFFICES ASSUME Typed PROVE Known \subseteq Snapshots
  OBVIOUS
<1>1. /\ manifests \subseteq Snapshots /\ rows \subseteq Snapshots /\ kept \subseteq Snapshots
      /\ run.snap \subseteq Snapshots /\ run.copy \subseteq Snapshots
      /\ repair.found \subseteq Snapshots /\ recovery.found \subseteq Snapshots
  BY DEF Typed, FolderTyped, DeviceTyped, Runs, Fetches
<1>2. \A p \in Passes : passes[p].copy \subseteq Snapshots
  BY DEF Typed, DeviceTyped, PassRecords
<1> QED BY <1>1, <1>2 DEF Known

\* No other step than the start of a run makes a snapshot.
NothingNew == Known' \subseteq Known /\ run'.snap \subseteq run.snap
              /\ (run'.snap # {} => run'.started = run.started)

\* What a pass copies it has from the manifests or the index.
LEMMA PassCopies ==
    ASSUME Typed, NEW p \in Passes, PassStep(p)
    PROVE  /\ manifests' \subseteq manifests /\ kept' \subseteq kept
           /\ UNCHANGED <<run, repair, recovery>>
           /\ rows' \subseteq rows \cup passes[p].copy
           /\ \A q \in Passes : passes'[q].copy \subseteq UNION {manifests, rows, passes[q].copy}
<1>1. /\ manifests' \subseteq manifests /\ kept' \subseteq kept
      /\ UNCHANGED <<run, repair, recovery>>
  BY DEF PassStep, RunIfDue, RunNow, ReadAndEvaluate, RebuildRows, DeleteManifest,
         DeleteFails, RemoveRead, RemoveWrite, StampPass, StampJob, FailPass, folder
<1>2. rows' \subseteq rows \cup passes[p].copy
  BY DEF PassStep, RunIfDue, RunNow, ReadAndEvaluate, RebuildRows, DeleteManifest,
         DeleteFails, RemoveRead, RemoveWrite, StampPass, StampJob, FailPass, folder
<1>3. \A q \in Passes : passes'[q].copy \subseteq UNION {manifests, rows, passes[q].copy}
  <2>1. passes \in [Passes -> PassRecords] /\ passes[p] \in PassRecords
    BY DEF Typed, DeviceTyped
  <2>2. ASSUME NEW new, SetPass(p, new), new.copy \subseteq UNION {manifests, rows, passes[p].copy}
        PROVE  \A q \in Passes : passes'[q].copy \subseteq UNION {manifests, rows, passes[q].copy}
    BY <2>1, <2>2 DEF SetPass
  <2>3. CASE RunIfDue(p) \/ RunNow(p)
    <3>1. /\ [passes[p] EXCEPT !.pc = "jobStamp"].copy = passes[p].copy
          /\ [passes[p] EXCEPT !.pc = "read", !.own = local, !.started = clock].copy
                 = passes[p].copy
          /\ [IdlePass EXCEPT !.pc = "read", !.own = local, !.started = clock].copy = {}
      BY <2>1 DEF PassRecords, IdlePass
    <3> QED BY <2>2, <2>3, <3>1 DEF RunIfDue, RunNow
  <2>4. CASE StampPass(p) \/ StampJob(p) \/ FailPass(p)
    <3>1. IdlePass.copy = {} /\ [passes[p] EXCEPT !.pc = "jobStamp"].copy = passes[p].copy
      BY <2>1 DEF PassRecords, IdlePass
    <3> QED BY <2>2, <2>4, <3>1 DEF StampPass, StampJob, FailPass
  <2>5. CASE ReadAndEvaluate(p)
    <3>1. \A x : /\ [passes[p] EXCEPT !.pc = "delete", !.todo = x].copy = passes[p].copy
                 /\ [passes[p] EXCEPT !.pc = "rebuild", !.copy = x].copy = x
      BY <2>1 DEF PassRecords
    <3>2. \A found : Downloaded(found) => found \subseteq manifests
      BY DownloadType
    <3> QED BY <2>2, <2>5, <3>1, <3>2 DEF ReadAndEvaluate
  <2>6. CASE RebuildRows(p)
    <3>1. [passes[p] EXCEPT !.pc = "read", !.copy = {}].copy = {}
      BY <2>1 DEF PassRecords
    <3> QED BY <2>2, <2>6, <3>1 DEF RebuildRows
  <2>7. \A id : GiveUpOn(p, id) =>
            \A q \in Passes : passes'[q].copy \subseteq UNION {manifests, rows, passes[q].copy}
    <3>1. \A id : [passes[p] EXCEPT !.pc = "delete", !.todo = @ \ {id}].copy = passes[p].copy
      BY <2>1 DEF PassRecords
    <3> QED BY <2>2, <3>1 DEF GiveUpOn
  <2>8. CASE \E id \in SnapIds : DeleteManifest(p, id) \/ DeleteFails(p, id)
    <3>1. \A id : [passes[p] EXCEPT !.pc = "removeRead", !.id = id].copy = passes[p].copy
      BY <2>1 DEF PassRecords
    <3> QED BY <2>2, <2>7, <2>8, <3>1 DEF DeleteManifest, DeleteFails
  <2>9. CASE RemoveRead(p) \/ RemoveWrite(p)
    <3>1. \A x : [passes[p] EXCEPT !.pc = "removeWrite", !.copy = x].copy = x
      BY <2>1 DEF PassRecords
    <3>2. {m \in rows : m.id # passes[p].id} \subseteq rows
      OBVIOUS
    <3>3. Pruned(p) => \A q \in Passes :
              passes'[q].copy \subseteq UNION {manifests, rows, passes[q].copy}
      <4>1. [passes[p] EXCEPT !.pc = "delete", !.pruned = TRUE,
                 !.todo = @ \ {passes[p].id}, !.copy = {}].copy = {}
        BY <2>1 DEF PassRecords
      <4> QED BY <2>2, <4>1 DEF Pruned
    <3>4. CASE RemoveRead(p)
      BY <2>2, <2>7, <3>1, <3>2, <3>3, <3>4 DEF RemoveRead
    <3>5. CASE RemoveWrite(p)
      BY <2>7, <3>3, <3>5 DEF RemoveWrite
    <3> QED BY <2>9, <3>4, <3>5
  <2> QED BY <2>3, <2>4, <2>5, <2>6, <2>8, <2>9 DEF PassStep
<1> QED BY <1>1, <1>2, <1>3

LEMMA PassKnown ==
    ASSUME Typed, NEW p \in Passes, PassStep(p)
    PROVE  NothingNew
BY PassCopies DEF NothingNew, Known

LEMMA OtherCopies ==
    ASSUME Typed,
           \/ \E s \in Sweepers : SweepStep(s)
           \/ ClearGcLock \/ RepairIndex \/ ReadManifests \/ WriteRepaired
           \/ RecoverRows \/ RecoverHead \/ Tick \/ Stop \/ DamageIndexFile
           \/ UNCHANGED vars
    PROVE  /\ UNCHANGED <<manifests, kept>>
           /\ rows' \subseteq UNION {rows, repair.found, manifests}
           /\ repair'.found \subseteq repair.found \cup manifests
           /\ recovery'.found \subseteq recovery.found \cup manifests
           /\ run' = run \/ run' = IdleRun
           /\ \A p \in Passes : passes'[p].copy \subseteq passes[p].copy
<1>1. CASE Stop
  BY <1>1 DEF Stop, folder, IdleRun, IdleRepair, IdlePass
<1>2. CASE RepairIndex \/ ReadManifests \/ WriteRepaired \/ RecoverRows \/ RecoverHead
  <2>1. /\ repair'.found \subseteq repair.found \cup manifests
        /\ recovery'.found \subseteq recovery.found \cup manifests
        /\ rows' \subseteq UNION {rows, repair.found, manifests}
        /\ UNCHANGED <<run, passes, manifests, kept>>
    BY <1>2, DownloadType
    DEF RepairIndex, ReadManifests, WriteRepaired, RecoverRows, RecoverHead,
        IdleRepair, folder, Typed, DeviceTyped, Fetches
  <2> QED BY <2>1
<1>3. CASE \/ \E s \in Sweepers : SweepStep(s)
           \/ ClearGcLock \/ Tick \/ DamageIndexFile \/ UNCHANGED vars
  <2>1. rows' \subseteq rows /\ UNCHANGED <<run, passes, repair, recovery, manifests, kept>>
    BY <1>3
    DEF SweepStep, SweepCommand, WriteLock, ReadReferences, ListContent, DeleteBlob,
        RemoveLock, FailSweep, ClearGcLock, Tick, DamageIndexFile, vars, folder, device
  <2> QED BY <2>1
<1> QED BY <1>1, <1>2, <1>3

LEMMA OtherKnown ==
    ASSUME Typed,
           \/ \E s \in Sweepers : SweepStep(s)
           \/ ClearGcLock \/ RepairIndex \/ ReadManifests \/ WriteRepaired
           \/ RecoverRows \/ RecoverHead \/ Tick \/ Stop \/ DamageIndexFile
           \/ UNCHANGED vars
    PROVE  NothingNew
BY OtherCopies DEF NothingNew, Known, IdleRun

LEMMA BackupKnown ==
    ASSUME Typed,
           \/ \E c \in Contents : UploadBlob(c)
           \/ PutManifest \/ AppendRead \/ AppendWrite \/ PutHead \/ SaveLocalIndex
           \/ ScheduleRetention \/ FailRun
    PROVE  NothingNew
<1>1. \A p \in Passes : passes'[p].copy \subseteq passes[p].copy
  <2>1. [IdlePass EXCEPT !.pc = "due", !.auto = TRUE, !.job = local].copy = {}
    BY DEF IdlePass
  <2> QED BY <2>1
    DEF UploadBlob, PutManifest, AppendRead, AppendWrite, PutHead, SaveLocalIndex,
        ScheduleRetention, FailRun, Typed, DeviceTyped
<1>2. /\ run'.snap \in {run.snap, {}} /\ run'.copy \subseteq UNION {run.copy, rows, manifests}
      /\ run'.snap = {} \/ run'.started = run.started
  <2>1. run \in Runs
    BY DEF Typed, DeviceTyped
  <2>2. CASE \E c \in Contents : UploadBlob(c)
    BY <2>1, <2>2 DEF UploadBlob, Runs
  <2>3. CASE AppendRead
    <3>1. PICK found : /\ run' = [run EXCEPT !.pc = "appendWrite", !.copy = found]
                       /\ found \subseteq rows \cup manifests
      BY <2>3, AppendReadEffect
    <3> QED BY <2>1, <3>1 DEF Runs
  <2>4. CASE PutManifest \/ AppendWrite \/ PutHead \/ SaveLocalIndex
    BY <2>1, <2>4 DEF PutManifest, AppendWrite, PutHead, SaveLocalIndex, Runs
  <2>5. CASE ScheduleRetention \/ FailRun
    BY <2>5 DEF ScheduleRetention, FailRun, IdleRun
  <2> QED BY <2>2, <2>3, <2>4, <2>5
<1>3. /\ manifests' \subseteq manifests \cup run.snap /\ kept' \subseteq kept \cup run.snap
      /\ rows' \subseteq UNION {rows, run.copy, run.snap}
      /\ UNCHANGED <<repair, recovery>>
  BY DEF UploadBlob, PutManifest, AppendRead, AppendWrite, PutHead, SaveLocalIndex,
         ScheduleRetention, FailRun, folder
<1> QED BY <1>1, <1>2, <1>3 DEF NothingNew, Known

\* A snapshot that starts is newer than all there are.
LEMMA StartKnown ==
    ASSUME Typed, History, NEW full \in BOOLEAN, NEW needs \in SUBSET Contents,
           StartBackup(full, needs)
    PROVE  History'
<1>1. PICK snap \in Snapshots :
          /\ run' = [IdleRun EXCEPT !.pc = "blobs", !.snap = {snap}, !.started = clock]
          /\ snap.id = counts.made + 1 /\ snap.at = clock
  BY StartEffect
<1>2. run'.snap = {snap} /\ run'.copy = {} /\ run'.started = clock
  BY <1>1 DEF IdleRun
<1>3. Known' \subseteq Known \cup {snap}
  <2>1. UNCHANGED <<manifests, rows, kept, passes, repair, recovery>>
    BY DEF StartBackup, folder
  <2> QED BY <1>2, <2>1 DEF Known
<1>4. counts'.made = counts.made + 1 /\ clock' = clock /\ counts.made \in Nat /\ clock \in Nat
  BY DEF StartBackup, Spend, Typed
<1>5. Known \subseteq Snapshots
  BY KnownType
<1>6. \A m \in Known : m.id \in Nat /\ m.id <= counts.made /\ m.at <= clock
  BY <1>5 DEF History, Snapshots, SnapIds
<1>7. \A m \in Known' : m.id <= counts'.made /\ m.at <= clock'
  BY <1>1, <1>3, <1>4, <1>6
<1>8. InOrder(Known')
  <2>1. ASSUME NEW m \in Known', NEW n \in Known'
        PROVE  (m.id = n.id => m = n) /\ (m.id <= n.id => m.at <= n.at)
    <3>1. CASE m \in Known /\ n \in Known
      BY <3>1 DEF History, InOrder
    <3>2. CASE m \in Known /\ n = snap
      BY <1>1, <1>4, <1>6, <3>2
    <3>3. CASE m = snap /\ n \in Known
      BY <1>1, <1>4, <1>6, <3>3
    <3>4. CASE m = snap /\ n = snap
      BY <1>1, <1>4, <3>4
    <3> QED BY <1>3, <3>1, <3>2, <3>3, <3>4
  <2> QED BY <2>1 DEF InOrder
<1> QED BY <1>1, <1>2, <1>4, <1>7, <1>8 DEF History

LEMMA HistoryKept ==
    ASSUME Typed, History, NothingNew, counts'.made = counts.made, clock' \in Nat,
           clock' >= clock
    PROVE  History'
<1>1. Known \subseteq Snapshots
  BY KnownType
<1>2. \A m \in Known' : m \in Known /\ m.at \in Nat
  BY <1>1 DEF NothingNew, Snapshots
<1>3. clock \in Nat
  BY DEF Typed
<1>4. InOrder(Known')
  BY <1>2 DEF History, InOrder
<1>5. \A m \in Known' : m.id <= counts'.made /\ m.at <= clock'
  BY <1>2, <1>3 DEF History
<1>6. \A m \in run'.snap : m.id = counts'.made /\ m.at = run'.started
  BY DEF History, NothingNew
<1> QED BY <1>4, <1>5, <1>6 DEF History

\* HEAD is rewritten to a snapshot that was found.
LEMMA NewestIdOf ==
    ASSUME NEW S \in SUBSET Snapshots, S # {}, NEW now \in Nat, \A m \in S : m.at <= now
    PROVE  \E m \in S : NewestId(S) = m.id /\ \A n \in S : n.at <= m.at
<1>1. \E m \in S : \A n \in S : n.at <= m.at
  BY NewestExists
<1> QED BY <1>1 DEF NewestId

LEMMA RecoverHeadTypes ==
    ASSUME Typed, History, RecoverHead
    PROVE  Typed'
<1>1. recovery.found \in SUBSET Snapshots /\ recovery.found \subseteq Known
  BY DEF Typed, DeviceTyped, Fetches, Known
<1>2. clock \in Nat /\ \A m \in recovery.found : m.at <= clock
  BY <1>1 DEF History, Typed
<1>3. head' \in SnapIds \cup {NoSnap}
  <2>1. CASE recovery.found = {}
    BY <2>1 DEF RecoverHead, NewestId
  <2>2. CASE recovery.found # {}
    <3>1. PICK m \in recovery.found : NewestId(recovery.found) = m.id
      BY <1>1, <1>2, <2>2, NewestIdOf
    <3> QED BY <1>1, <3>1 DEF RecoverHead, Snapshots
  <2> QED BY <2>1, <2>2
<1>4. IdleRepair \in Fetches({"idle", "head"})
  BY DEF IdleRepair, Fetches
<1> QED BY <1>3, <1>4 DEF RecoverHead, Typed, FolderTyped, DeviceTyped

Base == Typed /\ History

LEMMA InitBase == Init => Base
<1> SUFFICES ASSUME Init PROVE History
  BY InitTyped DEF Base
<1>1. Known = {} /\ run.snap = {}
  BY DEF Init, Known, IdleRun, IdlePass, IdleRepair
<1> QED BY <1>1 DEF History, InOrder

LEMMA PassCounts ==
    ASSUME Typed, NEW p \in Passes, PassStep(p)
    PROVE  counts'.made = counts.made /\ clock' = clock
BY CommandType, DownloadType, FaultType
DEF PassStep, RunIfDue, RunNow, ReadAndEvaluate, RebuildRows, DeleteManifest,
    DeleteFails, RemoveRead, RemoveWrite, StampPass, StampJob, FailPass

LEMMA OtherCounts ==
    ASSUME Typed,
           \/ \E s \in Sweepers : SweepStep(s)
           \/ ClearGcLock \/ RepairIndex \/ ReadManifests \/ WriteRepaired
           \/ RecoverRows \/ RecoverHead \/ Tick \/ Stop \/ DamageIndexFile
           \/ UNCHANGED vars
    PROVE  counts'.made = counts.made /\ clock' \in Nat /\ clock' >= clock
<1>0. clock \in Nat
  BY DEF Typed
<1>1. ASSUME NEW s \in Sweepers, SweepStep(s) PROVE counts'.made = counts.made /\ clock' = clock
  BY <1>1, CommandType, FaultType
  DEF SweepStep, SweepCommand, WriteLock, ReadReferences, ListContent, DeleteBlob,
      RemoveLock, FailSweep
<1>2. CASE \/ ClearGcLock \/ RepairIndex \/ ReadManifests \/ WriteRepaired
           \/ RecoverRows \/ RecoverHead \/ Tick \/ Stop \/ DamageIndexFile
           \/ UNCHANGED vars
  BY <1>0, <1>2, CommandType, DownloadType, FaultType
  DEF ClearGcLock, RepairIndex, ReadManifests, WriteRepaired, RecoverRows, RecoverHead,
      Tick, Stop, DamageIndexFile, vars
<1> QED BY <1>0, <1>1, <1>2

LEMMA RunCounts ==
    ASSUME Typed,
           \/ \E c \in Contents : UploadBlob(c)
           \/ PutManifest \/ AppendRead \/ AppendWrite \/ PutHead \/ SaveLocalIndex
           \/ ScheduleRetention \/ FailRun
    PROVE  counts'.made = counts.made /\ clock' = clock
<1>1. CASE AppendRead
  <2>1. counts'.made = counts.made
    BY <1>1, AppendReadEffect
  <2> QED BY <1>1, <2>1 DEF AppendRead
<1>2. CASE ~AppendRead
  BY <1>2, FaultType
  DEF UploadBlob, PutManifest, AppendWrite, PutHead, SaveLocalIndex, ScheduleRetention,
      FailRun
<1> QED BY <1>1, <1>2

LEMMA CountsKept ==
    ASSUME Typed, Next \/ UNCHANGED vars,
           ~\E full \in BOOLEAN, needs \in (SUBSET Contents) \ {{}} : StartBackup(full, needs)
    PROVE  counts'.made = counts.made /\ clock' \in Nat /\ clock' >= clock
<1>0. clock \in Nat
  BY DEF Typed
<1>1. CASE BackupStep
  BY <1>0, <1>1, RunCounts DEF BackupStep
<1>2. CASE \E p \in Passes : PassStep(p)
  BY <1>0, <1>2, PassCounts
<1>3. CASE ~BackupStep /\ ~\E p \in Passes : PassStep(p)
  BY <1>3, OtherCounts DEF Next
<1> QED BY <1>1, <1>2, <1>3

LEMMA BaseStep == Base /\ [Next]_vars => Base'
<1> SUFFICES ASSUME Base, Next \/ UNCHANGED vars PROVE Base'
  OBVIOUS
<1>1. Typed'
  BY BackupTypes, PassTypes, SweepTypes, OtherTypes, RecoverHeadTypes DEF Base, Next
<1>2. History'
  <2>1. CASE \E full \in BOOLEAN, needs \in (SUBSET Contents) \ {{}} : StartBackup(full, needs)
    BY <2>1, StartKnown DEF Base
  <2>2. CASE ~\E full \in BOOLEAN, needs \in (SUBSET Contents) \ {{}} : StartBackup(full, needs)
    <3>1. NothingNew
      BY <2>2, PassKnown, OtherKnown, BackupKnown DEF Base, Next, BackupStep
    <3> QED BY <2>2, <3>1, CountsKept, HistoryKept DEF Base
  <2> QED BY <2>1, <2>2
<1> QED BY <1>1, <1>2 DEF Base

THEOREM BaseAlways == Spec => []Base
BY InitBase, BaseStep, PTL DEF Spec

\* The history of the lock is a truth value.
Told == abandoned \in BOOLEAN

LEMMA ToldStep == Told /\ [Next]_vars => Told'
<1> SUFFICES ASSUME Told, Next \/ UNCHANGED vars PROVE Told'
  OBVIOUS
<1>1. CASE BackupStep
  <2>1. ASSUME NEW full, NEW needs, StartBackup(full, needs) PROVE UNCHANGED <<lock, abandoned>>
    BY <2>1 DEF StartBackup, folder
  <2>2. ASSUME \/ \E c \in Contents : UploadBlob(c)
               \/ PutManifest \/ AppendRead \/ AppendWrite \/ PutHead \/ SaveLocalIndex
               \/ ScheduleRetention \/ FailRun
        PROVE  UNCHANGED <<lock, abandoned>>
    BY <2>2
    DEF UploadBlob, PutManifest, AppendRead, AppendWrite, PutHead, SaveLocalIndex,
        ScheduleRetention, FailRun, folder
  <2>3. UNCHANGED <<lock, abandoned>>
    BY <1>1, <2>1, <2>2 DEF BackupStep
  <2> QED BY <2>3 DEF Told
<1>2. ASSUME NEW p \in Passes, PassStep(p) PROVE Told'
  <2>1. abandoned' = abandoned
    BY <1>2
    DEF PassStep, RunIfDue, RunNow, ReadAndEvaluate, RebuildRows, DeleteManifest,
        DeleteFails, RemoveRead, RemoveWrite, StampPass, StampJob, FailPass, folder
  <2> QED BY <2>1 DEF Told
<1>3. ASSUME NEW s \in Sweepers, SweepStep(s) PROVE Told'
  <2>1. \/ abandoned' = abandoned
        \/ abandoned' = TRUE \/ abandoned' = FALSE \/ abandoned' = (lock # NoLock)
    <3>1. CASE WriteLock(s)
      <4>1. abandoned' = FALSE \/ abandoned' = TRUE \/ abandoned' = abandoned
        BY <3>1, Zenon DEF WriteLock
      <4> QED BY <4>1
    <3>2. CASE RemoveLock(s)
      <4>1. abandoned' = FALSE \/ abandoned' = (lock # NoLock)
        BY <3>2, Zenon DEF RemoveLock
      <4> QED BY <4>1
    <3>3. CASE SweepCommand(s) \/ ReadReferences(s) \/ ListContent(s) \/ FailSweep(s)
               \/ \E c \in Contents : DeleteBlob(s, c)
      BY <3>3 DEF SweepCommand, ReadReferences, ListContent, FailSweep, DeleteBlob, folder
    <3> QED BY <1>3, <3>1, <3>2, <3>3 DEF SweepStep
  <2> QED BY <2>1 DEF Told
<1>4. CASE ClearGcLock
  BY <1>4 DEF ClearGcLock, Told
<1>5. CASE Stop
  <2>1. abandoned' = (abandoned \/ \E s \in Sweepers : lock # NoLock /\ HoldsLock(s))
    BY <1>5 DEF Stop
  <2> QED BY <2>1, Zenon DEF Told
<1>6. CASE \/ RepairIndex \/ ReadManifests \/ WriteRepaired
           \/ RecoverRows \/ RecoverHead \/ Tick \/ DamageIndexFile \/ UNCHANGED vars
  <2>1. abandoned' = abandoned
    BY <1>6
    DEF RepairIndex, ReadManifests, WriteRepaired, RecoverRows, RecoverHead, Tick,
        DamageIndexFile, vars, folder
  <2> QED BY <2>1 DEF Told
<1> QED BY <1>1, <1>2, <1>3, <1>4, <1>5, <1>6 DEF Next

\* Every variable has its type: HEAD, too, which recovery chooses as the
\* newest of the manifests it found.
THEOREM TypeCorrect == Spec => []TypeOK
<1>1. Base /\ Told => TypeOK
  <2> SUFFICES ASSUME Typed, Told PROVE TypeOK
    BY DEF Base
  <2>1. blobs \in [DOMAIN blobs -> Nat] /\ DOMAIN blobs \subseteq Contents
    BY DEF Typed, FolderTyped
  <2>2. \A p \in Passes : passes[p] \in PassRecords
    BY DEF Typed, DeviceTyped
  <2>3. \A s \in Sweepers : sweeps[s] \in SweepRecords
    BY DEF Typed, DeviceTyped
  <2>4. run \in Runs
    BY DEF Typed, DeviceTyped
  <2> QED BY <2>1, <2>2, <2>3, <2>4
          DEF TypeOK, Told, Typed, FolderTyped, DeviceTyped, Runs, PassRecords, SweepRecords,
              Fetches
<1>2. Init => Told
  BY DEF Init, Told
<1> QED BY <1>1, <1>2, ToldStep, BaseAlways, PTL DEF Spec

(***************************************************************************)
(* What a step of a pass changes, field by field.                          *)
(***************************************************************************)
After(p, pc, own, todo) ==
    /\ passes'[p].pc = pc /\ passes'[p].own = own /\ passes'[p].todo = todo
    /\ passes'[p].auto = passes[p].auto /\ passes'[p].job = passes[p].job

Ended(p) == passes'[p] = IdlePass

\* It starts, fetches the manifests, reads the index or gives up.
GoesOn(p) ==
    /\ UNCHANGED <<manifests, rows, indexFile, kept, local>>
    /\ \/ /\ passes[p].pc = "due"
          /\ \/ After(p, "jobStamp", passes[p].own, passes[p].todo)
             \/ After(p, "read", local, passes[p].todo)
       \/ /\ passes[p].pc = "idle" /\ MayStart("retention")
          /\ passes'[p].pc = "read" /\ passes'[p].own = local
          /\ passes'[p].auto = FALSE /\ passes'[p].todo = {}
       \/ /\ passes[p].pc = "read" /\ indexFile # "ok"
          /\ Downloaded(passes'[p].copy)
          /\ After(p, "rebuild", passes[p].own, passes[p].todo)
       \/ /\ passes[p].pc \in {"removeRead", "removeWrite"}
          /\ After(p, "delete", passes[p].own, passes[p].todo \ {passes[p].id})
       \/ /\ passes[p].pc = "removeRead" /\ indexFile = "ok"
          /\ After(p, "removeWrite", passes[p].own, passes[p].todo)
          /\ passes'[p].copy = {m \in rows : m.id # passes[p].id}
       \/ passes[p].pc # "idle" /\ Ended(p)

Evaluates(p) ==
    LET prune == Ids(rows) \ KeepSet(rows, passes[p].started)
    IN  /\ passes[p].pc = "read" /\ indexFile = "ok"
        /\ After(p, "delete", passes[p].own, prune)
        /\ kept' = {m \in kept : m.id \notin prune}
        /\ UNCHANGED <<manifests, rows, indexFile, local>>

WritesRows(p) ==
    /\ rows' = passes[p].copy /\ indexFile' = "ok"
    /\ \/ passes[p].pc = "rebuild" /\ After(p, "read", passes[p].own, passes[p].todo)
       \/ /\ passes[p].pc = "removeWrite"
          /\ After(p, "delete", passes[p].own, passes[p].todo \ {passes[p].id})
    /\ UNCHANGED <<manifests, kept, local>>

Deletes(p) ==
    /\ passes[p].pc = "delete"
    /\ \E id \in passes[p].todo :
           /\ manifests' \in {manifests, {m \in manifests : m.id # id}}
           /\ \/ /\ After(p, "removeRead", passes[p].own, passes[p].todo)
                 /\ passes'[p].id = id /\ manifests' = {m \in manifests : m.id # id}
              \/ After(p, "delete", passes[p].own, passes[p].todo \ {id})
    /\ UNCHANGED <<rows, indexFile, kept, local>>

Stamps(p) ==
    /\ \/ /\ passes[p].pc = "delete" /\ passes[p].todo = {}
          /\ local' = [passes[p].own EXCEPT !.retention = passes[p].started]
          /\ \/ Ended(p)
             \/ passes[p].auto /\ After(p, "jobStamp", passes[p].own, {})
       \/ /\ passes[p].pc = "jobStamp" /\ Ended(p)
          /\ local' = [passes[p].job EXCEPT !.retention = clock]
    /\ UNCHANGED <<manifests, rows, indexFile, kept>>

LEMMA PassEffect ==
    ASSUME Typed, NEW p \in Passes, PassStep(p)
    PROVE  /\ UNCHANGED <<clock, blobs, head, lock, verified, run, repair, recovery>>
           /\ \A q \in Passes \ {p} : passes'[q] = passes[q]
           /\ GoesOn(p) \/ Evaluates(p) \/ WritesRows(p) \/ Deletes(p) \/ Stamps(p)
<1>0. passes \in [Passes -> PassRecords] /\ passes[p] \in PassRecords
  BY DEF Typed, DeviceTyped
<1>1. UNCHANGED <<clock, blobs, head, lock, verified, run, repair, recovery>>
  BY DEF PassStep, RunIfDue, RunNow, ReadAndEvaluate, RebuildRows, DeleteManifest,
         DeleteFails, RemoveRead, RemoveWrite, StampPass, StampJob, FailPass, folder
<1>2. \A q \in Passes \ {p} : passes'[q] = passes[q]
  <2>1. \A new : SetPass(p, new) => \A q \in Passes \ {p} : passes'[q] = passes[q]
    BY <1>0 DEF SetPass
  <2> QED BY <2>1
    DEF PassStep, RunIfDue, RunNow, ReadAndEvaluate, RebuildRows, DeleteManifest, DeleteFails,
        RemoveRead, RemoveWrite, StampPass, StampJob, FailPass, GiveUpOn, Pruned
<1>3. \A new : SetPass(p, new) => passes'[p] = new
  BY <1>0 DEF SetPass
<1> SUFFICES GoesOn(p) \/ Evaluates(p) \/ WritesRows(p) \/ Deletes(p) \/ Stamps(p)
  BY <1>1, <1>2
<1>4. CASE RunIfDue(p)
  <2>1. /\ SetPass(p, [passes[p] EXCEPT !.pc = "jobStamp"]) =>
               After(p, "jobStamp", passes[p].own, passes[p].todo)
        /\ SetPass(p, [passes[p] EXCEPT !.pc = "read", !.own = local, !.started = clock]) =>
               After(p, "read", local, passes[p].todo)
    BY <1>0, <1>3 DEF PassRecords, After
  <2> QED BY <1>4, <2>1 DEF RunIfDue, GoesOn, folder
<1>5. CASE RunNow(p)
  <2>1. passes'[p] = [IdlePass EXCEPT !.pc = "read", !.own = local, !.started = clock]
    BY <1>3, <1>5 DEF RunNow
  <2>2. passes'[p].pc = "read" /\ passes'[p].own = local /\ passes'[p].auto = FALSE
        /\ passes'[p].todo = {}
    BY <2>1 DEF IdlePass
  <2> QED BY <1>5, <2>2 DEF RunNow, GoesOn, folder
<1>6. CASE ReadAndEvaluate(p)
  <2>1. CASE indexFile = "ok"
    <3> DEFINE prune == Ids(rows) \ KeepSet(rows, passes[p].started)
    <3>1. passes'[p] = [passes[p] EXCEPT !.pc = "delete", !.todo = prune]
      BY <1>3, <1>6, <2>1 DEF ReadAndEvaluate
    <3>2. kept' = {m \in kept : m.id \notin prune}
          /\ UNCHANGED <<manifests, rows, indexFile, local>>
      BY <1>6, <2>1 DEF ReadAndEvaluate, folder
    <3>3. passes[p].pc = "read"
      BY <1>6 DEF ReadAndEvaluate
    <3>4. After(p, "delete", passes[p].own, prune)
      <4> HIDE DEF prune
      <4> QED BY <1>0, <3>1 DEF PassRecords, After
    <3> QED BY <2>1, <3>2, <3>3, <3>4 DEF Evaluates
  <2>2. CASE indexFile # "ok"
    <3>1. PICK found : Downloaded(found) /\ kept' = kept
                       /\ SetPass(p, [passes[p] EXCEPT !.pc = "rebuild", !.copy = found])
      BY <1>6, <2>2 DEF ReadAndEvaluate
    <3>2. passes'[p] = [passes[p] EXCEPT !.pc = "rebuild", !.copy = found]
      BY <1>3, <3>1
    <3>3. After(p, "rebuild", passes[p].own, passes[p].todo) /\ passes'[p].copy = found
      BY <1>0, <3>2 DEF PassRecords, After
    <3> QED BY <1>6, <2>2, <3>1, <3>3 DEF GoesOn, ReadAndEvaluate, folder
  <2> QED BY <2>1, <2>2
<1>7. CASE RebuildRows(p)
  <2>1. passes'[p] = [passes[p] EXCEPT !.pc = "read", !.copy = {}]
    BY <1>3, <1>7 DEF RebuildRows
  <2>2. After(p, "read", passes[p].own, passes[p].todo)
    BY <1>0, <2>1 DEF PassRecords, After
  <2> QED BY <1>7, <2>2 DEF RebuildRows, WritesRows
<1>8. \A id : GiveUpOn(p, id) => After(p, "delete", passes[p].own, passes[p].todo \ {id})
  BY <1>0, <1>3 DEF GiveUpOn, PassRecords, After
<1>9. Pruned(p) => After(p, "delete", passes[p].own, passes[p].todo \ {passes[p].id})
  BY <1>0, <1>3 DEF Pruned, PassRecords, After
<1>10. ASSUME NEW id \in SnapIds, DeleteManifest(p, id) \/ DeleteFails(p, id)
       PROVE  Deletes(p)
  <2>1. \/ /\ After(p, "removeRead", passes[p].own, passes[p].todo)
           /\ passes'[p].id = id /\ manifests' = {m \in manifests : m.id # id}
        \/ After(p, "delete", passes[p].own, passes[p].todo \ {id})
    <3>1. SetPass(p, [passes[p] EXCEPT !.pc = "removeRead", !.id = id]) =>
              After(p, "removeRead", passes[p].own, passes[p].todo) /\ passes'[p].id = id
      BY <1>0, <1>3 DEF PassRecords, After
    <3> QED BY <1>8, <1>10, <3>1 DEF DeleteManifest, DeleteFails
  <2> QED BY <1>10, <2>1 DEF DeleteManifest, DeleteFails, Deletes
<1>11. CASE RemoveRead(p)
  <2>1. passes[p].pc = "removeRead" /\ UNCHANGED <<manifests, rows, indexFile, kept, local>>
    BY <1>11 DEF RemoveRead, folder
  <2>2. \/ GiveUpOn(p, passes[p].id) \/ Pruned(p)
        \/ /\ indexFile = "ok"
           /\ SetPass(p, [passes[p] EXCEPT !.pc = "removeWrite",
                              !.copy = {m \in rows : m.id # passes[p].id}])
    BY <1>11 DEF RemoveRead, Typed, FolderTyped
  <2>3. CASE GiveUpOn(p, passes[p].id) \/ Pruned(p)
    BY <1>8, <1>9, <2>1, <2>3 DEF GoesOn
  <2>4. CASE indexFile = "ok" /\ SetPass(p, [passes[p] EXCEPT !.pc = "removeWrite",
                 !.copy = {m \in rows : m.id # passes[p].id}])
    <3> DEFINE copy == {m \in rows : m.id # passes[p].id}
    <3>1. passes'[p] = [passes[p] EXCEPT !.pc = "removeWrite", !.copy = copy]
      BY <1>3, <2>4
    <3>2. passes'[p].copy = copy /\ After(p, "removeWrite", passes[p].own, passes[p].todo)
      <4> HIDE DEF copy
      <4> QED BY <1>0, <3>1 DEF PassRecords, After
    <3> QED BY <2>1, <2>4, <3>2 DEF GoesOn
  <2> QED BY <2>2, <2>3, <2>4
<1>12. CASE RemoveWrite(p)
  <2>1. passes[p].pc = "removeWrite" /\ UNCHANGED <<manifests, kept, local>>
    BY <1>12 DEF RemoveWrite
  <2>2. CASE rows' = passes[p].copy /\ indexFile' = "ok" /\ Pruned(p)
    BY <1>9, <2>1, <2>2 DEF WritesRows
  <2>3. CASE GiveUpOn(p, passes[p].id) /\ UNCHANGED <<rows, indexFile>>
    BY <1>8, <2>1, <2>3 DEF GoesOn
  <2> QED BY <1>12, <2>2, <2>3 DEF RemoveWrite
<1>13. CASE StampPass(p)
  <2>1. passes'[p] = IdlePass \/ (passes[p].auto /\ passes'[p] = [passes[p] EXCEPT !.pc = "jobStamp"])
    BY <1>3, <1>13 DEF StampPass
  <2>2. passes'[p] = [passes[p] EXCEPT !.pc = "jobStamp"] =>
            After(p, "jobStamp", passes[p].own, passes[p].todo)
    BY <1>0 DEF PassRecords, After
  <2>3. /\ passes[p].pc = "delete" /\ passes[p].todo = {}
        /\ local' = [passes[p].own EXCEPT !.retention = passes[p].started]
        /\ UNCHANGED <<manifests, rows, indexFile, kept>>
    BY <1>13 DEF StampPass, folder
  <2> QED BY <2>1, <2>2, <2>3 DEF Stamps, Ended
<1>14. CASE StampJob(p)
  BY <1>3, <1>14 DEF StampJob, Stamps, Ended, folder
<1>15. CASE FailPass(p)
  BY <1>3, <1>15 DEF FailPass, GoesOn, Ended, folder
<1> QED BY <1>4, <1>5, <1>6, <1>7, <1>10, <1>11, <1>12, <1>13, <1>14, <1>15
        DEF PassStep

(***************************************************************************)
(* The lock of the garbage collection.                                     *)
(***************************************************************************)
\* A lock whose sweep is past its write and before its removal, or one that
\* no code is left to remove.
LockHeld == lock # NoLock => abandoned \/ \E s \in Sweepers : HoldsLock(s)

\* Nothing else sets a lock, or takes a sweep from its place.
LEMMA LockElsewhere ==
    ASSUME \/ BackupStep \/ ClearGcLock \/ RepairIndex \/ ReadManifests
           \/ WriteRepaired \/ RecoverRows \/ RecoverHead \/ Tick
           \/ DamageIndexFile \/ UNCHANGED vars
    PROVE  /\ lock' = NoLock \/ (lock' = lock /\ abandoned' = abandoned)
           /\ sweeps' = sweeps
<1>1. CASE BackupStep
  <2>1. ASSUME NEW full, NEW needs, StartBackup(full, needs)
        PROVE  UNCHANGED <<lock, abandoned, sweeps>>
    BY <2>1 DEF StartBackup, folder
  <2>2. CASE \/ \E c \in Contents : UploadBlob(c)
             \/ PutManifest \/ AppendRead \/ AppendWrite \/ PutHead \/ SaveLocalIndex
             \/ ScheduleRetention \/ FailRun
    BY <2>2
    DEF UploadBlob, PutManifest, AppendRead, AppendWrite, PutHead, SaveLocalIndex,
        ScheduleRetention, FailRun, folder
  <2> QED BY <1>1, <2>1, <2>2 DEF BackupStep
<1>2. CASE \/ ClearGcLock \/ RepairIndex \/ ReadManifests \/ WriteRepaired
           \/ RecoverRows \/ RecoverHead \/ Tick \/ DamageIndexFile \/ UNCHANGED vars
  BY <1>2
  DEF ClearGcLock, RepairIndex, ReadManifests, WriteRepaired, RecoverRows, RecoverHead,
      Tick, DamageIndexFile, vars, folder, device
<1> QED BY <1>1, <1>2

LEMMA LockPass ==
    ASSUME Typed, NEW p \in Passes, PassStep(p)
    PROVE  /\ lock' = lock /\ abandoned' = abandoned
           /\ \A s \in Sweepers : HoldsLock(s) => HoldsLock(s)'
<1>1. lock' = lock /\ abandoned' = abandoned
  BY DEF PassStep, RunIfDue, RunNow, ReadAndEvaluate, RebuildRows, DeleteManifest,
         DeleteFails, RemoveRead, RemoveWrite, StampPass, StampJob, FailPass, folder
<1>2. ASSUME NEW s \in Sweepers, HoldsLock(s) PROVE HoldsLock(s)'
  <2>1. CASE StampPass(p)
    <3>1. \A t \in Sweepers : CheckLock(t) => sweeps'[s] = sweeps[s]
      BY <1>2 DEF CheckLock, StartSweep, HoldsLock, Typed, DeviceTyped
    <3> QED BY <1>2, <2>1, <3>1 DEF StampPass, HoldsLock
  <2>2. CASE ~StampPass(p)
    <3>1. sweeps' = sweeps
      BY <2>2 DEF PassStep, RunIfDue, RunNow, ReadAndEvaluate, RebuildRows, DeleteManifest,
             DeleteFails, RemoveRead, RemoveWrite, StampJob, FailPass
    <3> QED BY <1>2, <3>1 DEF HoldsLock
  <2> QED BY <2>1, <2>2
<1> QED BY <1>1, <1>2

\* A step of one sweep: the write makes the lock its own, every way out goes
\* over the removal, and the other sweeps stay where they are.
LEMMA LockSweep ==
    ASSUME Typed, LockHeld, NEW s \in Sweepers, SweepStep(s)
    PROVE  LockHeld'
<1>0. sweeps \in [Sweepers -> SweepRecords] /\ sweeps[s] \in SweepRecords
  BY DEF Typed, DeviceTyped
<1>1. CASE SweepCommand(s)
  <2>1. lock' = lock /\ abandoned' = abandoned
    BY <1>1 DEF SweepCommand, folder
  <2>2. \A t \in Sweepers : HoldsLock(t) => HoldsLock(t)'
    BY <1>0, <1>1 DEF SweepCommand, CheckLock, StartSweep, HoldsLock
  <2> QED BY <2>1, <2>2 DEF LockHeld
<1>2. CASE WriteLock(s)
  <2>1. ASSUME sweeps' = [sweeps EXCEPT ![s].pc = "read"] PROVE HoldsLock(s)'
    BY <1>0, <2>1 DEF HoldsLock, SweepRecords
  <2>2. ASSUME UNCHANGED <<lock, abandoned>>, sweeps' = [sweeps EXCEPT ![s] = IdleSweep]
        PROVE  LockHeld'
    <3>1. \A t \in Sweepers : HoldsLock(t) => HoldsLock(t)'
      BY <1>0, <1>2, <2>2 DEF WriteLock, HoldsLock
    <3> QED BY <2>2, <3>1 DEF LockHeld
  <2> QED BY <1>2, <2>1, <2>2 DEF WriteLock, LockHeld
<1>3. CASE ReadReferences(s) \/ ListContent(s) \/ FailSweep(s)
  <2>1. lock' = lock /\ abandoned' = abandoned
    BY <1>3 DEF ReadReferences, ListContent, FailSweep, folder
  <2>2. \A t \in Sweepers : HoldsLock(t) => HoldsLock(t)'
    <3>1. sweeps'[s].pc \in {"list", "unlock", "delete"}
      <4>1. \A x : /\ [sweeps[s] EXCEPT !.pc = "list", !.refs = x].pc = "list"
                   /\ [sweeps[s] EXCEPT !.pc = "unlock"].pc = "unlock"
        BY <1>0 DEF SweepRecords
      <4>2. CASE ReadReferences(s)
        BY <1>0, <4>1, <4>2 DEF ReadReferences
      <4>3. CASE ListContent(s) \/ FailSweep(s)
        BY <1>0, <4>3 DEF ListContent, FailSweep, SweepRecords
      <4> QED BY <1>3, <4>2, <4>3
    <3>2. \A t \in Sweepers \ {s} : sweeps'[t] = sweeps[t]
      BY <1>0, <1>3 DEF ReadReferences, ListContent, FailSweep
    <3> QED BY <3>1, <3>2 DEF HoldsLock
  <2> QED BY <2>1, <2>2 DEF LockHeld
<1>4. CASE \E c \in Contents : DeleteBlob(s, c)
  <2>1. lock' = lock /\ abandoned' = abandoned
        /\ \A t \in Sweepers : sweeps'[t].pc = sweeps[t].pc
    BY <1>0, <1>4 DEF DeleteBlob, SweepRecords
  <2> QED BY <2>1 DEF LockHeld, HoldsLock
<1>5. CASE RemoveLock(s)
  BY <1>5 DEF RemoveLock, LockHeld
<1> QED BY <1>1, <1>2, <1>3, <1>4, <1>5 DEF SweepStep

\* For any number of sweeps that start, overlap, take over a stale lock, fail
\* or die: a lock in the folder is one that a sweep will still remove, unless
\* its own sweep died, its write threw or its removal threw (GCService.sweep).
THEOREM LockIsRemoved == Spec => []NoLockLeftBehind
<1>1. Init => LockHeld
  BY DEF Init, LockHeld
<1>2. Base /\ LockHeld /\ [Next]_vars => LockHeld'
  <2> SUFFICES ASSUME Base, LockHeld, Next \/ UNCHANGED vars PROVE LockHeld'
    OBVIOUS
  <2>1. CASE Stop
    BY <2>1 DEF Stop, LockHeld
  <2>2. ASSUME NEW p \in Passes, PassStep(p) PROVE LockHeld'
    BY <2>2, LockPass DEF LockHeld, Base
  <2>3. ASSUME NEW s \in Sweepers, SweepStep(s) PROVE LockHeld'
    BY <2>3, LockSweep DEF Base
  <2>4. CASE \/ BackupStep \/ ClearGcLock \/ RepairIndex \/ ReadManifests
             \/ WriteRepaired \/ RecoverRows \/ RecoverHead \/ Tick
             \/ DamageIndexFile \/ UNCHANGED vars
    BY <2>4, LockElsewhere DEF LockHeld, HoldsLock
  <2> QED BY <2>1, <2>2, <2>3, <2>4 DEF Next
<1>3. LockHeld => NoLockLeftBehind
  BY DEF LockHeld, NoLockLeftBehind
<1> QED BY <1>1, <1>2, <1>3, BaseAlways, PTL DEF Spec

(***************************************************************************)
(* Which snapshots a pass keeps.                                           *)
(***************************************************************************)
UniqueIds(S) == \A m, n \in S : m.id = n.id => m = n

LEMMA RowOf ==
    ASSUME NEW S, UniqueIds(S), NEW m \in S
    PROVE  Row(S, m.id) = m /\ m.id \in Ids(S)
BY DEF UniqueIds, Row, Ids

LEMMA RowIn ==
    ASSUME NEW S, NEW i \in Ids(S)
    PROVE  Row(S, i) \in S /\ Row(S, i).id = i
BY DEF Row, Ids

LEMMA FiniteRows ==
    ASSUME NEW S \in SUBSET Snapshots, UniqueIds(S)
    PROVE  /\ IsFiniteSet(S) /\ IsFiniteSet(Ids(S))
           /\ Cardinality(S) <= Cardinality(Ids(S))
<1>1. IsFiniteSet(SnapIds) /\ Ids(S) \subseteq SnapIds
  <2>1. 1 \in Int /\ MaxSnaps \in Int
    BY Bounds
  <2>2. IsFiniteSet(SnapIds)
    BY <2>1, FS_Interval DEF SnapIds
  <2>3. Ids(S) \subseteq SnapIds
    BY DEF Ids, Snapshots
  <2> QED BY <2>2, <2>3
<1>2. IsFiniteSet(Ids(S))
  BY <1>1, FS_Subset
<1> DEFINE f == [m \in S |-> m.id]
<1>3. f \in Injection(S, Ids(S))
  BY Fun_IsInj DEF UniqueIds, Ids
<1> HIDE DEF f
<1> QED BY <1>2, <1>3, FS_Injection

\* Rows that are missing around a snapshot do not push it out of a tier.
LEMMA TiersOfPart ==
    ASSUME NEW S \in SUBSET Snapshots, UniqueIds(S), NEW K \in SUBSET S, NEW now \in Nat
    PROVE  EvaluateTiers(S, now) \cap K \subseteq EvaluateTiers(K, now)
<1> SUFFICES ASSUME NEW m \in EvaluateTiers(S, now), m \in K
             PROVE  m \in EvaluateTiers(K, now)
  OBVIOUS
<1>1. CASE m \in Newest(S, KeepN)
  <2>0. IsFiniteSet(S) /\ {o \in S : o.at > m.at} \subseteq S
    BY FiniteRows
  <2>1. {o \in K : o.at > m.at} \subseteq {o \in S : o.at > m.at}
        /\ IsFiniteSet({o \in S : o.at > m.at})
    BY <2>0, FS_Subset
  <2>2. /\ Cardinality({o \in K : o.at > m.at}) <= Cardinality({o \in S : o.at > m.at})
        /\ Cardinality({o \in K : o.at > m.at}) \in Nat
        /\ Cardinality({o \in S : o.at > m.at}) \in Nat
    BY <2>1, FS_Subset, FS_CardinalityType
  <2>3. Cardinality({o \in S : o.at > m.at}) < KeepN /\ KeepN \in Nat
    BY <1>1, Bounds DEF Newest
  <2>4. Cardinality({o \in K : o.at > m.at}) < KeepN
    BY <2>2, <2>3
  <2> QED BY <2>4 DEF Newest, EvaluateTiers
<1>2. CASE m \in Within(S, now, NeverPrune) \cup Within(S, now, Recent)
  BY <1>2 DEF Within, EvaluateTiers
<1>3. CASE m \in Daily(S, now)
  <2>1. m \in Daily(K, now)
    BY <1>3 DEF Daily, Within, NewestPer
  <2> QED BY <2>1 DEF EvaluateTiers
<1>4. CASE m \in Monthly(S, now)
  <2>1. m \in Monthly(K, now)
    BY <1>4 DEF Monthly, NewestPer
  <2> QED BY <2>1 DEF EvaluateTiers
<1> QED BY <1>1, <1>2, <1>3, <1>4 DEF EvaluateTiers

\* A lineage is the least set with its ids that is closed under parents.
LEMMA LineageLeast ==
    ASSUME NEW S, NEW ids
    PROVE  /\ Lineage(S, ids) \subseteq Ids(S)
           /\ ids \cap Ids(S) \subseteq Lineage(S, ids)
           /\ \A A \in SUBSET Ids(S) :
                  ids \cap Ids(S) \subseteq A /\ ParentClosed(S, A) => Lineage(S, ids) \subseteq A
BY DEF Lineage

LEMMA LineageClosed ==
    ASSUME NEW S, NEW ids
    PROVE  ParentClosed(S, Lineage(S, ids))
<1> SUFFICES ASSUME NEW i \in Lineage(S, ids), ~Row(S, i).full, Row(S, i).parent \in Ids(S)
             PROVE  Row(S, i).parent \in Lineage(S, ids)
  BY DEF ParentClosed
<1> SUFFICES ASSUME NEW A \in SUBSET Ids(S), ids \cap Ids(S) \subseteq A, ParentClosed(S, A)
             PROVE  Row(S, i).parent \in A
  BY DEF Lineage
<1>1. i \in A
  BY LineageLeast
<1> QED BY <1>1 DEF ParentClosed

LEMMA KeepSetFacts ==
    ASSUME NEW S, NEW now
    PROVE  /\ KeepSet(S, now) \subseteq Ids(S)
           /\ ParentClosed(S, KeepSet(S, now))
           /\ Ids(EvaluateTiers(S, now)) \subseteq KeepSet(S, now)
<1>1. Ids(EvaluateTiers(S, now)) \subseteq Ids(S)
  BY DEF Ids, EvaluateTiers, Newest, Within, Daily, Monthly, NewestPer
<1> QED BY <1>1, LineageLeast, LineageClosed DEF KeepSet, WithAncestors

\* What is kept would be kept again.
LEMMA KeepAgain ==
    ASSUME NEW S \in SUBSET Snapshots, UniqueIds(S), NEW now \in Nat
    PROVE  LET keep == KeepSet(S, now)
           IN  KeepSet({m \in S : m.id \in keep}, now) = keep
<1> DEFINE keep == KeepSet(S, now)
           K == {m \in S : m.id \in keep}
<1>1. Ids(K) = keep
  BY KeepSetFacts DEF Ids
<1>2. KeepSet(K, now) \subseteq keep
  <2> HIDE DEF keep, K
  <2> QED BY <1>1, KeepSetFacts
<1>3. ASSUME NEW A \in SUBSET Ids(K), Ids(EvaluateTiers(K, now)) \cap Ids(K) \subseteq A,
             ParentClosed(K, A)
      PROVE  keep \subseteq A
  <2>1. Ids(EvaluateTiers(S, now)) \subseteq A
    <3> SUFFICES ASSUME NEW m \in EvaluateTiers(S, now) PROVE m.id \in A
      BY DEF Ids
    <3>1. m \in S /\ m.id \in keep
      <4>1. m \in S
        BY DEF EvaluateTiers, Newest, Within, Daily, Monthly, NewestPer
      <4>2. m.id \in Ids(EvaluateTiers(S, now))
        BY DEF Ids
      <4> QED BY <4>1, <4>2, KeepSetFacts
    <3>2. m \in EvaluateTiers(K, now)
      BY <3>1, TiersOfPart
    <3> QED BY <1>1, <1>3, <3>1, <3>2 DEF Ids
  <2>2. ParentClosed(S, A)
    <3> SUFFICES ASSUME NEW i \in A, ~Row(S, i).full, Row(S, i).parent \in Ids(S)
                 PROVE  Row(S, i).parent \in A
      BY DEF ParentClosed
    <3>1. i \in keep /\ i \in Ids(S)
      BY <1>1, <1>3, KeepSetFacts
    <3>2. Row(K, i) = Row(S, i)
      <4>1. Row(S, i) \in S /\ Row(S, i).id = i
        BY <3>1, RowIn
      <4>2. Row(S, i) \in K
        BY <3>1, <4>1
      <4>3. UniqueIds(K)
        BY DEF UniqueIds
      <4> HIDE DEF K
      <4> QED BY <4>1, <4>2, <4>3, RowOf
    <3>3. Row(S, i).parent \in keep
      BY <3>1, KeepSetFacts DEF ParentClosed
    <3> HIDE DEF K
    <3> QED BY <1>1, <1>3, <3>2, <3>3 DEF ParentClosed
  <2>3. A \in SUBSET Ids(S)
    BY <1>1, <1>3, KeepSetFacts
  <2> HIDE DEF K
  <2> QED BY <2>1, <2>2, <2>3, LineageLeast DEF KeepSet, WithAncestors
<1>4. keep \subseteq KeepSet(K, now)
  <2>1. ParentClosed(K, KeepSet(K, now)) /\ KeepSet(K, now) \subseteq Ids(K)
        /\ Ids(EvaluateTiers(K, now)) \subseteq KeepSet(K, now)
    BY KeepSetFacts
  <2> HIDE DEF keep, K
  <2> QED BY <1>3, <2>1
<1> QED BY <1>2, <1>4

\* The newest KeepN are kept.
LEMMA KeepEnough ==
    ASSUME NEW S \in SUBSET Snapshots, UniqueIds(S), NEW now \in Nat,
           \A m \in S : m.at <= now
    PROVE  Cardinality(KeepSet(S, now)) >= KeepN \/ KeepSet(S, now) = Ids(S)
<1>1. \A m \in Newest(S, KeepN) : m.id \in KeepSet(S, now)
  BY KeepSetFacts DEF EvaluateTiers, Ids
<1>2. CASE S = Newest(S, KeepN)
  BY <1>1, <1>2, KeepSetFacts DEF Ids
<1>3. CASE S # Newest(S, KeepN)
  <2> DEFINE old == S \ Newest(S, KeepN)
  <2>1. old # {} /\ old \in SUBSET Snapshots
    BY <1>3 DEF Newest
  <2>2. PICK m \in old : \A n \in old : n.at <= m.at
    BY <2>1, NewestExists
  <2> DEFINE G == {o \in S : o.at > m.at}
  <2>3. G \subseteq Newest(S, KeepN)
    BY <2>2 DEF Snapshots
  <2>4. IsFiniteSet(G) /\ Cardinality(G) \in Nat /\ Cardinality(G) >= KeepN
    <3>1. IsFiniteSet(G)
      BY FiniteRows, FS_Subset
    <3>2. Cardinality(G) \in Nat /\ ~(Cardinality(G) < KeepN)
      BY <3>1, FS_CardinalityType DEF Newest
    <3> QED BY <3>1, <3>2, Bounds
  <2>5. UniqueIds(G) /\ G \in SUBSET Snapshots
    BY DEF UniqueIds
  <2>6. Ids(G) \subseteq KeepSet(S, now)
    BY <1>1, <2>3 DEF Ids
  <2> HIDE DEF G
  <2>7. IsFiniteSet(Ids(G)) /\ Cardinality(G) <= Cardinality(Ids(G))
    BY <2>5, FiniteRows
  <2>8. IsFiniteSet(KeepSet(S, now))
    BY FiniteRows, KeepSetFacts, FS_Subset
  <2>9. Cardinality(Ids(G)) <= Cardinality(KeepSet(S, now))
        /\ Cardinality(Ids(G)) \in Nat /\ Cardinality(KeepSet(S, now)) \in Nat
    BY <2>6, <2>7, <2>8, FS_Subset, FS_CardinalityType
  <2> QED BY <2>4, <2>7, <2>9, Bounds
<1> QED BY <1>2, <1>3

\* Of any index the folder can have, a second pass at the same time prunes
\* nothing that the first one kept, and always_keep_n snapshots are kept.
THEOREM SecondPassPrunesNothing == Spec => []PassSettles
<1>1. Base => PassSettles
  <2> SUFFICES ASSUME Base PROVE PassSettles
    OBVIOUS
  <2>1. rows \in SUBSET Snapshots /\ clock \in Nat
    BY DEF Base, Typed, FolderTyped
  <2>2. rows \subseteq Known
    BY DEF Known
  <2>3. UniqueIds(rows) /\ \A m \in rows : m.at <= clock
    BY <2>2 DEF Base, History, InOrder, UniqueIds
  <2> QED BY <2>1, <2>3, KeepAgain, KeepEnough DEF PassSettles
<1> QED BY <1>1, BaseAlways, PTL

(***************************************************************************)
(* Snapshots that no pass decided to prune.  They stay restorable if no    *)
(* pass and no repair starts beside a backup, a backup needs no blob that  *)
(* only garbage holds, the age gate covers a run and a listing, one sweep  *)
(* runs at a time, and neither a download fails nor the index is lost.     *)
(***************************************************************************)
Undisturbed ==
    /\ Overlap \subseteq {"sweep"}
    /\ ~ReuseOrphans
    /\ {"download", "missing"} \cap Faults = {}
    /\ RunTime <= AgeGate /\ ListTime <= AgeGate
    /\ \A s, t \in Sweepers : s = t

\* Since the last snapshot of the local index, fewer runs failed than
\* snapshots are kept at least.
FewFailures ==
    run.pc = "idle" /\ local.last # NoSnap => counts.made - local.last < KeepN

Uploading == run.pc \in {"blobs", "append", "appendWrite"}
KeptBlobs == UNION {m.blobs : m \in kept}

Alone ==
    /\ run.pc # "idle" => repair.pc = "idle" /\ \A p \in Passes : passes[p].pc = "idle"
    /\ \A p \in Passes : passes[p].pc = "idle" => passes[p].todo = {}

\* The manifests, the index and whatever will be written as the index hold
\* the kept snapshots; no pass is about to delete one.
KeptListed ==
    /\ kept \subseteq manifests
    /\ indexFile = "ok" => kept \subseteq rows
    /\ indexFile = "missing" => kept = {}
    /\ run.pc = "appendWrite" => kept \subseteq run.copy
    /\ run.pc \in {"append", "appendWrite"} => run.snap \subseteq manifests
    /\ repair.pc = "write" => kept \subseteq repair.found
    /\ \A p \in Passes :
           /\ passes[p].pc \in {"rebuild", "removeWrite"} => kept \subseteq passes[p].copy
           /\ passes[p].todo \cap Ids(kept) = {}

HasParent(m) == m.full \/ (m.parent \in Ids(kept) /\ m.parent < m.id)

Parents ==
    /\ \A m \in kept : HasParent(m)
    /\ Uploading => \A m \in run.snap : HasParent(m)

SameLast(index) == index.last = local.last /\ index.full = local.full

\* The local index names a kept snapshot, and so do the indexes that passes
\* will save.
LastKept ==
    /\ local.last \in Ids(kept) \cup {NoSnap}
    /\ local.last = NoSnap => local.full = NoSnap
    /\ run.pc \in {"head", "index", "schedule"} => run.snap \subseteq kept
    /\ \A p \in Passes :
           /\ passes[p].pc \in {"due", "jobStamp"} => passes[p].auto
           /\ passes[p].pc # "idle" /\ passes[p].auto => SameLast(passes[p].job)
           /\ passes[p].pc \notin {"idle", "due", "jobStamp"} => SameLast(passes[p].own)

\* Blobs of kept snapshots are there, and so are those a run has sent.
BlobsThere ==
    /\ KeptBlobs \subseteq DOMAIN blobs
    /\ Uploading =>
           /\ run.started <= clock /\ clock <= run.started + RunTime
           /\ run.sent \subseteq DOMAIN blobs
           /\ \A c \in run.sent : blobs[c] >= run.started
           /\ \A m \in run.snap :
                  /\ run.sent \subseteq m.blobs
                  /\ m.blobs \cap DOMAIN blobs \subseteq run.sent \cup KeptBlobs
                  /\ run.pc # "blobs" => run.sent = m.blobs
    /\ \A c \in DOMAIN blobs : blobs[c] <= clock

InWindow(s, c) == blobs[c] \in sweeps[s].started - AgeGate .. sweeps[s].started + AgeGate

\* A sweep will not delete, or does not plan to, what they hold.
SweepsSpare ==
    \A s \in Sweepers :
        /\ sweeps[s].pc \in {"lock", "read", "list"} =>
               sweeps[s].started <= clock /\ clock <= sweeps[s].started + ListTime
        /\ sweeps[s].pc = "list" =>
               \A c \in KeptBlobs : c \in sweeps[s].refs \/ InWindow(s, c)
        /\ sweeps[s].pc = "delete" =>
               /\ sweeps[s].todo \subseteq DOMAIN blobs
               /\ sweeps[s].todo \cap KeptBlobs = {}
               /\ Uploading => \A m \in run.snap : sweeps[s].todo \cap m.blobs = {}

KInv == Base /\ Alone /\ KeptListed /\ Parents /\ LastKept /\ BlobsThere /\ SweepsSpare

\* A sweep changes nothing but blobs and its lock.
LEMMA SweepFrame ==
    ASSUME NEW s \in Sweepers, SweepStep(s)
    PROVE  UNCHANGED <<clock, manifests, rows, indexFile, head, local, verified, run,
                       passes, repair, recovery, kept>>
BY DEF SweepStep, SweepCommand, WriteLock, ReadReferences, ListContent, DeleteBlob,
       RemoveLock, FailSweep, folder

LEMMA AloneKept ==
    ASSUME Undisturbed, Typed, Alone, Next \/ UNCHANGED vars
    PROVE  Alone'
<1>0. passes \in [Passes -> PassRecords]
  BY DEF Typed, DeviceTyped
<1>1. CASE BackupStep
  <2>1. CASE \E full \in BOOLEAN, needs \in (SUBSET Contents) \ {{}} : StartBackup(full, needs)
    <3>1. {"retention", "repair"} \subseteq {"retention", "sweep", "repair"} \ Overlap
      BY DEF Undisturbed
    <3>2. ~Active("retention") /\ ~Active("repair")
      BY <2>1, <3>1 DEF StartBackup
    <3> QED BY <2>1, <3>2 DEF StartBackup, Active, Alone
  <2>2. CASE ScheduleRetention
    <3>1. run'.pc = "idle"
      BY <2>2 DEF ScheduleRetention, IdleRun
    <3>2. \A p \in Passes : passes'[p].pc = "idle" => passes'[p].todo = {}
      <4>1. [IdlePass EXCEPT !.pc = "due", !.auto = TRUE, !.job = local].pc # "idle"
        BY DEF IdlePass
      <4> QED BY <1>0, <2>2, <4>1 DEF ScheduleRetention, Alone
    <3> QED BY <3>1, <3>2 DEF Alone
  <2>3. CASE \/ \E c \in Contents : UploadBlob(c)
             \/ PutManifest \/ AppendRead \/ AppendWrite \/ PutHead \/ SaveLocalIndex \/ FailRun
    BY <2>3 DEF UploadBlob, PutManifest, AppendRead, AppendWrite, PutHead, SaveLocalIndex,
                FailRun, Alone
  <2> QED BY <1>1, <2>1, <2>2, <2>3 DEF BackupStep
<1>2. ASSUME NEW p \in Passes, PassStep(p) PROVE Alone'
  <2>1. run.pc = "idle" /\ run' = run
    <3>1. run' = run
      BY <1>2 DEF PassStep, RunIfDue, RunNow, ReadAndEvaluate, RebuildRows, DeleteManifest,
           DeleteFails, RemoveRead, RemoveWrite, StampPass, StampJob, FailPass
    <3>2. CASE RunNow(p)
      BY <3>1, <3>2 DEF RunNow, MayStart, Undisturbed
    <3>3. CASE ~RunNow(p)
      <4>1. passes[p].pc # "idle"
        BY <1>2, <3>3 DEF PassStep, RunIfDue, ReadAndEvaluate, RebuildRows, DeleteManifest,
           DeleteFails, RemoveRead, RemoveWrite, StampPass, StampJob, FailPass
      <4> QED BY <3>1, <4>1 DEF Alone
    <3> QED BY <3>2, <3>3
  <2>2. /\ \A q \in Passes \ {p} : passes'[q] = passes[q]
        /\ GoesOn(p) \/ Evaluates(p) \/ WritesRows(p) \/ Deletes(p) \/ Stamps(p)
    BY <1>2, PassEffect
  <2>3. passes'[p].pc = "idle" => passes'[p].todo = {}
    BY <2>2 DEF GoesOn, Evaluates, WritesRows, Deletes, Stamps, After, Ended, IdlePass
  <2> QED BY <2>1, <2>2, <2>3 DEF Alone
<1>3. CASE Stop
  BY <1>3 DEF Stop, Alone, IdleRun, IdlePass
<1>4. CASE RepairIndex
  BY <1>4 DEF RepairIndex, MayStart, Undisturbed, Alone
<1>5. CASE ReadManifests
  BY <1>5 DEF ReadManifests, Alone
<1>6. CASE \E s \in Sweepers : SweepStep(s)
  BY <1>6, SweepFrame DEF Alone
<1>7. CASE \/ ClearGcLock \/ WriteRepaired \/ RecoverRows \/ RecoverHead \/ Tick
           \/ DamageIndexFile \/ UNCHANGED vars
  <2>1. /\ run' = run /\ passes' = passes
        /\ repair' = repair \/ repair' = IdleRepair
    BY <1>7 DEF ClearGcLock, WriteRepaired, RecoverRows, RecoverHead, Tick,
        DamageIndexFile, vars, device
  <2> QED BY <2>1 DEF Alone, IdleRepair
<1> QED BY <1>1, <1>2, <1>3, <1>4, <1>5, <1>6, <1>7 DEF Next

\* What is downloaded are all the manifests.
LEMMA AllDownloaded ==
    ASSUME Undisturbed, Typed, NEW found, Downloaded(found)
    PROVE  found = manifests
BY DownloadType DEF Undisturbed

LEMMA KeptListedInRun ==
    ASSUME Undisturbed, Typed, Alone, KeptListed, BackupStep
    PROVE  KeptListed'
<1>0. run \in Runs /\ passes \in [Passes -> PassRecords]
  BY DEF Typed, DeviceTyped
<1>1. CASE \E full \in BOOLEAN, needs \in (SUBSET Contents) \ {{}} : StartBackup(full, needs)
  <2>1. run'.pc = "blobs"
    BY <1>1 DEF StartBackup, IdleRun
  <2> QED BY <1>1, <2>1 DEF StartBackup, KeptListed, folder
<1>2. CASE \E c \in Contents : UploadBlob(c)
  <2>1. run'.pc = "blobs"
    BY <1>0, <1>2 DEF UploadBlob, Runs
  <2> QED BY <1>2, <2>1 DEF UploadBlob, KeptListed
<1>3. CASE PutManifest
  <2>1. run'.pc = "append" /\ run'.snap = run.snap
    BY <1>0, <1>3 DEF PutManifest, Runs
  <2> QED BY <1>3, <2>1 DEF PutManifest, KeptListed
<1>4. CASE AppendRead
  <2>1. PICK found : /\ run' = [run EXCEPT !.pc = "appendWrite", !.copy = found]
                     /\ indexFile = "ok" => found = rows
                     /\ indexFile = "missing" => found = {}
                     /\ indexFile = "corrupt" => Downloaded(found)
    BY <1>4, AppendReadEffect
  <2>2. kept \subseteq found
    <3>1. indexFile = "corrupt" => found = manifests
      BY <2>1, AllDownloaded
    <3> QED BY <2>1, <3>1 DEF KeptListed, Typed, FolderTyped
  <2>3. run'.pc = "appendWrite" /\ run'.copy = found /\ run'.snap = run.snap
    BY <1>0, <2>1 DEF Runs
  <2>4. run.snap \subseteq manifests
    BY <1>4 DEF AppendRead, KeptListed
  <2> QED BY <1>4, <2>2, <2>3, <2>4 DEF AppendRead, KeptListed, folder
<1>5. CASE AppendWrite
  <2>1. run'.pc = "head" /\ run.pc = "appendWrite" /\ run.pc # "idle"
    BY <1>0, <1>5 DEF AppendWrite, Runs
  <2>2. repair.pc = "idle" /\ \A p \in Passes : passes[p].pc = "idle" /\ passes[p].todo = {}
    BY <2>1 DEF Alone
  <2>3. kept' \subseteq manifests /\ kept' \subseteq rows'
    BY <1>5, <2>1 DEF AppendWrite, KeptListed
  <2> QED BY <1>5, <2>1, <2>2, <2>3 DEF AppendWrite, KeptListed
<1>6. CASE PutHead \/ SaveLocalIndex \/ FailRun
  <2>1. run'.pc \in {"index", "schedule", "idle"}
    BY <1>0, <1>6 DEF PutHead, SaveLocalIndex, FailRun, Runs, IdleRun
  <2> QED BY <1>6, <2>1 DEF PutHead, SaveLocalIndex, FailRun, KeptListed, folder
<1>7. CASE ScheduleRetention
  <2>1. run'.pc = "idle"
    BY <1>7 DEF ScheduleRetention, IdleRun
  <2>2. \A p \in Passes : passes'[p] = passes[p] \/ (passes'[p].pc = "due" /\ passes'[p].todo = {})
    <3>1. /\ [IdlePass EXCEPT !.pc = "due", !.auto = TRUE, !.job = local].pc = "due"
          /\ [IdlePass EXCEPT !.pc = "due", !.auto = TRUE, !.job = local].todo = {}
      BY DEF IdlePass
    <3> QED BY <1>0, <1>7, <3>1 DEF ScheduleRetention
  <2> QED BY <1>7, <2>1, <2>2 DEF ScheduleRetention, KeptListed, folder
<1> QED BY <1>1, <1>2, <1>3, <1>4, <1>5, <1>6, <1>7 DEF BackupStep

LEMMA KeptListedInPass ==
    ASSUME Undisturbed, Typed, Alone, KeptListed, NEW p \in Passes, PassStep(p)
    PROVE  KeptListed'
<1>1. /\ UNCHANGED <<run, repair>>
      /\ \A q \in Passes \ {p} : passes'[q] = passes[q]
  BY PassEffect
<1>2. CASE GoesOn(p)
  <2>1. UNCHANGED <<manifests, rows, indexFile, kept, local>>
    BY <1>2 DEF GoesOn
  <2>2. passes'[p].todo \cap Ids(kept) = {}
    BY <1>2 DEF GoesOn, After, Ended, IdlePass, KeptListed
  <2>3. passes'[p].pc \in {"rebuild", "removeWrite"} => kept \subseteq passes'[p].copy
    <3>1. CASE passes'[p].pc = "rebuild"
      <4>1. Downloaded(passes'[p].copy)
        BY <1>2, <3>1 DEF GoesOn, After, Ended, IdlePass
      <4>2. passes'[p].copy = manifests
        BY <4>1, AllDownloaded
      <4> QED BY <4>2 DEF KeptListed
    <3>2. CASE passes'[p].pc = "removeWrite"
      <4>1. /\ passes[p].pc = "removeRead" /\ indexFile = "ok"
            /\ passes'[p].copy = {m \in rows : m.id # passes[p].id}
        BY <1>2, <3>2 DEF GoesOn, After, Ended, IdlePass
      <4>2. passes[p].id \in passes[p].todo
        BY <4>1 DEF Typed, DeviceTyped
      <4> QED BY <4>1, <4>2 DEF KeptListed, Ids
    <3> QED BY <3>1, <3>2
  <2> QED BY <1>1, <2>1, <2>2, <2>3 DEF KeptListed
<1>3. CASE Evaluates(p)
  <2> DEFINE prune == Ids(rows) \ KeepSet(rows, passes[p].started)
  <2>1. /\ passes'[p].pc = "delete" /\ passes'[p].todo = prune
        /\ kept' = {m \in kept : m.id \notin prune}
        /\ UNCHANGED <<manifests, rows, indexFile, local>>
    BY <1>3 DEF Evaluates, After
  <2> HIDE DEF prune
  <2>2. kept' \subseteq kept /\ Ids(kept') \subseteq Ids(kept) /\ prune \cap Ids(kept') = {}
    BY <2>1 DEF Ids
  <2> QED BY <1>1, <2>1, <2>2 DEF KeptListed
<1>4. CASE WritesRows(p)
  <2>1. kept \subseteq passes[p].copy
    BY <1>4 DEF WritesRows, KeptListed
  <2>2. passes'[p].pc \in {"read", "delete"} /\ passes'[p].todo \subseteq passes[p].todo
    BY <1>4 DEF WritesRows, After
  <2> QED BY <1>1, <1>4, <2>1, <2>2 DEF WritesRows, KeptListed
<1>5. CASE Deletes(p)
  <2>1. PICK id \in passes[p].todo : manifests' \in {manifests, {m \in manifests : m.id # id}}
    BY <1>5 DEF Deletes
  <2>2. kept \subseteq manifests'
    BY <2>1 DEF KeptListed, Ids
  <2>3. passes'[p].pc \in {"removeRead", "delete"} /\ passes'[p].todo \subseteq passes[p].todo
    BY <1>5 DEF Deletes, After
  <2>4. run.pc = "idle"
    BY <1>5 DEF Deletes, Alone
  <2> QED BY <1>1, <1>5, <2>2, <2>3, <2>4 DEF Deletes, KeptListed
<1>6. CASE Stamps(p)
  <2>1. passes'[p].pc \in {"jobStamp", "idle"} /\ passes'[p].todo = {}
    BY <1>6 DEF Stamps, After, Ended, IdlePass
  <2> QED BY <1>1, <1>6, <2>1 DEF Stamps, KeptListed
<1> QED BY <1>2, <1>3, <1>4, <1>5, <1>6, PassEffect

LEMMA KeptListedElsewhere ==
    ASSUME Undisturbed, Typed, Alone, KeptListed,
           \/ \E s \in Sweepers : SweepStep(s)
           \/ ClearGcLock \/ RepairIndex \/ ReadManifests \/ WriteRepaired
           \/ RecoverRows \/ RecoverHead \/ Tick \/ Stop \/ DamageIndexFile
           \/ UNCHANGED vars
    PROVE  KeptListed'
<1>1. CASE \E s \in Sweepers : SweepStep(s)
  BY <1>1, SweepFrame DEF KeptListed
<1>2. CASE ClearGcLock \/ RecoverHead \/ Tick \/ UNCHANGED vars
  BY <1>2 DEF ClearGcLock, RecoverHead, Tick, vars, folder, device, KeptListed
<1>3. CASE RepairIndex
  BY <1>3 DEF RepairIndex, folder, KeptListed, Typed, DeviceTyped, Fetches
<1>4. CASE ReadManifests
  <2>1. PICK found : Downloaded(found) /\ repair' = [pc |-> "write", found |-> found]
    BY <1>4 DEF ReadManifests
  <2>2. repair'.found = manifests
    BY <2>1, AllDownloaded
  <2> QED BY <1>4, <2>2 DEF ReadManifests, folder, KeptListed
<1>5. CASE WriteRepaired
  BY <1>5 DEF WriteRepaired, IdleRepair, KeptListed
<1>6. CASE RecoverRows
  <2>1. UNCHANGED <<rows, indexFile>> \/ (rows' = manifests /\ indexFile' = "ok")
    BY <1>6, AllDownloaded DEF RecoverRows
  <2> QED BY <1>6, <2>1 DEF RecoverRows, KeptListed
<1>7. CASE Stop
  BY <1>7 DEF Stop, folder, IdleRun, IdlePass, IdleRepair, KeptListed
<1>8. CASE DamageIndexFile
  <2>1. indexFile' = "corrupt"
    BY <1>8, FaultType DEF DamageIndexFile, Undisturbed
  <2> QED BY <1>8, <2>1 DEF DamageIndexFile, device, KeptListed
<1> QED BY <1>1, <1>2, <1>3, <1>4, <1>5, <1>6, <1>7, <1>8

\* How a run goes on.
RunTo(from, to) ==
    /\ run.pc = from /\ run'.pc = to
    /\ run'.snap = run.snap /\ run'.started = run.started

LEMMA RunSteps ==
    ASSUME Typed
    PROVE  /\ \A c \in Contents : UploadBlob(c) =>
                  RunTo("blobs", "blobs") /\ run'.sent = run.sent \cup {c}
           /\ PutManifest => RunTo("blobs", "append") /\ run'.sent = run.sent
           /\ AppendRead => RunTo("append", "appendWrite") /\ run'.sent = run.sent
           /\ AppendWrite => RunTo("appendWrite", "head")
           /\ PutHead => RunTo("head", "index")
           /\ SaveLocalIndex => RunTo("index", "schedule")
           /\ ScheduleRetention \/ FailRun => run' = IdleRun
<1>0. run \in Runs
  BY DEF Typed, DeviceTyped
<1>1. \A c \in Contents : UploadBlob(c) =>
          RunTo("blobs", "blobs") /\ run'.sent = run.sent \cup {c}
  BY <1>0 DEF UploadBlob, Runs, RunTo
<1>2. AppendRead => RunTo("append", "appendWrite") /\ run'.sent = run.sent
  <2> SUFFICES ASSUME AppendRead PROVE RunTo("append", "appendWrite") /\ run'.sent = run.sent
    OBVIOUS
  <2>1. PICK found : run' = [run EXCEPT !.pc = "appendWrite", !.copy = found]
    BY AppendReadEffect
  <2>2. run.pc = "append"
    BY DEF AppendRead
  <2> QED BY <1>0, <2>1, <2>2 DEF Runs, RunTo
<1>3. PutManifest => RunTo("blobs", "append") /\ run'.sent = run.sent
  BY <1>0 DEF PutManifest, Runs, RunTo
<1>4. /\ AppendWrite => RunTo("appendWrite", "head")
      /\ PutHead => RunTo("head", "index")
      /\ SaveLocalIndex => RunTo("index", "schedule")
  BY <1>0 DEF AppendWrite, PutHead, SaveLocalIndex, Runs, RunTo
<1>5. ScheduleRetention \/ FailRun => run' = IdleRun
  BY DEF ScheduleRetention, FailRun
<1> QED BY <1>1, <1>2, <1>3, <1>4, <1>5

\* Fewer than KeepN snapshots are newer than the last one of the local
\* index, so it is one of the newest KeepN.
LEMMA NewestKept ==
    ASSUME NEW S \in SUBSET Snapshots, InOrder(S), NEW made \in Nat,
           \A o \in S : o.id <= made, NEW m \in S, made - m.id < KeepN
    PROVE  m \in Newest(S, KeepN)
<1> DEFINE G == {o \in S : o.at > m.at}
           f == [o \in G |-> o.id]
<1>0. \A o \in S : o.id \in Nat /\ o.at \in Nat
  BY DEF Snapshots, SnapIds
<1>1. \A o \in G : o.id \in (m.id + 1)..made
  BY <1>0 DEF InOrder
<1>2. f \in [G -> (m.id + 1)..made]
  BY <1>1
<1>3. \A a, b \in G : f[a] = f[b] => a = b
  BY DEF InOrder
<1>4. /\ IsFiniteSet((m.id + 1)..made)
      /\ Cardinality((m.id + 1)..made) = IF m.id + 1 > made THEN 0 ELSE made - (m.id + 1) + 1
  <2>1. m.id + 1 \in Int /\ made \in Int
    BY <1>0
  <2> QED BY <2>1, FS_Interval
<1>5. f \in Injection(G, (m.id + 1)..made)
  <2> HIDE DEF f, G
  <2> QED BY <1>2, <1>3, Fun_IsInj
<1>6. Cardinality(G) <= Cardinality((m.id + 1)..made) /\ IsFiniteSet(G)
  <2> HIDE DEF f, G
  <2> QED BY <1>4, <1>5, FS_Injection
<1>7. Cardinality(G) \in Nat
  BY <1>6, FS_CardinalityType
<1>8. Cardinality(G) < KeepN
  <2> HIDE DEF f, G
  <2> QED BY <1>0, <1>4, <1>6, <1>7, Bounds
<1> QED BY <1>8 DEF Newest

\* What a pass keeps of the rows it keeps of the kept snapshots.
LEMMA EvaluatedKept ==
    ASSUME Base, Alone, KeptListed, NEW p \in Passes, Evaluates(p)
    PROVE  /\ run.pc = "idle"
           /\ kept \subseteq rows
           /\ kept' = {m \in kept : m.id \in KeepSet(rows, passes[p].started)}
           /\ UniqueIds(rows) /\ InOrder(rows) /\ rows \in SUBSET Snapshots
           /\ \A m \in rows : m.id <= counts.made
<1>1. run.pc = "idle" /\ kept \subseteq rows
  BY DEF Evaluates, Alone, KeptListed
<1>2. rows \subseteq Known
  BY DEF Known
<1>3. UniqueIds(rows) /\ InOrder(rows) /\ \A m \in rows : m.id <= counts.made
  BY <1>2 DEF Base, History, InOrder, UniqueIds
<1>4. kept' = {m \in kept : m.id \in KeepSet(rows, passes[p].started)}
  BY <1>1 DEF Evaluates, Ids
<1> QED BY <1>1, <1>3, <1>4 DEF Base, Typed, FolderTyped

LEMMA ParentsKept ==
    ASSUME Undisturbed, Base, Alone, KeptListed, LastKept, Parents, Next \/ UNCHANGED vars
    PROVE  Parents'
<1>0. run \in Runs /\ kept \subseteq Snapshots /\ counts.made \in Nat
      /\ local \in LocalIndexes
  BY DEF Base, Typed, DeviceTyped
<1>1. ASSUME NEW full \in BOOLEAN, NEW needs \in SUBSET Contents, StartBackup(full, needs)
      PROVE  Parents'
  <2>1. PICK snap \in Snapshots :
            /\ run' = [IdleRun EXCEPT !.pc = "blobs", !.snap = {snap}, !.started = clock]
            /\ snap.id = counts.made + 1
            /\ snap.full \/ (snap.parent = local.last /\ local.full # NoSnap)
    BY <1>1, StartEffect DEF Base
  <2>2. run'.snap = {snap} /\ kept' = kept
    BY <1>1, <2>1 DEF StartBackup, IdleRun
  <2>3. kept \subseteq Known
    BY DEF Known
  <2>4. \A m \in kept : m.id \in Nat /\ m.id <= counts.made
    BY <1>0, <2>3 DEF Base, History, Snapshots, SnapIds
  <2>5. HasParent(snap)
    <3>1. CASE ~snap.full
      <4>1. snap.parent \in Ids(kept)
        BY <2>1, <3>1 DEF LastKept
      <4>2. PICK m \in kept : m.id = snap.parent
        BY <4>1 DEF Ids
      <4> QED BY <1>0, <2>1, <2>4, <4>1, <4>2 DEF HasParent
    <3> QED BY <3>1 DEF HasParent
  <2> QED BY <2>2, <2>5 DEF Parents, HasParent
<1>2. CASE AppendWrite
  <2>1. run'.pc = "head" /\ Uploading /\ kept' = kept \cup run.snap
    BY <1>0, <1>2 DEF AppendWrite, Runs, Uploading
  <2>2. Ids(kept) \subseteq Ids(kept')
    BY <2>1 DEF Ids
  <2> QED BY <2>1, <2>2 DEF Parents, HasParent, Uploading
<1>3. ASSUME NEW p \in Passes, Evaluates(p), run' = run PROVE Parents'
  <2> DEFINE keep == KeepSet(rows, passes[p].started)
  <2>1. /\ run.pc = "idle" /\ kept \subseteq rows /\ UniqueIds(rows)
        /\ kept' = {m \in kept : m.id \in keep}
    BY <1>3, EvaluatedKept
  <2>2. ParentClosed(rows, keep)
    BY KeepSetFacts
  <2> HIDE DEF keep
  <2>3. ASSUME NEW m \in kept', ~m.full PROVE m.parent \in Ids(kept') /\ m.parent < m.id
    <3>1. m \in kept /\ m.id \in keep /\ m.parent \in Ids(kept) /\ m.parent < m.id
      BY <2>1, <2>3 DEF Parents, HasParent
    <3>2. PICK n \in kept : n.id = m.parent
      BY <3>1 DEF Ids
    <3>3. Row(rows, m.id) = m /\ m.parent \in Ids(rows)
      BY <2>1, <3>1, <3>2, RowOf DEF Ids
    <3>4. m.parent \in keep
      BY <2>2, <2>3, <3>1, <3>3 DEF ParentClosed
    <3>5. n \in kept'
      BY <2>1, <3>2, <3>4
    <3> QED BY <3>1, <3>2, <3>5 DEF Ids
  <2> QED BY <1>3, <2>1, <2>3 DEF Parents, HasParent, Uploading
<1>4. ASSUME NEW p \in Passes, PassStep(p) PROVE Parents'
  <2>1. run' = run
    BY <1>4, PassEffect DEF Base
  <2>2. kept' = kept \/ Evaluates(p)
    BY <1>4, PassEffect DEF Base, GoesOn, WritesRows, Deletes, Stamps
  <2> QED BY <1>3, <2>1, <2>2 DEF Parents, HasParent, Uploading
<1>5. CASE \E s \in Sweepers : SweepStep(s)
  BY <1>5, SweepFrame DEF Parents, HasParent, Uploading
<1>6. CASE \/ \E c \in Contents : UploadBlob(c)
           \/ PutManifest \/ AppendRead \/ PutHead \/ SaveLocalIndex
           \/ ScheduleRetention \/ FailRun
  <2>1. kept' = kept
    BY <1>6 DEF UploadBlob, PutManifest, AppendRead, PutHead, SaveLocalIndex,
        ScheduleRetention, FailRun
  <2>2. run'.pc \in {"index", "schedule", "idle"} \/ (Uploading /\ run'.snap = run.snap)
    BY <1>6, RunSteps DEF RunTo, IdleRun, Uploading, Base
  <2> QED BY <2>1, <2>2 DEF Parents, HasParent, Uploading
<1>7. CASE \/ ClearGcLock \/ RepairIndex \/ ReadManifests \/ WriteRepaired \/ RecoverRows
           \/ RecoverHead \/ Tick \/ Stop \/ DamageIndexFile \/ UNCHANGED vars
  <2>1. kept' = kept /\ (run' = run \/ run' = IdleRun)
    BY <1>7 DEF ClearGcLock, RepairIndex, ReadManifests, WriteRepaired, RecoverRows,
        RecoverHead, Tick, Stop, DamageIndexFile, vars, device
  <2> QED BY <2>1 DEF Parents, HasParent, Uploading, IdleRun
<1> QED BY <1>1, <1>2, <1>4, <1>5, <1>6, <1>7 DEF Next, BackupStep

LEMMA LastKeptInRun ==
    ASSUME Undisturbed, Base, Alone, LastKept, BackupStep
    PROVE  LastKept'
<1>0. /\ run \in Runs /\ passes \in [Passes -> PassRecords] /\ local \in LocalIndexes
      /\ \A p \in Passes : run.pc # "idle" => passes[p].pc = "idle"
  BY DEF Base, Typed, DeviceTyped, Alone
<1>1. CASE \E full \in BOOLEAN, needs \in (SUBSET Contents) \ {{}} : StartBackup(full, needs)
  <2>1. run'.pc = "blobs"
    BY <1>1 DEF StartBackup, IdleRun
  <2> QED BY <1>1, <2>1 DEF StartBackup, LastKept, SameLast
<1>2. CASE AppendWrite
  <2>1. Ids(kept) \subseteq Ids(kept') /\ run'.snap \subseteq kept' /\ UNCHANGED <<local, passes>>
    BY <1>2, RunSteps DEF AppendWrite, RunTo, Ids, Base
  <2> QED BY <2>1 DEF LastKept, SameLast
<1>3. CASE SaveLocalIndex
  <2>1. run.pc = "index" /\ run'.snap = run.snap /\ UNCHANGED <<kept, passes>>
    BY <1>3, RunSteps DEF SaveLocalIndex, RunTo, Base
  <2>2. PICK m \in Snapshots : run.snap = {m} /\ TheSnap = m
    BY <2>1 DEF TheSnap, Base, Typed, DeviceTyped
  <2>3. m \in kept /\ m.id # NoSnap
    BY <2>1, <2>2 DEF LastKept, Snapshots, SnapIds
  <2>4. local'.last = m.id
    BY <1>0, <1>3, <2>2 DEF SaveLocalIndex, LocalIndexes
  <2>5. \A p \in Passes : passes'[p].pc = "idle"
    BY <1>0, <2>1
  <2> QED BY <2>1, <2>2, <2>3, <2>4, <2>5 DEF LastKept, Ids
<1>4. CASE ScheduleRetention
  <2>1. run'.pc = "idle" /\ UNCHANGED <<kept, local>>
    BY <1>4 DEF ScheduleRetention, IdleRun
  <2>2. \A p \in Passes :
            \/ passes'[p] = passes[p]
            \/ passes'[p].pc = "due" /\ passes'[p].auto /\ passes'[p].job = local
    <3> DEFINE posted == [IdlePass EXCEPT !.pc = "due", !.auto = TRUE, !.job = local]
    <3>1. posted.pc = "due" /\ posted.auto /\ posted.job = local
      BY DEF IdlePass
    <3>2. \A p \in Passes : passes'[p] = passes[p] \/ passes'[p] = posted
      BY <1>0, <1>4 DEF ScheduleRetention
    <3> HIDE DEF posted
    <3> QED BY <3>1, <3>2
  <2> QED BY <2>1, <2>2 DEF LastKept, SameLast
<1>5. CASE \/ \E c \in Contents : UploadBlob(c)
           \/ PutManifest \/ AppendRead \/ PutHead \/ FailRun
  <2>1. UNCHANGED <<kept, passes, local>>
    BY <1>5 DEF UploadBlob, PutManifest, AppendRead, PutHead, FailRun
  <2>2. run'.pc \in {"head", "index", "schedule"} =>
            run.pc \in {"head", "index", "schedule"} /\ run'.snap = run.snap
    BY <1>5, RunSteps DEF RunTo, IdleRun, Base
  <2> QED BY <2>1, <2>2 DEF LastKept, SameLast
<1> QED BY <1>1, <1>2, <1>3, <1>4, <1>5 DEF BackupStep

LEMMA LastKeptInPass ==
    ASSUME Undisturbed, Base, Alone, KeptListed, LastKept, FewFailures,
           NEW p \in Passes, PassStep(p)
    PROVE  LastKept'
<1>0. /\ passes \in [Passes -> PassRecords] /\ local \in LocalIndexes
      /\ passes[p] \in PassRecords
  BY DEF Base, Typed, DeviceTyped
<1>1. run' = run /\ \A q \in Passes \ {p} : passes'[q] = passes[q]
  BY PassEffect DEF Base
<1>2. CASE GoesOn(p)
  <2>1. UNCHANGED <<kept, local>>
    BY <1>2 DEF GoesOn
  <2>2. /\ passes'[p].pc \in {"due", "jobStamp"} => passes'[p].auto
        /\ passes'[p].pc # "idle" /\ passes'[p].auto => SameLast(passes'[p].job)
        /\ passes'[p].pc \notin {"idle", "due", "jobStamp"} => SameLast(passes'[p].own)
    BY <1>2 DEF GoesOn, After, Ended, IdlePass, LastKept, SameLast
  <2> QED BY <1>1, <2>1, <2>2 DEF LastKept, SameLast
<1>3. CASE Evaluates(p)
  <2>1. local' = local /\ passes'[p].pc = "delete" /\ passes[p].pc = "read"
        /\ passes'[p].auto = passes[p].auto /\ passes'[p].job = passes[p].job
        /\ passes'[p].own = passes[p].own
    BY <1>3 DEF Evaluates, After
  <2>2. /\ run.pc = "idle" /\ kept \subseteq rows /\ InOrder(rows)
        /\ kept' = {m \in kept : m.id \in KeepSet(rows, passes[p].started)}
        /\ rows \in SUBSET Snapshots /\ \A m \in rows : m.id <= counts.made
    BY <1>3, EvaluatedKept
  <2>3. local.last \in Ids(kept') \cup {NoSnap}
    <3> SUFFICES ASSUME local.last # NoSnap PROVE local.last \in Ids(kept')
      OBVIOUS
    <3>1. PICK m \in kept : m.id = local.last
      BY DEF LastKept, Ids
    <3>2. counts.made - m.id < KeepN /\ counts.made \in Nat
      BY <2>2, <3>1 DEF FewFailures, Base, Typed
    <3>3. m \in Newest(rows, KeepN)
      BY <2>2, <3>1, <3>2, NewestKept
    <3>4. m.id \in KeepSet(rows, passes[p].started)
      BY <3>3, KeepSetFacts DEF EvaluateTiers, Ids
    <3> QED BY <2>2, <3>1, <3>4 DEF Ids
  <2> QED BY <1>1, <2>1, <2>2, <2>3 DEF LastKept, SameLast
<1>4. CASE WritesRows(p) \/ Deletes(p)
  <2>1. UNCHANGED <<kept, local>> /\ passes[p].pc \in {"rebuild", "removeWrite", "delete"}
    BY <1>4 DEF WritesRows, Deletes
  <2>2. /\ passes'[p].pc \in {"read", "delete", "removeRead"}
        /\ passes'[p].auto = passes[p].auto /\ passes'[p].job = passes[p].job
        /\ passes'[p].own = passes[p].own
    BY <1>4 DEF WritesRows, Deletes, After
  <2> QED BY <1>1, <2>1, <2>2 DEF LastKept, SameLast
<1>5. CASE Stamps(p)
  <2>1. kept' = kept
    BY <1>5 DEF Stamps
  <2>2. local'.last = local.last /\ local'.full = local.full
    <3>1. PICK index \in {passes[p].own, passes[p].job}, at \in {passes[p].started, clock} :
              local' = [index EXCEPT !.retention = at] /\ SameLast(index)
      BY <1>5 DEF Stamps, LastKept
    <3>2. index \in LocalIndexes
      BY <1>0, <3>1 DEF PassRecords
    <3> QED BY <3>1, <3>2 DEF LocalIndexes, SameLast
  <2>3. \/ passes'[p].pc = "idle"
        \/ /\ passes'[p].pc = "jobStamp" /\ passes[p].auto /\ passes[p].pc # "idle"
           /\ passes'[p].auto = passes[p].auto /\ passes'[p].job = passes[p].job
    BY <1>5 DEF Stamps, After, Ended, IdlePass
  <2> QED BY <1>1, <2>1, <2>2, <2>3 DEF LastKept, SameLast
<1> QED BY <1>2, <1>3, <1>4, <1>5, PassEffect DEF Base

LEMMA LastKeptElsewhere ==
    ASSUME LastKept,
           \/ \E s \in Sweepers : SweepStep(s)
           \/ ClearGcLock \/ RepairIndex \/ ReadManifests \/ WriteRepaired
           \/ RecoverRows \/ RecoverHead \/ Tick \/ Stop \/ DamageIndexFile
           \/ UNCHANGED vars
    PROVE  LastKept'
<1>1. CASE \E s \in Sweepers : SweepStep(s)
  BY <1>1, SweepFrame DEF LastKept, SameLast
<1>2. CASE \/ ClearGcLock \/ RepairIndex \/ ReadManifests \/ WriteRepaired
           \/ RecoverRows \/ RecoverHead \/ Tick \/ DamageIndexFile \/ UNCHANGED vars
  <2>1. UNCHANGED <<kept, local, run, passes>>
    BY <1>2 DEF ClearGcLock, RepairIndex, ReadManifests, WriteRepaired, RecoverRows, RecoverHead,
        Tick, DamageIndexFile, vars, device
  <2> QED BY <2>1 DEF LastKept, SameLast
<1>3. CASE Stop
  BY <1>3 DEF Stop, IdleRun, IdlePass, LastKept
<1> QED BY <1>1, <1>2, <1>3

\* What a step of a sweep changes, field by field.
LooksOn(s) ==
    /\ blobs' = blobs
    /\ \/ sweeps'[s] = sweeps[s]
       \/ sweeps'[s].pc = "lock" /\ sweeps'[s].started = clock
       \/ sweeps'[s].pc \in {"idle", "unlock"}
       \/ /\ sweeps[s].pc = "lock" /\ sweeps'[s].pc = "read"
          /\ sweeps'[s].started = sweeps[s].started

Refers(s) ==
    /\ blobs' = blobs /\ sweeps[s].pc = "read" /\ indexFile = "ok"
    /\ sweeps'[s].pc = "list" /\ sweeps'[s].started = sweeps[s].started
    /\ sweeps'[s].refs = UNION {m.blobs : m \in rows}

Lists(s) ==
    /\ blobs' = blobs /\ sweeps[s].pc = "list" /\ sweeps'[s].pc = "delete"
    /\ sweeps'[s].todo = {c \in DOMAIN blobs \ sweeps[s].refs : ~InWindow(s, c)}

Removes(s) ==
    /\ sweeps[s].pc = "delete" /\ sweeps'[s].pc = "delete"
    /\ \E c \in sweeps[s].todo :
           /\ sweeps'[s].todo = sweeps[s].todo \ {c}
           /\ \/ blobs' = blobs
              \/ blobs' = [x \in DOMAIN blobs \ {c} |-> blobs[x]]

LEMMA SweepEffect ==
    ASSUME Typed, NEW s \in Sweepers, SweepStep(s)
    PROVE  LooksOn(s) \/ Refers(s) \/ Lists(s) \/ Removes(s)
<1>0. sweeps \in [Sweepers -> SweepRecords] /\ sweeps[s] \in SweepRecords
  BY DEF Typed, DeviceTyped
<1>1. \A new : sweeps' = [sweeps EXCEPT ![s] = new] => sweeps'[s] = new
  BY <1>0
<1>2. CASE SweepCommand(s)
  <2>1. sweeps' = sweeps \/ sweeps'[s] = [IdleSweep EXCEPT !.pc = "lock", !.started = clock]
    BY <1>1, <1>2 DEF SweepCommand, CheckLock, StartSweep
  <2>2. /\ [IdleSweep EXCEPT !.pc = "lock", !.started = clock].pc = "lock"
        /\ [IdleSweep EXCEPT !.pc = "lock", !.started = clock].started = clock
    BY DEF IdleSweep
  <2>3. blobs' = blobs
    BY <1>2 DEF SweepCommand, folder
  <2>4. \/ sweeps'[s] = sweeps[s]
        \/ sweeps'[s].pc = "lock" /\ sweeps'[s].started = clock
    BY <2>1, <2>2
  <2> QED BY <2>3, <2>4 DEF LooksOn
<1>3. CASE WriteLock(s)
  <2>1. sweeps'[s] = IdleSweep \/ sweeps'[s] = [sweeps[s] EXCEPT !.pc = "read"]
    BY <1>0, <1>3 DEF WriteLock
  <2>2. sweeps[s].pc = "lock" /\ blobs' = blobs
    BY <1>3 DEF WriteLock
  <2>3. [sweeps[s] EXCEPT !.pc = "read"].pc = "read"
        /\ [sweeps[s] EXCEPT !.pc = "read"].started = sweeps[s].started
        /\ IdleSweep.pc = "idle"
    BY <1>0 DEF SweepRecords, IdleSweep
  <2> QED BY <2>1, <2>2, <2>3 DEF LooksOn
<1>4. CASE ReadReferences(s)
  <2> DEFINE refs == UNION {m.blobs : m \in rows}
  <2>1. \/ indexFile = "ok" /\ sweeps'[s] = [sweeps[s] EXCEPT !.pc = "list", !.refs = refs]
        \/ sweeps'[s] = [sweeps[s] EXCEPT !.pc = "unlock"]
    BY <1>0, <1>4 DEF ReadReferences
  <2>2. sweeps[s].pc = "read" /\ blobs' = blobs
    BY <1>4 DEF ReadReferences, folder
  <2>3. \A x : /\ [sweeps[s] EXCEPT !.pc = "list", !.refs = x].pc = "list"
               /\ [sweeps[s] EXCEPT !.pc = "list", !.refs = x].refs = x
               /\ [sweeps[s] EXCEPT !.pc = "list", !.refs = x].started = sweeps[s].started
               /\ [sweeps[s] EXCEPT !.pc = "unlock"].pc = "unlock"
    BY <1>0 DEF SweepRecords
  <2>4. CASE indexFile = "ok" /\ sweeps'[s] = [sweeps[s] EXCEPT !.pc = "list", !.refs = refs]
    <3> HIDE DEF refs
    <3>1. /\ sweeps'[s].pc = "list" /\ sweeps'[s].started = sweeps[s].started
          /\ sweeps'[s].refs = refs
      BY <2>3, <2>4
    <3> QED BY <2>2, <2>4, <3>1 DEF Refers, refs
  <2>5. CASE sweeps'[s] = [sweeps[s] EXCEPT !.pc = "unlock"]
    BY <2>2, <2>3, <2>5 DEF LooksOn
  <2> QED BY <2>1, <2>4, <2>5
<1>5. CASE ListContent(s)
  <2>1. /\ sweeps'[s].pc = "delete"
        /\ sweeps'[s].todo =
               {c \in DOMAIN blobs \ sweeps[s].refs :
                   blobs[c] \notin sweeps[s].started - AgeGate .. sweeps[s].started + AgeGate}
    BY <1>0, <1>5 DEF ListContent, SweepRecords
  <2> QED BY <1>5, <2>1 DEF ListContent, Lists, InWindow, folder
<1>6. ASSUME NEW c \in Contents, DeleteBlob(s, c) PROVE Removes(s)
  <2>1. sweeps'[s].pc = "delete" /\ sweeps'[s].todo = sweeps[s].todo \ {c}
    BY <1>0, <1>6 DEF DeleteBlob, SweepRecords
  <2> QED BY <1>6, <2>1 DEF DeleteBlob, Removes
<1>7. CASE RemoveLock(s)
  <2>1. sweeps'[s].pc = "idle" /\ blobs' = blobs
    BY <1>0, <1>7 DEF RemoveLock, IdleSweep
  <2> QED BY <2>1 DEF LooksOn
<1>8. CASE FailSweep(s)
  <2>1. sweeps'[s].pc = "unlock" /\ blobs' = blobs
    BY <1>0, <1>8 DEF FailSweep, SweepRecords, folder
  <2> QED BY <2>1 DEF LooksOn
<1> QED BY <1>2, <1>3, <1>4, <1>5, <1>6, <1>7, <1>8 DEF SweepStep

LEMMA BlobsInRun ==
    ASSUME Undisturbed, Base, BlobsThere, BackupStep
    PROVE  BlobsThere'
<1>0. /\ run \in Runs /\ clock \in Nat /\ blobs \in [DOMAIN blobs -> Nat]
      /\ run.pc # "idle" => \E m \in Snapshots : run.snap = {m} /\ TheSnap = m
      /\ RunTime \in Nat
  BY Bounds DEF Base, Typed, DeviceTyped, FolderTyped, TheSnap
<1>1. ASSUME NEW full \in BOOLEAN, NEW needs \in SUBSET Contents, StartBackup(full, needs)
      PROVE  BlobsThere'
  <2>1. PICK snap \in Snapshots :
            /\ run' = [IdleRun EXCEPT !.pc = "blobs", !.snap = {snap}, !.started = clock]
            /\ snap.blobs = needs
    BY <1>1, StartEffect DEF Base
  <2>2. /\ run'.snap = {snap} /\ run'.sent = {} /\ run'.started = clock /\ run'.pc = "blobs"
        /\ UNCHANGED <<kept, blobs, clock>>
    BY <1>1, <2>1 DEF StartBackup, IdleRun, folder
  <2>3. needs \cap DOMAIN blobs \subseteq KeptBlobs
    BY <1>1 DEF StartBackup, KeptBlobs, Undisturbed
  <2> QED BY <1>0, <2>1, <2>2, <2>3 DEF BlobsThere, KeptBlobs, Uploading
<1>2. ASSUME NEW c \in Contents, UploadBlob(c) PROVE BlobsThere'
  <2>1. /\ run.pc = "blobs" /\ run'.pc = "blobs" /\ run'.snap = run.snap
        /\ run'.started = run.started /\ run'.sent = run.sent \cup {c}
        /\ UNCHANGED <<kept, clock>>
    BY <1>2, RunSteps DEF UploadBlob, RunTo, Base
  <2>2. DOMAIN blobs' = DOMAIN blobs \cup {c} /\ blobs'[c] = clock
        /\ \A x \in DOMAIN blobs \ {c} : blobs'[x] = blobs[x]
    BY <1>2 DEF UploadBlob
  <2>3. \A m \in run.snap : c \in m.blobs
    BY <1>0, <1>2, <2>1 DEF UploadBlob
  <2> QED BY <1>0, <2>1, <2>2, <2>3 DEF BlobsThere, KeptBlobs, Uploading
<1>3. CASE PutManifest \/ AppendRead
  <2>1. /\ Uploading /\ run'.pc \in {"append", "appendWrite"}
        /\ run'.snap = run.snap /\ run'.started = run.started /\ run'.sent = run.sent
        /\ UNCHANGED <<kept, blobs, clock>>
    BY <1>3, RunSteps DEF PutManifest, AppendRead, RunTo, Base, Uploading, folder
  <2>2. \A m \in run.snap : run.sent = m.blobs
    BY <1>0, <1>3 DEF PutManifest, AppendRead, BlobsThere, Uploading
  <2> QED BY <2>1, <2>2 DEF BlobsThere, KeptBlobs, Uploading
<1>4. CASE AppendWrite
  <2>1. /\ run.pc = "appendWrite" /\ run'.pc = "head" /\ kept' = kept \cup run.snap
        /\ UNCHANGED <<blobs, clock>>
    BY <1>4, RunSteps DEF AppendWrite, RunTo, Base
  <2>2. KeptBlobs' \subseteq DOMAIN blobs
    BY <2>1 DEF BlobsThere, KeptBlobs, Uploading
  <2> QED BY <2>1, <2>2 DEF BlobsThere, Uploading
<1>5. CASE PutHead \/ SaveLocalIndex \/ ScheduleRetention \/ FailRun
  <2>1. run'.pc \in {"index", "schedule", "idle"} /\ UNCHANGED <<kept, blobs, clock>>
    BY <1>5, RunSteps DEF PutHead, SaveLocalIndex, ScheduleRetention, FailRun, folder,
                          RunTo, IdleRun, Base
  <2> QED BY <2>1 DEF BlobsThere, KeptBlobs, Uploading
<1> QED BY <1>1, <1>2, <1>3, <1>4, <1>5 DEF BackupStep

LEMMA KeptShrinks ==
    ASSUME Base, Alone, NEW p \in Passes, PassStep(p)
    PROVE  /\ UNCHANGED <<clock, blobs, run>> /\ KeptBlobs' \subseteq KeptBlobs
           /\ Uploading => kept' = kept
<1>1. kept' = kept \/ (Evaluates(p) /\ kept' \subseteq kept)
  BY PassEffect DEF Base, GoesOn, Evaluates, WritesRows, Deletes, Stamps
<1>2. Evaluates(p) => ~Uploading
  BY DEF Evaluates, Alone, Uploading
<1> QED BY <1>1, <1>2, PassEffect DEF Base, KeptBlobs

LEMMA BlobsElsewhere ==
    ASSUME Undisturbed, Base, Alone, BlobsThere, SweepsSpare,
           (Next /\ ~BackupStep) \/ UNCHANGED vars
    PROVE  BlobsThere'
<1>1. ASSUME NEW p \in Passes, PassStep(p) PROVE BlobsThere'
  BY <1>1, KeptShrinks DEF BlobsThere, Uploading, KeptBlobs
<1>2. ASSUME NEW s \in Sweepers, SweepStep(s) PROVE BlobsThere'
  <2>1. UNCHANGED <<clock, run, kept>>
    BY <1>2, SweepFrame
  <2>2. CASE blobs' = blobs
    BY <2>1, <2>2 DEF BlobsThere, Uploading, KeptBlobs
  <2>3. CASE Removes(s) /\ blobs' # blobs
    <3>1. PICK c \in sweeps[s].todo : blobs' = [x \in DOMAIN blobs \ {c} |-> blobs[x]]
      BY <2>3 DEF Removes
    <3>2. c \notin KeptBlobs /\ (Uploading => \A m \in run.snap : c \notin m.blobs)
      BY <2>3 DEF Removes, SweepsSpare
    <3>3. Uploading => c \notin run.sent
      BY <3>2 DEF BlobsThere, Base, Typed, DeviceTyped, Uploading
    <3>4. DOMAIN blobs' = DOMAIN blobs \ {c} /\ \A x \in DOMAIN blobs' : blobs'[x] = blobs[x]
      BY <3>1
    <3> QED BY <2>1, <3>2, <3>3, <3>4 DEF BlobsThere, Uploading, KeptBlobs
  <2> QED BY <1>2, <2>2, <2>3, SweepEffect DEF Base, LooksOn, Refers, Lists
<1>3. CASE Tick
  <2>1. /\ clock \in Nat /\ clock' = clock + 1 /\ UNCHANGED <<run, kept, blobs>>
        /\ Uploading => clock < run.started + RunTime
    BY <1>3 DEF Tick, folder, device, Uploading, Base, Typed
  <2>2. blobs \in [DOMAIN blobs -> Nat] /\ run \in Runs /\ RunTime \in Nat
    BY Bounds DEF Base, Typed, FolderTyped, DeviceTyped
  <2>3. \A c \in DOMAIN blobs : blobs[c] <= clock'
    BY <2>1, <2>2 DEF BlobsThere
  <2>4. Uploading => run.started <= clock' /\ clock' <= run.started + RunTime
    BY <2>1, <2>2 DEF BlobsThere, Runs
  <2> QED BY <2>1, <2>3, <2>4 DEF BlobsThere, Uploading, KeptBlobs
<1>4. CASE \/ ClearGcLock \/ RepairIndex \/ ReadManifests \/ WriteRepaired \/ RecoverRows
           \/ RecoverHead \/ Stop \/ DamageIndexFile \/ UNCHANGED vars
  <2>1. UNCHANGED <<clock, blobs, kept>> /\ (run' = run \/ run'.pc = "idle")
    BY <1>4 DEF ClearGcLock, RepairIndex, ReadManifests, WriteRepaired, RecoverRows,
        RecoverHead, Stop, DamageIndexFile, vars, folder, device, IdleRun
  <2> QED BY <2>1 DEF BlobsThere, Uploading, KeptBlobs
<1> QED BY <1>1, <1>2, <1>3, <1>4 DEF Next

\* What a run sends while a sweep looks is too young for it.
LEMMA SentInWindow ==
    ASSUME Undisturbed, Base, BlobsThere, SweepsSpare, Uploading,
           NEW s \in Sweepers, sweeps[s].pc \in {"read", "list"}, NEW at \in Nat,
           run.started <= at, at <= clock
    PROVE  at \in sweeps[s].started - AgeGate .. sweeps[s].started + AgeGate
<1>1. /\ clock \in Nat /\ run.started \in Nat /\ sweeps[s].started \in Nat
      /\ RunTime \in Nat /\ ListTime \in Nat /\ AgeGate \in Nat
  BY Bounds DEF Base, Typed, DeviceTyped, Runs, SweepRecords
<1>2. /\ clock <= run.started + RunTime
      /\ sweeps[s].started <= clock /\ clock <= sweeps[s].started + ListTime
      /\ RunTime <= AgeGate /\ ListTime <= AgeGate
  BY DEF BlobsThere, SweepsSpare, Undisturbed
<1> QED BY <1>1, <1>2

Times(s) == sweeps[s].pc \in {"lock", "read", "list"} =>
                sweeps[s].started <= clock /\ clock <= sweeps[s].started + ListTime

LEMMA SpareInRun ==
    ASSUME Undisturbed, Base, BlobsThere, SweepsSpare, BackupStep
    PROVE  SweepsSpare'
<1>0. /\ run \in Runs /\ clock \in Nat /\ blobs \in [DOMAIN blobs -> Nat]
      /\ \A s \in Sweepers : sweeps[s] \in SweepRecords
      /\ {ListTime, AgeGate} \subseteq Nat
  BY Bounds DEF Base, Typed, DeviceTyped, FolderTyped
<1>1. sweeps' = sweeps /\ clock' = clock
  BY DEF BackupStep, StartBackup, UploadBlob, PutManifest, AppendRead, AppendWrite, PutHead,
         SaveLocalIndex, ScheduleRetention, FailRun
<1>2. ASSUME NEW full \in BOOLEAN, NEW needs \in SUBSET Contents, StartBackup(full, needs)
      PROVE  SweepsSpare'
  <2>1. PICK snap \in Snapshots :
            /\ run' = [IdleRun EXCEPT !.pc = "blobs", !.snap = {snap}, !.started = clock]
            /\ snap.blobs = needs
    BY <1>2, StartEffect DEF Base
  <2>2. run'.snap = {snap} /\ UNCHANGED <<kept, blobs>>
    BY <1>2, <2>1 DEF StartBackup, IdleRun, folder
  <2>3. needs \cap DOMAIN blobs \subseteq KeptBlobs
    BY <1>2 DEF StartBackup, KeptBlobs, Undisturbed
  <2> QED BY <1>1, <2>1, <2>2, <2>3 DEF SweepsSpare, KeptBlobs, InWindow
<1>3. ASSUME NEW c \in Contents, UploadBlob(c) PROVE SweepsSpare'
  <2>1. Uploading /\ run'.snap = run.snap /\ kept' = kept
    BY <1>3, RunSteps DEF UploadBlob, RunTo, Base, Uploading
  <2>2. DOMAIN blobs' = DOMAIN blobs \cup {c} /\ blobs'[c] = clock
        /\ \A x \in DOMAIN blobs \ {c} : blobs'[x] = blobs[x]
    BY <1>3 DEF UploadBlob
  <2>3. \A s \in Sweepers : sweeps[s].pc = "list" =>
            clock \in sweeps[s].started - AgeGate .. sweeps[s].started + AgeGate
    BY <1>0, <2>1, SentInWindow DEF BlobsThere
  <2>4. KeptBlobs \subseteq DOMAIN blobs /\ KeptBlobs' = KeptBlobs
    BY <2>1 DEF BlobsThere, KeptBlobs
  <2> QED BY <1>1, <2>1, <2>2, <2>3, <2>4 DEF SweepsSpare, InWindow
<1>4. CASE PutManifest \/ AppendRead
  <2>1. Uploading /\ run'.snap = run.snap /\ UNCHANGED <<kept, blobs>>
    BY <1>4, RunSteps DEF PutManifest, AppendRead, RunTo, Base, Uploading, folder
  <2> QED BY <1>1, <2>1 DEF SweepsSpare, KeptBlobs, InWindow
<1>5. CASE AppendWrite
  <2>1. /\ Uploading /\ run.pc = "appendWrite" /\ run'.pc = "head"
        /\ kept' = kept \cup run.snap /\ blobs' = blobs
    BY <1>5, RunSteps DEF AppendWrite, RunTo, Base, Uploading
  <2>2. \A c \in KeptBlobs' : c \in KeptBlobs \/ c \in run.sent
    BY <2>1 DEF KeptBlobs, BlobsThere
  <2>3. \A c \in run.sent : /\ c \in DOMAIN blobs /\ run.started <= blobs[c]
                            /\ blobs[c] <= clock /\ blobs[c] \in Nat
    BY <1>0, <2>1 DEF BlobsThere, Runs
  <2>4. \A s \in Sweepers, c \in run.sent : sweeps[s].pc = "list" => InWindow(s, c)
    BY <2>1, <2>3, SentInWindow DEF InWindow
  <2>5. \A s \in Sweepers, c \in run.sent : sweeps[s].pc = "delete" => c \notin sweeps[s].todo
    <3>1. \E m \in run.snap : run.sent = m.blobs
      BY <2>1 DEF BlobsThere, Base, Typed, DeviceTyped
    <3> QED BY <2>1, <3>1 DEF SweepsSpare
  <2>6. ~Uploading'
    BY <2>1 DEF Uploading
  <2>7. ASSUME NEW s \in Sweepers, sweeps[s].pc = "list", NEW c \in KeptBlobs'
        PROVE  c \in sweeps[s].refs \/ InWindow(s, c)
    BY <2>2, <2>4, <2>7 DEF SweepsSpare
  <2>8. ASSUME NEW s \in Sweepers, sweeps[s].pc = "delete"
        PROVE  sweeps[s].todo \subseteq DOMAIN blobs /\ sweeps[s].todo \cap KeptBlobs' = {}
    BY <2>2, <2>5, <2>8 DEF SweepsSpare
  <2> HIDE DEF Uploading
  <2> QED BY <1>1, <2>1, <2>6, <2>7, <2>8 DEF SweepsSpare, InWindow
<1>6. CASE PutHead \/ SaveLocalIndex \/ ScheduleRetention \/ FailRun
  <2>1. run'.pc \in {"index", "schedule", "idle"} /\ UNCHANGED <<kept, blobs>>
    BY <1>6, RunSteps DEF PutHead, SaveLocalIndex, ScheduleRetention, FailRun, folder,
                          RunTo, IdleRun, Base
  <2> QED BY <1>1, <2>1 DEF SweepsSpare, KeptBlobs, InWindow, Uploading
<1> QED BY <1>2, <1>3, <1>4, <1>5, <1>6 DEF BackupStep

LEMMA SpareInPass ==
    ASSUME Undisturbed, Base, Alone, SweepsSpare, NEW p \in Passes, PassStep(p)
    PROVE  SweepsSpare'
<1>0. clock \in Nat /\ ListTime \in Nat /\ sweeps \in [Sweepers -> SweepRecords]
  BY Bounds DEF Base, Typed, DeviceTyped
<1>1. UNCHANGED <<clock, blobs, run>> /\ KeptBlobs' \subseteq KeptBlobs
  BY KeptShrinks
<1>2. \A s \in Sweepers :
          \/ sweeps'[s] = sweeps[s]
          \/ sweeps'[s].pc = "lock" /\ sweeps'[s].started = clock
  <2>1. \A s \in Sweepers : CheckLock(s) => \A t \in Sweepers :
            \/ sweeps'[t] = sweeps[t]
            \/ sweeps'[t].pc = "lock" /\ sweeps'[t].started = clock
    <3>1. /\ [IdleSweep EXCEPT !.pc = "lock", !.started = clock].pc = "lock"
          /\ [IdleSweep EXCEPT !.pc = "lock", !.started = clock].started = clock
      BY DEF IdleSweep
    <3> QED BY <1>0, <3>1 DEF CheckLock, StartSweep
  <2>2. sweeps' = sweeps \/ \E s \in Sweepers : CheckLock(s)
    BY DEF PassStep, RunIfDue, RunNow, ReadAndEvaluate, RebuildRows, DeleteManifest,
         DeleteFails, RemoveRead, RemoveWrite, StampPass, StampJob, FailPass
  <2> QED BY <2>1, <2>2
<1> QED BY <1>0, <1>1, <1>2 DEF SweepsSpare, InWindow, Uploading

LEMMA SpareInSweep ==
    ASSUME Undisturbed, Base, KeptListed, BlobsThere, SweepsSpare,
           NEW s \in Sweepers, SweepStep(s)
    PROVE  SweepsSpare'
<1>0. clock \in Nat /\ ListTime \in Nat /\ \A t \in Sweepers : t = s
  BY Bounds DEF Base, Typed, Undisturbed
<1>1. UNCHANGED <<clock, run, kept>> /\ KeptBlobs' = KeptBlobs
  BY SweepFrame DEF KeptBlobs
<1> SUFFICES /\ sweeps'[s].pc \in {"lock", "read", "list"} =>
                    sweeps'[s].started <= clock /\ clock <= sweeps'[s].started + ListTime
             /\ sweeps'[s].pc = "list" =>
                    \A c \in KeptBlobs : c \in sweeps'[s].refs \/ InWindow(s, c)'
             /\ sweeps'[s].pc = "delete" =>
                    /\ sweeps'[s].todo \subseteq DOMAIN blobs'
                    /\ sweeps'[s].todo \cap KeptBlobs = {}
                    /\ Uploading => \A m \in run.snap : sweeps'[s].todo \cap m.blobs = {}
  BY <1>0, <1>1 DEF SweepsSpare, Uploading
<1>2. CASE LooksOn(s)
  BY <1>0, <1>2 DEF LooksOn, SweepsSpare, InWindow
<1>3. CASE Refers(s)
  <2>1. KeptBlobs \subseteq sweeps'[s].refs
    BY <1>3 DEF Refers, KeptListed, KeptBlobs
  <2> QED BY <1>3, <2>1 DEF Refers, SweepsSpare
<1>4. CASE Lists(s)
  <2>1. blobs' = blobs /\ sweeps[s].pc = "list" /\ sweeps'[s].pc = "delete"
        /\ sweeps'[s].todo = {c \in DOMAIN blobs \ sweeps[s].refs : ~InWindow(s, c)}
    BY <1>4 DEF Lists
  <2>2. sweeps'[s].todo \cap KeptBlobs = {}
    BY <2>1 DEF SweepsSpare
  <2>3. ASSUME Uploading, NEW m \in run.snap PROVE sweeps'[s].todo \cap m.blobs = {}
    <3>1. ASSUME NEW c \in run.sent PROVE InWindow(s, c)
      <4>1. /\ run.started <= blobs[c] /\ blobs[c] <= clock /\ blobs[c] \in Nat
        BY <2>3, <3>1 DEF BlobsThere, Base, Typed, FolderTyped, DeviceTyped, Runs
      <4> QED BY <2>1, <2>3, <4>1, SentInWindow DEF InWindow
    <3>2. m.blobs \cap DOMAIN blobs \subseteq run.sent \cup KeptBlobs
      BY <2>3 DEF BlobsThere
    <3> QED BY <2>1, <2>2, <3>1, <3>2
  <2> QED BY <2>1, <2>2, <2>3
<1>5. CASE Removes(s)
  <2>1. PICK c \in sweeps[s].todo :
            /\ sweeps[s].pc = "delete" /\ sweeps'[s].pc = "delete"
            /\ sweeps'[s].todo = sweeps[s].todo \ {c}
            /\ \/ blobs' = blobs
               \/ blobs' = [x \in DOMAIN blobs \ {c} |-> blobs[x]]
    BY <1>5 DEF Removes
  <2>2. sweeps'[s].todo \subseteq DOMAIN blobs'
    BY <2>1 DEF SweepsSpare
  <2> QED BY <2>1, <2>2 DEF SweepsSpare
<1> QED BY <1>2, <1>3, <1>4, <1>5, SweepEffect DEF Base

LEMMA SpareElsewhere ==
    ASSUME Undisturbed, Base, SweepsSpare,
           \/ ClearGcLock \/ RepairIndex \/ ReadManifests \/ WriteRepaired
           \/ RecoverRows \/ RecoverHead \/ Tick \/ Stop \/ DamageIndexFile
           \/ UNCHANGED vars
    PROVE  SweepsSpare'
<1>1. CASE Tick
  <2>1. /\ clock \in Nat /\ clock' = clock + 1 /\ UNCHANGED <<run, kept, blobs, sweeps>>
        /\ \A s \in Sweepers : sweeps[s].pc \in {"lock", "read", "list"} =>
               clock < sweeps[s].started + ListTime
    BY <1>1 DEF Tick, folder, device, Base, Typed
  <2>2. ListTime \in Nat /\ \A s \in Sweepers : sweeps[s].started \in Nat
    BY Bounds DEF Base, Typed, DeviceTyped, SweepRecords
  <2>3. ASSUME NEW s \in Sweepers PROVE Times(s)'
    BY <2>1, <2>2 DEF Times, SweepsSpare
  <2> QED BY <2>1, <2>3 DEF SweepsSpare, Times, Uploading, KeptBlobs, InWindow
<1>2. CASE Stop
  BY <1>2 DEF Stop, SweepsSpare, IdleSweep
<1>3. CASE \/ ClearGcLock \/ RepairIndex \/ ReadManifests \/ WriteRepaired \/ RecoverRows
           \/ RecoverHead \/ DamageIndexFile \/ UNCHANGED vars
  <2>1. UNCHANGED <<clock, blobs, kept, run, sweeps>>
    BY <1>3 DEF ClearGcLock, RepairIndex, ReadManifests, WriteRepaired, RecoverRows,
        RecoverHead, DamageIndexFile, vars, folder, device
  <2> QED BY <2>1 DEF SweepsSpare, Uploading, KeptBlobs, InWindow
<1> QED BY <1>1, <1>2, <1>3

LEMMA InitKInv == Init => KInv
<1> SUFFICES ASSUME Init PROVE KInv
  OBVIOUS
<1>1. Base
  BY InitBase
<1>2. kept = {} /\ KeptBlobs = {} /\ DOMAIN blobs = {} /\ run.pc = "idle" /\ repair.pc = "idle"
  BY DEF Init, KeptBlobs, IdleRun, IdleRepair
<1>3. /\ \A p \in Passes : passes[p] = IdlePass
      /\ \A s \in Sweepers : sweeps[s].pc = "idle"
  BY DEF Init, IdleSweep
<1>4. Alone
  BY <1>2, <1>3 DEF Alone, IdlePass
<1>5. KeptListed
  BY <1>2, <1>3 DEF Init, KeptListed, IdlePass, Ids
<1>6. LastKept
  BY <1>2, <1>3 DEF Init, LastKept, IdlePass, NoLocal
<1>7. Parents /\ BlobsThere /\ SweepsSpare
  BY <1>2, <1>3 DEF Parents, BlobsThere, SweepsSpare, Uploading
<1> QED BY <1>1, <1>4, <1>5, <1>6, <1>7 DEF KInv

LEMMA KInvStep ==
    Undisturbed => (KInv /\ FewFailures /\ [Next]_vars => KInv')
<1> SUFFICES ASSUME Undisturbed, KInv, FewFailures, Next \/ UNCHANGED vars PROVE KInv'
  OBVIOUS
<1>0. Base /\ Typed /\ Alone /\ KeptListed /\ Parents /\ LastKept /\ BlobsThere /\ SweepsSpare
  BY DEF KInv, Base
<1>1. Base'
  BY <1>0, BaseStep
<1>2. Alone'
  BY <1>0, AloneKept
<1>3. KeptListed'
  BY <1>0, KeptListedInRun, KeptListedInPass, KeptListedElsewhere DEF Next
<1>4. Parents'
  BY <1>0, ParentsKept
<1>5. LastKept'
  BY <1>0, LastKeptInRun, LastKeptInPass, LastKeptElsewhere DEF Next
<1>6. BlobsThere'
  BY <1>0, BlobsInRun, BlobsElsewhere
<1>7. SweepsSpare'
  BY <1>0, SpareInRun, SpareInPass, SpareInSweep, SpareElsewhere DEF Next
<1> QED BY <1>1, <1>2, <1>3, <1>4, <1>5, <1>6, <1>7 DEF KInv

\* The lineage of a kept snapshot is kept, and its oldest one is full.
LEMMA KInvRestorable == KInv => KeptStaysRestorable
<1> SUFFICES ASSUME KInv, NEW m \in kept PROVE Restorable(m)
  BY DEF KeptStaysRestorable
<1>1. /\ kept \subseteq manifests /\ manifests \subseteq Snapshots
      /\ \A n \in kept : HasParent(n)
  BY DEF KInv, KeptListed, Parents, Base, Typed, FolderTyped
<1>2. UniqueIds(manifests)
  <2>1. manifests \subseteq Known
    BY DEF Known
  <2> QED BY <2>1 DEF KInv, Base, History, InOrder, UniqueIds
<1>3. \A i \in Ids(kept) : Row(manifests, i) \in kept /\ Row(manifests, i).id = i
  BY <1>1, <1>2, RowOf DEF Ids
<1> DEFINE L == Lineage(manifests, {m.id})
<1>4. L \subseteq Ids(kept)
  <2>1. Ids(kept) \subseteq Ids(manifests)
    BY <1>1 DEF Ids
  <2>2. ParentClosed(manifests, Ids(kept))
    BY <1>1, <1>3 DEF ParentClosed, HasParent
  <2>3. m.id \in Ids(kept)
    BY DEF Ids
  <2> QED BY <2>1, <2>2, <2>3, LineageLeast
<1>5. m.id \in L /\ ParentClosed(manifests, L)
  <2>1. m.id \in Ids(manifests)
    BY <1>1 DEF Ids
  <2> QED BY <2>1, LineageLeast, LineageClosed
<1>6. Complete(manifests, m.id)
  <2> HIDE DEF L
  <2>0. Ids(kept) \subseteq Nat
    BY <1>1 DEF Ids, Snapshots, SnapIds
  <2>1. L \in SUBSET Nat
    BY <1>4, <2>0
  <2>2. PICK i \in L : \A j \in L : i <= j
    BY <1>5, <2>1, Least
  <2>3. Row(manifests, i) \in kept /\ Row(manifests, i).id = i
    BY <1>3, <1>4
  <2>4. Row(manifests, i).full
    <3> SUFFICES ASSUME ~Row(manifests, i).full PROVE FALSE
      OBVIOUS
    <3>1. Row(manifests, i).parent \in Ids(kept) /\ Row(manifests, i).parent < i
      BY <1>1, <2>3 DEF HasParent
    <3>2. Row(manifests, i).parent \in L
      <4>1. Row(manifests, i).parent \in Ids(manifests)
        BY <1>1, <3>1 DEF Ids
      <4> QED BY <1>5, <4>1 DEF ParentClosed
    <3>3. i \in Nat /\ Row(manifests, i).parent \in Nat
      BY <2>1, <3>2
    <3> QED BY <2>2, <3>1, <3>2, <3>3
  <2> QED BY <2>4 DEF Complete, L
<1>7. \A i \in L : Row(manifests, i).blobs \subseteq DOMAIN blobs
  <2>1. KeptBlobs \subseteq DOMAIN blobs
    BY DEF KInv, BlobsThere
  <2> QED BY <1>3, <1>4, <2>1 DEF KeptBlobs
<1> QED BY <1>1, <1>6, <1>7 DEF Restorable

\* A snapshot that was listed, and that no pass decided to prune, can be
\* restored: its manifest, its lineage up to a full backup and all their
\* blobs are there, after any number of runs, passes, sweeps, repairs,
\* failures and crashes (RetentionService, GCService, SnapshotIndex).
THEOREM KeptStaysRestorableHolds ==
    ASSUME Undisturbed PROVE Spec /\ []FewFailures => []KeptStaysRestorable
<1>1. Init => KInv
  BY InitKInv
<1>2. KInv /\ FewFailures /\ [Next]_vars => KInv'
  BY KInvStep
<1>3. KInv => KeptStaysRestorable
  BY KInvRestorable
<1> QED BY <1>1, <1>2, <1>3, PTL DEF Spec

(***************************************************************************)
(* Startup recovery.  Passes and repairs may go on between its look at the *)
(* manifests and its write of HEAD, but none takes the newest manifest.    *)
(***************************************************************************)
\* Snapshots whose manifest was put, wherever a copy of them is.
Put == UNION ({manifests, rows, kept, run.copy, repair.found, recovery.found,
                IF run.pc = "blobs" THEN {} ELSE run.snap}
                    \cup {passes[p].copy : p \in Passes})

NewestStays ==
    /\ \A p \in Passes : \A i \in passes[p].todo :
           i <= counts.made /\ (run.pc = "blobs" => i < counts.made)
    /\ run.pc = "blobs" => \A m \in Put : m.id < counts.made
    /\ Put # {} => \E w \in manifests :
           /\ \A m \in Put : m.id <= w.id
           /\ \A p \in Passes : w.id \notin passes[p].todo

Distinct(S) == \A m, n \in S : m.at = n.at => m = n

AtTimes ==
    /\ Distinct(manifests)
    /\ run.pc = "blobs" => \A m \in manifests, s \in run.snap : m.at < s.at

\* What lies between the two halves of recovery.
Recovering ==
    recovery.pc = "head" =>
        /\ run.pc = "idle"
        /\ manifests \subseteq recovery.found /\ Distinct(recovery.found)
        /\ manifests # {} => indexFile = "ok" /\ manifests \subseteq rows
        /\ repair.pc = "write" => manifests \subseteq repair.found
        /\ \A p \in Passes :
               /\ passes[p].pc \in {"rebuild", "removeWrite"} => manifests \subseteq passes[p].copy
               /\ passes[p].pc = "removeRead" => passes[p].id \notin Ids(manifests)

LEMMA PutKnown == Put \subseteq Known /\ (run.pc # "blobs" => Put = Known)
BY DEF Put, Known

LEMMA NewestCarries ==
    ASSUME NewestStays, Put' \subseteq Put, manifests' = manifests,
           counts'.made = counts.made, run'.pc = "blobs" => run.pc = "blobs",
           \A p \in Passes : passes'[p].todo \subseteq passes[p].todo
    PROVE  NewestStays'
BY DEF NewestStays

LEMMA NewestInRun ==
    ASSUME Base, NewestStays, BackupStep
    PROVE  NewestStays'
<1>0. /\ counts.made \in Nat /\ passes \in [Passes -> PassRecords] /\ run \in Runs
      /\ \A p \in Passes : passes[p].todo \subseteq Nat
      /\ Known \subseteq Snapshots /\ \A m \in Known : m.id \in Nat /\ m.id <= counts.made
  BY KnownType DEF Base, Typed, DeviceTyped, PassRecords, SnapIds, Snapshots, History
<1>1. ASSUME NEW full \in BOOLEAN, NEW needs \in SUBSET Contents, StartBackup(full, needs)
      PROVE  NewestStays'
  <2>1. run'.pc = "blobs" /\ run'.copy = {} /\ counts'.made = counts.made + 1
        /\ UNCHANGED <<manifests, rows, kept, passes, repair, recovery>>
    BY <1>1 DEF StartBackup, IdleRun, folder, Spend, Base, Typed
  <2>2. Put' \subseteq Put
    BY <2>1 DEF Put
  <2>3. \A m \in Put' : m.id < counts'.made
    BY <1>0, <2>1, <2>2, PutKnown
  <2>4. \A p \in Passes : \A i \in passes'[p].todo : i < counts'.made
    BY <1>0, <2>1 DEF NewestStays
  <2>5. Put' # {} => \E w \in manifests' :
            /\ \A m \in Put' : m.id <= w.id
            /\ \A p \in Passes : w.id \notin passes'[p].todo
    BY <2>1, <2>2 DEF NewestStays
  <2> HIDE DEF Put
  <2> QED BY <1>0, <2>1, <2>3, <2>4, <2>5 DEF NewestStays
<1>2. CASE PutManifest
  <2>1. run.pc = "blobs" /\ run'.pc = "append" /\ run'.snap = run.snap
        /\ manifests' = manifests \cup run.snap /\ counts' = counts
        /\ UNCHANGED <<rows, kept, passes, repair, recovery>>
    BY <1>2, RunSteps DEF PutManifest, RunTo, Base
  <2>2. PICK snap \in Snapshots : run.snap = {snap} /\ snap.id = counts.made
    <3>1. PICK snap \in Snapshots : run.snap = {snap}
      BY <2>1 DEF Base, Typed, DeviceTyped
    <3> QED BY <3>1 DEF Base, History
  <2>3. Put' \subseteq Put \cup {snap}
    <3>1. run'.copy = run.copy
      BY <1>0, <1>2 DEF PutManifest, Runs
    <3> QED BY <2>1, <2>2, <3>1 DEF Put
  <2>4. \A m \in Put' : m.id <= snap.id
    BY <1>0, <2>1, <2>2, <2>3, PutKnown DEF NewestStays
  <2>5. \A p \in Passes : snap.id \notin passes'[p].todo
    BY <1>0, <2>1, <2>2 DEF NewestStays
  <2>6. \A p \in Passes : \A i \in passes'[p].todo : i <= counts'.made
    BY <2>1 DEF NewestStays
  <2> QED BY <2>1, <2>2, <2>4, <2>5, <2>6 DEF NewestStays
<1>3. CASE \/ \E c \in Contents : UploadBlob(c)
           \/ AppendRead \/ AppendWrite \/ PutHead \/ SaveLocalIndex
           \/ ScheduleRetention \/ FailRun
  <2>1. NothingNew
    BY <1>3, BackupKnown DEF Base
  <2>2. manifests' = manifests
    BY <1>3 DEF UploadBlob, AppendRead, AppendWrite, PutHead, SaveLocalIndex,
                ScheduleRetention, FailRun, folder
  <2>3. run'.pc = "blobs" => \E c \in Contents : UploadBlob(c)
    BY <1>3, RunSteps DEF RunTo, IdleRun, Base
  <2>4. counts'.made = counts.made
    BY <1>3, RunCounts DEF Base
  <2>5. \A p \in Passes : passes'[p].todo \subseteq passes[p].todo
    <3>1. [IdlePass EXCEPT !.pc = "due", !.auto = TRUE, !.job = local].todo = {}
      BY DEF IdlePass
    <3>2. CASE ScheduleRetention
      BY <1>0, <3>1, <3>2 DEF ScheduleRetention
    <3>3. CASE ~ScheduleRetention
      BY <1>3, <3>3 DEF UploadBlob, AppendRead, AppendWrite, PutHead, SaveLocalIndex, FailRun
    <3> QED BY <3>2, <3>3
  <2>6. Put' \subseteq Put
    <3>1. CASE run.pc # "blobs"
      <4>1. Put' \subseteq Known'
        BY DEF Put, Known
      <4> QED BY <2>1, <3>1, <4>1, PutKnown DEF NothingNew
    <3>2. CASE \E c \in Contents : UploadBlob(c)
      <4>1. run'.pc = "blobs" /\ run.pc = "blobs" /\ run'.copy = run.copy
        BY <1>0, <3>2 DEF UploadBlob, Runs
      <4> QED BY <3>2, <4>1 DEF UploadBlob, Put
    <3>3. CASE FailRun
      <4>1. run'.snap = {} /\ run'.copy = {}
        BY <3>3 DEF FailRun, IdleRun
      <4> QED BY <3>3, <4>1 DEF FailRun, Put, folder
    <3>4. run.pc = "blobs" => FailRun \/ \E c \in Contents : UploadBlob(c)
      BY <1>3 DEF AppendRead, AppendWrite, PutHead, SaveLocalIndex, ScheduleRetention
    <3> QED BY <3>1, <3>2, <3>3, <3>4
  <2>7. run'.pc = "blobs" => run.pc = "blobs"
    BY <2>3 DEF UploadBlob
  <2> QED BY <2>2, <2>4, <2>5, <2>6, <2>7, NewestCarries
<1> QED BY <1>1, <1>2, <1>3 DEF BackupStep

LEMMA NewestInPass ==
    ASSUME KeepN >= 1, Base, NewestStays, NEW p \in Passes, PassStep(p)
    PROVE  NewestStays'
<1>0. /\ counts.made \in Nat /\ KeepN \in Nat
      /\ rows \in SUBSET Snapshots /\ rows \subseteq Known /\ rows \subseteq Put
      /\ \A m \in Known : m.id \in Nat /\ m.at \in Nat /\ m.id <= counts.made
      /\ \A q \in Passes : passes[q].todo \subseteq Nat
  <2>1. Known \subseteq Snapshots
    BY KnownType DEF Base
  <2> QED BY <2>1, Bounds DEF Base, Typed, FolderTyped, DeviceTyped, PassRecords, SnapIds,
        Known, Put, Snapshots, History
<1>1. run' = run /\ manifests' \subseteq manifests /\ Put' \subseteq Put
  BY PassCopies DEF Base, Put
<1>2. counts'.made = counts.made
  BY PassCounts DEF Base
<1>3. \A q \in Passes \ {p} : passes'[q] = passes[q]
  BY PassEffect DEF Base
<1>4. CASE Evaluates(p)
  <2> DEFINE prune == Ids(rows) \ KeepSet(rows, passes[p].started)
  <2>1. passes'[p].todo = prune /\ manifests' = manifests
    BY <1>4 DEF Evaluates, After
  <2>2. \A i \in prune : i <= counts.made /\ (run.pc = "blobs" => i < counts.made)
    BY <1>0 DEF NewestStays, Ids
  <2>3. ASSUME NEW w \in manifests, \A m \in Put : m.id <= w.id PROVE w.id \notin prune
    <3> SUFFICES ASSUME w.id \in Ids(rows) PROVE w.id \in KeepSet(rows, passes[p].started)
      OBVIOUS
    <3>1. w \in Known /\ InOrder(Known)
      BY DEF Known, Base, History
    <3>2. w \in rows
      BY <1>0, <3>1 DEF Ids, InOrder
    <3>3. \A o \in rows : ~(o.at > w.at)
      BY <1>0, <2>3, <3>1 DEF InOrder
    <3>4. {o \in rows : o.at > w.at} = {}
      BY <3>3
    <3>5. Cardinality({o \in rows : o.at > w.at}) = 0
      BY <3>4, FS_EmptySet
    <3>6. w \in EvaluateTiers(rows, passes[p].started)
      BY <1>0, <3>2, <3>5 DEF Newest, EvaluateTiers
    <3> QED BY <3>6, KeepSetFacts DEF Ids
  <2>4. Put' # {} => \E w \in manifests : /\ \A m \in Put' : m.id <= w.id
                                          /\ \A q \in Passes : w.id \notin passes'[q].todo
    <3> SUFFICES ASSUME Put' # {} PROVE \E w \in manifests :
                         /\ \A m \in Put' : m.id <= w.id
                         /\ \A q \in Passes : w.id \notin passes'[q].todo
      OBVIOUS
    <3>1. PICK w \in manifests : /\ \A m \in Put : m.id <= w.id
                                 /\ \A q \in Passes : w.id \notin passes[q].todo
      BY <1>1 DEF NewestStays
    <3>2. w.id \notin passes'[p].todo
      BY <2>1, <2>3, <3>1
    <3> QED BY <1>1, <1>3, <3>1, <3>2
  <2> HIDE DEF prune
  <2> QED BY <1>1, <1>2, <1>3, <2>1, <2>2, <2>4 DEF NewestStays
<1>5. CASE GoesOn(p) \/ WritesRows(p) \/ Deletes(p) \/ Stamps(p)
  <2>1. passes'[p].todo \subseteq passes[p].todo
    BY <1>5 DEF GoesOn, WritesRows, Deletes, Stamps, After, Ended, IdlePass
  <2>2. \A m \in manifests : (\A q \in Passes : m.id \notin passes[q].todo) => m \in manifests'
    BY <1>5 DEF GoesOn, WritesRows, Deletes, Stamps
  <2> QED BY <1>1, <1>2, <1>3, <2>1, <2>2 DEF NewestStays
<1> QED BY <1>4, <1>5, PassEffect DEF Base

LEMMA NewestElsewhere ==
    ASSUME Base, NewestStays,
           \/ \E s \in Sweepers : SweepStep(s)
           \/ ClearGcLock \/ RepairIndex \/ ReadManifests \/ WriteRepaired
           \/ RecoverRows \/ RecoverHead \/ Tick \/ Stop \/ DamageIndexFile
           \/ UNCHANGED vars
    PROVE  NewestStays'
<1>1. Put' \subseteq Put
  BY OtherCopies DEF Base, Put, IdleRun
<1>2. manifests' = manifests /\ (run'.pc = "blobs" => run.pc = "blobs")
  BY OtherCopies DEF Base, IdleRun
<1>3. counts'.made = counts.made
  BY OtherCounts DEF Base
<1>4. \A p \in Passes : passes'[p].todo \subseteq passes[p].todo
  <2>1. CASE Stop
    BY <2>1 DEF Stop, IdlePass
  <2>2. CASE \E s \in Sweepers : SweepStep(s)
    BY <2>2, SweepFrame
  <2>3. CASE \/ ClearGcLock \/ RepairIndex \/ ReadManifests \/ WriteRepaired
             \/ RecoverRows \/ RecoverHead \/ Tick \/ DamageIndexFile \/ UNCHANGED vars
    BY <2>3 DEF ClearGcLock, RepairIndex, ReadManifests, WriteRepaired, RecoverRows,
                RecoverHead, Tick, DamageIndexFile, vars, device
  <2> QED BY <2>1, <2>2, <2>3
<1> QED BY <1>1, <1>2, <1>3, <1>4, NewestCarries

\* A run starts later than every snapshot that has a manifest.
LEMMA AtTimesKept ==
    ASSUME Base, AtTimes, Next \/ UNCHANGED vars
    PROVE  AtTimes'
<1>0. /\ manifests \subseteq Snapshots /\ run.snap \subseteq Snapshots /\ run \in Runs
      /\ \A m \in Snapshots : m.at \in Nat
  BY DEF Base, Typed, FolderTyped, DeviceTyped, Runs, Snapshots
<1>1. ASSUME NEW full \in BOOLEAN, NEW needs \in SUBSET Contents, StartBackup(full, needs)
      PROVE  AtTimes'
  <2>1. PICK snap \in Snapshots :
            /\ run' = [IdleRun EXCEPT !.pc = "blobs", !.snap = {snap}, !.started = clock]
            /\ snap.at = clock
    BY <1>1, StartEffect DEF Base
  <2>2. run'.snap = {snap}
    BY <2>1 DEF IdleRun
  <2>3. manifests' = manifests /\ \A m \in manifests : m.at < clock
    BY <1>1 DEF StartBackup, folder
  <2> QED BY <2>1, <2>2, <2>3 DEF AtTimes, Distinct
<1>2. CASE PutManifest
  <2>1. run.pc = "blobs" /\ run'.pc = "append" /\ manifests' = manifests \cup run.snap
    BY <1>0, <1>2 DEF PutManifest, Runs
  <2>2. PICK snap \in Snapshots : run.snap = {snap}
    BY <2>1 DEF Base, Typed, DeviceTyped
  <2>3. \A m \in manifests : m.at # snap.at
    BY <1>0, <2>1, <2>2 DEF AtTimes
  <2> QED BY <2>1, <2>2, <2>3 DEF AtTimes, Distinct
<1>3. CASE \/ \E c \in Contents : UploadBlob(c)
           \/ AppendRead \/ AppendWrite \/ PutHead \/ SaveLocalIndex
           \/ ScheduleRetention \/ FailRun
  <2>1. manifests' = manifests
    BY <1>3 DEF UploadBlob, AppendRead, AppendWrite, PutHead, SaveLocalIndex,
                ScheduleRetention, FailRun, folder
  <2>2. run'.pc = "blobs" => run.pc = "blobs" /\ run'.snap = run.snap
    BY <1>3, RunSteps DEF RunTo, IdleRun, Base
  <2> QED BY <2>1, <2>2 DEF AtTimes
<1>4. CASE \E p \in Passes : PassStep(p)
  <2>1. run' = run /\ manifests' \subseteq manifests
    BY <1>4, PassCopies DEF Base
  <2> QED BY <2>1 DEF AtTimes, Distinct
<1>5. CASE \/ \E s \in Sweepers : SweepStep(s)
           \/ ClearGcLock \/ RepairIndex \/ ReadManifests \/ WriteRepaired
           \/ RecoverRows \/ RecoverHead \/ Tick \/ Stop \/ DamageIndexFile
           \/ UNCHANGED vars
  <2>1. manifests' = manifests /\ (run' = run \/ run'.pc = "idle")
    BY <1>5, OtherCopies DEF Base, IdleRun
  <2> QED BY <2>1 DEF AtTimes
<1> QED BY <1>1, <1>2, <1>3, <1>4, <1>5 DEF Next, BackupStep

LEMMA RecoveringInRun ==
    ASSUME Base, Recovering, BackupStep
    PROVE  Recovering'
<1>1. recovery' = recovery
  <2>1. ASSUME NEW full \in BOOLEAN, NEW needs \in SUBSET Contents, StartBackup(full, needs)
        PROVE  recovery' = recovery
    BY <2>1 DEF StartBackup
  <2>2. CASE \/ \E c \in Contents : UploadBlob(c)
             \/ PutManifest \/ AppendRead \/ AppendWrite \/ PutHead \/ SaveLocalIndex
             \/ ScheduleRetention \/ FailRun
    BY <2>2 DEF UploadBlob, PutManifest, AppendRead, AppendWrite, PutHead,
                SaveLocalIndex, ScheduleRetention, FailRun
  <2> QED BY <2>1, <2>2 DEF BackupStep
<1>2. recovery.pc = "head" => run.pc # "idle"
  <2>1. ASSUME NEW full \in BOOLEAN, NEW needs \in SUBSET Contents, StartBackup(full, needs)
        PROVE  recovery.pc # "head"
    BY <2>1 DEF StartBackup
  <2>2. CASE \/ \E c \in Contents : UploadBlob(c)
             \/ PutManifest \/ AppendRead \/ AppendWrite \/ PutHead \/ SaveLocalIndex
             \/ ScheduleRetention \/ FailRun
    BY <2>2 DEF UploadBlob, PutManifest, AppendRead, AppendWrite, PutHead,
                SaveLocalIndex, ScheduleRetention, FailRun
  <2> QED BY <2>1, <2>2 DEF BackupStep
<1> QED BY <1>1, <1>2 DEF Recovering

LEMMA RecoveringInPass ==
    ASSUME "download" \notin Faults, Base, Recovering, NEW p \in Passes, PassStep(p)
    PROVE  Recovering'
<1> SUFFICES ASSUME recovery.pc = "head" PROVE Recovering'
  BY PassEffect DEF Base, Recovering
<1>1. /\ UNCHANGED <<run, repair, recovery>>
      /\ \A q \in Passes \ {p} : passes'[q] = passes[q]
      /\ manifests' \subseteq manifests
  BY PassEffect, PassCopies DEF Base
<1>2. /\ manifests' # {} => indexFile' = "ok" /\ manifests' \subseteq rows'
      /\ passes'[p].pc \in {"rebuild", "removeWrite"} => manifests' \subseteq passes'[p].copy
      /\ passes'[p].pc = "removeRead" => passes'[p].id \notin Ids(manifests')
  <2>1. CASE GoesOn(p)
    <3>1. manifests' = manifests /\ rows' = rows /\ indexFile' = indexFile
      BY <2>1 DEF GoesOn
    <3>2. passes'[p].pc = "rebuild" => manifests \subseteq passes'[p].copy
      <4>1. \A found : Downloaded(found) => found = manifests
        BY DownloadType DEF Base
      <4> QED BY <2>1, <4>1 DEF GoesOn, After, Ended, IdlePass
    <3>3. passes'[p].pc = "removeWrite" => manifests \subseteq passes'[p].copy
      <4> SUFFICES ASSUME passes'[p].pc = "removeWrite", NEW m \in manifests
                   PROVE  m \in passes'[p].copy
        OBVIOUS
      <4>1. passes[p].pc = "removeRead" /\ passes'[p].copy = {o \in rows : o.id # passes[p].id}
        BY <2>1 DEF GoesOn, After, Ended, IdlePass
      <4> QED BY <4>1 DEF Recovering, Ids
    <3>4. passes'[p].pc # "removeRead"
      BY <2>1 DEF GoesOn, After, Ended, IdlePass
    <3> QED BY <3>1, <3>2, <3>3, <3>4 DEF Recovering
  <2>2. CASE Evaluates(p)
    BY <2>2 DEF Evaluates, After, Recovering
  <2>3. CASE WritesRows(p)
    BY <2>3 DEF WritesRows, After, Recovering
  <2>4. CASE Deletes(p)
    BY <1>1, <2>4 DEF Deletes, After, Recovering, Ids
  <2>5. CASE Stamps(p)
    BY <2>5 DEF Stamps, After, Ended, IdlePass, Recovering
  <2> QED BY <2>1, <2>2, <2>3, <2>4, <2>5, PassEffect DEF Base
<1> QED BY <1>1, <1>2 DEF Recovering, Ids

LEMMA RecoveringElsewhere ==
    ASSUME "download" \notin Faults, Base, AtTimes, Recovering,
           \/ \E s \in Sweepers : SweepStep(s)
           \/ ClearGcLock \/ RepairIndex \/ ReadManifests \/ WriteRepaired
           \/ RecoverRows \/ RecoverHead \/ Tick \/ Stop \/ DamageIndexFile
           \/ UNCHANGED vars
    PROVE  Recovering'
<1>1. CASE RecoverRows
  <2>1. PICK found : /\ Downloaded(found)
                     /\ recovery' = [pc |-> "head", found |-> found]
                     /\ IF found # {} /\ (indexFile # "ok" \/ ~(found \subseteq rows))
                        THEN rows' = found /\ indexFile' = "ok"
                        ELSE UNCHANGED <<rows, indexFile>>
    BY <1>1 DEF RecoverRows
  <2>2. found = manifests
    BY <2>1, DownloadType DEF Base
  <2>3. /\ UNCHANGED <<manifests, run, passes, repair>> /\ run.pc = "idle"
        /\ repair.pc = "idle" /\ \A p \in Passes : passes[p].pc = "idle"
    BY <1>1 DEF RecoverRows, AtRest, Active
  <2> QED BY <2>1, <2>2, <2>3 DEF Recovering, AtTimes
<1>2. CASE RecoverHead \/ Stop
  BY <1>2 DEF RecoverHead, Stop, IdleRepair, Recovering
<1>3. CASE ReadManifests
  <2>1. PICK found : Downloaded(found) /\ repair' = [pc |-> "write", found |-> found]
    BY <1>3 DEF ReadManifests
  <2>2. found = manifests
    BY <2>1, DownloadType DEF Base
  <2> QED BY <1>3, <2>1, <2>2 DEF ReadManifests, folder, Recovering
<1>4. CASE RepairIndex
  <2>1. repair'.pc = "read"
    BY <1>4 DEF RepairIndex, Base, Typed, DeviceTyped, Fetches
  <2> QED BY <1>4, <2>1 DEF RepairIndex, folder, Recovering
<1>5. CASE WriteRepaired
  BY <1>5 DEF WriteRepaired, IdleRepair, Recovering
<1>6. CASE DamageIndexFile
  BY <1>6 DEF DamageIndexFile, device, Recovering
<1>7. CASE \E s \in Sweepers : SweepStep(s)
  BY <1>7, SweepFrame DEF Recovering
<1>8. CASE ClearGcLock \/ Tick \/ UNCHANGED vars
  BY <1>8 DEF ClearGcLock, Tick, vars, folder, device, Recovering
<1> QED BY <1>1, <1>2, <1>3, <1>4, <1>5, <1>6, <1>7, <1>8

\* The newest of what was found is the newest there is.
LEMMA NewestAgrees ==
    ASSUME Base, NewestStays, AtTimes, Recovering, recovery.pc = "head"
    PROVE  NewestId(recovery.found) = NewestId(manifests)
<1>1. /\ recovery.found \subseteq Put /\ manifests \subseteq recovery.found
      /\ Put \subseteq Known /\ Known \subseteq Snapshots
  BY PutKnown, KnownType DEF Put, Recovering, Base
<1>2. CASE Put = {}
  BY <1>1, <1>2
<1>3. CASE Put # {}
  <2>1. PICK w \in manifests : \A m \in Put : m.id <= w.id
    BY <1>3 DEF NewestStays
  <2>2. \A m \in Put : m.at <= w.at
    BY <1>1, <2>1 DEF Base, History, InOrder
  <2>3. \A m \in recovery.found : m.at \in Nat
    BY <1>1 DEF Snapshots
  <2>4. ASSUME NEW S \in SUBSET recovery.found, w \in S
        PROVE  NewestId(S) = w.id
    <3>1. \A n \in S : n.at <= w.at
      BY <1>1, <2>2
    <3>2. ASSUME NEW c \in S, \A n \in S : n.at <= c.at PROVE c = w
      <4>1. w.at <= c.at /\ c.at <= w.at /\ w.at \in Nat /\ c.at \in Nat
        BY <2>3, <2>4, <3>1, <3>2
      <4>2. w.at = c.at
        BY <4>1
      <4> QED BY <2>4, <4>2 DEF Recovering, Distinct
    <3>3. (CHOOSE m \in S : \A n \in S : n.at <= m.at) = w
      BY <2>4, <3>1, <3>2
    <3> QED BY <2>4, <3>3 DEF NewestId
  <2> QED BY <1>1, <2>1, <2>4
<1> QED BY <1>2, <1>3

RInv == Base /\ NewestStays /\ AtTimes /\ Recovering

LEMMA InitRInv == Init => RInv
<1> SUFFICES ASSUME Init PROVE RInv
  OBVIOUS
<1>1. Put = {} /\ manifests = {} /\ run.pc = "idle" /\ recovery.pc = "idle"
  BY DEF Init, Put, IdleRun, IdlePass, IdleRepair
<1>2. \A p \in Passes : passes[p].todo = {}
  BY DEF Init, IdlePass
<1> QED BY <1>1, <1>2, InitBase DEF RInv, NewestStays, AtTimes, Distinct, Recovering

LEMMA RInvStep ==
    ASSUME KeepN >= 1, "download" \notin Faults
    PROVE  RInv /\ [Next]_vars => RInv'
<1> SUFFICES ASSUME RInv, Next \/ UNCHANGED vars PROVE RInv'
  OBVIOUS
<1>1. Base'
  BY BaseStep DEF RInv
<1>2. NewestStays'
  BY NewestInRun, NewestInPass, NewestElsewhere DEF RInv, Next
<1>3. AtTimes'
  BY AtTimesKept DEF RInv
<1>4. Recovering'
  BY RecoveringInRun, RecoveringInPass, RecoveringElsewhere DEF RInv, Next
<1> QED BY <1>1, <1>2, <1>3, <1>4 DEF RInv

\* Whatever the crash before it left, and whatever passes, repairs and
\* sweeps go on next to it, startup recovery ends with a HEAD that names the
\* newest manifest and an index that misses no manifest, as long as every
\* manifest can be downloaded and retention keeps at least one snapshot.
\* Rows whose manifest is gone may remain.
THEOREM RecoveryMissesNothing ==
    ASSUME KeepN >= 1, "download" \notin Faults PROVE Spec => RecoveryAgrees
<1>1. Init => RInv
  BY InitRInv
<1>2. RInv /\ [Next]_vars => RInv'
  BY RInvStep
<1>3. RInv /\ [Next]_vars =>
          [RecoverHead => /\ head' = NewestId(manifests)
                          /\ manifests # {} => indexFile' = "ok" /\ manifests \subseteq rows']_vars
  <2> SUFFICES ASSUME RInv, RecoverHead
               PROVE  /\ head' = NewestId(manifests)
                      /\ manifests # {} => indexFile' = "ok" /\ manifests \subseteq rows'
    OBVIOUS
  <2>1. recovery.pc = "head" /\ head' = NewestId(recovery.found)
        /\ rows' = rows /\ indexFile' = indexFile
    BY DEF RecoverHead
  <2>2. NewestId(recovery.found) = NewestId(manifests)
    BY <2>1, NewestAgrees DEF RInv
  <2> QED BY <2>1, <2>2 DEF RInv, Recovering
<1> QED BY <1>1, <1>2, <1>3, PTL DEF Spec, RecoveryAgrees
=============================================================================
