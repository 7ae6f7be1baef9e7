----------------------------- MODULE Maintenance -----------------------------
(***************************************************************************)
(* What happens to a Dropbox folder besides backups: retention passes,     *)
(* garbage collection, index repair and startup recovery, next to a backup *)
(* run (SnapshotCommit has its detail) that goes on writing to the folder. *)
(* An action is the code between two Dropbox calls.                        *)
(***************************************************************************)
EXTENDS Retention

CONSTANTS
    Contents,
    Passes,        \* retention passes that may run at a time
    Sweepers,      \* sweeps that may run at a time, on any device
    AgeGate,       \* maxClockSkewMinutes: blobs this young are left alone
    LockTime,      \* a lock older than this is stale
    Interval,      \* RETENTION_INTERVAL_MS
    \* Bounds of the exploration, and what the environment may do.
    Overlap,       \* maintenance that may run next to a backup
    ReuseOrphans,  \* a backup may need a blob that no kept snapshot holds
    RunTime,       \* from the first blob of a run to its row
    ListTime,      \* from the start of a sweep to its listing
    Faults,        \* the kinds of fault that may happen
    MaxClock, MaxFaults, MaxCommands

ASSUME MaintenanceAssumption ==
    /\ {AgeGate, LockTime, Interval, RunTime, ListTime, MaxClock, MaxFaults,
        MaxCommands} \subseteq Nat
    /\ Overlap \subseteq {"retention", "sweep", "repair"}
    /\ Faults \subseteq {"call", "run", "download", "stop", "missing", "corrupt"}
    /\ ReuseOrphans \in BOOLEAN

VARIABLES
    clock,
    manifests, rows, indexFile, blobs, head, lock,  \* the Dropbox folder
    local,     \* index.json: last snapshot, last full, last_retention_at
    verified,  \* BackupService.dropboxChainVerified
    run,       \* the backup run
    passes,    \* the retention passes: the scheduled one, the command's
    sweeps, repair, recovery,
    counts,    \* snapshots made, and the faults and commands so far
    \* History, which no action reads.
    kept,      \* snapshots that were listed and that no pass decided to prune
    abandoned  \* the lock's sweep died with it, or could not remove it

folder == <<manifests, rows, indexFile, blobs, head, lock, abandoned>>
device == <<local, verified, run, passes, sweeps, repair, recovery>>
vars   == <<clock, folder, device, counts, kept>>

Never == -1
NoLock == -1

Snapshots == [id : SnapIds, full : BOOLEAN, parent : SnapIds \cup {NoSnap},
              at : Nat, blobs : SUBSET Contents]
LocalIndexes == [last : SnapIds \cup {NoSnap}, full : SnapIds \cup {NoSnap},
                 retention : Nat \cup {Never}]
NoLocal == [last |-> NoSnap, full |-> NoSnap, retention |-> Never]

IdleRun == [pc |-> "idle", snap |-> {}, started |-> 0, sent |-> {}, copy |-> {}]
IdlePass == [pc |-> "idle", auto |-> FALSE, job |-> NoLocal, own |-> NoLocal, started |-> 0,
             todo |-> {}, copy |-> {}, id |-> NoSnap, pruned |-> FALSE]
IdleSweep == [pc |-> "idle", started |-> 0, refs |-> {}, todo |-> {}]
IdleRepair == [pc |-> "idle", found |-> {}]

TypeOK ==
    /\ clock \in 0..MaxClock
    /\ manifests \subseteq Snapshots /\ rows \subseteq Snapshots
    /\ kept \subseteq Snapshots
    /\ indexFile \in {"ok", "missing", "corrupt"}
    /\ DOMAIN blobs \subseteq Contents /\ \A c \in DOMAIN blobs : blobs[c] \in Nat
    /\ head \in SnapIds \cup {NoSnap} /\ lock \in Nat \cup {NoLock}
    /\ abandoned \in BOOLEAN
    /\ local \in LocalIndexes
    /\ run.pc \in {"idle", "blobs", "append", "appendWrite", "head",
                   "index", "schedule"}
    /\ run.snap \subseteq Snapshots /\ run.copy \subseteq Snapshots
    /\ \A p \in Passes :
           /\ passes[p].pc \in {"idle", "due", "read", "rebuild", "delete",
                                "removeRead", "removeWrite", "jobStamp"}
           /\ {passes[p].job, passes[p].own} \subseteq LocalIndexes
           /\ passes[p].todo \subseteq SnapIds
    /\ \A s \in Sweepers :
           /\ sweeps[s].pc \in {"idle", "lock", "read", "list", "delete", "unlock"}
           /\ sweeps[s].todo \subseteq Contents
    /\ repair.pc \in {"idle", "read", "write"} /\ repair.found \subseteq Snapshots
    /\ recovery.pc \in {"idle", "head"} /\ recovery.found \subseteq Snapshots

Init ==
    /\ clock = 0
    /\ manifests = {} /\ rows = {} /\ indexFile = "missing"
    /\ blobs = <<>> /\ head = NoSnap /\ lock = NoLock
    /\ abandoned = FALSE
    /\ local = NoLocal /\ verified = FALSE
    /\ run = IdleRun
    /\ passes = [p \in Passes |-> IdlePass]
    /\ sweeps = [s \in Sweepers |-> IdleSweep]
    /\ repair = IdleRepair /\ recovery = IdleRepair
    /\ counts = [made |-> 0, faults |-> 0, commands |-> 0]
    /\ kept = {}

Spend(what, max) ==
    counts[what] < max /\ counts' = [counts EXCEPT ![what] = @ + 1]
Command == Spend("commands", MaxCommands)
Fault(kind) == kind \in Faults /\ Spend("faults", MaxFaults)

\* What may run next to what.
Active(kind) ==
    CASE kind = "retention" -> \E p \in Passes : passes[p].pc # "idle"
      [] kind = "sweep" -> \E s \in Sweepers : sweeps[s].pc # "idle"
      [] kind = "repair" -> repair.pc # "idle"
MayStart(kind) == run.pc = "idle" \/ kind \in Overlap

\* A manifest that could not be downloaded is left out of what was found.
Downloaded(found) ==
    \/ found = manifests /\ UNCHANGED counts
    \/ \E m \in manifests : found = manifests \ {m} /\ Fault("download")

(***************************************************************************)
(* Backups, as maintenance sees them.                                      *)
(***************************************************************************)

\* An incremental names the last snapshot of the local index as its parent;
\* once per session the chain is walked, a broken one gives a full backup.
StartBackup(full, needs) ==
    LET fresh == local.full = NoSnap
        broken == ~verified /\ ~Complete(manifests, local.last)
        makeFull == full \/ fresh \/ broken
        snap == [id |-> counts.made + 1, full |-> makeFull,
                 parent |-> IF makeFull THEN NoSnap ELSE local.last,
                 at |-> clock, blobs |-> needs]
    IN  /\ run.pc = "idle"
        /\ \A kind \in {"retention", "sweep", "repair"} \ Overlap : ~Active(kind)
        /\ recovery.pc = "idle"
        /\ ReuseOrphans \/ needs \cap DOMAIN blobs \subseteq UNION {m.blobs : m \in kept}
        /\ \A m \in manifests \cup kept : m.at < clock
        /\ Spend("made", MaxSnaps)
        /\ verified' = (verified \/ ~(full \/ fresh))
        /\ run' = [IdleRun EXCEPT !.pc = "blobs", !.snap = {snap}, !.started = clock]
        /\ UNCHANGED <<clock, folder, local, passes, sweeps, repair, recovery,
                       kept>>

TheSnap == CHOOSE m \in run.snap : TRUE

\* Blobs are uploaded with mode overwrite; no upload is skipped.
UploadBlob(c) ==
    /\ run.pc = "blobs" /\ c \in TheSnap.blobs \ run.sent
    /\ blobs' = [x \in DOMAIN blobs \cup {c} |-> IF x = c THEN clock ELSE blobs[x]]
    /\ run' = [run EXCEPT !.sent = @ \cup {c}]
    /\ UNCHANGED <<clock, manifests, rows, indexFile, head, lock, abandoned, local, verified,
                   passes, sweeps, repair, recovery, counts, kept>>

PutManifest ==
    /\ run.pc = "blobs" /\ run.sent = TheSnap.blobs
    /\ manifests' = manifests \cup run.snap
    /\ run' = [run EXCEPT !.pc = "append"]
    /\ UNCHANGED <<clock, rows, indexFile, blobs, head, lock, abandoned, local, verified,
                   passes, sweeps, repair, recovery, counts, kept>>

\* append reads, a corrupt index is rebuilt from the manifests; a missing one
\* reads as empty.
AppendRead ==
    /\ run.pc = "append"
    /\ \E found \in {{}, rows} \cup SUBSET manifests :
          /\ CASE indexFile = "ok" -> found = rows /\ UNCHANGED counts
               [] indexFile = "missing" -> found = {} /\ UNCHANGED counts
               [] indexFile = "corrupt" -> Downloaded(found)
          /\ run' = [run EXCEPT !.pc = "appendWrite", !.copy = found]
    /\ UNCHANGED <<clock, folder, local, verified, passes, sweeps, repair, recovery,
                   kept>>

AppendWrite ==
    /\ run.pc = "appendWrite"
    /\ rows' = run.copy \cup run.snap
    /\ indexFile' = "ok"
    /\ kept' = kept \cup run.snap
    /\ run' = [run EXCEPT !.pc = "head", !.copy = {}]
    /\ UNCHANGED <<clock, manifests, blobs, head, lock, abandoned, local, verified, passes,
                   sweeps, repair, recovery, counts>>

PutHead ==
    /\ run.pc = "head"
    /\ head' = TheSnap.id
    /\ run' = [run EXCEPT !.pc = "index"]
    /\ UNCHANGED <<clock, manifests, rows, indexFile, blobs, lock, abandoned, local, verified,
                   passes, sweeps, repair, recovery, counts, kept>>

\* saveLocalIndex keeps last_retention_at.
SaveLocalIndex ==
    /\ run.pc = "index"
    /\ local' = [local EXCEPT !.last = TheSnap.id,
                              !.full = IF TheSnap.full THEN TheSnap.id ELSE @]
    /\ run' = [run EXCEPT !.pc = "schedule"]
    /\ UNCHANGED <<clock, folder, verified, passes, sweeps, repair, recovery,
                   counts, kept>>

\* The scheduler's due-check is strict, the service's is not.
DueToSchedule == local.retention = Never \/ clock - local.retention > Interval
DueToRun == local.retention = Never \/ clock - local.retention >= Interval

\* scheduleRetentionIfDue posts the job with the index it read, and the run
\* is over.  A job that is still running is not waited for.
ScheduleRetention ==
    /\ run.pc = "schedule"
    /\ run' = IdleRun
    /\ \/ /\ DueToSchedule
          /\ \E p \in Passes :
                 /\ passes[p].pc = "idle"
                 /\ passes' = [passes EXCEPT ![p] =
                        [IdlePass EXCEPT !.pc = "due", !.auto = TRUE, !.job = local]]
       \/ /\ ~DueToSchedule \/ \A p \in Passes : passes[p].pc # "idle"
          /\ UNCHANGED passes
    /\ UNCHANGED <<clock, folder, local, verified, sweeps, repair, recovery, counts,
                   kept>>

\* A call of the run throws.
FailRun ==
    /\ run.pc \notin {"idle", "schedule"}
    /\ Fault("run")
    /\ run' = IdleRun
    /\ UNCHANGED <<clock, folder, local, verified, passes, sweeps, repair,
                   recovery, kept>>

(***************************************************************************)
(* Retention passes.                                                       *)
(***************************************************************************)
SetPass(p, new) == passes' = [passes EXCEPT ![p] = new]

\* runIfDue, the scheduled job's half before the evaluation.
RunIfDue(p) ==
    /\ passes[p].pc = "due"
    /\ SetPass(p, IF local = NoLocal \/ ~DueToRun
                  THEN [passes[p] EXCEPT !.pc = "jobStamp"]
                  ELSE [passes[p] EXCEPT !.pc = "read", !.own = local,
                                         !.started = clock])
    /\ UNCHANGED <<clock, folder, local, verified, run, sweeps, repair, recovery,
                   counts, kept>>

\* runNow, the command: no throttle.
RunNow(p) ==
    /\ passes[p].pc = "idle" /\ local # NoLocal /\ MayStart("retention")
    /\ Command
    /\ SetPass(p, [IdlePass EXCEPT !.pc = "read", !.own = local, !.started = clock])
    /\ UNCHANGED <<clock, folder, local, verified, run, sweeps, repair, recovery,
                   kept>>

\* loadOrRebuildIndex and computeKeepSet.
ReadAndEvaluate(p) ==
    LET prune == Ids(rows) \ KeepSet(rows, passes[p].started)
    IN  /\ passes[p].pc = "read"
        /\ IF indexFile = "ok"
           THEN /\ SetPass(p, [passes[p] EXCEPT !.pc = "delete", !.todo = prune])
                /\ kept' = {m \in kept : m.id \notin prune}
                /\ UNCHANGED counts
           ELSE \E found \in SUBSET manifests :
                /\ Downloaded(found)
                /\ SetPass(p, [passes[p] EXCEPT !.pc = "rebuild", !.copy = found])
                /\ UNCHANGED kept
        /\ UNCHANGED <<clock, folder, local, verified, run, sweeps, repair,
                       recovery>>

RebuildRows(p) ==
    /\ passes[p].pc = "rebuild"
    /\ rows' = passes[p].copy /\ indexFile' = "ok"
    /\ SetPass(p, [passes[p] EXCEPT !.pc = "read", !.copy = {}])
    /\ UNCHANGED <<clock, manifests, blobs, head, lock, abandoned, local, verified, run, sweeps,
                   repair, recovery, counts, kept>>

GiveUpOn(p, id) == SetPass(p, [passes[p] EXCEPT !.pc = "delete", !.todo = @ \ {id}])

\* deleteV2 of the manifest; one that is gone already counts as a failure.
DeleteManifest(p, id) ==
    /\ passes[p].pc = "delete" /\ id \in passes[p].todo
    /\ IF id \in Ids(manifests)
       THEN SetPass(p, [passes[p] EXCEPT !.pc = "removeRead", !.id = id])
       ELSE GiveUpOn(p, id)
    /\ manifests' = {m \in manifests : m.id # id}
    /\ UNCHANGED <<clock, rows, indexFile, blobs, head, lock, abandoned, local, verified, run,
                   sweeps, repair, recovery, counts, kept>>

\* The delete fails, or its answer is lost and the retry finds nothing.
DeleteFails(p, id) ==
    /\ passes[p].pc = "delete" /\ id \in passes[p].todo
    /\ Fault("call")
    /\ GiveUpOn(p, id)
    /\ manifests' \in {manifests, {m \in manifests : m.id # id}}
    /\ UNCHANGED <<clock, rows, indexFile, blobs, head, lock, abandoned, local, verified, run,
                   sweeps, repair, recovery, kept>>

Pruned(p) == SetPass(p, [passes[p] EXCEPT !.pc = "delete", !.pruned = TRUE,
                                          !.todo = @ \ {passes[p].id}, !.copy = {}])

\* SnapshotIndexStore.remove, which does not go through the write queue.
RemoveRead(p) ==
    /\ passes[p].pc = "removeRead"
    /\ CASE indexFile = "corrupt" -> GiveUpOn(p, passes[p].id)
         [] indexFile = "missing" \/ passes[p].id \notin Ids(rows) -> Pruned(p)
         [] OTHER -> SetPass(p, [passes[p] EXCEPT !.pc = "removeWrite",
                                 !.copy = {m \in rows : m.id # passes[p].id}])
    /\ UNCHANGED <<clock, folder, local, verified, run, sweeps, repair, recovery,
                   counts, kept>>

RemoveWrite(p) ==
    /\ passes[p].pc = "removeWrite"
    /\ \/ rows' = passes[p].copy /\ indexFile' = "ok" /\ Pruned(p)
          /\ UNCHANGED counts
       \/ Fault("call") /\ GiveUpOn(p, passes[p].id)
          /\ UNCHANGED <<rows, indexFile>>
    /\ UNCHANGED <<clock, manifests, blobs, head, lock, abandoned, local, verified, run, sweeps,
                   repair, recovery, kept>>

\* A sweep that wrote the lock, and has yet to remove it.
HoldsLock(s) == sweeps[s].pc \in {"read", "list", "delete", "unlock"}

StartSweep(s) == sweeps' = [sweeps EXCEPT ![s] = [IdleSweep EXCEPT
                     !.pc = "lock", !.started = clock]]

\* A sweep reads the lock: a fresh one stops it, no lock or a stale one not.
CheckLock(s) ==
    /\ sweeps[s].pc = "idle"
    /\ IF lock # NoLock /\ clock - lock <= LockTime
       THEN UNCHANGED sweeps
       ELSE StartSweep(s)

\* persistTimestamp saves the index the pass loaded at its start, and a pass
\* that pruned sets off a sweep.
StampPass(p) ==
    /\ passes[p].pc = "delete" /\ passes[p].todo = {}
    /\ local' = [passes[p].own EXCEPT !.retention = passes[p].started]
    /\ SetPass(p, IF passes[p].auto THEN [passes[p] EXCEPT !.pc = "jobStamp"]
                  ELSE IdlePass)
    /\ \/ passes[p].pruned /\ \E s \in Sweepers : CheckLock(s)
       \/ /\ ~passes[p].pruned \/ \A s \in Sweepers : sweeps[s].pc # "idle"
          /\ UNCHANGED sweeps
    /\ UNCHANGED <<clock, folder, verified, run, repair, recovery, counts, kept>>

\* runJob saves the index it was posted with.
StampJob(p) ==
    /\ passes[p].pc = "jobStamp"
    /\ local' = [passes[p].job EXCEPT !.retention = clock]
    /\ SetPass(p, IdlePass)
    /\ UNCHANGED <<clock, folder, verified, run, sweeps, repair, recovery, counts,
                   kept>>

(***************************************************************************)
(* Garbage collection.                                                     *)
(***************************************************************************)
\* Triggered by the command; StampPass triggers it after a pass.
SweepCommand(s) ==
    /\ MayStart("sweep") /\ Command
    /\ CheckLock(s)
    /\ UNCHANGED <<clock, folder, local, verified, run, passes, repair, recovery,
                   kept>>

\* A write that throws, its answer lost perhaps, comes before the try.
WriteLock(s) ==
    /\ sweeps[s].pc = "lock"
    /\ \/ /\ lock' = sweeps[s].started /\ abandoned' = FALSE
          /\ sweeps' = [sweeps EXCEPT ![s].pc = "read"]
          /\ UNCHANGED counts
       \/ /\ Fault("call")
          /\ \/ lock' = sweeps[s].started /\ abandoned' = TRUE
             \/ UNCHANGED <<lock, abandoned>>
          /\ sweeps' = [sweeps EXCEPT ![s] = IdleSweep]
    /\ UNCHANGED <<clock, manifests, rows, indexFile, blobs, head, local, verified,
                   run, passes, repair, recovery, kept>>

\* buildReferencedSet; without a readable index nothing is swept.
ReadReferences(s) ==
    /\ sweeps[s].pc = "read"
    /\ sweeps' = [sweeps EXCEPT ![s] =
           IF indexFile = "ok"
           THEN [@ EXCEPT !.pc = "list", !.refs = UNION {m.blobs : m \in rows}]
           ELSE [@ EXCEPT !.pc = "unlock"]]
    /\ UNCHANGED <<clock, folder, local, verified, run, passes, repair, recovery,
                   counts, kept>>

\* Mutant: the age gate looks only at what was uploaded before the sweep.
ListOlder(s) ==
    /\ sweeps[s].pc = "list"
    /\ sweeps' = [sweeps EXCEPT ![s].pc = "delete", ![s].todo =
           {c \in DOMAIN blobs \ sweeps[s].refs :
               blobs[c] < sweeps[s].started - AgeGate \/ blobs[c] >= sweeps[s].started}]
    /\ UNCHANGED <<clock, folder, local, verified, run, passes, repair, recovery,
                   counts, kept>>

\* content/ is listed after the index was read; blobs uploaded around the
\* start of the sweep are left to a later one.
ListContent(s) ==
    /\ sweeps[s].pc = "list"
    /\ sweeps' = [sweeps EXCEPT ![s].pc = "delete", ![s].todo =
           {c \in DOMAIN blobs \ sweeps[s].refs :
               blobs[c] \notin sweeps[s].started - AgeGate .. sweeps[s].started + AgeGate}]
    /\ UNCHANGED <<clock, folder, local, verified, run, passes, repair, recovery,
                   counts, kept>>

\* A delete that fails is logged, the blob stays for the next sweep.
DeleteBlob(s, c) ==
    /\ sweeps[s].pc = "delete" /\ c \in sweeps[s].todo
    /\ sweeps' = [sweeps EXCEPT ![s].todo = @ \ {c}]
    /\ \/ blobs' = [x \in DOMAIN blobs \ {c} |-> blobs[x]] /\ UNCHANGED counts
       \/ Fault("call") /\ UNCHANGED blobs
    /\ UNCHANGED <<clock, manifests, rows, indexFile, head, lock, abandoned, local, verified,
                   run, passes, repair, recovery, kept>>

\* finally: whatever lock lies there is removed, unless the call fails.
RemoveLock(s) ==
    /\ \/ sweeps[s].pc = "unlock"
       \/ sweeps[s].pc = "delete" /\ sweeps[s].todo = {}
    /\ sweeps' = [sweeps EXCEPT ![s] = IdleSweep]
    /\ \/ lock' = NoLock /\ abandoned' = FALSE /\ UNCHANGED counts
       \/ Fault("call") /\ abandoned' = (lock # NoLock) /\ UNCHANGED lock
    /\ UNCHANGED <<clock, manifests, rows, indexFile, blobs, head, local, verified,
                   run, passes, repair, recovery, kept>>

ClearGcLock ==
    /\ lock # NoLock /\ Command
    /\ lock' = NoLock /\ abandoned' = FALSE
    /\ UNCHANGED <<clock, manifests, rows, indexFile, blobs, head, device, kept>>

(***************************************************************************)
(* Repair of the index, and startup recovery.                              *)
(***************************************************************************)
RepairIndex ==
    /\ repair.pc = "idle" /\ MayStart("repair") /\ Command
    /\ repair' = [repair EXCEPT !.pc = "read"]
    /\ UNCHANGED <<clock, folder, local, verified, run, passes, sweeps, recovery,
                   kept>>

ReadManifests ==
    /\ repair.pc = "read"
    /\ \E found \in SUBSET manifests :
          /\ Downloaded(found)
          /\ repair' = [pc |-> "write", found |-> found]
    /\ UNCHANGED <<clock, folder, local, verified, run, passes, sweeps, recovery,
                   kept>>

WriteRepaired ==
    /\ repair.pc = "write"
    /\ rows' = repair.found /\ indexFile' = "ok"
    /\ repair' = IdleRepair
    /\ UNCHANGED <<clock, manifests, blobs, head, lock, abandoned, local, verified, run, passes,
                   sweeps, recovery, counts, kept>>

NewestId(S) == IF S = {} THEN NoSnap
               ELSE (CHOOSE m \in S : \A n \in S : n.at <= m.at).id

AtRest == ~\E kind \in {"retention", "sweep", "repair"} : Active(kind)

\* recoverOnStartup up to the index: without a local index it gives up, an
\* index that misses a manifest is rebuilt.
RecoverRows ==
    /\ AtRest /\ run.pc = "idle" /\ recovery.pc = "idle" /\ local # NoLocal
    /\ \E found \in SUBSET manifests :
          /\ Downloaded(found)
          /\ recovery' = [pc |-> "head", found |-> found]
          /\ IF found # {} /\ (indexFile # "ok" \/ ~(found \subseteq rows))
             THEN rows' = found /\ indexFile' = "ok"
             ELSE UNCHANGED <<rows, indexFile>>
    /\ UNCHANGED <<clock, manifests, blobs, head, lock, abandoned, local, verified, run, passes,
                   sweeps, repair, kept>>

\* Mutant: a HEAD that names an existing snapshot is left alone.
RecoverOrphanHead ==
    /\ recovery.pc = "head"
    /\ head' = IF head \in Ids(recovery.found) THEN head ELSE NewestId(recovery.found)
    /\ recovery' = IdleRepair
    /\ UNCHANGED <<clock, manifests, rows, indexFile, blobs, lock, abandoned, local, verified,
                   run, passes, sweeps, repair, counts, kept>>

\* HEAD is rewritten to the newest manifest, or deleted when there is none.
\* The files of the local index change with it, its snapshot ids do not.
RecoverHead ==
    /\ recovery.pc = "head"
    /\ head' = NewestId(recovery.found)
    /\ recovery' = IdleRepair
    /\ UNCHANGED <<clock, manifests, rows, indexFile, blobs, lock, abandoned, local, verified,
                   run, passes, sweeps, repair, counts, kept>>

(***************************************************************************)
(* Time and faults.                                                        *)
(***************************************************************************)
Tick ==
    /\ clock < MaxClock
    /\ run.pc \in {"blobs", "append", "appendWrite"} => clock < run.started + RunTime
    /\ \A s \in Sweepers : sweeps[s].pc \in {"lock", "read", "list"} =>
           clock < sweeps[s].started + ListTime
    /\ clock' = clock + 1
    /\ UNCHANGED <<folder, device, counts, kept>>

\* A pass throws before its evaluation; a scheduled one logs it.
FailPass(p) ==
    /\ passes[p].pc \in {"due", "read", "rebuild"} /\ Fault("call")
    /\ SetPass(p, IdlePass)
    /\ UNCHANGED <<clock, folder, local, verified, run, sweeps, repair, recovery,
                   kept>>

\* Mutant: a sweep that throws does so past its finally.
ThrowPastFinally(s) ==
    /\ sweeps[s].pc \in {"read", "list"} /\ Fault("call")
    /\ sweeps' = [sweeps EXCEPT ![s] = IdleSweep]
    /\ UNCHANGED <<clock, folder, local, verified, run, passes, repair, recovery,
                   kept>>

\* The read of the index or the listing throws: the lock is removed all the same.
FailSweep(s) ==
    /\ sweeps[s].pc \in {"read", "list"} /\ Fault("call")
    /\ sweeps' = [sweeps EXCEPT ![s].pc = "unlock"]
    /\ UNCHANGED <<clock, folder, local, verified, run, passes, repair, recovery,
                   kept>>

\* Obsidian dies: what was running is gone, what was written stays.
Stop ==
    /\ Fault("stop")
    /\ ~AtRest \/ run.pc # "idle" \/ recovery.pc # "idle"
    /\ abandoned' = (abandoned \/ \E s \in Sweepers : lock # NoLock /\ HoldsLock(s))
    /\ verified' = FALSE /\ run' = IdleRun
    /\ passes' = [p \in Passes |-> IdlePass]
    /\ sweeps' = [s \in Sweepers |-> IdleSweep]
    /\ repair' = IdleRepair /\ recovery' = IdleRepair
    /\ UNCHANGED <<clock, manifests, rows, indexFile, blobs, head, lock, local, kept>>

DamageIndexFile ==
    /\ indexFile = "ok" /\ recovery.pc = "idle"
    /\ \E kind \in {"missing", "corrupt"} : Fault(kind) /\ indexFile' = kind
    /\ rows' = {}
    /\ UNCHANGED <<clock, manifests, blobs, head, lock, abandoned, device, kept>>

BackupStep ==
    \/ \E full \in BOOLEAN, needs \in (SUBSET Contents) \ {{}} : StartBackup(full, needs)
    \/ \E c \in Contents : UploadBlob(c)
    \/ PutManifest \/ AppendRead \/ AppendWrite \/ PutHead \/ SaveLocalIndex
    \/ ScheduleRetention \/ FailRun

PassStep(p) ==
    \/ RunIfDue(p) \/ RunNow(p) \/ ReadAndEvaluate(p) \/ RebuildRows(p)
    \/ \E id \in SnapIds : DeleteManifest(p, id) \/ DeleteFails(p, id)
    \/ RemoveRead(p) \/ RemoveWrite(p) \/ StampPass(p) \/ StampJob(p) \/ FailPass(p)

SweepStep(s) ==
    \/ SweepCommand(s) \/ WriteLock(s) \/ ReadReferences(s) \/ ListContent(s)
    \/ \E c \in Contents : DeleteBlob(s, c)
    \/ RemoveLock(s) \/ FailSweep(s)

Next ==
    \/ BackupStep
    \/ \E p \in Passes : PassStep(p)
    \/ \E s \in Sweepers : SweepStep(s)
    \/ ClearGcLock \/ RepairIndex \/ ReadManifests \/ WriteRepaired
    \/ RecoverRows \/ RecoverHead
    \/ Tick \/ Stop \/ DamageIndexFile

Spec == Init /\ [][Next]_vars
=============================================================================
