--------------------------- MODULE SnapshotCommit ---------------------------
(***************************************************************************)
(* BackupService: full and incremental backups of one vault by one device, *)
(* with the event queue they consume and the Dropbox objects they write.   *)
(* Every await of the code that lets something else happen is a boundary   *)
(* between two actions: the user edits, the queue is saved, a call fails,  *)
(* Obsidian dies and restarts between any two steps of a run.              *)
(***************************************************************************)
EXTENDS Manifests

CONSTANTS
    Excluded,          \* paths the exclusion globs match
    DedupWindow,       \* DEDUP_WINDOW_MS
    Minute,            \* milliseconds that share a snapshot id
    MaxDepth,          \* CHAIN_WALK_MAX_DEPTH
    ReconcileEnabled,  \* settings.advanced.reconcile_scan_enabled
    \* Bounds of the exploration.
    EditKinds,         \* kinds of edits the user makes
    EventGap,          \* time between an edit and what happened before it
    RunGap,            \* time between a backup and what happened before it
    MaxStarts,         \* fulls and manual incrementals together
    MaxEdits, MaxFulls, MaxManual, MaxFails, MaxStops, MaxLosses

ASSUME SnapshotCommitAssumption ==
    /\ Excluded \subseteq Paths
    /\ {DedupWindow, EventGap, RunGap, MaxStarts, MaxEdits, MaxFulls, MaxManual,
        MaxFails, MaxStops, MaxLosses} \subseteq Nat
    /\ {Minute, MaxDepth} \subseteq Nat \ {0}
    /\ ReconcileEnabled \in BOOLEAN
    /\ EditKinds \subseteq {"create", "modify", "delete", "rename"}

VARIABLES
    clock,
    vault,          \* the files on disk
    loaded,         \* Obsidian runs, the plugin is loaded
    queue,          \* EventQueue.state.entries
    queueDisk,      \* pending_changes.json
    index,          \* index.json: last snapshot ids and the files they hold
    firstInc,       \* BackupService.firstIncSinceLoad
    chainVerified,  \* BackupService.dropboxChainVerified
    blobs, manifests, rows, rowsOk, head,   \* the Dropbox folder
    pc, kind, reconcile, snap, plan, todo, read, createdAt, man, cursor,
    edits, fulls, manual, fails, stops, losses,
    missed,         \* paths changed while nobody observed the vault
    committed,      \* a backup moved HEAD since the plugin was loaded
    gaveUp          \* the session's walk gave a chain up, and no full backup
                    \* has taken its place in the local index since

memory == <<firstInc, chainVerified>>
remote == <<blobs, manifests, rows, rowsOk, head>>
run    == <<pc, kind, reconcile, snap, plan, todo, read, createdAt, man,
            cursor>>
counts == <<edits, fulls, manual, fails, stops, losses>>
ghosts == <<missed, committed, gaveUp>>
vars   == <<clock, vault, loaded, queue, queueDisk, index, memory, remote,
            run, counts, ghosts>>

NoIndex == [full |-> NoId, inc |-> NoId, files |-> EmptyMap]
LastId(ix) == IF ix.inc # NoId THEN ix.inc ELSE ix.full

Blank == FullManifest(0, Minute, EmptyMap)

\* Mutant: the row lists the paths instead of the hashes.
RowWithPaths(m) == [id |-> m.id, type |-> m.type, parent |-> m.parent,
                    createdAt |-> m.createdAt, blobs |-> DOMAIN m.files]

RowOf(m) == [id |-> m.id, type |-> m.type, parent |-> m.parent,
             createdAt |-> m.createdAt, blobs |-> Values(m.files)]

Phases == {"idle", "walk", "queue", "scan", "stamp", "list", "read", "blobs",
           "row", "head", "index", "cursor"}

StoreTypeOK ==
    /\ clock \in Nat
    /\ vault \in FileMaps
    /\ {loaded, firstInc, chainVerified, rowsOk, reconcile, committed, gaveUp}
           \subseteq BOOLEAN
    /\ index.full \in SnapshotIds \cup {NoId}
    /\ index.inc \in SnapshotIds \cup {NoId}
    /\ blobs \subseteq Contents
    /\ DOMAIN manifests \subseteq SnapshotIds
    /\ \A id \in DOMAIN manifests :
           /\ manifests[id].id = id
           /\ manifests[id].files \in FileMaps
    /\ head \in SnapshotIds \cup {NoId}
    /\ pc \in Phases /\ kind \in Kinds
    /\ todo \subseteq Paths /\ read \in FileMaps
    /\ man.id \in SnapshotIds /\ man.files \in FileMaps
    /\ {createdAt, edits, fulls, manual, fails, stops, losses} \subseteq Nat

QueueTypeOK ==
    /\ {queue, queueDisk, snap} \subseteq Seq(Events)
    /\ plan \in [changes : SUBSET Paths, deleted : SUBSET Paths,
                 renames : Seq(Renames)]
    /\ cursor \in Nat
    /\ index \in [full : SnapshotIds \cup {NoId}, inc : SnapshotIds \cup {NoId},
                  files : FileMaps]
    /\ Values(manifests) \cup {man} \subseteq Manifest
    /\ rows \subseteq [id : SnapshotIds, type : Kinds,
                       parent : SnapshotIds \cup {NoId}, createdAt : Nat,
                       blobs : SUBSET Contents]
    /\ missed \subseteq Paths

TypeOK == StoreTypeOK /\ QueueTypeOK

RunInit ==
    /\ pc = "idle" /\ kind = "inc" /\ reconcile = FALSE /\ snap = <<>>
    /\ plan = EmptyBuckets /\ todo = {} /\ read = EmptyMap
    /\ createdAt = 0 /\ man = Blank /\ cursor = 0

\* The run's locals go out of scope, whether it returned or threw.
RunOver ==
    /\ pc' = "idle" /\ kind' = "inc" /\ reconcile' = FALSE /\ snap' = <<>>
    /\ plan' = EmptyBuckets /\ todo' = {} /\ read' = EmptyMap
    /\ createdAt' = 0 /\ man' = Blank /\ cursor' = 0

Init ==
    /\ clock = 0
    /\ \/ vault = EmptyMap
       \/ \E p \in Paths, c \in Contents : vault = [x \in {p} |-> c]
    /\ loaded = TRUE
    /\ queue = <<>> /\ queueDisk = <<>>
    /\ index = NoIndex
    /\ firstInc = TRUE /\ chainVerified = FALSE
    /\ blobs = {} /\ manifests = EmptyMap /\ rows = {} /\ rowsOk = TRUE
    /\ head = NoId
    /\ RunInit
    /\ edits = 0 /\ fulls = 0 /\ manual = 0 /\ fails = 0 /\ stops = 0 /\ losses = 0
    /\ missed = {} /\ committed = FALSE /\ gaveUp = FALSE

(***************************************************************************)
(* The user's edits, and the vault events ChangeDetector makes of them.    *)
(***************************************************************************)
\* An edit changes the vault and, when observed, is dispatched to the queue.
\* The path an event is about decides whether it is excluded.
Edit(type, path, prev, after) ==
    LET at == clock + EventGap
        e == [type |-> type, path |-> path, prev |-> prev, at |-> at]
        touched == {path, prev} \cap Paths
    IN  /\ edits < MaxEdits /\ type \in EditKinds
        /\ edits' = edits + 1
        /\ clock' = at
        /\ vault' = after
        /\ IF loaded
           THEN /\ queue' = IF path \in Excluded THEN queue
                            ELSE Enqueue(queue, e, DedupWindow)
                /\ missed' = missed \ touched
                /\ UNCHANGED queueDisk
           ELSE /\ missed' = missed \cup touched
                /\ UNCHANGED <<queue, queueDisk>>
        /\ UNCHANGED <<loaded, index, memory, remote, run, fulls, manual,
                       fails, stops, losses, committed, gaveUp>>

Create(p, c) ==
    /\ p \notin DOMAIN vault
    /\ Edit("create", p, NoPath, Overlay(vault, [x \in {p} |-> c]))

\* A modify event may leave the content as it was (formatters).
Modify(p, c) ==
    /\ p \in DOMAIN vault
    /\ Edit("modify", p, NoPath, Overlay(vault, [x \in {p} |-> c]))

Delete(p) ==
    /\ p \in DOMAIN vault
    /\ Edit("delete", p, NoPath, Without(vault, {p}))

Rename(p, q) ==
    /\ p \in DOMAIN vault /\ q \notin DOMAIN vault
    /\ Edit("rename", q, p,
            Overlay(Without(vault, {p}), [x \in {q} |-> vault[p]]))

UserEdit ==
    \/ \E p \in Paths, c \in Contents : Create(p, c) \/ Modify(p, c)
    \/ \E p \in Paths : Delete(p)
    \/ \E p, q \in Paths : Rename(p, q)

\* saveQueue, which lags behind the queue in memory.
PersistQueue ==
    /\ loaded /\ queueDisk # queue
    /\ queueDisk' = queue
    /\ UNCHANGED <<clock, vault, loaded, queue, index, memory, remote, run,
                   counts, ghosts>>

(***************************************************************************)
(* Starting a run.                                                         *)
(***************************************************************************)
EnterFull(now) == pc' = "list" /\ kind' = "full" /\ createdAt' = now

StartFull ==
    /\ loaded /\ pc = "idle" /\ fulls < MaxFulls /\ fulls + manual < MaxStarts
    /\ fulls' = fulls + 1
    /\ clock' = clock + RunGap
    /\ EnterFull(clock + RunGap)
    /\ UNCHANGED <<vault, loaded, queue, queueDisk, index, memory, remote,
                   reconcile, snap, plan, todo, read, man, cursor, edits,
                   manual, fails, stops, losses, ghosts>>

\* runIncremental up to its first decision: the reconcile flag is claimed
\* at once, a vault without an index is promoted to a full backup.
StartInc ==
    /\ loaded /\ pc = "idle"
    /\ firstInc' = FALSE
    /\ reconcile' = (firstInc /\ ReconcileEnabled)
    /\ clock' = clock + RunGap
    /\ IF index.full = NoId
       THEN EnterFull(clock + RunGap)
       ELSE /\ pc' = IF chainVerified THEN "queue" ELSE "walk"
            /\ UNCHANGED <<kind, createdAt>>
    /\ UNCHANGED <<vault, loaded, queue, queueDisk, index, chainVerified,
                   remote, snap, plan, todo, read, man, cursor, edits, fulls,
                   fails, stops, losses, ghosts>>

\* Mutant: only the first tick after a load backs up.
TickOnce == firstInc /\ queueDisk # <<>> /\ StartInc /\ UNCHANGED manual

\* A tick starts an inc a batch window after the earliest pending event,
\* long after that event was saved.
TickInc == queueDisk # <<>> /\ StartInc /\ UNCHANGED manual

ManualInc ==
    /\ manual < MaxManual /\ fulls + manual < MaxStarts
    /\ StartInc
    /\ manual' = manual + 1

\* Mutant: the chain is trusted without a walk.
TrustChain ==
    /\ pc = "walk"
    /\ chainVerified' = TRUE
    /\ pc' = "queue"
    /\ UNCHANGED <<clock, vault, loaded, queue, queueDisk, index, firstInc,
                   remote, kind, reconcile, snap, plan, todo, read, createdAt,
                   man, cursor, counts, ghosts>>

\* Mutant: only the newest manifest is probed.
ProbeNewest ==
    /\ pc = "walk"
    /\ chainVerified' = TRUE
    /\ IF LastId(index) \in DOMAIN manifests
       THEN pc' = "queue" /\ UNCHANGED <<kind, createdAt, gaveUp>>
       ELSE EnterFull(clock) /\ gaveUp' = TRUE
    /\ UNCHANGED <<clock, vault, loaded, queue, queueDisk, index, firstInc,
                   remote, reconcile, snap, plan, todo, read, man, cursor,
                   counts, missed, committed>>

\* Once per session: a broken chain is given up for a full backup.
WalkChain ==
    /\ pc = "walk"
    /\ chainVerified' = TRUE
    /\ IF ChainIntact(manifests, LastId(index), MaxDepth)
       THEN pc' = "queue" /\ UNCHANGED <<kind, createdAt, gaveUp>>
       ELSE EnterFull(clock) /\ gaveUp' = TRUE
    /\ UNCHANGED <<clock, vault, loaded, queue, queueDisk, index, firstInc,
                   remote, reconcile, snap, plan, todo, read, man, cursor,
                   counts, missed, committed>>

\* loadQueue reads the file, not the queue in memory.
LoadQueue ==
    /\ pc = "queue"
    /\ IF ~reconcile /\ queueDisk = <<>>
       THEN RunOver
       ELSE /\ snap' = queueDisk
            /\ pc' = IF reconcile THEN "scan" ELSE "stamp"
            /\ plan' = IF reconcile THEN plan ELSE Bucket(queueDisk)
            /\ UNCHANGED <<kind, reconcile, todo, read, createdAt, man, cursor>>
    /\ UNCHANGED <<clock, vault, loaded, queue, queueDisk, index, memory,
                   remote, counts, ghosts>>

\* reconcileScan: what differs from the index.  Deletions are reported for
\* excluded paths too.
Scanned ==
    {p \in DOMAIN vault \ Excluded : Lookup(index.files, p) # {vault[p]}}
        \cup (DOMAIN index.files \ DOMAIN vault)

\* getChangedPaths merges the scan with the queue in memory; both ends of
\* a queued rename are left to the renames bucket.
ReconcilePlan ==
    LET buckets == Bucket(snap)
        merged == (Scanned \cup {queue[i].path : i \in DOMAIN queue})
                      \ RenameEnds(buckets.renames)
    IN  [changes |-> merged \cap DOMAIN vault,
         deleted |-> buckets.deleted \cup (merged \ DOMAIN vault),
         renames |-> buckets.renames]

Reconcile ==
    /\ pc = "scan"
    /\ IF ReconcilePlan = EmptyBuckets
       THEN RunOver /\ missed' = {}
       ELSE /\ plan' = ReconcilePlan
            /\ pc' = "stamp"
            /\ UNCHANGED <<kind, reconcile, snap, todo, read, createdAt, man,
                           cursor, missed>>
    /\ UNCHANGED <<clock, vault, loaded, queue, queueDisk, index, memory,
                   remote, counts, committed, gaveUp>>

\* After the ownership and conflict checks: created_at, and the files left.
StampInc ==
    /\ pc = "stamp"
    /\ createdAt' = clock
    /\ todo' = plan.changes \cap DOMAIN vault
    /\ pc' = "read"
    /\ UNCHANGED <<clock, vault, loaded, queue, queueDisk, index, memory,
                   remote, kind, reconcile, snap, plan, read, man, cursor,
                   counts, ghosts>>

\* A full backup lists the vault after the same checks, created_at before.
ListVault ==
    /\ pc = "list"
    /\ todo' = DOMAIN vault
    /\ pc' = "read"
    /\ UNCHANGED <<clock, vault, loaded, queue, queueDisk, index, memory,
                   remote, kind, reconcile, snap, plan, read, createdAt, man,
                   cursor, counts, ghosts>>

ReadFile(p) ==
    /\ pc = "read" /\ p \in todo /\ p \in DOMAIN vault
    /\ read' = Overlay(read, [x \in {p} |-> vault[p]])
    /\ todo' = todo \ {p}
    /\ UNCHANGED <<clock, vault, loaded, queue, queueDisk, index, memory,
                   remote, pc, kind, reconcile, snap, plan, createdAt, man,
                   cursor, counts, ghosts>>

\* readBytes of a file that is gone throws, and the run with it.
ReadVanished(p) ==
    /\ pc = "read" /\ p \in todo /\ p \notin DOMAIN vault
    /\ RunOver
    /\ UNCHANGED <<clock, vault, loaded, queue, queueDisk, index, memory,
                   remote, counts, ghosts>>

(***************************************************************************)
(* The manifest, and the commit protocol.                                  *)
(***************************************************************************)
BuildFull ==
    /\ pc = "read" /\ todo = {} /\ kind = "full"
    /\ man' = FullManifest(createdAt, Minute, read)
    /\ cursor' = createdAt
    /\ pc' = "blobs"
    /\ UNCHANGED <<clock, vault, loaded, queue, queueDisk, index, memory,
                   remote, kind, reconcile, snap, plan, todo, read, createdAt,
                   counts, ghosts>>

IncFiles == ChangedFiles(read, index.files)
NothingChanged == IsEmptyChange(IncFiles, plan.deleted, plan.renames)

BuildInc ==
    /\ pc = "read" /\ todo = {} /\ kind = "inc" /\ ~NothingChanged
    /\ man' = IncManifest(createdAt, Minute, LastId(index), IncFiles,
                          plan.deleted, plan.renames)
    /\ cursor' = IF snap = <<>> THEN createdAt ELSE LastObservedAt(snap)
    /\ pc' = "blobs"
    /\ UNCHANGED <<clock, vault, loaded, queue, queueDisk, index, memory,
                   remote, kind, reconcile, snap, plan, todo, read, createdAt,
                   counts, ghosts>>

CommitWindow(through) ==
    /\ queue' = Prune(queue, through)
    /\ queueDisk' = queue'

\* Files were rewritten with the content they had: only the cursor moves.
SkipInc ==
    /\ pc = "read" /\ todo = {} /\ kind = "inc" /\ NothingChanged
    /\ CommitWindow(IF snap = <<>> THEN clock ELSE LastObservedAt(snap))
    /\ missed' = IF reconcile THEN {} ELSE missed
    /\ RunOver
    /\ UNCHANGED <<clock, vault, loaded, index, memory, remote, counts,
                   committed, gaveUp>>

\* Every content read is uploaded; overwriting a blob changes nothing.
UploadBlob(c) ==
    /\ pc = "blobs" /\ c \in Values(read) \ blobs
    /\ blobs' = blobs \cup {c}
    /\ UNCHANGED <<clock, vault, loaded, queue, queueDisk, index, memory,
                   manifests, rows, rowsOk, head, run, counts, ghosts>>

\* Mutant: the manifest does not wait for the uploads.
PutManifestEarly ==
    /\ pc = "blobs"
    /\ manifests' = Overlay(manifests, [x \in {man.id} |-> man])
    /\ pc' = "row"
    /\ UNCHANGED <<clock, vault, loaded, queue, queueDisk, index, memory,
                   blobs, rows, rowsOk, head, kind, reconcile, snap, plan,
                   todo, read, createdAt, man, cursor, counts, ghosts>>

PutManifest ==
    /\ pc = "blobs" /\ Values(read) \subseteq blobs
    /\ manifests' = Overlay(manifests, [x \in {man.id} |-> man])
    /\ pc' = "row"
    /\ UNCHANGED <<clock, vault, loaded, queue, queueDisk, index, memory,
                   blobs, rows, rowsOk, head, kind, reconcile, snap, plan,
                   todo, read, createdAt, man, cursor, counts, ghosts>>

\* Mutant: an unreadable index is replaced by the new row alone.
AppendRowTruncating ==
    /\ pc = "row"
    /\ rows' = IF rowsOk THEN rows \cup {RowOf(man)} ELSE {RowOf(man)}
    /\ rowsOk' = TRUE
    /\ pc' = "head"
    /\ UNCHANGED <<clock, vault, loaded, queue, queueDisk, index, memory,
                   blobs, manifests, head, kind, reconcile, snap, plan, todo,
                   read, createdAt, man, cursor, counts, ghosts>>

\* Mutant: HEAD moves before the snapshot is listed.
AppendRowLate ==
    /\ pc = "row"
    /\ rows' = IF rowsOk THEN rows ELSE {RowOf(m) : m \in Values(manifests)}
    /\ rowsOk' = TRUE
    /\ pc' = "head"
    /\ UNCHANGED <<clock, vault, loaded, queue, queueDisk, index, memory,
                   blobs, manifests, head, kind, reconcile, snap, plan, todo,
                   read, createdAt, man, cursor, counts, ghosts>>

\* An unreadable index is rebuilt from the manifests, this one included.
AppendRow ==
    /\ pc = "row"
    /\ rows' = IF rowsOk THEN rows \cup {RowOf(man)}
               ELSE {RowOf(m) : m \in Values(manifests)}
    /\ rowsOk' = TRUE
    /\ pc' = "head"
    /\ UNCHANGED <<clock, vault, loaded, queue, queueDisk, index, memory,
                   blobs, manifests, head, kind, reconcile, snap, plan, todo,
                   read, createdAt, man, cursor, counts, ghosts>>

PutHead ==
    /\ pc = "head"
    /\ head' = man.id
    /\ committed' = TRUE
    /\ pc' = "index"
    /\ UNCHANGED <<clock, vault, loaded, queue, queueDisk, index, memory,
                   blobs, manifests, rows, rowsOk, kind, reconcile, snap, plan,
                   todo, read, createdAt, man, cursor, counts, missed,
                   gaveUp>>

IndexAfter(ix, m) ==
    IF m.type = "full"
    THEN [full |-> m.id, inc |-> NoId, files |-> m.files]
    ELSE [full |-> ix.full, inc |-> m.id,
          files |-> IndexFilesAfter(ix.files, m)]

SaveLocalIndex ==
    /\ pc = "index"
    /\ index' = IndexAfter(index, man)
    /\ gaveUp' = (gaveUp /\ man.type = "inc")
    /\ pc' = "cursor"
    /\ UNCHANGED <<clock, vault, loaded, queue, queueDisk, memory, remote,
                   kind, reconcile, snap, plan, todo, read, createdAt, man,
                   cursor, counts, missed,
                   committed>>

\* A full backup, or one that reconciled, is done: nothing is unobserved.
FinishRun ==
    /\ pc = "cursor"
    /\ CommitWindow(cursor)
    /\ missed' = IF kind = "full" \/ reconcile THEN {} ELSE missed
    /\ RunOver
    /\ UNCHANGED <<clock, vault, loaded, index, memory, remote, counts,
                   committed, gaveUp>>

(***************************************************************************)
(* Faults.                                                                 *)
(***************************************************************************)
\* A Dropbox call, a conflict check or a disk write of the run throws.
FailRun ==
    /\ pc # "idle" /\ fails < MaxFails
    /\ fails' = fails + 1
    /\ RunOver
    /\ UNCHANGED <<clock, vault, loaded, queue, queueDisk, index, memory,
                   remote, edits, fulls, manual, stops, losses, ghosts>>

\* Obsidian closes or dies: what was not on disk is gone, and the events
\* that were not saved become changes nobody observed.
Stop ==
    /\ loaded /\ stops < MaxStops
    /\ stops' = stops + 1
    /\ loaded' = FALSE /\ committed' = FALSE /\ gaveUp' = FALSE
    /\ queue' = queueDisk
    /\ missed' = missed \cup
           Touched(Filter(queue, Range(queue) \ Range(queueDisk)))
    /\ RunOver
    /\ UNCHANGED <<clock, vault, queueDisk, index, memory, remote, edits,
                   fulls, manual, fails, losses>>

Load ==
    /\ ~loaded
    /\ loaded' = TRUE
    /\ firstInc' = TRUE /\ chainVerified' = FALSE
    /\ UNCHANGED <<clock, vault, queue, queueDisk, index, remote, run, counts,
                   ghosts>>

\* Somebody deletes a manifest, or truncates snapshot_index.json, on Dropbox.
LoseManifest(id) ==
    /\ ~loaded /\ losses < MaxLosses
    /\ losses' = losses + 1
    /\ manifests' = Without(manifests, {id})
    /\ UNCHANGED <<clock, vault, loaded, queue, queueDisk, index, memory,
                   blobs, rows, rowsOk, head, run, edits, fulls, manual,
                   fails, stops, ghosts>>

CorruptRows ==
    /\ ~loaded /\ losses < MaxLosses /\ rowsOk
    /\ losses' = losses + 1
    /\ rowsOk' = FALSE
    /\ UNCHANGED <<clock, vault, loaded, queue, queueDisk, index, memory,
                   blobs, manifests, rows, head, run, edits, fulls, manual,
                   fails, stops, ghosts>>

(***************************************************************************)
(* The specification.                                                      *)
(***************************************************************************)
RunStep ==
    \/ WalkChain \/ LoadQueue \/ Reconcile \/ StampInc \/ ListVault
    \/ \E p \in Paths : ReadFile(p) \/ ReadVanished(p)
    \/ BuildFull \/ BuildInc \/ SkipInc
    \/ \E c \in Contents : UploadBlob(c)
    \/ PutManifest \/ AppendRow \/ PutHead \/ SaveLocalIndex \/ FinishRun

Next ==
    \/ UserEdit \/ PersistQueue
    \/ StartFull \/ TickInc \/ ManualInc
    \/ RunStep
    \/ FailRun \/ Stop \/ Load
    \/ \E id \in DOMAIN manifests : LoseManifest(id)
    \/ CorruptRows

Spec == Init /\ [][Next]_vars

\* The tick interval keeps firing while the plugin is loaded, a started run
\* goes on, a save completes, and the user opens Obsidian again.
Fairness ==
    /\ WF_vars(PersistQueue) /\ WF_vars(TickInc) /\ WF_vars(RunStep)
    /\ WF_vars(Load)

FairSpec == Spec /\ Fairness
=============================================================================
