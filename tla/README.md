# Archivist: a formal model

Archivist is an Obsidian plugin that backs a vault up to a Dropbox folder: full
and incremental snapshots whose contents are stored once per hash, an event
queue that collects changes between backups, a scheduler, retention, garbage
collection and restores.  This directory holds TLA+ modules translated from the
source, TLC configurations that check them on small instances, and TLAPS proofs
of the properties that matter most.

Paths below are relative to the repository; the plugin's TypeScript is in
`src/`, its design documents in `docs/XDD/specs/001-archivist-plugin/`
(`requirements.md`, `solution.md`, `plan/`).

    tlc -config CommitQueue.cfg MCSnapshotCommit      # one run, see the table
    tlapm SnapshotCommit_proofs.tla                   # one module's proofs

## 1. Inventory

Everything runs in one JavaScript thread, so interleaving happens at awaits,
timers and callbacks, between devices that share a folder, and between the
process and its own death.

| Component | State | Operations | Talks to | Hard behaviour | What makes it correct |
|---|---|---|---|---|---|
| Backup runs (`BackupService`, `ManifestBuilder`) | two one-shot flags per session, the run's locals | `runFull`, `runIncremental`, `commitSnapshot` (7 steps) | queue, vault, Dropbox, index | edits during a run, a failure or death between any two steps | references never dangle; nothing observed is forgotten; index = what the tip restores to |
| Event queue (`EventQueue`) | entries in memory, `pending_changes.json` | `enqueue` (dedup window), `commitWindow`, load | change detector, runs | the file lags behind the memory; the prune races new events | only what a run has read is pruned |
| Change detector (`ChangeDetector`, `VaultAdapter`) | folder-rename suppression, layout flag | dispatch of create/modify/delete/rename, reconcile scan | Obsidian, queue, scheduler | changes while nobody listens, folder renames | each change is an event or found by the next scan |
| Snapshot index (`SnapshotIndexStore`, `RepairService`) | `snapshot_index.json` on Dropbox, an append queue | append, remove, rebuild | runs, retention, repair | truncated downloads; remove outside of the append queue | a readable manifest stays listed |
| Chain replay (`RestoreService`) | none | `loadChainToFull`, `materializeVaultStateAt`, content fetch | manifests, blobs | order of renames, writes and deletes | replay = the state at the snapshot |
| Scheduler (`SchedulerFSM`) | state, two timers, preflight plan, pending backup | layout, timers, events, tick, buttons, outcomes, locks | `main.ts`, queue, notices | sleep over slots, timers of another state, decisions in memory | one backup at a time; slots served; quiet respected; locks hold |
| Calendar (`util/time.ts`) | none | next weekly, biweekly, monthly slot | scheduler | borders of days, weeks, months | the first slot that is not over |
| Wiring (`main.ts`, `Commands`) | last commit, verified flag, recovery record, running flag | tick interval, runner, probe, adoption, unload | everything | an awaited run next to ticks and commands; error classification | runner and machine in step |
| Notices (`NoticeCenter`) | visible notices | show, expire, dedup | scheduler, runner | expiry against buttons | a button acts once |
| Maintenance, retention (`MaintenanceScheduler`, `RetentionService`, evaluator) | last run, deletion plan | evaluate, delete, schedule | index, Dropbox, GC | a long job next to a backup; half-deleted snapshots | no kept snapshot loses an ancestor |
| Garbage collection (`GCService`) | a lock file | sweep | blobs, manifests | two sweepers, a sweeper and a backup | a referenced blob is not deleted |
| Devices (`DeviceCoordinator`, `PredecessorDetector`) | device id, HEAD | `verifyNoConflict` before and within a run | HEAD | two devices commit at once | one HEAD history |
| Vault identity (`VaultIdentity`, adopt/recovery modals) | session cache, `vault_meta.json` | check, claim, adopt | Dropbox, scheduler | two vaults claim one folder | a mismatch stops backups |
| Startup recovery (`StartupRecovery`) | crash state | recover | index, HEAD | every crash point | HEAD and index agree; nothing constructs it outside its tests |
| Manifest cache | entries, in-flight loads | get, invalidate | browser | invalidate during a load | no stale answer is kept |
| Restore operations | per-path mutex | file, directory, snapshot restores | vault, chain replay | half-done restores, edits meanwhile | a path is restored whole or not |
| Dropbox client | token bucket, rate gate, one refresh | every HTTP call | Dropbox | retries, truncated transfers, refresh races | an upload whose size was checked is complete |
| Tokens, sign-in | pending flows, token file | authorise, refresh, migrate, disconnect | client | disconnect during refresh | a disconnected plugin takes no new copy of a token |
| Plugin store | two write queues, local files | load/save settings, queue, index, device | all | readers outside the queues, migration | the last save wins |
| Storage probe, progress | a cached estimate, counters | refresh, report | settings page | - | presentation only |
| Backup browser, version panels (`BackupBrowserView`, `FileVersionsView`, `FileHistoryModal`) | selection, cached tree, preview, gates | open, refresh, select, search, restore buttons | cache, restores | late answers of an older selection, a snapshot pruned under a selection | the latest selection is shown, and what is shown is restored |
| Settings pages, status | DOM | load, click | settings, client | - | presentation only |
| Helpers (paths, globs, hashes, logs, errors) | none | pure functions | all | - | - |
| `scripts/restore.mjs` | none | offline replay | a copy of the folder | - | agrees with the plugin's replay |

`PROJECT.json` lists the files of each, whether it is modelled, and 40 hazards
at their lines with the property that guards against each, or why none does.

## 2. Modules

| Module | Models | Built on |
|---|---|---|
| `Manifests` | the data of a backup as operators: queue entries, `isDuplicate`, prune, `bucketQueueEntries`, manifests, index files, chain replay | - |
| `SnapshotCommit` | the runs, the queue and its file, the vault, the local index, the Dropbox folder, failures, restarts, losses | `Manifests` |
| `SnapshotLog` | abstract: an append-only log of vault states and a tip | - |
| `FullSchedule` | `util/time.ts` as integer arithmetic | - |
| `SchedulerFSM` | the machine: one operator per method, timer callback, button | `FullSchedule` |
| `SchedulerContract` | the machine under an arbitrary client | `SchedulerFSM` |
| `Scheduler` | the machine as `main.ts` wires it: tick, events, commands, runner, probe, adoption, reload | `SchedulerFSM` |
| `Retention` | what a pass keeps (tiers, lineages), what a chain needs | - |
| `Maintenance` | a folder over time: backups, retention passes, sweeps and their lock, repair, startup recovery, faults | `Retention` |
| `DropboxClient` | one call to Dropbox: attempts, answers, expiry, the single refresh | - |
| `Connection` | who builds clients and stores tokens: start, sign-in flows, migration, disconnect | `DropboxClient` |
| `Devices` | installations with their own clocks that share a folder: HEAD, `vault_meta.json`, `data.json` | - |
| `Restore` | `ManifestCache`, `RestoreService`, `RestoreOperations`, `writeAtomic` | `Manifests` |
| `Browser` | `BackupBrowserView` | `Restore` |
| `VersionPanels` | `FileVersionsView`, `FileHistoryModal`; the views together | `Browser` |
| `SnapshotProperties`, `FullScheduleProperties`, `SchedulerProperties`, `MaintenanceProperties`, `ConnectionProperties`, `DeviceProperties`, `RestoreProperties` | what each keeps; the refinement mapping to `SnapshotLog`; reference definitions of a slot and of a file's versions | the module they name |
| `MCSnapshotCommit`, `MCMaintenance`, `MCDevices`, `MCRestore` | symmetry, edit kinds, a backup history for TLC | the properties |
| `SnapshotCommit_proofs`, `SchedulerContract_proofs`, `Scheduler_proofs`, `Maintenance_proofs`, `Restore_proofs`, `Devices_proofs`, `Connection_proofs` | theorems | the properties of the module they name |
| `SchedulerFSM_proofs` | lemmas about the machine's methods and about calendar arithmetic, for the contract and the wired plugin | `SchedulerFSM` |

One action is always the code between two awaits that let something else happen.
Definitions that no action uses (`AnyClaimIsOk`, `TrustChain` and the like) are the
plausible mistakes of `PROJECT.json`'s `mutants`: each is put in the place of the
definition below it to show that a property notices.

### The commit (`SnapshotCommit`)

| Code | Actions |
|---|---|
| Obsidian's vault events, `ChangeDetector.dispatch`, `EventQueue.enqueue` | `Create`, `Modify`, `Delete`, `Rename` (an edit made while the plugin is closed only enters `missed`) |
| `savePending` | `PersistQueue` |
| `runFull` up to its listing | `StartFull`, `ListVault` |
| `runIncremental` and its three early ways out | `TickInc` (the scheduler's), `ManualInc` (the command's), `WalkChain`, `LoadQueue`, `Reconcile`, `StampInc`, `SkipInc` |
| reading and hashing | `ReadFile(p)`, `ReadVanished(p)` |
| building the manifest | `BuildFull`, `BuildInc` |
| `commitSnapshot` steps 1-7 | `UploadBlob(c)`, `PutManifest`, `AppendRow` (with the rebuild of a corrupt index), `PutHead`, `SaveLocalIndex`, `FinishRun` |
| any throw, a close or crash, a start | `FailRun`, `Stop`, `Load` |
| somebody else's hand on Dropbox | `LoseManifest(id)`, `CorruptRows` |

A content is a model value, and equal hashes are equal contents.  A snapshot id is the
pair (time in minutes, kind), as `deriveId` makes it.  `clock` advances with
each edit and backup by `EventGap` and `RunGap`, which decide what shares a
millisecond, a dedup window or a minute.  `missed` (paths changed while nobody
observed the vault), `committed` (HEAD moved in this session) and `gaveUp` (its walk
gave a chain up, and no full backup has replaced it yet) are history variables; no
guard reads them.

### The scheduler (`SchedulerFSM`, `SchedulerContract`, `Scheduler`)

`SchedulerFSM` has the machine's variables and one operator per method, named
like it; the notice with its buttons belongs to it because the machine gives the
callbacks.  A timer is the instant at which it fires.  `SchedulerContract` calls
the methods in any order; `Scheduler` calls them as `main.ts` does: `LayoutReady`,
`VaultEvent`/`EventSaved` (an event is saved before the machine hears of it),
`Timers`, `TickStep` (`setInterval`, with the observer and runner it triggers),
`BackupNow`, `Click`, `Expire`, the outcomes of an awaited run (`RunSucceeds`,
`RunCommitsThenFails`: retention throws after the commit, `RunFails`,
`RunRevoked`, `RunBlocked`), `MismatchAppears`, `ProbeAnswers`, `Adopt`,
`TokenRevoked`, and `Unload`/`Load` (a full of the unloaded instance goes on
uploading: `OrphanCommits`).  `layoutAt` (when the grace period began) and `activityAt` (the
last event heard of before READY) are history; both are cleared (`NoMoreWait`) by the first
automatic backup, a command or an adoption.

Time is a number of ticks; days have equal length, so daylight saving is out of
the model.

### The folder over time (`Retention`, `Maintenance`)

| Code | Actions |
|---|---|
| a backup, call by call | `StartBackup`, `UploadBlob`, `PutManifest`, `AppendRead`, `AppendWrite`, `PutHead`, `SaveLocalIndex`, `ScheduleRetention`, `FailRun` |
| `MaintenanceScheduler`, `RetentionService` | `RunIfDue`, `RunNow`, `ReadAndEvaluate`, `RebuildRows`, `DeleteManifest`/`DeleteFails`, `RemoveRead`, `RemoveWrite`, `StampPass` (the pass's own save), `StampJob` (the scheduler's), `FailPass` |
| `GCService.sweep`, `clearLock` | `CheckLock`, `WriteLock`, `ReadReferences`, `ListContent`, `DeleteBlob`, `RemoveLock`, `ClearGcLock`, `FailSweep`, `SweepCommand` |
| `RepairService` | `RepairIndex`, `ReadManifests`, `WriteRepaired` |
| `StartupRecovery` | `RecoverRows`, `RecoverHead` |
| the world | `Tick`, `Stop`, `DamageIndexFile` |

A snapshot is its number, its parent and the blobs it needs; its age is in ticks,
and days and months have equal length.  `Overlap` names the jobs that may run
beside a backup, `ReuseOrphans` whether a backup may need a blob that nobody
references any more, `Faults` the kinds of failure; `kept` (what no pass decided to
prune) and `abandoned` (the lock's own sweep died with it, its write threw with the lock
written, or its removal threw) are history.

### Dropbox and the sign-in (`DropboxClient`, `Connection`)

A call waits for the token bucket and the rate gate, is sent, and is answered: `Succeeds`,
`Uploaded` (Dropbox stored all of the body or a part of it; the answer tells the size, or
none, and a session's is not looked at: `Stored`, `Echoes`, `Taken`), `NotFound`, `Lost` (with or without its
effect), `Refused`, `AnswerExpired` (a 401: the call waits for the one refresh of its
client, `RefreshSucceeds` or `RefreshFails`).  `Connection` adds `Load`, the sign-in
(`BeginAuth`, `Callback`, `Exchange`, `EmailAnswer`, `BuildAfterSignIn`), the backfill
of the account's address, and `Disconnect`.  The stored tokens are a set of at most
one grant.  A call is made once, the token bucket and the rate gate are one wait,
and the plugin is not restarted.

### Installations that share a folder (`Devices`)

`StartRun` (`assertVaultOwnership`, `checkConsistency`), `FirstCheck`, `SecondCheck`
(`verifyNoConflict`, twice per run), `PutManifest`, `PutHead`, `Claim`; `Load`, `Stop`, `Probe`,
`Adopt`, `ChangeSettings`; `LoadData` and `SaveData` are the two halves of one update of
`data.json` in its queue; `DamageMeta` leaves an unreadable `vault_meta.json`.  Every
device reads `clock + skew[d]`; one of them has no skew, so `clock` is the earliest.

### Restores and what the user sees (`Restore`, `Browser`, `VersionPanels`)

`Restore` has Dropbox as far as a restore sees it (`remote`, a damaged blob), the
cache with its downloads (`AskForIndex`, `ServerReads`, `IndexArrives`, `Load`, `Invalidate`),
the vault, and the restores under way: `BeginFile` (the mutex of the path), `FetchFile`,
`WriteFile` (a known file), `ClearPlace` and `MoveIntoPlace` (`writeAtomic` of others),
`PlanDirectory`, `EndOp`.  `Browser` and `VersionPanels` have one action per click and one
per continuation of an awaited answer, with the test for a superseded selection that the
code makes there, or does not make.  Left out: the LRU eviction of the cache, the creation
of parent directories, the marks of modified files; a directory is the whole vault, a
confirmation is one step with its click, and there is one browser, one tab and one
history window.  The vault changes by restores only.

## 3. Runs

States are distinct states as TLC reports them; each run ends within three minutes.

| Run | Properties | Bounds | States |
|---|---|---|---|
| `CommitQueue` | `TypeOK`, `CommitOrder`, `NoObservedChangeLost`, `IndexMatchesTip`, `EventuallyBackedUp`, `ImplementsSnapshotLog` | 2 paths, 2 contents, 2 edits (create, modify, delete), 1 failure, 1 crash, no reconcile scan; fair | 0.56 M |
| `CommitRecovery` | `TipRestorable`, `ParentVerified`, `RowsRecover` | 2 paths, 2 contents, 2 edits (create, rename), 1 full, 1 manual incremental, 1 failure, 1 crash, 2 losses, walk depth 2, scan on | 4.7 M |
| `FsmContract` | `TypeOK`, `TimersMatchState`, `SlotsAreFirst`, `UploadNotInterrupted` | every method at any time; clock to 5; slots over 36 ticks of 3-tick days, 3-day weeks, 4-day months | 0.07 M |
| `SchedulerWiring` | `RunnerInStep`, `BlockedUntilAdopted`, `QuietRespected`, `EditsBackedUp`, `CatchupRuns` | 1 event, 1 failure, 1 trouble, 1 reload, quiet period 2, clock to 3; fair | 0.37 M |
| `SchedulerSlots` | `NoSlotLeftBehind` | 2-day weeks of 3-tick days, all three buttons, 1 command of each kind, 1 reload, jumps of 1 or 3 ticks, clock to 11 | 0.8 M |
| `Folder` | `KeptStaysRestorable`, `PassSettles`, `NoLockLeftBehind`, `RecoveryAgrees` | 3 snapshots of which 2 are kept, 2 contents, 2 sweeps, clock to 2, 2 faults (a call, a run, a stop, a damaged index), 1 command; sweeps beside backups | 2.1 M |
| `Connection` | `AcknowledgedIsWhole`, `RevokedMeansRevoked`, `DisconnectHolds`, `EveryCallEnds` | 1 upload (one request or a session), 1 delete, 1 sign-in and a legacy grant, 2 attempts, 2 uploads; fair | 1.1 M |
| `Devices` | `SecondCheckProtects`, `StrangersWriteNothing`, `ClaimsOnlyFresh`, `DataJsonKeepsBoth` | 2 devices, skew 0 or 1, window 2, 2 runs, 1 restart, 1 change of settings, 1 fault, clock to 3 | 1.8 M |
| `Restore` | `OkMeansRestored`, `KnownFileSurvives`, `CacheIsFresh`, `PrunedIsGone`, `TabShowsSelected`, `GatesHaveOwners`, `VersionsComplete`, `VersionsOwn` | 2 files, 4 snapshots with a rename, 3 clicks, 1 failure or change of the folder | 0.72 M |
| `ReconcileCursor`, `RenamedVersion`, `SameMinute` | one each, violated | see section 6 | |

Why the bounds are enough.

* Commit: the races need one path that is edited before, during and after one
  run, and a second one that is not; two edits around a full, the
  incrementals that follow and a crash reach every pair of phases.  `CommitRecovery`
  builds more than three snapshots, and chains longer than its walk depth, with and
  without a loss in them; its one failure may hit the full that replaces a chain, and its
  losses may leave an unreadable index with several older rows.
* Scheduler: the distances are small (lead 1, postponement 2, grace, quiet period
  and interval 1 or 2, a slot every 6 ticks), and the clock passes its bound
  while a timer, an interval or a slot at this very instant waits for it (`Waiting`),
  so that a bound never fakes a stuck system.
* Folder: three snapshots with two kept let a pass prune a full, an incremental
  or neither; two sweeps, one pass and one backup meet at every call, with two
  faults among them.  With a lock time of 1 and a clock to 2 both sweeps pass the check before
  either writes, and one takes over the stale lock of the other.  A blob that one of two
  overlapping sweeps deletes after it was uploaded anew takes one more tick and one more
  command (section 6).
* Connection: two calls meet one expiry, the second sign-in replaces a client under
  a call, and two attempts are one retry.
* Devices: two commits against each other, at every distance up to the window and
  clock skews on both sides of it; two runs of a session are what its cache is for.
* Restore: three clicks are a selection, the one that overtakes it and a
  restore, while an answer, a pruned snapshot or a failure comes in between.  The history
  has a rename, a pure deletion and a file that changes.  `VersionsComplete` and `VersionsOwn` also
  put every three newer manifests with any rename of four names each on top of it: fewer, or
  three names, do not show why names that are left twice and given twice must be excluded.

`Maintenance`, `Connection`, `Devices` and `RestoreProperties` have a `TypeOK` as well.  It holds in
`Folder`, `Connection`, `Devices` and `Restore` and can be added there; `Maintenance`'s is a theorem
(`TypeCorrect`), and the proof modules of the other three prove types of their own.

`CHECK_DEADLOCK FALSE` is set because the counters of edits, clicks and faults run
out and the system may then rest.

What the properties say, in short:

* `CommitOrder`: blobs and the parent are stored before the manifest, the manifest before
  its row, the row before HEAD.  `TipRestorable`: HEAD's chain reaches a full whose
  contents are all stored; after a loss it holds again with the first commit of
  the next session.
* `NoObservedChangeLost`: where the vault differs from what the last snapshot
  restores to, the queue has an event of the path, or the change was unobserved
  and awaits a scan.  `IndexMatchesTip`: the local index (which incrementals
  are a difference against) equals the replay of its last snapshot, although the code
  computes them differently.
* `ParentVerified`: a committed incremental builds on a chain that reaches a full, and the
  first one of a session on a chain within the length its walk accepts; except between a walk
  that gave a chain up and the full that replaces it (`gaveUp`, section 6).  `RowsRecover`: what
  the index lists it goes on listing as the manifest says, and a commit that makes an unreadable
  index readable again lists every manifest there is, the older ones too.
* `ImplementsSnapshotLog`: the folder refines the append-only log: a snapshot is
  published by its row and never changes, HEAD never goes back in time.  The run has
  creations, modifications and deletions; the theorem `FolderIsALog` covers every kind of edit.
* `SlotsAreFirst`: the next slot of each cadence against a reference definition: the
  first of the calendar that is not over.  `RunnerInStep`, `UploadNotInterrupted`,
  `BlockedUntilAdopted`, `TimersMatchState`, `NoSlotLeftBehind` (run with the
  weekly cadence, proved for all three): see the comments in `SchedulerProperties` and `SchedulerContract`.
* `QuietRespected`: the first automatic backup of a session starts a grace period after
  the layout was ready, and a quiet period after the last event heard before READY.  Named out:
  events heard later, commands, and the adoption that ends a block (section 6).
* `KeptStaysRestorable`: what no pass decided to prune keeps its ancestors and
  its blobs, whatever sweep, pass, repair, failure and death come together.
  `PassSettles`: a second pass prunes nothing more.  `RecoveryAgrees`: after
  recovery the index misses no manifest and HEAD names the newest; rows of manifests that are
  gone may remain.  `NoLockLeftBehind`: a lock in the folder has a sweep that has yet to remove
  it, whatever it or another job met; excused is only a lock whose own sweep died with
  it, whose write threw with the lock written, or whose removal threw.
* `AcknowledgedIsWhole`: an upload that is reported done, by an answer that told the stored
  size, is stored whole, whatever was truncated, lost or repeated before.  Answers without a size
  and upload sessions are named out (section 6).  `RevokedMeansRevoked`: nobody is signed out by
  two calls that meet one expired token.  `DisconnectHolds`: after a disconnect, tokens come back
  only by a sign-in, or by a proactive refresh or an e-mail backfill that read them
  before and is still under way, and nothing takes a new copy of them.
* `SecondCheckProtects`: a commit replaces another's recent HEAD only if that was written
  after the second look.  `ClaimsOnlyFresh`, `StrangersWriteNothing`: one vault per folder.
  `DataJsonKeepsBoth`: no lost update between settings and vault id.
* `OkMeansRestored`, `KnownFileSurvives`: what a restore writes, and what it must not cost.
  `CacheIsFresh`, `PrunedIsGone`, `TabShowsSelected`, `GatesHaveOwners`: late answers.
  `VersionsComplete`, `VersionsOwn`: what `listVersionsForPath` finds by following a name back is what
  following each name of an old snapshot forward finds: all of it, and nothing of another file.

`NoObservedChangeLost` is restricted in named ways, each of which is a
divergence of section 6: `CommitQueue` has no renames and no reconcile scan, its
`DedupWindow` is not longer than the gap between events, and it speaks of chains
without a loss.  The runs that pass have backups at least a minute apart (`RunGap >= Minute`);
`SameMinute` shows what two within a minute do.

`KeptStaysRestorable` holds as `Folder` configures it: `ReuseOrphans = FALSE`, an age gate
no shorter than the time from a backup's first blob to its row (`RunTime`), and only
sweeps beside a backup.  Section 6 says what each of the three is worth.

### Fairness

`SnapshotCommit!Fairness`: weak fairness of `PersistQueue` (an awaited save returns),
`TickInc` (the 60-second interval, while the plugin is loaded), `RunStep` (an
awaited call returns or `FailRun` takes it), `Load` (the user opens Obsidian
again).  Nothing is assumed of edits, failures and crashes but their bounds.

`Scheduler!Fairness`: weak fairness of `Advance`, `LayoutReady`, `Timers`, `TickStep`,
`EventSaved`, `RunEnds` and `Load` for the same reasons.  Adoption and a new
sign-in are the user's; the liveness properties therefore say `<>[]Healthy => ...`.

`Connection!Fairness`: weak fairness of each call's steps and of each client's refresh: a
request is answered, if only by an error, and a wait ends.  Which answer comes is open.

## 4. Proofs

All theorems hold for every value of the constants that satisfies the modules'
ASSUMEs: any number of paths, contents, edits, devices, calls, failures and crashes;
any grace, quiet period and calendar.  Where a theorem assumes more, the table says
it, and the list below it says why.  Each state invariant that TLC checks is a theorem.

Backups (`SnapshotCommit_proofs`):

| Theorem | States | Assumes | Argument |
|---|---|---|---|
| `CommitOrderHolds` | `[]CommitOrder` | | `CommitOrder` says nothing of the run in flight and is not inductive.  `CommitInv` adds `InFlight`: by the phase `pc` has reached, the manifest being committed has its blobs, its parent, its own upload, its row.  One lemma per step of `commitSnapshot`. |
| `StoreTypeCorrect`, `TypesCorrect` | `[]StoreTypeOK`, `[]TypeOK` | | one lemma per group of actions; `TypesInv` follows the folds that bucket events and replay renames (`BucketStays`, `ReplayType`) |
| `RowsRecovered` | `RowsRecover` | `RunGap >= Minute` | `TimeInv`: what is stored is older than the run in flight by a gap, so its id is new and no stored manifest changes.  `RowsInv`: a row is what its manifest says.  `AppendRow` adds to a readable index, and makes an unreadable one of all manifests (`RowsStay`). |
| `ParentIsVerified`, `TipIsRestorable` | `[]ParentVerified`, `[]TipRestorable` | `RunGap >= Minute` | `ChainInv`: who has verified the chain (`Trusted`) builds on one that reaches a full, and who has only walked it (`Walked`) on one within its length; a new manifest changes no chain and no replay (`ChainKept`, `MaterializeKept`) |
| `FolderIsALog` | `ImplementsSnapshotLog` | `RunGap >= Minute`, `MaxLosses = 0` | `LogInv`; `AppendRow` publishes, `PutHead` advances, every other step stutters.  `PutManifest` does because of `MaterializeKept`. |
| `IndexAgreesWithTip` | `[]IndexMatchesTip` | `RunGap >= Minute`, `SimpleEdits` | `IndexInv`: no plan both writes and deletes a path (`BucketPlain`), so `saveLocalIndex` (delete, then write) and the replay (write, then delete) agree (`SameFiles`) |
| `ObservedChangesAreKept` | `[]NoObservedChangeLost` | `RunGap >= Minute`, `EveryEventCounts` | `CoverInv`, below |

`CoverInv` is what makes the commit's last step safe.  `Cut` is the time up to which the run in
flight will prune the queue, and a path is `Fresh` if it has a newer event.  By the
phase of the run, each path that is not fresh is covered: the plan says of it what the vault is
(`PlanCovers`), what was read is what the vault has (`ReadCovers`, `ListCovers`), the index
that the manifest will make agrees with the vault (`ManifestCovers`), and so does the index once
it is saved (`IndexCovers`).  Around it: the queue is in the order of time and its
file lags behind it (`QueueInv`), the newest event of a path tells whether the file is there
(`LastSays`, by which `BucketSays` makes a plan of the queue), and what a full backup could
not have seen an event about is not in its queue (`MissedOld`).

Scheduler (`SchedulerContract_proofs`, `Scheduler_proofs`):

| Theorem | States | Assumes | Argument |
|---|---|---|---|
| `TimersHold` (contract), `TimersMatchStateHolds` (wired) | `[]TimersMatchState` | | inductive; the lemma `MethodsKeepTimers` does every method once for both |
| `TypeCorrect` | `[]TypeOK` | | the slots are instants by the lemmas on the calendar |
| `FirstSlotsAreFound` | `[]SlotsAreFirst` | | division with remainder by the length of a day, a week, two weeks, a month: the slot computed is the least instant of the calendar that is not over |
| `UploadsRunToTheirEnd` | `UploadNotInterrupted` | | a step property: method by method |
| `RunnerInStepHolds` | `[]RunnerInStep` | | inductive; `BackupsStart` describes what starts a backup |
| `QuietIsRespected` | `QuietRespected` | | `QuietInv` relates the timers to the history: the grace timer was set at `layoutAt`, the quiet timer to no less than `activityAt + Quiet`, and who has left QUIET_WAIT has waited for both |
| `BlockHolds` | `BlockedUntilAdopted` | | a step property |
| `NoSlotIsLeftBehind` | `NoSlotLeftBehind` | | the instant computed from the last full has no slot of its cadence before it (`NoneBefore`, from `WeeklyIsFirst`, `MonthlyIsFirst`, `BiweeklyIsFirst`), and a tick that starts nothing has found that one not due (`IdleTickMeans`) |

The folder over time (`Maintenance_proofs`):

| Theorem | States | Assumes | Argument |
|---|---|---|---|
| `TypeCorrect` | `[]TypeOK` | | one lemma per job |
| `LockIsRemoved` | `[]NoLockLeftBehind` | | `LockHeld`: a lock in the folder that was not `abandoned` has a sweep that holds it, for any number of sweeps and faults; who takes a lock over writes its own |
| `SecondPassPrunesNothing` | `[]PassSettles` | | tiers are by rank among the newer rows; removing what no tier kept changes no rank of what one did |
| `KeptStaysRestorableHolds` | `[]KeptStaysRestorable` | `Undisturbed`, `[]FewFailures` | `KInv`: what is kept and its lineage have manifests and blobs, and no sweep, pass or repair under way has taken one of them for garbage; the blobs of a run under way are younger than the age gate |
| `RecoveryMissesNothing` | `[]RecoveryAgrees` | `KeepN >= 1`, no failing download | `RInv`: between its two halves (`Recovering`) what recovery has found, what the index lists and what a pass or a repair beside it will write hold every manifest that is there; retention never removes the newest (`NewestStays`) |

Devices and the sign-in (`Devices_proofs`, `Connection_proofs`):

| Theorem | States | Assumes | Argument |
|---|---|---|---|
| `SecondCheckProtectsHolds` | `SecondCheckProtects` | no skew exceeds `MaxSkew` | `HeadInv`: who wrote HEAD and by which clock; a run past its second look knows HEAD's number, and as long as it is still that one, HEAD is its own or old by any clock (`NoConflictMeansOld`) |
| `ClaimsOnlyFreshHolds` | `ClaimsOnlyFresh` | | `ClaimInv`: a session remembers no answer about an unclaimed folder, so a run that is to claim has seen it so itself |
| `StrangersWriteNothingHolds` | `StrangersWriteNothing` | | `StrangerInv`: while `vault_meta.json` is the one the session opened on, what may be adopted, remembered and on its way |
| `DataJsonKeepsBothHolds` | `DataJsonKeepsBoth` | | `QueueInv`: at most one update has loaded, and what it loaded is still on the disk |
| `AcknowledgedIsWholeHolds` | `[]AcknowledgedIsWhole` | | `AckInv`: what an answer can say of the effect, also after a retry and a second upload |
| `RevokedMeansRevokedHolds` | `RevokedMeansRevoked` | | `RefreshInv`: who waits has a refresh under way, who came back from one has a good token, and a client is built once |
| `DisconnectHoldsForGood` | `DisconnectHolds` | | a step property, from `Types`: each step that stores tokens has them from a copy or a sign-in, and each that copies them finds none |

Restores and views (`Restore_proofs`):

| Theorem | States | Argument |
|---|---|---|
| `CacheStaysFresh` | `[]CacheIsFresh` | `CacheInv`: what is cached and what a download under way brings is what is there, but for a download that `invalidate` overtook |
| `OkIsRestored`, `KnownFilesSurvive` | `[]OkMeansRestored`, `KnownFileSurvives` | `OpsInv`: the bytes an operation holds are the verified ones of its path, its path is locked by it alone, and its temporary file is its own |
| `PrunedLeavesNothing` | `[]PrunedIsGone` | `BrowserInv`: an answer under way is for the selected entry, or its continuation finds out that it is not |
| `VersionsAreComplete` | `[]VersionsComplete` | `Followed`, from the newest manifest to the oldest: after each rename that is undone, the name the file had then is an alias without an end, and every other alias is a name that is given later, or left later in a history that gives some name twice.  So undoing a rename of the file (`FollowedBack`) never finds its older name among the aliases.  The lemma behind it, `EveryVersion`, is about any sequence of manifests. |
| `VersionsAreOwn` | `[]VersionsOwn` | `Owned`, along the same way: an alias that is alive names the file that was asked for; one that is not was given later, or left later by a file that did not get it by a rename; and of two aliases one was given later.  So a rename never revives an alias, and never meets two.  The lemma behind it, `OwnVersion`, is about any sequence of manifests with distinct ids. |
| `TabIsInStep`, `GatesAreOwned` | `[]TabShowsSelected`, `[]GatesHaveOwners` | `TabInv`; a gate is closed by the operation that will open it, and every exit of it does |

What is assumed beyond the modules' ASSUMEs, and why; each is the border of a divergence of
section 6, and each is met by the run that checks the property (but for the one sweep of `Undisturbed`):

* `RunGap >= Minute`: backups start at least a minute apart.  Otherwise two share an id.
* `MaxLosses = 0` (`FolderIsALog`): nobody else deletes from the folder.  An append-only log has no
  action for that.
* `SimpleEdits`: no renames, and no deletions where a run reconciles.  With renames the two orders
  of applying a manifest differ.  With both of the others a plan may write and delete a path.
* `EveryEventCounts`: no renames, no reconcile scan, and events no closer than the dedup window.
  Each of the three loses a change.
* `Undisturbed`: only sweeps run next to a backup, one at a time; no orphaned blob is reused; no
  download fails or misses a file; a run, and the listing of a sweep, take no longer than the age gate.
  One sweep: the lock is read, then written, so two can pass it (section 6).  `FewFailures`: between two runs, fewer than `KeepN` runs were made since
  the one that the local index describes.  With `KeepN` failed ones that reached the index, retention
  keeps those and prunes the parent of the next incremental.
* `KeepN >= 1`: a pass keeps at least one snapshot.  `always_keep_n` is 3 unless the user changes it
  (`src/model/Settings.ts:106`), and it is only validated to be a number.
* No failing download in the recovery: a manifest it cannot read is not listed.
* Clocks no further apart than `MaxSkew`: `verifyNoConflict` cannot protect against more.

Sequences, folds and chains have no induction theorem that the provers can use, as those of the
library take an operator as parameter.  What a theorem needs of them is proved by
counting up over a set of numbers (`CountUp`, from the well-foundedness of `<` on the naturals): a
fold or a recursive function is its list of intermediate values (`FilterSteps`, `BucketSteps`,
`FoldFound`, `AllBackSteps`, `NowSteps`), and a chain of manifests is its list of ancestors.

Only model-checked: the liveness properties (`EventuallyBackedUp`, `EditsBackedUp`, `CatchupRuns`,
`EveryCallEnds`: `ENABLED` and fairness are out of the prover's reach), and the three properties
the code does not keep.

## 5. Not modelled, and what is left

Never modelled: formatting, logging, layout and texts; the storage estimate and progress
reporting; the settings pages and the status bar; path, glob and hash helpers (contents are
model values, equal hashes are equal contents; the exclusion globs are a set of paths);
`scripts/`: the restore script repeats the replay that `Manifests` models, the
others look only.

Left out of what is modelled: folder renames with their suppressed events;
daylight saving; a second event queue of an unloaded instance; the cap on pending sign-in
flows; a restart of the plugin in `Connection`; edits of the user during a restore.  Uploads
go one at a time (they commute).  Several awaits are one step in four places: the
reconcile scan (no edit comes between two of its reads), the chunks of an upload session, the
request of a single manifest by the restore's cache (the download of the index is split), and
the scheduling of retention after a commit, of which only its throwing is kept
(`RunCommitsThenFails`).  The plugin never gives an open version
tab another path: `openFileVersions` (`src/main.ts:847`) shows the tab of this path or opens a
new one, so `setState` is modelled for a new tab only.

Conflict and ownership checks of a run appear in
`SnapshotCommit` as a possible failure; `Devices` has them.  `Maintenance` repeats the commit
call by call, without the vault; that its backups produce a readable
folder is `SnapshotCommit`'s.

Six hazards have no property, each with its reason in `PROJECT.json`: mostly because the
code does not keep the promise one would state (section 6).

Worth doing next: `IndexMatchesTip` with those renames that commute; folder renames, with the
incremental that replays them.

## 6. Divergences found while modelling

Three are runs (`expect: violation` in `PROJECT.json`); the others are described by
the change to a configuration that shows them, or by the scenario.

| Run | Property | What happens |
|---|---|---|
| `ReconcileCursor` | `NoObservedChangeLost` | With an empty queue the cursor is `created_at`, taken after the scan (`src/services/BackupService.ts:661`), so an event between the two is pruned unread.  The comment above it says it survives. |
| `RenamedVersion` | `RestoresWhatWasShown` | A version from before a rename is shown by the name the file had then, but restored by its current one (`src/ui/FileVersionsView.ts:498`): the restore fails, or writes another file's content.  `README.md:42` promises "one-click restore" of rename-aware versions. |
| `SameMinute` | `SnapshotsImmutable` | The id of a snapshot is its minute and its kind (`src/services/ManifestBuilder.ts:41`), and manifests are uploaded with mode overwrite: the second backup of a kind in one minute replaces the manifest of the first.  `docs/architecture-overview.md:46` says "Snapshots are immutable". |

Backups (`NoObservedChangeLost` unless named otherwise):

* Two edits of a file within the dedup window, the second after the first was
  read: the second event is dropped and the first pruned (`src/infra/EventQueue.ts:104`; the comment
  at 56-58 says such events survive).  `CommitQueue` with `DedupWindow = 3`.
* The one-shot flag of the reconcile scan is spent by a run that fails
  (`BackupService.ts:463`; `requirements.md:169` promises the next backup has the change).
* With the scan on, a queued deletion of a file that was re-created unobserved still
  deletes it on replay (`:547`), and the target of a queued rename is never
  hashed (`:551`).  `CommitRecovery` with `EditKinds <- MoveEdits` and this property.
* A deletion, then a rename onto the path in one window: the manifest renames, then
  deletes (`:1101`).  `CommitQueue` with `EditKinds <- MoveEdits`, three edits.  The same
  window gives a rename whose target exists, which `solution.md:802` calls
  "unreachable from a correct writer".
* A run that dies between `saveLocalIndex` and `commitWindow` replays its window;
  renames are not idempotent (`:763`): `IndexMatchesTip` with `EditKinds <- AllEdits`.
* A run that dies between HEAD and the local index: nothing reads HEAD again
  (`:757`; `solution.md:905` "startup reconciles local index against HEAD").
* `dropboxChainVerified` is set before the fallback full runs (`BackupService.ts:493`); when that full
  fails, the next incremental builds on the broken chain.  It happens in `CommitRecovery`, where
  `ParentVerified` and `TipRestorable` name it out (`gaveUp`).
* A pure rename uploads and lists the file (`:1134`; comment at 1122 "renames[] only").
* `runFull` ignores the exclusion globs (`:359`; `docs/settings-reference.md:130`).

Scheduler:

* An edit in READY or ERROR, that is any edit after the first quiet period, postpones no
  backup (`SchedulerFSM.ts`, `onVaultEvent`; `docs/settings-reference.md:33-36` "the quiet period waits
  for the vault to settle after the last edit before running an incremental", 60-63 "so the
  scheduler doesn't fire an incremental in the middle of an editing session").  Commands and
  the adoption that ends a block skip what is left of the grace period too (`requirements.md:119`).
* A full before the hour of its day has a second one the same day under the biweekly
  cadence (`util/time.ts:117`; comment at 103 "exactly 14 days after it").
* `setAuthLost` and `setAuthRestored` lead out of BLOCKED (`SchedulerFSM.ts:250`; comment at 290).
  `main.ts` calls the first only at the end of a run, the second never.
* A postponed full is swept up as overdue at its original slot (`:459`; `plan/phase-7.md:75`).
* A skip without a later full, and a full within the lead before its slot, also hide
  the slots after it (`:466`, `:474`; `requirements.md:120`).  These are the two
  exceptions in `NoSlotLeftBehind`.
* A manual full leaves the pending catch-up (`:327`), and an incremental
  promoted to a full is not recorded as one (`main.ts:656`): the catch-up repeats it
  (comment at `SchedulerFSM.ts:34`).
* After Start now the notice of the same slot appears again (`:509`; `plan/phase-7.md:73`).
* `skippedCycle` is not persisted (`SchedulerFSM.ts:436`): a reload after the slot catches the skipped
  full up.
* A revoked token ends in ERROR, and every tick tries again: the runner looks for the
  error's code in its message (`main.ts:684`; `requirements.md:180` "does not retry
  infinitely").
* The runner also looks for `DEVICE_CONFLICT` and `QUOTA_EXCEEDED` in messages that do not contain
  them (`main.ts:679`).

Retention, garbage collection (`KeptStaysRestorable` in `Folder`):

* A sweep lists an old unreferenced blob, a backup finds it on Dropbox and reuses it, the
  sweep deletes it (`src/services/GCService.ts:185`).  `ReuseOrphans = TRUE`.
* A retention pass beside a backup saves the local index it loaded before
  (`RetentionService.ts:310`, `MaintenanceScheduler.ts:89`): the next incremental is a difference
  against an older state, on a parent that may have been pruned.  `Overlap = {"sweep", "retention"}`,
  `KeepN = 1`, `DailyDays = 0`, `MaxClock = 4`, `MaxCommands = 2`, `MaxFaults = 0`.
* The blobs of a backup under way have the age gate as their only protection:
  `AgeGate = 0`.  A run longer than the gate is in the same position.
* `KeepN` runs that fail after their row was appended: retention counts them, prunes the snapshot
  the local index describes, and the next incremental of the session builds on it.  `KeepN = 1`,
  `DailyDays = 0`, `Faults = {"run"}`, `MaxFaults = 1`, `MaxSnaps = 4`, `MaxClock = 3`.
* Two sweeps read the lock before either writes it (`src/services/GCService.ts:99`).  Both list a blob of a failed
  run, one deletes it, a backup uploads it again, the other deletes it.  `Sweepers = {s1, s2}`,
  `Passes = {}`, `Faults = {"run"}`, `MaxFaults = 1`, `MaxClock = 3`, `MaxCommands = 2`.
* `StartupRecovery` is constructed by its tests only.

Devices, sign-in:

* The ownership cache is justified by "the vault_meta on Dropbox cannot move out from under us"
  (`BackupService.ts:243`).  Two vaults that find the folder fresh can both claim it, and the
  loser goes on.
* The conflict message offers "Take ownership" (`DeviceCoordinator.ts:153`), but
  `takeOwnership` does nothing and nobody asks for the owner (`main.ts:1203`); settings are changed
  without the confirmation their text promises (`main.ts:1238`).
* A proactive refresh or an e-mail backfill that is under way at a disconnect stores the
  tokens back (`src/infra/DropboxClient.ts:636`, `:670`; `PRIVACY.md:51` "Clears the credentials
  from Obsidian's secret store").  `DisconnectHolds` without `Copies`.
* An upload whose answer has no size is taken as done (`src/infra/DropboxClient.ts:411`), and an
  upload session's answers are not compared with anything (`:513-546`), so that a short write goes
  unnoticed.  `AcknowledgedIsWhole` without its second disjunct.
* "Disconnect Dropbox ... revokes the token server-side" (`README.md:122`): it removes the tokens,
  and `OAuthConnectFlow.disconnect` is called by nobody.
* `saveSettings` before the first `loadDevice` drops the legacy `device` block that
  `loadDevice` would migrate (`src/infra/PluginStore.ts:242`).

Restores and views (what `Restore` excludes by name, or what its properties leave open):

* A name that was given up and taken again: versions under it are missing, and a
  file created in the snapshot that renames the name away is listed as a version
  (`VersionsComplete` without `NameTakenAgain`; `solution.md:1513`).  Nor need a rename bring the
  name back: after f to g, f to h, f to k and g to k, each of a file that was created as f, the list
  of k undoes f to k, too, ends that f at f to h, and skips f to g because both names are
  aliases: what the file was before is missing (`NameTakenAgain` excludes names given twice and left twice).
* "a path that was reused after a rename-out does NOT contaminate history"
  (`src/services/RestoreService.ts:162`): it does if a rename had brought the path.  After h to g and
  g to f a new file is created as g.  Its list ends g at g to f, but h to g finds g among the aliases,
  ended or not, revives it (`aliases.set(to, { ...toInfo, liveSinceIndex: i })`) and adds h: all versions
  of the file that is now called f are listed, and can be restored over g.  The design deletes
  an alias that has ended (`solution.md`, Algorithm 3: `aliases.delete(to)`).  `VersionsOwn` excludes
  it by name (`NameReborn`), and a name that is given to a file after another had it, where the second
  one's list may have versions of the first.  It also leaves open what a snapshot holds under a name it renames a file from: a
  file created there as the name is left is not the one that left, but is listed (`GivenUp`).
* `invalidate` during a download keeps the old index, and a failed download drops the latch of
  a later one (`ManifestCache.ts:129`).  `CacheIsFresh` without `cache.late`.
* Selecting A, B, A: the first answer for A is taken for the second's, and a tree of B may stay
  cached under A (`BackupBrowserView.ts:1016`).  A search while a snapshot loads shows the
  tree before it.
* Restore buttons rendered after the teardown of a pruned snapshot stay, the directory
  pane survives the selection of another snapshot, and its dialog names the new one's time.
* A refresh replaces the selected entry by an equal one; a selection under way then
  bails out, and the column stays "loading".
* `onOpen` resets `_closed` (`BackupBrowserView.ts:742`): continuations from before a close go on.
* A late answer of `_selectFile` overwrites a later preview, and its rejection is not caught.
* `previewGen` is compared with itself (`FileHistoryModal.ts:420`).
* The second click on a version whose second download fails shows restore buttons under
  the error.
* The restore of one file from the browser asks for no confirmation.
* Nothing verifies a hash after the write (`solution.md:1511`); `writeAtomic` of a file that
  Obsidian does not know deletes it before it renames its temporary file, which loses the
  old file if the rename fails (`KnownFileSurvives` speaks of known ones).
