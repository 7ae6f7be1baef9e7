----------------------------- MODULE Scheduler -----------------------------
(***************************************************************************)
(* The scheduler as main.ts wires it: the tick interval, the vault events, *)
(* the commands, the runner that executes what the machine decides, the    *)
(* vault-id probe and its recovery modal, and plugin reloads.  isDesignated*)
(* always answers true, and nothing calls setDesignated, setAuthRestored   *)
(* or onBackupStarted.                                                     *)
(***************************************************************************)
EXTENDS SchedulerFSM

CONSTANTS
    Buttons,      \* preflight buttons the user clicks
    ManualKinds,  \* commands the user runs
    \* Bounds of the exploration.
    Steps,        \* by how much the clock may jump
    MaxClock, MaxEvents, MaxManual, MaxFails, MaxTroubles, MaxReloads

ASSUME WiringAssumption ==
    /\ Buttons \subseteq {"start", "postpone", "skip"}
    /\ ManualKinds \subseteq {"inc", "full"}
    /\ Steps \subseteq Nat \ {0}
    /\ {MaxClock, MaxEvents, MaxManual, MaxFails, MaxTroubles, MaxReloads}
           \subseteq Nat

VARIABLES
    loaded, laidOut, probing,
    saving,       \* an event is being saved, the machine not yet told
    running,      \* the backup the runner awaits
    startedAt,
    verified,     \* vaultOwnershipVerified: the vault id was checked
    orphan,       \* a full of an unloaded plugin instance still uploads
    fullOnDisk,   \* time of index.json's last_full_snapshot_id
    mismatch,     \* local and remote vault id differ
    record,       \* mismatchRecordRef: the recovery modal can adopt
    revoked,      \* Dropbox rejects the token
    \* History, for the properties, until the first automatic backup of the
    \* session or until the user waives the wait for it: when the grace period
    \* began, and the last event heard of before READY.
    layoutAt, activityAt,
    events, manual, fails, troubles, reloads

session == <<loaded, laidOut, probing, saving>>
runner  == <<running, startedAt, verified, orphan, fullOnDisk>>
trouble == <<mismatch, record, revoked>>
ghosts  == <<layoutAt, activityAt>>
counts  == <<events, manual, fails, troubles, reloads>>
vars    == <<fsm, deps, session, runner, trouble, ghosts, counts>>

TypeOK ==
    /\ FsmTypeOK
    /\ {loaded, laidOut, probing, saving, verified, mismatch, record, revoked}
           \subseteq BOOLEAN
    /\ running \in Backups /\ orphan \in {NoTime} \cup Nat
    /\ {startedAt, fullOnDisk, layoutAt, activityAt} \subseteq Times

Init ==
    /\ FsmInit
    /\ clock = 0 /\ designated = TRUE /\ pendingAt = {}
    /\ fullOnDisk \in {NoTime, 0} /\ lastFull = fullOnDisk
    /\ loaded = TRUE /\ laidOut = FALSE /\ probing = FALSE /\ saving = FALSE
    /\ running = NoBackup /\ startedAt = NoTime /\ verified = FALSE
    /\ orphan = NoTime
    /\ mismatch = FALSE /\ record = FALSE /\ revoked = FALSE
    /\ layoutAt = NoTime /\ activityAt = NoTime
    /\ events = 0 /\ manual = 0 /\ fails = 0 /\ troubles = 0 /\ reloads = 0

(***************************************************************************)
(* Time and the vault.                                                     *)
(***************************************************************************)
\* The clock goes on past the bound only while something waits for it.
Waiting ==
    \/ clock = NextFullAfter(clock)
    \/ graceTimer # NoTime /\ clock < graceTimer
    \/ quietTimer # NoTime /\ clock < quietTimer
    \/ pendingAt # {} /\ ~IncIntervalElapsed

Advance ==
    /\ clock < MaxClock \/ Waiting
    /\ \E d \in Steps : clock' = clock + d
    /\ UNCHANGED <<fsm, designated, lastFull, pendingAt, session, runner,
                   trouble, ghosts, counts>>

\* ChangeDetector: the event enters the queue, and once it is saved the
\* machine hears of it.
VaultEvent ==
    /\ loaded /\ laidOut /\ ~saving /\ events < MaxEvents
    /\ events' = events + 1
    /\ pendingAt' = pendingAt \cup {clock}
    /\ saving' = TRUE
    /\ UNCHANGED <<fsm, clock, designated, lastFull, loaded, laidOut, probing,
                   runner, trouble, ghosts, manual, fails, troubles, reloads>>

Settling == state \in {"LOADING", "GRACE", "QUIET_WAIT"}

EventSaved ==
    /\ saving
    /\ saving' = FALSE
    /\ OnVaultEvent
    /\ activityAt' = IF Settling THEN clock ELSE activityAt
    /\ UNCHANGED <<deps, loaded, laidOut, probing, runner, trouble, layoutAt,
                   counts>>

(***************************************************************************)
(* The machine's callers.                                                  *)
(***************************************************************************)
LayoutReady ==
    /\ loaded /\ ~laidOut
    /\ laidOut' = TRUE /\ probing' = TRUE
    /\ OnLayoutReady
    /\ layoutAt' = IF state' = "GRACE" THEN clock ELSE layoutAt
    /\ UNCHANGED <<deps, loaded, saving, runner, trouble, activityAt,
                   counts>>

Timers ==
    /\ GraceTimerFires \/ QuietTimerFires
    /\ UNCHANGED <<deps, session, runner, trouble, ghosts, counts>>

NoMoreWait == layoutAt' = NoTime /\ activityAt' = NoTime

\* The state observer starts the run the machine decided on.
Launch ==
    IF state # "BACKUP_RUNNING" /\ state' = "BACKUP_RUNNING"
    THEN running' = pendingBackup' /\ startedAt' = clock /\ NoMoreWait
    ELSE UNCHANGED <<running, startedAt, ghosts>>

TickStep ==
    /\ loaded /\ Tick /\ Launch
    /\ UNCHANGED <<deps, session, verified, orphan, fullOnDisk, trouble, counts>>

BackupNow ==
    /\ loaded /\ manual < MaxManual
    /\ manual' = manual + 1
    /\ \E wanted \in ManualKinds : TriggerBackupNow(wanted)
    /\ Launch
    /\ UNCHANGED <<deps, session, verified, orphan, fullOnDisk, trouble, events,
                   fails, troubles, reloads>>

Click(button) ==
    /\ button \in Buttons
    /\ CASE button = "start"    -> StartNow
         [] button = "postpone" -> Postpone1h
         [] button = "skip"     -> Skip
    /\ UNCHANGED <<deps, session, runner, trouble, ghosts, counts>>

Expire ==
    /\ NoticeExpires
    /\ UNCHANGED <<deps, session, runner, trouble, ghosts, counts>>

(***************************************************************************)
(* The runner.                                                             *)
(***************************************************************************)
\* The vault id is checked until it was right once in the session; an
\* incremental that finds nothing to do does not talk to Dropbox at all.
Consumed == {t \in pendingAt : t <= startedAt}
NothingToDo == running.type = "inc" /\ fullOnDisk # NoTime /\ Consumed = {}
Accepted == ~revoked /\ (mismatch => verified)

\* A backup the runner awaited committed.  An incremental becomes a full
\* without an index, or when the chain is broken; main.ts records a full
\* only if the machine asked for one.
Committed(full) ==
    /\ running # NoBackup
    /\ Accepted \/ (NothingToDo /\ ~full)
    /\ running.type = "full" => full
    /\ running.type = "inc" /\ fullOnDisk = NoTime => full
    /\ fullOnDisk' = IF full THEN startedAt ELSE fullOnDisk
    /\ lastFull' = IF running.type = "full" THEN clock ELSE lastFull
    /\ pendingAt' = pendingAt \ Consumed
    /\ verified' = (verified \/ (Accepted /\ (full \/ ~NothingToDo)))
    /\ running' = NoBackup /\ startedAt' = NoTime

RunSucceeds ==
    /\ \E full \in BOOLEAN : Committed(full)
    /\ OnBackupSuccess
    /\ UNCHANGED <<clock, designated, session, orphan, trouble, layoutAt,
                   activityAt, counts>>

RunEnded == running # NoBackup /\ running' = NoBackup /\ startedAt' = NoTime

\* scheduleRetentionIfDue throws after the commit: a failure all the same.
RunCommitsThenFails ==
    /\ fails < MaxFails /\ fails' = fails + 1
    /\ \E full \in BOOLEAN : Committed(full)
    /\ OnBackupFailure
    /\ UNCHANGED <<clock, designated, session, orphan, trouble, layoutAt,
                   activityAt, events,
                   manual, troubles, reloads>>

\* Network, quota, conflict: ERROR, and the next tick tries again.
RunFails ==
    /\ fails < MaxFails /\ fails' = fails + 1
    /\ RunEnded
    /\ verified' \in {verified, verified \/ ~mismatch}
    /\ OnBackupFailure
    /\ UNCHANGED <<deps, session, orphan, fullOnDisk, trouble, ghosts, events,
                   manual, troubles, reloads>>

\* AuthError's message does not contain the code main.ts looks for in it.
RunRevoked ==
    /\ revoked /\ RunEnded
    /\ OnBackupFailure
    /\ UNCHANGED <<deps, session, verified, orphan, fullOnDisk, trouble,
                   layoutAt, activityAt, counts>>

\* ConfigError: the probe that fills the recovery record may fail.
RunBlocked ==
    /\ mismatch /\ ~verified /\ RunEnded
    /\ OnBackupBlocked
    /\ record' \in {record, TRUE}
    /\ UNCHANGED <<deps, session, verified, orphan, fullOnDisk, mismatch,
                   revoked, ghosts, counts>>

RunEnds == RunSucceeds \/ RunRevoked \/ RunBlocked

(***************************************************************************)
(* Vault-id trouble, revoked tokens.                                       *)
(***************************************************************************)
MismatchAppears ==
    /\ ~mismatch /\ troubles < MaxTroubles
    /\ troubles' = troubles + 1 /\ mismatch' = TRUE
    /\ UNCHANGED <<fsm, deps, session, runner, record, revoked, ghosts, events,
                   manual, fails, reloads>>

\* checkConsistency answers after the layout was ready.
ProbeAnswers ==
    /\ probing /\ probing' = FALSE
    /\ IF mismatch
       THEN SetBlocked /\ record' = TRUE
       ELSE UNCHANGED <<fsm, record>>
    /\ UNCHANGED <<deps, loaded, laidOut, saving, runner, mismatch, revoked,
                   ghosts, counts>>

Adopt ==
    /\ record /\ record' = FALSE
    /\ mismatch' = FALSE
    /\ ClearBlock
    /\ IF state = "BLOCKED" THEN NoMoreWait ELSE UNCHANGED ghosts
    /\ UNCHANGED <<deps, session, runner, revoked, counts>>

TokenRevoked ==
    /\ ~revoked /\ troubles < MaxTroubles
    /\ troubles' = troubles + 1 /\ revoked' = TRUE
    /\ UNCHANGED <<fsm, deps, session, runner, mismatch, record, ghosts,
                   events, manual, fails, reloads>>

(***************************************************************************)
(* Reloads.                                                                *)
(***************************************************************************)
\* The instance is gone; a full it was uploading may go on without it.
Unload ==
    /\ loaded /\ reloads < MaxReloads
    /\ reloads' = reloads + 1
    /\ loaded' = FALSE /\ laidOut' = FALSE /\ probing' = FALSE /\ saving' = FALSE
    /\ orphan' \in {orphan} \cup
           (IF running.type = "full" THEN {startedAt} ELSE {})
    /\ running' = NoBackup /\ startedAt' = NoTime /\ verified' = FALSE
    /\ record' = FALSE
    /\ state' = "LOADING"
    /\ ClearTimers
    /\ fullOverride' = NoTime /\ skippedCycle' = NoTime
    /\ preflightFiredFor' = NoTime /\ catchupPending' = FALSE
    /\ pendingBackup' = NoBackup /\ notice' = NoTime
    /\ NoMoreWait
    /\ UNCHANGED <<deps, fullOnDisk, mismatch, revoked, events, manual, fails,
                   troubles>>

OrphanCommits ==
    /\ orphan # NoTime
    /\ fullOnDisk' = orphan /\ orphan' = NoTime
    /\ UNCHANGED <<fsm, deps, session, running, startedAt, verified, trouble,
                   ghosts, counts>>

\* lastCommitRef is read back from the snapshot id, the start of the run.
Load ==
    /\ ~loaded /\ loaded' = TRUE
    /\ lastFull' = fullOnDisk
    /\ UNCHANGED <<fsm, clock, designated, pendingAt, laidOut, probing, saving,
                   runner, trouble, ghosts, counts>>

Next ==
    \/ Advance \/ VaultEvent \/ EventSaved
    \/ LayoutReady \/ Timers \/ TickStep \/ BackupNow
    \/ \E button \in Buttons : Click(button)
    \/ Expire
    \/ RunEnds \/ RunCommitsThenFails \/ RunFails
    \/ MismatchAppears \/ ProbeAnswers \/ Adopt \/ TokenRevoked
    \/ Unload \/ OrphanCommits \/ Load

Spec == Init /\ [][Next]_vars

\* Time passes, timers and the tick interval fire, events are saved, a run
\* comes back, Obsidian finishes loading.
Fairness ==
    /\ WF_vars(Advance) /\ WF_vars(EventSaved)
    /\ WF_vars(LayoutReady) /\ WF_vars(Timers) /\ WF_vars(TickStep)
    /\ WF_vars(RunEnds) /\ WF_vars(Load)

FairSpec == Spec /\ Fairness
=============================================================================
