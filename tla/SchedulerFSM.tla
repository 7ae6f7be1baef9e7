---------------------------- MODULE SchedulerFSM ----------------------------
(***************************************************************************)
(* services/SchedulerFSM.ts: the state machine that decides when a backup  *)
(* runs, one operator per public method, timer callback and preflight      *)
(* button.  The operators constrain the variables of the machine and of    *)
(* the preflight notice; the values the machine reads through its `deps'   *)
(* (clock, designation, last full, queue) belong to whoever drives it.     *)
(***************************************************************************)
EXTENDS FullSchedule, FiniteSets

CONSTANTS Cadence,
          Grace,        \* startup_grace_minutes
          Quiet,        \* quiet_after_event_minutes
          IncInterval,  \* inc_interval_minutes
          Lead,         \* PREFLIGHT_LEAD_MS
          Postponement  \* POSTPONE_MS

ASSUME SchedulerAssumption ==
    /\ Cadence \in Cadences
    /\ {Grace, Quiet, IncInterval, Lead, Postponement} \subseteq Nat

VARIABLES
    state, graceTimer, quietTimer,   \* timers: the instant they fire, or NoTime
    fullOverride, skippedCycle, preflightFiredFor, catchupPending,
    pendingBackup,
    notice,                          \* the slot the visible notice is about
    clock, designated, lastFull,
    pendingAt                        \* observed_at of the queued events

timers  == <<graceTimer, quietTimer>>
planner == <<fullOverride, skippedCycle, preflightFiredFor, catchupPending>>
fsm     == <<state, timers, planner, pendingBackup, notice>>
deps    == <<clock, designated, lastFull, pendingAt>>

States == {"LOADING", "GRACE", "QUIET_WAIT", "READY", "BACKUP_RUNNING",
           "PASSIVE", "ERROR", "AUTH_LOST", "BLOCKED"}
NoBackup == [type |-> "none", reason |-> "none"]
Inc == [type |-> "inc", reason |-> "none"]
Full(reason) == [type |-> "full", reason |-> reason]
Backups == {NoBackup, Inc, Full("scheduled"), Full("catchup")}
Times == Nat \cup {NoTime}

FsmTypeOK ==
    /\ state \in States
    /\ {graceTimer, quietTimer, fullOverride, skippedCycle, preflightFiredFor,
        notice, lastFull} \subseteq Times
    /\ {catchupPending, designated} \subseteq BOOLEAN
    /\ pendingBackup \in Backups
    /\ clock \in Nat
    /\ pendingAt \subseteq Nat

FsmInit ==
    /\ state = "LOADING"
    /\ graceTimer = NoTime /\ quietTimer = NoTime
    /\ fullOverride = NoTime /\ skippedCycle = NoTime
    /\ preflightFiredFor = NoTime /\ catchupPending = FALSE
    /\ pendingBackup = NoBackup
    /\ notice = NoTime

(***************************************************************************)
(* Helpers.                                                                *)
(***************************************************************************)
\* Mutant: the timers keep running.
KeepTimers == UNCHANGED timers

ClearTimers == graceTimer' = NoTime /\ quietTimer' = NoTime

\* Mutant: an earlier deadline stays.
KeepQuietTimer ==
    quietTimer' = IF quietTimer = NoTime THEN clock + Quiet ELSE quietTimer

ResetQuietTimer == quietTimer' = clock + Quiet

NextFullAfter(anchor) == NextFullAt(anchor, Cadence, lastFull)

\* Mutant: a slot is only overdue once the next one has passed, too.
OverdueLate == lastFull # NoTime /\ NextFullAfter(lastFull) + Week <= clock

IsScheduledFullOverdue ==
    /\ lastFull # NoTime
    /\ LET slot == NextFullAfter(lastFull)
       IN  /\ slot <= clock
           /\ skippedCycle # slot
           /\ slot - lastFull > Lead   \* a full that close served the slot

ComputeNextScheduledFullAt ==
    LET base == NextFullAfter(clock)
    IN  IF fullOverride # NoTime THEN fullOverride
        ELSE IF skippedCycle = base THEN NextFullAfter(base + 1)
        ELSE base

\* The batch window opens with the earliest pending event.
IncIntervalElapsed ==
    \E t \in pendingAt : \A u \in pendingAt : t <= u /\ clock - t >= IncInterval

(***************************************************************************)
(* Lifecycle.                                                              *)
(***************************************************************************)
EnterLayout ==
    \/ state # "LOADING" /\ UNCHANGED <<state, timers>>
    \/ state = "LOADING" /\ ~designated /\ state' = "PASSIVE" /\ UNCHANGED timers
    \/ /\ state = "LOADING" /\ designated
       /\ state' = "GRACE"
       /\ graceTimer' = clock + Grace
       /\ UNCHANGED quietTimer

RecoverOnStartup ==
    /\ catchupPending' =
           (catchupPending \/ lastFull = NoTime \/ IsScheduledFullOverdue)
    /\ UNCHANGED <<fullOverride, skippedCycle, preflightFiredFor>>

\* main.ts calls the two together.
OnLayoutReady ==
    EnterLayout /\ RecoverOnStartup /\ UNCHANGED <<pendingBackup, notice>>

GraceTimerFires ==
    /\ graceTimer # NoTime /\ clock >= graceTimer
    /\ graceTimer' = NoTime
    /\ IF state = "GRACE"
       THEN state' = "QUIET_WAIT" /\ ResetQuietTimer
       ELSE UNCHANGED <<state, quietTimer>>
    /\ UNCHANGED <<planner, pendingBackup, notice>>

QuietTimerFires ==
    /\ quietTimer # NoTime /\ clock >= quietTimer
    /\ quietTimer' = NoTime
    /\ state' = IF state = "QUIET_WAIT" THEN "READY" ELSE state
    /\ UNCHANGED <<graceTimer, planner, pendingBackup, notice>>

OnVaultEvent ==
    /\ IF state = "QUIET_WAIT" THEN ResetQuietTimer ELSE UNCHANGED quietTimer
    /\ UNCHANGED <<state, graceTimer, planner, pendingBackup, notice>>

SetDesignated(value) ==
    /\ \/ state = "BACKUP_RUNNING" /\ UNCHANGED <<state, timers>>
       \/ state # "BACKUP_RUNNING" /\ ~value /\ ClearTimers /\ state' = "PASSIVE"
       \/ state = "PASSIVE" /\ value /\ state' = "READY" /\ UNCHANGED timers
       \/ /\ state \notin {"PASSIVE", "BACKUP_RUNNING"} /\ value
          /\ UNCHANGED <<state, timers>>
    /\ UNCHANGED <<planner, pendingBackup, notice>>

SetAuthLost ==
    /\ ClearTimers
    /\ state' = "AUTH_LOST"
    /\ UNCHANGED <<planner, pendingBackup, notice>>

SetAuthRestored ==
    /\ state = "AUTH_LOST" /\ state' = "READY"
    /\ UNCHANGED <<timers, planner, pendingBackup, notice>>

OnBackupStarted ==
    /\ state \in {"READY", "ERROR"} /\ state' = "BACKUP_RUNNING"
    /\ UNCHANGED <<timers, planner, pendingBackup, notice>>

\* Mutant: a reason outside FullReason.
TriggerManual(kind) ==
    /\ designated
    /\ state \notin {"AUTH_LOST", "BLOCKED", "BACKUP_RUNNING"}
    /\ ClearTimers
    /\ pendingBackup' = IF kind = "full" THEN Full("manual") ELSE Inc
    /\ state' = "BACKUP_RUNNING"
    /\ UNCHANGED <<planner, notice>>

\* `Back up now': the quiet period is not waited for.
TriggerBackupNow(kind) ==
    /\ designated
    /\ state \notin {"AUTH_LOST", "BLOCKED", "BACKUP_RUNNING"}
    /\ ClearTimers
    /\ pendingBackup' = IF kind = "full" THEN Full("scheduled") ELSE Inc
    /\ state' = "BACKUP_RUNNING"
    /\ UNCHANGED <<planner, notice>>

\* Mutant: a running upload is no exception.
SetBlockedAnyway ==
    /\ ClearTimers /\ state' = "BLOCKED"
    /\ UNCHANGED <<planner, pendingBackup, notice>>

SetBlocked ==
    /\ IF state = "BACKUP_RUNNING"
       THEN UNCHANGED <<state, timers>>
       ELSE ClearTimers /\ state' = "BLOCKED"
    /\ UNCHANGED <<planner, pendingBackup, notice>>

\* Mutant: only a failure is cleared.
ClearError ==
    /\ state' = IF state = "ERROR" THEN "READY" ELSE state
    /\ UNCHANGED <<timers, planner, pendingBackup, notice>>

ClearBlock ==
    /\ state' = IF state = "BLOCKED" THEN "READY" ELSE state
    /\ UNCHANGED <<timers, planner, pendingBackup, notice>>

OnUnload == ClearTimers /\ UNCHANGED <<state, planner, pendingBackup, notice>>

(***************************************************************************)
(* Outcomes of a backup.                                                   *)
(***************************************************************************)
BackupEnds(next) ==
    /\ pendingBackup' = NoBackup
    /\ state' = IF state = "BACKUP_RUNNING" THEN next ELSE state
    /\ UNCHANGED timers

OnBackupSuccess ==
    /\ IF pendingBackup.type = "full"
       THEN /\ fullOverride' = NoTime
            /\ skippedCycle' = NoTime
            /\ preflightFiredFor' = NoTime
            /\ catchupPending' =
                   (catchupPending /\ pendingBackup.reason # "catchup")
            /\ notice' = NoTime
       ELSE UNCHANGED <<planner, notice>>
    /\ BackupEnds("READY")

\* Mutant: the machine stays in BACKUP_RUNNING.
FailureForgotten ==
    pendingBackup' = NoBackup /\ UNCHANGED <<state, timers, planner, notice>>

OnBackupFailure == BackupEnds("ERROR") /\ UNCHANGED <<planner, notice>>
OnBackupBlocked == BackupEnds("BLOCKED") /\ UNCHANGED <<planner, notice>>

(***************************************************************************)
(* The tick.                                                               *)
(***************************************************************************)
\* What a tick starts: a scheduled full, a catch-up, an incremental, nothing.
TickStarts(scheduled, catchup) ==
    IF clock >= scheduled THEN Full("scheduled")
    ELSE IF catchup THEN Full("catchup")
    ELSE IF IncIntervalElapsed THEN Inc
    ELSE NoBackup

\* Mutant: a tick looks at the clock in every state but a running backup.
CanTickAlways == state # "BACKUP_RUNNING" /\ designated

CanTick == state \in {"READY", "ERROR"} /\ designated

Tick ==
    LET swept == ~catchupPending /\ IsScheduledFullOverdue
        catchup == catchupPending \/ swept
        scheduled == ComputeNextScheduledFullAt
        starts == TickStarts(scheduled, catchup)
        warnedFor == IF swept THEN NoTime ELSE preflightFiredFor
        warn == /\ clock \in (scheduled - Lead)..(scheduled - 1)
                /\ warnedFor # scheduled
    IN  /\ CanTick
        /\ catchupPending' = catchup
        /\ preflightFiredFor' = IF warn THEN scheduled ELSE warnedFor
        /\ notice' = IF warn THEN scheduled ELSE IF swept THEN NoTime ELSE notice
        /\ IF starts = NoBackup
           THEN UNCHANGED <<state, pendingBackup>>
           ELSE /\ pendingBackup' = starts
                /\ state' = "BACKUP_RUNNING"
        /\ UNCHANGED <<timers, fullOverride, skippedCycle>>

(***************************************************************************)
(* The preflight notice.                                                   *)
(***************************************************************************)
StartNow ==
    /\ notice # NoTime
    /\ fullOverride' = clock /\ preflightFiredFor' = NoTime
    /\ notice' = NoTime
    /\ UNCHANGED <<state, timers, skippedCycle, catchupPending, pendingBackup>>

Postpone1h ==
    /\ notice # NoTime
    /\ fullOverride' = Postponement +
           (IF fullOverride # NoTime THEN fullOverride ELSE notice)
    /\ preflightFiredFor' = NoTime
    /\ notice' = NoTime
    /\ UNCHANGED <<state, timers, skippedCycle, catchupPending, pendingBackup>>

Skip ==
    /\ notice # NoTime
    /\ skippedCycle' = notice
    /\ fullOverride' = NoTime /\ preflightFiredFor' = NoTime
    /\ notice' = NoTime
    /\ UNCHANGED <<state, timers, catchupPending, pendingBackup>>

\* The notice hides itself at the instant it is about.
NoticeExpires ==
    /\ notice # NoTime /\ clock >= notice
    /\ notice' = NoTime
    /\ UNCHANGED <<state, timers, planner, pendingBackup>>

(***************************************************************************)
(* Every client of the machine relies on this.                             *)
(***************************************************************************)
\* A timer only runs in the state it will end: none survives a backup, an
\* authentication loss, a block or a passive device, where it would pull the
\* machine out of the state later (clearTimers, resetQuietTimer).
TimersMatchState ==
    /\ graceTimer # NoTime => state = "GRACE"
    /\ quietTimer # NoTime => state = "QUIET_WAIT"
=============================================================================
