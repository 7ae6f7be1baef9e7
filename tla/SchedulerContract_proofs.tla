---------------------- MODULE SchedulerContract_proofs ----------------------
(***************************************************************************)
(* For every schedule, every length of the periods, every client of the    *)
(* machine and every bound on the clock.                                   *)
(***************************************************************************)
EXTENDS FullScheduleProperties, SchedulerFSM_proofs

\* No timer outlives its state, in whatever order the methods are called
\* (clearTimers in triggerBackupNow, setDesignated, setAuthLost, setBlocked).
THEOREM TimersHold == Spec => []TimersMatchState
<1>1. Init => TimersMatchState
  BY DEF Init, FsmInit, TimersMatchState
<1>2. TimersMatchState /\ [Next]_vars => TimersMatchState'
  <2> SUFFICES ASSUME TimersMatchState, [Next]_vars PROVE TimersMatchState'
    OBVIOUS
  <2>1. CASE Call
    BY <2>1, MethodsKeepTimers DEF Call
  <2>2. CASE UNCHANGED fsm
    BY <2>2 DEF fsm, timers, TimersMatchState
  <2>3. CASE UNCHANGED vars
    BY <2>2, <2>3 DEF vars
  <2> QED BY <2>1, <2>2, <2>3 DEF Next
<1> QED BY <1>1, <1>2, PTL DEF Spec

\* An upload ends with its own outcome or with the authentication, whatever
\* is called meanwhile (the BACKUP_RUNNING guards of setDesignated,
\* setBlocked, triggerBackupNow and tick).
THEOREM UploadsRunToTheirEnd == Spec => UploadNotInterrupted
<1> DEFINE Kept == state' = "BACKUP_RUNNING" /\ pendingBackup' = pendingBackup
           Ended == /\ state' \in {"READY", "ERROR", "BLOCKED"}
                    /\ pendingBackup' = NoBackup
           Allowed == Kept \/ Ended \/ state' = "AUTH_LOST"
<1>1. ASSUME [Next]_vars, state = "BACKUP_RUNNING" PROVE Allowed
  <2> USE <1>1
  <2>1. CASE UNCHANGED fsm
    BY <2>1 DEF fsm
  <2>2. CASE OnLayoutReady \/ GraceTimerFires \/ QuietTimerFires \/ OnVaultEvent
    BY <2>2 DEF OnLayoutReady, EnterLayout, GraceTimerFires, QuietTimerFires,
                OnVaultEvent
  <2>3. CASE \E value \in BOOLEAN : SetDesignated(value)
    BY <2>3 DEF SetDesignated
  <2>4. CASE SetAuthLost \/ SetAuthRestored \/ SetBlocked \/ ClearBlock
    BY <2>4 DEF SetAuthLost, SetAuthRestored, SetBlocked, ClearBlock
  <2>5. CASE \/ OnBackupStarted \/ Tick
             \/ \E kind \in {"inc", "full"} : TriggerBackupNow(kind)
    BY <2>5 DEF OnBackupStarted, Tick, CanTick, TriggerBackupNow
  <2>6. CASE OnBackupSuccess \/ OnBackupFailure \/ OnBackupBlocked
    BY <2>6 DEF OnBackupSuccess, OnBackupFailure, OnBackupBlocked, BackupEnds
  <2>7. CASE StartNow \/ Postpone1h \/ Skip \/ NoticeExpires \/ OnUnload
    BY <2>7 DEF StartNow, Postpone1h, Skip, NoticeExpires, OnUnload
  <2>8. CASE UNCHANGED vars
    BY <2>1, <2>8 DEF vars
  <2> QED
    BY <2>1, <2>2, <2>3, <2>4, <2>5, <2>6, <2>7, <2>8 DEF Next, Call
<1>2. [Next]_vars => [state = "BACKUP_RUNNING" => Allowed]_vars
  BY <1>1
<1> QED BY <1>2, PTL DEF Spec, UploadNotInterrupted

(***************************************************************************)
(* Types, and the calendar.                                                *)
(***************************************************************************)
LEMMA NextScheduledIsTime ==
    ASSUME FsmTypeOK
    PROVE  ComputeNextScheduledFullAt \in Nat
<1>1. clock \in Nat /\ lastFull \in Times /\ fullOverride \in Nat \cup {NoTime}
  BY DEF FsmTypeOK, Times
<1>2. NextFullAfter(clock) \in Nat
  BY <1>1, NextFullIsTime
<1>3. NextFullAfter(NextFullAfter(clock) + 1) \in Nat
  <2> DEFINE base == NextFullAfter(clock)
  <2>1. base + 1 \in Nat
    BY <1>2
  <2> HIDE DEF base
  <2>2. NextFullAfter(base + 1) \in Nat
    BY <1>1, <2>1, NextFullIsTime
  <2> QED BY <2>2 DEF base
<1> QED BY <1>1, <1>2, <1>3 DEF ComputeNextScheduledFullAt

LEMMA CallTypes ==
    ASSUME FsmTypeOK, Call, UNCHANGED deps
    PROVE  FsmTypeOK'
<1> USE DEF deps
<1>0. /\ state \in States /\ pendingBackup \in Backups /\ catchupPending \in BOOLEAN
      /\ {graceTimer, quietTimer, fullOverride, skippedCycle, preflightFiredFor,
          notice, lastFull} \subseteq Times
      /\ designated \in BOOLEAN /\ clock \in Nat /\ pendingAt \subseteq Nat
  BY DEF FsmTypeOK
<1>1. NoTime \in Times /\ clock \in Times /\ clock + Grace \in Times /\ clock + Quiet \in Times
  BY <1>0, SchedulerAssumption DEF Times
<1>2. CASE OnLayoutReady \/ SetAuthLost \/ SetAuthRestored \/ SetBlocked \/ ClearBlock
           \/ OnBackupStarted \/ OnUnload
  BY <1>0, <1>1, <1>2
     DEF FsmTypeOK, OnLayoutReady, EnterLayout, RecoverOnStartup, IsScheduledFullOverdue,
         SetAuthLost, SetAuthRestored, SetBlocked, ClearBlock, OnBackupStarted, OnUnload,
         ClearTimers, States, timers, planner
<1>3. CASE GraceTimerFires \/ QuietTimerFires \/ OnVaultEvent
  BY <1>0, <1>1, <1>3
     DEF FsmTypeOK, GraceTimerFires, QuietTimerFires, OnVaultEvent, ResetQuietTimer, States,
         planner
<1>4. CASE \E value \in BOOLEAN : SetDesignated(value)
  BY <1>0, <1>1, <1>4 DEF FsmTypeOK, SetDesignated, ClearTimers, States, timers, planner
<1>5. CASE \E wanted \in {"inc", "full"} : TriggerBackupNow(wanted)
  BY <1>0, <1>1, <1>5 DEF FsmTypeOK, TriggerBackupNow, ClearTimers, States, Backups, planner
<1>6. CASE OnBackupSuccess \/ OnBackupFailure \/ OnBackupBlocked
  BY <1>0, <1>1, <1>6
     DEF FsmTypeOK, OnBackupSuccess, OnBackupFailure, OnBackupBlocked, BackupEnds, States,
         Backups, timers, planner
<1>7. CASE Tick
  <2> DEFINE scheduled == ComputeNextScheduledFullAt
  <2>1. scheduled \in Times
    BY NextScheduledIsTime DEF Times
  <2> HIDE DEF scheduled
  <2>2. /\ catchupPending' = (catchupPending \/ (~catchupPending /\ IsScheduledFullOverdue))
        /\ preflightFiredFor' \in {preflightFiredFor, NoTime, scheduled}
        /\ notice' \in {notice, NoTime, scheduled}
        /\ UNCHANGED <<timers, fullOverride, skippedCycle>>
    BY <1>7 DEF Tick, scheduled
  <2>3. \/ UNCHANGED <<state, pendingBackup>>
        \/ state' = "BACKUP_RUNNING" /\ pendingBackup' \in Backups
    BY <1>7 DEF Tick, TickStarts, Backups
  <2>4. catchupPending' \in BOOLEAN
    BY <2>2, <1>0 DEF IsScheduledFullOverdue
  <2> QED BY <1>0, <1>1, <2>1, <2>2, <2>3, <2>4 DEF FsmTypeOK, States, timers
<1>8. CASE StartNow \/ Skip \/ NoticeExpires
  BY <1>0, <1>1, <1>8
     DEF FsmTypeOK, StartNow, Skip, NoticeExpires, timers, planner
<1>9. CASE Postpone1h
  <2>1. Postponement + (IF fullOverride # NoTime THEN fullOverride ELSE notice) \in Times
    BY <1>0, <1>9, SchedulerAssumption DEF Postpone1h, Times
  <2> QED BY <1>0, <1>1, <1>9, <2>1 DEF FsmTypeOK, Postpone1h, timers
<1> QED BY <1>2, <1>3, <1>4, <1>5, <1>6, <1>7, <1>8, <1>9 DEF Call

\* Every instant the machine computes is one, in whatever order its methods
\* are called and its readings change.
THEOREM TypeCorrect == Spec => []TypeOK
<1>1. Init => TypeOK
  <2> SUFFICES ASSUME Init PROVE FsmTypeOK
    BY DEF TypeOK
  <2>1. designated \in BOOLEAN /\ catchupPending \in BOOLEAN
    BY DEF Init, FsmInit
  <2>2. {graceTimer, quietTimer, fullOverride, skippedCycle, preflightFiredFor, notice,
         lastFull} \subseteq Times
    BY DEF Init, FsmInit, Times
  <2>3. state \in States /\ pendingBackup \in Backups /\ clock \in Nat /\ pendingAt \subseteq Nat
    BY DEF Init, FsmInit, States, Backups
  <2> QED BY <2>1, <2>2, <2>3 DEF FsmTypeOK
<1>2. TypeOK /\ [Next]_vars => TypeOK'
  <2> SUFFICES ASSUME FsmTypeOK, [Next]_vars PROVE FsmTypeOK'
    BY DEF TypeOK
  <2>1. CASE Call /\ UNCHANGED deps
    BY <2>1, CallTypes
  <2>2. CASE DepsChange /\ UNCHANGED fsm
    <3>1. designated' \in BOOLEAN
      BY <2>2 DEF DepsChange, FsmTypeOK
    <3>2. lastFull' \in Times
      BY <2>2 DEF DepsChange, FsmTypeOK, Times
    <3>3. clock' \in Nat
      BY <2>2 DEF DepsChange, FsmTypeOK
    <3>4. pendingAt' \subseteq Nat
      BY <2>2 DEF DepsChange, FsmTypeOK
    <3> QED BY <2>2, <3>1, <3>2, <3>3, <3>4 DEF fsm, timers, planner, FsmTypeOK
  <2>3. CASE UNCHANGED vars
    BY <2>3 DEF vars, fsm, deps, timers, planner, FsmTypeOK
  <2> QED BY <2>1, <2>2, <2>3 DEF Next
<1> QED BY <1>1, <1>2, PTL DEF Spec

\* The arithmetic of util/time.ts finds the first slot that is not over, for
\* every moment, every length of the day, the week and the month, and every
\* weekday and time of the schedule.
THEOREM FirstSlotsAreFound == Spec => []SlotsAreFirst
<1>1. TypeOK => SlotsAreFirst
  <2> SUFFICES ASSUME TypeOK, NEW now \in clock..(clock + Horizon)
               PROVE  /\ IsFirst(NextWeekly(now), now, Weekly)
                      /\ IsFirst(NextMonthly(now), now, Monthly)
                      /\ lastFull # NoTime =>
                            IsFirst(NextBiweekly(now, lastFull), now, Biweekly)
    BY DEF SlotsAreFirst
  <2>1. now \in Nat
    BY PropertiesAssumption DEF TypeOK, FsmTypeOK
  <2>2. IsFirst(NextWeekly(now), now, Weekly)
    <3>1. \A t : Weekly(t) <=> OnWeekday(t)
      BY DEF Weekly, AtTime, OnWeekday
    <3> QED BY <2>1, <3>1, WeeklyIsFirst DEF IsFirst
  <2>3. IsFirst(NextMonthly(now), now, Monthly)
    <3>1. \A t : Monthly(t) <=> OnMonth(t)
      BY DEF Monthly, Weekly, AtTime, OnWeekday, OnMonth
    <3> QED BY <2>1, <3>1, MonthlyIsFirst DEF IsFirst
  <2>4. ASSUME lastFull # NoTime PROVE IsFirst(NextBiweekly(now, lastFull), now, Biweekly)
    <3>1. lastFull \in Nat
      BY <2>4 DEF TypeOK, FsmTypeOK, Times
    <3>2. \A t : Biweekly(t) <=> OnFortnight(t, lastFull)
      BY DEF Biweekly, AtTime, OnFortnight, Fortnight
    <3> QED BY <2>1, <3>1, <3>2, BiweeklyIsFirst DEF IsFirst
  <2> QED BY <2>2, <2>3, <2>4
<1> QED BY <1>1, TypeCorrect, PTL
=============================================================================
