------------------------- MODULE SchedulerContract -------------------------
(***************************************************************************)
(* SchedulerFSM under any client: its public methods are called in any     *)
(* order, as its tests call them, while what it reads changes freely.      *)
(***************************************************************************)
EXTENDS SchedulerFSM

CONSTANTS MaxClock   \* bound of the exploration

ASSUME ContractAssumption == MaxClock \in Nat

vars == <<fsm, deps>>

Init ==
    /\ FsmInit
    /\ clock = 0 /\ pendingAt = {}
    /\ designated \in BOOLEAN /\ lastFull \in {NoTime, 0}

Call ==
    \/ OnLayoutReady \/ GraceTimerFires \/ QuietTimerFires \/ OnVaultEvent
    \/ \E value \in BOOLEAN : SetDesignated(value)
    \/ SetAuthLost \/ SetAuthRestored
    \/ SetBlocked \/ ClearBlock
    \/ OnBackupStarted
    \/ \E kind \in {"inc", "full"} : TriggerBackupNow(kind)
    \/ OnBackupSuccess \/ OnBackupFailure \/ OnBackupBlocked
    \/ Tick
    \/ StartNow \/ Postpone1h \/ Skip \/ NoticeExpires
    \/ OnUnload

DepsChange ==
    \/ /\ clock < MaxClock /\ clock' = clock + 1
       /\ UNCHANGED <<designated, lastFull, pendingAt>>
    \/ /\ designated' = ~designated
       /\ UNCHANGED <<clock, lastFull, pendingAt>>
    \/ /\ lastFull' = clock
       /\ UNCHANGED <<clock, designated, pendingAt>>
    \/ /\ pendingAt' = IF pendingAt = {} THEN {clock} ELSE {}
       /\ UNCHANGED <<clock, designated, lastFull>>

Next ==
    \/ Call /\ UNCHANGED deps
    \/ DepsChange /\ UNCHANGED fsm

Spec == Init /\ [][Next]_vars

(***************************************************************************)
(* Properties.                                                             *)
(***************************************************************************)
TypeOK == FsmTypeOK

\* "Cannot interrupt an in-flight upload" (setDesignated, setBlocked): while
\* a backup runs nothing replaces it, and only its outcome or the loss of
\* the authentication ends it.
UploadNotInterrupted ==
    [][state = "BACKUP_RUNNING" =>
           \/ state' = "BACKUP_RUNNING" /\ pendingBackup' = pendingBackup
           \/ state' \in {"READY", "ERROR", "BLOCKED"} /\ pendingBackup' = NoBackup
           \/ state' = "AUTH_LOST"]_vars

=============================================================================
