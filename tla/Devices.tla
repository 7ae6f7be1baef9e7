------------------------------- MODULE Devices -------------------------------
(***************************************************************************)
(* Several Obsidian installations on one Dropbox folder: DeviceCoordinator *)
(* keeps two of them from committing at a time, VaultIdentity keeps other  *)
(* vaults out, PluginStore keeps the vault's id next to the settings in    *)
(* data.json.  What a run uploads is SnapshotCommit's matter.              *)
(***************************************************************************)
EXTENDS Integers, FiniteSets

CONSTANTS
    Devices,
    NoVault, Corrupt,     \* vault_meta.json is missing, fails its schema
    Window,               \* recentWindowHours, in ticks
    MaxSkew,              \* maxClockSkewMinutes
    Skews,                \* by how much a device's clock may be ahead
    MaxClock, MaxRuns, MaxRestarts, MaxSettings, MaxFaults  \* bounds

ASSUME DevicesAssumption ==
    /\ {NoVault, Corrupt} \cap Devices = {} /\ NoVault # Corrupt
    /\ {Window, MaxSkew} \subseteq Nat /\ Skews \subseteq Nat

\* The vault id that a device generates is named like the device.
VaultIds == Devices

VARIABLES
    clock, skew,
    meta,     \* vault_meta.json, and how often it changed
    head,     \* HEAD.json: who wrote it and when, and how often it was written
    data,     \* data.json: the vault id and the settings
    writes,   \* updates of data.json: those called for and the one under way
    session,  \* what a device knows until Obsidian closes
    run,      \* the backup run of a device
    counts

vars == <<clock, skew, meta, head, data, writes, session, run, counts>>

NoWrite == [st |-> "idle", value |-> NoVault, blob |-> {}]
NewSession(m) == [open |-> TRUE, probed |-> FALSE, blocked |-> FALSE,
                  record |-> NoVault, cache |-> {}, at |-> m]
Closed == [NewSession([id |-> NoVault, n |-> 0]) EXCEPT !.open = FALSE]
IdleRun == [pc |-> "idle", fresh |-> FALSE, local |-> NoVault,
            absent |-> FALSE, seen |-> 0]

TypeOK ==
    /\ clock \in 0..MaxClock /\ skew \in [Devices -> Skews]
    /\ meta.id \in VaultIds \cup {NoVault, Corrupt}
    /\ head.by \subseteq Devices /\ Cardinality(head.by) <= 1
    /\ \A d \in Devices :
           /\ data[d].id \in VaultIds \cup {NoVault}
           /\ data[d].settings \in 0..MaxSettings
           /\ \A what \in {"id", "settings"} :
                  writes[d][what].st \in {"idle", "queued", "loaded"}
           /\ session[d].record \in VaultIds \cup {NoVault}
           /\ \A c \in session[d].cache : c.local \in VaultIds
           /\ run[d].pc \in {"idle", "first", "second", "manifest", "head", "claim"}
           /\ run[d].local \in VaultIds \cup {NoVault}

Init ==
    /\ clock = 0 /\ skew \in [Devices -> Skews]
    /\ \E d \in Devices : skew[d] = 0   \* the clock of the slowest
    /\ meta = [id |-> NoVault, n |-> 0]
    /\ head = [by |-> {}, at |-> 0, on |-> 0, n |-> 0]
    /\ data = [d \in Devices |-> [id |-> NoVault, settings |-> 0]]
    /\ writes = [d \in Devices |-> [what \in {"id", "settings"} |-> NoWrite]]
    /\ session = [d \in Devices |-> Closed]
    /\ run = [d \in Devices |-> IdleRun]
    /\ counts = [runs |-> 0, restarts |-> 0, settings |-> 0, faults |-> 0]

Spend(what, max) ==
    counts[what] < max /\ counts' = [counts EXCEPT ![what] = @ + 1]

Now(d) == clock + skew[d]
SetRun(d, new) == run' = [run EXCEPT ![d] = new]
SetSession(d, new) == session' = [session EXCEPT ![d] = new]

(***************************************************************************)
(* data.json.                                                              *)
(***************************************************************************)

\* updateSettings.
ChangeSettings(d) ==
    /\ session[d].open /\ writes[d]["settings"].st = "idle"
    /\ Spend("settings", MaxSettings)
    /\ writes' = [writes EXCEPT ![d]["settings"] =
                     [NoWrite EXCEPT !.st = "queued"]]
    /\ UNCHANGED <<clock, skew, meta, head, data, session, run>>

SetLoaded(d, what) ==
    /\ writes[d][what].st = "queued"
    /\ writes' = [writes EXCEPT ![d][what].st = "loaded", ![d][what].blob = {data[d]}]
    /\ UNCHANGED <<clock, skew, meta, head, data, session, run, counts>>

\* Mutant: loadData and saveData without the queue.
LoadUnqueued(d, what) == SetLoaded(d, what)

\* enqueueDataJsonUpdate: an update loads when the one before it has saved.
LoadData(d, what) ==
    /\ \A other \in DOMAIN writes[d] : writes[d][other].st # "loaded"
    /\ SetLoaded(d, what)

\* What follows a saved id: the block that Adopt resolves is lifted.
Adopted(s) == [s EXCEPT !.record = NoVault, !.blocked = FALSE]

SaveData(d, what) ==
    /\ writes[d][what].st = "loaded"
    /\ \E blob \in writes[d][what].blob :
          data' = [data EXCEPT ![d] =
              IF what = "id" THEN [blob EXCEPT !.id = writes[d][what].value]
              ELSE [blob EXCEPT !.settings = counts.settings]]
    /\ writes' = [writes EXCEPT ![d][what] = NoWrite]
    /\ SetSession(d, IF what = "id" THEN Adopted(session[d]) ELSE session[d])
    /\ UNCHANGED <<clock, skew, meta, head, run, counts>>

\* Obsidian starts; ensureLocalVaultId comes before anything else may write.
Load(d) ==
    /\ ~session[d].open
    /\ data' = [data EXCEPT ![d].id = IF @ = NoVault THEN d ELSE @]
    /\ SetSession(d, NewSession(meta))
    /\ UNCHANGED <<clock, skew, meta, head, writes, run, counts>>

\* Obsidian is closed or dies, at any step.
Stop(d) ==
    /\ session[d].open /\ Spend("restarts", MaxRestarts)
    /\ SetSession(d, Closed)
    /\ SetRun(d, IdleRun)
    /\ writes' = [writes EXCEPT ![d] = [what \in DOMAIN @ |-> NoWrite]]
    /\ UNCHANGED <<clock, skew, meta, head, data>>

(***************************************************************************)
(* Identity.                                                               *)
(***************************************************************************)

\* Mutant: any readable vault_meta.json will do.
AnyClaimIsOk(d) ==
    CASE meta.id = NoVault -> "fresh"
      [] meta.id = Corrupt -> "corrupt"
      [] OTHER -> "ok"

\* Adopt-remote needs a missing id, which onload has generated by then.
CheckConsistency(d) ==
    CASE meta.id = NoVault -> "fresh"
      [] meta.id = Corrupt -> "corrupt"
      [] meta.id = data[d].id -> "ok"
      [] OTHER -> "mismatch"

\* What the recovery modal is to show: an id to adopt, or a spoiled file.
Recorded(d) ==
    [session[d] EXCEPT !.record = IF CheckConsistency(d) = "mismatch" THEN meta.id
                                  ELSE NoVault]
Blocked(d) == [Recorded(d) EXCEPT !.blocked = TRUE]

\* The check at layout-ready, which the first run may overtake; a failure is
\* only logged.  setBlocked does nothing while a run is under way.
Probe(d) ==
    /\ session[d].open /\ ~session[d].probed
    /\ LET s == IF CheckConsistency(d) \in {"fresh", "ok"} THEN session[d]
                ELSE IF run[d].pc = "idle" THEN Blocked(d) ELSE Recorded(d)
       IN  SetSession(d, [s EXCEPT !.probed = TRUE])
    /\ UNCHANGED <<clock, skew, meta, head, data, writes, run, counts>>

\* "Adopt" in MismatchRecoveryModal; the folder may have changed hands since.
Adopt(d) ==
    /\ session[d].open /\ session[d].record # NoVault
    /\ writes[d]["id"].st = "idle"
    /\ writes' = [writes EXCEPT ![d]["id"] =
                     [NoWrite EXCEPT !.st = "queued", !.value = session[d].record]]
    /\ UNCHANGED <<clock, skew, meta, head, data, session, run, counts>>

\* The user, or something else, deletes or spoils vault_meta.json.
DamageMeta ==
    /\ meta.id # NoVault /\ Spend("faults", MaxFaults)
    /\ \E id \in {NoVault, Corrupt} \ {meta.id} : meta' = [id |-> id, n |-> meta.n + 1]
    /\ UNCHANGED <<clock, skew, head, data, writes, session, run>>

(***************************************************************************)
(* A backup run.                                                           *)
(***************************************************************************)

\* Only "ok" is; after a claim Claim fills it in.
Remember(s, found) == IF found.fresh THEN s ELSE [s EXCEPT !.cache = {found}]

\* assertVaultOwnership.  absent is what was true of the folder then.
StartRun(d) ==
    LET kind == CheckConsistency(d)
        found == IF session[d].cache # {} THEN session[d].cache
                 ELSE {[fresh |-> kind = "fresh", local |-> data[d].id]}
    IN  /\ session[d].open /\ ~session[d].blocked /\ run[d].pc = "idle"
        /\ Spend("runs", MaxRuns)
        /\ IF session[d].cache # {} \/ kind \in {"fresh", "ok"}
           THEN \E f \in found :
                /\ SetRun(d, [IdleRun EXCEPT !.pc = "first", !.fresh = f.fresh,
                                  !.local = f.local, !.absent = meta.id = NoVault])
                /\ SetSession(d, Remember(session[d], f))
           ELSE SetSession(d, Blocked(d)) /\ UNCHANGED run
        /\ UNCHANGED <<clock, skew, meta, head, data, writes>>

\* verifyNoConflict: another device's HEAD is recent.  One dated beyond the
\* skew is invalid and counts as absent.
Conflict(d) ==
    /\ head.by \ {d} # {}
    /\ head.at <= Now(d) + MaxSkew
    /\ Now(d) - head.at <= Window

FirstCheck(d) ==
    /\ run[d].pc = "first"
    /\ SetRun(d, IF Conflict(d) THEN IdleRun ELSE [run[d] EXCEPT !.pc = "second"])
    /\ UNCHANGED <<clock, skew, meta, head, data, writes, session, counts>>

\* Mutant: the first check is thought to be enough.
SkipSecondCheck(d) ==
    /\ run[d].pc = "second"
    /\ SetRun(d, [run[d] EXCEPT !.pc = "manifest", !.seen = head.n])
    /\ UNCHANGED <<clock, skew, meta, head, data, writes, session, counts>>

\* After the blobs.
SecondCheck(d) ==
    /\ run[d].pc = "second"
    /\ SetRun(d, IF Conflict(d) THEN IdleRun
                 ELSE [run[d] EXCEPT !.pc = "manifest", !.seen = head.n])
    /\ UNCHANGED <<clock, skew, meta, head, data, writes, session, counts>>

\* The manifest and its row.
PutManifest(d) ==
    /\ run[d].pc = "manifest"
    /\ SetRun(d, [run[d] EXCEPT !.pc = "head"])
    /\ UNCHANGED <<clock, skew, meta, head, data, writes, session, counts>>

\* Mutant: every full claims the folder.
ClaimAlways(d) ==
    /\ run[d].pc = "head"
    /\ head' = [by |-> {d}, at |-> Now(d), on |-> clock, n |-> head.n + 1]
    /\ SetRun(d, [run[d] EXCEPT !.pc = "claim"])
    /\ UNCHANGED <<clock, skew, meta, data, writes, session, counts>>

\* An incremental never claims; a run that found no local index is a full.
PutHead(d) ==
    /\ run[d].pc = "head"
    /\ head' = [by |-> {d}, at |-> Now(d), on |-> clock, n |-> head.n + 1]
    /\ \E full \in BOOLEAN :
          SetRun(d, IF full /\ run[d].fresh THEN [run[d] EXCEPT !.pc = "claim"]
                    ELSE IdleRun)
    /\ UNCHANGED <<clock, skew, meta, data, writes, session, counts>>

\* claimRemote overwrites what lies there by now.
Claim(d) ==
    /\ run[d].pc = "claim"
    /\ meta' = [id |-> run[d].local, n |-> meta.n + 1]
    /\ SetSession(d, [session[d] EXCEPT !.cache = {[fresh |-> FALSE,
                                                    local |-> run[d].local]}])
    /\ SetRun(d, IdleRun)
    /\ UNCHANGED <<clock, skew, head, data, writes, counts>>

\* A call fails and the run ends; a failed claim is only logged.
FailRun(d) ==
    /\ run[d].pc # "idle" /\ Spend("faults", MaxFaults)
    /\ SetRun(d, IdleRun)
    /\ UNCHANGED <<clock, skew, meta, head, data, writes, session>>

Tick ==
    /\ clock < MaxClock /\ clock' = clock + 1
    /\ UNCHANGED <<skew, meta, head, data, writes, session, run, counts>>

RunStep(d) ==
    \/ StartRun(d) \/ FirstCheck(d) \/ SecondCheck(d) \/ PutManifest(d)
    \/ PutHead(d) \/ Claim(d) \/ FailRun(d)

Next ==
    \/ \E d \in Devices :
          \/ RunStep(d) \/ Load(d) \/ Stop(d) \/ Probe(d) \/ Adopt(d)
          \/ ChangeSettings(d)
          \/ \E what \in {"id", "settings"} : LoadData(d, what) \/ SaveData(d, what)
    \/ DamageMeta \/ Tick

Spec == Init /\ [][Next]_vars
=============================================================================
