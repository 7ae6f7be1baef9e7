--------------------------- MODULE Devices_proofs ---------------------------
(***************************************************************************)
(* For any number of devices, any clocks within the allowed skew, any      *)
(* number of runs, restarts, settings changes and faults.                  *)
(***************************************************************************)
EXTENDS DeviceProperties, TLAPS

(***************************************************************************)
(* Types.                                                                  *)
(***************************************************************************)
LocalIds == VaultIds \cup {NoVault}
Meta == [id : VaultIds \cup {NoVault, Corrupt}, n : Nat]
DataJson == [id : LocalIds, settings : Nat]
Update == [st : {"idle", "queued", "loaded"}, value : LocalIds, blob : SUBSET DataJson]
Found == [fresh : BOOLEAN, local : LocalIds]
Session == [open : BOOLEAN, probed : BOOLEAN, blocked : BOOLEAN, record : LocalIds,
            cache : SUBSET Found, at : Meta]
Run == [pc : {"idle", "first", "second", "manifest", "head", "claim"},
        fresh : BOOLEAN, local : LocalIds, absent : BOOLEAN, seen : Nat]

Types ==
    /\ clock \in Nat /\ skew \in [Devices -> Nat]
    /\ meta \in Meta
    /\ head \in [by : SUBSET Devices, at : Nat, on : Nat, n : Nat]
    /\ data \in [Devices -> DataJson]
    /\ writes \in [Devices -> [{"id", "settings"} -> Update]]
    /\ session \in [Devices -> Session]
    /\ run \in [Devices -> Run]
    /\ counts \in [runs : Nat, restarts : Nat, settings : Nat, faults : Nat]

\* What everything starts with and returns to.
LEMMA Idle ==
    /\ NoWrite \in Update /\ IdleRun \in Run
    /\ \A m \in Meta : NewSession(m) \in Session
    /\ Closed \in Session
<1>1. NoWrite \in Update
  BY DEF NoWrite, Update, LocalIds
<1>2. IdleRun \in Run
  BY DEF IdleRun, Run, LocalIds
<1>3. \A m \in Meta : NewSession(m) \in Session
  BY DEF NewSession, Session, LocalIds
<1>4. [id |-> NoVault, n |-> 0] \in Meta
  BY DEF Meta
<1>5. \A s \in Session : [s EXCEPT !.open = FALSE] \in Session
  <2> SUFFICES ASSUME NEW s \in Session
               PROVE  [s EXCEPT !.open = FALSE] \in Session
    OBVIOUS
  <2>1. FALSE \in BOOLEAN
    OBVIOUS
  <2> QED BY <2>1, Zenon DEF Session
<1>6. Closed \in Session
  BY <1>3, <1>4, <1>5 DEF Closed
<1> QED BY <1>1, <1>2, <1>3, <1>6

\* Counting a run, a restart, a change of settings or a fault.
LEMMA SpendKeepsTypes ==
    ASSUME Types, NEW what \in {"runs", "restarts", "settings", "faults"},
           NEW max, Spend(what, max)
    PROVE  counts' \in [runs : Nat, restarts : Nat, settings : Nat, faults : Nat]
BY DEF Types, Spend

\* What the id checks leave behind.
LEMMA BlockedTypes ==
    ASSUME Types, NEW d \in Devices
    PROVE  /\ Blocked(d) \in Session /\ Recorded(d) \in Session
           /\ \A f \in Found :
                  Remember(session[d], f) \in Session
<1>1. session[d] \in Session /\ meta \in Meta
  BY DEF Types
<1>2. CheckConsistency(d) = "mismatch" => meta.id \in LocalIds
  BY <1>1 DEF CheckConsistency, LocalIds, Meta
<1>3. NoVault \in LocalIds
  BY DEF LocalIds
<1> QED BY <1>1, <1>2, <1>3 DEF Blocked, Recorded, Remember, Session

\* Type correctness.
THEOREM TypesHold == Spec => []Types
<1>1. Init => Types
  <2> SUFFICES ASSUME Init PROVE Types
    OBVIOUS
  <2>1. skew \in [Devices -> Nat]
    BY DevicesAssumption DEF Init
  <2>2. meta \in Meta
    BY DEF Init, Meta
  <2>3. data \in [Devices -> DataJson]
    BY DEF Init, DataJson, LocalIds
  <2>4. writes \in [Devices -> [{"id", "settings"} -> Update]]
    BY Idle DEF Init
  <2>5. session \in [Devices -> Session] /\ run \in [Devices -> Run]
    BY Idle DEF Init
  <2> QED BY <2>1, <2>2, <2>3, <2>4, <2>5 DEF Init, Types
<1>2. Types /\ [Next]_vars => Types'
  <2> SUFFICES ASSUME Types, [Next]_vars PROVE Types'
    OBVIOUS
  <2>1. CASE UNCHANGED vars \/ Tick
    BY <2>1 DEF Types, vars, Tick
  <2>2. CASE DamageMeta
    BY <2>2, SpendKeepsTypes DEF Types, DamageMeta, Meta
  <2>3. ASSUME NEW d \in Devices,
               RunStep(d) \/ Load(d) \/ Stop(d) \/ Probe(d) \/ Adopt(d) \/ ChangeSettings(d)
        PROVE  Types'
    <3>1. CASE StartRun(d)
      <4> DEFINE found == IF session[d].cache # {} THEN session[d].cache
                          ELSE {[fresh |-> CheckConsistency(d) = "fresh",
                                 local |-> data[d].id]}
      <4>1. session[d] \in Session /\ data[d] \in DataJson
        BY DEF Types
      <4>2. found \subseteq Found
        <5>1. (CheckConsistency(d) = "fresh") \in BOOLEAN
          OBVIOUS
        <5>2. [fresh |-> CheckConsistency(d) = "fresh", local |-> data[d].id] \in Found
          BY <4>1, <5>1 DEF Found, DataJson
        <5> QED BY <4>1, <5>2 DEF Session
      <4>3. CASE SetSession(d, Blocked(d)) /\ UNCHANGED run
        <5>1. session' \in [Devices -> Session]
          BY <4>3, BlockedTypes DEF SetSession, Types
        <5> QED BY <3>1, <4>3, <5>1, SpendKeepsTypes DEF StartRun, Types
      <4>4. ASSUME NEW f \in found,
                   SetRun(d, [IdleRun EXCEPT !.pc = "first", !.fresh = f.fresh,
                                  !.local = f.local, !.absent = meta.id = NoVault]),
                   SetSession(d, Remember(session[d], f))
            PROVE  Types'
        <5>1. [IdleRun EXCEPT !.pc = "first", !.fresh = f.fresh, !.local = f.local,
                              !.absent = meta.id = NoVault] \in Run
          <6>1. f.fresh \in BOOLEAN /\ f.local \in LocalIds
            BY <4>2, <4>4 DEF Found
          <6>2. (meta.id = NoVault) \in BOOLEAN
            OBVIOUS
          <6> QED BY <6>1, <6>2, Idle, Zenon DEF Run
        <5>2. run' \in [Devices -> Run] /\ session' \in [Devices -> Session]
          BY <4>2, <4>4, <5>1, BlockedTypes DEF SetRun, SetSession, Types
        <5> QED BY <3>1, <5>2, SpendKeepsTypes DEF StartRun, Types
      <4> QED BY <3>1, <4>3, <4>4 DEF StartRun
    <3>2. CASE FirstCheck(d) \/ SecondCheck(d) \/ PutManifest(d)
      <4>1. run[d] \in Run /\ head.n \in Nat
        BY DEF Types
      <4>2. /\ \A pc \in {"second", "head"} : [run[d] EXCEPT !.pc = pc] \in Run
            /\ [run[d] EXCEPT !.pc = "manifest", !.seen = head.n] \in Run
        BY <4>1 DEF Run
      <4> QED
        BY <3>2, <4>2, Idle DEF FirstCheck, SecondCheck, PutManifest, SetRun, Types
    <3>3. CASE PutHead(d)
      <4>1. run[d] \in Run /\ Now(d) \in Nat /\ clock \in Nat /\ head.n \in Nat
        BY DEF Types, Now
      <4>2. [run[d] EXCEPT !.pc = "claim"] \in Run
        BY <4>1 DEF Run
      <4>3. run' \in [Devices -> Run]
        BY <3>3, <4>2, Idle DEF PutHead, SetRun, Types
      <4>4. head' \in [by : SUBSET Devices, at : Nat, on : Nat, n : Nat]
        BY <3>3, <4>1 DEF PutHead
      <4> QED BY <3>3, <4>3, <4>4 DEF PutHead, Types
    <3>4. CASE Claim(d)
      <4>1. run[d] \in Run /\ session[d] \in Session /\ meta.n \in Nat
        BY DEF Types, Meta
      <4>2. meta' \in Meta
        BY <3>4, <4>1 DEF Claim, Run, Meta, LocalIds
      <4>3. [fresh |-> FALSE, local |-> run[d].local] \in Found
        BY <4>1, Zenon DEF Found, Run
      <4>4. [session[d] EXCEPT !.cache = {[fresh |-> FALSE, local |-> run[d].local]}]
               \in Session
        BY <4>1, <4>3 DEF Session
      <4> QED BY <3>4, <4>2, <4>4, Idle DEF Claim, SetRun, SetSession, Types
    <3>5. CASE FailRun(d)
      BY <3>5, SpendKeepsTypes, Idle DEF FailRun, SetRun, Types
    <3>6. CASE Load(d)
      <4>1. data[d] \in DataJson
        BY DEF Types
      <4>2. [data[d] EXCEPT !.id = IF data[d].id = NoVault THEN d ELSE data[d].id]
               \in DataJson
        BY <4>1 DEF DataJson, LocalIds, VaultIds
      <4> QED BY <3>6, <4>2, Idle DEF Load, SetSession, Types
    <3>7. CASE Stop(d)
      BY <3>7, SpendKeepsTypes, Idle DEF Stop, SetSession, SetRun, Types
    <3>8. CASE Probe(d)
      <4>1. Blocked(d) \in Session /\ Recorded(d) \in Session /\ session[d] \in Session
        BY BlockedTypes DEF Types
      <4> QED BY <3>8, <4>1 DEF Probe, SetSession, Types, Session
    <3>9. CASE Adopt(d)
      BY <3>9 DEF Adopt, NoWrite, Types, Session, Update, LocalIds
    <3>10. CASE ChangeSettings(d)
      BY <3>10, SpendKeepsTypes DEF ChangeSettings, NoWrite, Types, Update, LocalIds
    <3> QED
      BY <2>3, <3>1, <3>2, <3>3, <3>4, <3>5, <3>6, <3>7, <3>8, <3>9, <3>10 DEF RunStep
  <2>4. ASSUME NEW d \in Devices, NEW what \in {"id", "settings"},
               LoadData(d, what) \/ SaveData(d, what)
        PROVE  Types'
    <3>1. CASE LoadData(d, what)
      <4>1. data[d] \in DataJson /\ writes[d] \in [{"id", "settings"} -> Update]
        BY DEF Types
      <4>2. [writes[d][what] EXCEPT !.st = "loaded", !.blob = {data[d]}] \in Update
        BY <4>1 DEF Update
      <4>3. writes' = [writes EXCEPT ![d] = [writes[d] EXCEPT ![what] =
                          [writes[d][what] EXCEPT !.st = "loaded", !.blob = {data[d]}]]]
        BY <3>1 DEF LoadData, SetLoaded, Types, Update
      <4>4. writes' \in [Devices -> [{"id", "settings"} -> Update]]
        BY <4>1, <4>2, <4>3 DEF Types
      <4> QED BY <3>1, <4>4 DEF LoadData, SetLoaded, Types
    <3>2. CASE SaveData(d, what)
      <4>1. writes[d][what] \in Update /\ session[d] \in Session
        BY DEF Types
      <4>2. data' \in [Devices -> DataJson]
        BY <3>2, <4>1 DEF SaveData, Types, Update, DataJson
      <4>3. writes' \in [Devices -> [{"id", "settings"} -> Update]]
        BY <3>2, Idle DEF SaveData, Types
      <4>4. session' \in [Devices -> Session]
        BY <3>2, <4>1 DEF SaveData, SetSession, Adopted, Types, Session, LocalIds
      <4> QED BY <3>2, <4>2, <4>3, <4>4 DEF SaveData, Types
    <3> QED BY <2>4, <3>1, <3>2
  <2> QED BY <2>1, <2>2, <2>3, <2>4 DEF Next
<1> QED BY <1>1, <1>2, PTL DEF Spec

(***************************************************************************)
(* data.json.                                                              *)
(***************************************************************************)
\* Only one update has loaded the file, and what it loaded is still there:
\* onload's own write comes when no update is under way.
QueueInv ==
    \A d \in Devices :
        /\ session[d].blocked => session[d].open
        /\ \A what \in {"id", "settings"} :
               /\ writes[d][what].st # "idle" => session[d].open
               /\ writes[d][what].st = "loaded" => writes[d][what].blob = {data[d]}
        /\ ~(writes[d]["id"].st = "loaded" /\ writes[d]["settings"].st = "loaded")

THEOREM QueueInvHolds == Spec => []QueueInv
<1>1. Init => QueueInv
  BY DEF Init, NoWrite, Closed, NewSession, QueueInv
<1>2. Types /\ QueueInv /\ [Next]_vars => QueueInv'
  <2> SUFFICES ASSUME Types, QueueInv, [Next]_vars PROVE QueueInv'
    OBVIOUS
  <2>1. ASSUME UNCHANGED <<data, writes>>,
               \A e \in Devices : \/ session'[e] = session[e]
                                  \/ session'[e].open
        PROVE  QueueInv'
    BY <2>1 DEF QueueInv
  <2>2. CASE UNCHANGED vars \/ Tick \/ DamageMeta
    BY <2>1, <2>2 DEF vars, Tick, DamageMeta
  <2>3. ASSUME NEW d \in Devices,
               RunStep(d) \/ Load(d) \/ Stop(d) \/ Probe(d) \/ Adopt(d) \/ ChangeSettings(d)
        PROVE  QueueInv'
    <3>1. CASE RunStep(d)
      <4>1. UNCHANGED <<data, writes>>
        BY <3>1 DEF RunStep, StartRun, FirstCheck, SecondCheck, PutManifest, PutHead,
                    Claim, FailRun
      <4>2. session[d] \in Session /\ data[d] \in DataJson
        BY DEF Types
      <4>3. CASE StartRun(d)
        <5>1. session[d].open
          BY <4>3 DEF StartRun
        <5>2. Blocked(d).open /\ \A f : Remember(session[d], f).open
          BY <4>2, <5>1 DEF Blocked, Recorded, Remember, Session
        <5>3. \A e \in Devices : session'[e] = session[e] \/ session'[e].open
          <6>1. \E new : SetSession(d, new) /\ new.open
            BY <4>3, <5>2 DEF StartRun
          <6> QED BY <6>1 DEF SetSession, Types
        <5> QED BY <2>1, <4>1, <5>3
      <4>4. CASE Claim(d)
        <5>1. session'[d].open = session[d].open /\ session'[d].blocked = session[d].blocked
          BY <4>2, <4>4 DEF Claim, SetSession, Types, Session
        <5>2. \A e \in Devices \ {d} : session'[e] = session[e]
          BY <4>4 DEF Claim, SetSession, Types
        <5> QED BY <4>1, <5>1, <5>2 DEF QueueInv
      <4>5. CASE FirstCheck(d) \/ SecondCheck(d) \/ PutManifest(d) \/ PutHead(d) \/ FailRun(d)
        BY <2>1, <4>1, <4>5 DEF FirstCheck, SecondCheck, PutManifest, PutHead, FailRun
      <4> QED BY <3>1, <4>3, <4>4, <4>5 DEF RunStep
    <3>2. CASE Load(d)
      <4>1. \A what \in {"id", "settings"} : writes[d][what].st = "idle"
        BY <3>2 DEF Load, QueueInv
      <4> QED BY <3>2, <4>1 DEF Load, SetSession, NewSession, QueueInv, Types
    <3>3. CASE Stop(d)
      BY <3>3 DEF Stop, SetSession, Closed, NewSession, NoWrite, QueueInv, Types
    <3>4. CASE Probe(d)
      <4>1. session[d] \in Session
        BY DEF Types
      <4>2. /\ Blocked(d).open /\ Blocked(d) \in Session
            /\ Recorded(d).open /\ Recorded(d) \in Session
        BY <3>4, <4>1, BlockedTypes DEF Probe, Blocked, Recorded, Session
      <4>3. session'[d].open /\ \A e \in Devices \ {d} : session'[e] = session[e]
        BY <3>4, <4>1, <4>2 DEF Probe, SetSession, Types, Session
      <4> QED BY <2>1, <3>4, <4>3 DEF Probe
    <3>5. CASE Adopt(d) \/ ChangeSettings(d)
      <4>1. session[d].open
        BY <3>5 DEF Adopt, ChangeSettings, QueueInv
      <4>2. \E value \in {"id", "settings"} : \E new :
                /\ new.st = "queued"
                /\ writes' = [writes EXCEPT ![d][value] = new]
        <5>1. \A v : [NoWrite EXCEPT !.st = "queued", !.value = v].st = "queued"
          BY DEF NoWrite
        <5>2. [NoWrite EXCEPT !.st = "queued"].st = "queued"
          BY DEF NoWrite
        <5> QED BY <3>5, <5>1, <5>2 DEF Adopt, ChangeSettings
      <4> QED BY <3>5, <4>1, <4>2 DEF Adopt, ChangeSettings, QueueInv, Types
    <3> QED BY <2>3, <3>1, <3>2, <3>3, <3>4, <3>5
  <2>4. ASSUME NEW d \in Devices, NEW what \in {"id", "settings"},
               LoadData(d, what) \/ SaveData(d, what)
        PROVE  QueueInv'
    <3>1. CASE LoadData(d, what)
      BY <3>1 DEF LoadData, SetLoaded, QueueInv, Types, Update
    <3>2. CASE SaveData(d, what)
      BY <3>2 DEF SaveData, SetSession, Adopted, NoWrite, QueueInv, Types, Update, Session
    <3> QED BY <2>4, <3>1, <3>2
  <2> QED BY <2>2, <2>3, <2>4 DEF Next
<1> QED BY <1>1, <1>2, TypesHold, PTL DEF Spec

\* Settings and vault id survive each other's saves (enqueueDataJsonUpdate).
THEOREM DataJsonKeepsBothHolds == Spec => DataJsonKeepsBoth
<1>1. ASSUME Types, QueueInv, NEW d \in Devices
      PROVE  /\ SaveData(d, "settings") => data'[d].id = data[d].id
             /\ SaveData(d, "id") => data'[d].settings = data[d].settings
  BY <1>1 DEF SaveData, QueueInv, Types, DataJson
<1> DEFINE Kept == \A d \in Devices :
                      /\ SaveData(d, "settings") => data'[d].id = data[d].id
                      /\ SaveData(d, "id") => data'[d].settings = data[d].settings
<1>2. Types /\ QueueInv /\ [Next]_vars => [Kept]_vars
  BY <1>1
<1> QED BY <1>2, TypesHold, QueueInvHolds, PTL DEF Spec, DataJsonKeepsBoth

(***************************************************************************)
(* HEAD.                                                                   *)
(***************************************************************************)
\* Who wrote HEAD and by which clock; and what a run knows of it after its
\* second look, as long as nobody wrote it since.
HeadInv ==
    /\ head.on <= clock
    /\ head.by # {} => \E e \in Devices : head.by = {e} /\ head.at = head.on + skew[e]
    /\ \A d \in Devices : run[d].pc \in {"manifest", "head"} =>
           /\ run[d].seen <= head.n
           /\ run[d].seen = head.n =>
                  head.by \subseteq {d} \/ clock - head.on > Window - MaxSkew

\* A HEAD that verifyNoConflict lets pass is one's own or old by any clock.
LEMMA NoConflictMeansOld ==
    ASSUME Types, HeadInv, Skews \subseteq 0..MaxSkew, skew \in [Devices -> Skews],
           NEW d \in Devices, ~Conflict(d)
    PROVE  head.by \subseteq {d} \/ clock - head.on > Window - MaxSkew
<1>1. /\ clock \in Nat /\ head.on \in Nat /\ head.at \in Nat
      /\ Window \in Nat /\ MaxSkew \in Nat
  BY DevicesAssumption DEF Types
<1>2. CASE head.by \ {d} = {}
  BY <1>2
<1>3. ASSUME NEW e \in Devices, head.by = {e}, head.at = head.on + skew[e], e # d
      PROVE  clock - head.on > Window - MaxSkew
  <2>1. skew[e] \in 0..MaxSkew /\ skew[d] \in 0..MaxSkew
    OBVIOUS
  <2>2. \/ head.at > clock + skew[d] + MaxSkew
        \/ clock + skew[d] - head.at > Window
    BY <1>1, <1>3, <2>1 DEF Conflict, Now
  <2> QED BY <1>1, <1>3, <2>1, <2>2 DEF HeadInv
<1> QED BY <1>2, <1>3 DEF HeadInv

\* The second look protects another device's HEAD, where the clocks differ by
\* no more than verifyNoConflict allows for.
THEOREM SecondCheckProtectsHolds ==
    ASSUME Skews \subseteq 0..MaxSkew
    PROVE  Spec => SecondCheckProtects
<1> DEFINE Clocks == skew \in [Devices -> Skews]
           Kept == \A d \in Devices :
                      PutHead(d) /\ head.by \ {d} # {} /\ clock - head.on <= Window - MaxSkew
                          => head.n > run[d].seen
<1>1. Init => HeadInv /\ Clocks
  BY DEF Init, HeadInv, IdleRun
<1>2. Clocks /\ [Next]_vars => Clocks'
  BY DEF Next, vars, RunStep, StartRun, FirstCheck, SecondCheck, PutManifest, PutHead,
         Claim, FailRun, Load, Stop, Probe, Adopt, ChangeSettings, LoadData, SetLoaded,
         SaveData, DamageMeta, Tick
<1>3. Types /\ HeadInv /\ Clocks /\ [Next]_vars => HeadInv'
  <2> SUFFICES ASSUME Types, HeadInv, Clocks, [Next]_vars PROVE HeadInv'
    OBVIOUS
  <2>0. ASSUME UNCHANGED <<clock, skew, head>>,
               \A d \in Devices : run'[d].pc \in {"manifest", "head"} =>
                   /\ run[d].pc \in {"manifest", "head"}
                   /\ run'[d].seen = run[d].seen
        PROVE  HeadInv'
    BY <2>0 DEF HeadInv
  <2>1. CASE UNCHANGED vars \/ DamageMeta
    BY <2>0, <2>1 DEF vars, DamageMeta
  <2>2. CASE Tick
    BY <2>2, DevicesAssumption DEF Tick, HeadInv, Types
  <2>3. ASSUME NEW d \in Devices, NEW what \in {"id", "settings"},
               \/ Load(d) \/ Probe(d) \/ Adopt(d) \/ ChangeSettings(d)
               \/ LoadData(d, what) \/ SaveData(d, what)
        PROVE  HeadInv'
    BY <2>0, <2>3 DEF Load, Probe, Adopt, ChangeSettings, LoadData, SetLoaded, SaveData
  <2>4. ASSUME NEW d \in Devices, RunStep(d) \/ Stop(d)
        PROVE  HeadInv'
    <3>1. CASE Stop(d) \/ StartRun(d) \/ FirstCheck(d) \/ Claim(d) \/ FailRun(d)
      <4>1. UNCHANGED <<clock, skew, head>>
        BY <3>1 DEF Stop, StartRun, FirstCheck, Claim, FailRun
      <4>2. run' = run \/ \E new : SetRun(d, new) /\ new.pc \in {"idle", "first", "second"}
        <5>1. run[d] \in Run /\ IdleRun.pc = "idle"
          BY DEF Types, IdleRun
        <5>2. CASE StartRun(d)
          <6>1. \A b, c, v : [IdleRun EXCEPT !.pc = "first", !.fresh = b, !.local = v,
                                            !.absent = c].pc = "first"
            BY DEF IdleRun
          <6>2. UNCHANGED run \/ \E b, c, v :
                   SetRun(d, [IdleRun EXCEPT !.pc = "first", !.fresh = b, !.local = v,
                                             !.absent = c])
            BY <5>2, Zenon DEF StartRun
          <6> QED BY <6>1, <6>2
        <5>3. CASE Stop(d) \/ FirstCheck(d) \/ Claim(d) \/ FailRun(d)
          BY <5>1, <5>3 DEF Stop, FirstCheck, Claim, FailRun, Run
        <5> QED BY <3>1, <5>2, <5>3
      <4> QED BY <2>0, <4>1, <4>2 DEF SetRun, Types
    <3>2. CASE SecondCheck(d)
      <4>1. UNCHANGED <<clock, skew, head>> /\ head.n \in Nat
        BY <3>2 DEF SecondCheck, Types
      <4>2. CASE Conflict(d)
        BY <2>0, <3>2, <4>1, <4>2 DEF SecondCheck, SetRun, IdleRun, Types
      <4>3. CASE ~Conflict(d)
        <5>1. run' = [run EXCEPT ![d] = [run[d] EXCEPT !.pc = "manifest", !.seen = head.n]]
          BY <3>2, <4>3 DEF SecondCheck, SetRun
        <5>2. run'[d].seen = head.n
          BY <5>1 DEF Types, Run
        <5> QED BY <4>1, <4>3, <5>1, <5>2, NoConflictMeansOld DEF HeadInv, Types
      <4> QED BY <4>2, <4>3
    <3>3. CASE PutManifest(d)
      BY <2>0, <3>3 DEF PutManifest, SetRun, Types, Run
    <3>4. CASE PutHead(d)
      <4>1. /\ head' = [by |-> {d}, at |-> Now(d), on |-> clock, n |-> head.n + 1]
            /\ clock' = clock /\ skew' = skew /\ clock \in Nat /\ head.n \in Nat
        BY <3>4 DEF PutHead, Types
      <4>2. \E new : SetRun(d, new) /\ new.pc \in {"idle", "claim"}
        BY <3>4 DEF PutHead, IdleRun, Types, Run
      <4>3. \A e \in Devices : run'[e].pc \in {"manifest", "head"} => run'[e].seen < head'.n
        <5>1. \A e \in Devices : run[e].pc \in {"manifest", "head"} =>
                   run[e].seen \in Nat /\ run[e].seen <= head.n
          BY DEF HeadInv, Types, Run
        <5> QED BY <4>1, <4>2, <5>1 DEF SetRun, Types
      <4>4. \A e \in Devices : run'[e].pc \in {"manifest", "head"} => run'[e].seen \in Nat
        BY <4>2 DEF SetRun, Types, Run
      <4> QED BY <4>1, <4>3, <4>4 DEF HeadInv, Now
    <3> QED BY <2>4, <3>1, <3>2, <3>3, <3>4 DEF RunStep
  <2> QED BY <2>1, <2>2, <2>3, <2>4 DEF Next
<1>4. Types /\ HeadInv /\ [Next]_vars => [Kept]_vars
  <2> SUFFICES ASSUME Types, HeadInv, NEW d \in Devices, PutHead(d), head.by \ {d} # {},
                      clock - head.on <= Window - MaxSkew
               PROVE  head.n > run[d].seen
    OBVIOUS
  <2>1. /\ clock \in Nat /\ head.on \in Nat /\ Window \in Nat /\ MaxSkew \in Nat
        /\ head.n \in Nat /\ run[d].seen \in Nat
    BY DevicesAssumption DEF Types, Run
  <2>2. run[d].seen # head.n /\ run[d].seen <= head.n
    BY <2>1 DEF HeadInv, PutHead
  <2> QED BY <2>1, <2>2
<1> QED BY <1>1, <1>2, <1>3, <1>4, TypesHold, PTL DEF Spec, SecondCheckProtects

(***************************************************************************)
(* Identity.                                                               *)
(***************************************************************************)
\* How a run starts: blocked, or with what it or the session found.
LEMMA StartsWith ==
    ASSUME Types, NEW d \in Devices, StartRun(d)
    PROVE  \/ /\ UNCHANGED run
              /\ SetSession(d, Blocked(d))
           \/ \E f \in Found :
                 /\ \/ f \in session[d].cache
                    \/ /\ session[d].cache = {}
                       /\ f.local = data[d].id
                       /\ f.fresh => meta.id = NoVault
                       /\ ~f.fresh => meta.id = data[d].id
                 /\ SetSession(d, Remember(session[d], f))
                 /\ SetRun(d, [IdleRun EXCEPT !.pc = "first", !.fresh = f.fresh,
                                   !.local = f.local, !.absent = meta.id = NoVault])
<1> DEFINE kind == CheckConsistency(d)
           found == [fresh |-> kind = "fresh", local |-> data[d].id]
           StartsFrom(f) ==
                 /\ SetSession(d, Remember(session[d], f))
                 /\ SetRun(d, [IdleRun EXCEPT !.pc = "first", !.fresh = f.fresh,
                                   !.local = f.local, !.absent = meta.id = NoVault])
<1>1. session[d] \in Session /\ data[d] \in DataJson
  BY DEF Types
<1>2. CASE session[d].cache # {}
  <2>1. \E f \in session[d].cache : StartsFrom(f)
    BY <1>2, Zenon DEF StartRun
  <2> QED BY <1>1, <2>1 DEF Session
<1>3. CASE session[d].cache = {} /\ kind \in {"fresh", "ok"}
  <2>1. StartsFrom(found)
    BY <1>3 DEF StartRun
  <2>2. (kind = "fresh") \in BOOLEAN
    OBVIOUS
  <2>3. found \in Found /\ found.local = data[d].id /\ found.fresh = (kind = "fresh")
    BY <1>1, <2>2 DEF Found, DataJson
  <2>4. /\ kind = "fresh" => meta.id = NoVault
        /\ kind = "ok" => meta.id = data[d].id
    BY DEF CheckConsistency
  <2> HIDE DEF kind, found, StartsFrom
  <2>5. \E f \in Found :
            /\ f.local = data[d].id
            /\ f.fresh => meta.id = NoVault
            /\ ~f.fresh => meta.id = data[d].id
            /\ StartsFrom(f)
    BY <1>3, <2>1, <2>3, <2>4
  <2> QED BY <1>3, <2>5 DEF StartsFrom
<1>4. CASE session[d].cache = {} /\ kind \notin {"fresh", "ok"}
  BY <1>4 DEF StartRun
<1> QED BY <1>2, <1>3, <1>4

\* A session remembers no fresh folder; a run that found one saw it unclaimed.
ClaimInv ==
    \A d \in Devices :
        /\ \A f \in session[d].cache : ~f.fresh
        /\ run[d].fresh => run[d].absent
        /\ run[d].pc = "claim" => run[d].fresh

\* No run claims a folder that it did not find unclaimed (claimRemote).
THEOREM ClaimsOnlyFreshHolds == Spec => ClaimsOnlyFresh
<1>1. Init => ClaimInv
  BY DEF Init, Closed, NewSession, IdleRun, ClaimInv
<1>2. ClaimInv /\ [Next]_vars => [\A d \in Devices : Claim(d) => run[d].absent]_vars
  BY DEF ClaimInv, Claim
<1>3. Types /\ ClaimInv /\ [Next]_vars => ClaimInv'
  <2> SUFFICES ASSUME Types, ClaimInv, [Next]_vars PROVE ClaimInv'
    OBVIOUS
  <2>0. ASSUME \A d \in Devices :
                   /\ session'[d].cache \subseteq session[d].cache
                   /\ \/ run'[d].fresh = FALSE /\ run'[d].pc = "idle"
                      \/ /\ run'[d].fresh = run[d].fresh /\ run'[d].absent = run[d].absent
                         /\ run'[d].pc = "claim" => run[d].pc = "claim"
        PROVE  ClaimInv'
    BY <2>0 DEF ClaimInv
  <2>1. CASE UNCHANGED vars \/ Tick \/ DamageMeta
    BY <2>0, <2>1 DEF vars, Tick, DamageMeta
  <2>2. ASSUME NEW d \in Devices, NEW what \in {"id", "settings"},
               \/ Load(d) \/ Stop(d) \/ Probe(d) \/ Adopt(d) \/ ChangeSettings(d)
               \/ LoadData(d, what) \/ SaveData(d, what)
        PROVE  ClaimInv'
    <3>0. session[d] \in Session
      BY DEF Types
    <3>1. CASE Load(d)
      BY <2>0, <3>1 DEF Load, SetSession, NewSession, Types
    <3>2. CASE Stop(d)
      BY <2>0, <3>2 DEF Stop, SetSession, SetRun, IdleRun, Closed, NewSession, Types
    <3>3. CASE Probe(d)
      <4>1. /\ Blocked(d) \in Session /\ Blocked(d).cache = session[d].cache
            /\ Recorded(d) \in Session /\ Recorded(d).cache = session[d].cache
        BY <3>0, BlockedTypes DEF Blocked, Recorded, Session
      <4>2. \A e \in Devices : session'[e].cache = session[e].cache
        BY <3>0, <3>3, <4>1 DEF Probe, SetSession, Types, Session
      <4> QED BY <2>0, <3>3, <4>2 DEF Probe
    <3>4. CASE Adopt(d) \/ ChangeSettings(d) \/ LoadData(d, what)
      BY <2>0, <3>4 DEF Adopt, ChangeSettings, LoadData, SetLoaded
    <3>5. CASE SaveData(d, what)
      <4>1. Adopted(session[d]).cache = session[d].cache
        BY <3>0 DEF Adopted, Session
      <4>2. \A e \in Devices : session'[e].cache = session[e].cache
        BY <3>5, <4>1 DEF SaveData, SetSession, Types
      <4> QED BY <2>0, <3>5, <4>2 DEF SaveData
    <3> QED BY <2>2, <3>1, <3>2, <3>3, <3>4, <3>5
  <2>3. ASSUME NEW d \in Devices, RunStep(d) PROVE ClaimInv'
    <3>0. session[d] \in Session /\ run[d] \in Run
      BY DEF Types
    <3>1. CASE StartRun(d)
      <4>1. CASE UNCHANGED run /\ SetSession(d, Blocked(d))
        <5>1. Blocked(d).cache = session[d].cache
          BY <3>0 DEF Blocked, Recorded, Session
        <5> QED BY <2>0, <4>1, <5>1 DEF SetSession, Types
      <4>2. ASSUME NEW f \in Found,
                   f \in session[d].cache \/ (f.fresh => meta.id = NoVault),
                   SetSession(d, Remember(session[d], f)),
                   SetRun(d, [IdleRun EXCEPT !.pc = "first", !.fresh = f.fresh,
                                  !.local = f.local, !.absent = meta.id = NoVault])
            PROVE  ClaimInv'
        <5>1. /\ run'[d].fresh = f.fresh /\ run'[d].absent = (meta.id = NoVault)
              /\ run'[d].pc = "first"
          BY <4>2 DEF SetRun, IdleRun, Types
        <5>2. \A g \in session'[d].cache : ~g.fresh
          BY <3>0, <4>2 DEF SetSession, Remember, Types, Session, ClaimInv
        <5>3. f.fresh => meta.id = NoVault
          BY <4>2 DEF ClaimInv
        <5>4. \A e \in Devices \ {d} : run'[e] = run[e] /\ session'[e] = session[e]
          BY <4>2 DEF SetRun, SetSession, Types
        <5> QED BY <5>1, <5>2, <5>3, <5>4 DEF ClaimInv
      <4> QED BY <3>1, <4>1, <4>2, StartsWith
    <3>2. CASE FirstCheck(d) \/ SecondCheck(d) \/ PutManifest(d) \/ FailRun(d)
      <4>1. session' = session
        BY <3>2 DEF FirstCheck, SecondCheck, PutManifest, FailRun
      <4>2. \E new : /\ SetRun(d, new)
                     /\ \/ new = IdleRun
                        \/ /\ new.fresh = run[d].fresh /\ new.absent = run[d].absent
                           /\ new.pc # "claim"
        <5>1. LET new == [run[d] EXCEPT !.pc = "manifest", !.seen = head.n]
              IN  /\ new.fresh = run[d].fresh /\ new.absent = run[d].absent
                  /\ new.pc # "claim"
          BY <3>0 DEF Run
        <5>2. \A pc : LET new == [run[d] EXCEPT !.pc = pc]
                      IN  new.fresh = run[d].fresh /\ new.absent = run[d].absent /\ new.pc = pc
          BY <3>0 DEF Run
        <5>3. CASE SetRun(d, IdleRun)
          BY <5>3
        <5>4. CASE \E pc \in {"second", "head"} : SetRun(d, [run[d] EXCEPT !.pc = pc])
          BY <5>2, <5>4
        <5>5. CASE SetRun(d, [run[d] EXCEPT !.pc = "manifest", !.seen = head.n])
          BY <5>1, <5>5
        <5>6. CASE FirstCheck(d) \/ SecondCheck(d)
          <6>1. \/ SetRun(d, IdleRun)
                \/ SetRun(d, [run[d] EXCEPT !.pc = "second"])
                \/ SetRun(d, [run[d] EXCEPT !.pc = "manifest", !.seen = head.n])
            BY <5>6 DEF FirstCheck, SecondCheck
          <6> QED BY <5>3, <5>4, <5>5, <6>1
        <5>7. CASE PutManifest(d) \/ FailRun(d)
          BY <5>3, <5>4, <5>7 DEF PutManifest, FailRun
        <5> QED BY <3>2, <5>6, <5>7
      <4>3. IdleRun.fresh = FALSE /\ IdleRun.pc = "idle"
        BY DEF IdleRun
      <4> QED BY <2>0, <4>1, <4>2, <4>3 DEF SetRun, Types
    <3>3. CASE PutHead(d)
      BY <3>0, <3>3 DEF PutHead, SetRun, IdleRun, Types, Run, ClaimInv
    <3>4. CASE Claim(d)
      <4>1. \A g \in session'[d].cache : g.fresh = FALSE
        BY <3>0, <3>4 DEF Claim, SetSession, Types, Session
      <4>2. run'[d].pc = "idle" /\ run'[d].fresh = FALSE
        BY <3>4 DEF Claim, SetRun, IdleRun, Types
      <4>3. \A e \in Devices \ {d} : run'[e] = run[e] /\ session'[e] = session[e]
        BY <3>4 DEF Claim, SetRun, SetSession, Types
      <4> QED BY <4>1, <4>2, <4>3 DEF ClaimInv
    <3> QED BY <2>3, <3>1, <3>2, <3>3, <3>4 DEF RunStep
  <2> QED BY <2>1, <2>2, <2>3 DEF Next
<1> QED BY <1>1, <1>2, <1>3, TypesHold, PTL DEF Spec, ClaimsOnlyFresh

\* As long as vault_meta.json is the one a session opened on: what the session
\* may adopt, what it remembers and what its run may write to.
Stranger(d) ==
    /\ run[d].pc # "idle" => session[d].open
    /\ session[d].open => session[d].at.n <= meta.n
    /\ session[d].open /\ session[d].at.n = meta.n =>
           /\ session[d].at.id = meta.id
           /\ session[d].record \in {NoVault, meta.id}
           /\ writes[d]["id"].st # "idle" => writes[d]["id"].value = meta.id
           /\ session[d].cache # {} => data[d].id = meta.id
           /\ run[d].pc # "idle" => meta.id \in {NoVault, data[d].id}

StrangerInv == \A d \in Devices : Stranger(d)

\* A vault that opens on another vault's folder writes nothing to it.
THEOREM StrangersWriteNothingHolds == Spec => StrangersWriteNothing
<1>1. Init => StrangerInv
  BY DEF Init, Closed, NewSession, IdleRun, StrangerInv, Stranger
<1>2. StrangerInv /\ [Next]_vars =>
         [\A d \in Devices : PutManifest(d) /\ meta.n = session[d].at.n
              => session[d].at.id \in {NoVault, data[d].id}]_vars
  BY DEF StrangerInv, Stranger, PutManifest
<1>3. Types /\ QueueInv /\ StrangerInv /\ [Next]_vars => StrangerInv'
  <2> SUFFICES ASSUME Types, QueueInv, StrangerInv, [Next]_vars PROVE StrangerInv'
    OBVIOUS
  <2>0. ASSUME UNCHANGED <<meta, data, writes, session>>,
               \A d \in Devices : run[d].pc = "idle" => run'[d].pc = "idle"
        PROVE  StrangerInv'
    BY <2>0 DEF StrangerInv, Stranger
  \* A vault_meta.json that changed is nobody's any more.
  <2>1. ASSUME meta'.n = meta.n + 1,
               \A d \in Devices :
                   /\ session'[d].open = session[d].open /\ session'[d].at = session[d].at
                   /\ run[d].pc = "idle" => run'[d].pc = "idle"
        PROVE  StrangerInv'
    <3>1. meta.n \in Nat /\ \A d \in Devices : session[d].at.n \in Nat
      BY DEF Types, Meta, Session
    <3> QED BY <2>1, <3>1 DEF StrangerInv, Stranger
  <2>2. CASE UNCHANGED vars \/ Tick
    BY <2>0, <2>2 DEF vars, Tick
  <2>3. CASE DamageMeta
    BY <2>1, <2>3 DEF DamageMeta
  <2>4. ASSUME NEW d \in Devices, NEW what \in {"id", "settings"},
               \/ Load(d) \/ Stop(d) \/ Probe(d) \/ Adopt(d) \/ ChangeSettings(d)
               \/ LoadData(d, what) \/ SaveData(d, what)
        PROVE  StrangerInv'
    <3>0. session[d] \in Session /\ run[d] \in Run /\ data[d] \in DataJson
      BY DEF Types
    <3>1. CASE Load(d)
      <4>1. /\ session'[d].at = meta /\ session'[d].record = NoVault
            /\ session'[d].cache = {} /\ meta' = meta /\ meta.n \in Nat
        BY <3>1 DEF Load, SetSession, NewSession, Types, Meta
      <4>2. writes'[d]["id"].st = "idle" /\ run'[d].pc = "idle"
        BY <3>1 DEF Load, QueueInv, StrangerInv, Stranger
      <4>3. UNCHANGED <<writes, run>> /\ \A e \in Devices \ {d} :
                session'[e] = session[e] /\ data'[e] = data[e]
        BY <3>1 DEF Load, SetSession, Types
      <4> QED BY <4>1, <4>2, <4>3 DEF StrangerInv, Stranger
    <3>2. CASE Stop(d)
      <4>1. session'[d].open = FALSE /\ run'[d].pc = "idle"
        BY <3>2 DEF Stop, SetSession, SetRun, Closed, NewSession, IdleRun, Types
      <4>2. UNCHANGED <<meta, data>> /\ \A e \in Devices \ {d} :
                session'[e] = session[e] /\ run'[e] = run[e] /\ writes'[e] = writes[e]
        BY <3>2 DEF Stop, SetSession, SetRun, Types
      <4> QED BY <4>1, <4>2 DEF StrangerInv, Stranger
    <3>3. CASE Probe(d)
      <4>1. /\ session'[d].open = session[d].open /\ session'[d].at = session[d].at
            /\ session'[d].cache = session[d].cache
            /\ session'[d].record \in {session[d].record, meta.id, NoVault}
        BY <3>0, <3>3, BlockedTypes DEF Probe, SetSession, Blocked, Recorded, Types, Session
      <4>2. UNCHANGED <<meta, data, writes, run>>
               /\ \A e \in Devices \ {d} : session'[e] = session[e]
        BY <3>3 DEF Probe, SetSession, Types
      <4> QED BY <4>1, <4>2 DEF StrangerInv, Stranger
    <3>4. CASE Adopt(d)
      <4>1. /\ writes'[d]["id"].value = session[d].record /\ session[d].record # NoVault
            /\ \A e \in Devices \ {d} : writes'[e] = writes[e]
        BY <3>4 DEF Adopt, NoWrite, Types
      <4> QED BY <3>4, <4>1 DEF Adopt, StrangerInv, Stranger
    <3>5. CASE ChangeSettings(d) \/ LoadData(d, what)
      <4>1. CASE ChangeSettings(d)
        <5>1. \A e \in Devices : writes'[e]["id"] = writes[e]["id"]
          BY <4>1 DEF ChangeSettings, Types
        <5> QED BY <4>1, <5>1 DEF ChangeSettings, StrangerInv, Stranger
      <4>2. CASE LoadData(d, what)
        <5>1. \A e \in Devices : /\ writes'[e]["id"].value = writes[e]["id"].value
                                 /\ writes[e]["id"].st = "idle" => writes'[e]["id"].st = "idle"
          BY <4>2 DEF LoadData, SetLoaded, Types, Update
        <5> QED BY <4>2, <5>1 DEF LoadData, SetLoaded, StrangerInv, Stranger
      <4> QED BY <3>5, <4>1, <4>2
    <3>6. CASE SaveData(d, what)
      <4>1. /\ session'[d].open = session[d].open /\ session'[d].at = session[d].at
            /\ session'[d].cache = session[d].cache
            /\ session'[d].record \in {session[d].record, NoVault}
        BY <3>0, <3>6 DEF SaveData, SetSession, Adopted, Types, Session
      <4>2. UNCHANGED <<meta, run>> /\ \A e \in Devices \ {d} :
                session'[e] = session[e] /\ data'[e] = data[e] /\ writes'[e] = writes[e]
        BY <3>6 DEF SaveData, SetSession, Types
      <4>3. /\ writes'[d]["id"].st = "idle" \/ writes'[d]["id"] = writes[d]["id"]
            /\ data'[d].id \in {data[d].id, writes[d]["id"].value}
            /\ writes[d]["id"].st = "idle" => data'[d].id = data[d].id
        BY <3>0, <3>6 DEF SaveData, NoWrite, QueueInv, Types, DataJson
      <4> QED BY <4>1, <4>2, <4>3 DEF StrangerInv, Stranger
    <3> QED BY <2>4, <3>1, <3>2, <3>3, <3>4, <3>5, <3>6
  <2>5. ASSUME NEW d \in Devices, RunStep(d) PROVE StrangerInv'
    <3>0. session[d] \in Session /\ run[d] \in Run
      BY DEF Types
    <3>1. CASE StartRun(d)
      <4>1. session[d].open /\ UNCHANGED <<meta, data, writes>>
        BY <3>1 DEF StartRun
      <4>2. CASE UNCHANGED run /\ SetSession(d, Blocked(d))
        <5>1. /\ session'[d].open = session[d].open /\ session'[d].at = session[d].at
              /\ session'[d].cache = session[d].cache
              /\ session'[d].record \in {NoVault, meta.id}
          BY <3>0, <4>2 DEF SetSession, Blocked, Recorded, Types, Session
        <5>2. \A e \in Devices \ {d} : session'[e] = session[e]
          BY <4>2 DEF SetSession, Types
        <5>3. Stranger(d)'
          BY <4>1, <4>2, <5>1 DEF StrangerInv, Stranger
        <5>4. \A e \in Devices \ {d} : Stranger(e)'
          BY <4>1, <4>2, <5>2 DEF StrangerInv, Stranger
        <5> QED BY <5>3, <5>4 DEF StrangerInv
      <4>3. ASSUME NEW f \in Found,
                   \/ f \in session[d].cache
                   \/ /\ session[d].cache = {}
                      /\ f.fresh => meta.id = NoVault
                      /\ ~f.fresh => meta.id = data[d].id,
                   SetSession(d, Remember(session[d], f)),
                   \E new : SetRun(d, new)
            PROVE  StrangerInv'
        <5>1. /\ session'[d].open = session[d].open /\ session'[d].at = session[d].at
              /\ session'[d].record = session[d].record
              /\ session'[d].cache = IF f.fresh THEN session[d].cache ELSE {f}
          BY <3>0, <4>3 DEF SetSession, Remember, Types, Session
        <5>2. \A e \in Devices \ {d} : session'[e] = session[e] /\ run'[e] = run[e]
          BY <4>3 DEF SetSession, SetRun, Types
        <5>3. Stranger(d)'
          <6>1. session[d].cache = {} \/ session[d].at.n # meta.n \/ data[d].id = meta.id
            BY <4>1 DEF StrangerInv, Stranger
          <6>2. CASE session[d].cache = {} /\ f.fresh
            BY <4>1, <4>3, <5>1, <6>2 DEF StrangerInv, Stranger
          <6>3. CASE data[d].id = meta.id
            BY <4>1, <5>1, <6>3 DEF StrangerInv, Stranger
          <6>4. CASE session[d].at.n # meta.n
            BY <4>1, <5>1, <6>4 DEF StrangerInv, Stranger
          <6> QED BY <4>3, <6>1, <6>2, <6>3, <6>4
        <5>4. \A e \in Devices \ {d} : Stranger(e)'
          BY <4>1, <5>2 DEF StrangerInv, Stranger
        <5> QED BY <5>3, <5>4 DEF StrangerInv
      <4> QED BY <3>1, <4>2, <4>3, StartsWith
    <3>2. CASE FirstCheck(d) \/ SecondCheck(d) \/ PutManifest(d) \/ PutHead(d) \/ FailRun(d)
      <4>1. run[d].pc # "idle" /\ \E new : SetRun(d, new)
        BY <3>2 DEF FirstCheck, SecondCheck, PutManifest, PutHead, FailRun
      <4>2. UNCHANGED <<meta, data, writes, session>>
        BY <3>2 DEF FirstCheck, SecondCheck, PutManifest, PutHead, FailRun
      <4> QED BY <2>0, <4>1, <4>2 DEF SetRun, Types
    <3>3. CASE Claim(d)
      <4>1. meta'.n = meta.n + 1
        BY <3>3 DEF Claim
      <4>2. \A e \in Devices : /\ session'[e].open = session[e].open
                               /\ session'[e].at = session[e].at
                               /\ run[e].pc = "idle" => run'[e].pc = "idle"
        BY <3>0, <3>3 DEF Claim, SetSession, SetRun, IdleRun, Types, Session
      <4> QED BY <2>1, <4>1, <4>2
    <3> QED BY <2>5, <3>1, <3>2, <3>3 DEF RunStep
  <2> QED BY <2>2, <2>3, <2>4, <2>5 DEF Next
<1> QED
  BY <1>1, <1>2, <1>3, TypesHold, QueueInvHolds, PTL
     DEF Spec, StrangersWriteNothing
=============================================================================
