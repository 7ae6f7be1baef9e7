----------------------- MODULE SnapshotCommit_proofs -----------------------
(***************************************************************************)
(* The backups of one vault, for every number of paths, contents, edits,   *)
(* failures and crashes.  In this order:                                   *)
(*   - partial functions, types of the store (StoreTypeCorrect), and the   *)
(*     commit order (CommitInv, CommitOrderHolds);                         *)
(*   - instants, ids and rows (TimeInv, RowsInv, Instants);                *)
(*   - folds and chains: what a replay computes, and that a new manifest   *)
(*     changes no chain (MaterializeKept);                                 *)
(*   - the queue, plans and stored data have their types (TypesInv);       *)
(*   - chains stay whole (ChainInv), the folder is a log (LogInv), the     *)
(*     local index follows the tip (IndexInv);                             *)
(*   - what was observed is kept (CoverInv).                               *)
(***************************************************************************)
EXTENDS SnapshotProperties, FiniteSetTheorems, WellFoundedInduction, TLAPS

(***************************************************************************)
(* Partial functions.                                                      *)
(***************************************************************************)
LEMMA OverlayValues ==
    ASSUME NEW f, NEW k, NEW v
    PROVE  /\ DOMAIN Overlay(f, [x \in {k} |-> v]) = DOMAIN f \cup {k}
           /\ Overlay(f, [x \in {k} |-> v])[k] = v
           /\ \A x \in DOMAIN f : x # k => Overlay(f, [y \in {k} |-> v])[x] = f[x]
           /\ Values(Overlay(f, [x \in {k} |-> v])) \subseteq Values(f) \cup {v}
BY DEF Overlay, Values

LEMMA WithoutValues ==
    ASSUME NEW f, NEW S
    PROVE  Values(Without(f, S)) \subseteq Values(f)
BY DEF Without, Values

LEMMA OnlyValues ==
    ASSUME NEW f, NEW S
    PROVE  Values(Only(f, S)) \subseteq Values(f)
BY DEF Only, Values

LEMMA FileMapsFacts ==
    ASSUME NEW f
    PROVE  f \in FileMaps <=>
               /\ DOMAIN f \subseteq Paths
               /\ f \in [DOMAIN f -> Contents]
BY DEF FileMaps, PartialFunctions

LEMMA FileMapsClosed ==
    ASSUME NEW f \in FileMaps
    PROVE  /\ \A p \in Paths, c \in Contents :
                  Overlay(f, [x \in {p} |-> c]) \in FileMaps
           /\ \A S : Without(f, S) \in FileMaps
           /\ \A S : Only(f, S) \in FileMaps
           /\ \A p \in DOMAIN f : p \in Paths /\ f[p] \in Contents
<1>0. DOMAIN f \subseteq Paths /\ f \in [DOMAIN f -> Contents]
  BY FileMapsFacts
<1>1. ASSUME NEW p \in Paths, NEW c \in Contents
      PROVE  Overlay(f, [x \in {p} |-> c]) \in FileMaps
  <2> DEFINE g == Overlay(f, [x \in {p} |-> c])
  <2>1. DOMAIN g = DOMAIN f \cup {p}
    BY DEF Overlay
  <2>2. g \in [DOMAIN g -> Contents]
    BY <1>0, <2>1 DEF Overlay
  <2> QED BY <1>0, <2>1, <2>2, FileMapsFacts
<1>2. ASSUME NEW S PROVE Without(f, S) \in FileMaps
  BY <1>0, FileMapsFacts DEF Without
<1>3. ASSUME NEW S PROVE Only(f, S) \in FileMaps
  BY <1>0, FileMapsFacts DEF Only
<1> QED BY <1>0, <1>1, <1>2, <1>3

(***************************************************************************)
(* The commit order.                                                       *)
(***************************************************************************)
\* An incremental run that is not yet a manifest has a full backup to build
\* on; the manifest in flight references read contents and a known parent;
\* every later phase has what the earlier ones uploaded.
InFlight ==
    /\ pc = "list" => kind = "full"
    /\ pc = "blobs" => Values(man.files) \subseteq Values(read)
    /\ losses = 0 =>
          /\ rowsOk
          /\ index.full \in DOMAIN manifests \cup {NoId}
          /\ index.inc \in DOMAIN manifests \cup {NoId}
          /\ (kind = "inc" /\ pc \in {"walk", "queue", "scan", "stamp", "read"})
                 => index.full # NoId
          /\ (pc = "blobs" /\ man.type = "inc")
                 => man.parent \in DOMAIN manifests
          /\ pc \in {"row", "head", "index", "cursor"}
                 => man.id \in DOMAIN manifests
          /\ pc = "head" => \E r \in rows : r.id = man.id

CommitInv == losses \in Nat /\ CommitOrder /\ InFlight

LEMMA InitCommitInv == Init => CommitInv
BY DEF Init, RunInit, CommitInv, CommitOrder, BlobsFirst, LinksFirst, InFlight,
       Values, EmptyMap, NoIndex

\* A step that leaves the Dropbox folder, the index and the losses alone,
\* and is idle afterwards or in a phase before the manifest.
LEMMA QuietStep ==
    ASSUME CommitInv, UNCHANGED <<remote, index, losses>>,
           \/ UNCHANGED <<pc, kind, man, read>>
           \/ pc' = "idle"
           \/ pc' \in {"list", "read"} /\ kind' = "full"
           \/ /\ pc' \in {"walk", "queue", "scan", "stamp", "read"}
              /\ \/ index.full # NoId
                 \/ kind = kind' /\ pc \in {"walk", "queue", "scan", "stamp", "read"}
    PROVE  CommitInv'
BY DEF CommitInv, CommitOrder, BlobsFirst, LinksFirst, InFlight, remote

LEMMA FaultStep ==
    ASSUME CommitInv, NEW id,
           (LoseManifest(id) \/ CorruptRows)
    PROVE  CommitInv'
<1>1. losses' \in Nat /\ losses' # 0
  BY DEF CommitInv, LoseManifest, CorruptRows
<1>2. BlobsFirst'
  <2>1. CASE LoseManifest(id)
    BY <2>1, WithoutValues DEF CommitInv, CommitOrder, BlobsFirst, LoseManifest
  <2>2. CASE CorruptRows
    BY <2>2 DEF CommitInv, CommitOrder, BlobsFirst, CorruptRows
  <2> QED BY <2>1, <2>2
<1>3. UNCHANGED <<pc, kind, man, read>>
  BY DEF LoseManifest, CorruptRows, run
<1> QED BY <1>1, <1>2, <1>3 DEF CommitInv, CommitOrder, InFlight

LEMMA BuildStep ==
    ASSUME CommitInv, BuildFull \/ BuildInc
    PROVE  CommitInv'
<1>1. UNCHANGED <<remote, index, losses, read>> /\ pc' = "blobs" /\ pc = "read"
  BY DEF BuildFull, BuildInc, counts
<1>2. Values(man'.files) \subseteq Values(read)
  <2>1. CASE BuildFull
    BY <2>1 DEF BuildFull, FullManifest
  <2>2. CASE BuildInc
    BY <2>2, OnlyValues DEF BuildInc, IncManifest, IncFiles, ChangedFiles
  <2> QED BY <2>1, <2>2
<1>3. ASSUME losses = 0, man'.type = "inc"
      PROVE  man'.parent \in DOMAIN manifests
  <2>1. BuildInc /\ kind = "inc"
    BY <1>3 DEF BuildFull, BuildInc, FullManifest
  <2>2. man'.parent = LastId(index)
    BY <2>1 DEF BuildInc, IncManifest
  <2> QED BY <1>1, <1>3, <2>1, <2>2 DEF CommitInv, InFlight, LastId
<1> QED BY <1>1, <1>2, <1>3
        DEF CommitInv, CommitOrder, BlobsFirst, LinksFirst, InFlight, remote

LEMMA UploadStep ==
    ASSUME CommitInv, NEW c, UploadBlob(c)
    PROVE  CommitInv'
BY DEF UploadBlob, CommitInv, CommitOrder, BlobsFirst, LinksFirst, InFlight,
       run, counts

LEMMA PutManifestStep ==
    ASSUME CommitInv, PutManifest
    PROVE  CommitInv'
<1> DEFINE after == Overlay(manifests, [x \in {man.id} |-> man])
<1>1. /\ manifests' = after /\ pc = "blobs" /\ pc' = "row"
      /\ Values(read) \subseteq blobs
      /\ UNCHANGED <<blobs, rows, rowsOk, head, man, read, kind, index, losses>>
  BY DEF PutManifest, counts
<1>2. /\ DOMAIN after = DOMAIN manifests \cup {man.id}
      /\ Values(after) \subseteq Values(manifests) \cup {man}
  BY DEF Overlay, Values
<1>3. Values(man.files) \subseteq blobs
  BY <1>1 DEF CommitInv, InFlight
<1>4. BlobsFirst'
  BY <1>1, <1>2, <1>3 DEF CommitInv, CommitOrder, BlobsFirst
<1>5. losses = 0 => LinksFirst'
  BY <1>1, <1>2 DEF CommitInv, CommitOrder, LinksFirst, InFlight
<1> HIDE DEF after
<1> QED BY <1>1, <1>2, <1>4, <1>5 DEF CommitInv, CommitOrder, InFlight

LEMMA AppendRowStep ==
    ASSUME CommitInv, AppendRow
    PROVE  CommitInv'
<1>1. /\ pc = "row" /\ pc' = "head" /\ rowsOk'
      /\ UNCHANGED <<blobs, manifests, head, man, read, kind, index, losses>>
  BY DEF AppendRow, counts
<1>2. ASSUME losses = 0
      PROVE  /\ rows' = rows \cup {RowOf(man)}
             /\ man.id \in DOMAIN manifests
             /\ RowOf(man).id = man.id
  BY <1>1, <1>2 DEF AppendRow, CommitInv, InFlight, RowOf
<1>3. losses = 0 => LinksFirst'
  BY <1>1, <1>2 DEF CommitInv, CommitOrder, LinksFirst
<1>4. BlobsFirst'
  BY <1>1 DEF CommitInv, CommitOrder, BlobsFirst
<1> QED BY <1>1, <1>2, <1>3, <1>4 DEF CommitInv, CommitOrder, InFlight

LEMMA PutHeadStep ==
    ASSUME CommitInv, PutHead
    PROVE  CommitInv'
BY DEF PutHead, CommitInv, CommitOrder, BlobsFirst, LinksFirst, InFlight, counts

LEMMA SaveLocalIndexStep ==
    ASSUME CommitInv, SaveLocalIndex
    PROVE  CommitInv'
<1>1. /\ pc = "index" /\ pc' = "cursor" /\ index' = IndexAfter(index, man)
      /\ UNCHANGED <<remote, man, read, kind, losses>>
  BY DEF SaveLocalIndex, counts
<1>2. /\ index'.full \in {man.id, index.full}
      /\ index'.inc \in {man.id, NoId}
  BY <1>1 DEF IndexAfter
<1> QED BY <1>1, <1>2
        DEF CommitInv, CommitOrder, BlobsFirst, LinksFirst, InFlight, remote

LEMMA NextCommitInv == CommitInv /\ [Next]_vars => CommitInv'
<1> SUFFICES ASSUME CommitInv, [Next]_vars PROVE CommitInv'
  OBVIOUS
<1>1. CASE UserEdit
  <2>1. UNCHANGED <<remote, index, losses, pc, kind, man, read>>
    BY <1>1 DEF UserEdit, Create, Modify, Delete, Rename, Edit, run
  <2> QED BY <2>1, QuietStep
<1>2. CASE PersistQueue
  BY <1>2, QuietStep DEF PersistQueue, run, counts
<1>3. CASE StartFull
  BY <1>3, QuietStep DEF StartFull, EnterFull
<1>4. CASE TickInc \/ ManualInc
  <2>1. /\ UNCHANGED <<remote, index, losses>>
        /\ \/ pc' = "list" /\ kind' = "full"
           \/ pc' \in {"walk", "queue"} /\ index.full # NoId
    BY <1>4 DEF TickInc, ManualInc, StartInc, EnterFull
  <2> QED BY <2>1, QuietStep
<1>5. CASE WalkChain
  BY <1>5, QuietStep DEF WalkChain, EnterFull, counts
<1>6. CASE LoadQueue
  BY <1>6, QuietStep DEF LoadQueue, RunOver, counts
<1>7. CASE Reconcile
  BY <1>7, QuietStep DEF Reconcile, RunOver, counts
<1>8. CASE StampInc
  BY <1>8, QuietStep DEF StampInc, counts
<1>9. CASE ListVault
  <2>1. UNCHANGED <<remote, index, losses, kind>> /\ pc = "list" /\ pc' = "read"
    BY <1>9 DEF ListVault, counts
  <2>2. kind' = "full"
    BY <2>1 DEF CommitInv, InFlight
  <2> QED BY <2>1, <2>2, QuietStep
<1>10. CASE \E p \in Paths : ReadFile(p) \/ ReadVanished(p)
  BY <1>10, QuietStep DEF ReadFile, ReadVanished, RunOver, counts
<1>11. CASE BuildFull \/ BuildInc
  BY <1>11, BuildStep
<1>12. CASE SkipInc
  BY <1>12, QuietStep DEF SkipInc, RunOver, counts
<1>13. CASE \E c \in Contents : UploadBlob(c)
  BY <1>13, UploadStep
<1>14. CASE PutManifest
  BY <1>14, PutManifestStep
<1>15. CASE AppendRow
  BY <1>15, AppendRowStep
<1>16. CASE PutHead
  BY <1>16, PutHeadStep
<1>17. CASE SaveLocalIndex
  BY <1>17, SaveLocalIndexStep
<1>18. CASE FinishRun \/ FailRun \/ Stop
  BY <1>18, QuietStep DEF FinishRun, FailRun, Stop, RunOver, counts
<1>19. CASE Load
  BY <1>19, QuietStep DEF Load, run, counts
<1>20. CASE \E id \in DOMAIN manifests : LoseManifest(id)
  BY <1>20, FaultStep
<1>21. CASE CorruptRows
  BY <1>21, FaultStep
<1>22. CASE UNCHANGED vars
  BY <1>22, QuietStep DEF vars, run, counts
<1> QED BY <1>1, <1>2, <1>3, <1>4, <1>5, <1>6, <1>7, <1>8, <1>9, <1>10, <1>11,
           <1>12, <1>13, <1>14, <1>15, <1>16, <1>17, <1>18, <1>19, <1>20,
           <1>21, <1>22 DEF Next, RunStep

\* At every moment, whatever stopped or failed before: the blobs of every
\* manifest are stored, and as long as nobody deleted anything on Dropbox,
\* so are its parent, the manifest of every index row, and HEAD's row
\* (BackupService.commitSnapshot).
THEOREM CommitOrderHolds == Spec => []CommitOrder
<1>1. CommitInv => CommitOrder
  BY DEF CommitInv
<1> QED BY InitCommitInv, NextCommitInv, <1>1, PTL DEF Spec
(***************************************************************************)
(* Types.                                                                  *)
(***************************************************************************)
LEMMA SnapshotIdType ==
    ASSUME NEW t \in Nat, NEW type \in Kinds
    PROVE  SnapshotId(t, Minute, type) \in SnapshotIds
<1>1. Minute \in Nat \ {0}
  BY SnapshotCommitAssumption
<1>2. t \div Minute \in Nat
  BY <1>1
<1> QED BY <1>2 DEF SnapshotId, SnapshotIds

LEMMA GapTypes == EventGap \in Nat /\ RunGap \in Nat
BY SnapshotCommitAssumption

LEMMA EmptyFileMap == EmptyMap \in FileMaps
BY FileMapsFacts DEF EmptyMap

LEMMA BlankType == Blank.id \in SnapshotIds /\ Blank.files \in FileMaps
BY SnapshotIdType, EmptyFileMap DEF Blank, FullManifest, Kinds

LEMMA InitStoreTypeOK == Init => StoreTypeOK
<1> SUFFICES ASSUME Init PROVE StoreTypeOK
  OBVIOUS
<1>1. vault \in FileMaps
  <2>1. ASSUME NEW p \in Paths, NEW c \in Contents
        PROVE  [x \in {p} |-> c] \in FileMaps
    <3>1. /\ DOMAIN [x \in {p} |-> c] \subseteq Paths
          /\ [x \in {p} |-> c] \in [DOMAIN [x \in {p} |-> c] -> Contents]
      OBVIOUS
    <3> QED BY <3>1, FileMapsFacts
  <2>2. \/ vault = EmptyMap
        \/ \E p \in Paths, c \in Contents : vault = [x \in {p} |-> c]
    BY DEF Init
  <2> QED BY <2>1, <2>2, EmptyFileMap
<1>2. man.id \in SnapshotIds /\ man.files \in FileMaps
  BY BlankType DEF Init, RunInit
<1>3. DOMAIN manifests = {}
  BY DEF Init, EmptyMap
<1>4. read \in FileMaps
  BY EmptyFileMap DEF Init, RunInit
<1>5. {loaded, firstInc, chainVerified, rowsOk, reconcile, committed, gaveUp} \subseteq BOOLEAN
  BY DEF Init, RunInit
<1>6. {createdAt, edits, fulls, manual, fails, stops, losses} \subseteq Nat
  BY DEF Init, RunInit
<1> QED BY <1>1, <1>2, <1>3, <1>4, <1>5, <1>6
        DEF Init, RunInit, NoIndex, StoreTypeOK, Phases, Kinds

LEMMA RunOverTypes ==
    ASSUME RunOver
    PROVE  /\ pc' \in Phases /\ kind' \in Kinds /\ reconcile' \in BOOLEAN
           /\ todo' \subseteq Paths /\ read' \in FileMaps
           /\ man'.id \in SnapshotIds /\ man'.files \in FileMaps
           /\ createdAt' \in Nat
BY BlankType, EmptyFileMap DEF RunOver, Phases, Kinds

LEMMA EditStoreType ==
    ASSUME StoreTypeOK, UserEdit
    PROVE  StoreTypeOK'
<1>1. PICK type, path, prev, after : Edit(type, path, prev, after) /\ after \in FileMaps
  <2>1. vault \in FileMaps
    BY DEF StoreTypeOK
  <2>2. ASSUME NEW p \in Paths, NEW c \in Contents, Create(p, c) \/ Modify(p, c)
        PROVE  \E type, path, prev, after :
                   Edit(type, path, prev, after) /\ after \in FileMaps
    BY <2>1, <2>2, FileMapsClosed DEF Create, Modify
  <2>3. ASSUME NEW p \in Paths, Delete(p)
        PROVE  \E type, path, prev, after :
                   Edit(type, path, prev, after) /\ after \in FileMaps
    BY <2>1, <2>3, FileMapsClosed DEF Delete
  <2>4. ASSUME NEW p \in Paths, NEW q \in Paths, Rename(p, q)
        PROVE  \E type, path, prev, after :
                   Edit(type, path, prev, after) /\ after \in FileMaps
    <3>1. Without(vault, {p}) \in FileMaps /\ vault[p] \in Contents
      BY <2>1, <2>4, FileMapsClosed DEF Rename
    <3>2. Overlay(Without(vault, {p}), [x \in {q} |-> vault[p]]) \in FileMaps
      BY <3>1, FileMapsClosed
    <3> QED BY <2>4, <3>2 DEF Rename
  <2> QED BY <2>2, <2>3, <2>4 DEF UserEdit
<1>2. /\ clock' \in Nat /\ edits' \in Nat /\ vault' \in FileMaps
      /\ UNCHANGED <<loaded, index, memory, remote, run, fulls, manual, fails,
                     stops, losses, committed, gaveUp>>
  BY <1>1, GapTypes DEF Edit, StoreTypeOK
<1> QED BY <1>2 DEF StoreTypeOK, memory, remote, run

LEMMA StartStoreType ==
    ASSUME StoreTypeOK, StartFull \/ TickInc \/ ManualInc
    PROVE  StoreTypeOK'
<1>1. /\ clock' \in Nat /\ createdAt' \in Nat
      /\ fulls' \in Nat /\ manual' \in Nat
      /\ UNCHANGED <<vault, loaded, index, remote, todo, read, man, edits,
                     fails, stops, losses, committed, chainVerified, gaveUp>>
  BY GapTypes
  DEF StartFull, TickInc, ManualInc, StartInc, EnterFull, memory, ghosts, StoreTypeOK
<1>2. pc' \in Phases /\ kind' \in Kinds
  BY DEF StartFull, TickInc, ManualInc, StartInc, EnterFull, Phases, Kinds, StoreTypeOK
<1>3. firstInc' \in BOOLEAN /\ reconcile' \in BOOLEAN
  BY DEF StartFull, TickInc, ManualInc, StartInc, memory, StoreTypeOK
<1> QED BY <1>1, <1>2, <1>3 DEF StoreTypeOK, remote

LEMMA QueueStoreType ==
    ASSUME StoreTypeOK,
           PersistQueue \/ WalkChain \/ LoadQueue \/ Reconcile \/ SkipInc
    PROVE  StoreTypeOK'
<1>1. UNCHANGED <<clock, vault, loaded, firstInc, index, remote, counts, committed>>
  BY DEF PersistQueue, WalkChain, LoadQueue, Reconcile, SkipInc, memory, ghosts
<1>2. chainVerified' \in BOOLEAN /\ gaveUp' \in BOOLEAN
  BY DEF PersistQueue, WalkChain, LoadQueue, Reconcile, SkipInc, memory, ghosts, StoreTypeOK
<1>3. /\ pc' \in Phases /\ kind' \in Kinds /\ reconcile' \in BOOLEAN
      /\ todo' \subseteq Paths /\ read' \in FileMaps
      /\ man'.id \in SnapshotIds /\ man'.files \in FileMaps
      /\ createdAt' \in Nat
  <2>1. CASE PersistQueue
    BY <2>1 DEF PersistQueue, run, StoreTypeOK
  <2>2. CASE WalkChain
    BY <2>2 DEF WalkChain, EnterFull, StoreTypeOK, Phases, Kinds
  <2>3. CASE RunOver
    BY <2>3, RunOverTypes
  <2>4. CASE (LoadQueue \/ Reconcile) /\ ~RunOver
    BY <2>4 DEF LoadQueue, Reconcile, StoreTypeOK, Phases
  <2> QED BY <2>1, <2>2, <2>3, <2>4 DEF SkipInc
<1> QED BY <1>1, <1>2, <1>3 DEF StoreTypeOK, remote, counts

LEMMA ReadStoreType ==
    ASSUME StoreTypeOK,
           \/ StampInc \/ ListVault
           \/ \E p \in Paths : ReadFile(p) \/ ReadVanished(p)
    PROVE  StoreTypeOK'
<1>1. UNCHANGED <<clock, vault, loaded, index, memory, remote, counts, committed,
                  gaveUp>>
  BY DEF StampInc, ListVault, ReadFile, ReadVanished, ghosts
<1>2. vault \in FileMaps /\ DOMAIN vault \subseteq Paths
  BY FileMapsClosed DEF StoreTypeOK
<1>3. CASE StampInc \/ ListVault
  BY <1>1, <1>2, <1>3
  DEF StampInc, ListVault, StoreTypeOK, Phases, memory, remote, counts
<1>4. ASSUME NEW p \in Paths, ReadFile(p)
      PROVE  StoreTypeOK'
  <2>1. read' \in FileMaps /\ todo' \subseteq Paths
    <3>1. vault[p] \in Contents /\ read \in FileMaps
      BY <1>2, <1>4, FileMapsClosed DEF ReadFile, StoreTypeOK
    <3> QED BY <1>4, <3>1, FileMapsClosed DEF ReadFile, StoreTypeOK
  <2>2. UNCHANGED <<pc, kind, reconcile, createdAt, man>>
    BY <1>4 DEF ReadFile
  <2> QED BY <1>1, <2>1, <2>2 DEF StoreTypeOK, memory, remote, counts
<1>5. ASSUME NEW p \in Paths, ReadVanished(p)
      PROVE  StoreTypeOK'
  <2>1. RunOver
    BY <1>5 DEF ReadVanished
  <2> QED BY <1>1, <2>1, RunOverTypes DEF StoreTypeOK, memory, remote, counts
<1> QED BY <1>3, <1>4, <1>5

LEMMA BuildStoreType ==
    ASSUME StoreTypeOK, BuildFull \/ BuildInc
    PROVE  StoreTypeOK'
<1>1. /\ pc' \in Phases
      /\ UNCHANGED <<clock, vault, loaded, index, memory, remote, kind,
                     reconcile, todo, read, createdAt, counts, committed,
                     gaveUp>>
  BY DEF BuildFull, BuildInc, ghosts, Phases
<1>2. man'.id \in SnapshotIds
  BY SnapshotIdType
  DEF BuildFull, BuildInc, FullManifest, IncManifest, StoreTypeOK, Kinds
<1>3. man'.files \in FileMaps
  <2>1. CASE BuildFull
    BY <2>1 DEF BuildFull, FullManifest, StoreTypeOK
  <2>2. CASE BuildInc
    <3>1. man'.files = IncFiles
      BY <2>2 DEF BuildInc, IncManifest
    <3> QED BY <3>1, FileMapsClosed DEF IncFiles, ChangedFiles, StoreTypeOK
  <2> QED BY <2>1, <2>2
<1> QED BY <1>1, <1>2, <1>3 DEF StoreTypeOK, memory, remote, counts

LEMMA CommitStoreType ==
    ASSUME StoreTypeOK,
           \/ \E c \in Contents : UploadBlob(c)
           \/ PutManifest \/ AppendRow \/ PutHead \/ SaveLocalIndex
    PROVE  StoreTypeOK'
<1>1. UNCHANGED <<clock, vault, loaded, memory, kind, reconcile, todo, read,
                  createdAt, man, counts>>
  BY DEF UploadBlob, PutManifest, AppendRow, PutHead, SaveLocalIndex, run, ghosts
<1>2. CASE \E c \in Contents : UploadBlob(c)
  BY <1>1, <1>2 DEF UploadBlob, StoreTypeOK, memory, run, counts, ghosts
<1>3. CASE PutManifest
  <2>1. /\ manifests' = Overlay(manifests, [x \in {man.id} |-> man])
        /\ pc' = "row"
        /\ UNCHANGED <<index, blobs, rowsOk, head, committed, gaveUp>>
    BY <1>3 DEF PutManifest, ghosts
  <2>2. /\ DOMAIN manifests' = DOMAIN manifests \cup {man.id}
        /\ manifests'[man.id] = man
        /\ \A id \in DOMAIN manifests : id # man.id => manifests'[id] = manifests[id]
    BY <2>1 DEF Overlay
  <2> QED BY <1>1, <2>1, <2>2 DEF StoreTypeOK, Phases, memory, counts
<1>4. CASE AppendRow
  <2>1. rowsOk' = TRUE /\ pc' = "head" /\ UNCHANGED <<index, blobs, manifests, head, committed,
                                                      gaveUp>>
    BY <1>4 DEF AppendRow, ghosts
  <2> QED BY <1>1, <2>1 DEF StoreTypeOK, Phases, memory, counts
<1>5. CASE PutHead
  <2>1. /\ head' = man.id /\ committed' = TRUE /\ pc' = "index"
        /\ UNCHANGED <<index, blobs, manifests, rowsOk, gaveUp>>
    BY <1>5 DEF PutHead
  <2> QED BY <1>1, <2>1 DEF StoreTypeOK, Phases, memory, counts
<1>6. CASE SaveLocalIndex
  <2>1. /\ index' = IndexAfter(index, man) /\ pc' = "cursor"
        /\ UNCHANGED <<remote, committed>> /\ gaveUp' \in BOOLEAN
    BY <1>6 DEF SaveLocalIndex, StoreTypeOK, ghosts
  <2>2. index'.full \in {man.id, index.full} /\ index'.inc \in {man.id, NoId}
    BY <2>1 DEF IndexAfter
  <2> QED BY <1>1, <2>1, <2>2 DEF StoreTypeOK, Phases, memory, remote, counts
<1> QED BY <1>2, <1>3, <1>4, <1>5, <1>6

LEMMA EndStoreType ==
    ASSUME StoreTypeOK, FinishRun \/ FailRun \/ Stop
    PROVE  StoreTypeOK'
<1>1. RunOver /\ UNCHANGED <<clock, vault, index, memory, remote>>
  BY DEF FinishRun, FailRun, Stop
<1>2. {loaded', committed', gaveUp'} \subseteq BOOLEAN
  BY DEF FinishRun, FailRun, Stop, StoreTypeOK, ghosts
<1>3. /\ edits' \in Nat /\ fulls' \in Nat /\ manual' \in Nat
      /\ fails' \in Nat /\ stops' \in Nat /\ losses' \in Nat
  <2>1. /\ edits \in Nat /\ fulls \in Nat /\ manual \in Nat
        /\ fails \in Nat /\ stops \in Nat /\ losses \in Nat
    BY DEF StoreTypeOK
  <2>2. /\ UNCHANGED <<edits, fulls, manual, losses>>
        /\ fails' = fails \/ fails' = fails + 1
        /\ stops' = stops \/ stops' = stops + 1
    BY DEF FinishRun, FailRun, Stop, counts
  <2> QED BY <2>1, <2>2
<1> QED BY <1>1, <1>2, <1>3, RunOverTypes DEF StoreTypeOK, memory, remote

LEMMA FaultStoreType ==
    ASSUME StoreTypeOK,
           \/ Load \/ CorruptRows
           \/ \E id \in DOMAIN manifests : LoseManifest(id)
    PROVE  StoreTypeOK'
<1>1. UNCHANGED <<clock, vault, index, blobs, head, pc, kind, reconcile, todo,
                  read, createdAt, man, edits, fulls, manual, fails, stops, committed,
                  gaveUp>>
  BY DEF Load, CorruptRows, LoseManifest, remote, run, counts, ghosts
<1>2. /\ loaded' \in BOOLEAN /\ firstInc' \in BOOLEAN
      /\ chainVerified' \in BOOLEAN /\ rowsOk' \in BOOLEAN
  BY DEF Load, CorruptRows, LoseManifest, memory, remote, StoreTypeOK
<1>3. losses' \in Nat
  <2>1. losses \in Nat
    BY DEF StoreTypeOK
  <2>2. losses' = losses \/ losses' = losses + 1
    BY DEF Load, CorruptRows, LoseManifest, counts
  <2> QED BY <2>1, <2>2
<1>4. /\ DOMAIN manifests' \subseteq DOMAIN manifests
      /\ \A id \in DOMAIN manifests' : manifests'[id] = manifests[id]
  BY DEF Load, CorruptRows, LoseManifest, Without, remote
<1> QED BY <1>1, <1>2, <1>3, <1>4 DEF StoreTypeOK

\* Clock, vault, Dropbox folder, snapshot ids and the files a run has read
\* keep their types in every reachable state; manifests are stored under
\* their own ids (BackupService, ManifestBuilder).
THEOREM StoreTypeCorrect == Spec => []StoreTypeOK
<1>1. StoreTypeOK /\ UNCHANGED vars => StoreTypeOK'
  BY DEF StoreTypeOK, vars, memory, remote, run, counts, ghosts
<1>2. StoreTypeOK /\ [Next]_vars => StoreTypeOK'
  BY <1>1, EditStoreType, StartStoreType, QueueStoreType, ReadStoreType,
     BuildStoreType, CommitStoreType, EndStoreType, FaultStoreType
  DEF Next, RunStep
<1> QED BY InitStoreTypeOK, <1>2, PTL DEF Spec

(***************************************************************************)
(* Time.  A snapshot's id is the minute it was created in and its kind, so *)
(* that two backups at least a minute apart never share an id.             *)
(***************************************************************************)
LEMMA DivisionSplits ==
    ASSUME NEW a \in Nat, NEW m \in Nat \ {0}
    PROVE  a \div m \in Nat /\ a = m * (a \div m) + (a % m) /\ 0 <= a % m /\ a % m < m
OBVIOUS

LEMMA MinuteLater ==
    ASSUME NEW a \in Nat, NEW b \in Nat, NEW m \in Nat \ {0}, a + m <= b
    PROVE  a \div m # b \div m
<1>1. a = m * (a \div m) + (a % m) /\ 0 <= a % m /\ a \div m \in Nat
  BY DivisionSplits
<1>2. b = m * (b \div m) + (b % m) /\ b % m < m /\ b \div m \in Nat
  BY DivisionSplits
<1> SUFFICES ASSUME a \div m = b \div m PROVE FALSE
  OBVIOUS
<1>3. m * (a \div m) \in Nat
  BY <1>1
<1> QED BY <1>1, <1>2, <1>3

BornBy(id, t) == \E a \in Nat, type \in Kinds : a <= t /\ id = SnapshotId(a, Minute, type)
Dated(m) == /\ m.createdAt \in Nat /\ m.type \in Kinds
            /\ m.id = SnapshotId(m.createdAt, Minute, m.type)

\* What is on Dropbox is not newer than t.
NoneAfter(t) ==
    /\ \A id \in DOMAIN manifests : manifests[id].createdAt <= t
    /\ head # NoId => BornBy(head, t)
    /\ \A r \in rows : BornBy(r.id, t)

Walking == {"walk", "queue", "scan", "stamp"}
Preparing == {"list", "read", "blobs"}
Committing == {"row", "head", "index", "cursor"}

TimeInv ==
    /\ clock \in Nat /\ createdAt \in Nat
    /\ \A id \in DOMAIN manifests : manifests[id].id = id /\ Dated(manifests[id])
    /\ pc \in {"idle"} \cup Walking \cup Preparing \cup Committing
    /\ pc = "idle" => NoneAfter(clock)
    /\ pc \in Walking => NoneAfter(clock - RunGap)
    /\ pc \in Preparing => createdAt <= clock /\ NoneAfter(createdAt - RunGap)
    /\ pc = "blobs" => Dated(man) /\ man.createdAt = createdAt
    /\ pc \in Committing => /\ man.createdAt <= clock /\ NoneAfter(man.createdAt)
                            /\ man.id \in DOMAIN manifests /\ manifests[man.id] = man
    /\ pc # "idle" => loaded

LEMMA NoneAfterLater ==
    ASSUME NEW t \in Int, NEW u \in Int, t <= u, NoneAfter(t),
           \A id \in DOMAIN manifests : Dated(manifests[id])
    PROVE  NoneAfter(u)
BY DEF NoneAfter, BornBy, Dated

LEMMA FreshId ==
    ASSUME RunGap >= Minute, Dated(man), NoneAfter(man.createdAt - RunGap),
           \A id \in DOMAIN manifests : manifests[id].id = id /\ Dated(manifests[id])
    PROVE  /\ man.id \notin DOMAIN manifests /\ man.id # head
           /\ \A r \in rows : r.id # man.id
<1>0. /\ Minute \in Nat \ {0} /\ RunGap \in Nat
      /\ man.createdAt \in Nat /\ man.type \in Kinds
      /\ man.id = SnapshotId(man.createdAt, Minute, man.type)
  BY SnapshotCommitAssumption DEF Dated
<1>1. ASSUME NEW a \in Nat, NEW type \in Kinds, a <= man.createdAt - RunGap
      PROVE  SnapshotId(a, Minute, type) # man.id
  <2>1. a \div Minute # man.createdAt \div Minute
    BY <1>0, <1>1, MinuteLater
  <2> QED BY <1>0, <2>1 DEF SnapshotId
<1>2. man.id \notin DOMAIN manifests
  BY <1>1 DEF NoneAfter, Dated
<1>3. man.id # head
  <2>1. CASE head = NoId
    <3>1. man.id \in SnapshotIds
      BY <1>0, SnapshotIdType
    <3> QED BY <2>1, <3>1, NoIdAssumption
  <2>2. CASE head # NoId
    BY <1>1, <2>2 DEF NoneAfter, BornBy
  <2> QED BY <2>1, <2>2
<1>4. \A r \in rows : r.id # man.id
  BY <1>1 DEF NoneAfter, BornBy
<1> QED BY <1>2, <1>3, <1>4

LEMMA InitTimeInv == Init => TimeInv
<1> SUFFICES ASSUME Init PROVE TimeInv
  OBVIOUS
<1>1. /\ clock = 0 /\ createdAt = 0 /\ pc = "idle" /\ DOMAIN manifests = {} /\ head = NoId
      /\ rows = {}
  BY DEF Init, RunInit, EmptyMap
<1> QED BY <1>1 DEF TimeInv, NoneAfter, Walking, Preparing, Committing

LEMMA NothingAfterClock == TimeInv => NoneAfter(clock)
<1> SUFFICES ASSUME TimeInv PROVE NoneAfter(clock)
  OBVIOUS
<1>0. /\ RunGap \in Nat /\ clock \in Nat /\ createdAt \in Nat
      /\ \A id \in DOMAIN manifests : Dated(manifests[id])
  BY GapTypes DEF TimeInv
<1>1. CASE pc = "idle"
  BY <1>1 DEF TimeInv
<1>2. CASE pc \in Walking
  <2>1. NoneAfter(clock - RunGap) /\ clock - RunGap \in Int /\ clock - RunGap <= clock
    BY <1>0, <1>2 DEF TimeInv
  <2> QED BY <1>0, <2>1, NoneAfterLater
<1>3. CASE pc \in Preparing
  <2>1. /\ NoneAfter(createdAt - RunGap) /\ createdAt - RunGap \in Int
        /\ createdAt - RunGap <= clock
    BY <1>0, <1>3 DEF TimeInv
  <2> QED BY <1>0, <2>1, NoneAfterLater
<1>4. CASE pc \in Committing
  <2>1. NoneAfter(man.createdAt) /\ man.createdAt \in Nat /\ man.createdAt <= clock
    BY <1>0, <1>4 DEF TimeInv, Dated
  <2> QED BY <1>0, <2>1, NoneAfterLater
<1> QED BY <1>1, <1>2, <1>3, <1>4 DEF TimeInv

\* Steps that leave the folder alone.  Time may pass, the run may end, or go
\* on within a phase.
LEMMA TimePasses ==
    ASSUME TimeInv, UNCHANGED <<manifests, head, rows, pc, createdAt, man, loaded>>,
           clock' \in Nat, clock <= clock'
    PROVE  TimeInv'
<1>0. /\ RunGap \in Nat /\ NoneAfter(clock) /\ clock \in Nat /\ createdAt \in Nat
      /\ \A id \in DOMAIN manifests : Dated(manifests[id])
  BY GapTypes, NothingAfterClock DEF TimeInv
<1>1. ASSUME pc = "idle" PROVE NoneAfter(clock)'
  <2>1. NoneAfter(clock')
    <3>1. clock \in Int /\ clock' \in Int
      BY <1>0
    <3> QED BY <1>0, <3>1, NoneAfterLater
  <2> QED BY <2>1 DEF NoneAfter
<1>2. ASSUME pc \in Walking PROVE NoneAfter(clock - RunGap)'
  <2>1. NoneAfter(clock - RunGap)
    BY <1>2 DEF TimeInv
  <2>2. clock - RunGap \in Int /\ clock' - RunGap \in Int /\ clock - RunGap <= clock' - RunGap
    <3> DEFINE now == clock'
    <3>1. RunGap \in Nat /\ clock \in Nat /\ now \in Nat /\ clock <= now
      BY <1>0
    <3> HIDE DEF now
    <3>2. /\ clock - RunGap \in Int /\ now - RunGap \in Int
          /\ clock - RunGap <= now - RunGap
      BY <3>1
    <3> QED BY <3>2 DEF now
  <2>3. NoneAfter(clock' - RunGap)
    BY <2>1, <2>2, NoneAfterLater DEF TimeInv
  <2> QED BY <2>3 DEF NoneAfter
<1>3. ASSUME pc \in Preparing PROVE createdAt <= clock' /\ NoneAfter(createdAt - RunGap)'
  BY <1>0, <1>3 DEF TimeInv, NoneAfter
<1>4. ASSUME pc \in Committing PROVE man.createdAt <= clock' /\ NoneAfter(man.createdAt)'
  BY <1>0, <1>4 DEF TimeInv, NoneAfter, Dated
<1> QED BY <1>1, <1>2, <1>3, <1>4 DEF TimeInv

LEMMA RunIsOver ==
    ASSUME TimeInv, UNCHANGED <<clock, manifests, head, rows>>, pc' = "idle", createdAt' \in Nat
    PROVE  TimeInv'
<1>1. NoneAfter(clock)'
  BY NothingAfterClock DEF NoneAfter
<1> QED BY <1>1 DEF TimeInv, Walking, Preparing, Committing

LEMMA PhaseGoesOn ==
    ASSUME TimeInv, UNCHANGED <<clock, manifests, head, rows, loaded>>, loaded,
           \/ pc \in Walking /\ pc' \in Walking /\ createdAt' = createdAt
           \/ pc \in Walking /\ pc' \in Preparing /\ pc' # "blobs" /\ createdAt' = clock
           \/ /\ pc \in Preparing /\ pc' \in Preparing /\ createdAt' = createdAt
              /\ pc' = "blobs" => Dated(man') /\ man'.createdAt = createdAt
           \/ /\ pc \in Committing /\ pc' \in Committing /\ man' = man
              /\ createdAt' = createdAt
    PROVE  TimeInv'
<1>1. \A t : NoneAfter(t)' <=> NoneAfter(t)
  BY DEF NoneAfter
<1>2. CASE pc \in Walking /\ pc' \in Walking /\ createdAt' = createdAt
  BY <1>1, <1>2 DEF TimeInv, Walking, Preparing, Committing
<1>3. CASE pc \in Walking /\ pc' \in Preparing /\ pc' # "blobs" /\ createdAt' = clock
  BY <1>1, <1>3 DEF TimeInv, Walking, Preparing, Committing
<1>4. CASE /\ pc \in Preparing /\ pc' \in Preparing /\ createdAt' = createdAt
           /\ pc' = "blobs" => Dated(man') /\ man'.createdAt = createdAt
  BY <1>1, <1>4 DEF TimeInv, Walking, Preparing, Committing
<1>5. CASE /\ pc \in Committing /\ pc' \in Committing /\ man' = man
           /\ createdAt' = createdAt
  BY <1>1, <1>5 DEF TimeInv, Walking, Preparing, Committing
<1> QED BY <1>2, <1>3, <1>4, <1>5

\* A run starts RunGap after everything that has happened.
LEMMA RunStarts ==
    ASSUME TimeInv, pc = "idle", loaded, UNCHANGED <<manifests, head, rows, loaded>>,
           clock' = clock + RunGap,
           \/ pc' \in Walking /\ createdAt' = createdAt
           \/ pc' = "list" /\ createdAt' = clock'
    PROVE  TimeInv'
<1>0. clock \in Nat /\ clock' \in Nat /\ clock' - RunGap = clock /\ NoneAfter(clock)
  BY GapTypes DEF TimeInv
<1>1. NoneAfter(clock' - RunGap)
  BY <1>0
<1>2. CASE pc' \in Walking /\ createdAt' = createdAt
  <2>1. NoneAfter(clock - RunGap)'
    BY <1>1 DEF NoneAfter
  <2> QED BY <1>0, <1>2, <2>1 DEF TimeInv, Walking, Preparing, Committing
<1>3. CASE pc' = "list" /\ createdAt' = clock'
  <2>1. NoneAfter(createdAt - RunGap)'
    BY <1>1, <1>3 DEF NoneAfter
  <2> QED BY <1>0, <1>3, <2>1 DEF TimeInv, Walking, Preparing, Committing
<1> QED BY <1>2, <1>3

LEMMA PutManifestTime ==
    ASSUME TimeInv, PutManifest
    PROVE  /\ TimeInv'
           /\ RunGap >= Minute => /\ man.id \notin DOMAIN manifests /\ man.id # head
                                  /\ \A r \in rows : r.id # man.id
<1>1. /\ pc = "blobs" /\ pc' = "row" /\ UNCHANGED <<clock, loaded, head, rows, createdAt, man>>
      /\ manifests' = Overlay(manifests, [x \in {man.id} |-> man])
  BY DEF PutManifest
<1>2. /\ DOMAIN manifests' = DOMAIN manifests \cup {man.id} /\ manifests'[man.id] = man
      /\ \A id \in DOMAIN manifests : id # man.id => manifests'[id] = manifests[id]
  BY <1>1 DEF Overlay
<1>3. /\ loaded /\ Dated(man) /\ man.createdAt = createdAt /\ createdAt <= clock
      /\ NoneAfter(man.createdAt - RunGap)
      /\ \A id \in DOMAIN manifests : manifests[id].id = id /\ Dated(manifests[id])
  BY <1>1 DEF TimeInv, Preparing
<1>4. NoneAfter(man.createdAt)
  <2>1. /\ man.createdAt \in Int /\ man.createdAt - RunGap \in Int
        /\ man.createdAt - RunGap <= man.createdAt
    BY <1>3, GapTypes DEF Dated
  <2> QED BY <1>3, <2>1, NoneAfterLater
<1>5. NoneAfter(man.createdAt)'
  <2>1. man.createdAt <= man.createdAt
    BY <1>3 DEF Dated
  <2> QED BY <1>1, <1>2, <1>4, <2>1 DEF NoneAfter
<1>6. TimeInv'
  BY <1>1, <1>2, <1>3, <1>5 DEF TimeInv, Walking, Preparing, Committing
<1> QED BY <1>3, <1>6, FreshId

LEMMA PutHeadTime ==
    ASSUME TimeInv, PutHead
    PROVE  TimeInv'
<1>1. /\ pc = "head" /\ pc' = "index" /\ head' = man.id
      /\ UNCHANGED <<clock, loaded, manifests, rows, createdAt, man>>
  BY DEF PutHead
<1>2. /\ Dated(man) /\ NoneAfter(man.createdAt)
  BY <1>1 DEF TimeInv, Committing
<1>3. BornBy(man.id, man.createdAt)
  <2>1. man.createdAt <= man.createdAt
    BY <1>2 DEF Dated
  <2> QED BY <1>2, <2>1 DEF BornBy, Dated
<1>4. NoneAfter(man.createdAt)'
  BY <1>1, <1>2, <1>3 DEF NoneAfter, BornBy
<1> QED BY <1>1, <1>4 DEF TimeInv, Walking, Preparing, Committing

LEMMA LossTime ==
    ASSUME TimeInv, NEW id, LoseManifest(id)
    PROVE  TimeInv'
<1>1. /\ manifests' = Without(manifests, {id}) /\ ~loaded
      /\ UNCHANGED <<clock, loaded, head, rows, pc, createdAt, man>>
  BY DEF LoseManifest, run
<1>2. /\ DOMAIN manifests' \subseteq DOMAIN manifests
      /\ \A other \in DOMAIN manifests' : manifests'[other] = manifests[other]
  BY <1>1 DEF Without
<1>3. pc = "idle" /\ NoneAfter(clock)
  BY <1>1 DEF TimeInv
<1>4. NoneAfter(clock)'
  BY <1>1, <1>2, <1>3 DEF NoneAfter
<1> QED BY <1>1, <1>2, <1>3, <1>4 DEF TimeInv, Walking, Preparing, Committing

LEMMA AppendRowTime ==
    ASSUME TimeInv, AppendRow
    PROVE  TimeInv'
<1>1. /\ pc = "row" /\ pc' = "head" /\ UNCHANGED <<clock, loaded, manifests, head, createdAt, man>>
      /\ rows' = IF rowsOk THEN rows \cup {RowOf(man)} ELSE {RowOf(m) : m \in Values(manifests)}
  BY DEF AppendRow
<1>2. /\ man.id \in DOMAIN manifests /\ manifests[man.id] = man /\ NoneAfter(man.createdAt)
      /\ \A id \in DOMAIN manifests : Dated(manifests[id])
  BY <1>1 DEF TimeInv, Committing
<1>3. \A id \in DOMAIN manifests : BornBy(manifests[id].id, man.createdAt)
  BY <1>2 DEF BornBy, Dated, NoneAfter
<1>4. \A r \in rows' : BornBy(r.id, man.createdAt)
  <2> SUFFICES ASSUME NEW r \in rows' PROVE BornBy(r.id, man.createdAt)
    OBVIOUS
  <2>1. r \in rows \/ \E id \in DOMAIN manifests : r = RowOf(manifests[id])
    BY <1>1, <1>2 DEF Values
  <2> QED BY <1>2, <1>3, <2>1 DEF RowOf, NoneAfter
<1>5. NoneAfter(man.createdAt)'
  BY <1>1, <1>2, <1>4 DEF NoneAfter, BornBy
<1> QED BY <1>1, <1>5 DEF TimeInv, Walking, Preparing, Committing

LEMMA NextTimeInv == TimeInv /\ [Next]_vars => TimeInv'
<1> SUFFICES ASSUME TimeInv, [Next]_vars PROVE TimeInv'
  OBVIOUS
<1>0. clock \in Nat /\ createdAt \in Nat
  BY DEF TimeInv
<1>1. CASE UserEdit
  <2>1. /\ UNCHANGED <<manifests, head, rows, pc, createdAt, man, loaded>>
        /\ clock' = clock + EventGap
    BY <1>1 DEF UserEdit, Create, Modify, Delete, Rename, Edit, remote, run
  <2> QED BY <1>0, <2>1, TimePasses, GapTypes
<1>2. CASE PersistQueue \/ CorruptRows \/ UNCHANGED vars
  <2>1. UNCHANGED <<manifests, head, rows, pc, createdAt, man, loaded, clock>>
    BY <1>2 DEF PersistQueue, CorruptRows, vars, remote, run
  <2> QED BY <1>0, <2>1, TimePasses
<1>3. CASE StartFull \/ TickInc \/ ManualInc
  <2>1. /\ pc = "idle" /\ loaded /\ UNCHANGED <<manifests, head, rows, loaded>>
        /\ clock' = clock + RunGap
        /\ \/ pc' \in {"walk", "queue"} /\ createdAt' = createdAt
           \/ pc' = "list" /\ createdAt' = clock'
    BY <1>3 DEF StartFull, TickInc, ManualInc, StartInc, EnterFull, remote
  <2> QED BY <2>1, RunStarts DEF Walking
<1>4. CASE WalkChain
  <2>1. /\ pc = "walk" /\ UNCHANGED <<clock, manifests, head, rows, loaded>>
        /\ \/ pc' = "queue" /\ createdAt' = createdAt
           \/ pc' = "list" /\ createdAt' = clock
    BY <1>4 DEF WalkChain, EnterFull, remote
  <2>2. loaded
    BY <2>1 DEF TimeInv
  <2> QED BY <2>1, <2>2, PhaseGoesOn DEF Walking, Preparing
<1>5. CASE RunOver /\ UNCHANGED <<clock, manifests, head, rows>>
  BY <1>5, RunIsOver DEF RunOver
<1>6. CASE (LoadQueue \/ Reconcile) /\ ~RunOver
  <2>1. /\ pc \in Walking /\ pc' \in Walking /\ UNCHANGED <<clock, manifests, head, rows, loaded>>
        /\ createdAt' = createdAt
    BY <1>6 DEF LoadQueue, Reconcile, remote, Walking
  <2>2. loaded
    BY <2>1 DEF TimeInv, Walking
  <2> QED BY <2>1, <2>2, PhaseGoesOn
<1>7. CASE StampInc
  <2>1. /\ pc = "stamp" /\ pc' = "read" /\ UNCHANGED <<clock, manifests, head, rows, loaded>>
        /\ createdAt' = clock
    BY <1>7 DEF StampInc, remote
  <2>2. loaded
    BY <2>1 DEF TimeInv
  <2> QED BY <2>1, <2>2, PhaseGoesOn DEF Walking, Preparing
<1>8. CASE ListVault \/ (\E p \in Paths : ReadFile(p))
  <2>1. /\ pc \in {"list", "read"} /\ pc' = "read"
        /\ UNCHANGED <<clock, manifests, head, rows, loaded, createdAt>>
    BY <1>8 DEF ListVault, ReadFile, remote
  <2>2. loaded
    BY <2>1 DEF TimeInv
  <2> QED BY <2>1, <2>2, PhaseGoesOn DEF Preparing
<1>9. CASE BuildFull \/ BuildInc
  <2>1. /\ pc = "read" /\ pc' = "blobs"
        /\ UNCHANGED <<clock, manifests, head, rows, loaded, createdAt>>
    BY <1>9 DEF BuildFull, BuildInc, remote
  <2>2. Dated(man') /\ man'.createdAt = createdAt
    BY <1>0, <1>9 DEF BuildFull, BuildInc, FullManifest, IncManifest, Dated, Kinds
  <2>3. loaded
    BY <2>1 DEF TimeInv
  <2> QED BY <2>1, <2>2, <2>3, PhaseGoesOn DEF Preparing
<1>10. CASE \E c \in Contents : UploadBlob(c)
  <2>1. UNCHANGED <<manifests, head, rows, pc, createdAt, man, loaded, clock>>
    BY <1>10 DEF UploadBlob, run
  <2> QED BY <1>0, <2>1, TimePasses
<1>11. CASE PutManifest
  BY <1>11, PutManifestTime
<1>12. CASE SaveLocalIndex
  <2>1. /\ pc \in Committing /\ pc' \in Committing
        /\ UNCHANGED <<clock, manifests, head, rows, loaded, createdAt, man>>
    BY <1>12 DEF SaveLocalIndex, remote, Committing
  <2>2. loaded
    BY <2>1 DEF TimeInv, Committing
  <2> QED BY <2>1, <2>2, PhaseGoesOn
<1>13. CASE PutHead
  BY <1>13, PutHeadTime
<1>14. CASE Load
  <2>1. /\ UNCHANGED <<manifests, head, rows, pc, createdAt, man, clock>> /\ loaded'
    BY <1>14 DEF Load, remote, run
  <2>2. \A t : NoneAfter(t)' <=> NoneAfter(t)
    BY <2>1 DEF NoneAfter
  <2> QED BY <2>1, <2>2 DEF TimeInv
<1>15. CASE \E id \in DOMAIN manifests : LoseManifest(id)
  BY <1>15, LossTime
<1>16. CASE AppendRow
  BY <1>16, AppendRowTime
<1>17. ASSUME \/ (\E p \in Paths : ReadVanished(p)) \/ SkipInc \/ FinishRun \/ FailRun \/ Stop
              \/ (LoadQueue \/ Reconcile) /\ RunOver
       PROVE  RunOver /\ UNCHANGED <<clock, manifests, head, rows>>
  BY <1>17 DEF ReadVanished, SkipInc, FinishRun, FailRun, Stop, LoadQueue, Reconcile, remote
<1> QED BY <1>1, <1>2, <1>3, <1>4, <1>5, <1>6, <1>7, <1>8, <1>9, <1>10, <1>11, <1>12, <1>13,
           <1>14, <1>15, <1>17, <1>16 DEF Next, RunStep

(***************************************************************************)
(* The snapshot index after a loss.                                        *)
(***************************************************************************)
\* A row says what its manifest says, as long as that is there.
RowsInv == \A r \in rows : r.id \in DOMAIN manifests => r = RowOf(manifests[r.id])

LEMMA InitRowsInv == Init => RowsInv
BY DEF Init, RowsInv

\* The steps that touch the manifests or the rows, and all others.
LEMMA FolderSteps ==
    ASSUME [Next]_vars
    PROVE  \/ PutManifest \/ AppendRow \/ (\E id \in DOMAIN manifests : LoseManifest(id))
           \/ UNCHANGED <<manifests, rows>> /\ (rowsOk' => rowsOk)
<1>1. CASE UserEdit
  BY <1>1 DEF UserEdit, Create, Modify, Delete, Rename, Edit, remote
<1>2. CASE RunStep
  BY <1>2 DEF RunStep, WalkChain, LoadQueue, Reconcile, StampInc, ListVault, ReadFile,
      ReadVanished, BuildFull, BuildInc, SkipInc, UploadBlob, PutHead, SaveLocalIndex,
      FinishRun, remote
<1> QED BY <1>1, <1>2
        DEF Next, PersistQueue, StartFull, TickInc, ManualInc, StartInc, FailRun, Stop, Load,
            CorruptRows, vars, remote

\* What RowsRecover asks of a step.
StaysListed ==
    \A id \in DOMAIN manifests' :
        (\E r \in rows : r.id = id) \/ (~rowsOk /\ rowsOk') => RowOf(manifests'[id]) \in rows'

LEMMA AppendRowLists ==
    ASSUME TimeInv, RowsInv, AppendRow
    PROVE  RowsInv' /\ StaysListed
<1>1. /\ pc = "row" /\ UNCHANGED manifests
      /\ rows' = IF rowsOk THEN rows \cup {RowOf(man)} ELSE {RowOf(m) : m \in Values(manifests)}
  BY DEF AppendRow
<1>2. /\ man.id \in DOMAIN manifests /\ manifests[man.id] = man
      /\ \A id \in DOMAIN manifests : manifests[id].id = id
  BY <1>1 DEF TimeInv, Committing
<1>3. RowsInv'
  <2>1. CASE rowsOk
    BY <1>1, <1>2, <2>1 DEF RowsInv, RowOf
  <2>2. CASE ~rowsOk
    BY <1>1, <1>2, <2>2 DEF RowsInv, RowOf, Values
  <2> QED BY <2>1, <2>2
<1>4. StaysListed
  <2>1. CASE rowsOk
    BY <1>1, <2>1 DEF RowsInv, StaysListed
  <2>2. CASE ~rowsOk
    BY <1>1, <2>2 DEF Values, StaysListed
  <2> QED BY <2>1, <2>2
<1> QED BY <1>3, <1>4

LEMMA RowsStay ==
    ASSUME RunGap >= Minute, TimeInv, RowsInv, [Next]_vars
    PROVE  RowsInv' /\ StaysListed
<1>1. CASE PutManifest
  <2>1. \A r \in rows : r.id # man.id
    BY <1>1, PutManifestTime
  <2>2. /\ DOMAIN manifests' = DOMAIN manifests \cup {man.id} /\ UNCHANGED <<rows, rowsOk>>
        /\ \A id \in DOMAIN manifests : id # man.id => manifests'[id] = manifests[id]
    BY <1>1 DEF PutManifest, Overlay
  <2>3. \A r \in rows : r.id \in DOMAIN manifests' =>
            r.id \in DOMAIN manifests /\ manifests'[r.id] = manifests[r.id]
    BY <2>1, <2>2
  <2> QED BY <2>2, <2>3 DEF RowsInv, StaysListed
<1>2. CASE AppendRow
  BY <1>2, AppendRowLists
<1>3. ASSUME NEW id, LoseManifest(id) PROVE RowsInv' /\ StaysListed
  <2>1. /\ DOMAIN manifests' \subseteq DOMAIN manifests /\ UNCHANGED <<rows, rowsOk>>
        /\ \A other \in DOMAIN manifests' : manifests'[other] = manifests[other]
    BY <1>3 DEF LoseManifest, Without
  <2> QED BY <2>1 DEF RowsInv, StaysListed
<1>4. CASE UNCHANGED <<manifests, rows>> /\ (rowsOk' => rowsOk)
  BY <1>4 DEF RowsInv, StaysListed
<1> QED BY <1>1, <1>2, <1>3, <1>4, FolderSteps

\* Whatever was lost: what the index listed it lists ever after, as long as
\* the manifest is there, and with what the manifest says; and the commit
\* that finds the file unreadable lists every manifest again
\* (SnapshotIndexStore.append and its rebuild, called by commitSnapshot).
THEOREM RowsRecovered ==
    ASSUME RunGap >= Minute PROVE Spec => RowsRecover
<1>1. TimeInv /\ RowsInv /\ [Next]_vars => [StaysListed]_vars
  BY RowsStay
<1>2. TimeInv /\ RowsInv /\ [Next]_vars => TimeInv' /\ RowsInv'
  BY NextTimeInv, RowsStay
<1>3. Init => TimeInv /\ RowsInv
  BY InitTimeInv, InitRowsInv
<1> QED BY <1>1, <1>2, <1>3, PTL DEF Spec, RowsRecover, StaysListed

(***************************************************************************)
(* Induction and folds.                                                    *)
(***************************************************************************)
\* The least-number principle, for a set of numbers.
LEMMA Least ==
    ASSUME NEW T \in SUBSET Nat, T # {}
    PROVE  \E x \in T : \A y \in T : x <= y
<1> DEFINE R == {p \in Nat \X Nat : p[1] < p[2]}
<1>1. IsWellFoundedOn(R, Nat)
  BY NatLessThanWellFounded DEF OpToRel
<1>2. \A x, y \in Nat : y < x => <<y, x>> \in R
  OBVIOUS
<1> HIDE DEF R
<1>3. PICK x \in T : \A y \in T : ~(<<y, x>> \in R)
  BY <1>1, WFMin
<1>4. \A y \in T : x \in Nat /\ y \in Nat /\ ~(y < x)
  BY <1>2, <1>3
<1> QED BY <1>3, <1>4

\* Induction up to a bound: what holds is a set of numbers.
LEMMA CountUp ==
    ASSUME NEW n \in Nat, NEW T, 0 \in T,
           \A k \in 0..(n - 1) : k \in T => k + 1 \in T
    PROVE  \A k \in 0..n : k \in T
<1> DEFINE Out == {k \in 0..n : k \notin T}
<1> SUFFICES ASSUME Out # {} PROVE FALSE
  OBVIOUS
<1>1. PICK k \in Out : \A j \in Out : k <= j
  <2>1. Out \in SUBSET Nat
    OBVIOUS
  <2> QED BY <2>1, Least
<1>2. k \in Nat /\ k # 0 /\ k <= n /\ k \notin T
  OBVIOUS
<1>3. k - 1 \in 0..(n - 1) /\ k - 1 \in 0..n /\ ~(k <= k - 1) /\ (k - 1) + 1 = k
  BY <1>2
<1>4. k - 1 \in T
  BY <1>1, <1>3
<1> QED BY <1>2, <1>3, <1>4

LEMMA MaxOf ==
    ASSUME NEW n \in Nat, NEW s \in SUBSET (1..n), n \in s
    PROVE  Max(s) = n
<1>1. \E x \in s : \A y \in s : x >= y
  <2>1. n >= n /\ \A y \in s : n >= y
    OBVIOUS
  <2> QED BY <2>1
<1>2. Max(s) \in s /\ \A y \in s : Max(s) >= y
  BY <1>1, Zenon DEF Max
<1>3. \A y \in s : y \in Int /\ n >= y
  OBVIOUS
<1> DEFINE m == Max(s)
<1>4. m \in s /\ m >= n
  BY <1>2
<1> HIDE DEF m
<1>5. m = n
  BY <1>3, <1>4
<1> QED BY <1>5 DEF m

LEMMA MaxIn ==
    ASSUME NEW n \in Nat, NEW s \in SUBSET (1..n), s # {}
    PROVE  Max(s) \in s
<1> DEFINE T == {n - y : y \in s}
<1>1. T \in SUBSET Nat /\ T # {}
  <2>1. ASSUME NEW y \in s PROVE n - y \in Nat
    <3>1. y \in 1..n
      OBVIOUS
    <3> QED BY <3>1
  <2> QED BY <2>1
<1>2. PICK t \in T : \A u \in T : t <= u
  BY <1>1, Least
<1>3. PICK x \in s : t = n - x
  BY <1>2
<1>4. \A y \in s : x >= y
  <2> SUFFICES ASSUME NEW y \in s PROVE x >= y
    OBVIOUS
  <2>1. n - x <= n - y
    BY <1>2, <1>3
  <2>2. x \in Int /\ y \in Int
    OBVIOUS
  <2> QED BY <2>1, <2>2
<1>5. \E z \in s : \A y \in s : z >= y
  BY <1>4
<1> QED BY <1>5, Zenon DEF Max

LEMMA OverlayMaps ==
    ASSUME NEW f \in FileMaps, NEW h \in FileMaps
    PROVE  Overlay(f, h) \in FileMaps /\ Values(Overlay(f, h)) \subseteq Values(f) \cup Values(h)
<1>1. /\ DOMAIN f \subseteq Paths /\ f \in [DOMAIN f -> Contents]
      /\ DOMAIN h \subseteq Paths /\ h \in [DOMAIN h -> Contents]
  BY FileMapsFacts
<1> DEFINE o == Overlay(f, h)
<1>2. DOMAIN o = DOMAIN f \cup DOMAIN h
  BY DEF Overlay
<1>3. o \in [DOMAIN o -> Contents]
  BY <1>1, <1>2 DEF Overlay
<1>4. Values(o) \subseteq Values(f) \cup Values(h)
  BY DEF Overlay, Values
<1> QED BY <1>1, <1>2, <1>3, <1>4, FileMapsFacts

\* A fold from the left over 1..n that never leaves A, as FoldLeft computes it.
IsFold(f, n, base, g) ==
    \A s \in SUBSET (1..n) : f[s] = IF s = {} THEN base ELSE g[<<Max(s), f[s \ {Max(s)}]>>]

LEMMA FoldExists ==
    ASSUME NEW n \in Nat, NEW A, NEW base \in A, NEW g \in [(1..n) \X A -> A]
    PROVE  \E f \in [SUBSET (1..n) -> A] : IsFold(f, n, base, g)
<1> DEFINE T == {k \in 0..n : \E f \in [SUBSET (1..k) -> A] : IsFold(f, k, base, g)}
<1>1. 0 \in T
  <2> DEFINE f == [s \in SUBSET (1..0) |-> base]
  <2>1. 1..0 = {}
    OBVIOUS
  <2>2. f \in [SUBSET (1..0) -> A] /\ IsFold(f, 0, base, g)
    BY <2>1 DEF IsFold
  <2> HIDE DEF f
  <2>3. 0 \in 0..n
    OBVIOUS
  <2> QED BY <2>2, <2>3
<1>2. ASSUME NEW k \in 0..(n - 1), k \in T PROVE k + 1 \in T
  <2>0. k \in Nat /\ k + 1 \in 0..n /\ k + 1 \in 1..n /\ 1..(k + 1) = (1..k) \cup {k + 1}
        /\ k + 1 \notin 1..k /\ k + 1 \in Nat /\ k + 1 \in 1..(k + 1)
    OBVIOUS
  <2>1. PICK f \in [SUBSET (1..k) -> A] : IsFold(f, k, base, g)
    BY <1>2
  <2> DEFINE m == k + 1
             h == [s \in SUBSET (1..m) |-> IF m \in s THEN g[<<m, f[s \ {m}]>>] ELSE f[s]]
  <2>2. \A s \in SUBSET (1..m) : m \in s => s \ {m} \in SUBSET (1..k) /\ Max(s) = m
    BY <2>0, MaxOf
  <2>3. \A s \in SUBSET (1..m) : m \notin s => s \in SUBSET (1..k)
    BY <2>0
  <2>4. m \in 1..n /\ \A a \in A : g[<<m, a>>] \in A
    BY <2>0
  <2> HIDE DEF m
  <2>5. h \in [SUBSET (1..m) -> A]
    BY <2>2, <2>3, <2>4
  <2>6. ASSUME NEW s \in SUBSET (1..m)
        PROVE  h[s] = IF s = {} THEN base ELSE g[<<Max(s), h[s \ {Max(s)}]>>]
    <3>1. CASE m \in s
      <4>1. s # {} /\ Max(s) = m /\ h[s] = g[<<m, f[s \ {m}]>>] /\ s \ {m} \in SUBSET (1..m)
        BY <2>2, <3>1
      <4>2. h[s \ {m}] = f[s \ {m}]
        BY <4>1
      <4> QED BY <4>1, <4>2
    <3>2. CASE m \notin s
      <4>1. s \in SUBSET (1..k) /\ h[s] = f[s]
        BY <2>3, <3>2
      <4>2. CASE s = {}
        BY <2>1, <4>1, <4>2 DEF IsFold
      <4>3. CASE s # {}
        <5>1. f[s] = g[<<Max(s), f[s \ {Max(s)}]>>]
          BY <2>1, <4>1, <4>3 DEF IsFold
        <5>2. h[s \ {Max(s)}] = f[s \ {Max(s)}]
          BY <3>2
        <5> QED BY <4>1, <4>3, <5>1, <5>2
      <4> QED BY <4>2, <4>3
    <3> QED BY <3>1, <3>2
  <2>7. IsFold(h, m, base, g)
    <3> HIDE DEF h
    <3> QED BY <2>6 DEF IsFold
  <2> HIDE DEF h
  <2> QED BY <2>0, <2>5, <2>7 DEF m
<1> HIDE DEF T
<1>3. \A k \in 0..n : k \in T
  BY <1>1, <1>2, CountUp
<1>4. n \in T
  BY <1>3
<1> QED BY <1>4 DEF T

\* One more element.
LEMMA PartOf ==
    ASSUME NEW n \in Nat, NEW k \in 0..(n - 1)
    PROVE  /\ 1..(k + 1) \in SUBSET (1..n) /\ 1..(k + 1) # {} /\ Max(1..(k + 1)) = k + 1
           /\ (1..(k + 1)) \ {k + 1} = 1..k /\ k + 1 \in 1..n
<1>1. 1..(k + 1) \in SUBSET (1..(k + 1)) /\ k + 1 \in 1..(k + 1) /\ k + 1 \in Nat
  OBVIOUS
<1>2. Max(1..(k + 1)) = k + 1
  BY <1>1, MaxOf
<1> QED BY <1>1, <1>2

\* What the chosen function of a fold computes, when it does what g does.
LEMMA FoldStays ==
    ASSUME NEW n \in Nat, NEW A, NEW f, f[{}] \in A,
           \A k \in 0..(n - 1) : f[1..k] \in A => f[1..(k + 1)] \in A
    PROVE  f[1..n] \in A
<1> DEFINE T == {k \in 0..n : f[1..k] \in A}
<1>1. 0 \in T
  <2>1. 1..0 = {}
    OBVIOUS
  <2> QED BY <2>1
<1>2. \A k \in 0..(n - 1) : k \in T => k + 1 \in T
  OBVIOUS
<1> HIDE DEF T
<1>3. \A k \in 0..n : k \in T
  BY <1>1, <1>2, CountUp
<1> QED BY <1>3 DEF T

\* A replayed state is made of what the state and the manifest hold.
LEMMA ReplayType ==
    ASSUME NEW state \in FileMaps, NEW m, m.renames \in Seq(Renames), m.files \in FileMaps,
           NEW V, Values(state) \subseteq V, Values(m.files) \subseteq V
    PROVE  ReplayManifest(state, m) \in FileMaps /\ Values(ReplayManifest(state, m)) \subseteq V
<1> DEFINE Move(s, r) ==
               IF r.from \notin DOMAIN s \/ r.to \in DOMAIN s THEN s
               ELSE Overlay(Without(s, {r.from}), [x \in {r.to} |-> s[r.from]])
           D == DOMAIN m.renames
           IsIter(f) == f = [t \in SUBSET D |->
                                IF t = {} THEN state
                                ELSE Move(f[t \ {Max(t)}], m.renames[Max(t)])]
           iter == CHOOSE f : IsIter(f)
           n == Len(m.renames)
           A == {s \in FileMaps : Values(s) \subseteq V}
           g == [p \in (1..n) \X A |-> Move(p[2], m.renames[p[1]])]
<1>1. ReplayManifest(state, m) = Without(Overlay(iter[D], m.files), m.deleted)
  BY DEF ReplayManifest, FoldLeft, MapThenFoldSet
<1>2. n \in Nat /\ D = 1..n /\ \A i \in 1..n : m.renames[i] \in Renames
  OBVIOUS
<1>3. ASSUME NEW s \in A, NEW r \in Renames PROVE Move(s, r) \in A
  <2>1. CASE r.from \notin DOMAIN s \/ r.to \in DOMAIN s
    BY <2>1
  <2>2. CASE r.from \in DOMAIN s /\ r.to \notin DOMAIN s
    <3> DEFINE rest == Without(s, {r.from})
               v == s[r.from]
    <3>1. rest \in FileMaps /\ Values(rest) \subseteq V
      BY FileMapsClosed, WithoutValues
    <3>2. v \in Contents /\ v \in V /\ r.to \in Paths
      BY <2>2, FileMapsClosed DEF Values, Renames
    <3> HIDE DEF rest, v
    <3>3. Overlay(rest, [x \in {r.to} |-> v]) \in FileMaps
      BY <3>1, <3>2, FileMapsClosed
    <3>4. Values(Overlay(rest, [x \in {r.to} |-> v])) \subseteq V
      BY <3>1, <3>2 DEF Overlay, Values
    <3> QED BY <2>2, <3>3, <3>4 DEF rest, v
  <2> QED BY <2>1, <2>2
<1>4. g \in [(1..n) \X A -> A]
  <2>1. ASSUME NEW p \in (1..n) \X A PROVE Move(p[2], m.renames[p[1]]) \in A
    <3>1. p[2] \in A /\ m.renames[p[1]] \in Renames
      BY <1>2
    <3> HIDE DEF Move, A
    <3> QED BY <1>3, <3>1
  <2> HIDE DEF Move, A
  <2> QED BY <2>1
<1>5. \E f : IsIter(f)
  <2>1. state \in A
    OBVIOUS
  <2>2. PICK f \in [SUBSET (1..n) -> A] : IsFold(f, n, state, g)
    <3> HIDE DEF g, A, n
    <3> QED BY <1>2, <1>4, <2>1, FoldExists
  <2>3. ASSUME NEW t \in SUBSET D
        PROVE  f[t] = IF t = {} THEN state ELSE Move(f[t \ {Max(t)}], m.renames[Max(t)])
    <3>1. CASE t = {}
      BY <1>2, <2>2, <3>1 DEF IsFold
    <3>2. CASE t # {}
      <4>1. Max(t) \in 1..n
        <5>1. t \in SUBSET (1..n)
          BY <1>2
        <5> HIDE DEF n
        <5> QED BY <1>2, <3>2, <5>1, MaxIn
      <4>2. f[t \ {Max(t)}] \in A
        BY <1>2, <2>2
      <4>3. f[t] = g[<<Max(t), f[t \ {Max(t)}]>>]
        <5> HIDE DEF g
        <5> QED BY <1>2, <2>2, <3>2 DEF IsFold
      <4>4. g[<<Max(t), f[t \ {Max(t)}]>>] = Move(f[t \ {Max(t)}], m.renames[Max(t)])
        <5> HIDE DEF Move, A
        <5> QED BY <4>1, <4>2
      <4> HIDE DEF Move, g
      <4> QED BY <3>2, <4>3, <4>4
    <3> QED BY <3>1, <3>2
  <2> HIDE DEF Move, n
  <2>4. IsIter(f)
    BY <1>2, <2>2, <2>3
  <2> QED BY <2>4
<1>6. IsIter(iter)
  <2> HIDE DEF IsIter
  <2> QED BY <1>5
<1>7. ASSUME NEW k \in 0..(n - 1), iter[1..k] \in A PROVE iter[1..(k + 1)] \in A
  <2>1. /\ 1..(k + 1) \in SUBSET D /\ 1..(k + 1) # {} /\ Max(1..(k + 1)) = k + 1
        /\ (1..(k + 1)) \ {k + 1} = 1..k /\ m.renames[k + 1] \in Renames
    <3> HIDE DEF n, D
    <3> QED BY <1>2, PartOf
  <2>2. iter[1..(k + 1)] = Move(iter[1..k], m.renames[k + 1])
    <3> HIDE DEF iter, Move, D
    <3> QED BY <1>6, <2>1
  <2> HIDE DEF iter, Move, A
  <2> QED BY <1>3, <1>7, <2>1, <2>2
<1>8. iter[{}] \in A
  <2> HIDE DEF iter, Move
  <2> QED BY <1>6
<1>9. iter[D] \in A
  <2> HIDE DEF iter, A, n
  <2> QED BY <1>2, <1>7, <1>8, FoldStays
<1> DEFINE moved == iter[D]
<1>10. moved \in FileMaps /\ Values(moved) \subseteq V
  BY <1>9
<1>11. ReplayManifest(state, m) = Without(Overlay(moved, m.files), m.deleted)
  BY <1>1
<1> HIDE DEF moved
<1>12. Overlay(moved, m.files) \in FileMaps /\ Values(Overlay(moved, m.files)) \subseteq V
  BY <1>10, OverlayMaps
<1> QED BY <1>11, <1>12, FileMapsClosed, WithoutValues

\* A sequence of steps within A.
Iterates(f, n, base, g) ==
    f[0] = base /\ \A k \in 1..n : f[k] = g[<<k, f[k - 1]>>]

LEMMA IterExists ==
    ASSUME NEW n \in Nat, NEW A, NEW base \in A, NEW g \in [(1..n) \X A -> A]
    PROVE  \E f \in [0..n -> A] : Iterates(f, n, base, g)
<1> DEFINE Steps(f, k) == f[0] = base /\ \A j \in 1..k : f[j] = g[<<j, f[j - 1]>>]
           T == {k \in 0..n : \E f \in [0..k -> A] : Steps(f, k)}
<1>1. 0 \in T
  <2> DEFINE f == [j \in 0..0 |-> base]
  <2>1. f \in [0..0 -> A] /\ Steps(f, 0)
    OBVIOUS
  <2> HIDE DEF f, Steps
  <2>2. 0 \in 0..n
    OBVIOUS
  <2> QED BY <2>1, <2>2
<1>2. ASSUME NEW k \in 0..(n - 1), k \in T PROVE k + 1 \in T
  <2>1. PICK f \in [0..k -> A] : Steps(f, k)
    BY <1>2
  <2> DEFINE m == k + 1
             h == [j \in 0..m |-> IF j = m THEN g[<<m, f[k]>>] ELSE f[j]]
  <2>2. /\ k \in Nat /\ m \in Nat /\ m \in 0..n /\ m \in 1..n /\ m \notin 0..k /\ m - 1 = k
        /\ 0..m = (0..k) \cup {m} /\ k \in 0..k /\ 1..m = (1..k) \cup {m} /\ 0 \in 0..k /\ 0 # m
    OBVIOUS
  <2>3. \A j \in 1..k : j \in 0..k /\ j - 1 \in 0..k
    OBVIOUS
  <2> HIDE DEF m
  <2>4. h \in [0..m -> A]
    <3>1. g[<<m, f[k]>>] \in A
      BY <2>2
    <3>2. \A j \in 0..m : (IF j = m THEN g[<<m, f[k]>>] ELSE f[j]) \in A
      BY <2>2, <3>1
    <3> QED BY <3>2
  <2>5. h[m] = g[<<m, f[k]>>] /\ \A j \in 0..k : h[j] = f[j]
    BY <2>2
  <2> HIDE DEF h
  <2>6. \A j \in 1..m : h[j] = g[<<j, h[j - 1]>>]
    <3> SUFFICES ASSUME NEW j \in 1..m PROVE h[j] = g[<<j, h[j - 1]>>]
      OBVIOUS
    <3>1. CASE j = m
      BY <2>2, <2>5, <3>1
    <3>2. CASE j \in 1..k
      <4>1. j - 1 \in 0..k /\ j \in 0..k /\ f[j] = g[<<j, f[j - 1]>>]
        BY <2>1, <2>3, <3>2
      <4> QED BY <2>5, <4>1
    <3> QED BY <2>2, <3>1, <3>2
  <2>7. Steps(h, m)
    BY <2>1, <2>2, <2>5, <2>6
  <2> HIDE DEF Steps
  <2> QED BY <2>2, <2>4, <2>7 DEF m
<1> HIDE DEF T
<1>3. \A k \in 0..n : k \in T
  BY <1>1, <1>2, CountUp
<1>4. n \in T
  BY <1>3
<1> QED BY <1>4 DEF T, Iterates

(***************************************************************************)
(* Chains.                                                                 *)
(***************************************************************************)
ParentOf(ms, child) ==
    IF child \in DOMAIN ms /\ ms[child].type = "inc" THEN ms[child].parent ELSE NoId

LEMMA AncestorIs ==
    ASSUME NEW ms, NEW id, Cardinality(DOMAIN ms) \in Nat
    PROVE  /\ Ancestor(ms, id)[0] = id
           /\ \A k \in 1..Cardinality(DOMAIN ms) :
                  Ancestor(ms, id)[k] = ParentOf(ms, Ancestor(ms, id)[k - 1])
<1> DEFINE C == Cardinality(DOMAIN ms)
           Is(f) == f = [n \in 0..C |-> IF n = 0 THEN id ELSE ParentOf(ms, f[n - 1])]
           A == {id, NoId} \cup {ms[x].parent : x \in DOMAIN ms}
           g == [p \in (1..C) \X A |-> ParentOf(ms, p[2])]
<1>1. Ancestor(ms, id) = CHOOSE f : Is(f)
  BY DEF Ancestor, ParentOf
<1>2. C \in Nat
  OBVIOUS
<1> HIDE DEF C
<1>3. g \in [(1..C) \X A -> A]
  <2>1. \A p \in (1..C) \X A : ParentOf(ms, p[2]) \in A
    BY DEF ParentOf
  <2> HIDE DEF A
  <2> QED BY <2>1
<1>4. id \in A
  OBVIOUS
<1>5. PICK f \in [0..C -> A] : Iterates(f, C, id, g)
  <2> HIDE DEF g, A
  <2> QED BY <1>2, <1>3, <1>4, IterExists
<1>6. Is(f)
  <2>1. ASSUME NEW n \in 0..C PROVE f[n] = IF n = 0 THEN id ELSE ParentOf(ms, f[n - 1])
    <3>1. CASE n = 0
      BY <1>5, <3>1 DEF Iterates
    <3>2. CASE n # 0
      <4>1. n \in 1..C /\ n - 1 \in 0..C
        BY <1>2, <3>2
      <4>2. f[n - 1] \in A
        <5> HIDE DEF A, g
        <5> QED BY <1>5, <4>1
      <4>3. g[<<n, f[n - 1]>>] = ParentOf(ms, f[n - 1])
        <5> HIDE DEF A
        <5> QED BY <4>1, <4>2
      <4> HIDE DEF A, g
      <4> QED BY <1>5, <3>2, <4>1, <4>3 DEF Iterates
    <3> QED BY <3>1, <3>2
  <2> HIDE DEF g, A
  <2> QED BY <1>5, <2>1
<1> DEFINE anc == CHOOSE h : Is(h)
<1>7. Is(anc)
  <2> HIDE DEF Is
  <2> QED BY <1>6
<1> HIDE DEF anc
<1>8. anc[0] = id /\ \A k \in 1..C : anc[k] = ParentOf(ms, anc[k - 1])
  <2>1. 0 \in 0..C /\ \A k \in 1..C : k \in 0..C /\ k # 0
    BY <1>2
  <2> QED BY <1>7, <2>1
<1> QED BY <1>1, <1>8 DEF anc, C

\* Beyond a full backup or a missing manifest there is nothing.
LEMMA AncestorEnds ==
    ASSUME NEW ms, NEW id, Cardinality(DOMAIN ms) \in Nat, NoId \notin DOMAIN ms,
           NEW k \in 0..Cardinality(DOMAIN ms), NEW j \in (k + 1)..Cardinality(DOMAIN ms),
           LET a == Ancestor(ms, id)[k] IN a \notin DOMAIN ms \/ ms[a].type # "inc"
    PROVE  Ancestor(ms, id)[j] = NoId
<1> DEFINE C == Cardinality(DOMAIN ms)
           anc == Ancestor(ms, id)
           n == C - (k + 1)
           T == {i \in 0..n : anc[(k + 1) + i] = NoId}
<1>1. /\ C \in Nat /\ k \in 0..C /\ j \in (k + 1)..C
      /\ anc[k] \notin DOMAIN ms \/ ms[anc[k]].type # "inc"
      /\ \A i \in 1..C : anc[i] = ParentOf(ms, anc[i - 1])
  BY AncestorIs
<1> HIDE DEF C, anc
<1>2. n \in Nat /\ 0 \in 0..n /\ j - (k + 1) \in 0..n /\ (k + 1) + (j - (k + 1)) = j
  BY <1>1
<1>3. 0 \in T
  <2>1. (k + 1) + 0 \in 1..C /\ ((k + 1) + 0) - 1 = k
    BY <1>1
  <2>2. anc[(k + 1) + 0] = ParentOf(ms, anc[k])
    BY <1>1, <2>1
  <2> QED BY <1>1, <1>2, <2>2 DEF ParentOf
<1>4. ASSUME NEW i \in 0..(n - 1), i \in T PROVE i + 1 \in T
  <2>1. /\ (k + 1) + (i + 1) \in 1..C /\ ((k + 1) + (i + 1)) - 1 = (k + 1) + i
        /\ i + 1 \in 0..n
    BY <1>1
  <2>2. anc[(k + 1) + i] = NoId
    BY <1>4
  <2> DEFINE x == (k + 1) + (i + 1)
  <2>3. x \in 1..C /\ x - 1 = (k + 1) + i
    BY <2>1
  <2> HIDE DEF x
  <2>4. anc[x] = ParentOf(ms, NoId)
    BY <1>1, <2>2, <2>3
  <2> QED BY <2>1, <2>4 DEF ParentOf, x
<1> HIDE DEF T
<1>5. \A i \in 0..n : i \in T
  <2> HIDE DEF n
  <2> QED BY <1>2, <1>3, <1>4, CountUp
<1>6. j - (k + 1) \in T
  BY <1>2, <1>5
<1>7. anc[(k + 1) + (j - (k + 1))] = NoId
  BY <1>6 DEF T
<1> QED BY <1>2, <1>7 DEF anc

LEMMA FullDepthsIs ==
    ASSUME NEW ms, NEW id
    PROVE  FullDepths(ms, id) =
               {n \in 0..Cardinality(DOMAIN ms) :
                   /\ Ancestor(ms, id)[n] \in DOMAIN ms
                   /\ ms[Ancestor(ms, id)[n]].type = "full"}
BY DEF FullDepths

\* A chain has one full backup, and incrementals before it.
LEMMA OneDepth ==
    ASSUME NEW ms, NEW id, Cardinality(DOMAIN ms) \in Nat, NoId \notin DOMAIN ms,
           NEW n \in FullDepths(ms, id)
    PROVE  /\ FullDepths(ms, id) = {n}
           /\ n \in 0..Cardinality(DOMAIN ms)
           /\ \A k \in 0..(n - 1) : /\ Ancestor(ms, id)[k] \in DOMAIN ms
                                    /\ ms[Ancestor(ms, id)[k]].type = "inc"
           /\ Ancestor(ms, id)[n] \in DOMAIN ms /\ ms[Ancestor(ms, id)[n]].type = "full"
<1> DEFINE C == Cardinality(DOMAIN ms)
           anc == Ancestor(ms, id)
<1>1. /\ \A k \in FullDepths(ms, id) :
             k \in 0..C /\ anc[k] \in DOMAIN ms /\ ms[anc[k]].type = "full"
      /\ C \in Nat
  BY FullDepthsIs
<1>2. ASSUME NEW k \in 0..C, NEW j \in (k + 1)..C, anc[j] # NoId
      PROVE  anc[k] \in DOMAIN ms /\ ms[anc[k]].type = "inc"
  BY <1>2, AncestorEnds
<1> HIDE DEF C, anc
<1>3. ASSUME NEW k \in FullDepths(ms, id), NEW j \in FullDepths(ms, id), k < j PROVE FALSE
  <2>1. k \in 0..C /\ j \in (k + 1)..C
    BY <1>1, <1>3
  <2>2. anc[j] # NoId
    BY <1>1
  <2>3. ms[anc[k]].type = "inc"
    BY <1>2, <2>1, <2>2
  <2> QED BY <1>1, <2>3
<1>4. FullDepths(ms, id) = {n}
  <2>1. \A k \in FullDepths(ms, id) : k \in Nat /\ ~(k < n) /\ ~(n < k)
    BY <1>1, <1>3
  <2> QED BY <2>1
<1>5. ASSUME NEW k \in 0..(n - 1) PROVE anc[k] \in DOMAIN ms /\ ms[anc[k]].type = "inc"
  <2>1. k \in 0..C /\ n \in (k + 1)..C
    BY <1>1
  <2>2. anc[n] # NoId
    BY <1>1
  <2> QED BY <1>2, <2>1, <2>2
<1> QED BY <1>1, <1>4, <1>5 DEF C, anc

LEMMA DepthIs ==
    ASSUME NEW ms, NEW id, NEW n, FullDepths(ms, id) = {n}
    PROVE  Depth(ms, id) = n
<1>1. \E k \in FullDepths(ms, id) : TRUE
  OBVIOUS
<1>2. Depth(ms, id) \in FullDepths(ms, id)
  BY <1>1, Zenon DEF Depth
<1> QED BY <1>2

\* ms2 holds what ms holds, and perhaps more.
Extends(ms2, ms) ==
    /\ Cardinality(DOMAIN ms) \in Nat /\ Cardinality(DOMAIN ms2) \in Nat
    /\ Cardinality(DOMAIN ms) <= Cardinality(DOMAIN ms2)
    /\ NoId \notin DOMAIN ms2 /\ DOMAIN ms \subseteq DOMAIN ms2
    /\ \A id \in DOMAIN ms : ms2[id] = ms[id]

\* Whatever is added, a chain stays as it is.
LEMMA ChainKept ==
    ASSUME NEW ms, NEW ms2, Extends(ms2, ms), NEW id, NEW n \in FullDepths(ms, id)
    PROVE  /\ FullDepths(ms2, id) = {n}
           /\ \A k \in 0..n : Ancestor(ms2, id)[k] = Ancestor(ms, id)[k]
<1> DEFINE C == Cardinality(DOMAIN ms)
           C2 == Cardinality(DOMAIN ms2)
           anc == Ancestor(ms, id)
           anc2 == Ancestor(ms2, id)
           T == {k \in 0..n : anc2[k] = anc[k]}
<1>0. /\ C \in Nat /\ C2 \in Nat /\ C <= C2
      /\ NoId \notin DOMAIN ms /\ NoId \notin DOMAIN ms2 /\ DOMAIN ms \subseteq DOMAIN ms2
      /\ \A x \in DOMAIN ms : ms2[x] = ms[x]
  BY DEF Extends
<1>1. /\ n \in 0..C
      /\ \A k \in 0..(n - 1) : anc[k] \in DOMAIN ms /\ ms[anc[k]].type = "inc"
      /\ anc[n] \in DOMAIN ms /\ ms[anc[n]].type = "full"
  BY <1>0, OneDepth
<1>2. /\ anc[0] = id /\ \A k \in 1..C : anc[k] = ParentOf(ms, anc[k - 1])
      /\ anc2[0] = id /\ \A k \in 1..C2 : anc2[k] = ParentOf(ms2, anc2[k - 1])
  BY <1>0, AncestorIs
<1> HIDE DEF C, C2, anc, anc2
<1>3. n \in Nat /\ n \in 0..n /\ 0 \in 0..n /\ n \in 0..C2
  BY <1>0, <1>1
<1>4. 0 \in T
  BY <1>2, <1>3
<1>5. ASSUME NEW k \in 0..(n - 1), k \in T PROVE k + 1 \in T
  <2> DEFINE x == k + 1
  <2>1. x \in 1..C /\ x \in 1..C2 /\ x - 1 = k /\ x \in 0..n
    BY <1>0, <1>1
  <2> HIDE DEF x
  <2>2. anc[x] = ParentOf(ms, anc[k]) /\ anc2[x] = ParentOf(ms2, anc[k])
    BY <1>2, <1>5, <2>1
  <2>3. ParentOf(ms2, anc[k]) = ParentOf(ms, anc[k])
    BY <1>0, <1>1 DEF ParentOf
  <2>4. x \in T
    BY <2>1, <2>2, <2>3
  <2> QED BY <2>4 DEF x
<1> HIDE DEF T
<1>6. \A k \in 0..n : k \in T
  BY <1>3, <1>4, <1>5, CountUp
<1>7. \A k \in 0..n : anc2[k] = anc[k]
  BY <1>6 DEF T
<1>8. n \in FullDepths(ms2, id)
  <2>1. anc2[n] \in DOMAIN ms2 /\ ms2[anc2[n]].type = "full"
    BY <1>0, <1>1, <1>3, <1>7
  <2> QED BY <1>3, <2>1, FullDepthsIs DEF anc2, C2
<1>9. FullDepths(ms2, id) = {n}
  BY <1>0, <1>8, OneDepth DEF C2
<1> QED BY <1>7, <1>9 DEF anc, anc2

LEMMA ReachesKept ==
    ASSUME NEW ms, NEW ms2, Extends(ms2, ms), NEW id, ReachesFull(ms, id)
    PROVE  ReachesFull(ms2, id)
<1>1. PICK n : n \in FullDepths(ms, id)
  BY DEF ReachesFull
<1> QED BY <1>1, ChainKept DEF ReachesFull

LEMMA IntactKept ==
    ASSUME NEW ms, NEW ms2, Extends(ms2, ms), NEW id, NEW max, ChainIntact(ms, id, max)
    PROVE  ChainIntact(ms2, id, max)
<1>1. PICK n \in FullDepths(ms, id) : n < max
  BY DEF ChainIntact
<1> QED BY <1>1, ChainKept DEF ChainIntact

LEMMA FullReaches ==
    ASSUME NEW ms, Cardinality(DOMAIN ms) \in Nat, NEW id \in DOMAIN ms, ms[id].type = "full"
    PROVE  0 \in FullDepths(ms, id)
<1>1. Ancestor(ms, id)[0] = id
  BY AncestorIs
<1>2. 0 \in 0..Cardinality(DOMAIN ms)
  OBVIOUS
<1> QED BY <1>1, <1>2, FullDepthsIs

\* One more incremental on a chain that reaches a full backup.
LEMMA IncReaches ==
    ASSUME NEW ms, NEW ms2, Extends(ms2, ms), NEW id \in DOMAIN ms2, ms2[id].type = "inc",
           Cardinality(DOMAIN ms2) = Cardinality(DOMAIN ms) + 1,
           NEW n \in FullDepths(ms, ms2[id].parent)
    PROVE  /\ FullDepths(ms2, id) = {n + 1}
           /\ \A k \in 0..n :
                  Ancestor(ms2, id)[k + 1] = Ancestor(ms2, ms2[id].parent)[k]
           /\ Ancestor(ms2, id)[0] = id
<1> DEFINE C == Cardinality(DOMAIN ms2)
           anc == Ancestor(ms2, id)
           parent == ms2[id].parent
           up == Ancestor(ms2, parent)
           T == {k \in 0..n : anc[k + 1] = up[k]}
<1>0. /\ C \in Nat /\ NoId \notin DOMAIN ms2 /\ n + 1 \in 0..C /\ n \in Nat
      /\ FullDepths(ms2, parent) = {n}
  <2>1. n \in 0..Cardinality(DOMAIN ms) /\ FullDepths(ms2, parent) = {n}
    BY ChainKept, OneDepth, FullDepthsIs
  <2> QED BY <2>1 DEF Extends
<1>1. /\ anc[0] = id /\ \A k \in 1..C : anc[k] = ParentOf(ms2, anc[k - 1])
      /\ up[0] = parent /\ \A k \in 1..C : up[k] = ParentOf(ms2, up[k - 1])
  BY <1>0, AncestorIs
<1>2. up[n] \in DOMAIN ms2 /\ ms2[up[n]].type = "full"
  BY <1>0, OneDepth
<1>3. parent = ParentOf(ms2, id)
  BY DEF ParentOf
<1> HIDE DEF C, anc, up
<1>4. 0 \in T
  <2>1. 0 + 1 \in 1..C /\ (0 + 1) - 1 = 0 /\ 0 \in 0..n
    BY <1>0
  <2> DEFINE x == 0 + 1
  <2>2. x \in 1..C /\ x - 1 = 0
    BY <2>1
  <2> HIDE DEF x
  <2>3. anc[x] = up[0]
    BY <1>1, <1>3, <2>2
  <2> QED BY <2>1, <2>3 DEF x
<1>5. ASSUME NEW k \in 0..(n - 1), k \in T PROVE k + 1 \in T
  <2> DEFINE x == k + 1
             y == x + 1
  <2>1. x \in 1..C /\ y \in 1..C /\ x - 1 = k /\ y - 1 = x /\ x \in 0..n
    BY <1>0
  <2>2. anc[x] = up[k]
    BY <1>5
  <2> HIDE DEF x, y
  <2>3. anc[y] = up[x]
    BY <1>1, <2>1, <2>2
  <2>4. x \in T
    BY <2>1, <2>3 DEF y
  <2> QED BY <2>4 DEF x
<1> HIDE DEF T
<1>6. \A k \in 0..n : k \in T
  BY <1>0, <1>4, <1>5, CountUp
<1>7. \A k \in 0..n : anc[k + 1] = up[k]
  BY <1>6 DEF T
<1>8. n + 1 \in FullDepths(ms2, id)
  <2>1. n \in 0..n
    BY <1>0
  <2>2. anc[n + 1] \in DOMAIN ms2 /\ ms2[anc[n + 1]].type = "full"
    BY <1>2, <1>7, <2>1
  <2> QED BY <1>0, <2>2, FullDepthsIs DEF anc, C
<1>9. FullDepths(ms2, id) = {n + 1}
  BY <1>0, <1>8, OneDepth DEF C
<1> QED BY <1>1, <1>7, <1>9 DEF anc, up

\* What replay relies on, and the contents it draws from.
Sound(ms, V) ==
    \A id \in DOMAIN ms : /\ ms[id].files \in FileMaps /\ Values(ms[id].files) \subseteq V
                          /\ ms[id].renames \in Seq(Renames)

\* s[k] is the state k manifests after the full backup the chain of id ends in.
Replays(s, ms, id, n) ==
    /\ s[0] = ms[Ancestor(ms, id)[n]].files
    /\ \A k \in 1..n : s[k] = ReplayManifest(s[k - 1], ms[Ancestor(ms, id)[n - k]])

LEMMA MaterializeIs ==
    ASSUME NEW ms, NEW V, Sound(ms, V), Cardinality(DOMAIN ms) \in Nat, NoId \notin DOMAIN ms,
           NEW id, NEW n \in FullDepths(ms, id)
    PROVE  /\ \E s : Replays(s, ms, id, n) /\ s[n] = Materialize(ms, id)
           /\ Materialize(ms, id) \in FileMaps /\ Values(Materialize(ms, id)) \subseteq V
<1> DEFINE anc == Ancestor(ms, id)
           A == {f \in FileMaps : Values(f) \subseteq V}
           Is(s) == s = [k \in 0..n |-> IF k = 0 THEN ms[anc[n]].files
                                        ELSE ReplayManifest(s[k - 1], ms[anc[n - k]])]
           g == [p \in (1..n) \X A |-> ReplayManifest(p[2], ms[anc[n - p[1]]])]
<1>1. /\ n \in Nat /\ FullDepths(ms, id) = {n}
      /\ \A k \in 0..n : anc[k] \in DOMAIN ms
  <2>1. /\ n \in 0..Cardinality(DOMAIN ms) /\ FullDepths(ms, id) = {n}
        /\ \A k \in 0..(n - 1) : anc[k] \in DOMAIN ms
        /\ anc[n] \in DOMAIN ms
    BY OneDepth
  <2>2. n \in Nat /\ \A k \in 0..n : k = n \/ k \in 0..(n - 1)
    BY <2>1
  <2> QED BY <2>1, <2>2
<1>2. Depth(ms, id) = n
  BY <1>1, DepthIs
<1>3. Materialize(ms, id) = (CHOOSE s : Is(s))[n]
  BY <1>2 DEF Materialize
<1> HIDE DEF anc
<1>4. ms[anc[n]].files \in A
  <2>1. n \in 0..n
    BY <1>1
  <2> QED BY <1>1, <2>1 DEF Sound
<1>5. ASSUME NEW f \in A, NEW k \in 1..n PROVE ReplayManifest(f, ms[anc[n - k]]) \in A
  <2>1. n - k \in 0..n
    BY <1>1
  <2>2. anc[n - k] \in DOMAIN ms
    BY <1>1, <2>1
  <2> DEFINE m == ms[anc[n - k]]
  <2>3. m.files \in FileMaps /\ Values(m.files) \subseteq V /\ m.renames \in Seq(Renames)
    BY <2>2 DEF Sound
  <2> HIDE DEF m
  <2>4. ReplayManifest(f, m) \in A
    BY <2>3, ReplayType
  <2> QED BY <2>4 DEF m
<1>6. g \in [(1..n) \X A -> A]
  <2>1. \A p \in (1..n) \X A : ReplayManifest(p[2], ms[anc[n - p[1]]]) \in A
    <3> HIDE DEF A
    <3> QED BY <1>5
  <2> HIDE DEF A
  <2> QED BY <2>1
<1> DEFINE base == ms[anc[n]].files
<1>7. PICK f \in [0..n -> A] : Iterates(f, n, base, g)
  <2> HIDE DEF g, A, base
  <2> QED BY <1>1, <1>4, <1>6, IterExists DEF base
<1>8. Is(f)
  <2>1. ASSUME NEW k \in 0..n
        PROVE  f[k] = IF k = 0 THEN ms[anc[n]].files
                      ELSE ReplayManifest(f[k - 1], ms[anc[n - k]])
    <3>1. CASE k = 0
      BY <1>7, <3>1 DEF Iterates
    <3>2. CASE k # 0
      <4>1. k \in 1..n /\ k - 1 \in 0..n
        BY <1>1, <3>2
      <4>2. f[k - 1] \in A
        <5> HIDE DEF A, g
        <5> QED BY <1>7, <4>1
      <4>3. g[<<k, f[k - 1]>>] = ReplayManifest(f[k - 1], ms[anc[n - k]])
        <5> HIDE DEF A
        <5> QED BY <4>1, <4>2
      <4> HIDE DEF A, g
      <4> QED BY <1>7, <3>2, <4>1, <4>3 DEF Iterates
    <3> QED BY <3>1, <3>2
  <2> HIDE DEF g, A
  <2> QED BY <1>7, <2>1
<1> DEFINE s == CHOOSE h : Is(h)
<1>9. Is(s)
  <2> HIDE DEF Is
  <2> QED BY <1>8
<1> HIDE DEF s
<1>10. Replays(s, ms, id, n)
  <2>1. 0 \in 0..n /\ \A k \in 1..n : k \in 0..n /\ k # 0
    BY <1>1
  <2> QED BY <1>9, <2>1 DEF Replays, anc
<1>11. s[n] \in A
  <2>1. s[0] \in A /\ \A k \in 1..n : s[k] = ReplayManifest(s[k - 1], ms[anc[n - k]])
    BY <1>4, <1>10 DEF Replays, anc
  <2> DEFINE T == {k \in 0..n : s[k] \in A}
  <2> HIDE DEF A
  <2>2. 0 \in T
    BY <1>1, <2>1
  <2>3. ASSUME NEW k \in 0..(n - 1), k \in T PROVE k + 1 \in T
    <3> DEFINE x == k + 1
    <3>1. x \in 1..n /\ x \in 0..n /\ x - 1 = k /\ s[k] \in A
      BY <1>1, <2>3
    <3> HIDE DEF x
    <3>2. s[x] \in A
      BY <1>5, <2>1, <3>1
    <3> QED BY <3>1, <3>2 DEF x
  <2> HIDE DEF T
  <2>4. \A k \in 0..n : k \in T
    BY <1>1, <2>2, <2>3, CountUp
  <2>5. n \in 0..n
    BY <1>1
  <2> QED BY <2>4, <2>5 DEF T
<1>12. s[n] = Materialize(ms, id)
  BY <1>3 DEF s
<1> QED BY <1>10, <1>11, <1>12

\* Two replays of the same manifests are equal.
LEMMA SameReplay ==
    ASSUME NEW ms, NEW id, NEW ms2, NEW id2, NEW n \in Nat, NEW m \in 0..n,
           NEW s, Replays(s, ms, id, n), NEW s2, Replays(s2, ms2, id2, m),
           \A k \in 0..m : ms[Ancestor(ms, id)[n - k]] = ms2[Ancestor(ms2, id2)[m - k]]
    PROVE  s[m] = s2[m]
<1> DEFINE a == Ancestor(ms, id)
           a2 == Ancestor(ms2, id2)
           T == {k \in 0..m : s[k] = s2[k]}
<1>1. /\ s[0] = ms[a[n]].files /\ \A k \in 1..n : s[k] = ReplayManifest(s[k - 1], ms[a[n - k]])
      /\ s2[0] = ms2[a2[m]].files
      /\ \A k \in 1..m : s2[k] = ReplayManifest(s2[k - 1], ms2[a2[m - k]])
      /\ \A k \in 0..m : ms[a[n - k]] = ms2[a2[m - k]]
  BY DEF Replays
<1> HIDE DEF a, a2
<1>2. m \in Nat /\ 0 \in 0..m /\ m \in 0..m /\ n - 0 = n /\ m - 0 = m
  OBVIOUS
<1>3. 0 \in T
  <2>1. ms[a[n]] = ms2[a2[m]]
    BY <1>1, <1>2
  <2> QED BY <1>1, <1>2, <2>1
<1>4. ASSUME NEW k \in 0..(m - 1), k \in T PROVE k + 1 \in T
  <2> DEFINE x == k + 1
  <2>1. x \in 1..n /\ x \in 1..m /\ x \in 0..m /\ x - 1 = k /\ s[k] = s2[k]
    BY <1>4
  <2> HIDE DEF x
  <2>2. s[x] = s2[x]
    BY <1>1, <2>1
  <2> QED BY <2>1, <2>2 DEF x
<1> HIDE DEF T
<1>5. \A k \in 0..m : k \in T
  BY <1>2, <1>3, <1>4, CountUp
<1> QED BY <1>2, <1>5 DEF T

\* What is added to the folder changes no state that could be restored.
LEMMA MaterializeKept ==
    ASSUME NEW ms, NEW ms2, Extends(ms2, ms), NEW V, Sound(ms2, V), NEW id, ReachesFull(ms, id)
    PROVE  Materialize(ms2, id) = Materialize(ms, id)
<1>1. PICK n : n \in FullDepths(ms, id)
  BY DEF ReachesFull
<1>2. /\ Cardinality(DOMAIN ms) \in Nat /\ Cardinality(DOMAIN ms2) \in Nat
      /\ NoId \notin DOMAIN ms /\ NoId \notin DOMAIN ms2
      /\ \A x \in DOMAIN ms : x \in DOMAIN ms2 /\ ms2[x] = ms[x]
  BY DEF Extends
<1>3. n \in FullDepths(ms2, id) /\ \A k \in 0..n : Ancestor(ms2, id)[k] = Ancestor(ms, id)[k]
  BY <1>1, ChainKept
<1>4. n \in Nat /\ n \in 0..n /\ \A k \in 0..n : n - k \in 0..n
  <2>1. n \in 0..Cardinality(DOMAIN ms)
    BY <1>1, FullDepthsIs
  <2> QED BY <1>2, <2>1
<1>5. \A k \in 0..n : Ancestor(ms, id)[k] \in DOMAIN ms
  <2>1. /\ \A k \in 0..(n - 1) : Ancestor(ms, id)[k] \in DOMAIN ms
        /\ Ancestor(ms, id)[n] \in DOMAIN ms
    BY <1>1, <1>2, OneDepth
  <2>2. \A k \in 0..n : k = n \/ k \in 0..(n - 1)
    BY <1>4
  <2> QED BY <2>1, <2>2
<1>6. Sound(ms, V)
  BY <1>2 DEF Sound
<1>7. PICK s : Replays(s, ms, id, n) /\ s[n] = Materialize(ms, id)
  BY <1>1, <1>2, <1>6, MaterializeIs
<1>8. PICK s2 : Replays(s2, ms2, id, n) /\ s2[n] = Materialize(ms2, id)
  BY <1>2, <1>3, MaterializeIs
<1>9. \A k \in 0..n : ms[Ancestor(ms, id)[n - k]] = ms2[Ancestor(ms2, id)[n - k]]
  BY <1>2, <1>3, <1>4, <1>5
<1>10. s[n] = s2[n]
  BY <1>4, <1>7, <1>8, <1>9, SameReplay
<1> QED BY <1>7, <1>8, <1>10

LEMMA MaterializeFull ==
    ASSUME NEW ms, NEW V, Sound(ms, V), Cardinality(DOMAIN ms) \in Nat, NoId \notin DOMAIN ms,
           NEW id \in DOMAIN ms, ms[id].type = "full"
    PROVE  Materialize(ms, id) = ms[id].files
<1>1. 0 \in FullDepths(ms, id)
  BY FullReaches
<1>2. PICK s : Replays(s, ms, id, 0) /\ s[0] = Materialize(ms, id)
  BY <1>1, MaterializeIs
<1>3. Ancestor(ms, id)[0] = id
  BY AncestorIs
<1> QED BY <1>2, <1>3 DEF Replays

\* A new incremental restores to what its parent does, with its own changes.
LEMMA MaterializeInc ==
    ASSUME NEW ms, NEW ms2, Extends(ms2, ms), NEW V, Sound(ms2, V),
           Cardinality(DOMAIN ms2) = Cardinality(DOMAIN ms) + 1,
           NEW id \in DOMAIN ms2, ms2[id].type = "inc", ReachesFull(ms, ms2[id].parent)
    PROVE  /\ ReachesFull(ms2, id)
           /\ Materialize(ms2, id) = ReplayManifest(Materialize(ms, ms2[id].parent), ms2[id])
<1> DEFINE parent == ms2[id].parent
<1>1. PICK n : n \in FullDepths(ms, parent)
  BY DEF ReachesFull
<1>2. /\ Cardinality(DOMAIN ms) \in Nat /\ Cardinality(DOMAIN ms2) \in Nat
      /\ NoId \notin DOMAIN ms /\ NoId \notin DOMAIN ms2
  BY DEF Extends
<1>3. n \in Nat /\ n + 1 \in Nat /\ n \in 0..(n + 1) /\ n + 1 \in 1..(n + 1) /\ (n + 1) - 1 = n
      /\ (n + 1) - (n + 1) = 0 /\ n \in 0..n
  <2>1. n \in 0..Cardinality(DOMAIN ms)
    BY <1>1, FullDepthsIs
  <2> QED BY <1>2, <2>1
<1>4. /\ n + 1 \in FullDepths(ms2, id)
      /\ \A k \in 0..n : Ancestor(ms2, id)[k + 1] = Ancestor(ms2, parent)[k]
      /\ Ancestor(ms2, id)[0] = id
  BY <1>1, IncReaches
<1>5. n \in FullDepths(ms2, parent)
  BY <1>1, ChainKept
<1>6. PICK s : Replays(s, ms2, id, n + 1) /\ s[n + 1] = Materialize(ms2, id)
  BY <1>2, <1>4, MaterializeIs
<1>7. PICK s2 : Replays(s2, ms2, parent, n) /\ s2[n] = Materialize(ms2, parent)
  BY <1>2, <1>5, MaterializeIs
<1>8. ASSUME NEW k \in 0..n
      PROVE  ms2[Ancestor(ms2, id)[(n + 1) - k]] = ms2[Ancestor(ms2, parent)[n - k]]
  <2> DEFINE x == n - k
  <2>1. x \in 0..n /\ (n + 1) - k = x + 1
    BY <1>3
  <2>2. Ancestor(ms2, id)[x + 1] = Ancestor(ms2, parent)[x]
    <3> HIDE DEF x, parent
    <3> QED BY <1>4, <2>1
  <2> QED BY <2>1, <2>2
<1>9. s[n] = s2[n]
  <2> DEFINE m == n + 1
  <2>1. m \in Nat /\ n \in 0..m /\ Replays(s, ms2, id, m)
    BY <1>3, <1>6
  <2>2. \A k \in 0..n : ms2[Ancestor(ms2, id)[m - k]] = ms2[Ancestor(ms2, parent)[n - k]]
    BY <1>8
  <2> HIDE DEF m, parent
  <2> QED BY <1>7, <2>1, <2>2, SameReplay
<1>10. s[n + 1] = ReplayManifest(s[n], ms2[id])
  <2> DEFINE m == n + 1
  <2>1. m \in 1..m /\ m - 1 = n /\ m - m = 0 /\ Replays(s, ms2, id, m)
    BY <1>3, <1>6
  <2> HIDE DEF m
  <2>2. s[m] = ReplayManifest(s[m - 1], ms2[Ancestor(ms2, id)[m - m]])
    BY <2>1 DEF Replays
  <2> QED BY <1>4, <2>1, <2>2 DEF m
<1>11. Materialize(ms2, parent) = Materialize(ms, parent)
  BY <1>1, MaterializeKept DEF ReachesFull
<1> QED BY <1>4, <1>6, <1>7, <1>9, <1>10, <1>11 DEF ReachesFull

\* What a fold over 1..n computes, one element at a time.
FoldsIn(f, n, A, base, g) ==
    /\ f[{}] = base
    /\ \A s \in SUBSET (1..n) : s # {} =>
           /\ Max(s) \in 1..n /\ f[s \ {Max(s)}] \in A
           /\ f[s] = g[<<Max(s), f[s \ {Max(s)}]>>]

LEMMA FoldFound ==
    ASSUME NEW n \in Nat, NEW A, NEW base \in A, NEW g \in [(1..n) \X A -> A]
    PROVE  \E f \in [SUBSET (1..n) -> A] : FoldsIn(f, n, A, base, g)
<1>1. PICK f \in [SUBSET (1..n) -> A] : IsFold(f, n, base, g)
  BY FoldExists
<1>2. f[{}] = base
  BY <1>1 DEF IsFold
<1>3. ASSUME NEW s \in SUBSET (1..n), s # {}
      PROVE  /\ Max(s) \in 1..n /\ f[s \ {Max(s)}] \in A
             /\ f[s] = g[<<Max(s), f[s \ {Max(s)}]>>]
  <2>1. Max(s) \in s
    BY <1>3, MaxIn
  <2>2. s \ {Max(s)} \in SUBSET (1..n)
    OBVIOUS
  <2> QED BY <1>1, <1>3, <2>1, <2>2 DEF IsFold
<1> QED BY <1>2, <1>3 DEF FoldsIn

\* A filter, element after element.
Filters(f, seq, S) ==
    /\ f[0] = <<>>
    /\ \A k \in 1..Len(seq) :
           f[k] = IF seq[k] \in S THEN Append(f[k - 1], seq[k]) ELSE f[k - 1]

LEMMA FilterSteps ==
    ASSUME NEW E, NEW seq \in Seq(E), NEW S
    PROVE  \E f \in [0..Len(seq) -> Seq(E)] :
               Filters(f, seq, S) /\ Filter(seq, S) = f[Len(seq)]
<1> DEFINE Step(kept, x) == IF x \in S THEN Append(kept, x) ELSE kept
           D == DOMAIN seq
           IsIter(f) == f = [t \in SUBSET D |->
                                IF t = {} THEN <<>> ELSE Step(f[t \ {Max(t)}], seq[Max(t)])]
           iter == CHOOSE f : IsIter(f)
           n == Len(seq)
           A == Seq(E)
           g == [p \in (1..n) \X A |-> Step(p[2], seq[p[1]])]
<1>1. Filter(seq, S) = iter[D]
  BY DEF Filter, FoldLeft, MapThenFoldSet
<1>2. n \in Nat /\ D = 1..n /\ \A i \in 1..n : seq[i] \in E
  OBVIOUS
<1>3. <<>> \in A /\ \A a \in A, x \in E : Step(a, x) \in A
  OBVIOUS
<1>a. \A a, x : Step(a, x) = IF x \in S THEN Append(a, x) ELSE a
  OBVIOUS
<1> HIDE DEF Step, A, n
<1>4. g \in [(1..n) \X A -> A]
  BY <1>2, <1>3
<1>5. \E f : IsIter(f)
  <2> HIDE DEF g
  <2>1. PICK f \in [SUBSET (1..n) -> A] : FoldsIn(f, n, A, <<>>, g)
    BY <1>2, <1>3, <1>4, FoldFound
  <2>2. \A i \in 1..n, a \in A : g[<<i, a>>] = Step(a, seq[i])
    BY DEF g
  <2>3. \A t \in SUBSET D :
            f[t] = IF t = {} THEN <<>> ELSE Step(f[t \ {Max(t)}], seq[Max(t)])
    BY <1>2, <2>1, <2>2 DEF FoldsIn
  <2>4. IsIter(f)
    <3> HIDE DEF D, Step
    <3>1. f \in [SUBSET D -> A]
      BY <1>2, <2>1
    <3> QED BY <2>3, <3>1
  <2> QED BY <2>4
<1>6. IsIter(iter)
  <2> HIDE DEF IsIter
  <2> QED BY <1>5
<1> HIDE DEF iter, g
<1>7. iter[1..0] = <<>>
  BY <1>6
<1>8. ASSUME NEW k \in 0..(n - 1)
      PROVE  iter[1..(k + 1)] = Step(iter[1..k], seq[k + 1]) /\ seq[k + 1] \in E
  <2>1. /\ 1..(k + 1) \in SUBSET D /\ 1..(k + 1) # {} /\ Max(1..(k + 1)) = k + 1
        /\ (1..(k + 1)) \ {k + 1} = 1..k /\ seq[k + 1] \in E
    BY <1>2, PartOf
  <2> QED BY <1>6, <2>1
<1> HIDE DEF IsIter
<1> DEFINE T == {k \in Nat : iter[1..k] \in A}
<1>9. \A k \in 0..n : k \in T
  <2>1. 0 \in T
    BY <1>3, <1>7
  <2>2. ASSUME NEW k \in 0..(n - 1), k \in T PROVE k + 1 \in T
    <3>1. iter[1..(k + 1)] \in A
      BY <1>3, <1>8, <2>2
    <3>2. k + 1 \in Nat
      BY <1>2
    <3> QED BY <3>1, <3>2
  <2> HIDE DEF T
  <2> QED BY <1>2, <2>1, <2>2, CountUp
<1> DEFINE h == [k \in 0..n |-> iter[1..k]]
<1>10. h \in [0..n -> A]
  BY <1>9
<1>11. ASSUME NEW k \in 1..n PROVE h[k] = Step(h[k - 1], seq[k])
  <2>1. k - 1 \in 0..(n - 1) /\ k - 1 \in 0..n /\ k \in 0..n /\ (k - 1) + 1 = k
    BY <1>2
  <2>2. iter[1..k] = Step(iter[1..(k - 1)], seq[k])
    BY <1>8, <2>1
  <2> QED BY <2>1, <2>2
<1>12. h[0] = <<>> /\ h[n] = iter[D]
  BY <1>2, <1>7
<1> HIDE DEF h
<1>13. Filters(h, seq, S)
  BY <1>a, <1>11, <1>12 DEF Filters, n
<1> QED BY <1>1, <1>10, <1>12, <1>13 DEF n, A

LEMMA FilterType ==
    ASSUME NEW E, NEW seq \in Seq(E), NEW S
    PROVE  Filter(seq, S) \in Seq(E)
<1>1. PICK f \in [0..Len(seq) -> Seq(E)] : Filter(seq, S) = f[Len(seq)]
  BY FilterSteps
<1>2. Len(seq) \in 0..Len(seq)
  OBVIOUS
<1> QED BY <1>1, <1>2

\* The buckets of a queue, event after event.
Buckets(b, seq) ==
    /\ b[0] = EmptyBuckets
    /\ \A k \in 1..Len(seq) : b[k] = BucketEvent(b[k - 1], seq[k])

LEMMA BucketSteps ==
    ASSUME NEW E, NEW seq \in Seq(E), NEW A, EmptyBuckets \in A,
           \A b \in A, e \in E : BucketEvent(b, e) \in A
    PROVE  \E f \in [0..Len(seq) -> A] : Buckets(f, seq) /\ Bucket(seq) = f[Len(seq)]
<1> DEFINE D == DOMAIN seq
           IsIter(f) == f = [t \in SUBSET D |->
                                IF t = {} THEN EmptyBuckets
                                ELSE BucketEvent(f[t \ {Max(t)}], seq[Max(t)])]
           iter == CHOOSE f : IsIter(f)
           n == Len(seq)
           g == [p \in (1..n) \X A |-> BucketEvent(p[2], seq[p[1]])]
<1>1. Bucket(seq) = iter[D]
  BY DEF Bucket, FoldLeft, MapThenFoldSet
<1>2. n \in Nat /\ D = 1..n /\ \A i \in 1..n : seq[i] \in E
  OBVIOUS
<1> HIDE DEF n
<1>4. g \in [(1..n) \X A -> A]
  BY <1>2
<1>5. \E f : IsIter(f)
  <2> HIDE DEF g
  <2>1. PICK f \in [SUBSET (1..n) -> A] : FoldsIn(f, n, A, EmptyBuckets, g)
    BY <1>2, <1>4, FoldFound
  <2>2. \A i \in 1..n, a \in A : g[<<i, a>>] = BucketEvent(a, seq[i])
    BY DEF g
  <2>3. \A t \in SUBSET D :
            f[t] = IF t = {} THEN EmptyBuckets ELSE BucketEvent(f[t \ {Max(t)}], seq[Max(t)])
    BY <1>2, <2>1, <2>2 DEF FoldsIn
  <2>4. IsIter(f)
    <3> HIDE DEF D
    <3>1. f \in [SUBSET D -> A]
      BY <1>2, <2>1
    <3> QED BY <2>3, <3>1
  <2> QED BY <2>4
<1>6. IsIter(iter)
  <2> HIDE DEF IsIter
  <2> QED BY <1>5
<1> HIDE DEF iter, g
<1>7. iter[1..0] = EmptyBuckets
  BY <1>6
<1>8. ASSUME NEW k \in 0..(n - 1)
      PROVE  iter[1..(k + 1)] = BucketEvent(iter[1..k], seq[k + 1]) /\ seq[k + 1] \in E
  <2>1. /\ 1..(k + 1) \in SUBSET D /\ 1..(k + 1) # {} /\ Max(1..(k + 1)) = k + 1
        /\ (1..(k + 1)) \ {k + 1} = 1..k /\ seq[k + 1] \in E
    BY <1>2, PartOf
  <2> QED BY <1>6, <2>1
<1> HIDE DEF IsIter
<1> DEFINE T == {k \in Nat : iter[1..k] \in A}
<1>9. \A k \in 0..n : k \in T
  <2>1. 0 \in T
    BY <1>7
  <2>2. ASSUME NEW k \in 0..(n - 1), k \in T PROVE k + 1 \in T
    <3>1. iter[1..(k + 1)] \in A
      BY <1>8, <2>2
    <3>2. k + 1 \in Nat
      BY <1>2
    <3> QED BY <3>1, <3>2
  <2> HIDE DEF T
  <2> QED BY <1>2, <2>1, <2>2, CountUp
<1> DEFINE h == [k \in 0..n |-> iter[1..k]]
<1>10. h \in [0..n -> A]
  BY <1>9
<1>11. ASSUME NEW k \in 1..n PROVE h[k] = BucketEvent(h[k - 1], seq[k])
  <2>1. k - 1 \in 0..(n - 1) /\ k - 1 \in 0..n /\ k \in 0..n /\ (k - 1) + 1 = k
    BY <1>2
  <2>2. iter[1..k] = BucketEvent(iter[1..(k - 1)], seq[k])
    BY <1>8, <2>1
  <2> QED BY <2>1, <2>2
<1>12. h[0] = EmptyBuckets /\ h[n] = iter[D]
  BY <1>2, <1>7
<1> HIDE DEF h
<1>13. Buckets(h, seq)
  BY <1>11, <1>12 DEF Buckets, n
<1> QED BY <1>1, <1>10, <1>12, <1>13 DEF n

\* What each event keeps, the buckets of a queue have.
LEMMA BucketStays ==
    ASSUME NEW E, NEW seq \in Seq(E), NEW A, EmptyBuckets \in A,
           \A b \in A, e \in E : BucketEvent(b, e) \in A
    PROVE  Bucket(seq) \in A
<1>1. PICK f \in [0..Len(seq) -> A] : Bucket(seq) = f[Len(seq)]
  BY BucketSteps
<1>2. Len(seq) \in 0..Len(seq)
  OBVIOUS
<1> QED BY <1>1, <1>2

\* saveLocalIndex keeps the index a map of files.
LEMMA IndexFilesType ==
    ASSUME NEW files \in FileMaps, NEW m, m.renames \in Seq(Renames), m.files \in FileMaps
    PROVE  IndexFilesAfter(files, m) \in FileMaps
<1> DEFINE Carry(f, r) ==
               IF r.from \in DOMAIN f /\ r.to \notin DOMAIN m.files
               THEN Overlay(Without(f, {r.from}), [x \in {r.to} |-> f[r.from]])
               ELSE Without(f, {r.from})
           D == DOMAIN m.renames
           IsIter(f) == f = [t \in SUBSET D |->
                                IF t = {} THEN files
                                ELSE Carry(f[t \ {Max(t)}], m.renames[Max(t)])]
           iter == CHOOSE f : IsIter(f)
           n == Len(m.renames)
           A == FileMaps
           g == [p \in (1..n) \X A |-> Carry(p[2], m.renames[p[1]])]
<1>1. IndexFilesAfter(files, m) = Overlay(Without(iter[D], m.deleted), m.files)
  BY DEF IndexFilesAfter, FoldLeft, MapThenFoldSet
<1>2. n \in Nat /\ D = 1..n /\ \A i \in 1..n : m.renames[i] \in Renames
  OBVIOUS
<1>3. ASSUME NEW f \in A, NEW r \in Renames PROVE Carry(f, r) \in A
  <2> DEFINE rest == Without(f, {r.from})
             v == f[r.from]
  <2>1. rest \in FileMaps
    BY FileMapsClosed
  <2>2. CASE r.from \in DOMAIN f /\ r.to \notin DOMAIN m.files
    <3>1. v \in Contents /\ r.to \in Paths
      BY <2>2, FileMapsClosed DEF Renames
    <3> HIDE DEF rest, v
    <3>2. Overlay(rest, [x \in {r.to} |-> v]) \in FileMaps
      BY <2>1, <3>1, FileMapsClosed
    <3> QED BY <2>2, <3>2 DEF rest, v
  <2> QED BY <2>1, <2>2
<1> HIDE DEF Carry, A, n
<1>4. g \in [(1..n) \X A -> A]
  BY <1>2, <1>3
<1>5. \E f : IsIter(f)
  <2> HIDE DEF g
  <2>1. PICK f \in [SUBSET (1..n) -> A] : FoldsIn(f, n, A, files, g)
    <3>1. files \in A
      BY DEF A
    <3> QED BY <1>2, <1>4, <3>1, FoldFound
  <2>2. \A i \in 1..n, a \in A : g[<<i, a>>] = Carry(a, m.renames[i])
    BY DEF g
  <2>3. \A t \in SUBSET D :
            f[t] = IF t = {} THEN files ELSE Carry(f[t \ {Max(t)}], m.renames[Max(t)])
    BY <1>2, <2>1, <2>2 DEF FoldsIn
  <2>4. IsIter(f)
    <3> HIDE DEF D
    <3>1. f \in [SUBSET D -> A]
      BY <1>2, <2>1
    <3> QED BY <2>3, <3>1
  <2> QED BY <2>4
<1>6. IsIter(iter)
  <2> HIDE DEF IsIter
  <2> QED BY <1>5
<1> HIDE DEF iter, g
<1>7. iter[{}] \in A
  BY <1>6 DEF A
<1>8. ASSUME NEW k \in 0..(n - 1), iter[1..k] \in A PROVE iter[1..(k + 1)] \in A
  <2>1. /\ 1..(k + 1) \in SUBSET D /\ 1..(k + 1) # {} /\ Max(1..(k + 1)) = k + 1
        /\ (1..(k + 1)) \ {k + 1} = 1..k /\ m.renames[k + 1] \in Renames
    BY <1>2, PartOf
  <2>2. iter[1..(k + 1)] = Carry(iter[1..k], m.renames[k + 1])
    BY <1>6, <2>1
  <2> QED BY <1>3, <1>8, <2>1, <2>2
<1>9. iter[D] \in A
  BY <1>2, <1>7, <1>8, FoldStays
<1> DEFINE carried == Without(iter[D], m.deleted)
<1>10. carried \in FileMaps
  BY <1>9, FileMapsClosed DEF A
<1> HIDE DEF carried
<1> QED BY <1>1, <1>10, OverlayMaps DEF carried

\* A queue has a last event.
LEMMA LastObservedType ==
    ASSUME NEW E, \A e \in E : e.at \in Nat, NEW q \in Seq(E), q # <<>>
    PROVE  LastObservedAt(q) \in Nat
<1> DEFINE n == Len(q) - 1
           Latest(k, i) == \A j \in 1..(k + 1) : q[j].at <= q[i].at
           T == {k \in 0..n : \E i \in 1..(k + 1) : Latest(k, i)}
<1>1. n \in Nat /\ DOMAIN q = 1..(n + 1) /\ \A i \in 1..(n + 1) : q[i].at \in Nat
  OBVIOUS
<1> HIDE DEF n
<1>2. 0 \in T
  <2>1. 1 \in 1..(0 + 1) /\ \A j \in 1..(0 + 1) : j = 1
    OBVIOUS
  <2>2. Latest(0, 1)
    BY <1>1, <2>1
  <2> QED BY <1>1, <2>1, <2>2
<1>3. ASSUME NEW k \in 0..(n - 1), k \in T PROVE k + 1 \in T
  <2> DEFINE x == k + 1
             y == x + 1
  <2>1. /\ x \in 0..n /\ y \in 1..y /\ y \in 1..(n + 1) /\ 1..y = (1..x) \cup {y}
        /\ \A j \in 1..x : j \in 1..(n + 1)
    BY <1>1
  <2>2. PICK i \in 1..x : \A j \in 1..x : q[j].at <= q[i].at
    BY <1>3
  <2> HIDE DEF x, y
  <2>3. CASE q[y].at <= q[i].at
    <3>1. i \in 1..y /\ \A j \in 1..y : q[j].at <= q[i].at
      BY <2>1, <2>2, <2>3
    <3> QED BY <2>1, <3>1 DEF x, y
  <2>4. CASE ~(q[y].at <= q[i].at)
    <3>1. ASSUME NEW j \in 1..y PROVE q[j].at <= q[y].at
      <4>1. q[i].at \in Nat /\ q[y].at \in Nat /\ q[j].at \in Nat
        BY <1>1, <2>1
      <4>2. q[j].at <= q[i].at \/ j = y
        BY <2>1, <2>2
      <4> QED BY <2>4, <4>1, <4>2
    <3> QED BY <2>1, <3>1 DEF x, y
  <2> QED BY <2>3, <2>4
<1> HIDE DEF T
<1>4. n \in T
  <2>1. \A k \in 0..n : k \in T
    BY <1>1, <1>2, <1>3, CountUp
  <2> QED BY <1>1, <2>1
<1>5. PICK i \in 1..(n + 1) : \A j \in 1..(n + 1) : q[j].at <= q[i].at
  BY <1>4 DEF T
<1> DEFINE times == {q[j].at : j \in DOMAIN q}
<1>6. \E t \in times : \A u \in times : u <= t
  BY <1>1, <1>5
<1>7. LastObservedAt(q) \in times
  <2> HIDE DEF times
  <2>1. LastObservedAt(q) = CHOOSE t \in times : \A u \in times : u <= t
    BY DEF LastObservedAt, times
  <2> QED BY <1>6, <2>1, Zenon
<1> QED BY <1>1, <1>7

(***************************************************************************)
(* Types of the queue, the plan, the manifests and the local index.        *)
(***************************************************************************)
\* A rename event names the path the file had.
Observed == {e \in Events : e.type = "rename" => e.prev \in Paths}
Plans == [changes : SUBSET Paths, deleted : SUBSET Paths, renames : Seq(Renames)]
Indexes == [full : SnapshotIds \cup {NoId}, inc : SnapshotIds \cup {NoId}, files : FileMaps]
Rows == [id : SnapshotIds, type : Kinds, parent : SnapshotIds \cup {NoId}, createdAt : Nat,
         blobs : SUBSET Contents]

QueuesOK == {queue, queueDisk} \subseteq Seq(Observed) /\ missed \subseteq Paths
LocalsOK == snap \in Seq(Observed) /\ plan \in Plans /\ cursor \in Nat /\ man \in Manifest
StoredOK == index \in Indexes /\ Values(manifests) \subseteq Manifest /\ rows \subseteq Rows

TypesInv == StoreTypeOK /\ QueuesOK /\ LocalsOK /\ StoredOK

LEMMA PlanDeleting ==
    ASSUME NEW b \in Plans, NEW d \in SUBSET Paths, NEW c \in SUBSET Paths
    PROVE  [b EXCEPT !.deleted = d, !.changes = c] \in Plans
BY DEF Plans

LEMMA PlanRenaming ==
    ASSUME NEW b \in Plans, NEW r \in Seq(Renames), NEW c \in SUBSET Paths
    PROVE  [b EXCEPT !.renames = r, !.changes = c] \in Plans
BY DEF Plans

LEMMA BucketType ==
    ASSUME NEW seq \in Seq(Observed)
    PROVE  Bucket(seq) \in Plans
<1>1. EmptyBuckets \in Plans
  BY DEF EmptyBuckets, Plans
<1>2. ASSUME NEW b \in Plans, NEW e \in Observed PROVE BucketEvent(b, e) \in Plans
  <2>0. /\ b.changes \subseteq Paths /\ b.deleted \subseteq Paths /\ b.renames \in Seq(Renames)
        /\ e.path \in Paths /\ e.type \in {"create", "modify", "delete", "rename"}
        /\ e.type = "rename" => e.prev \in Paths
        /\ \A i \in DOMAIN b.renames : b.renames[i] \in Renames
    BY DEF Plans, Observed, Events
  <2>1. CASE e.type \in {"create", "modify"}
    <3> DEFINE d == b.deleted \ {e.path}
               c == b.changes \cup {e.path}
    <3>1. d \in SUBSET Paths /\ c \in SUBSET Paths
      BY <2>0
    <3>2. BucketEvent(b, e) = [b EXCEPT !.deleted = d, !.changes = c]
      BY <2>1 DEF BucketEvent
    <3> HIDE DEF d, c
    <3>3. [b EXCEPT !.deleted = d, !.changes = c] \in Plans
      BY <3>1, PlanDeleting
    <3> QED BY <3>2, <3>3
  <2>2. CASE e.type = "delete"
    <3> DEFINE froms == {b.renames[i].from : i \in {j \in DOMAIN b.renames :
                                                      b.renames[j].to = e.path}}
               kept == Filter(b.renames, {r \in Range(b.renames) : r.to # e.path})
    <3>1. froms \subseteq Paths
      BY <2>0 DEF Renames
    <3>2. kept \in Seq(Renames)
      BY <2>0, FilterType
    <3>3. BucketEvent(b, e) = [changes |-> b.changes \ {e.path},
                               deleted |-> b.deleted \cup {e.path} \cup froms,
                               renames |-> kept]
      BY <2>2 DEF BucketEvent
    <3> HIDE DEF froms, kept
    <3> QED BY <2>0, <3>1, <3>2, <3>3 DEF Plans
  <2>3. CASE e.type = "rename"
    <3> DEFINE set == SetRename(b.renames, e.prev, e.path)
               entry == [from |-> e.prev, to |-> e.path]
               here == {i \in DOMAIN b.renames : b.renames[i].from = e.prev}
    <3>1. entry \in Renames
      BY <2>0, <2>3 DEF Renames
    <3>2. set \in Seq(Renames)
      <4>1. CASE here = {}
        <5>1. set = Append(b.renames, entry)
          BY <4>1 DEF SetRename
        <5> QED BY <2>0, <3>1, <5>1
      <4>2. CASE here # {}
        <5>1. set = [i \in DOMAIN b.renames |->
                        IF b.renames[i].from = e.prev THEN entry ELSE b.renames[i]]
          BY <4>2 DEF SetRename
        <5>2. DOMAIN b.renames = 1..Len(b.renames) /\ Len(b.renames) \in Nat
          BY <2>0
        <5>3. set \in [1..Len(b.renames) -> Renames]
          BY <2>0, <3>1, <5>1, <5>2
        <5> QED BY <5>2, <5>3
      <4> QED BY <4>1, <4>2
    <3> DEFINE c == IF e.path \in b.deleted THEN b.changes ELSE b.changes \cup {e.path}
    <3>3. c \in SUBSET Paths
      BY <2>0
    <3> HIDE DEF set
    <3>4. BucketEvent(b, e) = [b EXCEPT !.renames = set, !.changes = c]
      BY <2>3 DEF BucketEvent, set
    <3> HIDE DEF c
    <3>5. [b EXCEPT !.renames = set, !.changes = c] \in Plans
      BY <3>2, <3>3, PlanRenaming
    <3> QED BY <3>4, <3>5
  <2> QED BY <2>0, <2>1, <2>2, <2>3
<1> QED BY <1>1, <1>2, BucketStays

LEMMA NothingTyped ==
    /\ EmptyBuckets \in Plans /\ Blank \in Manifest /\ NoIndex \in Indexes
    /\ <<>> \in Seq(Observed) /\ Values(EmptyMap) = {}
<1>1. Blank \in Manifest
  <2>1. SnapshotId(0, Minute, "full") \in SnapshotIds
    BY SnapshotIdType DEF Kinds
  <2> QED BY <2>1, EmptyFileMap DEF Blank, FullManifest, Manifest, Kinds
<1>2. NoIndex \in Indexes
  BY EmptyFileMap DEF NoIndex, Indexes
<1> QED BY <1>1, <1>2 DEF EmptyBuckets, Plans, EmptyMap, Values

LEMMA InitTypesInv == Init => TypesInv
<1> SUFFICES ASSUME Init PROVE TypesInv
  OBVIOUS
<1>1. StoreTypeOK
  BY InitStoreTypeOK
<1>2. QueuesOK
  BY NothingTyped DEF Init, QueuesOK
<1>3. LocalsOK
  BY NothingTyped DEF Init, RunInit, LocalsOK
<1>4. StoredOK
  BY NothingTyped DEF Init, StoredOK
<1> QED BY <1>1, <1>2, <1>3, <1>4 DEF TypesInv

LEMMA RunOverLocals == RunOver => LocalsOK'
BY NothingTyped DEF RunOver, LocalsOK

\* Every edit dispatches an event of its kind, about a path of the vault.
LEMMA AnEdit ==
    ASSUME UserEdit
    PROVE  \E type, path, prev, after :
               /\ Edit(type, path, prev, after)
               /\ type \in {"create", "modify", "delete", "rename"} /\ path \in Paths
               /\ prev \in Paths \cup {NoPath} /\ (type = "rename" => prev \in Paths)
<1> DEFINE Good(type, path, prev, after) ==
               /\ Edit(type, path, prev, after)
               /\ type \in {"create", "modify", "delete", "rename"} /\ path \in Paths
               /\ prev \in Paths \cup {NoPath} /\ (type = "rename" => prev \in Paths)
<1>1. \A p \in Paths, c \in Contents :
          Create(p, c) \/ Modify(p, c) => \E type, path, prev, after : Good(type, path, prev, after)
  BY DEF Create, Modify
<1>2. \A p \in Paths : Delete(p) => \E type, path, prev, after : Good(type, path, prev, after)
  BY DEF Delete
<1>3. \A p, q \in Paths :
          Rename(p, q) => \E type, path, prev, after : Good(type, path, prev, after)
  BY DEF Rename
<1>4. \E type, path, prev, after : Good(type, path, prev, after)
  <2> HIDE DEF Good
  <2> QED BY <1>1, <1>2, <1>3 DEF UserEdit
<1> QED BY <1>4

LEMMA EditQueues ==
    ASSUME TypesInv, UserEdit
    PROVE  QueuesOK'
<1>1. PICK type, path, prev, after :
         /\ Edit(type, path, prev, after)
         /\ type \in {"create", "modify", "delete", "rename"} /\ path \in Paths
         /\ prev \in Paths \cup {NoPath} /\ (type = "rename" => prev \in Paths)
  BY AnEdit
<1> DEFINE e == [type |-> type, path |-> path, prev |-> prev, at |-> clock + EventGap]
<1>2. e \in Observed
  <2>1. clock + EventGap \in Nat
    BY GapTypes DEF TypesInv, StoreTypeOK
  <2> QED BY <1>1, <2>1 DEF Observed, Events
<1>3. /\ queue' = queue \/ queue' = Enqueue(queue, e, DedupWindow)
      /\ queueDisk' = queueDisk /\ missed' \subseteq missed \cup Paths
  BY <1>1 DEF Edit
<1> HIDE DEF e
<1>4. Enqueue(queue, e, DedupWindow) \in Seq(Observed)
  BY <1>2 DEF Enqueue, TypesInv, QueuesOK
<1> QED BY <1>3, <1>4 DEF TypesInv, QueuesOK

LEMMA PruneType ==
    ASSUME NEW q \in Seq(Observed), NEW t
    PROVE  Prune(q, t) \in Seq(Observed)
BY FilterType DEF Prune

LEMMA NextQueues ==
    ASSUME TypesInv, [Next]_vars
    PROVE  QueuesOK'
<1>1. CASE UserEdit
  BY <1>1, EditQueues
<1>2. CASE SkipInc \/ FinishRun
  <2>1. /\ \E t : queue' = Prune(queue, t)
        /\ queueDisk' = queue' /\ missed' \subseteq missed
    BY <1>2 DEF SkipInc, FinishRun, CommitWindow
  <2> QED BY <2>1, PruneType DEF TypesInv, QueuesOK
<1>3. CASE Stop
  <2>1. queue' = queueDisk /\ queueDisk' = queueDisk /\ missed' \subseteq missed \cup Paths
    BY <1>3 DEF Stop, Touched
  <2> QED BY <2>1 DEF TypesInv, QueuesOK
<1>4. CASE PersistQueue
  BY <1>4 DEF PersistQueue, TypesInv, QueuesOK, ghosts
<1>5. CASE \/ StartFull \/ TickInc \/ ManualInc \/ FailRun \/ Load
           \/ (\E id \in DOMAIN manifests : LoseManifest(id)) \/ CorruptRows \/ UNCHANGED vars
  <2>1. UNCHANGED <<queue, queueDisk, missed>>
    BY <1>5 DEF StartFull, TickInc, ManualInc, StartInc, FailRun, Load, LoseManifest,
        CorruptRows, vars, ghosts
  <2> QED BY <2>1 DEF TypesInv, QueuesOK
<1>6. CASE RunStep /\ ~SkipInc /\ ~FinishRun
  <2>1. UNCHANGED <<queue, queueDisk>> /\ missed' \subseteq missed
    BY <1>6 DEF RunStep, WalkChain, LoadQueue, Reconcile, StampInc, ListVault, ReadFile,
        ReadVanished, BuildFull, BuildInc, UploadBlob, PutManifest, AppendRow, PutHead,
        SaveLocalIndex, ghosts
  <2> QED BY <2>1 DEF TypesInv, QueuesOK
<1> QED BY <1>1, <1>2, <1>3, <1>4, <1>5, <1>6 DEF Next

LEMMA BuildLocals ==
    ASSUME TypesInv, BuildFull \/ BuildInc
    PROVE  LocalsOK'
<1>1. UNCHANGED <<snap, plan>>
  BY DEF BuildFull, BuildInc
<1>2. man' \in Manifest
  <2>0. createdAt \in Nat /\ read \in FileMaps
    BY DEF TypesInv, StoreTypeOK
  <2>1. CASE BuildFull
    <3>1. SnapshotId(createdAt, Minute, "full") \in SnapshotIds
      BY <2>0, SnapshotIdType DEF Kinds
    <3> QED BY <2>0, <2>1, <3>1 DEF BuildFull, FullManifest, Manifest, Kinds
  <2>2. CASE BuildInc
    <3>1. SnapshotId(createdAt, Minute, "inc") \in SnapshotIds
      BY <2>0, SnapshotIdType DEF Kinds
    <3>2. IncFiles \in FileMaps
      BY <2>0, FileMapsClosed DEF IncFiles, ChangedFiles
    <3>3. LastId(index) \in SnapshotIds \cup {NoId}
      BY DEF TypesInv, StoreTypeOK, LastId
    <3>4. plan.deleted \subseteq Paths /\ plan.renames \in Seq(Renames)
      BY DEF TypesInv, LocalsOK, Plans
    <3> QED BY <2>0, <2>2, <3>1, <3>2, <3>3, <3>4 DEF BuildInc, IncManifest, Manifest, Kinds
  <2> QED BY <2>1, <2>2
<1>3. cursor' \in Nat
  <2>1. createdAt \in Nat /\ snap \in Seq(Observed) /\ \A e \in Observed : e.at \in Nat
    BY DEF TypesInv, StoreTypeOK, LocalsOK, Observed, Events
  <2>2. snap # <<>> => LastObservedAt(snap) \in Nat
    BY <2>1, LastObservedType
  <2> QED BY <2>1, <2>2 DEF BuildFull, BuildInc
<1> QED BY <1>1, <1>2, <1>3 DEF TypesInv, LocalsOK

LEMMA ReconcilePlanType ==
    ASSUME TypesInv
    PROVE  ReconcilePlan \in Plans
<1> DEFINE b == Bucket(snap)
           merged == (Scanned \cup {queue[i].path : i \in DOMAIN queue})
                         \ RenameEnds(b.renames)
<1>1. b \in Plans
  BY BucketType DEF TypesInv, LocalsOK
<1>2. DOMAIN vault \subseteq Paths /\ DOMAIN index.files \subseteq Paths
  BY FileMapsFacts DEF TypesInv, StoreTypeOK, StoredOK, Indexes
<1>3. \A i \in DOMAIN queue : queue[i].path \in Paths
  <2>1. queue \in Seq(Observed)
    BY DEF TypesInv, QueuesOK
  <2>2. \A i \in DOMAIN queue : queue[i] \in Observed
    BY <2>1
  <2> QED BY <2>2 DEF Observed, Events
<1>4. merged \subseteq Paths
  BY <1>2, <1>3 DEF Scanned
<1>5. ReconcilePlan = [changes |-> merged \cap DOMAIN vault,
                       deleted |-> b.deleted \cup (merged \ DOMAIN vault),
                       renames |-> b.renames]
  BY DEF ReconcilePlan
<1> HIDE DEF b, merged
<1> QED BY <1>1, <1>4, <1>5 DEF Plans

LEMMA NextLocals ==
    ASSUME TypesInv, [Next]_vars
    PROVE  LocalsOK'
<1>1. CASE RunOver
  BY <1>1, RunOverLocals
<1>2. CASE BuildFull \/ BuildInc
  BY <1>2, BuildLocals
<1>3. CASE LoadQueue /\ ~RunOver
  <2>1. /\ snap' = queueDisk /\ UNCHANGED <<man, cursor>>
        /\ plan' = plan \/ plan' = Bucket(queueDisk)
    BY <1>3 DEF LoadQueue
  <2>2. queueDisk \in Seq(Observed)
    BY DEF TypesInv, QueuesOK
  <2> QED BY <2>1, <2>2, BucketType DEF TypesInv, LocalsOK
<1>4. CASE Reconcile /\ ~RunOver
  <2>1. UNCHANGED <<snap, man, cursor>> /\ plan' = ReconcilePlan
    BY <1>4 DEF Reconcile
  <2>2. ReconcilePlan \in Plans
    BY ReconcilePlanType
  <2> QED BY <2>1, <2>2 DEF TypesInv, LocalsOK
<1>5. CASE UserEdit
  <2>1. UNCHANGED <<snap, plan, man, cursor>>
    BY <1>5 DEF UserEdit, Create, Modify, Delete, Rename, Edit, run
  <2> QED BY <2>1 DEF TypesInv, LocalsOK
<1>6. CASE \/ StartFull \/ TickInc \/ ManualInc \/ PersistQueue \/ Load
           \/ (\E id \in DOMAIN manifests : LoseManifest(id)) \/ CorruptRows \/ UNCHANGED vars
  <2>1. UNCHANGED <<snap, plan, man, cursor>>
    BY <1>6 DEF StartFull, TickInc, ManualInc, StartInc, PersistQueue, Load, LoseManifest,
        CorruptRows, vars, run
  <2> QED BY <2>1 DEF TypesInv, LocalsOK
<1>7. CASE RunStep /\ ~RunOver /\ ~BuildFull /\ ~BuildInc /\ ~LoadQueue /\ ~Reconcile
  <2>1. UNCHANGED <<snap, plan, man, cursor>>
    BY <1>7 DEF RunStep, WalkChain, StampInc, ListVault, ReadFile, ReadVanished, SkipInc,
        UploadBlob, PutManifest, AppendRow, PutHead, SaveLocalIndex, FinishRun, run
  <2> QED BY <2>1 DEF TypesInv, LocalsOK
<1>8. CASE FailRun \/ Stop
  BY <1>1, <1>8 DEF FailRun, Stop
<1> QED BY <1>1, <1>2, <1>3, <1>4, <1>5, <1>6, <1>7, <1>8 DEF Next

LEMMA NextStored ==
    ASSUME TypesInv, [Next]_vars
    PROVE  StoredOK'
<1>1. CASE PutManifest
  <2>1. /\ manifests' = Overlay(manifests, [x \in {man.id} |-> man])
        /\ UNCHANGED <<index, rows>>
    BY <1>1 DEF PutManifest
  <2>2. Values(manifests') \subseteq Values(manifests) \cup {man}
    BY <2>1 DEF Overlay, Values
  <2> QED BY <2>1, <2>2 DEF TypesInv, StoredOK, LocalsOK
<1>2. CASE AppendRow
  <2>1. /\ UNCHANGED <<index, manifests>>
        /\ \A r \in rows' : r \in rows \/ \E m \in Values(manifests) \cup {man} : r = RowOf(m)
    BY <1>2 DEF AppendRow
  <2>2. ASSUME NEW m \in Manifest PROVE RowOf(m) \in Rows
    <3>1. Values(m.files) \subseteq Contents
      BY FileMapsFacts DEF Manifest, Values
    <3> QED BY <3>1 DEF RowOf, Rows, Manifest
  <2>3. Values(manifests) \cup {man} \subseteq Manifest /\ rows \subseteq Rows
    BY DEF TypesInv, StoredOK, LocalsOK
  <2>4. rows' \subseteq Rows
    BY <2>1, <2>2, <2>3
  <2> QED BY <2>1, <2>4 DEF TypesInv, StoredOK
<1>3. CASE SaveLocalIndex
  <2>1. index' = IndexAfter(index, man) /\ UNCHANGED <<manifests, rows>>
    BY <1>3 DEF SaveLocalIndex, remote
  <2>2. /\ man.id \in SnapshotIds /\ man.files \in FileMaps /\ man.renames \in Seq(Renames)
        /\ index.files \in FileMaps /\ index.full \in SnapshotIds \cup {NoId}
    BY DEF TypesInv, LocalsOK, StoredOK, Manifest, Indexes
  <2>3. IndexFilesAfter(index.files, man) \in FileMaps
    BY <2>2, IndexFilesType
  <2>4. index' \in Indexes
    BY <2>1, <2>2, <2>3 DEF IndexAfter, Indexes
  <2> QED BY <2>1, <2>4 DEF TypesInv, StoredOK
<1>4. CASE \E id \in DOMAIN manifests : LoseManifest(id)
  <2>1. /\ Values(manifests') \subseteq Values(manifests)
        /\ UNCHANGED <<index, rows>>
    BY <1>4, WithoutValues DEF LoseManifest
  <2> QED BY <2>1 DEF TypesInv, StoredOK
<1>5. CASE UserEdit
  <2>1. UNCHANGED <<index, manifests, rows>>
    BY <1>5 DEF UserEdit, Create, Modify, Delete, Rename, Edit, remote
  <2> QED BY <2>1 DEF TypesInv, StoredOK
<1>6. CASE RunStep /\ ~PutManifest /\ ~AppendRow /\ ~SaveLocalIndex
  <2>1. UNCHANGED <<index, manifests, rows>>
    BY <1>6 DEF RunStep, WalkChain, LoadQueue, Reconcile, StampInc, ListVault, ReadFile,
        ReadVanished, BuildFull, BuildInc, SkipInc, UploadBlob, PutHead, FinishRun, remote
  <2> QED BY <2>1 DEF TypesInv, StoredOK
<1>7. CASE \/ PersistQueue \/ StartFull \/ TickInc \/ ManualInc \/ FailRun \/ Stop \/ Load
           \/ CorruptRows \/ UNCHANGED vars
  <2>1. UNCHANGED <<index, manifests, rows>>
    BY <1>7 DEF PersistQueue, StartFull, TickInc, ManualInc, StartInc, FailRun, Stop, Load,
        CorruptRows, vars, remote
  <2> QED BY <2>1 DEF TypesInv, StoredOK
<1> QED BY <1>1, <1>2, <1>3, <1>4, <1>5, <1>6, <1>7 DEF Next

LEMMA NextStoreTypeOK == StoreTypeOK /\ [Next]_vars => StoreTypeOK'
<1>1. StoreTypeOK /\ UNCHANGED vars => StoreTypeOK'
  BY DEF StoreTypeOK, vars, memory, remote, run, counts, ghosts
<1> QED
  BY <1>1, EditStoreType, StartStoreType, QueueStoreType, ReadStoreType,
     BuildStoreType, CommitStoreType, EndStoreType, FaultStoreType
  DEF Next, RunStep

LEMMA NextTypesInv == TypesInv /\ [Next]_vars => TypesInv'
BY NextStoreTypeOK, NextQueues, NextLocals, NextStored DEF TypesInv

\* Everything has its type: what the vault's events make of the queue and of
\* its file, what a run makes of them, and what it stores
\* (EventQueue, bucketQueueEntries, ManifestBuilder, SnapshotIndex).
THEOREM TypesCorrect == Spec => []TypeOK
<1>1. TypesInv => TypeOK
  <2> SUFFICES ASSUME TypesInv PROVE QueueTypeOK
    BY DEF TypesInv, TypeOK
  <2>1. Observed \subseteq Events
    BY DEF Observed
  <2>2. \A q \in Seq(Observed) : q \in Seq(Events)
    BY <2>1
  <2>3. {queue, queueDisk, snap} \subseteq Seq(Events)
    BY <2>2 DEF TypesInv, QueuesOK, LocalsOK
  <2> QED BY <2>3 DEF TypesInv, QueuesOK, LocalsOK, StoredOK, QueueTypeOK, Plans, Indexes, Rows
<1> QED BY InitTypesInv, NextTypesInv, <1>1, PTL DEF Spec

(***************************************************************************)
(* The chain.  What has been walked, or built since, reaches a full backup *)
(* until something is lost, which happens while Obsidian is closed.        *)
(***************************************************************************)
Reaching(id) == ReachesFull(manifests, id)

FinitelyMany == IsFiniteSet(DOMAIN manifests)
Intact(id) == ChainIntact(manifests, id, MaxDepth)

\* Phases of an incremental that has chosen its parent and not built on it.
Choosing == {"queue", "scan", "stamp", "read"}

\* Nothing was lost, or the session has not given a chain up.
Trusted == losses = 0 \/ ~gaveUp

Verified ==
    /\ (chainVerified \/ pc = "walk") => index.full # NoId
    /\ (chainVerified /\ loaded /\ Trusted) => Reaching(LastId(index))
    /\ (kind = "inc" /\ pc \in Choosing /\ Trusted) => Reaching(LastId(index))

InChain ==
    /\ pc \in {"blobs", "row", "head", "index", "cursor"} => man.type = kind
    /\ (pc \in {"blobs", "row", "head", "index"} /\ man.type = "inc" /\ Trusted)
           => Reaching(man.parent)
    /\ (pc \in Committing /\ (man.type = "full" \/ Trusted)) => Reaching(man.id)
    /\ pc \in {"index", "cursor"} => committed /\ head = man.id

Stored ==
    /\ losses = 0 => \A id \in DOMAIN manifests : Reaching(id)
    /\ committed => loaded /\ head # NoId
    /\ (committed /\ Trusted) => Reaching(head)

\* Before the first commit of a session the chain is the one it walked.
Walked ==
    (~committed /\ ~gaveUp) =>
        /\ (chainVerified /\ loaded) => Intact(LastId(index))
        /\ (kind = "inc" /\ pc \in Choosing) => Intact(LastId(index))
        /\ (pc \in {"blobs", "row", "head"} /\ man.type = "inc") => Intact(man.parent)

LossesBounded == losses <= MaxLosses

ChainInv == FinitelyMany /\ Verified /\ InChain /\ Stored /\ Walked /\ LossesBounded

Base == TypesInv /\ TimeInv /\ CommitInv

LEMMA LossTypes ==
    ASSUME TypesInv
    PROVE  losses \in Nat /\ MaxLosses \in Nat
BY SnapshotCommitAssumption DEF TypesInv, StoreTypeOK

LEMMA InitChainInv == Init => ChainInv
<1> SUFFICES ASSUME Init PROVE ChainInv
  OBVIOUS
<1>1. DOMAIN manifests = {} /\ losses = 0 /\ pc = "idle" /\ ~committed /\ ~chainVerified
  BY DEF Init, RunInit, EmptyMap
<1>2. FinitelyMany
  BY <1>1, FS_EmptySet DEF FinitelyMany
<1>3. LossesBounded
  BY <1>1, SnapshotCommitAssumption DEF LossesBounded
<1> QED BY <1>1, <1>2, <1>3
        DEF ChainInv, Verified, InChain, Stored, Walked, Choosing, Committing

\* The chain the next incremental builds on, when nothing was lost.
LEMMA NothingLost ==
    ASSUME Base, ChainInv, losses = 0, index.full # NoId
    PROVE  Reaching(LastId(index))
BY DEF Base, ChainInv, CommitInv, InFlight, Stored, LastId

LEMMA BoundStays ==
    ASSUME LossesBounded, Base, [Next]_vars
    PROVE  LossesBounded'
<1>0. losses \in Nat /\ MaxLosses \in Nat
  BY LossTypes DEF Base
<1>1. CASE (\E id \in DOMAIN manifests : LoseManifest(id)) \/ CorruptRows
  <2>1. losses' = losses + 1 /\ losses < MaxLosses
    BY <1>1 DEF LoseManifest, CorruptRows
  <2> QED BY <1>0, <2>1 DEF LossesBounded
<1>2. CASE ~((\E id \in DOMAIN manifests : LoseManifest(id)) \/ CorruptRows)
  <2>1. CASE UserEdit
    BY <2>1 DEF UserEdit, Create, Modify, Delete, Rename, Edit, LossesBounded
  <2>2. CASE RunStep
    BY <2>2 DEF RunStep, WalkChain, LoadQueue, Reconcile, StampInc, ListVault, ReadFile,
        ReadVanished, BuildFull, BuildInc, SkipInc, UploadBlob, PutManifest, AppendRow, PutHead,
        SaveLocalIndex, FinishRun, counts, LossesBounded
  <2> QED BY <1>2, <2>1, <2>2
          DEF Next, PersistQueue, StartFull, TickInc, ManualInc, StartInc, FailRun, Stop, Load,
              vars, counts, LossesBounded
<1> QED BY <1>1, <1>2

\* A run starts, or has walked the chain.
LEMMA RunChoosesChain ==
    ASSUME Base, ChainInv, LossesBounded',
           UNCHANGED <<manifests, head, index, losses, committed, loaded>>, loaded,
           chainVerified' \/ pc' = "walk" => index.full # NoId,
           \/ UNCHANGED <<chainVerified, gaveUp>> /\ pc' = "list"
           \/ UNCHANGED <<chainVerified, gaveUp>> /\ pc' = "queue" /\ chainVerified
           \/ UNCHANGED <<chainVerified, gaveUp>> /\ pc' = "walk"
           \/ UNCHANGED gaveUp /\ pc' = "queue" /\ Reaching(LastId(index)) /\ Intact(LastId(index))
           \/ gaveUp' /\ pc' = "list" /\ index.full # NoId
    PROVE  ChainInv'
<1> USE DEF ChainInv, FinitelyMany, Verified, InChain, Stored, Walked, Reaching, Intact, Trusted,
            Choosing, Committing
<1>1. CASE UNCHANGED <<chainVerified, gaveUp>> /\ pc' = "list"
  BY <1>1
<1>2. CASE UNCHANGED <<chainVerified, gaveUp>> /\ pc' = "queue" /\ chainVerified
  BY <1>2
<1>3. CASE UNCHANGED <<chainVerified, gaveUp>> /\ pc' = "walk"
  BY <1>3
<1>4. CASE UNCHANGED gaveUp /\ pc' = "queue" /\ Reaching(LastId(index)) /\ Intact(LastId(index))
  BY <1>4
<1>5. CASE gaveUp' /\ pc' = "list" /\ index.full # NoId
  BY <1>5, NothingLost
<1> QED BY <1>1, <1>2, <1>3, <1>4, <1>5

\* The run returns or throws.
LEMMA RunEnds ==
    ASSUME Base, ChainInv, LossesBounded', RunOver,
           UNCHANGED <<manifests, head, index, losses, committed, loaded, chainVerified, gaveUp>>
    PROVE  ChainInv'
BY DEF ChainInv, FinitelyMany, Verified, InChain, Stored, Walked, Reaching, Intact, Trusted,
       Choosing, RunOver, Committing

LEMMA RunGoesOn ==
    ASSUME Base, ChainInv, LossesBounded',
           UNCHANGED <<manifests, head, index, losses, committed, loaded, chainVerified, kind,
                       gaveUp>>,
           \/ UNCHANGED <<pc, man>>
           \/ pc \in {"queue", "scan", "stamp"} /\ pc' \in {"scan", "stamp", "read"}
           \/ pc = "list" /\ pc' = "read"
           \/ pc = "row" /\ pc' = "head" /\ man' = man
    PROVE  ChainInv'
BY DEF ChainInv, FinitelyMany, Verified, InChain, Stored, Walked, Reaching, Intact, Trusted,
       Choosing, Committing, Base, CommitInv, InFlight

LEMMA RunEndsStep ==
    ASSUME Base, ChainInv, LossesBounded', RunOver,
           \/ LoadQueue \/ Reconcile \/ SkipInc \/ FinishRun \/ FailRun
           \/ \E p \in Paths : ReadVanished(p)
    PROVE  ChainInv'
<1>1. UNCHANGED <<manifests, head, index, losses, committed, loaded, chainVerified, gaveUp>>
  BY DEF LoadQueue, Reconcile, SkipInc, FinishRun, FailRun, ReadVanished, RunOver, remote, memory,
     counts, ghosts
<1> QED BY <1>1, RunEnds

LEMMA StartChain ==
    ASSUME Base, ChainInv, LossesBounded', StartFull \/ TickInc \/ ManualInc \/ WalkChain
    PROVE  ChainInv'
<1>1. UNCHANGED <<manifests, head, index, losses, committed, loaded>>
  BY DEF StartFull, TickInc, ManualInc, StartInc, WalkChain, remote, counts, ghosts
<1>2. CASE StartFull
  <2>1. UNCHANGED <<chainVerified, gaveUp>> /\ pc' = "list" /\ loaded
    BY <1>2 DEF StartFull, EnterFull, memory, ghosts
  <2> QED BY <1>1, <2>1, RunChoosesChain DEF ChainInv, Verified
<1>3. CASE TickInc \/ ManualInc
  <2>1. /\ UNCHANGED <<chainVerified, gaveUp>> /\ loaded
        /\ \/ pc' = "list"
           \/ index.full # NoId /\ pc' = "queue" /\ chainVerified
           \/ index.full # NoId /\ pc' = "walk"
    BY <1>3 DEF TickInc, ManualInc, StartInc, EnterFull, ghosts
  <2> QED BY <1>1, <2>1, RunChoosesChain DEF ChainInv, Verified
<1>4. CASE WalkChain
  <2>1. pc = "walk" /\ index.full # NoId /\ loaded
    BY <1>4 DEF WalkChain, ChainInv, Verified, Base, TimeInv
  <2>2. \/ pc' = "list" /\ gaveUp'
        \/ pc' = "queue" /\ UNCHANGED gaveUp /\ Intact(LastId(index))
    BY <1>4 DEF WalkChain, EnterFull, Intact
  <2>3. Intact(LastId(index)) => Reaching(LastId(index))
    BY DEF ChainIntact, Intact, Reaching, ReachesFull
  <2> QED BY <1>1, <2>1, <2>2, <2>3, RunChoosesChain
<1> QED BY <1>2, <1>3, <1>4

LEMMA BuildChain ==
    ASSUME Base, ChainInv, LossesBounded', BuildFull \/ BuildInc
    PROVE  ChainInv'
<1>1. /\ UNCHANGED <<manifests, head, index, losses, committed, loaded, chainVerified, kind,
                     gaveUp>>
      /\ pc = "read" /\ pc' = "blobs"
  BY DEF BuildFull, BuildInc, remote, memory, counts, ghosts
<1>2. \/ kind = "full" /\ man'.type = "full"
      \/ kind = "inc" /\ man'.type = "inc" /\ man'.parent = LastId(index)
  BY DEF BuildFull, BuildInc, FullManifest, IncManifest
<1> QED BY <1>1, <1>2
        DEF ChainInv, FinitelyMany, Verified, InChain, Stored, Walked, Reaching, Intact, Trusted,
            Choosing, Committing

\* A new manifest leaves every chain as it is, and its own is whole.
LEMMA PutManifestExtends ==
    ASSUME Base, FinitelyMany, RunGap >= Minute, PutManifest
    PROVE  /\ Extends(manifests', manifests)
           /\ Cardinality(DOMAIN manifests') = Cardinality(DOMAIN manifests) + 1
           /\ man.id \in DOMAIN manifests' /\ manifests'[man.id] = man
           /\ DOMAIN manifests' = DOMAIN manifests \cup {man.id}
           /\ FinitelyMany' /\ man.id \notin DOMAIN manifests
<1>1. manifests' = Overlay(manifests, [x \in {man.id} |-> man])
  BY DEF PutManifest
<1>2. /\ DOMAIN manifests' = DOMAIN manifests \cup {man.id} /\ manifests'[man.id] = man
      /\ \A id \in DOMAIN manifests : id # man.id => manifests'[id] = manifests[id]
  BY <1>1 DEF Overlay
<1>3. man.id \notin DOMAIN manifests
  BY PutManifestTime DEF Base
<1>4. /\ IsFiniteSet(DOMAIN manifests')
      /\ Cardinality(DOMAIN manifests') = Cardinality(DOMAIN manifests) + 1
      /\ Cardinality(DOMAIN manifests) \in Nat /\ Cardinality(DOMAIN manifests') \in Nat
  BY <1>2, <1>3, FS_AddElement, FS_CardinalityType DEF FinitelyMany
<1>5. NoId \notin DOMAIN manifests'
  BY <1>2, NoIdAssumption DEF Base, TypesInv, StoreTypeOK
<1>6. Extends(manifests', manifests)
  <2>1. Cardinality(DOMAIN manifests) <= Cardinality(DOMAIN manifests')
    BY <1>4
  <2>2. DOMAIN manifests \subseteq DOMAIN manifests'
        /\ \A id \in DOMAIN manifests : manifests'[id] = manifests[id]
    BY <1>2, <1>3
  <2> QED BY <1>4, <1>5, <2>1, <2>2 DEF Extends
<1> QED BY <1>2, <1>3, <1>4, <1>6 DEF FinitelyMany

LEMMA PutManifestReaches ==
    ASSUME Base, ChainInv, RunGap >= Minute, PutManifest
    PROVE  /\ man.type = "full" \/ Trusted => ReachesFull(manifests', man.id)
           /\ \A id : Reaching(id) => ReachesFull(manifests', id)
           /\ \A id : Intact(id) => ChainIntact(manifests', id, MaxDepth)
<1>1. /\ Extends(manifests', manifests)
      /\ Cardinality(DOMAIN manifests') = Cardinality(DOMAIN manifests) + 1
      /\ man.id \in DOMAIN manifests' /\ manifests'[man.id] = man
  BY PutManifestExtends DEF ChainInv
<1>2. /\ \A id : Reaching(id) => ReachesFull(manifests', id)
      /\ \A id : Intact(id) => ChainIntact(manifests', id, MaxDepth)
  <2> DEFINE ms == manifests'
  <2>1. Extends(ms, manifests)
    BY <1>1
  <2> HIDE DEF ms
  <2>2. \A id : Reaching(id) => ReachesFull(ms, id)
    BY <2>1, ReachesKept DEF Reaching
  <2>3. \A id : Intact(id) => ChainIntact(ms, id, MaxDepth)
    BY <2>1, IntactKept DEF Intact
  <2> QED BY <2>2, <2>3 DEF ms
<1>3. pc = "blobs" /\ man.type \in Kinds
  BY DEF PutManifest, Base, TimeInv, Dated
<1>4. ASSUME man.type = "full" \/ Trusted PROVE ReachesFull(manifests', man.id)
  <2> DEFINE ms == manifests'
             id == man.id
  <2>0. /\ Extends(ms, manifests) /\ id \in DOMAIN ms /\ ms[id] = man
        /\ Cardinality(DOMAIN ms) = Cardinality(DOMAIN manifests) + 1
    BY <1>1
  <2> HIDE DEF ms, id
  <2>1. CASE man.type = "full"
    <3>1. Cardinality(DOMAIN ms) \in Nat /\ ms[id].type = "full"
      BY <2>0, <2>1 DEF Extends
    <3>2. 0 \in FullDepths(ms, id)
      BY <2>0, <3>1, FullReaches
    <3> QED BY <3>2 DEF ReachesFull, ms, id
  <2>2. CASE man.type = "inc"
    <3>1. Reaching(man.parent) /\ ms[id].type = "inc" /\ ms[id].parent = man.parent
      BY <1>3, <1>4, <2>0, <2>2 DEF ChainInv, InChain
    <3>2. PICK n : n \in FullDepths(manifests, ms[id].parent)
      BY <3>1 DEF Reaching, ReachesFull
    <3>3. FullDepths(ms, id) = {n + 1}
      BY <2>0, <3>1, <3>2, IncReaches
    <3> QED BY <3>3 DEF ReachesFull, ms, id
  <2> QED BY <1>3, <2>1, <2>2 DEF Kinds
<1> QED BY <1>2, <1>4

LEMMA PutManifestChain ==
    ASSUME Base, ChainInv, RunGap >= Minute, PutManifest, LossesBounded'
    PROVE  ChainInv'
<1>1. /\ UNCHANGED <<head, index, losses, committed, loaded, chainVerified, kind, man, gaveUp>>
      /\ pc = "blobs" /\ pc' = "row"
  BY DEF PutManifest, memory, counts, ghosts
<1>2. /\ \A id : Reaching(id) => Reaching(id)'
      /\ man.type = "full" \/ Trusted => Reaching(man.id)'
      /\ Reaching(LastId(index)) => Reaching(LastId(index))'
      /\ Reaching(man.parent) => Reaching(man.parent)'
      /\ Reaching(head) => Reaching(head)'
      /\ Intact(LastId(index)) => Intact(LastId(index))'
      /\ Intact(man.parent) => Intact(man.parent)'
  BY <1>1, PutManifestReaches DEF Reaching, Intact
<1>3. FinitelyMany' /\ DOMAIN manifests' = DOMAIN manifests \cup {man.id}
  BY PutManifestExtends DEF ChainInv
<1>4. Verified'
  BY <1>1, <1>2 DEF ChainInv, Verified, Trusted, Choosing
<1>5. InChain'
  BY <1>1, <1>2 DEF ChainInv, InChain, Trusted, Committing
<1>6. Stored'
  <2>1. losses = 0 => \A id \in DOMAIN manifests' : ReachesFull(manifests', id)
    BY <1>2, <1>3, PutManifestReaches DEF Reaching, Trusted, ChainInv, Stored
  <2> QED BY <1>1, <1>2, <2>1 DEF ChainInv, Stored, Reaching, Trusted
<1>7. Walked'
  BY <1>1, <1>2 DEF ChainInv, Walked, Choosing
<1> QED BY <1>3, <1>4, <1>5, <1>6, <1>7 DEF ChainInv

LEMMA PutHeadChain ==
    ASSUME Base, ChainInv, PutHead, LossesBounded'
    PROVE  ChainInv'
<1>1. /\ UNCHANGED <<manifests, index, losses, loaded, chainVerified, kind, man, gaveUp>>
      /\ pc = "head" /\ pc' = "index" /\ head' = man.id /\ committed'
  BY DEF PutHead, memory, counts
<1>2. loaded /\ man.id # NoId
  BY <1>1, NoIdAssumption DEF Committing, Base, TimeInv, TypesInv, StoreTypeOK
<1> QED BY <1>1, <1>2
        DEF ChainInv, FinitelyMany, Verified, InChain, Stored, Walked, Reaching, Trusted, Choosing,
            Committing

LEMMA SaveIndexChain ==
    ASSUME Base, ChainInv, SaveLocalIndex, LossesBounded'
    PROVE  ChainInv'
<1>1. /\ UNCHANGED <<manifests, head, losses, loaded, committed, chainVerified, kind, man>>
      /\ pc = "index" /\ pc' = "cursor" /\ index' = IndexAfter(index, man)
      /\ gaveUp' = (gaveUp /\ man.type = "inc")
  BY DEF SaveLocalIndex, remote, memory, counts
<1>2. man.id # NoId /\ man.type \in Kinds
  BY <1>1, NoIdAssumption DEF Base, TypesInv, StoreTypeOK, TimeInv, Committing, Dated
<1>3. LastId(index') = man.id /\ (index'.full = man.id \/ index'.full = index.full)
  BY <1>1, <1>2 DEF IndexAfter, LastId
<1>4. /\ Trusted' => man.type = "full" \/ Trusted
      /\ man.type = "full" \/ Trusted => Reaching(man.id)
      /\ committed /\ head = man.id
  BY <1>1, <1>2 DEF ChainInv, InChain, Trusted, Committing, Kinds
<1> QED BY <1>1, <1>2, <1>3, <1>4
        DEF ChainInv, FinitelyMany, Verified, InChain, Stored, Walked, Reaching, Choosing, Committing

LEMMA LoseChain ==
    ASSUME Base, ChainInv, LossesBounded',
           (\E id \in DOMAIN manifests : LoseManifest(id)) \/ CorruptRows
    PROVE  ChainInv'
<1>1. /\ ~loaded /\ losses' = losses + 1 /\ losses' # 0
      /\ UNCHANGED <<head, index, loaded, committed, chainVerified, kind, man, pc>>
  <2>1. /\ ~loaded /\ losses' = losses + 1
        /\ UNCHANGED <<head, index, loaded, committed, chainVerified, kind, man, pc>>
    BY DEF LoseManifest, CorruptRows, memory, run, ghosts
  <2>2. losses \in Nat
    BY LossTypes DEF Base
  <2>3. losses' # 0
    BY <2>1, <2>2
  <2> QED BY <2>1, <2>3
<1>2. DOMAIN manifests' \subseteq DOMAIN manifests
  BY DEF LoseManifest, CorruptRows, Without
<1>3. FinitelyMany'
  <2> DEFINE less == DOMAIN manifests'
  <2>1. IsFiniteSet(DOMAIN manifests) /\ less \in SUBSET DOMAIN manifests
    BY <1>2 DEF ChainInv, FinitelyMany
  <2> HIDE DEF less
  <2>2. IsFiniteSet(less)
    BY <2>1, FS_Subset
  <2> QED BY <2>2 DEF FinitelyMany, less
<1>4. pc = "idle" /\ ~committed
  BY <1>1 DEF Base, TimeInv, ChainInv, Stored
<1> QED BY <1>1, <1>3, <1>4 DEF ChainInv, Verified, InChain, Stored, Walked, Choosing, Committing

LEMMA NextChainInv ==
    ASSUME Base, ChainInv, RunGap >= Minute, [Next]_vars
    PROVE  ChainInv'
<1>0. LossesBounded'
  BY BoundStays DEF ChainInv
<1>1. CASE UserEdit \/ PersistQueue \/ (\E c \in Contents : UploadBlob(c)) \/ UNCHANGED vars
           \/ (\E p \in Paths : ReadFile(p))
  <2>1. /\ UNCHANGED <<manifests, head, index, losses, committed, loaded>>
        /\ UNCHANGED <<chainVerified, kind, pc, man, gaveUp>>
    BY <1>1 DEF UserEdit, Create, Modify, Delete, Rename, Edit, PersistQueue, UploadBlob, ReadFile,
       vars, remote, memory, run, counts, ghosts
  <2> QED BY <1>0, <2>1, RunGoesOn
<1>2. CASE StartFull \/ TickInc \/ ManualInc \/ WalkChain
  BY <1>0, <1>2, StartChain
<1>3. CASE RunOver /\ (\/ LoadQueue \/ Reconcile \/ SkipInc \/ FinishRun \/ FailRun
                       \/ \E p \in Paths : ReadVanished(p))
  BY <1>0, <1>3, RunEndsStep
<1>4. CASE ((LoadQueue \/ Reconcile) /\ ~RunOver) \/ StampInc \/ ListVault \/ AppendRow
  <2>1. UNCHANGED <<manifests, head, index, losses, committed, loaded, chainVerified, kind, gaveUp>>
    BY <1>4 DEF LoadQueue, Reconcile, StampInc, ListVault, AppendRow, remote, memory, counts, ghosts
  <2>2. \/ pc \in {"queue", "scan", "stamp"} /\ pc' \in {"scan", "stamp", "read"}
        \/ pc = "list" /\ pc' = "read"
        \/ pc = "row" /\ pc' = "head" /\ man' = man
    BY <1>4 DEF LoadQueue, Reconcile, StampInc, ListVault, AppendRow
  <2> QED BY <1>0, <2>1, <2>2, RunGoesOn
<1>5. CASE BuildFull \/ BuildInc
  BY <1>0, <1>5, BuildChain
<1>6. CASE PutManifest
  BY <1>0, <1>6, PutManifestChain
<1>7. CASE PutHead
  BY <1>0, <1>7, PutHeadChain
<1>8. CASE SaveLocalIndex
  BY <1>0, <1>8, SaveIndexChain
<1>9. CASE Stop
  BY <1>0, <1>9
  DEF Stop, RunOver, remote, memory, ChainInv, FinitelyMany, Verified, InChain, Stored, Walked, Reaching,
      Choosing, Committing
<1>10. CASE Load
  <2>1. /\ UNCHANGED <<manifests, head, index, losses, committed, pc, kind, man>>
        /\ ~loaded /\ ~chainVerified'
    BY <1>10 DEF Load, remote, run, counts, ghosts
  <2>2. pc = "idle" /\ ~committed
    BY <2>1 DEF Base, TimeInv, ChainInv, Stored
  <2> QED BY <1>0, <2>1, <2>2
          DEF ChainInv, FinitelyMany, Verified, InChain, Stored, Walked, Reaching, Choosing, Committing
<1>11. CASE (\E id \in DOMAIN manifests : LoseManifest(id)) \/ CorruptRows
  BY <1>0, <1>11, LoseChain
<1>12. ASSUME SkipInc \/ FinishRun \/ FailRun \/ (\E p \in Paths : ReadVanished(p)) PROVE RunOver
  BY <1>12 DEF SkipInc, FinishRun, FailRun, ReadVanished
<1> QED BY <1>1, <1>2, <1>3, <1>4, <1>5, <1>6, <1>7, <1>8, <1>9, <1>10, <1>11, <1>12
        DEF Next, RunStep

\* An incremental that is committed builds on a chain that is whole: it was
\* walked in this session, or its last manifest was written by this session;
\* the first one on a chain no longer than the walk accepts.  A session that
\* gave a chain up owes this once its full backup is in the local index
\* (BackupService.runIncremental, walkChainToFull; ManifestBuilder).
THEOREM ParentIsVerified ==
    ASSUME RunGap >= Minute PROVE Spec => []ParentVerified
<1>1. Base /\ ChainInv => ParentVerified
  BY DEF ChainInv, InChain, Walked, Reaching, Intact, Trusted, ParentVerified
<1>2. Base /\ ChainInv /\ [Next]_vars => Base' /\ ChainInv'
  BY NextTypesInv, NextTimeInv, NextCommitInv, NextChainInv DEF Base
<1>3. Init => Base /\ ChainInv
  BY InitTypesInv, InitTimeInv, InitCommitInv, InitChainInv DEF Base
<1> QED BY <1>1, <1>2, <1>3, PTL DEF Spec

\* The snapshot HEAD names can be restored, at every moment if nothing was
\* lost, and after a loss from the first commit of the next session on,
\* unless that session gave a chain up and has no full backup since:
\* its chain reaches a full backup and the blobs of what it replays to are
\* stored (BackupService.commitSnapshot, chainReplay.materializeVaultStateAt).
THEOREM TipIsRestorable ==
    ASSUME RunGap >= Minute PROVE Spec => []TipRestorable
<1>1. Base /\ ChainInv => TipRestorable
  <2> SUFFICES ASSUME Base, ChainInv, head # NoId, losses = 0 \/ (committed /\ ~gaveUp)
               PROVE  Restorable(manifests, blobs, head)
    BY DEF TipRestorable
  <2>1. ReachesFull(manifests, head)
    BY DEF Base, ChainInv, Stored, Trusted, Reaching, CommitInv, CommitOrder, LinksFirst
  <2>2. PICK n : n \in FullDepths(manifests, head)
    BY <2>1 DEF ReachesFull
  <2>3. Sound(manifests, blobs)
    BY DEF Sound, Base, TypesInv, StoredOK, Manifest, Values, CommitInv, CommitOrder, BlobsFirst
  <2>4. Cardinality(DOMAIN manifests) \in Nat /\ NoId \notin DOMAIN manifests
    BY FS_CardinalityType, NoIdAssumption DEF ChainInv, FinitelyMany, Base, TypesInv, StoreTypeOK
  <2>5. Values(Materialize(manifests, head)) \subseteq blobs
    BY <2>2, <2>3, <2>4, MaterializeIs
  <2> QED BY <2>1, <2>5 DEF Restorable
<1>2. Base /\ ChainInv /\ [Next]_vars => Base' /\ ChainInv'
  BY NextTypesInv, NextTimeInv, NextCommitInv, NextChainInv DEF Base
<1>3. Init => Base /\ ChainInv
  BY InitTypesInv, InitTimeInv, InitCommitInv, InitChainInv DEF Base
<1> QED BY <1>1, <1>2, <1>3, PTL DEF Spec

(***************************************************************************)
(* The Dropbox folder implements the append-only log.                      *)
(***************************************************************************)
\* The manifest that a run has uploaded is not listed before its row is.
NotListed == pc = "row" => man.id \notin Published

Entry(id) == [at |-> RowTime(id), state |-> Materialize(manifests, id)]

LogInv == Base /\ ChainInv /\ NotListed /\ losses = 0

LEMMA ListedIds ==
    ASSUME LogInv
    PROVE  /\ Published \subseteq DOMAIN manifests
           /\ \A id \in Published : Reaching(id)
           /\ head # NoId => head \in Published
BY DEF LogInv, Base, CommitInv, CommitOrder, LinksFirst, ChainInv, Stored, Published

LEMMA SoundManifests ==
    ASSUME NEW ms, Values(ms) \subseteq Manifest
    PROVE  Sound(ms, Contents)
<1> SUFFICES ASSUME NEW id \in DOMAIN ms
             PROVE  /\ ms[id].files \in FileMaps /\ ms[id].renames \in Seq(Renames)
                    /\ Values(ms[id].files) \subseteq Contents
  BY DEF Sound
<1>1. ms[id] \in Manifest
  BY DEF Values
<1>2. ms[id].files \in FileMaps /\ ms[id].renames \in Seq(Renames)
  BY <1>1 DEF Manifest
<1> QED BY <1>2, FileMapsFacts DEF Values

LEMMA EntryType ==
    ASSUME LogInv, NEW id \in DOMAIN manifests
    PROVE  Entry(id) \in Log!Entries
<1>1. ReachesFull(manifests, id)
  BY DEF LogInv, ChainInv, Stored, Reaching
<1>2. PICK n : n \in FullDepths(manifests, id)
  BY <1>1 DEF ReachesFull
<1>3. Cardinality(DOMAIN manifests) \in Nat /\ NoId \notin DOMAIN manifests
  BY FS_CardinalityType, NoIdAssumption
  DEF LogInv, ChainInv, FinitelyMany, Base, TypesInv, StoreTypeOK
<1>4. Materialize(manifests, id) \in FileMaps
  <2>1. Sound(manifests, Contents)
    BY SoundManifests DEF LogInv, Base, TypesInv, StoredOK
  <2> QED BY <1>2, <1>3, <2>1, MaterializeIs
<1>5. RowTime(id) \in Nat
  BY DEF LogInv, Base, TimeInv, Dated, RowTime
<1> QED BY <1>4, <1>5 DEF Entry, Log!Entries

\* Steps that change neither the log nor its tip.
LEMMA LogStutters ==
    ASSUME UNCHANGED <<manifests, rows, head>>
    PROVE  UNCHANGED Log!vars
<1>1. Published' = Published
  BY DEF Published
<1>2. \A id : RowTime(id)' = RowTime(id)
  BY DEF RowTime
<1> QED BY <1>1, <1>2 DEF Log!vars

LEMMA PutManifestLog ==
    ASSUME LogInv, TypesInv', RunGap >= Minute, PutManifest
    PROVE  UNCHANGED Log!vars
<1>1. Extends(manifests', manifests)
  BY PutManifestExtends DEF LogInv, ChainInv
<1>2. Sound(manifests', Contents)
  <2> DEFINE ms == manifests'
  <2>1. Values(ms) \subseteq Manifest
    BY DEF TypesInv, StoredOK
  <2> HIDE DEF ms
  <2>2. Sound(ms, Contents)
    BY <2>1, SoundManifests
  <2> QED BY <2>2 DEF ms
<1>3. UNCHANGED <<rows, head>>
  BY DEF PutManifest
<1>4. Published' = Published
  BY <1>3 DEF Published
<1>5. ASSUME NEW id \in Published
      PROVE  RowTime(id)' = RowTime(id) /\ Materialize(manifests', id) = Materialize(manifests, id)
  <2>1. id \in DOMAIN manifests /\ ReachesFull(manifests, id)
    BY ListedIds DEF Reaching
  <2>2. Materialize(manifests', id) = Materialize(manifests, id)
    <3> DEFINE ms == manifests'
    <3>1. Extends(ms, manifests) /\ Sound(ms, Contents)
      BY <1>1, <1>2
    <3> HIDE DEF ms
    <3>2. Materialize(ms, id) = Materialize(manifests, id)
      BY <2>1, <3>1, MaterializeKept
    <3> QED BY <3>2 DEF ms
  <2> QED BY <1>1, <2>1, <2>2 DEF RowTime, Extends
<1> QED BY <1>3, <1>4, <1>5 DEF Log!vars

LEMMA AppendRowLog ==
    ASSUME LogInv, AppendRow
    PROVE  Log!Publish
<1>1. /\ pc = "row" /\ UNCHANGED <<manifests, head>> /\ man.id \in DOMAIN manifests
      /\ man.id \notin Published /\ rows' = rows \cup {RowOf(man)}
  <2>1. pc = "row" /\ UNCHANGED <<manifests, head>>
    BY DEF AppendRow
  <2>2. man.id \in DOMAIN manifests /\ rowsOk
    BY <2>1 DEF LogInv, Base, TimeInv, Committing, CommitInv, InFlight
  <2>3. rows' = rows \cup {RowOf(man)}
    BY <2>2 DEF AppendRow
  <2> QED BY <2>1, <2>2, <2>3 DEF LogInv, NotListed
<1>2. Published' = Published \cup {man.id}
  <2> DEFINE row == RowOf(man)
  <2>1. row.id = man.id
    BY DEF RowOf
  <2>2. rows' = rows \cup {row}
    BY <1>1
  <2> HIDE DEF row
  <2> QED BY <2>1, <2>2 DEF Published
<1>3. \A id : /\ RowTime(id)' = RowTime(id)
              /\ Materialize(manifests', id) = Materialize(manifests, id)
  BY <1>1 DEF RowTime
<1>4. Entry(man.id) \in Log!Entries
  BY <1>1, EntryType
<1> DEFINE before == [id \in Published |-> Entry(id)]
           after == [id \in Published \cup {man.id} |-> Entry(id)]
<1>5. /\ \E id \in DOMAIN after \ DOMAIN before :
             DOMAIN after = DOMAIN before \cup {id} /\ after[id] \in Log!Entries
      /\ \A old \in DOMAIN before : after[old] = before[old]
  <2>1. /\ DOMAIN after = DOMAIN before \cup {man.id} /\ man.id \notin DOMAIN before
        /\ after[man.id] = Entry(man.id)
    BY <1>1
  <2>2. \A old \in DOMAIN before : after[old] = before[old]
    OBVIOUS
  <2> QED BY <1>4, <2>1, <2>2
<1>6. [id \in Published |-> [at |-> RowTime(id), state |-> Materialize(manifests, id)]] = before
  BY DEF Entry
<1>7. [id \in Published |-> [at |-> RowTime(id), state |-> Materialize(manifests, id)]]' = after
  BY <1>2, <1>3 DEF Entry
<1> HIDE DEF before, after
<1> QED BY <1>1, <1>5, <1>6, <1>7 DEF Log!Publish

LEMMA PutHeadLog ==
    ASSUME LogInv, PutHead
    PROVE  Log!Advance
<1>1. pc = "head" /\ head' = man.id /\ UNCHANGED <<manifests, rows>>
  BY DEF PutHead
<1>2. man.id \in Published
  BY <1>1 DEF LogInv, Base, CommitInv, InFlight, Published
<1>3. ASSUME head # NoId
      PROVE  head \in Published /\ RowTime(head) <= RowTime(man.id)
  <2>1. head \in Published /\ head \in DOMAIN manifests
    BY <1>3, ListedIds
  <2> QED BY <1>1, <2>1 DEF LogInv, Base, TimeInv, Committing, NoneAfter, RowTime
<1>4. Published' = Published
  BY <1>1 DEF Published
<1>5. \A id : /\ RowTime(id)' = RowTime(id)
              /\ Materialize(manifests', id) = Materialize(manifests, id)
  BY <1>1 DEF RowTime
<1>6. [id \in Published |-> [at |-> RowTime(id), state |-> Materialize(manifests, id)]]'
          = [id \in Published |-> [at |-> RowTime(id), state |-> Materialize(manifests, id)]]
  BY <1>4, <1>5
<1> QED BY <1>1, <1>2, <1>3, <1>6 DEF Log!Advance

LEMMA NextNotListed ==
    ASSUME LogInv, RunGap >= Minute, [Next]_vars
    PROVE  NotListed'
<1> SUFFICES ASSUME pc' = "row" PROVE man'.id \notin Published'
  BY DEF NotListed
<1>1. CASE PutManifest
  <2>1. man.id \notin DOMAIN manifests /\ UNCHANGED <<rows, man>>
    BY <1>1, PutManifestTime DEF LogInv, Base, PutManifest
  <2> QED BY <2>1, ListedIds DEF Published
<1>2. CASE UNCHANGED <<pc, man, rows>>
  BY <1>2 DEF NotListed, Published, LogInv
<1>3. PutManifest \/ UNCHANGED <<pc, man, rows>>
  <2>1. CASE UserEdit
    BY <2>1 DEF UserEdit, Create, Modify, Delete, Rename, Edit, run, remote
  <2>2. CASE RunStep
    BY <2>2 DEF RunStep, WalkChain, LoadQueue, Reconcile, StampInc, ListVault, ReadFile,
        ReadVanished, BuildFull, BuildInc, SkipInc, UploadBlob, PutManifest, AppendRow,
        PutHead, SaveLocalIndex, FinishRun, EnterFull, RunOver, run
  <2> QED BY <2>1, <2>2
          DEF Next, PersistQueue, StartFull, TickInc, ManualInc, StartInc, EnterFull, FailRun,
              Stop, Load, LoseManifest, CorruptRows, RunOver, vars, run, remote
<1> QED BY <1>1, <1>2, <1>3

LEMMA NextLogInv ==
    ASSUME LogInv, RunGap >= Minute, MaxLosses = 0, [Next]_vars
    PROVE  LogInv'
<1>1. Base'
  BY NextTypesInv, NextTimeInv, NextCommitInv DEF LogInv, Base
<1>2. ChainInv'
  BY NextChainInv DEF LogInv
<1>3. (losses = 0)'
  BY <1>1, <1>2 DEF ChainInv, LossesBounded, Base, TypesInv, StoreTypeOK
<1> QED BY <1>1, <1>2, <1>3, NextNotListed DEF LogInv

LEMMA NextLog ==
    ASSUME LogInv, LogInv', RunGap >= Minute, [Next]_vars
    PROVE  [Log!Next]_(Log!vars)
<1>1. CASE PutManifest
  BY <1>1, PutManifestLog DEF LogInv, Base
<1>2. CASE AppendRow
  BY <1>2, AppendRowLog DEF Log!Next
<1>3. CASE PutHead
  BY <1>3, PutHeadLog DEF Log!Next
<1>4. CASE UNCHANGED <<manifests, rows, head>>
  BY <1>4, LogStutters
<1>5. PutManifest \/ AppendRow \/ PutHead \/ UNCHANGED <<manifests, rows, head>>
  <2>1. CASE UserEdit
    BY <2>1 DEF UserEdit, Create, Modify, Delete, Rename, Edit, remote
  <2>2. CASE RunStep
    BY <2>2 DEF RunStep, WalkChain, LoadQueue, Reconcile, StampInc, ListVault, ReadFile,
        ReadVanished, BuildFull, BuildInc, SkipInc, UploadBlob, SaveLocalIndex, FinishRun, remote
  <2>3. ~(\E id \in DOMAIN manifests : LoseManifest(id)) /\ ~CorruptRows
    BY DEF LogInv, LoseManifest, CorruptRows
  <2> QED BY <2>1, <2>2, <2>3
          DEF Next, PersistQueue, StartFull, TickInc, ManualInc, StartInc, FailRun, Stop, Load,
              vars, remote
<1> QED BY <1>1, <1>2, <1>3, <1>4, <1>5

\* While nobody deletes anything on Dropbox, the folder is an append-only log
\* of vault states: a snapshot is published once, when its row is appended,
\* restores to the same files ever after, and HEAD never moves back
\* (commitSnapshot, steps 3 to 5; chainReplay.materializeVaultStateAt).
THEOREM FolderIsALog ==
    ASSUME RunGap >= Minute, MaxLosses = 0 PROVE Spec => ImplementsSnapshotLog
<1>1. Init => LogInv
  BY InitTypesInv, InitTimeInv, InitCommitInv, InitChainInv
  DEF LogInv, Base, NotListed, Init, RunInit
<1>2. LogInv /\ [Next]_vars => LogInv'
  BY NextLogInv
<1>3. Init => Log!Init
  BY DEF Init, Log!Init, Published
<1>4. LogInv /\ LogInv' /\ [Next]_vars => [Log!Next]_(Log!vars)
  BY NextLog
<1> QED BY <1>1, <1>2, <1>3, <1>4, PTL DEF Spec, ImplementsSnapshotLog, Log!Spec

(***************************************************************************)
(* Without renames, the local index follows the snapshots.                 *)
(***************************************************************************)
LEMMA ReplayPlain ==
    ASSUME NEW state, NEW m, m.renames = <<>>
    PROVE  ReplayManifest(state, m) = Without(Overlay(state, m.files), m.deleted)
<1> DEFINE Move(s, r) ==
               IF r.from \notin DOMAIN s \/ r.to \in DOMAIN s THEN s
               ELSE Overlay(Without(s, {r.from}), [x \in {r.to} |-> s[r.from]])
           D == DOMAIN m.renames
           IsIter(f) == f = [t \in SUBSET D |->
                                IF t = {} THEN state
                                ELSE Move(f[t \ {Max(t)}], m.renames[Max(t)])]
           iter == CHOOSE f : IsIter(f)
<1>1. ReplayManifest(state, m) = Without(Overlay(iter[D], m.files), m.deleted)
  BY DEF ReplayManifest, FoldLeft, MapThenFoldSet
<1>2. D = {}
  OBVIOUS
<1>3. IsIter([t \in SUBSET D |-> state])
  <2> HIDE DEF Move
  <2> QED BY <1>2
<1>4. IsIter(iter)
  <2> HIDE DEF IsIter
  <2> QED BY <1>3
<1>5. iter[D] = state
  <2> HIDE DEF Move, iter
  <2> QED BY <1>2, <1>4
<1> HIDE DEF iter
<1> QED BY <1>1, <1>5

LEMMA IndexPlain ==
    ASSUME NEW files, NEW m, m.renames = <<>>
    PROVE  IndexFilesAfter(files, m) = Overlay(Without(files, m.deleted), m.files)
<1> DEFINE Carry(f, r) ==
               IF r.from \in DOMAIN f /\ r.to \notin DOMAIN m.files
               THEN Overlay(Without(f, {r.from}), [x \in {r.to} |-> f[r.from]])
               ELSE Without(f, {r.from})
           D == DOMAIN m.renames
           IsIter(f) == f = [t \in SUBSET D |->
                                IF t = {} THEN files
                                ELSE Carry(f[t \ {Max(t)}], m.renames[Max(t)])]
           iter == CHOOSE f : IsIter(f)
<1>1. IndexFilesAfter(files, m) = Overlay(Without(iter[D], m.deleted), m.files)
  BY DEF IndexFilesAfter, FoldLeft, MapThenFoldSet
<1>2. D = {}
  OBVIOUS
<1>3. IsIter([t \in SUBSET D |-> files])
  <2> HIDE DEF Carry
  <2> QED BY <1>2
<1>4. IsIter(iter)
  <2> HIDE DEF IsIter
  <2> QED BY <1>3
<1>5. iter[D] = files
  <2> HIDE DEF Carry, iter
  <2> QED BY <1>2, <1>4
<1> HIDE DEF iter
<1> QED BY <1>1, <1>5

\* Deleting before or after is the same when nothing is both.
LEMMA SameFiles ==
    ASSUME NEW files, NEW m, m.renames = <<>>, DOMAIN m.files \cap m.deleted = {}
    PROVE  IndexFilesAfter(files, m) = ReplayManifest(files, m)
<1>1. Overlay(Without(files, m.deleted), m.files) = Without(Overlay(files, m.files), m.deleted)
  BY DEF Overlay, Without
<1> QED BY <1>1, ReplayPlain, IndexPlain

(***************************************************************************)
(* The events of a vault whose files are not renamed, and their plans.     *)
(***************************************************************************)
SimpleEdits == "rename" \notin EditKinds /\ (ReconcileEnabled => "delete" \notin EditKinds)

Plain == {e \in Observed : e.type \in EditKinds}
PlainPlans == {b \in Plans : b.renames = <<>> /\ b.changes \cap b.deleted = {}}

\* What the queue buckets to: without delete events, nothing is deleted.
Bucketed == {b \in PlainPlans : "delete" \in EditKinds \/ b.deleted = {}}

LEMMA FilterNothing ==
    ASSUME NEW S
    PROVE  Filter(<<>>, S) = <<>>
<1>1. Filter(<<>>, S) \in Seq({})
  <2>1. <<>> \in Seq({})
    OBVIOUS
  <2> QED BY <2>1, FilterType
<1> QED BY <1>1

LEMMA BucketPlain ==
    ASSUME "rename" \notin EditKinds, NEW seq \in Seq(Plain)
    PROVE  Bucket(seq) \in Bucketed
<1>1. EmptyBuckets \in Bucketed
  BY DEF EmptyBuckets, Bucketed, PlainPlans, Plans
<1>2. ASSUME NEW b \in Bucketed, NEW e \in Plain PROVE BucketEvent(b, e) \in Bucketed
  <2>0. /\ b.changes \subseteq Paths /\ b.deleted \subseteq Paths /\ b.renames = <<>>
        /\ b.changes \cap b.deleted = {} /\ e.path \in Paths
        /\ e.type \in EditKinds /\ e.type \in {"create", "modify", "delete", "rename"}
        /\ "delete" \in EditKinds \/ b.deleted = {}
        /\ b = [changes |-> b.changes, deleted |-> b.deleted, renames |-> b.renames]
    BY DEF Bucketed, PlainPlans, Plans, Plain, Observed, Events
  <2>1. CASE e.type \in {"create", "modify"}
    <3> DEFINE d == b.deleted \ {e.path}
               c == b.changes \cup {e.path}
    <3>1. BucketEvent(b, e) = [changes |-> c, deleted |-> d, renames |-> <<>>]
      BY <2>0, <2>1 DEF BucketEvent
    <3>2. c \subseteq Paths /\ d \subseteq Paths /\ c \cap d = {}
          /\ ("delete" \in EditKinds \/ d = {})
      BY <2>0
    <3> HIDE DEF c, d
    <3> QED BY <3>1, <3>2 DEF Bucketed, PlainPlans, Plans
  <2>2. CASE e.type = "delete"
    <3> DEFINE d == b.deleted \cup {e.path}
               c == b.changes \ {e.path}
    <3>1. Filter(b.renames, {r \in Range(b.renames) : r.to # e.path}) = <<>>
      BY <2>0, FilterNothing
    <3>2. b.deleted \cup {e.path} \cup {b.renames[i].from : i \in {j \in DOMAIN b.renames :
                                                              b.renames[j].to = e.path}} = d
      BY <2>0
    <3>3. BucketEvent(b, e) = [changes |-> c, deleted |-> d, renames |-> <<>>]
      BY <2>2, <3>1, <3>2 DEF BucketEvent
    <3>4. c \subseteq Paths /\ d \subseteq Paths /\ c \cap d = {} /\ "delete" \in EditKinds
      BY <2>0, <2>2
    <3> HIDE DEF c, d
    <3> QED BY <3>3, <3>4 DEF Bucketed, PlainPlans, Plans
  <2> QED BY <2>0, <2>1, <2>2
<1> QED BY <1>1, <1>2, BucketStays

PlainOK ==
    /\ queue \in Seq(Plain) /\ queueDisk \in Seq(Plain) /\ snap \in Seq(Plain)
    /\ plan \in PlainPlans
    /\ reconcile => ReconcileEnabled
    /\ pc = "scan" => reconcile

\* What an incremental has read is what its plan says was changed.
ReadOK ==
    /\ pc \in {"idle", "list"} \cup Walking => DOMAIN read = {}
    /\ (pc = "read" /\ kind = "inc") => DOMAIN read \cup todo \subseteq plan.changes

ManOK ==
    pc \in {"blobs", "row", "head", "index"} =>
        /\ man.renames = <<>> /\ DOMAIN man.files \cap man.deleted = {}
        /\ man.type = "inc" => man.parent = LastId(index)

IndexOK ==
    losses = 0 =>
        /\ LastId(index) # NoId => index.files = Materialize(manifests, LastId(index))
        /\ (pc \in {"row", "head", "index"} /\ man.type = "inc") =>
               Materialize(manifests, man.id)
                   = ReplayManifest(Materialize(manifests, man.parent), man)

IndexInv == PlainOK /\ ReadOK /\ ManOK /\ IndexOK

LEMMA InitIndexInv == Init => IndexInv
BY DEF Init, RunInit, IndexInv, PlainOK, ReadOK, ManOK, IndexOK, EmptyMap, NoIndex, LastId,
       EmptyBuckets, PlainPlans, Plans, Walking

LEMMA EditPlain ==
    ASSUME Base, PlainOK, UserEdit
    PROVE  queue' \in Seq(Plain) /\ UNCHANGED <<queueDisk, run>>
<1>1. PICK type, path, prev, after :
         /\ Edit(type, path, prev, after)
         /\ type \in {"create", "modify", "delete", "rename"} /\ path \in Paths
         /\ prev \in Paths \cup {NoPath} /\ (type = "rename" => prev \in Paths)
  BY AnEdit
<1> DEFINE e == [type |-> type, path |-> path, prev |-> prev, at |-> clock + EventGap]
<1>2. e \in Plain
  <2>1. clock + EventGap \in Nat /\ type \in EditKinds
    BY <1>1, GapTypes DEF Base, TypesInv, StoreTypeOK, Edit
  <2> QED BY <1>1, <2>1 DEF Plain, Observed, Events
<1>3. /\ queue' = queue \/ queue' = Enqueue(queue, e, DedupWindow)
      /\ UNCHANGED <<queueDisk, run>>
  BY <1>1 DEF Edit
<1> HIDE DEF e
<1>4. Enqueue(queue, e, DedupWindow) \in Seq(Plain)
  BY <1>2 DEF Enqueue, PlainOK
<1> QED BY <1>3, <1>4 DEF PlainOK

LEMMA NextPlainOK ==
    ASSUME SimpleEdits, Base, PlainOK, [Next]_vars
    PROVE  PlainOK'
<1>1. CASE UserEdit
  BY <1>1, EditPlain DEF PlainOK, run
<1>2. CASE SkipInc \/ FinishRun
  <2>1. /\ \E t : queue' = Prune(queue, t)
        /\ queueDisk' = queue' /\ RunOver
    BY <1>2 DEF SkipInc, FinishRun, CommitWindow
  <2>2. \A t : Prune(queue, t) \in Seq(Plain)
    BY FilterType DEF Prune, PlainOK
  <2> QED BY <2>1, <2>2 DEF PlainOK, RunOver, EmptyBuckets, PlainPlans, Plans
<1>3. CASE RunOver /\ queue' \in {queue, queueDisk} /\ UNCHANGED queueDisk
  BY <1>3 DEF PlainOK, RunOver, EmptyBuckets, PlainPlans, Plans
<1>4. CASE LoadQueue /\ ~RunOver
  <2>1. /\ snap' = queueDisk /\ UNCHANGED <<queue, queueDisk, reconcile>>
        /\ plan' = plan \/ plan' = Bucket(queueDisk)
        /\ pc' = "scan" => reconcile
    BY <1>4 DEF LoadQueue
  <2>2. Bucket(queueDisk) \in Bucketed
    BY BucketPlain DEF SimpleEdits, PlainOK
  <2> QED BY <2>1, <2>2 DEF PlainOK, Bucketed
<1>5. CASE Reconcile /\ ~RunOver
  <2>1. /\ UNCHANGED <<queue, queueDisk, snap, reconcile>> /\ plan' = ReconcilePlan
        /\ pc = "scan" /\ pc' = "stamp"
    BY <1>5 DEF Reconcile
  <2>2. "delete" \notin EditKinds /\ "rename" \notin EditKinds
    BY <2>1 DEF PlainOK, SimpleEdits
  <2>3. ReconcilePlan \in PlainPlans
    <3> DEFINE b == Bucket(snap)
               merged == (Scanned \cup {queue[i].path : i \in DOMAIN queue})
                             \ RenameEnds(b.renames)
    <3>1. b \in Bucketed
      BY <2>2, BucketPlain DEF PlainOK
    <3>2. ReconcilePlan = [changes |-> merged \cap DOMAIN vault,
                           deleted |-> b.deleted \cup (merged \ DOMAIN vault),
                           renames |-> b.renames]
      BY DEF ReconcilePlan
    <3>3. ReconcilePlan \in Plans
      BY ReconcilePlanType DEF Base
    <3>4. b.deleted = {} /\ b.renames = <<>>
      BY <2>2, <3>1 DEF Bucketed, PlainPlans
    <3> HIDE DEF b, merged
    <3> QED BY <3>2, <3>3, <3>4 DEF PlainPlans
  <2> QED BY <2>1, <2>3 DEF PlainOK
<1>6. CASE PersistQueue
  BY <1>6 DEF PersistQueue, PlainOK, run
<1>7. CASE TickInc \/ ManualInc
  <2>1. /\ UNCHANGED <<queue, queueDisk, snap, plan>> /\ pc' # "scan"
        /\ reconcile' => ReconcileEnabled
    BY <1>7 DEF TickInc, ManualInc, StartInc, EnterFull
  <2> QED BY <2>1 DEF PlainOK
<1>8. CASE \/ StartFull \/ Load \/ (\E id \in DOMAIN manifests : LoseManifest(id)) \/ CorruptRows
           \/ UNCHANGED vars
  <2>1. /\ UNCHANGED <<queue, queueDisk, snap, plan, reconcile>> /\ (pc' = pc \/ pc' # "scan")
    BY <1>8 DEF StartFull, EnterFull, Load, LoseManifest, CorruptRows, vars, run
  <2> QED BY <2>1 DEF PlainOK
<1>9. CASE /\ RunStep /\ ~RunOver
           /\ ~(LoadQueue \/ Reconcile \/ SkipInc \/ FinishRun)
  <2>1. /\ UNCHANGED <<queue, queueDisk, snap, plan, reconcile>> /\ (pc' = pc \/ pc' # "scan")
    BY <1>9 DEF RunStep, WalkChain, StampInc, ListVault, ReadFile, ReadVanished, BuildFull,
        BuildInc, UploadBlob, PutManifest, AppendRow, PutHead, SaveLocalIndex, EnterFull, run
  <2> QED BY <2>1 DEF PlainOK
<1>10. ASSUME \/ FailRun \/ Stop
              \/ /\ RunStep /\ RunOver /\ ~SkipInc /\ ~FinishRun
       PROVE  RunOver /\ queue' \in {queue, queueDisk} /\ UNCHANGED queueDisk
  <2>1. CASE FailRun \/ Stop
    BY <2>1 DEF FailRun, Stop
  <2>2. CASE RunStep /\ RunOver /\ ~SkipInc /\ ~FinishRun
    BY <2>2 DEF RunStep, WalkChain, LoadQueue, Reconcile, StampInc, ListVault, ReadFile,
        ReadVanished, BuildFull, BuildInc, UploadBlob, PutManifest, AppendRow, PutHead,
        SaveLocalIndex
  <2> QED BY <1>10, <2>1, <2>2
<1> QED BY <1>1, <1>2, <1>3, <1>4, <1>5, <1>6, <1>7, <1>8, <1>9, <1>10 DEF Next, RunStep

LEMMA NextReadOK ==
    ASSUME Base, PlainOK, ReadOK, [Next]_vars
    PROVE  ReadOK'
<1>1. CASE RunOver
  BY <1>1 DEF ReadOK, RunOver, EmptyMap, Walking
<1>2. CASE StampInc
  <2>1. DOMAIN read = {} /\ todo' = plan.changes \cap DOMAIN vault /\ pc' = "read"
        /\ UNCHANGED <<read, plan>>
    BY <1>2 DEF StampInc, ReadOK, Walking
  <2> QED BY <2>1 DEF ReadOK, Walking
<1>3. CASE ListVault
  <2>1. DOMAIN read = {} /\ pc' = "read" /\ kind' = "full" /\ UNCHANGED read
    BY <1>3 DEF ListVault, ReadOK, Base, CommitInv, InFlight
  <2> QED BY <2>1 DEF ReadOK, Walking
<1>4. CASE \E p \in Paths : ReadFile(p)
  <2>1. PICK p \in todo : /\ DOMAIN read' = DOMAIN read \cup {p} /\ todo' = todo \ {p}
                          /\ pc = "read" /\ UNCHANGED <<pc, kind, plan>>
    BY <1>4 DEF ReadFile, Overlay
  <2> QED BY <2>1 DEF ReadOK, Walking
<1>5. CASE UNCHANGED <<pc, kind, read, todo, plan>>
  BY <1>5 DEF ReadOK
<1>6. CASE pc' \in {"blobs", "row", "head", "index", "cursor"}
  BY <1>6 DEF ReadOK, Walking
<1>7. CASE pc \in {"idle", "list"} \cup Walking /\ pc' \in {"list"} \cup Walking /\ UNCHANGED read
  BY <1>7 DEF ReadOK, Walking
<1>8. \/ RunOver \/ StampInc \/ ListVault \/ (\E p \in Paths : ReadFile(p))
      \/ UNCHANGED <<pc, kind, read, todo, plan>>
      \/ pc' \in {"blobs", "row", "head", "index", "cursor"}
      \/ pc \in {"idle", "list"} \cup Walking /\ pc' \in {"list"} \cup Walking /\ UNCHANGED read
  <2>1. CASE UserEdit
    BY <2>1 DEF UserEdit, Create, Modify, Delete, Rename, Edit, run
  <2>2. CASE RunStep
    BY <2>2 DEF RunStep, WalkChain, LoadQueue, Reconcile, ReadVanished, BuildFull, BuildInc,
        SkipInc, UploadBlob, PutManifest, AppendRow, PutHead, SaveLocalIndex, FinishRun,
        EnterFull, run, Walking
  <2> QED BY <2>1, <2>2
          DEF Next, PersistQueue, StartFull, TickInc, ManualInc, StartInc, EnterFull, FailRun,
              Stop, Load, LoseManifest, CorruptRows, vars, run, Walking
<1> QED BY <1>1, <1>2, <1>3, <1>4, <1>5, <1>6, <1>7, <1>8

LEMMA NextManOK ==
    ASSUME Base, PlainOK, ReadOK, ManOK, [Next]_vars
    PROVE  ManOK'
<1>1. CASE BuildFull
  <2>1. man'.type = "full" /\ man'.renames = <<>> /\ man'.deleted = {}
    BY <1>1 DEF BuildFull, FullManifest
  <2> QED BY <2>1 DEF ManOK
<1>2. CASE BuildInc
  <2>1. /\ man'.renames = plan.renames /\ man'.deleted = plan.deleted
        /\ man'.files = IncFiles /\ man'.parent = LastId(index) /\ UNCHANGED index
        /\ pc = "read" /\ kind = "inc"
    BY <1>2 DEF BuildInc, IncManifest
  <2>2. DOMAIN IncFiles \subseteq DOMAIN read
    BY DEF IncFiles, ChangedFiles, Only
  <2>3. DOMAIN read \subseteq plan.changes
    BY <2>1 DEF ReadOK
  <2> QED BY <2>1, <2>2, <2>3 DEF PlainOK, PlainPlans, ManOK
<1>3. CASE UNCHANGED <<man, index>> /\ (pc' = pc \/ pc \in {"blobs", "row", "head"})
  BY <1>3 DEF ManOK
<1>4. CASE pc' \notin {"blobs", "row", "head", "index"}
  BY <1>4 DEF ManOK
<1>5. \/ BuildFull \/ BuildInc
      \/ UNCHANGED <<man, index>> /\ (pc' = pc \/ pc \in {"blobs", "row", "head"})
      \/ pc' \notin {"blobs", "row", "head", "index"}
  <2>1. CASE UserEdit
    BY <2>1 DEF UserEdit, Create, Modify, Delete, Rename, Edit, run
  <2>2. CASE RunStep
    BY <2>2 DEF RunStep, WalkChain, LoadQueue, Reconcile, StampInc, ListVault, ReadFile,
        ReadVanished, SkipInc, UploadBlob, PutManifest, AppendRow, PutHead, SaveLocalIndex,
        FinishRun, EnterFull, RunOver, run
  <2> QED BY <2>1, <2>2
          DEF Next, PersistQueue, StartFull, TickInc, ManualInc, StartInc, EnterFull, FailRun,
              Stop, Load, LoseManifest, CorruptRows, RunOver, vars, run
<1> QED BY <1>1, <1>2, <1>3, <1>4, <1>5

LEMMA PutManifestIndex ==
    ASSUME Base, TypesInv', ChainInv, IndexOK, RunGap >= Minute, PutManifest, losses = 0
    PROVE  IndexOK'
<1>1. /\ Extends(manifests', manifests)
      /\ Cardinality(DOMAIN manifests') = Cardinality(DOMAIN manifests) + 1
      /\ man.id \in DOMAIN manifests' /\ manifests'[man.id] = man
  BY PutManifestExtends DEF ChainInv
<1>2. pc = "blobs" /\ UNCHANGED <<man, index, losses>>
  BY DEF PutManifest, counts
<1> DEFINE ms == manifests'
<1>3. /\ Extends(ms, manifests) /\ Values(ms) \subseteq Manifest
      /\ Cardinality(DOMAIN ms) = Cardinality(DOMAIN manifests) + 1
      /\ man.id \in DOMAIN ms /\ ms[man.id] = man
  BY <1>1 DEF TypesInv, StoredOK
<1> HIDE DEF ms
<1>4. Sound(ms, Contents)
  BY <1>3, SoundManifests
<1>5. ASSUME NEW id, Reaching(id) PROVE Materialize(ms, id) = Materialize(manifests, id)
  BY <1>3, <1>4, <1>5, MaterializeKept DEF Reaching
<1>6. ASSUME LastId(index) # NoId
      PROVE  index.files = Materialize(ms, LastId(index))
  <2>1. Reaching(LastId(index))
    BY <1>6 DEF Base, CommitInv, InFlight, ChainInv, Stored, LastId
  <2> QED BY <1>5, <1>6, <2>1 DEF IndexOK
<1>7. ASSUME man.type = "inc"
      PROVE  Materialize(ms, man.id) = ReplayManifest(Materialize(ms, man.parent), man)
  <2>1. Reaching(man.parent)
    BY <1>2, <1>7 DEF ChainInv, InChain, Trusted
  <2> DEFINE id == man.id
  <2>2. id \in DOMAIN ms /\ ms[id] = man /\ ms[id].type = "inc" /\ ms[id].parent = man.parent
    BY <1>3, <1>7
  <2> HIDE DEF id
  <2>3. ReachesFull(manifests, ms[id].parent)
    BY <2>1, <2>2 DEF Reaching
  <2>4. Materialize(ms, id) = ReplayManifest(Materialize(manifests, ms[id].parent), ms[id])
    BY <1>3, <1>4, <2>2, <2>3, MaterializeInc
  <2> QED BY <1>5, <2>1, <2>2, <2>4 DEF id
<1> QED BY <1>2, <1>6, <1>7 DEF IndexOK, ms

LEMMA SaveIndexIndex ==
    ASSUME Base, ChainInv, ManOK, IndexOK, SaveLocalIndex, losses = 0
    PROVE  IndexOK'
<1>1. /\ pc = "index" /\ pc' = "cursor" /\ index' = IndexAfter(index, man)
      /\ UNCHANGED <<manifests, man>>
  BY DEF SaveLocalIndex, remote
<1>2. /\ man.id \in DOMAIN manifests /\ manifests[man.id] = man /\ man.type \in Kinds
      /\ man.id # NoId
  BY <1>1, NoIdAssumption DEF Base, TimeInv, Committing, Dated, TypesInv, StoreTypeOK
<1>3. LastId(index') = man.id
  BY <1>1, <1>2 DEF IndexAfter, LastId
<1>4. index'.files = Materialize(manifests, man.id)
  <2>1. CASE man.type = "full"
    <3>1. index'.files = man.files
      BY <1>1, <2>1 DEF IndexAfter
    <3>2. Materialize(manifests, man.id) = man.files
      <4> DEFINE id == man.id
      <4>1. id \in DOMAIN manifests /\ manifests[id] = man /\ manifests[id].type = "full"
        BY <1>2, <2>1
      <4> HIDE DEF id
      <4>2. Cardinality(DOMAIN manifests) \in Nat /\ NoId \notin DOMAIN manifests
        BY FS_CardinalityType, NoIdAssumption
        DEF ChainInv, FinitelyMany, Base, TypesInv, StoreTypeOK
      <4>3. Sound(manifests, Contents)
        BY SoundManifests DEF Base, TypesInv, StoredOK
      <4>4. Materialize(manifests, id) = manifests[id].files
        BY <4>1, <4>2, <4>3, MaterializeFull
      <4> QED BY <4>1, <4>4 DEF id
    <3> QED BY <3>1, <3>2
  <2>2. CASE man.type = "inc"
    <3>1. index'.files = IndexFilesAfter(index.files, man)
      BY <1>1, <2>2 DEF IndexAfter
    <3>2. /\ man.renames = <<>> /\ DOMAIN man.files \cap man.deleted = {}
          /\ man.parent = LastId(index) /\ LastId(index) # NoId
      <4>1. man.parent # NoId
        BY <1>1, <2>2, NoIdAssumption
        DEF Base, CommitInv, CommitOrder, LinksFirst, TimeInv, Committing, TypesInv, StoreTypeOK,
            Values
      <4> QED BY <1>1, <2>2, <4>1 DEF ManOK
    <3>3. /\ index.files = Materialize(manifests, man.parent)
          /\ Materialize(manifests, man.id)
                 = ReplayManifest(Materialize(manifests, man.parent), man)
      BY <1>1, <2>2, <3>2 DEF IndexOK
    <3>4. IndexFilesAfter(index.files, man) = ReplayManifest(index.files, man)
      BY <3>2, SameFiles
    <3> QED BY <3>1, <3>3, <3>4
  <2> QED BY <1>2, <2>1, <2>2 DEF Kinds
<1> QED BY <1>1, <1>3, <1>4 DEF IndexOK

LEMMA LossesGrow ==
    ASSUME TypesInv, [Next]_vars, losses' = 0
    PROVE  /\ losses = 0
           /\ ~(\E id \in DOMAIN manifests : LoseManifest(id)) /\ ~CorruptRows
<1>1. losses \in Nat
  BY LossTypes
<1>2. ~(\E id \in DOMAIN manifests : LoseManifest(id)) /\ ~CorruptRows
  <2>1. losses' # losses + 1
    BY <1>1
  <2> QED BY <2>1 DEF LoseManifest, CorruptRows
<1>3. losses' = losses
  <2>1. CASE UserEdit
    BY <2>1 DEF UserEdit, Create, Modify, Delete, Rename, Edit
  <2>2. CASE RunStep
    BY <2>2 DEF RunStep, WalkChain, LoadQueue, Reconcile, StampInc, ListVault, ReadFile,
        ReadVanished, BuildFull, BuildInc, SkipInc, UploadBlob, PutManifest, AppendRow, PutHead,
        SaveLocalIndex, FinishRun, counts
  <2> QED BY <1>2, <2>1, <2>2
          DEF Next, PersistQueue, StartFull, TickInc, ManualInc, StartInc, FailRun, Stop, Load,
              vars, counts
<1> QED BY <1>2, <1>3

LEMMA NextIndexOK ==
    ASSUME Base, TypesInv', losses = 0 => ChainInv, ManOK, IndexOK, RunGap >= Minute, [Next]_vars
    PROVE  IndexOK'
<1> SUFFICES ASSUME losses' = 0 PROVE IndexOK'
  BY DEF IndexOK
<1>0. losses = 0 /\ ChainInv /\ ~(\E id \in DOMAIN manifests : LoseManifest(id)) /\ ~CorruptRows
  BY LossesGrow DEF Base
<1>1. CASE PutManifest
  BY <1>0, <1>1, PutManifestIndex
<1>2. CASE SaveLocalIndex
  BY <1>0, <1>2, SaveIndexIndex
<1>3. CASE /\ UNCHANGED <<manifests, index>>
           /\ pc' \in {"row", "head", "index"} => man' = man /\ (pc' = pc \/ pc \in {"row", "head"})
  BY <1>0, <1>3 DEF IndexOK
<1>4. PutManifest \/ SaveLocalIndex
      \/ /\ UNCHANGED <<manifests, index>>
         /\ pc' \in {"row", "head", "index"} => man' = man /\ (pc' = pc \/ pc \in {"row", "head"})
  <2>1. CASE UserEdit
    BY <2>1 DEF UserEdit, Create, Modify, Delete, Rename, Edit, run, remote
  <2>2. CASE RunStep
    BY <2>2 DEF RunStep, WalkChain, LoadQueue, Reconcile, StampInc, ListVault, ReadFile,
        ReadVanished, BuildFull, BuildInc, SkipInc, UploadBlob, AppendRow, PutHead,
        FinishRun, EnterFull, RunOver, run, remote
  <2> QED BY <1>0, <2>1, <2>2
          DEF Next, PersistQueue, StartFull, TickInc, ManualInc, StartInc, EnterFull, FailRun,
              Stop, Load, RunOver, vars, run, remote
<1> QED BY <1>1, <1>2, <1>3, <1>4

\* In a vault whose files are not renamed, the local index holds exactly what
\* the last snapshot restores to, whatever failed or stopped between a
\* snapshot and the index: saveLocalIndex and materializeVaultStateAt apply a
\* manifest in different orders and agree.
THEOREM IndexAgreesWithTip ==
    ASSUME RunGap >= Minute, SimpleEdits PROVE Spec => []IndexMatchesTip
<1> DEFINE Inv == Base /\ (losses = 0 => ChainInv) /\ IndexInv
<1>1. Init => Inv
  BY InitTypesInv, InitTimeInv, InitCommitInv, InitChainInv, InitIndexInv DEF Base
<1>2. Inv /\ [Next]_vars => Inv'
  <2> SUFFICES ASSUME Inv, [Next]_vars PROVE Inv'
    OBVIOUS
  <2>1. Base'
    BY NextTypesInv, NextTimeInv, NextCommitInv DEF Base
  <2>2. IndexInv'
    BY <2>1, NextPlainOK, NextReadOK, NextManOK, NextIndexOK DEF IndexInv, Base
  <2>3. losses' = 0 => ChainInv'
    <3>1. losses' = 0 => losses = 0
      BY LossesGrow DEF Base
    <3> QED BY <3>1, NextChainInv
  <2> QED BY <2>1, <2>2, <2>3
<1>3. Inv => IndexMatchesTip
  <2> SUFFICES ASSUME Inv, losses = 0, LastId(index) # NoId
               PROVE  /\ ReachesFull(manifests, LastId(index))
                      /\ index.files = Materialize(manifests, LastId(index))
    BY DEF IndexMatchesTip
  <2>1. Reaching(LastId(index))
    BY DEF Base, CommitInv, InFlight, ChainInv, Stored, LastId
  <2> QED BY <2>1 DEF Reaching, IndexInv, IndexOK
<1> HIDE DEF Inv
<1> QED BY <1>1, <1>2, <1>3, PTL DEF Spec

(***************************************************************************)
(* The queue in the order of its events.                                   *)
(***************************************************************************)
LEMMA AppendRange ==
    ASSUME NEW E, NEW q \in Seq(E), NEW e \in E
    PROVE  Range(Append(q, e)) = Range(q) \cup {e}
<1>1. /\ DOMAIN Append(q, e) = DOMAIN q \cup {Len(q) + 1}
      /\ Append(q, e)[Len(q) + 1] = e
      /\ \A i \in DOMAIN q : Append(q, e)[i] = q[i]
  OBVIOUS
<1> QED BY <1>1 DEF Range

Sorted(q) == \A i, j \in DOMAIN q : i < j => q[i].at < q[j].at

LEMMA AppendSorted ==
    ASSUME NEW E, NEW q \in Seq(E), NEW e \in E, Sorted(q), \A d \in Range(q) : d.at < e.at
    PROVE  Sorted(Append(q, e))
<1>1. /\ DOMAIN Append(q, e) = DOMAIN q \cup {Len(q) + 1}
      /\ Append(q, e)[Len(q) + 1] = e
      /\ \A i \in DOMAIN q : Append(q, e)[i] = q[i] /\ i < Len(q) + 1 /\ i # Len(q) + 1
      /\ \A i \in DOMAIN q : i \in Nat /\ Len(q) + 1 \in Nat
  OBVIOUS
<1> SUFFICES ASSUME NEW i \in DOMAIN Append(q, e), NEW j \in DOMAIN Append(q, e), i < j
             PROVE  Append(q, e)[i].at < Append(q, e)[j].at
  BY DEF Sorted
<1>2. i \in DOMAIN q
  BY <1>1
<1>3. CASE j \in DOMAIN q
  BY <1>1, <1>2, <1>3 DEF Sorted
<1>4. CASE j = Len(q) + 1
  <2>1. q[i] \in Range(q)
    BY <1>2 DEF Range
  <2> QED BY <1>1, <1>2, <1>4, <2>1
<1> QED BY <1>1, <1>3, <1>4

\* A filter keeps what is in the set, in its order.
LEMMA FilterIs ==
    ASSUME NEW E, NEW seq \in Seq(E), NEW S
    PROVE  /\ Filter(seq, S) \in Seq(E)
           /\ Range(Filter(seq, S)) = Range(seq) \cap S
           /\ Sorted(seq) => Sorted(Filter(seq, S))
<1> DEFINE n == Len(seq)
<1>1. PICK f \in [0..n -> Seq(E)] : Filters(f, seq, S) /\ Filter(seq, S) = f[n]
  BY FilterSteps
<1>2. n \in Nat /\ DOMAIN seq = 1..n /\ \A i \in 1..n : seq[i] \in E
  OBVIOUS
<1>3. /\ f[0] = <<>>
      /\ \A k \in 1..n : f[k] = IF seq[k] \in S THEN Append(f[k - 1], seq[k]) ELSE f[k - 1]
  BY <1>1 DEF Filters
<1> HIDE DEF n
<1> DEFINE T == {k \in Nat : /\ Range(f[k]) = {seq[i] : i \in 1..k} \cap S
                             /\ Sorted(seq) => Sorted(f[k])}
<1>4. 0 \in T
  BY <1>3 DEF Range, Sorted
<1>5. ASSUME NEW k \in 0..(n - 1), k \in T PROVE k + 1 \in T
  <2>1. k + 1 \in 1..n /\ k + 1 \in Nat /\ k \in 0..n /\ (k + 1) - 1 = k
    BY <1>2
  <2>2. 1..(k + 1) = 1..k \cup {k + 1} /\ \A i \in 1..k : i \in 1..n /\ i < k + 1
    BY <1>2, <2>1
  <2> DEFINE x == seq[k + 1]
  <2>3. f[k + 1] = (IF x \in S THEN Append(f[k], x) ELSE f[k]) /\ f[k] \in Seq(E) /\ x \in E
    BY <1>2, <1>3, <2>1
  <2>4. {seq[i] : i \in 1..(k + 1)} = {seq[i] : i \in 1..k} \cup {x}
    BY <2>2
  <2> HIDE DEF x
  <2>5. Range(f[k + 1]) = {seq[i] : i \in 1..(k + 1)} \cap S
    <3>1. CASE x \in S
      <4>1. Range(f[k + 1]) = Range(f[k]) \cup {x}
        BY <2>3, <3>1, AppendRange
      <4> QED BY <1>5, <2>4, <3>1, <4>1
    <3>2. CASE x \notin S
      BY <1>5, <2>3, <2>4, <3>2
    <3> QED BY <3>1, <3>2
  <2>6. ASSUME Sorted(seq) PROVE Sorted(f[k + 1])
    <3>1. CASE x \in S
      <4>1. \A d \in Range(f[k]) : d.at < x.at
        <5>1. \A i \in 1..k : seq[i].at < seq[k + 1].at
          BY <1>2, <2>1, <2>2, <2>6 DEF Sorted
        <5> QED BY <1>5, <5>1 DEF x
      <4>2. Sorted(f[k])
        BY <1>5, <2>6
      <4>3. Sorted(Append(f[k], x))
        BY <2>3, <4>1, <4>2, AppendSorted
      <4> QED BY <2>3, <3>1, <4>3
    <3>2. CASE x \notin S
      BY <1>5, <2>3, <2>6, <3>2
    <3> QED BY <3>1, <3>2
  <2> QED BY <2>1, <2>5, <2>6
<1>6. n \in T
  <2> HIDE DEF T
  <2>1. \A k \in 0..n : k \in T
    BY <1>2, <1>4, <1>5, CountUp
  <2> QED BY <1>2, <2>1
<1>7. Range(f[n]) = {seq[i] : i \in 1..n} \cap S /\ (Sorted(seq) => Sorted(f[n]))
  BY <1>6
<1>8. f[n] \in Seq(E) /\ Filter(seq, S) = f[n]
  BY <1>1, <1>2 DEF n
<1>9. {seq[i] : i \in 1..n} = Range(seq)
  BY <1>2 DEF Range
<1> QED BY <1>7, <1>8, <1>9

\* What an event does to the buckets of a vault without renames.
LEMMA BucketPlainEvent ==
    ASSUME "rename" \notin EditKinds, NEW b \in PlainPlans, NEW e \in Plain
    PROVE  /\ BucketEvent(b, e) \in PlainPlans
           /\ e.type \in {"create", "modify"} =>
                  /\ BucketEvent(b, e).changes = b.changes \cup {e.path}
                  /\ BucketEvent(b, e).deleted = b.deleted \ {e.path}
           /\ e.type = "delete" =>
                  /\ BucketEvent(b, e).changes = b.changes \ {e.path}
                  /\ BucketEvent(b, e).deleted = b.deleted \cup {e.path}
           /\ e.type \in {"create", "modify", "delete"}
<1>0. /\ b.changes \subseteq Paths /\ b.deleted \subseteq Paths /\ b.renames = <<>>
      /\ b.changes \cap b.deleted = {} /\ e.path \in Paths
      /\ e.type \in EditKinds /\ e.type \in {"create", "modify", "delete", "rename"}
      /\ b = [changes |-> b.changes, deleted |-> b.deleted, renames |-> b.renames]
  BY DEF PlainPlans, Plans, Plain, Observed, Events
<1>1. CASE e.type \in {"create", "modify"}
  <2> DEFINE d == b.deleted \ {e.path}
             c == b.changes \cup {e.path}
  <2>1. BucketEvent(b, e) = [changes |-> c, deleted |-> d, renames |-> <<>>]
    BY <1>0, <1>1 DEF BucketEvent
  <2>2. c \subseteq Paths /\ d \subseteq Paths /\ c \cap d = {}
    BY <1>0
  <2>3. BucketEvent(b, e) \in PlainPlans
    <3> HIDE DEF c, d
    <3> QED BY <2>1, <2>2 DEF PlainPlans, Plans
  <2> QED BY <1>1, <2>1, <2>3
<1>2. CASE e.type = "delete"
  <2> DEFINE d == b.deleted \cup {e.path}
             c == b.changes \ {e.path}
  <2>1. Filter(b.renames, {r \in Range(b.renames) : r.to # e.path}) = <<>>
    BY <1>0, FilterNothing
  <2>2. b.deleted \cup {e.path} \cup {b.renames[i].from : i \in {j \in DOMAIN b.renames :
                                                            b.renames[j].to = e.path}} = d
    BY <1>0
  <2>3. BucketEvent(b, e) = [changes |-> c, deleted |-> d, renames |-> <<>>]
    BY <1>2, <2>1, <2>2 DEF BucketEvent
  <2>4. c \subseteq Paths /\ d \subseteq Paths /\ c \cap d = {}
    BY <1>0, <1>2
  <2>5. BucketEvent(b, e) \in PlainPlans
    <3> HIDE DEF c, d
    <3> QED BY <2>3, <2>4 DEF PlainPlans, Plans
  <2> QED BY <1>2, <2>3, <2>5
<1> QED BY <1>0, <1>1, <1>2

\* The newest event of its path among the events E.
Newest(E, e) == e \in E /\ \A f \in E : f.path = e.path => f.at <= e.at

\* A path is to be saved or deleted as the newest event about it says.
Says(b, E) ==
    /\ \A p \in b.changes : \E e \in E : e.path = p /\ e.type # "delete" /\ Newest(E, e)
    /\ \A p \in b.deleted : \E e \in E : e.path = p /\ e.type = "delete" /\ Newest(E, e)
    /\ \A e \in E : e.path \in b.changes \cup b.deleted

\* A later event replaces what was said of its path.
LEMMA SaysMore ==
    ASSUME "rename" \notin EditKinds, NEW b \in PlainPlans, NEW E \in SUBSET Plain, Says(b, E),
           NEW x \in Plain, \A e \in E : e.at < x.at
    PROVE  Says(BucketEvent(b, x), E \cup {x})
<1>0. x.at \in Nat /\ \A e \in E : e.at \in Nat
  BY DEF Plain, Observed, Events
<1> DEFINE F == E \cup {x}
<1>1. Newest(F, x)
  <2>1. \A e \in E : e.at <= x.at
    BY <1>0
  <2>2. x.at <= x.at
    BY <1>0
  <2> QED BY <2>1, <2>2 DEF Newest
<1>2. \A e \in E : Newest(E, e) /\ e.path # x.path => Newest(F, e)
  BY DEF Newest
<1>3. \A p \in b.changes : p # x.path =>
          \E e \in F : e.path = p /\ e.type # "delete" /\ Newest(F, e)
  BY <1>2 DEF Says
<1>4. \A p \in b.deleted : p # x.path =>
          \E e \in F : e.path = p /\ e.type = "delete" /\ Newest(F, e)
  BY <1>2 DEF Says
<1> DEFINE c == BucketEvent(b, x)
<1>5. /\ x.type \in {"create", "modify"} => /\ c.changes = b.changes \cup {x.path}
                                            /\ c.deleted = b.deleted \ {x.path}
      /\ x.type = "delete" => /\ c.changes = b.changes \ {x.path}
                              /\ c.deleted = b.deleted \cup {x.path}
      /\ x.type \in {"create", "modify", "delete"}
  BY BucketPlainEvent
<1>6. \A e \in E : e.path \in b.changes \cup b.deleted
  BY DEF Says
<1> HIDE DEF c
<1>7. Says(c, F)
  <2>1. CASE x.type \in {"create", "modify"}
    BY <1>1, <1>3, <1>4, <1>5, <1>6, <2>1 DEF Says
  <2>2. CASE x.type = "delete"
    BY <1>1, <1>3, <1>4, <1>5, <1>6, <2>2 DEF Says
  <2> QED BY <1>5, <2>1, <2>2
<1> QED BY <1>7 DEF c

\* bucketQueueEntries, of a queue in the order of its events.
LEMMA BucketSays ==
    ASSUME "rename" \notin EditKinds, NEW seq \in Seq(Plain), Sorted(seq)
    PROVE  Says(Bucket(seq), Range(seq))
<1> DEFINE n == Len(seq)
<1>1. PICK f \in [0..n -> PlainPlans] : Buckets(f, seq) /\ Bucket(seq) = f[n]
  <2>1. EmptyBuckets \in PlainPlans
    BY DEF EmptyBuckets, PlainPlans, Plans
  <2>2. \A b \in PlainPlans, e \in Plain : BucketEvent(b, e) \in PlainPlans
    BY BucketPlainEvent
  <2> QED BY <2>1, <2>2, BucketSteps
<1>2. n \in Nat /\ DOMAIN seq = 1..n /\ \A i \in 1..n : seq[i] \in Plain
  OBVIOUS
<1>3. /\ f[0] = EmptyBuckets
      /\ \A k \in 1..n : f[k] = BucketEvent(f[k - 1], seq[k])
  BY <1>1 DEF Buckets
<1> HIDE DEF n
<1> DEFINE T == {k \in Nat : Says(f[k], {seq[i] : i \in 1..k})}
<1>4. 0 \in T
  <2>1. {seq[i] : i \in 1..0} = {}
    OBVIOUS
  <2>2. Says(EmptyBuckets, {})
    BY DEF Says, EmptyBuckets
  <2> QED BY <1>3, <2>1, <2>2
<1>5. ASSUME NEW k \in 0..(n - 1), k \in T PROVE k + 1 \in T
  <2>1. k + 1 \in 1..n /\ k + 1 \in Nat /\ k \in 0..n /\ (k + 1) - 1 = k
    BY <1>2
  <2>2. 1..(k + 1) = 1..k \cup {k + 1} /\ \A i \in 1..k : i \in 1..n /\ i < k + 1
    BY <1>2, <2>1
  <2> DEFINE x == seq[k + 1]
             E == {seq[i] : i \in 1..k}
  <2>3. f[k + 1] = BucketEvent(f[k], x) /\ f[k] \in PlainPlans /\ x \in Plain
    BY <1>1, <1>2, <1>3, <2>1
  <2>4. {seq[i] : i \in 1..(k + 1)} = E \cup {x}
    BY <2>2
  <2>5. E \in SUBSET Plain
    BY <1>2, <2>2
  <2>6. \A e \in E : e.at < x.at
    <3>1. \A i \in 1..k : seq[i].at < seq[k + 1].at
      BY <1>2, <2>1, <2>2 DEF Sorted
    <3> QED BY <3>1
  <2>7. Says(f[k], E)
    BY <1>5
  <2> HIDE DEF x, E
  <2>8. Says(f[k + 1], E \cup {x})
    BY <2>3, <2>5, <2>6, <2>7, SaysMore
  <2> QED BY <2>1, <2>4, <2>8
<1>6. n \in T
  <2> HIDE DEF T
  <2>1. \A k \in 0..n : k \in T
    BY <1>2, <1>4, <1>5, CountUp
  <2> QED BY <1>2, <2>1
<1>7. {seq[i] : i \in 1..n} = Range(seq)
  BY <1>2 DEF Range
<1> QED BY <1>1, <1>6, <1>7 DEF n

(***************************************************************************)
(* What was observed is in the index, in the queue, or on its way there.   *)
(***************************************************************************)
Building == {"blobs", "row", "head", "index"}
Visible == Paths \ Excluded

\* What the run in flight will prune the queue up to, unless it fails.
Cut == IF pc \in Building \cup {"cursor"} THEN cursor
       ELSE IF kind = "full" THEN createdAt ELSE LastObservedAt(snap)

Fresh(p) == \E e \in Range(queue) : e.path = p /\ e.at > Cut
InQueue(p) == \E e \in Range(queue) : e.path = p
Same(p) == Lookup(index.files, p) = Lookup(vault, p)

\* The file of the queue is what the memory held some time ago.
Behind(q, r) == /\ Range(q) \subseteq Range(r)
                /\ \A e \in Range(r) \ Range(q), d \in Range(q) : d.at < e.at

QueueInv ==
    /\ Sorted(queue) /\ Sorted(queueDisk) /\ Behind(queueDisk, queue)
    /\ \A e \in Range(queue) : e.at <= clock /\ e.path \notin Excluded

\* The newest event of a path tells whether the file is there.
LastSays ==
    \A e \in Range(queue) : (e.path \notin missed /\ Newest(Range(queue), e))
        => (e.type = "delete" <=> e.path \notin DOMAIN vault)

SnapOK ==
    (kind = "inc" /\ pc \in {"stamp", "read"}) =>
        Range(snap) # {} /\ Sorted(snap) /\ Behind(snap, queue)

PhasesOK ==
    /\ pc \in Building \cup {"cursor"} => cursor <= clock
    /\ pc \in {"idle"} \cup Walking => kind = "inc"
    /\ (kind = "inc" /\ pc # "idle") => index.full # NoId
    /\ index.inc # NoId => index.full # NoId
    /\ pc \in Building => man.type = kind
    /\ pc = "stamp" => plan = Bucket(snap)

\* What a full backup could not have seen an event about is not in its queue.
MissedOld ==
    (kind = "full" /\ pc # "idle") =>
        \A e \in Range(queue) : e.path \in missed => e.at <= Cut

NewFiles == IndexAfter(index, man).files

PlanCovers(p) ==
    (pc = "stamp" /\ p \notin missed /\ ~Fresh(p)) =>
        /\ p \in plan.changes => p \in DOMAIN vault
        /\ p \in plan.deleted => p \notin DOMAIN vault
        /\ p \notin plan.changes \cup plan.deleted => Same(p)
ReadCovers(p) ==
    (pc = "read" /\ kind = "inc" /\ p \notin missed /\ ~Fresh(p)) =>
        /\ p \in plan.changes => p \in todo \cup DOMAIN read
        /\ p \in DOMAIN read => Lookup(vault, p) = {read[p]}
        /\ p \in plan.deleted => p \notin DOMAIN vault
        /\ p \notin plan.changes \cup plan.deleted => Same(p)
ListCovers(p) ==
    (pc = "read" /\ kind = "full" /\ ~Fresh(p)) =>
        /\ p \in DOMAIN vault => p \in todo \cup DOMAIN read
        /\ p \in DOMAIN read => Lookup(vault, p) = {read[p]}
ManifestCovers(p) ==
    (pc \in Building /\ (kind = "full" \/ p \notin missed) /\ ~Fresh(p)) =>
        Lookup(NewFiles, p) = Lookup(vault, p)
IndexCovers(p) ==
    (pc = "cursor" /\ (kind = "full" \/ p \notin missed) /\ ~Fresh(p)) => Same(p)

Covered(p) == index.full # NoId => p \in missed \/ InQueue(p) \/ Same(p)

Covers(p) ==
    /\ PlanCovers(p) /\ ReadCovers(p) /\ ListCovers(p)
    /\ ManifestCovers(p) /\ IndexCovers(p)
    /\ Covered(p)

CoverInv ==
    /\ QueueInv /\ LastSays /\ SnapOK /\ PhasesOK /\ MissedOld
    /\ \A p \in Visible : Covers(p)

\* No renames and no reconcile scan, and events that are further apart than
\* the window within which the queue takes two for one.
EveryEventCounts ==
    /\ "rename" \notin EditKinds /\ ~ReconcileEnabled
    /\ EventGap >= 1 /\ DedupWindow <= EventGap

LEMMA PruneIs ==
    ASSUME NEW seq \in Seq(Plain), NEW t
    PROVE  /\ Prune(seq, t) \in Seq(Plain)
           /\ Range(Prune(seq, t)) = {e \in Range(seq) : e.at > t}
           /\ Sorted(seq) => Sorted(Prune(seq, t))
<1> DEFINE S == {e \in Range(seq) : e.at > t}
<1>1. Range(seq) \cap S = S
  OBVIOUS
<1>2. Prune(seq, t) = Filter(seq, S)
  BY DEF Prune
<1> HIDE DEF S
<1>3. /\ Filter(seq, S) \in Seq(Plain) /\ Range(Filter(seq, S)) = Range(seq) \cap S
      /\ Sorted(seq) => Sorted(Filter(seq, S))
  BY FilterIs
<1> QED BY <1>1, <1>2, <1>3 DEF S

LEMMA RangePlain ==
    ASSUME NEW seq \in Seq(Plain)
    PROVE  /\ \A e \in Range(seq) : /\ e \in Plain /\ e.at \in Nat /\ e.path \in Paths
                                    /\ e.type \in EditKinds
           /\ \A i \in DOMAIN seq : seq[i] \in Range(seq)
           /\ \A e \in Range(seq) : \E i \in DOMAIN seq : e = seq[i]
<1>1. \A i \in DOMAIN seq : seq[i] \in Plain
  OBVIOUS
<1>2. Range(seq) = {seq[i] : i \in DOMAIN seq}
  BY DEF Range
<1>3. \A e \in Plain : e.at \in Nat /\ e.path \in Paths /\ e.type \in EditKinds
  BY DEF Plain, Observed, Events
<1> QED BY <1>1, <1>2, <1>3

\* The last event of a queue is its newest.
LEMMA LastIsNewest ==
    ASSUME NEW seq \in Seq(Plain), Sorted(seq), Range(seq) # {}
    PROVE  /\ LastObservedAt(seq) \in Nat
           /\ \A e \in Range(seq) : e.at <= LastObservedAt(seq)
           /\ \E e \in Range(seq) : e.at = LastObservedAt(seq)
<1> DEFINE n == Len(seq)
           times == {seq[i].at : i \in DOMAIN seq}
<1>1. n \in Nat /\ DOMAIN seq = 1..n
  OBVIOUS
<1>2. PICK e \in Range(seq) : TRUE
  OBVIOUS
<1>3. PICK i \in DOMAIN seq : e = seq[i]
  BY RangePlain
<1>4. n \in DOMAIN seq
  BY <1>1, <1>3
<1>5. \A j \in DOMAIN seq : seq[j].at \in Nat
  BY RangePlain
<1>6. \A j \in DOMAIN seq : seq[j].at <= seq[n].at
  <2> SUFFICES ASSUME NEW j \in DOMAIN seq PROVE seq[j].at <= seq[n].at
    OBVIOUS
  <2>1. j < n \/ j = n
    BY <1>1
  <2>2. CASE j < n
    <3>1. seq[j].at < seq[n].at
      BY <1>4, <2>2 DEF Sorted
    <3> QED BY <1>4, <1>5, <3>1
  <2>3. CASE j = n
    <3>1. seq[n].at <= seq[n].at
      BY <1>4, <1>5
    <3> QED BY <2>3, <3>1
  <2> QED BY <2>1, <2>2, <2>3
<1>7. \E t \in times : \A u \in times : u <= t
  BY <1>4, <1>6
<1> DEFINE m == LastObservedAt(seq)
<1>8. m \in times /\ \A u \in times : u <= m
  BY <1>7 DEF LastObservedAt
<1> HIDE DEF m
<1>9. PICK k \in DOMAIN seq : m = seq[k].at
  BY <1>8
<1>10. m \in Nat /\ seq[k] \in Range(seq)
  BY <1>5, <1>9, RangePlain
<1>11. \A f \in Range(seq) : f.at <= m
  BY <1>8, RangePlain
<1> QED BY <1>9, <1>10, <1>11 DEF m

\* What a queue adds to the one it was read from is newer.
LEMMA OlderIsRead ==
    ASSUME NEW q \in Seq(Plain), NEW r \in Seq(Plain), Sorted(q), Behind(q, r), Range(q) # {},
           NEW e \in Range(r), ~(e.at > LastObservedAt(q))
    PROVE  e \in Range(q)
<1> SUFFICES ASSUME e \notin Range(q) PROVE FALSE
  OBVIOUS
<1>1. PICK d \in Range(q) : d.at = LastObservedAt(q)
  BY LastIsNewest
<1>2. d.at < e.at
  BY DEF Behind
<1> QED BY <1>1, <1>2

(***************************************************************************)
(* An edit changes one path, and its event is the newest.                  *)
(***************************************************************************)
Adds(e) ==
    /\ e \in Plain /\ e.at > clock /\ clock' = e.at
    /\ \A q : q # e.path => /\ Lookup(vault', q) = Lookup(vault, q)
                            /\ q \in DOMAIN vault' <=> q \in DOMAIN vault
    /\ e.type = "delete" <=> e.path \notin DOMAIN vault'
    /\ loaded => /\ queue' = IF e.path \in Excluded THEN queue ELSE Append(queue, e)
                 /\ missed' = missed \ {e.path}
    /\ ~loaded => queue' = queue /\ missed' = missed \cup {e.path}
    /\ UNCHANGED <<loaded, queueDisk, index, run>>

LEMMA NotDropped ==
    ASSUME EveryEventCounts, TypesInv, PlainOK, QueueInv, NEW e, e.at = clock + EventGap
    PROVE  Enqueue(queue, e, DedupWindow) = Append(queue, e)
<1>1. EventGap \in Nat /\ DedupWindow \in Nat /\ clock \in Nat
  BY SnapshotCommitAssumption DEF TypesInv, StoreTypeOK
<1>2. ASSUME NEW i \in DOMAIN queue
      PROVE  ~(e.at - queue[i].at \in (1 - DedupWindow)..(DedupWindow - 1))
  <2>1. queue[i].at \in Nat /\ queue[i].at <= clock
    BY RangePlain DEF PlainOK, QueueInv
  <2> DEFINE t == queue[i].at
  <2>2. t \in Nat /\ t <= clock
    BY <2>1
  <2> HIDE DEF t
  <2>3. ~((clock + EventGap) - t \in (1 - DedupWindow)..(DedupWindow - 1))
    BY <1>1, <2>2 DEF EveryEventCounts
  <2> QED BY <2>3 DEF t
<1> QED BY <1>2 DEF Enqueue, IsDuplicate

LEMMA EditAdds ==
    ASSUME EveryEventCounts, TypesInv, PlainOK, QueueInv, UserEdit
    PROVE  \E e : Adds(e)
<1>1. PICK p, type, after :
         /\ p \in Paths /\ type \in {"create", "modify", "delete"}
         /\ Edit(type, p, NoPath, after)
         /\ \A q : q # p => /\ Lookup(after, q) = Lookup(vault, q)
                            /\ q \in DOMAIN after <=> q \in DOMAIN vault
         /\ type = "delete" <=> p \notin DOMAIN after
  <2> DEFINE Good(p, type, after) ==
                 /\ p \in Paths /\ type \in {"create", "modify", "delete"}
                 /\ Edit(type, p, NoPath, after)
                 /\ \A q : q # p => /\ Lookup(after, q) = Lookup(vault, q)
                                    /\ q \in DOMAIN after <=> q \in DOMAIN vault
                 /\ type = "delete" <=> p \notin DOMAIN after
  <2>1. ASSUME NEW p \in Paths, NEW c \in Contents, Create(p, c) \/ Modify(p, c)
        PROVE  \E type, after : Good(p, type, after)
    <3> DEFINE after == Overlay(vault, [x \in {p} |-> c])
    <3>1. \A q : q # p => /\ Lookup(after, q) = Lookup(vault, q)
                          /\ q \in DOMAIN after <=> q \in DOMAIN vault
      BY DEF Overlay, Lookup
    <3>2. p \in DOMAIN after
      BY DEF Overlay
    <3>3. Edit("create", p, NoPath, after) \/ Edit("modify", p, NoPath, after)
      BY <2>1 DEF Create, Modify
    <3> HIDE DEF after
    <3> QED BY <3>1, <3>2, <3>3
  <2>2. ASSUME NEW p \in Paths, Delete(p)
        PROVE  \E type, after : Good(p, type, after)
    <3> DEFINE after == Without(vault, {p})
    <3>1. \A q : q # p => /\ Lookup(after, q) = Lookup(vault, q)
                          /\ q \in DOMAIN after <=> q \in DOMAIN vault
      BY DEF Without, Lookup
    <3>2. p \notin DOMAIN after
      BY DEF Without
    <3>3. Edit("delete", p, NoPath, after)
      BY <2>2 DEF Delete
    <3> HIDE DEF after
    <3> QED BY <3>1, <3>2, <3>3
  <2>3. ASSUME NEW p \in Paths, NEW q \in Paths PROVE ~Rename(p, q)
    BY DEF Rename, Edit, EveryEventCounts
  <2> QED BY <2>1, <2>2, <2>3 DEF UserEdit
<1> DEFINE e == [type |-> type, path |-> p, prev |-> NoPath, at |-> clock + EventGap]
<1>2. EventGap \in Nat /\ clock \in Nat /\ clock + EventGap \in Nat /\ clock + EventGap > clock
  BY SnapshotCommitAssumption DEF TypesInv, StoreTypeOK, EveryEventCounts
<1>3. type \in EditKinds /\ clock' = clock + EventGap /\ vault' = after
      /\ UNCHANGED <<loaded, index, run, queueDisk>>
  BY <1>1 DEF Edit
<1>4. e \in Plain
  BY <1>1, <1>2, <1>3 DEF Plain, Observed, Events
<1>5. {p, NoPath} \cap Paths = {p}
  BY <1>1, NoPathAssumption
<1>6. Enqueue(queue, e, DedupWindow) = Append(queue, e)
  BY NotDropped
<1>7. /\ loaded => /\ queue' = IF p \in Excluded THEN queue ELSE Append(queue, e)
                   /\ missed' = missed \ {p}
      /\ ~loaded => queue' = queue /\ missed' = missed \cup {p}
  BY <1>1, <1>5, <1>6 DEF Edit
<1>8. e.path = p /\ e.type = type /\ e.at = clock + EventGap
  OBVIOUS
<1> HIDE DEF e
<1>9. Adds(e)
  BY <1>1, <1>2, <1>3, <1>4, <1>7, <1>8 DEF Adds
<1> QED BY <1>9

\* The steps that touch the vault, the queue or what was missed.
LEMMA QuietSteps ==
    ASSUME EveryEventCounts, TypesInv, PlainOK, [Next]_vars
    PROVE  \/ UserEdit \/ PersistQueue \/ SkipInc \/ FinishRun \/ Stop
           \/ UNCHANGED <<vault, queue, queueDisk, missed>> /\ clock' >= clock
<1>1. clock \in Nat /\ RunGap \in Nat
  BY SnapshotCommitAssumption DEF TypesInv, StoreTypeOK
<1> DEFINE Same4 == UNCHANGED <<vault, queue, queueDisk, missed>>
<1>2. ASSUME RunStep, ~SkipInc, ~FinishRun PROVE Same4 /\ clock' = clock
  <2>1. ~Reconcile
    BY DEF Reconcile, PlainOK, EveryEventCounts
  <2> QED BY <1>2, <2>1
          DEF RunStep, WalkChain, LoadQueue, StampInc, ListVault, ReadFile, ReadVanished,
              BuildFull, BuildInc, UploadBlob, PutManifest, AppendRow, PutHead, SaveLocalIndex,
              ghosts
<1>3. ASSUME StartFull \/ TickInc \/ ManualInc PROVE Same4 /\ clock' = clock + RunGap
  BY <1>3 DEF StartFull, TickInc, ManualInc, StartInc, ghosts
<1>4. ASSUME \/ FailRun \/ Load \/ (\E id \in DOMAIN manifests : LoseManifest(id)) \/ CorruptRows
             \/ UNCHANGED vars
      PROVE  Same4 /\ clock' = clock
  BY <1>4 DEF FailRun, Load, LoseManifest, CorruptRows, vars, ghosts
<1> HIDE DEF Same4
<1>5. clock' = clock \/ clock' = clock + RunGap => clock' >= clock
  BY <1>1
<1>6. \/ UserEdit \/ PersistQueue \/ SkipInc \/ FinishRun \/ Stop
      \/ Same4 /\ clock' >= clock
  BY <1>2, <1>3, <1>4, <1>5 DEF Next
<1> QED BY <1>6 DEF Same4

\* Adding the newest event to a queue.
LEMMA AppendNewest ==
    ASSUME NEW q \in Seq(Plain), NEW e \in Plain, \A d \in Range(q) : d.at < e.at
    PROVE  /\ Range(Append(q, e)) = Range(q) \cup {e}
           /\ Sorted(q) => Sorted(Append(q, e))
           /\ \A r : Behind(r, q) => Behind(r, Append(q, e))
<1>1. Range(Append(q, e)) = Range(q) \cup {e}
  BY AppendRange
<1>2. Sorted(q) => Sorted(Append(q, e))
  BY AppendSorted
<1>3. \A r : Behind(r, q) => Behind(r, Append(q, e))
  BY <1>1 DEF Behind
<1> QED BY <1>1, <1>2, <1>3

LEMMA OlderEvents ==
    ASSUME PlainOK, TypesInv, QueueInv, NEW e, Adds(e)
    PROVE  /\ clock \in Nat /\ e.at \in Nat
           /\ \A d \in Range(queue) : d.at \in Nat /\ d.at <= clock /\ d.at < e.at
<1>1. clock \in Nat /\ e.at \in Nat /\ e.at > clock
  BY DEF Adds, Plain, Observed, Events, TypesInv, StoreTypeOK
<1>2. \A d \in Range(queue) : d.at \in Nat /\ d.at <= clock
  BY RangePlain DEF PlainOK, QueueInv
<1>3. \A n \in Nat : n <= clock => n < e.at
  BY <1>1
<1> QED BY <1>1, <1>2, <1>3

LEMMA NextQueueInv ==
    ASSUME EveryEventCounts, TypesInv, PlainOK, QueueInv, [Next]_vars
    PROVE  QueueInv'
<1>0. clock \in Nat
  BY DEF TypesInv, StoreTypeOK
<1>1. CASE UserEdit
  <2>1. PICK e : Adds(e)
    BY <1>1, EditAdds
  <2>2. /\ e.at \in Nat /\ e \in Plain /\ clock' = e.at
        /\ \A d \in Range(queue) : d.at \in Nat /\ d.at <= clock /\ d.at < e.at
    BY <2>1, OlderEvents DEF Adds
  <2>3. \A d \in Range(queue) : d.at <= clock'
    BY <2>2
  <2>4. CASE queue' = queue
    BY <2>1, <2>3, <2>4 DEF QueueInv, Adds
  <2>5. CASE queue' = Append(queue, e) /\ e.path \notin Excluded
    <3>1. /\ Range(queue') = Range(queue) \cup {e} /\ Sorted(queue')
          /\ Behind(queueDisk, queue')
      BY <2>2, <2>5, AppendNewest DEF QueueInv, PlainOK
    <3>2. e.at <= clock'
      BY <2>2
    <3> QED BY <2>1, <2>3, <2>5, <3>1, <3>2 DEF QueueInv, Adds
  <2> QED BY <2>1, <2>4, <2>5 DEF Adds
<1>2. CASE PersistQueue
  BY <1>2 DEF PersistQueue, QueueInv, Behind
<1>3. CASE SkipInc \/ FinishRun
  <2>1. PICK t : queue' = Prune(queue, t) /\ queueDisk' = queue' /\ clock' = clock
    BY <1>3 DEF SkipInc, FinishRun, CommitWindow
  <2>2. Range(queue') \subseteq Range(queue) /\ Sorted(queue')
    BY <2>1, PruneIs DEF QueueInv, PlainOK
  <2> QED BY <2>1, <2>2 DEF QueueInv, Behind
<1>4. CASE Stop
  <2>1. queue' = queueDisk /\ queueDisk' = queueDisk /\ clock' = clock
    BY <1>4 DEF Stop
  <2> QED BY <2>1 DEF QueueInv, Behind
<1>5. CASE UNCHANGED <<vault, queue, queueDisk, missed>> /\ clock' >= clock
  <2>1. \A n \in Nat : n <= clock => n <= clock'
    <3>1. clock' \in Nat
      BY NextTypesInv DEF TypesInv, StoreTypeOK
    <3> QED BY <1>0, <1>5, <3>1
  <2>2. \A d \in Range(queue) : d.at \in Nat
    BY RangePlain DEF PlainOK
  <2> QED BY <1>5, <2>1, <2>2 DEF QueueInv
<1> QED BY <1>1, <1>2, <1>3, <1>4, <1>5, QuietSteps

\* What Stop takes from the queue was an event of a path it declares missed.
LEMMA StopMisses ==
    ASSUME TypesInv, PlainOK, Stop
    PROVE  \A e \in Range(queue) \ Range(queueDisk) : e.path \in missed'
<1> DEFINE S == Range(queue) \ Range(queueDisk)
           gone == Filter(queue, S)
<1>1. missed' = missed \cup Touched(gone)
  BY DEF Stop
<1>2. gone \in Seq(Plain) /\ Range(gone) = Range(queue) \cap S
  BY FilterIs DEF PlainOK
<1> SUFFICES ASSUME NEW e \in S PROVE e.path \in missed'
  OBVIOUS
<1>3. e \in Range(gone)
  BY <1>2
<1> HIDE DEF gone
<1>4. PICK i \in DOMAIN gone : gone[i] = e
  BY <1>2, <1>3, RangePlain
<1>5. e.path \in Paths
  BY <1>2, <1>3, RangePlain
<1> QED BY <1>1, <1>4, <1>5 DEF Touched

\* What an incremental prunes up to is the time of an event it has read.
LEMMA SkipCut ==
    ASSUME PlainOK, SnapOK, pc = "read", kind = "inc"
    PROVE  /\ snap # <<>> /\ LastObservedAt(snap) \in Nat /\ Cut = LastObservedAt(snap)
           /\ \E e \in Range(snap) : e.at = LastObservedAt(snap)
<1>1. Range(snap) # {} /\ Sorted(snap)
  BY DEF SnapOK
<1>2. snap # <<>>
  BY <1>1 DEF Range
<1>3. Cut = LastObservedAt(snap)
  BY DEF Cut, Building
<1> QED BY <1>1, <1>2, <1>3, LastIsNewest DEF PlainOK

LEMMA NextLastSays ==
    ASSUME EveryEventCounts, TypesInv, PlainOK, QueueInv, LastSays, SnapOK, MissedOld, [Next]_vars
    PROVE  LastSays'
<1>0. \A d \in Range(queue) : d.at \in Nat
  BY RangePlain DEF PlainOK
<1>1. CASE UserEdit
  <2>1. PICK e : Adds(e)
    BY <1>1, EditAdds
  <2>2. /\ e.at \in Nat /\ e \in Plain
        /\ \A d \in Range(queue) : d.at \in Nat /\ d.at < e.at
    BY <2>1, OlderEvents DEF Adds
  <2>3. \A f \in Range(queue) : f.path # e.path =>
            /\ f.path \in missed' <=> f.path \in missed
            /\ f.path \in DOMAIN vault' <=> f.path \in DOMAIN vault
    BY <2>1 DEF Adds
  <2>4. CASE queue' = queue
    <3>1. \A f \in Range(queue) : f.path = e.path => f.path \in missed'
      BY <2>1, <2>4 DEF Adds, QueueInv
    <3> QED BY <2>3, <2>4, <3>1 DEF LastSays
  <2>5. CASE queue' = Append(queue, e)
    <3>1. Range(queue') = Range(queue) \cup {e}
      BY <2>2, <2>5, AppendNewest DEF PlainOK
    <3>2. e.type = "delete" <=> e.path \notin DOMAIN vault'
      BY <2>1 DEF Adds
    <3> SUFFICES ASSUME NEW f \in Range(queue'), f.path \notin missed', Newest(Range(queue'), f)
                 PROVE  f.type = "delete" <=> f.path \notin DOMAIN vault'
      BY DEF LastSays
    <3>3. CASE f.path = e.path
      <4>1. e.at <= f.at
        BY <3>1, <3>3 DEF Newest
      <4>2. f = e
        BY <2>2, <3>1, <4>1
      <4> QED BY <3>2, <4>2
    <3>4. CASE f.path # e.path
      <4>1. f \in Range(queue) /\ Newest(Range(queue), f)
        BY <3>1, <3>4 DEF Newest
      <4> QED BY <2>3, <3>4, <4>1 DEF LastSays
    <3> QED BY <3>3, <3>4
  <2> QED BY <2>1, <2>4, <2>5 DEF Adds
<1>2. CASE PersistQueue
  BY <1>2 DEF PersistQueue, LastSays, ghosts
<1>3. CASE SkipInc \/ FinishRun
  <2>1. PICK t \in Nat :
           /\ queue' = Prune(queue, t) /\ vault' = vault
           /\ missed' = missed \/ (FinishRun /\ kind = "full" /\ t = cursor)
    <3>1. ~reconcile
      BY DEF PlainOK, EveryEventCounts
    <3>2. CASE SkipInc
      <4>1. pc = "read" /\ kind = "inc"
        BY <3>2 DEF SkipInc
      <4>2. snap # <<>> /\ LastObservedAt(snap) \in Nat
        BY <4>1, SkipCut
      <4>3. /\ queue' = Prune(queue, LastObservedAt(snap))
            /\ vault' = vault /\ missed' = missed
        BY <3>1, <3>2, <4>2 DEF SkipInc, CommitWindow
      <4> QED BY <4>2, <4>3
    <3>3. CASE FinishRun
      <4>1. /\ queue' = Prune(queue, cursor) /\ vault' = vault /\ cursor \in Nat
            /\ missed' = missed \/ kind = "full"
        BY <3>1, <3>3 DEF FinishRun, CommitWindow, TypesInv, LocalsOK
      <4> QED BY <3>3, <4>1
    <3> QED BY <1>3, <3>2, <3>3
  <2>2. Range(queue') = {e \in Range(queue) : e.at > t}
    BY <2>1, PruneIs DEF PlainOK
  <2> SUFFICES ASSUME NEW f \in Range(queue'), f.path \notin missed', Newest(Range(queue'), f)
               PROVE  f.type = "delete" <=> f.path \notin DOMAIN vault'
    BY DEF LastSays
  <2>3. f \in Range(queue) /\ f.at > t
    BY <2>2
  <2>4. f.path \notin missed
    <3>1. CASE missed' = missed
      BY <3>1
    <3>2. CASE FinishRun /\ kind = "full" /\ t = cursor
      <4>1. Cut = t /\ pc # "idle"
        BY <3>2 DEF Cut, FinishRun
      <4>2. f.path \in missed => f.at <= t
        BY <2>3, <3>2, <4>1 DEF MissedOld
      <4> QED BY <1>0, <2>3, <4>2
    <3> QED BY <2>1, <3>1, <3>2
  <2>6. ASSUME NEW g \in Range(queue), g.path = f.path PROVE g.at <= f.at
    <3>1. CASE g.at > t
      BY <2>2, <2>6, <3>1 DEF Newest
    <3>2. CASE ~(g.at > t)
      BY <1>0, <2>3, <3>2
    <3> QED BY <3>1, <3>2
  <2>7. Newest(Range(queue), f)
    BY <2>3, <2>6 DEF Newest
  <2> QED BY <2>1, <2>3, <2>4, <2>7 DEF LastSays
<1>4. CASE Stop
  <2>1. queue' = queueDisk /\ vault' = vault /\ missed \subseteq missed'
    BY <1>4 DEF Stop
  <2>2. \A e \in Range(queue) \ Range(queueDisk) : e.path \in missed'
    BY <1>4, StopMisses
  <2> SUFFICES ASSUME NEW f \in Range(queue'), f.path \notin missed', Newest(Range(queue'), f)
               PROVE  f.type = "delete" <=> f.path \notin DOMAIN vault'
    BY DEF LastSays
  <2>3. f \in Range(queue)
    BY <2>1 DEF QueueInv, Behind
  <2>4. \A g \in Range(queue) : g.path = f.path => g.at <= f.at
    BY <2>1, <2>2 DEF Newest
  <2> QED BY <2>1, <2>3, <2>4 DEF LastSays, Newest
<1>5. CASE UNCHANGED <<vault, queue, queueDisk, missed>> /\ clock' >= clock
  BY <1>5 DEF LastSays
<1> QED BY <1>1, <1>2, <1>3, <1>4, <1>5, QuietSteps

LEMMA NextSnapOK ==
    ASSUME EveryEventCounts, Base, PlainOK, QueueInv, SnapOK, [Next]_vars
    PROVE  SnapOK'
<1>0. TypesInv /\ InFlight
  BY DEF Base, CommitInv
<1>1. CASE UserEdit
  <2>1. PICK e : Adds(e)
    BY <1>0, <1>1, EditAdds
  <2>2. UNCHANGED <<snap, kind, pc>>
    BY <2>1 DEF Adds, run
  <2>3. /\ e \in Plain /\ \A d \in Range(queue) : d.at < e.at
    BY <1>0, <2>1, OlderEvents DEF Adds
  <2>4. Behind(snap, queue) => Behind(snap, queue')
    <3>1. queue' = queue \/ queue' = Append(queue, e)
      BY <2>1 DEF Adds
    <3>2. Behind(snap, queue) => Behind(snap, Append(queue, e))
      BY <2>3, AppendNewest DEF PlainOK
    <3> QED BY <3>1, <3>2
  <2> QED BY <2>2, <2>4 DEF SnapOK
<1>2. CASE LoadQueue /\ ~RunOver
  <2>1. snap' = queueDisk /\ queueDisk # <<>> /\ UNCHANGED <<queue, queueDisk>>
    BY <1>2 DEF LoadQueue, PlainOK, EveryEventCounts
  <2>2. Range(queueDisk) # {}
    <3>1. queueDisk[1] \in Range(queueDisk)
      BY <2>1, RangePlain DEF PlainOK
    <3> QED BY <3>1
  <2> QED BY <2>1, <2>2 DEF SnapOK, QueueInv
<1>3. CASE UNCHANGED <<snap, queue>> /\ kind' = kind
           /\ (pc' \in {"stamp", "read"} => pc \in {"stamp", "read"})
  BY <1>3 DEF SnapOK
<1>4. CASE kind' = "full" \/ pc' \notin {"stamp", "read"}
  BY <1>4 DEF SnapOK
<1>5. \/ UserEdit \/ (LoadQueue /\ ~RunOver)
      \/ /\ UNCHANGED <<snap, queue>> /\ kind' = kind
         /\ (pc' \in {"stamp", "read"} => pc \in {"stamp", "read"})
      \/ kind' = "full" \/ pc' \notin {"stamp", "read"}
  <2>1. ~Reconcile
    BY DEF Reconcile, PlainOK, EveryEventCounts
  <2>2. CASE ListVault
    BY <1>0, <2>2 DEF ListVault, InFlight
  <2>3. CASE RunStep /\ ~ListVault
    BY <2>1, <2>3 DEF RunStep, WalkChain, LoadQueue, StampInc, ReadFile, ReadVanished, BuildFull,
        BuildInc, SkipInc, UploadBlob, PutManifest, AppendRow, PutHead, SaveLocalIndex,
        FinishRun, EnterFull, RunOver, run
  <2> QED BY <2>2, <2>3
          DEF Next, PersistQueue, StartFull, TickInc, ManualInc, StartInc, EnterFull, FailRun,
              Stop, Load, LoseManifest, CorruptRows, RunOver, vars, run
<1> QED BY <1>1, <1>2, <1>3, <1>4, <1>5

\* The events a run has read are not newer than the clock.
LEMMA SnapPast ==
    ASSUME Base, PlainOK, QueueInv, SnapOK, pc \in {"stamp", "read"}, kind = "inc"
    PROVE  /\ snap # <<>> /\ LastObservedAt(snap) \in Nat /\ LastObservedAt(snap) <= clock
           /\ Cut = LastObservedAt(snap)
<1>1. Range(snap) # {} /\ Sorted(snap) /\ Behind(snap, queue)
  BY DEF SnapOK
<1>2. snap # <<>>
  BY <1>1 DEF Range
<1>3. Cut = LastObservedAt(snap)
  BY DEF Cut, Building
<1>4. LastObservedAt(snap) \in Nat /\ \E e \in Range(snap) : e.at = LastObservedAt(snap)
  BY <1>1, LastIsNewest DEF PlainOK
<1>5. LastObservedAt(snap) <= clock
  BY <1>1, <1>4 DEF Behind, QueueInv
<1> QED BY <1>2, <1>3, <1>4, <1>5

LEMMA ClockGrows ==
    ASSUME EveryEventCounts, Base, PlainOK, QueueInv, [Next]_vars
    PROVE  clock' >= clock /\ clock \in Nat /\ clock' \in Nat
<1>1. clock \in Nat /\ clock' \in Nat
  BY NextTypesInv DEF Base, TypesInv, StoreTypeOK
<1>2. CASE UserEdit
  <2>1. PICK e : Adds(e)
    BY <1>2, EditAdds DEF Base
  <2> QED BY <1>1, <2>1 DEF Adds
<1>3. CASE PersistQueue \/ SkipInc \/ FinishRun \/ Stop
  BY <1>1, <1>3 DEF PersistQueue, SkipInc, FinishRun, Stop
<1> QED BY <1>1, <1>2, <1>3, QuietSteps DEF Base

LEMMA NextPhasesOK ==
    ASSUME EveryEventCounts, Base, PlainOK, QueueInv, SnapOK, PhasesOK, [Next]_vars
    PROVE  PhasesOK'
<1>1. clock' >= clock /\ clock \in Nat /\ clock' \in Nat /\ cursor \in Nat /\ createdAt \in Nat
  BY ClockGrows DEF Base, TypesInv, LocalsOK, StoreTypeOK
<1>2. cursor <= clock => cursor <= clock'
  BY <1>1
<1>3. ~reconcile /\ ~Reconcile
  BY DEF Reconcile, PlainOK, EveryEventCounts
<1> DEFINE NoMore == index.inc # NoId => index.full # NoId
<1>4. CASE RunOver
  <2>1. index' = index
    BY <1>4 DEF Next, RunStep, UserEdit, Create, Modify, Delete, Rename, Edit, PersistQueue,
        StartFull, TickInc, ManualInc, StartInc, EnterFull, RunOver, WalkChain, LoadQueue,
        Reconcile, StampInc, ListVault, ReadFile, ReadVanished, BuildFull, BuildInc, SkipInc,
        UploadBlob, PutManifest, AppendRow, PutHead, SaveLocalIndex, FinishRun, FailRun, Stop,
        Load, LoseManifest, CorruptRows, vars
  <2> QED BY <1>4, <2>1 DEF PhasesOK, RunOver, Building, Walking
<1>5. CASE UserEdit
  <2>1. PICK e : Adds(e)
    BY <1>5, EditAdds DEF Base
  <2>2. UNCHANGED <<index, pc, kind, snap, plan, man, cursor>>
    BY <2>1 DEF Adds, run
  <2> QED BY <1>2, <2>2 DEF PhasesOK
<1>6. CASE UNCHANGED <<index, run>>
  BY <1>2, <1>6 DEF PhasesOK, run
<1>7. CASE StartFull \/ TickInc \/ ManualInc \/ WalkChain
  <2>1. /\ index' = index
        /\ \/ pc' = "list" /\ kind' = "full"
           \/ pc' \in {"queue", "walk"} /\ kind' = kind /\ (index.full # NoId \/ pc = "walk")
    BY <1>7 DEF StartFull, TickInc, ManualInc, StartInc, WalkChain, EnterFull
  <2>2. kind = "inc"
    BY <1>7 DEF StartFull, TickInc, ManualInc, StartInc, WalkChain, PhasesOK, Walking
  <2>3. pc = "walk" => index.full # NoId
    BY <2>2 DEF PhasesOK
  <2> QED BY <2>1, <2>2, <2>3 DEF PhasesOK, Walking, Building
<1>8. CASE LoadQueue /\ ~RunOver
  <2>1. /\ pc = "queue" /\ pc' = "stamp" /\ plan' = Bucket(snap') /\ UNCHANGED <<index, kind>>
    BY <1>3, <1>8 DEF LoadQueue
  <2> QED BY <2>1 DEF PhasesOK, Building, Walking
<1>9. CASE StampInc \/ ListVault
  <2>1. pc' = "read" /\ UNCHANGED <<index, kind>> /\ pc \in {"stamp", "list"}
    BY <1>9 DEF StampInc, ListVault
  <2> QED BY <2>1 DEF PhasesOK, Building, Walking
<1>10. CASE \E p \in Paths : ReadFile(p)
  <2>1. pc = "read" /\ UNCHANGED <<index, kind, pc>>
    BY <1>10 DEF ReadFile
  <2> QED BY <2>1 DEF PhasesOK, Building, Walking
<1>11. CASE BuildFull
  <2>1. /\ pc' = "blobs" /\ cursor' = createdAt /\ clock' = clock /\ man'.type = "full"
        /\ UNCHANGED <<index, kind>> /\ kind = "full" /\ pc = "read"
    BY <1>11 DEF BuildFull, FullManifest
  <2>2. createdAt <= clock
    BY <2>1 DEF Base, TimeInv, Preparing
  <2> QED BY <2>1, <2>2 DEF PhasesOK, Building, Walking
<1>12. CASE BuildInc
  <2>1. pc = "read" /\ kind = "inc"
    BY <1>12 DEF BuildInc
  <2>2. snap # <<>> /\ LastObservedAt(snap) <= clock
    BY <2>1, SnapPast
  <2>3. /\ pc' = "blobs" /\ cursor' = LastObservedAt(snap) /\ clock' = clock
        /\ man'.type = "inc" /\ UNCHANGED <<index, kind>>
    BY <1>12, <2>2 DEF BuildInc, IncManifest
  <2> QED BY <2>1, <2>2, <2>3 DEF PhasesOK, Building, Walking
<1>13. CASE (\E c \in Contents : UploadBlob(c)) \/ PutManifest \/ AppendRow \/ PutHead
  <2>1. pc \in Building /\ pc' \in Building /\ UNCHANGED <<index, kind, man, cursor>>
    BY <1>13 DEF UploadBlob, PutManifest, AppendRow, PutHead, Building, run
  <2> QED BY <1>2, <2>1 DEF PhasesOK, Building, Walking
<1>14. CASE SaveLocalIndex
  <2>1. /\ pc = "index" /\ pc' = "cursor" /\ index' = IndexAfter(index, man)
        /\ UNCHANGED <<kind, cursor>>
    BY <1>14 DEF SaveLocalIndex
  <2>2. man.type = kind /\ man.id # NoId
    BY <2>1, NoIdAssumption DEF PhasesOK, Building, Base, TypesInv, StoreTypeOK
  <2>3. kind = "inc" \/ kind = "full"
    BY DEF Base, TypesInv, StoreTypeOK, Kinds
  <2>4. index'.full # NoId
    BY <2>1, <2>2, <2>3 DEF PhasesOK, IndexAfter
  <2> QED BY <1>2, <2>1, <2>4 DEF PhasesOK, Building, Walking
<1>15. CASE RunStep
  BY <1>3, <1>4, <1>7, <1>8, <1>9, <1>10, <1>11, <1>12, <1>13, <1>14, <1>15
     DEF RunStep, ReadVanished, SkipInc, FinishRun
<1>16. CASE \/ PersistQueue \/ Load \/ (\E id \in DOMAIN manifests : LoseManifest(id))
            \/ CorruptRows \/ UNCHANGED vars
  BY <1>6, <1>16 DEF PersistQueue, Load, LoseManifest, CorruptRows, vars
<1> QED BY <1>4, <1>5, <1>7, <1>15, <1>16 DEF Next, FailRun, Stop

\* A full backup keeps its cut to the end.
LEMMA CutKept ==
    ASSUME EveryEventCounts, PlainOK, PhasesOK, [Next]_vars,
           kind' = "full", pc # "idle", pc' # "idle", ~WalkChain
    PROVE  kind = "full" /\ Cut' = Cut
<1>1. ~reconcile /\ ~Reconcile
  BY DEF Reconcile, PlainOK, EveryEventCounts
<1>2. ~RunOver
  BY DEF RunOver
<1>3. CASE UNCHANGED run \/ UserEdit
  <2>1. UNCHANGED <<pc, kind, cursor, createdAt, snap>>
    BY <1>3 DEF run, UserEdit, Create, Modify, Delete, Rename, Edit
  <2> QED BY <2>1 DEF Cut
<1>4. CASE RunStep /\ ~WalkChain
  <2>1. CASE LoadQueue \/ StampInc
    <3>1. pc \in Walking /\ kind' = kind
      BY <1>2, <2>1 DEF LoadQueue, StampInc, Walking
    <3> QED BY <3>1 DEF PhasesOK
  <2>2. CASE BuildFull
    BY <2>2 DEF BuildFull, Cut, Building
  <2>3. CASE BuildInc
    BY <2>3 DEF BuildInc
  <2>4. CASE ListVault \/ (\E p \in Paths : ReadFile(p))
    BY <2>4 DEF ListVault, ReadFile, Cut, Building
  <2>5. CASE (\E c \in Contents : UploadBlob(c)) \/ PutManifest \/ AppendRow \/ PutHead
             \/ SaveLocalIndex
    BY <2>5 DEF UploadBlob, PutManifest, AppendRow, PutHead, SaveLocalIndex, Cut, Building, run
  <2> QED BY <1>1, <1>2, <1>4, <2>1, <2>2, <2>3, <2>4, <2>5
          DEF RunStep, ReadVanished, SkipInc, FinishRun
<1>5. CASE StartFull \/ TickInc \/ ManualInc
  BY <1>5 DEF StartFull, TickInc, ManualInc, StartInc
<1> QED BY <1>2, <1>3, <1>4, <1>5
        DEF Next, PersistQueue, FailRun, Stop, Load, LoseManifest, CorruptRows, vars

\* A full backup starts with everything observed so far behind it.
LEMMA FullStarts ==
    ASSUME PhasesOK, [Next]_vars, kind' = "full", pc' # "idle", pc = "idle" \/ WalkChain
    PROVE  /\ Cut' = clock' /\ pc' = "list" /\ UNCHANGED <<queue, missed, vault, index>>
<1>1. kind # "full"
  BY DEF PhasesOK, WalkChain, Walking
<1>2. CASE StartFull \/ TickInc \/ ManualInc \/ WalkChain
  <2>1. /\ createdAt' = clock' /\ pc' = "list"
        /\ UNCHANGED <<queue, missed, vault, index>>
    BY <1>1, <1>2 DEF StartFull, TickInc, ManualInc, StartInc, WalkChain, EnterFull, ghosts
  <2> QED BY <2>1 DEF Cut, Building
<1>3. ~(RunStep /\ ~WalkChain)
  <2>1. SUFFICES ASSUME RunStep, pc = "idle" PROVE FALSE
    OBVIOUS
  <2> QED BY <2>1 DEF RunStep, WalkChain, LoadQueue, Reconcile, StampInc, ListVault, ReadFile,
        ReadVanished, BuildFull, BuildInc, SkipInc, UploadBlob, PutManifest, AppendRow, PutHead,
        SaveLocalIndex, FinishRun
<1>4. ~UserEdit /\ ~(UNCHANGED run)
  BY <1>1 DEF UserEdit, Create, Modify, Delete, Rename, Edit, run
<1>5. ~RunOver
  BY DEF RunOver
<1> QED BY <1>2, <1>3, <1>4, <1>5
        DEF Next, PersistQueue, FailRun, Stop, Load, LoseManifest, CorruptRows, vars

LEMMA NextMissedOld ==
    ASSUME EveryEventCounts, Base, PlainOK, QueueInv, PhasesOK, MissedOld, [Next]_vars
    PROVE  MissedOld'
<1> SUFFICES ASSUME kind' = "full", pc' # "idle"
             PROVE  \A e \in Range(queue') : e.path \in missed' => e.at <= Cut'
  BY DEF MissedOld
<1>1. clock' >= clock /\ clock \in Nat /\ clock' \in Nat
  BY ClockGrows
<1>2. \A e \in Range(queue) : e.at \in Nat
  BY RangePlain DEF PlainOK
<1>3. CASE pc = "idle" \/ WalkChain
  <2>1. Cut' = clock' /\ UNCHANGED <<queue, missed>>
    BY <1>3, FullStarts
  <2>2. \A e \in Range(queue) : e.at <= clock'
    BY <1>1, <1>2 DEF QueueInv
  <2> QED BY <2>1, <2>2
<1>4. CASE pc # "idle" /\ ~WalkChain
  <2>1. kind = "full" /\ Cut' = Cut
    BY <1>4, CutKept
  <2>2. CASE UserEdit
    <3>1. PICK e : Adds(e)
      BY <2>2, EditAdds DEF Base
    <3>2. loaded
      BY <1>4 DEF Base, TimeInv
    <3>3. missed' = missed \ {e.path}
      BY <3>1, <3>2 DEF Adds
    <3>4. CASE queue' = queue
      BY <1>4, <2>1, <3>3, <3>4 DEF MissedOld
    <3>5. CASE queue' = Append(queue, e)
      <4>1. e \in Plain
        BY <3>1 DEF Adds
      <4>2. Range(queue') = Range(queue) \cup {e}
        BY <3>5, <4>1, AppendRange DEF PlainOK
      <4> QED BY <1>4, <2>1, <3>3, <4>2 DEF MissedOld
    <3> QED BY <3>1, <3>2, <3>4, <3>5 DEF Adds
  <2>3. ~(SkipInc \/ FinishRun \/ Stop)
    BY DEF SkipInc, FinishRun, Stop, RunOver
  <2>4. CASE UNCHANGED <<queue, missed>>
    BY <1>4, <2>1, <2>4 DEF MissedOld
  <2> QED BY <2>2, <2>3, <2>4, QuietSteps DEF Base, PersistQueue, ghosts
<1> QED BY <1>3, <1>4

LEMMA CutPast ==
    ASSUME Base, PlainOK, QueueInv, SnapOK, PhasesOK,
           pc \in {"stamp", "read"} \cup Building \cup {"cursor"}
    PROVE  Cut \in Nat /\ Cut <= clock
<1>1. createdAt \in Nat /\ cursor \in Nat /\ kind \in {"full", "inc"}
  BY DEF Base, TypesInv, StoreTypeOK, LocalsOK, Kinds
<1>2. CASE pc \in {"stamp", "read"} /\ kind = "inc"
  <2>1. LastObservedAt(snap) \in Nat /\ LastObservedAt(snap) <= clock /\ Cut = LastObservedAt(snap)
    BY <1>2, SnapPast
  <2> QED BY <2>1
<1>3. CASE pc = "read" /\ kind = "full"
  BY <1>1, <1>3 DEF Cut, Building, Base, TimeInv, Preparing
<1>4. CASE pc \in Building \cup {"cursor"}
  BY <1>1, <1>4 DEF Cut, PhasesOK
<1>5. pc = "stamp" => kind = "inc"
  BY DEF PhasesOK, Walking
<1> QED BY <1>1, <1>2, <1>3, <1>4, <1>5

\* A path nothing happened to is covered as before.
LEMMA StillCovered ==
    ASSUME NEW p, Covers(p), UNCHANGED <<index, run>>,
           Lookup(vault', p) = Lookup(vault, p), p \in DOMAIN vault' <=> p \in DOMAIN vault,
           p \in missed' <=> p \in missed, Range(queue) \subseteq Range(queue')
    PROVE  Covers(p)'
<1>1. /\ UNCHANGED <<pc, kind, plan, todo, read, man, index>> /\ Cut' = Cut
      /\ NewFiles' = NewFiles
  BY DEF run, Cut, NewFiles
<1>2. /\ Fresh(p) => Fresh(p)'
      /\ InQueue(p) => InQueue(p)'
  BY <1>1 DEF Fresh, InQueue
<1>3. Same(p)' <=> Same(p)
  BY DEF Same
<1>4. PlanCovers(p)' /\ ReadCovers(p)'
  BY <1>1, <1>2, <1>3 DEF Covers, PlanCovers, ReadCovers
<1>5. ListCovers(p)' /\ ManifestCovers(p)'
  BY <1>1, <1>2, <1>3 DEF Covers, ListCovers, ManifestCovers
<1>6. IndexCovers(p)' /\ Covered(p)'
  BY <1>1, <1>2, <1>3 DEF Covers, IndexCovers, Covered
<1> QED BY <1>4, <1>5, <1>6 DEF Covers

\* Where no run holds anything of the vault, only the index covers a path.
LEMMA OnlyIndexCovers ==
    ASSUME NEW p, Covered(p)', pc' \notin {"stamp", "read", "cursor"} \cup Building
    PROVE  Covers(p)'
BY DEF Covers, PlanCovers, ReadCovers, ListCovers, ManifestCovers, IndexCovers, Building

LEMMA CoversEdit ==
    ASSUME EveryEventCounts, Base, PlainOK, QueueInv, SnapOK, PhasesOK, UserEdit,
           NEW p \in Visible, Covers(p)
    PROVE  Covers(p)'
<1>1. PICK e : Adds(e)
  BY EditAdds DEF Base
<1>2. e \in Plain /\ UNCHANGED <<index, run>>
  BY <1>1 DEF Adds
<1>3. Range(Append(queue, e)) = Range(queue) \cup {e}
  BY <1>2, AppendRange DEF PlainOK
<1>4. CASE p # e.path
  <2>1. /\ Lookup(vault', p) = Lookup(vault, p) /\ (p \in DOMAIN vault' <=> p \in DOMAIN vault)
        /\ (p \in missed' <=> p \in missed)
    BY <1>1, <1>4 DEF Adds
  <2>2. Range(queue) \subseteq Range(queue')
    <3>1. queue' = queue \/ queue' = Append(queue, e)
      BY <1>1 DEF Adds
    <3> QED BY <1>3, <3>1
  <2> QED BY <1>2, <2>1, <2>2, StillCovered
<1>5. CASE p = e.path /\ loaded
  <2>1. e \in Range(queue')
    <3>1. queue' = Append(queue, e)
      BY <1>1, <1>5 DEF Adds, Visible
    <3> QED BY <1>3, <3>1
  <2>2. InQueue(p)'
    BY <1>5, <2>1 DEF InQueue
  <2>3. ASSUME pc \in {"stamp", "read"} \cup Building \cup {"cursor"} PROVE Fresh(p)'
    <3>1. Cut \in Nat /\ Cut <= clock
      BY <2>3, CutPast
    <3>2. clock \in Nat /\ e.at \in Nat /\ e.at > clock
      BY <1>1 DEF Adds, Plain, Observed, Events, Base, TypesInv, StoreTypeOK
    <3>3. Cut' = Cut
      BY <1>2 DEF Cut, run
    <3>4. e.at > Cut
      BY <3>1, <3>2
    <3> QED BY <1>5, <2>1, <3>3, <3>4 DEF Fresh
  <2>4. pc' = pc
    BY <1>2 DEF run
  <2> QED BY <2>2, <2>3, <2>4
          DEF Covers, PlanCovers, ReadCovers, ListCovers, ManifestCovers, IndexCovers, Covered
<1>6. CASE p = e.path /\ ~loaded
  <2>1. pc' = "idle" /\ p \in missed'
    BY <1>1, <1>2, <1>6 DEF Adds, run, Base, TimeInv
  <2> QED BY <2>1, OnlyIndexCovers DEF Covered, Building
<1> QED BY <1>4, <1>5, <1>6

LEMMA CoversStop ==
    ASSUME Base, PlainOK, QueueInv, Stop, NEW p \in Visible, Covers(p)
    PROVE  Covers(p)'
<1>1. pc' = "idle" /\ queue' = queueDisk /\ missed \subseteq missed' /\ UNCHANGED <<vault, index>>
  BY DEF Stop, RunOver
<1>2. \A e \in Range(queue) \ Range(queueDisk) : e.path \in missed'
  BY StopMisses DEF Base
<1>3. Covered(p)'
  BY <1>1, <1>2 DEF Covers, Covered, InQueue, Same
<1> QED BY <1>1, <1>3, OnlyIndexCovers DEF Building

\* The plan says of a path what its newest event says.
LEMMA CoversLoad ==
    ASSUME EveryEventCounts, Base, PlainOK, QueueInv, LastSays, PhasesOK, LoadQueue, ~RunOver,
           NEW p \in Visible, Covers(p)
    PROVE  Covers(p)'
<1>1. /\ pc = "queue" /\ pc' = "stamp" /\ snap' = queueDisk /\ plan' = Bucket(queueDisk)
      /\ queueDisk # <<>> /\ UNCHANGED <<index, kind, queue, vault, missed>>
  BY DEF LoadQueue, PlainOK, EveryEventCounts, ghosts
<1>2. kind = "inc" /\ index.full # NoId
  BY <1>1 DEF PhasesOK, Walking
<1>3. Cut' = LastObservedAt(queueDisk)
  BY <1>1, <1>2 DEF Cut, Building
<1>4. /\ queueDisk \in Seq(Plain) /\ queue \in Seq(Plain)
      /\ Sorted(queueDisk) /\ Behind(queueDisk, queue)
  BY DEF PlainOK, QueueInv
<1>5. Range(queueDisk) # {}
  <2>1. queueDisk[1] \in Range(queueDisk)
    BY <1>1, <1>4, RangePlain
  <2> QED BY <2>1
<1> DEFINE b == Bucket(queueDisk)
<1>6. Says(b, Range(queueDisk))
  BY <1>4, BucketSays DEF EveryEventCounts
<1> HIDE DEF b
<1>7. ASSUME p \notin missed, ~(Fresh(p)')
      PROVE  /\ p \in b.changes => p \in DOMAIN vault
             /\ p \in b.deleted => p \notin DOMAIN vault
             /\ p \notin b.changes \cup b.deleted => Same(p)
  <2>1. \A e \in Range(queue) : e.path = p => e \in Range(queueDisk)
    <3> SUFFICES ASSUME NEW e \in Range(queue), e.path = p PROVE e \in Range(queueDisk)
      OBVIOUS
    <3>1. ~(e.at > LastObservedAt(queueDisk))
      BY <1>1, <1>3, <1>7 DEF Fresh
    <3> QED BY <1>4, <1>5, <3>1, OlderIsRead
  <2>2. ASSUME NEW e \in Range(queueDisk), e.path = p, Newest(Range(queueDisk), e)
        PROVE  e.type = "delete" <=> p \notin DOMAIN vault
    <3>1. Newest(Range(queue), e)
      BY <1>4, <2>1, <2>2 DEF Newest, Behind
    <3>2. e \in Range(queue) /\ e.path \notin missed
      BY <1>4, <1>7, <2>2 DEF Behind
    <3> QED BY <2>2, <3>1, <3>2 DEF LastSays
  <2>3. p \in b.changes => p \in DOMAIN vault
    BY <1>6, <2>2 DEF Says
  <2>4. p \in b.deleted => p \notin DOMAIN vault
    BY <1>6, <2>2 DEF Says
  <2>5. p \notin b.changes \cup b.deleted => Same(p)
    <3>1. p \notin b.changes \cup b.deleted => ~InQueue(p)
      BY <1>6, <2>1 DEF Says, InQueue
    <3> QED BY <1>2, <1>7, <3>1 DEF Covers, Covered
  <2> QED BY <2>3, <2>4, <2>5
<1>8. Same(p)' <=> Same(p)
  BY <1>1 DEF Same
<1>9. PlanCovers(p)'
  BY <1>1, <1>7, <1>8 DEF PlanCovers, b
<1>10. Covered(p)'
  BY <1>1, <1>8 DEF Covers, Covered, InQueue
<1> QED BY <1>1, <1>9, <1>10
        DEF Covers, ReadCovers, ListCovers, ManifestCovers, IndexCovers, Building

LEMMA CoversStart ==
    ASSUME Base, ReadOK, PhasesOK, StampInc \/ ListVault, NEW p \in Visible, Covers(p)
    PROVE  Covers(p)'
<1>1. UNCHANGED <<index, kind, queue, vault, missed, snap, plan, read>> /\ pc' = "read"
  BY DEF StampInc, ListVault, ghosts
<1>2. /\ Same(p)' <=> Same(p)
      /\ InQueue(p)' <=> InQueue(p)
  BY <1>1 DEF Same, InQueue
<1>3. DOMAIN read = {}
  BY DEF StampInc, ListVault, ReadOK, Walking
<1>4. Covered(p)'
  BY <1>1, <1>2 DEF Covers, Covered
<1>5. CASE StampInc
  <2>1. pc = "stamp" /\ kind = "inc" /\ todo' = plan.changes \cap DOMAIN vault
    BY <1>5 DEF StampInc, PhasesOK, Walking
  <2>2. Cut' = Cut
    BY <1>1, <2>1 DEF Cut, Building
  <2>3. Fresh(p)' <=> Fresh(p)
    BY <1>1, <2>2 DEF Fresh
  <2>4. ReadCovers(p)'
    BY <1>1, <1>2, <1>3, <2>1, <2>3 DEF Covers, PlanCovers, ReadCovers
  <2> QED BY <1>1, <1>4, <2>1, <2>4
          DEF Covers, PlanCovers, ListCovers, ManifestCovers, IndexCovers, Building
<1>6. CASE ListVault
  <2>1. kind = "full" /\ todo' = DOMAIN vault
    BY <1>6 DEF ListVault, Base, CommitInv, InFlight
  <2>2. ListCovers(p)'
    BY <1>1, <1>3, <2>1 DEF ListCovers
  <2> QED BY <1>1, <1>4, <2>1, <2>2
          DEF Covers, PlanCovers, ReadCovers, ManifestCovers, IndexCovers, Building
<1> QED BY <1>5, <1>6

LEMMA CoversRead ==
    ASSUME NEW q \in Paths, ReadFile(q), NEW p \in Visible, Covers(p)
    PROVE  Covers(p)'
<1>1. /\ pc = "read" /\ pc' = "read" /\ q \in DOMAIN vault /\ todo' = todo \ {q}
      /\ UNCHANGED <<index, kind, queue, vault, missed, snap, createdAt, plan>>
  BY DEF ReadFile, ghosts
<1>2. /\ DOMAIN read' = DOMAIN read \cup {q} /\ read'[q] = vault[q]
      /\ \A x \in DOMAIN read : x # q => read'[x] = read[x]
  BY DEF ReadFile, Overlay
<1>3. /\ Same(p)' <=> Same(p)
      /\ InQueue(p)' <=> InQueue(p)
      /\ Cut' = Cut
  BY <1>1 DEF Same, InQueue, Cut, Building
<1>4. Fresh(p)' <=> Fresh(p)
  BY <1>1, <1>3 DEF Fresh
<1>5. p \in DOMAIN read' => \/ p \in DOMAIN read /\ read'[p] = read[p]
                          \/ Lookup(vault, p) = {read'[p]}
  <2>1. Lookup(vault, q) = {vault[q]}
    BY <1>1 DEF Lookup
  <2> QED BY <1>2, <2>1
<1>6. ReadCovers(p)' /\ ListCovers(p)'
  BY <1>1, <1>2, <1>3, <1>4, <1>5 DEF Covers, ReadCovers, ListCovers
<1> QED BY <1>1, <1>3, <1>6
        DEF Covers, PlanCovers, ManifestCovers, IndexCovers, Covered, Building

LEMMA CoversFull ==
    ASSUME Base, BuildFull, NEW p \in Visible, Covers(p)
    PROVE  Covers(p)'
<1>1. /\ pc = "read" /\ kind = "full" /\ todo = {} /\ pc' = "blobs" /\ cursor' = createdAt
      /\ man'.type = "full" /\ man'.files = read
      /\ UNCHANGED <<index, kind, queue, vault, missed, read>>
  BY DEF BuildFull, FullManifest, ghosts
<1>2. /\ Same(p)' <=> Same(p)
      /\ InQueue(p)' <=> InQueue(p)
      /\ Cut' = Cut
  BY <1>1 DEF Same, InQueue, Cut, Building
<1>3. Fresh(p)' <=> Fresh(p)
  BY <1>1, <1>2 DEF Fresh
<1>4. NewFiles' = read
  BY <1>1 DEF NewFiles, IndexAfter
<1>5. ASSUME ~Fresh(p) PROVE Lookup(read, p) = Lookup(vault, p)
  <2>1. /\ p \in DOMAIN vault => p \in DOMAIN read
        /\ p \in DOMAIN read => Lookup(vault, p) = {read[p]}
    BY <1>1, <1>5 DEF Covers, ListCovers
  <2> QED BY <2>1 DEF Lookup
<1>6. ManifestCovers(p)'
  BY <1>1, <1>3, <1>4, <1>5 DEF ManifestCovers
<1> QED BY <1>1, <1>2, <1>6
        DEF Covers, PlanCovers, ReadCovers, ListCovers, IndexCovers, Covered, Building

\* What an incremental has read, and what it is a difference against.
LEMMA PlanIsRead ==
    ASSUME PlainOK, ReadOK, pc = "read", kind = "inc", todo = {},
           NEW p \in Visible, Covers(p), p \notin missed, ~Fresh(p)
    PROVE  /\ p \in DOMAIN read <=> p \in plan.changes
           /\ p \in DOMAIN read => Lookup(vault, p) = {read[p]} /\ p \notin plan.deleted
           /\ p \in plan.deleted => Lookup(vault, p) = {}
           /\ p \notin plan.changes \cup plan.deleted => Same(p)
<1>1. plan.changes \cap plan.deleted = {} /\ DOMAIN read \subseteq plan.changes
  BY DEF PlainOK, PlainPlans, ReadOK
<1>2. /\ p \in plan.changes => p \in DOMAIN read
      /\ p \in DOMAIN read => Lookup(vault, p) = {read[p]}
      /\ p \in plan.deleted => p \notin DOMAIN vault
      /\ p \notin plan.changes \cup plan.deleted => Same(p)
  BY DEF Covers, ReadCovers
<1> QED BY <1>1, <1>2 DEF Lookup

\* A difference, applied to what it is a difference against.
LEMMA ChangesApplied ==
    ASSUME NEW r, NEW files, NEW deleted, NEW p
    PROVE  LET c == ChangedFiles(r, files)
           IN  /\ (p \in DOMAIN r /\ p \notin deleted) =>
                      Lookup(Overlay(Without(files, deleted), c), p) = {r[p]}
               /\ (p \notin DOMAIN r /\ p \in deleted) =>
                      Lookup(Overlay(Without(files, deleted), c), p) = {}
               /\ (p \notin DOMAIN r /\ p \notin deleted) =>
                      Lookup(Overlay(Without(files, deleted), c), p) = Lookup(files, p)
               /\ (p \in DOMAIN r /\ DOMAIN c = {}) => Lookup(files, p) = {r[p]}
<1> DEFINE c == ChangedFiles(r, files)
<1>1. /\ \A x : x \in DOMAIN c <=> x \in DOMAIN r /\ Lookup(files, x) # {r[x]}
      /\ \A x \in DOMAIN c : c[x] = r[x]
  BY DEF ChangedFiles, Only
<1> HIDE DEF c
<1> DEFINE w == Without(files, deleted)
<1>2. /\ DOMAIN w = DOMAIN files \ deleted
      /\ \A x \in DOMAIN w : w[x] = files[x]
  BY DEF Without
<1> HIDE DEF w
<1> DEFINE o == Overlay(w, c)
<1>3. /\ DOMAIN o = DOMAIN w \cup DOMAIN c
      /\ \A x \in DOMAIN o : o[x] = IF x \in DOMAIN c THEN c[x] ELSE w[x]
  BY DEF Overlay
<1> HIDE DEF o
<1>4. /\ (p \in DOMAIN r /\ p \notin deleted) => Lookup(o, p) = {r[p]}
      /\ (p \notin DOMAIN r /\ p \in deleted) => Lookup(o, p) = {}
      /\ (p \notin DOMAIN r /\ p \notin deleted) => Lookup(o, p) = Lookup(files, p)
      /\ (p \in DOMAIN r /\ DOMAIN c = {}) => Lookup(files, p) = {r[p]}
  BY <1>1, <1>2, <1>3 DEF Lookup
<1> QED BY <1>4 DEF o, w, c

LEMMA CoversInc ==
    ASSUME Base, PlainOK, ReadOK, SnapOK, BuildInc, NEW p \in Visible, Covers(p)
    PROVE  Covers(p)'
<1>1. /\ pc = "read" /\ kind = "inc" /\ todo = {} /\ pc' = "blobs"
      /\ UNCHANGED <<index, kind, queue, vault, missed, read>>
  BY DEF BuildInc, ghosts
<1>2. snap # <<>> /\ Cut = LastObservedAt(snap)
  BY <1>1, SkipCut
<1>3. cursor' = LastObservedAt(snap)
  BY <1>2 DEF BuildInc
<1>4. /\ Same(p)' <=> Same(p)
      /\ InQueue(p)' <=> InQueue(p)
      /\ Cut' = Cut
  BY <1>1, <1>2, <1>3 DEF Same, InQueue, Cut, Building
<1>5. Fresh(p)' <=> Fresh(p)
  BY <1>1, <1>4 DEF Fresh
<1>6. NewFiles' = Overlay(Without(index.files, plan.deleted), ChangedFiles(read, index.files))
  <2> DEFINE m == man'
             c == ChangedFiles(read, index.files)
  <2>1. /\ m.type = "inc" /\ m.files = c /\ m.deleted = plan.deleted /\ m.renames = plan.renames
    BY DEF BuildInc, IncManifest, IncFiles
  <2>2. plan.renames = <<>>
    BY DEF PlainOK, PlainPlans
  <2>3. NewFiles' = IndexFilesAfter(index.files, m)
    BY <1>1, <2>1 DEF NewFiles, IndexAfter
  <2> HIDE DEF m, c
  <2>4. IndexFilesAfter(index.files, m) = Overlay(Without(index.files, m.deleted), m.files)
    BY <2>1, <2>2, IndexPlain
  <2> QED BY <2>1, <2>3, <2>4 DEF c
<1> DEFINE o == Overlay(Without(index.files, plan.deleted), ChangedFiles(read, index.files))
<1>7. ASSUME p \notin missed, ~Fresh(p) PROVE Lookup(o, p) = Lookup(vault, p)
  <2>1. /\ (p \in DOMAIN read /\ p \notin plan.deleted) => Lookup(o, p) = {read[p]}
        /\ (p \notin DOMAIN read /\ p \in plan.deleted) => Lookup(o, p) = {}
        /\ (p \notin DOMAIN read /\ p \notin plan.deleted) =>
               Lookup(o, p) = Lookup(index.files, p)
    BY ChangesApplied
  <2>2. /\ p \in DOMAIN read <=> p \in plan.changes
        /\ p \in DOMAIN read => Lookup(vault, p) = {read[p]} /\ p \notin plan.deleted
        /\ p \in plan.deleted => Lookup(vault, p) = {}
        /\ p \notin plan.changes \cup plan.deleted => Same(p)
    BY <1>1, <1>7, PlanIsRead
  <2> HIDE DEF o
  <2> QED BY <2>1, <2>2 DEF Same
<1> HIDE DEF o
<1>8. ManifestCovers(p)'
  BY <1>1, <1>5, <1>6, <1>7 DEF ManifestCovers, o
<1> QED BY <1>1, <1>4, <1>8
        DEF Covers, PlanCovers, ReadCovers, ListCovers, IndexCovers, Covered, Building

\* Nothing but the queue's events that are newer than the cut remains.
LEMMA PruneToCut ==
    ASSUME PlainOK, queue' = Prune(queue, Cut), NEW p, Fresh(p)
    PROVE  InQueue(p)'
<1>1. Range(queue') = {e \in Range(queue) : e.at > Cut}
  BY PruneIs DEF PlainOK
<1> QED BY <1>1 DEF Fresh, InQueue

LEMMA CoversSkip ==
    ASSUME EveryEventCounts, PlainOK, ReadOK, SnapOK, SkipInc, NEW p \in Visible, Covers(p)
    PROVE  Covers(p)'
<1>1. /\ pc = "read" /\ kind = "inc" /\ todo = {} /\ NothingChanged /\ pc' = "idle"
      /\ UNCHANGED <<index, vault, missed>>
  BY DEF SkipInc, RunOver, PlainOK, EveryEventCounts
<1>2. snap # <<>> /\ Cut = LastObservedAt(snap)
  BY <1>1, SkipCut
<1>3. queue' = Prune(queue, Cut)
  BY <1>2 DEF SkipInc, CommitWindow
<1>4. Fresh(p) => InQueue(p)'
  BY <1>3, PruneToCut
<1>5. ASSUME p \notin missed, ~Fresh(p) PROVE Same(p)
  <2>1. DOMAIN ChangedFiles(read, index.files) = {} /\ plan.deleted = {}
    BY <1>1 DEF NothingChanged, IsEmptyChange, IncFiles
  <2>2. p \in DOMAIN read => Lookup(index.files, p) = {read[p]}
    BY <2>1, ChangesApplied
  <2>3. /\ p \in DOMAIN read <=> p \in plan.changes
        /\ p \in DOMAIN read => Lookup(vault, p) = {read[p]}
        /\ p \notin plan.changes \cup plan.deleted => Same(p)
    BY <1>1, <1>5, PlanIsRead
  <2> QED BY <2>1, <2>2, <2>3 DEF Same
<1>6. Same(p)' <=> Same(p)
  BY <1>1 DEF Same
<1>7. Covered(p)'
  BY <1>1, <1>4, <1>5, <1>6 DEF Covered
<1> QED BY <1>1, <1>7, OnlyIndexCovers DEF Building

LEMMA CoversCommit ==
    ASSUME (\E c \in Contents : UploadBlob(c)) \/ PutManifest \/ AppendRow \/ PutHead,
           NEW p \in Visible, Covers(p)
    PROVE  Covers(p)'
<1>1. /\ pc \in Building /\ pc' \in Building
      /\ UNCHANGED <<index, kind, queue, vault, missed, man, cursor>>
  BY DEF UploadBlob, PutManifest, AppendRow, PutHead, Building, run, ghosts
<1>2. /\ Same(p)' <=> Same(p)
      /\ InQueue(p)' <=> InQueue(p)
      /\ Cut' = Cut /\ NewFiles' = NewFiles
  BY <1>1 DEF Same, InQueue, Cut, NewFiles
<1>3. Fresh(p)' <=> Fresh(p)
  BY <1>1, <1>2 DEF Fresh
<1>4. ManifestCovers(p)' /\ Covered(p)'
  BY <1>1, <1>2, <1>3 DEF Covers, ManifestCovers, Covered
<1> QED BY <1>1, <1>4
        DEF Covers, PlanCovers, ReadCovers, ListCovers, IndexCovers, Building

LEMMA CoversSave ==
    ASSUME SaveLocalIndex, NEW p \in Visible, Covers(p)
    PROVE  Covers(p)'
<1>1. /\ pc = "index" /\ pc' = "cursor" /\ index' = IndexAfter(index, man)
      /\ UNCHANGED <<kind, queue, vault, missed, cursor>>
  BY DEF SaveLocalIndex, ghosts
<1>2. /\ index'.files = NewFiles /\ Cut' = Cut
      /\ InQueue(p)' <=> InQueue(p)
  BY <1>1 DEF NewFiles, Cut, InQueue, Building
<1>3. Fresh(p)' <=> Fresh(p)
  BY <1>1, <1>2 DEF Fresh
<1>4. (kind = "full" \/ p \notin missed) /\ ~Fresh(p) => Same(p)'
  BY <1>1, <1>2 DEF Covers, ManifestCovers, Same, Building
<1>5. Fresh(p) => InQueue(p)
  BY DEF Fresh, InQueue
<1>6. IndexCovers(p)' /\ Covered(p)'
  BY <1>1, <1>2, <1>3, <1>4, <1>5 DEF IndexCovers, Covered
<1> QED BY <1>1, <1>6
        DEF Covers, PlanCovers, ReadCovers, ListCovers, ManifestCovers, Building

LEMMA CoversFinish ==
    ASSUME EveryEventCounts, PlainOK, FinishRun, NEW p \in Visible, Covers(p)
    PROVE  Covers(p)'
<1>1. /\ pc = "cursor" /\ pc' = "idle" /\ queue' = Prune(queue, cursor)
      /\ missed' = IF kind = "full" THEN {} ELSE missed
      /\ UNCHANGED <<index, vault>>
  BY DEF FinishRun, RunOver, CommitWindow, PlainOK, EveryEventCounts
<1>2. Cut = cursor
  BY <1>1 DEF Cut
<1>3. Fresh(p) => InQueue(p)'
  BY <1>1, <1>2, PruneToCut
<1>4. (kind = "full" \/ p \notin missed) /\ ~Fresh(p) => Same(p)'
  BY <1>1 DEF Covers, IndexCovers, Same
<1>5. Covered(p)'
  BY <1>1, <1>3, <1>4 DEF Covered
<1> QED BY <1>1, <1>5, OnlyIndexCovers DEF Building

LEMMA NextCovers ==
    ASSUME EveryEventCounts, Base, PlainOK, ReadOK, QueueInv, LastSays, SnapOK, PhasesOK,
           [Next]_vars, NEW p \in Visible, Covers(p)
    PROVE  Covers(p)'
<1>1. CASE UserEdit
  BY <1>1, CoversEdit
<1>2. CASE Stop
  BY <1>2, CoversStop
<1>3. ASSUME pc' \notin {"stamp", "read", "cursor"} \cup Building,
             UNCHANGED <<index, queue, vault, missed>>
      PROVE  Covers(p)'
  <2>1. Covered(p)'
    BY <1>3 DEF Covers, Covered, InQueue, Same
  <2> QED BY <1>3, <2>1, OnlyIndexCovers
<1>4. CASE StartFull \/ TickInc \/ ManualInc \/ FailRun
  <2>1. /\ pc' \in {"list", "queue", "walk", "idle"}
        /\ UNCHANGED <<index, queue, vault, missed>>
    BY <1>4 DEF StartFull, TickInc, ManualInc, StartInc, EnterFull, FailRun, RunOver, ghosts
  <2> QED BY <1>3, <2>1 DEF Building
<1>5. CASE RunStep
  <2>1. ~Reconcile
    BY DEF Reconcile, PlainOK, EveryEventCounts
  <2>2. CASE WalkChain \/ (LoadQueue /\ RunOver) \/ (\E q \in Paths : ReadVanished(q))
    <3>1. /\ pc' \in {"list", "queue", "idle"} /\ UNCHANGED <<index, queue, vault, missed>>
      BY <2>2 DEF WalkChain, LoadQueue, ReadVanished, EnterFull, RunOver, ghosts
    <3> QED BY <1>3, <3>1 DEF Building
  <2>3. CASE LoadQueue /\ ~RunOver
    BY <2>3, CoversLoad
  <2>4. CASE StampInc \/ ListVault
    BY <2>4, CoversStart
  <2>5. CASE \E q \in Paths : ReadFile(q)
    BY <2>5, CoversRead
  <2>6. CASE BuildFull
    BY <2>6, CoversFull
  <2>7. CASE BuildInc
    BY <2>7, CoversInc
  <2>8. CASE SkipInc
    BY <2>8, CoversSkip
  <2>9. CASE (\E c \in Contents : UploadBlob(c)) \/ PutManifest \/ AppendRow \/ PutHead
    BY <2>9, CoversCommit
  <2>10. CASE SaveLocalIndex
    BY <2>10, CoversSave
  <2>11. CASE FinishRun
    BY <2>11, CoversFinish
  <2> QED BY <1>5, <2>1, <2>2, <2>3, <2>4, <2>5, <2>6, <2>7, <2>8, <2>9, <2>10, <2>11 DEF RunStep
<1>6. CASE \/ PersistQueue \/ Load \/ (\E id \in DOMAIN manifests : LoseManifest(id))
           \/ CorruptRows \/ UNCHANGED vars
  <2>1. UNCHANGED <<index, run, queue, vault, missed>>
    BY <1>6 DEF PersistQueue, Load, LoseManifest, CorruptRows, vars, ghosts
  <2>2. /\ Lookup(vault', p) = Lookup(vault, p) /\ (p \in DOMAIN vault' <=> p \in DOMAIN vault)
        /\ (p \in missed' <=> p \in missed) /\ Range(queue) \subseteq Range(queue')
    BY <2>1
  <2> QED BY <2>1, <2>2, StillCovered
<1> QED BY <1>1, <1>2, <1>4, <1>5, <1>6 DEF Next

LEMMA NextCoverInv ==
    ASSUME EveryEventCounts, Base, PlainOK, ReadOK, CoverInv, [Next]_vars
    PROVE  CoverInv'
<1>0. TypesInv /\ QueueInv /\ LastSays /\ SnapOK /\ PhasesOK /\ MissedOld
      /\ \A p \in Visible : Covers(p)
  BY DEF CoverInv, Base
<1>1. QueueInv'
  BY <1>0, NextQueueInv
<1>2. LastSays'
  BY <1>0, NextLastSays
<1>3. SnapOK' /\ PhasesOK' /\ MissedOld'
  BY <1>0, NextSnapOK, NextPhasesOK, NextMissedOld
<1>4. \A p \in Visible : Covers(p)'
  BY <1>0, NextCovers
<1>5. (\A p \in Visible : Covers(p))'
  BY <1>4 DEF Visible
<1> QED BY <1>1, <1>2, <1>3, <1>5 DEF CoverInv

LEMMA InitCoverInv == Init => CoverInv
<1> SUFFICES ASSUME Init PROVE CoverInv
  OBVIOUS
<1>1. /\ queue = <<>> /\ queueDisk = <<>> /\ pc = "idle" /\ kind = "inc"
      /\ index.full = NoId /\ index.inc = NoId
  BY DEF Init, RunInit, NoIndex
<1>2. Range(queue) = {} /\ Range(queueDisk) = {} /\ DOMAIN queue = {} /\ DOMAIN queueDisk = {}
  BY <1>1 DEF Range
<1>3. QueueInv
  BY <1>2 DEF QueueInv, Sorted, Behind
<1>4. LastSays /\ SnapOK /\ PhasesOK /\ MissedOld
  BY <1>1, <1>2 DEF LastSays, SnapOK, PhasesOK, MissedOld, Building, Walking
<1>5. \A p \in Visible : Covers(p)
  BY <1>1 DEF Covers, PlanCovers, ReadCovers, ListCovers, ManifestCovers, IndexCovers, Covered,
      Building
<1> QED BY <1>3, <1>4, <1>5 DEF CoverInv

\* A change the plugin saw is never forgotten, whatever is edited during a
\* run, fails, or dies with the queue of the memory ahead of its file: it is
\* in the last snapshot or still in the queue.  Renames, the reconcile scan and
\* events within the dedup window are left out: with each of them it fails.
THEOREM ObservedChangesAreKept ==
    ASSUME RunGap >= Minute, EveryEventCounts PROVE Spec => []NoObservedChangeLost
<1> DEFINE Inv == Base /\ (losses = 0 => ChainInv) /\ IndexInv /\ CoverInv
<1>0. SimpleEdits
  BY DEF SimpleEdits, EveryEventCounts
<1>1. Init => Inv
  BY InitTypesInv, InitTimeInv, InitCommitInv, InitChainInv, InitIndexInv, InitCoverInv DEF Base
<1>2. Inv /\ [Next]_vars => Inv'
  <2> SUFFICES ASSUME Inv, [Next]_vars PROVE Inv'
    OBVIOUS
  <2>1. Base'
    BY NextTypesInv, NextTimeInv, NextCommitInv DEF Base
  <2>2. IndexInv'
    BY <1>0, <2>1, NextPlainOK, NextReadOK, NextManOK, NextIndexOK DEF IndexInv, Base
  <2>3. losses' = 0 => ChainInv'
    <3>1. losses' = 0 => losses = 0
      BY LossesGrow DEF Base
    <3> QED BY <3>1, NextChainInv
  <2>4. CoverInv'
    BY NextCoverInv DEF IndexInv
  <2> QED BY <2>1, <2>2, <2>3, <2>4
<1>3. Inv => NoObservedChangeLost
  <2> SUFFICES ASSUME Inv, losses = 0, LastId(index) # NoId, NEW p \in Visible,
                      Lookup(Tip, p) # Lookup(vault, p)
               PROVE  p \in Touched(queue) \cup missed
    BY DEF NoObservedChangeLost, Visible
  <2>1. index.files = Tip
    BY DEF IndexInv, IndexOK, Tip
  <2>2. index.full # NoId
    BY DEF LastId, CoverInv, PhasesOK
  <2>3. p \in missed \/ InQueue(p)
    BY <2>1, <2>2 DEF CoverInv, Covers, Covered, Same
  <2>4. InQueue(p) => p \in Touched(queue)
    <3> SUFFICES ASSUME InQueue(p) PROVE p \in Touched(queue)
      OBVIOUS
    <3>1. PICK e \in Range(queue) : e.path = p
      BY DEF InQueue
    <3>2. PICK i \in DOMAIN queue : queue[i] = e
      BY <3>1, RangePlain DEF IndexInv, PlainOK
    <3> QED BY <3>1, <3>2 DEF Touched, Visible
  <2> QED BY <2>3, <2>4
<1> HIDE DEF Inv
<1> QED BY <1>1, <1>2, <1>3, PTL DEF Spec
=============================================================================
