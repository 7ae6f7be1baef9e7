--------------------------- MODULE Restore_proofs ---------------------------
(***************************************************************************)
(* For every backup history, every vault and any number of clicks and      *)
(* failures: what a restore reports, what it does to the files of the      *)
(* vault, what the views show, and which versions of a file they list.     *)
(***************************************************************************)
EXTENDS RestoreProperties, FiniteSetTheorems, WellFoundedInduction, TLAPS

OpFields == {"n", "kind", "mode", "id", "todo", "pc", "path", "bytes", "shown", "ok", "failed"}
CacheFields == {"index", "latch", "kept", "asked", "late"}

(***************************************************************************)
(* The manifest cache.  A step leaves it alone, asks for the index, loads  *)
(* manifests, or is one of those that the download and Dropbox take.       *)
(***************************************************************************)
CacheTyped ==
    /\ DOMAIN cache = CacheFields
    /\ cache.asked \in Nat /\ cache.late \in BOOLEAN
    /\ outdated \in BOOLEAN
    /\ DOMAIN downloads \subseteq Nat

Quiet == UNCHANGED dropboxVars
Asks == AskForIndex /\ UNCHANGED <<remote, damaged, outdated>>
Loads == /\ \E ids : CanLoad(ids) /\ Load(ids)
         /\ UNCHANGED <<remote, damaged, outdated, downloads>>
DropboxMoves ==
    \/ FolderChanges \/ Invalidate \/ DamageBlob
    \/ \E n \in DOMAIN downloads : ServerReads(n) \/ IndexArrives(n) \/ IndexFails(n)

LEMMA ClickEffect == UserClicks => Quiet \/ Asks
<1> SUFFICES ASSUME UserClicks PROVE Quiet \/ Asks
  OBVIOUS
<1>1. CASE BrowserClick
  BY <1>1 DEF BrowserClick, Open, Close, Refresh, Search, SelectDir, SelectSnapshot,
      SelectFile, RestoreFile, RestoreDir, Asks, Quiet, restoreVars
<1>2. CASE ~BrowserClick
  BY <1>2 DEF UserClicks, OpenVersions, ShowHistory, CloseVersions, SelectVersion,
      RestoreVersion, PreviewVersion, RestoreFromHistory, CloseHistory, Asks, Quiet
<1> QED BY <1>1, <1>2

LEMMA FetchedLoads ==
    ASSUME NEW id, NEW path, FetchContent(id, path) # {}
    PROVE  CanLoad(Chain(id))
BY DEF FetchContent

LEMMA AnswerEffect == AnswersCome => Quiet \/ Loads \/ DropboxMoves
<1> SUFFICES ASSUME AnswersCome PROVE Quiet \/ Loads \/ DropboxMoves
  OBVIOUS
<1>1. CASE \E n \in DOMAIN downloads : DownloadEnds(n)
  BY <1>1 DEF DownloadEnds, DropboxMoves
<1>2. ASSUME NEW c \in calls, BrowserAnswer(c) PROVE Quiet \/ Loads
  <2>1. CASE Materialized(c)
    BY <2>1 DEF Materialized, Loads
  <2>2. CASE ParentDone(c)
    BY <2>2 DEF ParentDone, LoadParent, Loads, Quiet, dropboxVars
  <2>3. CASE Fetched(c)
    BY <2>3, FetchedLoads DEF Fetched, Loads
  <2>4. CASE \/ SnapshotsListed(c) \/ Refreshed(c) \/ MaterializeFails(c)
             \/ FetchFails(c) \/ Rendered(c)
    BY <2>4 DEF SnapshotsListed, Refreshed, MaterializeFails, FetchFails, Rendered,
        Quiet, restoreVars, dropboxVars
  <2> QED BY <1>2, <2>1, <2>2, <2>3, <2>4 DEF BrowserAnswer
<1>3. ASSUME NEW c \in calls, VersionsListed(c) PROVE Loads
  <2>1. PICK ids : /\ ids = {id \in UNION {index.ids : index \in c.got} : CanLoad({id})}
                   /\ Load(ids)
    BY <1>3 DEF VersionsListed
  <2>2. CanLoad(ids)
    BY <2>1 DEF CanLoad
  <2> QED BY <1>3, <2>1, <2>2 DEF VersionsListed, Loads
<1>4. ASSUME NEW c \in calls, HistoryListed(c) PROVE Quiet \/ Loads
  BY <1>4 DEF HistoryListed, Loads, Quiet, dropboxVars
<1>5. ASSUME NEW c \in calls, VersionFetched(c) \/ Previewed(c) PROVE Loads
  BY <1>5, FetchedLoads DEF VersionFetched, Previewed, Loads
<1>6. ASSUME NEW c \in calls, VersionFails(c) \/ VersionRendered(c) \/ PreviewFails(c)
      PROVE  Quiet
  BY <1>6 DEF VersionFails, VersionRendered, PreviewFails, Quiet, restoreVars, dropboxVars
<1> QED BY <1>1, <1>2, <1>3, <1>4, <1>5, <1>6 DEF AnswersCome

LEMMA OpEffect == \A o : OpStep(o) => Quiet \/ Loads
<1> SUFFICES ASSUME NEW o, OpStep(o) PROVE Quiet \/ Loads
  OBVIOUS
<1>1. CASE PlanDirectory(o)
  BY <1>1 DEF PlanDirectory, Loads, Quiet, dropboxVars
<1>2. CASE FetchFile(o)
  BY <1>2 DEF FetchFile, FetchContent, Loads, Quiet, dropboxVars
<1>3. CASE ~PlanDirectory(o) /\ ~FetchFile(o)
  BY <1>3 DEF OpStep, BeginFile, WriteFile, ClearPlace, MoveIntoPlace, FileError, Quiet
<1> QED BY <1>1, <1>2, <1>3

LEMMA CacheEffect == Next \/ UNCHANGED vars => Quiet \/ Asks \/ Loads \/ DropboxMoves
<1> SUFFICES ASSUME Next \/ UNCHANGED vars PROVE Quiet \/ Asks \/ Loads \/ DropboxMoves
  OBVIOUS
<1>1. CASE Meanwhile
  BY <1>1, OpEffect DEF Meanwhile, DropboxMoves
<1>2. CASE \E o \in ops : RestoreEnds(o)
  BY <1>2 DEF RestoreEnds, EndOp, Quiet
<1>3. CASE UNCHANGED vars
  BY <1>3 DEF vars, restoreVars, dropboxVars, Quiet
<1> QED BY <1>1, <1>2, <1>3, ClickEffect, AnswerEffect DEF Next

\* What Dropbox answered to a download is the newest there is.
Fresh ==
    ~outdated /\ ~cache.late =>
        /\ \A index \in cache.index : index.ids = remote
        /\ cache.kept \subseteq remote
        /\ \A n \in DOMAIN downloads : downloads[n] \subseteq {remote}

CacheInv == CacheTyped /\ Fresh

LEMMA CacheInvInit == Init => CacheInv
<1> SUFFICES ASSUME Init PROVE CacheInv
  OBVIOUS
<1>1. PICK index \in {{}, {[ids |-> remote, from |-> 1]}} :
          cache = [index |-> index, latch |-> {}, kept |-> {},
                   asked |-> Cardinality(index), late |-> FALSE]
  BY DEF Init, RestoreInit
<1>2. cache.asked \in Nat
  <2>1. CASE index = {}
    BY <1>1, <2>1, FS_EmptySet
  <2>2. CASE index = {[ids |-> remote, from |-> 1]}
    <3>1. Cardinality(index) = 1
      BY <2>2, FS_Singleton
    <3> QED BY <1>1, <3>1
  <2> QED BY <1>1, <2>1, <2>2
<1>3. outdated = FALSE /\ DOMAIN downloads = {}
  BY DEF Init, RestoreInit
<1>4. DOMAIN cache = CacheFields /\ cache.late = FALSE
  BY <1>1 DEF CacheFields
<1>5. cache.kept = {} /\ \A i \in cache.index : i.ids = remote
  BY <1>1
<1> QED BY <1>2, <1>3, <1>4, <1>5 DEF CacheInv, CacheTyped, Fresh

LEMMA CacheInvStep == CacheInv /\ [Next]_vars => CacheInv'
<1> SUFFICES ASSUME CacheInv, Next \/ UNCHANGED vars PROVE CacheInv'
  OBVIOUS
<1> USE DEF CacheInv, CacheTyped, CacheFields
<1>1. CASE Quiet
  BY <1>1 DEF Quiet, dropboxVars, Fresh
<1>2. CASE Asks
  <2>1. CASE UNCHANGED <<cache, downloads>>
    BY <1>2, <2>1 DEF Asks, Fresh
  <2>2. CASE /\ cache' = [cache EXCEPT !.latch = {cache.asked + 1}, !.asked = @ + 1]
             /\ downloads' = Overlay(downloads, [n \in {cache.asked + 1} |-> {}])
    <3>1. DOMAIN downloads' = DOMAIN downloads \cup {cache.asked + 1}
      BY <2>2 DEF Overlay
    <3>2. ASSUME NEW n \in DOMAIN downloads'
          PROVE  downloads'[n] = {} \/ (n \in DOMAIN downloads /\ downloads'[n] = downloads[n])
      <4>1. CASE n = cache.asked + 1
        BY <2>2, <3>1, <4>1 DEF Overlay
      <4>2. CASE n # cache.asked + 1
        BY <2>2, <3>1, <4>2 DEF Overlay
      <4> QED BY <4>1, <4>2
    <3>3. /\ DOMAIN cache' = CacheFields /\ cache'.asked = cache.asked + 1
          /\ cache'.late = cache.late /\ cache'.index = cache.index /\ cache'.kept = cache.kept
      BY <2>2
    <3> QED BY <1>2, <3>1, <3>2, <3>3 DEF Asks, Fresh
  <2> QED BY <1>2, <2>1, <2>2 DEF Asks, AskForIndex
<1>3. CASE Loads
  <2>1. PICK ids : CanLoad(ids) /\ Load(ids)
    BY <1>3 DEF Loads
  <2>2. /\ DOMAIN cache' = CacheFields /\ cache'.kept = cache.kept \cup ids
        /\ cache'.asked \in {cache.asked, cache.asked + 1}
        /\ cache'.late = cache.late
        /\ \A index \in cache'.index : index \in cache.index \/ index.ids = remote
    BY <2>1 DEF Load
  <2> QED BY <1>3, <2>1, <2>2 DEF Loads, CanLoad, Fresh
<1>4. CASE FolderChanges
  BY <1>4 DEF FolderChanges, Fresh
<1>5. CASE Invalidate
  <2>1. /\ DOMAIN cache' = CacheFields /\ cache'.asked = cache.asked
        /\ cache'.index = {} /\ cache'.kept = {}
        /\ cache'.late \in BOOLEAN /\ (~cache'.late => downloads = <<>>)
    BY <1>5 DEF Invalidate
  <2>2. ~cache'.late => DOMAIN downloads = {}
    <3>1. DOMAIN <<>> = {}
      OBVIOUS
    <3> QED BY <2>1, <3>1
  <2>3. UNCHANGED <<remote, downloads>> /\ outdated' \in BOOLEAN
    BY <1>5 DEF Invalidate
  <2> QED BY <2>1, <2>2, <2>3 DEF Fresh
<1>6. CASE DamageBlob
  BY <1>6 DEF DamageBlob, Fresh
<1>7. ASSUME NEW n \in DOMAIN downloads, ServerReads(n) PROVE CacheInv'
  BY <1>7 DEF ServerReads, Fresh
<1>8. ASSUME NEW n \in DOMAIN downloads, IndexArrives(n) PROVE CacheInv'
  <2>1. /\ DOMAIN cache' = CacheFields /\ cache'.asked = cache.asked
        /\ cache'.index = Arrived(n) /\ cache'.kept = cache.kept /\ cache'.late = cache.late
    BY <1>8 DEF IndexArrives
  <2>2. \A index \in Arrived(n) : index.ids \in downloads[n]
    BY DEF Arrived
  <2> QED BY <1>8, <2>1, <2>2 DEF IndexArrives, Without, Fresh
<1>9. ASSUME NEW n \in DOMAIN downloads, IndexFails(n) PROVE CacheInv'
  BY <1>9 DEF IndexFails, Without, Fresh
<1> QED BY <1>1, <1>2, <1>3, <1>4, <1>5, <1>6, <1>7, <1>8, <1>9, CacheEffect DEF DropboxMoves

\* What the views and the restores are shown from ManifestCache is what is
\* on Dropbox, as long as invalidate has not overtaken a download of the
\* index, however callers share downloads and whichever of them fail.
THEOREM CacheStaysFresh == Spec => []CacheIsFresh
<1>1. CacheInv => CacheIsFresh
  BY DEF CacheInv, Fresh, CacheIsFresh
<1> QED BY <1>1, CacheInvInit, CacheInvStep, PTL DEF Spec

(***************************************************************************)
(* Restores.  An operation has the mutex of the file it works on, and for  *)
(* itself; what it carries is what the snapshot holds.                     *)
(***************************************************************************)
Resting == {"plan", "next"}
Working == {"fetch", "write", "clear", "move"}
Bytes == Contents \cup {Garbage}
Spots == {spot \in [content : Bytes \cup {NoFile}, known : BOOLEAN] :
             spot.content = NoFile => ~spot.known}

OpsTyped ==
    /\ \A o \in ops : DOMAIN o = OpFields /\ o.pc \in Resting \cup Working
    /\ vault \in [Paths -> Spots]
    /\ DOMAIN tmp = Paths

Mutex ==
    /\ \A o \in ops : IF o.pc \in Working THEN o.path \in Paths \cap active
                      ELSE o.path = NoPath
    /\ \A o, other \in ops : o.path = other.path /\ o.path # NoPath => o = other
    /\ \A p \in active : p \in Paths /\ \E o \in ops : o.path = p

Carried(o) ==
    /\ o.pc \in {"write", "clear", "move"} =>
           o.bytes \in Bytes /\ o.bytes = State[o.id][o.path]
    /\ o.pc \in {"clear", "move"} => tmp[o.path] \subseteq {o.bytes}
    /\ o.pc = "clear" => ~vault[o.path].known

OpsInv ==
    /\ OpsTyped /\ Mutex /\ OkMeansRestored
    /\ \A o \in ops : Carried(o)

LEMMA NoFileIsNoBytes == NoFile \notin Bytes /\ NoPath \notin Paths
BY RestoreAssumption, NoPathAssumption DEF Bytes

\* How an operation and the mutexes change together.
Keeps(o, new) == /\ new.path = o.path /\ (new.pc \in Working <=> o.pc \in Working)
                 /\ active' = active
Takes(o, new) == /\ o.pc \in Resting /\ new.pc = "fetch" /\ new.path \in Paths \ active
                 /\ active' = active \cup {new.path}
Frees(o, new) == /\ o.pc \in Working /\ new.pc = "next" /\ new.path = NoPath
                 /\ active' = active \ {o.path}

LEMMA MutexKept ==
    ASSUME OpsTyped, Mutex, NEW o \in ops, NEW new,
           ops' = (ops \ {o}) \cup {new}, new.pc \in Resting \cup Working,
           Keeps(o, new) \/ Takes(o, new) \/ Frees(o, new)
    PROVE  Mutex'
<1> USE NoFileIsNoBytes DEF Resting, Working
<1>1. CASE Keeps(o, new)
  BY <1>1 DEF Keeps, Mutex, OpsTyped
<1>2. CASE Takes(o, new)
  <2>1. ASSUME NEW other \in ops PROVE other.path # new.path
    <3>1. other.path \in active \/ other.path = NoPath
      BY DEF Mutex
    <3> QED BY <1>2, <3>1 DEF Takes
  <2>2. o.path = NoPath
    BY <1>2 DEF Takes, Mutex
  <2>3. \A q \in ops' : IF q.pc \in Working THEN q.path \in Paths \cap active'
                        ELSE q.path = NoPath
    BY <1>2 DEF Takes, Mutex
  <2>4. \A q, other \in ops' : q.path = other.path /\ q.path # NoPath => q = other
    BY <2>1 DEF Mutex
  <2>5. \A p \in active' : p \in Paths /\ \E q \in ops' : q.path = p
    BY <1>2, <2>2 DEF Takes, Mutex
  <2> QED BY <2>3, <2>4, <2>5 DEF Mutex
<1>3. CASE Frees(o, new)
  <2>1. \A other \in ops \ {o} : other.path # o.path
    BY <1>3 DEF Frees, Mutex
  <2> QED BY <1>3, <2>1 DEF Frees, Mutex
<1> QED BY <1>1, <1>2, <1>3

\* What other operations carry is not touched.
LEMMA OthersCarry ==
    ASSUME OpsInv, NEW o \in ops, NEW other \in ops \ {o},
           \A p \in Paths \ {o.path} : tmp'[p] = tmp[p] /\ vault'[p] = vault[p]
    PROVE  Carried(other)'
<1>1. CASE other.pc \in Working
  <2>1. other.path \in Paths \ {o.path}
    BY <1>1, NoFileIsNoBytes DEF OpsInv, Mutex
  <2> QED BY <2>1 DEF OpsInv, Carried
<1>2. CASE other.pc \notin Working
  BY <1>2 DEF OpsInv, Carried, Working
<1> QED BY <1>1, <1>2

\* The steps of an operation, field by field.
LEMMA PlanEffect ==
    ASSUME OpsTyped, Mutex, NEW o \in ops, PlanDirectory(o)
    PROVE  \E new : /\ ops' = (ops \ {o}) \cup {new} /\ DOMAIN new = OpFields
                    /\ new.kind = o.kind /\ Keeps(o, new) /\ new.pc = "next"
                    /\ UNCHANGED <<vault, tmp, restored>>
<1>1. PICK todo : Set(o, [o EXCEPT !.pc = "next", !.todo = todo])
  BY DEF PlanDirectory
<1>2. o.pc = "plan" /\ UNCHANGED <<vault, tmp, restored, active>>
  BY DEF PlanDirectory
<1> DEFINE new == [o EXCEPT !.pc = "next", !.todo = todo]
<1>3. DOMAIN new = OpFields /\ new.kind = o.kind /\ new.path = o.path /\ new.pc = "next"
  BY DEF OpsTyped, OpFields
<1>4. ops' = (ops \ {o}) \cup {new}
  BY <1>1 DEF Set
<1> HIDE DEF new
<1> QED BY <1>2, <1>3, <1>4 DEF Keeps, Working

LEMMA BeginEffect ==
    ASSUME OpsTyped, Mutex, NEW o \in ops, NEW p \in Paths, BeginFile(o, p)
    PROVE  \E new : /\ ops' = (ops \ {o}) \cup {new} /\ DOMAIN new = OpFields
                    /\ new.kind = o.kind /\ new.pc \in {"next", "fetch"}
                    /\ Keeps(o, new) \/ Takes(o, new)
                    /\ UNCHANGED <<vault, tmp, restored>>
<1>1. o.pc = "next" /\ UNCHANGED <<vault, tmp, restored>> /\ active' = active \cup {p}
  BY DEF BeginFile
<1>2. CASE p \in active
  <2> DEFINE new == [o EXCEPT !.todo = @ \ {p}, !.failed = @ \cup {p}]
  <2>1. DOMAIN new = OpFields /\ new.kind = o.kind /\ new.path = o.path /\ new.pc = "next"
    BY <1>1 DEF OpsTyped, OpFields
  <2>2. ops' = (ops \ {o}) \cup {new} /\ active' = active
    BY <1>1, <1>2 DEF BeginFile, Set
  <2> HIDE DEF new
  <2> QED BY <1>1, <2>1, <2>2 DEF Keeps
<1>3. CASE p \notin active
  <2> DEFINE new == [o EXCEPT !.pc = "fetch", !.path = p, !.todo = @ \ {p}]
  <2>1. DOMAIN new = OpFields /\ new.kind = o.kind /\ new.path = p /\ new.pc = "fetch"
    BY DEF OpsTyped, OpFields
  <2>2. ops' = (ops \ {o}) \cup {new}
    BY <1>3 DEF BeginFile, Set
  <2> HIDE DEF new
  <2> QED BY <1>1, <1>3, <2>1, <2>2 DEF Takes, Resting
<1> QED BY <1>2, <1>3

LEMMA FailEffect ==
    ASSUME OpsTyped, Mutex, NEW o \in ops, o.pc \in Working, FileFails(o)
    PROVE  \E new : /\ ops' = (ops \ {o}) \cup {new} /\ DOMAIN new = OpFields
                    /\ new.kind = o.kind /\ Frees(o, new)
<1> DEFINE new == [o EXCEPT !.pc = "next", !.failed = @ \cup {o.path}, !.path = NoPath]
<1>1. DOMAIN new = OpFields /\ new.kind = o.kind /\ new.path = NoPath /\ new.pc = "next"
  BY DEF OpsTyped, OpFields
<1>2. ops' = (ops \ {o}) \cup {new} /\ active' = active \ {o.path}
  BY DEF FileFails, Set
<1> HIDE DEF new
<1> QED BY <1>1, <1>2 DEF Frees

LEMMA DoneEffect ==
    ASSUME OpsTyped, Mutex, NEW o \in ops, NEW content, o.pc \in Working, FileDone(o, content)
    PROVE  \E new : /\ ops' = (ops \ {o}) \cup {new} /\ DOMAIN new = OpFields
                    /\ new.kind = o.kind /\ Frees(o, new)
<1> DEFINE new == [o EXCEPT !.pc = "next", !.ok = @ \cup {o.path}, !.path = NoPath]
<1>1. DOMAIN new = OpFields /\ new.kind = o.kind /\ new.path = NoPath /\ new.pc = "next"
  BY DEF OpsTyped, OpFields
<1>2. ops' = (ops \ {o}) \cup {new} /\ active' = active \ {o.path}
  BY DEF FileDone, Set
<1> HIDE DEF new
<1> QED BY <1>1, <1>2 DEF Frees

LEMMA FetchEffect ==
    ASSUME OpsTyped, Mutex, NEW o \in ops, FetchFile(o)
    PROVE  /\ \E new : /\ ops' = (ops \ {o}) \cup {new} /\ DOMAIN new = OpFields
                       /\ new.kind = o.kind
                       /\ \/ Frees(o, new)
                          \/ /\ Keeps(o, new) /\ new.pc = "write" /\ new.id = o.id
                             /\ new.bytes \in Bytes /\ new.bytes = State[o.id][o.path]
           /\ UNCHANGED <<vault, tmp, restored>>
<1>1. o.pc = "fetch" /\ UNCHANGED <<vault, tmp, restored>>
  BY DEF FetchFile
<1>2. CASE FileFails(o)
  BY <1>1, <1>2, FailEffect DEF Working
<1>3. ASSUME NEW b \in FetchContent(o.id, o.path), Set(o, [o EXCEPT !.pc = "write", !.bytes = b]),
             active' = active
      PROVE  \E new : /\ ops' = (ops \ {o}) \cup {new} /\ DOMAIN new = OpFields
                      /\ new.kind = o.kind
                      /\ Keeps(o, new) /\ new.pc = "write" /\ new.id = o.id
                      /\ new.bytes \in Bytes /\ new.bytes = State[o.id][o.path]
  <2> DEFINE new == [o EXCEPT !.pc = "write", !.bytes = b]
  <2>1. /\ DOMAIN new = OpFields /\ new.kind = o.kind /\ new.path = o.path
        /\ new.pc = "write" /\ new.id = o.id /\ new.bytes = b
    BY DEF OpsTyped, OpFields
  <2>2. ops' = (ops \ {o}) \cup {new}
    BY <1>3 DEF Set
  <2>3. b \in Bytes /\ b = State[o.id][o.path]
    BY <1>3 DEF FetchContent, Bytes, Lookup, Verified
  <2> HIDE DEF new
  <2> QED BY <1>1, <1>3, <2>1, <2>2, <2>3 DEF Keeps, Working
<1> QED BY <1>1, <1>2, <1>3 DEF FetchFile

Succeeded(o, content) ==
    restored' = restored \cup
        {[id |-> o.id, path |-> o.path, shown |-> o.shown, content |-> content]}

LEMMA WriteEffect ==
    ASSUME OpsTyped, Mutex, NEW o \in ops, WriteFile(o)
    PROVE  /\ o.pc = "write"
           /\ \E new : /\ ops' = (ops \ {o}) \cup {new} /\ DOMAIN new = OpFields
                       /\ new.kind = o.kind
                       /\ \/ /\ Frees(o, new) /\ Succeeded(o, o.bytes) /\ tmp' = tmp
                             /\ \/ vault' = vault
                                \/ /\ vault[o.path].known
                                   /\ vault' = [vault EXCEPT ![o.path].content = o.bytes]
                          \/ /\ Keeps(o, new) /\ new.pc = "clear" /\ new.id = o.id
                             /\ new.bytes = o.bytes /\ ~vault[o.path].known
                             /\ tmp' = [tmp EXCEPT ![o.path] = {o.bytes}]
                             /\ UNCHANGED <<vault, restored>>
<1>1. o.pc = "write"
  BY DEF WriteFile
<1>2. CASE ~(o.mode = "in_place" /\ ~vault[o.path].known)
  <2>1. FileDone(o, o.bytes) /\ tmp' = tmp
        /\ \/ vault' = vault
           \/ /\ vault[o.path].known
              /\ vault' = [vault EXCEPT ![o.path].content = o.bytes]
    BY <1>2 DEF WriteFile
  <2>2. Succeeded(o, o.bytes)
    BY <2>1 DEF FileDone, Succeeded
  <2> QED BY <1>1, <2>1, <2>2, DoneEffect DEF Working
<1>3. CASE o.mode = "in_place" /\ ~vault[o.path].known
  <2> DEFINE new == [o EXCEPT !.pc = "clear"]
  <2>1. /\ Set(o, new) /\ tmp' = [tmp EXCEPT ![o.path] = {o.bytes}]
        /\ UNCHANGED <<vault, active, restored>>
    BY <1>3 DEF WriteFile
  <2>2. /\ DOMAIN new = OpFields /\ new.kind = o.kind /\ new.path = o.path
        /\ new.pc = "clear" /\ new.id = o.id /\ new.bytes = o.bytes
    BY DEF OpsTyped, OpFields
  <2>3. ops' = (ops \ {o}) \cup {new}
    BY <2>1 DEF Set
  <2> HIDE DEF new
  <2> QED BY <1>1, <1>3, <2>1, <2>2, <2>3 DEF Keeps, Working
<1> QED BY <1>2, <1>3

LEMMA ClearEffect ==
    ASSUME OpsTyped, Mutex, NEW o \in ops, ClearPlace(o)
    PROVE  /\ o.pc = "clear"
           /\ \E new : /\ ops' = (ops \ {o}) \cup {new} /\ DOMAIN new = OpFields
                       /\ new.kind = o.kind /\ Keeps(o, new) /\ new.pc = "move"
                       /\ new.id = o.id /\ new.bytes = o.bytes
           /\ vault' = [vault EXCEPT ![o.path] = [content |-> NoFile, known |-> FALSE]]
           /\ UNCHANGED <<tmp, restored>>
<1> DEFINE new == [o EXCEPT !.pc = "move"]
<1>1. /\ Set(o, new) /\ o.pc = "clear" /\ UNCHANGED <<tmp, active, restored>>
      /\ vault' = [vault EXCEPT ![o.path] = [content |-> NoFile, known |-> FALSE]]
  BY DEF ClearPlace
<1>2. /\ DOMAIN new = OpFields /\ new.kind = o.kind /\ new.path = o.path
      /\ new.pc = "move" /\ new.id = o.id /\ new.bytes = o.bytes
  BY DEF OpsTyped, OpFields
<1>3. ops' = (ops \ {o}) \cup {new}
  BY <1>1 DEF Set
<1> HIDE DEF new
<1> QED BY <1>1, <1>2, <1>3 DEF Keeps, Working

LEMMA MoveEffect ==
    ASSUME OpsTyped, Mutex, NEW o \in ops, MoveIntoPlace(o)
    PROVE  /\ o.pc = "move" /\ tmp' = [tmp EXCEPT ![o.path] = {}]
           /\ \E new : /\ ops' = (ops \ {o}) \cup {new} /\ DOMAIN new = OpFields
                       /\ new.kind = o.kind /\ Frees(o, new)
           /\ \/ UNCHANGED <<vault, restored>>
              \/ /\ vault[o.path].content = NoFile
                 /\ \E b \in tmp[o.path] :
                       /\ vault' = [vault EXCEPT ![o.path] = [content |-> b, known |-> TRUE]]
                       /\ Succeeded(o, b)
<1>1. o.pc = "move" /\ tmp' = [tmp EXCEPT ![o.path] = {}]
  BY DEF MoveIntoPlace
<1>2. CASE tmp[o.path] # {} /\ vault[o.path].content = NoFile
  <2>1. PICK b \in tmp[o.path] :
            /\ vault' = [vault EXCEPT ![o.path] = [content |-> b, known |-> TRUE]]
            /\ FileDone(o, b)
    BY <1>2 DEF MoveIntoPlace
  <2>2. Succeeded(o, b)
    BY <2>1 DEF FileDone, Succeeded
  <2>3. \E new : /\ ops' = (ops \ {o}) \cup {new} /\ DOMAIN new = OpFields
                 /\ new.kind = o.kind /\ Frees(o, new)
    BY <1>1, <2>1, DoneEffect DEF Working
  <2> QED BY <1>1, <1>2, <2>1, <2>2, <2>3
<1>3. CASE ~(tmp[o.path] # {} /\ vault[o.path].content = NoFile)
  <2>1. FileFails(o) /\ UNCHANGED <<vault, restored>>
    BY <1>3 DEF MoveIntoPlace
  <2> QED BY <1>1, <2>1, FailEffect DEF Working
<1> QED BY <1>2, <1>3

LEMMA ErrorEffect ==
    ASSUME OpsTyped, Mutex, NEW o \in ops, FileError(o)
    PROVE  /\ \E new : /\ ops' = (ops \ {o}) \cup {new} /\ DOMAIN new = OpFields
                       /\ new.kind = o.kind /\ Frees(o, new)
           /\ tmp' = tmp \/ tmp' = [tmp EXCEPT ![o.path] = {}]
           /\ UNCHANGED <<vault, restored>>
<1>1. o.pc \in Working
  BY DEF FileError, Mutex, OpsTyped
<1>2. FileFails(o)
  BY DEF FileError
<1> QED BY <1>1, <1>2, FailEffect DEF FileError

LEMMA OpsInvOpStep ==
    ASSUME OpsInv, NEW o \in ops, OpStep(o)
    PROVE  OpsInv'
<1> USE DEF OpsInv
<1>0. OpsTyped /\ Mutex /\ (o.pc \in Working => o.path \in Paths)
  BY DEF Mutex
<1>1. ASSUME NEW new, ops' = (ops \ {o}) \cup {new}, DOMAIN new = OpFields,
             new.pc \in Resting \cup Working,
             Keeps(o, new) \/ Takes(o, new) \/ Frees(o, new),
             vault' \in [Paths -> Spots], DOMAIN tmp' = Paths,
             \A p \in Paths \ {o.path} : tmp'[p] = tmp[p] /\ vault'[p] = vault[p],
             OkMeansRestored', Carried(new)'
      PROVE  OpsInv'
  <2>1. Mutex'
    BY <1>0, <1>1, MutexKept
  <2>2. OpsTyped'
    BY <1>1 DEF OpsTyped
  <2>3. \A other \in ops \ {o} : Carried(other)'
    BY <1>1, OthersCarry
  <2>4. \A q \in ops' : Carried(q)'
    BY <1>1, <2>3
  <2> QED BY <1>1, <2>1, <2>2, <2>4
<1>2. /\ \A new : new.pc \in {"next", "fetch"} => Carried(new)'
      /\ \A new : Frees(o, new) => new.pc = "next"
      /\ {"next", "fetch", "write", "clear", "move"} \subseteq Resting \cup Working
  BY DEF Carried, Frees, Resting, Working
<1>3. UNCHANGED <<vault, tmp, restored>> =>
          /\ vault' \in [Paths -> Spots] /\ DOMAIN tmp' = Paths
          /\ \A p \in Paths \ {o.path} : tmp'[p] = tmp[p] /\ vault'[p] = vault[p]
          /\ OkMeansRestored'
  BY DEF OpsTyped, OkMeansRestored
<1>4. CASE PlanDirectory(o)
  BY <1>0, <1>1, <1>2, <1>3, <1>4, PlanEffect
<1>5. CASE \E p \in Paths : BeginFile(o, p)
  BY <1>0, <1>1, <1>2, <1>3, <1>5, BeginEffect
<1>6. CASE FetchFile(o)
  <2>1. ASSUME NEW new, Keeps(o, new), new.pc = "write", new.id = o.id,
               new.bytes \in Bytes, new.bytes = State[o.id][o.path]
        PROVE  Carried(new)'
    BY <2>1 DEF Keeps, Carried
  <2> QED BY <1>0, <1>1, <1>2, <1>3, <1>6, <2>1, FetchEffect
<1>7. CASE WriteFile(o)
  <2>1. o.pc = "write" /\ o.path \in Paths /\ o.bytes \in Bytes /\ o.bytes = State[o.id][o.path]
    BY <1>0, <1>7, WriteEffect DEF Carried, Working
  <2>2. ASSUME NEW new, ops' = (ops \ {o}) \cup {new}, DOMAIN new = OpFields,
               Frees(o, new), Succeeded(o, o.bytes), tmp' = tmp,
               \/ vault' = vault
               \/ /\ vault[o.path].known
                  /\ vault' = [vault EXCEPT ![o.path].content = o.bytes]
        PROVE  OpsInv'
    <3>1. OkMeansRestored'
      BY <2>1, <2>2 DEF Succeeded, OkMeansRestored
    <3>2. /\ vault' \in [Paths -> Spots] /\ DOMAIN tmp' = Paths
          /\ \A p \in Paths \ {o.path} : tmp'[p] = tmp[p] /\ vault'[p] = vault[p]
      BY <2>1, <2>2, NoFileIsNoBytes DEF OpsTyped, Spots, Bytes
    <3> QED BY <1>1, <1>2, <2>2, <3>1, <3>2
  <2>3. ASSUME NEW new, ops' = (ops \ {o}) \cup {new}, DOMAIN new = OpFields,
               Keeps(o, new), new.pc = "clear", new.id = o.id, new.bytes = o.bytes,
               ~vault[o.path].known, tmp' = [tmp EXCEPT ![o.path] = {o.bytes}],
               UNCHANGED <<vault, restored>>
        PROVE  OpsInv'
    <3>1. Carried(new)'
      BY <2>1, <2>3 DEF Carried, Keeps, OpsTyped
    <3>2. /\ vault' \in [Paths -> Spots] /\ DOMAIN tmp' = Paths /\ OkMeansRestored'
          /\ \A p \in Paths \ {o.path} : tmp'[p] = tmp[p] /\ vault'[p] = vault[p]
      BY <2>3 DEF OpsTyped, OkMeansRestored
    <3> QED BY <1>1, <1>2, <2>3, <3>1, <3>2
  <2> QED BY <1>0, <1>7, <2>2, <2>3, WriteEffect
<1>8. CASE ClearPlace(o)
  <2>1. o.pc = "clear" /\ o.path \in Paths /\ Carried(o)
    BY <1>0, <1>8, ClearEffect DEF Working
  <2>2. PICK new : /\ ops' = (ops \ {o}) \cup {new} /\ DOMAIN new = OpFields
                   /\ Keeps(o, new) /\ new.pc = "move"
                   /\ new.id = o.id /\ new.bytes = o.bytes
    BY <1>0, <1>8, ClearEffect
  <2>3. /\ vault' = [vault EXCEPT ![o.path] = [content |-> NoFile, known |-> FALSE]]
        /\ UNCHANGED <<tmp, restored>>
    BY <1>0, <1>8, ClearEffect
  <2>4. Carried(new)'
    BY <2>1, <2>2, <2>3 DEF Carried, Keeps
  <2>5. /\ vault' \in [Paths -> Spots] /\ DOMAIN tmp' = Paths /\ OkMeansRestored'
        /\ \A p \in Paths \ {o.path} : tmp'[p] = tmp[p] /\ vault'[p] = vault[p]
    BY <2>3 DEF OpsTyped, Spots, OkMeansRestored
  <2> QED BY <1>1, <1>2, <2>2, <2>4, <2>5
<1>9. CASE MoveIntoPlace(o)
  <2>1. o.pc = "move" /\ o.path \in Paths /\ Carried(o)
    BY <1>0, <1>9, MoveEffect DEF Working
  <2>2. PICK new : /\ ops' = (ops \ {o}) \cup {new} /\ DOMAIN new = OpFields
                   /\ Frees(o, new)
    BY <1>0, <1>9, MoveEffect
  <2>3. /\ DOMAIN tmp' = Paths
        /\ \A p \in Paths \ {o.path} : tmp'[p] = tmp[p]
    BY <1>0, <1>9, MoveEffect DEF OpsTyped
  <2>4. CASE UNCHANGED <<vault, restored>>
    <3>1. vault' \in [Paths -> Spots] /\ OkMeansRestored' /\ \A p \in Paths : vault'[p] = vault[p]
      BY <2>4 DEF OpsTyped, OkMeansRestored
    <3> QED BY <1>1, <1>2, <2>2, <2>3, <3>1
  <2>5. ASSUME NEW b \in tmp[o.path],
               vault' = [vault EXCEPT ![o.path] = [content |-> b, known |-> TRUE]],
               Succeeded(o, b)
        PROVE  OpsInv'
    <3>1. b = o.bytes /\ b \in Bytes /\ b = State[o.id][o.path]
      BY <2>1 DEF Carried
    <3>2. OkMeansRestored'
      BY <2>5, <3>1 DEF Succeeded, OkMeansRestored
    <3>3. vault' \in [Paths -> Spots] /\ \A p \in Paths \ {o.path} : vault'[p] = vault[p]
      BY <2>5, <3>1, NoFileIsNoBytes DEF OpsTyped, Spots, Bytes
    <3> QED BY <1>1, <1>2, <2>2, <2>3, <3>2, <3>3
  <2> QED BY <1>0, <1>9, <2>4, <2>5, MoveEffect
<1>10. CASE FileError(o)
  <2>1. PICK new : /\ ops' = (ops \ {o}) \cup {new} /\ DOMAIN new = OpFields
                   /\ Frees(o, new)
    BY <1>0, <1>10, ErrorEffect
  <2>2. /\ DOMAIN tmp' = Paths /\ \A p \in Paths \ {o.path} : tmp'[p] = tmp[p]
        /\ vault' \in [Paths -> Spots] /\ OkMeansRestored' /\ vault' = vault
    BY <1>0, <1>10, ErrorEffect DEF OpsTyped, OkMeansRestored
  <2> QED BY <1>1, <1>2, <2>1, <2>2
<1> QED BY <1>4, <1>5, <1>6, <1>7, <1>8, <1>9, <1>10 DEF OpStep

(***************************************************************************)
(* What else changes the restores: a click adds an operation, and one that *)
(* has nothing left to do ends.                                            *)
(***************************************************************************)
NewOp(o) ==
    /\ ops' = ops \cup {o} /\ DOMAIN o = OpFields
    /\ o.pc \in Resting /\ o.path = NoPath
    /\ UNCHANGED <<vault, tmp, active, restored>>

LEMMA OpRecord ==
    ASSUME NEW kind, NEW mode, NEW id, NEW paths
    PROVE  LET o == Op(kind, mode, id, paths)
           IN  /\ DOMAIN o = OpFields /\ o.kind = kind
               /\ o.pc \in Resting /\ o.path = NoPath
BY DEF Op, OpFields, Resting

LEMMA RowRecord ==
    ASSUME NEW kind, NEW mode, NEW path, NEW row, RestoreRow(kind, mode, path, row)
    PROVE  \E o : /\ ops' = ops \cup {o} /\ DOMAIN o = OpFields /\ o.kind = kind
                  /\ o.pc \in Resting /\ o.path = NoPath
<1> DEFINE o == [Op(kind, mode, row.id, {path}) EXCEPT !.shown = Content(row)]
<1>1. ops' = ops \cup {o}
  BY DEF RestoreRow
<1>2. DOMAIN o = OpFields /\ o.kind = kind
  BY DEF Op, OpFields
<1>3. o.pc = Op(kind, mode, row.id, {path}).pc /\ o.path = Op(kind, mode, row.id, {path}).path
  BY DEF Op
<1>4. o.pc \in Resting /\ o.path = NoPath
  BY <1>3, OpRecord
<1> HIDE DEF o
<1> QED BY <1>1, <1>2, <1>4

LEMMA ClickOps == UserClicks => UNCHANGED vaultVars \/ \E o : NewOp(o)
<1> SUFFICES ASSUME UserClicks PROVE UNCHANGED vaultVars \/ \E o : NewOp(o)
  OBVIOUS
<1>1. ASSUME NEW b, NEW mode, RestoreFile(b, mode) PROVE \E o : NewOp(o)
  BY <1>1, OpRecord DEF RestoreFile, NewOp
<1>2. ASSUME NEW b, NEW mode, RestoreDir(b, mode) PROVE \E o : NewOp(o)
  BY <1>2, OpRecord DEF RestoreDir, NewOp
<1>3. ASSUME NEW row, NEW mode, RestoreVersion(row, mode) PROVE \E o : NewOp(o)
  BY <1>3, RowRecord DEF RestoreVersion, NewOp
<1>4. ASSUME NEW row, RestoreFromHistory(row) PROVE \E o : NewOp(o)
  BY <1>4, RowRecord DEF RestoreFromHistory, NewOp
<1>5. CASE BrowserClick
  BY <1>1, <1>2, <1>5 DEF BrowserClick, Open, Close, Refresh, Search, SelectDir,
      SelectSnapshot, SelectFile
<1>6. CASE ~BrowserClick
  BY <1>3, <1>4, <1>6 DEF UserClicks, OpenVersions, ShowHistory, CloseVersions,
      SelectVersion, PreviewVersion, CloseHistory
<1> QED BY <1>5, <1>6

LEMMA AnswerOps == AnswersCome => UNCHANGED vaultVars
<1> SUFFICES ASSUME AnswersCome PROVE UNCHANGED vaultVars
  OBVIOUS
<1>1. CASE \E n \in DOMAIN downloads : DownloadEnds(n)
  BY <1>1 DEF DownloadEnds, IndexArrives, IndexFails
<1>2. CASE \E c \in calls : BrowserAnswer(c)
  BY <1>2 DEF BrowserAnswer, SnapshotsListed, Refreshed, Materialized, MaterializeFails,
      ParentDone, Fetched, FetchFails, Rendered, restoreVars, vaultVars
<1>3. CASE \E c \in calls : \/ VersionsListed(c) \/ VersionFetched(c) \/ VersionFails(c)
                            \/ VersionRendered(c) \/ HistoryListed(c) \/ Previewed(c)
                            \/ PreviewFails(c)
  BY <1>3 DEF VersionsListed, VersionFetched, VersionFails, VersionRendered, HistoryListed,
      Previewed, PreviewFails, restoreVars, vaultVars
<1> QED BY <1>1, <1>2, <1>3 DEF AnswersCome

LEMMA RestoreEffect ==
    Next \/ UNCHANGED vars =>
        \/ UNCHANGED vaultVars
        \/ \E o : NewOp(o)
        \/ \E o \in ops : OpStep(o) \/ (EndOp(o) /\ OpenGate(o))
<1> SUFFICES ASSUME Next \/ UNCHANGED vars
             PROVE  \/ UNCHANGED vaultVars
                    \/ \E o : NewOp(o)
                    \/ \E o \in ops : OpStep(o) \/ (EndOp(o) /\ OpenGate(o))
  OBVIOUS
<1>1. CASE Meanwhile
  BY <1>1 DEF Meanwhile, FolderChanges, Invalidate, DamageBlob, ServerReads
<1>2. CASE \E o \in ops : RestoreEnds(o)
  BY <1>2 DEF RestoreEnds
<1>3. CASE UNCHANGED vars
  BY <1>3 DEF vars, restoreVars, vaultVars
<1> QED BY <1>1, <1>2, <1>3, ClickOps, AnswerOps DEF Next

LEMMA OpsInvInit == Init => OpsInv
<1> SUFFICES ASSUME Init PROVE OpsInv
  OBVIOUS
<1>1. ops = {} /\ active = {} /\ restored = {} /\ tmp = [p \in Paths |-> {}]
  BY DEF Init, RestoreInit
<1>2. vault \in [Paths -> Spots]
  <2>1. vault \in [Paths -> Places]
    BY RestoreAssumption DEF Init, RestoreInit
  <2>2. Places \subseteq Spots
    BY DEF Places, Spots, Bytes
  <2> QED BY <2>1, <2>2
<1> QED BY <1>1, <1>2 DEF OpsInv, OpsTyped, Mutex, OkMeansRestored

LEMMA OpsInvStep == OpsInv /\ [Next]_vars => OpsInv'
<1> SUFFICES ASSUME OpsInv, Next \/ UNCHANGED vars PROVE OpsInv'
  OBVIOUS
<1>1. CASE UNCHANGED vaultVars
  BY <1>1 DEF vaultVars, OpsInv, OpsTyped, Mutex, OkMeansRestored, Carried
<1>2. ASSUME NEW o, NewOp(o) PROVE OpsInv'
  <2>1. Mutex'
    BY <1>2 DEF NewOp, OpsInv, Mutex, Resting, Working
  <2>2. OpsTyped' /\ OkMeansRestored'
    BY <1>2 DEF NewOp, OpsInv, OpsTyped, OkMeansRestored
  <2>3. \A q \in ops' : Carried(q)'
    BY <1>2 DEF NewOp, OpsInv, Carried, Resting
  <2> QED BY <2>1, <2>2, <2>3 DEF OpsInv
<1>3. ASSUME NEW o \in ops, EndOp(o) PROVE OpsInv'
  <2>1. ops' = ops \ {o} /\ o.path = NoPath /\ UNCHANGED <<vault, tmp, active, restored>>
    BY <1>3 DEF EndOp, OpsInv, Mutex, Working
  <2>2. Mutex'
    BY <2>1, NoFileIsNoBytes DEF OpsInv, Mutex
  <2> QED BY <2>1, <2>2 DEF OpsInv, OpsTyped, OkMeansRestored, Carried
<1> QED BY <1>1, <1>2, <1>3, OpsInvOpStep, RestoreEffect

\* A restore that reports success has put the content of the snapshot in
\* place: for every damaged blob, for files, directories and versions that
\* are restored next to each other, and whichever step of them fails.
THEOREM OkIsRestored == Spec => []OkMeansRestored
<1>1. OpsInv => OkMeansRestored
  BY DEF OpsInv
<1> QED BY <1>1, OpsInvInit, OpsInvStep, PTL DEF Spec

\* No step of a restore, failed or not, leaves a file that Obsidian knows
\* without content: it is replaced in one step (VaultAdapter.writeAtomic).
THEOREM KnownFilesSurvive == Spec => KnownFileSurvives
<1>1. OpsInv /\ [Next]_vars =>
          [\A p \in Paths : vault[p].known => vault'[p].content # NoFile]_vars
  <2> SUFFICES ASSUME OpsInv, Next, NEW p \in Paths, vault[p].known
               PROVE  vault'[p].content # NoFile
    OBVIOUS
  <2>0. OpsTyped /\ Mutex /\ vault[p].content # NoFile /\ vault \in [Paths -> Spots]
    BY DEF OpsInv, OpsTyped, Spots
  <2>1. CASE vault' = vault
    BY <2>0, <2>1
  <2>2. ASSUME NEW o \in ops, OpStep(o), vault' # vault PROVE vault'[p].content # NoFile
    <3>1. o.pc \in Working => o.path \in Paths
      BY <2>0 DEF Mutex
    <3>2. CASE WriteFile(o)
      <4>1. o.pc = "write" /\ o.path \in Paths /\ o.bytes \in Bytes
        BY <2>0, <3>1, <3>2, WriteEffect DEF OpsInv, Carried, Working
      <4>2. vault' = [vault EXCEPT ![o.path].content = o.bytes]
        BY <2>0, <2>2, <3>2, WriteEffect
      <4>3. vault'[p].content \in {o.bytes, vault[p].content}
        BY <2>0, <4>1, <4>2 DEF Spots
      <4> QED BY <2>0, <4>1, <4>3, NoFileIsNoBytes
    <3>3. CASE ClearPlace(o)
      <4>1. o.pc = "clear" /\ o.path \in Paths /\ ~vault[o.path].known
        BY <2>0, <3>1, <3>3, ClearEffect DEF OpsInv, Carried, Working
      <4> QED BY <2>0, <3>3, <4>1, ClearEffect
    <3>4. CASE MoveIntoPlace(o)
      <4>1. \/ vault' = vault
            \/ /\ vault[o.path].content = NoFile
               /\ \E b : vault' = [vault EXCEPT ![o.path] = [content |-> b, known |-> TRUE]]
        BY <2>0, <3>4, MoveEffect
      <4>2. p # o.path
        BY <2>0, <2>2, <4>1
      <4> QED BY <2>0, <2>2, <4>1, <4>2
    <3>5. CASE PlanDirectory(o) \/ FetchFile(o) \/ FileError(o) \/ \E q \in Paths : BeginFile(o, q)
      BY <2>2, <3>5 DEF PlanDirectory, FetchFile, FileError, BeginFile
    <3> QED BY <2>2, <3>2, <3>3, <3>4, <3>5 DEF OpStep
  <2>3. vault' # vault => \E o \in ops : OpStep(o)
    BY RestoreEffect DEF NewOp, EndOp, vaultVars
  <2> QED BY <2>1, <2>2, <2>3
<1> QED BY <1>1, OpsInvInit, OpsInvStep, PTL DEF Spec, KnownFileSurvives

(***************************************************************************)
(* Calls that wait for an answer.  A call of the browser's columns is      *)
(* about a selected snapshot, and only its own answer ends a call.         *)
(***************************************************************************)
CallFields == {"n", "kind", "entry", "path", "want", "got"}
ColumnKinds == {"materialize", "parent", "fetch", "render"}

CallTyped(c) == DOMAIN c = CallFields /\ (c.kind \in ColumnKinds => c.entry # {})
CallsTyped == \A c \in calls : CallTyped(c)

Same(c, d) == d.n = c.n /\ d.kind = c.kind /\ d.entry = c.entry

LEMMA CallRecord ==
    ASSUME NEW kind, NEW entry, NEW path
    PROVE  LET c == Call(kind, entry, path)
           IN  /\ DOMAIN c = CallFields /\ c.kind = kind /\ c.entry = entry
               /\ c.n = counts'.clicks
BY DEF Call, CallFields

LEMMA AskingRecord ==
    ASSUME NEW kind, NEW path, kind \notin ColumnKinds
    PROVE  CallTyped(AskingCall(kind, path)) /\ AskingCall(kind, path).kind = kind
BY DEF AskingCall, Call, CallTyped, CallFields

\* A click begins a call at most.
Begins == \E new : CallTyped(new) /\ calls' = calls \cup {new}
Continues(c) == \E next : CallTyped(next) /\ Continue(c, next)

LEMMA BrowserClickCalls ==
    ASSUME BrowserClick, view.sel = {} => Rows = {} PROVE calls' = calls \/ Begins
<1>1. CASE Open \/ Refresh
  <2>1. "list" \notin ColumnKinds /\ "refresh" \notin ColumnKinds
    BY DEF ColumnKinds
  <2> QED BY <1>1, <2>1, AskingRecord DEF Open, Refresh, Begin, Begins
<1>2. CASE Close \/ Search \/ SelectDir
  BY <1>2 DEF Close, Search, SelectDir
<1>3. ASSUME NEW id, SelectSnapshot(id) PROVE Begins
  <2>1. PICK entry : Begin(Call("materialize", entry, view.path)) /\ entry # {}
    <3>1. PICK index \in view.list :
              Begin(Call("materialize", {[id |-> id, from |-> index.from]}, view.path))
      BY <1>3 DEF SelectSnapshot
    <3>2. {[id |-> id, from |-> index.from]} # {}
      OBVIOUS
    <3> QED BY <3>1, <3>2
  <2>2. CallTyped(Call("materialize", entry, view.path))
    BY <2>1, CallRecord DEF CallTyped
  <2> QED BY <2>1, <2>2 DEF Begin, Begins
<1>4. ASSUME NEW path, SelectFile(path) PROVE Begins
  <2>1. Begin(Call("fetch", view.sel, path)) /\ view.sel # {}
    BY <1>4 DEF SelectFile
  <2>2. CallTyped(Call("fetch", view.sel, path))
    BY <2>1, CallRecord DEF CallTyped
  <2> QED BY <2>1, <2>2 DEF Begin, Begins
<1>5. ASSUME NEW b, NEW mode, RestoreFile(b, mode) \/ RestoreDir(b, mode) PROVE calls' = calls
  BY <1>5 DEF RestoreFile, RestoreDir, browserVars
<1> QED BY <1>1, <1>2, <1>3, <1>4, <1>5 DEF BrowserClick

LEMMA ClickCalls ==
    ASSUME UserClicks, view.sel = {} => Rows = {} PROVE calls' = calls \/ Begins
<1>1. CASE BrowserClick
  BY <1>1, BrowserClickCalls
<1>2. ASSUME NEW path, OpenVersions(path) \/ ShowHistory(path) PROVE Begins
  <2>1. "versions" \notin ColumnKinds /\ "history" \notin ColumnKinds
    BY DEF ColumnKinds
  <2> QED BY <1>2, <2>1, AskingRecord DEF OpenVersions, ShowHistory, Begin, Begins
<1>3. ASSUME NEW row, SelectVersion(row) \/ PreviewVersion(row) PROVE Begins
  <2>1. /\ CallTyped(Call("version", Entry(row), row.path))
        /\ CallTyped(Call("preview", Entry(row), row.path))
    BY CallRecord DEF CallTyped, ColumnKinds
  <2> QED BY <1>3, <2>1 DEF SelectVersion, PreviewVersion, Begin, Begins
<1>4. CASE \/ CloseVersions \/ CloseHistory
           \/ \E row \in modal.rows : RestoreFromHistory(row)
           \/ \E row \in tab.pane.buttons, mode \in {"in_place", "copy"} : RestoreVersion(row, mode)
  BY <1>4 DEF CloseVersions, CloseHistory, RestoreFromHistory, RestoreVersion, browserVars
<1> QED BY <1>1, <1>2, <1>3, <1>4 DEF UserClicks

LEMMA NextCall ==
    ASSUME NEW c \in calls, CallsTyped, NEW kind, kind \in ColumnKinds => c.entry # {}
    PROVE  CallTyped([c EXCEPT !.kind = kind])
BY DEF CallsTyped, CallTyped, CallFields

\* An answer ends its call, or carries it on.
LEMMA AnswerCalls ==
    ASSUME CallsTyped, NEW c \in calls,
           \/ BrowserAnswer(c)
           \/ VersionsListed(c) \/ VersionFetched(c) \/ VersionFails(c) \/ VersionRendered(c)
           \/ HistoryListed(c) \/ Previewed(c) \/ PreviewFails(c)
    PROVE  Return(c) \/ Continues(c)
<1>0. c.kind \in ColumnKinds => c.entry # {}
  BY DEF CallsTyped, CallTyped
<1>1. CASE Materialized(c)
  <2>1. c.kind \in ColumnKinds
    BY <1>1 DEF Materialized, Answered, ColumnKinds
  <2>2. CallTyped([c EXCEPT !.kind = "parent"])
    BY <1>0, <2>1, NextCall
  <2> QED BY <1>1, <2>2 DEF Materialized, Continues
<1>2. CASE ParentDone(c)
  <2>1. c.kind \in ColumnKinds
    BY <1>2 DEF ParentDone, Answered, ColumnKinds
  <2>2. CallTyped([c EXCEPT !.kind = "fetch"])
    BY <1>0, <2>1, NextCall
  <2>3. ShowSelection(c) => Return(c) \/ Continue(c, [c EXCEPT !.kind = "fetch"])
    BY DEF ShowSelection
  <2> QED BY <1>2, <2>2, <2>3 DEF ParentDone, Continues
<1>3. CASE Fetched(c)
  <2>1. c.kind \in ColumnKinds
    BY <1>3 DEF Fetched, Answered, ColumnKinds
  <2>2. CallTyped([c EXCEPT !.kind = "render"])
    BY <1>0, <2>1, NextCall
  <2> QED BY <1>3, <2>2 DEF Fetched, Continues
<1>4. CASE VersionsListed(c)
  <2>1. CASE Return(c)
    BY <2>1
  <2>2. ASSUME NEW row,
               Continue(c, [c EXCEPT !.kind = "version", !.entry = Entry(row),
                                     !.path = row.path, !.got = {}])
        PROVE  Continues(c)
    <3>1. CallTyped([c EXCEPT !.kind = "version", !.entry = Entry(row),
                              !.path = row.path, !.got = {}])
      BY DEF CallsTyped, CallTyped, CallFields, ColumnKinds
    <3> QED BY <2>2, <3>1 DEF Continues
  <2> QED BY <1>4, <2>1, <2>2 DEF VersionsListed
<1>5. CASE VersionFetched(c)
  <2>1. CallTyped([c EXCEPT !.kind = "version_render"])
    BY NextCall DEF ColumnKinds
  <2> QED BY <1>5, <2>1 DEF VersionFetched, Continues
<1>6. CASE \/ SnapshotsListed(c) \/ Refreshed(c) \/ MaterializeFails(c) \/ FetchFails(c)
           \/ Rendered(c) \/ VersionFails(c) \/ VersionRendered(c) \/ HistoryListed(c)
           \/ Previewed(c) \/ PreviewFails(c)
  BY <1>6 DEF SnapshotsListed, Refreshed, MaterializeFails, FetchFails, Rendered,
      VersionFails, VersionRendered, HistoryListed, Previewed, PreviewFails
<1> QED BY <1>1, <1>2, <1>3, <1>4, <1>5, <1>6 DEF BrowserAnswer

LEMMA DeliverCalls ==
    ASSUME CallsTyped, NEW n, NEW answer, Deliver(n, answer)
    PROVE  CallsTyped' /\ \A c \in calls : \E d \in calls' : Same(c, d)
<1> DEFINE Got(c) == IF c.want = {n} THEN [c EXCEPT !.want = {}, !.got = answer] ELSE c
<1>1. \A c \in calls : CallTyped(Got(c)) /\ Same(c, Got(c))
  BY DEF CallsTyped, CallTyped, CallFields, Same
<1>2. calls' = {Got(c) : c \in calls}
  BY DEF Deliver
<1> HIDE DEF Got
<1> QED BY <1>1, <1>2 DEF CallsTyped

Answer(c) ==
    \/ BrowserAnswer(c)
    \/ VersionsListed(c) \/ VersionFetched(c) \/ VersionFails(c) \/ VersionRendered(c)
    \/ HistoryListed(c) \/ Previewed(c) \/ PreviewFails(c)

LEMMA AnswerOfKind ==
    ASSUME NEW c, Answer(c)
    PROVE  /\ c.kind = "refresh" => Refreshed(c)
           /\ c.kind = "version" => VersionFetched(c) \/ VersionFails(c)
BY DEF Answer, BrowserAnswer, SnapshotsListed, Refreshed, Materialized, MaterializeFails,
       ParentDone, Fetched, FetchFails, Rendered, VersionsListed, VersionFetched,
       VersionFails, VersionRendered, HistoryListed, Previewed, PreviewFails, Answered

LEMMA CallsStep ==
    ASSUME CallsTyped, view.sel = {} => Rows = {}, Next \/ UNCHANGED vars
    PROVE  /\ CallsTyped'
           /\ \A c \in calls : Answer(c) \/ \E d \in calls' : Same(c, d)
<1>1. CASE calls' = calls
  BY <1>1 DEF CallsTyped, Same
<1>2. CASE Begins
  BY <1>2 DEF Begins, CallsTyped, Same
<1>3. ASSUME NEW n \in DOMAIN downloads, DownloadEnds(n)
      PROVE  CallsTyped' /\ \A c \in calls : \E d \in calls' : Same(c, d)
  BY <1>3, DeliverCalls DEF DownloadEnds
<1>4. ASSUME NEW c \in calls, Answer(c)
      PROVE  /\ CallsTyped'
             /\ \A other \in calls : Answer(other) \/ \E d \in calls' : Same(other, d)
  <2>1. Return(c) \/ Continues(c)
    BY <1>4, AnswerCalls DEF Answer
  <2>2. CASE Return(c)
    BY <1>4, <2>2 DEF Return, CallsTyped, Same
  <2>3. CASE Continues(c)
    BY <1>4, <2>3 DEF Continues, Continue, CallsTyped, Same
  <2> QED BY <2>1, <2>2, <2>3
<1>5. CASE UserClicks
  BY <1>1, <1>2, <1>5, ClickCalls
<1>6. CASE AnswersCome
  BY <1>3, <1>4, <1>6 DEF AnswersCome, Answer
<1>7. CASE Meanwhile \/ (\E o \in ops : RestoreEnds(o)) \/ UNCHANGED vars
  BY <1>1, <1>7 DEF Meanwhile, RestoreEnds, vars, browserVars
<1> QED BY <1>5, <1>6, <1>7 DEF Next

(***************************************************************************)
(* The browser.                                                            *)
(***************************************************************************)
ViewFields == {"open", "since", "list", "sel", "path", "fileState", "tree", "files", "pane",
               "refreshing", "restoring"}
PaneFields == {"kind", "path", "id", "buttons"}

ViewTyped(v) == DOMAIN v = ViewFields /\ DOMAIN v.pane = PaneFields
\* Nothing of a snapshot that is not selected any more is left.
Gone(v) == v.sel = {} => /\ v.fileState = {} /\ v.tree = {}
                         /\ v.files = EmptyFiles /\ v.pane.kind = "none"
Fine(v) == ViewTyped(v) /\ Gone(v)
SameGates(v, w) == w.refreshing = v.refreshing /\ w.restoring = v.restoring

LEMMA ShowTreeEffect ==
    ASSUME NEW v, ViewTyped(v)
    PROVE  /\ ViewTyped(ShowTree(v)) /\ SameGates(v, ShowTree(v))
           /\ ShowTree(v).sel = v.sel /\ ShowTree(v).pane = v.pane
BY DEF ShowTree, ViewTyped, ViewFields, SameGates

LEMMA StartFileEffect ==
    ASSUME NEW v, ViewTyped(v), NEW path
    PROVE  /\ ViewTyped(StartFile(v, path)) /\ SameGates(v, StartFile(v, path))
           /\ StartFile(v, path).sel = v.sel
<1> DEFINE u == [v EXCEPT !.path = path]
<1>1. ViewTyped(u) /\ SameGates(v, u) /\ u.sel = v.sel
  BY DEF ViewTyped, ViewFields, SameGates
<1>2. CASE v.sel = {}
  BY <1>1, <1>2 DEF StartFile
<1>3. CASE v.sel # {}
  <2> DEFINE pane == [EmptyPane EXCEPT !.kind = "loading", !.path = path, !.id = IdOf(v.sel)]
  <2>1. DOMAIN pane = PaneFields
    BY DEF EmptyPane, PaneFields
  <2>2. StartFile(v, path) = [ShowTree(u) EXCEPT !.pane = pane]
    BY <1>3 DEF StartFile
  <2> HIDE DEF u, pane
  <2>3. /\ DOMAIN [ShowTree(u) EXCEPT !.pane = pane] = ViewFields
        /\ [ShowTree(u) EXCEPT !.pane = pane].pane = pane
        /\ [ShowTree(u) EXCEPT !.pane = pane].sel = ShowTree(u).sel
        /\ [ShowTree(u) EXCEPT !.pane = pane].refreshing = ShowTree(u).refreshing
        /\ [ShowTree(u) EXCEPT !.pane = pane].restoring = ShowTree(u).restoring
    BY <1>1, ShowTreeEffect DEF ViewTyped, ViewFields
  <2> QED BY <1>1, <2>1, <2>2, <2>3, ShowTreeEffect DEF ViewTyped, SameGates
<1> QED BY <1>2, <1>3

LEMMA ReselectedEffect ==
    ASSUME Fine(view), NEW index, view.sel # {}
    PROVE  Fine(Reselected(index)) /\ SameGates(view, Reselected(index))
<1>1. DOMAIN EmptyPane = PaneFields /\ EmptyPane.kind = "none"
  BY DEF EmptyPane, PaneFields
<1>2. CASE StillSelected(index) = {}
  BY <1>1, <1>2 DEF Reselected, Fine, ViewTyped, Gone, SameGates, ViewFields
<1>3. CASE StillSelected(index) # {}
  BY <1>3 DEF Reselected, Fine, ViewTyped, Gone, SameGates, ViewFields
<1> QED BY <1>2, <1>3

LEMMA NoRows == ASSUME Gone(view) PROVE view.sel = {} => Rows = {}
BY DEF Gone, Rows, EmptyFiles

LEMMA ViewClick ==
    ASSUME Fine(view), BrowserClick
    PROVE  /\ Fine(view')
           /\ view'.refreshing = view.refreshing \/ Refresh
           /\ \/ view'.restoring = view.restoring
              \/ \E b, mode : RestoreDir(b, mode)
<1>0. DOMAIN EmptyPane = PaneFields /\ EmptyPane.kind = "none"
  BY DEF EmptyPane, PaneFields
<1> USE DEF Fine, ViewTyped, Gone, ViewFields, SameGates
<1>1. CASE Open \/ Close
  BY <1>0, <1>1 DEF Open, Close
<1>2. CASE Refresh
  BY <1>2 DEF Refresh
<1>3. CASE Search
  BY <1>3, ShowTreeEffect DEF Search
<1>4. CASE SelectDir
  <2> DEFINE v == [view EXCEPT !.path = NoPath]
             pane == [kind |-> "dir", path |-> NoPath, id |-> IdOf(view.sel),
                      buttons |-> {[path |-> NoPath, id |-> IdOf(view.sel)]}]
  <2>1. view.sel # {} /\ view' = [ShowTree(v) EXCEPT !.pane = pane]
    BY <1>4, NoRows DEF SelectDir
  <2>2. ViewTyped(v) /\ v.sel = view.sel /\ SameGates(view, v)
    OBVIOUS
  <2>3. DOMAIN pane = PaneFields
    BY DEF PaneFields
  <2>4. ViewTyped(ShowTree(v)) /\ ShowTree(v).sel = view.sel /\ SameGates(view, ShowTree(v))
    BY <2>2, ShowTreeEffect
  <2> HIDE DEF v, pane
  <2> QED BY <2>1, <2>3, <2>4
<1>5. ASSUME NEW id, SelectSnapshot(id)
      PROVE  Fine(view') /\ SameGates(view, view')
  <2>1. PICK sel : /\ sel # {}
                   /\ view' = [view EXCEPT !.sel = sel, !.path = NoPath,
                                           !.files = [kind |-> "loading", id |-> id]]
    <3>1. PICK index \in view.list :
              view' = [view EXCEPT !.sel = {[id |-> id, from |-> index.from]}, !.path = NoPath,
                                   !.files = [kind |-> "loading", id |-> id]]
      BY <1>5 DEF SelectSnapshot
    <3>2. {[id |-> id, from |-> index.from]} # {}
      OBVIOUS
    <3> QED BY <3>1, <3>2
  <2> QED BY <2>1
<1>6. ASSUME NEW path, SelectFile(path)
      PROVE  Fine(view') /\ SameGates(view, view')
  <2>1. view.sel # {} /\ view' = StartFile(view, path)
    BY <1>6, NoRows DEF SelectFile
  <2> QED BY <2>1, StartFileEffect
<1>7. ASSUME NEW b, NEW mode, RestoreFile(b, mode) PROVE view' = view
  BY <1>7 DEF RestoreFile, browserVars
<1>8. ASSUME NEW b, NEW mode, RestoreDir(b, mode)
      PROVE  Fine(view') /\ view'.refreshing = view.refreshing
  BY <1>8 DEF RestoreDir
<1> QED BY <1>1, <1>2, <1>3, <1>4, <1>5, <1>6, <1>7, <1>8 DEF BrowserClick

LEMMA RefreshedEffect ==
    ASSUME Fine(view), NEW c, Refreshed(c)
    PROVE  Fine(view') /\ view'.restoring = view.restoring /\ ~view'.refreshing
<1> USE DEF Fine, ViewTyped, Gone, ViewFields, SameGates
<1>1. CASE view' = [view EXCEPT !.refreshing = FALSE]
  BY <1>1
<1>2. ASSUME NEW index,
             view' = [(IF view.sel = {} THEN [view EXCEPT !.list = c.got]
                       ELSE Reselected(index)) EXCEPT !.refreshing = FALSE]
      PROVE  Fine(view') /\ view'.restoring = view.restoring /\ ~view'.refreshing
  <2> DEFINE v == IF view.sel = {} THEN [view EXCEPT !.list = c.got] ELSE Reselected(index)
  <2>1. Fine(v) /\ SameGates(view, v)
    <3>1. CASE view.sel = {}
      BY <3>1
    <3>2. CASE view.sel # {}
      <4>1. v = Reselected(index)
        BY <3>2
      <4> HIDE DEF v
      <4> QED BY <3>2, <4>1, ReselectedEffect
    <3> QED BY <3>1, <3>2
  <2>2. view' = [v EXCEPT !.refreshing = FALSE]
    BY <1>2
  <2> HIDE DEF v
  <2> QED BY <2>1, <2>2
<1> QED BY <1>1, <1>2 DEF Refreshed

LEMMA ViewAnswer ==
    ASSUME Fine(view), CallsTyped, NEW c \in calls, BrowserAnswer(c)
    PROVE  /\ Fine(view') /\ view'.restoring = view.restoring
           /\ \/ view'.refreshing = view.refreshing
              \/ Refreshed(c) /\ ~view'.refreshing
<1>0. DOMAIN EmptyPane = PaneFields /\ EmptyPane.kind = "none"
  BY DEF EmptyPane, PaneFields
<1>1. c.kind \in ColumnKinds /\ Current(c) => view.sel # {}
  BY DEF Current, CallsTyped, CallTyped
<1> USE DEF Fine, ViewTyped, Gone, ViewFields, SameGates, ColumnKinds
<1>2. CASE SnapshotsListed(c)
  BY <1>2 DEF SnapshotsListed
<1>3. CASE Refreshed(c)
  BY <1>3, RefreshedEffect
<1>4. CASE Materialized(c)
  BY <1>1, <1>4 DEF Materialized, Answered
<1>5. CASE MaterializeFails(c)
  BY <1>1, <1>5 DEF MaterializeFails, Answered
<1>6. CASE ParentDone(c)
  <2>1. CASE view' = view
    BY <2>1
  <2>2. CASE Current(c) /\ ShowSelection(c)
    <3>1. view.sel # {}
      BY <1>1, <1>6, <2>2 DEF ParentDone, Answered
    <3> DEFINE v == ShowTree(view)
    <3>2. ViewTyped(v) /\ SameGates(view, v) /\ v.sel # {}
      BY <3>1, ShowTreeEffect
    <3>3. CASE view' = StartFile(v, c.path)
      <4> HIDE DEF v
      <4> QED BY <3>2, <3>3, StartFileEffect
    <3>4. ASSUME NEW pane, DOMAIN pane = PaneFields, view' = [v EXCEPT !.pane = pane]
          PROVE  Fine(view') /\ SameGates(view, view')
      <4> HIDE DEF v
      <4> QED BY <3>2, <3>4
    <3>5. CASE view' = [v EXCEPT !.pane = IF c.path = NoPath THEN @ ELSE EmptyPane]
      <4> DEFINE pane == IF c.path = NoPath THEN v.pane ELSE EmptyPane
      <4>1. DOMAIN pane = PaneFields
        BY <1>0, ShowTreeEffect
      <4>2. view' = [v EXCEPT !.pane = pane]
        BY <3>5
      <4> HIDE DEF v, pane
      <4> QED BY <3>4, <4>1, <4>2
    <3>6. \/ view' = view \/ view' = StartFile(v, c.path)
          \/ view' = [v EXCEPT !.pane = IF c.path = NoPath THEN @ ELSE EmptyPane]
      BY <2>2 DEF ShowSelection
    <3> HIDE DEF v
    <3> QED BY <2>1, <3>3, <3>5, <3>6
  <2> QED BY <1>6, <2>1, <2>2 DEF ParentDone
<1>7. CASE Fetched(c)
  <2>1. CASE Current(c)
    <3> DEFINE pane == [kind |-> "file", path |-> c.path, id |-> IdOf(c.entry), buttons |-> {}]
    <3>1. view.sel # {} /\ view' = [view EXCEPT !.pane = pane]
      BY <1>1, <1>7, <2>1 DEF Fetched, Answered
    <3>2. DOMAIN pane = PaneFields
      BY DEF PaneFields
    <3> HIDE DEF pane
    <3> QED BY <3>1, <3>2
  <2> QED BY <1>7, <2>1 DEF Fetched
<1>8. CASE FetchFails(c)
  BY <1>8 DEF FetchFails
<1>9. CASE Rendered(c)
  <2>1. PICK buttons : view' = view \/ view' = [view EXCEPT !.pane.buttons = buttons]
    BY <1>9 DEF Rendered
  <2>2. ASSUME view' = [view EXCEPT !.pane.buttons = buttons]
        PROVE  /\ DOMAIN view' = ViewFields /\ view'.pane = [view.pane EXCEPT !.buttons = buttons]
               /\ view'.sel = view.sel /\ view'.fileState = view.fileState
               /\ view'.tree = view.tree /\ view'.files = view.files /\ SameGates(view, view')
    BY <2>2
  <2>3. /\ DOMAIN [view.pane EXCEPT !.buttons = buttons] = PaneFields
        /\ [view.pane EXCEPT !.buttons = buttons].kind = view.pane.kind
    BY DEF PaneFields
  <2> QED BY <2>1, <2>2, <2>3
<1> QED BY <1>2, <1>3, <1>4, <1>5, <1>6, <1>7, <1>8, <1>9 DEF BrowserAnswer

LEMMA ViewEffect ==
    Next \/ UNCHANGED vars =>
        \/ UNCHANGED view
        \/ BrowserClick
        \/ \E c \in calls : BrowserAnswer(c)
        \/ \E o \in ops : EndOp(o) /\ OpenGate(o)
<1> SUFFICES ASSUME Next \/ UNCHANGED vars, ~BrowserClick, ~\E c \in calls : BrowserAnswer(c)
             PROVE  \/ UNCHANGED view
                    \/ \E o \in ops : EndOp(o) /\ OpenGate(o)
  OBVIOUS
<1>1. CASE UserClicks
  BY <1>1 DEF UserClicks, OpenVersions, ShowHistory, CloseVersions, SelectVersion,
      RestoreVersion, PreviewVersion, RestoreFromHistory, CloseHistory, browserVars
<1>2. CASE AnswersCome
  <2>1. CASE \E n \in DOMAIN downloads : DownloadEnds(n) /\ UNCHANGED <<view, tab, modal>>
    BY <2>1
  <2>2. ASSUME NEW c \in calls,
               \/ VersionsListed(c) \/ VersionFetched(c) \/ VersionFails(c)
               \/ VersionRendered(c) \/ HistoryListed(c) \/ Previewed(c) \/ PreviewFails(c)
        PROVE  UNCHANGED view
    BY <2>2 DEF VersionsListed, VersionFetched, VersionFails, VersionRendered,
        HistoryListed, Previewed, PreviewFails
  <2> QED BY <1>2, <2>1, <2>2 DEF AnswersCome
<1>3. CASE Meanwhile \/ UNCHANGED vars
  BY <1>3 DEF Meanwhile, vars, browserVars
<1>4. CASE \E o \in ops : RestoreEnds(o)
  BY <1>4 DEF RestoreEnds
<1> QED BY <1>1, <1>2, <1>3, <1>4 DEF Next

LEMMA DirStays ==
    ASSUME OpsInv, Next \/ UNCHANGED vars, NEW dir \in ops, dir.kind = "dir"
    PROVE  (\E o \in ops' : o.kind = "dir") \/ (EndOp(dir) /\ OpenGate(dir))
<1>0. OpsTyped /\ Mutex
  BY DEF OpsInv
<1>1. ASSUME NEW o \in ops, OpStep(o)
      PROVE  \E new : ops' = (ops \ {o}) \cup {new} /\ new.kind = o.kind
  <2>1. ASSUME NEW p \in Paths, BeginFile(o, p)
        PROVE  \E new : ops' = (ops \ {o}) \cup {new} /\ new.kind = o.kind
    BY <1>0, <2>1, BeginEffect
  <2>2. CASE PlanDirectory(o)
    BY <1>0, <2>2, PlanEffect
  <2>3. CASE FetchFile(o)
    BY <1>0, <2>3, FetchEffect
  <2>4. CASE WriteFile(o)
    BY <1>0, <2>4, WriteEffect
  <2>5. CASE ClearPlace(o)
    BY <1>0, <2>5, ClearEffect
  <2>6. CASE MoveIntoPlace(o)
    BY <1>0, <2>6, MoveEffect
  <2>7. CASE FileError(o)
    BY <1>0, <2>7, ErrorEffect
  <2> QED BY <1>1, <2>1, <2>2, <2>3, <2>4, <2>5, <2>6, <2>7 DEF OpStep
<1>2. ASSUME NEW o \in ops, OpStep(o) PROVE \E other \in ops' : other.kind = "dir"
  BY <1>1, <1>2
<1>3. ASSUME NEW o \in ops, EndOp(o), OpenGate(o)
      PROVE  (\E other \in ops' : other.kind = "dir") \/ (EndOp(dir) /\ OpenGate(dir))
  BY <1>3 DEF EndOp
<1> QED BY <1>2, <1>3, RestoreEffect DEF vaultVars, NewOp

RefreshOwned == view.refreshing => \E c \in calls : c.kind = "refresh"
RestoreOwned == view.restoring => \E o \in ops : o.kind = "dir"

BrowserInv == Fine(view) /\ CallsTyped /\ RefreshOwned /\ RestoreOwned

LEMMA BrowserInvInit == Init => BrowserInv
<1> SUFFICES ASSUME Init PROVE BrowserInv
  OBVIOUS
<1>1. /\ view = [open |-> cache.index # {}, since |-> 0, list |-> cache.index, sel |-> {},
                 path |-> NoPath, fileState |-> {}, tree |-> {},
                 files |-> EmptyFiles, pane |-> EmptyPane,
                 refreshing |-> FALSE, restoring |-> FALSE]
      /\ calls = {}
  BY DEF Init, BrowserInit
<1>2. DOMAIN EmptyPane = PaneFields /\ EmptyPane.kind = "none"
  BY DEF EmptyPane, PaneFields
<1> QED BY <1>1, <1>2 DEF BrowserInv, Fine, ViewTyped, Gone, ViewFields, CallsTyped,
           RefreshOwned, RestoreOwned

LEMMA BrowserInvStep == OpsInv /\ BrowserInv /\ [Next]_vars => BrowserInv'
<1> SUFFICES ASSUME OpsInv, BrowserInv, Next \/ UNCHANGED vars PROVE BrowserInv'
  OBVIOUS
<1>0. Fine(view) /\ CallsTyped /\ RefreshOwned /\ RestoreOwned
      /\ (view.sel = {} => Rows = {})
  BY NoRows DEF BrowserInv, Fine
<1>1. CallsTyped' /\ \A c \in calls : Answer(c) \/ \E d \in calls' : Same(c, d)
  BY <1>0, CallsStep
<1>2. ASSUME NEW o \in ops, EndOp(o), OpenGate(o)
      PROVE  Fine(view') /\ view'.refreshing = view.refreshing
             /\ view'.restoring = (view.restoring /\ o.kind # "dir")
  BY <1>0, <1>2 DEF OpenGate, Fine, ViewTyped, ViewFields, Gone
<1>3. Fine(view)'
  BY <1>0, <1>2, ViewEffect, ViewClick, ViewAnswer
<1>4. RefreshOwned'
  <2> SUFFICES ASSUME view'.refreshing PROVE \E c \in calls' : c.kind = "refresh"
    BY DEF RefreshOwned
  <2>1. CASE Refresh
    <3>1. AskingCall("refresh", NoPath).kind = "refresh"
      BY AskingRecord DEF ColumnKinds
    <3> QED BY <2>1, <3>1 DEF Refresh, Begin
  <2>2. CASE ~Refresh
    <3>1. view.refreshing /\ ~\E c \in calls : Refreshed(c)
      <4>1. ASSUME NEW c \in calls, Refreshed(c) PROVE FALSE
        <5>1. ~view'.refreshing
          BY <1>0, <4>1, RefreshedEffect
        <5> QED BY <5>1
      <4>2. view'.refreshing = view.refreshing
        BY <1>0, <1>2, <2>2, <4>1, ViewEffect, ViewClick, ViewAnswer
      <4> QED BY <4>1, <4>2
    <3>2. PICK c \in calls : c.kind = "refresh"
      BY <1>0, <3>1 DEF RefreshOwned
    <3>3. PICK d \in calls' : Same(c, d)
      BY <1>1, <3>1, <3>2, AnswerOfKind
    <3> QED BY <3>2, <3>3 DEF Same
  <2> QED BY <2>1, <2>2
<1>5. RestoreOwned'
  <2> SUFFICES ASSUME view'.restoring PROVE \E o \in ops' : o.kind = "dir"
    BY DEF RestoreOwned
  <2>1. ASSUME NEW b, NEW mode, RestoreDir(b, mode) PROVE \E o \in ops' : o.kind = "dir"
    BY <2>1, OpRecord DEF RestoreDir
  <2>2. CASE ~\E b, mode : RestoreDir(b, mode)
    <3>1. view.restoring
      BY <1>0, <1>2, <2>2, ViewEffect, ViewClick, ViewAnswer
    <3>2. PICK dir \in ops : dir.kind = "dir"
      BY <1>0, <3>1 DEF RestoreOwned
    <3>3. ~(EndOp(dir) /\ OpenGate(dir))
      BY <1>2, <3>2
    <3> QED BY <3>2, <3>3, DirStays
  <2> QED BY <2>1, <2>2
<1> QED BY <1>1, <1>3, <1>4, <1>5 DEF BrowserInv

\* The answers to the clicks that were made before a snapshot was pruned
\* bring nothing of it back into the columns of the browser, in whichever
\* order they arrive (_refreshSnapshots, _selectSnapshot).
THEOREM PrunedLeavesNothing == Spec => []PrunedIsGone
<1>1. BrowserInv => PrunedIsGone
  BY DEF BrowserInv, Fine, Gone, PrunedIsGone
<1> QED BY <1>1, OpsInvInit, OpsInvStep, BrowserInvInit, BrowserInvStep, PTL DEF Spec

(***************************************************************************)
(* The tab of a file's versions.  The version it loads is the one whose    *)
(* row is marked, and the call that will end the loading is under way.     *)
(***************************************************************************)
TabFields == {"open", "since", "path", "rows", "selected", "pane"}
VersionPaneFields == {"kind", "id", "path", "n", "buttons"}

CountsTyped ==
    /\ DOMAIN counts = {"events", "clicks"}
    /\ counts.events \in Nat /\ counts.clicks \in Nat

TabTyped(t) ==
    DOMAIN t = TabFields /\ DOMAIN t.pane = VersionPaneFields /\ t.since \in Nat
InStep(t) ==
    /\ t.pane.kind = "shown" => t.pane.id = t.selected
    /\ \A row \in t.pane.buttons : row.id = t.selected
LoadsSelected(t) == t.pane.kind = "loading" => t.open /\ t.pane.id = t.selected

Loader(c, t) == c.kind = "version" /\ c.entry = Entry(t.pane) /\ c.n >= t.since

TabInv ==
    /\ CountsTyped /\ TabTyped(tab) /\ tab.since <= counts.clicks
    /\ InStep(tab) /\ LoadsSelected(tab)
    /\ tab.pane.kind = "loading" => \E c \in calls : Loader(c, tab)

LEMMA EntryOfRow ==
    ASSUME NEW row PROVE IdOf(Entry(row)) = row.id
<1>1. (CHOOSE e \in {[id |-> row.id, from |-> 0]} : TRUE) = [id |-> row.id, from |-> 0]
  OBVIOUS
<1> QED BY <1>1 DEF IdOf, Entry

LEMMA ClosedTab ==
    /\ TabTyped(Closed) /\ InStep(Closed) /\ Closed.pane.kind = "none" /\ Closed.since = 0
BY DEF Closed, Blank, TabTyped, InStep, TabFields, VersionPaneFields

LEMMA SpendEffect ==
    ASSUME CountsTyped, NEW what \in {"events", "clicks"}, NEW max, Spend(what, max)
    PROVE  CountsTyped' /\ counts'.clicks >= counts.clicks
BY DEF Spend, CountsTyped

LEMMA CountsStep ==
    ASSUME CountsTyped, Next \/ UNCHANGED vars
    PROVE  CountsTyped' /\ counts'.clicks >= counts.clicks
<1> DEFINE Counted == counts' = counts \/ Spend("events", MaxEvents) \/ Click
<1>0. Counted => CountsTyped' /\ counts'.clicks >= counts.clicks
  <2>1. CASE counts' = counts
    BY <2>1 DEF CountsTyped
  <2> QED BY <2>1, SpendEffect DEF Click
<1>1. ASSUME BrowserClick PROVE Counted
  BY <1>1 DEF BrowserClick, Open, Close, Refresh, Search, SelectDir, SelectSnapshot,
      SelectFile, RestoreFile, RestoreDir
<1>2. ASSUME UserClicks, ~BrowserClick PROVE Counted
  BY <1>2 DEF UserClicks, OpenVersions, ShowHistory, CloseVersions, SelectVersion,
      RestoreVersion, PreviewVersion, RestoreFromHistory, CloseHistory
<1>3. ASSUME NEW n, DownloadEnds(n) PROVE Counted
  BY <1>3 DEF DownloadEnds, IndexArrives, IndexFails
<1>4. ASSUME NEW c, Answer(c) PROVE Counted
  <2>1. CASE BrowserAnswer(c)
    BY <2>1 DEF BrowserAnswer, SnapshotsListed, Refreshed, Materialized, MaterializeFails,
        ParentDone, Fetched, FetchFails, Rendered, restoreVars
  <2>2. CASE ~BrowserAnswer(c)
    BY <1>4, <2>2 DEF Answer, VersionsListed, VersionFetched, VersionFails, VersionRendered,
        HistoryListed, Previewed, PreviewFails, restoreVars
  <2> QED BY <2>1, <2>2
<1>5. ASSUME NEW o, OpStep(o) PROVE Counted
  BY <1>5 DEF OpStep, PlanDirectory, BeginFile, FetchFile, WriteFile, ClearPlace,
      MoveIntoPlace, FileError
<1>6. ASSUME Meanwhile PROVE Counted
  BY <1>5, <1>6 DEF Meanwhile, FolderChanges, Invalidate, DamageBlob, ServerReads
<1>7. ASSUME AnswersCome PROVE Counted
  BY <1>3, <1>4, <1>7 DEF AnswersCome, Answer
<1>8. ASSUME \E o \in ops : RestoreEnds(o) PROVE Counted
  BY <1>8 DEF RestoreEnds, EndOp
<1>9. ASSUME UNCHANGED vars PROVE Counted
  BY <1>9 DEF vars, restoreVars
<1> QED BY <1>0, <1>1, <1>2, <1>6, <1>7, <1>8, <1>9 DEF Next

LEMMA TabEffect ==
    Next \/ UNCHANGED vars =>
        \/ tab' = tab
        \/ \E path \in Paths : OpenVersions(path)
        \/ CloseVersions
        \/ \E row \in tab.rows : SelectVersion(row)
        \/ \E c \in calls : \/ VersionsListed(c) \/ VersionFetched(c)
                            \/ VersionFails(c) \/ VersionRendered(c)
<1> DEFINE Moves == \/ tab' = tab
                    \/ \E path \in Paths : OpenVersions(path)
                    \/ CloseVersions
                    \/ \E row \in tab.rows : SelectVersion(row)
                    \/ \E c \in calls : \/ VersionsListed(c) \/ VersionFetched(c)
                                        \/ VersionFails(c) \/ VersionRendered(c)
<1> SUFFICES ASSUME Next \/ UNCHANGED vars PROVE Moves
  OBVIOUS
<1>1. ASSUME UserClicks PROVE Moves
  <2>1. ASSUME NEW path \in Paths, ShowHistory(path) PROVE tab' = tab
    BY <2>1 DEF ShowHistory
  <2>2. ASSUME NEW row, NEW mode, RestoreVersion(row, mode) PROVE tab' = tab
    BY <2>2 DEF RestoreVersion
  <2>3. ASSUME NEW row, PreviewVersion(row) \/ RestoreFromHistory(row) PROVE tab' = tab
    BY <2>3 DEF PreviewVersion, RestoreFromHistory
  <2>4. ASSUME CloseHistory PROVE tab' = tab
    BY <2>4 DEF CloseHistory
  <2> QED BY <1>1, <2>1, <2>2, <2>3, <2>4 DEF UserClicks
<1>2. ASSUME AnswersCome PROVE Moves
  BY <1>2 DEF AnswersCome, HistoryListed, Previewed, PreviewFails
<1>3. ASSUME Meanwhile \/ (\E o \in ops : RestoreEnds(o)) \/ UNCHANGED vars PROVE Moves
  BY <1>3 DEF Meanwhile, RestoreEnds, vars
<1> QED BY <1>1, <1>2, <1>3 DEF Next

\* The tab in the steps that are its own.
LEMMA StartEffect ==
    ASSUME NEW t, TabTyped(t), NEW row, NEW n
    PROVE  /\ TabTyped(StartVersion(t, row, n)) /\ InStep(StartVersion(t, row, n))
           /\ StartVersion(t, row, n).selected = row.id
           /\ StartVersion(t, row, n).pane.id = row.id
           /\ StartVersion(t, row, n).open = t.open /\ StartVersion(t, row, n).since = t.since
<1> DEFINE pane == [kind |-> "loading", id |-> row.id, path |-> row.path, n |-> n, buttons |-> {}]
<1>1. /\ DOMAIN pane = VersionPaneFields /\ pane.kind = "loading" /\ pane.id = row.id
      /\ pane.buttons = {}
  BY DEF VersionPaneFields
<1>2. StartVersion(t, row, n) = [t EXCEPT !.selected = row.id, !.pane = pane]
  BY DEF StartVersion
<1> HIDE DEF pane
<1>3. /\ DOMAIN StartVersion(t, row, n) = TabFields
      /\ StartVersion(t, row, n).pane = pane /\ StartVersion(t, row, n).selected = row.id
      /\ StartVersion(t, row, n).open = t.open /\ StartVersion(t, row, n).since = t.since
  BY <1>2 DEF TabTyped, TabFields
<1> QED BY <1>1, <1>3 DEF TabTyped, InStep

LEMMA PaneEffect ==
    ASSUME NEW t, TabTyped(t), NEW pane, DOMAIN pane = VersionPaneFields
    PROVE  LET new == [t EXCEPT !.pane = pane]
           IN  /\ TabTyped(new) /\ new.pane = pane /\ new.selected = t.selected
               /\ new.open = t.open /\ new.since = t.since
BY DEF TabTyped, TabFields

LEMMA ShownEffect ==
    ASSUME TabTyped(tab), NEW c, VersionFetched(c), StillWanted(c)
    PROVE  /\ TabTyped(tab') /\ InStep(tab') /\ tab'.pane.kind = "shown"
           /\ tab'.since = tab.since
<1>1. tab' = [tab EXCEPT !.pane = Shown(c)]
  BY DEF VersionFetched
<1>2. /\ DOMAIN Shown(c) = VersionPaneFields /\ Shown(c).kind = "shown"
      /\ Shown(c).id = IdOf(c.entry) /\ Shown(c).buttons = {}
  BY DEF Shown, VersionPaneFields
<1>3. tab.selected = IdOf(c.entry)
  BY DEF StillWanted
<1> QED BY <1>1, <1>2, <1>3, PaneEffect DEF InStep

LEMMA ErrorShown ==
    ASSUME TabTyped(tab), NEW c, VersionFails(c), StillWanted(c)
    PROVE  /\ TabTyped(tab') /\ InStep(tab') /\ tab'.pane.kind = "error"
           /\ tab'.since = tab.since
<1> DEFINE pane == [Blank EXCEPT !.kind = "error"]
<1>1. tab' = [tab EXCEPT !.pane = pane]
  BY DEF VersionFails
<1>2. DOMAIN pane = VersionPaneFields /\ pane.kind = "error" /\ pane.buttons = {}
  BY DEF Blank, VersionPaneFields
<1> HIDE DEF pane
<1> QED BY <1>1, <1>2, PaneEffect DEF InStep

LEMMA ButtonsEffect ==
    ASSUME TabTyped(tab), InStep(tab), NEW c, VersionRendered(c), StillWanted(c)
    PROVE  /\ TabTyped(tab') /\ InStep(tab') /\ tab'.pane.kind = tab.pane.kind
           /\ tab'.pane.id = tab.pane.id /\ tab'.selected = tab.selected
           /\ tab'.open = tab.open /\ tab'.since = tab.since
<1> DEFINE buttons == tab.pane.buttons \cup {[id |-> IdOf(c.entry), path |-> c.path]}
           pane == [tab.pane EXCEPT !.buttons = buttons]
<1>1. tab' = [tab EXCEPT !.pane = pane]
  BY DEF VersionRendered
<1>2. \A row \in buttons : row.id = tab.selected
  BY DEF InStep, StillWanted
<1> HIDE DEF buttons
<1>3. /\ DOMAIN pane = VersionPaneFields /\ pane.kind = tab.pane.kind
      /\ pane.id = tab.pane.id /\ pane.buttons = buttons
  BY DEF TabTyped, VersionPaneFields
<1> HIDE DEF pane
<1> QED BY <1>1, <1>2, <1>3, PaneEffect DEF InStep

LEMMA ListedEffect ==
    ASSUME CallsTyped, TabTyped(tab), NEW c \in calls, VersionsListed(c), tab' # tab
    PROVE  /\ TabTyped(tab') /\ InStep(tab') /\ LoadsSelected(tab')
           /\ tab'.since = tab.since
           /\ \E d \in calls' : Loader(d, tab')
<1>1. PICK rows, row :
          /\ OfThisTab(c)
          /\ tab' = StartVersion([tab EXCEPT !.rows = rows], row, c.n)
          /\ Continue(c, [c EXCEPT !.kind = "version", !.entry = Entry(row),
                                   !.path = row.path, !.got = {}])
  BY DEF VersionsListed
<1> DEFINE t == [tab EXCEPT !.rows = rows]
           d == [c EXCEPT !.kind = "version", !.entry = Entry(row),
                          !.path = row.path, !.got = {}]
<1>2. TabTyped(t) /\ t.open = tab.open /\ t.since = tab.since
  BY DEF TabTyped, TabFields
<1>3. d.kind = "version" /\ d.entry = Entry(row) /\ d.n = c.n
  BY DEF CallsTyped, CallTyped, CallFields
<1>4. d \in calls' /\ tab' = StartVersion(t, row, c.n)
  BY <1>1 DEF Continue
<1> HIDE DEF t, d
<1>5. /\ TabTyped(tab') /\ InStep(tab') /\ tab'.selected = row.id
      /\ tab'.pane.id = row.id /\ tab'.open = tab.open /\ tab'.since = tab.since
  BY <1>2, <1>4, StartEffect
<1>6. Entry(tab'.pane) = Entry(row)
  BY <1>5 DEF Entry
<1> QED BY <1>1, <1>3, <1>4, <1>5, <1>6 DEF LoadsSelected, Loader, OfThisTab

LEMMA SelectEffect ==
    ASSUME TabInv, CountsTyped', counts'.clicks >= counts.clicks,
           NEW row, SelectVersion(row)
    PROVE  /\ TabTyped(tab') /\ InStep(tab') /\ LoadsSelected(tab')
           /\ tab'.since = tab.since
           /\ \E d \in calls' : Loader(d, tab')
<1>1. /\ tab.open /\ tab' = StartVersion(tab, row, counts'.clicks)
      /\ Begin(Call("version", Entry(row), row.path))
  BY DEF SelectVersion
<1>2. /\ TabTyped(tab') /\ InStep(tab') /\ tab'.selected = row.id
      /\ tab'.pane.id = row.id /\ tab'.open = tab.open /\ tab'.since = tab.since
  <2> DEFINE n == counts'.clicks
  <2>1. TabTyped(tab) /\ tab' = StartVersion(tab, row, n)
    BY <1>1 DEF TabInv
  <2> HIDE DEF n
  <2> QED BY <2>1, StartEffect
<1>3. Entry(tab'.pane) = Entry(row)
  BY <1>2 DEF Entry
<1>4. counts'.clicks >= tab'.since
  BY <1>2 DEF TabInv, TabTyped, CountsTyped
<1>5. LET d == Call("version", Entry(row), row.path)
      IN  d \in calls' /\ d.kind = "version" /\ d.entry = Entry(row) /\ d.n = counts'.clicks
  BY <1>1, CallRecord DEF Begin
<1> QED BY <1>1, <1>2, <1>3, <1>4, <1>5 DEF LoadsSelected, Loader

\* What the tab waits for is under way until it is answered, and the answer
\* is wanted.
LEMMA LoaderStays ==
    ASSUME TabInv, CallsTyped, view.sel = {} => Rows = {}, Next \/ UNCHANGED vars,
           tab.pane.kind = "loading", tab'.pane.kind = "loading",
           tab'.pane.id = tab.pane.id, tab'.since = tab.since
    PROVE  \E d \in calls' : Loader(d, tab')
<1>1. PICK c \in calls : Loader(c, tab)
  BY DEF TabInv
<1>2. StillWanted(c)
  <2>1. tab.open /\ tab.selected = IdOf(Entry(tab.pane))
    BY EntryOfRow DEF TabInv, LoadsSelected
  <2> QED BY <1>1, <2>1 DEF StillWanted, OfThisTab, Loader
<1>3. ~Answer(c)
  BY <1>1, <1>2, AnswerOfKind, ShownEffect, ErrorShown DEF Loader, TabInv
<1>4. PICK d \in calls' : Same(c, d)
  BY <1>3, CallsStep
<1>5. Entry(tab'.pane) = Entry(tab.pane)
  BY DEF Entry
<1> QED BY <1>1, <1>4, <1>5 DEF Loader, Same

LEMMA TabInvInit == Init => TabInv
<1> SUFFICES ASSUME Init PROVE TabInv
  OBVIOUS
<1>1. tab = Closed /\ counts = [events |-> 0, clicks |-> 0]
  BY DEF Init, PanelsInit, RestoreInit
<1>2. CountsTyped
  BY <1>1 DEF CountsTyped
<1> QED BY <1>1, <1>2, ClosedTab DEF TabInv, LoadsSelected, CountsTyped

LEMMA TabInvStep == BrowserInv /\ TabInv /\ [Next]_vars => TabInv'
<1> SUFFICES ASSUME BrowserInv, TabInv, Next \/ UNCHANGED vars PROVE TabInv'
  OBVIOUS
<1>0. /\ CallsTyped /\ (view.sel = {} => Rows = {})
      /\ TabTyped(tab) /\ InStep(tab) /\ LoadsSelected(tab)
  BY NoRows DEF BrowserInv, Fine, TabInv
<1>1. CountsTyped' /\ counts'.clicks >= counts.clicks
  BY CountsStep DEF TabInv
<1>2. ASSUME tab'.since = tab.since PROVE tab'.since <= counts'.clicks
  BY <1>1, <1>2 DEF TabInv, TabTyped, CountsTyped
<1>3. CASE tab' = tab
  <2>1. tab.pane.kind = "loading" => \E d \in calls' : Loader(d, tab')
    BY <1>0, <1>3, LoaderStays
  <2> QED BY <1>0, <1>1, <1>2, <1>3, <2>1 DEF TabInv
<1>4. ASSUME NEW path, OpenVersions(path) PROVE TabInv'
  <2> DEFINE new == [Closed EXCEPT !.open = TRUE, !.since = counts'.clicks, !.path = path]
  <2>1. tab' = new
    BY <1>4 DEF OpenVersions
  <2>2. /\ TabTyped(new) /\ new.since = counts'.clicks /\ new.pane.kind = "none"
        /\ new.pane.buttons = {}
    BY <1>1 DEF Closed, Blank, TabTyped, TabFields, VersionPaneFields, CountsTyped
  <2> HIDE DEF new
  <2> QED BY <1>1, <2>1, <2>2 DEF TabInv, InStep, LoadsSelected, CountsTyped
<1>5. CASE CloseVersions
  <2>1. tab' = Closed
    BY <1>5 DEF CloseVersions
  <2> QED BY <1>1, <2>1, ClosedTab DEF TabInv, LoadsSelected, CountsTyped
<1>6. ASSUME NEW row \in tab.rows, SelectVersion(row) PROVE TabInv'
  BY <1>1, <1>2, <1>6, SelectEffect DEF TabInv
<1>7. ASSUME NEW c \in calls, VersionsListed(c), tab' # tab PROVE TabInv'
  BY <1>0, <1>1, <1>2, <1>7, ListedEffect DEF TabInv
<1>8. ASSUME NEW c \in calls, VersionFetched(c), tab' # tab PROVE TabInv'
  <2>1. StillWanted(c)
    BY <1>8 DEF VersionFetched
  <2> QED BY <1>0, <1>1, <1>2, <1>8, <2>1, ShownEffect DEF TabInv, LoadsSelected
<1>9. ASSUME NEW c \in calls, VersionFails(c), tab' # tab PROVE TabInv'
  <2>1. StillWanted(c)
    BY <1>9 DEF VersionFails
  <2> QED BY <1>0, <1>1, <1>2, <1>9, <2>1, ErrorShown DEF TabInv, LoadsSelected
<1>10. ASSUME NEW c \in calls, VersionRendered(c), tab' # tab PROVE TabInv'
  <2>1. StillWanted(c)
    BY <1>10 DEF VersionRendered
  <2>2. /\ TabTyped(tab') /\ InStep(tab') /\ tab'.pane.kind = tab.pane.kind
        /\ tab'.pane.id = tab.pane.id /\ tab'.selected = tab.selected
        /\ tab'.open = tab.open /\ tab'.since = tab.since
    BY <1>0, <1>10, <2>1, ButtonsEffect
  <2>3. tab'.pane.kind = "loading" => \E d \in calls' : Loader(d, tab')
    BY <1>0, <2>2, LoaderStays
  <2> QED BY <1>0, <1>1, <1>2, <2>2, <2>3 DEF TabInv, LoadsSelected
<1> QED BY <1>3, <1>4, <1>5, <1>6, <1>7, <1>8, <1>9, <1>10, TabEffect

\* The tab shows the version whose row is marked and restores no other,
\* whichever answer arrives when and however often the tab is closed and
\* opened again (_selectVersion).
THEOREM TabIsInStep == Spec => []TabShowsSelected
<1>1. TabInv => TabShowsSelected
  BY DEF TabInv, InStep, TabShowsSelected
<1> QED BY <1>1, OpsInvInit, OpsInvStep, BrowserInvInit, BrowserInvStep, TabInvInit, TabInvStep,
           PTL DEF Spec

\* No gate stays closed because something failed: whoever will open it is
\* under way.
THEOREM GatesAreOwned == Spec => []GatesHaveOwners
<1>1. OpsInv /\ BrowserInv /\ TabInv => GatesHaveOwners
  BY DEF OpsInv, Mutex, BrowserInv, RefreshOwned, RestoreOwned, TabInv, Loader, GatesHaveOwners
<1> QED BY <1>1, OpsInvInit, OpsInvStep, BrowserInvInit, BrowserInvStep, TabInvInit, TabInvStep,
           PTL DEF Spec

(***************************************************************************)
(* The versions of a file.  What a recursive function computes is shown by *)
(* going through its arguments, up to a bound.                             *)
(***************************************************************************)
\* The least-number principle, for a set of numbers.
LEMMA Least ==
    ASSUME NEW T \in SUBSET Nat, T # {}
    PROVE  \E x \in T : \A y \in T : x <= y
<1> DEFINE R == {p \in Nat \X Nat : p[1] < p[2]}
<1>1. IsWellFoundedOn(R, Nat)
  BY NatLessThanWellFounded DEF OpToRel
<1>2. \A x, y \in Nat : y < x => <<y, x>> \in R
  OBVIOUS
<1> HIDE DEF R
<1>3. PICK x \in T : \A y \in T : ~(<<y, x>> \in R)
  BY <1>1, WFMin
<1>4. \A y \in T : x \in Nat /\ y \in Nat /\ ~(y < x)
  BY <1>2, <1>3
<1> QED BY <1>3, <1>4

\* Induction up to a bound: what holds is a set of numbers.
LEMMA CountUp ==
    ASSUME NEW n \in Nat, NEW T, 0 \in T,
           \A k \in 0..(n - 1) : k \in T => k + 1 \in T
    PROVE  \A k \in 0..n : k \in T
<1> DEFINE Out == {k \in 0..n : k \notin T}
<1> SUFFICES ASSUME Out # {} PROVE FALSE
  OBVIOUS
<1>1. PICK k \in Out : \A j \in Out : k <= j
  <2>1. Out \in SUBSET Nat
    OBVIOUS
  <2> QED BY <2>1, Least
<1>2. k \in Nat /\ k # 0 /\ k <= n /\ k \notin T
  OBVIOUS
<1>3. k - 1 \in 0..(n - 1) /\ k - 1 \in 0..n /\ ~(k <= k - 1) /\ (k - 1) + 1 = k
  BY <1>2
<1>4. k - 1 \in T
  BY <1>1, <1>3
<1> QED BY <1>2, <1>3, <1>4

\* A function defined by recursion over 0..n, from base by what g does.
Recursion(f, n, base, g) ==
    f[0] = base /\ \A k \in 1..n : f[k] = g[<<k, f[k - 1]>>]

LEMMA RecursionExists ==
    ASSUME NEW n \in Nat, NEW A, NEW base \in A, NEW g \in [(1..n) \X A -> A]
    PROVE  \E f \in [0..n -> A] : Recursion(f, n, base, g)
<1> DEFINE T == {k \in 0..n : \E f \in [0..k -> A] : Recursion(f, k, base, g)}
<1>1. 0 \in T
  <2> DEFINE f == [k \in 0..0 |-> base]
  <2>1. f \in [0..0 -> A] /\ Recursion(f, 0, base, g)
    BY DEF Recursion
  <2>2. 0 \in 0..n
    OBVIOUS
  <2> QED BY <2>1, <2>2
<1>2. ASSUME NEW k \in 0..(n - 1), k \in T PROVE k + 1 \in T
  <2>1. PICK f \in [0..k -> A] : Recursion(f, k, base, g)
    BY <1>2
  <2> DEFINE m == k + 1
             h == [j \in 0..m |-> IF j = m THEN g[<<m, f[k]>>] ELSE f[j]]
  <2>2. /\ k \in 0..k /\ m \in 1..n /\ m \in 0..n /\ m - 1 = k /\ k # m
        /\ \A j \in 0..m : j # m => j \in 0..k
        /\ \A j \in 1..m : j - 1 \in 0..m /\ j - 1 # m /\ (j # m => j \in 1..k)
        /\ 0 \in 0..m /\ 0 # m
    OBVIOUS
  <2> HIDE DEF m
  <2>3. f[k] \in A /\ g[<<m, f[k]>>] \in A
    BY <2>2
  <2>4. h \in [0..m -> A]
    BY <2>2, <2>3
  <2>5. h[0] = base
    BY <2>1, <2>2 DEF Recursion
  <2>6. ASSUME NEW j \in 1..m PROVE h[j] = g[<<j, h[j - 1]>>]
    <3>1. h[j - 1] = f[j - 1] /\ j \in 0..m
      BY <2>2
    <3>2. CASE j = m
      BY <2>2, <3>1, <3>2
    <3>3. CASE j # m
      BY <2>1, <2>2, <3>1, <3>3 DEF Recursion
    <3> QED BY <3>2, <3>3
  <2>7. Recursion(h, m, base, g)
    BY <2>5, <2>6 DEF Recursion
  <2> HIDE DEF h
  <2> QED BY <2>2, <2>4, <2>7 DEF m
<1> HIDE DEF T
<1>3. n \in T
  BY <1>1, <1>2, CountUp
<1> QED BY <1>3 DEF T

(***************************************************************************)
(* Names followed back.                                                    *)
(***************************************************************************)
NameRenames == [from : Names, to : Names]
AliasMaps == PartialFunctions(Names, Nat)

LEMMA AliasMapsFacts ==
    \A f : f \in AliasMaps <=> DOMAIN f \subseteq Names /\ f \in [DOMAIN f -> Nat]
BY DEF AliasMaps, PartialFunctions

\* What going back over a rename does to the aliases.
WentBack(new, since, r, i, oldest) ==
    /\ new \in AliasMaps
    /\ r.to \in DOMAIN since /\ r.from \notin DOMAIN since =>
          /\ DOMAIN new = DOMAIN since \cup {r.from} /\ new[r.from] = oldest
          /\ \A x \in DOMAIN since : new[x] = IF x = r.to THEN i ELSE since[x]
    /\ r.from \in DOMAIN since /\ r.to \notin DOMAIN since =>
          /\ DOMAIN new = DOMAIN since
          /\ \A x \in DOMAIN since : new[x] = IF x = r.from THEN i ELSE since[x]
    /\ (r.to \in DOMAIN since <=> r.from \in DOMAIN since) => new = since

LEMMA RenamedBackIs ==
    ASSUME NEW since \in AliasMaps, NEW r \in NameRenames, NEW i \in Nat, NEW oldest \in Nat
    PROVE  WentBack(RenamedBack(since, r, i, oldest), since, r, i, oldest)
<1> DEFINE new == RenamedBack(since, r, i, oldest)
<1>e. new = RenamedBack(since, r, i, oldest)
  OBVIOUS
<1> HIDE DEF new
<1> SUFFICES WentBack(new, since, r, i, oldest)
  BY <1>e
<1>1. DOMAIN since \subseteq Names /\ since \in [DOMAIN since -> Nat]
  BY AliasMapsFacts
<1>2. r.from \in Names /\ r.to \in Names
  BY DEF NameRenames
<1>3. CASE r.to \in DOMAIN since /\ r.from \notin DOMAIN since
  <2>1. new = [x \in DOMAIN since \cup {r.from} |->
                  IF x = r.from THEN oldest ELSE IF x = r.to THEN i ELSE since[x]]
    BY <1>e, <1>3 DEF RenamedBack
  <2>3. /\ DOMAIN new = DOMAIN since \cup {r.from} /\ new[r.from] = oldest
        /\ \A x \in DOMAIN since : new[x] = IF x = r.to THEN i ELSE since[x]
        /\ new \in [DOMAIN new -> Nat]
    BY <1>1, <1>3, <2>1
  <2>4. new \in AliasMaps
    BY <1>1, <1>2, <2>3, AliasMapsFacts
  <2> QED BY <1>3, <2>3, <2>4 DEF WentBack
<1>4. CASE r.from \in DOMAIN since /\ r.to \notin DOMAIN since
  <2>1. new = [since EXCEPT ![r.from] = i]
    BY <1>e, <1>4 DEF RenamedBack
  <2>2. /\ DOMAIN new = DOMAIN since /\ new \in [DOMAIN since -> Nat]
        /\ \A x \in DOMAIN since : new[x] = IF x = r.from THEN i ELSE since[x]
    BY <1>1, <1>4, <2>1
  <2> QED BY <1>1, <1>4, <2>2, AliasMapsFacts DEF WentBack
<1>5. CASE r.to \in DOMAIN since <=> r.from \in DOMAIN since
  <2>1. new = since
    BY <1>e, <1>5 DEF RenamedBack
  <2> QED BY <1>5, <2>1 DEF WentBack
<1> QED BY <1>3, <1>4, <1>5

\* A rename after the k-th of the i-th manifest gives a file the name w, or
\* takes the name w from one.
GivenLater(ms, w, i, k) ==
    \E j \in DOMAIN ms : \E l \in DOMAIN ms[j].renames :
        Earlier(i, k, j, l) /\ ms[j].renames[l].to = w
LeftLater(ms, w, i, k) ==
    \E j \in DOMAIN ms : \E l \in DOMAIN ms[j].renames :
        Earlier(i, k, j, l) /\ ms[j].renames[l].from = w
SomeGivenTwice(ms) == TwoRenames(ms, LAMBDA old, new : new.to = old.to)

\* After the k-th rename of the i-th manifest the file that was asked for
\* is called u: it is an alias without an end, and every other alias is
\* wrong, but was, or will be, called otherwise.
Followed(ms, since, u, i, k) ==
    /\ since \in AliasMaps /\ u \in DOMAIN since /\ since[u] = Len(ms)
    /\ \A w \in DOMAIN since :
           w = u \/ GivenLater(ms, w, i, k) \/ (SomeGivenTwice(ms) /\ LeftLater(ms, w, i, k))

Forward(name, r) == IF name = r.from THEN r.to ELSE IF name = r.to THEN NoPath ELSE name

IsHistory(ms) ==
    /\ Len(ms) \in Nat /\ DOMAIN ms = 1..Len(ms)
    /\ \A i \in DOMAIN ms :
           /\ ms[i].renames \in Seq(NameRenames) /\ DOMAIN ms[i].files \subseteq Names
           /\ \A k \in DOMAIN ms[i].renames : ms[i].renames[k].from # ms[i].renames[k].to

LEMMA RenameOf ==
    ASSUME NEW ms, IsHistory(ms), NEW i \in DOMAIN ms, NEW k \in DOMAIN ms[i].renames
    PROVE  /\ i \in Nat /\ i <= Len(ms) /\ k \in Nat \ {0} /\ k \in 1..Len(ms[i].renames)
           /\ ms[i].renames[k] \in NameRenames
           /\ ms[i].renames[k].from # ms[i].renames[k].to
           /\ ms[i].renames[k].from \in Names /\ ms[i].renames[k].to \in Names
<1>1. ms[i].renames \in Seq(NameRenames) /\ ms[i].renames[k].from # ms[i].renames[k].to
  BY DEF IsHistory
<1>2. ms[i].renames[k] \in NameRenames /\ k \in Nat \ {0} /\ k \in 1..Len(ms[i].renames)
  BY <1>1
<1>3. i \in Nat /\ i <= Len(ms)
  BY DEF IsHistory
<1> QED BY <1>1, <1>2, <1>3 DEF NameRenames

\* What comes after a rename comes after the one before it, and so does
\* that rename.
LEMMA LaterStep ==
    ASSUME NEW ms, IsHistory(ms), NEW i \in DOMAIN ms, NEW k \in DOMAIN ms[i].renames, NEW w
    PROVE  /\ GivenLater(ms, w, i, k) => GivenLater(ms, w, i, k - 1)
           /\ LeftLater(ms, w, i, k) => LeftLater(ms, w, i, k - 1)
           /\ GivenLater(ms, ms[i].renames[k].to, i, k - 1)
           /\ LeftLater(ms, ms[i].renames[k].from, i, k - 1)
<1>1. \A j \in DOMAIN ms : \A l \in DOMAIN ms[j].renames :
          Earlier(i, k, j, l) => Earlier(i, k - 1, j, l)
  <2> SUFFICES ASSUME NEW j \in DOMAIN ms, NEW l \in DOMAIN ms[j].renames, Earlier(i, k, j, l)
               PROVE  Earlier(i, k - 1, j, l)
    OBVIOUS
  <2>1. k \in Nat /\ l \in Nat
    BY RenameOf
  <2> QED BY <2>1 DEF Earlier
<1>2. Earlier(i, k - 1, i, k)
  <2>1. k \in Nat
    BY RenameOf
  <2> QED BY <2>1 DEF Earlier
<1> QED BY <1>1, <1>2 DEF GivenLater, LeftLater

LEMMA NotAgain ==
    ASSUME NEW ms, ~NameTakenAgain(ms), NEW i \in DOMAIN ms, NEW k \in DOMAIN ms[i].renames
    PROVE  /\ ~GivenLater(ms, ms[i].renames[k].from, i, k)
           /\ GivenLater(ms, ms[i].renames[k].to, i, k) => SomeGivenTwice(ms)
           /\ ~(SomeGivenTwice(ms) /\ LeftLater(ms, ms[i].renames[k].from, i, k))
<1> DEFINE Again == \E a, b \in DOMAIN ms :
                \E c \in DOMAIN ms[a].renames, d \in DOMAIN ms[b].renames :
                    Earlier(a, c, b, d) /\ ms[b].renames[d].to = ms[a].renames[c].from
           Given == \E a, b \in DOMAIN ms :
                \E c \in DOMAIN ms[a].renames, d \in DOMAIN ms[b].renames :
                    Earlier(a, c, b, d) /\ ms[b].renames[d].to = ms[a].renames[c].to
           Left == \E a, b \in DOMAIN ms :
                \E c \in DOMAIN ms[a].renames, d \in DOMAIN ms[b].renames :
                    Earlier(a, c, b, d) /\ ms[b].renames[d].from = ms[a].renames[c].from
<1>1. SomeGivenTwice(ms) <=> Given
  BY DEF SomeGivenTwice, TwoRenames
<1>2. ~Again /\ ~(Given /\ Left)
  BY DEF NameTakenAgain, TwoRenames
<1>3. GivenLater(ms, ms[i].renames[k].from, i, k) => Again
  BY DEF GivenLater
<1>4. GivenLater(ms, ms[i].renames[k].to, i, k) => Given
  BY DEF GivenLater
<1>5. LeftLater(ms, ms[i].renames[k].from, i, k) => Left
  BY DEF LeftLater
<1> QED BY <1>1, <1>2, <1>3, <1>4, <1>5

\* One rename back.
LEMMA FollowedBack ==
    ASSUME NEW ms, IsHistory(ms), ~NameTakenAgain(ms),
           NEW i \in DOMAIN ms, NEW k \in DOMAIN ms[i].renames,
           NEW since, NEW u,
           Followed(ms, since, Forward(u, ms[i].renames[k]), i, k)
    PROVE  Followed(ms, RenamedBack(since, ms[i].renames[k], i, Len(ms)), u, i, k - 1)
<1> DEFINE r == ms[i].renames[k]
           v == Forward(u, r)
           new == RenamedBack(since, r, i, Len(ms))
<1>1. /\ r \in NameRenames /\ r.from # r.to /\ r.from \in Names /\ r.to \in Names
      /\ i \in Nat /\ Len(ms) \in Nat
  BY RenameOf DEF IsHistory
<1>2. /\ since \in AliasMaps /\ v \in DOMAIN since /\ since[v] = Len(ms)
      /\ \A w \in DOMAIN since :
             w = v \/ GivenLater(ms, w, i, k) \/ (SomeGivenTwice(ms) /\ LeftLater(ms, w, i, k))
  BY DEF Followed
<1>3. DOMAIN since \subseteq Names /\ NoPath \notin DOMAIN since
  BY <1>2, AliasMapsFacts, NamesAssumption
<1>4. /\ ~GivenLater(ms, r.from, i, k)
      /\ GivenLater(ms, r.to, i, k) => SomeGivenTwice(ms)
      /\ ~(SomeGivenTwice(ms) /\ LeftLater(ms, r.from, i, k))
  BY NotAgain
<1>5. /\ \A w : GivenLater(ms, w, i, k) => GivenLater(ms, w, i, k - 1)
      /\ \A w : LeftLater(ms, w, i, k) => LeftLater(ms, w, i, k - 1)
      /\ GivenLater(ms, r.to, i, k - 1) /\ LeftLater(ms, r.from, i, k - 1)
  BY LaterStep
<1>e. new = RenamedBack(since, r, i, Len(ms))
  OBVIOUS
<1>f. /\ u # r.from => u # r.to \/ v = NoPath
      /\ u # r.from /\ v # NoPath => v = u
      /\ u = r.from => v = r.to
  BY DEF Forward
<1> HIDE DEF r, v, new
<1>0. WentBack(new, since, r, i, Len(ms))
  BY <1>1, <1>2, <1>e, RenamedBackIs
<1>6. /\ new \in AliasMaps
      /\ r.to \in DOMAIN since /\ r.from \notin DOMAIN since =>
            /\ DOMAIN new = DOMAIN since \cup {r.from} /\ new[r.from] = Len(ms)
            /\ \A x \in DOMAIN since : new[x] = IF x = r.to THEN i ELSE since[x]
      /\ r.from \in DOMAIN since /\ r.to \notin DOMAIN since =>
            /\ DOMAIN new = DOMAIN since
            /\ \A x \in DOMAIN since : new[x] = IF x = r.from THEN i ELSE since[x]
      /\ (r.to \in DOMAIN since <=> r.from \in DOMAIN since) => new = since
  BY <1>0 DEF WentBack
<1>7. u # r.from => u # r.to /\ v = u
  BY <1>2, <1>3, <1>f
<1>8. u = r.from => v = r.to
  BY <1>f
<1>9. r.from \in DOMAIN since => r.from = v
  BY <1>2, <1>4
<1>10. u \in DOMAIN new /\ new[u] = Len(ms)
  <2>1. CASE u = r.from
    BY <1>1, <1>2, <1>6, <1>8, <1>9, <2>1
  <2>2. CASE u # r.from
    BY <1>2, <1>6, <1>7, <1>9, <2>2
  <2> QED BY <2>1, <2>2
<1>11. ASSUME NEW w \in DOMAIN new
       PROVE  \/ w = u \/ GivenLater(ms, w, i, k - 1)
              \/ SomeGivenTwice(ms) /\ LeftLater(ms, w, i, k - 1)
  <2>1. CASE w \in DOMAIN since
    BY <1>2, <1>5, <1>7, <1>8, <2>1
  <2>2. CASE w \notin DOMAIN since
    <3>1. w = r.from /\ r.to \in DOMAIN since
      BY <1>6, <2>2
    <3>2. r.to = v \/ SomeGivenTwice(ms)
      BY <1>2, <1>4, <3>1
    <3> QED BY <1>5, <1>7, <3>1, <3>2
  <2> QED BY <2>1, <2>2
<1> QED BY <1>6, <1>10, <1>11 DEF Followed, r, new

(***************************************************************************)
(* What the recursive definitions compute.                                 *)
(***************************************************************************)
\* Functions that take the same first value, and one after the other the
\* same next one, agree.
LEMMA SameRecursion ==
    ASSUME NEW n \in Nat, NEW f, NEW h, f[0] = h[0],
           \A k \in 1..n : f[k - 1] = h[k - 1] => f[k] = h[k]
    PROVE  f[n] = h[n]
<1> DEFINE T == {k \in 0..n : f[k] = h[k]}
<1>1. 0 \in T
  OBVIOUS
<1>2. ASSUME NEW k \in 0..(n - 1), k \in T PROVE k + 1 \in T
  <2>1. k + 1 \in 1..n /\ k + 1 \in 0..n /\ (k + 1) - 1 = k
    OBVIOUS
  <2> QED BY <1>2, <2>1
<1> HIDE DEF T
<1>3. n \in T
  BY <1>1, <1>2, CountUp
<1> QED BY <1>3 DEF T

\* The values b of the recursion of AllRenamedBack.
GoesBack(b, since, renames, i, oldest) ==
    /\ b \in [0..Len(renames) -> AliasMaps] /\ b[0] = since
    /\ \A k \in 1..Len(renames) :
          b[k] = RenamedBack(b[k - 1], renames[Len(renames) + 1 - k], i, oldest)
    /\ AllRenamedBack(since, renames, i, oldest) = b[Len(renames)]

LEMMA AllBackSteps ==
    ASSUME NEW since \in AliasMaps, NEW renames \in Seq(NameRenames),
           NEW i \in Nat, NEW oldest \in Nat
    PROVE  \E b : GoesBack(b, since, renames, i, oldest)
<1> DEFINE n == Len(renames)
           IsIter(f) == f = [k \in 0..n |->
                                IF k = 0 THEN since
                                ELSE RenamedBack(f[k - 1], renames[n + 1 - k], i, oldest)]
           iter == CHOOSE f : IsIter(f)
           g == [p \in (1..n) \X AliasMaps |-> RenamedBack(p[2], renames[n + 1 - p[1]], i, oldest)]
<1>1. AllRenamedBack(since, renames, i, oldest) = iter[n]
  BY DEF AllRenamedBack
<1>2. n \in Nat /\ \A k \in 1..n : renames[n + 1 - k] \in NameRenames
  <2>1. n \in Nat /\ \A k \in 1..n : n + 1 - k \in 1..n
    OBVIOUS
  <2> QED BY <2>1
<1>e. n = Len(renames)
  OBVIOUS
<1> HIDE DEF n
<1>3. g \in [(1..n) \X AliasMaps -> AliasMaps]
  BY <1>2, RenamedBackIs DEF WentBack
<1>a. \A k \in 1..n, a \in AliasMaps :
          g[<<k, a>>] = RenamedBack(a, renames[n + 1 - k], i, oldest)
  OBVIOUS
<1> HIDE DEF g
<1>4. PICK f \in [0..n -> AliasMaps] : Recursion(f, n, since, g)
  BY <1>2, <1>3, RecursionExists
<1>5. /\ f[0] = since
      /\ \A k \in 1..n : f[k] = RenamedBack(f[k - 1], renames[n + 1 - k], i, oldest)
  <2>1. \A k \in 1..n : k - 1 \in 0..n
    BY <1>2
  <2> QED BY <1>4, <1>a, <2>1 DEF Recursion
<1>6. IsIter(f)
  <2>1. \A k \in 0..n : k # 0 => k \in 1..n
    BY <1>2
  <2> QED BY <1>5, <2>1
<1>7. IsIter(iter)
  <2> HIDE DEF IsIter
  <2> QED BY <1>6
<1> HIDE DEF iter
<1>8. /\ iter[0] = since
      /\ \A k \in 1..n : iter[k] = RenamedBack(iter[k - 1], renames[n + 1 - k], i, oldest)
  <2>1. 0 \in 0..n /\ \A k \in 1..n : k \in 0..n /\ k # 0
    BY <1>2
  <2> QED BY <1>7, <2>1
<1>9. iter[n] = f[n]
  <2>1. \A k \in 1..n : iter[k - 1] = f[k - 1] => iter[k] = f[k]
    BY <1>5, <1>8
  <2>2. iter[0] = f[0]
    BY <1>5, <1>8
  <2> HIDE DEF IsIter
  <2> QED BY <1>2, <2>1, <2>2, SameRecursion
<1>10. GoesBack(f, since, renames, i, oldest)
  BY <1>1, <1>5, <1>9, <1>e DEF GoesBack
<1> QED BY <1>10

SomeName == Names \cup {NoPath}

LEMMA ForwardIs ==
    ASSUME NEW name \in SomeName, NEW r \in NameRenames
    PROVE  Forward(name, r) \in SomeName
BY DEF Forward, SomeName, NameRenames

LEMMA AfterSteps ==
    ASSUME NEW name \in SomeName, NEW renames \in Seq(NameRenames)
    PROVE  \E w \in [0..Len(renames) -> SomeName] :
               /\ w[0] = name
               /\ \A k \in 1..Len(renames) : w[k] = Forward(w[k - 1], renames[k])
               /\ NameAfter(name, renames) = w[Len(renames)]
<1> DEFINE n == Len(renames)
           IsIter(f) == f = [k \in 0..n |->
                                IF k = 0 THEN name ELSE Forward(f[k - 1], renames[k])]
           iter == CHOOSE f : IsIter(f)
           g == [p \in (1..n) \X SomeName |-> Forward(p[2], renames[p[1]])]
<1>1. NameAfter(name, renames) = iter[n]
  BY DEF NameAfter, Forward
<1>2. n \in Nat /\ \A k \in 1..n : renames[k] \in NameRenames
  OBVIOUS
<1>e. n = Len(renames)
  OBVIOUS
<1> HIDE DEF n
<1>3. g \in [(1..n) \X SomeName -> SomeName]
  BY <1>2, ForwardIs
<1>a. \A k \in 1..n, a \in SomeName : g[<<k, a>>] = Forward(a, renames[k])
  OBVIOUS
<1> HIDE DEF g
<1>4. PICK f \in [0..n -> SomeName] : Recursion(f, n, name, g)
  BY <1>2, <1>3, RecursionExists
<1>5. f[0] = name /\ \A k \in 1..n : f[k] = Forward(f[k - 1], renames[k])
  <2>1. \A k \in 1..n : k - 1 \in 0..n
    BY <1>2
  <2> QED BY <1>4, <1>a, <2>1 DEF Recursion
<1>6. IsIter(f)
  <2>1. \A k \in 0..n : k # 0 => k \in 1..n
    BY <1>2
  <2> QED BY <1>5, <2>1
<1>7. IsIter(iter)
  <2> HIDE DEF IsIter
  <2> QED BY <1>6
<1> HIDE DEF iter
<1>8. iter[0] = name /\ \A k \in 1..n : iter[k] = Forward(iter[k - 1], renames[k])
  <2>1. 0 \in 0..n /\ \A k \in 1..n : k \in 0..n /\ k # 0
    BY <1>2
  <2> QED BY <1>7, <2>1
<1>9. iter[n] = f[n]
  <2>1. iter[0] = f[0] /\ \A k \in 1..n : iter[k - 1] = f[k - 1] => iter[k] = f[k]
    BY <1>5, <1>8
  <2> HIDE DEF IsIter
  <2> QED BY <1>2, <2>1, SameRecursion
<1> QED BY <1>1, <1>5, <1>9, <1>e

LEMMA AfterIs ==
    ASSUME NEW name \in SomeName, NEW renames \in Seq(NameRenames)
    PROVE  NameAfter(name, renames) \in SomeName
<1>1. Len(renames) \in 0..Len(renames)
  OBVIOUS
<1> QED BY <1>1, AfterSteps

\* The names a file is given by the manifests i - 1, ..., 1.
LEMMA NowSteps ==
    ASSUME NEW ms, IsHistory(ms), NEW i \in DOMAIN ms, NEW name \in SomeName
    PROVE  \E u \in [0..(i - 1) -> SomeName] :
               /\ u[0] = name
               /\ \A k \in 1..(i - 1) : u[k] = NameAfter(u[k - 1], ms[i - k].renames)
               /\ NameNow(name, i, ms) = u[i - 1]
<1> DEFINE n == i - 1
           IsIter(f) == f = [k \in 0..n |->
                                IF k = 0 THEN name ELSE NameAfter(f[k - 1], ms[i - k].renames)]
           iter == CHOOSE f : IsIter(f)
           g == [p \in (1..n) \X SomeName |-> NameAfter(p[2], ms[i - p[1]].renames)]
<1>1. NameNow(name, i, ms) = iter[n]
  BY DEF NameNow
<1>2. n \in Nat /\ \A k \in 1..n : ms[i - k].renames \in Seq(NameRenames)
  <2>1. i \in 1..Len(ms) /\ Len(ms) \in Nat
    BY DEF IsHistory
  <2>2. n \in Nat /\ \A k \in 1..n : i - k \in 1..Len(ms)
    BY <2>1
  <2> QED BY <2>2 DEF IsHistory
<1>e. n = i - 1
  OBVIOUS
<1> HIDE DEF n
<1>3. g \in [(1..n) \X SomeName -> SomeName]
  BY <1>2, AfterIs
<1>a. \A k \in 1..n, a \in SomeName : g[<<k, a>>] = NameAfter(a, ms[i - k].renames)
  OBVIOUS
<1> HIDE DEF g
<1>4. PICK f \in [0..n -> SomeName] : Recursion(f, n, name, g)
  BY <1>2, <1>3, RecursionExists
<1>5. f[0] = name /\ \A k \in 1..n : f[k] = NameAfter(f[k - 1], ms[i - k].renames)
  <2>1. \A k \in 1..n : k - 1 \in 0..n
    BY <1>2
  <2> QED BY <1>4, <1>a, <2>1 DEF Recursion
<1>6. IsIter(f)
  <2>1. \A k \in 0..n : k # 0 => k \in 1..n
    BY <1>2
  <2> QED BY <1>5, <2>1
<1>7. IsIter(iter)
  <2> HIDE DEF IsIter
  <2> QED BY <1>6
<1> HIDE DEF iter
<1>8. iter[0] = name /\ \A k \in 1..n : iter[k] = NameAfter(iter[k - 1], ms[i - k].renames)
  <2>1. 0 \in 0..n /\ \A k \in 1..n : k \in 0..n /\ k # 0
    BY <1>2
  <2> QED BY <1>7, <2>1
<1>9. iter[n] = f[n]
  <2>1. iter[0] = f[0] /\ \A k \in 1..n : iter[k - 1] = f[k - 1] => iter[k] = f[k]
    BY <1>5, <1>8
  <2> HIDE DEF IsIter
  <2> QED BY <1>2, <2>1, SameRecursion
<1> QED BY <1>1, <1>5, <1>9, <1>e

LEMMA AllBackIs ==
    ASSUME NEW since \in AliasMaps, NEW renames \in Seq(NameRenames),
           NEW i \in Nat, NEW oldest \in Nat
    PROVE  AllRenamedBack(since, renames, i, oldest) \in AliasMaps
<1>1. Len(renames) \in 0..Len(renames)
  OBVIOUS
<1>2. PICK b : GoesBack(b, since, renames, i, oldest)
  BY AllBackSteps
<1> QED BY <1>1, <1>2 DEF GoesBack

\* Version v is that of an alias which is alive in its manifest.
Listed(v, a, ms) ==
    \E i \in DOMAIN ms : \E b \in DOMAIN a[i] :
        /\ i <= a[i][b] /\ b \in DOMAIN ms[i].files
        /\ v = [id |-> ms[i].id, path |-> b]

\* The aliases of path after each manifest, and the versions they give.
LEMMA AliasSteps ==
    ASSUME NEW ms, IsHistory(ms), NEW path \in Names
    PROVE  \E a \in [0..Len(ms) -> AliasMaps] :
               /\ a[0] = [p \in {path} |-> Len(ms)]
               /\ \A i \in 1..Len(ms) :
                     a[i] = AllRenamedBack(a[i - 1], ms[i].renames, i, Len(ms))
               /\ \A v : v \in ListVersions(path, ms) <=> Listed(v, a, ms)
<1> DEFINE n == Len(ms)
           base == [p \in {path} |-> n]
           IsIter(f) == f = [i \in 0..n |->
                                IF i = 0 THEN base
                                ELSE AllRenamedBack(f[i - 1], ms[i].renames, i, n)]
           iter == CHOOSE f : IsIter(f)
           g == [p \in (1..n) \X AliasMaps |-> AllRenamedBack(p[2], ms[p[1]].renames, p[1], n)]
<1>1. ListVersions(path, ms) =
          UNION {{[id |-> ms[i].id, path |-> a] :
                     a \in {b \in DOMAIN iter[i] : i <= iter[i][b] /\ b \in DOMAIN ms[i].files}} :
                 i \in DOMAIN ms}
  BY DEF ListVersions
<1>2. n \in Nat /\ \A i \in 1..n : ms[i].renames \in Seq(NameRenames)
  BY DEF IsHistory
<1>e. n = Len(ms) /\ DOMAIN ms = 1..n
  BY DEF IsHistory
<1> HIDE DEF n
<1>b. base \in AliasMaps
  BY <1>2, AliasMapsFacts
<1>c. base = [p \in {path} |-> Len(ms)]
  BY <1>e
<1> HIDE DEF base
<1>3. g \in [(1..n) \X AliasMaps -> AliasMaps]
  BY <1>2, AllBackIs
<1>a. \A i \in 1..n, a \in AliasMaps : g[<<i, a>>] = AllRenamedBack(a, ms[i].renames, i, n)
  OBVIOUS
<1> HIDE DEF g
<1>4. PICK f \in [0..n -> AliasMaps] : Recursion(f, n, base, g)
  BY <1>2, <1>3, <1>b, RecursionExists
<1>5. f[0] = base /\ \A i \in 1..n : f[i] = AllRenamedBack(f[i - 1], ms[i].renames, i, n)
  <2>1. \A k \in 1..n : k - 1 \in 0..n
    BY <1>2
  <2> QED BY <1>4, <1>a, <2>1 DEF Recursion
<1>6. IsIter(f)
  <2>1. \A k \in 0..n : k # 0 => k \in 1..n
    BY <1>2
  <2> QED BY <1>5, <2>1
<1>7. IsIter(iter)
  <2> HIDE DEF IsIter
  <2> QED BY <1>6
<1> HIDE DEF iter
<1>8. iter[0] = base /\ \A i \in 1..n : iter[i] = AllRenamedBack(iter[i - 1], ms[i].renames, i, n)
  <2>1. 0 \in 0..n /\ \A k \in 1..n : k \in 0..n /\ k # 0
    BY <1>2
  <2> QED BY <1>7, <2>1
<1>9. iter \in [0..n -> AliasMaps]
  <2> DEFINE T == {k \in 0..n : iter[k] \in AliasMaps}
  <2> HIDE DEF IsIter
  <2>1. 0 \in T
    BY <1>2, <1>8, <1>b
  <2>2. ASSUME NEW k \in 0..(n - 1), k \in T PROVE k + 1 \in T
    <3>1. k + 1 \in 1..n /\ k + 1 \in 0..n /\ (k + 1) - 1 = k
      BY <1>2
    <3>2. /\ k + 1 \in Nat /\ n \in Nat /\ ms[k + 1].renames \in Seq(NameRenames)
          /\ iter[k] \in AliasMaps
      BY <1>2, <2>2, <3>1
    <3>3. iter[k + 1] \in AliasMaps
      BY <1>8, <3>1, <3>2, AllBackIs
    <3> QED BY <3>1, <3>3
  <2> HIDE DEF T
  <2>3. \A k \in 0..n : k \in T
    BY <1>2, <2>1, <2>2, CountUp
  <2>4. iter = [k \in 0..n |-> iter[k]]
    BY <1>7 DEF IsIter
  <2> QED BY <2>3, <2>4 DEF T
<1>10. \A v : v \in ListVersions(path, ms) <=> Listed(v, iter, ms)
  BY <1>1 DEF Listed
<1> QED BY <1>8, <1>9, <1>10, <1>c, <1>e

(***************************************************************************)
(* The name, followed through one manifest, and from one to the next.      *)
(***************************************************************************)
LEMMA OneManifest ==
    ASSUME NEW ms, IsHistory(ms), ~NameTakenAgain(ms), NEW i \in DOMAIN ms,
           NEW since, NEW u \in SomeName,
           Followed(ms, since, NameAfter(u, ms[i].renames), i, Len(ms[i].renames))
    PROVE  Followed(ms, AllRenamedBack(since, ms[i].renames, i, Len(ms)), u, i, 0)
<1> DEFINE rs == ms[i].renames
           n == Len(rs)
<1>1. /\ rs \in Seq(NameRenames) /\ i \in Nat /\ Len(ms) \in Nat
      /\ n \in Nat /\ DOMAIN rs = 1..n
  BY DEF IsHistory
<1>2. since \in AliasMaps
  BY DEF Followed
<1>p. PICK b : GoesBack(b, since, ms[i].renames, i, Len(ms))
  BY <1>1, <1>2, AllBackSteps
<1>3. /\ b \in [0..n -> AliasMaps] /\ b[0] = since
      /\ \A k \in 1..n : b[k] = RenamedBack(b[k - 1], rs[n + 1 - k], i, Len(ms))
      /\ AllRenamedBack(since, rs, i, Len(ms)) = b[n]
  BY <1>p DEF GoesBack
<1>4. PICK w \in [0..n -> SomeName] :
          /\ w[0] = u /\ \A k \in 1..n : w[k] = Forward(w[k - 1], rs[k])
          /\ NameAfter(u, rs) = w[n]
  BY <1>1, AfterSteps
<1>5. Followed(ms, since, NameAfter(u, rs), i, n)
  OBVIOUS
<1>e. rs = ms[i].renames
  OBVIOUS
<1> HIDE DEF rs, n
<1> DEFINE T == {m \in 0..n : Followed(ms, b[m], w[n - m], i, n - m)}
<1>6. 0 \in T
  <2>1. n - 0 = n /\ 0 \in 0..n
    BY <1>1
  <2> QED BY <1>3, <1>4, <1>5, <2>1
<1>7. ASSUME NEW m \in 0..(n - 1), m \in T PROVE m + 1 \in T
  <2> DEFINE k == n - m
  <2>1. /\ k \in 1..n /\ m + 1 \in 1..n /\ m + 1 \in 0..n /\ (m + 1) - 1 = m
        /\ n + 1 - (m + 1) = k /\ n - (m + 1) = k - 1
    BY <1>1
  <2>2. Followed(ms, b[m], w[k], i, k)
    BY <1>7
  <2> HIDE DEF k
  <2>3. w[k] = Forward(w[k - 1], rs[k]) /\ b[m + 1] = RenamedBack(b[m], rs[k], i, Len(ms))
    BY <1>3, <1>4, <2>1
  <2>4. Followed(ms, b[m], Forward(w[k - 1], ms[i].renames[k]), i, k) /\ k \in DOMAIN ms[i].renames
    BY <1>1, <1>e, <2>1, <2>2, <2>3
  <2>5. Followed(ms, RenamedBack(b[m], ms[i].renames[k], i, Len(ms)), w[k - 1], i, k - 1)
    BY <2>4, FollowedBack
  <2> QED BY <1>e, <2>1, <2>3, <2>5
<1> HIDE DEF T
<1>8. n \in T
  <2>1. n \in Nat /\ n \in 0..n
    BY <1>1
  <2>2. \A m \in 0..n : m \in T
    BY <1>6, <1>7, <2>1, CountUp
  <2> QED BY <2>1, <2>2
<1>9. Followed(ms, b[n], w[n - n], i, n - n) /\ n - n = 0
  BY <1>1, <1>8 DEF T
<1> QED BY <1>3, <1>4, <1>9, <1>e

LEMMA NextManifest ==
    ASSUME NEW ms, IsHistory(ms), NEW i \in DOMAIN ms, i + 1 \in DOMAIN ms,
           NEW since, NEW u, Followed(ms, since, u, i, 0)
    PROVE  Followed(ms, since, u, i + 1, Len(ms[i + 1].renames))
<1>1. \A j \in DOMAIN ms : \A l \in DOMAIN ms[j].renames :
          Earlier(i, 0, j, l) => Earlier(i + 1, Len(ms[i + 1].renames), j, l)
  <2> SUFFICES ASSUME NEW j \in DOMAIN ms, NEW l \in DOMAIN ms[j].renames, Earlier(i, 0, j, l)
               PROVE  j < i + 1
    BY DEF Earlier
  <2>1. i \in Nat /\ j \in Nat
    BY DEF IsHistory
  <2> QED BY <2>1 DEF Earlier
<1>2. \A w : /\ GivenLater(ms, w, i, 0) => GivenLater(ms, w, i + 1, Len(ms[i + 1].renames))
             /\ LeftLater(ms, w, i, 0) => LeftLater(ms, w, i + 1, Len(ms[i + 1].renames))
  BY <1>1 DEF GivenLater, LeftLater
<1> QED BY <1>2 DEF Followed

LEMMA FollowedAtFirst ==
    ASSUME NEW ms, IsHistory(ms), NEW path \in Names
    PROVE  Followed(ms, [p \in {path} |-> Len(ms)], path, 1, Len(ms[1].renames))
<1>1. Len(ms) \in Nat
  BY DEF IsHistory
<1>2. [p \in {path} |-> Len(ms)] \in AliasMaps
  BY <1>1, AliasMapsFacts
<1> QED BY <1>2 DEF Followed

\* The other way round: an alias that names the file from the oldest
\* manifest on, before the renames of the i-th, names it in the i-th.
LEMMA AliasKept ==
    ASSUME NEW ms, IsHistory(ms), NEW i \in DOMAIN ms, NEW since \in AliasMaps,
           NEW name \in DOMAIN since, since[name] \in {i, Len(ms)}
    PROVE  LET new == AllRenamedBack(since, ms[i].renames, i, Len(ms))
           IN  name \in DOMAIN new /\ i <= new[name]
<1> DEFINE rs == ms[i].renames
           n == Len(rs)
           Kept(a) == a \in AliasMaps /\ name \in DOMAIN a /\ a[name] \in {i, Len(ms)}
<1>1. /\ rs \in Seq(NameRenames) /\ i \in Nat /\ Len(ms) \in Nat /\ i <= Len(ms)
      /\ n \in Nat /\ DOMAIN rs = 1..n
  BY DEF IsHistory
<1>p. PICK b : GoesBack(b, since, ms[i].renames, i, Len(ms))
  BY <1>1, AllBackSteps
<1>2. /\ b \in [0..n -> AliasMaps] /\ b[0] = since
      /\ \A k \in 1..n : b[k] = RenamedBack(b[k - 1], rs[n + 1 - k], i, Len(ms))
      /\ AllRenamedBack(since, rs, i, Len(ms)) = b[n]
  BY <1>p DEF GoesBack
<1>3. \A k \in 1..n : rs[k] \in NameRenames
  BY <1>1
<1>e. rs = ms[i].renames
  OBVIOUS
<1> HIDE DEF rs, n
<1>4. ASSUME NEW a \in AliasMaps, NEW r \in NameRenames, Kept(a)
      PROVE  Kept(RenamedBack(a, r, i, Len(ms)))
  <2> DEFINE new == RenamedBack(a, r, i, Len(ms))
  <2>1. WentBack(new, a, r, i, Len(ms))
    BY <1>1, RenamedBackIs
  <2> HIDE DEF new
  <2>2. Kept(new)
    BY <1>4, <2>1 DEF WentBack
  <2> QED BY <2>2 DEF new
<1> DEFINE T == {m \in 0..n : Kept(b[m])}
<1>5. 0 \in T
  BY <1>1, <1>2
<1>6. ASSUME NEW m \in 0..(n - 1), m \in T PROVE m + 1 \in T
  <2>1. /\ m + 1 \in 1..n /\ m + 1 \in 0..n /\ (m + 1) - 1 = m
        /\ n + 1 - (m + 1) \in 1..n /\ m \in 0..n
    BY <1>1
  <2>2. Kept(b[m]) /\ b[m] \in AliasMaps
    BY <1>6, <2>1
  <2>3. b[m + 1] = RenamedBack(b[m], rs[n + 1 - (m + 1)], i, Len(ms))
        /\ rs[n + 1 - (m + 1)] \in NameRenames
    BY <1>2, <1>3, <2>1
  <2> HIDE DEF Kept
  <2>4. Kept(b[m + 1])
    BY <1>4, <2>2, <2>3
  <2> QED BY <2>1, <2>4
<1> HIDE DEF T
<1>7. n \in T
  <2>1. n \in Nat /\ n \in 0..n
    BY <1>1
  <2>2. \A m \in 0..n : m \in T
    BY <1>5, <1>6, <2>1, CountUp
  <2> QED BY <2>1, <2>2
<1> QED BY <1>1, <1>2, <1>7, <1>e DEF T

\* No version is missing from the list of the name a file has now.
LEMMA EveryVersion ==
    ASSUME NEW ms, IsHistory(ms), ~NameTakenAgain(ms), NEW path \in Names,
           NEW i \in DOMAIN ms, NEW name \in DOMAIN ms[i].files, NameNow(name, i, ms) = path
    PROVE  [id |-> ms[i].id, path |-> name] \in ListVersions(path, ms)
<1>1. /\ Len(ms) \in Nat /\ DOMAIN ms = 1..Len(ms) /\ i \in 1..Len(ms)
      /\ name \in SomeName
  BY DEF IsHistory, SomeName
<1>2. PICK a \in [0..Len(ms) -> AliasMaps] :
          /\ a[0] = [p \in {path} |-> Len(ms)]
          /\ \A j \in 1..Len(ms) : a[j] = AllRenamedBack(a[j - 1], ms[j].renames, j, Len(ms))
          /\ \A v : v \in ListVersions(path, ms) <=> Listed(v, a, ms)
  BY AliasSteps
<1>3. PICK u \in [0..(i - 1) -> SomeName] :
          /\ u[0] = name
          /\ \A k \in 1..(i - 1) : u[k] = NameAfter(u[k - 1], ms[i - k].renames)
          /\ NameNow(name, i, ms) = u[i - 1]
  BY <1>1, NowSteps
<1> DEFINE T == {m \in 0..(i - 1) :
                    Followed(ms, a[m], u[i - 1 - m], m + 1, Len(ms[m + 1].renames))}
<1>4. 0 \in T
  <2>1. i - 1 - 0 = i - 1 /\ 0 \in 0..(i - 1) /\ 0 + 1 = 1
    BY <1>1
  <2>2. Followed(ms, a[0], u[i - 1], 1, Len(ms[1].renames))
    BY <1>2, <1>3, FollowedAtFirst
  <2> QED BY <2>1, <2>2
<1>5. ASSUME NEW m \in 0..((i - 1) - 1), m \in T PROVE m + 1 \in T
  <2> DEFINE j == m + 1
             k == i - 1 - m
  <2>1. /\ j \in DOMAIN ms /\ j + 1 \in DOMAIN ms /\ j \in 1..Len(ms) /\ j \in 0..(i - 1)
        /\ j - 1 = m
        /\ k \in 1..(i - 1) /\ i - k = j /\ i - 1 - j = k - 1 /\ k - 1 \in 0..(i - 1)
    BY <1>1
  <2>2. Followed(ms, a[m], u[k], j, Len(ms[j].renames))
    BY <1>5
  <2>e. j = m + 1
    OBVIOUS
  <2> HIDE DEF j, k
  <2>3. u[k] = NameAfter(u[k - 1], ms[j].renames) /\ u[k - 1] \in SomeName
    BY <1>3, <2>1
  <2>4. Followed(ms, a[m], NameAfter(u[k - 1], ms[j].renames), j, Len(ms[j].renames))
    BY <2>2, <2>3
  <2>5. Followed(ms, AllRenamedBack(a[m], ms[j].renames, j, Len(ms)), u[k - 1], j, 0)
    BY <2>1, <2>3, <2>4, OneManifest
  <2>6. a[j] = AllRenamedBack(a[m], ms[j].renames, j, Len(ms))
    BY <1>2, <2>1
  <2>7. Followed(ms, a[j], u[k - 1], j + 1, Len(ms[j + 1].renames))
    BY <2>1, <2>5, <2>6, NextManifest
  <2>8. j \in T
    BY <2>1, <2>7
  <2> QED BY <2>8, <2>e
<1> HIDE DEF T
<1>6. i - 1 \in T
  <2>1. i - 1 \in Nat /\ i - 1 \in 0..(i - 1)
    BY <1>1
  <2>2. \A m \in 0..(i - 1) : m \in T
    BY <1>4, <1>5, <2>1, CountUp
  <2> QED BY <2>1, <2>2
<1>7. Followed(ms, a[i - 1], u[0], i, Len(ms[i].renames))
  <2>1. i - 1 - (i - 1) = 0 /\ (i - 1) + 1 = i
    BY <1>1
  <2> QED BY <1>6, <2>1 DEF T
<1>8. a[i - 1] \in AliasMaps /\ name \in DOMAIN a[i - 1] /\ a[i - 1][name] = Len(ms)
  BY <1>3, <1>7 DEF Followed
<1>9. name \in DOMAIN a[i] /\ i <= a[i][name]
  <2>1. a[i] = AllRenamedBack(a[i - 1], ms[i].renames, i, Len(ms))
    BY <1>1, <1>2
  <2> QED BY <1>8, <2>1, AliasKept
<1> QED BY <1>2, <1>9 DEF Listed

(***************************************************************************)
(* No version of another file: an alias that is alive names the file.      *)
(***************************************************************************)
\* A rename after the k-th of the i-th manifest takes w from a file, and w
\* is path or is given up twice.
LeftAgain(ms, path, w, i, k) ==
    /\ LeftLater(ms, w, i, k)
    /\ w = path \/ LeftTwice(w, ms)

\* Back over the renames after the k-th of the i-th manifest.  now[w] is what
\* is called path or otherwise today and was called w then.
Owned(ms, path, since, now, i, k) ==
    /\ since \in AliasMaps
    /\ \A w \in DOMAIN since :
           /\ since[w] > i => now[w] = path
           /\ since[w] >= i => NameNow(w, i, ms) = path \/ w \in GivenUp(ms[i])
           /\ w = path \/ LeftLater(ms, w, i, k)
           /\ since[w] = Len(ms) \/ GivenLater(ms, w, i, k) \/ LeftAgain(ms, path, w, i, k)
           /\ \A x \in DOMAIN since : w = x \/ GivenLater(ms, w, i, k) \/ GivenLater(ms, x, i, k)

LEMMA NotReborn ==
    ASSUME NEW ms, NEW path, IsHistory(ms), ~NameReborn(path, ms),
           NEW i \in DOMAIN ms, NEW k \in DOMAIN ms[i].renames
    PROVE  /\ ~GivenLater(ms, ms[i].renames[k].from, i, k)
           /\ ~GivenLater(ms, ms[i].renames[k].to, i, k)
           /\ ~LeftAgain(ms, path, ms[i].renames[k].to, i, k)
           /\ LeftLater(ms, ms[i].renames[k].from, i, k) =>
                  LeftAgain(ms, path, ms[i].renames[k].from, i, k)
<1> DEFINE r == ms[i].renames[k]
           Twice(w) == LeftTwice(w, ms)
           Passed(w) == TwoRenames(ms, LAMBDA old, new : old.to = w /\ new.from = w)
<1>1. /\ ~TwoRenames(ms, LAMBDA old, new : new.to \in {old.from, old.to})
      /\ \A w \in Names : ~(Passed(w) /\ (w = path \/ Twice(w)))
  BY Zenon DEF NameReborn
<1>2. r.from \in Names /\ r.to \in Names
  BY RenameOf
<1>3. ~GivenLater(ms, r.from, i, k) /\ ~GivenLater(ms, r.to, i, k)
  BY <1>1 DEF TwoRenames, GivenLater
<1>4. LeftLater(ms, r.to, i, k) => Passed(r.to)
  BY DEF TwoRenames, LeftLater
<1>5. LeftLater(ms, r.from, i, k) => Twice(r.from)
  BY DEF TwoRenames, LeftLater, LeftTwice
<1>6. \A w : LeftAgain(ms, path, w, i, k) <=> LeftLater(ms, w, i, k) /\ (w = path \/ Twice(w))
  BY DEF LeftAgain
<1> HIDE DEF r, Twice, Passed
<1>7. /\ ~LeftAgain(ms, path, r.to, i, k)
      /\ LeftLater(ms, r.from, i, k) => LeftAgain(ms, path, r.from, i, k)
  BY <1>1, <1>2, <1>4, <1>5, <1>6
<1> QED BY <1>3, <1>7 DEF r

\* One rename back.
LEMMA OwnedBack ==
    ASSUME NEW ms, NEW path, IsHistory(ms), ~NameReborn(path, ms),
           NEW i \in DOMAIN ms, NEW k \in DOMAIN ms[i].renames,
           NEW since, NEW now, NEW back,
           \A w \in Names : back[w] = now[Forward(w, ms[i].renames[k])],
           Owned(ms, path, since, now, i, k)
    PROVE  Owned(ms, path, RenamedBack(since, ms[i].renames[k], i, Len(ms)), back, i, k - 1)
<1> DEFINE r == ms[i].renames[k]
           new == RenamedBack(since, r, i, Len(ms))
           Given(w) == GivenLater(ms, w, i, k)
           Left(w) == LeftLater(ms, w, i, k)
           Again(w) == LeftAgain(ms, path, w, i, k)
           GivenNew(w) == GivenLater(ms, w, i, k - 1)
           LeftNew(w) == LeftLater(ms, w, i, k - 1)
           AgainNew(w) == LeftAgain(ms, path, w, i, k - 1)
           Named(w) == NameNow(w, i, ms) = path \/ w \in GivenUp(ms[i])
<1>1. /\ r \in NameRenames /\ r.from # r.to /\ r.from \in Names /\ r.to \in Names
      /\ i \in Nat /\ i <= Len(ms) /\ Len(ms) \in Nat
  BY RenameOf DEF IsHistory
<1>2. /\ since \in AliasMaps
      /\ \A w \in DOMAIN since :
             /\ since[w] > i => now[w] = path
             /\ since[w] >= i => Named(w)
             /\ w = path \/ Left(w)
             /\ since[w] = Len(ms) \/ Given(w) \/ Again(w)
             /\ \A x \in DOMAIN since : w = x \/ Given(w) \/ Given(x)
  BY DEF Owned
<1>3. DOMAIN since \subseteq Names /\ \A w \in DOMAIN since : since[w] \in Nat
  BY <1>2, AliasMapsFacts
<1>4. ~Given(r.from) /\ ~Given(r.to) /\ ~Again(r.to) /\ (Left(r.from) => Again(r.from))
  BY NotReborn
<1>5. /\ \A w : (Given(w) => GivenNew(w)) /\ (Left(w) => LeftNew(w))
      /\ GivenNew(r.to) /\ LeftNew(r.from)
  BY LaterStep
<1>6. /\ \A w : Again(w) => AgainNew(w)
      /\ Again(r.from) \/ r.from = path => AgainNew(r.from)
  BY <1>5 DEF LeftAgain
<1>7. Named(r.from)
  BY DEF GivenUp
<1>8. /\ \A w \in DOMAIN since : w # r.from /\ w # r.to => back[w] = now[w]
      /\ back[r.from] = now[r.to]
  BY <1>1, <1>3 DEF Forward
<1>e. new = RenamedBack(since, r, i, Len(ms))
  OBVIOUS
<1> HIDE DEF r, new, Given, Left, Again, GivenNew, LeftNew, AgainNew, Named
<1>9. WentBack(new, since, r, i, Len(ms))
  BY <1>1, <1>2, <1>e, RenamedBackIs
<1>10. ~(r.to \in DOMAIN since /\ r.from \in DOMAIN since)
  BY <1>1, <1>2, <1>4
<1> DEFINE Safe(w) == /\ new[w] > i => back[w] = path
                      /\ new[w] >= i => Named(w)
                      /\ w = path \/ LeftNew(w)
                      /\ new[w] = Len(ms) \/ GivenNew(w) \/ AgainNew(w)
                      /\ \A x \in DOMAIN new : w = x \/ GivenNew(w) \/ GivenNew(x)
<1>11. ASSUME r.to \in DOMAIN since /\ r.from \notin DOMAIN since
       PROVE  \A w \in DOMAIN new : Safe(w)
  <2>1. /\ DOMAIN new = DOMAIN since \cup {r.from} /\ new[r.from] = Len(ms)
        /\ new[r.to] = i
        /\ \A x \in DOMAIN since : x # r.to => new[x] = since[x]
    BY <1>9, <1>11 DEF WentBack
  <2>2. since[r.to] = Len(ms)
    BY <1>2, <1>4, <1>11
  <2>3. \A x \in DOMAIN since : x = r.to \/ GivenNew(x)
    BY <1>2, <1>4, <1>5, <1>11
  <2>4. Safe(r.from)
    <3>1. Len(ms) > i => back[r.from] = path
      BY <1>2, <1>8, <1>11, <2>2
    <3>2. \A x \in DOMAIN new : r.from = x \/ GivenNew(r.from) \/ GivenNew(x)
      BY <1>5, <2>1, <2>3
    <3> QED BY <1>5, <1>7, <2>1, <3>1, <3>2
  <2>5. Safe(r.to)
    <3>1. Named(r.to)
      BY <1>1, <1>2, <1>11, <2>2
    <3>2. ~(i > i)
      BY <1>1
    <3> QED BY <1>2, <1>5, <1>11, <2>1, <3>1, <3>2
  <2>6. ASSUME NEW w \in DOMAIN since, w # r.to PROVE Safe(w)
    <3>1. w # r.from /\ new[w] = since[w] /\ back[w] = now[w]
      BY <1>8, <1>11, <2>1, <2>6
    <3>2. GivenNew(w)
      BY <2>3, <2>6
    <3> QED BY <1>2, <1>5, <1>6, <3>1, <3>2
  <2> HIDE DEF Safe
  <2> QED BY <2>1, <2>4, <2>5, <2>6
<1>12. ASSUME r.from \in DOMAIN since /\ r.to \notin DOMAIN since
       PROVE  \A w \in DOMAIN new : Safe(w)
  <2>1. /\ DOMAIN new = DOMAIN since /\ new[r.from] = i
        /\ \A x \in DOMAIN since : x # r.from => new[x] = since[x]
    BY <1>9, <1>12 DEF WentBack
  <2>2. \A w, x \in DOMAIN new : w = x \/ GivenNew(w) \/ GivenNew(x)
    BY <1>2, <1>5, <2>1
  <2>3. Safe(r.from)
    <3>1. AgainNew(r.from)
      BY <1>2, <1>4, <1>6, <1>12
    <3>2. ~(i > i)
      BY <1>1
    <3> QED BY <1>5, <1>7, <1>12, <2>1, <2>2, <3>1, <3>2
  <2>4. ASSUME NEW w \in DOMAIN since, w # r.from PROVE Safe(w)
    <3>1. w # r.to /\ new[w] = since[w] /\ back[w] = now[w]
      BY <1>8, <1>12, <2>1, <2>4
    <3> QED BY <1>2, <1>5, <1>6, <2>1, <2>2, <3>1
  <2> HIDE DEF Safe
  <2> QED BY <2>1, <2>3, <2>4
<1>13. ASSUME r.from \notin DOMAIN since /\ r.to \notin DOMAIN since
       PROVE  \A w \in DOMAIN new : Safe(w)
  <2>1. new = since
    BY <1>9, <1>13 DEF WentBack
  <2>2. ASSUME NEW w \in DOMAIN since PROVE Safe(w)
    <3>1. back[w] = now[w]
      BY <1>8, <1>13
    <3> QED BY <1>2, <1>5, <1>6, <2>1, <3>1
  <2> HIDE DEF Safe
  <2> QED BY <2>1, <2>2
<1>14. \A w \in DOMAIN new : Safe(w)
  <2> HIDE DEF Safe
  <2> QED BY <1>10, <1>11, <1>12, <1>13
<1>15. new \in AliasMaps
  BY <1>9 DEF WentBack
<1> QED BY <1>14, <1>15 DEF Owned, r, new, GivenNew, LeftNew, AgainNew, Named

\* What a name is today, from what it is after the renames of its manifest.
LEMMA NowFromNext ==
    ASSUME NEW ms, IsHistory(ms), NEW i \in DOMAIN ms, i + 1 \in DOMAIN ms,
           NEW name \in SomeName
    PROVE  NameNow(name, i + 1, ms) = NameNow(NameAfter(name, ms[i].renames), i, ms)
<1> DEFINE first == NameAfter(name, ms[i].renames)
           n == i - 1
<1>1. /\ i \in Nat \ {0} /\ n \in Nat /\ (i + 1) - 1 = i /\ ms[i].renames \in Seq(NameRenames)
      /\ n \in 0..n /\ n + 1 = i
  BY DEF IsHistory
<1>2. first \in SomeName
  BY <1>1, AfterIs
<1>e. first = NameAfter(name, ms[i].renames) /\ n = i - 1
  OBVIOUS
<1> HIDE DEF first, n
<1>3. PICK u \in [0..((i + 1) - 1) -> SomeName] :
          /\ u[0] = name
          /\ \A k \in 1..((i + 1) - 1) : u[k] = NameAfter(u[k - 1], ms[(i + 1) - k].renames)
          /\ NameNow(name, i + 1, ms) = u[(i + 1) - 1]
  BY NowSteps
<1>4. PICK v \in [0..(i - 1) -> SomeName] :
          /\ v[0] = first
          /\ \A k \in 1..(i - 1) : v[k] = NameAfter(v[k - 1], ms[i - k].renames)
          /\ NameNow(first, i, ms) = v[i - 1]
  BY <1>2, NowSteps
<1> DEFINE h == [k \in 0..n |-> u[k + 1]]
<1>5. h[0] = v[0]
  <2>1. 0 \in 0..n /\ 0 + 1 = 1 /\ 1 - 1 = 0 /\ (i + 1) - 1 = i /\ 1 \in 1..((i + 1) - 1)
    BY <1>1
  <2>2. u[1] = NameAfter(u[0], ms[i].renames)
    BY <1>3, <2>1
  <2> QED BY <1>3, <1>4, <1>e, <2>1, <2>2
<1>6. ASSUME NEW k \in 1..n, h[k - 1] = v[k - 1] PROVE h[k] = v[k]
  <2>1. /\ k \in 0..n /\ k - 1 \in 0..n /\ (k - 1) + 1 = k /\ (k + 1) - 1 = k
        /\ k + 1 \in 1..((i + 1) - 1) /\ (i + 1) - (k + 1) = i - k /\ k \in 1..(i - 1)
    BY <1>1, <1>e
  <2>2. h[k - 1] = u[k] /\ h[k] = u[k + 1]
    BY <2>1
  <2>3. u[k + 1] = NameAfter(u[k], ms[i - k].renames)
    BY <1>3, <2>1
  <2>4. v[k] = NameAfter(v[k - 1], ms[i - k].renames)
    BY <1>4, <2>1
  <2> QED BY <1>6, <2>2, <2>3, <2>4
<1>7. h[n] = u[i]
  BY <1>1
<1> HIDE DEF h
<1>8. h[n] = v[n]
  BY <1>1, <1>5, <1>6, SameRecursion
<1> QED BY <1>1, <1>3, <1>4, <1>7, <1>8, <1>e

\* The names after the last renames of a manifest, one more with each step,
\* are those after all of them.
Regressed(f, renames, now) ==
    /\ f \in [0..Len(renames) -> [SomeName -> SomeName]] /\ f[0] = now
    /\ \A m \in 1..Len(renames) : \A w \in SomeName :
          f[m][w] = f[m - 1][Forward(w, renames[Len(renames) + 1 - m])]
    /\ \A w \in SomeName : f[Len(renames)][w] = now[NameAfter(w, renames)]

LEMMA RegressSteps ==
    ASSUME NEW renames \in Seq(NameRenames), NEW now \in [SomeName -> SomeName]
    PROVE  \E f : Regressed(f, renames, now)
<1> DEFINE n == Len(renames)
           F == [SomeName -> SomeName]
           g == [p \in (1..n) \X F |->
                    [w \in SomeName |-> p[2][Forward(w, renames[n + 1 - p[1]])]]]
<1>1. /\ n \in Nat
      /\ \A k \in 1..n : renames[n + 1 - k] \in NameRenames /\ renames[k] \in NameRenames
  <2>1. n \in Nat /\ \A k \in 1..n : n + 1 - k \in 1..n
    OBVIOUS
  <2> QED BY <2>1
<1>e. n = Len(renames) /\ F = [SomeName -> SomeName]
  OBVIOUS
<1> HIDE DEF n
<1>2. g \in [(1..n) \X F -> F]
  <2> SUFFICES ASSUME NEW p \in (1..n) \X F
               PROVE  [w \in SomeName |-> p[2][Forward(w, renames[n + 1 - p[1]])]] \in F
    OBVIOUS
  <2>1. p[2] \in F /\ renames[n + 1 - p[1]] \in NameRenames
    BY <1>1
  <2> QED BY <2>1, ForwardIs
<1>3. \A k \in 1..n : \A a \in F : \A w \in SomeName :
          g[<<k, a>>][w] = a[Forward(w, renames[n + 1 - k])]
  OBVIOUS
<1> HIDE DEF g, F
<1>4. PICK f \in [0..n -> F] : Recursion(f, n, now, g)
  BY <1>1, <1>2, <1>e, RecursionExists
<1>5. f[0] = now /\ \A m \in 1..n : \A w \in SomeName :
          f[m][w] = f[m - 1][Forward(w, renames[n + 1 - m])]
  <2>1. \A m \in 1..n : m - 1 \in 0..n
    BY <1>1
  <2>2. \A m \in 1..n : f[m] = g[<<m, f[m - 1]>>] /\ f[m - 1] \in F
    BY <1>4, <2>1 DEF Recursion
  <2>3. f[0] = now
    BY <1>4 DEF Recursion
  <2>4. ASSUME NEW m \in 1..n, NEW w \in SomeName
        PROVE  f[m][w] = f[m - 1][Forward(w, renames[n + 1 - m])]
    BY <1>3, <2>2
  <2> QED BY <2>3, <2>4
<1>6. ASSUME NEW w \in SomeName PROVE f[n][w] = now[NameAfter(w, renames)]
  <2>1. PICK v \in [0..n -> SomeName] :
            /\ v[0] = w
            /\ \A k \in 1..n : v[k] = Forward(v[k - 1], renames[k])
            /\ NameAfter(w, renames) = v[n]
    BY <1>e, AfterSteps
  <2> DEFINE T == {m \in 0..n : f[m][v[n - m]] = now[v[n]]}
  <2>2. 0 \in T
    <3>1. n - 0 = n /\ 0 \in 0..n
      BY <1>1
    <3> QED BY <1>5, <3>1
  <2>3. ASSUME NEW m \in 0..(n - 1), m \in T PROVE m + 1 \in T
    <3>1. /\ m + 1 \in 1..n /\ m + 1 \in 0..n /\ (m + 1) - 1 = m
          /\ n + 1 - (m + 1) = n - m /\ n - m \in 1..n /\ (n - m) - 1 = n - (m + 1)
          /\ n - (m + 1) \in 0..n
      BY <1>1
    <3>2. v[n - (m + 1)] \in SomeName
      BY <2>1, <3>1
    <3>3. f[m + 1][v[n - (m + 1)]] = f[m][Forward(v[n - (m + 1)], renames[n - m])]
      BY <1>5, <3>1, <3>2
    <3>4. v[n - m] = Forward(v[n - (m + 1)], renames[n - m])
      BY <2>1, <3>1
    <3> QED BY <2>3, <3>1, <3>3, <3>4
  <2> HIDE DEF T
  <2>4. n \in T
    <3>1. n \in Nat /\ n \in 0..n
      BY <1>1
    <3>2. \A m \in 0..n : m \in T
      BY <2>2, <2>3, <3>1, CountUp
    <3> QED BY <3>1, <3>2
  <2>5. n - n = 0 /\ f[n][v[n - n]] = now[v[n]]
    BY <1>1, <2>4 DEF T
  <2> QED BY <2>1, <2>5
<1>7. Regressed(f, renames, now)
  BY <1>4, <1>5, <1>6, <1>e DEF Regressed
<1> QED BY <1>7

\* The names of today, of what manifest i calls so.
Today(ms, i) == [w \in SomeName |-> NameNow(w, i, ms)]

LEMMA TodayIs ==
    ASSUME NEW ms, IsHistory(ms), NEW i \in DOMAIN ms
    PROVE  Today(ms, i) \in [SomeName -> SomeName]
<1>1. i \in Nat \ {0} /\ i - 1 \in 0..(i - 1)
  BY DEF IsHistory
<1>2. \A w \in SomeName : NameNow(w, i, ms) \in SomeName
  BY <1>1, NowSteps
<1> QED BY <1>2 DEF Today

BeginsOwned(ms, path, since, i) ==
    Owned(ms, path, since, Today(ms, i), i, Len(ms[i].renames))
EndsOwned(ms, path, since, i) ==
    \E now : /\ Owned(ms, path, since, now, i, 0)
             /\ \A w \in SomeName : now[w] = Today(ms, i)[NameAfter(w, ms[i].renames)]

\* Back over one manifest, and from one to the next.
LEMMA OwnedManifest ==
    ASSUME NEW ms, NEW path, IsHistory(ms), ~NameReborn(path, ms), NEW i \in DOMAIN ms,
           NEW since, BeginsOwned(ms, path, since, i)
    PROVE  EndsOwned(ms, path, AllRenamedBack(since, ms[i].renames, i, Len(ms)), i)
<1> DEFINE rs == ms[i].renames
           n == Len(rs)
<1>1. /\ rs \in Seq(NameRenames) /\ i \in Nat /\ Len(ms) \in Nat
      /\ n \in Nat /\ DOMAIN rs = 1..n
  BY DEF IsHistory
<1>2. since \in AliasMaps
  BY DEF BeginsOwned, Owned
<1>p. PICK b : GoesBack(b, since, ms[i].renames, i, Len(ms))
  BY <1>1, <1>2, AllBackSteps
<1>3. /\ b[0] = since
      /\ \A k \in 1..n : b[k] = RenamedBack(b[k - 1], rs[n + 1 - k], i, Len(ms))
      /\ AllRenamedBack(since, rs, i, Len(ms)) = b[n]
  BY <1>p DEF GoesBack
<1>q. PICK f : Regressed(f, ms[i].renames, Today(ms, i))
  BY <1>1, TodayIs, RegressSteps
<1>4. /\ f[0] = Today(ms, i)
      /\ \A m \in 1..n : \A w \in SomeName : f[m][w] = f[m - 1][Forward(w, rs[n + 1 - m])]
      /\ \A w \in SomeName : f[n][w] = Today(ms, i)[NameAfter(w, rs)]
  BY <1>q DEF Regressed
<1>5. Owned(ms, path, since, Today(ms, i), i, n)
  BY DEF BeginsOwned
<1>e. rs = ms[i].renames
  OBVIOUS
<1> HIDE DEF rs, n
<1> DEFINE T == {m \in 0..n : Owned(ms, path, b[m], f[m], i, n - m)}
<1>6. 0 \in T
  <2>1. n - 0 = n /\ 0 \in 0..n
    BY <1>1
  <2> QED BY <1>3, <1>4, <1>5, <2>1
<1>7. ASSUME NEW m \in 0..(n - 1), m \in T PROVE m + 1 \in T
  <2> DEFINE k == n - m
  <2>1. /\ k \in 1..n /\ m + 1 \in 1..n /\ m + 1 \in 0..n /\ (m + 1) - 1 = m
        /\ n + 1 - (m + 1) = k /\ n - (m + 1) = k - 1
    BY <1>1
  <2>2. Owned(ms, path, b[m], f[m], i, k)
    BY <1>7
  <2> HIDE DEF k
  <2>3. b[m + 1] = RenamedBack(b[m], ms[i].renames[k], i, Len(ms)) /\ k \in DOMAIN ms[i].renames
    BY <1>1, <1>3, <1>e, <2>1
  <2>4. \A w \in Names : f[m + 1][w] = f[m][Forward(w, ms[i].renames[k])]
    BY <1>4, <1>e, <2>1 DEF SomeName
  <2>5. Owned(ms, path, RenamedBack(b[m], ms[i].renames[k], i, Len(ms)), f[m + 1], i, k - 1)
    BY <2>2, <2>3, <2>4, OwnedBack
  <2> QED BY <2>1, <2>3, <2>5
<1> HIDE DEF T
<1>8. n \in T
  <2>1. n \in Nat /\ n \in 0..n
    BY <1>1
  <2>2. \A m \in 0..n : m \in T
    BY <1>6, <1>7, <2>1, CountUp
  <2> QED BY <2>1, <2>2
<1>9. Owned(ms, path, b[n], f[n], i, n - n) /\ n - n = 0
  BY <1>1, <1>8 DEF T
<1> QED BY <1>3, <1>4, <1>9, <1>e DEF EndsOwned

LEMMA OwnedNext ==
    ASSUME NEW ms, NEW path, IsHistory(ms), NEW i \in DOMAIN ms, i + 1 \in DOMAIN ms,
           NEW since, EndsOwned(ms, path, since, i)
    PROVE  BeginsOwned(ms, path, since, i + 1)
<1> DEFINE n == Len(ms[i + 1].renames)
<1>1. \A j \in DOMAIN ms : \A l \in DOMAIN ms[j].renames :
          Earlier(i, 0, j, l) => Earlier(i + 1, n, j, l)
  <2> SUFFICES ASSUME NEW j \in DOMAIN ms, NEW l \in DOMAIN ms[j].renames, Earlier(i, 0, j, l)
               PROVE  j < i + 1
    BY DEF Earlier
  <2>1. i \in Nat /\ j \in Nat
    BY DEF IsHistory
  <2> QED BY <2>1 DEF Earlier
<1>2. \A w : /\ GivenLater(ms, w, i, 0) => GivenLater(ms, w, i + 1, n)
             /\ LeftLater(ms, w, i, 0) => LeftLater(ms, w, i + 1, n)
             /\ LeftAgain(ms, path, w, i, 0) => LeftAgain(ms, path, w, i + 1, n)
  BY <1>1 DEF GivenLater, LeftLater, LeftAgain
<1>3. PICK now : /\ Owned(ms, path, since, now, i, 0)
                 /\ \A w \in SomeName : now[w] = Today(ms, i)[NameAfter(w, ms[i].renames)]
  BY DEF EndsOwned
<1>4. /\ DOMAIN since \subseteq Names /\ \A w \in DOMAIN since : since[w] \in Nat
      /\ since \in AliasMaps /\ i \in Nat /\ ms[i].renames \in Seq(NameRenames)
  BY <1>3, AliasMapsFacts DEF Owned, IsHistory
<1>5. ASSUME NEW w \in SomeName
      PROVE  now[w] = NameNow(w, i + 1, ms) /\ Today(ms, i + 1)[w] = NameNow(w, i + 1, ms)
  <2>1. NameAfter(w, ms[i].renames) \in SomeName
    BY <1>4, AfterIs
  <2> QED BY <1>3, <2>1, NowFromNext DEF Today
<1>6. \A w \in DOMAIN since :
          /\ since[w] > i => NameNow(w, i + 1, ms) = path /\ Today(ms, i + 1)[w] = path
          /\ since[w] > i + 1 => since[w] > i
          /\ since[w] >= i + 1 => since[w] > i
  <2>1. \A w \in DOMAIN since : since[w] > i => now[w] = path
    BY <1>3 DEF Owned
  <2> QED BY <1>4, <1>5, <2>1 DEF SomeName
<1> HIDE DEF n
<1>7. Owned(ms, path, since, Today(ms, i + 1), i + 1, n)
  BY <1>2, <1>3, <1>4, <1>6 DEF Owned
<1> QED BY <1>7 DEF BeginsOwned, n

LEMMA OwnedAtFirst ==
    ASSUME NEW ms, IsHistory(ms), NEW path \in Names, 1 \in DOMAIN ms
    PROVE  BeginsOwned(ms, path, [p \in {path} |-> Len(ms)], 1)
<1>1. Len(ms) \in Nat /\ path \in SomeName
  BY DEF IsHistory, SomeName
<1>2. [p \in {path} |-> Len(ms)] \in AliasMaps
  BY <1>1, AliasMapsFacts
<1>3. NameNow(path, 1, ms) = path
  <2>1. 1 - 1 = 0
    OBVIOUS
  <2> QED BY <1>1, <2>1, NowSteps
<1>4. Today(ms, 1)[path] = path
  BY <1>1, <1>3 DEF Today
<1> QED BY <1>2, <1>3, <1>4 DEF BeginsOwned, Owned

\* No two manifests have the same id.
DistinctIds(ms) == \A i, j \in DOMAIN ms : ms[i].id = ms[j].id => i = j

\* What is in the list of a name, and is not given up in its manifest, is a
\* version of the file that bears the name.
LEMMA OwnVersion ==
    ASSUME NEW ms, IsHistory(ms), DistinctIds(ms), NEW path \in Names, ~NameReborn(path, ms),
           NEW i \in DOMAIN ms, NEW name, name \notin GivenUp(ms[i]),
           [id |-> ms[i].id, path |-> name] \in ListVersions(path, ms)
    PROVE  NameNow(name, i, ms) = path
<1>1. /\ Len(ms) \in Nat /\ DOMAIN ms = 1..Len(ms) /\ i \in 1..Len(ms) /\ 1 \in DOMAIN ms
      /\ i \in Nat /\ i - 1 \in Nat /\ (i - 1) + 1 = i
  BY DEF IsHistory
<1>2. PICK a \in [0..Len(ms) -> AliasMaps] :
          /\ a[0] = [p \in {path} |-> Len(ms)]
          /\ \A j \in 1..Len(ms) : a[j] = AllRenamedBack(a[j - 1], ms[j].renames, j, Len(ms))
          /\ \A v : v \in ListVersions(path, ms) <=> Listed(v, a, ms)
  BY AliasSteps
<1> DEFINE T == {m \in 0..(i - 1) : BeginsOwned(ms, path, a[m], m + 1)}
<1>3. 0 \in T
  <2>1. 0 \in 0..(i - 1) /\ 0 + 1 = 1
    BY <1>1
  <2>2. BeginsOwned(ms, path, [p \in {path} |-> Len(ms)], 1)
    BY <1>1, OwnedAtFirst
  <2>3. BeginsOwned(ms, path, a[0], 1)
    BY <1>2, <2>2, Zenon
  <2> QED BY <2>1, <2>3
<1>4. ASSUME NEW j \in 1..Len(ms), BeginsOwned(ms, path, a[j - 1], j)
      PROVE  EndsOwned(ms, path, a[j], j)
  <2>1. a[j] = AllRenamedBack(a[j - 1], ms[j].renames, j, Len(ms)) /\ j \in DOMAIN ms
    BY <1>1, <1>2
  <2> QED BY <1>4, <2>1, OwnedManifest
<1>5. ASSUME NEW m \in 0..((i - 1) - 1), m \in T PROVE m + 1 \in T
  <2>1. /\ m + 1 \in 1..Len(ms) /\ (m + 1) - 1 = m /\ m + 1 \in DOMAIN ms
        /\ (m + 1) + 1 \in DOMAIN ms /\ m + 1 \in 0..(i - 1)
    BY <1>1
  <2>2. EndsOwned(ms, path, a[m + 1], m + 1)
    BY <1>4, <1>5, <2>1
  <2>3. BeginsOwned(ms, path, a[m + 1], (m + 1) + 1)
    BY <2>1, <2>2, OwnedNext
  <2> QED BY <2>1, <2>3
<1> HIDE DEF T
<1>6. i - 1 \in T
  <2>1. i - 1 \in Nat /\ i - 1 \in 0..(i - 1)
    BY <1>1
  <2>2. \A m \in 0..(i - 1) : m \in T
    BY <1>3, <1>5, <2>1, CountUp
  <2> QED BY <2>1, <2>2
<1>7. EndsOwned(ms, path, a[i], i)
  BY <1>1, <1>4, <1>6 DEF T
<1>8. name \in DOMAIN a[i] /\ i <= a[i][name]
  <2>1. Listed([id |-> ms[i].id, path |-> name], a, ms)
    BY <1>2
  <2>2. PICK j \in DOMAIN ms : \E b \in DOMAIN a[j] :
            /\ j <= a[j][b]
            /\ [id |-> ms[i].id, path |-> name] = [id |-> ms[j].id, path |-> b]
    BY <2>1 DEF Listed
  <2>3. PICK b \in DOMAIN a[j] :
            /\ j <= a[j][b]
            /\ [id |-> ms[i].id, path |-> name] = [id |-> ms[j].id, path |-> b]
    BY <2>2
  <2>4. ms[i].id = ms[j].id /\ name = b
    BY <2>3
  <2> QED BY <2>3, <2>4 DEF DistinctIds
<1>9. a[i][name] >= i
  <2>1. a[i] \in AliasMaps
    BY <1>7 DEF EndsOwned, Owned
  <2>2. a[i][name] \in Nat
    BY <1>8, <2>1, AliasMapsFacts
  <2> QED BY <1>1, <1>8, <2>2
<1> QED BY <1>7, <1>8, <1>9 DEF EndsOwned, Owned

(***************************************************************************)
(* The manifests on Dropbox, sorted.                                       *)
(***************************************************************************)
History == {Snapshots[id] : id \in DOMAIN Snapshots}

LEMMA HistoryFacts ==
    /\ IsFiniteSet(History)
    /\ \A m \in History : m \in Manifest /\ m.createdAt \in Nat
    /\ \A m \in History : \A k \in DOMAIN m.renames : m.renames[k].from # m.renames[k].to
<1>1. IsFiniteSet(DOMAIN Snapshots)
  BY HistoryAssumption
<1>2. IsFiniteSet(History)
  <2> DEFINE f == [id \in DOMAIN Snapshots |-> Snapshots[id]]
  <2>1. f \in Surjection(DOMAIN Snapshots, History)
    BY DEF History, Surjection
  <2> QED BY <1>1, <2>1, FS_Surjection
<1>3. \A m \in History : m \in Manifest
  BY HistoryAssumption DEF History
<1>4. \A m \in Manifest : m.createdAt \in Nat
  BY DEF Manifest
<1> QED BY <1>2, <1>3, <1>4, HistoryAssumption DEF History

LEMMA SortedExists ==
    ASSUME NEW ids \in SUBSET DOMAIN Snapshots
    PROVE  \E seq \in SetToSeqs({Snapshots[id] : id \in ids}) :
               \A i, j \in DOMAIN seq : i < j => seq[i].createdAt >= seq[j].createdAt
<1> DEFINE N == Cardinality(History)
           Sorted(f, n) == \A i, j \in 1..n :
                               i < j => f[i].createdAt >= f[j].createdAt /\ f[i] # f[j]
           T == {n \in 0..N : \A S \in SUBSET History :
                    Cardinality(S) = n => \E f \in [1..n -> S] : Sorted(f, n)}
<1>1. N \in Nat /\ \A S \in SUBSET History :
          IsFiniteSet(S) /\ Cardinality(S) \in Nat /\ Cardinality(S) <= N
  BY HistoryFacts, FS_Subset, FS_CardinalityType
<1> HIDE DEF N
<1>2. 0 \in T
  <2>1. ASSUME NEW S \in SUBSET History PROVE \E f \in [1..0 -> S] : Sorted(f, 0)
    <3>1. [i \in 1..0 |-> i] \in [1..0 -> S] /\ Sorted([i \in 1..0 |-> i], 0)
      OBVIOUS
    <3> QED BY <3>1
  <2> QED BY <1>1, <2>1
<1>3. ASSUME NEW n \in 0..(N - 1), n \in T PROVE n + 1 \in T
  <2> SUFFICES ASSUME NEW S \in SUBSET History, Cardinality(S) = n + 1
               PROVE  \E f \in [1..(n + 1) -> S] : Sorted(f, n + 1)
    BY <1>1
  <2>1. S # {}
    BY FS_EmptySet, <1>1
  <2>2. PICK x \in S : \A y \in S : x.createdAt <= y.createdAt
    <3> DEFINE times == {y.createdAt : y \in S}
    <3>1. times \in SUBSET Nat /\ times # {}
      BY <2>1, HistoryFacts
    <3> HIDE DEF times
    <3>2. PICK t \in times : \A v \in times : t <= v
      BY <3>1, Least
    <3> QED BY <3>2 DEF times
  <2>3. Cardinality(S \ {x}) = n
    <3>1. Cardinality(S \ {x}) = Cardinality(S) - 1
      BY <1>1, FS_RemoveElement
    <3> QED BY <3>1
  <2>4. PICK f \in [1..n -> S \ {x}] : Sorted(f, n)
    BY <1>3, <2>3
  <2> DEFINE h == [k \in 1..(n + 1) |-> IF k = n + 1 THEN x ELSE f[k]]
  <2>5. \A k \in 1..(n + 1) : k # n + 1 => k \in 1..n
    BY <1>1
  <2>6. h \in [1..(n + 1) -> S]
    BY <2>4, <2>5
  <2>7. ASSUME NEW i \in 1..(n + 1), NEW j \in 1..(n + 1), i < j
        PROVE  h[i].createdAt >= h[j].createdAt /\ h[i] # h[j]
    <3>1. i # n + 1 /\ i \in 1..n
      BY <1>1, <2>5, <2>7
    <3>2. h[i] = f[i] /\ f[i] \in S /\ f[i] # x
      BY <2>4, <3>1
    <3>3. CASE j = n + 1
      <4>1. /\ h[j] = x /\ x.createdAt <= f[i].createdAt
            /\ x.createdAt \in Nat /\ f[i].createdAt \in Nat
        BY <2>2, <3>2, <3>3, HistoryFacts
      <4> QED BY <3>2, <4>1
    <3>4. CASE j # n + 1
      BY <2>4, <2>5, <2>7, <3>1, <3>2, <3>4
    <3> QED BY <3>3, <3>4
  <2> HIDE DEF h
  <2> QED BY <2>6, <2>7
<1> DEFINE S == {Snapshots[id] : id \in ids}
           n == Cardinality(S)
<1>4. S \in SUBSET History
  BY DEF History
<1> HIDE DEF T, S
<1>5. n \in T /\ n \in Nat
  <2>1. n \in 0..N
    BY <1>1, <1>4
  <2>2. \A k \in 0..N : k \in T
    BY <1>1, <1>2, <1>3, CountUp
  <2> QED BY <2>1, <2>2
<1>6. PICK f \in [1..n -> S] : Sorted(f, n)
  BY <1>4, <1>5 DEF T
<1>7. ASSUME NEW i \in 1..n, NEW j \in 1..n, i # j PROVE f[i] # f[j]
  <2>1. i < j \/ j < i
    BY <1>5, <1>7
  <2> QED BY <1>6, <2>1
<1>8. f \in SetToSeqs(S) /\ DOMAIN f = 1..n
  BY <1>6, <1>7 DEF SetToSeqs
<1> QED BY <1>6, <1>8 DEF S

LEMMA NewestFirstIs ==
    ASSUME NEW ids \in SUBSET DOMAIN Snapshots
    PROVE  /\ NewestFirst(ids) \in Seq(History)
           /\ \A i, j \in DOMAIN NewestFirst(ids) :
                 i # j => NewestFirst(ids)[i] # NewestFirst(ids)[j]
<1> DEFINE S == {Snapshots[id] : id \in ids}
           P(seq) == \A i, j \in DOMAIN seq : i < j => seq[i].createdAt >= seq[j].createdAt
           n == Cardinality(S)
<1>1. S \in SUBSET History
  BY DEF History
<1>2. \E seq \in SetToSeqs(S) : P(seq)
  BY SortedExists
<1>3. NewestFirst(ids) = CHOOSE seq \in SetToSeqs(S) : P(seq)
  BY DEF NewestFirst
<1> HIDE DEF S, P
<1>4. NewestFirst(ids) \in SetToSeqs(S)
  BY <1>2, <1>3
<1>5. n \in Nat
  BY <1>1, HistoryFacts, FS_Subset, FS_CardinalityType
<1>6. NewestFirst(ids) \in [1..n -> S]
  BY <1>4 DEF SetToSeqs
<1>7. NewestFirst(ids) \in [1..n -> History]
  BY <1>1, <1>6
<1>8. \A i, j \in 1..n : i # j => NewestFirst(ids)[i] # NewestFirst(ids)[j]
  BY <1>4 DEF SetToSeqs
<1> HIDE DEF n
<1> QED BY <1>5, <1>6, <1>7, <1>8

AnyNewer == UNION {AnyManifest(i) : i \in 1..3}

LEMMA HistoryParts ==
    ASSUME NEW ms \in Histories
    PROVE  \E newer \in Seq(AnyNewer) :
               /\ Len(newer) = 3 /\ ms = newer \o NewestFirst(remote)
               /\ \A i \in 1..3 : newer[i] \in AnyManifest(i)
<1>1. PICK newer \in AnyManifest(1) \X AnyManifest(2) \X AnyManifest(3) :
          ms = newer \o NewestFirst(remote)
  BY DEF Histories
<1>2. newer = <<newer[1], newer[2], newer[3]>>
  OBVIOUS
<1>3. \A i \in 1..3 : newer[i] \in AnyManifest(i)
  <2>1. \A i \in 1..3 : i = 1 \/ i = 2 \/ i = 3
    OBVIOUS
  <2> QED BY <2>1
<1>4. \A i \in 1..3 : newer[i] \in AnyNewer
  BY <1>3 DEF AnyNewer
<1>5. newer \in Seq(AnyNewer) /\ Len(newer) = 3
  <2>1. ASSUME NEW x \in AnyNewer, NEW y \in AnyNewer, NEW z \in AnyNewer
        PROVE  <<x, y, z>> \in Seq(AnyNewer) /\ Len(<<x, y, z>>) = 3
    OBVIOUS
  <2>2. newer[1] \in AnyNewer /\ newer[2] \in AnyNewer /\ newer[3] \in AnyNewer
    <3>1. 1 \in 1..3 /\ 2 \in 1..3 /\ 3 \in 1..3
      OBVIOUS
    <3> QED BY <1>4, <3>1
  <2>3. /\ <<newer[1], newer[2], newer[3]>> \in Seq(AnyNewer)
        /\ Len(<<newer[1], newer[2], newer[3]>>) = 3
    BY <2>1, <2>2
  <2> QED BY <1>2, <2>3, Zenon
<1> QED BY <1>1, <1>3, <1>5

LEMMA HistoriesAreHistories ==
    ASSUME remote \subseteq DOMAIN Snapshots, NEW ms \in Histories
    PROVE  IsHistory(ms)
<1> DEFINE A == UNION {AnyManifest(i) : i \in 1..3}
           Good(m) == /\ m.renames \in Seq(NameRenames) /\ DOMAIN m.files \subseteq Names
                      /\ \A k \in DOMAIN m.renames : m.renames[k].from # m.renames[k].to
<1>1. ASSUME NEW m \in A PROVE Good(m)
  <2>1. m.renames \in AnyRename /\ m.files = [p \in Names |-> Garbage]
    BY DEF AnyManifest
  <2>2. CASE m.renames = <<>>
    BY <2>1, <2>2
  <2>3. ASSUME NEW a \in Names \X Names, a[1] # a[2],
               m.renames = <<[from |-> a[1], to |-> a[2]]>>
        PROVE  Good(m)
    <3>1. [from |-> a[1], to |-> a[2]] \in NameRenames
      BY DEF NameRenames
    <3> QED BY <2>1, <2>3, <3>1
  <2> QED BY <2>1, <2>2, <2>3 DEF AnyRename
<1>2. ASSUME NEW m \in History PROVE Good(m)
  <2>1. m.renames \in Seq(Renames) /\ m.files \in FileMaps
    BY HistoryFacts DEF Manifest
  <2>2. Renames \subseteq NameRenames
    BY NamesAssumption DEF Renames, NameRenames
  <2>3. m.renames \in Seq(NameRenames)
    BY <2>1, <2>2
  <2>4. DOMAIN m.files \subseteq Paths
    BY <2>1 DEF FileMaps, PartialFunctions
  <2>5. DOMAIN m.files \subseteq Names
    BY <2>4, NamesAssumption
  <2>6. \A k \in DOMAIN m.renames : m.renames[k].from # m.renames[k].to
    BY HistoryFacts
  <2> QED BY <2>3, <2>5, <2>6
<1>3. PICK newer \in Seq(A) : ms = newer \o NewestFirst(remote)
  BY HistoryParts DEF AnyNewer
<1>4. NewestFirst(remote) \in Seq(History)
  BY NewestFirstIs
<1> HIDE DEF A, Good
<1>5. ms \in Seq(A \cup History)
  <2>1. newer \in Seq(A \cup History) /\ NewestFirst(remote) \in Seq(A \cup History)
    BY <1>4
  <2> QED BY <1>3, <2>1
<1>6. Len(ms) \in Nat /\ DOMAIN ms = 1..Len(ms) /\ \A i \in DOMAIN ms : ms[i] \in A \cup History
  BY <1>5
<1>7. \A i \in DOMAIN ms : Good(ms[i])
  BY <1>1, <1>2, <1>6
<1> QED BY <1>6, <1>7 DEF Good, IsHistory

\* s is a followed by b.
IsJoined(s, a, b) ==
    /\ DOMAIN s = 1..(Len(a) + Len(b))
    /\ \A i \in DOMAIN s : s[i] = IF i <= Len(a) THEN a[i] ELSE b[i - Len(a)]

LEMMA Joined ==
    ASSUME NEW U, NEW a \in Seq(U), NEW b \in Seq(U)
    PROVE  IsJoined(a \o b, a, b)
<1> DEFINE s == a \o b
<1>1. Len(s) = Len(a) + Len(b) /\ s \in Seq(U)
  OBVIOUS
<1>2. DOMAIN s = 1..(Len(a) + Len(b))
  BY <1>1
<1>3. ASSUME NEW i \in DOMAIN s
      PROVE  s[i] = IF i <= Len(a) THEN a[i] ELSE b[i - Len(a)]
  BY <1>2
<1> QED BY <1>2, <1>3 DEF IsJoined

LEMMA HistoriesAreDistinct ==
    ASSUME remote \subseteq DOMAIN Snapshots, NEW ms \in Histories
    PROVE  DistinctIds(ms)
<1> DEFINE old == NewestFirst(remote)
           n == Len(old)
<1>1. PICK newer \in Seq(AnyNewer) :
          /\ Len(newer) = 3 /\ ms = newer \o old
          /\ \A i \in 1..3 : newer[i] \in AnyManifest(i)
  BY HistoryParts
<1>2. /\ old \in Seq(History)
      /\ \A i, j \in DOMAIN old : i # j => old[i] # old[j]
  BY NewestFirstIs
<1>3. ASSUME NEW i \in DOMAIN old, NEW j \in DOMAIN old, old[i].id = old[j].id PROVE i = j
  <2>1. old[i] \in History /\ old[j] \in History
    BY <1>2
  <2>2. old[i] = Snapshots[old[i].id] /\ old[j] = Snapshots[old[j].id]
    BY <2>1, HistoryAssumption DEF History
  <2> QED BY <1>2, <1>3, <2>2
<1>4. ASSUME NEW i \in DOMAIN old PROVE old[i].id \in Nat \X Kinds
  <2>1. old[i] \in Manifest
    BY <1>2, HistoryFacts
  <2> QED BY <2>1 DEF Manifest, SnapshotIds
<1>5. \A i \in 1..3 : newer[i].id = <<i, "any">>
  BY <1>1 DEF AnyManifest
<1> HIDE DEF old
<1> DEFINE U == AnyNewer \cup History
<1>6. newer \in Seq(U) /\ old \in Seq(U)
  BY <1>1, <1>2
<1> HIDE DEF U
<1>7. /\ n \in Nat /\ DOMAIN old = 1..n /\ DOMAIN ms = 1..(n + 3)
      /\ \A i \in 1..(n + 3) : ms[i] = IF i <= 3 THEN newer[i] ELSE old[i - 3]
  <2>1. n \in Nat /\ DOMAIN old = 1..n
    BY <1>2
  <2>2. IsJoined(newer \o old, newer, old)
    BY <1>6, Joined
  <2>3. IsJoined(ms, newer, old)
    BY <1>1, <2>2
  <2> QED BY <1>1, <2>1, <2>3 DEF IsJoined
<1> HIDE DEF n
<1>8. ASSUME NEW i \in DOMAIN ms, i <= 3 PROVE ms[i].id = <<i, "any">>
  BY <1>5, <1>7, <1>8
<1>9. ASSUME NEW i \in DOMAIN ms, ~(i <= 3)
      PROVE  ms[i] = old[i - 3] /\ i - 3 \in DOMAIN old /\ ms[i].id \in Nat \X Kinds
  <2>1. ms[i] = old[i - 3] /\ i - 3 \in DOMAIN old
    BY <1>7, <1>9
  <2> QED BY <1>4, <2>1
<1>10. \A x : <<x, "any">> \notin Nat \X Kinds
  BY DEF Kinds
<1>11. ASSUME NEW i \in DOMAIN ms, NEW j \in DOMAIN ms, ms[i].id = ms[j].id PROVE i = j
  <2>1. i \in Nat /\ j \in Nat
    BY <1>7
  <2>2. CASE i <= 3 /\ j <= 3
    BY <1>8, <1>11, <2>2
  <2>3. CASE i <= 3 <=> ~(j <= 3)
    BY <1>8, <1>9, <1>10, <1>11, <2>3
  <2>4. CASE ~(i <= 3) /\ ~(j <= 3)
    <3>1. i - 3 = j - 3
      BY <1>3, <1>9, <1>11, <2>4
    <3> QED BY <2>1, <3>1
  <2> QED BY <2>2, <2>3, <2>4
<1> QED BY <1>11 DEF DistinctIds

(***************************************************************************)
(* What is on Dropbox is part of the history.                              *)
(***************************************************************************)
OnDropbox == remote \subseteq DOMAIN Snapshots

LEMMA OnDropboxStep == OnDropbox /\ [Next]_vars => OnDropbox'
<1> SUFFICES ASSUME OnDropbox, Next \/ UNCHANGED vars PROVE OnDropbox'
  OBVIOUS
<1>1. CASE Quiet
  BY <1>1 DEF Quiet, dropboxVars, OnDropbox
<1>2. CASE Asks \/ Loads
  BY <1>2 DEF Asks, Loads, OnDropbox
<1>3. CASE DropboxMoves
  BY <1>3 DEF DropboxMoves, FolderChanges, Invalidate, DamageBlob, ServerReads, IndexArrives,
      IndexFails, OnDropbox
<1> QED BY <1>1, <1>2, <1>3, CacheEffect

\* In every history, however long, with whatever renames the manifests on
\* Dropbox hold, and a rename of any two names in each of three newer ones,
\* the list of a file's versions (listVersionsForPath) holds all of them,
\* under the names they had, as long as no name is taken again.
THEOREM VersionsAreComplete == Spec => []VersionsComplete
<1>1. Init => OnDropbox
  BY RestoreAssumption DEF Init, RestoreInit, OnDropbox
<1>2. OnDropbox => VersionsComplete
  <2> SUFFICES ASSUME OnDropbox, NEW ms \in Histories, NEW path \in Names, ~NameTakenAgain(ms),
                      NEW i \in DOMAIN ms, NEW name \in DOMAIN ms[i].files,
                      NameNow(name, i, ms) = path
               PROVE  [id |-> ms[i].id, path |-> name] \in ListVersions(path, ms)
    BY DEF VersionsComplete
  <2>1. IsHistory(ms)
    BY HistoriesAreHistories DEF OnDropbox
  <2> QED BY <2>1, EveryVersion
<1> QED BY <1>1, <1>2, OnDropboxStep, PTL DEF Spec

\* In every history, however long, the list of a file's versions
\* (listVersionsForPath) holds no version of another file, as long as no
\* name is reborn ("does NOT contaminate history", RestoreService.ts:163).
THEOREM VersionsAreOwn == Spec => []VersionsOwn
<1>1. Init => OnDropbox
  BY RestoreAssumption DEF Init, RestoreInit, OnDropbox
<1>2. OnDropbox => VersionsOwn
  <2> SUFFICES ASSUME OnDropbox, NEW ms \in Histories, NEW path \in Names, ~NameReborn(path, ms),
                      NEW i \in DOMAIN ms, NEW name \in DOMAIN ms[i].files \ GivenUp(ms[i]),
                      [id |-> ms[i].id, path |-> name] \in ListVersions(path, ms)
               PROVE  NameNow(name, i, ms) = path
    BY DEF VersionsOwn
  <2>1. IsHistory(ms) /\ DistinctIds(ms)
    BY HistoriesAreHistories, HistoriesAreDistinct DEF OnDropbox
  <2> QED BY <2>1, OwnVersion
<1> QED BY <1>1, <1>2, OnDropboxStep, PTL DEF Spec
=============================================================================
