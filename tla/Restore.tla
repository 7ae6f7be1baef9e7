------------------------------- MODULE Restore -------------------------------
(***************************************************************************)
(* Back from Dropbox into the vault: ManifestCache, RestoreService,        *)
(* RestoreOperations and VaultAdapter.writeAtomic.  A backup history is    *)
(* given (Manifests says what its manifests mean); how much of it is on    *)
(* Dropbox changes while the user looks at it.                             *)
(***************************************************************************)
EXTENDS Manifests

CONSTANTS
    Snapshots,   \* the manifests of the history, by id
    Garbage,     \* the bytes of a damaged blob
    NoFile,
    InitialRemotes, InitialVaults,
    MaxEvents   \* bound: failures, and changes on Dropbox

\* A file, or none, and whether Obsidian knows of it: of a file of a hidden
\* folder, or one that has just been synced into the vault, it does not.
Places == {place \in [content : Contents \cup {NoFile}, known : BOOLEAN] :
              place.content = NoFile => ~place.known}

State == [id \in DOMAIN Snapshots |-> Materialize(Snapshots, id)]
Chain(id) == {Ancestor(Snapshots, id)[n] : n \in 0..Depth(Snapshots, id)}
NewerThan(a, b) == Snapshots[a].createdAt > Snapshots[b].createdAt

ASSUME RestoreAssumption ==
    /\ InitialVaults \subseteq [Paths -> Places]
    /\ InitialRemotes \subseteq SUBSET DOMAIN Snapshots
    /\ \A ids \in InitialRemotes : \A id \in ids : Chain(id) \subseteq ids
    /\ {Garbage, NoFile} \cap Contents = {} /\ Garbage # NoFile
    /\ \A id \in DOMAIN Snapshots : ReachesFull(Snapshots, id)

\* A rename gives another name.
ASSUME HistoryAssumption ==
    /\ IsFiniteSet(DOMAIN Snapshots)
    /\ \A id \in DOMAIN Snapshots :
           /\ Snapshots[id] \in Manifest /\ Snapshots[id].id = id
           /\ \A k \in DOMAIN Snapshots[id].renames :
                 Snapshots[id].renames[k].from # Snapshots[id].renames[k].to

VARIABLES
    remote,     \* snapshots whose manifest and row are on Dropbox
    damaged,    \* blobs whose bytes are not what their name says
    outdated,   \* a run committed or pruned, and has not called invalidate yet
    cache,      \* ManifestCache; index and latch are sets of at most one;
                \* late: an invalidate overtook a download (history)
    downloads,  \* of snapshot_index.json, under way: what the server answered
    vault,      \* files, and whether Obsidian knows them; restores alone
                \* change it
    tmp,        \* bytes in <path>.archivist-tmp
    active,     \* activeMutexes
    ops,        \* restores under way
    restored,   \* what restores that reported success left (history)
    counts

restoreVars == <<remote, damaged, outdated, cache, downloads, vault, tmp,
                 active, ops, restored, counts>>
dropboxVars == <<remote, damaged, outdated, cache, downloads>>
vaultVars == <<vault, tmp, active, ops, restored>>

RestoreInit ==
    /\ remote \in InitialRemotes
    /\ damaged = {} /\ outdated = FALSE
    /\ \E index \in {{}, {[ids |-> remote, from |-> 1]}} :
          cache = [index |-> index, latch |-> {}, kept |-> {},
                   asked |-> Cardinality(index), late |-> FALSE]
    /\ downloads = <<>>
    /\ vault \in InitialVaults
    /\ tmp = [p \in Paths |-> {}]
    /\ active = {} /\ ops = {} /\ restored = {}
    /\ counts = [events |-> 0, clicks |-> 0]

Spend(what, max) ==
    counts[what] < max /\ counts' = [counts EXCEPT ![what] = @ + 1]

(***************************************************************************)
(* Meanwhile, on Dropbox.                                                  *)
(***************************************************************************)

\* The next snapshot is committed, or old ones that no other builds on are
\* pruned.
FolderChanges ==
    /\ ~outdated /\ Spend("events", MaxEvents)
    /\ \/ \E id \in DOMAIN Snapshots \ remote :
             /\ \A other \in remote : NewerThan(id, other)
             /\ Chain(id) \subseteq remote \cup {id}
             /\ remote' = remote \cup {id}
       \/ \E left \in (SUBSET remote) \ {{}, remote} :
             /\ \A id \in left : Chain(id) \subseteq left
             /\ \A id \in remote \ left : \E newer \in left : NewerThan(newer, id)
             /\ remote' = left
    /\ outdated' = TRUE
    /\ UNCHANGED <<damaged, cache, downloads, vaultVars>>

\* Mutant: the list of snapshots is kept.
InvalidateManifests ==
    /\ outdated /\ outdated' = FALSE
    /\ cache' = [cache EXCEPT !.kept = {}, !.late = @ \/ downloads # <<>>]
    /\ UNCHANGED <<remote, damaged, downloads, vaultVars, counts>>

\* invalidate, which the run and the retention job call when they are done.
Invalidate ==
    /\ outdated /\ outdated' = FALSE
    /\ cache' = [cache EXCEPT !.index = {}, !.latch = {}, !.kept = {},
                              !.late = @ \/ downloads # <<>>]
    /\ UNCHANGED <<remote, damaged, downloads, vaultVars, counts>>

DamageBlob ==
    /\ Spend("events", MaxEvents)
    /\ \E c \in Contents \ damaged : damaged' = damaged \cup {c}
    /\ UNCHANGED <<remote, outdated, cache, downloads, vaultVars>>

(***************************************************************************)
(* ManifestCache.                                                          *)
(***************************************************************************)

\* ensureIndexLoaded: what the caller gets, or the download it waits for.
\* Callers that come while one is under way share it.
IndexNow == cache.index
AwaitedDownload == IF cache.latch = {} THEN {cache.asked + 1} ELSE cache.latch
AskForIndex ==
    IF cache.index # {} \/ cache.latch # {} THEN UNCHANGED <<cache, downloads>>
    ELSE /\ cache' = [cache EXCEPT !.latch = {cache.asked + 1}, !.asked = @ + 1]
         /\ downloads' = Overlay(downloads, [n \in {cache.asked + 1} |-> {}])

\* Dropbox reads the file at some moment before the answer arrives.
ServerReads(n) ==
    /\ n \in DOMAIN downloads /\ downloads[n] = {}
    /\ downloads' = [downloads EXCEPT ![n] = {remote}]
    /\ UNCHANGED <<remote, damaged, outdated, cache, vaultVars, counts>>

\* The cached entries are objects of their own: from tells them apart.
Arrived(n) == {[ids |-> ids, from |-> n] : ids \in downloads[n]}
IndexArrives(n) ==
    /\ n \in DOMAIN downloads /\ downloads[n] # {}
    /\ downloads' = Without(downloads, {n})
    /\ cache' = [cache EXCEPT !.index = Arrived(n)]
    /\ UNCHANGED <<remote, damaged, outdated, vaultVars, counts>>

\* A failure drops the latch, whoever holds it by then.
IndexFails(n) ==
    /\ n \in DOMAIN downloads /\ Spend("events", MaxEvents)
    /\ downloads' = Without(downloads, {n})
    /\ cache' = [cache EXCEPT !.latch = {}]
    /\ UNCHANGED <<remote, damaged, outdated, vaultVars>>

\* loadManifest of each of ids, from the cache or from Dropbox.
CanLoad(ids) == ids \subseteq cache.kept \cup remote

\* The first that is not cached asks for the index on its way; what a
\* download of its own brings is cached in the same step.
Load(ids) ==
    LET own == ~(ids \subseteq cache.kept) /\ cache.index = {} /\ cache.latch = {}
        n == cache.asked + 1
    IN  cache' = [cache EXCEPT
                    !.kept = @ \cup ids,
                    !.index = IF own THEN {[ids |-> remote, from |-> n]} ELSE @,
                    !.asked = IF own THEN n ELSE @]

(***************************************************************************)
(* RestoreService.                                                         *)
(***************************************************************************)

\* Mutant: bytes are taken for what their name says.
TakeUnverified(bytes, hash) == TRUE

\* The check of fetchContent and, before a write, of verifyPreWriteHash.
Verified(bytes, hash) == bytes = hash

\* fetchContent: the verified bytes, or nothing.
FetchContent(id, p) ==
    {b \in Contents \cup {Garbage} :
        /\ CanLoad(Chain(id))
        /\ \E c \in Lookup(State[id], p) :
              b = (IF c \in damaged THEN Garbage ELSE c) /\ Verified(b, c)}

\* Mutant: the older name ends where it begins.
RenamedHere(since, r, i, oldest) ==
    IF r.to \in DOMAIN since /\ r.from \notin DOMAIN since
    THEN [x \in DOMAIN since \cup {r.from} |-> IF x \in {r.from, r.to} THEN i ELSE since[x]]
    ELSE since

\* Mutant: the guard for a name that is used again is not there.
RenamedUnguarded(since, r, i, oldest) ==
    IF r.to \in DOMAIN since /\ r.from \notin DOMAIN since
    THEN [x \in DOMAIN since \cup {r.from} |->
             IF x = r.from THEN oldest ELSE IF x = r.to THEN i ELSE since[x]]
    ELSE since

\* Back over rename r of the i-th manifest, newest first.  since[alias] is
\* the oldest position at which alias still names the file.
RenamedBack(since, r, i, oldest) ==
    IF r.to \in DOMAIN since /\ r.from \notin DOMAIN since
    THEN [x \in DOMAIN since \cup {r.from} |->
             IF x = r.from THEN oldest ELSE IF x = r.to THEN i ELSE since[x]]
    ELSE IF r.from \in DOMAIN since /\ r.to \notin DOMAIN since
    THEN [since EXCEPT ![r.from] = i] ELSE since

\* Back over all renames of the i-th manifest, the last one first.
AllRenamedBack(since, renames, i, oldest) ==
    LET n == Len(renames)
        back[k \in 0..n] ==
            IF k = 0 THEN since
            ELSE RenamedBack(back[k - 1], renames[n + 1 - k], i, oldest)
    IN  back[n]

\* listVersionsForPath.
ListVersions(path, manifests) ==
    LET oldest == Len(manifests)
        aliases[i \in 0..oldest] ==
            IF i = 0 THEN [p \in {path} |-> oldest]
            ELSE AllRenamedBack(aliases[i - 1], manifests[i].renames, i, oldest)
    IN  UNION {{[id |-> manifests[i].id, path |-> a] :
                   a \in {b \in DOMAIN aliases[i] :
                             i <= aliases[i][b] /\ b \in DOMAIN manifests[i].files}} :
               i \in DOMAIN manifests}

\* Of two of the same time either may be first.
NewestFirst(ids) ==
    CHOOSE seq \in SetToSeqs({Snapshots[id] : id \in ids}) :
        \A i, j \in DOMAIN seq : i < j => seq[i].createdAt >= seq[j].createdAt

(***************************************************************************)
(* RestoreOperations.  A restore of a directory takes its files one by     *)
(* one; which comes first is left open.                                    *)
(***************************************************************************)
Op(kind, mode, id, paths) ==
    [n |-> counts'.clicks, kind |-> kind, mode |-> mode, id |-> id, todo |-> paths,
     pc |-> IF kind = "dir" THEN "plan" ELSE "next", path |-> NoPath,
     bytes |-> NoFile, shown |-> NoFile, ok |-> {}, failed |-> {}]

Set(o, new) == ops' = (ops \ {o}) \cup {new}

FileFails(o) ==
    /\ active' = active \ {o.path}
    /\ Set(o, [o EXCEPT !.pc = "next", !.failed = @ \cup {o.path}, !.path = NoPath])

\* What the file or the copy now holds is what was restored.
FileDone(o, content) ==
    /\ active' = active \ {o.path}
    /\ restored' = restored \cup
           {[id |-> o.id, path |-> o.path, shown |-> o.shown, content |-> content]}
    /\ Set(o, [o EXCEPT !.pc = "next", !.ok = @ \cup {o.path}, !.path = NoPath])

\* restoreDirectory restores what the snapshot holds below the directory.
PlanDirectory(o) ==
    /\ o \in ops /\ o.pc = "plan"
    /\ IF CanLoad(Chain(o.id))
       THEN /\ Set(o, [o EXCEPT !.pc = "next", !.todo = @ \cap DOMAIN State[o.id]])
            /\ Load(Chain(o.id))
       ELSE /\ Set(o, [o EXCEPT !.pc = "next", !.todo = {}])
            /\ UNCHANGED cache
    /\ UNCHANGED <<remote, damaged, outdated, downloads, vault, tmp, active,
                   restored, counts>>

\* runWithMutex: RESTORE_IN_PROGRESS if somebody restores the path.
BeginFile(o, p) ==
    /\ o \in ops /\ o.pc = "next" /\ p \in o.todo
    /\ active' = active \cup {p}
    /\ Set(o, IF p \in active
              THEN [o EXCEPT !.todo = @ \ {p}, !.failed = @ \cup {p}]
              ELSE [o EXCEPT !.pc = "fetch", !.path = p, !.todo = @ \ {p}])
    /\ UNCHANGED <<dropboxVars, vault, tmp, restored, counts>>

\* fetchContent and verifyPreWriteHash.
FetchFile(o) ==
    /\ o \in ops /\ o.pc = "fetch"
    /\ \/ \E b \in FetchContent(o.id, o.path) :
             /\ Set(o, [o EXCEPT !.pc = "write", !.bytes = b])
             /\ Load(Chain(o.id)) /\ UNCHANGED active
       \/ FetchContent(o.id, o.path) = {} /\ FileFails(o) /\ UNCHANGED cache
    /\ UNCHANGED <<remote, damaged, outdated, downloads, vault, tmp, restored, counts>>

\* Mutant: files that Obsidian knows are replaced by a rename, too.
WriteByRename(o) ==
    /\ o \in ops /\ o.pc = "write"
    /\ tmp' = [tmp EXCEPT ![o.path] = {o.bytes}]
    /\ Set(o, [o EXCEPT !.pc = "clear"])
    /\ UNCHANGED <<dropboxVars, vault, active, restored, counts>>

\* writeAtomic: a known file is modified in one step, any other is written
\* next to its place first.  A copy has a place of its own.
WriteFile(o) ==
    /\ o \in ops /\ o.pc = "write"
    /\ \/ /\ o.mode = "copy"
          /\ FileDone(o, o.bytes) /\ UNCHANGED <<vault, tmp>>
       \/ /\ o.mode = "in_place" /\ vault[o.path].known
          /\ vault' = [vault EXCEPT ![o.path].content = o.bytes]
          /\ FileDone(o, o.bytes) /\ UNCHANGED tmp
       \/ /\ o.mode = "in_place" /\ ~vault[o.path].known
          /\ tmp' = [tmp EXCEPT ![o.path] = {o.bytes}]
          /\ Set(o, [o EXCEPT !.pc = "clear"])
          /\ UNCHANGED <<vault, active, restored>>
    /\ UNCHANGED <<dropboxVars, counts>>

\* A file that is there anyway is removed.
ClearPlace(o) ==
    /\ o \in ops /\ o.pc = "clear"
    /\ vault' = [vault EXCEPT ![o.path] = [content |-> NoFile, known |-> FALSE]]
    /\ Set(o, [o EXCEPT !.pc = "move"])
    /\ UNCHANGED <<dropboxVars, tmp, active, restored, counts>>

\* A rename onto a file, or of one that is gone, fails.
MoveIntoPlace(o) ==
    /\ o \in ops /\ o.pc = "move"
    /\ tmp' = [tmp EXCEPT ![o.path] = {}]
    /\ IF tmp[o.path] # {} /\ vault[o.path].content = NoFile
       THEN \E b \in tmp[o.path] :
               /\ vault' = [vault EXCEPT ![o.path] = [content |-> b, known |-> TRUE]]
               /\ FileDone(o, b)
       ELSE FileFails(o) /\ UNCHANGED <<vault, restored>>
    /\ UNCHANGED <<dropboxVars, counts>>

\* A download or a call of the adapter fails; what was written aside goes.
FileError(o) ==
    /\ o \in ops /\ o.path # NoPath /\ Spend("events", MaxEvents)
    /\ tmp' = IF o.pc \in {"clear", "move"} THEN [tmp EXCEPT ![o.path] = {}] ELSE tmp
    /\ FileFails(o)
    /\ UNCHANGED <<dropboxVars, vault, restored>>

EndOp(o) ==
    /\ o \in ops /\ o.pc = "next" /\ o.todo = {}
    /\ ops' = ops \ {o}
    /\ UNCHANGED <<dropboxVars, vault, tmp, active, restored, counts>>

OpStep(o) ==
    \/ PlanDirectory(o)
    \/ \E p \in Paths : BeginFile(o, p)
    \/ FetchFile(o) \/ WriteFile(o) \/ ClearPlace(o) \/ MoveIntoPlace(o) \/ FileError(o)
=============================================================================
