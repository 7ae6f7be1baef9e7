----------------------------- MODULE Manifests -----------------------------
(***************************************************************************)
(* The pure algorithms of the backup chain: how queued vault events become *)
(* an incremental manifest, how a manifest updates the local index, and    *)
(* how a chain of manifests is replayed into a vault state.                *)
(*                                                                         *)
(* A vault, an index and the `files' of a manifest are partial functions   *)
(* from paths to contents.  A content stands for the bytes and for their   *)
(* hash, so equal hashes mean equal bytes; size and mtime follow from the  *)
(* content.  A snapshot id is the pair <<minute of created_at, type>>.     *)
(***************************************************************************)
EXTENDS Integers, Sequences, FiniteSets, SequencesExt

CONSTANTS Paths,     \* vault paths
          Contents,  \* file contents, identified with their hashes
          NoId,      \* the null snapshot id
          NoPath     \* the null prev_path of an event that is not a rename

Kinds == {"full", "inc"}
SnapshotIds == Nat \X Kinds

ASSUME NoIdAssumption == NoId \notin SnapshotIds
ASSUME NoPathAssumption == NoPath \notin Paths

PartialFunctions(S, T) == UNION {[D -> T] : D \in SUBSET S}
FileMaps == PartialFunctions(Paths, Contents)
EmptyMap == [x \in {} |-> {}]

\* Object spread { ...f, ...g }: the entries of g win.
Overlay(f, g) ==
    [x \in DOMAIN f \cup DOMAIN g |-> IF x \in DOMAIN g THEN g[x] ELSE f[x]]
Without(f, S) == [x \in DOMAIN f \ S |-> f[x]]
Only(f, S) == [x \in DOMAIN f \cap S |-> f[x]]
Values(f) == {f[x] : x \in DOMAIN f}
Lookup(f, x) == IF x \in DOMAIN f THEN {f[x]} ELSE {}

Renames == [from : Paths, to : Paths]
Events == [type : {"create", "modify", "delete", "rename"}, path : Paths,
           prev : Paths \cup {NoPath}, at : Nat]
Manifest == [id : SnapshotIds, type : Kinds, parent : SnapshotIds \cup {NoId},
             createdAt : Nat, files : FileMaps, deleted : SUBSET Paths,
             renames : Seq(Renames)]

(***************************************************************************)
(* EventQueue.                                                             *)
(***************************************************************************)
\* An event within the window of one with the same identity is dropped.
IsDuplicate(queue, e, window) ==
    \E i \in DOMAIN queue :
        /\ queue[i].path = e.path
        /\ queue[i].type = e.type
        /\ queue[i].prev = e.prev
        /\ e.at - queue[i].at \in (1 - window)..(window - 1)

Enqueue(queue, e, window) ==
    IF IsDuplicate(queue, e, window) THEN queue ELSE Append(queue, e)

\* Mutant: the whole queue is cleared.
PruneAll(queue, cursor) == <<>>

\* Array.filter.
Filter(seq, S) ==
    FoldLeft(LAMBDA kept, x : IF x \in S THEN Append(kept, x) ELSE kept, <<>>, seq)

\* commitWindow: what is not newer than the cursor is pruned.
Prune(queue, cursor) == Filter(queue, {e \in Range(queue) : e.at > cursor})

Touched(queue) ==
    Paths \cap UNION {{queue[i].path, queue[i].prev} : i \in DOMAIN queue}

LastObservedAt(queue) ==
    LET times == {queue[i].at : i \in DOMAIN queue}
    IN  CHOOSE t \in times : \A u \in times : u <= t

(***************************************************************************)
(* bucketQueueEntries.                                                     *)
(***************************************************************************)
EmptyBuckets == [changes |-> {}, deleted |-> {}, renames |-> <<>>]

\* Map.set keeps the position of a key it already holds.
SetRename(renames, from, to) ==
    LET entry == [from |-> from, to |-> to]
    IN  IF \E i \in DOMAIN renames : renames[i].from = from
        THEN [i \in DOMAIN renames |->
                 IF renames[i].from = from THEN entry ELSE renames[i]]
        ELSE Append(renames, entry)

BucketEvent(b, e) ==
    CASE e.type \in {"create", "modify"} ->
            [b EXCEPT !.deleted = @ \ {e.path}, !.changes = @ \cup {e.path}]
      [] e.type = "delete" ->
            [changes |-> b.changes \ {e.path},
             deleted |-> b.deleted \cup {e.path} \cup
                 {b.renames[i].from :
                     i \in {j \in DOMAIN b.renames : b.renames[j].to = e.path}},
             renames |-> Filter(b.renames, {r \in Range(b.renames) : r.to # e.path})]
      [] e.type = "rename" ->
            [b EXCEPT !.renames = SetRename(@, e.prev, e.path),
                      !.changes = IF e.path \in b.deleted THEN @
                                  ELSE @ \cup {e.path}]

Bucket(queue) == FoldLeft(BucketEvent, EmptyBuckets, queue)

RenameEnds(renames) == UNION {{renames[i].from, renames[i].to} :
                                  i \in DOMAIN renames}

(***************************************************************************)
(* Manifests.                                                              *)
(***************************************************************************)
SnapshotId(createdAt, minute, type) == <<createdAt \div minute, type>>

FullManifest(createdAt, minute, files) ==
    [id |-> SnapshotId(createdAt, minute, "full"), type |-> "full",
     parent |-> NoId, createdAt |-> createdAt,
     files |-> files, deleted |-> {}, renames |-> <<>>]

IncManifest(createdAt, minute, parent, files, deleted, renames) ==
    [id |-> SnapshotId(createdAt, minute, "inc"), type |-> "inc",
     parent |-> parent, createdAt |-> createdAt,
     files |-> files, deleted |-> deleted, renames |-> renames]

\* buildChanges: of the files read, those whose hash differs from the index.
ChangedFiles(read, indexFiles) ==
    Only(read, {p \in DOMAIN read : Lookup(indexFiles, p) # {read[p]}})

IsEmptyChange(files, deleted, renames) ==
    DOMAIN files = {} /\ deleted = {} /\ renames = <<>>

\* Mutant: the deletions of an incremental stay in the index.
IndexFilesKeepingDeleted(files, m) == Overlay(files, m.files)

(***************************************************************************)
(* saveLocalIndex: renames, then deletes, then the manifest's files.  A    *)
(* rename overwrites its target unless the manifest carries the target.    *)
(***************************************************************************)
IndexFilesAfter(files, m) ==
    LET Carry(f, r) ==
            IF r.from \in DOMAIN f /\ r.to \notin DOMAIN m.files
            THEN Overlay(Without(f, {r.from}), [x \in {r.to} |-> f[r.from]])
            ELSE Without(f, {r.from})
        renamed == FoldLeft(Carry, files, m.renames)
    IN  Overlay(Without(renamed, m.deleted), m.files)

(***************************************************************************)
(* materializeVaultStateAt: renames (one whose target exists is skipped),  *)
(* then the manifest's files, then deletes.                                *)
(***************************************************************************)
ReplayManifest(state, m) ==
    LET Move(s, r) ==
            IF r.from \notin DOMAIN s \/ r.to \in DOMAIN s THEN s
            ELSE Overlay(Without(s, {r.from}), [x \in {r.to} |-> s[r.from]])
        renamed == FoldLeft(Move, state, m.renames)
    IN  Without(Overlay(renamed, m.files), m.deleted)

(***************************************************************************)
(* Chains.  Ancestor(ms, id)[n] is the n-th parent of id, NoId beyond the  *)
(* full snapshot the chain ends in or beyond a missing manifest.           *)
(***************************************************************************)
Ancestor(ms, id) ==
    LET anc[n \in 0..Cardinality(DOMAIN ms)] ==
            IF n = 0 THEN id
            ELSE LET child == anc[n - 1]
                 IN  IF child \in DOMAIN ms /\ ms[child].type = "inc"
                     THEN ms[child].parent ELSE NoId
    IN  anc

FullDepths(ms, id) ==
    LET anc == Ancestor(ms, id)
    IN  {n \in 0..Cardinality(DOMAIN ms) :
            LET a == anc[n] IN a \in DOMAIN ms /\ ms[a].type = "full"}

\* loadChainToFull succeeds: no parent is missing, and there is no cycle.
ReachesFull(ms, id) == FullDepths(ms, id) # {}
Depth(ms, id) == CHOOSE n \in FullDepths(ms, id) : TRUE

\* walkChainToFull, which also gives up at CHAIN_WALK_MAX_DEPTH manifests.
ChainIntact(ms, id, maxDepth) ==
    \E n \in FullDepths(ms, id) : n < maxDepth

Materialize(ms, id) ==
    LET d == Depth(ms, id)
        anc == Ancestor(ms, id)
        state[k \in 0..d] ==
            IF k = 0 THEN ms[anc[d]].files
            ELSE ReplayManifest(state[k - 1], ms[anc[d - k]])
    IN  state[d]

\* Everything a restore of id downloads is there.
Restorable(ms, blobs, id) ==
    /\ ReachesFull(ms, id)
    /\ Values(Materialize(ms, id)) \subseteq blobs
============================================================================
