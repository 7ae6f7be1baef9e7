------------------------- MODULE SnapshotProperties -------------------------
(***************************************************************************)
(* What BackupService's runs keep true whatever the user, the network and  *)
(* the process do between two of their steps.                              *)
(***************************************************************************)
EXTENDS SnapshotCommit

\* What the snapshot the next incremental builds on restores to.
Tip == Materialize(manifests, LastId(index))

\* The commit order leaves only orphans behind: a manifest's blobs and its
\* parent were uploaded before it, an index row's manifest before the row,
\* and HEAD names a snapshot the index lists (commitSnapshot, steps 1-5).
\* Blobs survive a loss of manifests, links do not.
BlobsFirst == \A m \in Values(manifests) : Values(m.files) \subseteq blobs
LinksFirst ==
    /\ \A m \in Values(manifests) :
           m.type = "inc" => m.parent \in DOMAIN manifests
    /\ \A r \in rows : r.id \in DOMAIN manifests
    /\ head # NoId => \E r \in rows : r.id = head
CommitOrder == BlobsFirst /\ (losses = 0 => LinksFirst)

\* The snapshot HEAD names can be restored: its chain reaches a full backup
\* and every content it needs is stored.  After a loss on Dropbox this is
\* owed only once a backup of the session that followed has committed,
\* because the first one walks the chain, and not while a chain that the walk
\* gave up still waits for its full backup (WalkChain: the flag is set first).
TipRestorable ==
    (head # NoId /\ (losses = 0 \/ (committed /\ ~gaveUp)))
        => Restorable(manifests, blobs, head)

\* A change the plugin saw is never forgotten: wherever the vault differs
\* from what the last committed snapshot restores to, the queue still holds
\* an event of the path (or the change was made unobserved and awaits a
\* reconcile scan).  A chain with a lost manifest restores to nothing.
NoObservedChangeLost ==
    (losses = 0 /\ LastId(index) # NoId) =>
        \A p \in Paths \ Excluded :
            Lookup(Tip, p) # Lookup(vault, p) => p \in Touched(queue) \cup missed

\* The local index, which the next incremental is a difference against,
\* holds exactly the files its last snapshot restores to: saveLocalIndex and
\* materializeVaultStateAt agree although they apply a manifest differently.
IndexMatchesTip ==
    LET last == LastId(index)
    IN  (losses = 0 /\ last # NoId) =>
            /\ ReachesFull(manifests, last)
            /\ index.files = Materialize(manifests, last)

\* A manifest, once uploaded, is never replaced by another one
\* (docs/architecture-overview.md:46, "Snapshots are immutable"); the code
\* keeps this only for backups that start in different minutes.
SnapshotsImmutable ==
    [][\A id \in DOMAIN manifests \cap DOMAIN manifests' :
           manifests'[id] = manifests[id]]_vars

\* An unreadable snapshot index is rebuilt, not truncated: what the index
\* lists it goes on listing, as the manifest says, and a commit that makes
\* it readable again lists every manifest there is.  (rows keeps what an
\* unreadable file listed.)
RowsRecover ==
    [][\A id \in DOMAIN manifests' :
           (\E r \in rows : r.id = id) \/ (~rowsOk /\ rowsOk')
               => RowOf(manifests'[id]) \in rows']_vars

\* An incremental that is committed builds on a chain that is whole; the
\* first commit of a session builds on one that its walk accepted, no longer
\* than MaxDepth.  Not so after a walk that gave the chain up, until a full
\* backup has completed: the flag is set before that backup runs
\* (BackupService.ts:493).
ParentVerified ==
    (pc = "row" /\ man.type = "inc" /\ ~gaveUp) =>
        /\ ReachesFull(manifests, man.parent)
        /\ ~committed => ChainIntact(manifests, man.parent, MaxDepth)

\* The Dropbox folder implements the append-only log: a snapshot is
\* published when its row is appended and is never changed afterwards.
RowTime(id) == manifests[id].createdAt
Published == {r.id : r \in rows}
Log == INSTANCE SnapshotLog
           WITH Ids <- SnapshotIds, States <- FileMaps,
                log <- [id \in Published |->
                           [at |-> RowTime(id),
                            state |-> Materialize(manifests, id)]],
                tip <- head
ImplementsSnapshotLog == Log!Spec

\* Every observed change ends up in the last committed snapshot.
EventuallyBackedUp ==
    <>[](LastId(index) # NoId =>
            \A p \in Paths \ (missed \cup Excluded) :
                Lookup(Tip, p) = Lookup(vault, p))
=============================================================================
