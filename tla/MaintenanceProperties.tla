------------------------ MODULE MaintenanceProperties ------------------------
(* What maintenance keeps of a folder. *)
EXTENDS Maintenance

\* The blobs and ancestors a snapshot is restored from.
Restorable(m) ==
    /\ m \in manifests
    /\ Complete(manifests, m.id)
    /\ \A i \in Lineage(manifests, {m.id}) :
           Row(manifests, i).blobs \subseteq DOMAIN blobs

(* A snapshot that no retention pass decided to prune stays restorable,    *)
(* whatever passes, sweeps, repairs, failures and crashes come together:   *)
(* RetentionService keeps whole lineages, GCService keeps their blobs.     *)
KeptStaysRestorable ==
    \A m \in kept : Restorable(m)

(* A second pass at the same time prunes nothing more, and the newest      *)
(* snapshots are among those kept (evaluateTiers, augmentWithAncestors).   *)
PassSettles ==
    LET keep == KeepSet(rows, clock)
    IN  /\ KeepSet({m \in rows : m.id \in keep}, clock) = keep
        /\ Cardinality(keep) >= KeepN \/ keep = Ids(rows)

(* A lock in the folder has a sweep that wrote a lock and has yet to       *)
(* remove it, whichever of its calls threw (GCService.sweep, its finally)  *)
(* and whichever sweep came in between its check and its write.  Excused   *)
(* is only a lock whose own sweep died with it, whose write threw with the *)
(* lock written, or whose removal threw: no code is left to remove it.     *)
NoLockLeftBehind ==
    lock # NoLock => abandoned \/ \E s \in Sweepers : HoldsLock(s)

(* After startup recovery HEAD names the newest manifest and no manifest   *)
(* is missing from the index, whatever step the crash before it came at.   *)
(* Rows of manifests that are gone may stay: an index that misses nothing  *)
(* is not rewritten (StartupRecovery.recoverOnStartup).                  *)
RecoveryAgrees ==
    [][RecoverHead =>
           /\ head' = NewestId(manifests)
           /\ manifests # {} => indexFile' = "ok" /\ manifests \subseteq rows']_vars
=============================================================================
