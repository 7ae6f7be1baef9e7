------------------------- MODULE RestoreProperties -------------------------
(***************************************************************************)
(* What the views and the restores keep whatever arrives when.             *)
(***************************************************************************)
EXTENDS VersionPanels

CONSTANT Names   \* of files, in snapshots that are still to come, too

ASSUME NamesAssumption == Paths \subseteq Names /\ NoPath \notin Names

TypeOK ==
    /\ remote \in (SUBSET DOMAIN Snapshots) \ {{}}
    /\ cache.kept \subseteq DOMAIN Snapshots
    /\ vault \in [Paths -> Places]
    /\ \A p \in Paths : Cardinality(tmp[p]) <= 1
    /\ active \subseteq Paths
    /\ \A o \in ops : o.todo \subseteq Paths /\ o.path \in Paths \cup {NoPath}
    /\ Cardinality(view.sel) <= 1 /\ Cardinality(view.tree) <= 1

\* A restore that reports success has put the content of the snapshot in its
\* place, for every blob Dropbox may have damaged and every restore, file or
\* directory, that runs next to it (fetchContent, verifyPreWriteHash,
\* runWithMutex).
OkMeansRestored ==
    \A r \in restored : r.content = State[r.id][r.path]

\* Restores do not cost a file: one that Obsidian knows is there in every
\* step, also when downloads and calls of the adapter fail.
KnownFileSurvives ==
    [][\A p \in Paths : vault[p].known => vault'[p].content # NoFile]_vars

\* What ManifestCache holds is what Dropbox holds once invalidate has been
\* called, unless invalidate overtook a download.
CacheIsFresh ==
    (~outdated /\ ~cache.late) =>
        /\ \A index \in cache.index : index.ids = remote
        /\ cache.kept \subseteq remote

\* When the selected snapshot has been pruned, nothing of it comes back: not
\* with the answer to a click made before (_refreshSnapshots, "tear down
\* dependent state"; _selectSnapshot, "bail if superseded or closed").  Its
\* restore buttons may: renderPreviewColumn asks nobody.
PrunedIsGone ==
    view.sel = {} => /\ view.fileState = {} /\ view.tree = {}
                     /\ view.files = EmptyFiles /\ view.pane.kind = "none"

\* The tab shows the version whose row is marked, and restores no other.
TabShowsSelected ==
    /\ tab.pane.kind = "shown" => tab.pane.id = tab.selected
    /\ \A row \in tab.pane.buttons : row.id = tab.selected

\* A gate is closed only as long as somebody is there who will open it,
\* whatever failed before: Refresh, the restore of a directory, the mutex of
\* a path, and the "loading" of the tab.
GatesHaveOwners ==
    /\ view.refreshing => \E c \in calls : c.kind = "refresh"
    /\ view.restoring => \E o \in ops : o.kind = "dir"
    /\ \A p \in active : \E o \in ops : o.path = p
    /\ tab.pane.kind = "loading" =>
          \E c \in calls : c.kind = "version" /\ c.entry = Entry(tab.pane)

\* "Rename markers, preview, and one-click restore" (README.md:42): a version
\* is restored as it was shown.
RestoresWhatWasShown ==
    \A r \in restored : r.shown # NoFile => r.content = r.shown

(***************************************************************************)
(* The versions of a file, against a definition that follows a name from   *)
(* an old snapshot to the newest one.                                      *)
(***************************************************************************)
NameAfter(name, renames) ==
    LET after[k \in 0..Len(renames)] ==
            IF k = 0 THEN name
            ELSE LET n == after[k - 1]
                     r == renames[k]
                 IN  IF n = r.from THEN r.to ELSE IF n = r.to THEN NoPath ELSE n
    IN  after[Len(renames)]

\* The name in the newest of manifests of what is called name at position i.
NameNow(name, i, manifests) ==
    LET names[k \in 0..(i - 1)] ==
            IF k = 0 THEN name ELSE NameAfter(names[k - 1], manifests[i - k].renames)
    IN  names[i - 1]

\* The manifests on Dropbox, and newer ones with any rename each.
AnyRename == {<<>>} \cup {<<[from |-> a[1], to |-> a[2]]>> :
                             a \in {b \in Names \X Names : b[1] # b[2]}}
AnyManifest(i) == [id : {<<i, "any">>}, renames : AnyRename, files : {[p \in Names |-> Garbage]}]
Histories == {newer \o NewestFirst(remote) :
                 newer \in AnyManifest(1) \X AnyManifest(2) \X AnyManifest(3)}

\* Rename k of the i-th manifest came before rename l of the j-th.
Earlier(i, k, j, l) == j < i \/ (i = j /\ k < l)

\* Two renames, the old one first, that are Same.
TwoRenames(manifests, Same(_, _)) ==
    \E i, j \in DOMAIN manifests :
        \E k \in DOMAIN manifests[i].renames, l \in DOMAIN manifests[j].renames :
            Earlier(i, k, j, l) /\ Same(manifests[i].renames[k], manifests[j].renames[l])

\* A name that a file has given up is given to a file again, or names are
\* both given up twice and given twice.
NameTakenAgain(manifests) ==
    \/ TwoRenames(manifests, LAMBDA old, new : new.to = old.from)
    \/ /\ TwoRenames(manifests, LAMBDA old, new : new.to = old.to)
       /\ TwoRenames(manifests, LAMBDA old, new : new.from = old.from)

\* No version of a file is missing from its list, however often the file was
\* renamed (listVersionsForPath, "rename-aware version history"), as long as
\* no name is taken again.  Nobody needs to have asked for it: what Dropbox
\* can hold, it can hold before.
VersionsComplete ==
    (counts.clicks = 0) =>
    \A manifests \in Histories, path \in Names :
        NameTakenAgain(manifests) \/
        \A i \in DOMAIN manifests : \A name \in DOMAIN manifests[i].files :
            NameNow(name, i, manifests) = path =>
                [id |-> manifests[i].id, path |-> name] \in ListVersions(path, manifests)

LeftTwice(name, manifests) ==
    TwoRenames(manifests, LAMBDA old, new : old.from = name /\ new.from = name)

\* A name belongs to two files, one after the other: it is given to a second
\* one, or it is given to one, given up by it, and taken by a new file that
\* bears it still or gives it up as well.
NameReborn(path, manifests) ==
    \/ TwoRenames(manifests, LAMBDA old, new : new.to \in {old.from, old.to})
    \/ \E name \in Names :
          /\ TwoRenames(manifests, LAMBDA old, new : old.to = name /\ new.from = name)
          /\ \/ name = path
             \/ LeftTwice(name, manifests)

GivenUp(m) == {m.renames[k].from : k \in DOMAIN m.renames}

\* "A path that was reused after a rename-out does NOT contaminate history"
\* (RestoreService.ts:162): no version of another file is in the list, as long
\* as no name is reborn.  What a snapshot holds under a name that it takes
\* from a file itself is left open.
VersionsOwn ==
    (counts.clicks = 0) =>
    \A manifests \in Histories, path \in Names :
        NameReborn(path, manifests) \/
        \A i \in DOMAIN manifests : \A name \in DOMAIN manifests[i].files \ GivenUp(manifests[i]) :
            [id |-> manifests[i].id, path |-> name] \in ListVersions(path, manifests) =>
                NameNow(name, i, manifests) = path
=============================================================================
