------------------------------- MODULE Browser -------------------------------
(***************************************************************************)
(* BackupBrowserView: three columns that the answers of ManifestCache and  *)
(* RestoreService fill in, whichever arrives first, while the user clicks. *)
(* The vault is one directory.  A method that awaits is an action up to    *)
(* the await, and a record of calls that a later action continues.         *)
(***************************************************************************)
EXTENDS Restore

CONSTANTS MaxClicks   \* bound

VARIABLES view,    \* the fields and the columns of the view
          calls    \* methods that await something

browserVars == <<view, calls>>

\* fileState and _cachedTree are sets of at most one snapshot id; sel holds
\* the selected entry, an object of the index download it came from.
EmptyPane == [kind |-> "none", path |-> NoPath, id |-> NoId, buttons |-> {}]
EmptyFiles == [kind |-> "none", id |-> NoId]

\* The view is still closed, or open with its list.
BrowserInit ==
    /\ view = [open |-> cache.index # {}, since |-> 0, list |-> cache.index, sel |-> {},
               path |-> NoPath, fileState |-> {}, tree |-> {},
               files |-> EmptyFiles, pane |-> EmptyPane,
               refreshing |-> FALSE, restoring |-> FALSE]
    /\ calls = {}

Click == Spend("clicks", MaxClicks)

\* A call that waits for the index has a download in want, or the index in got.
Call(kind, entry, path) ==
    [n |-> counts'.clicks, kind |-> kind, entry |-> entry, path |-> path,
     want |-> {}, got |-> {}]
AskingCall(kind, path) ==
    [Call(kind, {}, path) EXCEPT
        !.want = IF IndexNow = {} THEN AwaitedDownload ELSE {}, !.got = IndexNow]
Begin(c) == calls' = calls \cup {c}
Continue(c, next) == calls' = (calls \ {c}) \cup {next}
Return(c) == calls' = calls \ {c}
Answered(c, kind) == c \in calls /\ c.kind = kind /\ c.want = {}

\* A download ends for all that wait for it.
Deliver(n, answer) ==
    calls' = {IF c.want = {n} THEN [c EXCEPT !.want = {}, !.got = answer] ELSE c :
                 c \in calls}
DownloadEnds(n) ==
    \/ IndexArrives(n) /\ Deliver(n, Arrived(n))
    \/ IndexFails(n) /\ Deliver(n, {})

(***************************************************************************)
(* onOpen, onClose and the list of snapshots.                              *)
(***************************************************************************)
Open ==
    /\ ~view.open /\ Click /\ AskForIndex
    /\ view' = [view EXCEPT !.open = TRUE, !.since = counts'.clicks, !.tree = {}]
    /\ Begin(AskingCall("list", NoPath))
    /\ UNCHANGED <<remote, damaged, outdated, vaultVars>>

\* The selection outlives the view.
Close ==
    /\ view.open /\ Click
    /\ view' = [view EXCEPT !.open = FALSE, !.list = {}, !.tree = {},
                            !.files = EmptyFiles, !.pane = EmptyPane]
    /\ UNCHANGED <<dropboxVars, vaultVars, calls>>

SnapshotsListed(c) ==
    /\ Answered(c, "list") /\ Return(c)
    /\ view' = IF view.open /\ c.got # {} THEN [view EXCEPT !.list = c.got] ELSE view
    /\ UNCHANGED restoreVars

\* Clicks while a refresh is under way are dropped.
Refresh ==
    /\ view.open /\ ~view.refreshing /\ Click /\ AskForIndex
    /\ view' = [view EXCEPT !.refreshing = TRUE]
    /\ Begin(AskingCall("refresh", NoPath))
    /\ UNCHANGED <<remote, damaged, outdated, vaultVars>>

\* The selected entry of the new list, if it is still there.
StillSelected(index) ==
    {[id |-> e.id, from |-> index.from] : e \in {x \in view.sel : x.id \in index.ids}}
Reselected(index) ==
    IF StillSelected(index) = {}
    THEN [view EXCEPT !.list = {index}, !.sel = {}, !.path = NoPath, !.fileState = {},
                      !.tree = {}, !.files = EmptyFiles, !.pane = EmptyPane]
    ELSE [view EXCEPT !.list = {index}, !.sel = StillSelected(index)]

\* Mutant: refreshing is reset only when the list arrives.
RefreshedInTime(c) ==
    /\ Answered(c, "refresh") /\ Return(c)
    /\ view' = IF view.open /\ c.got # {}
               THEN LET index == CHOOSE i \in c.got : TRUE
                    IN  [(IF view.sel = {} THEN [view EXCEPT !.list = c.got]
                          ELSE Reselected(index)) EXCEPT !.refreshing = FALSE]
               ELSE view
    /\ UNCHANGED restoreVars

Refreshed(c) ==
    /\ Answered(c, "refresh") /\ Return(c)
    /\ \/ /\ view.open
          /\ \E index \in c.got :
                view' = [(IF view.sel = {} THEN [view EXCEPT !.list = c.got]
                          ELSE Reselected(index)) EXCEPT !.refreshing = FALSE]
       \/ /\ ~view.open \/ c.got = {}
          /\ view' = [view EXCEPT !.refreshing = FALSE]
    /\ UNCHANGED restoreVars

(***************************************************************************)
(* The files column.                                                       *)
(***************************************************************************)
\* _closed and selectedSnapshot are compared when an answer arrives.
Current(c) == view.open /\ view.sel = c.entry
IdOf(entry) == (CHOOSE e \in entry : TRUE).id

\* _getTree: the cached tree, or a new one of fileState.
ShowTree(v) ==
    LET tree == IF v.tree = {} THEN v.fileState ELSE v.tree
    IN  [v EXCEPT !.tree = tree,
                  !.files = [kind |-> "tree",
                             id |-> IF tree = {} THEN NoId ELSE CHOOSE id \in tree : TRUE]]

SelectSnapshot(id) ==
    /\ view.open /\ Click
    /\ \E index \in view.list :
          /\ id \in index.ids
          /\ LET entry == {[id |-> id, from |-> index.from]}
             IN  /\ Begin(Call("materialize", entry, view.path))
                 /\ view' = [view EXCEPT !.sel = entry, !.path = NoPath,
                                         !.files = [kind |-> "loading", id |-> id]]
    /\ UNCHANGED <<dropboxVars, vaultVars>>

\* Mutant: the state is kept, whatever is selected by now.
MaterializedUnchecked(c) ==
    /\ Answered(c, "materialize") /\ CanLoad(Chain(IdOf(c.entry)))
    /\ Load(Chain(IdOf(c.entry)))
    /\ view' = [view EXCEPT !.fileState = {IdOf(c.entry)}, !.tree = {IdOf(c.entry)}]
    /\ Continue(c, [c EXCEPT !.kind = "parent"])
    /\ UNCHANGED <<remote, damaged, outdated, downloads, vaultVars, counts>>

Materialized(c) ==
    /\ Answered(c, "materialize") /\ CanLoad(Chain(IdOf(c.entry)))
    /\ Load(Chain(IdOf(c.entry)))
    /\ IF Current(c)
       THEN /\ view' = [view EXCEPT !.fileState = {IdOf(c.entry)},
                                    !.tree = {IdOf(c.entry)}]
            /\ Continue(c, [c EXCEPT !.kind = "parent"])
       ELSE Return(c) /\ UNCHANGED view
    /\ UNCHANGED <<remote, damaged, outdated, downloads, vaultVars, counts>>

\* CHAIN_BROKEN, or a download that failed.
MaterializeFails(c) ==
    /\ Answered(c, "materialize") /\ Return(c)
    /\ \/ ~CanLoad(Chain(IdOf(c.entry))) /\ UNCHANGED counts
       \/ Spend("events", MaxEvents)
    /\ view' = IF Current(c)
               THEN [view EXCEPT !.files = [kind |-> "error", id |-> IdOf(c.entry)]]
               ELSE view
    /\ UNCHANGED <<dropboxVars, vaultVars>>

\* _selectFile up to its await.
StartFile(v, path) ==
    IF v.sel = {} THEN [v EXCEPT !.path = path]
    ELSE [ShowTree([v EXCEPT !.path = path])
            EXCEPT !.pane = [EmptyPane EXCEPT !.kind = "loading", !.path = path,
                                              !.id = IdOf(v.sel)]]

\* The parent's state is loaded too, or left out; then the tree is shown and
\* the file that was selected before is looked for in it.
ShowSelection(c) ==
    /\ CASE view.tree = {} -> Return(c) /\ UNCHANGED view
         [] view.tree # {} /\ c.path \in DOMAIN State[IdOf(c.entry)] ->
               /\ view' = StartFile(ShowTree(view), c.path)
               /\ Continue(c, [c EXCEPT !.kind = "fetch"])
         [] view.tree # {} /\ c.path \notin DOMAIN State[IdOf(c.entry)] ->
               /\ view' = [ShowTree(view) EXCEPT
                              !.pane = IF c.path = NoPath THEN @ ELSE EmptyPane]
               /\ Return(c)
LoadParent(c) ==
    LET parents == Chain(IdOf(c.entry)) \ {IdOf(c.entry)}
    IN  IF CanLoad(parents) THEN Load(parents) ELSE UNCHANGED cache

ParentDone(c) ==
    /\ Answered(c, "parent") /\ LoadParent(c)
    /\ IF Current(c) THEN ShowSelection(c) ELSE Return(c) /\ UNCHANGED view
    /\ UNCHANGED <<remote, damaged, outdated, downloads, vaultVars, counts>>

\* _applySearchQuery.
Search ==
    /\ view.open /\ view.sel # {} /\ Click
    /\ view' = ShowTree(view)
    /\ UNCHANGED <<dropboxVars, vaultVars, calls>>

(***************************************************************************)
(* The preview column.                                                     *)
(***************************************************************************)
Rows == IF view.open /\ view.files.kind = "tree" /\ view.files.id # NoId
        THEN DOMAIN State[view.files.id] ELSE {}

SelectFile(path) ==
    /\ path \in Rows /\ Click
    /\ view' = StartFile(view, path)
    /\ Begin(Call("fetch", view.sel, path))
    /\ UNCHANGED <<dropboxVars, vaultVars>>

Fetched(c) ==
    /\ Answered(c, "fetch") /\ FetchContent(IdOf(c.entry), c.path) # {}
    /\ Load(Chain(IdOf(c.entry)))
    /\ IF Current(c)
       THEN /\ view' = [view EXCEPT !.pane = [kind |-> "file", path |-> c.path,
                                              id |-> IdOf(c.entry), buttons |-> {}]]
            /\ Continue(c, [c EXCEPT !.kind = "render"])
       ELSE Return(c) /\ UNCHANGED view
    /\ UNCHANGED <<remote, damaged, outdated, downloads, vaultVars, counts>>

\* Nobody handles the rejection.
FetchFails(c) ==
    /\ Answered(c, "fetch") /\ Return(c)
    /\ \/ FetchContent(IdOf(c.entry), c.path) = {} /\ UNCHANGED counts
       \/ Spend("events", MaxEvents)
    /\ UNCHANGED <<dropboxVars, vaultVars, view>>

\* renderPreviewColumn adds its buttons to the column, whatever it shows by
\* then; the column of an earlier onOpen is not seen any more.
Rendered(c) ==
    /\ Answered(c, "render") /\ Return(c)
    /\ view' = IF view.open /\ c.n > view.since
               THEN [view EXCEPT !.pane.buttons = @ \cup {[path |-> c.path, id |-> IdOf(c.entry)]}]
               ELSE view
    /\ UNCHANGED restoreVars

SelectDir ==
    /\ Rows # {} /\ Click
    /\ view' = [ShowTree([view EXCEPT !.path = NoPath]) EXCEPT
                   !.pane = [kind |-> "dir", path |-> NoPath, id |-> IdOf(view.sel),
                             buttons |-> {[path |-> NoPath, id |-> IdOf(view.sel)]}]]
    /\ UNCHANGED <<dropboxVars, vaultVars, calls>>

(***************************************************************************)
(* Restores.  A directory is confirmed first, a file is not.               *)
(***************************************************************************)
RestoreFile(b, mode) ==
    /\ view.open /\ b \in view.pane.buttons /\ b.path # NoPath /\ Click
    /\ ops' = ops \cup {Op("file", mode, b.id, {b.path})}
    /\ UNCHANGED <<dropboxVars, vault, tmp, active, restored, browserVars>>

RestoreDir(b, mode) ==
    /\ view.open /\ b \in view.pane.buttons /\ b.path = NoPath
    /\ ~view.restoring /\ Click
    /\ view' = [view EXCEPT !.restoring = TRUE]
    /\ ops' = ops \cup {Op("dir", mode, b.id, Paths)}
    /\ UNCHANGED <<dropboxVars, vault, tmp, active, restored, calls>>

OpenGate(o) == view' = [view EXCEPT !.restoring = @ /\ o.kind # "dir"]

BrowserClick ==
    \/ Open \/ Close \/ Refresh \/ Search \/ SelectDir
    \/ \E id \in DOMAIN Snapshots : SelectSnapshot(id)
    \/ \E path \in Paths : SelectFile(path)
    \/ \E b \in view.pane.buttons, mode \in {"in_place", "copy"} :
          RestoreFile(b, mode) \/ RestoreDir(b, mode)

BrowserAnswer(c) ==
    \/ SnapshotsListed(c) \/ Refreshed(c)
    \/ Materialized(c) \/ MaterializeFails(c) \/ ParentDone(c)
    \/ Fetched(c) \/ FetchFails(c) \/ Rendered(c)
=============================================================================
