---------------------------- MODULE VersionPanels ----------------------------
(***************************************************************************)
(* The two other ways to a restore: the tab of one file's versions         *)
(* (FileVersionsView) and the history window that the command in main.ts   *)
(* opens (FileHistoryModal), next to the browser.  All three share the     *)
(* manifest cache and the restore operations.                              *)
(***************************************************************************)
EXTENDS Browser

VARIABLES tab,    \* FileVersionsView
          modal   \* FileHistoryModal

vars == <<restoreVars, browserVars, tab, modal>>

\* A row is a version: the snapshot, and the name the file had in it.
Blank == [kind |-> "none", id |-> NoId, path |-> NoPath, n |-> 0, buttons |-> {}]
Closed == [open |-> FALSE, since |-> 0, path |-> NoPath, rows |-> {},
           selected |-> NoId, pane |-> Blank]
PanelsInit == tab = Closed /\ modal = Closed

Entry(row) == {[id |-> row.id, from |-> 0]}
Newest(rows) ==
    CHOOSE r \in rows :
        \A other \in rows : /\ ~NewerThan(other.id, r.id)
                            /\ other.id = r.id /\ r.path # tab.path => other.path # tab.path
Content(row) == Snapshots[row.id].files[row.path]

\* The restore of a version goes to the current path of the file.
RestoreRow(kind, mode, path, row) ==
    ops' = ops \cup {[Op(kind, mode, row.id, {path}) EXCEPT !.shown = Content(row)]}

(***************************************************************************)
(* FileVersionsView.                                                       *)
(***************************************************************************)
OpenVersions(path) ==
    /\ ~tab.open /\ Click /\ AskForIndex
    /\ tab' = [Closed EXCEPT !.open = TRUE, !.since = counts'.clicks, !.path = path]
    /\ Begin(AskingCall("versions", path))
    /\ UNCHANGED <<remote, damaged, outdated, vaultVars, view, modal>>

CloseVersions ==
    /\ tab.open /\ Click
    /\ tab' = Closed
    /\ UNCHANGED <<dropboxVars, vaultVars, browserVars, modal>>

\* _selectVersion up to its await.
StartVersion(t, row, n) ==
    [t EXCEPT !.selected = row.id,
              !.pane = [kind |-> "loading", id |-> row.id, path |-> row.path, n |-> n,
                        buttons |-> {}]]

\* A new tab is a new view: nothing of the old one's reaches it.
OfThisTab(c) == tab.open /\ c.n >= tab.since

\* Promise.allSettled: manifests that cannot be loaded are left out.  The
\* newest version is selected.
VersionsListed(c) ==
    /\ Answered(c, "versions")
    /\ \E ids \in {{id \in UNION {index.ids : index \in c.got} : CanLoad({id})}} :
       LET rows == ListVersions(c.path, NewestFirst(ids))
       IN  /\ Load(ids)
           /\ IF OfThisTab(c) /\ rows # {}
              THEN /\ tab' = StartVersion([tab EXCEPT !.rows = rows], Newest(rows), c.n)
                   /\ Continue(c, [c EXCEPT !.kind = "version", !.entry = Entry(Newest(rows)),
                                           !.path = Newest(rows).path, !.got = {}])
              ELSE Return(c) /\ UNCHANGED tab
    /\ UNCHANGED <<remote, damaged, outdated, downloads, vaultVars, counts, view, modal>>

SelectVersion(row) ==
    /\ tab.open /\ row \in tab.rows /\ Click
    /\ tab' = StartVersion(tab, row, counts'.clicks)
    /\ Begin(Call("version", Entry(row), row.path))
    /\ UNCHANGED <<dropboxVars, vaultVars, view, modal>>

Shown(c) == [kind |-> "shown", id |-> IdOf(c.entry), path |-> c.path, n |-> c.n,
             buttons |-> {}]
StillWanted(c) == OfThisTab(c) /\ tab.selected = IdOf(c.entry)

\* Mutant: what has been fetched is shown, whatever is selected by now.
VersionFetchedUnchecked(c) ==
    /\ Answered(c, "version") /\ FetchContent(IdOf(c.entry), c.path) # {}
    /\ Load(Chain(IdOf(c.entry)))
    /\ IF OfThisTab(c)
       THEN /\ tab' = [tab EXCEPT !.pane = Shown(c)]
            /\ Continue(c, [c EXCEPT !.kind = "version_render"])
       ELSE Return(c) /\ UNCHANGED tab
    /\ UNCHANGED <<remote, damaged, outdated, downloads, vaultVars, counts, view, modal>>

VersionFetched(c) ==
    /\ Answered(c, "version") /\ FetchContent(IdOf(c.entry), c.path) # {}
    /\ Load(Chain(IdOf(c.entry)))
    /\ IF StillWanted(c)
       THEN /\ tab' = [tab EXCEPT !.pane = Shown(c)]
            /\ Continue(c, [c EXCEPT !.kind = "version_render"])
       ELSE Return(c) /\ UNCHANGED tab
    /\ UNCHANGED <<remote, damaged, outdated, downloads, vaultVars, counts, view, modal>>

VersionFails(c) ==
    /\ Answered(c, "version") /\ Return(c)
    /\ \/ FetchContent(IdOf(c.entry), c.path) = {} /\ UNCHANGED counts
       \/ Spend("events", MaxEvents)
    /\ tab' = IF StillWanted(c) THEN [tab EXCEPT !.pane = [Blank EXCEPT !.kind = "error"]]
              ELSE tab
    /\ UNCHANGED <<dropboxVars, vaultVars, view, modal>>

\* The buttons come below the preview, or what is there by then.
VersionRendered(c) ==
    /\ Answered(c, "version_render") /\ Return(c)
    /\ tab' = IF StillWanted(c)
              THEN [tab EXCEPT !.pane.buttons = @ \cup {[id |-> IdOf(c.entry), path |-> c.path]}]
              ELSE tab
    /\ UNCHANGED <<restoreVars, view, modal>>

RestoreVersion(row, mode) ==
    /\ tab.open /\ row \in tab.pane.buttons /\ Click
    /\ RestoreRow("version", mode, tab.path, row)
    /\ UNCHANGED <<dropboxVars, vault, tmp, active, restored, browserVars, tab, modal>>

(***************************************************************************)
(* FileHistoryModal.                                                       *)
(***************************************************************************)
ShowHistory(path) ==
    /\ vault[path].known /\ (\A c \in calls : c.kind # "history")
    /\ Click /\ AskForIndex
    /\ Begin(AskingCall("history", path))
    /\ UNCHANGED <<remote, damaged, outdated, vaultVars, view, tab, modal>>

\* Promise.all: one manifest that cannot be loaded, and there is no window.
HistoryListed(c) ==
    /\ Answered(c, "history") /\ Return(c)
    /\ \/ \E index \in c.got :
             /\ CanLoad(index.ids) /\ Load(index.ids)
             /\ modal' = [Closed EXCEPT !.open = TRUE, !.since = c.n, !.path = c.path,
                             !.rows = ListVersions(c.path, NewestFirst(index.ids))]
       \/ /\ \A index \in c.got : ~CanLoad(index.ids)
          /\ UNCHANGED <<cache, modal>>
    /\ UNCHANGED <<remote, damaged, outdated, downloads, vaultVars, counts, view, tab>>

PreviewVersion(row) ==
    /\ modal.open /\ row \in modal.rows /\ Click
    /\ Begin(Call("preview", Entry(row), row.path))
    /\ UNCHANGED <<dropboxVars, vaultVars, view, tab, modal>>

\* previewGen is compared with itself: every answer is shown.
Previewed(c) ==
    /\ Answered(c, "preview") /\ FetchContent(IdOf(c.entry), c.path) # {}
    /\ Load(Chain(IdOf(c.entry))) /\ Return(c)
    /\ modal' = IF modal.open /\ c.n > modal.since
                THEN [modal EXCEPT !.pane = Shown(c)]
                ELSE modal
    /\ UNCHANGED <<remote, damaged, outdated, downloads, vaultVars, counts, view, tab>>

PreviewFails(c) ==
    /\ Answered(c, "preview") /\ Return(c)
    /\ \/ FetchContent(IdOf(c.entry), c.path) = {} /\ UNCHANGED counts
       \/ Spend("events", MaxEvents)
    /\ UNCHANGED <<dropboxVars, vaultVars, view, tab, modal>>

RestoreFromHistory(row) ==
    /\ modal.open /\ row \in modal.rows /\ Click
    /\ RestoreRow("history", "in_place", modal.path, row)
    /\ UNCHANGED <<dropboxVars, vault, tmp, active, restored, browserVars, tab, modal>>

CloseHistory ==
    /\ modal.open /\ Click
    /\ modal' = Closed
    /\ UNCHANGED <<dropboxVars, vaultVars, browserVars, tab>>

(***************************************************************************)
(* Everything together.                                                    *)
(***************************************************************************)
\* A restore from the history window closes it, or says that it failed.
Settled(o) ==
    modal' = IF o.kind # "history" \/ ~modal.open \/ o.n < modal.since THEN modal
             ELSE IF o.failed = {} THEN Closed
             ELSE [modal EXCEPT !.pane = [Blank EXCEPT !.kind = "error"]]

RestoreEnds(o) ==
    /\ EndOp(o) /\ OpenGate(o) /\ Settled(o)
    /\ UNCHANGED <<calls, tab>>

\* The window is in front of everything else; a second is not asked for.
UserClicks ==
    \/ ~modal.open /\ BrowserClick /\ UNCHANGED <<tab, modal>>
    \/ /\ ~modal.open
       /\ \/ \E path \in Paths : OpenVersions(path) \/ ShowHistory(path)
          \/ CloseVersions
          \/ \E row \in tab.rows : SelectVersion(row)
          \/ \E row \in tab.pane.buttons, mode \in {"in_place", "copy"} :
                RestoreVersion(row, mode)
    \/ \E row \in modal.rows : PreviewVersion(row) \/ RestoreFromHistory(row)
    \/ CloseHistory

AnswersCome ==
    \/ \E n \in DOMAIN downloads : DownloadEnds(n) /\ UNCHANGED <<view, tab, modal>>
    \/ \E c \in calls :
          \/ BrowserAnswer(c) /\ UNCHANGED <<tab, modal>>
          \/ VersionsListed(c) \/ VersionFetched(c) \/ VersionFails(c) \/ VersionRendered(c)
          \/ HistoryListed(c) \/ Previewed(c) \/ PreviewFails(c)

Meanwhile ==
    /\ \/ FolderChanges \/ Invalidate \/ DamageBlob
       \/ \E n \in DOMAIN downloads : ServerReads(n)
       \/ \E o \in ops : OpStep(o)
    /\ UNCHANGED <<browserVars, tab, modal>>

Init == RestoreInit /\ BrowserInit /\ PanelsInit

Next ==
    \/ UserClicks \/ AnswersCome \/ Meanwhile
    \/ \E o \in ops : RestoreEnds(o)

Spec == Init /\ [][Next]_vars
=============================================================================
