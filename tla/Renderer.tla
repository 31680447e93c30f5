------------------------------ MODULE Renderer ------------------------------
(***************************************************************************)
(* src/renderer/state/appStore.ts, with the clicks, keys and events that   *)
(* the components and App.tsx wire to it and the main process it asks:     *)
(* what the window shows while calls are in flight, new versions are       *)
(* captured and the user goes on.                                          *)
(*                                                                         *)
(* Of the main process there is only which files are deleted and how many  *)
(* versions each file has, the last of them on disk. A call is read there  *)
(* at one moment and answered at another; calls may overtake each other,   *)
(* since some wait for the disk or for the diff worker. What an action of  *)
(* the store does between two awaits is one step.                          *)
(***************************************************************************)
EXTENDS Naturals, SequencesExt

CONSTANTS
    FileIds,       (* file ids                                               *)
    Deleted,       (* the files that are deleted when the window opens       *)
    Nothing,       (* null                                                   *)
    MaxCaptures,   (* bound of the model: versions captured                  *)
    MaxClicks,     (* bound of the model: what the user does                 *)
    MaxCalls,      (* bound of the model: calls in flight when a click comes *)
    MaxRefusals    (* bound of the model: calls that end in an error         *)

(* The window opens when each file has two versions.                       *)
Numbers == 1..(2 + MaxCaptures)

Versions == FileIds \X Numbers

(* What follows the selection of a file after a restore: refreshFiles.     *)
Relist == <<"files">>

ASSUME RendererAssumption ==
    /\ Nothing \notin FileIds \cup Versions \cup {Relist} /\ Deleted \subseteq FileIds
    /\ MaxCaptures \in Nat
    /\ MaxClicks \in Nat
    /\ MaxCalls \in Nat
    /\ MaxRefusals \in Nat

VARIABLES
    captures,      (* main: the number of versions of each file              *)
    deleted,       (* main: the files whose status is deleted                *)
    notices,       (* versionCaptured events that are under way              *)
    recorded,      (* main: versions captured so far, against MaxCaptures    *)
    calls,         (* the calls in flight, in the order they were made       *)
    selected,      (* selectedFileId                                         *)
    header,        (* selectedFile: of which file                            *)
    gone,          (* selectedFile: its status is deleted                    *)
    picked,        (* selectedVersionId: a file and a number                 *)
    timeline,      (* a file and how many versions it had, or Nothing        *)
    content,       (* versionContent: of which version                       *)
    mode,          (* viewMode: preview, or how compareWith has it compared  *)
    diff,          (* of which version and how compared                      *)
    diffLoading,
    view,          (* leftView: files, deleted or search                     *)
    files,         (* for which of the two lists                             *)
    filesLoading,
    searching,
    dialog,        (* restoreDialog                                          *)
    recovery,      (* recoverDialog                                          *)
    conflicts,     (* history: versions that main reported a conflict for    *)
    occupied,      (* history: versions whose path main reported as occupied *)
    overtaken,     (* history: an answer came before that of an older call   *)
    clicks,        (* so far, against MaxClicks                              *)
    refusals       (* so far, against MaxRefusals                            *)

mainVars   == <<captures, deleted, notices, recorded>>
fileVars   == <<selected, header, gone, timeline>>
diffView   == <<mode, diff, diffLoading>>
listVars   == <<view, files, filesLoading, searching>>
restoreVars == <<dialog, conflicts>>
recoverVars == <<recovery, occupied>>
dialogVars == <<restoreVars, recoverVars>>
rendererVars == <<mainVars, calls, fileVars, picked, content, diffView, listVars, dialogVars,
                  overtaken, clicks, refusals>>

(* The window when initialize has returned, or when the user has looked at *)
(* a version of the file f and it is all there.                            *)
RendererInit ==
    /\ captures = [f \in FileIds |-> 2] /\ deleted = Deleted /\ notices = <<>>
    /\ recorded = 0 /\ calls = <<>>
    /\ selected \in FileIds \cup {Nothing} /\ header = selected /\ gone = (selected \in Deleted)
    /\ timeline = IF selected = Nothing THEN Nothing ELSE <<selected, 2>>
    /\ picked = IF selected = Nothing THEN Nothing ELSE <<selected, 1>>
    /\ content = picked
    /\ mode = "preview" /\ diff = Nothing /\ diffLoading = FALSE
    /\ view = "files" /\ files = "files" /\ filesLoading = FALSE /\ searching = FALSE
    /\ dialog = Nothing /\ conflicts = {} /\ recovery = Nothing /\ occupied = {}
    /\ overtaken = FALSE /\ clicks = 0 /\ refusals = 0

-----------------------------------------------------------------------------
Clicks ==
    /\ clicks < MaxClicks /\ Len(calls) < MaxCalls
    /\ clicks' = clicks + 1
    /\ UNCHANGED <<overtaken, refusals>>

(* then: what the caller of an action does when its promise settles.       *)
Call(op, of, then) == [op |-> op, of |-> of, then |-> then, got |-> Nothing]
Ask(asked) == calls' = calls \o asked

List == IF view = "deleted" THEN "deleted" ELSE "files"

Refreshed(list) == <<Call("files", list, Nothing)>>

(* loadDiff for version v with mode m.                                     *)
DiffCalls(v, m) ==
    IF m = "preview" \/ v = Nothing THEN <<>> ELSE <<Call("diff", <<v, m>>, Nothing)>>

-----------------------------------------------------------------------------
(* selectFile, from the list or from a search result: selectVersion then   *)
(* follows, whatever has been selected meanwhile.                          *)
SelectFile(f, then) ==
    /\ Clicks
    /\ selected' = f /\ timeline' = Nothing
    /\ picked' = Nothing /\ content' = Nothing /\ diff' = Nothing
    /\ Ask(<<Call("file", f, then)>>)
    /\ UNCHANGED <<mainVars, header, gone, mode, diffLoading, listVars, dialogVars>>

FromList(f) == view # "search" /\ SelectFile(f, Nothing)
FromSearch(f) == view = "search" /\ \E i \in 1..captures[f] : SelectFile(f, <<f, i>>)

(* selectVersion, by a click or an arrow key.                              *)
SelectVersion(i) ==
    /\ timeline # Nothing /\ header # Nothing
    /\ i <= timeline[2] /\ picked # <<timeline[1], i>>
    /\ Clicks
    /\ picked' = <<timeline[1], i>> /\ diff' = Nothing
    /\ Ask(<<Call("version", picked', Nothing)>>)
    /\ UNCHANGED <<mainVars, fileVars, content, mode, diffLoading, listVars, dialogVars>>

NoDialog == dialog = Nothing /\ recovery = Nothing

(* setViewMode and setCompareWith, offered above a file; Escape returns to *)
(* the preview without one.                                                *)
ModeOffered(m) == header # Nothing \/ (m = "preview" /\ NoDialog)

SetMode(m) ==
    /\ mode # m /\ ModeOffered(m) /\ Clicks
    /\ mode' = m
    /\ Ask(DiffCalls(picked, m))
    /\ diffLoading' = (diffLoading \/ DiffCalls(picked, m) # <<>>)
    /\ diff' = IF picked = Nothing /\ m # "preview" THEN Nothing ELSE diff
    /\ UNCHANGED <<mainVars, fileVars, picked, content, listVars, dialogVars>>

SetLeftView(v) ==
    /\ view # v /\ Clicks
    /\ view' = v
    /\ IF v = "search" THEN UNCHANGED <<calls, filesLoading>>
       ELSE Ask(Refreshed(v)) /\ filesLoading' = TRUE
    /\ UNCHANGED <<mainVars, fileVars, picked, content, diffView, files, searching, dialogVars>>

RunSearch ==
    /\ Clicks
    /\ view' = "search" /\ searching' = TRUE
    /\ Ask(<<Call("search", Nothing, Nothing)>>)
    /\ UNCHANGED <<mainVars, fileVars, picked, content, diffView, files, filesLoading, dialogVars>>

SelectVault ==
    /\ Clicks
    /\ Ask(<<Call("vault", Nothing, Nothing)>>)
    /\ UNCHANGED <<mainVars, fileVars, picked, content, diffView, listVars, dialogVars>>

-----------------------------------------------------------------------------
(* A button is there for a version of the timeline that is not current:    *)
(* Recover if the header says that the file is deleted, or else Restore.   *)
Restorable ==
    /\ NoDialog /\ header # Nothing
    /\ picked # Nothing /\ timeline # Nothing
    /\ picked[1] = timeline[1] /\ picked[2] < timeline[2]

OpenRestoreDialog ==
    /\ Restorable /\ ~gone
    /\ Clicks
    /\ IF selected = Nothing
       THEN dialog' = [version |-> picked, expected |-> Nothing, conflict |-> FALSE,
                       busy |-> FALSE, over |-> FALSE] /\ UNCHANGED calls
       ELSE Ask(<<Call("dialog", selected, picked)>>) /\ UNCHANGED dialog
    /\ UNCHANGED <<mainVars, fileVars, picked, content, diffView, listVars, conflicts, recoverVars>>

(* Its buttons wait while it is busy, and confirm nothing once it shows an *)
(* outcome; Escape always closes it.                                       *)
RestoreConfirmable == ~dialog.busy /\ ~dialog.over

CloseRestoreDialog ==
    /\ dialog # Nothing /\ Clicks
    /\ dialog' = Nothing
    /\ UNCHANGED <<mainVars, calls, fileVars, picked, content, diffView, listVars, conflicts,
                   recoverVars>>

ConfirmRestore ==
    /\ dialog # Nothing /\ RestoreConfirmable
    /\ Clicks
    /\ dialog' = [dialog EXCEPT !.busy = TRUE]
    /\ Ask(<<Call("restore", dialog, Nothing)>>)
    /\ UNCHANGED <<mainVars, fileVars, picked, content, diffView, listVars, conflicts,
                   recoverVars>>

(* From the timeline or from a search result; nothing is asked yet.        *)
Recoverable ==
    (IF Restorable /\ gone THEN {picked} ELSE {})
    \cup (IF NoDialog /\ view = "search" /\ ~searching
          THEN {v \in Versions : v[1] \in deleted /\ v[2] < captures[v[1]]} ELSE {})

OpenRecoverDialog ==
    /\ \E v \in Recoverable :
          recovery' = [version |-> v, outcome |-> "none", busy |-> FALSE]
    /\ Clicks
    /\ UNCHANGED <<mainVars, calls, fileVars, picked, content, diffView, listVars, restoreVars,
                   occupied>>

CloseRecoverDialog ==
    /\ recovery # Nothing /\ Clicks
    /\ recovery' = Nothing
    /\ UNCHANGED <<mainVars, calls, fileVars, picked, content, diffView, listVars, restoreVars,
                   occupied>>

(* While the path is occupied its buttons do not wait either: a second     *)
(* click asks for a second recovery.                                       *)
Confirmable == recovery.outcome = "occupied" \/ (recovery.outcome = "none" /\ ~recovery.busy)

ConfirmRecover ==
    /\ recovery # Nothing /\ Confirmable
    /\ Clicks
    /\ recovery' = [recovery EXCEPT !.busy = TRUE]
    /\ Ask(<<Call("recover", recovery, Nothing)>>)
    /\ UNCHANGED <<mainVars, fileVars, picked, content, diffView, listVars, restoreVars, occupied>>

-----------------------------------------------------------------------------
(* Main captures a version of f, which is there then, and tells.           *)
Captures(f) ==
    /\ deleted' = deleted \ {f}
    /\ IF recorded < MaxCaptures
       THEN /\ captures' = [captures EXCEPT ![f] = @ + 1] /\ notices' = Append(notices, f)
            /\ recorded' = recorded + 1
       ELSE UNCHANGED <<captures, notices, recorded>>

Capture(f) ==
    /\ recorded < MaxCaptures
    /\ Captures(f)
    /\ UNCHANGED <<calls, fileVars, picked, content, diffView, listVars, dialogVars, overtaken,
                   clicks, refusals>>

(* onVersionCaptured looks at the selection before it asks, not after.     *)
CapturedAnyFile(f) == Ask(<<Call("captured", f, Nothing)>>)

Captured(f) == Ask(IF selected = f THEN <<Call("captured", f, Nothing)>> ELSE <<>>)

OnVersionCaptured ==
    /\ notices # <<>>
    /\ notices' = Tail(notices)
    /\ Captured(Head(notices))
    /\ UNCHANGED <<captures, deleted, recorded, fileVars, picked, content, diffView, listVars,
                   dialogVars, overtaken, clicks, refusals>>

(* Main looks at the history and the disk for a call.                      *)
Timed == {"file", "captured", "dialog"}

Read(i) ==
    /\ calls[i].op \in Timed /\ calls[i].got = Nothing
    /\ LET f == calls[i].of IN
          calls' = [calls EXCEPT ![i].got = [versions |-> captures[f], deleted |-> f \in deleted]]
    /\ UNCHANGED <<mainVars, fileVars, picked, content, diffView, listVars, dialogVars, overtaken,
                   clicks, refusals>>

(* Restore compares the file with the hash that the dialog showed.         *)
Restore(i) ==
    /\ calls[i].op = "restore" /\ calls[i].got = Nothing
    /\ LET d == calls[i].of  f == d.version[1] IN
       IF ~d.conflict /\ d.expected # <<f, captures[f]>>
       THEN /\ calls' = [calls EXCEPT ![i].got = [conflict |-> TRUE, now |-> captures[f]]]
            /\ conflicts' = conflicts \cup {d.version}
            /\ UNCHANGED mainVars
       ELSE /\ calls' = [calls EXCEPT ![i].got = [conflict |-> FALSE, now |-> captures[f]]]
            /\ Captures(f)
            /\ UNCHANGED conflicts
    /\ UNCHANGED <<fileVars, picked, content, diffView, listVars, dialog, recoverVars, overtaken,
                   clicks, refusals>>

(* A file that is back, or another one, is in the way, unless the user has *)
(* said what to do about it.                                               *)
Recover(i) ==
    /\ calls[i].op = "recover" /\ calls[i].got = Nothing
    /\ LET d == calls[i].of  f == d.version[1] IN
       \/ /\ d.outcome = "none"
          /\ calls' = [calls EXCEPT ![i].got = "occupied"]
          /\ occupied' = occupied \cup {d.version}
          /\ UNCHANGED mainVars
       \/ /\ calls' = [calls EXCEPT ![i].got = "failed"]
          /\ UNCHANGED <<mainVars, occupied>>
       \/ /\ d.outcome = "occupied" \/ f \in deleted
          /\ calls' = [calls EXCEPT ![i].got = "recovered"]
          /\ Captures(f)
          /\ UNCHANGED occupied
    /\ UNCHANGED <<fileVars, picked, content, diffView, listVars, restoreVars, recovery,
                   overtaken, clicks, refusals>>

-----------------------------------------------------------------------------
(* The answers. Those of one kind set the same part of the window.         *)
Kind(c) == IF c.op = "captured" THEN "file" ELSE c.op

Answer(i, next) ==
    /\ calls' = RemoveAt(calls, i) \o next
    /\ overtaken' = (overtaken \/ \E j \in 1..(i - 1) : Kind(calls[j]) = Kind(calls[i]))
    /\ UNCHANGED clicks

Served  == UNCHANGED refusals
Refused == refusals < MaxRefusals /\ refusals' = refusals + 1

(* selectFile settles in any case: what was to follow does.                *)
FileAnswered(i) ==
    LET c == calls[i]  then == c.then IN
    /\ c.op = "file"
    /\ \/ /\ c.got # Nothing /\ Served
          /\ header' = c.of /\ gone' = c.got.deleted /\ timeline' = <<c.of, c.got.versions>>
       \/ Refused /\ UNCHANGED <<header, gone, timeline>>
    /\ Answer(i, CASE then = Nothing -> <<>>
                   [] then = Relist -> Refreshed(List)
                   [] OTHER -> <<Call("version", then, Nothing)>>)
    /\ filesLoading' = (filesLoading \/ then = Relist)
    /\ picked' = IF then \in Versions THEN then ELSE picked
    /\ diff' = IF then \in Versions THEN Nothing ELSE diff
    /\ UNCHANGED <<mainVars, selected, content, mode, diffLoading, view, files, searching,
                   dialogVars>>

CapturedAnswered(i) ==
    /\ calls[i].op = "captured"
    /\ \/ calls[i].got # Nothing /\ Served /\ timeline' = <<calls[i].of, calls[i].got.versions>>
       \/ Refused /\ UNCHANGED timeline
    /\ Answer(i, <<>>)
    /\ UNCHANGED <<mainVars, selected, header, gone, picked, content, diffView, listVars,
                   dialogVars>>

(* The diff is then loaded of the version that is selected by now.         *)
VersionAnswered(i) ==
    /\ calls[i].op = "version"
    /\ \/ /\ Served /\ content' = calls[i].of
          /\ Answer(i, DiffCalls(picked, mode))
          /\ diffLoading' = (diffLoading \/ DiffCalls(picked, mode) # <<>>)
          /\ diff' = IF picked = Nothing /\ mode # "preview" THEN Nothing ELSE diff
       \/ Refused /\ Answer(i, <<>>) /\ UNCHANGED <<content, diff, diffLoading>>
    /\ UNCHANGED <<mainVars, fileVars, picked, mode, listVars, dialogVars>>

DiffRefusedStillLoading == diff' = Nothing /\ UNCHANGED diffLoading

DiffRefused == diff' = Nothing /\ diffLoading' = FALSE

DiffAnswered(i) ==
    /\ calls[i].op = "diff"
    /\ \/ Served /\ diff' = calls[i].of /\ diffLoading' = FALSE
       \/ Refused /\ DiffRefused
    /\ Answer(i, <<>>)
    /\ UNCHANGED <<mainVars, fileVars, picked, content, mode, listVars, dialogVars>>

(* After a recovery the selected file is selected again, as after a        *)
(* restore, whichever it is by now.                                        *)
Reselected ==
    /\ timeline' = Nothing /\ picked' = Nothing /\ content' = Nothing /\ diff' = Nothing
    /\ UNCHANGED <<selected, header, gone>>

FilesAnswered(i) ==
    /\ calls[i].op = "files"
    /\ \/ Served /\ files' = calls[i].of
       \/ Refused /\ UNCHANGED files
    /\ filesLoading' = FALSE
    /\ IF calls[i].then = "select" /\ selected # Nothing
       THEN Answer(i, <<Call("file", selected, Nothing)>>) /\ Reselected
       ELSE Answer(i, <<>>) /\ UNCHANGED <<fileVars, picked, content, diff>>
    /\ UNCHANGED <<mainVars, mode, diffLoading, view, searching, dialogVars>>

SearchAnswered(i) ==
    /\ calls[i].op = "search"
    /\ Served \/ Refused
    /\ searching' = FALSE
    /\ Answer(i, <<>>)
    /\ UNCHANGED <<mainVars, fileVars, picked, content, diffView, view, files, filesLoading,
                   dialogVars>>

(* The version stays selected, but is shown for no file.                   *)
VaultAnswered(i) ==
    /\ calls[i].op = "vault"
    /\ \/ /\ Served
          /\ selected' = Nothing /\ header' = Nothing /\ gone' = FALSE /\ timeline' = Nothing
          /\ Answer(i, Refreshed(List)) /\ filesLoading' = TRUE
       \/ Refused /\ Answer(i, <<>>) /\ UNCHANGED <<fileVars, filesLoading>>
    /\ UNCHANGED <<mainVars, picked, content, diffView, view, files, searching, dialogVars>>

(* A failure to read the file opens the dialog as well.                    *)
DialogAnswered(i) ==
    LET c == calls[i] IN
    /\ c.op = "dialog"
    /\ \E expected \in {Nothing} \cup (IF c.got = Nothing THEN {} ELSE {<<c.of, c.got.versions>>}) :
          /\ IF expected = Nothing THEN Refused ELSE Served
          /\ dialog' = [version |-> c.then, expected |-> expected, conflict |-> FALSE,
                        busy |-> FALSE, over |-> FALSE]
    /\ Answer(i, <<>>)
    /\ UNCHANGED <<mainVars, fileVars, picked, content, diffView, listVars, conflicts,
                   recoverVars>>

-----------------------------------------------------------------------------
(* The dialog becomes what it was when it was confirmed, even if it has    *)
(* been closed or is another one now.                                      *)
InConflictAsShown(d, now) ==
    dialog' = IF dialog = Nothing THEN Nothing
              ELSE [dialog EXCEPT !.busy = FALSE, !.conflict = TRUE,
                                  !.expected = <<d.version[1], now>>]

InConflict(d, now) ==
    dialog' = [d EXCEPT !.busy = FALSE, !.conflict = TRUE, !.expected = <<d.version[1], now>>]

RestoreConflicts(i) ==
    /\ calls[i].op = "restore" /\ calls[i].got # Nothing
    /\ calls[i].got.conflict
    /\ InConflict(calls[i].of, calls[i].got.now)
    /\ Served /\ Answer(i, <<>>)
    /\ UNCHANGED <<mainVars, fileVars, picked, content, diffView, listVars, conflicts,
                   recoverVars>>

Outcome(d) == [d EXCEPT !.busy = FALSE, !.over = TRUE]

(* The selected file is selected again, whichever it is by now.            *)
RestoreDone(i) ==
    /\ calls[i].op = "restore" /\ calls[i].got # Nothing
    /\ ~calls[i].got.conflict
    /\ dialog' = Outcome(calls[i].of)
    /\ Served
    /\ IF selected = Nothing
       THEN /\ Answer(i, Refreshed(List)) /\ filesLoading' = TRUE
            /\ UNCHANGED <<fileVars, picked, content, diff>>
       ELSE /\ Answer(i, <<Call("file", selected, Relist)>>)
            /\ Reselected
            /\ UNCHANGED filesLoading
    /\ UNCHANGED <<mainVars, mode, diffLoading, view, files, searching, conflicts, recoverVars>>

RestoreRefused(i) ==
    /\ calls[i].op = "restore"
    /\ dialog' = [calls[i].of EXCEPT !.busy = FALSE]
    /\ Refused /\ Answer(i, <<>>)
    /\ UNCHANGED <<mainVars, fileVars, picked, content, diffView, listVars, conflicts, recoverVars>>

(* The dialog is back as well, with what it has come to.                   *)
RecoverAnswered(i) ==
    LET c == calls[i] IN
    /\ c.op = "recover" /\ c.got # Nothing
    /\ recovery' = [c.of EXCEPT !.busy = FALSE, !.outcome = c.got]
    /\ Served
    /\ Answer(i, <<Call("files", List, IF c.got = "recovered" THEN "select" ELSE Nothing)>>)
    /\ filesLoading' = TRUE
    /\ UNCHANGED <<mainVars, fileVars, picked, content, diffView, view, files, searching,
                   restoreVars, occupied>>

RecoverRefused(i) ==
    /\ calls[i].op = "recover"
    /\ recovery' = [calls[i].of EXCEPT !.busy = FALSE]
    /\ Refused /\ Answer(i, <<>>)
    /\ UNCHANGED <<mainVars, fileVars, picked, content, diffView, listVars, restoreVars, occupied>>

-----------------------------------------------------------------------------
RendererNext ==
    \/ \E f \in FileIds : FromList(f) \/ FromSearch(f) \/ Capture(f)
    \/ \E i \in Numbers : SelectVersion(i)
    \/ \E m \in {"preview", "previous", "current"} : SetMode(m)
    \/ \E v \in {"files", "deleted", "search"} : SetLeftView(v)
    \/ RunSearch \/ SelectVault
    \/ OpenRestoreDialog \/ CloseRestoreDialog \/ ConfirmRestore
    \/ OpenRecoverDialog \/ CloseRecoverDialog \/ ConfirmRecover
    \/ OnVersionCaptured
    \/ \E i \in DOMAIN calls :
          \/ Read(i) \/ Restore(i) \/ Recover(i)
          \/ FileAnswered(i) \/ CapturedAnswered(i) \/ VersionAnswered(i) \/ DiffAnswered(i)
          \/ FilesAnswered(i) \/ SearchAnswered(i) \/ VaultAnswered(i) \/ DialogAnswered(i)
          \/ RestoreConflicts(i) \/ RestoreDone(i) \/ RestoreRefused(i)
          \/ RecoverAnswered(i) \/ RecoverRefused(i)

RendererSpec == RendererInit /\ [][RendererNext]_rendererVars

-----------------------------------------------------------------------------
RendererTypeOK ==
    /\ captures \in [FileIds -> Numbers]
    /\ selected \in FileIds \cup {Nothing} /\ header \in FileIds \cup {Nothing}
    /\ picked \in Versions \cup {Nothing} /\ content \in Versions \cup {Nothing}
    /\ timeline \in Versions \cup {Nothing}
    /\ mode \in {"preview", "previous", "current"} /\ view \in {"files", "deleted", "search"}
    /\ files \in {"files", "deleted"}
    /\ dialog # Nothing => dialog.version \in Versions /\ ~(dialog.busy /\ dialog.over)
    /\ recovery # Nothing => recovery.version \in Versions
    /\ deleted \subseteq Deleted /\ gone \in BOOLEAN

InFlight(op) == \E i \in DOMAIN calls : calls[i].op = op

(* Once everything is answered, what the window shows is what the user has *)
(* selected, and no captured version is missing (appStore.ts:254, 263,     *)
(* 457): as long as answers of one kind come in the order of their calls   *)
(* and none is an error.                                                   *)
ShowsSelection ==
    calls = <<>> /\ notices = <<>> /\ ~overtaken /\ refusals = 0 =>
        /\ selected # Nothing => header = selected /\ timeline = <<selected, captures[selected]>>
        /\ picked # Nothing => content = picked
        /\ picked # Nothing /\ mode # "preview" => diff = <<picked, mode>>
        /\ view # "search" => files = view

(* No spinner outlives its calls and no restore dialog stays locked,       *)
(* whatever overtakes what and whatever fails (appStore.ts:214, 315, 347,  *)
(* 480).                                                                   *)
NothingSpins ==
    /\ diffLoading => InFlight("diff")
    /\ filesLoading => InFlight("files")
    /\ searching => InFlight("search")
    /\ dialog # Nothing /\ dialog.busy => InFlight("restore")
    /\ recovery # Nothing /\ recovery.busy => InFlight("recover")

(* A restore is never forced (appStore.ts:336, Dialogs.tsx:52) for another *)
(* version than one that the main process has reported a conflict for,     *)
(* though the dialog may be closed and opened while a restore is under way.*)
ForcedAfterConflict ==
    /\ dialog # Nothing /\ dialog.conflict => dialog.version \in conflicts
    /\ recovery # Nothing /\ recovery.outcome = "occupied" => recovery.version \in occupied
=============================================================================
