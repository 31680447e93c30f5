------------------------------ MODULE Restore ------------------------------
(***************************************************************************)
(* src/main/restore/restoreService.ts beside everything in Tracking: the   *)
(* only part of the program that writes to the folder. A call looks at the *)
(* disk, records what it is about to replace, writes, and records what it  *)
(* wrote, with an await between any two of these. The user goes on         *)
(* editing, the queue and the reconciliation go on recording.              *)
(*                                                                         *)
(* One call is under way at a time. Stored bytes pass their verification,  *)
(* and destinations are inside of the folder.                              *)
(***************************************************************************)
EXTENDS Tracking

CONSTANT MaxJobs     (* bound of the model: dialogs opened                   *)

(* What a version says of its file; that of one which the program wrote    *)
(* has the time of whatever is at the path by then.                        *)
Bytes == [ino : Nat, text : Texts, mtime : Nat \cup {None}]

ASSUME RestoreAssumption ==
    /\ MaxJobs \in Nat
    /\ MaxFiles > 1
    /\ \E t, u \in Texts : t # u
    /\ None \notin Bytes \cup [file : Files, doc : Bytes]
                    \cup [path : Paths, doc : Bytes \cup {None}]

VARIABLES
    job,        (* the dialog, and the call that it made                     *)
    jobs,       (* dialogs opened so far                                     *)
    kept,       (* texts in the timeline of a row                            *)
    calm        (* a reconciliation goes on that nothing has disturbed       *)

jobVars == <<job, jobs, kept, calm>>

NoJob == [step |-> "none"]

(* What the call writes: a new file with a new mtime.                      *)
Stamp == MaxEdits + jobs
Written == [ino |-> Stamp, text |-> job.text, mtime |-> Stamp]

(* captureBytes stores no inode.                                           *)
WithoutInode(text, mtime) == [ino |-> 0, text |-> text, mtime |-> mtime]

TextAt(p) == IF disk[p] = None THEN None ELSE disk[p].text

(* currentPath of a row.                                                   *)
Home(f) == CHOOSE p \in Paths : tracked[p] = f \/ f \in ToSet(graves[p])

IsActive(f) == tracked[Home(f)] = f

(* A folder at rest. Its first note has several versions; it is there, or  *)
(* was deleted since, or another note has taken its path. One text is new. *)
First == CHOOSE t \in Texts : TRUE
New   == CHOOSE t \in Texts : t # First

FolderInit ==
    \E p \in Paths, there \in {"note", "nothing", "another"} :
        LET doc(n)  == [ino |-> n, text |-> First, mtime |-> n]
            at(x)   == [q \in Paths |-> IF q = p THEN x ELSE None]
        IN  /\ disk = at(CASE there = "note" -> doc(1) [] there = "nothing" -> None
                           [] there = "another" -> doc(2))
            /\ tracked = at(CASE there = "note" -> 1 [] there = "nothing" -> None
                              [] there = "another" -> 2)
            /\ graves = [q \in Paths |-> IF q = p /\ there # "note" THEN <<1>> ELSE <<>>]
            /\ last = [f \in Files |-> IF f = 1 THEN doc(1)
                                       ELSE IF f = 2 /\ there = "another" THEN doc(2) ELSE None]
            /\ entombed = IF there = "note" THEN {} ELSE {1}
            /\ edits = 2 /\ failures = 0

RestoreInit ==
    /\ FolderInit /\ AtRest
    /\ job = NoJob
    /\ jobs = 0
    /\ calm = FALSE
    /\ kept = [f \in Files |-> IF f = 1 THEN Texts \ {New}
                               ELSE IF last[f] = None THEN {} ELSE {last[f].text}]

-----------------------------------------------------------------------------
(* The version appended by a step, if any, adds its text to the timeline.  *)
Keep == kept' = [f \in Files |-> IF last'[f] = None THEN {} ELSE kept[f] \cup {last'[f].text}]

Unmoved == UNCHANGED <<noticed, queueVars, held, sweepVars>>

Proceed(step) == job' = [job EXCEPT !.step = step]

Return == job' = NoJob

(* The user opens a dialog for a version. For an active row it shows what  *)
(* is on disk (openRestoreDialog), for a deleted one it does not.          *)
OpenDialog(f, text) ==
    /\ job = NoJob /\ jobs < MaxJobs
    /\ f \in Used /\ text \in kept[f]
    /\ jobs' = jobs + 1
    /\ job' = [step |-> "dialog", kind |-> IF IsActive(f) THEN "restore" ELSE "recover",
               file |-> f, text |-> text, path |-> Home(f), home |-> Home(f),
               expected |-> IF IsActive(f) THEN TextAt(Home(f)) ELSE None, force |-> FALSE,
               onConflict |-> None, occupant |-> None, doc |-> None]
    /\ UNCHANGED <<vars, kept>>

(* The user confirms; the call finds the path the row has now.             *)
BeginRestore ==
    /\ job.step = "dialog" /\ job.kind = "restore"
    /\ job' = [job EXCEPT !.step = "read", !.path = Home(job.file), !.home = Home(job.file)]
    /\ UNCHANGED <<vars, jobs, kept>>

(* Only a call that found the path occupied makes the dialog offer another *)
(* name, or to replace what is there.                                      *)
Offers == IF job.onConflict = None THEN {"fail"} ELSE {"rename", "replace"}

BeginRecover ==
    /\ job.step = "dialog" /\ job.kind = "recover"
    /\ \E how \in Offers :
          job' = [job EXCEPT !.step = "look", !.onConflict = how,
                             !.path = Home(job.file), !.home = Home(job.file)]
    /\ UNCHANGED <<vars, jobs, kept>>

-----------------------------------------------------------------------------
(* restore: readCurrent answers. A file that is not the one the dialog     *)
(* showed goes back to the user, who may insist.                           *)
ShownInDialog(f, doc) == doc = None \/ doc.text = job.expected

InHistory(f, doc) == doc = None \/ last[f].text = doc.text

Conflicts == ~job.force /\ TextAt(job.path) # job.expected

Conflict ==
    /\ job.step = "read" /\ Conflicts
    /\ job' = [job EXCEPT !.step = "dialog", !.force = TRUE, !.expected = TextAt(job.path)]
    /\ UNCHANGED <<vars, jobs, kept>>

Identical ==
    /\ job.step = "read" /\ ~Conflicts
    /\ TextAt(job.path) = job.text
    /\ Return
    /\ UNCHANGED <<vars, jobs, kept>>

ReadCurrent ==
    /\ job.step = "read" /\ ~Conflicts
    /\ TextAt(job.path) # job.text
    /\ job' = [job EXCEPT !.doc = disk[job.path],
                  !.step = IF InHistory(job.file, disk[job.path]) THEN "space" ELSE "keep"]
    /\ UNCHANGED <<vars, jobs, kept>>

(* captureBytes: a version for a row in whatever state it is. Its row is   *)
(* now the one that was updated last.                                      *)
CaptureBytes(f, doc) ==
    /\ Commit(f, doc)
    /\ graves' = [p \in Paths |-> IF f \in ToSet(graves[p]) THEN Append(RemoveFirst(graves[p], f), f)
                                  ELSE graves[p]]
    /\ UNCHANGED tracked

KeepCurrent ==
    /\ job.step = "keep"
    /\ CaptureBytes(job.file, WithoutInode(job.doc.text, job.doc.mtime))
    /\ Keep
    /\ Proceed("space")
    /\ UNCHANGED <<diskVars, jobs>> /\ Unmoved

NoSpace ==
    /\ job.step = "space" /\ job.kind = "restore"
    /\ Return
    /\ UNCHANGED <<vars, jobs, kept>>

(* The last check before the write has passed: suppressWatcher.            *)
Suppress ==
    /\ job.step = "space"
    /\ timer' = [timer EXCEPT ![job.path] = None]
    /\ Proceed("write")
    /\ UNCHANGED <<diskVars, rowVars, noticed, task, parked, held, sweepVars, jobs, kept>>

-----------------------------------------------------------------------------
(* recoverDeleted: is the path occupied?                                   *)
LookFree ==
    /\ job.step = "look" /\ disk[job.path] = None
    /\ Proceed("space")
    /\ UNCHANGED <<vars, jobs, kept>>

LookOccupied ==
    /\ job.step = "look" /\ disk[job.path] # None
    /\ CASE job.onConflict = "fail"    -> Proceed("dialog")
         [] job.onConflict = "rename"  -> Proceed("name")
         [] job.onConflict = "replace" -> Proceed("peek")
    /\ UNCHANGED <<vars, jobs, kept>>

(* A name that is free now; the call ends where the model has none.        *)
FindFreeName ==
    /\ job.step = "name"
    /\ \/ \E p \in Paths : disk[p] = None /\ job' = [job EXCEPT !.step = "space", !.path = p]
       \/ (\A p \in Paths : disk[p] # None) /\ Return
    /\ UNCHANGED <<vars, jobs, kept>>

(* A row other than the recovered one is active at the path.               *)
AnyDisplaced == tracked[job.path] # None

Displaced == tracked[job.path] \notin {None, job.file}

Peek ==
    /\ job.step = "peek"
    /\ job' = IF disk[job.path] # None /\ Displaced
              THEN [job EXCEPT !.step = "displace", !.doc = disk[job.path],
                               !.occupant = tracked[job.path]]
              ELSE [job EXCEPT !.step = "space", !.doc = disk[job.path]]
    /\ UNCHANGED <<vars, jobs, kept>>

(* The occupant's bytes are a version of its row; then the row that is at  *)
(* the path by now is buried. Two statements with no other code between.   *)
Displace ==
    LET doc     == WithoutInode(job.doc.text, job.doc.mtime)
        f       == job.occupant
        topless == entombed \ {f}
        buried  == {p \in {job.path} : tracked[p] # None /\ tracked[p] \notin topless}
    IN  /\ job.step = "displace"
        /\ last' = [last EXCEPT ![f] = doc]
        /\ graves' = [p \in Paths |->
              LET rows == IF f \in ToSet(graves[p]) THEN Append(RemoveFirst(graves[p], f), f)
                          ELSE graves[p]
              IN  IF p \in buried THEN Append(rows, tracked[p]) ELSE rows]
        /\ tracked' = [p \in Paths |-> IF p \in buried THEN None ELSE tracked[p]]
        /\ entombed' = topless \cup {tracked[p] : p \in buried}
        /\ Keep
        /\ Proceed("space")
        /\ UNCHANGED <<diskVars, jobs>> /\ Unmoved

-----------------------------------------------------------------------------
(* atomicWriteFile: a temporary file, renamed over the destination.        *)
WriteFails ==
    /\ job.step = "write"
    /\ Return
    /\ UNCHANGED <<vars, jobs, kept>>

WriteLands ==
    /\ job.step = "write"
    /\ disk' = [disk EXCEPT ![job.path] = Written]
    /\ Proceed(IF job.kind = "restore" THEN "stat" ELSE "activate")
    /\ UNCHANGED <<edits, failures, rowVars, noticed, queueVars, held, sweepVars, jobs, kept>>

(* fs.stat answers, with the mtime of whatever is there by now.            *)
Stat ==
    /\ job.step = "stat"
    /\ job' = [job EXCEPT !.step = IF job.kind = "restore" THEN "activate" ELSE "record",
                          !.doc = WithoutInode(job.text, IF disk[job.path] = None THEN None
                                                         ELSE disk[job.path].mtime)]
    /\ UNCHANGED <<vars, jobs, kept>>

(* A path that was chosen for the file becomes the path of its row.        *)
Target == IF job.path = job.home THEN Home(job.file) ELSE job.path

AfterActivation ==
    IF job.kind = "restore" THEN Proceed("record") ELSE Proceed("stat")

(* setPath and setStatus.                                                  *)
Activate ==
    /\ job.step = "activate"
    /\ tracked[Target] \in {None, job.file}
    /\ tracked' = [p \in Paths |-> IF p = Target THEN job.file
                                   ELSE IF tracked[p] = job.file THEN None ELSE tracked[p]]
    /\ graves' = [p \in Paths |-> RemoveFirst(graves[p], job.file)]
    /\ AfterActivation
    /\ UNCHANGED <<diskVars, last, entombed, jobs, kept>> /\ Unmoved

(* The index on active paths refuses the row. A deleted row that gets      *)
(* another path has it by then, and was updated last.                      *)
ActivateThrows ==
    /\ job.step = "activate"
    /\ tracked[Target] \notin {None, job.file}
    /\ graves' = IF IsActive(job.file) \/ job.path = job.home THEN graves
                 ELSE [p \in Paths |-> IF p = Target THEN Append(RemoveFirst(graves[p], job.file), job.file)
                                       ELSE RemoveFirst(graves[p], job.file)]
    /\ Return
    /\ UNCHANGED <<diskVars, tracked, last, entombed, jobs, kept>> /\ Unmoved

RecordWritten ==
    /\ job.step = "record"
    /\ CaptureBytes(job.file, job.doc)
    /\ Keep
    /\ Return
    /\ UNCHANGED <<diskVars, jobs>> /\ Unmoved

-----------------------------------------------------------------------------
Dialogs ==
    \/ \E f \in Files, text \in Texts : OpenDialog(f, text)
    \/ BeginRestore \/ BeginRecover

CallGoesOn ==
    \/ Conflict \/ Identical \/ ReadCurrent \/ KeepCurrent \/ NoSpace \/ Suppress
    \/ LookFree \/ LookOccupied \/ FindFreeName \/ Peek \/ Displace
    \/ WriteFails \/ WriteLands \/ Stat \/ Activate \/ ActivateThrows \/ RecordWritten

(* A reconciliation begins when no event waits to be acted upon; Tracking  *)
(* has those that do not.                                                  *)
Quiet == \A p \in Paths : noticed[p] = disk[p] /\ timer[p] = None /\ task[p] = Idle

Beside == Next /\ (Sweep => Quiet)

Calm == calm' = IF Sweep THEN job = NoJob ELSE calm /\ disk' = disk /\ job' = job

RestoreNext ==
    /\ \/ Beside /\ Keep /\ UNCHANGED <<job, jobs>>
       \/ Dialogs
       \/ CallGoesOn
    /\ Calm

allVars == <<vars, jobVars>>

RestoreSpec == RestoreInit /\ [][RestoreNext]_allVars

-----------------------------------------------------------------------------
RestoreTypeOK ==
    /\ job.step \in {"none", "dialog", "read", "keep", "space", "look", "name", "peek",
                     "displace", "write", "stat", "activate", "record"}
    /\ job.step \in {"keep", "displace"} => job.doc # None
    /\ job.step = "displace" => job.occupant \in Used \ {job.file}
    /\ jobs \in 0..MaxJobs
    /\ \A f \in Files : kept[f] \subseteq Texts /\ (f \in Used => last[f].text \in kept[f])

(* A restore can be undone: unless the file changed after the call had     *)
(* read it, what it overwrites is in the timeline of the restored note.    *)
Undoable == [][
    WriteLands /\ job.kind = "restore" /\ disk[job.path] # None /\ disk[job.path] = job.doc
    => disk[job.path].text \in kept[job.file]]_allVars

(* An explicit replacement records what it replaces, in some timeline.     *)
ReplacedIsKept == [][
    WriteLands /\ job.onConflict = "replace" /\ disk[job.path] # None /\ disk[job.path] = job.doc
    => \E f \in Used : disk[job.path].text \in kept[f]]_allVars

(* The reconciliation compares sizes and mtimes. The text that a call      *)
(* recorded has the mtime of whatever was at the path by then: an edit of  *)
(* the user that left the size alone is not to be told from it.            *)
Disguised(p) ==
    /\ disk[p] # None /\ tracked[p] # None
    /\ last[tracked[p]].mtime = disk[p].mtime
    /\ SameSize(last[tracked[p]].text, disk[p].text)

(* However a call ended, and whatever event it suppressed: where reads     *)
(* succeed, a reconciliation that is not disturbed brings the store up to  *)
(* date at every path, but where an edit of the same size came between     *)
(* the write of a call and the mtime it recorded (restoreService.ts:120,   *)
(* reconciler.ts:76).                                                      *)
SweepMends == [][calm /\ SweepBuries =>
    \A p \in Paths : (InSyncAt(p) \/ Disguised(p))']_allVars
=============================================================================
