------------------------------ MODULE Tracking ------------------------------
(***************************************************************************)
(* src/main/vault/vaultCoordinator.ts, src/main/capture/reconciler.ts and  *)
(* src/main/capture/renameCorrelator.ts: the two ways by which the store   *)
(* follows the disk, and which know nothing of each other. File system     *)
(* events go through the queue, which works on a path one task at a time;  *)
(* reconciliation walks the whole folder beside it. Every await lets the   *)
(* user, the events, the queue and the reconciler move.                    *)
(*                                                                         *)
(* Of the queue there is a timer, a task in flight and a parked task for   *)
(* each path; CaptureQueue has its slots, which two paths never exhaust.   *)
(* Time is left out: timers fire, and held deletions expire, at any        *)
(* moment. A read succeeds, finds the file missing, or fails although the  *)
(* file is there.                                                          *)
(***************************************************************************)
EXTENDS Vault

(* The order in which a scan comes to some paths.                          *)
Walk(ps) == SetToSeq(ps)

Kinds == {"capture", "delete"}

(* What is remembered of a deletion: the row and what it said.             *)
Entries == [file : Files, doc : Docs]

ASSUME TrackingAssumption == None \notin Kinds \cup Entries

VARIABLES
    noticed,    (* what the watcher library saw last at a path               *)
    timer,      (* the kind of task a path's timer is armed for, or None     *)
    task,       (* the execution of a path's task: what it waits for         *)
    parked,     (* the kind of task to run after the one in flight, or None  *)
    held,       (* the correlator's entry for a path, or None                *)
    phase,      (* of the reconciliation                                     *)
    todo,       (* paths the current phase has still to come to              *)
    found,      (* files as the scan listed them; None: not listed           *)
    item        (* the capture the reconciliation waits for, or None         *)

queueVars == <<timer, task, parked>>
sweepVars == <<phase, todo, found, item>>
vars == <<diskVars, rowVars, noticed, queueVars, held, sweepVars>>

Idle == [step |-> "idle", doc |-> None]

(* Nothing waits to be done.                                               *)
AtRest ==
    /\ noticed = disk
    /\ timer = [p \in Paths |-> None]
    /\ task = [p \in Paths |-> Idle]
    /\ parked = [p \in Paths |-> None]
    /\ held = [p \in Paths |-> None]
    /\ phase = "none"
    /\ todo = <<>>
    /\ found = [p \in Paths |-> None]
    /\ item = None

Init == VaultInit /\ AtRest

UserEdits == User /\ UNCHANGED <<rowVars, noticed, queueVars, held, sweepVars>>

-----------------------------------------------------------------------------
(* registerPendingDeletion: an entry that is there already is kept.        *)
HoldUntracked(p) ==
    IF held[p] # None THEN held
    ELSE [held EXCEPT ![p] = [file |-> tracked[p], doc |-> disk[p]]]

HoldLater(p) == held

Hold(p) ==
    IF held[p] # None \/ tracked[p] = None THEN held
    ELSE [held EXCEPT ![p] = [file |-> tracked[p], doc |-> last[tracked[p]]]]

Release(p) == held' = [held EXCEPT ![p] = None]

(* queue.touch and queue.markDeleted: the newest event decides the kind.   *)
Schedule(p, kind) == timer' = [timer EXCEPT ![p] = kind]

(* The watcher library finds a path changed and reports it: onEvent.       *)
NoticeUpsert(p) ==
    /\ disk[p] # None /\ noticed[p] # disk[p]
    /\ noticed' = [noticed EXCEPT ![p] = disk[p]]
    /\ Schedule(p, "capture")
    /\ UNCHANGED <<diskVars, rowVars, task, parked, held, sweepVars>>

NoticeUnlink(p) ==
    /\ disk[p] = None /\ noticed[p] # None
    /\ noticed' = [noticed EXCEPT ![p] = None]
    /\ held' = Hold(p)
    /\ Schedule(p, "delete")
    /\ UNCHANGED <<diskVars, rowVars, task, parked, sweepVars>>

(* The correlation window of an entry ends; nothing is committed.          *)
Expire(p) ==
    /\ held[p] # None
    /\ Release(p)
    /\ UNCHANGED <<diskVars, rowVars, noticed, queueVars, sweepVars>>

-----------------------------------------------------------------------------
Await(step, doc) == [step |-> step, doc |-> doc]

(* A task begins: captureFromDisk awaits the read, handleDeletion looks up *)
(* its file.                                                               *)
Begin(kind) ==
    CASE kind = None      -> Idle
      [] kind = "capture" -> Await("read", None)
      [] kind = "delete"  -> Await("lookup", None)

TimerFires(p) ==
    /\ timer[p] # None
    /\ timer' = [timer EXCEPT ![p] = None]
    /\ IF task[p] = Idle
       THEN task' = [task EXCEPT ![p] = Begin(timer[p])] /\ UNCHANGED parked
       ELSE parked' = [parked EXCEPT ![p] = timer[p]] /\ UNCHANGED task
    /\ UNCHANGED <<diskVars, rowVars, noticed, held, sweepVars>>

Goes(p, step, doc) ==
    /\ task' = [task EXCEPT ![p] = Await(step, doc)]
    /\ UNCHANGED parked

(* The task is over and the one parked behind it begins.                   *)
Ends(p) ==
    /\ task' = [task EXCEPT ![p] = Begin(parked[p])]
    /\ parked' = [parked EXCEPT ![p] = None]

(* readStable: a file that is missing is a candidate for deletion.         *)
ReadMissing(p) ==
    /\ task[p].step = "read"
    /\ disk[p] = None
    /\ Schedule(p, "delete")
    /\ Ends(p)
    /\ UNCHANGED <<diskVars, rowVars, noticed, held, sweepVars>>

(* Any other error is recorded with the files that were skipped.           *)
ReadFails(p) ==
    /\ task[p].step = "read"
    /\ Unreadable(p)
    /\ Ends(p)
    /\ UNCHANGED <<rowVars, noticed, timer, held, sweepVars>>

ReadBytes(p) ==
    /\ task[p].step = "read"
    /\ disk[p] # None
    /\ Goes(p, "record", disk[p])
    /\ UNCHANGED <<diskVars, rowVars, noticed, timer, held, sweepVars>>

(* RenameCorrelator.claim: an entry with the inode, or else the only entry *)
(* with the text.                                                          *)
SameInode(doc) == {q \in Paths : held[q] # None /\ held[q].doc.ino = doc.ino}

SameText(doc) == {q \in Paths : held[q] # None /\ held[q].doc.text = doc.text}

Claimable(doc) ==
    IF SameInode(doc) # {} THEN SameInode(doc)
    ELSE {q \in SameText(doc) : SameText(doc) = {q}}

RecordBytes(p) ==
    /\ task[p].step = "record"
    /\ tracked[p] # None \/ Claimable(task[p].doc) = {}
    /\ Record(p, task[p].doc)
    /\ Ends(p)
    /\ UNCHANGED <<diskVars, noticed, timer, held, sweepVars>>

RecordRename(p) ==
    /\ task[p].step = "record"
    /\ \E q \in Claimable(task[p].doc) :
          RecordClaimed(held[q].file, p, task[p].doc) /\ Release(q)
    /\ Ends(p)
    /\ UNCHANGED <<diskVars, noticed, timer, sweepVars>>

-----------------------------------------------------------------------------
(* handleDeletion: nothing is tracked here, the entry is of no more use.   *)
DeleteUntracked(p) ==
    /\ task[p].step = "lookup"
    /\ tracked[p] = None
    /\ Release(p)
    /\ Ends(p)
    /\ UNCHANGED <<diskVars, rowVars, noticed, timer, sweepVars>>

DeleteTracked(p) ==
    /\ task[p].step = "lookup"
    /\ tracked[p] # None
    /\ Goes(p, "access", None)
    /\ UNCHANGED <<diskVars, rowVars, noticed, timer, held, sweepVars>>

(* fs.access answers.                                                      *)
Access(p) ==
    /\ task[p].step = "access"
    /\ Goes(p, IF disk[p] = None THEN "gone" ELSE "back", None)
    /\ UNCHANGED <<diskVars, rowVars, noticed, timer, held, sweepVars>>

(* Whatever the error of fs.access, the file is taken to be gone.          *)
AccessFails(p) ==
    /\ task[p].step = "access"
    /\ Unreadable(p)
    /\ Goes(p, "gone", None)
    /\ UNCHANGED <<rowVars, noticed, timer, held, sweepVars>>

FileIsBack(p) ==
    /\ task[p].step = "back"
    /\ Release(p)
    /\ Schedule(p, "capture")
    /\ Ends(p)
    /\ UNCHANGED <<diskVars, rowVars, noticed, sweepVars>>

FileIsGone(p) ==
    /\ task[p].step = "gone"
    /\ Release(p)
    /\ Bury(p)
    /\ Ends(p)
    /\ UNCHANGED <<diskVars, noticed, timer, sweepVars>>

-----------------------------------------------------------------------------
(* reconcile() -> reconcileVault: one at a time, by timer or wake-up.      *)
Sweep ==
    /\ phase = "none"
    /\ phase' = "scan"
    /\ todo' = Walk(Paths)
    /\ UNCHANGED <<diskVars, rowVars, noticed, queueVars, held, found, item>>

(* scanVault comes to the paths one after another.                         *)
Scan ==
    /\ phase = "scan" /\ todo # <<>>
    /\ found' = [found EXCEPT ![Head(todo)] = disk[Head(todo)]]
    /\ todo' = Tail(todo)
    /\ UNCHANGED <<diskVars, rowVars, noticed, queueVars, held, phase, item>>

(* A directory that cannot be listed or a file that cannot be looked at is *)
(* left out.                                                               *)
ScanFails ==
    /\ phase = "scan" /\ todo # <<>>
    /\ Unreadable(Head(todo))
    /\ todo' = Tail(todo)
    /\ UNCHANGED <<rowVars, noticed, queueVars, held, phase, found, item>>

ScanEnds ==
    /\ phase = "scan" /\ todo = <<>>
    /\ phase' = "capture"
    /\ todo' = Walk({p \in Paths : found[p] # None})
    /\ UNCHANGED <<diskVars, rowVars, noticed, queueVars, held, found, item>>

(* The size and the mtime that were listed are compared with those of the  *)
(* version recorded last; the text is not.                                 *)
TakenForUnchanged(p) == tracked[p] # None

SameTime(p) == tracked[p] # None /\ last[tracked[p]].mtime = found[p].mtime

UnchangedOnDisk(p) ==
    /\ tracked[p] # None
    /\ last[tracked[p]].mtime = found[p].mtime
    /\ SameSize(last[tracked[p]].text, found[p].text)

Visit ==
    /\ phase = "capture" /\ todo # <<>> /\ item = None
    /\ todo' = Tail(todo)
    /\ item' = IF UnchangedOnDisk(Head(todo)) THEN None
               ELSE [path |-> Head(todo), doc |-> None]
    /\ UNCHANGED <<diskVars, rowVars, noticed, queueVars, held, phase, found>>

(* captureFromDisk without a correlator: what it finds missing is left to  *)
(* the next reconciliation.                                                *)
VisitReads ==
    /\ item # None /\ item.doc = None
    /\ item' = IF disk[item.path] = None THEN None
               ELSE [item EXCEPT !.doc = disk[item.path]]
    /\ UNCHANGED <<diskVars, rowVars, noticed, queueVars, held, phase, todo, found>>

VisitFails ==
    /\ item # None /\ item.doc = None
    /\ Unreadable(item.path)
    /\ item' = None
    /\ UNCHANGED <<rowVars, noticed, queueVars, held, phase, todo, found>>

VisitRecords ==
    /\ item # None /\ item.doc # None
    /\ Record(item.path, item.doc)
    /\ item' = None
    /\ UNCHANGED <<diskVars, noticed, queueVars, held, phase, todo, found>>

(* Phase 3 has no await: every active row whose path was not listed is     *)
(* buried at once.                                                         *)
Lost == {p \in Paths : found[p] = None /\ MayBury(p)}

SweepBuries ==
    /\ phase = "capture" /\ todo = <<>> /\ item = None
    /\ BuryAll(Lost)
    /\ phase' = "none"
    /\ found' = [p \in Paths |-> None]
    /\ UNCHANGED <<diskVars, noticed, queueVars, held, todo, item>>

-----------------------------------------------------------------------------
Notice(p) == NoticeUpsert(p) \/ NoticeUnlink(p)

Continue(p) ==
    \/ ReadMissing(p) \/ ReadFails(p) \/ ReadBytes(p)
    \/ RecordBytes(p) \/ RecordRename(p)
    \/ DeleteUntracked(p) \/ DeleteTracked(p)
    \/ Access(p) \/ AccessFails(p) \/ FileIsBack(p) \/ FileIsGone(p)

Reconcile ==
    \/ Sweep \/ Scan \/ ScanFails \/ ScanEnds
    \/ Visit \/ VisitReads \/ VisitFails \/ VisitRecords
    \/ SweepBuries

Next ==
    \/ UserEdits
    \/ \E p \in Paths : Notice(p) \/ Expire(p) \/ TimerFires(p) \/ Continue(p)
    \/ Reconcile

Spec == Init /\ [][Next]_vars

-----------------------------------------------------------------------------
TypeOK ==
    /\ VaultTypeOK
    /\ noticed \in [Paths -> Docs \cup {None}]
    /\ timer \in [Paths -> Kinds \cup {None}]
    /\ parked \in [Paths -> Kinds \cup {None}]
    /\ \A p \in Paths :
          /\ task[p].step \in {"idle", "read", "record", "lookup", "access", "back", "gone"}
          /\ task[p].doc \in (IF task[p].step = "record" THEN Docs ELSE {None})
          /\ held[p] # None => held[p].file \in Used /\ held[p].doc \in Docs
    /\ phase \in {"none", "scan", "capture"}
    /\ ToSet(todo) \subseteq Paths
    /\ found \in [Paths -> Docs \cup {None}]
    /\ item # None => item.path \in Paths /\ item.doc \in Docs \cup {None}

(* Once the user rests and reads succeed, the store comes to say what the  *)
(* disk says, and stays with it, also where a file that could not be read  *)
(* was taken for deleted (scanner.ts:51, captureService.ts:121).           *)
Converges == <>[]InSync

(* A read that fails is never a deletion: a file that lies on the disk as  *)
(* it was recorded last is not buried, whether it can be read or not.      *)
Buried(p) == tracked[p] # None /\ tracked'[p] = None /\ graves'[p] # graves[p]

ReadFailureIsNoDeletion == [][\A p \in Paths :
    Buried(p) => disk[p] = None \/ disk[p] # last[tracked[p]]]_vars

(* A row that agrees with the file at its path, when all events there were *)
(* acted upon, is never moved elsewhere: its deletion was decided.         *)
Settled(p) ==
    /\ noticed[p] = disk[p] /\ timer[p] = None /\ task[p] = Idle
    /\ tracked[p] # None /\ last[tracked[p]] = disk[p]

SettledRowsStay == [][\A p, q \in Paths :
    p # q /\ Settled(p) => tracked'[q] # tracked[p]]_vars
=============================================================================
