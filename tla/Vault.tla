------------------------------- MODULE Vault -------------------------------
(***************************************************************************)
(* The folder of notes and what the store says of it: where every document *)
(* lives now, and what it said when it was recorded last. A capture or a   *)
(* deletion is one step here; History takes it apart into statements.      *)
(*                                                                         *)
(* Files on disk differ by inode, text and mtime. Two writes never share   *)
(* an mtime. A text has a hash of its own, and a size that it may share    *)
(* with others.                                                            *)
(***************************************************************************)
EXTENDS Naturals, Sequences, SequencesExt

CONSTANTS
    Paths,       (* normalizedPath values                                    *)
    Texts,       (* what a file may contain                                  *)
    Alike,       (* texts of one size, different from those of all others    *)
    MaxFiles,    (* bound of the model: rows of files                        *)
    None,        (* SQL NULL, a missing row, a missing file                  *)
    MaxEdits,    (* bound of the model: operations of the user, and failures *)
    MaxFailures  (* bound of the model: reads that fail                      *)

Files == 1..MaxFiles
Docs  == [ino : 1..MaxEdits, text : Texts, mtime : 1..MaxEdits]

ASSUME VaultAssumption ==
    /\ IsFiniteSet(Paths)
    /\ Texts # {}
    /\ Alike \subseteq Texts
    /\ MaxFiles \in Nat \ {0}
    /\ MaxEdits \in Nat \ {0}
    /\ MaxFailures \in Nat
    /\ None \notin Paths \cup Texts \cup Nat \cup Docs

VARIABLES
    disk,       (* what is at a path, or None                                *)
    edits,      (* operations of the user so far                             *)
    failures,   (* reads that failed so far, of files that are there         *)
    tracked,    (* the active row at a path, or None                         *)
    graves,     (* the deleted rows of a path, the latest one last           *)
    last,       (* latestContent of a row, with its inode and mtime          *)
    entombed    (* rows whose newest version is a deletion                   *)

diskVars == <<disk, edits, failures>>
rowVars  == <<tracked, graves, last, entombed>>

-----------------------------------------------------------------------------
(* The user, and every program but this one.                               *)
Edit(p, doc) ==
    /\ edits + failures < MaxEdits
    /\ edits' = edits + 1
    /\ disk' = [disk EXCEPT ![p] = doc]
    /\ UNCHANGED failures

Create(p, text) ==
    /\ disk[p] = None
    /\ Edit(p, [ino |-> edits + 1, text |-> text, mtime |-> edits + 1])

Write(p, text) ==
    /\ disk[p] # None
    /\ Edit(p, [ino |-> disk[p].ino, text |-> text, mtime |-> edits + 1])

Delete(p) == disk[p] # None /\ Edit(p, None)

Rename(p, q) ==
    /\ p # q
    /\ disk[p] # None
    /\ edits + failures < MaxEdits
    /\ edits' = edits + 1
    /\ disk' = [disk EXCEPT ![p] = None, ![q] = disk[p]]
    /\ UNCHANGED failures

(* For a while a file, or its directory, cannot be read: a lock, a         *)
(* permission, a placeholder whose content is elsewhere.                   *)
Unreadable(p) ==
    /\ disk[p] # None
    /\ failures < MaxFailures
    /\ failures' = failures + 1
    /\ UNCHANGED <<disk, edits>>

User ==
    \E p \in Paths :
        \/ \E text \in Texts : Create(p, text) \/ Write(p, text)
        \/ Delete(p)
        \/ \E q \in Paths : Rename(p, q)

-----------------------------------------------------------------------------
(* A box ticked, a digit changed: another text of the same size.           *)
SameSize(t, u) == t = u \/ {t, u} \subseteq Alike

Used == {f \in Files : last[f] # None}

(* A version with this content becomes the newest one of a row.            *)
Commit(f, doc) ==
    /\ last' = [last EXCEPT ![f] = doc]
    /\ entombed' = entombed \ {f}

(* The bytes belong to the row at the path; identical bytes only touch it. *)
KnownByInode(f, doc) == last[f].ino = doc.ino

Known(f, doc) == last[f].text = doc.text /\ f \notin entombed

RecordKnown(p, doc) ==
    /\ tracked[p] # None
    /\ IF Known(tracked[p], doc) THEN UNCHANGED <<last, entombed>>
                                 ELSE Commit(tracked[p], doc)
    /\ UNCHANGED <<tracked, graves>>

(* The row of a vanished file moves to the path the bytes were found at.   *)
RecordClaimed(f, p, doc) ==
    /\ tracked[p] = None
    /\ tracked' = [q \in Paths |-> IF q = p THEN f
                                   ELSE IF tracked[q] = f THEN None ELSE tracked[q]]
    /\ graves' = [q \in Paths |-> RemoveFirst(graves[q], f)]
    /\ Commit(f, doc)

(* The file came back to its path with the text it was last seen with.     *)
IsBack(p, doc) == graves[p] # <<>> /\ last[Last(graves[p])].text = doc.text

RecordReturned(p, doc) ==
    /\ tracked[p] = None
    /\ IsBack(p, doc)
    /\ tracked' = [tracked EXCEPT ![p] = Last(graves[p])]
    /\ Commit(Last(graves[p]), doc)
    /\ graves' = [graves EXCEPT ![p] = Front(@)]

RecordNew(p, doc) ==
    /\ tracked[p] = None
    /\ ~IsBack(p, doc)
    /\ \E f \in Files \ Used :
          /\ \A g \in Files \ Used : f <= g
          /\ tracked' = [tracked EXCEPT ![p] = f]
          /\ Commit(f, doc)
    /\ UNCHANGED graves

(* captureFromDisk after its last await, where no rename is claimed.       *)
Record(p, doc) == RecordKnown(p, doc) \/ RecordReturned(p, doc) \/ RecordNew(p, doc)

(* recordDeletion: for the row active at a path, if any, unless it was     *)
(* reopened and has no version since.                                      *)
MayBury(p) == tracked[p] # None /\ tracked[p] \notin entombed

BuryAll(ps) ==
    /\ graves' = [p \in Paths |-> IF p \in ps THEN Append(graves[p], tracked[p]) ELSE graves[p]]
    /\ entombed' = entombed \cup {tracked[p] : p \in ps}
    /\ tracked' = [p \in Paths |-> IF p \in ps THEN None ELSE tracked[p]]
    /\ UNCHANGED last

Bury(p) == BuryAll({q \in {p} : MayBury(q)})

(* A folder with one note, as its first index left it; which of the texts  *)
(* it has makes no difference.                                             *)
VaultInit ==
    \E p \in Paths :
        LET note == [ino |-> 1, text |-> CHOOSE t \in Texts : TRUE, mtime |-> 1]
        IN  /\ disk = [q \in Paths |-> IF q = p THEN note ELSE None]
            /\ edits = 1 /\ failures = 0
            /\ tracked = [q \in Paths |-> IF q = p THEN 1 ELSE None]
            /\ graves = [q \in Paths |-> <<>>]
            /\ last = [f \in Files |-> IF f = 1 THEN note ELSE None]
            /\ entombed = {}

VaultTypeOK ==
    /\ disk \in [Paths -> Docs \cup {None}]
    /\ edits \in 0..MaxEdits /\ failures \in 0..MaxFailures
    /\ tracked \in [Paths -> Files \cup {None}]
    /\ \A p \in Paths : ToSet(graves[p]) \subseteq Files
    /\ last \in [Files -> Docs \cup {None}]
    /\ entombed \subseteq Files

(* The store says of every path what the disk says.                        *)
InSyncAt(p) ==
    IF disk[p] = None THEN tracked[p] = None
    ELSE tracked[p] # None /\ last[tracked[p]].text = disk[p].text

InSync == \A p \in Paths : InSyncAt(p)
=============================================================================
