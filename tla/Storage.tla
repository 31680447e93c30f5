------------------------------ MODULE Storage ------------------------------
(***************************************************************************)
(* src/main/storage/store.ts, storage/backupManager.ts and                 *)
(* search/searchService.ts: the database file and its backups, how the     *)
(* store is opened after a crash or damage, and the search index that is   *)
(* derived from the versions.                                              *)
(*                                                                         *)
(* Of a database the model keeps how many versions it holds, which of them *)
(* the search index has, whether the index is flagged as stale and whether *)
(* the file would pass the integrity check. A backup is such a copy, made  *)
(* page by page, so that a damaged database gives a damaged backup. Every  *)
(* SQLite transaction is one step; between two steps the app may stop.     *)
(***************************************************************************)
EXTENDS Naturals, SequencesExt

CONSTANTS
    Retain,         (* BACKUP_RETENTION                                      *)
    Rebuilds,       (* calls of rebuildIndex that may be in flight           *)
    MaxVersions,    (* bound of the model: versions in the database          *)
    MaxBackups,     (* bound of the model: backups when another one begins   *)
    MaxFaults       (* bound of the model: stops, damages and failures       *)

ASSUME StorageAssumption ==
    /\ Retain \in Nat \ {0}
    /\ MaxVersions \in Nat
    /\ MaxBackups \in Nat
    /\ MaxFaults \in Nat

VARIABLES
    disk,        (* the database file, or NoFile                             *)
    backups,     (* BackupManager.list(): the newest first                   *)
    app,         (* down, replacing, copying, running or safe                *)
    backing,     (* BackupManager.create: idle, copying or pruning           *)
    pruned,      (* of the list prune() made: the backups still to remove    *)
    cursor,      (* of each rebuild: the version it reads, or 0              *)
    warned,      (* the health condition search_index_stale                  *)
    failed,      (* a rebuild ended by an exception since the start          *)
    bereft,      (* a restore was cut short while there was no database      *)
    faults       (* damages and failures so far, against MaxFaults           *)

storageVars == <<disk, backups, app, backing, pruned, cursor, warned, failed, bereft, faults>>

(* torn: a rebuild has unflagged the index while another was in flight.    *)
Database(sound, versions, indexed, stale, torn) ==
    [sound |-> sound, versions |-> versions, indexed |-> indexed, stale |-> stale, torn |-> torn]

Empty  == Database(TRUE, 0, {}, FALSE, FALSE)
Torso  == Database(FALSE, 0, {}, FALSE, FALSE)    (* a copy that was cut short *)
NoFile == Database(TRUE, 0, {}, FALSE, TRUE)      (* no file, or an empty one  *)

(* A database as the next Open finds it: of a damaged one nothing matters, *)
(* of an index that is stale or has a gap not which rows it has.           *)
AtRest(db) ==
    IF ~db.sound THEN Torso
    ELSE [db EXCEPT !.indexed = IF @ = 1..db.versions /\ ~db.stale THEN @ ELSE {}]

StorageInit ==
    /\ disk = NoFile /\ backups = <<>> /\ app = "down"
    /\ backing = "idle" /\ pruned = 0
    /\ cursor = [r \in Rebuilds |-> 0]
    /\ warned = FALSE /\ failed = FALSE /\ bereft = FALSE
    /\ faults = 0

Fault == faults < MaxFaults /\ faults' = faults + 1

-----------------------------------------------------------------------------
(* BackupManager.newestValid                                               *)
SoundBackups == {i \in DOMAIN backups : backups[i].sound}

OldestValid == IF SoundBackups = {} THEN 0 ELSE Max(SoundBackups)

NewestValid == IF SoundBackups = {} THEN 0 ELSE Min(SoundBackups)

(* Store.open and what main() raises when it has the store.                *)
Run(db) ==
    /\ app' = "running"
    /\ disk' = db
    /\ warned' = db.stale

Open ==
    /\ app = "down"
    /\ CASE disk = NoFile -> Run(Empty)
         [] disk # NoFile /\ disk.sound -> Run(disk)
         [] ~disk.sound /\ NewestValid # 0 -> app' = "replacing" /\ UNCHANGED <<disk, warned>>
         [] OTHER -> app' = "safe" /\ UNCHANGED <<disk, warned>>
    /\ UNCHANGED <<backups, backing, pruned, cursor, failed, bereft, faults>>

(* restoreOver: the damaged file is moved away and the backup copied. A    *)
(* file without a byte passes the check as an empty database, as none      *)
(* does: the copy begins with the first byte.                              *)
MoveAway ==
    /\ app = "replacing"
    /\ app' = "copying"
    /\ disk' = NoFile
    /\ UNCHANGED <<backups, backing, pruned, cursor, warned, failed, bereft, faults>>

CopyBegins ==
    /\ app = "copying" /\ disk = NoFile
    /\ disk' = Torso
    /\ UNCHANGED <<backups, app, backing, pruned, cursor, warned, failed, bereft, faults>>

CopyEnds ==
    /\ app = "copying" /\ disk = Torso
    /\ Run(backups[NewestValid])
    /\ UNCHANGED <<backups, backing, pruned, cursor, failed, bereft, faults>>

(* The process ends: a crash, or a quit, which waits neither for a backup  *)
(* nor for a rebuild.                                                      *)
Stop ==
    /\ app # "down"
    /\ app' = "down"
    /\ backing' = "idle" /\ pruned' = 0
    /\ cursor' = [r \in Rebuilds |-> 0]
    /\ bereft' = (bereft \/ (app = "copying" /\ disk = NoFile))
    /\ warned' = FALSE
    /\ failed' = FALSE
    /\ disk' = AtRest(disk)
    /\ UNCHANGED <<backups, faults>>

(* The medium damages the database.                                        *)
Damage ==
    /\ app \in {"down", "running"} /\ Fault
    /\ disk # NoFile
    /\ disk' = IF app = "down" THEN Torso ELSE [disk EXCEPT !.sound = FALSE]
    /\ UNCHANGED <<backups, app, backing, pruned, cursor, warned, failed, bereft>>

-----------------------------------------------------------------------------
(* BackupManager.create: the copy, its note and prune().                   *)
BackupBegins ==
    /\ app = "running" /\ backing = "idle" /\ Len(backups) < MaxBackups
    /\ backing' = "copying"
    /\ backups' = <<Torso>> \o backups
    /\ UNCHANGED <<disk, app, pruned, cursor, warned, failed, bereft, faults>>

(* list.slice(retain): by age, whether valid or not.                       *)
Surplus == IF Len(backups) > Retain THEN Len(backups) - Retain ELSE 0

(* The copy throws: what there is of it stays.                             *)
BackupFails ==
    /\ backing = "copying" /\ Fault
    /\ backing' = "idle"
    /\ UNCHANGED <<disk, backups, app, pruned, cursor, warned, failed, bereft>>

BackupCopied ==
    /\ backing = "copying"
    /\ backups' = [backups EXCEPT ![1] = AtRest(disk)]
    /\ pruned' = Surplus
    /\ backing' = IF Surplus = 0 THEN "idle" ELSE "pruning"
    /\ UNCHANGED <<disk, app, cursor, warned, failed, bereft, faults>>

(* The surplus is removed in the order of the list: the newest of it first.*)
Prune ==
    /\ backing = "pruning"
    /\ backups' = RemoveAt(backups, Retain + 1)
    /\ pruned' = pruned - 1
    /\ backing' = IF pruned = 1 THEN "idle" ELSE "pruning"
    /\ UNCHANGED <<disk, app, cursor, warned, failed, bereft, faults>>

-----------------------------------------------------------------------------
(* A version and its index row, in one transaction.                        *)
Record ==
    /\ app = "running" /\ disk.versions < MaxVersions
    /\ disk' = [disk EXCEPT !.versions = @ + 1, !.indexed = @ \cup {disk.versions + 1}]
    /\ UNCHANGED <<backups, app, backing, pruned, cursor, warned, failed, bereft, faults>>

Others(r) == {q \in Rebuilds \ {r} : cursor[q] # 0}

(* rebuildIndex returns, and the router clears the condition.              *)
Unflag(db, r) == [db EXCEPT !.stale = FALSE, !.torn = failed \/ Others(r) # {}]

FlagNothing(db) == [db EXCEPT !.indexed = {}]

Flag(db) == [db EXCEPT !.indexed = {}, !.stale = TRUE]

RebuildBegins(r) ==
    /\ app = "running" /\ cursor[r] = 0 /\ \A q \in Rebuilds : q < r => cursor[q] # 0
    /\ IF disk.versions = 0
       THEN disk' = Unflag(Flag(disk), r) /\ warned' = FALSE /\ UNCHANGED cursor
       ELSE disk' = Flag(disk) /\ cursor' = [cursor EXCEPT ![r] = 1] /\ UNCHANGED warned
    /\ UNCHANGED <<backups, app, backing, pruned, failed, bereft, faults>>

(* The text of a version has been read: its row is written and the next    *)
(* version is looked up.                                                   *)
RebuildGoesOn(r) ==
    /\ cursor[r] # 0
    /\ LET db == [disk EXCEPT !.indexed = @ \cup {cursor[r]}] IN
       IF cursor[r] >= disk.versions
       THEN disk' = Unflag(db, r) /\ warned' = FALSE /\ cursor' = [cursor EXCEPT ![r] = 0]
       ELSE disk' = db /\ cursor' = [cursor EXCEPT ![r] = @ + 1] /\ UNCHANGED warned
    /\ UNCHANGED <<backups, app, backing, pruned, failed, bereft, faults>>

(* The transaction throws, say on a full disk.                             *)
RebuildFails(r) ==
    /\ cursor[r] # 0 /\ Fault
    /\ cursor' = [cursor EXCEPT ![r] = 0]
    /\ failed' = TRUE
    /\ UNCHANGED <<disk, backups, app, backing, pruned, warned, bereft>>

-----------------------------------------------------------------------------
StorageNext ==
    \/ Open \/ MoveAway \/ CopyBegins \/ CopyEnds \/ Stop \/ Damage
    \/ BackupBegins \/ BackupFails \/ BackupCopied \/ Prune
    \/ Record
    \/ \E r \in Rebuilds : RebuildBegins(r) \/ RebuildGoesOn(r) \/ RebuildFails(r)

StorageSpec == StorageInit /\ [][StorageNext]_storageVars

-----------------------------------------------------------------------------
StorageTypeOK ==
    /\ app \in {"down", "replacing", "copying", "running", "safe"}
    /\ disk.versions \in 0..MaxVersions /\ disk.indexed \subseteq 1..disk.versions
    /\ Len(backups) <= MaxBackups
    /\ (backing = "pruning") = (pruned > 0)
    /\ pruned = 0 \/ Len(backups) = Retain + pruned
    /\ app = "running" => disk # NoFile
    /\ \A r \in Rebuilds : cursor[r] <= disk.versions

(* An index that lacks a version is shown as stale once no rebuild is in   *)
(* flight, across crashes and restores of a backup (searchService.ts:126), *)
(* unless two rebuilds overlapped or one threw.                            *)
GapsAreShown ==
    app = "running" /\ (\A r \in Rebuilds : cursor[r] = 0) /\ disk.indexed # 1..disk.versions =>
        warned \/ failed \/ disk.torn

(* The app never starts with less history than one of its valid backups    *)
(* has (backupManager.ts:91,116), unless an earlier restore was cut short  *)
(* between the two moves.                                                  *)
StartsFromHistory ==
    [][app # "running" /\ app' = "running" /\ ~bereft =>
         \A i \in SoundBackups : disk'.versions >= backups[i].versions]_storageVars

(* Pruning keeps the newest valid backups: their number falls only while   *)
(* it is above the retention (backupManager.ts:4,64). The code counts the  *)
(* files, whether valid or not (66).                                       *)
ValidBackupsKept ==
    [][Cardinality(SoundBackups') >= Min({Retain, Cardinality(SoundBackups)})]_storageVars
=============================================================================
