--------------------------- MODULE StorageProofs ---------------------------
(***************************************************************************)
(* The invariants of Storage, for any number of backups to retain, of      *)
(* rebuilds in flight, of versions and of failures.                        *)
(***************************************************************************)
EXTENDS Storage, WellFoundedInduction, TLAPS

Databases ==
    [sound : BOOLEAN, versions : Nat, indexed : SUBSET Nat, stale : BOOLEAN, torn : BOOLEAN]

(* What a database keeps wherever it is: on disk, at rest or in a backup.  *)
(* A gap in its index is known of, and only NoFile is torn while empty.    *)
WellFormed(db) ==
    /\ db \in Databases
    /\ db.versions <= MaxVersions
    /\ db.indexed \subseteq 1..db.versions
    /\ db.indexed # 1..db.versions => db.stale \/ db.torn
    /\ db.torn => db = NoFile \/ db.versions > 0

Shapes ==
    /\ WellFormed(disk)
    /\ backups \in Seq(Databases)
    /\ \A i \in DOMAIN backups : WellFormed(backups[i]) /\ backups[i] # NoFile
    /\ backing \in {"idle", "copying", "pruning"}
    /\ pruned \in Nat
    /\ cursor \in [Rebuilds -> Nat]
    /\ warned \in BOOLEAN /\ failed \in BOOLEAN /\ bereft \in BOOLEAN

(* Whoever does not run does nothing to the database; a restore has a      *)
(* backup to take; the backup being made does not count yet.               *)
Errands ==
    /\ app # "running" => backing = "idle" /\ ~failed /\ \A r \in Rebuilds : cursor[r] = 0
    /\ app \in {"replacing", "copying"} => SoundBackups # {}
    /\ backing = "copying" => Len(backups) > 0 /\ ~backups[1].sound
    /\ failed => disk.versions > 0

(* Until a restore is cut short, no copy has more than a younger one.      *)
Ordered ==
    ~bereft =>
        /\ \A i, j \in SoundBackups : i < j => backups[j].versions <= backups[i].versions
        /\ disk # NoFile /\ disk.sound =>
              \A i \in SoundBackups : backups[i].versions <= disk.versions
        /\ disk = NoFile /\ app # "copying" => SoundBackups = {}

Rebuilding == {r \in Rebuilds : cursor[r] # 0}

(* What rebuild r has passed is in the index, and stays in it.             *)
Covers(r) == \A v \in 1..disk.versions : v < cursor[r] => v \in disk.indexed

(* A stale index is shown or about to be rebuilt; of the rebuilds in       *)
(* flight the one that began last covers what it has passed.               *)
Rebuilt ==
    app = "running" /\ ~failed =>
        /\ disk.stale => warned \/ Rebuilding # {}
        /\ Rebuilding # {} => \E r \in Rebuilding : Covers(r)

StorageInv == StorageTypeOK /\ Shapes /\ Errands /\ Ordered /\ Rebuilt

-----------------------------------------------------------------------------
(* The databases the model starts from.                                    *)
LEMMA Constants ==
    /\ WellFormed(Empty) /\ WellFormed(Torso) /\ WellFormed(NoFile)
    /\ Empty # NoFile /\ Torso # NoFile
    /\ ~Torso.sound /\ ~Torso.stale /\ Torso.versions = 0
    /\ Empty.sound /\ ~Empty.stale /\ Empty.versions = 0
    /\ NoFile.sound /\ ~NoFile.stale /\ NoFile.versions = 0
<1>1. 1..0 = {}
  OBVIOUS
<1>2. QED
  BY <1>1, StorageAssumption
     DEF WellFormed, Databases, Empty, Torso, NoFile, Database

(* What Flag and Unflag leave alone, and what they set.                    *)
LEMMA Flagged ==
    ASSUME NEW db \in Databases
    PROVE  /\ Flag(db) \in Databases
           /\ Flag(db).sound = db.sound /\ Flag(db).versions = db.versions
           /\ Flag(db).indexed = {} /\ Flag(db).stale /\ Flag(db).torn = db.torn
<1>1. /\ Flag(db).sound = db.sound /\ Flag(db).versions = db.versions
      /\ Flag(db).indexed = {} /\ Flag(db).stale = TRUE /\ Flag(db).torn = db.torn
  BY Zenon DEF Flag, Databases
<1>2. Flag(db) \in Databases
  BY Zenon DEF Flag, Databases
<1>3. QED
  BY <1>1, <1>2

LEMMA Unflagged ==
    ASSUME NEW db \in Databases, NEW r \in Rebuilds, failed \in BOOLEAN
    PROVE  /\ Unflag(db, r) \in Databases
           /\ Unflag(db, r).sound = db.sound /\ Unflag(db, r).versions = db.versions
           /\ Unflag(db, r).indexed = db.indexed /\ ~Unflag(db, r).stale
           /\ Unflag(db, r).torn <=> failed \/ Others(r) # {}
<1> DEFINE t == failed \/ Others(r) # {}
<1>1. t \in BOOLEAN
  OBVIOUS
<1>2. /\ Unflag(db, r).sound = db.sound /\ Unflag(db, r).versions = db.versions
      /\ Unflag(db, r).indexed = db.indexed /\ Unflag(db, r).stale = FALSE
      /\ Unflag(db, r).torn = t
  BY Zenon DEF Unflag, Databases
<1>3. Unflag(db, r) \in Databases
  BY <1>1, Zenon DEF Unflag, Databases
<1> HIDE DEF t
<1>4. Unflag(db, r).torn <=> t
  BY <1>1, <1>2, <1>3, Zenon
<1>5. QED
  BY <1>2, <1>3, <1>4 DEF t

(* A database that gains rows of its index.                                *)
LEMMA Indexed ==
    ASSUME NEW db \in Databases, NEW s \in SUBSET Nat
    PROVE  LET gained == [db EXCEPT !.indexed = @ \cup s] IN
           /\ gained \in Databases
           /\ gained.sound = db.sound /\ gained.versions = db.versions
           /\ gained.indexed = db.indexed \cup s
           /\ gained.stale = db.stale /\ gained.torn = db.torn
<1> DEFINE gained == [db EXCEPT !.indexed = @ \cup s]
<1>1. db.indexed \cup s \in SUBSET Nat
  BY DEF Databases
<1>2. QED
  BY <1>1, Zenon DEF Databases

(* What the next Open finds is as well formed as what was left.            *)
LEMMA Rested ==
    ASSUME NEW db, WellFormed(db)
    PROVE  /\ WellFormed(AtRest(db))
           /\ AtRest(db).sound <=> db.sound
           /\ db.sound => AtRest(db).versions = db.versions
           /\ AtRest(db) = NoFile <=> db = NoFile
<1>1. CASE ~db.sound
  BY <1>1, Constants DEF AtRest
<1>2. CASE db.sound
  <2> DEFINE kept == IF db.indexed = 1..db.versions /\ ~db.stale THEN db.indexed ELSE {}
  <2>1. db \in Databases /\ kept \in SUBSET Nat
    BY DEF WellFormed, Databases
  <2>2. AtRest(db) = [db EXCEPT !.indexed = kept]
    BY <1>2, Zenon DEF AtRest
  <2>3. /\ AtRest(db) \in Databases
        /\ AtRest(db).sound = db.sound /\ AtRest(db).versions = db.versions
        /\ AtRest(db).indexed = kept
        /\ AtRest(db).stale = db.stale /\ AtRest(db).torn = db.torn
    BY <2>1, <2>2, Zenon DEF Databases
  <2>4. kept \subseteq 1..db.versions /\ (kept # 1..db.versions => db.stale \/ db.torn)
    BY <2>1 DEF WellFormed
  <2>5. ASSUME db = NoFile PROVE AtRest(db) = NoFile
    <3>1. kept = NoFile.indexed
      <4>1. NoFile.indexed = {}
        BY DEF NoFile, Database
      <4>2. QED
        BY <2>5, <4>1
    <3>2. [NoFile EXCEPT !.indexed = NoFile.indexed] = NoFile
      BY Zenon DEF NoFile, Database
    <3> HIDE DEF kept
    <3>3. QED
      BY <2>2, <2>5, <3>1, <3>2
  <2>6. ASSUME AtRest(db) = NoFile PROVE db = NoFile
    <3>1. NoFile.torn /\ NoFile.versions = 0
      BY DEF NoFile, Database
    <3>2. QED
      BY <2>3, <2>6, <3>1 DEF WellFormed
  <2> HIDE DEF kept
  <2>7. WellFormed(AtRest(db))
    BY <2>3, <2>4, <2>5 DEF WellFormed
  <2>8. QED
    BY <2>3, <2>5, <2>6, <2>7
<1>3. QED
  BY <1>1, <1>2

(* newestValid: the youngest of the valid backups, if there is one.        *)
LEMMA LeastNatural ==
    ASSUME NEW S \in SUBSET Nat, S # {}
    PROVE  Min(S) \in S /\ \A i \in S : Min(S) <= i
<1> DEFINE less == {p \in Nat \X Nat : p[1] < p[2]}
<1>1. IsWellFoundedOn(less, Nat)
  BY NatLessThanWellFounded DEF OpToRel
<1>2. PICK x \in S : \A y \in S : <<y, x>> \notin less
  <2> HIDE DEF less
  <2> QED
    BY <1>1, WFMin
<1>3. \A y \in S : x <= y
  <2> SUFFICES ASSUME NEW y \in S PROVE x <= y
    OBVIOUS
  <2>1. x \in Nat /\ y \in Nat
    OBVIOUS
  <2>2. ~(y < x)
    BY <1>2, <2>1
  <2>3. QED
    BY <2>1, <2>2
<1>4. QED
  BY <1>2, <1>3 DEF Min

LEMMA Newest ==
    ASSUME backups \in Seq(Databases)
    PROVE  /\ SoundBackups = {} => NewestValid = 0
           /\ SoundBackups # {} => /\ NewestValid \in SoundBackups
                                   /\ \A i \in SoundBackups : NewestValid <= i
           /\ SoundBackups \subseteq 1..Len(backups)
<1>1. SoundBackups \in SUBSET Nat /\ SoundBackups \subseteq 1..Len(backups)
  BY DEF SoundBackups
<1>2. QED
  BY <1>1, LeastNatural DEF NewestValid

-----------------------------------------------------------------------------
LEMMA StorageInitHolds == StorageInit => StorageInv
<1> SUFFICES ASSUME StorageInit PROVE StorageInv
  OBVIOUS
<1>1. SoundBackups = {}
  BY DEF StorageInit, SoundBackups
<1>2. Shapes
  <2>1. backups = <<>> /\ backups \in Seq(Databases) /\ DOMAIN backups = {}
    BY DEF StorageInit
  <2>2. cursor \in [Rebuilds -> Nat]
    BY DEF StorageInit
  <2>3. QED
    BY <2>1, <2>2, Constants DEF StorageInit, Shapes
<1>3. StorageTypeOK
  BY StorageAssumption, Constants, <1>2
     DEF StorageInit, StorageTypeOK, Shapes, WellFormed, Databases
<1>4. Errands /\ Ordered /\ Rebuilt
  BY <1>1 DEF StorageInit, Errands, Ordered, Rebuilt
<1>5. QED
  BY <1>2, <1>3, <1>4 DEF StorageInv

(* Of the steps that leave the backups alone.                              *)
LEMMA SameBackups ==
    ASSUME UNCHANGED backups
    PROVE  SoundBackups' = SoundBackups /\ NewestValid' = NewestValid
BY DEF SoundBackups, NewestValid

LEMMA OpenKeeps == StorageInv /\ Open => StorageInv'
<1> SUFFICES ASSUME StorageInv, Open PROVE StorageInv'
  OBVIOUS
<1> USE DEF StorageInv
<1>1. \/ disk = NoFile /\ Run(Empty)
      \/ disk # NoFile /\ disk.sound /\ Run(disk)
      \/ NewestValid # 0 /\ app' = "replacing" /\ UNCHANGED <<disk, warned>>
      \/ app' = "safe" /\ UNCHANGED <<disk, warned>>
  BY Zenon DEF Open
<1>2. /\ app = "down"
      /\ UNCHANGED <<backups, backing, pruned, cursor, failed, bereft, faults>>
  BY DEF Open
<1>3. /\ backing = "idle" /\ ~failed /\ \A r \in Rebuilds : cursor[r] = 0
      /\ Rebuilding' = {}
      /\ SoundBackups' = SoundBackups
  BY <1>2, SameBackups DEF Errands, Rebuilding
<1>4. /\ WellFormed(disk') /\ warned' \in BOOLEAN
      /\ app' \in {"running", "replacing", "safe"}
      /\ app' = "running" => disk' # NoFile /\ (disk'.stale => warned')
  <2>1. /\ WellFormed(disk) /\ disk.stale \in BOOLEAN /\ warned \in BOOLEAN
        /\ Empty.stale = FALSE /\ WellFormed(Empty) /\ Empty # NoFile
    BY Constants DEF Shapes, WellFormed, Databases, Empty, Database
  <2>2. ASSUME NEW db, Run(db), WellFormed(db), db # NoFile, db.stale \in BOOLEAN
        PROVE  /\ WellFormed(disk') /\ warned' \in BOOLEAN
               /\ app' = "running" /\ disk' # NoFile /\ (disk'.stale => warned')
    BY <2>2, Zenon DEF Run
  <2>3. CASE disk = NoFile /\ Run(Empty)
    BY <2>1, <2>2, <2>3
  <2>4. CASE disk # NoFile /\ disk.sound /\ Run(disk)
    BY <2>1, <2>2, <2>4
  <2>5. QED
    BY <1>1, <2>1, <2>3, <2>4
<1>5. StorageTypeOK'
  BY <1>2, <1>3, <1>4 DEF StorageTypeOK, WellFormed, Databases
<1>6. Shapes'
  BY <1>2, <1>4 DEF Shapes
<1>7. Errands'
  <2>1. app' = "replacing" => SoundBackups # {}
    BY <1>1, Newest DEF Run, Shapes
  <2>2. QED
    BY <1>2, <1>3, <1>4, <2>1 DEF Errands
<1>8. Ordered'
  BY <1>1, <1>2, <1>3, Constants DEF Ordered, Run
<1>9. Rebuilt'
  BY <1>3, <1>4 DEF Rebuilt
<1>10. QED
  BY <1>5, <1>6, <1>7, <1>8, <1>9

LEMMA MoveAwayKeeps == StorageInv /\ MoveAway => StorageInv'
<1> SUFFICES ASSUME StorageInv, MoveAway PROVE StorageInv'
  OBVIOUS
<1> USE DEF StorageInv, MoveAway
<1>1. SoundBackups' = SoundBackups
  BY SameBackups
<1>2. Shapes'
  BY Constants DEF Shapes
<1>3. StorageTypeOK'
  BY <1>2, Constants DEF StorageTypeOK, Shapes, WellFormed, Databases, Errands
<1>4. Errands' /\ Ordered' /\ Rebuilt'
  BY <1>1, Constants DEF Errands, Ordered, Rebuilt
<1>5. QED
  BY <1>2, <1>3, <1>4

LEMMA CopyBeginsKeeps == StorageInv /\ CopyBegins => StorageInv'
<1> SUFFICES ASSUME StorageInv, CopyBegins PROVE StorageInv'
  OBVIOUS
<1> USE DEF StorageInv, CopyBegins
<1>1. SoundBackups' = SoundBackups
  BY SameBackups
<1>2. Shapes'
  BY Constants DEF Shapes
<1>3. StorageTypeOK'
  BY <1>2, Constants DEF StorageTypeOK, Shapes, WellFormed, Databases, Errands
<1>4. Errands' /\ Ordered' /\ Rebuilt'
  BY <1>1, Constants DEF Errands, Ordered, Rebuilt
<1>5. QED
  BY <1>2, <1>3, <1>4

LEMMA CopyEndsKeeps == StorageInv /\ CopyEnds => StorageInv'
<1> SUFFICES ASSUME StorageInv, CopyEnds PROVE StorageInv'
  OBVIOUS
<1> USE DEF StorageInv, CopyEnds, Run
<1>1. SoundBackups' = SoundBackups /\ Rebuilding' = {}
  BY SameBackups DEF Errands, Rebuilding
<1>2. NewestValid \in SoundBackups /\ \A i \in SoundBackups : NewestValid <= i
  BY Newest DEF Errands, Shapes
<1>3. WellFormed(disk') /\ disk' # NoFile /\ disk'.sound
  BY <1>2 DEF Shapes, SoundBackups
<1>4. Shapes'
  BY <1>3 DEF Shapes, WellFormed, Databases
<1>5. StorageTypeOK'
  BY <1>3, <1>4 DEF StorageTypeOK, Shapes, WellFormed, Databases, Errands
<1>6. Ordered'
  <2>1. \A i \in SoundBackups : i \in Nat /\ backups[i].versions \in Nat
    BY DEF SoundBackups, Shapes, WellFormed, Databases
  <2>2. ~bereft => \A i \in SoundBackups : backups[i].versions <= disk'.versions
    BY <1>2, <2>1 DEF Ordered
  <2>3. QED
    BY <1>1, <1>3, <2>2 DEF Ordered
<1>7. Errands' /\ Rebuilt'
  BY <1>1 DEF Errands, Rebuilt
<1>8. QED
  BY <1>4, <1>5, <1>6, <1>7

LEMMA StopKeeps == StorageInv /\ Stop => StorageInv'
<1> SUFFICES ASSUME StorageInv, Stop PROVE StorageInv'
  OBVIOUS
<1> USE DEF StorageInv, Stop
<1>1. SoundBackups' = SoundBackups
  BY SameBackups
<1>2. /\ WellFormed(disk) /\ WellFormed(disk')
      /\ disk'.sound <=> disk.sound
      /\ disk.sound => disk'.versions = disk.versions
      /\ disk' = NoFile <=> disk = NoFile
  BY Rested DEF Shapes
<1>3. Shapes'
  BY <1>2 DEF Shapes
<1>4. StorageTypeOK'
  BY <1>2, <1>3 DEF StorageTypeOK, Shapes, WellFormed, Databases
<1>5. Ordered'
  BY <1>1, <1>2 DEF Ordered
<1>6. Errands' /\ Rebuilt'
  BY DEF Errands, Rebuilt
<1>7. QED
  BY <1>3, <1>4, <1>5, <1>6

LEMMA DamageKeeps == StorageInv /\ Damage => StorageInv'
<1> SUFFICES ASSUME StorageInv, Damage PROVE StorageInv'
  OBVIOUS
<1> USE DEF StorageInv
<1>1. /\ app \in {"down", "running"} /\ disk # NoFile
      /\ UNCHANGED <<backups, app, backing, pruned, cursor, warned, failed, bereft>>
      /\ SoundBackups' = SoundBackups
      /\ WellFormed(disk)
  BY SameBackups DEF Damage, Shapes
<1>2. CASE app = "down"
  <2>1. disk' = Torso /\ ~failed /\ \A r \in Rebuilds : cursor[r] = 0
    BY <1>2 DEF Damage, Errands
  <2>2. Shapes'
    BY <1>1, <2>1, Constants DEF Shapes
  <2>3. StorageTypeOK'
    BY <1>1, <1>2, <2>1, <2>2, Constants
       DEF StorageTypeOK, Shapes, WellFormed, Databases
  <2>4. Errands' /\ Ordered' /\ Rebuilt'
    BY <1>1, <1>2, <2>1, Constants DEF Errands, Ordered, Rebuilt
  <2>5. QED
    BY <2>2, <2>3, <2>4
<1>3. CASE app = "running"
  <2>1. /\ disk' \in Databases /\ disk'.sound = FALSE
        /\ disk'.versions = disk.versions /\ disk'.indexed = disk.indexed
        /\ disk'.stale = disk.stale /\ disk'.torn = disk.torn
    <3>1. disk' = [disk EXCEPT !.sound = FALSE] /\ disk \in Databases
      BY <1>1, <1>3 DEF Damage, WellFormed
    <3>2. QED
      BY <3>1, Zenon DEF Databases
  <2>2. WellFormed(disk') /\ disk' # NoFile
    BY <1>1, <2>1, Constants DEF WellFormed
  <2>3. Shapes'
    BY <1>1, <2>2 DEF Shapes
  <2>4. StorageTypeOK'
    BY <1>1, <2>1, <2>2 DEF StorageTypeOK
  <2>5. Errands' /\ Ordered'
    BY <1>1, <2>1, <2>2 DEF Errands, Ordered
  <2>6. Rebuilt'
    BY <1>1, <2>1 DEF Rebuilt, Rebuilding, Covers
  <2>7. QED
    BY <2>3, <2>4, <2>5, <2>6
<1>4. QED
  BY <1>1, <1>2, <1>3

-----------------------------------------------------------------------------
(* The backups as they are changed: a torso is put before the others, the  *)
(* first is filled in, or one is removed.                                  *)
LEMMA BackupBeginsKeeps == StorageInv /\ BackupBegins => StorageInv'
<1> SUFFICES ASSUME StorageInv, BackupBegins PROVE StorageInv'
  OBVIOUS
<1> USE DEF StorageInv
<1>1. /\ app = "running" /\ backing = "idle" /\ Len(backups) < MaxBackups
      /\ backing' = "copying" /\ backups' = <<Torso>> \o backups
      /\ UNCHANGED <<disk, app, pruned, cursor, warned, failed, bereft>>
  BY DEF BackupBegins
<1>2. backups \in Seq(Databases) /\ Torso \in Databases /\ ~Torso.sound
  BY Constants DEF Shapes, WellFormed
<1>3. /\ backups' \in Seq(Databases)
      /\ Len(backups') = Len(backups) + 1
      /\ backups'[1] = Torso
      /\ \A i \in 2..Len(backups) + 1 : backups'[i] = backups[i - 1]
  BY <1>1, <1>2
<1>4. /\ \A i \in SoundBackups' : i - 1 \in SoundBackups /\ backups'[i] = backups[i - 1]
      /\ 1 \notin SoundBackups'
      /\ SoundBackups \subseteq 1..Len(backups) /\ SoundBackups' \subseteq 1..Len(backups')
  BY <1>2, <1>3 DEF SoundBackups
<1>5. Shapes'
  <2>1. \A i \in DOMAIN backups' : WellFormed(backups'[i]) /\ backups'[i] # NoFile
    BY <1>2, <1>3, Constants DEF Shapes
  <2>2. QED
    BY <1>1, <1>3, <2>1 DEF Shapes
<1>6. StorageTypeOK'
  BY <1>1, <1>2, <1>3, StorageAssumption DEF StorageTypeOK, Shapes
<1>7. Errands'
  BY <1>1, <1>2, <1>3 DEF Errands
<1>8. Ordered'
  <2> SUFFICES ASSUME ~bereft PROVE Ordered'
    BY <1>1 DEF Ordered
  <2>1. \A i \in SoundBackups' : i \in Nat
    BY <1>3, <1>4
  <2>2. \A i, j \in SoundBackups' :
           i < j => backups'[j].versions <= backups'[i].versions
    BY <1>4, <2>1 DEF Ordered
  <2>3. disk # NoFile /\ disk.sound =>
           \A i \in SoundBackups' : backups'[i].versions <= disk.versions
    BY <1>4 DEF Ordered
  <2>4. disk = NoFile /\ app # "copying" => SoundBackups' = {}
    BY <1>4 DEF Ordered
  <2>5. QED
    BY <1>1, <2>2, <2>3, <2>4 DEF Ordered
<1>9. Rebuilt'
  BY <1>1 DEF Rebuilt, Rebuilding, Covers
<1>10. QED
  BY <1>5, <1>6, <1>7, <1>8, <1>9

LEMMA BackupFailsKeeps == StorageInv /\ BackupFails => StorageInv'
<1> SUFFICES ASSUME StorageInv, BackupFails PROVE StorageInv'
  OBVIOUS
<1> USE DEF StorageInv, BackupFails
<1>1. SoundBackups' = SoundBackups
  BY SameBackups
<1>2. StorageTypeOK' /\ Shapes' /\ Errands'
  BY <1>1 DEF StorageTypeOK, Shapes, Errands
<1>3. Ordered' /\ Rebuilt'
  BY <1>1 DEF Ordered, Rebuilt, Rebuilding, Covers
<1>4. QED
  BY <1>2, <1>3

LEMMA BackupCopiedKeeps == StorageInv /\ BackupCopied => StorageInv'
<1> SUFFICES ASSUME StorageInv, BackupCopied PROVE StorageInv'
  OBVIOUS
<1> USE DEF StorageInv
<1>1. /\ app = "running" /\ backing = "copying" /\ disk # NoFile
      /\ backups' = [backups EXCEPT ![1] = AtRest(disk)]
      /\ pruned' = Surplus
      /\ backing' = IF Surplus = 0 THEN "idle" ELSE "pruning"
      /\ UNCHANGED <<disk, app, cursor, warned, failed, bereft>>
  BY DEF BackupCopied, Errands, StorageTypeOK
<1>2. /\ WellFormed(disk)
      /\ WellFormed(AtRest(disk)) /\ AtRest(disk) # NoFile
      /\ AtRest(disk).sound <=> disk.sound
      /\ disk.sound => AtRest(disk).versions = disk.versions
      /\ AtRest(disk) \in Databases
  BY <1>1, Rested DEF Shapes, WellFormed
<1>3. backups \in Seq(Databases) /\ Len(backups) > 0 /\ ~backups[1].sound
  BY <1>1 DEF Shapes, Errands
<1>4. /\ backups' \in Seq(Databases) /\ Len(backups') = Len(backups)
      /\ backups'[1] = AtRest(disk)
      /\ \A i \in 2..Len(backups) : backups'[i] = backups[i]
  BY <1>1, <1>2, <1>3
<1>5. /\ 1 \notin SoundBackups
      /\ SoundBackups \subseteq 1..Len(backups) /\ SoundBackups' \subseteq 1..Len(backups)
      /\ \A i \in SoundBackups' :
            \/ i = 1 /\ disk.sound
            \/ i > 1 /\ i \in SoundBackups /\ backups'[i] = backups[i]
  <2>1. /\ DOMAIN backups = 1..Len(backups) /\ DOMAIN backups' = 1..Len(backups)
        /\ Len(backups) \in Nat
    BY <1>3, <1>4
  <2>2. \A i \in SoundBackups' :
           \/ i = 1 /\ disk.sound
           \/ i > 1 /\ i \in SoundBackups /\ backups'[i] = backups[i]
    <3> SUFFICES ASSUME NEW i \in SoundBackups'
                 PROVE  \/ i = 1 /\ disk.sound
                        \/ i > 1 /\ i \in SoundBackups /\ backups'[i] = backups[i]
      OBVIOUS
    <3>1. i \in 1..Len(backups) /\ backups'[i].sound
      BY <2>1 DEF SoundBackups
    <3>2. CASE i = 1
      BY <1>2, <1>4, <3>1, <3>2
    <3>3. CASE i # 1
      BY <1>4, <2>1, <3>1, <3>3 DEF SoundBackups
    <3>4. QED
      BY <3>2, <3>3
  <2>3. QED
    BY <1>3, <2>1, <2>2 DEF SoundBackups
<1>6. /\ Surplus \in Nat
      /\ Surplus # 0 => Len(backups) = Retain + Surplus
  BY <1>3, StorageAssumption DEF Surplus
<1>7. Shapes'
  <2>1. \A i \in DOMAIN backups' : WellFormed(backups'[i]) /\ backups'[i] # NoFile
    BY <1>2, <1>3, <1>4 DEF Shapes
  <2>2. QED
    BY <1>1, <1>4, <1>6, <2>1 DEF Shapes
<1>8. StorageTypeOK'
  BY <1>1, <1>4, <1>6 DEF StorageTypeOK
<1>9. Errands'
  BY <1>1 DEF Errands
<1>10. Ordered'
  <2> SUFFICES ASSUME ~bereft PROVE Ordered'
    BY <1>1 DEF Ordered
  <2>1. \A i \in SoundBackups' : i \in Nat /\ backups'[i].versions \in Nat
    <3>1. Len(backups) \in Nat /\ \A i \in 1..Len(backups) : backups'[i] \in Databases
      BY <1>3, <1>4
    <3>2. QED
      BY <1>5, <3>1 DEF Databases
  <2>2. disk.sound => \A i \in SoundBackups' : backups'[i].versions <= disk.versions
    BY <1>1, <1>2, <1>4, <1>5, <2>1 DEF Ordered
  <2>3. \A i, j \in SoundBackups' :
           i < j => backups'[j].versions <= backups'[i].versions
    <3> SUFFICES ASSUME NEW i \in SoundBackups', NEW j \in SoundBackups', i < j
                 PROVE  backups'[j].versions <= backups'[i].versions
      OBVIOUS
    <3>1. j > 1 /\ j \in SoundBackups /\ backups'[j] = backups[j]
      BY <1>5, <2>1
    <3>2. CASE i = 1
      BY <1>2, <1>4, <1>5, <2>2, <3>2
    <3>3. CASE i # 1
      BY <1>5, <3>1, <3>3 DEF Ordered
    <3>4. QED
      BY <3>2, <3>3
  <2>4. QED
    BY <1>1, <2>2, <2>3 DEF Ordered
<1>11. Rebuilt'
  BY <1>1 DEF Rebuilt, Rebuilding, Covers
<1>12. QED
  BY <1>7, <1>8, <1>9, <1>10, <1>11

LEMMA PruneKeeps == StorageInv /\ Prune => StorageInv'
<1> SUFFICES ASSUME StorageInv, Prune PROVE StorageInv'
  OBVIOUS
<1> USE DEF StorageInv
<1> DEFINE n == Len(backups)
<1>1. /\ app = "running" /\ backing = "pruning"
      /\ backups' = RemoveAt(backups, Retain + 1)
      /\ pruned' = pruned - 1
      /\ backing' = IF pruned = 1 THEN "idle" ELSE "pruning"
      /\ UNCHANGED <<disk, app, cursor, warned, failed, bereft>>
  BY DEF Prune, Errands
<1>2. /\ backups \in Seq(Databases) /\ Retain \in Nat \ {0}
      /\ pruned \in Nat \ {0} /\ n = Retain + pruned
  BY <1>1, StorageAssumption DEF Shapes, StorageTypeOK
<1>3. /\ backups' \in Seq(Databases) /\ Len(backups') = n - 1
      /\ \A i \in 1..Retain : backups'[i] = backups[i]
      /\ \A i \in Retain + 1..n - 1 : backups'[i] = backups[i + 1]
  BY <1>1, <1>2 DEF RemoveAt
<1> HIDE DEF n
<1> DEFINE before(i) == IF i <= Retain THEN i ELSE i + 1
<1>4. /\ SoundBackups' \subseteq 1..n - 1
      /\ \A i \in SoundBackups' : before(i) \in SoundBackups /\ backups'[i] = backups[before(i)]
  BY <1>2, <1>3 DEF SoundBackups, n
<1>5. Shapes'
  <2>1. \A i \in DOMAIN backups' : WellFormed(backups'[i]) /\ backups'[i] # NoFile
    <3> SUFFICES ASSUME NEW i \in 1..n - 1
                 PROVE  WellFormed(backups'[i]) /\ backups'[i] # NoFile
      BY <1>2, <1>3
    <3>1. before(i) \in DOMAIN backups /\ backups'[i] = backups[before(i)]
      BY <1>2, <1>3 DEF n
    <3>2. QED
      BY <3>1 DEF Shapes
  <2>2. QED
    BY <1>1, <1>2, <1>3, <2>1 DEF Shapes
<1>6. StorageTypeOK'
  BY <1>1, <1>2, <1>3, StorageAssumption DEF StorageTypeOK, n
<1>7. Errands'
  BY <1>1 DEF Errands
<1>8. Ordered'
  <2> SUFFICES ASSUME ~bereft PROVE Ordered'
    BY <1>1 DEF Ordered
  <2>1. \A i, j \in SoundBackups' :
           i < j => backups'[j].versions <= backups'[i].versions
    <3> SUFFICES ASSUME NEW i \in SoundBackups', NEW j \in SoundBackups', i < j
                 PROVE  backups'[j].versions <= backups'[i].versions
      OBVIOUS
    <3>1. i \in Nat /\ j \in Nat /\ before(i) < before(j)
      BY <1>2, <1>4 DEF n
    <3>2. QED
      BY <1>4, <3>1 DEF Ordered
  <2>2. disk # NoFile /\ disk.sound =>
           \A i \in SoundBackups' : backups'[i].versions <= disk.versions
    BY <1>4 DEF Ordered
  <2>3. disk = NoFile /\ app # "copying" => SoundBackups' = {}
    BY <1>4 DEF Ordered
  <2>4. QED
    BY <1>1, <2>1, <2>2, <2>3 DEF Ordered
<1>9. Rebuilt'
  BY <1>1 DEF Rebuilt, Rebuilding, Covers
<1>10. QED
  BY <1>5, <1>6, <1>7, <1>8, <1>9

-----------------------------------------------------------------------------
LEMMA RecordKeeps == StorageInv /\ Record => StorageInv'
<1> SUFFICES ASSUME StorageInv, Record PROVE StorageInv'
  OBVIOUS
<1> USE DEF StorageInv
<1>1. /\ app = "running" /\ disk # NoFile /\ disk.versions < MaxVersions
      /\ UNCHANGED <<backups, app, backing, pruned, cursor, warned, failed, bereft>>
      /\ SoundBackups' = SoundBackups
      /\ WellFormed(disk)
  BY SameBackups DEF Record, Shapes, StorageTypeOK
<1>2. /\ disk'.sound = disk.sound /\ disk'.versions = disk.versions + 1
      /\ disk'.indexed = disk.indexed \cup {disk.versions + 1}
      /\ disk'.stale = disk.stale /\ disk'.torn = disk.torn
      /\ disk' \in Databases
  <2>1. /\ disk' = [disk EXCEPT !.versions = disk.versions + 1,
                                !.indexed = disk.indexed \cup {disk.versions + 1}]
        /\ disk \in Databases
    BY <1>1, Zenon DEF Record, WellFormed
  <2>2. disk.versions + 1 \in Nat /\ disk.indexed \cup {disk.versions + 1} \in SUBSET Nat
    BY <2>1 DEF Databases
  <2>3. QED
    BY <2>1, <2>2, Zenon DEF Databases
<1>3. disk.versions \in Nat /\ disk.indexed \subseteq 1..disk.versions
  BY <1>1 DEF WellFormed, Databases
<1>4. WellFormed(disk')
  <2>1. disk'.indexed \subseteq 1..disk'.versions
    BY <1>2, <1>3
  <2>2. disk'.indexed # 1..disk'.versions => disk.indexed # 1..disk.versions
    BY <1>2, <1>3
  <2>3. QED
    BY <1>1, <1>2, <1>3, <2>1, <2>2, StorageAssumption DEF WellFormed
<1>5. Shapes'
  BY <1>1, <1>4 DEF Shapes
<1>6. disk' # NoFile
  BY <1>2, <1>3, Constants
<1>7. StorageTypeOK'
  BY <1>1, <1>2, <1>3, <1>4, <1>6, StorageAssumption DEF StorageTypeOK, WellFormed, Shapes
<1>8. Errands'
  BY <1>1, <1>2, <1>3 DEF Errands
<1>9. Ordered'
  <2>1. \A i \in SoundBackups : backups[i].versions \in Nat
    BY DEF SoundBackups, Shapes, WellFormed, Databases
  <2>2. QED
    BY <1>1, <1>2, <1>3, <1>6, <2>1 DEF Ordered
<1>10. Rebuilt'
  <2>1. \A r \in Rebuilding : Covers(r) => Covers(r)'
    <3> SUFFICES ASSUME NEW r \in Rebuilding, Covers(r), NEW v \in 1..disk.versions + 1,
                        v < cursor[r]
                 PROVE  v \in disk'.indexed
      BY <1>1, <1>2 DEF Covers
    <3>1. CASE v = disk.versions + 1
      BY <1>2, <3>1
    <3>2. CASE v # disk.versions + 1
      BY <1>2, <1>3, <3>2 DEF Covers
    <3>3. QED
      BY <3>1, <3>2
  <2>2. Rebuilding' = Rebuilding
    BY <1>1 DEF Rebuilding
  <2>3. QED
    BY <1>1, <1>2, <2>1, <2>2 DEF Rebuilt
<1>11. QED
  BY <1>5, <1>7, <1>8, <1>9, <1>10

(* A step of a rebuild that leaves all but the index and its flags alone.  *)
LEMMA IndexOnly ==
    ASSUME StorageInv, app = "running", disk' \in Databases,
           disk'.sound = disk.sound, disk'.versions = disk.versions,
           disk'.indexed \subseteq 1..disk.versions,
           disk'.indexed # 1..disk.versions => disk'.stale \/ disk'.torn,
           disk'.torn => disk.versions > 0,
           cursor' \in [Rebuilds -> Nat], \A r \in Rebuilds : cursor'[r] <= disk.versions,
           warned' \in BOOLEAN,
           UNCHANGED <<backups, app, backing, pruned, failed, bereft>>
    PROVE  StorageTypeOK' /\ Shapes' /\ Errands' /\ Ordered'
<1> USE DEF StorageInv
<1>1. /\ SoundBackups' = SoundBackups
      /\ disk # NoFile /\ disk.versions \in Nat /\ disk.versions <= MaxVersions
  BY SameBackups DEF StorageTypeOK
<1>2. WellFormed(disk') /\ disk' # NoFile
  <2>1. disk' # NoFile
    <3>1. NoFile.torn /\ NoFile.versions = 0
      BY DEF NoFile, Database
    <3>2. QED
      BY <3>1
  <2>2. QED
    BY <1>1, <2>1 DEF WellFormed
<1>3. Shapes'
  BY <1>2 DEF Shapes
<1>4. StorageTypeOK'
  BY <1>1, <1>2 DEF StorageTypeOK
<1>5. Errands' /\ Ordered'
  BY <1>1, <1>2 DEF Errands, Ordered
<1>6. QED
  BY <1>3, <1>4, <1>5

LEMMA RebuildBeginsKeeps ==
    ASSUME NEW r \in Rebuilds
    PROVE  StorageInv /\ RebuildBegins(r) => StorageInv'
<1> SUFFICES ASSUME StorageInv, RebuildBegins(r) PROVE StorageInv'
  OBVIOUS
<1> USE DEF StorageInv
<1>1. /\ app = "running" /\ cursor[r] = 0 /\ cursor \in [Rebuilds -> Nat]
      /\ UNCHANGED <<backups, app, backing, pruned, failed, bereft>>
      /\ failed \in BOOLEAN /\ warned \in BOOLEAN
  BY DEF RebuildBegins, Shapes
<1>2. /\ disk \in Databases /\ disk.versions \in Nat
      /\ disk.torn => disk.versions > 0
  BY <1>1 DEF Shapes, WellFormed, Databases, StorageTypeOK
<1>3. CASE disk.versions = 0
  <2>1. disk' = Unflag(Flag(disk), r) /\ warned' = FALSE /\ cursor' = cursor
    BY <1>3 DEF RebuildBegins
  <2>2. \A q \in Rebuilds : cursor[q] = 0
    BY <1>1, <1>3 DEF StorageTypeOK
  <2>3. /\ disk' \in Databases /\ disk'.sound = disk.sound
        /\ disk'.versions = disk.versions /\ disk'.indexed = {} /\ ~disk'.stale
        /\ disk'.torn <=> failed \/ Others(r) # {}
    BY <1>1, <1>2, <2>1, Flagged, Unflagged
  <2>4. ~disk'.torn
    BY <1>3, <2>2, <2>3 DEF Others, Errands
  <2>5. 1..disk.versions = {}
    BY <1>3
  <2>6. StorageTypeOK' /\ Shapes' /\ Errands' /\ Ordered'
    <3>1. /\ disk' \in Databases /\ disk'.sound = disk.sound
          /\ disk'.versions = disk.versions /\ disk'.indexed \subseteq 1..disk.versions
          /\ disk'.indexed = 1..disk.versions /\ ~disk'.torn
      BY <2>3, <2>4, <2>5
    <3>2. cursor' \in [Rebuilds -> Nat] /\ \A q \in Rebuilds : cursor'[q] <= disk.versions
      BY <1>1, <1>3, <2>1, <2>2
    <3>3. warned' \in BOOLEAN
      BY <2>1
    <3>4. QED
      BY <1>1, <3>1, <3>2, <3>3, IndexOnly
  <2>7. Rebuilt'
    BY <2>1, <2>2, <2>3 DEF Rebuilt, Rebuilding
  <2>8. QED
    BY <2>6, <2>7
<1>4. CASE disk.versions # 0
  <2>1. disk' = Flag(disk) /\ cursor' = [cursor EXCEPT ![r] = 1] /\ warned' = warned
    BY <1>4 DEF RebuildBegins
  <2>2. /\ disk' \in Databases /\ disk'.sound = disk.sound
        /\ disk'.versions = disk.versions /\ disk'.indexed = {} /\ disk'.stale
        /\ disk'.torn = disk.torn
    BY <1>2, <2>1, Flagged
  <2>3. cursor' \in [Rebuilds -> Nat] /\ \A q \in Rebuilds : cursor'[q] <= disk.versions
    BY <1>1, <1>2, <1>4, <2>1 DEF StorageTypeOK
  <2>4. StorageTypeOK' /\ Shapes' /\ Errands' /\ Ordered'
    BY <1>1, <1>2, <1>4, <2>1, <2>2, <2>3, IndexOnly
  <2>5. r \in Rebuilding' /\ Covers(r)'
    BY <1>1, <1>2, <2>1, <2>2 DEF Rebuilding, Covers
  <2>6. QED
    BY <2>4, <2>5 DEF Rebuilt
<1>5. QED
  BY <1>3, <1>4

LEMMA RebuildGoesOnKeeps ==
    ASSUME NEW r \in Rebuilds
    PROVE  StorageInv /\ RebuildGoesOn(r) => StorageInv'
<1> SUFFICES ASSUME StorageInv, RebuildGoesOn(r) PROVE StorageInv'
  OBVIOUS
<1> USE DEF StorageInv
<1> DEFINE db == [disk EXCEPT !.indexed = @ \cup {cursor[r]}]
<1>1. /\ app = "running" /\ cursor[r] # 0 /\ cursor \in [Rebuilds -> Nat]
      /\ UNCHANGED <<backups, app, backing, pruned, failed, bereft>>
      /\ failed \in BOOLEAN /\ warned \in BOOLEAN
  BY DEF RebuildGoesOn, Shapes, Errands
<1>2. /\ disk \in Databases /\ disk.versions \in Nat
      /\ disk.indexed \subseteq 1..disk.versions
      /\ disk.indexed # 1..disk.versions => disk.stale \/ disk.torn
      /\ \A q \in Rebuilds : cursor[q] <= disk.versions
  BY <1>1 DEF Shapes, WellFormed, Databases, StorageTypeOK
<1>3. /\ db \in Databases /\ db.sound = disk.sound /\ db.versions = disk.versions
      /\ db.indexed = disk.indexed \cup {cursor[r]}
      /\ db.stale = disk.stale /\ db.torn = disk.torn
  <2>1. {cursor[r]} \in SUBSET Nat
    BY <1>1
  <2>2. QED
    BY <1>2, <2>1, Indexed, Zenon
<1>4. /\ disk.versions > 0
      /\ db.indexed \subseteq 1..disk.versions
      /\ db.indexed # 1..disk.versions => disk.indexed # 1..disk.versions
  BY <1>1, <1>2, <1>3
<1>5. \/ /\ cursor[r] >= disk.versions
         /\ disk' = Unflag(db, r) /\ warned' = FALSE /\ cursor' = [cursor EXCEPT ![r] = 0]
      \/ /\ cursor[r] < disk.versions
         /\ disk' = db /\ cursor' = [cursor EXCEPT ![r] = cursor[r] + 1] /\ warned' = warned
  BY <1>1, <1>2 DEF RebuildGoesOn
<1> HIDE DEF db
<1>6. ASSUME NEW q \in Rebuilding, Covers(q), q # r
      PROVE  \A v \in 1..disk.versions : v < cursor[q] => v \in db.indexed
  BY <1>3, <1>6 DEF Covers
<1>7. CASE /\ cursor[r] >= disk.versions
           /\ disk' = Unflag(db, r) /\ warned' = FALSE
           /\ cursor' = [cursor EXCEPT ![r] = 0]
  <2>1. /\ disk' \in Databases /\ disk'.sound = disk.sound
        /\ disk'.versions = disk.versions /\ disk'.indexed = db.indexed /\ ~disk'.stale
        /\ disk'.torn <=> failed \/ Others(r) # {}
    BY <1>1, <1>3, <1>7, Unflagged
  <2>2. cursor' \in [Rebuilds -> Nat] /\ \A q \in Rebuilds : cursor'[q] <= disk.versions
    BY <1>1, <1>2, <1>7
  <2>3. Covers(r) => db.indexed = 1..disk.versions
    <3> SUFFICES ASSUME Covers(r), NEW v \in 1..disk.versions PROVE v \in db.indexed
      BY <1>4
    <3>1. v < cursor[r] \/ v = cursor[r]
      BY <1>1, <1>2, <1>7
    <3>2. QED
      BY <1>3, <3>1 DEF Covers
  <2>4. /\ Rebuilding' = Others(r) /\ Others(r) \subseteq Rebuilding
        /\ \A q \in Others(r) : q # r /\ cursor'[q] = cursor[q]
        /\ r \in Rebuilding /\ Rebuilding = Others(r) \cup {r}
    BY <1>1, <1>7 DEF Rebuilding, Others
  <2>5. disk'.indexed # 1..disk.versions => disk'.stale \/ disk'.torn
    <3> SUFFICES ASSUME ~failed, Others(r) = {} PROVE db.indexed = 1..disk.versions
      BY <2>1
    <3>1. Covers(r)
      BY <1>1, <2>4 DEF Rebuilt
    <3>2. QED
      BY <2>3, <3>1
  <2>6. StorageTypeOK' /\ Shapes' /\ Errands' /\ Ordered'
    <3>1. /\ disk' \in Databases /\ disk'.sound = disk.sound
          /\ disk'.versions = disk.versions /\ disk'.indexed \subseteq 1..disk.versions
          /\ disk'.torn => disk.versions > 0
      BY <1>4, <2>1
    <3>2. warned' \in BOOLEAN
      BY <1>7
    <3>3. QED
      BY <1>1, <2>2, <2>5, <3>1, <3>2, IndexOnly
  <2>7. Rebuilt'
    <3> SUFFICES ASSUME ~failed, NEW q \in Others(r)
                 PROVE  \E p \in Others(r) : Covers(p)'
      BY <1>1, <2>1, <2>4 DEF Rebuilt
    <3>1. PICK p \in Rebuilding : Covers(p)
      BY <1>1, <2>4 DEF Rebuilt
    <3>2. CASE p = r
      <4>1. db.indexed = 1..disk.versions
        BY <2>3, <3>1, <3>2
      <4>2. Covers(q)'
        BY <2>1, <4>1 DEF Covers
      <4>3. QED
        BY <4>2
    <3>3. CASE p # r
      <4>1. p \in Others(r)
        BY <2>4, <3>3
      <4>2. Covers(p)'
        BY <1>6, <2>1, <2>4, <3>1, <3>3, <4>1 DEF Covers
      <4>3. QED
        BY <4>1, <4>2
    <3>4. QED
      BY <3>2, <3>3
  <2>8. QED
    BY <2>6, <2>7
<1>8. CASE /\ cursor[r] < disk.versions
           /\ disk' = db /\ cursor' = [cursor EXCEPT ![r] = cursor[r] + 1]
           /\ warned' = warned
  <2>1. cursor' \in [Rebuilds -> Nat] /\ \A q \in Rebuilds : cursor'[q] <= disk.versions
    BY <1>1, <1>2, <1>8
  <2>2. disk'.indexed # 1..disk.versions => disk'.stale \/ disk'.torn
    BY <1>2, <1>3, <1>4, <1>8
  <2>3. StorageTypeOK' /\ Shapes' /\ Errands' /\ Ordered'
    BY <1>1, <1>3, <1>4, <1>8, <2>1, <2>2, IndexOnly
  <2>4. Rebuilding' = Rebuilding
    BY <1>1, <1>8 DEF Rebuilding
  <2>5. \A q \in Rebuilding : Covers(q) => Covers(q)'
    <3> SUFFICES ASSUME NEW q \in Rebuilding, Covers(q), NEW v \in 1..disk.versions,
                        v < cursor'[q]
                 PROVE  v \in db.indexed
      BY <1>3, <1>8 DEF Covers
    <3>1. CASE q = r
      <4>1. v < cursor[r] \/ v = cursor[r]
        BY <1>1, <1>2, <1>8, <3>1
      <4>2. QED
        BY <1>3, <3>1, <4>1 DEF Covers
    <3>2. CASE q # r
      BY <1>1, <1>6, <1>8, <3>2 DEF Rebuilding
    <3>3. QED
      BY <3>1, <3>2
  <2>6. Rebuilt'
    BY <1>1, <1>3, <1>8, <2>4, <2>5 DEF Rebuilt
  <2>7. QED
    BY <2>3, <2>6
<1>9. QED
  BY <1>5, <1>7, <1>8

LEMMA RebuildFailsKeeps ==
    ASSUME NEW r \in Rebuilds
    PROVE  StorageInv /\ RebuildFails(r) => StorageInv'
<1> SUFFICES ASSUME StorageInv, RebuildFails(r) PROVE StorageInv'
  OBVIOUS
<1> USE DEF StorageInv
<1>1. /\ app = "running" /\ cursor[r] # 0 /\ cursor \in [Rebuilds -> Nat]
      /\ cursor' = [cursor EXCEPT ![r] = 0] /\ failed' = TRUE
      /\ UNCHANGED <<disk, backups, app, backing, pruned, warned, bereft>>
      /\ SoundBackups' = SoundBackups
  BY SameBackups DEF RebuildFails, Shapes, Errands
<1>2. disk.versions \in Nat /\ disk.versions > 0
  BY <1>1 DEF StorageTypeOK
<1>3. StorageTypeOK' /\ Shapes'
  BY <1>1, <1>2 DEF StorageTypeOK, Shapes
<1>4. Errands' /\ Ordered' /\ Rebuilt'
  BY <1>1, <1>2 DEF Errands, Ordered, Rebuilt
<1>5. QED
  BY <1>3, <1>4

-----------------------------------------------------------------------------
LEMMA StorageNextKeeps == StorageInv /\ [StorageNext]_storageVars => StorageInv'
<1> SUFFICES ASSUME StorageInv, [StorageNext]_storageVars PROVE StorageInv'
  OBVIOUS
<1>1. CASE Open \/ MoveAway \/ CopyBegins \/ CopyEnds \/ Stop \/ Damage
  BY <1>1, OpenKeeps, MoveAwayKeeps, CopyBeginsKeeps, CopyEndsKeeps, StopKeeps, DamageKeeps
<1>2. CASE BackupBegins \/ BackupFails \/ BackupCopied \/ Prune
  BY <1>2, BackupBeginsKeeps, BackupFailsKeeps, BackupCopiedKeeps, PruneKeeps
<1>3. CASE Record
  BY <1>3, RecordKeeps
<1>4. CASE \E r \in Rebuilds : RebuildBegins(r) \/ RebuildGoesOn(r) \/ RebuildFails(r)
  BY <1>4, RebuildBeginsKeeps, RebuildGoesOnKeeps, RebuildFailsKeeps
<1>5. CASE UNCHANGED storageVars
  <2>1. SoundBackups' = SoundBackups
    BY <1>5, SameBackups DEF storageVars
  <2>2. StorageTypeOK' /\ Shapes' /\ Errands' /\ Ordered'
    BY <1>5, <2>1 DEF storageVars, StorageInv, StorageTypeOK, Shapes, Errands, Ordered
  <2>3. Rebuilt'
    BY <1>5 DEF storageVars, StorageInv, Rebuilt, Rebuilding, Covers
  <2>4. QED
    BY <2>2, <2>3 DEF StorageInv
<1>6. QED
  BY <1>1, <1>2, <1>3, <1>4, <1>5 DEF StorageNext

(* The inductive invariant: every copy of the database is well formed, the *)
(* backups are ordered by what they hold, and a rebuild in flight covers   *)
(* what it has passed.                                                     *)
THEOREM StorageInvariant == StorageSpec => []StorageInv
<1>1. QED
  BY StorageInitHolds, StorageNextKeeps, PTL DEF StorageSpec

(* The variables of the store keep their types, and prune() has no more to *)
(* remove than there is (backupManager.ts:65).                             *)
THEOREM StorageTypeCorrect == StorageSpec => []StorageTypeOK
<1>1. StorageInv => StorageTypeOK
  BY DEF StorageInv
<1>2. QED
  BY StorageInvariant, <1>1, PTL

LEMMA InvShowsGaps == StorageInv => GapsAreShown
<1> SUFFICES ASSUME StorageInv, app = "running", \A r \in Rebuilds : cursor[r] = 0,
                    disk.indexed # 1..disk.versions
             PROVE  \/ warned \/ failed
                    \/ disk.torn
  BY DEF GapsAreShown
<1>1. Rebuilding = {}
  BY DEF Rebuilding
<1>2. disk.stale \/ disk.torn
  BY DEF StorageInv, Shapes, WellFormed
<1>3. QED
  BY <1>1, <1>2 DEF StorageInv, Rebuilt

(* A gap in the search index is known of whenever no rebuild is in flight  *)
(* (searchService.ts:126), for any number of rebuilds and of crashes.      *)
THEOREM GapsShown == StorageSpec => []GapsAreShown
<1>1. QED
  BY StorageInvariant, InvShowsGaps, PTL

-----------------------------------------------------------------------------
LEMMA StepStartsFromHistory ==
    StorageInv /\ [StorageNext]_storageVars =>
        (app # "running" /\ app' = "running" /\ ~bereft =>
            \A i \in SoundBackups : disk'.versions >= backups[i].versions)
<1> SUFFICES ASSUME StorageInv, [StorageNext]_storageVars,
                    app # "running", app' = "running", ~bereft,
                    NEW i \in SoundBackups
             PROVE  disk'.versions >= backups[i].versions
  OBVIOUS
<1>1. /\ backups[i].versions \in Nat /\ i \in Nat
      /\ \A j \in SoundBackups : backups[j].versions \in Nat /\ j \in Nat
  BY DEF StorageInv, Shapes, SoundBackups, WellFormed, Databases
<1>2. Open \/ CopyEnds
  BY DEF StorageNext, MoveAway, CopyBegins, Stop, Damage, BackupBegins, BackupFails,
         BackupCopied, Prune, Record, RebuildBegins, RebuildGoesOn, RebuildFails, storageVars
<1>3. CASE Open
  <2>1. /\ app = "down"
        /\ \/ disk = NoFile /\ Run(Empty)
           \/ disk # NoFile /\ disk.sound /\ Run(disk)
           \/ app' = "replacing"
           \/ app' = "safe"
    BY <1>3, Zenon DEF Open
  <2>2. \/ disk = NoFile
        \/ disk # NoFile /\ disk.sound /\ disk' = disk
    BY <2>1 DEF Run
  <2>3. disk # NoFile /\ disk.sound /\ disk' = disk
    BY <2>1, <2>2 DEF StorageInv, Ordered
  <2>4. disk.versions \in Nat
    BY DEF StorageInv, Shapes, WellFormed, Databases
  <2>5. QED
    BY <1>1, <2>3, <2>4 DEF StorageInv, Ordered
<1>4. CASE CopyEnds
  <2>1. NewestValid \in SoundBackups /\ NewestValid <= i /\ disk' = backups[NewestValid]
    BY <1>4, Newest DEF StorageInv, Shapes, CopyEnds, Run
  <2>2. CASE NewestValid = i
    BY <1>1, <2>1, <2>2
  <2>3. CASE NewestValid < i
    BY <1>1, <2>1, <2>3 DEF StorageInv, Ordered
  <2>4. QED
    BY <1>1, <2>1, <2>2, <2>3
<1>5. QED
  BY <1>2, <1>3, <1>4

(* The app never starts with less history than one of its valid backups    *)
(* has (backupManager.ts:91,116), in whatever order the database was       *)
(* damaged, restored, backed up and pruned before.                         *)
THEOREM HistoryIsKept == StorageSpec => StartsFromHistory
<1>1. QED
  BY StorageInvariant, StepStartsFromHistory, PTL DEF StorageSpec, StartsFromHistory
=============================================================================
