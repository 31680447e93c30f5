--------------------------- MODULE RestoreProofs ---------------------------
(***************************************************************************)
(* For any paths, texts, rows, edits and dialogs: the types of a restore   *)
(* beside the queue and the reconciliation, that a restore can be undone,  *)
(* and that a reconciliation mends what a call has left.                   *)
(*                                                                         *)
(* TrackingProofs has the same rows, but not the documents that a restore  *)
(* adds, nor the time between the reopening of a row and its version. The  *)
(* deleted rows of a path are looked at as a set here.                     *)
(***************************************************************************)
EXTENDS Restore, TrackingProofs

-----------------------------------------------------------------------------
(* The rows. Each row with a version is in one place: active at one path,  *)
(* or among the deleted ones of one path.                                  *)
Below(p) == ToSet(graves[p])

Active(f) == \E p \in Paths : tracked[p] = f

ActiveAt(f, p) == /\ \A q \in Paths : tracked[q] = f <=> q = p
                  /\ \A q \in Paths : f \notin Below(q)

DeletedAt(f, p) == /\ \A q \in Paths : tracked[q] # f
                   /\ \A q \in Paths : f \in Below(q) <=> q = p

Placed(f)  == \E p \in Paths : ActiveAt(f, p) \/ DeletedAt(f, p)
Nowhere(f) == \A p \in Paths : tracked[p] # f /\ f \notin Below(p)

RowTypes ==
    /\ tracked \in [Paths -> Files \cup {None}]
    /\ graves \in [Paths -> Seq(Files)]
    /\ \A p \in Paths : IsInjective(graves[p])
    /\ last \in [Files -> Bytes \cup {None}]
    /\ entombed \subseteq Files

RowsOK ==
    /\ RowTypes
    /\ \A f \in Used : Placed(f)
    /\ \A f \in Files \ Used : Nowhere(f)

(* Rows that were reopened and have no version since.                      *)
Raised == {f \in entombed : Active(f)}

(* What is on the disk.                                                    *)
DiskOK ==
    /\ disk \in [Paths -> Bytes \cup {None}]
    /\ edits \in Nat /\ failures \in Nat

(* The queue and the correlator.                                           *)
Read == [step : Steps, doc : Bytes \cup {None}]
Held == [file : Files, doc : Bytes]

TimersOK ==
    /\ timer \in [Paths -> Kinds \cup {None}]
    /\ parked \in [Paths -> Kinds \cup {None}]

TasksOK ==
    /\ task \in [Paths -> Read]
    /\ \A p \in Paths : task[p].step = "record" => task[p].doc # None

HeldOK ==
    /\ held \in [Paths -> Held \cup {None}]
    /\ \A p \in Paths : held[p] # None => held[p].file \in Used

(* The reconciliation.                                                     *)
Visits == [path : Paths, doc : Bytes \cup {None}]

SweepOK ==
    /\ phase \in {"none", "scan", "capture"}
    /\ todo \in Seq(Paths)
    /\ found \in [Paths -> Bytes \cup {None}]
    /\ item \in Visits \cup {None}
    /\ phase \in {"none", "scan"} => item = None

TrackedOK == DiskOK /\ RowsOK /\ TimersOK /\ TasksOK /\ HeldOK /\ SweepOK

(* The timelines.                                                          *)
KeptOK ==
    /\ kept \in [Files -> SUBSET Texts]
    /\ \A f \in Used : last[f].text \in kept[f]

(* The dialog and the call.                                                *)
Calls == [step : {"dialog", "read", "keep", "space", "look", "name", "peek", "displace", "write",
                  "stat", "activate", "record"},
          kind : {"restore", "recover"}, file : Files, text : Texts, path : Paths, home : Paths,
          expected : Texts \cup {None}, force : BOOLEAN,
          onConflict : {None, "fail", "rename", "replace"}, occupant : Files \cup {None},
          doc : Bytes \cup {None}]

(* What a call has read is recorded before it writes, and what it found    *)
(* at the path is not the row that it is about.                            *)
CallOK ==
    /\ job.file \in Used
    /\ job.step \in {"keep", "displace"} => job.doc # None
    /\ job.step = "displace" => job.occupant \in Used \ {job.file}
    /\ job.step \in {"look", "name", "peek", "displace"} => job.kind = "recover"
    /\ job.step = "look" => job.onConflict \in {"fail", "rename", "replace"}
    /\ job.step \in {"space", "write"} /\ job.kind = "restore" /\ job.doc # None
          => job.doc.text \in kept[job.file]
    /\ job.step = "record" \/ (job.step = "activate" /\ job.kind = "restore") => job.doc # None

JobOK ==
    /\ jobs \in 0..MaxJobs
    /\ job \in Calls \cup {NoJob}
    /\ job # NoJob => CallOK

(* A row is active without a version only while a call is about to record  *)
(* one for it.                                                             *)
AboutToRecord(f) ==
    /\ job # NoJob /\ job.file = f
    /\ job.step = "record" \/ (job.step = "stat" /\ job.kind = "recover")

RaisedOK == \A f \in Raised : AboutToRecord(f)

(* As far as a reconciliation has come that nothing disturbed: no event    *)
(* waits, and what was listed is what there is. What it has visited is in  *)
(* the store, or looks as if it were.                                      *)
UpToDate(p) ==
    /\ tracked[p] # None
    /\ \/ last[tracked[p]].text = disk[p].text
       \/ /\ last[tracked[p]].mtime = disk[p].mtime
          /\ SameSize(last[tracked[p]].text, disk[p].text)

Visiting(p) == item # None /\ item.path = p

Scanned ==
    phase = "scan" => \A p \in Paths : found[p] = disk[p] \/ p \in ToSet(todo)

Visited ==
    phase = "capture" =>
        /\ \A p \in Paths : found[p] = disk[p]
        /\ \A p \in Paths : disk[p] # None => UpToDate(p) \/ p \in ToSet(todo) \/ Visiting(p)
        /\ item # None => item.doc \in {None, disk[item.path]}

CalmOK ==
    /\ calm \in BOOLEAN
    /\ calm => job = NoJob
    /\ calm /\ phase # "none" /\ MaxFailures = 0 => Quiet /\ Scanned /\ Visited

RestoreInv ==
    /\ TrackedOK
    /\ KeptOK /\ JobOK /\ RaisedOK /\ CalmOK

-----------------------------------------------------------------------------
(* Sequences without repetition, as sets.                                  *)

(* A row is taken out.                                                     *)
LEMMA WithoutFirst ==
    ASSUME NEW S, NEW s \in Seq(S), IsInjective(s), NEW e
    PROVE  LET r == RemoveFirst(s, e) IN
           r \in Seq(S) /\ IsInjective(r) /\ ToSet(r) = ToSet(s) \ {e}
<1> DEFINE r == RemoveFirst(s, e)
<1>1. CASE \A i \in DOMAIN s : s[i] # e
  BY <1>1, RemoveFirstIs DEF ToSet
<1>2. CASE \E i \in DOMAIN s : s[i] = e
  <2>1. PICK n \in DOMAIN s : s[n] = e /\ r = RemoveAt(s, n)
    BY <1>2, RemoveFirstIs
  <2> HIDE DEF r
  <2>2. /\ r \in Seq(S) /\ Len(s) \in Nat /\ DOMAIN s = 1..Len(s)
        /\ DOMAIN r = 1..(Len(s) - 1)
        /\ \A k \in DOMAIN r : r[k] = IF k < n THEN s[k] ELSE s[k + 1]
    BY <2>1, Removal
  <2> DEFINE from(k) == IF k < n THEN k ELSE k + 1
  <2>3. \A k \in DOMAIN r : from(k) \in DOMAIN s /\ from(k) # n /\ r[k] = s[from(k)]
    BY <2>1, <2>2
  <2>4. \A k, l \in DOMAIN r : from(k) = from(l) => k = l
    BY <2>1, <2>2
  <2>5. \A i \in DOMAIN s \ {n} : \E k \in DOMAIN r : i = from(k)
    <3> SUFFICES ASSUME NEW i \in DOMAIN s \ {n} PROVE \E k \in DOMAIN r : i = from(k)
      OBVIOUS
    <3>1. CASE i < n
      BY <2>1, <2>2, <3>1
    <3>2. CASE ~(i < n)
      <4>1. i - 1 \in DOMAIN r /\ i = from(i - 1)
        BY <2>1, <2>2, <3>2
      <4>2. QED
        BY <4>1
    <3>3. QED
      BY <3>1, <3>2
  <2> HIDE DEF from
  <2>6. IsInjective(r)
    BY <2>3, <2>4 DEF IsInjective
  <2>7. ToSet(r) \subseteq ToSet(s) \ {e}
    BY <2>1, <2>3 DEF ToSet, IsInjective
  <2>8. ToSet(s) \ {e} \subseteq ToSet(r)
    BY <2>1, <2>3, <2>5 DEF ToSet
  <2>9. QED
    BY <2>2, <2>6, <2>7, <2>8 DEF r
<1>3. QED
  BY <1>1, <1>2

(* A row is added.                                                         *)
LEMMA WithLast ==
    ASSUME NEW S, NEW s \in Seq(S), IsInjective(s), NEW e \in S, e \notin ToSet(s)
    PROVE  LET r == Append(s, e) IN
           r \in Seq(S) /\ IsInjective(r) /\ ToSet(r) = ToSet(s) \cup {e}
<1> DEFINE r == Append(s, e)
<1>1. Len(s) \in Nat /\ DOMAIN s = 1..Len(s)
  BY LenProperties
<1>2. /\ r \in Seq(S) /\ DOMAIN r = 1..(Len(s) + 1)
      /\ \A i \in DOMAIN s : r[i] = s[i]
      /\ r[Len(s) + 1] = e
  <2>1. /\ r \in Seq(S) /\ Len(r) = Len(s) + 1
        /\ \A i \in 1..Len(s) : r[i] = s[i]
        /\ r[Len(s) + 1] = e
    BY AppendProperties
  <2>2. QED
    BY <1>1, <2>1, LenProperties
<1> HIDE DEF r
<1>3. \A i \in DOMAIN r : i \in DOMAIN s \/ i = Len(s) + 1
  BY <1>1, <1>2
<1>4. \A i \in DOMAIN s : i \in DOMAIN r /\ s[i] # e
  BY <1>1, <1>2 DEF ToSet
<1>5. Len(s) + 1 \in DOMAIN r
  BY <1>1, <1>2
<1>6. IsInjective(r)
  BY <1>2, <1>3, <1>4 DEF IsInjective
<1>7. ToSet(r) = ToSet(s) \cup {e}
  BY <1>2, <1>3, <1>4, <1>5 DEF ToSet
<1>8. QED
  BY <1>2, <1>6, <1>7 DEF r

(* The last row is taken off.                                              *)
LEMMA WithoutLast ==
    ASSUME NEW S, NEW s \in Seq(S), IsInjective(s), s # <<>>
    PROVE  /\ Last(s) \in ToSet(s)
           /\ Front(s) \in Seq(S) /\ IsInjective(Front(s)) /\ ToSet(Front(s)) = ToSet(s) \ {Last(s)}
<1> DEFINE n == Len(s)
<1>1. n \in Nat /\ n >= 1 /\ DOMAIN s = 1..n
  BY EmptySeq, LenProperties
<1>2. Front(s) = SubSeq(s, 1, n - 1) /\ Last(s) = s[n]
  BY DEF Front, Last
<1>3. \A i \in 1..(n - 1) : s[i] \in S
  BY <1>1, ElementOfSeq
<1> HIDE DEF n
<1>4. /\ Front(s) \in Seq(S) /\ DOMAIN Front(s) = 1..(n - 1)
      /\ \A i \in 1..(n - 1) : Front(s)[i] = s[i]
  <2>1. /\ SubSeq(s, 1, n - 1) \in Seq(S)
        /\ Len(SubSeq(s, 1, n - 1)) = IF 1 <= n - 1 THEN n - 1 - 1 + 1 ELSE 0
        /\ \A i \in 1..(n - 1 - 1 + 1) : SubSeq(s, 1, n - 1)[i] = s[1 + i - 1]
    BY <1>1, <1>3, SubSeqProperties
  <2>2. QED
    BY <1>1, <1>2, <2>1, LenProperties
<1>5. \A i \in 1..n : i = n \/ i \in 1..(n - 1)
  BY <1>1
<1>6. \A i \in 1..(n - 1) : i # n /\ i \in 1..n
  BY <1>1
<1>7. n \in 1..n
  BY <1>1
<1>8. IsInjective(Front(s))
  BY <1>1, <1>4, <1>6 DEF IsInjective
<1>9. ToSet(Front(s)) = ToSet(s) \ {Last(s)}
  <2>1. ToSet(s) = {s[i] : i \in 1..n} /\ ToSet(Front(s)) = {s[i] : i \in 1..(n - 1)}
    BY <1>1, <1>4 DEF ToSet
  <2>2. \A i \in 1..(n - 1) : s[i] # s[n]
    BY <1>1, <1>6, <1>7 DEF IsInjective
  <2>3. QED
    BY <1>2, <1>5, <1>6, <2>1, <2>2
<1>10. QED
  BY <1>1, <1>2, <1>4, <1>7, <1>8, <1>9 DEF ToSet

(* A walk comes to all of its paths.                                       *)
LEMMA WalkCovers ==
    ASSUME NEW ps \in SUBSET Paths
    PROVE  ToSet(Walk(ps)) = ps
<1> DEFINE n == Cardinality(ps)
<1>1. IsFiniteSet(ps)
  BY VaultAssumption, FS_Subset
<1>2. n \in Nat /\ \E f \in [1..n -> ps] : IsInjective(f)
  BY <1>1, FS_CardinalityType DEF ExistsBijection, Bijection, Injection
<1>3. Walk(ps) \in Injection(1..n, ps)
  BY <1>2 DEF Walk, SetToSeq, Injection
<1>4. Cardinality(1..n) = n
  BY <1>2, FS_Interval
<1> HIDE DEF n
<1>5. Walk(ps) \in Surjection(1..n, ps)
  BY <1>1, <1>3, <1>4, FS_Injection DEF n
<1>6. QED
  BY <1>5 DEF Surjection, ToSet

-----------------------------------------------------------------------------
(* What a step does to the rows.                                           *)
Same(g) == /\ \A q \in Paths : tracked'[q] = g <=> tracked[q] = g
           /\ \A q \in Paths : g \in Below(q)' <=> g \in Below(q)

RowStep == RowsOK' /\ Used \subseteq Used' /\ Raised' \subseteq Raised

(* Nothing is taken for what it is not.                                    *)
LEMMA NothingIsApart ==
    /\ None \notin Bytes /\ None \notin Files /\ None \notin Paths /\ None \notin Kinds
    /\ None \notin Texts /\ None \notin Nat
    /\ None \notin [file : Files, doc : Bytes] /\ None \notin [path : Paths, doc : Bytes \cup {None}]
<1>1. Files \subseteq Nat
  BY VaultAssumption DEF Files
<1>2. None \notin Kinds
  BY TrackingAssumption
<1>3. QED
  BY <1>1, <1>2, VaultAssumption, RestoreAssumption

(* A version is recorded for a row.                                        *)
LEMMA CommitSets ==
    ASSUME RowTypes, NEW f \in Files, NEW doc \in Bytes, Commit(f, doc)
    PROVE  /\ last' \in [Files -> Bytes \cup {None}] /\ entombed' \subseteq Files
           /\ last'[f] = doc /\ \A g \in Files \ {f} : last'[g] = last[g]
           /\ Used' = Used \cup {f} /\ entombed' = entombed \ {f}
  BY NothingIsApart DEF RowTypes, Commit, Used

(* Where a row is, if it is not nowhere.                                   *)
LEMMA RowIs ==
    ASSUME RowsOK
    PROVE  /\ \A p \in Paths : tracked[p] # None =>
                 tracked[p] \in Used /\ tracked[p] \in Files /\ ActiveAt(tracked[p], p)
           /\ \A p \in Paths : \A f \in Below(p) : f \in Used /\ f \in Files /\ DeletedAt(f, p)
           /\ \A p \in Paths : graves[p] \in Seq(Files) /\ IsInjective(graves[p])
<1>1. \A p \in Paths : Below(p) \subseteq Files
  BY ElementOfSeq, LenProperties DEF RowsOK, RowTypes, Below, ToSet
<1>2. ASSUME NEW p \in Paths, NEW f \in Files, tracked[p] = f \/ f \in Below(p)
      PROVE  f \in Used /\ (tracked[p] = f => ActiveAt(f, p)) /\ (f \in Below(p) => DeletedAt(f, p))
  BY <1>2 DEF RowsOK, Placed, Nowhere, ActiveAt, DeletedAt
<1>3. QED
  BY <1>1, <1>2 DEF RowsOK, RowTypes

(* One row moves, and wherever it is then, it is there only.               *)
LEMMA RowPut ==
    ASSUME RowsOK, NEW f \in Files,
           tracked' \in [Paths -> Files \cup {None}], graves' \in [Paths -> Seq(Files)],
           \A q \in Paths : IsInjective(graves'[q]),
           last' \in [Files -> Bytes \cup {None}], entombed' \subseteq Files,
           Used' = Used \cup {f}, \A g \in Files \ {f} : Same(g), Placed(f)'
    PROVE  RowsOK'
<1>1. RowTypes'
  BY DEF RowTypes
<1>2. ASSUME NEW g \in Files \ {f} PROVE (Placed(g) => Placed(g)') /\ (Nowhere(g) => Nowhere(g)')
  <2>1. Same(g)
    OBVIOUS
  <2>2. Nowhere(g) => Nowhere(g)'
    BY <2>1 DEF Same, Nowhere
  <2>3. ASSUME NEW p \in Paths
        PROVE  (ActiveAt(g, p) => ActiveAt(g, p)') /\ (DeletedAt(g, p) => DeletedAt(g, p)')
    BY <2>1 DEF Same, ActiveAt, DeletedAt
  <2>4. QED
    BY <2>2, <2>3 DEF Placed
<1>3. \A g \in Used' : Placed(g)'
  BY <1>2 DEF RowsOK, Used
<1>4. \A g \in Files \ Used' : Nowhere(g)'
  BY <1>2 DEF RowsOK
<1>5. QED
  BY <1>1, <1>3, <1>4 DEF RowsOK

(* It gets a version.                                                      *)
LEMMA OneRowMoves ==
    ASSUME RowsOK, NEW f \in Files, NEW doc \in Bytes, Commit(f, doc),
           tracked' \in [Paths -> Files \cup {None}], graves' \in [Paths -> Seq(Files)],
           \A q \in Paths : IsInjective(graves'[q]),
           \A g \in Files \ {f} : Same(g), Placed(f)'
    PROVE  RowStep /\ f \notin Raised'
<1>1. /\ last' \in [Files -> Bytes \cup {None}] /\ entombed' \subseteq Files
      /\ Used' = Used \cup {f} /\ entombed' = entombed \ {f}
  BY CommitSets DEF RowsOK
<1>2. RowsOK'
  BY <1>1, RowPut
<1>3. \A g \in Files \ {f} : Active(g)' => Active(g)
  BY DEF Same, Active
<1>4. Raised' \subseteq Raised /\ f \notin Raised'
  BY <1>1, <1>3 DEF Raised
<1>5. QED
  BY <1>1, <1>2, <1>4 DEF RowStep

(* Where the deleted rows of every path lose f and, at p, may gain it.     *)
LEMMA GravesWithout ==
    ASSUME RowsOK, NEW f \in Files
    PROVE  \A q \in Paths :
              LET r == RemoveFirst(graves[q], f) IN
              /\ r \in Seq(Files) /\ IsInjective(r) /\ ToSet(r) = Below(q) \ {f}
              /\ Append(r, f) \in Seq(Files) /\ IsInjective(Append(r, f))
              /\ ToSet(Append(r, f)) = Below(q) \cup {f}
<1> SUFFICES ASSUME NEW q \in Paths
             PROVE  LET r == RemoveFirst(graves[q], f) IN
                    /\ r \in Seq(Files) /\ IsInjective(r) /\ ToSet(r) = Below(q) \ {f}
                    /\ Append(r, f) \in Seq(Files) /\ IsInjective(Append(r, f))
                    /\ ToSet(Append(r, f)) = Below(q) \cup {f}
  OBVIOUS
<1> DEFINE s == graves[q]
           r == RemoveFirst(s, f)
<1>1. s \in Seq(Files) /\ IsInjective(s) /\ ToSet(s) = Below(q)
  BY RowIs DEF Below
<1> HIDE DEF s
<1>2. r \in Seq(Files) /\ IsInjective(r) /\ ToSet(r) = Below(q) \ {f}
  BY <1>1, WithoutFirst
<1> HIDE DEF r
<1>3. /\ Append(r, f) \in Seq(Files) /\ IsInjective(Append(r, f))
      /\ ToSet(Append(r, f)) = (Below(q) \ {f}) \cup {f}
  BY <1>2, WithLast
<1>4. QED
  BY <1>2, <1>3 DEF r, s

(* Where no row changes.                                                   *)
LEMMA RowsRest ==
    ASSUME RowsOK, UNCHANGED rowVars
    PROVE  RowStep
<1> USE DEF rowVars
<1>1. \A q \in Paths : Below(q)' = Below(q)
  BY DEF Below
<1>2. \A g \in Files : (Placed(g) => Placed(g)') /\ (Nowhere(g) => Nowhere(g)')
  <2>1. \A g \in Files : Nowhere(g) => Nowhere(g)'
    BY <1>1 DEF Nowhere
  <2>2. \A g \in Files : \A p \in Paths :
           (ActiveAt(g, p) => ActiveAt(g, p)') /\ (DeletedAt(g, p) => DeletedAt(g, p)')
    BY <1>1 DEF ActiveAt, DeletedAt
  <2>3. QED
    BY <2>1, <2>2 DEF Placed
<1>3. RowTypes' /\ Used' = Used
  BY DEF RowsOK, RowTypes, Used
<1>4. Raised' = Raised
  BY DEF Raised, Active
<1>5. QED
  BY <1>2, <1>3, <1>4 DEF RowsOK, RowStep, Used

(* What captureFromDisk records of a path is what the path has then, and   *)
(* nothing else is recorded.                                               *)
RecordedAt(p, doc) ==
    /\ tracked'[p] \in Files /\ last'[tracked'[p]].text = doc.text
    /\ \A q \in Paths \ {p} :
          /\ tracked'[q] = tracked[q]
          /\ tracked[q] # None => last'[tracked[q]] = last[tracked[q]]

(* The row at the path has the bytes, or gets a version of them.           *)
LEMMA KnownSteps ==
    ASSUME RowsOK, NEW p \in Paths, NEW doc \in Bytes, RecordKnown(p, doc)
    PROVE  RowStep /\ RecordedAt(p, doc)
<1>1. PICK f \in Files : tracked[p] = f /\ ActiveAt(f, p)
  BY RowIs DEF RecordKnown
<1>2. tracked' = tracked /\ graves' = graves
  BY DEF RecordKnown
<1>3. \A q \in Paths \ {p} : tracked[q] # None => tracked[q] \in Files \ {f}
  BY <1>1, RowIs DEF ActiveAt
<1>4. CASE Known(f, doc)
  <2>1. last' = last /\ entombed' = entombed
    BY <1>1, <1>4 DEF RecordKnown
  <2>2. RowStep
    BY <1>2, <2>1, RowsRest DEF rowVars
  <2>3. QED
    BY <1>1, <1>2, <1>4, <2>1, <2>2 DEF RecordedAt, Known
<1>5. CASE ~Known(f, doc)
  <2>1. Commit(f, doc)
    BY <1>1, <1>5 DEF RecordKnown
  <2>2. last'[f] = doc /\ \A g \in Files \ {f} : last'[g] = last[g]
    BY <2>1, CommitSets DEF RowsOK
  <2>3. \A g \in Files : Same(g)
    BY <1>2 DEF Same, Below
  <2>4. Placed(f)'
    BY <1>1, <1>2 DEF Placed, ActiveAt, Below
  <2>5. /\ tracked' \in [Paths -> Files \cup {None}] /\ graves' \in [Paths -> Seq(Files)]
        /\ \A q \in Paths : IsInjective(graves'[q])
    BY <1>2 DEF RowsOK, RowTypes
  <2>6. RowStep
    BY <2>1, <2>3, <2>4, <2>5, OneRowMoves
  <2>7. QED
    BY <1>1, <1>2, <1>3, <2>2, <2>6 DEF RecordedAt
<1>6. QED
  BY <1>4, <1>5

(* A row that was not active becomes so at a path where none is.           *)
LEMMA RowComes ==
    ASSUME RowsOK, NEW p \in Paths, NEW doc \in Bytes, NEW f \in Files, tracked[p] = None,
           \A q \in Paths : tracked[q] # f, Commit(f, doc), tracked' = [tracked EXCEPT ![p] = f],
           graves' \in [Paths -> Seq(Files)],
           \A q \in Paths : IsInjective(graves'[q]) /\ Below(q)' = Below(q) \ {f}
    PROVE  RowStep /\ RecordedAt(p, doc)
<1>1. \A q \in Paths : tracked'[q] = IF q = p THEN f ELSE tracked[q]
  BY DEF RowsOK, RowTypes
<1>2. tracked' \in [Paths -> Files \cup {None}]
  BY DEF RowsOK, RowTypes
<1>3. \A g \in Files \ {f} : Same(g)
  BY <1>1, NothingIsApart DEF Same
<1>4. Placed(f)'
  BY <1>1 DEF Placed, ActiveAt
<1>5. last'[f] = doc /\ \A g \in Files \ {f} : last'[g] = last[g]
  BY CommitSets DEF RowsOK
<1>6. RowStep
  BY <1>2, <1>3, <1>4, OneRowMoves
<1>7. \A q \in Paths \ {p} : tracked[q] # None => tracked[q] \in Files \ {f}
  BY RowIs
<1>8. QED
  BY <1>1, <1>5, <1>6, <1>7 DEF RecordedAt

(* Whichever row it is.                                                    *)
LEMMA RecordSteps ==
    ASSUME RowsOK, NEW p \in Paths, NEW doc \in Bytes, Record(p, doc)
    PROVE  RowStep /\ RecordedAt(p, doc)
<1>1. CASE RecordReturned(p, doc)
  <2> DEFINE s == graves[p]
             f == Last(s)
  <2>1. s \in Seq(Files) /\ IsInjective(s) /\ s # <<>> /\ tracked[p] = None /\ ToSet(s) = Below(p)
    BY <1>1, RowIs DEF RecordReturned, IsBack, Below
  <2>2. /\ tracked' = [tracked EXCEPT ![p] = f] /\ Commit(f, doc)
        /\ graves' = [graves EXCEPT ![p] = Front(s)]
    BY <1>1 DEF RecordReturned
  <2> HIDE DEF s
  <2>3. /\ f \in Below(p) /\ Front(s) \in Seq(Files) /\ IsInjective(Front(s))
        /\ ToSet(Front(s)) = Below(p) \ {f}
    BY <2>1, WithoutLast
  <2> HIDE DEF f
  <2>4. f \in Files /\ DeletedAt(f, p)
    BY <2>3, RowIs
  <2>5. \A q \in Paths : graves'[q] = IF q = p THEN Front(s) ELSE graves[q]
    BY <2>2 DEF RowsOK, RowTypes
  <2>6. graves' \in [Paths -> Seq(Files)]
    BY <2>2, <2>3 DEF RowsOK, RowTypes
  <2>7. \A q \in Paths : IsInjective(graves'[q])
    BY <2>3, <2>5, RowIs
  <2>8. \A q \in Paths : Below(q)' = Below(q) \ {f}
    BY <2>3, <2>4, <2>5 DEF Below, DeletedAt
  <2>9. QED
    BY <2>1, <2>2, <2>4, <2>6, <2>7, <2>8, RowComes DEF DeletedAt
<1>2. CASE RecordNew(p, doc)
  <2>1. PICK f \in Files \ Used : tracked' = [tracked EXCEPT ![p] = f] /\ Commit(f, doc)
    BY <1>2 DEF RecordNew
  <2>2. Nowhere(f) /\ graves' = graves /\ tracked[p] = None
    BY <1>2 DEF RowsOK, RecordNew
  <2>3. graves' \in [Paths -> Seq(Files)]
    BY <2>2 DEF RowsOK, RowTypes
  <2>4. \A q \in Paths : IsInjective(graves'[q]) /\ Below(q)' = Below(q) \ {f}
    BY <2>2, RowIs DEF Nowhere, Below
  <2>5. QED
    BY <2>1, <2>2, <2>3, <2>4, RowComes DEF Nowhere
<1>3. QED
  BY <1>1, <1>2, KnownSteps DEF Record

(* A held deletion is claimed.                                             *)
LEMMA ClaimSteps ==
    ASSUME RowsOK, NEW f \in Used, NEW p \in Paths, NEW doc \in Bytes, RecordClaimed(f, p, doc)
    PROVE  RowStep
<1>1. f \in Files /\ Commit(f, doc) /\ tracked[p] = None
  BY DEF Used, RecordClaimed
<1>2. \A q \in Paths : tracked'[q] = IF q = p THEN f ELSE IF tracked[q] = f THEN None ELSE tracked[q]
  BY DEF RecordClaimed
<1>3. \A q \in Paths : graves'[q] = RemoveFirst(graves[q], f)
  BY DEF RecordClaimed
<1>4. tracked' \in [Paths -> Files \cup {None}]
  BY <1>1 DEF RecordClaimed, RowsOK, RowTypes
<1>5. \A q \in Paths : graves'[q] \in Seq(Files) /\ IsInjective(graves'[q]) /\ Below(q)' = Below(q) \ {f}
  BY <1>1, <1>3, GravesWithout DEF Below
<1>6. graves' \in [Paths -> Seq(Files)]
  <2>1. graves' = [q \in Paths |-> graves'[q]]
    BY DEF RecordClaimed
  <2>2. QED
    BY <1>5, <2>1
<1>7. \A g \in Files \ {f} : Same(g)
  BY <1>1, <1>2, <1>5, NothingIsApart DEF Same
<1>8. Placed(f)'
  BY <1>1, <1>2, <1>5, NothingIsApart DEF Placed, ActiveAt
<1>9. QED
  BY <1>1, <1>4, <1>5, <1>6, <1>7, <1>8, OneRowMoves

(* Rows are buried at the paths where they are active, while the deleted   *)
(* ones of a path may change places.                                       *)
LEMMA RowsBuried ==
    ASSUME RowsOK, NEW ps \in SUBSET Paths, \A p \in ps : tracked[p] # None,
           NEW rows \in [Paths -> Seq(Files)],
           \A p \in Paths : IsInjective(rows[p]) /\ ToSet(rows[p]) = Below(p),
           graves' = [p \in Paths |-> IF p \in ps THEN Append(rows[p], tracked[p]) ELSE rows[p]],
           tracked' = [p \in Paths |-> IF p \in ps THEN None ELSE tracked[p]],
           last' \in [Files -> Bytes \cup {None}], Used' = Used, entombed' \subseteq Files
    PROVE  /\ RowsOK'
           /\ \A g \in Files : Active(g)' => Active(g)
           /\ \A p \in ps : \A q \in Paths : tracked'[q] # tracked[p]
<1>1. \A p \in Paths : tracked'[p] = IF p \in ps THEN None ELSE tracked[p]
  OBVIOUS
<1>2. \A p \in ps : tracked[p] \in Files /\ ActiveAt(tracked[p], p)
  BY RowIs
<1>3. \A p \in Paths :
         /\ graves'[p] \in Seq(Files) /\ IsInjective(graves'[p])
         /\ Below(p)' = IF p \in ps THEN Below(p) \cup {tracked[p]} ELSE Below(p)
  <2>1. ASSUME NEW p \in ps
        PROVE  LET r == Append(rows[p], tracked[p]) IN
               r \in Seq(Files) /\ IsInjective(r) /\ ToSet(r) = ToSet(rows[p]) \cup {tracked[p]}
    <3>1. rows[p] \in Seq(Files) /\ IsInjective(rows[p]) /\ tracked[p] \in Files
      BY <1>2
    <3>2. tracked[p] \notin ToSet(rows[p])
      BY <1>2 DEF ActiveAt
    <3>3. QED
      BY <3>1, <3>2, WithLast
  <2>2. \A p \in Paths : graves'[p] = IF p \in ps THEN Append(rows[p], tracked[p]) ELSE rows[p]
    OBVIOUS
  <2>3. QED
    BY <2>1, <2>2 DEF Below
<1>4. RowTypes'
  <2>1. graves' = [p \in Paths |-> graves'[p]]
    OBVIOUS
  <2>2. graves' \in [Paths -> Seq(Files)]
    BY <1>3, <2>1
  <2>3. tracked' \in [Paths -> Files \cup {None}]
    BY DEF RowsOK, RowTypes
  <2>4. QED
    BY <1>3, <2>2, <2>3 DEF RowTypes
<1>5. ASSUME NEW g \in Files, NEW p \in ps, tracked[p] = g
      PROVE  Placed(g) /\ Placed(g)' /\ ~Active(g)'
  <2>1. ActiveAt(g, p)
    BY <1>2, <1>5
  <2>2. \A q \in Paths : tracked'[q] # g
    BY <1>1, <2>1, NothingIsApart DEF ActiveAt
  <2>3. \A q \in Paths : g \in Below(q)' <=> q = p
    BY <1>3, <1>5, <2>1 DEF ActiveAt
  <2>4. DeletedAt(g, p)'
    BY <2>2, <2>3 DEF DeletedAt
  <2>5. QED
    BY <2>1, <2>2, <2>4 DEF Placed, Active
<1>6. ASSUME NEW g \in Files, \A p \in ps : tracked[p] # g
      PROVE  (Placed(g) => Placed(g)') /\ (Nowhere(g) => Nowhere(g)')
  <2>1. Same(g)
    BY <1>1, <1>3, <1>6, NothingIsApart DEF Same
  <2>2. Nowhere(g) => Nowhere(g)'
    BY <2>1 DEF Same, Nowhere
  <2>3. ASSUME NEW p \in Paths
        PROVE  (ActiveAt(g, p) => ActiveAt(g, p)') /\ (DeletedAt(g, p) => DeletedAt(g, p)')
    BY <2>1 DEF Same, ActiveAt, DeletedAt
  <2>4. QED
    BY <2>2, <2>3 DEF Placed
<1>7. \A g \in Used' : Placed(g)'
  BY <1>5, <1>6 DEF RowsOK, Used
<1>8. \A g \in Files \ Used' : Nowhere(g)'
  BY <1>2, <1>6, RowIs DEF RowsOK
<1>9. \A g \in Files : Active(g)' => Active(g)
  BY <1>1, NothingIsApart DEF Active
<1>10. \A p \in ps : \A q \in Paths : tracked'[q] # tracked[p]
  BY <1>1, <1>2, NothingIsApart DEF Active, ActiveAt
<1>11. QED
  BY <1>4, <1>7, <1>8, <1>9, <1>10 DEF RowsOK

(* Deletions are recorded.                                                 *)
LEMMA BurySteps ==
    ASSUME RowsOK, NEW ps \in SUBSET Paths, \A p \in ps : MayBury(p), BuryAll(ps)
    PROVE  RowStep
<1>1. \A p \in ps : tracked[p] # None /\ tracked[p] \in Files
  BY RowIs DEF MayBury
<1>2. /\ graves' = [p \in Paths |-> IF p \in ps THEN Append(graves[p], tracked[p]) ELSE graves[p]]
      /\ tracked' = [p \in Paths |-> IF p \in ps THEN None ELSE tracked[p]]
      /\ entombed' = entombed \cup {tracked[p] : p \in ps} /\ last' = last
  BY DEF BuryAll
<1>3. /\ graves \in [Paths -> Seq(Files)] /\ last' \in [Files -> Bytes \cup {None}]
      /\ entombed' \subseteq Files
      /\ \A p \in Paths : IsInjective(graves[p]) /\ ToSet(graves[p]) = Below(p)
  BY <1>1, <1>2 DEF RowsOK, RowTypes, Below
<1>4. Used' = Used
  BY <1>2 DEF Used
<1>5. /\ RowsOK'
      /\ \A g \in Files : Active(g)' => Active(g)
      /\ \A p \in ps : \A q \in Paths : tracked'[q] # tracked[p]
  BY <1>1, <1>2, <1>3, <1>4, RowsBuried
<1>6. Raised' \subseteq Raised
  <2> SUFFICES ASSUME NEW g \in Raised' PROVE g \in Raised
    OBVIOUS
  <2>1. g \in entombed' /\ Active(g)'
    BY DEF Raised
  <2>2. g \in Files /\ Active(g)
    BY <1>3, <1>5, <2>1
  <2>3. CASE g \in entombed
    BY <2>2, <2>3 DEF Raised
  <2>4. CASE g \notin entombed
    <3>1. PICK p \in ps : g = tracked[p]
      BY <1>2, <2>1, <2>4
    <3>2. QED
      BY <1>5, <2>1, <3>1 DEF Active
  <2>5. QED
    BY <2>3, <2>4
<1>7. QED
  BY <1>4, <1>5, <1>6 DEF RowStep

(* The row that a version was recorded for is the latest of its path.      *)
LEMMA LatestRow ==
    ASSUME RowsOK, NEW f \in Files, NEW q \in Paths
    PROVE  LET r == IF f \in ToSet(graves[q]) THEN Append(RemoveFirst(graves[q], f), f) ELSE graves[q] IN
           r \in Seq(Files) /\ IsInjective(r) /\ ToSet(r) = Below(q)
<1> DEFINE a == Append(RemoveFirst(graves[q], f), f)
<1>1. a \in Seq(Files) /\ IsInjective(a) /\ ToSet(a) = Below(q) \cup {f}
  BY GravesWithout
<1>2. graves[q] \in Seq(Files) /\ IsInjective(graves[q]) /\ ToSet(graves[q]) = Below(q)
  BY RowIs DEF Below
<1> HIDE DEF a
<1>3. LET r == IF f \in ToSet(graves[q]) THEN a ELSE graves[q] IN
      r \in Seq(Files) /\ IsInjective(r) /\ ToSet(r) = Below(q)
  <2>1. CASE f \in ToSet(graves[q])
    BY <1>1, <1>2, <2>1
  <2>2. CASE f \notin ToSet(graves[q])
    BY <1>2, <2>2
  <2>3. QED
    BY <2>1, <2>2
<1>4. QED
  BY <1>3 DEF a

(* captureBytes.                                                           *)
LEMMA CaptureSteps ==
    ASSUME RowsOK, NEW f \in Used, NEW doc \in Bytes, CaptureBytes(f, doc)
    PROVE  RowStep /\ f \notin Raised' /\ last'[f] = doc
<1>1. f \in Files /\ Commit(f, doc) /\ tracked' = tracked /\ Placed(f)
  BY DEF Used, CaptureBytes, RowsOK
<1>2. \A q \in Paths : graves'[q] \in Seq(Files) /\ IsInjective(graves'[q]) /\ Below(q)' = Below(q)
  BY <1>1, LatestRow DEF CaptureBytes, Below
<1>3. graves' \in [Paths -> Seq(Files)]
  <2>1. graves' = [q \in Paths |-> graves'[q]]
    BY DEF CaptureBytes
  <2>2. QED
    BY <1>2, <2>1
<1>4. tracked' \in [Paths -> Files \cup {None}]
  BY <1>1 DEF RowsOK, RowTypes
<1>5. \A g \in Files : Same(g)
  BY <1>1, <1>2 DEF Same
<1>6. Placed(f)'
  <2>1. \A p \in Paths : (ActiveAt(f, p) => ActiveAt(f, p)') /\ (DeletedAt(f, p) => DeletedAt(f, p)')
    BY <1>1, <1>2 DEF ActiveAt, DeletedAt
  <2>2. QED
    BY <1>1, <2>1 DEF Placed
<1>7. RowStep /\ f \notin Raised'
  BY <1>1, <1>2, <1>3, <1>4, <1>5, <1>6, OneRowMoves
<1>8. last'[f] = doc
  BY <1>1, CommitSets DEF RowsOK
<1>9. QED
  BY <1>7, <1>8

-----------------------------------------------------------------------------
(* The steps of a call that move rows.                                     *)

(* Where a row with a version is.                                          *)
LEMMA HomeIs ==
    ASSUME RowsOK, NEW f \in Used
    PROVE  /\ Home(f) \in Paths /\ f \in Files
           /\ IsActive(f) => ActiveAt(f, Home(f))
           /\ ~IsActive(f) => DeletedAt(f, Home(f))
<1>1. PICK p \in Paths : ActiveAt(f, p) \/ DeletedAt(f, p)
  BY DEF RowsOK, Placed
<1>2. Home(f) \in Paths /\ (tracked[Home(f)] = f \/ f \in Below(Home(f)))
  BY <1>1 DEF Home, ActiveAt, DeletedAt, Below
<1>3. f \in Files
  BY DEF Used
<1> HIDE DEF Home
<1>4. QED
  BY <1>1, <1>2, <1>3 DEF IsActive, ActiveAt, DeletedAt

(* The occupant of a path is recorded and buried.                          *)
LEMMA DisplaceSteps ==
    ASSUME RowsOK, CallOK, job \in Calls, Displace
    PROVE  RowStep
<1> DEFINE doc == WithoutInode(job.doc.text, job.doc.mtime)
           f == job.occupant
           p == job.path
           topless == entombed \ {f}
           buried == {q \in {p} : tracked[q] # None /\ tracked[q] \notin topless}
           rows == [q \in Paths |-> IF f \in ToSet(graves[q]) THEN Append(RemoveFirst(graves[q], f), f)
                                    ELSE graves[q]]
<1>1. /\ job.step = "displace" /\ job.doc \in Bytes /\ f \in Used /\ f \in Files /\ p \in Paths
      /\ doc \in Bytes /\ doc # None
  <2>1. job.step = "displace"
    BY DEF Displace
  <2>2. job.doc \in Bytes
    BY <2>1 DEF CallOK, Calls
  <2>3. f \in Used /\ f \in Files /\ p \in Paths
    BY <2>1 DEF CallOK, Calls, Used
  <2>4. doc \in Bytes
    BY <2>2 DEF WithoutInode, Bytes
  <2>5. QED
    BY <2>1, <2>2, <2>3, <2>4, NothingIsApart
<1>2. /\ last' = [last EXCEPT ![f] = doc]
      /\ graves' = [q \in Paths |-> IF q \in buried THEN Append(rows[q], tracked[q]) ELSE rows[q]]
      /\ tracked' = [q \in Paths |-> IF q \in buried THEN None ELSE tracked[q]]
      /\ entombed' = topless \cup {tracked[q] : q \in buried}
  BY DEF Displace
<1>3. buried \in SUBSET Paths /\ \A q \in buried : tracked[q] # None
  BY <1>1
<1>4. \A q \in buried : tracked[q] \in Files
  BY <1>3, RowIs
<1> HIDE DEF doc, f, p, buried
<1>5. rows \in [Paths -> Seq(Files)] /\ \A q \in Paths : IsInjective(rows[q]) /\ ToSet(rows[q]) = Below(q)
  <2>1. \A q \in Paths : rows[q] \in Seq(Files) /\ IsInjective(rows[q]) /\ ToSet(rows[q]) = Below(q)
    BY <1>1, LatestRow
  <2>2. rows = [q \in Paths |-> rows[q]]
    OBVIOUS
  <2> HIDE DEF rows
  <2>3. QED
    BY <2>1, <2>2
<1> HIDE DEF rows
<1>6. last' \in [Files -> Bytes \cup {None}] /\ Used' = Used
  BY <1>1, <1>2 DEF RowsOK, RowTypes, Used
<1>7. entombed' \subseteq Files
  BY <1>2, <1>4 DEF RowsOK, RowTypes
<1>8. /\ RowsOK'
      /\ \A g \in Files : Active(g)' => Active(g)
      /\ \A q \in buried : \A r \in Paths : tracked'[r] # tracked[q]
  BY <1>2, <1>3, <1>5, <1>6, <1>7, RowsBuried
<1>9. Raised' \subseteq Raised
  <2> SUFFICES ASSUME NEW g \in Raised' PROVE g \in Raised
    OBVIOUS
  <2>1. g \in entombed' /\ Active(g)'
    BY DEF Raised
  <2>2. g \in Files /\ Active(g)
    BY <1>7, <1>8, <2>1
  <2>3. CASE g \in entombed
    BY <2>2, <2>3 DEF Raised
  <2>4. CASE g \notin entombed
    <3>1. PICK q \in buried : g = tracked[q]
      BY <1>2, <2>1, <2>4
    <3>2. QED
      BY <1>8, <2>1, <3>1 DEF Active
  <2>5. QED
    BY <2>3, <2>4
<1>10. QED
  BY <1>6, <1>8, <1>9 DEF RowStep

(* The row of the call is made active.                                     *)
LEMMA ActivateSteps ==
    ASSUME RowsOK, CallOK, job \in Calls, Activate
    PROVE  RowsOK' /\ Used' = Used /\ Raised' \subseteq Raised \cup {job.file} /\ last' = last
<1>1. PICK f \in Files, t \in Paths : f = job.file /\ t = Target /\ f \in Used
  BY HomeIs DEF CallOK, Calls, Target
<1>2. /\ tracked[t] \in {None, f} /\ last' = last /\ entombed' = entombed
      /\ tracked' = [q \in Paths |-> IF q = t THEN f ELSE IF tracked[q] = f THEN None ELSE tracked[q]]
      /\ graves' = [q \in Paths |-> RemoveFirst(graves[q], f)]
  BY <1>1 DEF Activate
<1>3. \A q \in Paths : graves'[q] \in Seq(Files) /\ IsInjective(graves'[q]) /\ Below(q)' = Below(q) \ {f}
  BY <1>1, <1>2, GravesWithout DEF Below
<1>4. graves' \in [Paths -> Seq(Files)]
  <2>1. graves' = [q \in Paths |-> graves'[q]]
    BY <1>2
  <2>2. QED
    BY <1>3, <2>1
<1>5. tracked' \in [Paths -> Files \cup {None}]
  BY <1>1, <1>2 DEF RowsOK, RowTypes
<1>6. \A q \in Paths : tracked'[q] = IF q = t THEN f ELSE IF tracked[q] = f THEN None ELSE tracked[q]
  BY <1>2
<1>7. \A g \in Files \ {f} : Same(g)
  BY <1>1, <1>2, <1>3, <1>6, NothingIsApart DEF Same
<1>8. Placed(f)'
  <2>1. \A q \in Paths : (tracked'[q] = f <=> q = t) /\ f \notin Below(q)'
    BY <1>1, <1>3, <1>6, NothingIsApart
  <2>2. ActiveAt(f, t)'
    BY <2>1 DEF ActiveAt
  <2>3. QED
    BY <1>1, <2>2 DEF Placed
<1>9. Used' = Used
  BY <1>2 DEF Used
<1>10. last' \in [Files -> Bytes \cup {None}] /\ entombed' \subseteq Files
  BY <1>2 DEF RowsOK, RowTypes
<1>11. RowsOK'
  BY <1>1, <1>3, <1>4, <1>5, <1>7, <1>8, <1>9, <1>10, RowPut
<1>12. Raised' \subseteq Raised \cup {f}
  <2>1. \A g \in Files \ {f} : Active(g)' => Active(g)
    BY <1>7 DEF Same, Active
  <2>2. QED
    BY <1>2, <1>10, <2>1 DEF Raised
<1>13. QED
  BY <1>1, <1>2, <1>9, <1>11, <1>12

(* Or the index refuses it.                                                *)
LEMMA RefusedSteps ==
    ASSUME RowsOK, CallOK, job \in Calls, ActivateThrows
    PROVE  RowStep
<1>1. PICK f \in Files, t \in Paths : f = job.file /\ t = Target /\ f \in Used
  BY HomeIs DEF CallOK, Calls, Target
<1>2. /\ tracked' = tracked /\ last' = last /\ entombed' = entombed
      /\ graves' = IF IsActive(f) \/ job.path = job.home THEN graves
                   ELSE [q \in Paths |-> IF q = t THEN Append(RemoveFirst(graves[q], f), f)
                                         ELSE RemoveFirst(graves[q], f)]
  BY <1>1 DEF ActivateThrows
<1>3. CASE IsActive(f) \/ job.path = job.home
  BY <1>2, <1>3, RowsRest DEF rowVars
<1>4. CASE ~(IsActive(f) \/ job.path = job.home)
  <2>1. \A q \in Paths : tracked'[q] # f
    BY <1>1, <1>2, <1>4, HomeIs DEF DeletedAt
  <2>2. \A q \in Paths : graves'[q] = IF q = t THEN Append(RemoveFirst(graves[q], f), f)
                                      ELSE RemoveFirst(graves[q], f)
    BY <1>2, <1>4
  <2>3. \A q \in Paths :
           /\ graves'[q] \in Seq(Files) /\ IsInjective(graves'[q])
           /\ Below(q)' = IF q = t THEN Below(q) \cup {f} ELSE Below(q) \ {f}
    <3>1. \A q \in Paths :
             LET r == RemoveFirst(graves[q], f) IN
             /\ r \in Seq(Files) /\ IsInjective(r) /\ ToSet(r) = Below(q) \ {f}
             /\ Append(r, f) \in Seq(Files) /\ IsInjective(Append(r, f))
             /\ ToSet(Append(r, f)) = Below(q) \cup {f}
      BY <1>1, GravesWithout
    <3>2. QED
      BY <2>2, <3>1 DEF Below
  <2>4. graves' \in [Paths -> Seq(Files)]
    <3>1. graves' = [q \in Paths |-> graves'[q]]
      BY <1>2, <1>4
    <3>2. QED
      BY <2>3, <3>1
  <2>5. \A g \in Files \ {f} : Same(g)
    BY <1>2, <2>3 DEF Same
  <2>6. Placed(f)'
    <3>1. \A q \in Paths : f \in Below(q)' <=> q = t
      BY <2>3
    <3>2. DeletedAt(f, t)'
      BY <2>1, <3>1 DEF DeletedAt
    <3>3. QED
      BY <1>1, <3>2 DEF Placed
  <2>7. /\ Used' = Used /\ last' \in [Files -> Bytes \cup {None}] /\ entombed' \subseteq Files
        /\ tracked' \in [Paths -> Files \cup {None}]
    BY <1>2 DEF Used, RowsOK, RowTypes
  <2>8. RowsOK'
    BY <1>1, <2>3, <2>4, <2>5, <2>6, <2>7, RowPut
  <2>9. Raised' = Raised
    BY <1>2 DEF Raised, Active
  <2>10. QED
    BY <2>7, <2>8, <2>9 DEF RowStep
<1>5. QED
  BY <1>3, <1>4

-----------------------------------------------------------------------------
(* Every step of Tracking, from whatever a call has left.                  *)

(* The user moves what there is, or writes a file of their own.            *)
LEMMA UserWrites ==
    ASSUME DiskOK, User
    PROVE  DiskOK'
<1>1. edits + 1 \in Nat /\ edits' = edits + 1 /\ failures' = failures
  BY DEF DiskOK, User, Create, Write, Delete, Rename, Edit
<1>2. ASSUME NEW p \in Paths, NEW x \in Bytes \cup {None}, disk' = [disk EXCEPT ![p] = x]
      PROVE  disk' \in [Paths -> Bytes \cup {None}]
  BY <1>2 DEF DiskOK
<1>3. ASSUME NEW p \in Paths, NEW text \in Texts, Create(p, text)
      PROVE  disk' \in [Paths -> Bytes \cup {None}]
  <2>1. [ino |-> edits + 1, text |-> text, mtime |-> edits + 1] \in Bytes
    BY <1>1 DEF Bytes
  <2>2. QED
    BY <1>2, <1>3, <2>1 DEF Create, Edit
<1>4. ASSUME NEW p \in Paths, NEW text \in Texts, Write(p, text)
      PROVE  disk' \in [Paths -> Bytes \cup {None}]
  <2>1. disk[p] \in Bytes
    BY <1>4 DEF Write, DiskOK
  <2>2. [ino |-> disk[p].ino, text |-> text, mtime |-> edits + 1] \in Bytes
    BY <1>1, <2>1 DEF Bytes
  <2>3. QED
    BY <1>2, <1>4, <2>2 DEF Write, Edit
<1>5. ASSUME NEW p \in Paths, Delete(p)
      PROVE  disk' \in [Paths -> Bytes \cup {None}]
  BY <1>2, <1>5 DEF Delete, Edit
<1>6. ASSUME NEW p \in Paths, NEW q \in Paths, Rename(p, q)
      PROVE  disk' \in [Paths -> Bytes \cup {None}]
  BY <1>6 DEF Rename, DiskOK
<1>7. disk' \in [Paths -> Bytes \cup {None}]
  BY <1>3, <1>4, <1>5, <1>6 DEF User
<1>8. QED
  BY <1>1, <1>7 DEF DiskOK

(* A failure is counted, and nothing else.                                 *)
LEMMA DiskRests ==
    ASSUME DiskOK, UNCHANGED diskVars \/ (\E p \in Paths : Unreadable(p))
    PROVE  DiskOK' /\ disk' = disk
<1>1. disk' = disk /\ edits' = edits /\ failures' \in {failures, failures + 1}
  BY DEF diskVars, Unreadable
<1>2. QED
  BY <1>1 DEF DiskOK

(* What a task may wait for.                                               *)
LEMMA TaskIsRead ==
    ASSUME TasksOK, NEW p \in Paths
    PROVE  /\ \A kind \in Kinds \cup {None} :
                 LET t == [task EXCEPT ![p] = Begin(kind)] IN
                 t \in [Paths -> Read] /\ \A q \in Paths : t[q].step = "record" => t[q].doc # None
           /\ \A step \in Steps, doc \in Bytes \cup {None} :
                 LET t == [task EXCEPT ![p] = Await(step, doc)] IN
                 step # "record" \/ doc # None =>
                 t \in [Paths -> Read] /\ \A q \in Paths : t[q].step = "record" => t[q].doc # None
<1>1. \A step \in Steps, doc \in Bytes \cup {None} :
         Await(step, doc) \in Read /\ Await(step, doc).step = step /\ Await(step, doc).doc = doc
  BY DEF Await, Read
<1>2. \A kind \in Kinds \cup {None} :
         \E step \in Steps \ {"record"} : Begin(kind) = Await(step, None)
  BY NothingIsApart DEF Kinds, Begin, Idle, Await, Steps
<1>3. ASSUME NEW step \in Steps, NEW doc \in Bytes \cup {None}, step # "record" \/ doc # None
      PROVE  LET t == [task EXCEPT ![p] = Await(step, doc)] IN
             t \in [Paths -> Read] /\ \A q \in Paths : t[q].step = "record" => t[q].doc # None
  BY <1>1, <1>3 DEF TasksOK
<1>4. QED
  BY <1>2, <1>3

(* A deletion is held for a row that has a version.                        *)
LEMMA HeldIsKnown ==
    ASSUME RowsOK, HeldOK, NEW p \in Paths
    PROVE  /\ Hold(p) \in [Paths -> Held \cup {None}]
           /\ \A q \in Paths : Hold(p)[q] # None => Hold(p)[q].file \in Used
<1>1. CASE held[p] # None \/ tracked[p] = None
  BY <1>1 DEF Hold, HeldOK
<1>2. CASE ~(held[p] # None \/ tracked[p] = None)
  <2> DEFINE e == [file |-> tracked[p], doc |-> last[tracked[p]]]
  <2>1. tracked[p] \in Used /\ tracked[p] \in Files
    BY <1>2, RowIs
  <2>2. last[tracked[p]] \in Bytes
    BY <2>1 DEF Used, RowsOK, RowTypes
  <2>3. e \in Held /\ e.file \in Used
    BY <2>1, <2>2 DEF Held
  <2>4. Hold(p) = [held EXCEPT ![p] = e]
    BY <1>2 DEF Hold
  <2> HIDE DEF e
  <2>5. QED
    BY <2>3, <2>4 DEF HeldOK
<1>3. QED
  BY <1>1, <1>2

(* The steps of the queue for a path.                                      *)
LEMMA ContinueTracks ==
    ASSUME TrackedOK, NEW p \in Paths, Continue(p)
    PROVE  TrackedOK' /\ RowStep
<1> USE DEF TrackedOK
<1>1. SweepOK'
  BY DEF SweepOK, sweepVars, Continue, ReadMissing, ReadFails, ReadBytes, RecordBytes,
         RecordRename, DeleteUntracked, DeleteTracked, Access, AccessFails, FileIsBack, FileIsGone
<1>2. DiskOK'
  BY DiskRests DEF Continue, ReadMissing, ReadFails, ReadBytes, RecordBytes, RecordRename,
         DeleteUntracked, DeleteTracked, Access, AccessFails, FileIsBack, FileIsGone
<1>3. ASSUME Ends(p) PROVE TasksOK' /\ parked' \in [Paths -> Kinds \cup {None}]
  BY <1>3, TaskIsRead DEF Ends, TasksOK, TimersOK
<1>4. ASSUME NEW step \in Steps, NEW doc \in Bytes \cup {None}, Goes(p, step, doc),
             step # "record" \/ doc # None
      PROVE  TasksOK' /\ parked' \in [Paths -> Kinds \cup {None}]
  BY <1>4, TaskIsRead DEF Goes, TasksOK, TimersOK
<1>5. ASSUME NEW kind \in Kinds, Schedule(p, kind) \/ UNCHANGED timer
      PROVE  timer' \in [Paths -> Kinds \cup {None}]
  BY <1>5 DEF Schedule, TimersOK
<1>6. ASSUME NEW q \in Paths, RowStep, Release(q) \/ UNCHANGED held
      PROVE  HeldOK'
  BY <1>6 DEF Release, HeldOK, RowStep
<1>7. ASSUME RowStep, TasksOK', parked' \in [Paths -> Kinds \cup {None}],
             timer' \in [Paths -> Kinds \cup {None}], HeldOK'
      PROVE  TrackedOK' /\ RowStep
  BY <1>1, <1>2, <1>7 DEF RowStep, TimersOK
<1>8. CASE ReadMissing(p)
  BY <1>3, <1>5, <1>6, <1>7, <1>8, RowsRest DEF ReadMissing, Kinds
<1>9. CASE ReadFails(p)
  BY <1>3, <1>5, <1>6, <1>7, <1>9, RowsRest DEF ReadFails, Kinds
<1>10. CASE ReadBytes(p)
  <2>1. disk[p] \in Bytes /\ disk[p] # None
    BY <1>10 DEF ReadBytes, DiskOK
  <2>2. QED
    BY <2>1, <1>4, <1>5, <1>6, <1>7, <1>10, RowsRest DEF ReadBytes, Kinds, Steps
<1>11. CASE RecordBytes(p)
  <2>1. task[p].doc \in Bytes
    BY <1>11 DEF RecordBytes, TasksOK, Read
  <2>2. RowStep
    BY <2>1, <1>11, RecordSteps DEF RecordBytes
  <2>3. QED
    BY <2>2, <1>3, <1>5, <1>6, <1>7, <1>11 DEF RecordBytes, Kinds
<1>12. CASE RecordRename(p)
  <2>1. task[p].doc \in Bytes
    BY <1>12 DEF RecordRename, TasksOK, Read
  <2>2. PICK q \in Paths : /\ held[q] # None /\ Release(q)
                           /\ RecordClaimed(held[q].file, p, task[p].doc)
    BY <1>12 DEF RecordRename, Claimable, SameInode, SameText
  <2>3. held[q].file \in Used
    BY <2>2 DEF HeldOK
  <2>4. RowStep
    BY <2>1, <2>2, <2>3, ClaimSteps
  <2>5. QED
    BY <2>2, <2>4, <1>3, <1>5, <1>6, <1>7, <1>12 DEF RecordRename, Kinds
<1>13. CASE DeleteUntracked(p)
  BY <1>3, <1>5, <1>6, <1>7, <1>13, RowsRest DEF DeleteUntracked, Kinds
<1>14. CASE DeleteTracked(p)
  BY <1>4, <1>5, <1>6, <1>7, <1>14, RowsRest DEF DeleteTracked, Kinds, Steps
<1>15. CASE Access(p)
  <2>1. Goes(p, "gone", None) \/ Goes(p, "back", None)
    BY <1>15 DEF Access
  <2>2. QED
    BY <2>1, <1>4, <1>5, <1>6, <1>7, <1>15, RowsRest DEF Access, Kinds, Steps
<1>16. CASE AccessFails(p)
  BY <1>4, <1>5, <1>6, <1>7, <1>16, RowsRest DEF AccessFails, Kinds, Steps
<1>17. CASE FileIsBack(p)
  BY <1>3, <1>5, <1>6, <1>7, <1>17, RowsRest DEF FileIsBack, Kinds
<1>18. CASE FileIsGone(p)
  <2>1. RowStep
    <3> DEFINE ps == {q \in {p} : MayBury(q)}
    <3>1. ps \in SUBSET Paths /\ (\A q \in ps : MayBury(q)) /\ BuryAll(ps)
      BY <1>18 DEF FileIsGone, Bury
    <3> HIDE DEF ps
    <3>2. QED
      BY <3>1, BurySteps
  <2>2. QED
    BY <2>1, <1>3, <1>5, <1>6, <1>7, <1>18 DEF FileIsGone, Kinds
<1>19. QED
  BY <1>8, <1>9, <1>10, <1>11, <1>12, <1>13, <1>14, <1>15, <1>16, <1>17, <1>18 DEF Continue

(* The steps of a reconciliation.                                          *)
LEMMA ReconcileTracks ==
    ASSUME TrackedOK, Reconcile
    PROVE  TrackedOK' /\ RowStep
<1> USE DEF TrackedOK
<1>1. ASSUME RowStep, DiskOK', SweepOK', UNCHANGED <<queueVars, held>>
      PROVE  TrackedOK' /\ RowStep
  BY <1>1 DEF queueVars, TimersOK, TasksOK, HeldOK, RowStep
<1>2. ASSUME todo # <<>> PROVE Head(todo) \in Paths /\ Tail(todo) \in Seq(Paths)
  BY <1>2, HeadTailProperties DEF SweepOK
<1>3. CASE Sweep
  <2>1. todo' \in Seq(Paths)
    BY <1>3, WalkIs DEF Sweep
  <2>2. SweepOK'
    BY <2>1, <1>3 DEF Sweep, SweepOK
  <2>3. QED
    BY <2>2, <1>1, <1>3, RowsRest, DiskRests DEF Sweep
<1>4. CASE Scan
  <2>1. disk[Head(todo)] \in Bytes \cup {None} /\ Head(todo) \in Paths /\ Tail(todo) \in Seq(Paths)
    BY <1>2, <1>4 DEF Scan, DiskOK
  <2>2. SweepOK'
    BY <2>1, <1>4 DEF Scan, SweepOK
  <2>3. QED
    BY <2>2, <1>1, <1>4, RowsRest, DiskRests DEF Scan
<1>5. CASE ScanFails
  <2>1. SweepOK' /\ Unreadable(Head(todo)) /\ Head(todo) \in Paths
    BY <1>2, <1>5 DEF ScanFails, SweepOK
  <2>2. QED
    BY <2>1, <1>1, <1>5, RowsRest, DiskRests DEF ScanFails
<1>6. CASE ScanEnds
  <2>1. todo' \in Seq(Paths)
    BY <1>6, WalkIs DEF ScanEnds
  <2>2. SweepOK'
    BY <2>1, <1>6 DEF ScanEnds, SweepOK
  <2>3. QED
    BY <2>2, <1>1, <1>6, RowsRest, DiskRests DEF ScanEnds
<1>7. CASE Visit
  <2>1. item' \in Visits \cup {None}
    BY <1>2, <1>7 DEF Visit, Visits
  <2>2. SweepOK'
    BY <2>1, <1>2, <1>7 DEF Visit, SweepOK
  <2>3. QED
    BY <2>2, <1>1, <1>7, RowsRest, DiskRests DEF Visit
<1>8. CASE VisitReads
  <2>1. item \in Visits /\ disk[item.path] \in Bytes \cup {None}
    BY <1>8 DEF VisitReads, SweepOK, Visits, DiskOK
  <2>2. item' \in Visits \cup {None}
    BY <2>1, <1>8, Zenon DEF VisitReads, Visits
  <2>3. SweepOK'
    BY <2>2, <1>8 DEF VisitReads, SweepOK
  <2>4. QED
    BY <2>3, <1>1, <1>8, RowsRest, DiskRests DEF VisitReads
<1>9. CASE VisitFails
  <2>1. item.path \in Paths /\ SweepOK'
    BY <1>9 DEF VisitFails, SweepOK, Visits
  <2>2. QED
    BY <2>1, <1>1, <1>9, RowsRest, DiskRests DEF VisitFails
<1>10. CASE VisitRecords
  <2>1. item.path \in Paths /\ item.doc \in Bytes
    BY <1>10 DEF VisitRecords, SweepOK, Visits
  <2>2. RowStep
    BY <2>1, <1>10, RecordSteps DEF VisitRecords
  <2>3. SweepOK'
    BY <1>10 DEF VisitRecords, SweepOK
  <2>4. QED
    BY <2>2, <2>3, <1>1, <1>10, DiskRests DEF VisitRecords
<1>11. CASE SweepBuries
  <2>1. Lost \in SUBSET Paths /\ (\A q \in Lost : MayBury(q)) /\ BuryAll(Lost)
    BY <1>11 DEF SweepBuries, Lost
  <2>2. RowStep
    BY <2>1, BurySteps
  <2>3. SweepOK'
    BY <1>11 DEF SweepBuries, SweepOK
  <2>4. QED
    BY <2>2, <2>3, <1>1, <1>11, DiskRests DEF SweepBuries
<1>12. QED
  BY <1>3, <1>4, <1>5, <1>6, <1>7, <1>8, <1>9, <1>10, <1>11 DEF Reconcile

(* Whichever step it is.                                                   *)
LEMMA NextTracks ==
    ASSUME TrackedOK, Next
    PROVE  TrackedOK' /\ RowStep
<1> USE DEF TrackedOK
<1>1. CASE UserEdits
  <2>1. DiskOK' /\ RowStep
    BY <1>1, UserWrites, RowsRest DEF UserEdits
  <2>2. TimersOK' /\ TasksOK' /\ HeldOK' /\ SweepOK'
    BY <2>1, <1>1 DEF UserEdits, queueVars, sweepVars, TimersOK, TasksOK, HeldOK, SweepOK, RowStep
  <2>3. QED
    BY <2>1, <2>2 DEF RowStep
<1>2. ASSUME UNCHANGED <<diskVars, rowVars, sweepVars>>, TimersOK', TasksOK', HeldOK'
      PROVE  TrackedOK' /\ RowStep
  <2>1. RowStep /\ DiskOK'
    BY <1>2, RowsRest, DiskRests
  <2>2. SweepOK'
    BY <1>2 DEF sweepVars, SweepOK
  <2>3. QED
    BY <2>1, <2>2, <1>2 DEF RowStep
<1>3. ASSUME UNCHANGED rowVars PROVE Used' = Used
  BY <1>3 DEF rowVars, Used
<1>4. ASSUME NEW p \in Paths, NoticeUpsert(p) PROVE TrackedOK' /\ RowStep
  <2>1. TimersOK' /\ TasksOK' /\ HeldOK'
    BY <1>3, <1>4 DEF NoticeUpsert, Schedule, TimersOK, TasksOK, HeldOK, Kinds
  <2>2. QED
    BY <2>1, <1>2, <1>4 DEF NoticeUpsert
<1>5. ASSUME NEW p \in Paths, NoticeUnlink(p) PROVE TrackedOK' /\ RowStep
  <2>1. HeldOK'
    BY <1>3, <1>5, HeldIsKnown DEF NoticeUnlink, HeldOK
  <2>2. TimersOK' /\ TasksOK'
    BY <1>5 DEF NoticeUnlink, Schedule, TimersOK, TasksOK, Kinds
  <2>3. QED
    BY <2>1, <2>2, <1>2, <1>5 DEF NoticeUnlink
<1>6. ASSUME NEW p \in Paths, Expire(p) PROVE TrackedOK' /\ RowStep
  <2>1. TimersOK' /\ TasksOK' /\ HeldOK'
    BY <1>3, <1>6 DEF Expire, Release, queueVars, TimersOK, TasksOK, HeldOK
  <2>2. QED
    BY <2>1, <1>2, <1>6 DEF Expire
<1>7. ASSUME NEW p \in Paths, TimerFires(p) PROVE TrackedOK' /\ RowStep
  <2>1. TasksOK'
    BY <1>7, TaskIsRead DEF TimerFires, TasksOK, TimersOK
  <2>2. TimersOK' /\ HeldOK'
    BY <1>3, <1>7 DEF TimerFires, TimersOK, HeldOK
  <2>3. QED
    BY <2>1, <2>2, <1>2, <1>7 DEF TimerFires
<1>8. ASSUME NEW p \in Paths, Continue(p) PROVE TrackedOK' /\ RowStep
  BY <1>8, ContinueTracks
<1>9. CASE Reconcile
  BY <1>9, ReconcileTracks
<1>10. QED
  BY <1>1, <1>4, <1>5, <1>6, <1>7, <1>8, <1>9 DEF Next, Notice

(* Where nothing of Tracking changes.                                      *)
LEMMA TrackedRests ==
    ASSUME TrackedOK, UNCHANGED vars
    PROVE  TrackedOK' /\ RowStep
<1> USE DEF TrackedOK, vars
<1>1. RowStep /\ DiskOK'
  BY RowsRest, DiskRests
<1>2. TimersOK' /\ TasksOK' /\ HeldOK' /\ SweepOK'
  BY <1>1 DEF queueVars, sweepVars, TimersOK, TasksOK, HeldOK, SweepOK, RowStep
<1>3. QED
  BY <1>1, <1>2 DEF RowStep

(* Where only rows do.                                                     *)
LEMMA TrackedRow ==
    ASSUME TrackedOK, RowsOK', Used \subseteq Used', UNCHANGED diskVars, Unmoved
    PROVE  TrackedOK'
<1>1. DiskOK'
  BY DiskRests DEF TrackedOK
<1>2. TimersOK' /\ TasksOK' /\ HeldOK' /\ SweepOK'
  BY DEF TrackedOK, Unmoved, queueVars, sweepVars, TimersOK, TasksOK, HeldOK, SweepOK
<1>3. QED
  BY <1>1, <1>2 DEF TrackedOK

-----------------------------------------------------------------------------
(* The timelines and the call.                                             *)

(* A timeline only grows.                                                  *)
LEMMA KeepGrows ==
    ASSUME KeptOK, RowsOK', Used \subseteq Used', Keep
    PROVE  KeptOK' /\ \A f \in Used : kept[f] \subseteq kept'[f]
<1>1. \A f \in Files : kept'[f] = IF last'[f] = None THEN {} ELSE kept[f] \cup {last'[f].text}
  BY DEF Keep
<1>2. \A f \in Files : last'[f] # None => last'[f].text \in Texts
  BY DEF RowsOK, RowTypes, Bytes
<1>3. kept' \in [Files -> SUBSET Texts]
  <2>1. \A f \in Files : kept'[f] \in SUBSET Texts
    BY <1>1, <1>2 DEF KeptOK
  <2>2. kept' = [f \in Files |-> kept'[f]]
    BY DEF Keep
  <2>3. QED
    BY <2>1, <2>2
<1>4. \A f \in Used' : f \in Files /\ last'[f] # None
  BY DEF Used
<1>5. QED
  BY <1>1, <1>3, <1>4 DEF KeptOK

(* And stays where no version is recorded.                                 *)
LEMMA KeptRests ==
    ASSUME KeptOK, UNCHANGED <<last, kept>>
    PROVE  KeptOK' /\ Used' = Used
  BY DEF KeptOK, Used

(* What the call knows stays true while others move.                       *)
LEMMA JobRests ==
    ASSUME JobOK, RaisedOK, RowStep, \A f \in Used : kept[f] \subseteq kept'[f],
           UNCHANGED <<job, jobs>>
    PROVE  JobOK' /\ RaisedOK'
<1>1. RaisedOK'
  BY DEF RaisedOK, AboutToRecord, RowStep
<1>2. ASSUME job # NoJob PROVE CallOK'
  BY <1>2 DEF JobOK, CallOK, RowStep
<1>3. QED
  BY <1>1, <1>2 DEF JobOK

(* The call goes on, or returns.                                           *)
LEMMA JobGoesOn ==
    ASSUME RestoreInv, job # NoJob, TrackedOK', KeptOK', RaisedOK', UNCHANGED <<jobs, phase>>, Calm,
           job' = NoJob \/ (job' \in Calls /\ CallOK')
    PROVE  RestoreInv'
<1>1. JobOK'
  BY DEF RestoreInv, JobOK
<1>2. ~Sweep
  BY DEF Sweep
<1>3. calm' = FALSE
  BY <1>2 DEF Calm, RestoreInv, CalmOK
<1>4. CalmOK'
  BY <1>3 DEF CalmOK
<1>5. QED
  BY <1>1, <1>4 DEF RestoreInv

(* A call that has nothing to record yet has no row without a version.     *)
LEMMA NoneRaised ==
    ASSUME RaisedOK, Raised' \subseteq Raised, job.step # "record",
           job.step # "stat" \/ job.kind # "recover"
    PROVE  RaisedOK' /\ Raised = {}
  BY DEF RaisedOK, AboutToRecord

(* The steps of a call that change nothing but what it knows.              *)
LEMMA LooksKeep ==
    ASSUME RestoreInv, job # NoJob, UNCHANGED <<vars, jobs, kept>>, Calm,
           job' = NoJob \/ (job' \in Calls /\ CallOK'),
           \/ job.step # "record" /\ (job.step # "stat" \/ job.kind # "recover")
           \/ job' # NoJob /\ job'.step = "record" /\ job'.file = job.file
    PROVE  RestoreInv'
<1>1. TrackedOK' /\ RowStep
  BY TrackedRests DEF RestoreInv
<1>2. KeptOK'
  BY KeptRests DEF RestoreInv, vars, rowVars
<1>3. RaisedOK'
  <2>1. Raised' \subseteq Raised /\ RaisedOK
    BY <1>1 DEF RowStep, RestoreInv
  <2>2. QED
    BY <2>1, NoneRaised DEF RaisedOK, AboutToRecord
<1>4. phase' = phase
  BY DEF vars, sweepVars
<1>5. QED
  BY <1>1, <1>2, <1>3, <1>4, JobGoesOn

(* A call is under way.                                                    *)
LEMMA CallIs ==
    ASSUME RestoreInv, job.step # "none"
    PROVE  job \in Calls /\ job # NoJob /\ CallOK /\ job.file \in Used
  BY DEF RestoreInv, JobOK, CallOK, NoJob

(* What is read at a path.                                                 *)
LEMMA DiskIs ==
    ASSUME RestoreInv, NEW p \in Paths
    PROVE  /\ disk[p] \in Bytes \cup {None} /\ TextAt(p) \in Texts \cup {None}
           /\ disk[p] # None =>
                 disk[p] \in Bytes /\ disk[p].text \in Texts /\ disk[p].mtime \in Nat \cup {None}
  BY DEF RestoreInv, TrackedOK, DiskOK, TextAt, Bytes

(* What a capture is given.                                                *)
LEMMA CapturedIs ==
    ASSUME NEW text \in Texts, NEW mtime \in Nat \cup {None}
    PROVE  WithoutInode(text, mtime) \in Bytes /\ WithoutInode(text, mtime) # None
           /\ WithoutInode(text, mtime).text = text
<1>1. WithoutInode(text, mtime) \in Bytes /\ WithoutInode(text, mtime).text = text
  BY DEF WithoutInode, Bytes
<1>2. QED
  BY <1>1, NothingIsApart

(* The dialog.                                                             *)
LEMMA DialogKeeps ==
    ASSUME RestoreInv, Dialogs, Calm
    PROVE  RestoreInv'
<1>1. ASSUME NEW f \in Files, NEW text \in Texts, OpenDialog(f, text) PROVE RestoreInv'
  <2>1. job = NoJob /\ f \in Used /\ Home(f) \in Paths /\ jobs' = jobs + 1 /\ jobs < MaxJobs
    BY <1>1, HomeIs DEF OpenDialog, RestoreInv, TrackedOK
  <2>2. TextAt(Home(f)) \in Texts \cup {None}
    BY <2>1, DiskIs
  <2>3. TrackedOK' /\ RowStep /\ KeptOK' /\ phase' = phase
    BY <1>1, TrackedRests, KeptRests DEF OpenDialog, RestoreInv, vars, rowVars, sweepVars
  <2>4. job' \in Calls /\ job'.step = "dialog" /\ job'.file = f
    <3> DEFINE kind == IF IsActive(f) THEN "restore" ELSE "recover"
               shown == IF IsActive(f) THEN TextAt(Home(f)) ELSE None
    <3>1. kind \in {"restore", "recover"} /\ shown \in Texts \cup {None}
      BY <2>2
    <3>2. job' = [step |-> "dialog", kind |-> kind, file |-> f, text |-> text, path |-> Home(f),
                  home |-> Home(f), expected |-> shown, force |-> FALSE, onConflict |-> None,
                  occupant |-> None, doc |-> None]
      BY <1>1 DEF OpenDialog
    <3> HIDE DEF kind, shown
    <3>3. QED
      BY <2>1, <3>1, <3>2 DEF Calls
  <2>5. job' # NoJob
    BY <2>4 DEF NoJob
  <2>6. CallOK'
    BY <2>1, <2>3, <2>4 DEF CallOK, RowStep
  <2>7. JobOK'
    BY <2>1, <2>4, <2>6, RestoreAssumption DEF RestoreInv, JobOK
  <2>8. RaisedOK'
    BY <2>1, <2>3 DEF RestoreInv, RaisedOK, AboutToRecord, RowStep
  <2>9. CalmOK'
    <3>1. calm' = FALSE
      BY <2>1, <2>3, <2>5 DEF Calm, Sweep, RestoreInv, CalmOK
    <3>2. QED
      BY <3>1 DEF CalmOK
  <2>10. QED
    BY <2>3, <2>7, <2>8, <2>9 DEF RestoreInv
<1>2. CASE BeginRestore
  <2>1. job \in Calls /\ job # NoJob /\ CallOK /\ job.file \in Used /\ job.step = "dialog"
    BY <1>2, CallIs DEF BeginRestore
  <2>2. Home(job.file) \in Paths
    BY <2>1, HomeIs DEF RestoreInv, TrackedOK
  <2>3. UNCHANGED <<vars, jobs, kept>> /\ Used' = Used
    BY <1>2 DEF BeginRestore, vars, rowVars, Used
  <2>4. job' = [job EXCEPT !.step = "read", !.path = Home(job.file), !.home = Home(job.file)]
    BY <1>2 DEF BeginRestore
  <2>5. job' \in Calls /\ job'.step = "read" /\ job'.file = job.file
    BY <2>1, <2>2, <2>4 DEF Calls
  <2>6. CallOK'
    BY <2>1, <2>3, <2>5 DEF CallOK
  <2>7. QED
    BY <2>1, <2>3, <2>5, <2>6, LooksKeep
<1>3. CASE BeginRecover
  <2>1. /\ job \in Calls /\ job # NoJob /\ CallOK /\ job.file \in Used
        /\ job.step = "dialog" /\ job.kind = "recover"
    BY <1>3, CallIs DEF BeginRecover
  <2>2. Home(job.file) \in Paths
    BY <2>1, HomeIs DEF RestoreInv, TrackedOK
  <2>3. UNCHANGED <<vars, jobs, kept>> /\ Used' = Used
    BY <1>3 DEF BeginRecover, vars, rowVars, Used
  <2>4. PICK how \in {"fail", "rename", "replace"} :
           job' = [job EXCEPT !.step = "look", !.onConflict = how,
                              !.path = Home(job.file), !.home = Home(job.file)]
    BY <1>3 DEF BeginRecover, Offers
  <2>5. /\ job' \in Calls /\ job'.step = "look" /\ job'.file = job.file /\ job'.kind = "recover"
        /\ job'.onConflict = how
    BY <2>1, <2>2, <2>4 DEF Calls
  <2>6. CallOK'
    BY <2>1, <2>3, <2>5 DEF CallOK
  <2>7. QED
    BY <2>1, <2>3, <2>5, <2>6, LooksKeep
<1>4. QED
  BY <1>1, <1>2, <1>3 DEF Dialogs

(* The call looks, and decides.                                            *)
LEMMA LookingKeeps ==
    ASSUME RestoreInv, Calm,
           \/ Conflict \/ Identical \/ ReadCurrent \/ NoSpace \/ LookFree \/ LookOccupied
           \/ FindFreeName \/ Peek \/ WriteFails \/ Stat
    PROVE  RestoreInv'
<1>1. /\ job \in Calls /\ job # NoJob /\ CallOK /\ job.file \in Used /\ job.path \in Paths
      /\ job.step \in {"read", "space", "look", "name", "peek", "write", "stat"}
  <2>1. job.step \in {"read", "space", "look", "name", "peek", "write", "stat"}
    BY DEF Conflict, Identical, ReadCurrent, NoSpace, LookFree, LookOccupied, FindFreeName, Peek,
           WriteFails, Stat
  <2>2. QED
    BY <2>1, CallIs DEF Calls
<1>2. UNCHANGED <<vars, jobs, kept>> /\ Used' = Used
  <2>1. UNCHANGED <<vars, jobs, kept>>
    BY DEF Conflict, Identical, ReadCurrent, NoSpace, LookFree, LookOccupied, FindFreeName, Peek,
           WriteFails, Stat
  <2>2. QED
    BY <2>1 DEF vars, rowVars, Used
<1>3. ASSUME Return, job.step # "stat" PROVE RestoreInv'
  BY <1>1, <1>2, <1>3, LooksKeep DEF Return
<1>4. ASSUME job' \in Calls, CallOK', job.step # "stat" PROVE RestoreInv'
  BY <1>1, <1>2, <1>4, LooksKeep
<1>5. CASE Conflict
  <2>1. TextAt(job.path) \in Texts \cup {None}
    BY <1>1, DiskIs
  <2>2. /\ job' = [job EXCEPT !.step = "dialog", !.force = TRUE, !.expected = TextAt(job.path)]
        /\ job.step = "read"
    BY <1>5 DEF Conflict
  <2>3. job' \in Calls /\ job'.step = "dialog" /\ job'.file = job.file
    BY <1>1, <2>1, <2>2 DEF Calls
  <2>4. CallOK'
    BY <1>1, <1>2, <2>3 DEF CallOK
  <2>5. QED
    BY <2>2, <2>3, <2>4, <1>4
<1>6. CASE Identical
  BY <1>3, <1>6 DEF Identical
<1>7. CASE ReadCurrent
  <2> DEFINE doc == disk[job.path]
             known == InHistory(job.file, doc)
             next == IF known THEN "space" ELSE "keep"
  <2>1. doc \in Bytes \cup {None} /\ next \in {"space", "keep"}
    BY <1>1, DiskIs
  <2>2. job' = [job EXCEPT !.doc = doc, !.step = next] /\ job.step = "read"
    BY <1>7 DEF ReadCurrent
  <2>3. next = "keep" => doc # None
    BY DEF InHistory
  <2>4. next = "space" /\ doc # None => doc.text \in kept[job.file]
    BY <1>1 DEF InHistory, RestoreInv, KeptOK
  <2> HIDE DEF doc, next
  <2>5. job' \in Calls /\ job'.step = next /\ job'.file = job.file /\ job'.doc = doc
    BY <1>1, <2>1, <2>2 DEF Calls
  <2>6. CallOK'
    BY <1>1, <1>2, <2>1, <2>3, <2>4, <2>5 DEF CallOK
  <2>7. QED
    BY <2>2, <2>5, <2>6, <1>4
<1>8. CASE NoSpace
  BY <1>3, <1>8 DEF NoSpace
<1>9. CASE LookFree
  <2>1. job' = [job EXCEPT !.step = "space"] /\ job.step = "look"
    BY <1>9 DEF LookFree, Proceed
  <2>2. job' \in Calls /\ job'.step = "space" /\ job'.file = job.file /\ job'.kind = "recover"
    BY <1>1, <2>1 DEF Calls, CallOK
  <2>3. CallOK'
    BY <1>1, <1>2, <2>2 DEF CallOK
  <2>4. QED
    BY <2>1, <2>2, <2>3, <1>4
<1>10. CASE LookOccupied
  <2>1. job.step = "look" /\ job.onConflict \in {"fail", "rename", "replace"}
    BY <1>1, <1>10 DEF LookOccupied, CallOK
  <2>2. PICK next \in {"dialog", "name", "peek"} : job' = [job EXCEPT !.step = next]
    BY <1>1, <1>10, <2>1 DEF LookOccupied, Proceed, Calls
  <2>3. job' \in Calls /\ job'.step = next /\ job'.file = job.file /\ job'.kind = "recover"
    BY <1>1, <2>1, <2>2 DEF Calls, CallOK
  <2>4. CallOK'
    BY <1>1, <1>2, <2>2, <2>3 DEF CallOK
  <2>5. QED
    BY <2>1, <2>3, <2>4, <1>4
<1>11. CASE FindFreeName
  <2>1. job.step = "name"
    BY <1>11 DEF FindFreeName
  <2>2. ASSUME NEW p \in Paths, job' = [job EXCEPT !.step = "space", !.path = p] PROVE RestoreInv'
    <3>1. job' \in Calls /\ job'.step = "space" /\ job'.file = job.file /\ job'.kind = "recover"
      BY <1>1, <2>1, <2>2 DEF Calls, CallOK
    <3>2. CallOK'
      BY <1>1, <1>2, <3>1 DEF CallOK
    <3>3. QED
      BY <2>1, <3>1, <3>2, <1>4
  <2>3. QED
    BY <2>1, <2>2, <1>3, <1>11 DEF FindFreeName
<1>12. CASE Peek
  <2>1. job.step = "peek" /\ job.kind = "recover" /\ disk[job.path] \in Bytes \cup {None}
    BY <1>1, <1>12, DiskIs DEF Peek, CallOK
  <2>2. CASE disk[job.path] # None /\ Displaced
    <3>1. job' = [job EXCEPT !.step = "displace", !.doc = disk[job.path], !.occupant = tracked[job.path]]
      BY <1>12, <2>2 DEF Peek
    <3>2. tracked[job.path] \in Used \ {job.file} /\ tracked[job.path] \in Files
      BY <1>1, <2>2, RowIs DEF Displaced, RestoreInv, TrackedOK
    <3>3. /\ job' \in Calls /\ job'.step = "displace" /\ job'.file = job.file /\ job'.kind = "recover"
          /\ job'.doc = disk[job.path] /\ job'.occupant = tracked[job.path]
      BY <1>1, <2>1, <3>1, <3>2 DEF Calls
    <3>4. CallOK'
      BY <1>1, <1>2, <2>2, <3>2, <3>3 DEF CallOK
    <3>5. QED
      BY <2>1, <3>3, <3>4, <1>4
  <2>3. CASE ~(disk[job.path] # None /\ Displaced)
    <3>1. job' = [job EXCEPT !.step = "space", !.doc = disk[job.path]]
      BY <1>12, <2>3 DEF Peek
    <3>2. job' \in Calls /\ job'.step = "space" /\ job'.file = job.file /\ job'.kind = "recover"
      BY <1>1, <2>1, <3>1 DEF Calls
    <3>3. CallOK'
      BY <1>1, <1>2, <3>2 DEF CallOK
    <3>4. QED
      BY <2>1, <3>2, <3>3, <1>4
  <2>4. QED
    BY <2>2, <2>3
<1>13. CASE WriteFails
  BY <1>3, <1>13 DEF WriteFails
<1>14. CASE Stat
  <2> DEFINE mtime == IF disk[job.path] = None THEN None ELSE disk[job.path].mtime
             doc == WithoutInode(job.text, mtime)
             next == IF job.kind = "restore" THEN "activate" ELSE "record"
  <2>1. doc \in Bytes /\ doc # None
    <3>1. mtime \in Nat \cup {None} /\ job.text \in Texts
      BY <1>1, DiskIs DEF Calls
    <3> HIDE DEF mtime
    <3>2. QED
      BY <3>1, CapturedIs
  <2>2. job' = [job EXCEPT !.step = next, !.doc = doc] /\ job.step = "stat"
    BY <1>14 DEF Stat
  <2>3. next \in {"activate", "record"} /\ (job.kind = "recover" => next = "record")
    OBVIOUS
  <2> HIDE DEF doc, next
  <2>4. /\ job' \in Calls /\ job'.step = next /\ job'.file = job.file /\ job'.doc = doc /\ job' # NoJob
    BY <1>1, <2>1, <2>2, <2>3 DEF Calls, NoJob
  <2>5. CallOK'
    BY <1>1, <1>2, <2>1, <2>3, <2>4 DEF CallOK
  <2>6. QED
    BY <1>1, <1>2, <2>2, <2>3, <2>4, <2>5, LooksKeep
<1>15. QED
  BY <1>5, <1>6, <1>7, <1>8, <1>9, <1>10, <1>11, <1>12, <1>13, <1>14

(* The call suppresses an event, and writes.                               *)
LEMMA WritingKeeps ==
    ASSUME RestoreInv, Calm, Suppress \/ WriteLands
    PROVE  RestoreInv'
<1>1. /\ job \in Calls /\ job # NoJob /\ CallOK /\ job.file \in Used /\ job.path \in Paths
      /\ job.step \in {"space", "write"}
  <2>1. job.step \in {"space", "write"}
    BY DEF Suppress, WriteLands
  <2>2. QED
    BY <2>1, CallIs DEF Calls
<1>2. UNCHANGED rowVars /\ kept' = kept /\ jobs' = jobs /\ phase' = phase
  BY DEF Suppress, WriteLands, sweepVars
<1>3. RowStep /\ KeptOK' /\ Used' = Used
  <2>1. last' = last /\ kept' = kept
    BY <1>2 DEF rowVars
  <2>2. KeptOK' /\ Used' = Used
    BY <2>1, KeptRests DEF RestoreInv
  <2>3. RowStep
    BY <1>2, RowsRest DEF RestoreInv, TrackedOK
  <2>4. QED
    BY <2>2, <2>3
<1>4. RaisedOK'
  BY <1>1, <1>3, NoneRaised DEF RestoreInv, RowStep
<1>5. ASSUME TrackedOK', job' \in Calls, CallOK' PROVE RestoreInv'
  BY <1>1, <1>2, <1>3, <1>4, <1>5, JobGoesOn
<1>6. CASE Suppress
  <2>1. DiskOK'
    BY <1>6, DiskRests DEF Suppress, RestoreInv, TrackedOK
  <2>2. TimersOK' /\ TasksOK' /\ HeldOK' /\ SweepOK'
    BY <1>3, <1>6 DEF Suppress, RestoreInv, TrackedOK, TimersOK, TasksOK, HeldOK, SweepOK, sweepVars
  <2>3. TrackedOK'
    BY <2>1, <2>2, <1>3 DEF TrackedOK, RowStep
  <2>4. job.step = "space" /\ job' = [job EXCEPT !.step = "write"]
    BY <1>6 DEF Suppress, Proceed
  <2>5. /\ job' \in Calls /\ job'.step = "write" /\ job'.file = job.file /\ job'.kind = job.kind
        /\ job'.doc = job.doc
    BY <1>1, <2>4 DEF Calls
  <2>6. CallOK'
    BY <1>1, <1>2, <1>3, <2>4, <2>5 DEF CallOK
  <2>7. QED
    BY <2>3, <2>5, <2>6, <1>5
<1>7. CASE WriteLands
  <2>1. Written \in Bytes
    <3>1. MaxEdits + jobs \in Nat /\ job.text \in Texts
      BY <1>1, VaultAssumption, RestoreAssumption DEF RestoreInv, JobOK, Calls
    <3>2. QED
      BY <3>1 DEF Written, Stamp, Bytes
  <2>2. DiskOK'
    BY <1>7, <2>1 DEF WriteLands, RestoreInv, TrackedOK, DiskOK
  <2>3. TimersOK' /\ TasksOK' /\ HeldOK' /\ SweepOK'
    BY <1>3, <1>7 DEF WriteLands, RestoreInv, TrackedOK, TimersOK, TasksOK, HeldOK, SweepOK,
                      queueVars, sweepVars
  <2>4. TrackedOK'
    BY <2>2, <2>3, <1>3 DEF TrackedOK, RowStep
  <2> DEFINE next == IF job.kind = "restore" THEN "stat" ELSE "activate"
  <2>5. job' = [job EXCEPT !.step = next]
    BY <1>7 DEF WriteLands, Proceed
  <2>6. next \in {"stat", "activate"} /\ (next = "activate" => job.kind # "restore")
    OBVIOUS
  <2> HIDE DEF next
  <2>7. job' \in Calls /\ job'.step = next /\ job'.file = job.file /\ job'.kind = job.kind
    BY <1>1, <2>5, <2>6 DEF Calls
  <2>8. CallOK'
    BY <1>1, <1>2, <1>3, <2>6, <2>7 DEF CallOK
  <2>9. QED
    BY <2>4, <2>7, <2>8, <1>5
<1>8. QED
  BY <1>6, <1>7

(* The call records what it is about to replace.                           *)
LEMMA SavingKeeps ==
    ASSUME RestoreInv, Calm, KeepCurrent \/ Displace
    PROVE  RestoreInv'
<1>1. /\ job \in Calls /\ job # NoJob /\ CallOK /\ job.file \in Used
      /\ job.step \in {"keep", "displace"} /\ job.doc \in Bytes
  <2>1. job.step \in {"keep", "displace"}
    BY DEF KeepCurrent, Displace
  <2>2. QED
    BY <2>1, CallIs DEF Calls, CallOK
<1>2. /\ Keep /\ job' = [job EXCEPT !.step = "space"] /\ jobs' = jobs /\ phase' = phase
      /\ UNCHANGED diskVars /\ Unmoved
  <2>1. Keep /\ Proceed("space") /\ UNCHANGED <<diskVars, jobs>> /\ Unmoved
    BY DEF KeepCurrent, Displace
  <2>2. QED
    BY <2>1 DEF Proceed, Unmoved, sweepVars
<1>3. /\ job' \in Calls /\ job'.step = "space" /\ job'.file = job.file /\ job'.kind = job.kind
      /\ job'.doc = job.doc
  BY <1>1, <1>2 DEF Calls
<1>4. ASSUME RowStep, job.kind = "restore" => last'[job.file].text = job.doc.text PROVE RestoreInv'
  <2>1. TrackedOK'
    BY <1>2, <1>4, TrackedRow DEF RestoreInv, RowStep
  <2>2. KeptOK'
    BY <1>2, <1>4, KeepGrows DEF RestoreInv, RowStep
  <2>3. CallOK'
    <3>1. job.file \in Used'
      BY <1>1, <1>4 DEF RowStep
    <3>2. job.kind = "restore" => job.doc.text \in kept'[job.file]
      BY <3>1, <2>2, <1>4 DEF KeptOK
    <3>3. QED
      BY <1>3, <3>1, <3>2 DEF CallOK
  <2>4. RaisedOK'
    BY <1>1, <1>4, NoneRaised DEF RestoreInv, RowStep
  <2>5. QED
    BY <2>1, <2>2, <2>3, <2>4, <1>1, <1>2, <1>3, JobGoesOn
<1>5. CASE KeepCurrent
  <2> DEFINE doc == WithoutInode(job.doc.text, job.doc.mtime)
  <2>1. doc \in Bytes /\ doc.text = job.doc.text
    BY <1>1, CapturedIs DEF Bytes
  <2>2. CaptureBytes(job.file, doc)
    BY <1>5 DEF KeepCurrent
  <2> HIDE DEF doc
  <2>3. RowStep /\ last'[job.file] = doc
    BY <1>1, <2>1, <2>2, CaptureSteps DEF RestoreInv, TrackedOK
  <2>4. QED
    BY <2>1, <2>3, <1>4
<1>6. CASE Displace
  <2>1. job.kind = "recover"
    BY <1>1, <1>6 DEF Displace, CallOK
  <2>2. RowStep
    BY <1>1, <1>6, DisplaceSteps DEF RestoreInv, TrackedOK
  <2>3. QED
    BY <2>1, <2>2, <1>4
<1>7. QED
  BY <1>5, <1>6

(* The call makes its row active, or is refused.                           *)
LEMMA ActivationKeeps ==
    ASSUME RestoreInv, Calm, Activate \/ ActivateThrows
    PROVE  RestoreInv'
<1>1. /\ job \in Calls /\ job # NoJob /\ CallOK /\ job.file \in Used
      /\ job.step = "activate"
  <2>1. job.step = "activate"
    BY DEF Activate, ActivateThrows
  <2>2. QED
    BY <2>1, CallIs
<1>2. kept' = kept /\ last' = last /\ jobs' = jobs /\ phase' = phase /\ UNCHANGED diskVars /\ Unmoved
  BY DEF Activate, ActivateThrows, Unmoved, sweepVars
<1>3. KeptOK' /\ Used' = Used
  BY <1>2, KeptRests DEF RestoreInv
<1>4. ASSUME RowsOK' PROVE TrackedOK'
  BY <1>2, <1>3, <1>4, TrackedRow DEF RestoreInv
<1>5. CASE Activate
  <2>1. RowsOK' /\ Raised' \subseteq Raised \cup {job.file}
    BY <1>1, <1>5, ActivateSteps DEF RestoreInv, TrackedOK
  <2> DEFINE next == IF job.kind = "restore" THEN "record" ELSE "stat"
  <2>2. job' = [job EXCEPT !.step = next]
    BY <1>5 DEF Activate, AfterActivation, Proceed
  <2>3. next \in {"record", "stat"} /\ (next = "record" => job.kind = "restore")
        /\ (next = "stat" => job.kind = "recover")
    BY <1>1 DEF Calls
  <2> HIDE DEF next
  <2>4. /\ job' \in Calls /\ job'.step = next /\ job'.file = job.file /\ job'.kind = job.kind
        /\ job'.doc = job.doc
    BY <1>1, <2>2, <2>3 DEF Calls
  <2>5. job' # NoJob
    BY <2>3, <2>4 DEF NoJob
  <2>6. CallOK'
    BY <1>1, <1>3, <2>3, <2>4 DEF CallOK
  <2>7. RaisedOK'
    <3>1. Raised = {}
      BY <1>1 DEF RestoreInv, RaisedOK, AboutToRecord
    <3>2. QED
      BY <2>1, <2>3, <2>4, <2>5, <3>1 DEF RaisedOK, AboutToRecord
  <2>8. QED
    BY <1>1, <1>2, <1>3, <1>4, <2>1, <2>4, <2>6, <2>7, JobGoesOn
<1>6. CASE ActivateThrows
  <2>1. RowStep
    BY <1>1, <1>6, RefusedSteps DEF RestoreInv, TrackedOK
  <2>2. RaisedOK'
    BY <1>1, <2>1, NoneRaised DEF RestoreInv, RowStep
  <2>3. job' = NoJob
    BY <1>6 DEF ActivateThrows, Return
  <2>4. QED
    BY <1>1, <1>2, <1>3, <1>4, <2>1, <2>2, <2>3, JobGoesOn DEF RowStep
<1>7. QED
  BY <1>5, <1>6

(* The call records what it wrote.                                         *)
LEMMA RecordingKeeps ==
    ASSUME RestoreInv, Calm, RecordWritten
    PROVE  RestoreInv'
<1>1. /\ job \in Calls /\ job # NoJob /\ CallOK /\ job.file \in Used
      /\ job.step = "record" /\ job.doc \in Bytes
  <2>1. job.step = "record"
    BY DEF RecordWritten
  <2>2. QED
    BY <2>1, CallIs DEF Calls, CallOK
<1>2. /\ Keep /\ job' = NoJob /\ jobs' = jobs /\ phase' = phase
      /\ UNCHANGED diskVars /\ Unmoved /\ CaptureBytes(job.file, job.doc)
  <2>1. Keep /\ Return /\ UNCHANGED <<diskVars, jobs>> /\ Unmoved /\ CaptureBytes(job.file, job.doc)
    BY DEF RecordWritten
  <2>2. QED
    BY <2>1 DEF Return, Unmoved, sweepVars
<1>3. RowStep /\ job.file \notin Raised'
  BY <1>1, <1>2, CaptureSteps DEF RestoreInv, TrackedOK
<1>4. TrackedOK'
  BY <1>2, <1>3, TrackedRow DEF RestoreInv, RowStep
<1>5. KeptOK'
  BY <1>2, <1>3, KeepGrows DEF RestoreInv, RowStep
<1>6. RaisedOK'
  <2>1. \A f \in Raised : f = job.file
    BY DEF RestoreInv, RaisedOK, AboutToRecord
  <2>2. Raised' = {}
    BY <2>1, <1>3 DEF RowStep
  <2>3. QED
    BY <2>2 DEF RaisedOK
<1>7. QED
  BY <1>1, <1>2, <1>4, <1>5, <1>6, JobGoesOn

-----------------------------------------------------------------------------
(* The reconciliation that nothing disturbs.                               *)

(* No event waits, where none waited and nothing came.                     *)
LEMMA QuietRests ==
    ASSUME Quiet, UNCHANGED <<disk, noticed, timer, task>>
    PROVE  Quiet'
  BY DEF Quiet

(* As long as it is quiet, only a user, an expiring entry or the           *)
(* reconciliation itself takes a step.                                     *)
LEMMA QuietSteps ==
    ASSUME Quiet, Next
    PROVE  UserEdits \/ (\E p \in Paths : Expire(p)) \/ Reconcile
<1>1. \A p \in Paths : ~NoticeUpsert(p) /\ ~NoticeUnlink(p) /\ ~TimerFires(p)
  BY DEF Quiet, NoticeUpsert, NoticeUnlink, TimerFires
<1>2. \A p \in Paths : task[p].step = "idle"
  BY DEF Quiet, Idle
<1>3. \A p \in Paths : ~Continue(p)
  BY <1>2 DEF Continue, ReadMissing, ReadFails, ReadBytes, RecordBytes, RecordRename, DeleteUntracked,
     DeleteTracked, Access, AccessFails, FileIsBack, FileIsGone
<1>4. QED
  BY <1>1, <1>3 DEF Next, Notice

(* It begins with all paths before it.                                     *)
LEMMA SweepBegins ==
    ASSUME Sweep, Quiet
    PROVE  Quiet' /\ Scanned' /\ Visited'
<1>1. phase' = "scan" /\ todo' = Walk(Paths) /\ UNCHANGED <<disk, noticed, timer, task>>
  BY DEF Sweep, diskVars, queueVars
<1>2. ToSet(todo') = Paths
  BY <1>1, WalkCovers
<1>3. QED
  BY <1>1, <1>2, QuietRests DEF Scanned, Visited

(* The paths before it are the first one and the others.                   *)
LEMMA FirstAndRest ==
    ASSUME SweepOK, todo # <<>>
    PROVE  Head(todo) \in Paths /\ ToSet(todo) \subseteq ToSet(Tail(todo)) \cup {Head(todo)}
<1>1. /\ Head(todo) \in Paths /\ Len(todo) \in Nat /\ DOMAIN todo = 1..Len(todo)
      /\ Head(todo) = todo[1] /\ DOMAIN Tail(todo) = 1..(Len(todo) - 1)
      /\ \A i \in 1..(Len(todo) - 1) : Tail(todo)[i] = todo[i + 1]
  BY HeadTailProperties, LenProperties DEF SweepOK
<1>2. ASSUME NEW i \in DOMAIN todo PROVE todo[i] \in ToSet(Tail(todo)) \cup {Head(todo)}
  <2>1. CASE i = 1
    BY <1>1, <2>1
  <2>2. CASE i # 1
    <3>1. i - 1 \in 1..(Len(todo) - 1) /\ (i - 1) + 1 = i
      BY <1>1, <2>2
    <3>2. Tail(todo)[i - 1] = todo[i]
      BY <1>1, <3>1
    <3>3. QED
      BY <1>1, <3>1, <3>2 DEF ToSet
  <2>3. QED
    BY <2>1, <2>2
<1>3. QED
  BY <1>1, <1>2 DEF ToSet

(* And goes on.                                                            *)
LEMMA SweepGoesOn ==
    ASSUME TrackedOK, MaxFailures = 0, phase # "none", Quiet, Scanned, Visited, Reconcile, phase' # "none"
    PROVE  Quiet' /\ Scanned' /\ Visited'
<1> USE DEF TrackedOK
<1>1. \A p \in Paths : ~Unreadable(p)
  BY DEF DiskOK, Unreadable
<1>2. ASSUME UNCHANGED <<diskVars, noticed, queueVars>> PROVE Quiet' /\ disk' = disk
  BY <1>2, QuietRests DEF diskVars, queueVars
<1>3. CASE Scan
  <2>1. /\ Quiet' /\ disk' = disk /\ phase' = "scan" /\ phase = "scan" /\ todo' = Tail(todo)
        /\ found' = [found EXCEPT ![Head(todo)] = disk[Head(todo)]]
    BY <1>2, <1>3 DEF Scan
  <2>2. \A p \in Paths : found'[p] = IF p = Head(todo) THEN disk[p] ELSE found[p]
    BY <2>1 DEF SweepOK
  <2>3. ToSet(todo) \subseteq ToSet(todo') \cup {Head(todo)}
    BY <2>1, <1>3, FirstAndRest DEF Scan
  <2>4. QED
    BY <2>1, <2>2, <2>3 DEF Scanned, Visited
<1>4. CASE ScanEnds
  <2>1. /\ Quiet' /\ disk' = disk /\ phase' = "capture" /\ phase = "scan" /\ todo = <<>>
        /\ todo' = Walk({p \in Paths : found[p] # None}) /\ UNCHANGED <<found, item>>
    BY <1>2, <1>4 DEF ScanEnds
  <2>2. ToSet(todo) = {}
    BY <2>1 DEF ToSet
  <2>3. \A p \in Paths : found[p] = disk[p]
    BY <2>1, <2>2 DEF Scanned
  <2>4. ToSet(todo') = {p \in Paths : found[p] # None}
    BY <2>1, WalkCovers
  <2>5. item' = None
    BY <2>1 DEF SweepOK
  <2>6. QED
    BY <2>1, <2>3, <2>4, <2>5 DEF Scanned, Visited
<1>5. ASSUME phase = "capture", UNCHANGED <<diskVars, rowVars, noticed, queueVars, phase, found>>,
             \A p \in Paths : disk[p] # None /\ (p \in ToSet(todo) \/ Visiting(p))
                => UpToDate(p) \/ p \in ToSet(todo') \/ Visiting(p)',
             item' # None => item'.doc \in {None, disk[item'.path]}
      PROVE  Quiet' /\ Scanned' /\ Visited'
  <2>1. Quiet' /\ disk' = disk /\ phase' = "capture" /\ found' = found
    BY <1>2, <1>5
  <2>2. \A p \in Paths : UpToDate(p)' <=> UpToDate(p)
    BY <1>5 DEF UpToDate, diskVars, rowVars
  <2>3. QED
    BY <2>1, <2>2, <1>5 DEF Scanned, Visited
<1>6. CASE Visit
  <2>1. /\ phase = "capture" /\ UNCHANGED <<diskVars, rowVars, noticed, queueVars, phase, found>>
        /\ todo' = Tail(todo) /\ todo # <<>> /\ item = None
        /\ item' = IF UnchangedOnDisk(Head(todo)) THEN None ELSE [path |-> Head(todo), doc |-> None]
    BY <1>6 DEF Visit
  <2>2. Head(todo) \in Paths /\ ToSet(todo) \subseteq ToSet(todo') \cup {Head(todo)}
    BY <2>1, FirstAndRest
  <2>3. UnchangedOnDisk(Head(todo)) => UpToDate(Head(todo))
    BY <2>1, <2>2 DEF UnchangedOnDisk, UpToDate, Visited
  <2>4. ~UnchangedOnDisk(Head(todo)) =>
           item' # None /\ item'.path = Head(todo) /\ item'.doc = None
    <3>1. [path |-> Head(todo), doc |-> None] \in Visits
      BY <2>2 DEF Visits
    <3>2. QED
      BY <2>1, <3>1, NothingIsApart DEF Visits
  <2>5. QED
    BY <2>1, <2>2, <2>3, <2>4, <1>5 DEF Visiting
<1>7. CASE VisitReads
  <2>1. /\ item # None /\ item \in Visits /\ phase = "capture" /\ todo' = todo
        /\ UNCHANGED <<diskVars, rowVars, noticed, queueVars, phase, found>>
    BY <1>7 DEF VisitReads, SweepOK
  <2>2. item.path \in Paths /\ disk[item.path] \in Bytes \cup {None}
    BY <2>1 DEF Visits, DiskOK
  <2>3. CASE disk[item.path] = None
    <3>1. item' = None
      BY <1>7, <2>3 DEF VisitReads
    <3>2. QED
      BY <2>1, <2>3, <3>1, <1>5 DEF Visiting
  <2>4. CASE disk[item.path] # None
    <3>1. item' = [item EXCEPT !.doc = disk[item.path]]
      BY <1>7, <2>4 DEF VisitReads
    <3>2. item' \in Visits /\ item'.path = item.path /\ item'.doc = disk[item.path]
      BY <2>1, <2>2, <3>1 DEF Visits
    <3>3. item' # None
      BY <3>2, NothingIsApart DEF Visits
    <3>4. QED
      BY <2>1, <3>2, <3>3, <1>5 DEF Visiting
  <2>5. QED
    BY <2>3, <2>4
<1>8. CASE VisitRecords
  <2>1. /\ item # None /\ item.doc # None /\ item \in Visits /\ phase = "capture"
        /\ todo' = todo /\ item' = None /\ phase' = phase /\ found' = found
        /\ UNCHANGED <<diskVars, noticed, queueVars>> /\ Record(item.path, item.doc)
    BY <1>8 DEF VisitRecords, SweepOK
  <2>2. PICK p \in Paths : p = item.path /\ item.doc \in Bytes /\ item.doc = disk[p]
    BY <2>1 DEF Visits, Visited
  <2>3. RecordedAt(p, item.doc) /\ RowsOK'
    BY <2>1, <2>2, RecordSteps DEF RowStep
  <2>4. Quiet' /\ disk' = disk
    BY <2>1, <1>2
  <2>5. UpToDate(p)'
    BY <2>2, <2>3, <2>4, NothingIsApart DEF UpToDate, RecordedAt
  <2>6. \A q \in Paths \ {p} : UpToDate(q) => UpToDate(q)'
    BY <2>3, <2>4 DEF UpToDate, RecordedAt
  <2>7. QED
    BY <2>1, <2>2, <2>4, <2>5, <2>6 DEF Scanned, Visited, Visiting
<1>9. ~ScanFails /\ ~VisitFails
  BY <1>1, FirstAndRest DEF ScanFails, VisitFails, SweepOK, Visits
<1>10. ~Sweep /\ ~SweepBuries
  BY DEF Sweep, SweepBuries
<1>11. QED
  BY <1>3, <1>4, <1>6, <1>7, <1>8, <1>9, <1>10 DEF Reconcile

(* What goes on beside a call.                                             *)
LEMMA CalmKeeps ==
    ASSUME RestoreInv, Next, Sweep => Quiet, job' = job, Calm
    PROVE  CalmOK'
<1>1. CASE Sweep
  BY <1>1, SweepBegins DEF Calm, CalmOK
<1>2. CASE ~Sweep
  <2>1. calm' = (calm /\ disk' = disk /\ job' = job)
    BY <1>2 DEF Calm
  <2>2. calm' \in BOOLEAN /\ (calm' => calm /\ disk' = disk /\ job' = NoJob)
    BY <2>1 DEF RestoreInv, CalmOK
  <2>3. ASSUME calm', phase' # "none", MaxFailures = 0 PROVE Quiet' /\ Scanned' /\ Visited'
    <3>1. calm /\ disk' = disk
      BY <2>2, <2>3
    <3>2. phase = "none" => phase' = "none"
      <4>1. SweepOK /\ (Reconcile \/ phase' = phase)
        BY DEF RestoreInv, TrackedOK, Next, UserEdits, Notice, NoticeUpsert, NoticeUnlink, Expire,
           TimerFires, Continue, ReadMissing, ReadFails, ReadBytes, RecordBytes, RecordRename,
           DeleteUntracked, DeleteTracked, Access, AccessFails, FileIsBack, FileIsGone, sweepVars
      <4>2. QED
        BY <4>1, <1>2 DEF SweepOK, Reconcile, Scan, ScanFails, ScanEnds, Visit, VisitReads, VisitFails,
           VisitRecords, SweepBuries
    <3>3. phase # "none"
      BY <2>3, <3>2
    <3>4. Quiet /\ Scanned /\ Visited
      BY <2>3, <3>1, <3>3 DEF RestoreInv, CalmOK
    <3>5. ASSUME UNCHANGED <<rowVars, noticed, queueVars, sweepVars>>
          PROVE  Quiet' /\ Scanned' /\ Visited'
      <4>1. Quiet'
        BY <3>1, <3>4, <3>5, QuietRests DEF queueVars
      <4>2. QED
        BY <4>1, <3>1, <3>4, <3>5
           DEF Scanned, Visited, UpToDate, Visiting, rowVars, sweepVars
    <3>6. CASE UserEdits
      BY <3>5, <3>6 DEF UserEdits
    <3>7. ASSUME NEW p \in Paths, Expire(p) PROVE Quiet' /\ Scanned' /\ Visited'
      BY <3>5, <3>7 DEF Expire
    <3>8. CASE Reconcile
      BY <2>3, <3>3, <3>4, <3>8, SweepGoesOn DEF RestoreInv
    <3>9. QED
      BY <3>4, <3>6, <3>7, <3>8, QuietSteps
  <2>4. QED
    BY <2>2, <2>3 DEF CalmOK
<1>3. QED
  BY <1>1, <1>2

(* A step of Tracking beside a call.                                       *)
LEMMA BesideKeeps ==
    ASSUME RestoreInv, Beside, Keep, UNCHANGED <<job, jobs>>, Calm
    PROVE  RestoreInv'
<1>1. TrackedOK' /\ RowStep
  BY NextTracks DEF RestoreInv, Beside
<1>2. KeptOK' /\ \A f \in Used : kept[f] \subseteq kept'[f]
  BY <1>1, KeepGrows DEF RestoreInv, RowStep
<1>3. JobOK' /\ RaisedOK'
  BY <1>1, <1>2, JobRests DEF RestoreInv
<1>4. CalmOK'
  BY CalmKeeps DEF Beside
<1>5. QED
  BY <1>1, <1>2, <1>3, <1>4 DEF RestoreInv

-----------------------------------------------------------------------------
(* A folder at rest, with no dialog.                                       *)
LEMMA RestoreInitHolds == RestoreInit => RestoreInv
<1> SUFFICES ASSUME RestoreInit PROVE RestoreInv
  OBVIOUS
<1>1. /\ First \in Texts /\ New \in Texts /\ New # First
      /\ 1 \in Files /\ 2 \in Files /\ Files \subseteq Nat
  <2>1. First \in Texts
    BY VaultAssumption DEF First
  <2>2. PICK t \in Texts : t # First
    BY RestoreAssumption
  <2>3. New \in Texts /\ New # First
    BY <2>2 DEF New
  <2>4. 1 \in Files /\ 2 \in Files /\ Files \subseteq Nat
    BY VaultAssumption, RestoreAssumption DEF Files
  <2>5. QED
    BY <2>1, <2>3, <2>4
<1> DEFINE doc(n) == [ino |-> n, text |-> First, mtime |-> n]
<1>2. \A n \in Nat : doc(n) \in Bytes /\ doc(n) # None /\ doc(n).text = First
  BY <1>1, NothingIsApart DEF Bytes
<1>3. PICK p \in Paths, there \in {"note", "nothing", "another"} :
         LET at(x) == [q \in Paths |-> IF q = p THEN x ELSE None] IN
         /\ disk = at(CASE there = "note" -> doc(1) [] there = "nothing" -> None
                        [] there = "another" -> doc(2))
         /\ tracked = at(CASE there = "note" -> 1 [] there = "nothing" -> None
                           [] there = "another" -> 2)
         /\ graves = [q \in Paths |-> IF q = p /\ there # "note" THEN <<1>> ELSE <<>>]
         /\ last = [f \in Files |-> IF f = 1 THEN doc(1)
                                    ELSE IF f = 2 /\ there = "another" THEN doc(2) ELSE None]
         /\ entombed = IF there = "note" THEN {} ELSE {1}
         /\ edits = 2 /\ failures = 0
  BY Zenon DEF RestoreInit, FolderInit
<1> DEFINE x == CASE there = "note" -> doc(1) [] there = "nothing" -> None [] there = "another" -> doc(2)
           r == CASE there = "note" -> 1 [] there = "nothing" -> None [] there = "another" -> 2
<1>4. /\ disk = [q \in Paths |-> IF q = p THEN x ELSE None]
      /\ tracked = [q \in Paths |-> IF q = p THEN r ELSE None]
  BY <1>3
<1>5. x \in Bytes \cup {None} /\ r \in Files \cup {None}
      /\ r = (IF there = "note" THEN 1 ELSE IF there = "another" THEN 2 ELSE None)
  BY <1>1, <1>2
<1> HIDE DEF x, r
<1>6. DiskOK
  BY <1>3, <1>4, <1>5 DEF DiskOK
<1>7. /\ \A f \in Files : last[f] = IF f = 1 THEN doc(1)
                                    ELSE IF f = 2 /\ there = "another" THEN doc(2) ELSE None
      /\ DOMAIN last = Files /\ last = [f \in Files |-> last[f]]
  BY <1>3
<1> HIDE DEF doc
<1>8. last \in [Files -> Bytes \cup {None}]
  <2>1. \A f \in Files : last[f] \in Bytes \cup {None}
    BY <1>2, <1>7
  <2>2. QED
    BY <1>7, <2>1
<1>9. Used = IF there = "another" THEN {1, 2} ELSE {1}
  BY <1>1, <1>2, <1>7 DEF Used
<1>10. \A q \in Paths : Below(q) = IF q = p /\ there # "note" THEN {1} ELSE {}
  BY <1>3 DEF Below, ToSet
<1>11. RowTypes
  <2>1. tracked \in [Paths -> Files \cup {None}]
    BY <1>4, <1>5
  <2>2. graves \in [Paths -> Seq(Files)] /\ \A q \in Paths : IsInjective(graves[q])
    BY <1>1, <1>3 DEF IsInjective
  <2>3. entombed \subseteq Files
    BY <1>1, <1>3
  <2>4. QED
    BY <1>8, <2>1, <2>2, <2>3 DEF RowTypes
<1>12. Placed(1)
  <2>1. CASE there = "note"
    <3>1. ActiveAt(1, p)
      BY <1>4, <1>5, <1>10, <2>1, NothingIsApart, <1>1 DEF ActiveAt
    <3>2. QED
      BY <3>1 DEF Placed
  <2>2. CASE there # "note"
    <3>1. DeletedAt(1, p)
      BY <1>4, <1>5, <1>10, <2>2, NothingIsApart, <1>1 DEF DeletedAt
    <3>2. QED
      BY <3>1 DEF Placed
  <2>3. QED
    BY <2>1, <2>2
<1>13. there = "another" => Placed(2)
  <2> SUFFICES ASSUME there = "another" PROVE ActiveAt(2, p)
    BY DEF Placed
  <2>1. QED
    BY <1>4, <1>5, <1>10, NothingIsApart, <1>1 DEF ActiveAt
<1>14. \A f \in Files \ Used : Nowhere(f)
  BY <1>1, <1>4, <1>5, <1>9, <1>10, NothingIsApart DEF Nowhere
<1>15. RowsOK
  BY <1>9, <1>11, <1>12, <1>13, <1>14 DEF RowsOK
<1>16. /\ timer = [q \in Paths |-> None] /\ task = [q \in Paths |-> Idle]
       /\ parked = [q \in Paths |-> None] /\ held = [q \in Paths |-> None]
       /\ phase = "none" /\ todo = <<>> /\ found = [q \in Paths |-> None] /\ item = None
       /\ job = NoJob /\ jobs = 0 /\ calm = FALSE
       /\ kept = [f \in Files |-> IF f = 1 THEN Texts \ {New}
                                  ELSE IF last[f] = None THEN {} ELSE {last[f].text}]
  BY DEF RestoreInit, AtRest
<1>17. TimersOK /\ HeldOK /\ SweepOK
  BY <1>16 DEF TimersOK, HeldOK, SweepOK
<1>18. TasksOK
  <2>1. Idle \in Read /\ Idle.step # "record"
    BY DEF Idle, Read, Steps
  <2>2. QED
    BY <1>16, <2>1 DEF TasksOK
<1>19. KeptOK
  <2>1. \A f \in Used : f \in Files /\ last[f] \in Bytes /\ last[f] # None /\ last[f].text = First
    BY <1>1, <1>2, <1>7, <1>9 DEF Used
  <2>2. \A f \in Files : kept[f] \in SUBSET Texts
    BY <1>8, <1>16 DEF Bytes
  <2>3. \A f \in Used : last[f].text \in kept[f]
    BY <1>1, <1>16, <2>1
  <2>4. QED
    BY <1>16, <2>2, <2>3 DEF KeptOK
<1>20. JobOK
  BY <1>16, RestoreAssumption DEF JobOK
<1>21. RaisedOK
  <2>1. Raised = {}
    BY <1>3, <1>4, <1>5, NothingIsApart, <1>1 DEF Raised, Active
  <2>2. QED
    BY <2>1 DEF RaisedOK
<1>22. CalmOK
  BY <1>16 DEF CalmOK
<1>23. QED
  BY <1>6, <1>15, <1>17, <1>18, <1>19, <1>20, <1>21, <1>22 DEF RestoreInv, TrackedOK

(* Every step keeps all of it.                                             *)
LEMMA RestoreNextKeeps == RestoreInv /\ [RestoreNext]_allVars => RestoreInv'
<1> SUFFICES ASSUME RestoreInv, [RestoreNext]_allVars PROVE RestoreInv'
  OBVIOUS
<1>1. CASE RestoreNext
  <2>1. Calm
    BY <1>1 DEF RestoreNext
  <2>2. CASE Beside /\ Keep /\ UNCHANGED <<job, jobs>>
    BY <2>1, <2>2, BesideKeeps
  <2>3. CASE Dialogs
    BY <2>1, <2>3, DialogKeeps
  <2>4. CASE CallGoesOn
    BY <2>1, <2>4, LookingKeeps, WritingKeeps, SavingKeeps, ActivationKeeps, RecordingKeeps DEF CallGoesOn
  <2>5. QED
    BY <1>1, <2>2, <2>3, <2>4 DEF RestoreNext
<1>2. CASE UNCHANGED allVars
  <2>1. UNCHANGED vars /\ UNCHANGED <<job, jobs, kept, calm>>
    BY <1>2 DEF allVars, jobVars
  <2>2. TrackedOK' /\ RowStep
    BY <2>1, TrackedRests DEF RestoreInv
  <2>3. KeptOK'
    BY <2>1, KeptRests DEF RestoreInv, vars, rowVars
  <2>4. JobOK' /\ RaisedOK'
    BY <2>1, <2>2, JobRests DEF RestoreInv
  <2>5. CalmOK'
    BY <2>1 DEF RestoreInv, CalmOK, Quiet, Scanned, Visited, UpToDate, Visiting, vars, diskVars,
                rowVars, queueVars, sweepVars
  <2>6. QED
    BY <2>2, <2>3, <2>4, <2>5 DEF RestoreInv
<1>3. QED
  BY <1>1, <1>2

(* Where a call is and what it knows, where the rows are and what their    *)
(* timelines have, and how far an undisturbed reconciliation has come.     *)
THEOREM RestoreInvariant == RestoreSpec => []RestoreInv
<1>1. RestoreInit => RestoreInv
  BY RestoreInitHolds
<1>2. RestoreInv /\ [RestoreNext]_allVars => RestoreInv'
  BY RestoreNextKeeps
<1>3. QED
  BY <1>1, <1>2, PTL DEF RestoreSpec

(* A call keeps or displaces only what it has read, displaces only another *)
(* row, and the newest text of every row is in its timeline.               *)
THEOREM RestoreTypeCorrect == RestoreSpec => []RestoreTypeOK
<1>1. RestoreInv => RestoreTypeOK
  <2> SUFFICES ASSUME RestoreInv PROVE RestoreTypeOK
    OBVIOUS
  <2>1. job \in Calls \cup {NoJob} /\ jobs \in 0..MaxJobs /\ (job # NoJob => CallOK)
    BY DEF RestoreInv, JobOK
  <2>2. /\ job.step \in {"none", "dialog", "read", "keep", "space", "look", "name", "peek",
                         "displace", "write", "stat", "activate", "record"}
        /\ job = NoJob => job.step = "none"
    BY <2>1 DEF Calls, NoJob
  <2>3. /\ job.step \in {"keep", "displace"} => job.doc # None
        /\ job.step = "displace" => job.occupant \in Used \ {job.file}
    BY <2>1, <2>2 DEF CallOK
  <2>4. \A f \in Files : kept[f] \subseteq Texts /\ (f \in Used => last[f].text \in kept[f])
    BY DEF RestoreInv, KeptOK
  <2>5. QED
    BY <2>1, <2>2, <2>3, <2>4 DEF RestoreTypeOK
<1>2. QED
  BY <1>1, RestoreInvariant, PTL

(* What a restore overwrites, as the call had read it, is in the timeline  *)
(* of the restored note.                                                   *)
THEOREM RestoresAreUndoable == RestoreSpec => Undoable
<1> DEFINE Undo == WriteLands /\ job.kind = "restore" /\ disk[job.path] # None /\ disk[job.path] = job.doc
                   => disk[job.path].text \in kept[job.file]
<1>1. RestoreInv => Undo
  <2> SUFFICES ASSUME RestoreInv, WriteLands, job.kind = "restore", disk[job.path] # None,
                      disk[job.path] = job.doc
               PROVE  disk[job.path].text \in kept[job.file]
    OBVIOUS
  <2>1. job.step = "write"
    BY DEF WriteLands
  <2>2. CallOK
    BY <2>1, CallIs
  <2>3. QED
    BY <2>1, <2>2 DEF CallOK
<1>2. RestoreSpec => [][Undo]_allVars
  BY <1>1, RestoreInvariant, PTL
<1>3. QED
  BY <1>2 DEF Undoable

(* Where reads succeed, a reconciliation that is not disturbed brings the  *)
(* store up to date, from whatever a call, an event that was suppressed or *)
(* a reconciliation before it has left. Only a text of the size and with   *)
(* the mtime that the store has recorded escapes it.                       *)
THEOREM ReconciliationsMend ==
    ASSUME MaxFailures = 0
    PROVE  RestoreSpec => SweepMends
<1>1. RestoreInv => (calm /\ SweepBuries => \A p \in Paths : (InSyncAt(p) \/ Disguised(p))')
  <2> SUFFICES ASSUME RestoreInv, calm, SweepBuries, NEW p \in Paths
               PROVE  InSyncAt(p)' \/ Disguised(p)'
    OBVIOUS
  <2>1. /\ phase = "capture" /\ todo = <<>> /\ item = None /\ BuryAll(Lost)
        /\ disk' = disk
    BY DEF SweepBuries, diskVars
  <2>2. job = NoJob /\ Visited
    BY <2>1 DEF RestoreInv, CalmOK
  <2>3. ToSet(todo) = {}
    BY <2>1 DEF ToSet
  <2>4. Raised = {}
    BY <2>2 DEF RestoreInv, RaisedOK, AboutToRecord
  <2>5. tracked[p] # None => MayBury(p)
    BY <2>4 DEF MayBury, Raised, Active
  <2>6. tracked'[p] = (IF p \in Lost THEN None ELSE tracked[p]) /\ last' = last
    BY <2>1 DEF BuryAll
  <2>7. CASE disk[p] = None
    BY <2>1, <2>2, <2>5, <2>6, <2>7 DEF Lost, Visited, InSyncAt
  <2>8. CASE disk[p] # None
    <3>1. UpToDate(p) /\ p \notin Lost
      BY <2>1, <2>2, <2>3, <2>8 DEF Visited, Visiting, Lost
    <3>2. QED
      BY <2>1, <2>6, <2>8, <3>1 DEF UpToDate, InSyncAt, Disguised
  <2>9. QED
    BY <2>7, <2>8
<1>2. RestoreSpec => [][calm /\ SweepBuries =>
                            \A p \in Paths : (InSyncAt(p) \/ Disguised(p))']_allVars
  BY <1>1, RestoreInvariant, PTL
<1>3. QED
  BY <1>2 DEF SweepMends
=============================================================================
