--------------------------- MODULE TrackingProofs ---------------------------
(***************************************************************************)
(* For any paths, texts, rows, edits and failures: the types of the queue, *)
(* the correlator, the reconciliation and the store beside one another,    *)
(* and that a row is in one place.  For any debounce, grace and window:    *)
(* that a held deletion is decided in time, that events are enough, and    *)
(* that a document that is moved is never in two open timelines.           *)
(***************************************************************************)
EXTENDS Renames, FiniteSetTheorems, SequenceTheorems, WellFoundedInduction, TLAPS

-----------------------------------------------------------------------------
(* The store: what its variables hold.                                     *)
VaultTypes ==
    /\ disk \in [Paths -> Docs \cup {None}]
    /\ edits \in 0..MaxEdits /\ failures \in 0..MaxFailures
    /\ tracked \in [Paths -> Files \cup {None}]
    /\ graves \in [Paths -> Seq(Files)]
    /\ last \in [Files -> Docs \cup {None}]
    /\ entombed \subseteq Files

(* A row is active at one path, or has one place among the deleted rows of *)
(* one path, or is nowhere; what is somewhere has a version, and what is   *)
(* active has one that is not a deletion.                                  *)
RowsOnce ==
    /\ \A p, q \in Paths : tracked[p] # None /\ tracked[p] = tracked[q] => p = q
    /\ \A p, q \in Paths : \A i \in DOMAIN graves[q] : graves[q][i] # tracked[p]
    /\ \A p, q \in Paths : \A i \in DOMAIN graves[p], j \in DOMAIN graves[q] :
          graves[p][i] = graves[q][j] => p = q /\ i = j
    /\ \A p \in Paths : tracked[p] # None => tracked[p] \in Used \ entombed
    /\ \A p \in Paths : \A i \in DOMAIN graves[p] : graves[p][i] \in Used

VaultInv == VaultTypes /\ RowsOnce

(* The queue and the correlator.                                           *)
Steps == {"idle", "read", "record", "lookup", "access", "back", "gone"}
Tasks == [step : Steps, doc : Docs \cup {None}]
Items == [path : Paths, doc : Docs \cup {None}]

QueueTypes ==
    /\ noticed \in [Paths -> Docs \cup {None}]
    /\ timer \in [Paths -> Kinds \cup {None}]
    /\ parked \in [Paths -> Kinds \cup {None}]
    /\ task \in [Paths -> Tasks]
    /\ \A p \in Paths : task[p].doc \in (IF task[p].step = "record" THEN Docs ELSE {None})
    /\ held \in [Paths -> Entries \cup {None}]
    /\ \A p \in Paths : held[p] # None => held[p].file \in Used

(* The reconciliation.                                                     *)
SweepTypes ==
    /\ phase \in {"none", "scan", "capture"}
    /\ todo \in Seq(Paths)
    /\ found \in [Paths -> Docs \cup {None}]
    /\ item \in Items \cup {None}

TrackingInv == VaultInv /\ QueueTypes /\ SweepTypes

-----------------------------------------------------------------------------
(* Sequences.                                                              *)

(* A set of numbers that is not empty has a least one.                     *)
LEMMA LeastOf ==
    ASSUME NEW S \in SUBSET Nat, S # {}
    PROVE  \E x \in S : \A i \in S : x <= i
<1> DEFINE less == {p \in Nat \X Nat : p[1] < p[2]}
<1>1. IsWellFoundedOn(less, Nat)
  BY NatLessThanWellFounded DEF OpToRel
<1>2. PICK x \in S : \A y \in S : <<y, x>> \notin less
  <2> HIDE DEF less
  <2> QED
    BY <1>1, WFMin
<1>3. \A y \in S : x <= y
  <2> SUFFICES ASSUME NEW y \in S PROVE x <= y
    OBVIOUS
  <2>1. x \in Nat /\ y \in Nat
    OBVIOUS
  <2>2. ~(y < x)
    BY <1>2, <2>1
  <2>3. QED
    BY <2>1, <2>2
<1>4. QED
  BY <1>2, <1>3

(* A sequence without the element at i.                                    *)
LEMMA Removal ==
    ASSUME NEW S, NEW q \in Seq(S), NEW i \in DOMAIN q
    PROVE  LET r == RemoveAt(q, i) IN
           /\ r \in Seq(S) /\ Len(q) \in Nat /\ DOMAIN q = 1..Len(q)
           /\ DOMAIN r = 1..(Len(q) - 1)
           /\ \A k \in DOMAIN r : r[k] = IF k < i THEN q[k] ELSE q[k + 1]
<1> DEFINE a == SubSeq(q, 1, i - 1)
           b == SubSeq(q, i + 1, Len(q))
           r == RemoveAt(q, i)
<1>1. Len(q) \in Nat /\ DOMAIN q = 1..Len(q) /\ i \in 1..Len(q)
  BY LenProperties
<1>2. \A k \in 1..Len(q) : q[k] \in S
  BY <1>1, ElementOfSeq
<1>3. /\ a \in Seq(S) /\ Len(a) = i - 1 /\ \A k \in 1..(i - 1) : a[k] = q[k]
  <2>1. \A k \in 1..(i - 1) : k \in 1..Len(q)
    BY <1>1
  <2>2. a = SubSeq(q, 1, i - 1) /\ i - 1 \in Int
    BY <1>1
  <2> HIDE DEF a
  <2>3. /\ a \in Seq(S) /\ Len(a) = IF 1 <= i - 1 THEN i - 1 - 1 + 1 ELSE 0
        /\ \A k \in 1..(i - 1 - 1 + 1) : a[k] = q[1 + k - 1]
    BY <1>2, <2>1, <2>2, SubSeqProperties
  <2>4. QED
    BY <1>1, <2>3
<1>4. /\ b \in Seq(S) /\ Len(b) = Len(q) - i
      /\ \A k \in 1..(Len(q) - i) : b[k] = q[k + i]
  <2>1. \A k \in (i + 1)..Len(q) : k \in 1..Len(q)
    BY <1>1
  <2>2. b = SubSeq(q, i + 1, Len(q)) /\ i + 1 \in Int /\ Len(q) \in Int
    BY <1>1
  <2> HIDE DEF b
  <2>3. /\ b \in Seq(S) /\ Len(b) = IF i + 1 <= Len(q) THEN Len(q) - (i + 1) + 1 ELSE 0
        /\ \A k \in 1..(Len(q) - (i + 1) + 1) : b[k] = q[i + 1 + k - 1]
    BY <1>2, <2>1, <2>2, SubSeqProperties
  <2>4. Len(q) - (i + 1) + 1 = Len(q) - i /\ (i + 1 <= Len(q) \/ Len(q) - i = 0)
    BY <1>1
  <2>5. Len(b) = Len(q) - i
    BY <2>3, <2>4
  <2>6. ASSUME NEW k \in 1..(Len(q) - i) PROVE b[k] = q[k + i]
    <3>1. b[k] = q[i + 1 + k - 1]
      BY <2>3, <2>4
    <3>2. i + 1 + k - 1 = k + i
      BY <1>1
    <3>3. QED
      BY <3>1, <3>2
  <2>7. QED
    BY <2>3, <2>5, <2>6
<1>5. r = a \o b
  BY DEF RemoveAt
<1> HIDE DEF a, b, r
<1>6. /\ r \in Seq(S) /\ Len(r) = Len(q) - 1
      /\ \A k \in 1..(Len(q) - 1) : r[k] = IF k <= i - 1 THEN a[k] ELSE b[k - (i - 1)]
  <2>1. Len(a) + Len(b) = Len(q) - 1
    BY <1>1, <1>3, <1>4
  <2>2. /\ r \in Seq(S) /\ Len(r) = Len(a) + Len(b)
        /\ \A k \in 1..(Len(a) + Len(b)) : r[k] = IF k <= Len(a) THEN a[k] ELSE b[k - Len(a)]
    BY <1>3, <1>4, <1>5, ConcatProperties
  <2>3. QED
    BY <1>3, <2>1, <2>2
<1>7. DOMAIN r = 1..(Len(q) - 1)
  BY <1>6, LenProperties
<1>8. ASSUME NEW k \in 1..(Len(q) - 1) PROVE r[k] = IF k < i THEN q[k] ELSE q[k + 1]
  <2>1. CASE k < i
    BY <1>1, <1>3, <1>6, <2>1
  <2>2. CASE ~(k < i)
    <3>1. k - (i - 1) \in 1..(Len(q) - i) /\ ~(k <= i - 1) /\ k - (i - 1) + i = k + 1
      BY <1>1, <2>2
    <3>2. QED
      BY <1>4, <1>6, <2>2, <3>1
  <2>3. QED
    BY <2>1, <2>2
<1>9. QED
  BY <1>1, <1>6, <1>7, <1>8 DEF r

(* RemoveFirst takes an element out where it comes first, if it is there.  *)
LEMMA RemoveFirstIs ==
    ASSUME NEW S, NEW s \in Seq(S), NEW e
    PROVE  /\ (\A i \in DOMAIN s : s[i] # e) => RemoveFirst(s, e) = s
           /\ (\E i \in DOMAIN s : s[i] = e) =>
                 \E i \in DOMAIN s : s[i] = e /\ RemoveFirst(s, e) = RemoveAt(s, i)
<1>1. Len(s) \in Nat /\ DOMAIN s = 1..Len(s)
  BY LenProperties
<1>2. ASSUME \A i \in DOMAIN s : s[i] # e PROVE RemoveFirst(s, e) = s
  BY <1>1, <1>2 DEF RemoveFirst
<1>3. ASSUME \E i \in DOMAIN s : s[i] = e
      PROVE  \E i \in DOMAIN s : s[i] = e /\ RemoveFirst(s, e) = RemoveAt(s, i)
  <2> DEFINE I == {i \in 1..Len(s) : s[i] = e}
  <2>1. I \in SUBSET Nat /\ I # {}
    BY <1>1, <1>3
  <2>2. RemoveFirst(s, e) = RemoveAt(s, Min(I))
    BY <1>1, <1>3 DEF RemoveFirst, SelectInSeq
  <2>3. Min(I) \in I
    <3> HIDE DEF I
    <3>1. \E x \in I : \A i \in I : x <= i
      BY <2>1, LeastOf
    <3>2. QED
      BY <3>1 DEF Min
  <2>4. QED
    BY <1>1, <2>2, <2>3
<1>4. QED
  BY <1>2, <1>3

(* So nothing else goes, nothing is added, and what was there once is not  *)
(* there any more.                                                         *)
LEMMA RemoveFirstKeeps ==
    ASSUME NEW S, NEW s \in Seq(S), NEW e
    PROVE  LET r == RemoveFirst(s, e) IN
           /\ r \in Seq(S)
           /\ \A i \in DOMAIN r : \E j \in DOMAIN s : r[i] = s[j]
           /\ (\A i, j \in DOMAIN s : s[i] = s[j] => i = j) =>
                 /\ \A i, j \in DOMAIN r : r[i] = r[j] => i = j
                 /\ \A i \in DOMAIN r : r[i] # e
<1> DEFINE r == RemoveFirst(s, e)
<1>1. CASE \A i \in DOMAIN s : s[i] # e
  BY <1>1, RemoveFirstIs
<1>2. CASE \E i \in DOMAIN s : s[i] = e
  <2>1. PICK n \in DOMAIN s : s[n] = e /\ r = RemoveAt(s, n)
    BY <1>2, RemoveFirstIs
  <2> HIDE DEF r
  <2>2. /\ r \in Seq(S) /\ Len(s) \in Nat /\ DOMAIN s = 1..Len(s)
        /\ DOMAIN r = 1..(Len(s) - 1)
        /\ \A k \in DOMAIN r : r[k] = IF k < n THEN s[k] ELSE s[k + 1]
    BY <2>1, Removal
  <2> DEFINE from(k) == IF k < n THEN k ELSE k + 1
  <2>3. \A k \in DOMAIN r : from(k) \in DOMAIN s /\ from(k) # n /\ r[k] = s[from(k)]
    BY <2>1, <2>2
  <2>4. \A k, l \in DOMAIN r : from(k) = from(l) => k = l
    BY <2>1, <2>2
  <2> HIDE DEF from
  <2>5. QED
    BY <2>1, <2>2, <2>3, <2>4 DEF r
<1>3. QED
  BY <1>1, <1>2

(* A walk comes to nothing but the paths.                                  *)
LEMMA WalkIs ==
    ASSUME NEW ps \in SUBSET Paths
    PROVE  Walk(ps) \in Seq(Paths)
<1>1. IsFiniteSet(ps)
  BY VaultAssumption, FS_Subset
<1>2. Cardinality(ps) \in Nat /\ \E f \in [1..Cardinality(ps) -> ps] : IsInjective(f)
  BY <1>1, FS_CardinalityType DEF ExistsBijection, Bijection, Injection
<1>3. Walk(ps) \in [1..Cardinality(ps) -> ps]
  BY <1>2 DEF Walk, SetToSeq
<1>4. QED
  BY <1>2, <1>3

-----------------------------------------------------------------------------
(* The store.                                                              *)

(* What is on disk, and what is not, can be told apart.                    *)
LEMMA NoneIsApart ==
    /\ None \notin Docs /\ None \notin Files /\ None \notin Paths
    /\ None \notin Kinds /\ None \notin Entries
<1>1. Files \subseteq Nat
  BY VaultAssumption DEF Files
<1>2. QED
  BY <1>1, VaultAssumption, TrackingAssumption

(* The user, or a failure, changes nothing of the store.                   *)
LEMMA UserKeeps ==
    ASSUME VaultInv, UNCHANGED rowVars,
           \/ User
           \/ \E p \in Paths : Unreadable(p)
           \/ UNCHANGED diskVars
    PROVE  VaultInv' /\ Used' = Used
<1>1. RowsOnce' /\ Used' = Used
  BY DEF VaultInv, rowVars, RowsOnce, Used
<1>2. UNCHANGED <<tracked, graves, last, entombed>>
  BY DEF rowVars
<1>3. CASE User
  <2>1. edits \in 0..MaxEdits /\ failures \in 0..MaxFailures /\ MaxEdits \in Nat
    BY VaultAssumption DEF VaultInv, VaultTypes
  <2>2. ASSUME NEW p \in Paths, NEW doc \in Docs \cup {None}, Edit(p, doc) PROVE VaultTypes'
    BY <1>2, <2>1, <2>2 DEF VaultInv, VaultTypes, Edit
  <2>3. ASSUME NEW p \in Paths, NEW text \in Texts, Create(p, text) \/ Write(p, text)
        PROVE  VaultTypes'
    <3>1. edits < MaxEdits
      BY <2>1, <2>3 DEF Create, Write, Edit
    <3>2. edits + 1 \in 1..MaxEdits
      BY <2>1, <3>1
    <3>3. [ino |-> edits + 1, text |-> text, mtime |-> edits + 1] \in Docs
      BY <3>2 DEF Docs
    <3>4. disk[p] # None => [ino |-> disk[p].ino, text |-> text, mtime |-> edits + 1] \in Docs
      BY <3>2 DEF Docs, VaultInv, VaultTypes
    <3>5. CASE Create(p, text)
      BY <2>2, <3>3, <3>5 DEF Create
    <3>6. CASE Write(p, text)
      BY <2>2, <3>4, <3>6 DEF Write
    <3>7. QED
      BY <2>3, <3>5, <3>6
  <2>4. ASSUME NEW p \in Paths, Delete(p) PROVE VaultTypes'
    <3>1. None \in Docs \cup {None} /\ Edit(p, None)
      BY <2>4 DEF Delete
    <3>2. QED
      BY <2>2, <3>1
  <2>5. ASSUME NEW p \in Paths, NEW q \in Paths, Rename(p, q) PROVE VaultTypes'
    <3>1. edits + 1 \in 0..MaxEdits /\ failures' \in 0..MaxFailures /\ edits' = edits + 1
      BY <2>1, <2>5 DEF Rename
    <3>2. disk' \in [Paths -> Docs \cup {None}]
      BY <2>5 DEF VaultInv, VaultTypes, Rename
    <3>3. QED
      BY <1>2, <3>1, <3>2 DEF VaultInv, VaultTypes
  <2>6. QED
    BY <1>1, <1>3, <2>3, <2>4, <2>5 DEF User, VaultInv
<1>4. CASE (\E p \in Paths : Unreadable(p)) \/ UNCHANGED diskVars
  <2>1. VaultTypes'
    BY <1>2, <1>4, VaultAssumption DEF VaultInv, VaultTypes, Unreadable, diskVars
  <2>2. QED
    BY <1>1, <2>1 DEF VaultInv
<1>5. QED
  BY <1>3, <1>4

(* A version is recorded for a row.                                        *)
LEMMA CommitIs ==
    ASSUME VaultTypes, NEW f \in Files, NEW doc \in Docs, Commit(f, doc)
    PROVE  /\ last' \in [Files -> Docs \cup {None}] /\ entombed' \subseteq Files
           /\ last'[f] = doc /\ \A g \in Files \ {f} : last'[g] = last[g]
           /\ Used' = Used \cup {f} /\ entombed' = entombed \ {f}
  BY NoneIsApart DEF VaultTypes, Commit, Used

(* A row that is active at p gets a version, or has it already.            *)
LEMMA RecordKnownKeeps ==
    ASSUME VaultInv, NEW p \in Paths, NEW doc \in Docs, RecordKnown(p, doc), UNCHANGED diskVars
    PROVE  VaultInv' /\ Used \subseteq Used'
<1>1. tracked[p] \in Files /\ UNCHANGED <<disk, edits, failures, tracked, graves>>
  BY DEF VaultInv, VaultTypes, RecordKnown, diskVars
<1>2. CASE Known(tracked[p], doc)
  BY <1>1, <1>2 DEF RecordKnown, VaultInv, VaultTypes, RowsOnce, Used
<1>3. CASE ~Known(tracked[p], doc)
  <2>1. Commit(tracked[p], doc)
    BY <1>3 DEF RecordKnown
  <2>2. /\ last' \in [Files -> Docs \cup {None}] /\ entombed' \subseteq Files
        /\ Used \subseteq Used' /\ entombed' \subseteq entombed
    BY <1>1, <2>1, CommitIs DEF VaultInv
  <2>3. VaultTypes'
    BY <1>1, <2>2 DEF VaultInv, VaultTypes
  <2>4. RowsOnce'
    BY <1>1, <2>2 DEF VaultInv, RowsOnce
  <2>5. QED
    BY <2>2, <2>3, <2>4 DEF VaultInv
<1>4. QED
  BY <1>2, <1>3

(* The latest of the deleted rows of a path, and the others.               *)
LEMMA LatestGrave ==
    ASSUME VaultInv, NEW p \in Paths, graves[p] # <<>>
    PROVE  /\ Front(graves[p]) \in Seq(Files)
           /\ Len(graves[p]) \in DOMAIN graves[p]
           /\ Last(graves[p]) = graves[p][Len(graves[p])]
           /\ Last(graves[p]) \in Used
           /\ \A i \in DOMAIN Front(graves[p]) :
                 /\ i \in DOMAIN graves[p] /\ i # Len(graves[p])
                 /\ Front(graves[p])[i] = graves[p][i]
<1> DEFINE s == graves[p]
           n == Len(s)
<1>1. s \in Seq(Files)
  BY DEF VaultInv, VaultTypes
<1>2. n \in Nat /\ n >= 1 /\ DOMAIN s = 1..n
  BY <1>1, EmptySeq, LenProperties
<1>3. Front(s) = SubSeq(s, 1, n - 1)
  BY DEF Front
<1>4. \A i \in 1..(n - 1) : s[i] \in Files
  BY <1>1, <1>2, ElementOfSeq
<1> HIDE DEF s, n
<1>5. /\ Front(s) \in Seq(Files) /\ Len(Front(s)) = n - 1
      /\ \A i \in 1..(n - 1) : Front(s)[i] = s[i]
  <2>1. /\ SubSeq(s, 1, n - 1) \in Seq(Files)
        /\ Len(SubSeq(s, 1, n - 1)) = IF 1 <= n - 1 THEN n - 1 - 1 + 1 ELSE 0
        /\ \A i \in 1..(n - 1 - 1 + 1) : SubSeq(s, 1, n - 1)[i] = s[1 + i - 1]
    BY <1>2, <1>4, SubSeqProperties
  <2>2. QED
    BY <1>2, <1>3, <2>1
<1>6. DOMAIN Front(s) = 1..(n - 1)
  BY <1>5, LenProperties
<1>7. n \in DOMAIN s /\ Last(s) = s[n]
  BY <1>2 DEF Last, n
<1>8. Last(s) \in Used
  BY <1>7 DEF s, VaultInv, RowsOnce
<1>9. QED
  BY <1>2, <1>5, <1>6, <1>7, <1>8 DEF s, n

(* The latest of the deleted rows of p is reopened.                        *)
LEMMA RecordReturnedKeeps ==
    ASSUME VaultInv, NEW p \in Paths, NEW doc \in Docs, RecordReturned(p, doc), UNCHANGED diskVars
    PROVE  VaultInv' /\ Used \subseteq Used'
<1> DEFINE f == Last(graves[p])
<1>1. graves[p] # <<>> /\ tracked[p] = None
  BY DEF RecordReturned, IsBack
<1>2. /\ Front(graves[p]) \in Seq(Files) /\ Len(graves[p]) \in DOMAIN graves[p]
      /\ f = graves[p][Len(graves[p])] /\ f \in Used
      /\ \A i \in DOMAIN Front(graves[p]) : /\ i \in DOMAIN graves[p] /\ i # Len(graves[p])
                                            /\ Front(graves[p])[i] = graves[p][i]
  BY <1>1, LatestGrave
<1>3. /\ tracked' = [tracked EXCEPT ![p] = f]
      /\ graves' = [graves EXCEPT ![p] = Front(graves[p])]
      /\ Commit(f, doc)
  BY DEF RecordReturned
<1> HIDE DEF f
<1>4. f \in Files
  BY <1>2 DEF Used
<1>5. /\ last' \in [Files -> Docs \cup {None}] /\ entombed' = entombed \ {f}
      /\ Used \subseteq Used'
  BY <1>3, <1>4, CommitIs DEF VaultInv
<1>6. \A q \in Paths : tracked'[q] = IF q = p THEN f ELSE tracked[q]
  BY <1>3 DEF VaultInv, VaultTypes
<1>7. \A q \in Paths : graves'[q] = IF q = p THEN Front(graves[p]) ELSE graves[q]
  BY <1>3 DEF VaultInv, VaultTypes
<1>8. VaultTypes'
  BY <1>2, <1>3, <1>4, <1>5 DEF VaultInv, VaultTypes, diskVars
<1>9. \A q \in Paths : \A i \in DOMAIN graves'[q] :
         /\ i \in DOMAIN graves[q] /\ graves'[q][i] = graves[q][i]
         /\ q = p => i # Len(graves[p])
  BY <1>2, <1>7
<1>10. \A q \in Paths : \A i \in DOMAIN graves'[q] : graves'[q][i] # f
  BY <1>2, <1>9 DEF VaultInv, RowsOnce
<1>11. \A q \in Paths : tracked[q] # f
  BY <1>2 DEF VaultInv, RowsOnce
<1>12. RowsOnce'
  BY <1>2, <1>5, <1>6, <1>9, <1>10, <1>11 DEF VaultInv, RowsOnce
<1>13. QED
  BY <1>5, <1>8, <1>12 DEF VaultInv

(* A row that had no version begins at p.                                  *)
LEMMA RecordNewKeeps ==
    ASSUME VaultInv, NEW p \in Paths, NEW doc \in Docs, RecordNew(p, doc), UNCHANGED diskVars
    PROVE  VaultInv' /\ Used \subseteq Used'
<1>1. PICK f \in Files \ Used : tracked' = [tracked EXCEPT ![p] = f] /\ Commit(f, doc)
  BY DEF RecordNew
<1>2. graves' = graves
  BY DEF RecordNew
<1>3. /\ last' \in [Files -> Docs \cup {None}] /\ entombed' = entombed \ {f}
      /\ Used \subseteq Used' /\ f \in Used'
  BY <1>1, CommitIs DEF VaultInv
<1>4. \A q \in Paths : tracked'[q] = IF q = p THEN f ELSE tracked[q]
  BY <1>1 DEF VaultInv, VaultTypes
<1>5. VaultTypes'
  BY <1>1, <1>2, <1>3 DEF VaultInv, VaultTypes, diskVars
<1>6. \A q \in Paths : tracked[q] # f /\ \A i \in DOMAIN graves[q] : graves[q][i] # f
  BY NoneIsApart DEF VaultInv, RowsOnce
<1>7. RowsOnce'
  BY <1>2, <1>3, <1>4, <1>6, NoneIsApart DEF VaultInv, RowsOnce
<1>8. QED
  BY <1>3, <1>5, <1>7 DEF VaultInv

(* Whichever row it is, what captureFromDisk records of a path leaves      *)
(* every row in one place.                                                 *)
LEMMA RecordKeeps ==
    ASSUME VaultInv, NEW p \in Paths, NEW doc \in Docs, Record(p, doc), UNCHANGED diskVars
    PROVE  VaultInv' /\ Used \subseteq Used'
  BY RecordKnownKeeps, RecordReturnedKeeps, RecordNewKeeps DEF Record

(* A row leaves wherever it was, and becomes active at p.                  *)
LEMMA RecordClaimedKeeps ==
    ASSUME VaultInv, NEW f \in Used, NEW p \in Paths, NEW doc \in Docs, RecordClaimed(f, p, doc),
           UNCHANGED diskVars
    PROVE  VaultInv' /\ Used \subseteq Used'
<1>1. f \in Files /\ Commit(f, doc)
  BY DEF Used, RecordClaimed
<1>2. /\ last' \in [Files -> Docs \cup {None}] /\ entombed' = entombed \ {f}
      /\ Used \subseteq Used'
  BY <1>1, CommitIs DEF VaultInv
<1>3. \A q \in Paths : tracked'[q] = IF q = p THEN f ELSE IF tracked[q] = f THEN None ELSE tracked[q]
  BY DEF RecordClaimed
<1>4. ASSUME NEW q \in Paths
      PROVE  /\ graves'[q] \in Seq(Files)
             /\ \A i \in DOMAIN graves'[q] : \E j \in DOMAIN graves[q] : graves'[q][i] = graves[q][j]
             /\ \A i, j \in DOMAIN graves'[q] : graves'[q][i] = graves'[q][j] => i = j
             /\ \A i \in DOMAIN graves'[q] : graves'[q][i] # f
  <2>1. graves[q] \in Seq(Files) /\ graves'[q] = RemoveFirst(graves[q], f)
    BY DEF VaultInv, VaultTypes, RecordClaimed
  <2>2. \A i, j \in DOMAIN graves[q] : graves[q][i] = graves[q][j] => i = j
    BY DEF VaultInv, RowsOnce
  <2> DEFINE s == graves[q]
  <2>3. s \in Seq(Files) /\ \A i, j \in DOMAIN s : s[i] = s[j] => i = j
    BY <2>1, <2>2
  <2> HIDE DEF s
  <2>4. /\ RemoveFirst(s, f) \in Seq(Files)
        /\ \A i \in DOMAIN RemoveFirst(s, f) : \E j \in DOMAIN s : RemoveFirst(s, f)[i] = s[j]
        /\ \A i, j \in DOMAIN RemoveFirst(s, f) :
              RemoveFirst(s, f)[i] = RemoveFirst(s, f)[j] => i = j
        /\ \A i \in DOMAIN RemoveFirst(s, f) : RemoveFirst(s, f)[i] # f
    BY <2>3, RemoveFirstKeeps
  <2>5. QED
    BY <2>1, <2>4 DEF s
<1>5. tracked' \in [Paths -> Files \cup {None}] /\ graves' \in [Paths -> Seq(Files)]
  <2>1. tracked' = [q \in Paths |-> tracked'[q]] /\ graves' = [q \in Paths |-> graves'[q]]
    BY DEF RecordClaimed
  <2>2. \A q \in Paths : tracked'[q] \in Files \cup {None}
    BY <1>1, <1>3 DEF VaultInv, VaultTypes
  <2>3. QED
    BY <1>4, <2>1, <2>2
<1>6. VaultTypes'
  BY <1>2, <1>5 DEF VaultInv, VaultTypes, diskVars
<1>7. RowsOnce'
  <2>1. \A q, r \in Paths : tracked'[q] # None /\ tracked'[q] = tracked'[r] => q = r
    BY <1>3 DEF VaultInv, RowsOnce
  <2>2. \A q, r \in Paths : \A i \in DOMAIN graves'[r] : graves'[r][i] # tracked'[q]
    BY <1>1, <1>3, <1>4, <1>5, NoneIsApart, ElementOfSeq DEF VaultInv, RowsOnce, VaultTypes
  <2>3. \A q, r \in Paths : \A i \in DOMAIN graves'[q], j \in DOMAIN graves'[r] :
           graves'[q][i] = graves'[r][j] => q = r /\ i = j
    BY <1>4 DEF VaultInv, RowsOnce
  <2>4. \A q \in Paths : tracked'[q] # None => tracked'[q] \in Used' \ entombed'
    BY <1>2, <1>3 DEF VaultInv, RowsOnce
  <2>5. \A q \in Paths : \A i \in DOMAIN graves'[q] : graves'[q][i] \in Used'
    BY <1>2, <1>4 DEF VaultInv, RowsOnce
  <2>6. QED
    BY <2>1, <2>2, <2>3, <2>4, <2>5 DEF RowsOnce
<1>8. QED
  BY <1>2, <1>6, <1>7 DEF VaultInv

(* Active rows are buried.                                                 *)
LEMMA BuryAllKeeps ==
    ASSUME VaultInv, NEW ps \in SUBSET Paths, \A p \in ps : MayBury(p), BuryAll(ps),
           UNCHANGED diskVars
    PROVE  VaultInv' /\ Used' = Used
<1>1. Used' = Used /\ last' = last
  BY DEF BuryAll, Used
<1>2. \A q \in Paths : tracked'[q] = IF q \in ps THEN None ELSE tracked[q]
  BY DEF BuryAll
<1>3. \A q \in ps : tracked[q] # None /\ tracked[q] \in Files
  BY NoneIsApart DEF MayBury, VaultInv, VaultTypes
<1>4. ASSUME NEW q \in Paths
      PROVE  /\ graves'[q] \in Seq(Files) /\ Len(graves[q]) \in Nat
             /\ DOMAIN graves[q] = 1..Len(graves[q])
             /\ \A i \in DOMAIN graves'[q] :
                   \/ i \in DOMAIN graves[q] /\ graves'[q][i] = graves[q][i]
                   \/ q \in ps /\ i = Len(graves[q]) + 1 /\ graves'[q][i] = tracked[q]
  <2>1. /\ graves[q] \in Seq(Files) /\ Len(graves[q]) \in Nat
        /\ DOMAIN graves[q] = 1..Len(graves[q])
    BY LenProperties DEF VaultInv, VaultTypes
  <2>2. CASE q \in ps
    <3>1. graves'[q] = Append(graves[q], tracked[q]) /\ tracked[q] \in Files
      BY <1>3, <2>2 DEF BuryAll
    <3> DEFINE s == graves[q]
               f == tracked[q]
    <3>2. s \in Seq(Files) /\ f \in Files
      BY <2>1, <3>1
    <3> HIDE DEF s, f
    <3>3. /\ Append(s, f) \in Seq(Files) /\ Len(Append(s, f)) = Len(s) + 1
          /\ \A i \in 1..Len(s) : Append(s, f)[i] = s[i]
          /\ Append(s, f)[Len(s) + 1] = f
      BY <3>2, AppendProperties
    <3>4. DOMAIN Append(s, f) = 1..(Len(s) + 1)
      BY <3>3, LenProperties
    <3>5. QED
      BY <2>1, <2>2, <3>1, <3>3, <3>4 DEF s, f
  <2>3. CASE q \notin ps
    BY <2>1, <2>3 DEF BuryAll
  <2>4. QED
    BY <2>2, <2>3
<1>5. tracked' \in [Paths -> Files \cup {None}] /\ graves' \in [Paths -> Seq(Files)]
  <2>1. tracked' = [q \in Paths |-> tracked'[q]] /\ graves' = [q \in Paths |-> graves'[q]]
    BY DEF BuryAll
  <2>2. \A q \in Paths : tracked'[q] \in Files \cup {None}
    BY <1>2 DEF VaultInv, VaultTypes
  <2>3. QED
    BY <1>4, <2>1, <2>2
<1>6. entombed' = entombed \cup {tracked[q] : q \in ps}
  BY DEF BuryAll
<1>7. VaultTypes'
  BY <1>1, <1>3, <1>5, <1>6 DEF VaultInv, VaultTypes, diskVars
<1>8. RowsOnce'
  <2>1. \A q, r \in Paths : tracked'[q] # None /\ tracked'[q] = tracked'[r] => q = r
    BY <1>2 DEF VaultInv, RowsOnce
  <2>2. ASSUME NEW q \in Paths, NEW r \in Paths, NEW i \in DOMAIN graves'[r]
        PROVE  graves'[r][i] # tracked'[q]
    <3>1. graves'[r][i] # None
      BY <1>5, NoneIsApart, ElementOfSeq, LenProperties
    <3>2. QED
      BY <1>2, <1>3, <1>4, <3>1 DEF VaultInv, RowsOnce
  <2>3. ASSUME NEW q \in Paths, NEW r \in Paths, NEW i \in DOMAIN graves'[q],
               NEW j \in DOMAIN graves'[r], graves'[q][i] = graves'[r][j]
        PROVE  q = r /\ i = j
    BY <1>3, <1>4, <2>3 DEF VaultInv, RowsOnce
  <2>4. \A q \in Paths : tracked'[q] # None => tracked'[q] \in Used' \ entombed'
    BY <1>1, <1>2, <1>6 DEF VaultInv, RowsOnce
  <2>5. \A q \in Paths : \A i \in DOMAIN graves'[q] : graves'[q][i] \in Used'
    BY <1>1, <1>3, <1>4 DEF VaultInv, RowsOnce
  <2>6. QED
    BY <2>1, <2>2, <2>3, <2>4, <2>5 DEF RowsOnce
<1>9. QED
  BY <1>1, <1>7, <1>8 DEF VaultInv

-----------------------------------------------------------------------------
(* The queue, the correlator and the reconciliation.                       *)

(* The folder of the first index, with its one note, is such a state.      *)
LEMMA TrackingInitHolds == Init => TrackingInv
<1> SUFFICES ASSUME Init PROVE TrackingInv
  OBVIOUS
<1> DEFINE note == [ino |-> 1, text |-> CHOOSE t \in Texts : TRUE, mtime |-> 1]
<1>1. PICK p \in Paths : /\ disk = [q \in Paths |-> IF q = p THEN note ELSE None]
                         /\ edits = 1 /\ failures = 0
                         /\ tracked = [q \in Paths |-> IF q = p THEN 1 ELSE None]
                         /\ graves = [q \in Paths |-> <<>>]
                         /\ last = [f \in Files |-> IF f = 1 THEN note ELSE None]
                         /\ entombed = {}
  BY DEF Init, VaultInit
<1>2. 1 \in Files /\ 1 \in 1..MaxEdits /\ 1 \in 0..MaxEdits /\ 0 \in 0..MaxFailures
  BY VaultAssumption DEF Files
<1>3. note \in Docs
  BY <1>2, VaultAssumption DEF Docs
<1> HIDE DEF note
<1>4. VaultTypes
  BY <1>1, <1>2, <1>3 DEF VaultTypes
<1>5. RowsOnce
  <2>1. \A q \in Paths : tracked[q] = IF q = p THEN 1 ELSE None
    BY <1>1
  <2>2. \A q \in Paths : DOMAIN graves[q] = {}
    BY <1>1
  <2>3. 1 \in Used \ entombed /\ 1 # None
    BY <1>1, <1>2, <1>3, NoneIsApart DEF Used
  <2>4. QED
    BY <2>1, <2>2, <2>3 DEF RowsOnce
<1>6. QueueTypes /\ SweepTypes
  BY <1>4, NoneIsApart
     DEF Init, AtRest, QueueTypes, SweepTypes, Idle, Tasks, Steps, VaultTypes
<1>7. QED
  BY <1>4, <1>5, <1>6 DEF TrackingInv, VaultInv

(* What is held of a path is still of a row with a version.                *)
LEMMA HeldIs ==
    ASSUME TrackingInv, NEW p \in Paths
    PROVE  Hold(p) \in [Paths -> Entries \cup {None}] /\ \A q \in Paths :
              Hold(p)[q] # None => Hold(p)[q].file \in Used
<1>1. CASE held[p] # None \/ tracked[p] = None
  BY <1>1 DEF TrackingInv, QueueTypes, Hold
<1>2. CASE held[p] = None /\ tracked[p] # None
  <2>1. tracked[p] \in Used /\ tracked[p] \in Files /\ last[tracked[p]] \in Docs
    BY <1>2 DEF TrackingInv, VaultInv, VaultTypes, RowsOnce, Used
  <2>2. [file |-> tracked[p], doc |-> last[tracked[p]]] \in Entries
    BY <2>1 DEF Entries
  <2>3. Hold(p) = [held EXCEPT ![p] = [file |-> tracked[p], doc |-> last[tracked[p]]]]
    BY <1>2 DEF Hold
  <2>4. QED
    BY <2>1, <2>2, <2>3 DEF TrackingInv, QueueTypes
<1>3. QED
  BY <1>1, <1>2

(* A task that begins, goes on or ends is a task.                          *)
LEMMA TaskIs ==
    ASSUME QueueTypes, NEW p \in Paths
    PROVE  /\ \A kind \in Kinds \cup {None} :
                 /\ [task EXCEPT ![p] = Begin(kind)] \in [Paths -> Tasks]
                 /\ \A q \in Paths : LET t == [task EXCEPT ![p] = Begin(kind)][q] IN
                       t.doc \in (IF t.step = "record" THEN Docs ELSE {None})
           /\ \A step \in Steps, doc \in Docs \cup {None} :
                 doc \in (IF step = "record" THEN Docs ELSE {None}) =>
                 /\ [task EXCEPT ![p] = Await(step, doc)] \in [Paths -> Tasks]
                 /\ \A q \in Paths : LET t == [task EXCEPT ![p] = Await(step, doc)][q] IN
                       t.doc \in (IF t.step = "record" THEN Docs ELSE {None})
<1>1. \A step \in Steps, doc \in Docs \cup {None} :
         Await(step, doc) \in Tasks /\ Await(step, doc).step = step /\ Await(step, doc).doc = doc
  BY DEF Await, Tasks
<1>2. \A kind \in Kinds \cup {None} :
         \E step \in Steps \ {"record"} : Begin(kind) = Await(step, None)
  BY NoneIsApart DEF Kinds, Begin, Idle, Await, Steps
<1>3. ASSUME NEW step \in Steps, NEW doc \in Docs \cup {None},
             doc \in (IF step = "record" THEN Docs ELSE {None})
      PROVE  /\ [task EXCEPT ![p] = Await(step, doc)] \in [Paths -> Tasks]
             /\ \A q \in Paths : LET t == [task EXCEPT ![p] = Await(step, doc)][q] IN
                   t.doc \in (IF t.step = "record" THEN Docs ELSE {None})
  BY <1>1, <1>3 DEF QueueTypes
<1>4. QED
  BY <1>2, <1>3

(* The steps of the queue for a path.                                      *)
LEMMA ContinueKeeps ==
    ASSUME TrackingInv, NEW p \in Paths, Continue(p)
    PROVE  TrackingInv'
<1> USE DEF TrackingInv
<1>1. SweepTypes' /\ UNCHANGED <<noticed, sweepVars>>
  BY DEF SweepTypes, sweepVars, Continue, ReadMissing, ReadFails, ReadBytes, RecordBytes,
         RecordRename, DeleteUntracked, DeleteTracked, Access, AccessFails, FileIsBack, FileIsGone
<1>2. ASSUME UNCHANGED rowVars, UNCHANGED diskVars \/ Unreadable(p)
      PROVE  VaultInv' /\ Used' = Used
  BY <1>2, UserKeeps
<1>3. ASSUME Ends(p)
      PROVE  /\ task' \in [Paths -> Tasks] /\ parked' \in [Paths -> Kinds \cup {None}]
             /\ \A q \in Paths : task'[q].doc \in (IF task'[q].step = "record" THEN Docs ELSE {None})
  BY <1>3, TaskIs DEF Ends, QueueTypes
<1>4. ASSUME NEW step \in Steps, NEW doc \in Docs \cup {None}, Goes(p, step, doc),
             doc \in (IF step = "record" THEN Docs ELSE {None})
      PROVE  /\ task' \in [Paths -> Tasks] /\ parked' \in [Paths -> Kinds \cup {None}]
             /\ \A q \in Paths : task'[q].doc \in (IF task'[q].step = "record" THEN Docs ELSE {None})
  BY <1>4, TaskIs DEF Goes, QueueTypes
<1>5. ASSUME NEW kind \in Kinds, Schedule(p, kind) \/ UNCHANGED timer
      PROVE  timer' \in [Paths -> Kinds \cup {None}]
  BY <1>5 DEF Schedule, QueueTypes
<1>6. ASSUME NEW q \in Paths, Used \subseteq Used', Release(q) \/ UNCHANGED held
      PROVE  /\ held' \in [Paths -> Entries \cup {None}]
             /\ \A r \in Paths : held'[r] # None => held'[r].file \in Used'
  BY <1>6 DEF Release, QueueTypes
<1>7. ASSUME /\ VaultInv' /\ Used \subseteq Used'
             /\ task' \in [Paths -> Tasks] /\ parked' \in [Paths -> Kinds \cup {None}]
             /\ \A q \in Paths : task'[q].doc \in (IF task'[q].step = "record" THEN Docs ELSE {None})
             /\ timer' \in [Paths -> Kinds \cup {None}]
             /\ held' \in [Paths -> Entries \cup {None}]
             /\ \A r \in Paths : held'[r] # None => held'[r].file \in Used'
      PROVE  TrackingInv'
  BY <1>1, <1>7 DEF QueueTypes
<1>8. CASE ReadMissing(p)
  BY <1>2, <1>3, <1>5, <1>6, <1>7, <1>8 DEF ReadMissing, Kinds
<1>9. CASE ReadFails(p)
  BY <1>2, <1>3, <1>5, <1>6, <1>7, <1>9 DEF ReadFails, Kinds
<1>10. CASE ReadBytes(p)
  <2>1. disk[p] \in Docs
    BY <1>10 DEF ReadBytes, VaultInv, VaultTypes
  <2>2. QED
    BY <2>1, <1>2, <1>4, <1>5, <1>6, <1>7, <1>10 DEF ReadBytes, Kinds, Steps
<1>11. CASE RecordBytes(p)
  <2>1. task[p].doc \in Docs
    BY <1>11 DEF RecordBytes, QueueTypes
  <2>2. VaultInv' /\ Used \subseteq Used'
    BY <2>1, <1>11, RecordKeeps DEF RecordBytes
  <2>3. QED
    BY <2>2, <1>3, <1>5, <1>6, <1>7, <1>11 DEF RecordBytes, Kinds
<1>12. CASE RecordRename(p)
  <2>1. task[p].doc \in Docs
    BY <1>12 DEF RecordRename, QueueTypes
  <2>2. PICK q \in Paths : /\ held[q] # None /\ Release(q)
                           /\ RecordClaimed(held[q].file, p, task[p].doc)
    BY <1>12 DEF RecordRename, Claimable, SameInode, SameText
  <2>3. held[q].file \in Used
    BY <2>2 DEF QueueTypes
  <2>4. VaultInv' /\ Used \subseteq Used'
    BY <2>1, <2>2, <2>3, <1>12, RecordClaimedKeeps DEF RecordRename
  <2>5. QED
    BY <2>2, <2>4, <1>3, <1>5, <1>6, <1>7, <1>12 DEF RecordRename, Kinds
<1>13. CASE DeleteUntracked(p)
  BY <1>2, <1>3, <1>5, <1>6, <1>7, <1>13 DEF DeleteUntracked, Kinds
<1>14. CASE DeleteTracked(p)
  BY <1>2, <1>4, <1>5, <1>6, <1>7, <1>14 DEF DeleteTracked, Kinds, Steps
<1>15. CASE Access(p)
  <2>1. Goes(p, "gone", None) \/ Goes(p, "back", None)
    BY <1>15 DEF Access
  <2>2. QED
    BY <2>1, <1>2, <1>4, <1>5, <1>6, <1>7, <1>15 DEF Access, Kinds, Steps
<1>16. CASE AccessFails(p)
  BY <1>2, <1>4, <1>5, <1>6, <1>7, <1>16 DEF AccessFails, Kinds, Steps
<1>17. CASE FileIsBack(p)
  BY <1>2, <1>3, <1>5, <1>6, <1>7, <1>17 DEF FileIsBack, Kinds
<1>18. CASE FileIsGone(p)
  <2>1. VaultInv' /\ Used' = Used
    BY <1>18, BuryAllKeeps DEF FileIsGone, Bury
  <2>2. QED
    BY <2>1, <1>3, <1>5, <1>6, <1>7, <1>18 DEF FileIsGone, Kinds
<1>19. QED
  BY <1>8, <1>9, <1>10, <1>11, <1>12, <1>13, <1>14, <1>15, <1>16, <1>17, <1>18 DEF Continue

(* The steps of a reconciliation.                                          *)
LEMMA ReconcileKeeps ==
    ASSUME TrackingInv, Reconcile
    PROVE  TrackingInv'
<1> USE DEF TrackingInv
<1>1. ASSUME VaultInv', Used \subseteq Used', UNCHANGED <<noticed, queueVars, held>>
      PROVE  QueueTypes'
  BY <1>1 DEF queueVars, QueueTypes
<1>2. ASSUME UNCHANGED rowVars, (\E p \in Paths : Unreadable(p)) \/ UNCHANGED diskVars
      PROVE  VaultInv' /\ Used' = Used
  BY <1>2, UserKeeps
<1>3. ASSUME todo # <<>> PROVE Head(todo) \in Paths /\ Tail(todo) \in Seq(Paths)
  BY <1>3, HeadTailProperties DEF SweepTypes
<1>4. CASE Sweep
  <2>1. todo' \in Seq(Paths)
    BY <1>4, WalkIs DEF Sweep
  <2>2. QED
    BY <2>1, <1>1, <1>2, <1>4 DEF Sweep, SweepTypes
<1>5. CASE Scan
  <2>1. disk[Head(todo)] \in Docs \cup {None} /\ Head(todo) \in Paths /\ Tail(todo) \in Seq(Paths)
    BY <1>3, <1>5 DEF Scan, VaultInv, VaultTypes
  <2>2. QED
    BY <2>1, <1>1, <1>2, <1>5 DEF Scan, SweepTypes
<1>6. CASE ScanFails
  BY <1>1, <1>2, <1>3, <1>6 DEF ScanFails, SweepTypes
<1>7. CASE ScanEnds
  <2>1. todo' \in Seq(Paths)
    BY <1>7, WalkIs DEF ScanEnds
  <2>2. QED
    BY <2>1, <1>1, <1>2, <1>7 DEF ScanEnds, SweepTypes
<1>8. CASE Visit
  <2>1. item' \in Items \cup {None}
    BY <1>3, <1>8 DEF Visit, Items
  <2>2. QED
    BY <2>1, <1>1, <1>2, <1>3, <1>8 DEF Visit, SweepTypes
<1>9. CASE VisitReads
  <2>1. item \in Items /\ disk[item.path] \in Docs \cup {None}
    BY <1>9 DEF VisitReads, SweepTypes, Items, VaultInv, VaultTypes
  <2>2. item' \in Items \cup {None}
    BY <2>1, <1>9, Zenon DEF VisitReads, Items
  <2>3. QED
    BY <2>2, <1>1, <1>2, <1>9 DEF VisitReads, SweepTypes
<1>10. CASE VisitFails
  <2>1. item.path \in Paths
    BY <1>10 DEF VisitFails, SweepTypes, Items
  <2>2. QED
    BY <2>1, <1>1, <1>2, <1>10 DEF VisitFails, SweepTypes
<1>11. CASE VisitRecords
  <2>1. item.path \in Paths /\ item.doc \in Docs
    BY <1>11 DEF VisitRecords, SweepTypes, Items
  <2>2. VaultInv' /\ Used \subseteq Used'
    BY <2>1, <1>11, RecordKeeps DEF VisitRecords
  <2>3. QED
    BY <2>2, <1>1, <1>11 DEF VisitRecords, SweepTypes
<1>12. CASE SweepBuries
  <2>1. VaultInv' /\ Used' = Used
    BY <1>12, BuryAllKeeps DEF SweepBuries, Lost
  <2>2. QED
    BY <2>1, <1>1, <1>12 DEF SweepBuries, SweepTypes
<1>13. QED
  BY <1>4, <1>5, <1>6, <1>7, <1>8, <1>9, <1>10, <1>11, <1>12 DEF Reconcile

(* Every step keeps the types.                                             *)
LEMMA TrackingNextKeeps == TrackingInv /\ [Next]_vars => TrackingInv'
<1> SUFFICES ASSUME TrackingInv, [Next]_vars PROVE TrackingInv'
  OBVIOUS
<1> USE DEF TrackingInv
<1>1. CASE UserEdits
  <2>1. VaultInv' /\ Used' = Used
    BY <1>1, UserKeeps DEF UserEdits
  <2>2. QED
    BY <2>1, <1>1 DEF UserEdits, queueVars, sweepVars, QueueTypes, SweepTypes
<1>2. ASSUME NEW p \in Paths, UNCHANGED <<diskVars, rowVars, sweepVars>>, QueueTypes'
      PROVE  TrackingInv'
  <2>1. VaultInv'
    BY <1>2, UserKeeps
  <2>2. QED
    BY <2>1, <1>2 DEF sweepVars, SweepTypes
<1>3. ASSUME UNCHANGED rowVars PROVE Used' = Used
  BY <1>3 DEF rowVars, Used
<1>4. ASSUME NEW p \in Paths, NoticeUpsert(p) PROVE TrackingInv'
  <2>1. QueueTypes'
    BY <1>3, <1>4 DEF NoticeUpsert, Schedule, QueueTypes, Kinds, VaultInv, VaultTypes
  <2>2. QED
    BY <2>1, <1>2, <1>4 DEF NoticeUpsert
<1>5. ASSUME NEW p \in Paths, NoticeUnlink(p) PROVE TrackingInv'
  <2>1. /\ held' \in [Paths -> Entries \cup {None}]
        /\ \A q \in Paths : held'[q] # None => held'[q].file \in Used'
    BY <1>3, <1>5, HeldIs DEF NoticeUnlink
  <2>2. QueueTypes'
    BY <2>1, <1>3, <1>5 DEF NoticeUnlink, Schedule, QueueTypes, Kinds
  <2>3. QED
    BY <2>2, <1>2, <1>5 DEF NoticeUnlink
<1>6. ASSUME NEW p \in Paths, Expire(p) PROVE TrackingInv'
  <2>1. QueueTypes'
    BY <1>3, <1>6 DEF Expire, Release, queueVars, QueueTypes
  <2>2. QED
    BY <2>1, <1>2, <1>6 DEF Expire
<1>7. ASSUME NEW p \in Paths, TimerFires(p) PROVE TrackingInv'
  <2>1. /\ task' \in [Paths -> Tasks]
        /\ \A q \in Paths : task'[q].doc \in (IF task'[q].step = "record" THEN Docs ELSE {None})
    BY <1>7, TaskIs DEF TimerFires, QueueTypes
  <2>2. QueueTypes'
    BY <2>1, <1>3, <1>7 DEF TimerFires, QueueTypes
  <2>3. QED
    BY <2>2, <1>2, <1>7 DEF TimerFires
<1>8. ASSUME NEW p \in Paths, Continue(p) PROVE TrackingInv'
  BY <1>8, ContinueKeeps
<1>9. CASE Reconcile
  BY <1>9, ReconcileKeeps
<1>10. CASE UNCHANGED vars
  <2>1. VaultInv' /\ Used' = Used
    BY <1>10, UserKeeps DEF vars
  <2>2. QED
    BY <2>1, <1>10 DEF vars, queueVars, sweepVars, QueueTypes, SweepTypes
<1>11. QED
  BY <1>1, <1>4, <1>5, <1>6, <1>7, <1>8, <1>9, <1>10 DEF Next, Notice

(* The elements of a sequence.                                             *)
LEMMA ElementsAre ==
    ASSUME NEW S, NEW s \in Seq(S)
    PROVE  ToSet(s) \subseteq S
  BY ElementOfSeq, LenProperties DEF ToSet

(* The types that the runs check follow.                                   *)
LEMMA TrackingInvImplies == TrackingInv => TypeOK
<1> SUFFICES ASSUME TrackingInv PROVE TypeOK
  OBVIOUS
<1>1. VaultTypeOK
  BY ElementsAre DEF TrackingInv, VaultInv, VaultTypes, VaultTypeOK
<1>2. ToSet(todo) \subseteq Paths
  BY ElementsAre DEF TrackingInv, SweepTypes
<1>3. ASSUME NEW p \in Paths
      PROVE  /\ task[p].step \in Steps
             /\ task[p].doc \in (IF task[p].step = "record" THEN Docs ELSE {None})
             /\ held[p] # None => held[p].file \in Used /\ held[p].doc \in Docs
  BY DEF TrackingInv, QueueTypes, Tasks, Entries
<1>4. item # None => item.path \in Paths /\ item.doc \in Docs \cup {None}
  BY DEF TrackingInv, SweepTypes, Items
<1>5. QED
  BY <1>1, <1>2, <1>3, <1>4 DEF TrackingInv, QueueTypes, SweepTypes, Steps, TypeOK

-----------------------------------------------------------------------------
(* The inductive invariant of the types: a row is in one place.            *)
THEOREM TrackingInvariant == Spec => []TrackingInv
<1>1. Init => TrackingInv
  BY TrackingInitHolds
<1>2. TrackingInv /\ [Next]_vars => TrackingInv'
  BY TrackingNextKeeps
<1>3. QED
  BY <1>1, <1>2, PTL DEF Spec

(* TypeOK: documents, rows, tasks and held deletions are what they are     *)
(* taken for, and what is held belongs to a row that has a version.        *)
THEOREM TrackingTypeCorrect == Spec => []TypeOK
  BY TrackingInvariant, TrackingInvImplies, PTL

-----------------------------------------------------------------------------
(* Renames: the clock.                                                     *)

(* What the clock is for: a user who leaves a path alone for longer than   *)
(* it takes to act upon it.                                                *)
SlowUser == Debounce < Pace /\ DeleteGrace < Pace

ClockTypes ==
    /\ left \in [Paths -> Nat]
    /\ heldLeft \in [Paths -> Nat]
    /\ rest \in [Paths -> Nat]

(* A path goes from an event to a timer to a task, and the user leaves it  *)
(* alone until the task is over.                                           *)
Settles(p) == noticed[p] = disk[p] /\ timer[p] = None /\ task[p] = Idle

Stages == \A p \in Paths :
    /\ parked[p] = None
    /\ noticed[p] # disk[p] =>
          timer[p] = None /\ task[p] = Idle /\ held[p] = None /\ rest[p] = Pace
    /\ timer[p] # None =>
          /\ noticed[p] = disk[p] /\ task[p] = Idle
          /\ timer[p] = IF disk[p] = None THEN "delete" ELSE "capture"
          /\ left[p] <= Delay(timer[p]) /\ left[p] < rest[p]
    /\ task[p] # Idle =>
          /\ noticed[p] = disk[p] /\ 0 < rest[p]
          /\ task[p].step \in (IF disk[p] = None THEN {"lookup", "access", "gone"}
                                                 ELSE {"read", "record"})
          /\ task[p].step = "record" => task[p].doc = disk[p]

(* What is held waits for the deletion to be decided, and nothing has      *)
(* happened to its row since.                                              *)
HeldInTime == \A p \in Paths : held[p] # None =>
    /\ disk[p] = None
    /\ timer[p] # None \/ task[p] # Idle
    /\ tracked[p] = held[p].file
    /\ held[p].doc = last[held[p].file]
    /\ Debounce + ClaimWindow + (IF timer[p] # None THEN left[p] ELSE 0) <= heldLeft[p]

(* What the store says of a path that nothing is left to be done about.    *)
Agrees(p) ==
    IF disk[p] = None THEN tracked[p] = None
    ELSE tracked[p] # None /\ last[tracked[p]].text = disk[p].text

Agreed == \A p \in Paths : Settles(p) => Agrees(p)

(* A document that was moved from r to q, seen at neither, at one or at    *)
(* both: its row is held by the time its bytes are read at q.              *)
Moving(r, q) ==
    /\ disk[r] = None /\ ~Settles(q)
    /\ IF noticed[r] = None THEN held[r] # None
       ELSE task[q] = Idle /\ (timer[q] # None => left[q] = Debounce)

(* The open rows: a version is the newest, not a deletion.                 *)
Open == Used \ entombed

OneOpen == \A f, g \in Open : last[f].ino = last[g].ino => f = g

(* The open row of a file on disk is at its path, or at the one it comes   *)
(* from.                                                                   *)
Located == \A q \in Paths, f \in Open :
    disk[q] # None /\ last[f].ino = disk[q].ino =>
        \/ tracked[q] = f
        \/ tracked[q] = None /\ \E r \in Paths : tracked[r] = f /\ Moving(r, q)

Inodes ==
    /\ \A p, q \in Paths : disk[p] # None /\ disk[q] # None /\ disk[p].ino = disk[q].ino => p = q
    /\ \A p \in Paths : disk[p] # None => disk[p].ino <= edits
    /\ \A f \in Used : last[f].ino <= edits

TimedInv == TrackingInv /\ ClockTypes /\ Stages /\ HeldInTime

EventsInv == TimedInv /\ Agreed

RenamesInv == EventsInv /\ Inodes /\ OneOpen /\ Located

(* Every step is a step of Tracking, or time passes.                       *)
LEMMA TimedIsTracking ==
    /\ TimedInit => Init
    /\ TimedNext \/ UNCHANGED <<vars, clockVars>> => [Next]_vars
  BY DEF TimedInit, TimedNext, TimedUser, TimedNotice, TimedFire, TimedContinue, Tick, Next

(* The clock counts in whole ticks.                                        *)
LEMMA ClockKeeps ==
    ASSUME ClockTypes, TimedNext \/ UNCHANGED <<vars, clockVars>>
    PROVE  ClockTypes'
<1>1. \A kind : Delay(kind) \in Nat
  BY ClockAssumption DEF Delay
<1>2. Window \in Nat /\ Pace \in Nat
  BY ClockAssumption DEF Window
<1>3. \A n \in Nat : Less(n) \in Nat
  BY DEF Less
<1>4. CASE TimedUser
  BY <1>2, <1>4 DEF TimedUser, ClockTypes
<1>5. ASSUME NEW p \in Paths, TimedNotice(p) PROVE ClockTypes'
  BY <1>1, <1>2, <1>5 DEF TimedNotice, ClockTypes
<1>6. ASSUME NEW p \in Paths, TimedFire(p) PROVE ClockTypes'
  BY <1>6 DEF TimedFire, clockVars, ClockTypes
<1>7. ASSUME NEW p \in Paths, TimedContinue(p) PROVE ClockTypes'
  BY <1>1, <1>7 DEF TimedContinue, ClockTypes
<1>8. CASE Tick
  BY <1>3, <1>8 DEF Tick, ClockTypes
<1>9. CASE UNCHANGED <<vars, clockVars>>
  BY <1>9 DEF clockVars, ClockTypes
<1>10. QED
  BY <1>4, <1>5, <1>6, <1>7, <1>8, <1>9 DEF TimedNext

-----------------------------------------------------------------------------
(* What a step does to the rows.                                           *)

(* The bytes of a path are recorded: the row at the path, or one that was  *)
(* nowhere active, has them now.                                           *)
LEMMA RecordIs ==
    ASSUME VaultInv, NEW p \in Paths, NEW doc \in Docs, Record(p, doc)
    PROVE  \E f \in Files :
              /\ tracked'[p] = f /\ \A q \in Paths \ {p} : tracked'[q] = tracked[q] /\ tracked[q] # f
              /\ \A g \in Files \ {f} : last'[g] = last[g]
              /\ last'[f] = doc \/ (tracked[p] = f /\ last'[f] = last[f] /\ last[f].text = doc.text)
              /\ tracked[p] # None => tracked[p] = f
              /\ Used' = Used \cup {f} /\ entombed' = entombed \ {f}
<1>1. CASE RecordKnown(p, doc)
  <2>1. tracked[p] \in Files /\ tracked[p] \in Used /\ tracked' = tracked
        /\ \A q \in Paths \ {p} : tracked[q] # tracked[p]
    BY <1>1, NoneIsApart DEF RecordKnown, VaultInv, VaultTypes, RowsOnce
  <2>2. CASE Known(tracked[p], doc)
    <3>1. /\ last' = last /\ Used' = Used /\ last[tracked[p]].text = doc.text
          /\ entombed' = entombed \ {tracked[p]}
      BY <1>1, <2>2 DEF RecordKnown, Known, Used
    <3>2. QED
      BY <2>1, <3>1
  <2>3. CASE ~Known(tracked[p], doc)
    <3>1. Commit(tracked[p], doc)
      BY <1>1, <2>3 DEF RecordKnown
    <3>2. QED
      BY <2>1, <3>1, CommitIs DEF VaultInv, Commit
  <2>4. QED
    BY <2>2, <2>3
<1>2. CASE RecordReturned(p, doc)
  <2> DEFINE f == Last(graves[p])
  <2>1. graves[p] # <<>> /\ tracked[p] = None /\ Commit(f, doc) /\ tracked' = [tracked EXCEPT ![p] = f]
    BY <1>2 DEF RecordReturned, IsBack
  <2>2. Len(graves[p]) \in DOMAIN graves[p] /\ f = graves[p][Len(graves[p])] /\ f \in Used
    BY <2>1, LatestGrave
  <2> HIDE DEF f
  <2>3. f \in Files /\ \A q \in Paths : tracked[q] # f
    BY <2>2 DEF Used, VaultInv, RowsOnce
  <2>4. \A q \in Paths : tracked'[q] = IF q = p THEN f ELSE tracked[q]
    BY <2>1 DEF VaultInv, VaultTypes
  <2>5. QED
    BY <2>1, <2>3, <2>4, CommitIs DEF VaultInv, Commit
<1>3. CASE RecordNew(p, doc)
  <2>1. PICK f \in Files \ Used : tracked' = [tracked EXCEPT ![p] = f] /\ Commit(f, doc)
    BY <1>3 DEF RecordNew
  <2>2. tracked[p] = None /\ \A q \in Paths : tracked[q] # f
    BY <1>3, NoneIsApart DEF RecordNew, VaultInv, RowsOnce
  <2>3. \A q \in Paths : tracked'[q] = IF q = p THEN f ELSE tracked[q]
    BY <2>1 DEF VaultInv, VaultTypes
  <2>4. QED
    BY <2>1, <2>2, <2>3, CommitIs DEF VaultInv, Commit
<1>4. QED
  BY <1>1, <1>2, <1>3 DEF Record

(* A rename is claimed: the row moves and has the bytes.                   *)
LEMMA RecordClaimedIs ==
    ASSUME VaultInv, NEW p \in Paths, NEW q \in Paths, NEW doc \in Docs,
           tracked[q] # None, RecordClaimed(tracked[q], p, doc)
    PROVE  LET f == tracked[q] IN
           /\ f \in Files /\ tracked[p] = None /\ tracked'[p] = f /\ tracked'[q] = None
           /\ \A r \in Paths \ {p, q} : tracked'[r] = tracked[r] /\ tracked[r] # f
           /\ \A g \in Files \ {f} : last'[g] = last[g]
           /\ last'[f] = doc /\ Used' = Used /\ entombed' = entombed /\ f \in Open
<1> DEFINE f == tracked[q]
<1>1. /\ f \in Files /\ f \in Used /\ f \notin entombed
      /\ tracked[p] = None /\ Commit(f, doc)
  BY NoneIsApart DEF RecordClaimed, VaultInv, VaultTypes, RowsOnce
<1>2. \A r \in Paths : tracked'[r] = IF r = p THEN f ELSE IF tracked[r] = f THEN None ELSE tracked[r]
  BY DEF RecordClaimed
<1>3. \A r \in Paths : tracked[r] = f => r = q
  BY DEF VaultInv, RowsOnce
<1> HIDE DEF f
<1>4. /\ \A g \in Files \ {f} : last'[g] = last[g]
      /\ last'[f] = doc /\ Used' = Used
  BY <1>1, CommitIs DEF VaultInv
<1>5. entombed' = entombed /\ f \in Open
  BY <1>1 DEF Commit, Open
<1>6. tracked[q] = f
  BY DEF f
<1>7. p # q
  BY <1>1
<1>8. QED
  BY <1>1, <1>2, <1>3, <1>4, <1>5, <1>6, <1>7 DEF f

(* The row at a path, if there is one, is buried.                          *)
LEMMA BuryIs ==
    ASSUME VaultInv, NEW p \in Paths, Bury(p)
    PROVE  /\ tracked'[p] = None /\ \A q \in Paths \ {p} : tracked'[q] = tracked[q]
           /\ last' = last /\ Used' = Used
           /\ entombed \subseteq entombed' /\ (tracked[p] # None => tracked[p] \in entombed')
<1>1. tracked[p] # None => MayBury(p)
  BY DEF MayBury, VaultInv, RowsOnce
<1>2. QED
  BY <1>1 DEF Bury, BuryAll, MayBury, Used

-----------------------------------------------------------------------------
(* What a step does to the clock and to the queue of a path.               *)

(* The deletion of p is over.                                              *)
Decided(p) ==
    /\ disk[p] = None /\ held' = [held EXCEPT ![p] = None]
    /\ \/ tracked[p] = None /\ UNCHANGED rowVars
       \/ Bury(p)

Captured(p) ==
    /\ disk[p] # None /\ held' = held
    /\ tracked[p] # None \/ Claimable(disk[p]) = {}
    /\ Record(p, disk[p])

Claimed(p) == \E q \in Claimable(disk[p]) :
    /\ disk[p] # None /\ held' = [held EXCEPT ![q] = None]
    /\ RecordClaimed(held[q].file, p, disk[p])

GoneOn(p) ==
    /\ UNCHANGED <<held, rowVars>>
    /\ task'[p] # Idle
    /\ task'[p].step \in (IF disk[p] = None THEN {"lookup", "access", "gone"}
                                            ELSE {"read", "record"})
    /\ task'[p].step = "record" => task'[p].doc = disk[p]

(* A task ends, or it waits for the next answer.                           *)
LEMMA ContinueIs ==
    ASSUME TimedInv, NEW p \in Paths, TimedContinue(p)
    PROVE  /\ task[p] # Idle /\ UNCHANGED <<disk, edits, noticed, timer, parked, clockVars>>
           /\ \A q \in Paths \ {p} : task'[q] = task[q]
           /\ \/ GoneOn(p)
              \/ task'[p] = Idle /\ (Decided(p) \/ Captured(p) \/ Claimed(p))
<1>1. Continue(p)
  BY DEF TimedContinue
<1>2. task[p].step # "idle" => task[p] # Idle
  BY DEF Idle
<1>3. task[p] # Idle
  BY <1>1, <1>2 DEF Continue, ReadMissing, ReadFails, ReadBytes, RecordBytes, RecordRename,
     DeleteUntracked, DeleteTracked, Access, AccessFails, FileIsBack, FileIsGone
<1>4. /\ parked[p] = None /\ parked \in [Paths -> Kinds \cup {None}] /\ task \in [Paths -> Tasks]
      /\ task[p].step \in (IF disk[p] = None THEN {"lookup", "access", "gone"}
                                             ELSE {"read", "record"})
      /\ task[p].step = "record" => task[p].doc = disk[p]
  BY <1>3 DEF TimedInv, Stages, TrackingInv, QueueTypes
<1>5. UNCHANGED clockVars
  BY <1>4 DEF TimedContinue, Reschedules, clockVars
<1>6. ASSUME Ends(p)
      PROVE  /\ parked' = parked /\ task'[p] = Idle
             /\ \A q \in Paths \ {p} : task'[q] = task[q]
  BY <1>4, <1>6, NoneIsApart DEF Ends, Begin, Kinds
<1>7. ASSUME NEW step, NEW doc, Goes(p, step, doc), step # "idle"
      PROVE  /\ parked' = parked /\ task'[p] # Idle /\ task'[p].step = step /\ task'[p].doc = doc
             /\ \A q \in Paths \ {p} : task'[q] = task[q]
  BY <1>4, <1>7 DEF Goes, Await, Idle
<1>8. ~ReadMissing(p) /\ ~FileIsBack(p)
  BY <1>4 DEF ReadMissing, FileIsBack
<1>9. ~ReadFails(p) /\ ~AccessFails(p)
  <2>1. failures' = failures /\ failures \in Nat
    BY VaultAssumption DEF TimedContinue, TimedInv, TrackingInv, VaultInv, VaultTypes
  <2>2. QED
    BY <2>1 DEF ReadFails, AccessFails, Unreadable
<1>10. CASE ReadBytes(p)
  BY <1>3, <1>5, <1>7, <1>10 DEF ReadBytes, GoneOn, diskVars
<1>11. CASE RecordBytes(p)
  BY <1>3, <1>4, <1>5, <1>6, <1>11 DEF RecordBytes, Captured, diskVars
<1>12. CASE RecordRename(p)
  BY <1>3, <1>4, <1>5, <1>6, <1>12 DEF RecordRename, Release, Claimed, diskVars
<1>13. CASE DeleteUntracked(p)
  BY <1>3, <1>4, <1>5, <1>6, <1>13 DEF DeleteUntracked, Release, Decided, diskVars
<1>14. CASE DeleteTracked(p)
  BY <1>3, <1>4, <1>5, <1>7, <1>14 DEF DeleteTracked, GoneOn, diskVars
<1>15. CASE Access(p)
  <2>1. Goes(p, "gone", None) /\ disk[p] = None
    BY <1>4, <1>15 DEF Access
  <2>2. QED
    BY <1>3, <1>5, <1>7, <1>15, <2>1 DEF Access, GoneOn, diskVars
<1>16. CASE FileIsGone(p)
  BY <1>3, <1>4, <1>5, <1>6, <1>16 DEF FileIsGone, Release, Decided, diskVars
<1>17. QED
  BY <1>1, <1>8, <1>9, <1>10, <1>11, <1>12, <1>13, <1>14, <1>15, <1>16 DEF Continue

(* The user touches only what has settled, and then leaves it alone.       *)
LEMMA UserIs ==
    ASSUME TimedInv, SlowUser, TimedUser
    PROVE  /\ UNCHANGED <<rowVars, noticed, queueVars, held, left, heldLeft>> /\ User
           /\ \A p \in Paths :
                 \/ disk'[p] = disk[p] /\ rest'[p] = rest[p]
                 \/ /\ disk'[p] # disk[p] /\ rest'[p] = Pace
                    /\ Settles(p) /\ held[p] = None
<1>1. /\ UNCHANGED <<rowVars, noticed, queueVars, held, left, heldLeft>> /\ User
      /\ \A p \in Paths : disk'[p] # disk[p] => rest[p] = 0
      /\ \A p \in Paths : rest'[p] = IF disk'[p] # disk[p] THEN Pace ELSE rest[p]
  BY DEF TimedUser, UserEdits
<1>2. Pace > 0
  BY ClockAssumption DEF SlowUser
<1>3. ASSUME NEW p \in Paths, rest[p] = 0 PROVE Settles(p) /\ held[p] = None
  <2>1. left[p] \in Nat
    BY DEF TimedInv, ClockTypes
  <2>2. noticed[p] = disk[p] /\ timer[p] = None /\ task[p] = Idle
    BY <1>2, <1>3, <2>1 DEF TimedInv, Stages
  <2>3. QED
    BY <2>2 DEF Settles, TimedInv, HeldInTime
<1>4. QED
  BY <1>1, <1>3

(* Only a path at rest is touched, and its pause begins.                   *)
LEMMA UserTimed ==
    ASSUME TimedInv, SlowUser, TimedUser
    PROVE  Stages' /\ HeldInTime'
<1>1. /\ UNCHANGED <<tracked, last, noticed, timer, task, parked, held, left, heldLeft>>
      /\ \A p \in Paths :
            \/ disk'[p] = disk[p] /\ rest'[p] = rest[p]
            \/ /\ disk'[p] # disk[p] /\ rest'[p] = Pace
               /\ noticed[p] = disk[p] /\ timer[p] = None /\ task[p] = Idle /\ held[p] = None
  BY UserIs DEF rowVars, queueVars, Settles
<1>2. Stages'
  BY <1>1 DEF TimedInv, Stages
<1>3. HeldInTime'
  BY <1>1 DEF TimedInv, HeldInTime
<1>4. QED
  BY <1>2, <1>3

(* An event arrives.                                                       *)
LEMMA NoticeIs ==
    ASSUME TimedInv, NEW p \in Paths, TimedNotice(p)
    PROVE  /\ UNCHANGED <<diskVars, rowVars, task, parked, rest>>
           /\ noticed[p] # disk[p] /\ noticed'[p] = disk[p]
           /\ timer'[p] = (IF disk[p] = None THEN "delete" ELSE "capture")
           /\ left'[p] = Delay(timer'[p])
           /\ \A q \in Paths \ {p} :
                 /\ noticed'[q] = noticed[q] /\ timer'[q] = timer[q] /\ held'[q] = held[q]
                 /\ left'[q] = left[q] /\ heldLeft'[q] = heldLeft[q]
           /\ IF disk[p] = None /\ tracked[p] # None
              THEN /\ held'[p] = [file |-> tracked[p], doc |-> last[tracked[p]]]
                   /\ held'[p] # None /\ heldLeft'[p] = Window
              ELSE held'[p] = None
<1>1. /\ noticed \in [Paths -> Docs \cup {None}] /\ timer \in [Paths -> Kinds \cup {None}]
      /\ held \in [Paths -> Entries \cup {None}]
      /\ left \in [Paths -> Nat] /\ heldLeft \in [Paths -> Nat]
  BY DEF TimedInv, TrackingInv, QueueTypes, ClockTypes
<1>2. /\ Notice(p) /\ rest' = rest /\ left' = [left EXCEPT ![p] = Delay(timer'[p])]
      /\ heldLeft' = IF held' = held THEN heldLeft ELSE [heldLeft EXCEPT ![p] = Window]
  BY DEF TimedNotice
<1>3. noticed[p] # disk[p] => held[p] = None
  BY DEF TimedInv, Stages
<1>4. CASE NoticeUpsert(p)
  BY <1>1, <1>2, <1>3, <1>4 DEF NoticeUpsert, Schedule
<1>5. CASE NoticeUnlink(p)
  <2>1. CASE tracked[p] = None
    BY <1>1, <1>2, <1>3, <1>5, <2>1 DEF NoticeUnlink, Schedule, Hold
  <2>2. CASE tracked[p] # None
    <3>1. held' = [held EXCEPT ![p] = [file |-> tracked[p], doc |-> last[tracked[p]]]]
      BY <1>3, <1>5, <2>2 DEF NoticeUnlink, Hold
    <3>2. [file |-> tracked[p], doc |-> last[tracked[p]]] \in Entries
      BY <2>2 DEF TimedInv, TrackingInv, VaultInv, VaultTypes, RowsOnce, Used, Entries
    <3>3. held'[p] = [file |-> tracked[p], doc |-> last[tracked[p]]] /\ held'[p] # None
      BY <1>1, <3>1, <3>2, NoneIsApart
    <3>4. held' # held
      BY <1>3, <1>5, <3>3 DEF NoticeUnlink
    <3>5. QED
      BY <1>1, <1>2, <1>5, <2>2, <3>1, <3>3, <3>4 DEF NoticeUnlink, Schedule
  <2>3. QED
    BY <2>1, <2>2
<1>6. QED
  BY <1>2, <1>4, <1>5 DEF Notice

(* An event arms the timer, which ends before the pause does; a deletion   *)
(* is held for as long as it takes to decide it.                           *)
LEMMA NoticeTimed ==
    ASSUME TimedInv, SlowUser, NEW p \in Paths, TimedNotice(p)
    PROVE  Stages' /\ HeldInTime'
<1>1. /\ UNCHANGED <<disk, tracked, last, task, parked, rest>>
      /\ noticed[p] # disk[p] /\ noticed'[p] = disk[p]
      /\ timer'[p] = (IF disk[p] = None THEN "delete" ELSE "capture")
      /\ left'[p] = Delay(timer'[p])
      /\ \A q \in Paths \ {p} :
            /\ noticed'[q] = noticed[q] /\ timer'[q] = timer[q] /\ held'[q] = held[q]
            /\ left'[q] = left[q] /\ heldLeft'[q] = heldLeft[q]
      /\ IF disk[p] = None /\ tracked[p] # None
         THEN /\ held'[p] = [file |-> tracked[p], doc |-> last[tracked[p]]]
              /\ heldLeft'[p] = Window
         ELSE held'[p] = None
  BY NoticeIs DEF diskVars, rowVars
<1>2. /\ parked[p] = None /\ task[p] = Idle /\ rest[p] = Pace
  BY <1>1 DEF TimedInv, Stages
<1>3. left'[p] \in Nat /\ left'[p] <= Delay(timer'[p]) /\ left'[p] < Pace
  BY <1>1, ClockAssumption DEF Delay, SlowUser
<1>4. timer'[p] # None
  BY <1>1, NoneIsApart DEF Kinds
<1>5. Stages'
  <2>1. ASSUME NEW q \in Paths \ {p}
        PROVE  /\ parked'[q] = parked[q] /\ noticed'[q] = noticed[q] /\ disk'[q] = disk[q]
               /\ timer'[q] = timer[q] /\ task'[q] = task[q] /\ held'[q] = held[q]
               /\ left'[q] = left[q] /\ rest'[q] = rest[q]
    BY <1>1
  <2>2. QED
    BY <1>1, <1>2, <1>3, <1>4, <2>1 DEF TimedInv, Stages
<1>6. HeldInTime'
  <2>1. ASSUME held'[p] # None
        PROVE  /\ disk'[p] = None /\ tracked'[p] = held'[p].file
               /\ held'[p].doc = last'[held'[p].file]
               /\ Debounce + ClaimWindow + left'[p] <= heldLeft'[p]
    <3>1. disk[p] = None /\ tracked[p] # None
      BY <1>1, <2>1
    <3>2. left'[p] = DeleteGrace /\ heldLeft'[p] = Debounce + DeleteGrace + ClaimWindow
      BY <1>1, <3>1 DEF Delay, Window
    <3>3. QED
      BY <1>1, <3>1, <3>2, ClockAssumption
  <2>2. QED
    BY <1>1, <1>4, <2>1 DEF TimedInv, HeldInTime
<1>7. QED
  BY <1>5, <1>6

(* A timer is due.                                                         *)
LEMMA FireIs ==
    ASSUME TimedInv, NEW p \in Paths, TimedFire(p)
    PROVE  /\ UNCHANGED <<diskVars, rowVars, noticed, held, parked, clockVars>>
           /\ left[p] = 0 /\ timer[p] # None /\ task[p] = Idle /\ timer'[p] = None
           /\ task'[p] # Idle
           /\ task'[p].step = IF disk[p] = None THEN "lookup" ELSE "read"
           /\ \A q \in Paths \ {p} : timer'[q] = timer[q] /\ task'[q] = task[q]
<1>1. /\ timer \in [Paths -> Kinds \cup {None}] /\ task \in [Paths -> Tasks]
  BY DEF TimedInv, TrackingInv, QueueTypes
<1>2. left[p] = 0 /\ timer[p] # None /\ UNCHANGED clockVars /\ TimerFires(p)
  BY DEF TimedFire, TimerFires
<1>3. task[p] = Idle /\ timer[p] = IF disk[p] = None THEN "delete" ELSE "capture"
  BY <1>2 DEF TimedInv, Stages
<1>4. Begin(timer[p]) = Await(IF disk[p] = None THEN "lookup" ELSE "read", None)
  BY <1>2, <1>3 DEF Begin
<1>5. QED
  BY <1>1, <1>2, <1>3, <1>4 DEF TimerFires, Await, Idle

(* The task begins while the user leaves the path alone.                   *)
LEMMA FireTimed ==
    ASSUME TimedInv, SlowUser, NEW p \in Paths, TimedFire(p)
    PROVE  Stages' /\ HeldInTime'
<1>1. /\ UNCHANGED <<disk, tracked, last, noticed, held, parked, left, heldLeft, rest>>
      /\ timer[p] # None /\ task[p] = Idle /\ timer'[p] = None
      /\ task'[p] # Idle
      /\ task'[p].step = IF disk[p] = None THEN "lookup" ELSE "read"
      /\ \A q \in Paths \ {p} : timer'[q] = timer[q] /\ task'[q] = task[q]
  BY FireIs DEF diskVars, rowVars, clockVars
<1>2. /\ noticed[p] = disk[p] /\ 0 < rest[p] /\ parked[p] = None
  BY <1>1 DEF TimedInv, Stages, ClockTypes
<1>3. Stages'
  BY <1>1, <1>2 DEF TimedInv, Stages
<1>4. HeldInTime'
  <2>1. \A q \in Paths : left[q] \in Nat /\ heldLeft[q] \in Nat
    BY DEF TimedInv, ClockTypes
  <2>2. QED
    BY <1>1, <2>1, ClockAssumption DEF TimedInv, HeldInTime
<1>5. QED
  BY <1>3, <1>4

(* What is held of a path is told apart from what is held of another.      *)
LEMMA HeldApart ==
    ASSUME TimedInv, NEW p \in Paths, NEW q \in Paths, held[p] # None, held[q] # None, p # q
    PROVE  held[p].file # held[q].file
  BY NoneIsApart DEF TimedInv, HeldInTime, TrackingInv, QueueTypes, VaultInv, RowsOnce, Used

(* Whatever a task did, nothing has happened to the rows of what is held   *)
(* still.                                                                  *)
LEMMA HeldRows ==
    ASSUME TimedInv, NEW p \in Paths, UNCHANGED disk,
           Decided(p) \/ Captured(p) \/ Claimed(p) \/ (UNCHANGED <<held, rowVars>>)
    PROVE  \A q \in Paths : held'[q] # None =>
              /\ held'[q] = held[q]
              /\ tracked'[q] = tracked[q] /\ last'[held[q].file] = last[held[q].file]
              /\ Decided(p) => q # p
<1>1. held \in [Paths -> Entries \cup {None}] /\ VaultInv
  BY DEF TimedInv, TrackingInv, QueueTypes
<1>2. \A q \in Paths : held[q] # None => /\ disk[q] = None /\ tracked[q] = held[q].file
                                        /\ held[q].file \in Files
  BY DEF TimedInv, TrackingInv, QueueTypes, Used, HeldInTime
<1>3. disk[p] # None => disk[p] \in Docs
  BY DEF TimedInv, TrackingInv, VaultInv, VaultTypes
<1>4. CASE Decided(p)
  <2>1. \A q \in Paths : held'[q] = IF q = p THEN None ELSE held[q]
    BY <1>1, <1>4 DEF Decided
  <2>2. last' = last /\ \A q \in Paths \ {p} : tracked'[q] = tracked[q]
    BY <1>1, <1>4, BuryIs DEF Decided, rowVars
  <2>3. QED
    BY <2>1, <2>2
<1>5. CASE Captured(p)
  <2>1. PICK f \in Files :
              /\ \A q \in Paths \ {p} : tracked'[q] = tracked[q] /\ tracked[q] # f
              /\ \A g \in Files \ {f} : last'[g] = last[g]
    BY <1>1, <1>3, <1>5, RecordIs DEF Captured
  <2>2. QED
    BY <1>2, <1>5, <2>1 DEF Captured, Decided
<1>6. CASE Claimed(p)
  <2>1. PICK q \in Claimable(disk[p]) : /\ disk[p] # None /\ held' = [held EXCEPT ![q] = None]
                                        /\ RecordClaimed(held[q].file, p, disk[p])
    BY <1>6 DEF Claimed
  <2>2. q \in Paths /\ held[q] # None
    BY <2>1 DEF Claimable, SameInode, SameText
  <2>3. tracked[q] # None /\ held[q].file = tracked[q]
    BY <1>2, <2>2, NoneIsApart
  <2>4. /\ \A r \in Paths \ {p, q} : tracked'[r] = tracked[r] /\ tracked[r] # tracked[q]
        /\ \A g \in Files \ {tracked[q]} : last'[g] = last[g]
    BY <1>1, <1>3, <2>1, <2>2, <2>3, RecordClaimedIs
  <2>5. \A r \in Paths : held'[r] = IF r = q THEN None ELSE held[r]
    BY <1>1, <2>1
  <2>6. QED
    BY <1>2, <2>1, <2>4, <2>5 DEF Decided
<1>7. CASE UNCHANGED <<held, rowVars>>
  <2>1. Decided(p) => held'[p] = None
    BY <1>1 DEF Decided
  <2>2. QED
    BY <1>7, <2>1 DEF rowVars
<1>8. QED
  BY <1>4, <1>5, <1>6, <1>7

(* A task ends, or goes on; its path is as the task found it, and a        *)
(* deletion that is decided or claimed is held no more.                    *)
LEMMA ContinueTimed ==
    ASSUME TimedInv, SlowUser, NEW p \in Paths, TimedContinue(p)
    PROVE  Stages' /\ HeldInTime'
<1>1. /\ task[p] # Idle /\ UNCHANGED <<disk, noticed, timer, parked, left, heldLeft, rest>>
      /\ \A q \in Paths \ {p} : task'[q] = task[q]
      /\ \/ GoneOn(p)
         \/ task'[p] = Idle /\ (Decided(p) \/ Captured(p) \/ Claimed(p))
  BY ContinueIs DEF clockVars
<1>2. \A q \in Paths : held'[q] # None =>
         /\ held'[q] = held[q]
         /\ tracked'[q] = tracked[q] /\ last'[held[q].file] = last[held[q].file]
         /\ Decided(p) => q # p
  BY <1>1, HeldRows DEF GoneOn
<1>3. /\ noticed[p] = disk[p] /\ timer[p] = None /\ 0 < rest[p]
  BY <1>1 DEF TimedInv, Stages
<1>4. \A q \in Paths : held[q] = None => held'[q] = None
  BY <1>2
<1>5. Stages'
  BY <1>1, <1>3, <1>4 DEF TimedInv, Stages, GoneOn
<1>6. ASSUME held'[p] # None PROVE task'[p] # Idle
  <2>1. disk[p] = None /\ held'[p] = held[p] /\ ~Decided(p)
    BY <1>2, <1>6 DEF TimedInv, HeldInTime
  <2>2. QED
    BY <1>1, <2>1 DEF GoneOn, Captured, Claimed
<1>7. HeldInTime'
  BY <1>1, <1>2, <1>3, <1>6 DEF TimedInv, HeldInTime
<1>8. QED
  BY <1>5, <1>7

(* Time passes: no task is under way and no timer is due.                  *)
LEMMA TickIs ==
    ASSUME TimedInv, Tick
    PROVE  /\ UNCHANGED vars
           /\ \A p \in Paths :
                 /\ noticed[p] = disk[p] /\ task[p] = Idle
                 /\ left'[p] = Less(left[p]) /\ heldLeft'[p] = Less(heldLeft[p])
                 /\ rest'[p] = Less(rest[p])
                 /\ timer[p] # None => left[p] > 0 /\ left'[p] = left[p] - 1
                 /\ held[p] # None => heldLeft[p] > 0 /\ heldLeft'[p] = heldLeft[p] - 1
                 /\ rest'[p] = rest[p] - 1 \/ rest[p] = 0
  BY DEF TimedInv, ClockTypes, Tick, Urgent, RanOut, Less

(* A timer, the time of what it holds and the pause run down together.     *)
LEMMA TickTimed ==
    ASSUME TimedInv, SlowUser, Tick
    PROVE  Stages' /\ HeldInTime'
<1>1. /\ UNCHANGED <<disk, tracked, last, noticed, timer, task, parked, held>>
      /\ \A p \in Paths :
            /\ noticed[p] = disk[p] /\ task[p] = Idle
            /\ timer[p] # None => left[p] > 0 /\ left'[p] = left[p] - 1
            /\ held[p] # None => heldLeft[p] > 0 /\ heldLeft'[p] = heldLeft[p] - 1
            /\ rest'[p] = rest[p] - 1 \/ rest[p] = 0
  BY TickIs DEF vars, diskVars, rowVars, queueVars
<1>2. \A p \in Paths : left[p] \in Nat /\ heldLeft[p] \in Nat /\ rest[p] \in Nat /\ Delay(timer[p]) \in Nat
  BY ClockAssumption DEF TimedInv, ClockTypes, Delay
<1>3. Stages'
  BY <1>1, <1>2 DEF TimedInv, Stages
<1>4. HeldInTime'
  BY <1>1, <1>2, ClockAssumption DEF TimedInv, HeldInTime
<1>5. QED
  BY <1>3, <1>4

(* The invariant of the clock is inductive.                                *)
LEMMA TimedNextKeeps ==
    ASSUME SlowUser
    PROVE  TimedInv /\ [TimedNext]_<<vars, clockVars>> => TimedInv'
<1> SUFFICES ASSUME TimedInv, TimedNext \/ UNCHANGED <<vars, clockVars>> PROVE TimedInv'
  OBVIOUS
<1>1. TrackingInv'
  BY TimedIsTracking, TrackingNextKeeps DEF TimedInv
<1>2. ClockTypes'
  BY ClockKeeps DEF TimedInv
<1>3. CASE UNCHANGED <<vars, clockVars>>
  <2>1. UNCHANGED <<disk, tracked, last, noticed, timer, task, parked, held, left, heldLeft, rest>>
    BY <1>3 DEF vars, diskVars, rowVars, queueVars, clockVars
  <2>2. Stages' /\ HeldInTime'
    BY <2>1 DEF TimedInv, Stages, HeldInTime
  <2>3. QED
    BY <1>1, <1>2, <2>2 DEF TimedInv
<1>4. CASE TimedNext
  <2>1. Stages' /\ HeldInTime'
    BY <1>4, UserTimed, NoticeTimed, FireTimed, ContinueTimed, TickTimed DEF TimedNext
  <2>2. QED
    BY <1>1, <1>2, <2>1 DEF TimedInv
<1>5. QED
  BY <1>3, <1>4

(* In the beginning nothing runs and nothing is held.                      *)
LEMMA TimedInitHolds == TimedInit => TimedInv
<1> SUFFICES ASSUME TimedInit PROVE TimedInv
  OBVIOUS
<1>1. TrackingInv
  BY TimedIsTracking, TrackingInitHolds
<1>2. \A p \in Paths : /\ noticed[p] = disk[p] /\ timer[p] = None /\ task[p] = Idle
                       /\ parked[p] = None /\ held[p] = None
  BY DEF TimedInit, Init, AtRest
<1>3. ClockTypes
  BY DEF TimedInit, ClockTypes
<1>4. Stages /\ HeldInTime
  BY <1>2 DEF Stages, HeldInTime
<1>5. QED
  BY <1>1, <1>3, <1>4 DEF TimedInv

-----------------------------------------------------------------------------
(* The inductive invariant of the clock, for a user who is slow enough.    *)
THEOREM TimedInvariant ==
    ASSUME SlowUser
    PROVE  TimedSpec => []TimedInv
<1>1. TimedInit => TimedInv
  BY TimedInitHolds
<1>2. TimedInv /\ [TimedNext]_<<vars, clockVars>> => TimedInv'
  BY TimedNextKeeps
<1>3. QED
  BY <1>1, <1>2, PTL DEF TimedSpec, followVars

(* AlwaysDecided: whatever the debounce, the grace and the window are, a   *)
(* held deletion is claimed or decided before its window ends, unless the  *)
(* debounce and the window are both nothing.                               *)
THEOREM HeldAreDecided ==
    ASSUME SlowUser, 0 < Debounce + ClaimWindow
    PROVE  TimedSpec => []AlwaysDecided
<1>1. TimedInv => AlwaysDecided
  <2> SUFFICES ASSUME TimedInv, NEW p \in Paths, held[p] # None PROVE heldLeft[p] # 0
    BY DEF AlwaysDecided, RanOut
  <2>1. /\ left[p] \in Nat
        /\ Debounce + ClaimWindow + (IF timer[p] # None THEN left[p] ELSE 0) <= heldLeft[p]
    BY DEF TimedInv, ClockTypes, HeldInTime
  <2>2. QED
    BY <2>1, ClockAssumption
<1>2. QED
  BY <1>1, TimedInvariant, PTL

-----------------------------------------------------------------------------
(* Events are enough.                                                      *)

(* What a task has recorded of a path, or decided, agrees with it.         *)
LEMMA ContinueAgreed ==
    ASSUME EventsInv, NEW p \in Paths, TimedContinue(p)
    PROVE  Agreed'
<1>1. /\ task[p] # Idle /\ UNCHANGED <<disk, noticed, timer>>
      /\ \A q \in Paths \ {p} : task'[q] = task[q]
      /\ \/ GoneOn(p)
         \/ task'[p] = Idle /\ (Decided(p) \/ Captured(p) \/ Claimed(p))
  BY ContinueIs DEF EventsInv
<1>2. VaultInv /\ held \in [Paths -> Entries \cup {None}]
  BY DEF EventsInv, TimedInv, TrackingInv, QueueTypes
<1>3. disk[p] # None => disk[p] \in Docs
  BY <1>2 DEF VaultInv, VaultTypes
<1>4. \A q \in Paths : tracked[q] # None => tracked[q] \in Files
  BY <1>2 DEF VaultInv, VaultTypes
<1>5. ASSUME NEW q \in Paths \ {p}, Settles(q)'
      PROVE  Settles(q) /\ Agrees(q) /\ held[q] = None
  <2>1. Settles(q)
    BY <1>1, <1>5 DEF Settles
  <2>2. QED
    BY <2>1 DEF Settles, EventsInv, Agreed, TimedInv, HeldInTime
<1>6. CASE GoneOn(p)
  <2>1. \A q \in Paths : Settles(q)' => q # p
    BY <1>6 DEF GoneOn, Settles
  <2>2. QED
    BY <1>1, <1>5, <1>6, <2>1 DEF GoneOn, rowVars, Agreed, Agrees
<1>7. CASE Decided(p)
  <2>1. tracked'[p] = None /\ last' = last /\ \A q \in Paths \ {p} : tracked'[q] = tracked[q]
    BY <1>2, <1>7, BuryIs DEF Decided, rowVars
  <2>2. Agrees(p)' /\ \A q \in Paths \ {p} : Agrees(q) => Agrees(q)'
    BY <1>1, <1>7, <2>1 DEF Decided, Agrees
  <2>3. QED
    BY <1>5, <2>2 DEF Agreed
<1>8. CASE Captured(p)
  <2>1. PICK f \in Files :
              /\ tracked'[p] = f /\ \A q \in Paths \ {p} : tracked'[q] = tracked[q] /\ tracked[q] # f
              /\ \A g \in Files \ {f} : last'[g] = last[g]
              /\ last'[f] = disk[p] \/ (last'[f] = last[f] /\ last[f].text = disk[p].text)
    BY <1>2, <1>3, <1>8, RecordIs DEF Captured
  <2>2. Agrees(p)'
    BY <1>1, <1>8, <2>1, NoneIsApart DEF Captured, Agrees
  <2>3. \A q \in Paths \ {p} : Agrees(q) => Agrees(q)'
    BY <1>1, <1>4, <2>1 DEF Agrees
  <2>4. QED
    BY <1>5, <2>2, <2>3 DEF Agreed
<1>9. CASE Claimed(p)
  <2>1. PICK q \in Claimable(disk[p]) : /\ disk[p] # None
                                        /\ RecordClaimed(held[q].file, p, disk[p])
    BY <1>9 DEF Claimed
  <2>2. q \in Paths /\ held[q] # None
    BY <2>1 DEF Claimable, SameInode, SameText
  <2>3. tracked[q] # None /\ held[q].file = tracked[q]
    <3>1. held[q] \in Entries /\ held[q].file = tracked[q]
      BY <1>2, <2>2 DEF EventsInv, TimedInv, HeldInTime
    <3>2. QED
      BY <3>1, NoneIsApart DEF Entries
  <2>4. /\ tracked[q] \in Files /\ tracked'[p] = tracked[q]
        /\ \A r \in Paths \ {p, q} : tracked'[r] = tracked[r] /\ tracked[r] # tracked[q]
        /\ \A g \in Files \ {tracked[q]} : last'[g] = last[g]
        /\ last'[tracked[q]] = disk[p]
    BY <1>2, <1>3, <2>1, <2>2, <2>3, RecordClaimedIs
  <2>5. Agrees(p)'
    BY <1>1, <2>1, <2>4, NoneIsApart DEF Agrees
  <2>6. \A r \in Paths \ {p, q} : Agrees(r) => Agrees(r)'
    BY <1>1, <1>4, <2>4 DEF Agrees
  <2>7. QED
    BY <1>5, <2>2, <2>5, <2>6 DEF Agreed
<1>10. QED
  BY <1>1, <1>6, <1>7, <1>8, <1>9

(* A path settles only by a task that ends.                                *)
LEMMA EventsNextKeeps ==
    ASSUME SlowUser
    PROVE  EventsInv /\ [TimedNext]_<<vars, clockVars>> => EventsInv'
<1> SUFFICES ASSUME EventsInv, TimedNext \/ UNCHANGED <<vars, clockVars>> PROVE EventsInv'
  OBVIOUS
<1>1. TimedInv'
  BY TimedNextKeeps DEF EventsInv
<1>2. ASSUME UNCHANGED rowVars,
             \A p \in Paths : Settles(p)' => Settles(p) /\ disk'[p] = disk[p]
      PROVE  Agreed'
  BY <1>2 DEF EventsInv, Agreed, Agrees, rowVars
<1>3. CASE TimedUser
  BY <1>1, <1>2, <1>3, UserIs DEF EventsInv, Settles, queueVars
<1>4. ASSUME NEW p \in Paths, TimedNotice(p) PROVE Agreed'
  <2>1. /\ UNCHANGED <<disk, rowVars, task>> /\ noticed[p] # disk[p]
        /\ timer'[p] \in Kinds
        /\ \A q \in Paths \ {p} : noticed'[q] = noticed[q] /\ timer'[q] = timer[q]
    BY <1>4, NoticeIs DEF EventsInv, diskVars, Kinds
  <2>2. QED
    BY <1>2, <2>1, NoneIsApart DEF Settles
<1>5. ASSUME NEW p \in Paths, TimedFire(p) PROVE Agreed'
  <2>1. /\ UNCHANGED <<disk, rowVars, noticed>> /\ task'[p] # Idle
        /\ \A q \in Paths \ {p} : timer'[q] = timer[q] /\ task'[q] = task[q]
    BY <1>5, FireIs DEF EventsInv, diskVars
  <2>2. QED
    BY <1>2, <2>1 DEF Settles
<1>6. ASSUME NEW p \in Paths, TimedContinue(p) PROVE Agreed'
  BY <1>6, ContinueAgreed
<1>7. CASE Tick \/ UNCHANGED <<vars, clockVars>>
  BY <1>1, <1>2, <1>7 DEF EventsInv, Tick, vars, diskVars, queueVars, Settles
<1>8. QED
  BY <1>1, <1>3, <1>4, <1>5, <1>6, <1>7 DEF EventsInv, TimedNext

(* At first there is one note, with one version of it.                     *)
LEMMA FirstNote ==
    ASSUME TimedInit
    PROVE  \E p \in Paths, note \in Docs :
              /\ \A q \in Paths : disk[q] = (IF q = p THEN note ELSE None)
              /\ \A q \in Paths : tracked[q] = (IF q = p THEN 1 ELSE None)
              /\ 1 \in Files /\ last[1] = note /\ note.ino = 1 /\ edits = 1 /\ Used = {1}
<1> DEFINE note == [ino |-> 1, text |-> CHOOSE t \in Texts : TRUE, mtime |-> 1]
<1>1. PICK p \in Paths : /\ disk = [q \in Paths |-> IF q = p THEN note ELSE None]
                         /\ edits = 1
                         /\ tracked = [q \in Paths |-> IF q = p THEN 1 ELSE None]
                         /\ last = [f \in Files |-> IF f = 1 THEN note ELSE None]
  BY DEF TimedInit, Init, VaultInit
<1>2. 1 \in Files /\ note \in Docs /\ note.ino = 1
  BY VaultAssumption DEF Files, Docs
<1> HIDE DEF note
<1>3. Used = {1} /\ last[1] = note
  BY <1>1, <1>2, NoneIsApart DEF Used
<1>4. QED
  BY <1>1, <1>2, <1>3

(* In the beginning the one note is recorded.                              *)
LEMMA EventsInitHolds == TimedInit => EventsInv
<1> SUFFICES ASSUME TimedInit PROVE EventsInv
  OBVIOUS
<1>1. Agreed
  BY FirstNote, NoneIsApart DEF Agreed, Agrees
<1>2. QED
  BY <1>1, TimedInitHolds DEF EventsInv

(* EventsSuffice: without a reconciliation, the store says what the disk   *)
(* says whenever all events were acted upon, whatever the three delays are.*)
THEOREM EventsAreEnough ==
    ASSUME SlowUser
    PROVE  TimedSpec => []EventsSuffice
<1>1. TimedInit => EventsInv
  BY EventsInitHolds
<1>2. EventsInv /\ [TimedNext]_<<vars, clockVars>> => EventsInv'
  BY EventsNextKeeps
<1>3. EventsInv => EventsSuffice
  BY DEF EventsInv, Agreed, Agrees, Settles, EventsSuffice, ActedUpon, InSync, InSyncAt
<1>4. QED
  BY <1>1, <1>2, <1>3, PTL DEF TimedSpec, followVars

-----------------------------------------------------------------------------
(* One open timeline.                                                      *)

(* A file is made, changed or removed, or moved to where no file is.       *)
LEMMA UserMoves ==
    ASSUME RenamesInv, TimedUser
    PROVE  /\ edits \in Nat /\ edits' = edits + 1
           /\ \/ \E p \in Paths :
                    /\ \A q \in Paths \ {p} : disk'[q] = disk[q]
                    /\ disk'[p] # None => \/ disk'[p].ino = edits + 1
                                          \/ disk[p] # None /\ disk'[p].ino = disk[p].ino
              \/ \E p, q \in Paths :
                    /\ disk[p] # None /\ disk[q] = None /\ disk'[p] = None /\ disk'[q] = disk[p]
                    /\ \A r \in Paths \ {p, q} : disk'[r] = disk[r]
<1>1. disk \in [Paths -> Docs \cup {None}] /\ edits \in Nat
  BY VaultAssumption DEF RenamesInv, EventsInv, TimedInv, TrackingInv, VaultInv, VaultTypes
<1>2. User
  BY DEF TimedUser, UserEdits
<1>3. ASSUME NEW p \in Paths, NEW text \in Texts, Create(p, text) \/ Write(p, text)
      PROVE  /\ edits' = edits + 1 /\ \A q \in Paths \ {p} : disk'[q] = disk[q]
             /\ disk'[p].ino = edits + 1 \/ (disk[p] # None /\ disk'[p].ino = disk[p].ino)
  BY <1>1, <1>3 DEF Create, Write, Edit
<1>4. ASSUME NEW p \in Paths, Delete(p)
      PROVE  /\ edits' = edits + 1 /\ \A q \in Paths \ {p} : disk'[q] = disk[q]
             /\ disk'[p] = None
  BY <1>1, <1>4 DEF Delete, Edit
<1>5. ASSUME NEW p \in Paths, NEW q \in Paths, Rename(p, q)
      PROVE  /\ edits' = edits + 1
             /\ disk[p] # None /\ disk[q] = None /\ disk'[p] = None /\ disk'[q] = disk[p]
             /\ \A r \in Paths \ {p, q} : disk'[r] = disk[r]
  <2>1. /\ edits' = edits + 1 /\ p # q
        /\ disk[p] # None /\ disk'[p] = None /\ disk'[q] = disk[p]
        /\ \A r \in Paths \ {p, q} : disk'[r] = disk[r]
    BY <1>1, <1>5 DEF Rename
  <2>2. disk[q] = None
    BY <2>1 DEF TimedUser
  <2>3. QED
    BY <2>1, <2>2
<1>6. QED
  BY <1>1, <1>2, <1>3, <1>4, <1>5 DEF User

(* A file on disk has its inode from the user, and a row from the disk.    *)
LEMMA UserInodes ==
    ASSUME RenamesInv, SlowUser, TimedUser
    PROVE  Inodes' /\ OneOpen'
<1>1. last' = last /\ Used' = Used /\ Open' = Open
  BY UserIs DEF RenamesInv, EventsInv, rowVars, Used, Open
<1>2. \A p \in Paths : disk[p] # None => disk[p].ino \in Nat
  BY DEF RenamesInv, EventsInv, TimedInv, TrackingInv, VaultInv, VaultTypes, Docs
<1>3. \A f \in Used : last[f].ino \in Nat
  BY DEF RenamesInv, EventsInv, TimedInv, TrackingInv, VaultInv, VaultTypes, Used, Docs
<1>4. Inodes'
  BY <1>1, <1>2, <1>3, UserMoves DEF RenamesInv, Inodes
<1>5. OneOpen'
  BY <1>1 DEF RenamesInv, OneOpen
<1>6. QED
  BY <1>4, <1>5

(* A document moved away from a settled path leaves its row there, and is  *)
(* on its way.                                                             *)
LEMMA UserLocated ==
    ASSUME RenamesInv, SlowUser, TimedUser
    PROVE  Located'
<1>1. /\ UNCHANGED <<tracked, last, noticed, timer, task, held, left>> /\ Open' = Open
      /\ \A p \in Paths : disk'[p] # disk[p] => Settles(p)
  BY UserIs DEF RenamesInv, EventsInv, rowVars, queueVars, Used, Open
<1>2. \A f \in Open : last[f].ino \in Nat /\ last[f].ino <= edits
  BY DEF RenamesInv, Inodes, EventsInv, TimedInv, TrackingInv, VaultInv, VaultTypes, Used, Open, Docs
<1>3. SUFFICES ASSUME NEW q \in Paths, NEW f \in Open, disk'[q] # None, last[f].ino = disk'[q].ino
               PROVE  \/ tracked[q] = f
                      \/ tracked[q] = None /\ \E r \in Paths : tracked[r] = f /\ Moving(r, q)'
  BY <1>1 DEF Located
<1>4. CASE disk'[q] = disk[q]
  <2>1. SUFFICES ASSUME NEW r \in Paths, tracked[r] = f, Moving(r, q) PROVE Moving(r, q)'
    BY <1>3, <1>4 DEF RenamesInv, Located
  <2>2. disk'[r] = disk[r]
    <3>1. held[r] # None => ~Settles(r)
      BY DEF RenamesInv, EventsInv, TimedInv, HeldInTime, Settles
    <3>2. QED
      BY <1>1, <2>1, <3>1 DEF Moving, Settles
  <2>3. QED
    BY <1>1, <1>4, <2>1, <2>2 DEF Moving, Settles
<1>5. CASE disk'[q] # disk[q] /\ disk[q] # None /\ disk'[q].ino = disk[q].ino
  BY <1>1, <1>3, <1>5 DEF RenamesInv, Located, Moving
<1>6. CASE disk'[q] # disk[q] /\ disk[q] = None /\ disk'[q].ino # edits + 1
  <2>1. PICK r \in Paths : disk[r] # None /\ disk'[r] = None /\ disk'[q] = disk[r]
    BY <1>3, <1>6, UserMoves
  <2>2. Settles(r) /\ Settles(q)
    BY <1>1, <1>6, <2>1
  <2>3. tracked[r] = f
    BY <1>3, <2>1, <2>2 DEF RenamesInv, Located, Moving
  <2>4. tracked[q] = None
    BY <1>6, <2>2 DEF RenamesInv, EventsInv, Agreed, Agrees
  <2>5. Moving(r, q)'
    BY <1>1, <1>6, <2>1, <2>2 DEF Moving, Settles
  <2>6. QED
    BY <2>3, <2>4, <2>5
<1>7. CASE disk'[q].ino = edits + 1
  BY <1>2, <1>3, <1>7, UserMoves
<1>8. QED
  BY <1>3, <1>4, <1>5, <1>6, <1>7, UserMoves

(* A document on its way stays so while the events of its move arrive.     *)
LEMMA NoticeLocated ==
    ASSUME RenamesInv, SlowUser, NEW p \in Paths, TimedNotice(p)
    PROVE  Located'
<1>1. /\ UNCHANGED <<disk, tracked, last, task>> /\ Open' = Open
      /\ noticed[p] # disk[p] /\ noticed'[p] = disk[p]
      /\ timer'[p] = (IF disk[p] = None THEN "delete" ELSE "capture")
      /\ left'[p] = Delay(timer'[p])
      /\ \A q \in Paths \ {p} :
            /\ noticed'[q] = noticed[q] /\ timer'[q] = timer[q] /\ held'[q] = held[q]
            /\ left'[q] = left[q]
      /\ disk[p] = None /\ tracked[p] # None => held'[p] # None
  BY NoticeIs DEF RenamesInv, EventsInv, diskVars, rowVars, Used, Open
<1>2. SUFFICES ASSUME NEW q \in Paths, NEW f \in Open, disk[q] # None, NEW r \in Paths,
                      tracked[r] = f, Moving(r, q)
               PROVE  Moving(r, q)'
  BY <1>1 DEF RenamesInv, Located
<1>3. r # q /\ disk[r] = None /\ f # None
  BY <1>2, NoneIsApart DEF Moving, Used, Open
<1>4. task[p] = Idle /\ timer[p] = None /\ timer'[p] # None
  BY <1>1, NoneIsApart DEF RenamesInv, EventsInv, TimedInv, Stages, Kinds
<1>5. CASE p = q
  <2>1. left'[q] = Debounce /\ left'[r] = left[r] /\ noticed'[r] = noticed[r]
    BY <1>1, <1>2, <1>3, <1>5 DEF Delay
  <2>2. QED
    BY <1>1, <1>2, <1>3, <1>4, <1>5, <2>1 DEF Moving, Settles
<1>6. CASE p = r
  <2>1. left'[r] = DeleteGrace /\ held'[r] # None /\ noticed[r] # None /\ noticed'[r] = None
    BY <1>1, <1>2, <1>3, <1>6 DEF Delay
  <2>2. QED
    BY <1>1, <1>2, <1>3, <1>4, <1>6, <2>1 DEF Moving, Settles
<1>7. CASE p # q /\ p # r
  BY <1>1, <1>2, <1>7 DEF Moving, Settles
<1>8. QED
  BY <1>5, <1>6, <1>7

(* It is not read at its new path before its deletion was seen at the old. *)
LEMMA FireLocated ==
    ASSUME RenamesInv, 0 < Debounce, NEW p \in Paths, TimedFire(p)
    PROVE  Located'
<1>1. /\ UNCHANGED <<disk, tracked, last, noticed, held, left>> /\ Open' = Open
      /\ left[p] = 0 /\ timer[p] # None /\ task[p] = Idle /\ timer'[p] = None
      /\ task'[p] # Idle
      /\ \A q \in Paths \ {p} : timer'[q] = timer[q] /\ task'[q] = task[q]
  BY FireIs DEF RenamesInv, EventsInv, diskVars, rowVars, clockVars, Used, Open
<1>2. SUFFICES ASSUME NEW q \in Paths, disk[q] # None, NEW r \in Paths, Moving(r, q)
               PROVE  Moving(r, q)'
  BY <1>1 DEF RenamesInv, Located
<1>3. noticed[p] = disk[p] /\ r # q /\ left[q] \in Nat /\ left[r] \in Nat
  BY <1>1, <1>2 DEF RenamesInv, EventsInv, TimedInv, Stages, ClockTypes, Moving
<1>4. CASE p = q
  BY <1>1, <1>2, <1>3, <1>4 DEF Moving, Settles
<1>5. CASE p # q
  BY <1>1, <1>2, <1>5 DEF Moving, Settles
<1>6. QED
  BY <1>4, <1>5

(* Time passes only when the deletion has been seen at the old path.       *)
LEMMA TickLocated ==
    ASSUME RenamesInv, Tick
    PROVE  Located'
<1>1. /\ UNCHANGED <<disk, tracked, last, noticed, timer, task, held>> /\ Open' = Open
      /\ \A p \in Paths : noticed[p] = disk[p]
  BY TickIs DEF RenamesInv, EventsInv, vars, diskVars, rowVars, queueVars, Used, Open
<1>2. SUFFICES ASSUME NEW q \in Paths, NEW r \in Paths, Moving(r, q) PROVE Moving(r, q)'
  BY <1>1 DEF RenamesInv, Located
<1>3. QED
  BY <1>1, <1>2 DEF Moving, Settles

(* When the document is recorded where it is now, its row is found: it is  *)
(* the one at the path, or it is held with the inode.                      *)
LEMMA RowIsFound ==
    ASSUME RenamesInv, NEW p \in Paths, disk[p] # None, task[p] # Idle,
           NEW g \in Open, last[g].ino = disk[p].ino, tracked[p] # g
    PROVE  /\ tracked[p] = None
           /\ \E r \in SameInode(disk[p]) : tracked[r] = g
<1>1. PICK r \in Paths : tracked[p] = None /\ tracked[r] = g /\ Moving(r, p)
  BY DEF RenamesInv, Located
<1>2. held[r] # None
  BY <1>1 DEF Moving
<1>3. held[r].doc = last[g]
  BY <1>1, <1>2 DEF RenamesInv, EventsInv, TimedInv, HeldInTime
<1>4. QED
  BY <1>1, <1>2, <1>3 DEF SameInode

(* What a step of the task at p leaves of a move from r to q.              *)
LEMMA ContinueMoves ==
    ASSUME RenamesInv, NEW p \in Paths, TimedContinue(p), NEW q \in Paths, NEW r \in Paths,
           Moving(r, q), held'[r] = held[r], p # q \/ task'[p] # Idle
    PROVE  Moving(r, q)'
<1>1. /\ task[p] # Idle /\ UNCHANGED <<disk, noticed, timer, left>>
      /\ \A s \in Paths \ {p} : task'[s] = task[s]
  BY ContinueIs DEF RenamesInv, EventsInv, clockVars
<1>2. noticed[p] = disk[p] /\ timer[p] = None
  BY <1>1 DEF RenamesInv, EventsInv, TimedInv, Stages
<1>3. QED
  BY <1>1, <1>2 DEF Moving, Settles

(* A capture that claims nothing: no row had the inode, or the row at the  *)
(* path has it.                                                            *)
LEMMA CapturedIsOne ==
    ASSUME RenamesInv, NEW p \in Paths, TimedContinue(p), task[p] # Idle, UNCHANGED <<disk, edits>>,
           Captured(p)
    PROVE  Inodes' /\ OneOpen' /\ Located'
<1>1. VaultInv /\ disk[p] # None /\ disk[p] \in Docs
  BY DEF Captured, RenamesInv, EventsInv, TimedInv, TrackingInv, VaultInv, VaultTypes
<1>2. PICK f \in Files :
            /\ tracked'[p] = f /\ \A q \in Paths \ {p} : tracked'[q] = tracked[q] /\ tracked[q] # f
            /\ \A g \in Files \ {f} : last'[g] = last[g]
            /\ last'[f] = disk[p] \/ (tracked[p] = f /\ last'[f] = last[f])
            /\ tracked[p] # None => tracked[p] = f
            /\ Used' = Used \cup {f} /\ entombed' = entombed \ {f}
  BY <1>1, RecordIs DEF Captured
<1>3. held' = held /\ (tracked[p] # None \/ Claimable(disk[p]) = {})
  BY DEF Captured
<1>4. f \in Open \/ last'[f] = disk[p]
  BY <1>1, <1>2, NoneIsApart DEF VaultInv, RowsOnce, Open
<1>5. Inodes'
  BY <1>1, <1>2, <1>4 DEF RenamesInv, Inodes, Used, Open
<1>6. ASSUME NEW g \in Open, last[g].ino = disk[p].ino PROVE g = f
  <2>1. tracked[p] # g => tracked[p] = None /\ SameInode(disk[p]) # {}
    BY <1>1, <1>6, RowIsFound
  <2>2. QED
    BY <1>2, <1>3, <2>1, NoneIsApart DEF Claimable, Used, Open
<1>7. OneOpen'
  <2>1. ASSUME NEW g \in Open', NEW h \in Open', last'[g].ino = last'[h].ino, g # h, g # f, h # f
        PROVE  FALSE
    BY <1>2, <2>1 DEF Used, Open, RenamesInv, OneOpen
  <2>2. ASSUME NEW g \in Open', g # f, last'[g].ino = last'[f].ino
        PROVE  FALSE
    <3>1. g \in Open /\ last'[g] = last[g]
      BY <1>2, <2>2 DEF Used, Open
    <3>2. CASE last'[f] = disk[p]
      BY <1>6, <2>2, <3>1, <3>2
    <3>3. CASE tracked[p] = f /\ last'[f] = last[f]
      BY <1>1, <1>6, <2>2, <3>1, <3>3, NoneIsApart DEF RenamesInv, OneOpen, VaultInv, RowsOnce, Open
    <3>4. QED
      BY <1>2, <3>2, <3>3
  <2>3. QED
    BY <2>1, <2>2 DEF OneOpen
<1>8. Located'
  <2>1. SUFFICES ASSUME NEW q \in Paths, NEW g \in Open', disk[q] # None, last'[g].ino = disk[q].ino
                 PROVE  \/ tracked'[q] = g
                        \/ /\ tracked'[q] = None
                           /\ \E r \in Paths : tracked'[r] = g /\ Moving(r, q)'
    BY DEF Located
  <2>2. CASE q = p
    BY <1>2, <1>6, <2>1, <2>2 DEF Used, Open
  <2>3. CASE q # p /\ g # f
    <3>1. g \in Open /\ last[g].ino = disk[q].ino /\ g # None
      BY <1>2, <2>1, <2>3, NoneIsApart DEF Used, Open
    <3>2. CASE tracked[q] = g
      BY <1>2, <2>3, <3>2
    <3>3. CASE tracked[q] = None /\ \E r \in Paths : tracked[r] = g /\ Moving(r, q)
      <4>1. PICK r \in Paths : tracked[r] = g /\ Moving(r, q)
        BY <3>3
      <4>2. Moving(r, q)' /\ r # p
        BY <1>1, <1>3, <2>3, <4>1, ContinueMoves DEF Moving
      <4>3. QED
        BY <1>2, <2>3, <3>3, <4>1, <4>2
    <3>4. QED
      BY <2>1, <3>1, <3>2, <3>3 DEF RenamesInv, Located
  <2>4. CASE q # p /\ g = f
    <3>1. last'[f] # disk[p]
      BY <1>1, <2>1, <2>4 DEF RenamesInv, Inodes
    <3>2. tracked[p] = f /\ f \in Open /\ last[f].ino = disk[q].ino
      BY <1>2, <1>4, <2>1, <2>4, <3>1
    <3>3. tracked[q] # f
      BY <1>2, <2>4
    <3>4. PICK r \in Paths : tracked[r] = f /\ disk[r] = None
      BY <2>1, <3>2, <3>3 DEF RenamesInv, Located, Moving
    <3>5. r = p
      BY <1>2, <3>4
    <3>6. QED
      BY <1>1, <3>4, <3>5
  <2>5. QED
    BY <2>2, <2>3, <2>4
<1>9. QED
  BY <1>5, <1>7, <1>8

(* A capture that claims a held deletion: its row follows the document.    *)
LEMMA ClaimedIsOne ==
    ASSUME RenamesInv, NEW p \in Paths, TimedContinue(p), task[p] # Idle, UNCHANGED <<disk, edits>>,
           Claimed(p)
    PROVE  Inodes' /\ OneOpen' /\ Located'
<1>1. VaultInv /\ held \in [Paths -> Entries \cup {None}]
  BY DEF RenamesInv, EventsInv, TimedInv, TrackingInv, QueueTypes
<1>2. PICK s \in Claimable(disk[p]) : /\ disk[p] # None /\ held' = [held EXCEPT ![s] = None]
                                      /\ RecordClaimed(held[s].file, p, disk[p])
  BY DEF Claimed
<1>3. s \in Paths /\ held[s] # None /\ disk[p] \in Docs
  BY <1>1, <1>2 DEF Claimable, SameInode, SameText, VaultInv, VaultTypes
<1>4. /\ held[s].file = tracked[s] /\ tracked[s] # None /\ tracked[s] \in Used
      /\ held[s].doc = last[tracked[s]]
  <2>1. held[s] \in Entries /\ held[s].file = tracked[s] /\ held[s].doc = last[tracked[s]]
    BY <1>1, <1>3 DEF RenamesInv, EventsInv, TimedInv, HeldInTime
  <2>2. tracked[s] # None
    BY <2>1, NoneIsApart DEF Entries
  <2>3. QED
    BY <1>1, <1>3, <2>1, <2>2 DEF VaultInv, RowsOnce
<1> DEFINE f == tracked[s]
<1>5. /\ f \in Files /\ tracked[p] = None /\ tracked'[p] = f
      /\ \A r \in Paths \ {p, s} : tracked'[r] = tracked[r] /\ tracked[r] # f
      /\ \A g \in Files \ {f} : last'[g] = last[g]
      /\ last'[f] = disk[p] /\ Used' = Used /\ entombed' = entombed /\ f \in Open
  BY <1>1, <1>2, <1>3, <1>4, RecordClaimedIs
<1>6. tracked[s] = f /\ f \in Open /\ f # None
  BY <1>4, <1>5
<1>7. s \in SameInode(disk[p]) => last[f].ino = disk[p].ino
  BY <1>4 DEF SameInode
<1> HIDE DEF f
<1>8. Inodes'
  BY <1>2, <1>5 DEF RenamesInv, Inodes, Used
<1>9. ASSUME NEW g \in Open, last[g].ino = disk[p].ino PROVE g = f
  <2>1. SameInode(disk[p]) # {}
    BY <1>2, <1>5, <1>9, NoneIsApart, RowIsFound DEF Used, Open
  <2>2. s \in SameInode(disk[p])
    BY <1>2, <2>1 DEF Claimable
  <2>3. QED
    BY <1>6, <1>7, <1>9, <2>2 DEF RenamesInv, OneOpen
<1>10. OneOpen'
  <2>1. ASSUME NEW g \in Open', NEW h \in Open', last'[g].ino = last'[h].ino, g # h, g # f, h # f
        PROVE  FALSE
    BY <1>5, <2>1 DEF Used, Open, RenamesInv, OneOpen
  <2>2. ASSUME NEW g \in Open', g # f, last'[g].ino = last'[f].ino
        PROVE  FALSE
    BY <1>5, <1>9, <2>2 DEF Used, Open
  <2>3. QED
    BY <2>1, <2>2 DEF OneOpen
<1>11. Located'
  <2>1. SUFFICES ASSUME NEW q \in Paths, NEW g \in Open', disk[q] # None, last'[g].ino = disk[q].ino
                 PROVE  \/ tracked'[q] = g
                        \/ /\ tracked'[q] = None
                           /\ \E r \in Paths : tracked'[r] = g /\ Moving(r, q)'
    BY DEF Located
  <2>2. CASE q = p
    BY <1>5, <1>9, <2>1, <2>2 DEF Used, Open
  <2>3. CASE q # p /\ g # f
    <3>1. g \in Open /\ last[g].ino = disk[q].ino /\ g # None
      BY <1>5, <2>1, <2>3, NoneIsApart DEF Used, Open
    <3>2. CASE tracked[q] = g
      BY <1>5, <1>6, <2>3, <3>2
    <3>3. CASE tracked[q] = None /\ \E r \in Paths : tracked[r] = g /\ Moving(r, q)
      <4>1. PICK r \in Paths : tracked[r] = g /\ Moving(r, q)
        BY <3>3
      <4>2. r # s /\ q # s
        BY <1>6, <2>3, <3>3, <4>1
      <4>3. held'[r] = held[r]
        BY <1>1, <1>2, <4>2
      <4>4. Moving(r, q)' /\ r # p
        BY <1>2, <2>3, <4>1, <4>3, ContinueMoves DEF Moving
      <4>5. QED
        BY <1>5, <2>3, <3>3, <4>1, <4>2, <4>4
    <3>4. QED
      BY <2>1, <3>1, <3>2, <3>3 DEF RenamesInv, Located
  <2>4. CASE q # p /\ g = f
    BY <1>2, <1>5, <2>1, <2>4 DEF RenamesInv, Inodes
  <2>5. QED
    BY <2>2, <2>3, <2>4
<1>12. QED
  BY <1>8, <1>10, <1>11

(* A deletion that is decided ends the timeline, also of a document that   *)
(* is on its way.                                                          *)
LEMMA DecidedIsOne ==
    ASSUME RenamesInv, NEW p \in Paths, TimedContinue(p), task[p] # Idle, UNCHANGED <<disk, edits>>,
           Decided(p)
    PROVE  Inodes' /\ OneOpen' /\ Located'
<1>1. VaultInv /\ held \in [Paths -> Entries \cup {None}]
  BY DEF RenamesInv, EventsInv, TimedInv, TrackingInv, QueueTypes
<1>2. /\ last' = last /\ Used' = Used
      /\ \A q \in Paths \ {p} : tracked'[q] = tracked[q] /\ held'[q] = held[q]
      /\ Open' \subseteq Open /\ tracked[p] \notin Open'
  BY <1>1, BuryIs, NoneIsApart DEF Decided, rowVars, Used, Open
<1>3. Inodes' /\ OneOpen'
  BY <1>2 DEF RenamesInv, Inodes, OneOpen
<1>4. disk[p] = None
  BY DEF Decided
<1>5. ASSUME NEW q \in Paths, NEW r \in Paths, disk[q] # None, r # p, Moving(r, q)
      PROVE  q # p /\ Moving(r, q)'
  <2>1. q # p
    BY <1>4, <1>5
  <2>2. QED
    BY <1>2, <1>5, <2>1, ContinueMoves
<1>6. Located'
  <2>1. SUFFICES ASSUME NEW q \in Paths, NEW g \in Open', disk[q] # None, last[g].ino = disk[q].ino
                 PROVE  \/ tracked'[q] = g
                        \/ /\ tracked'[q] = None
                           /\ \E r \in Paths : tracked'[r] = g /\ Moving(r, q)'
    BY <1>2 DEF Located
  <2>2. q # p
    BY <1>4, <2>1
  <2>3. CASE tracked[q] = g
    BY <1>2, <2>2, <2>3
  <2>4. CASE tracked[q] = None /\ \E r \in Paths : tracked[r] = g /\ Moving(r, q)
    <3>1. PICK r \in Paths : tracked[r] = g /\ Moving(r, q)
      BY <2>4
    <3>2. r # p
      BY <1>2, <2>1, <3>1
    <3>3. QED
      BY <1>2, <1>5, <2>1, <2>2, <2>4, <3>1, <3>2
  <2>5. QED
    BY <1>2, <2>1, <2>3, <2>4 DEF RenamesInv, Located
<1>7. QED
  BY <1>3, <1>6

(* A task that goes on to its next await moves no row.                     *)
LEMMA GoneOnIsOne ==
    ASSUME RenamesInv, NEW p \in Paths, TimedContinue(p), UNCHANGED <<disk, edits>>, GoneOn(p)
    PROVE  Inodes' /\ OneOpen' /\ Located'
<1>1. UNCHANGED <<tracked, last, held>> /\ Used' = Used /\ Open' = Open /\ task'[p] # Idle
  BY DEF GoneOn, rowVars, Used, Open
<1>2. Inodes' /\ OneOpen'
  BY <1>1 DEF RenamesInv, Inodes, OneOpen
<1>3. \A q, r \in Paths : Moving(r, q) => Moving(r, q)'
  BY <1>1, ContinueMoves
<1>4. Located'
  BY <1>1, <1>3 DEF RenamesInv, Located
<1>5. QED
  BY <1>2, <1>4

(* The invariant of the renames is inductive.                              *)
LEMMA RenamesNextKeeps ==
    ASSUME SlowUser, 0 < Debounce
    PROVE  RenamesInv /\ [TimedNext]_<<vars, clockVars>> => RenamesInv'
<1> SUFFICES ASSUME RenamesInv, TimedNext \/ UNCHANGED <<vars, clockVars>> PROVE RenamesInv'
  OBVIOUS
<1>1. EventsInv'
  BY EventsNextKeeps DEF RenamesInv
<1>2. ASSUME UNCHANGED <<diskVars, rowVars>> PROVE Inodes' /\ OneOpen'
  <2>1. UNCHANGED <<disk, edits, last>> /\ Used' = Used /\ Open' = Open
    BY <1>2 DEF diskVars, rowVars, Used, Open
  <2>2. QED
    BY <2>1 DEF RenamesInv, Inodes, OneOpen
<1>3. CASE TimedUser
  BY <1>1, <1>3, UserInodes, UserLocated DEF RenamesInv
<1>4. ASSUME NEW p \in Paths, TimedNotice(p) PROVE RenamesInv'
  BY <1>1, <1>2, <1>4, NoticeIs, NoticeLocated DEF RenamesInv, EventsInv
<1>5. ASSUME NEW p \in Paths, TimedFire(p) PROVE RenamesInv'
  BY <1>1, <1>2, <1>5, FireIs, FireLocated DEF RenamesInv, EventsInv
<1>6. ASSUME NEW p \in Paths, TimedContinue(p) PROVE RenamesInv'
  <2>1. /\ task[p] # Idle /\ UNCHANGED <<disk, edits>>
        /\ GoneOn(p) \/ Decided(p) \/ Captured(p) \/ Claimed(p)
    BY <1>6, ContinueIs DEF RenamesInv, EventsInv
  <2>2. QED
    BY <1>1, <1>6, <2>1, GoneOnIsOne, DecidedIsOne, CapturedIsOne, ClaimedIsOne DEF RenamesInv
<1>7. CASE Tick
  BY <1>1, <1>2, <1>7, TickLocated DEF Tick, vars, RenamesInv
<1>8. CASE UNCHANGED <<vars, clockVars>>
  <2>1. /\ UNCHANGED <<diskVars, rowVars, disk, tracked, last, noticed, timer, task, held, left>>
        /\ Open' = Open
    BY <1>8 DEF vars, diskVars, rowVars, queueVars, clockVars, Used, Open
  <2>2. Located'
    BY <2>1 DEF RenamesInv, Located, Moving, Settles
  <2>3. QED
    BY <1>1, <1>2, <2>1, <2>2 DEF RenamesInv
<1>9. QED
  BY <1>3, <1>4, <1>5, <1>6, <1>7, <1>8 DEF TimedNext

(* OneOpenTimeline: whether the debounce or the grace is over first, a     *)
(* file that is moved never continues in two open timelines.               *)
THEOREM OpenTimelinesAreOne ==
    ASSUME SlowUser, 0 < Debounce
    PROVE  TimedSpec => []OneOpenTimeline
<1>1. TimedInit => RenamesInv
  <2> SUFFICES ASSUME TimedInit PROVE RenamesInv
    OBVIOUS
  <2>1. Inodes /\ OneOpen /\ Located
    BY FirstNote, NoneIsApart DEF Inodes, OneOpen, Located, Open
  <2>2. QED
    BY <2>1, EventsInitHolds DEF RenamesInv
<1>2. RenamesInv /\ [TimedNext]_<<vars, clockVars>> => RenamesInv'
  BY RenamesNextKeeps
<1>3. RenamesInv => OneOpenTimeline
  BY DEF RenamesInv, OneOpen, Open, OneOpenTimeline
<1>4. QED
  BY <1>1, <1>2, <1>3, PTL DEF TimedSpec, followVars

=============================================================================
