------------------------- MODULE ApplicationProofs -------------------------
(***************************************************************************)
(* The log and the diff worker client, for any number of files, lines,     *)
(* requests, threads and faults; and the main process as a whole: it       *)
(* implements each of its parts, so that what StorageProofs,               *)
(* LifecycleProofs and the first parts of this module prove of one part    *)
(* holds beside the others.                                                *)
(*                                                                         *)
(* LogContents of the log is a concatenation that FlattenSeq computes by   *)
(* recursion. The first part shows what it is, by taking the least index   *)
(* at which that fails; the invariant itself speaks of the files one by    *)
(* one: where each of them ends in what landed, and which are full.        *)
(***************************************************************************)
EXTENDS Application, CaptureQueueProofs, HistoryProofs, LifecycleProofs, StorageProofs,
        SequenceTheorems

-----------------------------------------------------------------------------
(* The inductive invariant of the log.                                     *)
Slots == 0..(MaxFiles - 1)

LogShapes ==
    /\ logged \in Nat /\ written \in Nat /\ turn \in Nat
    /\ chain \in Seq(Nat) /\ landed \in Seq(Nat)
    /\ logFiles \in [Slots -> Seq(Nat)]
    /\ lapsed \in BOOLEAN /\ torn \in BOOLEAN
    /\ link \in {"idle", "renaming", "rotated", "writing"}
    /\ (link = "renaming") <=> turn \in 1..(MaxFiles - 1)
    /\ (link # "renaming") <=> turn = 0
    /\ link # "idle" => chain # <<>>
    /\ link = "writing" => stream # "none"
    /\ stream \in {"none", "open", "destroyed"}
    /\ awaited \in 0..logged

(* What is still to be written follows everything that is in the files.    *)
Waiting ==
    /\ InOrder(chain)
    /\ \A i \in DOMAIN chain : chain[i] <= logged
    /\ \A f \in Slots : \A a \in DOMAIN logFiles[f] :
          /\ logFiles[f][a] <= logged
          /\ \A i \in DOMAIN chain : logFiles[f][a] < chain[i]

(* An older file has older lines.                                          *)
FilesInOrder ==
    \A f, g \in Slots : \A a \in DOMAIN logFiles[f], b \in DOMAIN logFiles[g] :
        f > g \/ (f = g /\ a < b) => logFiles[f][a] < logFiles[g][b]

(* A file that was rotated is full, and the current one is while it is.    *)
Filled ==
    /\ \A f \in Slots \ {0} : logFiles[f] # <<>> => Full(f)
    /\ link = "renaming" => Full(0)
    /\ written <= Len(logFiles[0])

(* The files cut what landed into pieces, file f ending where c says.      *)
Pieces(c) ==
    /\ c \in [0..MaxFiles -> 0..Len(landed)]
    /\ c[0] = Len(landed)
    /\ \A f \in Slots : /\ c[f + 1] <= c[f]
                        /\ logFiles[f] = SubSeq(landed, c[f + 1] + 1, c[f])

(* Something is dropped for a full file only.                              *)
Ends == \E c : Pieces(c) /\ (c[MaxFiles] > 0 => logFiles[MaxFiles - 1] # <<>>)

(* The file that a rotation under way has moved last is free; below a file *)
(* there is otherwise no other gap.                                        *)
Hole == IF turn > 1 THEN MaxFiles - turn ELSE 0

Solid ==
    /\ turn > 1 => logFiles[Hole] = <<>>
    /\ ~torn => \A f, g \in Slots : g < f /\ g # Hole /\ logFiles[f] # <<>> => Full(g)

LogInv ==
    /\ LogShapes /\ Waiting /\ FilesInOrder /\ Filled
    /\ ~lapsed => Ends /\ Solid

-----------------------------------------------------------------------------
(* What FlattenSeq computes.                                               *)

(* A set of numbers that is not empty has a least one.                     *)
LEMMA LeastOf ==
    ASSUME NEW S \in SUBSET Nat, S # {}
    PROVE  \E x \in S : \A i \in S : x <= i
<1> DEFINE less == {p \in Nat \X Nat : p[1] < p[2]}
<1>1. IsWellFoundedOn(less, Nat)
  BY NatLessThanWellFounded DEF OpToRel
<1>2. PICK x \in S : \A y \in S : <<y, x>> \notin less
  <2> HIDE DEF less
  <2> QED
    BY <1>1, WFMin
<1>3. \A y \in S : x <= y
  <2> SUFFICES ASSUME NEW y \in S PROVE x <= y
    OBVIOUS
  <2>1. x \in Nat /\ y \in Nat
    OBVIOUS
  <2>2. ~(y < x)
    BY <1>2, <2>1
  <2>3. QED
    BY <2>1, <2>2
<1>4. QED
  BY <1>2, <1>3

Flattens(g, s, n) ==
    g = [i \in 1..n |-> IF i = 1 THEN s[i] ELSE g[i - 1] \o s[i]]

(* The recursion of FlattenSeq has a solution.                             *)
LEMMA FlattenExists ==
    ASSUME NEW s, NEW n \in Nat
    PROVE  \E g : Flattens(g, s, n)
<1> DEFINE S == {m \in Nat : ~ \E g : Flattens(g, s, m)}
<1>1. SUFFICES ASSUME S # {} PROVE FALSE
  OBVIOUS
<1>2. PICK m \in S : \A i \in S : m <= i
  <2>1. S \in SUBSET Nat
    OBVIOUS
  <2> HIDE DEF S
  <2>2. QED
    BY <1>1, <2>1, LeastOf
<1>3. m \in Nat /\ ~ \E g : Flattens(g, s, m)
  BY <1>2
<1>4. CASE m = 0
  <2>1. Flattens(<<>>, s, 0)
    BY DEF Flattens
  <2>2. QED
    BY <1>3, <1>4, <2>1
<1>5. CASE m # 0
  <2>1. m - 1 \in Nat /\ ~(m <= m - 1)
    BY <1>3, <1>5
  <2>2. PICK f : Flattens(f, s, m - 1)
    BY <1>2, <2>1
  <2> DEFINE g == [i \in 1..m |-> IF i < m THEN f[i]
                                 ELSE IF i = 1 THEN s[i] ELSE f[i - 1] \o s[i]]
  <2>3. \A i \in 1..m : g[i] = IF i = 1 THEN s[i] ELSE g[i - 1] \o s[i]
    <3>1. \A i \in 1..(m - 1) : f[i] = IF i = 1 THEN s[i] ELSE f[i - 1] \o s[i]
      BY <2>2 DEF Flattens
    <3>2. \A i \in 1..m : g[i] = IF i < m THEN f[i] ELSE IF i = 1 THEN s[i] ELSE f[i - 1] \o s[i]
      OBVIOUS
    <3> HIDE DEF g
    <3>3. ASSUME NEW i \in 1..m PROVE g[i] = IF i = 1 THEN s[i] ELSE f[i - 1] \o s[i]
      BY <1>3, <3>1, <3>2
    <3>4. \A i \in 2..m : g[i - 1] = f[i - 1]
      BY <1>3, <3>2
    <3>5. QED
      BY <1>3, <3>3, <3>4
  <2>4. Flattens(g, s, m)
    <3>1. g = [i \in 1..m |-> g[i]]
      OBVIOUS
    <3> HIDE DEF g
    <3>2. QED
      BY <2>3, <3>1 DEF Flattens
  <2>5. QED
    BY <1>3, <2>4
<1>6. QED
  BY <1>4, <1>5

(* FlattenSeq takes that solution.                                         *)
LEMMA FlattenIs ==
    ASSUME NEW seqs, Len(seqs) \in Nat \ {0}
    PROVE  \E g : Flattens(g, seqs, Len(seqs)) /\ FlattenSeq(seqs) = g[Len(seqs)]
<1> DEFINE G == CHOOSE g : g = [i \in 1..Len(seqs) |->
                                  IF i = 1 THEN seqs[i] ELSE g[i - 1] \o seqs[i]]
<1>1. \E g : g = [i \in 1..Len(seqs) |-> IF i = 1 THEN seqs[i] ELSE g[i - 1] \o seqs[i]]
  BY FlattenExists DEF Flattens
<1>2. G = [i \in 1..Len(seqs) |-> IF i = 1 THEN seqs[i] ELSE G[i - 1] \o seqs[i]]
  BY <1>1
<1>3. FlattenSeq(seqs) = G[Len(seqs)]
  <2>1. Len(seqs) # 0
    OBVIOUS
  <2>2. QED
    BY <2>1, Zenon DEF FlattenSeq
<1>4. QED
  BY <1>2, <1>3 DEF Flattens

(* LogContents, file by file from the oldest.                              *)
LEMMA ContentsBuilt ==
    \E g : /\ g[1] = logFiles[MaxFiles - 1]
           /\ \A i \in 2..MaxFiles : g[i] = g[i - 1] \o logFiles[MaxFiles - i]
           /\ LogContents = g[MaxFiles]
<1> DEFINE s == [i \in 1..MaxFiles |-> logFiles[MaxFiles - i]]
<1>1. MaxFiles \in Nat /\ MaxFiles > 1
  BY LogAssumption
<1>2. Len(s) = MaxFiles
  BY <1>1
<1>3. LogContents = FlattenSeq(s)
  BY DEF LogContents
<1>4. \A i \in 1..MaxFiles : s[i] = logFiles[MaxFiles - i]
  OBVIOUS
<1> HIDE DEF s
<1>5. PICK g : Flattens(g, s, MaxFiles) /\ FlattenSeq(s) = g[MaxFiles]
  BY <1>1, <1>2, FlattenIs
<1>6. \A i \in 1..MaxFiles : g[i] = IF i = 1 THEN s[i] ELSE g[i - 1] \o s[i]
  BY <1>5 DEF Flattens
<1>7. 1 \in 1..MaxFiles /\ \A i \in 2..MaxFiles : i \in 1..MaxFiles /\ i # 1
  BY <1>1
<1>8. g[1] = logFiles[MaxFiles - 1]
  BY <1>4, <1>6, <1>7
<1>9. \A i \in 2..MaxFiles : g[i] = g[i - 1] \o logFiles[MaxFiles - i]
  BY <1>4, <1>6, <1>7
<1>10. QED
  BY <1>3, <1>5, <1>8, <1>9

(* The files in order make LogContents in order.                           *)
LEMMA ContentsInOrder ==
    ASSUME LogShapes, FilesInOrder
    PROVE  InOrder(LogContents)
<1>1. MaxFiles \in Nat /\ MaxFiles > 1
  BY LogAssumption
<1>2. PICK g : /\ g[1] = logFiles[MaxFiles - 1]
               /\ \A i \in 2..MaxFiles : g[i] = g[i - 1] \o logFiles[MaxFiles - i]
               /\ LogContents = g[MaxFiles]
  BY ContentsBuilt
<1> DEFINE From(i) == \A p \in DOMAIN g[i] : \E f \in (MaxFiles - i)..(MaxFiles - 1) :
                         \E a \in DOMAIN logFiles[f] : g[i][p] = logFiles[f][a]
           P(i) == g[i] \in Seq(Nat) /\ InOrder(g[i]) /\ From(i)
           S == {i \in 1..MaxFiles : ~P(i)}
<1>3. \A f \in Slots : logFiles[f] \in Seq(Nat)
  BY DEF LogShapes
<1>4. P(1)
  <2>1. MaxFiles - 1 \in Slots
    BY <1>1 DEF Slots
  <2>2. InOrder(g[1])
    BY <1>2, <2>1 DEF InOrder, FilesInOrder
  <2>3. From(1)
    BY <1>1, <1>2, <2>1 DEF Slots
  <2>4. QED
    BY <1>2, <1>3, <2>1, <2>2, <2>3
<1>5. ASSUME NEW i \in 2..MaxFiles, P(i - 1)
      PROVE  P(i)
  <2> DEFINE s == g[i - 1]
             t == logFiles[MaxFiles - i]
             n == Len(s)
  <2>1. MaxFiles - i \in Slots /\ i \in Nat
    BY <1>1 DEF Slots
  <2>2. s \in Seq(Nat) /\ t \in Seq(Nat) /\ g[i] = s \o t
    BY <1>2, <1>3, <1>5, <2>1
  <2>3. /\ g[i] \in Seq(Nat) /\ n \in Nat /\ Len(t) \in Nat
        /\ DOMAIN g[i] = 1..(n + Len(t)) /\ DOMAIN s = 1..n /\ DOMAIN t = 1..Len(t)
        /\ \A p \in 1..n : g[i][p] = s[p]
        /\ \A p \in (n + 1)..(n + Len(t)) : g[i][p] = t[p - n] /\ p - n \in DOMAIN t
    <3> HIDE DEF s, t
    <3>1. /\ s \o t \in Seq(Nat) /\ Len(s \o t) = Len(s) + Len(t)
          /\ \A p \in 1..Len(s) + Len(t) :
                (s \o t)[p] = IF p <= Len(s) THEN s[p] ELSE t[p - Len(s)]
      BY <2>2, ConcatProperties
    <3>2. /\ Len(s) \in Nat /\ Len(t) \in Nat /\ DOMAIN s = 1..Len(s) /\ DOMAIN t = 1..Len(t)
          /\ DOMAIN (s \o t) = 1..Len(s \o t)
      BY <2>2, <3>1, LenProperties
    <3> HIDE DEF n
    <3>3. Len(s) = n
      BY DEF n
    <3>4. \A p \in 1..n : g[i][p] = s[p]
      BY <2>2, <3>1, <3>2, <3>3
    <3>5. \A p \in (n + 1)..(n + Len(t)) : g[i][p] = t[p - n] /\ p - n \in DOMAIN t
      BY <2>2, <3>1, <3>2, <3>3
    <3>6. QED
      BY <2>2, <3>1, <3>2, <3>3, <3>4, <3>5
  <2>4. From(i - 1) /\ InOrder(s)
    BY <1>5
  <2> HIDE DEF n, t
  <2>5. From(i)
    <3> SUFFICES ASSUME NEW p \in DOMAIN g[i]
                 PROVE  \E f \in (MaxFiles - i)..(MaxFiles - 1) :
                          \E a \in DOMAIN logFiles[f] : g[i][p] = logFiles[f][a]
      OBVIOUS
    <3>1. CASE p \in 1..n
      <4>1. PICK f \in (MaxFiles - (i - 1))..(MaxFiles - 1) :
                   \E a \in DOMAIN logFiles[f] : s[p] = logFiles[f][a]
        BY <2>3, <2>4, <3>1
      <4>2. f \in (MaxFiles - i)..(MaxFiles - 1)
        BY <1>1, <2>1
      <4>3. QED
        BY <2>3, <3>1, <4>1, <4>2
    <3>2. CASE p \in (n + 1)..(n + Len(t))
      <4>1. MaxFiles - i \in (MaxFiles - i)..(MaxFiles - 1)
        BY <1>1, <2>1
      <4>2. g[i][p] = t[p - n] /\ p - n \in DOMAIN t
        BY <2>3, <3>2
      <4>3. QED
        BY <4>1, <4>2 DEF t
    <3>3. QED
      BY <2>3, <3>1, <3>2
  <2>6. \A p \in DOMAIN s, b \in DOMAIN t : s[p] < t[b]
    <3> SUFFICES ASSUME NEW p \in DOMAIN s, NEW b \in DOMAIN t PROVE s[p] < t[b]
      OBVIOUS
    <3>1. PICK f \in (MaxFiles - (i - 1))..(MaxFiles - 1) :
                 \E a \in DOMAIN logFiles[f] : s[p] = logFiles[f][a]
      BY <2>4
    <3>2. f \in Slots /\ f > MaxFiles - i
      BY <1>1, <2>1 DEF Slots
    <3>3. QED
      BY <2>1, <3>1, <3>2 DEF FilesInOrder, t
  <2>7. InOrder(t)
    BY <2>1 DEF InOrder, FilesInOrder, t
  <2>8. InOrder(g[i])
    <3> SUFFICES ASSUME NEW p \in DOMAIN g[i], NEW q \in DOMAIN g[i], p < q
                 PROVE  g[i][p] < g[i][q]
      BY DEF InOrder
    <3> HIDE DEF s
    <3>1. CASE q <= n
      <4>1. p \in DOMAIN s /\ q \in DOMAIN s /\ g[i][p] = s[p] /\ g[i][q] = s[q]
        BY <2>3, <3>1
      <4>2. QED
        BY <2>4, <4>1 DEF InOrder
    <3>2. CASE p > n
      <4>1. /\ p \in (n + 1)..(n + Len(t)) /\ q \in (n + 1)..(n + Len(t))
            /\ p - n < q - n
        BY <2>3, <3>2
      <4>2. QED
        BY <2>3, <2>7, <4>1 DEF InOrder
    <3>3. CASE p <= n /\ q > n
      <4>1. p \in 1..n /\ q \in (n + 1)..(n + Len(t))
        BY <2>3, <3>3
      <4>2. QED
        BY <2>3, <2>6, <4>1
    <3>4. QED
      BY <2>3, <3>1, <3>2, <3>3
  <2>9. QED
    BY <2>3, <2>5, <2>8
<1> HIDE DEF P
<1>6. S = {}
  <2> SUFFICES ASSUME S # {} PROVE FALSE
    OBVIOUS
  <2>1. S \in SUBSET Nat
    OBVIOUS
  <2>2. PICK x \in S : \A i \in S : x <= i
    <3> HIDE DEF S
    <3>1. QED
      BY <2>1, LeastOf
  <2>3. x \in 1..MaxFiles /\ ~P(x)
    BY <2>2
  <2>4. x # 1
    BY <1>4, <2>3
  <2>5. x \in 2..MaxFiles /\ x - 1 \in 1..MaxFiles /\ ~(x <= x - 1)
    BY <1>1, <2>3, <2>4
  <2>6. P(x - 1)
    BY <2>2, <2>5
  <2>7. QED
    BY <1>5, <2>3, <2>5, <2>6
<1>7. P(MaxFiles)
  BY <1>1, <1>6
<1>8. QED
  BY <1>2, <1>7 DEF P

(* Pieces of what landed, put together, are the end of it.                 *)
LEMMA ContentsLanded ==
    ASSUME LogShapes, NEW c, Pieces(c)
    PROVE  LogContents = SubSeq(landed, c[MaxFiles] + 1, Len(landed))
<1>1. MaxFiles \in Nat /\ MaxFiles > 1
  BY LogAssumption
<1>2. PICK g : /\ g[1] = logFiles[MaxFiles - 1]
               /\ \A i \in 2..MaxFiles : g[i] = g[i - 1] \o logFiles[MaxFiles - i]
               /\ LogContents = g[MaxFiles]
  BY ContentsBuilt
<1> DEFINE P(i) == /\ g[i] = SubSeq(landed, c[MaxFiles] + 1, c[MaxFiles - i])
                   /\ c[MaxFiles] <= c[MaxFiles - i]
           S == {i \in 1..MaxFiles : ~P(i)}
<1>3. P(1)
  <2>1. MaxFiles - 1 \in Slots /\ MaxFiles - 1 + 1 = MaxFiles
    BY <1>1 DEF Slots
  <2>2. QED
    BY <1>2, <2>1 DEF Pieces
<1>4. ASSUME NEW i \in 2..MaxFiles, P(i - 1)
      PROVE  P(i)
  <2>1. MaxFiles - i \in Slots /\ MaxFiles - i + 1 = MaxFiles - (i - 1)
    BY <1>1 DEF Slots
  <2> DEFINE a == c[MaxFiles]
             b == c[MaxFiles - (i - 1)]
             d == c[MaxFiles - i]
  <2>2. logFiles[MaxFiles - i] = SubSeq(landed, b + 1, d) /\ b <= d
    BY <2>1 DEF Pieces
  <2>3. g[i] = SubSeq(landed, a + 1, b) \o SubSeq(landed, b + 1, d) /\ a <= b
    BY <1>2, <1>4, <2>2
  <2>4. a \in 0..Len(landed) /\ b \in 0..Len(landed) /\ d \in 0..Len(landed)
    <3>1. /\ MaxFiles \in 0..MaxFiles /\ MaxFiles - i \in 0..MaxFiles
          /\ MaxFiles - (i - 1) \in 0..MaxFiles
      BY <1>1
    <3>2. QED
      BY <3>1 DEF Pieces
  <2>5. landed \in Seq(Nat) /\ Len(landed) \in Nat
    BY DEF LogShapes
  <2> HIDE DEF a, b, d
  <2>6. SubSeq(landed, a + 1, b) \o SubSeq(landed, b + 1, d) = SubSeq(landed, a + 1, d)
    <3>1. a + 1 \in 1..Len(landed) + 1 /\ b \in (a + 1) - 1..Len(landed) /\ d \in b..Len(landed)
      BY <2>2, <2>3, <2>4, <2>5
    <3>2. QED
      BY <2>5, <3>1, ConcatAdjacentSubSeq
  <2>7. a <= d
    BY <2>2, <2>3, <2>4
  <2>8. QED
    BY <2>3, <2>6, <2>7 DEF a, b, d
<1> HIDE DEF P
<1>5. S = {}
  <2> SUFFICES ASSUME S # {} PROVE FALSE
    OBVIOUS
  <2>1. S \in SUBSET Nat
    OBVIOUS
  <2>2. PICK x \in S : \A i \in S : x <= i
    <3> HIDE DEF S
    <3>1. QED
      BY <2>1, LeastOf
  <2>3. x \in 1..MaxFiles /\ ~P(x)
    BY <2>2
  <2>4. x # 1
    BY <1>3, <2>3
  <2>5. x \in 2..MaxFiles /\ x - 1 \in 1..MaxFiles /\ ~(x <= x - 1)
    BY <1>1, <2>3, <2>4
  <2>6. P(x - 1)
    BY <2>2, <2>5
  <2>7. QED
    BY <1>4, <2>3, <2>5, <2>6
<1>6. P(MaxFiles) /\ MaxFiles - MaxFiles = 0
  BY <1>1, <1>5
<1>7. QED
  BY <1>2, <1>6 DEF P, Pieces

(* IsSuffix, which is defined by reversal, of the end of a sequence.       *)
LEMMA EndIsSuffix ==
    ASSUME NEW t \in Seq(Nat), NEW s, NEW m \in 1..(Len(t) + 1), s = SubSeq(t, m, Len(t))
    PROVE  IsSuffix(s, t)
<1>1. /\ Len(t) \in Nat /\ s \in Seq(Nat) /\ Len(s) = Len(t) - m + 1
      /\ \A i \in 1..Len(s) : s[i] = t[m + i - 1]
  OBVIOUS
<1>2. /\ Len(Reverse(s)) = Len(s) /\ \A i \in 1..Len(s) : Reverse(s)[i] = s[Len(s) - i + 1]
      /\ Len(Reverse(t)) = Len(t) /\ \A i \in 1..Len(t) : Reverse(t)[i] = t[Len(t) - i + 1]
  BY <1>1 DEF Reverse
<1>3. Reverse(s) \in Seq(Nat) /\ Reverse(t) \in Seq(Nat)
  BY <1>1 DEF Reverse
<1>4. Len(s) <= Len(t)
  BY <1>1
<1>5. \A i \in 1..Len(s) : Reverse(s)[i] = Reverse(t)[i]
  <2> SUFFICES ASSUME NEW i \in 1..Len(s) PROVE Reverse(s)[i] = Reverse(t)[i]
    OBVIOUS
  <2>1. i \in 1..Len(t) /\ Len(s) - i + 1 \in 1..Len(s)
    BY <1>1
  <2>2. m + (Len(s) - i + 1) - 1 = Len(t) - i + 1
    BY <1>1
  <2>3. QED
    BY <1>1, <1>2, <2>1, <2>2
<1>6. SubSeq(Reverse(s), 1, Len(s)) = SubSeq(Reverse(t), 1, Len(s))
  BY <1>1, <1>2, <1>3, <1>4, <1>5
<1>7. QED
  BY <1>2, <1>4, <1>6 DEF IsSuffix, IsPrefix

(* The invariant says what is kept.                                        *)
LEMMA InvKept == LogInv => LogTypeOK /\ LogKept
<1> SUFFICES ASSUME LogInv PROVE LogTypeOK /\ LogKept
  OBVIOUS
<1>1. MaxFiles \in Nat /\ MaxFiles > 1 /\ MaxFileLines \in Nat \ {0}
  BY LogAssumption
<1>2. LogTypeOK
  <2>1. DOMAIN Rotation = 1..(MaxFiles - 1)
    BY DEF Rotation
  <2>2. QED
    BY <2>1 DEF LogInv, LogShapes, LogTypeOK
<1>3. InOrder(LogContents)
  BY ContentsInOrder DEF LogInv
<1>4. ASSUME ~lapsed
      PROVE  /\ IsSuffix(LogContents, landed)
             /\ \/ LogContents = landed
                \/ /\ Full(MaxFiles - 1)
                   /\ ~torn => \E gap \in DOMAIN logFiles :
                                 \A i \in DOMAIN logFiles \ {gap} : Full(i)
  <2>1. LogShapes /\ Filled /\ Ends /\ Solid
    BY <1>4 DEF LogInv
  <2>2. PICK c : Pieces(c) /\ (c[MaxFiles] > 0 => logFiles[MaxFiles - 1] # <<>>)
    BY <2>1 DEF Ends
  <2>3. LogContents = SubSeq(landed, c[MaxFiles] + 1, Len(landed))
    BY <2>1, <2>2, ContentsLanded
  <2>4. c[MaxFiles] \in 0..Len(landed) /\ Len(landed) \in Nat /\ landed \in Seq(Nat)
    BY <1>1, <2>1, <2>2 DEF Pieces, LogShapes
  <2>5. Len(LogContents) = Len(landed) - c[MaxFiles]
    BY <2>3, <2>4
  <2>6. IsSuffix(LogContents, landed)
    <3>1. Len(landed) - Len(LogContents) + 1 = c[MaxFiles] + 1 /\ Len(LogContents) <= Len(landed)
      BY <2>4, <2>5
    <3>2. c[MaxFiles] + 1 \in 1..(Len(landed) + 1)
      BY <2>4
    <3>3. QED
      BY <2>3, <2>4, <3>2, EndIsSuffix
  <2>7. CASE c[MaxFiles] = 0
    BY <2>3, <2>4, <2>6, <2>7
  <2>8. CASE c[MaxFiles] # 0
    <3>1. MaxFiles - 1 \in Slots \ {0} /\ DOMAIN logFiles = Slots
      BY <1>1, <2>1 DEF Slots, LogShapes
    <3>2. logFiles[MaxFiles - 1] # <<>> /\ Full(MaxFiles - 1)
      <4>1. c[MaxFiles] > 0
        BY <2>4, <2>8
      <4>2. QED
        BY <2>1, <2>2, <3>1, <4>1 DEF Filled
    <3>3. ASSUME ~torn PROVE \E gap \in DOMAIN logFiles :
                               \A i \in DOMAIN logFiles \ {gap} : Full(i)
      <4>1. Hole \in Slots
        BY <1>1, <2>1 DEF Hole, Slots, LogShapes
      <4>2. \A i \in Slots \ {Hole} : i = MaxFiles - 1 \/ i < MaxFiles - 1
        BY <1>1 DEF Slots
      <4>3. \A i \in Slots \ {Hole} : Full(i)
        BY <2>1, <3>1, <3>2, <3>3, <4>2 DEF Solid
      <4>4. QED
        BY <3>1, <4>1, <4>3
    <3>4. QED
      BY <2>6, <3>2, <3>3
  <2>9. QED
    BY <2>7, <2>8
<1>5. QED
  BY <1>2, <1>3, <1>4 DEF LogKept

-----------------------------------------------------------------------------
(* Nothing is logged yet.                                                  *)
LEMMA LogInitHolds == LogInit => LogInv
<1> SUFFICES ASSUME LogInit PROVE LogInv
  OBVIOUS
<1>1. MaxFiles \in Nat /\ MaxFiles > 1 /\ MaxFileLines \in Nat \ {0}
  BY LogAssumption
<1>2. LogShapes /\ \A f \in Slots : logFiles[f] = <<>>
  BY <1>1 DEF LogInit, LogShapes, Slots
<1>3. Waiting /\ FilesInOrder /\ Filled /\ Solid
  BY <1>1, <1>2 DEF LogInit, Waiting, FilesInOrder, Filled, Solid, InOrder, Slots
<1>4. Ends
  <2> DEFINE c == [f \in 0..MaxFiles |-> 0]
  <2>1. Pieces(c) /\ c[MaxFiles] = 0
    BY <1>1, <1>2 DEF Pieces, LogInit, Slots
  <2> HIDE DEF c
  <2>2. QED
    BY <2>1 DEF Ends
<1>5. QED
  BY <1>2, <1>3, <1>4 DEF LogInv

(* A step that leaves the files alone need only mind the rest.             *)
LEMMA FilesAlone ==
    ASSUME LogInv, UNCHANGED <<logFiles, landed, lapsed>>, LogShapes', Waiting',
           link' = "renaming" => Full(0)', written' <= Len(logFiles[0]),
           turn' > 1 => turn' = turn,
           torn => torn', torn' \/ turn' > 1 \/ ~(turn > 1)
    PROVE  LogInv'
<1>1. FilesInOrder'
  BY DEF LogInv, FilesInOrder
<1>2. Filled'
  BY DEF LogInv, Filled, Full
<1>3. ASSUME ~lapsed' PROVE Ends' /\ Solid'
  <2>1. Ends' /\ Solid
    BY <1>3 DEF LogInv, Ends, Pieces
  <2>2. turn' > 1 => Hole' = Hole /\ turn > 1
    BY DEF Hole
  <2>3. ~(turn' > 1) /\ ~(turn > 1) => Hole' = Hole
    BY DEF Hole
  <2>4. QED
    BY <1>3, <2>1, <2>2, <2>3 DEF Solid, Full
<1>4. QED
  BY <1>1, <1>2, <1>3 DEF LogInv

(* What is left of the chain once its first line is done with, and what it *)
(* is with one more line.                                                  *)
LEMMA ChainTail ==
    ASSUME LogShapes, Waiting, chain # <<>>
    PROVE  /\ Tail(chain) \in Seq(Nat) /\ InOrder(Tail(chain))
           /\ \A i \in DOMAIN Tail(chain) :
                 /\ i + 1 \in DOMAIN chain /\ Tail(chain)[i] = chain[i + 1]
                 /\ Tail(chain)[i] <= logged /\ Head(chain) < Tail(chain)[i]
           /\ Head(chain) \in Nat /\ Head(chain) <= logged
           /\ 1 \in DOMAIN chain /\ Head(chain) = chain[1]
<1>1. chain \in Seq(Nat) /\ Len(chain) \in Nat \ {0}
  BY DEF LogShapes
<1>2. /\ Tail(chain) \in Seq(Nat) /\ Len(Tail(chain)) = Len(chain) - 1
      /\ DOMAIN Tail(chain) = 1..(Len(chain) - 1) /\ DOMAIN chain = 1..Len(chain)
      /\ \A i \in 1..(Len(chain) - 1) : Tail(chain)[i] = chain[i + 1]
      /\ Head(chain) = chain[1] /\ Head(chain) \in Nat
  BY <1>1
<1>3. \A i \in 1..(Len(chain) - 1) : i + 1 \in 1..Len(chain) /\ 1 < i + 1
  BY <1>1
<1>4. 1 \in DOMAIN chain
  BY <1>1, <1>2
<1>5. InOrder(Tail(chain))
  <2> SUFFICES ASSUME NEW i \in DOMAIN Tail(chain), NEW j \in DOMAIN Tail(chain), i < j
               PROVE  Tail(chain)[i] < Tail(chain)[j]
    BY DEF InOrder
  <2>1. i + 1 \in DOMAIN chain /\ j + 1 \in DOMAIN chain /\ i + 1 < j + 1
    BY <1>2, <1>3
  <2>2. QED
    BY <1>2, <2>1 DEF Waiting, InOrder
<1>6. \A i \in DOMAIN Tail(chain) : Tail(chain)[i] <= logged /\ Head(chain) < Tail(chain)[i]
  BY <1>2, <1>3, <1>4 DEF Waiting, InOrder
<1>7. QED
  BY <1>2, <1>3, <1>4, <1>5, <1>6 DEF Waiting

(* A piece of a sequence that is appended to.                              *)
LEMMA SubSeqAppend ==
    ASSUME NEW t \in Seq(Nat), NEW x \in Nat, NEW m \in 1..(Len(t) + 1)
    PROVE  /\ SubSeq(Append(t, x), m, Len(t) + 1) = Append(SubSeq(t, m, Len(t)), x)
           /\ \A n \in 0..Len(t) : SubSeq(Append(t, x), m, n) = SubSeq(t, m, n)
<1> DEFINE u == Append(t, x)
           l == Len(t)
<1>1. /\ l \in Nat /\ u \in Seq(Nat) /\ Len(u) = l + 1 /\ u[l + 1] = x
      /\ \A i \in 1..l : u[i] = t[i] /\ t[i] \in Nat
  OBVIOUS
<1> HIDE DEF u, l
<1>2. \A i \in 1..(l + 1) : u[i] \in Nat
  BY <1>1
<1>3. SubSeq(u, m, l + 1) = Append(SubSeq(t, m, l), x)
  <2> DEFINE s == SubSeq(u, m, l + 1)
             r == SubSeq(t, m, l)
  <2>1. m \in Int /\ m \in 1..(l + 1) /\ l + 1 \in Int
    BY <1>1 DEF l
  <2>2. /\ s \in Seq(Nat) /\ Len(s) = l + 1 - m + 1
        /\ \A i \in 1..(l + 1 - m + 1) : s[i] = u[m + i - 1]
    BY <1>1, <1>2, <2>1, SubSeqProperties
  <2>3. /\ r \in Seq(Nat) /\ Len(r) = l - m + 1
        /\ \A i \in 1..(l - m + 1) : r[i] = t[m + i - 1]
    BY <1>1, <2>1, SubSeqProperties
  <2> HIDE DEF s, r
  <2>4. /\ Append(r, x) \in Seq(Nat) /\ Len(Append(r, x)) = l - m + 2
        /\ \A i \in 1..(l - m + 1) : Append(r, x)[i] = r[i]
        /\ Append(r, x)[l - m + 2] = x
    BY <1>1, <2>1, <2>3
  <2>5. ASSUME NEW i \in 1..(l - m + 2) PROVE s[i] = Append(r, x)[i]
    <3>1. CASE i = l - m + 2
      <4>1. m + i - 1 = l + 1 /\ i \in 1..(l + 1 - m + 1)
        BY <1>1, <2>1, <3>1
      <4>2. s[i] = u[l + 1]
        BY <2>2, <4>1
      <4>3. QED
        BY <1>1, <2>4, <3>1, <4>2
    <3>2. CASE i # l - m + 2
      <4>1. i \in 1..(l - m + 1) /\ i \in 1..(l + 1 - m + 1) /\ m + i - 1 \in 1..l
        BY <1>1, <2>1, <3>2
      <4>2. s[i] = u[m + i - 1] /\ Append(r, x)[i] = t[m + i - 1]
        BY <2>2, <2>3, <2>4, <4>1
      <4>3. QED
        BY <1>1, <4>1, <4>2
    <3>3. QED
      BY <3>1, <3>2
  <2>6. Len(s) = l - m + 2
    BY <1>1, <2>1, <2>2
  <2>7. s = Append(r, x)
    BY <2>2, <2>4, <2>5, <2>6, SeqEqual
  <2>8. QED
    BY <2>7 DEF s, r
<1>4. ASSUME NEW n \in 0..l PROVE SubSeq(u, m, n) = SubSeq(t, m, n)
  <2>1. m \in Int /\ n \in Int /\ m \in 1..(l + 1)
    BY <1>1 DEF l
  <2>2. \A i \in m..n : i \in 1..l
    BY <1>1, <2>1
  <2>3. /\ SubSeq(u, m, n) \in Seq(Nat) /\ SubSeq(t, m, n) \in Seq(Nat)
        /\ Len(SubSeq(u, m, n)) = Len(SubSeq(t, m, n))
        /\ Len(SubSeq(u, m, n)) = IF m <= n THEN n - m + 1 ELSE 0
        /\ \A i \in 1..(n - m + 1) : SubSeq(u, m, n)[i] = u[m + i - 1]
        /\ \A i \in 1..(n - m + 1) : SubSeq(t, m, n)[i] = t[m + i - 1]
    BY <1>1, <1>2, <2>1, <2>2, SubSeqProperties
  <2>4. \A i \in 1..Len(SubSeq(u, m, n)) : i \in 1..(n - m + 1) /\ m + i - 1 \in 1..l
    BY <1>1, <2>1, <2>3
  <2>5. \A i \in 1..Len(SubSeq(u, m, n)) : SubSeq(u, m, n)[i] = SubSeq(t, m, n)[i]
    BY <1>1, <2>3, <2>4
  <2>6. QED
    BY <2>3, <2>5, SeqEqual
<1>5. QED
  BY <1>3, <1>4 DEF u, l

(* One more line, later than all the others.                               *)
LEMMA ChainAppend ==
    ASSUME NEW q \in Seq(Nat), NEW n \in Nat, InOrder(q), \A i \in DOMAIN q : q[i] <= n
    PROVE  /\ Append(q, n + 1) \in Seq(Nat) /\ InOrder(Append(q, n + 1))
           /\ Append(q, n + 1) # <<>>
           /\ \A i \in DOMAIN Append(q, n + 1) :
                 /\ Append(q, n + 1)[i] <= n + 1
                 /\ \/ i \in DOMAIN q /\ Append(q, n + 1)[i] = q[i]
                    \/ Append(q, n + 1)[i] = n + 1
<1> DEFINE r == Append(q, n + 1)
<1>1. /\ r \in Seq(Nat) /\ r # <<>> /\ DOMAIN r = 1..(Len(q) + 1) /\ Len(q) \in Nat
      /\ DOMAIN q = 1..Len(q) /\ \A i \in 1..Len(q) : r[i] = q[i] /\ q[i] \in Nat
      /\ r[Len(q) + 1] = n + 1
  OBVIOUS
<1> HIDE DEF r
<1>2. \A i \in DOMAIN r : i \in DOMAIN q \/ i = Len(q) + 1
  BY <1>1
<1>3. \A i \in DOMAIN r : r[i] <= n + 1 /\ ((i \in DOMAIN q /\ r[i] = q[i]) \/ r[i] = n + 1)
  BY <1>1, <1>2
<1>4. InOrder(r)
  <2> SUFFICES ASSUME NEW i \in DOMAIN r, NEW j \in DOMAIN r, i < j PROVE r[i] < r[j]
    BY DEF InOrder
  <2>1. i \in DOMAIN q /\ r[i] = q[i]
    BY <1>1
  <2>2. CASE j \in DOMAIN q
    BY <1>1, <2>1, <2>2 DEF InOrder
  <2>3. CASE j = Len(q) + 1
    BY <1>1, <2>1, <2>3
  <2>4. QED
    BY <1>2, <2>2, <2>3
<1>5. QED
  BY <1>1, <1>3, <1>4 DEF r

-----------------------------------------------------------------------------
(* One lemma for each action.                                              *)

(* A line joins the chain (enqueue).                                       *)
LEMMA LogLineKeeps == LogInv /\ LogLine => LogInv'
<1> SUFFICES ASSUME LogInv, LogLine PROVE LogInv'
  OBVIOUS
<1>1. LogShapes /\ Waiting /\ Filled
  BY DEF LogInv
<1>2. /\ logged' = logged + 1 /\ chain' = Append(chain, logged + 1)
      /\ UNCHANGED <<link, turn, stream, written, logFiles, awaited, landed, lapsed, torn>>
  BY DEF LogLine
<1>3. /\ chain \in Seq(Nat) /\ logged \in Nat /\ InOrder(chain)
      /\ \A i \in DOMAIN chain : chain[i] <= logged
  BY <1>1 DEF LogShapes, Waiting
<1>4. /\ chain' \in Seq(Nat) /\ InOrder(chain') /\ chain' # <<>>
      /\ \A i \in DOMAIN chain' : /\ chain'[i] <= logged'
                                  /\ \/ i \in DOMAIN chain /\ chain'[i] = chain[i]
                                     \/ chain'[i] = logged + 1
  BY <1>2, <1>3, ChainAppend
<1>5. LogShapes'
  BY <1>1, <1>2, <1>4 DEF LogShapes
<1>6. \A f \in Slots : \A a \in DOMAIN logFiles[f] : logFiles[f][a] \in Nat
  BY <1>1 DEF LogShapes
<1>7. Waiting'
  BY <1>1, <1>2, <1>3, <1>4, <1>6 DEF Waiting
<1>8. QED
  BY <1>1, <1>2, <1>5, <1>7, FilesAlone DEF Filled, Full, LogShapes

(* The opening of the stream, or its failure.                              *)
LEMMA StreamKeeps ==
    ASSUME LogInv, EnsureStream, chain # <<>>, link \in {"idle", "rotated"}, turn' = turn,
           UNCHANGED <<logged, logFiles, awaited, landed, lapsed, torn>>
    PROVE  LogInv'
<1>1. LogShapes /\ Waiting /\ Filled
  BY DEF LogInv
<1>2. /\ link' \in {"writing", "idle"} /\ stream' \in {"none", "open", "destroyed"}
      /\ chain' = chain \/ (chain' = Tail(chain) /\ link' = "idle")
      /\ link' = "writing" => stream' # "none" /\ chain' # <<>>
      /\ written' \in Nat /\ written' <= Len(logFiles[0])
  <2>1. 0 \in Slots /\ logFiles[0] \in Seq(Nat)
    BY <1>1, LogAssumption DEF Slots, LogShapes
  <2>2. Len(logFiles[0]) \in Nat
    BY <2>1
  <2>3. QED
    BY <1>1, <2>2 DEF EnsureStream, LogShapes, Filled
<1>3. chain' \in Seq(Nat) /\ Waiting'
  <2>1. CASE chain' = chain
    BY <1>1, <2>1 DEF Waiting, LogShapes
  <2>2. CASE chain' = Tail(chain)
    <3>1. /\ InOrder(chain') /\ chain' \in Seq(Nat)
          /\ \A i \in DOMAIN chain' : i + 1 \in DOMAIN chain /\ chain'[i] = chain[i + 1]
      BY <1>1, <2>2, ChainTail
    <3>2. QED
      BY <1>1, <3>1 DEF Waiting
  <2>3. QED
    BY <1>2, <2>1, <2>2
<1>4. LogShapes'
  BY <1>1, <1>2, <1>3 DEF LogShapes
<1>5. QED
  BY <1>2, <1>3, <1>4, FilesAlone DEF LogShapes

(* A link begins to rotate a full file, or goes on to its stream.          *)
LEMMA LinkStartsKeeps == LogInv /\ LinkStarts => LogInv'
<1> SUFFICES ASSUME LogInv, LinkStarts PROVE LogInv'
  OBVIOUS
<1>1. LogShapes /\ Waiting /\ Filled
  BY DEF LogInv
<1>2. CASE written >= MaxFileLines
  <2>1. /\ link' = "renaming" /\ turn' = 1 /\ stream' = "none" /\ turn = 0 /\ chain # <<>>
        /\ UNCHANGED <<chain, written, logged, logFiles, awaited, landed, lapsed, torn>>
    BY <1>1, <1>2 DEF LinkStarts, LogShapes
  <2>2. 1 \in 1..(MaxFiles - 1)
    BY LogAssumption
  <2>3. LogShapes'
    BY <1>1, <2>1, <2>2 DEF LogShapes
  <2>4. Waiting'
    BY <1>1, <2>1 DEF Waiting
  <2>5. Full(0)'
    <3>1. 0 \in Slots /\ logFiles[0] \in Seq(Nat)
      BY <1>1, LogAssumption DEF Slots, LogShapes
    <3>2. Len(logFiles[0]) \in Nat /\ written \in Nat /\ MaxFileLines \in Nat
      BY <1>1, <3>1, LogAssumption DEF LogShapes
    <3>3. QED
      BY <1>1, <1>2, <2>1, <3>2 DEF Filled, Full
  <2>6. QED
    BY <1>1, <2>1, <2>3, <2>4, <2>5, FilesAlone DEF Filled
<1>3. CASE ~(written >= MaxFileLines)
  BY <1>3, StreamKeeps DEF LinkStarts
<1>4. QED
  BY <1>2, <1>3

(* After the last rename the stream is opened anew.                        *)
LEMMA RotatedKeeps == LogInv /\ Rotated => LogInv'
<1> SUFFICES ASSUME LogInv, Rotated PROVE LogInv'
  OBVIOUS
<1>1. chain # <<>> /\ turn' = turn
  BY DEF Rotated, LogInv, LogShapes
<1>2. QED
  BY <1>1, StreamKeeps DEF Rotated

(* close waits for the lines there are.                                    *)
LEMMA CloseLogKeeps == LogInv /\ CloseLog => LogInv'
<1> SUFFICES ASSUME LogInv, CloseLog PROVE LogInv'
  OBVIOUS
<1>1. /\ awaited' = logged
      /\ UNCHANGED <<logged, chain, link, turn, stream, written, logFiles, landed, lapsed, torn>>
  BY DEF CloseLog
<1>2. LogShapes'
  BY <1>1 DEF LogInv, LogShapes
<1>3. QED
  BY <1>1, <1>2, FilesAlone DEF LogInv, Waiting, Filled, Full

(* A crash and the end of the process cut a rotation short alike.          *)
LEMMA RestartedKeeps == LogInv /\ Restarted => LogInv'
<1> SUFFICES ASSUME LogInv, Restarted PROVE LogInv'
  OBVIOUS
<1>1. /\ chain' = <<>> /\ link' = "idle" /\ turn' = 0 /\ stream' = "none" /\ written' = 0
      /\ awaited' = 0 /\ torn' = (torn \/ turn > 1)
      /\ UNCHANGED <<logged, logFiles, landed, lapsed>>
  BY DEF Restarted
<1>2. LogShapes'
  <2>1. torn' \in BOOLEAN
    BY <1>1
  <2>2. 0 \notin 1..(MaxFiles - 1) /\ awaited' \in 0..logged'
    BY <1>1 DEF LogInv, LogShapes
  <2>3. QED
    BY <1>1, <2>1, <2>2 DEF LogInv, LogShapes
<1>3. Waiting'
  <2>1. DOMAIN chain' = {}
    BY <1>1
  <2>2. QED
    BY <1>1, <2>1 DEF LogInv, Waiting, InOrder
<1>4. written' <= Len(logFiles[0])
  <2>1. 0 \in Slots /\ logFiles[0] \in Seq(Nat)
    BY LogAssumption DEF LogInv, Slots, LogShapes
  <2>2. QED
    BY <1>1, <2>1
<1>5. /\ ~(turn' > 1) /\ link' # "renaming"
      /\ torn => torn'
      /\ torn' \/ ~(turn > 1)
  <2>1. (torn => torn') /\ (torn' \/ ~(turn > 1)) /\ link' # "renaming"
    BY <1>1, Zenon
  <2>2. ~(turn' > 1)
    BY <1>1
  <2>3. QED
    BY <2>1, <2>2
<1>6. QED
  BY <1>1, <1>2, <1>3, <1>4, <1>5, FilesAlone

(* The first of the chain is written, or lost with the stream.             *)
LEMMA WriteEndsKeeps == LogInv /\ WriteEnds => LogInv'
<1> SUFFICES ASSUME LogInv, WriteEnds PROVE LogInv'
  OBVIOUS
<1>1. LogShapes /\ Waiting /\ FilesInOrder /\ Filled
  BY DEF LogInv
<1>2. /\ link = "writing" /\ link' = "idle" /\ turn = 0 /\ chain # <<>>
      /\ UNCHANGED <<turn, awaited, lapsed, torn>>
  BY <1>1 DEF WriteEnds, LogShapes
<1>3. MaxFiles \in Nat /\ MaxFiles > 1 /\ MaxFileLines \in Nat \ {0}
  BY LogAssumption
<1>4. 0 \in Slots /\ logFiles[0] \in Seq(Nat) /\ Len(logFiles[0]) \in Nat
  BY <1>1, <1>3 DEF Slots, LogShapes
<1>5. /\ Tail(chain) \in Seq(Nat) /\ InOrder(Tail(chain))
      /\ \A i \in DOMAIN Tail(chain) :
            /\ i + 1 \in DOMAIN chain /\ Tail(chain)[i] = chain[i + 1]
            /\ Tail(chain)[i] <= logged /\ Head(chain) < Tail(chain)[i]
      /\ Head(chain) \in Nat /\ Head(chain) <= logged
      /\ 1 \in DOMAIN chain /\ Head(chain) = chain[1]
  BY <1>1, <1>2, ChainTail
<1>6. CASE chain' = Tail(chain) /\ UNCHANGED <<logged, logFiles, landed, written>>
           /\ stream' \in {"none", "open", "destroyed"}
  <2>1. LogShapes'
    BY <1>1, <1>2, <1>5, <1>6 DEF LogShapes
  <2>2. Waiting'
    BY <1>1, <1>5, <1>6 DEF Waiting
  <2>3. QED
    BY <1>1, <1>2, <1>6, <2>1, <2>2, FilesAlone DEF Filled, LogShapes
<1>7. CASE /\ stream' = "destroyed"
           /\ logged' = logged + 1 /\ chain' = Append(Tail(chain), logged + 1)
           /\ UNCHANGED <<logFiles, landed, written>>
  <2>1. /\ chain' \in Seq(Nat) /\ InOrder(chain')
        /\ \A i \in DOMAIN chain' : /\ chain'[i] <= logged'
                                    /\ \/ i \in DOMAIN Tail(chain) /\ chain'[i] = Tail(chain)[i]
                                       \/ chain'[i] = logged + 1
    BY <1>1, <1>5, <1>7, ChainAppend DEF LogShapes
  <2>2. LogShapes'
    BY <1>1, <1>2, <1>7, <2>1 DEF LogShapes
  <2>3. \A f \in Slots : \A a \in DOMAIN logFiles[f] : logFiles[f][a] \in Nat
    BY <1>1 DEF LogShapes
  <2>4. Waiting'
    BY <1>1, <1>5, <1>7, <2>1, <2>3 DEF Waiting, LogShapes
  <2>5. QED
    BY <1>1, <1>2, <1>7, <2>2, <2>4, FilesAlone DEF Filled, LogShapes
<1>8. CASE /\ stream = "open" /\ stream' = stream /\ logged' = logged
           /\ logFiles' = [logFiles EXCEPT ![0] = Append(@, Head(chain))]
           /\ landed' = Append(landed, Head(chain))
           /\ written' = written + 1
           /\ chain' = Tail(chain)
  <2> DEFINE line == Head(chain)
             n == Len(logFiles[0])
  <2> HIDE DEF line, n
  <2>1. /\ logFiles'[0] = Append(logFiles[0], line)
        /\ \A f \in Slots \ {0} : logFiles'[f] = logFiles[f]
        /\ logFiles' \in [Slots -> Seq(Nat)]
    BY <1>1, <1>4, <1>5, <1>8 DEF LogShapes, line
  <2>2. /\ DOMAIN logFiles'[0] = 1..(n + 1) /\ DOMAIN logFiles[0] = 1..n /\ n \in Nat
        /\ logFiles'[0][n + 1] = line /\ Len(logFiles'[0]) = n + 1
        /\ \A a \in 1..n : logFiles'[0][a] = logFiles[0][a] /\ logFiles[0][a] \in Nat
    <3>1. line \in Nat /\ n = Len(logFiles[0]) /\ n \in Nat
      BY <1>4, <1>5 DEF n, line
    <3> DEFINE q == logFiles[0]
               t == logFiles'[0]
    <3>2. q \in Seq(Nat) /\ n = Len(q) /\ t = Append(q, line)
      BY <1>4, <2>1, <3>1
    <3> HIDE DEF q, t
    <3>3. /\ DOMAIN t = 1..(n + 1) /\ DOMAIN q = 1..n
          /\ t[n + 1] = line /\ Len(t) = n + 1
          /\ \A a \in 1..n : t[a] = q[a] /\ q[a] \in Nat
      BY <3>1, <3>2
    <3>4. QED
      BY <3>1, <3>3 DEF q, t
  <2>3. \A a \in 1..(n + 1) : a \in 1..n \/ a = n + 1
    BY <2>2
  <2>4. LogShapes'
    BY <1>1, <1>2, <1>5, <1>8, <2>1 DEF LogShapes
  <2>5. Waiting'
    <3>1. \A f \in Slots : \A a \in DOMAIN logFiles'[f] :
             \/ a \in DOMAIN logFiles[f] /\ logFiles'[f][a] = logFiles[f][a]
             \/ logFiles'[f][a] = line
      BY <2>1, <2>2, <2>3
    <3>2. \A f \in Slots : \A a \in DOMAIN logFiles[f] :
             \A i \in DOMAIN Tail(chain) : logFiles[f][a] < Tail(chain)[i]
      BY <1>1, <1>5 DEF Waiting
    <3>3. QED
      BY <1>1, <1>5, <1>8, <3>1, <3>2 DEF Waiting, line
  <2>6. FilesInOrder'
    <3>1. \A f \in Slots : \A a \in DOMAIN logFiles[f] : logFiles[f][a] < line
      BY <1>1, <1>5 DEF Waiting, line
    <3>2. SUFFICES ASSUME NEW f \in Slots, NEW g \in Slots,
                          NEW a \in DOMAIN logFiles'[f], NEW b \in DOMAIN logFiles'[g],
                          f > g \/ (f = g /\ a < b)
                   PROVE  logFiles'[f][a] < logFiles'[g][b]
      BY DEF FilesInOrder
    <3>3. ASSUME f = 0 PROVE a \in 1..n
      <4>1. g = 0 /\ a < b
        BY <1>3, <3>2, <3>3 DEF Slots
      <4>2. a \in 1..(n + 1) /\ b \in 1..(n + 1)
        BY <2>2, <3>3, <4>1
      <4>3. QED
        BY <2>2, <4>1, <4>2
    <3>4. a \in DOMAIN logFiles[f] /\ logFiles'[f][a] = logFiles[f][a]
      BY <2>1, <2>2, <3>3
    <3>5. CASE g = 0 /\ b = n + 1
      BY <2>2, <3>1, <3>4, <3>5
    <3>6. CASE ~(g = 0 /\ b = n + 1)
      <4>1. b \in DOMAIN logFiles[g] /\ logFiles'[g][b] = logFiles[g][b]
        BY <2>1, <2>2, <2>3, <3>6
      <4>2. QED
        BY <1>1, <3>2, <3>4, <4>1 DEF FilesInOrder
    <3>7. QED
      BY <3>5, <3>6
  <2>7. Filled'
    BY <1>1, <1>2, <1>8, <2>1, <2>2 DEF Filled, Full, LogShapes, n
  <2>8. ASSUME ~lapsed' PROVE Ends'
    <3>1. PICK c : Pieces(c) /\ (c[MaxFiles] > 0 => logFiles[MaxFiles - 1] # <<>>)
      BY <1>2, <2>8 DEF LogInv, Ends
    <3>2. /\ landed \in Seq(Nat) /\ Len(landed) \in Nat /\ Len(landed') = Len(landed) + 1
          /\ landed' = Append(landed, line) /\ line \in Nat
      BY <1>1, <1>5, <1>8 DEF LogShapes, line
    <3>3. c \in [0..MaxFiles -> 0..Len(landed)]
      BY <3>1 DEF Pieces
    <3>4. PICK d : /\ d \in [0..MaxFiles -> 0..Len(landed')] /\ d[0] = Len(landed')
                   /\ \A f \in 1..MaxFiles : d[f] = c[f]
      <4> DEFINE d == [c EXCEPT ![0] = Len(landed')]
      <4>1. /\ d \in [0..MaxFiles -> 0..Len(landed')] /\ d[0] = Len(landed')
            /\ \A f \in 1..MaxFiles : d[f] = c[f]
        BY <1>3, <3>2, <3>3
      <4> HIDE DEF d
      <4>2. QED
        BY <4>1
    <3>5. ASSUME NEW f \in Slots
          PROVE  d[f + 1] <= d[f] /\ logFiles'[f] = SubSeq(landed', d[f + 1] + 1, d[f])
      <4>1. /\ c[f + 1] <= c[f] /\ logFiles[f] = SubSeq(landed, c[f + 1] + 1, c[f])
            /\ f + 1 \in 1..MaxFiles /\ f \in 0..MaxFiles
        BY <1>3, <3>1 DEF Pieces, Slots
      <4>2. c[f + 1] \in 0..Len(landed) /\ c[f] \in 0..Len(landed) /\ d[f + 1] = c[f + 1]
        BY <3>3, <3>4, <4>1
      <4>3. CASE f = 0
        <5>1. c[0] = Len(landed)
          BY <3>1 DEF Pieces
        <5>2. SubSeq(Append(landed, line), c[1] + 1, Len(landed) + 1)
                = Append(SubSeq(landed, c[1] + 1, Len(landed)), line)
          <6>1. c[1] + 1 \in 1..(Len(landed) + 1)
            BY <3>2, <4>2, <4>3
          <6>2. QED
            BY <3>2, <6>1, SubSeqAppend
        <5>3. f + 1 = 1 /\ d[f] = Len(landed) + 1 /\ d[f + 1] = c[1]
          BY <3>2, <3>4, <4>2, <4>3
        <5>4. logFiles'[f] = Append(SubSeq(landed, c[1] + 1, Len(landed)), line)
          BY <2>1, <4>1, <4>3, <5>1, <5>3
        <5>5. d[f + 1] <= d[f]
          BY <3>2, <4>2, <4>3, <5>3
        <5>6. QED
          BY <3>2, <5>2, <5>3, <5>4, <5>5
      <4>4. CASE f # 0
        <5>1. f \in 1..MaxFiles /\ d[f] = c[f]
          BY <1>3, <3>4, <4>4 DEF Slots
        <5>2. SubSeq(Append(landed, line), c[f + 1] + 1, c[f]) = SubSeq(landed, c[f + 1] + 1, c[f])
          <6>1. c[f + 1] + 1 \in 1..(Len(landed) + 1)
            BY <3>2, <4>2
          <6>2. QED
            BY <3>2, <4>2, <6>1, SubSeqAppend
        <5>3. QED
          BY <2>1, <3>2, <4>1, <4>2, <4>4, <5>1, <5>2
      <4>5. QED
        BY <4>3, <4>4
    <3>6. Pieces(d)'
      BY <3>4, <3>5 DEF Pieces
    <3>7. d[MaxFiles] > 0 => logFiles'[MaxFiles - 1] # <<>>
      <4>1. MaxFiles - 1 \in Slots \ {0} /\ MaxFiles \in 1..MaxFiles
        BY <1>3 DEF Slots
      <4>2. QED
        BY <2>1, <3>1, <3>4, <4>1
    <3>8. QED
      BY <3>6, <3>7 DEF Ends
  <2>9. ASSUME ~lapsed' PROVE Solid'
    <3>1. Solid /\ ~(turn > 1) /\ ~(turn' > 1)
      BY <1>2, <2>9 DEF LogInv
    <3>2. Hole = 0 /\ Hole' = 0
      BY <3>1 DEF Hole
    <3>3. \A f \in Slots : f > 0 => f \in Slots \ {0}
      BY <1>3 DEF Slots
    <3>4. ASSUME NEW f \in Slots, NEW g \in Slots, g < f, g # 0, logFiles'[f] # <<>>, ~torn'
          PROVE  Full(g)'
      <4>1. logFiles'[f] = logFiles[f] /\ logFiles'[g] = logFiles[g]
        BY <1>3, <2>1, <3>3, <3>4 DEF Slots
      <4>2. Full(g)
        BY <1>2, <3>1, <3>2, <3>4, <4>1 DEF Solid
      <4>3. QED
        BY <4>1, <4>2 DEF Full
    <3>5. QED
      BY <3>1, <3>2, <3>4 DEF Solid
  <2>10. QED
    BY <2>4, <2>5, <2>6, <2>7, <2>8, <2>9 DEF LogInv
<1>9. QED
  BY <1>1, <1>2, <1>6, <1>7, <1>8 DEF WriteEnds, LogShapes

(* What one rename does to the files.                                      *)
LEMMA Moves ==
    ASSUME LogShapes, NEW to \in Slots \ {0}, Renamed(to)
    PROVE  /\ to - 1 \in Slots /\ to - 1 # to
           /\ logFiles' \in [Slots -> Seq(Nat)]
           /\ \A f \in Slots \ {to, to - 1} : logFiles'[f] = logFiles[f]
           /\ \/ logFiles[to - 1] = <<>> /\ logFiles' = logFiles
              \/ /\ logFiles[to - 1] # <<>>
                 /\ logFiles'[to] = logFiles[to - 1] /\ logFiles'[to - 1] = <<>>
<1>1. MaxFiles \in Nat /\ MaxFiles > 1
  BY LogAssumption
<1>2. to - 1 \in Slots /\ to - 1 # to
  BY <1>1 DEF Slots
<1>3. CASE logFiles[to - 1] = <<>>
  BY <1>2, <1>3 DEF Renamed, LogShapes
<1>4. CASE logFiles[to - 1] # <<>>
  <2>1. logFiles' = [logFiles EXCEPT ![to] = logFiles[to - 1], ![to - 1] = <<>>]
    BY <1>4 DEF Renamed
  <2>2. <<>> \in Seq(Nat) /\ logFiles[to - 1] \in Seq(Nat) /\ logFiles \in [Slots -> Seq(Nat)]
    BY <1>2 DEF LogShapes
  <2>3. QED
    BY <1>2, <1>4, <2>1, <2>2
<1>5. QED
  BY <1>3, <1>4

(* One rename: a file goes up one place, and onto another only at the top. *)
LEMMA RenameKeeps == LogInv /\ Rename => LogInv'
<1> SUFFICES ASSUME LogInv, Rename PROVE LogInv'
  OBVIOUS
<1>1. LogShapes /\ Waiting /\ FilesInOrder /\ Filled
  BY DEF LogInv
<1>2. MaxFiles \in Nat /\ MaxFiles > 1 /\ MaxFileLines \in Nat \ {0}
  BY LogAssumption
<1>3. /\ link = "renaming" /\ turn \in 1..(MaxFiles - 1) /\ chain # <<>>
      /\ UNCHANGED <<logged, chain, stream, awaited, landed, torn>>
  BY <1>1 DEF Rename, LogShapes
<1> DEFINE to == MaxFiles - turn
<1>4. to \in Slots \ {0} /\ Rotation[turn] = to /\ Len(Rotation) = MaxFiles - 1
  BY <1>2, <1>3 DEF Slots, Rotation
<1>5. \/ turn < MaxFiles - 1 /\ turn' = turn + 1 /\ UNCHANGED <<link, written>>
      \/ turn = MaxFiles - 1 /\ turn' = 0 /\ link' = "rotated" /\ written' = 0
  BY <1>2, <1>3, <1>4 DEF Rename
<1>6. \/ Renamed(to) /\ lapsed' = lapsed
      \/ lapsed' /\ logFiles' = logFiles
  BY <1>4 DEF Rename
<1>7. /\ to - 1 \in Slots /\ to - 1 # to
      /\ logFiles' \in [Slots -> Seq(Nat)]
      /\ \A f \in Slots \ {to, to - 1} : logFiles'[f] = logFiles[f]
      /\ \/ logFiles' = logFiles
         \/ /\ logFiles[to - 1] # <<>>
            /\ logFiles'[to] = logFiles[to - 1] /\ logFiles'[to - 1] = <<>>
  <2>1. CASE Renamed(to)
    BY <1>1, <1>4, <2>1, Moves
  <2>2. CASE logFiles' = logFiles
    BY <1>1, <1>2, <1>4, <2>2 DEF Slots, LogShapes
  <2>3. QED
    BY <1>6, <2>1, <2>2
<1> HIDE DEF to
<1>8. LogShapes'
  <2>1. turn' \in Nat /\ written' \in Nat
    BY <1>1, <1>2, <1>3, <1>5 DEF LogShapes
  <2>0. lapsed' \in BOOLEAN
    BY <1>1 DEF LogShapes, Rename
  <2>2. (link' = "renaming" /\ turn' \in 1..(MaxFiles - 1)) \/ (link' = "rotated" /\ turn' = 0)
    BY <1>2, <1>3, <1>5
  <2>3. 0 \notin 1..(MaxFiles - 1)
    OBVIOUS
  <2>4. QED
    BY <1>1, <1>3, <1>7, <2>0, <2>1, <2>2, <2>3 DEF LogShapes
<1>9. Waiting'
  <2>1. \A f \in Slots : \A a \in DOMAIN logFiles'[f] :
           \E g \in Slots : a \in DOMAIN logFiles[g] /\ logFiles'[f][a] = logFiles[g][a]
    BY <1>4, <1>7
  <2>2. QED
    BY <1>1, <1>3, <2>1 DEF Waiting
<1>10. FilesInOrder'
  <2>1. CASE logFiles' = logFiles
    BY <1>1, <2>1 DEF FilesInOrder
  <2>2. CASE logFiles'[to] = logFiles[to - 1] /\ logFiles'[to - 1] = <<>>
    <3> DEFINE source(f) == IF f = to THEN to - 1 ELSE f
    <3>1. \A f \in Slots : \A a \in DOMAIN logFiles'[f] :
             /\ source(f) \in Slots /\ f # to - 1
             /\ a \in DOMAIN logFiles[source(f)] /\ logFiles'[f][a] = logFiles[source(f)][a]
      BY <1>4, <1>7, <2>2
    <3>2. \A f, g \in Slots : f > g /\ f # to - 1 /\ g # to - 1 => source(f) > source(g)
      BY <1>2, <1>4 DEF Slots
    <3> HIDE DEF source
    <3>3. SUFFICES ASSUME NEW f \in Slots, NEW g \in Slots,
                          NEW a \in DOMAIN logFiles'[f], NEW b \in DOMAIN logFiles'[g],
                          f > g \/ (f = g /\ a < b)
                   PROVE  logFiles'[f][a] < logFiles'[g][b]
      BY DEF FilesInOrder
    <3>4. source(f) > source(g) \/ (source(f) = source(g) /\ a < b)
      BY <3>1, <3>2, <3>3
    <3>5. QED
      BY <1>1, <3>1, <3>4 DEF FilesInOrder
  <2>3. QED
    BY <1>7, <2>1, <2>2
<1>11. Filled'
  <2>1. Full(0) /\ 0 \in Slots
    BY <1>1, <1>2, <1>3 DEF Filled, Slots
  <2>2. \A f \in Slots \ {0} : logFiles'[f] # <<>> => Full(f)'
    <3>1. to - 1 = 0 \/ to - 1 \in Slots \ {0}
      BY <1>7
    <3>2. logFiles[to - 1] # <<>> => Full(to - 1)
      BY <1>1, <2>1, <3>1 DEF Filled
    <3>3. QED
      BY <1>1, <1>4, <1>7, <3>2 DEF Filled, Full
  <2>3. CASE turn' = turn + 1
    <3>1. 0 \in Slots \ {to, to - 1}
      BY <1>2, <1>3, <1>5, <2>1, <2>3 DEF to, Slots
    <3>2. QED
      <4>1. logFiles'[0] = logFiles[0]
        BY <1>7, <3>1
      <4>2. written' = written
        BY <1>2, <1>3, <1>5, <2>3
      <4>3. QED
        BY <1>1, <2>1, <2>2, <4>1, <4>2 DEF Filled, Full
  <2>4. CASE turn' = 0
    <3>1. Len(logFiles'[0]) \in Nat
      BY <1>7, <2>1
    <3>2. QED
      BY <1>3, <1>5, <2>2, <2>4, <3>1 DEF Filled
  <2>5. QED
    BY <1>5, <2>3, <2>4
<1>12. ASSUME ~lapsed' PROVE Ends' /\ Solid'
  <2>1. Renamed(to) /\ Ends /\ Solid
    BY <1>6, <1>12 DEF LogInv
  <2>2. \/ logFiles[to - 1] = <<>> /\ logFiles' = logFiles
        \/ /\ logFiles[to - 1] # <<>>
           /\ logFiles'[to] = logFiles[to - 1] /\ logFiles'[to - 1] = <<>>
    BY <1>1, <1>4, <2>1, Moves
  <2>3. \/ turn > 1 /\ Hole = to /\ logFiles[to] = <<>> /\ to # MaxFiles - 1
        \/ turn = 1 /\ Hole = 0 /\ to = MaxFiles - 1
    BY <1>2, <1>3, <2>1 DEF Solid, Hole, to
  <2>4. Hole' = to - 1 /\ (turn' > 1 => logFiles'[to - 1] = <<>>)
    BY <1>2, <1>3, <1>5, <2>2 DEF Hole, to
  <2>5. CASE logFiles' = logFiles /\ logFiles[to - 1] = <<>>
    <3>1. Ends'
      BY <1>3, <2>1, <2>5 DEF Ends, Pieces
    <3>2. ASSUME ~torn', NEW f \in Slots, NEW g \in Slots, g < f, g # to - 1,
                 logFiles'[f] # <<>>
          PROVE  Full(g)'
      <4>1. Full(g)
        <5>1. CASE g # Hole
          BY <1>3, <2>1, <2>5, <3>2, <5>1 DEF Solid
        <5>2. CASE g = Hole /\ turn = 1
          BY <1>1, <1>3, <2>3, <5>2 DEF Filled
        <5>3. CASE g = Hole /\ g = to
          <6>1. to - 1 < f /\ to - 1 # Hole
            BY <1>4, <3>2, <5>3 DEF Slots
          <6>2. Full(to - 1)
            BY <1>3, <1>7, <2>1, <2>5, <3>2, <6>1 DEF Solid
          <6>3. QED
            BY <1>2, <2>5, <6>2 DEF Full
        <5>4. QED
          BY <2>3, <5>1, <5>2, <5>3
      <4>2. QED
        BY <2>5, <4>1 DEF Full
    <3>3. QED
      BY <2>4, <3>1, <3>2 DEF Solid
  <2>6. CASE /\ logFiles[to - 1] # <<>>
             /\ logFiles'[to] = logFiles[to - 1] /\ logFiles'[to - 1] = <<>>
    <3>1. ASSUME ~torn', NEW f \in Slots, NEW g \in Slots, g < f, g # to - 1,
                 logFiles'[f] # <<>>
          PROVE  Full(g)'
      <4>1. f # to - 1
        BY <2>6, <3>1
      <4>2. CASE g = to
        <5>1. to - 1 # Hole /\ to - 1 < f /\ f \in Slots \ {to, to - 1}
          BY <1>2, <1>4, <2>3, <3>1, <4>1, <4>2 DEF Slots
        <5>2. Full(to - 1)
          BY <1>3, <1>7, <2>1, <3>1, <5>1 DEF Solid
        <5>3. QED
          BY <2>6, <4>2, <5>2 DEF Full
      <4>3. CASE g # to
        <5>1. logFiles'[g] = logFiles[g]
          BY <1>7, <3>1, <4>3
        <5>2. CASE g = Hole
          BY <1>1, <1>3, <2>3, <4>3, <5>1, <5>2 DEF Filled, Full
        <5>3. CASE g # Hole /\ f = to
          <6>1. g < to - 1
            BY <1>4, <3>1, <5>3 DEF Slots
          <6>2. QED
            BY <1>3, <1>7, <2>1, <2>6, <3>1, <5>1, <5>3, <6>1 DEF Solid, Full
        <5>4. CASE g # Hole /\ f # to
          BY <1>3, <1>7, <2>1, <3>1, <4>1, <5>1, <5>4 DEF Solid, Full
        <5>5. QED
          BY <5>2, <5>3, <5>4
      <4>4. QED
        BY <4>2, <4>3
    <3>2. Solid'
      BY <2>4, <3>1 DEF Solid
    <3>3. PICK c : Pieces(c) /\ (c[MaxFiles] > 0 => logFiles[MaxFiles - 1] # <<>>)
      BY <2>1 DEF Ends
    <3>4. c \in [0..MaxFiles -> 0..Len(landed)] /\ c[0] = Len(landed) /\ Len(landed) \in Nat
      BY <1>1, <3>3 DEF Pieces, LogShapes
    <3>5. to \in 1..(MaxFiles - 1) /\ to \in Int /\ to + 1 # to
      BY <1>2, <1>4 DEF Slots
    <3>6. c[to - 1] \in 0..Len(landed) /\ c[to] \in 0..Len(landed)
      <4>1. to - 1 \in 0..MaxFiles /\ to \in 0..MaxFiles
        BY <1>2, <3>5
      <4>2. QED
        BY <3>4, <4>1
    <3>7. PICK d : /\ d \in [0..MaxFiles -> 0..Len(landed)]
                   /\ d[to] = c[to - 1] /\ d[to + 1] = c[to]
                   /\ \A f \in (0..MaxFiles) \ {to, to + 1} : d[f] = c[f]
      <4> DEFINE e == [c EXCEPT ![to] = c[to - 1], ![to + 1] = c[to]]
      <4>1. to \in 0..MaxFiles /\ to + 1 \in 0..MaxFiles
        BY <1>2, <3>5
      <4>2. /\ e \in [0..MaxFiles -> 0..Len(landed)]
            /\ e[to] = c[to - 1] /\ e[to + 1] = c[to]
            /\ \A f \in (0..MaxFiles) \ {to, to + 1} : e[f] = c[f]
        BY <3>4, <3>5, <3>6, <4>1
      <4> HIDE DEF e
      <4>3. QED
        BY <4>2
    <3>8. d[0] = Len(landed)
      BY <1>2, <3>4, <3>5, <3>7
    <3>9. \A f \in Slots : /\ c[f + 1] <= c[f]
                           /\ logFiles[f] = SubSeq(landed, c[f + 1] + 1, c[f])
      BY <3>3 DEF Pieces
    <3>10. to # MaxFiles - 1 => c[to + 1] = c[to]
      <4> SUFFICES ASSUME to # MaxFiles - 1 PROVE c[to + 1] = c[to]
        OBVIOUS
      <4>1. logFiles[to] = <<>> /\ to \in Slots
        BY <1>4, <2>3
      <4>2. /\ SubSeq(landed, c[to + 1] + 1, c[to]) = <<>> /\ c[to + 1] <= c[to]
        BY <3>9, <4>1
      <4>3. c[to + 1] \in 0..Len(landed)
        BY <1>2, <3>4, <3>5
      <4>4. \A i \in (c[to + 1] + 1)..c[to] : landed[i] \in Nat
        BY <1>1, <3>4, <3>6, <4>3 DEF LogShapes
      <4>5. Len(SubSeq(landed, c[to + 1] + 1, c[to])) = c[to] - c[to + 1]
        BY <3>4, <3>6, <4>2, <4>3, <4>4, SubSeqProperties
      <4>6. c[to] - c[to + 1] = 0
        BY <4>2, <4>5
      <4>7. QED
        BY <3>6, <4>3, <4>6
    <3>11. ASSUME NEW f \in Slots
           PROVE  d[f + 1] <= d[f] /\ logFiles'[f] = SubSeq(landed, d[f + 1] + 1, d[f])
      <4>1. CASE f = to
        <5>1. /\ c[to - 1 + 1] <= c[to - 1]
              /\ logFiles[to - 1] = SubSeq(landed, c[to - 1 + 1] + 1, c[to - 1])
          BY <1>7, <3>9
        <5>2. to - 1 + 1 = to
          BY <3>5
        <5>3. QED
          BY <2>6, <3>7, <4>1, <5>1, <5>2
      <4>2. CASE f = to - 1
        <5>1. f + 1 = to /\ f \in (0..MaxFiles) \ {to, to + 1}
          BY <1>2, <3>5, <4>2
        <5>2. d[f + 1] = c[to - 1] /\ d[f] = c[to - 1]
          BY <3>7, <4>2, <5>1
        <5>3. SubSeq(landed, c[to - 1] + 1, c[to - 1]) = <<>>
          BY <3>4, <3>6, SubSeqEmpty
        <5>4. logFiles'[f] = <<>> /\ d[f + 1] <= d[f]
          BY <2>6, <3>6, <4>2, <5>2
        <5>5. SubSeq(landed, d[f + 1] + 1, d[f]) = <<>>
          BY <5>2, <5>3
        <5>6. QED
          BY <5>4, <5>5
      <4>3. CASE f = to + 1
        <5>1. to # MaxFiles - 1 /\ f + 1 \in (0..MaxFiles) \ {to, to + 1}
          BY <1>2, <3>5, <4>3 DEF Slots
        <5>2. d[f] = c[f] /\ d[f + 1] = c[f + 1]
          BY <3>7, <3>10, <4>3, <5>1
        <5>3. f \in Slots \ {to, to - 1}
          BY <3>5, <4>3
        <5>4. QED
          BY <1>7, <3>9, <5>2, <5>3
      <4>4. CASE f \notin {to, to - 1, to + 1}
        <5>1. f \in (0..MaxFiles) \ {to, to + 1} /\ f + 1 \in (0..MaxFiles) \ {to, to + 1}
          BY <1>2, <3>5, <4>4 DEF Slots
        <5>2. QED
          BY <1>7, <3>7, <3>9, <4>4, <5>1
      <4>5. QED
        BY <4>1, <4>2, <4>3, <4>4
    <3>12. Pieces(d)'
      BY <1>3, <3>7, <3>8, <3>11 DEF Pieces
    <3>13. d[MaxFiles] > 0 => logFiles'[MaxFiles - 1] # <<>>
      <4>1. CASE to = MaxFiles - 1
        BY <2>6, <4>1
      <4>2. CASE to # MaxFiles - 1
        <5>1. /\ MaxFiles \in (0..MaxFiles) \ {to, to + 1}
              /\ MaxFiles - 1 \in Slots \ {to, to - 1}
          BY <1>2, <3>5, <4>2 DEF Slots
        <5>2. QED
          BY <1>7, <3>3, <3>7, <5>1
      <4>3. QED
        BY <4>1, <4>2
    <3>14. QED
      BY <3>2, <3>12, <3>13 DEF Ends
  <2>7. QED
    BY <2>2, <2>5, <2>6
<1>13. QED
  BY <1>8, <1>9, <1>10, <1>11, <1>12 DEF LogInv

(* Every step of the logger keeps the invariant.                           *)
LEMMA LogNextKeeps == LogInv /\ [LogNext]_logVars => LogInv'
<1> SUFFICES ASSUME LogInv, [LogNext]_logVars PROVE LogInv'
  OBVIOUS
<1>1. CASE UNCHANGED logVars
  BY <1>1 DEF LogInv, LogShapes, Waiting, InOrder, FilesInOrder, Filled, Full, Ends, Pieces,
              Solid, Hole, logVars
<1>2. QED
  BY <1>1, LogLineKeeps, LinkStartsKeeps, RenameKeeps, RotatedKeeps, WriteEndsKeeps,
     CloseLogKeeps, RestartedKeeps DEF LogNext, Exits, Crashes

-----------------------------------------------------------------------------
(* The lines are in order from the oldest file to the end of the chain,    *)
(* every rotated file is full, and until a rename fails the files are the  *)
(* end of what landed, with no gap below a file but the one a rotation is  *)
(* filling.                                                                *)
THEOREM LogInvariant == LogSpec => []LogInv
<1>1. QED
  BY LogInitHolds, LogNextKeeps, PTL DEF LogSpec

(* What the variables of the logger hold, at every await.                  *)
THEOREM LogTypeCorrect == LogSpec => []LogTypeOK
<1>1. QED
  BY LogInvariant, InvKept, PTL

(* A log that rotates keeps the latest lines, in order (logger.ts:73),     *)
(* whatever fails and whenever the process ends.                           *)
THEOREM LogIsKept == LogSpec => []LogKept
<1>1. QED
  BY LogInvariant, InvKept, PTL

-----------------------------------------------------------------------------
(* The diff worker client.                                                 *)

(* A thread is posted nothing but requests.                                *)
DiffInv == DiffTypeOK /\ inbox \in [Threads -> Seq(Requests)]

(* No thread has been started.                                             *)
LEMMA DiffInitHolds == DiffInit => DiffInv
<1> SUFFICES ASSUME DiffInit PROVE DiffInv
  OBVIOUS
<1>1. 0 \in 0..MaxThreads /\ <<>> \in Seq(Requests)
  BY DiffAssumption
<1>2. QED
  BY <1>1 DEF DiffInit, DiffInv, DiffTypeOK

(* A request is posted to the thread in place, or to a new one.            *)
LEMMA DiffKeeps == ASSUME DiffInv, NEW r \in Requests, Diff(r) PROVE DiffInv'
<1>1. /\ request' = [request EXCEPT ![r] = "pending"] /\ ~disposed
      /\ inbox' = [inbox EXCEPT ![current'] = Append(@, r)]
      /\ UNCHANGED <<disabled, disposed, failures>>
  BY DEF Diff, Post
<1>2. /\ thread' \in [Threads -> {"none", "live", "failing", "ending", "gone"}]
      /\ current' \in Threads /\ thread'[current'] \in {"live", "failing"}
      /\ \A w \in Threads : thread[w] \in {"live", "failing"} => thread'[w] \in {"live", "failing"}
  <2>1. CASE current # 0
    BY <2>1, DiffAssumption DEF Diff, EnsureWorker, DiffInv, DiffTypeOK, Threads
  <2>2. CASE current = 0
    BY <2>2 DEF Diff, EnsureWorker, EnsureNew, DiffInv, DiffTypeOK
  <2>3. QED
    BY <2>1, <2>2
<1>3. inbox' \in [Threads -> Seq(Requests)] /\ \A w \in Threads \ {current'} : inbox'[w] = inbox[w]
  BY <1>1, <1>2 DEF DiffInv
<1>4. current' \in 0..MaxThreads
  BY <1>2, DiffAssumption DEF Threads
<1>5. request' \in [Requests -> {"none", "pending", "fallback", "answered"}]
  BY <1>1 DEF DiffInv, DiffTypeOK
<1>6. QED
  BY <1>1, <1>2, <1>3, <1>4, <1>5 DEF DiffInv, DiffTypeOK

(* What becomes of a thread, and of the requests it leaves unanswered.     *)
LEMMA ThreadKeeps ==
    ASSUME DiffInv, NEW w \in Threads,
           Settle(w) \/ Fails(w) \/ ErrorEvent(w) \/ ExitEvent(w)
    PROVE  DiffInv'
<1>1. CASE Settle(w)
  <2>1. inbox[w] \in Seq(Requests) /\ inbox[w] # <<>> /\ inbox' = [inbox EXCEPT ![w] = Tail(@)]
    BY <1>1 DEF Settle, DiffInv
  <2>2. Tail(inbox[w]) \in Seq(Requests) /\ Head(inbox[w]) \in Requests
    BY <2>1
  <2>3. /\ inbox' \in [Threads -> Seq(Requests)]
        /\ \A v \in Threads : inbox'[v] # <<>> => inbox[v] # <<>>
    BY <2>1, <2>2 DEF DiffInv
  <2>4. request' \in [Requests -> {"none", "pending", "fallback", "answered"}]
    BY <1>1, <2>2 DEF Settle, DiffInv, DiffTypeOK
  <2>5. QED
    BY <1>1, <2>3, <2>4 DEF Settle, DiffInv, DiffTypeOK
<1>2. CASE Fails(w)
  BY <1>2 DEF Fails, DiffInv, DiffTypeOK, Threads
<1>3. CASE ErrorEvent(w)
  <2>1. /\ inbox' = [inbox EXCEPT ![w] = <<>>] /\ thread' = [thread EXCEPT ![w] = "ending"]
        /\ <<>> \in Seq(Requests) /\ current' = 0
        /\ UNCHANGED <<disabled, disposed, failures>>
    BY <1>3 DEF ErrorEvent
  <2>2. request' \in [Requests -> {"none", "pending", "fallback", "answered"}]
    BY <1>3 DEF ErrorEvent, FailAll, DiffInv, DiffTypeOK
  <2>3. QED
    BY <2>1, <2>2, DiffAssumption DEF DiffInv, DiffTypeOK
<1>4. CASE ExitEvent(w)
  <2>1. /\ thread' = [thread EXCEPT ![w] = "gone"] /\ thread[w] = "ending"
        /\ current' = 0 /\ UNCHANGED <<inbox, disabled, disposed, failures>>
    BY <1>4 DEF ExitEvent
  <2>2. request' \in [Requests -> {"none", "pending", "fallback", "answered"}]
    BY <1>4 DEF ExitEvent, FailAll, DiffInv, DiffTypeOK
  <2>3. QED
    BY <2>1, <2>2, DiffAssumption DEF DiffInv, DiffTypeOK
<1>5. QED
  BY <1>1, <1>2, <1>3, <1>4

(* dispose ends the thread in place and forgets what it was posted.        *)
LEMMA DisposeKeeps == DiffInv /\ Dispose => DiffInv'
<1> SUFFICES ASSUME DiffInv, Dispose PROVE DiffInv'
  OBVIOUS
<1>1. <<>> \in Seq(Requests) /\ 0 \in 0..MaxThreads
  BY DiffAssumption
<1>2. inbox' \in [Threads -> Seq(Requests)]
  BY <1>1 DEF Dispose, DiffInv
<1>3. QED
  BY <1>1, <1>2 DEF Dispose, DiffInv, DiffTypeOK

(* Every step of the client keeps the invariant.                           *)
LEMMA DiffNextKeeps == DiffInv /\ [DiffNext]_diffVars => DiffInv'
<1> SUFFICES ASSUME DiffInv, [DiffNext]_diffVars PROVE DiffInv'
  OBVIOUS
<1>1. ASSUME NEW r \in Requests, InProcess(r) \/ StartFails(r) \/ TimedOut(r) \/ FallsBack(r)
      PROVE  DiffInv'
  <2>1. request' \in [Requests -> {"none", "pending", "fallback", "answered"}]
    BY <1>1 DEF InProcess, StartFails, TimedOut, FallsBack, DiffInv, DiffTypeOK
  <2>2. UNCHANGED <<current, thread, inbox, disposed>>
    BY <1>1 DEF InProcess, StartFails, TimedOut, FallsBack
  <2>3. QED
    BY <2>1, <2>2 DEF DiffInv, DiffTypeOK
<1>2. CASE UNCHANGED diffVars
  BY <1>2 DEF diffVars, DiffInv, DiffTypeOK
<1>3. QED
  BY <1>1, <1>2, DiffKeeps, ThreadKeeps, DisposeKeeps DEF DiffNext

(* What is posted is posted to a thread that can answer it, and the worker *)
(* the client keeps is one that has not ended (diffWorkerClient.ts:69).    *)
THEOREM DiffTypeCorrect == DiffSpec => []DiffTypeOK
<1>1. DiffInv => DiffTypeOK
  BY DEF DiffInv
<1>2. QED
  BY <1>1, DiffInitHolds, DiffNextKeeps, PTL DEF DiffSpec

-----------------------------------------------------------------------------
(* The main process.                                                       *)

(* A step of the whole is a step of one part and leaves the others alone.  *)
LEMMA PartSteps ==
    [ApplicationNext]_applicationVars =>
        /\ [QueueNext]_queueVars /\ [HistoryNext]_historyVars
        /\ [LifecycleNext]_lifecycleVars /\ [StorageNext]_storageVars
        /\ [DiffNext]_diffVars /\ [LogNext]_logVars
  BY DEF ApplicationNext, applicationVars

(* A part that does not run starts as one that does.                       *)
LEMMA PartInits ==
    ApplicationInit =>
        /\ QueueInit /\ HistoryInit /\ LifecycleInit
        /\ StorageInit /\ DiffInit /\ LogInit
  BY DEF ApplicationInit

(* The application implements each of its parts, so that every theorem     *)
(* about one of them holds of it.                                          *)
THEOREM PartsImplemented ==
    ApplicationSpec =>
        /\ QueueFairSpec /\ HistorySpec /\ LifecycleSpec
        /\ StorageSpec /\ DiffSpec /\ LogSpec
<1>1. QED
  BY PartInits, PartSteps, PTL DEF ApplicationSpec, QueueFairSpec, QueueSpec, HistorySpec,
     LifecycleSpec, StorageSpec, DiffSpec, LogSpec

(* Every variable of every part has its type, beside all the others.       *)
THEOREM ApplicationTypeCorrect == ApplicationSpec => []ApplicationTypeOK
<1>1. QueueSpec => []QueueTypeOK
  BY TypeCorrect
<1>2. HistorySpec => []HistoryTypeOK
  BY HistoryTypeCorrect
<1>3. LogSpec => []LogTypeOK
  BY LogTypeCorrect
<1>4. /\ QueueTypeOK /\ HistoryTypeOK /\ LifecycleTypeOK
      /\ StorageTypeOK /\ DiffTypeOK /\ LogTypeOK
      => ApplicationTypeOK
  BY DEF ApplicationTypeOK
<1>5. QED
  BY <1>1, <1>2, <1>3, <1>4, PartsImplemented, LifecycleTypeCorrect, StorageTypeCorrect,
     DiffTypeCorrect, PTL DEF QueueFairSpec
=============================================================================
