--------------------------- MODULE RendererProofs ---------------------------
(***************************************************************************)
(* For any files, any number of clicks, versions and calls in flight: the  *)
(* window's types, that its spinners end with their calls, that nothing is *)
(* forced unasked, and that it comes to show what is selected.             *)
(*                                                                         *)
(* What the window will show is decided by the latest call of each kind:   *)
(* the last in the order in which they were made, whose answer comes last  *)
(* too as long as no answer has overtaken another.                         *)
(***************************************************************************)
EXTENDS Renderer, SequenceTheorems, TLAPS

-----------------------------------------------------------------------------
(* What the variables hold.                                                *)
Snapshots  == [versions : Numbers, deleted : BOOLEAN]
Dialogs    == [version : Versions, expected : Versions \cup {Nothing}, conflict : BOOLEAN,
               busy : BOOLEAN, over : BOOLEAN]
Recoveries == [version : Versions, outcome : {"none", "occupied", "failed", "recovered"},
               busy : BOOLEAN]
Modes      == {"preview", "previous", "current"}

FileCalls     == [op : {"file"}, of : FileIds, then : Versions \cup {Nothing, Relist},
                  got : Snapshots \cup {Nothing}]
CapturedCalls == [op : {"captured"}, of : FileIds, then : {Nothing}, got : Snapshots \cup {Nothing}]
VersionCalls  == [op : {"version"}, of : Versions, then : {Nothing}, got : {Nothing}]
DiffsAsked    == [op : {"diff"}, of : Versions \X Modes, then : {Nothing}, got : {Nothing}]
ListCalls     == [op : {"files"}, of : {"files", "deleted"}, then : {Nothing, "select"},
                  got : {Nothing}]
OtherCalls    == [op : {"search", "vault"}, of : {Nothing}, then : {Nothing}, got : {Nothing}]
DialogCalls   == [op : {"dialog"}, of : FileIds, then : Versions, got : Snapshots \cup {Nothing}]
RestoreCalls  == [op : {"restore"}, of : Dialogs, then : {Nothing},
                  got : [conflict : BOOLEAN, now : Numbers] \cup {Nothing}]
RecoverCalls  == [op : {"recover"}, of : Recoveries, then : {Nothing},
                  got : {"occupied", "failed", "recovered", Nothing}]

CallSet == FileCalls \cup CapturedCalls \cup VersionCalls \cup DiffsAsked \cup ListCalls
           \cup OtherCalls \cup DialogCalls \cup RestoreCalls \cup RecoverCalls

Types ==
    /\ captures \in [FileIds -> Numbers] /\ recorded \in 0..MaxCaptures
    /\ \A f \in FileIds : captures[f] <= 2 + recorded
    /\ deleted \subseteq Deleted /\ notices \in Seq(FileIds) /\ calls \in Seq(CallSet)
    /\ selected \in FileIds \cup {Nothing} /\ header \in FileIds \cup {Nothing} /\ gone \in BOOLEAN
    /\ picked \in Versions \cup {Nothing} /\ content \in Versions \cup {Nothing}
    /\ timeline \in Versions \cup {Nothing}
    /\ mode \in Modes /\ view \in {"files", "deleted", "search"} /\ files \in {"files", "deleted"}
    /\ diffLoading \in BOOLEAN /\ filesLoading \in BOOLEAN /\ searching \in BOOLEAN
    /\ dialog \in Dialogs \cup {Nothing} /\ recovery \in Recoveries \cup {Nothing}
    /\ dialog # Nothing => ~(dialog.busy /\ dialog.over)
    /\ overtaken \in BOOLEAN /\ refusals \in Nat

(* What a dialog knew of the main process when it was confirmed, and what  *)
(* the main process has answered since, is so.                             *)
Told(c) ==
    /\ c.op = "restore" =>
          /\ ~c.of.over /\ ~c.of.busy
          /\ c.of.conflict => c.of.version \in conflicts
          /\ c.got # Nothing /\ c.got.conflict => c.of.version \in conflicts
    /\ c.op = "recover" =>
          /\ c.of.outcome = "occupied" => c.of.version \in occupied
          /\ c.got # Nothing /\ c.got = "occupied" => c.of.version \in occupied

Reported ==
    /\ \A i \in DOMAIN calls : Told(calls[i])
    /\ ForcedAfterConflict

(* The last call of one of the kinds K, and that there is none.            *)
NoneOf(K) == \A i \in DOMAIN calls : calls[i].op \notin K

Latest(K, c) ==
    \E i \in DOMAIN calls : /\ calls[i] = c /\ c.op \in K
                            /\ \A j \in DOMAIN calls : j > i => calls[j].op \notin K

Pending(K, x) == \E c : Latest(K, c) /\ c.of = x

FileKind == {"file", "captured"}

(* That the selected file has n versions is still so, or will be heard of. *)
Fresh(n) == n = captures[selected] \/ \E k \in DOMAIN notices : notices[k] = selected

HeaderDue ==
    selected # Nothing => \/ NoneOf({"file"}) /\ header = selected
                          \/ Pending({"file"}, selected)
TimelineDue ==
    selected # Nothing =>
        \/ NoneOf(FileKind) /\ \E n \in Numbers : timeline = <<selected, n>> /\ Fresh(n)
        \/ \E c : Latest(FileKind, c) /\ c.of = selected /\ (c.got # Nothing => Fresh(c.got.versions))
ContentDue ==
    picked # Nothing => (NoneOf({"version"}) /\ content = picked) \/ Pending({"version"}, picked)
DiffDue ==
    picked # Nothing /\ mode # "preview" =>
        \/ InFlight("version")
        \/ NoneOf({"diff"}) /\ diff = <<picked, mode>>
        \/ Pending({"diff"}, <<picked, mode>>)
ListDue ==
    view # "search" => (NoneOf({"files"}) /\ files = view) \/ Pending({"files"}, view)

InTurn == ~overtaken /\ refusals = 0
Due == HeaderDue /\ TimelineDue /\ ContentDue /\ DiffDue /\ ListDue

RendererInv == Types /\ Reported /\ NothingSpins /\ (InTurn => Due)

-----------------------------------------------------------------------------
(* The calls in flight.                                                    *)

(* A call is of one of the sets, and its operation tells which.            *)
LEMMA CallCases ==
    ASSUME NEW c \in CallSet
    PROVE  /\ c.op = "file" => c \in FileCalls
           /\ c.op = "captured" => c \in CapturedCalls
           /\ c.op = "version" => c \in VersionCalls
           /\ c.op = "diff" => c \in DiffsAsked
           /\ c.op = "files" => c \in ListCalls
           /\ c.op \in {"search", "vault"} => c \in OtherCalls
           /\ c.op = "dialog" => c \in DialogCalls
           /\ c.op = "restore" => c \in RestoreCalls
           /\ c.op = "recover" => c \in RecoverCalls
  BY DEF CallSet, FileCalls, CapturedCalls, VersionCalls, DiffsAsked, ListCalls, OtherCalls,
         DialogCalls, RestoreCalls, RecoverCalls

OneCall(next) == next = <<>> \/ \E c \in CallSet : next = <<c>>

(* What is known of the calls when next has been made, and when the call   *)
(* at i has been answered and next has been made.                          *)
Asked(next) ==
    /\ calls' \in Seq(CallSet)
    /\ \A k \in DOMAIN calls' :
          \/ \E j \in DOMAIN calls : calls'[k] = calls[j]
          \/ next # <<>> /\ calls'[k] = next[1]
    /\ \A op : InFlight(op) => InFlight(op)'
    /\ next # <<>> => InFlight(next[1].op)'
    /\ \A K : next = <<>> \/ next[1].op \notin K =>
          /\ NoneOf(K) => NoneOf(K)'
          /\ \A c : Latest(K, c) => Latest(K, c)'
    /\ \A K : next # <<>> /\ next[1].op \in K => Latest(K, next[1])'

OldestOf(K, i) ==
    /\ calls[i].op \in K
    /\ \A j \in DOMAIN calls : j < i => calls[j].op \notin K

Answered(i, next) ==
    /\ calls' \in Seq(CallSet) /\ calls[i] \in CallSet
    /\ \A k \in DOMAIN calls' :
          \/ \E j \in DOMAIN calls : calls'[k] = calls[j]
          \/ next # <<>> /\ calls'[k] = next[1]
    /\ \A op : op # calls[i].op /\ InFlight(op) => InFlight(op)'
    /\ next # <<>> => InFlight(next[1].op)'
    /\ \A K : calls[i].op \notin K /\ (next = <<>> \/ next[1].op \notin K) =>
          /\ NoneOf(K) => NoneOf(K)'
          /\ \A c : Latest(K, c) => Latest(K, c)'
    /\ \A K : next # <<>> /\ next[1].op \in K => Latest(K, next[1])'
    /\ \A K : OldestOf(K, i) /\ (next = <<>> \/ next[1].op \notin K) =>
          /\ ~NoneOf(K)
          /\ \A c : Latest(K, c) => (c = calls[i] /\ NoneOf(K)') \/ Latest(K, c)'

(* What is known of the calls when d, which the main process has read, is  *)
(* in the place of the call at i.                                          *)
ReadAs(i, d) ==
    /\ calls' \in Seq(CallSet)
    /\ \A k \in DOMAIN calls' : k \in DOMAIN calls /\ calls'[k] = IF k = i THEN d ELSE calls[k]
    /\ \A op : InFlight(op) => InFlight(op)'
    /\ \A K : NoneOf(K) => NoneOf(K)'
    /\ \A K, c : Latest(K, c) => Latest(K, c)' \/ (c = calls[i] /\ Latest(K, d)')
    /\ \A K, c : calls[i].op \notin K /\ Latest(K, c) => Latest(K, c)'

(* A call is made.                                                         *)
LEMMA Asking ==
    ASSUME calls \in Seq(CallSet), NEW next, OneCall(next), calls' = calls \o next
    PROVE  Asked(next)
<1>1. CASE next = <<>>
  <2>1. calls' = calls
    BY <1>1
  <2>2. QED
    BY <1>1, <2>1 DEF Asked, InFlight, NoneOf, Latest
<1>2. CASE \E c \in CallSet : next = <<c>>
  <2>1. PICK c \in CallSet : next = <<c>>
    BY <1>2
  <2> DEFINE n == Len(calls)
  <2>2. next # <<>> /\ next[1] = c /\ next \in Seq(CallSet) /\ Len(next) = 1
    BY <2>1
  <2>3. /\ calls' \in Seq(CallSet) /\ n \in Nat
        /\ DOMAIN calls = 1..n /\ DOMAIN calls' = 1..(n + 1)
        /\ \A j \in 1..n : calls'[j] = calls[j]
        /\ calls'[n + 1] = c
    BY <2>1
  <2> HIDE DEF n
  <2>4. \A k \in 1..(n + 1) : k \in 1..n \/ k = n + 1
    BY <2>3
  <2>5. n + 1 \in 1..(n + 1) /\ \A k \in 1..n : k \in 1..(n + 1) /\ n + 1 > k
    BY <2>3
  <2>6. \A k \in 1..(n + 1) : ~(k > n + 1)
    BY <2>3
  <2>7. \A op : InFlight(op) => InFlight(op)'
    BY <2>3, <2>5 DEF InFlight
  <2>8. InFlight(c.op)'
    BY <2>3, <2>5 DEF InFlight
  <2>9. ASSUME NEW K, c.op \notin K
        PROVE  /\ NoneOf(K) => NoneOf(K)'
               /\ \A d : Latest(K, d) => Latest(K, d)'
    BY <2>3, <2>4, <2>5, <2>9 DEF NoneOf, Latest
  <2>10. ASSUME NEW K, c.op \in K PROVE Latest(K, c)'
    BY <2>3, <2>5, <2>6, <2>10 DEF Latest
  <2>11. QED
    BY <2>2, <2>3, <2>4, <2>7, <2>8, <2>9, <2>10 DEF Asked
<1>3. QED
  BY <1>1, <1>2 DEF OneCall

(* What is left when the call at i is answered.                            *)
LEMMA Removal ==
    ASSUME NEW q \in Seq(CallSet), NEW i \in DOMAIN q
    PROVE  LET r == RemoveAt(q, i) IN
           /\ r \in Seq(CallSet) /\ Len(q) \in Nat /\ DOMAIN q = 1..Len(q)
           /\ DOMAIN r = 1..(Len(q) - 1)
           /\ \A k \in DOMAIN r : r[k] = IF k < i THEN q[k] ELSE q[k + 1]
<1> DEFINE a == SubSeq(q, 1, i - 1)
           b == SubSeq(q, i + 1, Len(q))
           r == RemoveAt(q, i)
<1>1. Len(q) \in Nat /\ DOMAIN q = 1..Len(q) /\ i \in 1..Len(q)
  BY LenProperties
<1>2. \A k \in 1..Len(q) : q[k] \in CallSet
  BY <1>1, ElementOfSeq
<1>3. /\ a \in Seq(CallSet) /\ Len(a) = i - 1 /\ \A k \in 1..(i - 1) : a[k] = q[k]
  <2>1. \A k \in 1..(i - 1) : k \in 1..Len(q)
    BY <1>1
  <2>2. a = SubSeq(q, 1, i - 1) /\ i - 1 \in Int
    BY <1>1
  <2> HIDE DEF a
  <2>3. /\ a \in Seq(CallSet) /\ Len(a) = IF 1 <= i - 1 THEN i - 1 - 1 + 1 ELSE 0
        /\ \A k \in 1..(i - 1 - 1 + 1) : a[k] = q[1 + k - 1]
    BY <1>2, <2>1, <2>2, SubSeqProperties
  <2>4. QED
    BY <1>1, <2>3
<1>4. /\ b \in Seq(CallSet) /\ Len(b) = Len(q) - i
      /\ \A k \in 1..(Len(q) - i) : b[k] = q[k + i]
  <2>1. \A k \in (i + 1)..Len(q) : k \in 1..Len(q)
    BY <1>1
  <2>2. b = SubSeq(q, i + 1, Len(q)) /\ i + 1 \in Int /\ Len(q) \in Int
    BY <1>1
  <2> HIDE DEF b
  <2>3. /\ b \in Seq(CallSet) /\ Len(b) = IF i + 1 <= Len(q) THEN Len(q) - (i + 1) + 1 ELSE 0
        /\ \A k \in 1..(Len(q) - (i + 1) + 1) : b[k] = q[i + 1 + k - 1]
    BY <1>2, <2>1, <2>2, SubSeqProperties
  <2>4. Len(q) - (i + 1) + 1 = Len(q) - i /\ (i + 1 <= Len(q) \/ Len(q) - i = 0)
    BY <1>1
  <2>5. Len(b) = Len(q) - i
    BY <2>3, <2>4
  <2>6. ASSUME NEW k \in 1..(Len(q) - i) PROVE b[k] = q[k + i]
    <3>1. b[k] = q[i + 1 + k - 1]
      BY <2>3, <2>4
    <3>2. i + 1 + k - 1 = k + i
      BY <1>1
    <3>3. QED
      BY <3>1, <3>2
  <2>7. QED
    BY <2>3, <2>5, <2>6
<1>5. r = a \o b
  BY DEF RemoveAt
<1> HIDE DEF a, b, r
<1>6. /\ r \in Seq(CallSet) /\ Len(r) = Len(q) - 1
      /\ \A k \in 1..(Len(q) - 1) : r[k] = IF k <= i - 1 THEN a[k] ELSE b[k - (i - 1)]
  <2>1. Len(a) + Len(b) = Len(q) - 1
    BY <1>1, <1>3, <1>4
  <2>2. /\ r \in Seq(CallSet) /\ Len(r) = Len(a) + Len(b)
        /\ \A k \in 1..(Len(a) + Len(b)) : r[k] = IF k <= Len(a) THEN a[k] ELSE b[k - Len(a)]
    BY <1>3, <1>4, <1>5, ConcatProperties
  <2>3. QED
    BY <1>3, <2>1, <2>2
<1>7. DOMAIN r = 1..(Len(q) - 1)
  BY <1>6, LenProperties
<1>8. ASSUME NEW k \in 1..(Len(q) - 1) PROVE r[k] = IF k < i THEN q[k] ELSE q[k + 1]
  <2>1. CASE k < i
    BY <1>1, <1>3, <1>6, <2>1
  <2>2. CASE ~(k < i)
    <3>1. k - (i - 1) \in 1..(Len(q) - i) /\ ~(k <= i - 1) /\ k - (i - 1) + i = k + 1
      BY <1>1, <2>2
    <3>2. QED
      BY <1>4, <1>6, <2>2, <3>1
  <2>3. QED
    BY <2>1, <2>2
<1>9. QED
  BY <1>1, <1>6, <1>7, <1>8 DEF r

(* A call is answered, and another may be made.                            *)
LEMMA Answering ==
    ASSUME calls \in Seq(CallSet), NEW i \in DOMAIN calls, NEW next, OneCall(next),
           calls' = RemoveAt(calls, i) \o next
    PROVE  Answered(i, next)
<1> DEFINE n == Len(calls)
           r == RemoveAt(calls, i)
           m == Len(next)
<1>1. /\ r \in Seq(CallSet) /\ n \in Nat /\ DOMAIN calls = 1..n /\ DOMAIN r = 1..(n - 1)
      /\ \A k \in 1..(n - 1) : r[k] = IF k < i THEN calls[k] ELSE calls[k + 1]
  BY Removal
<1>2. /\ next \in Seq(CallSet) /\ m \in {0, 1} /\ (next = <<>> <=> m = 0)
      /\ m = 1 => next # <<>> /\ next[1] \in CallSet
  <2>1. CASE next = <<>>
    BY <2>1
  <2>2. CASE \E c \in CallSet : next = <<c>>
    <3>1. PICK c \in CallSet : next = <<c>>
      BY <2>2
    <3>2. next \in Seq(CallSet) /\ m = 1 /\ next # <<>> /\ next[1] = c
      BY <3>1
    <3>3. QED
      BY <3>2
  <2>3. QED
    BY <2>1, <2>2 DEF OneCall
<1> HIDE DEF n, r, m
<1>3. /\ Len(r) = n - 1 /\ Len(next) = m /\ n \in Nat /\ i \in 1..n /\ n - 1 \in Nat
  <2>1. i \in 1..n
    BY <1>1
  <2>2. Len(r) = n - 1
    BY <1>1, <2>1, LenProperties
  <2>3. QED
    BY <1>1, <2>1, <2>2 DEF m
<1>4. /\ calls' \in Seq(CallSet) /\ DOMAIN calls' = 1..(n - 1 + m)
      /\ \A k \in 1..(n - 1) : calls'[k] = r[k]
      /\ m = 1 => calls'[n] = next[1]
  <2>1. calls' = r \o next
    BY DEF r
  <2>2. /\ r \o next \in Seq(CallSet) /\ Len(r \o next) = n - 1 + m
        /\ \A k \in 1..(n - 1 + m) : (r \o next)[k] = IF k <= n - 1 THEN r[k] ELSE next[k - (n - 1)]
    BY <1>1, <1>2, <1>3, ConcatProperties
  <2>3. DOMAIN (r \o next) = 1..(n - 1 + m)
    BY <2>2, LenProperties
  <2>4. \A k \in 1..(n - 1) : k \in 1..(n - 1 + m) /\ k <= n - 1
    BY <1>2, <1>3
  <2>5. m = 1 => n \in 1..(n - 1 + m) /\ ~(n <= n - 1) /\ n - (n - 1) = 1
    BY <1>3
  <2>6. QED
    BY <2>1, <2>2, <2>3, <2>4, <2>5
<1>5. \A k \in DOMAIN calls' : k \in 1..(n - 1) \/ (m = 1 /\ k = n)
  BY <1>2, <1>3, <1>4
<1>6. \A k \in 1..(n - 1) : k \in 1..n /\ k + 1 \in 1..n /\ k \in DOMAIN calls'
  BY <1>2, <1>3, <1>4
<1>6a. m = 1 => next # <<>> /\ calls'[n] = next[1]
  BY <1>2, <1>4
<1>7. \A k \in DOMAIN calls' : \/ \E j \in DOMAIN calls : calls'[k] = calls[j]
                               \/ next # <<>> /\ calls'[k] = next[1]
  <2> SUFFICES ASSUME NEW k \in DOMAIN calls'
               PROVE  \/ \E j \in DOMAIN calls : calls'[k] = calls[j]
                      \/ next # <<>> /\ calls'[k] = next[1]
    OBVIOUS
  <2>1. CASE k \in 1..(n - 1)
    BY <1>1, <1>4, <1>6, <2>1
  <2>2. CASE m = 1 /\ k = n
    BY <1>6a, <2>2
  <2>3. QED
    BY <1>5, <2>1, <2>2
(* Where a call that is not answered has gone. *)
<1> DEFINE to(j) == IF j < i THEN j ELSE j - 1
<1>8. \A j \in DOMAIN calls \ {i} : to(j) \in 1..(n - 1) /\ calls'[to(j)] = calls[j]
  <2> SUFFICES ASSUME NEW j \in DOMAIN calls \ {i}
               PROVE  to(j) \in 1..(n - 1) /\ calls'[to(j)] = calls[j]
    OBVIOUS
  <2>1. j \in 1..n /\ i \in 1..n /\ j # i
    BY <1>1, <1>3
  <2>2. CASE j < i
    <3>1. j \in 1..(n - 1)
      BY <1>3, <2>1, <2>2
    <3>2. QED
      BY <1>1, <1>4, <2>2, <3>1
  <2>3. CASE ~(j < i)
    <3>1. j - 1 \in 1..(n - 1) /\ ~(j - 1 < i) /\ j - 1 + 1 = j
      BY <1>3, <2>1, <2>3
    <3>2. QED
      BY <1>1, <1>4, <2>3, <3>1
  <2>4. QED
    BY <2>2, <2>3
(* And where one that is there has been. *)
<1> DEFINE from(k) == IF k < i THEN k ELSE k + 1
<1>9. \A k \in 1..(n - 1) : from(k) \in DOMAIN calls \ {i} /\ calls'[k] = calls[from(k)]
  BY <1>1, <1>3, <1>4, <1>6
<1>10. \A j \in DOMAIN calls \ {i}, k \in 1..(n - 1) : k > to(j) => from(k) > j
  BY <1>1, <1>3
<1> HIDE DEF to, from
<1>11. ASSUME NEW op, op # calls[i].op, InFlight(op) PROVE InFlight(op)'
  <2>1. PICK j \in DOMAIN calls \ {i} : calls[j].op = op
    BY <1>11 DEF InFlight
  <2>2. QED
    BY <1>6, <1>8, <2>1 DEF InFlight
<1>12. ASSUME next # <<>>
       PROVE  m = 1 /\ n \in DOMAIN calls' /\ calls'[n] = next[1] /\ InFlight(next[1].op)'
  <2>1. m = 1 /\ n \in DOMAIN calls' /\ calls'[n] = next[1]
    BY <1>2, <1>3, <1>4, <1>12
  <2>2. QED
    BY <2>1 DEF InFlight
<1>13. ASSUME NEW K, next # <<>>, next[1].op \in K PROVE Latest(K, next[1])'
  <2>1. \A k \in DOMAIN calls' : ~(k > n)
    BY <1>2, <1>3, <1>4
  <2>2. QED
    BY <1>12, <1>13, <2>1 DEF Latest
<1>14. ASSUME NEW K, next = <<>> \/ next[1].op \notin K, NEW c, NEW j \in DOMAIN calls \ {i},
              calls[j] = c, c.op \in K, \A k \in DOMAIN calls : k > j => calls[k].op \notin K
       PROVE  Latest(K, c)'
  <2>1. to(j) \in DOMAIN calls' /\ calls'[to(j)] = c
    BY <1>6, <1>8, <1>14
  <2>2. ASSUME NEW k \in DOMAIN calls', k > to(j) PROVE calls'[k].op \notin K
    <3>1. CASE k \in 1..(n - 1)
      BY <1>9, <1>10, <1>14, <2>2, <3>1
    <3>2. CASE m = 1 /\ k = n
      BY <1>6a, <1>14, <3>2
    <3>3. QED
      BY <1>5, <3>1, <3>2
  <2>3. QED
    BY <1>14, <2>1, <2>2 DEF Latest
<1>15. ASSUME NEW K, calls[i].op \notin K, next = <<>> \/ next[1].op \notin K
       PROVE  /\ NoneOf(K) => NoneOf(K)'
              /\ \A c : Latest(K, c) => Latest(K, c)'
  <2>1. NoneOf(K) => NoneOf(K)'
    BY <1>7, <1>15 DEF NoneOf
  <2>2. ASSUME NEW c, Latest(K, c) PROVE Latest(K, c)'
    <3>1. PICK j \in DOMAIN calls : /\ calls[j] = c /\ c.op \in K
                                    /\ \A k \in DOMAIN calls : k > j => calls[k].op \notin K
      BY <2>2 DEF Latest
    <3>2. j # i
      BY <1>15, <3>1
    <3>3. QED
      BY <1>14, <1>15, <3>1, <3>2
  <2>3. QED
    BY <2>1, <2>2
<1>16. ASSUME NEW K, calls[i].op \in K, \A j \in DOMAIN calls : j < i => calls[j].op \notin K,
              next = <<>> \/ next[1].op \notin K
       PROVE  /\ ~NoneOf(K)
              /\ \A c : Latest(K, c) => (c = calls[i] /\ NoneOf(K)') \/ Latest(K, c)'
  <2>1. ~NoneOf(K)
    BY <1>16 DEF NoneOf
  <2>2. ASSUME NEW c, Latest(K, c) PROVE (c = calls[i] /\ NoneOf(K)') \/ Latest(K, c)'
    <3>1. PICK j \in DOMAIN calls : /\ calls[j] = c /\ c.op \in K
                                    /\ \A k \in DOMAIN calls : k > j => calls[k].op \notin K
      BY <2>2 DEF Latest
    <3>2. CASE j # i
      BY <1>14, <1>16, <3>1, <3>2
    <3>3. CASE j = i
      <4>1. \A k \in DOMAIN calls \ {i} : calls[k].op \notin K
        BY <1>1, <1>3, <1>16, <3>1, <3>3
      <4>2. \A k \in 1..(n - 1) : calls'[k].op \notin K
        BY <1>9, <4>1
      <4>3. NoneOf(K)'
        BY <1>6a, <1>5, <1>16, <4>2 DEF NoneOf
      <4>4. QED
        BY <3>1, <3>3, <4>3
    <3>4. QED
      BY <3>2, <3>3
  <2>3. QED
    BY <2>1, <2>2
<1>17. calls[i] \in CallSet
  BY <1>1, <1>3, ElementOfSeq
<1>18. QED
  BY <1>4, <1>7, <1>11, <1>12, <1>13, <1>15, <1>16, <1>17 DEF Answered, OldestOf


(* A call is read.                                                         *)
LEMMA Reading ==
    ASSUME calls \in Seq(CallSet), NEW i \in DOMAIN calls, NEW d \in CallSet,
           d.op = calls[i].op, calls' = [calls EXCEPT ![i] = d]
    PROVE  ReadAs(i, d)
<1>1. /\ calls' \in Seq(CallSet) /\ DOMAIN calls' = DOMAIN calls
      /\ \A k \in DOMAIN calls : calls'[k] = IF k = i THEN d ELSE calls[k]
  <2>1. DOMAIN calls = 1..Len(calls) /\ Len(calls) \in Nat
    BY LenProperties
  <2>2. calls \in [1..Len(calls) -> CallSet]
    BY <2>1, ElementOfSeq
  <2>3. calls' \in [1..Len(calls) -> CallSet]
    BY <2>1, <2>2
  <2>4. calls' \in Seq(CallSet)
    BY <2>1, <2>3
  <2>5. QED
    BY <2>1, <2>3, <2>4
<1>2. \A k \in DOMAIN calls : calls'[k].op = calls[k].op
  BY <1>1
<1>3. /\ \A K, c : Latest(K, c) => Latest(K, c)' \/ (c = calls[i] /\ Latest(K, d)')
      /\ \A K, c : calls[i].op \notin K /\ Latest(K, c) => Latest(K, c)'
  BY <1>1, <1>2 DEF Latest
<1>4. QED
  BY <1>1, <1>2, <1>3 DEF ReadAs, InFlight, NoneOf

-----------------------------------------------------------------------------
(* The steps. What they leave alone is expanded everywhere.                *)
USE DEF mainVars, fileVars, diffView, listVars, restoreVars, recoverVars, dialogVars, Clicks, Ask,
        Served, Refused

(* One field of a dialog changes.                                          *)
LEMMA DialogChanged ==
    ASSUME NEW d \in Dialogs, NEW b \in BOOLEAN
    PROVE  /\ [d EXCEPT !.busy = b] \in Dialogs
           /\ [d EXCEPT !.busy = b].version = d.version
           /\ [d EXCEPT !.busy = b].conflict = d.conflict
           /\ [d EXCEPT !.busy = b].busy = b
           /\ [d EXCEPT !.busy = b].over = d.over
  BY Zenon DEF Dialogs

(* The main process has reported a conflict.                               *)
LEMMA InConflictIs ==
    ASSUME NEW d \in Dialogs, NEW v \in Versions
    PROVE  LET e == [d EXCEPT !.busy = FALSE, !.conflict = TRUE, !.expected = v] IN
           e \in Dialogs /\ ~e.busy /\ e.version = d.version
  BY Zenon DEF Dialogs

(* The main process has restored the file.                                 *)
LEMMA OutcomeIs ==
    ASSUME NEW d \in Dialogs
    PROVE  LET e == [d EXCEPT !.busy = FALSE, !.over = TRUE] IN
           e \in Dialogs /\ ~e.busy /\ e.version = d.version /\ e.conflict = d.conflict
  BY Zenon DEF Dialogs

(* The main process has answered a recovery.                               *)
LEMMA RecoveryOutcome ==
    ASSUME NEW d \in Recoveries, NEW o \in {"occupied", "failed", "recovered"}
    PROVE  LET e == [d EXCEPT !.busy = FALSE, !.outcome = o] IN
           e \in Recoveries /\ ~e.busy /\ e.version = d.version /\ e.outcome = o
  BY Zenon DEF Recoveries

(* One field of a recovery changes.                                        *)
LEMMA RecoveryChanged ==
    ASSUME NEW d \in Recoveries, NEW b \in BOOLEAN
    PROVE  /\ [d EXCEPT !.busy = b] \in Recoveries
           /\ [d EXCEPT !.busy = b].version = d.version
           /\ [d EXCEPT !.busy = b].outcome = d.outcome
           /\ [d EXCEPT !.busy = b].busy = b
  BY Zenon DEF Recoveries

(* What is known of the main process when it has captured a version.       *)
Recorded ==
    /\ captures' \in [FileIds -> Numbers] /\ recorded' \in 0..MaxCaptures
    /\ \A f \in FileIds : captures'[f] <= 2 + recorded'
    /\ deleted' \subseteq Deleted /\ notices' \in Seq(FileIds)
    /\ selected' = selected => \A n : Fresh(n) => Fresh(n)'

(* A capture in the main process, whether or not it adds a version.        *)
LEMMA Recording ==
    ASSUME Types, NEW f \in FileIds, Captures(f)
    PROVE  Recorded
<1>1. /\ captures' \in [FileIds -> Numbers] /\ recorded' \in 0..MaxCaptures
      /\ \A g \in FileIds : captures'[g] <= 2 + recorded'
  <2>1. CASE recorded < MaxCaptures
    <3>1. captures' = [captures EXCEPT ![f] = @ + 1] /\ recorded' = recorded + 1
      BY <2>1 DEF Captures
    <3>2. recorded' \in 0..MaxCaptures /\ recorded \in Nat
      BY <2>1, <3>1, RendererAssumption DEF Types
    <3>3. \A g \in FileIds : captures[g] \in Nat /\ captures[g] >= 1 /\ captures[g] <= 2 + recorded
      BY RendererAssumption DEF Types, Numbers
    <3>4. \A g \in FileIds : captures'[g] = IF g = f THEN captures[g] + 1 ELSE captures[g]
      BY <3>1 DEF Types
    <3>5. \A g \in FileIds : captures'[g] <= 2 + recorded' /\ captures'[g] \in Numbers
      BY <3>1, <3>2, <3>3, <3>4, RendererAssumption DEF Numbers
    <3>6. captures' \in [FileIds -> Numbers]
      BY <3>1, <3>5 DEF Types
    <3>7. QED
      BY <3>2, <3>5, <3>6
  <2>2. CASE ~(recorded < MaxCaptures)
    BY <2>2 DEF Types, Captures
  <2>3. QED
    BY <2>1, <2>2
<1>2. deleted' \subseteq Deleted /\ notices' \in Seq(FileIds)
  <2>1. notices' = notices \/ notices' = Append(notices, f)
    BY DEF Captures
  <2>2. QED
    BY <2>1 DEF Types, Captures
<1>3. ASSUME selected' = selected, NEW n, Fresh(n) PROVE Fresh(n)'
  <2>1. CASE recorded < MaxCaptures
    <3>1. /\ notices' = Append(notices, f) /\ notices \in Seq(FileIds)
          /\ captures' = [captures EXCEPT ![f] = @ + 1] /\ captures \in [FileIds -> Numbers]
      BY <2>1 DEF Types, Captures
    <3>2. Len(notices) + 1 \in DOMAIN notices' /\ notices'[Len(notices) + 1] = f
      BY <3>1
    <3>3. \A k \in DOMAIN notices : k \in DOMAIN notices' /\ notices'[k] = notices[k]
      BY <3>1
    <3>4. QED
      BY <1>3, <3>1, <3>2, <3>3 DEF Fresh
  <2>2. CASE ~(recorded < MaxCaptures)
    BY <1>3, <2>2 DEF Captures, Fresh
  <2>3. QED
    BY <2>1, <2>2
<1>4. QED
  BY <1>1, <1>2, <1>3 DEF Recorded

(* And when the window has heard of one of another file.                   *)
LEMMA Hearing ==
    ASSUME Types, notices # <<>>, notices' = Tail(notices), selected # Head(notices),
           UNCHANGED <<selected, captures>>
    PROVE  \A n : Fresh(n) => Fresh(n)'
<1> SUFFICES ASSUME NEW n, Fresh(n) PROVE Fresh(n)'
  OBVIOUS
<1>1. CASE n = captures[selected]
  BY <1>1 DEF Fresh
<1>2. CASE \E k \in DOMAIN notices : notices[k] = selected
  <2>1. PICK k \in DOMAIN notices : notices[k] = selected
    BY <1>2
  <2>2. notices \in Seq(FileIds) /\ k # 1
    BY <2>1 DEF Types
  <2>3. k - 1 \in DOMAIN notices' /\ notices'[k - 1] = selected
    BY <2>1, <2>2
  <2>4. QED
    BY <2>3 DEF Fresh
<1>3. QED
  BY <1>1, <1>2 DEF Fresh


(* What the main process has read is what is got by the call.              *)
LEMMA GotChanged ==
    ASSUME NEW c \in CallSet, NEW g
    PROVE  LET d == [c EXCEPT !.got = g] IN
           /\ d.op = c.op /\ d.of = c.of /\ d.then = c.then /\ d.got = g
           /\ c.op \in {"file", "captured", "dialog"} /\ g \in Snapshots => d \in CallSet
           /\ c.op = "restore" /\ g \in [conflict : BOOLEAN, now : Numbers] => d \in CallSet
           /\ c.op = "recover" /\ g \in {"occupied", "failed", "recovered"} => d \in CallSet
<1> DEFINE d == [c EXCEPT !.got = g]
<1>1. c = [op |-> c.op, of |-> c.of, then |-> c.then, got |-> c.got]
  BY DEF CallSet, FileCalls, CapturedCalls, VersionCalls, DiffsAsked, ListCalls, OtherCalls,
         DialogCalls, RestoreCalls, RecoverCalls
<1>2. d = [op |-> c.op, of |-> c.of, then |-> c.then, got |-> g]
  BY <1>1
<1>3. d.op = c.op /\ d.of = c.of /\ d.then = c.then /\ d.got = g
  BY <1>2
<1> HIDE DEF d
<1>4. c.op = "file" /\ g \in Snapshots => d \in FileCalls
  BY <1>2, CallCases DEF FileCalls
<1>5. c.op = "captured" /\ g \in Snapshots => d \in CapturedCalls
  BY <1>2, CallCases DEF CapturedCalls
<1>6. c.op = "dialog" /\ g \in Snapshots => d \in DialogCalls
  BY <1>2, CallCases DEF DialogCalls
<1>7. c.op = "restore" /\ g \in [conflict : BOOLEAN, now : Numbers] => d \in RestoreCalls
  BY <1>2, CallCases DEF RestoreCalls
<1>8. c.op = "recover" /\ g \in {"occupied", "failed", "recovered"} => d \in RecoverCalls
  BY <1>2, CallCases DEF RecoverCalls
<1>9. QED
  BY <1>3, <1>4, <1>5, <1>6, <1>7, <1>8 DEF CallSet, d

First(i) ==
    \A j \in DOMAIN calls : j < i => /\ calls[j].op # calls[i].op
                                    /\ (calls[i].op \in FileKind => calls[j].op \notin FileKind)

(* An answer that has overtaken none is that of the oldest of its kind.    *)
LEMMA Turning ==
    ASSUME calls \in Seq(CallSet), overtaken \in BOOLEAN, NEW i \in DOMAIN calls,
           overtaken' = (overtaken \/ \E j \in 1..(i - 1) : Kind(calls[j]) = Kind(calls[i]))
    PROVE  /\ overtaken' \in BOOLEAN
           /\ ~overtaken' => ~overtaken /\ First(i)
<1>1. \A j \in DOMAIN calls : j < i => j \in 1..(i - 1)
  BY LenProperties
<1>2. overtaken' \in BOOLEAN
  BY Zenon
<1>3. ASSUME ~overtaken'
      PROVE  ~overtaken /\ \A j \in 1..(i - 1) : Kind(calls[j]) # Kind(calls[i])
  BY <1>3, Zenon
<1>4. (\A j \in 1..(i - 1) : Kind(calls[j]) # Kind(calls[i])) => First(i)
  BY <1>1 DEF First, Kind, FileKind
<1>5. QED
  BY <1>2, <1>3, <1>4

(* What is known of the calls in flight stays so.                          *)
LEMMA Telling ==
    ASSUME Reported, NEW i \in DOMAIN calls, NEW next, Answered(i, next),
           next # <<>> => next[1].op \notin {"restore", "recover"},
           UNCHANGED <<conflicts, occupied>>
    PROVE  (\A k \in DOMAIN calls : Told(calls[k]))'
<1> SUFFICES ASSUME NEW k \in DOMAIN calls' PROVE Told(calls[k])'
  OBVIOUS
<1>1. CASE \E j \in DOMAIN calls : calls'[k] = calls[j]
  BY <1>1 DEF Reported, Told
<1>2. CASE next # <<>> /\ calls'[k] = next[1]
  BY <1>2 DEF Told
<1>3. QED
  BY <1>1, <1>2 DEF Answered


(* A file is selected.                                                     *)
LEMMA SelectFileKeeps ==
    ASSUME RendererInv, NEW f \in FileIds, NEW then \in Versions \cup {Nothing}, SelectFile(f, then)
    PROVE  RendererInv'
<1> DEFINE asked == <<Call("file", f, then)>>
<1>1. PICK next : /\ calls' = calls \o next /\ OneCall(next)
                  /\ next # <<>> /\ next[1].op = "file" /\ next[1].of = f /\ next[1].got = Nothing
  <2>1. calls' = calls \o asked
    BY DEF RendererInv, Types, SelectFile
  <2>2. /\ OneCall(asked)
        /\ asked # <<>> /\ asked[1].op = "file" /\ asked[1].of = f /\ asked[1].got = Nothing
    BY DEF OneCall, Call, CallSet, FileCalls, RendererInv, Types, SelectFile
  <2>3. QED
    BY <2>1, <2>2
<1>2. Asked(next) /\ calls' \in Seq(CallSet)
  BY <1>1, Asking DEF Asked, RendererInv, Types
<1>3. Types'
  BY <1>1, <1>2 DEF SelectFile, RendererInv, Types
<1>4. Reported'
  BY <1>1, <1>2 DEF Asked, SelectFile, RendererInv, Reported, Told, ForcedAfterConflict
<1>5. NothingSpins'
  BY <1>1, <1>2 DEF Asked, SelectFile, RendererInv, Types, NothingSpins
<1>6. ASSUME InTurn' PROVE Due'
  <2>1. InTurn /\ Due /\ Types
    BY <1>6 DEF SelectFile, RendererInv, Types, InTurn
  <2>2. HeaderDue'
    BY <1>1, <1>2, <2>1 DEF Asked, SelectFile, Types, Due, HeaderDue, Pending
  <2>3. TimelineDue'
    BY <1>1, <1>2, <2>1 DEF Asked, SelectFile, Types, Due, TimelineDue, FileKind, Fresh
  <2>4. ContentDue'
    BY <1>1, <1>2, <2>1 DEF Asked, SelectFile, Types, Due, ContentDue, Pending
  <2>5. DiffDue'
    BY <1>1, <1>2, <2>1 DEF Asked, SelectFile, Types, Due, DiffDue, Pending
  <2>6. ListDue'
    BY <1>1, <1>2, <2>1 DEF Asked, SelectFile, Types, Due, ListDue, Pending
  <2>7. QED
    BY <2>2, <2>3, <2>4, <2>5, <2>6 DEF Due
<1>7. QED
  BY <1>3, <1>4, <1>5, <1>6 DEF RendererInv

(* A version is selected.                                                  *)
LEMMA SelectVersionKeeps ==
    ASSUME RendererInv, NEW v \in Numbers, SelectVersion(v)
    PROVE  RendererInv'
<1> DEFINE asked == <<Call("version", <<timeline[1], v>>, Nothing)>>
<1>1. PICK next : /\ calls' = calls \o next /\ OneCall(next)
                  /\ next # <<>> /\ next[1].op = "version" /\ next[1].of = <<timeline[1], v>>
                  /\ <<timeline[1], v>> \in Versions
  <2>1. calls' = calls \o asked
    BY DEF RendererInv, Types, SelectVersion
  <2>2. /\ OneCall(asked)
        /\ asked # <<>> /\ asked[1].op = "version" /\ asked[1].of = <<timeline[1], v>>
        /\ <<timeline[1], v>> \in Versions
    BY DEF OneCall, Call, CallSet, VersionCalls, Versions, RendererInv, Types, SelectVersion
  <2>3. QED
    BY <2>1, <2>2
<1>2. Asked(next) /\ calls' \in Seq(CallSet)
  BY <1>1, Asking DEF Asked, RendererInv, Types
<1>3. Types'
  BY <1>1, <1>2 DEF SelectVersion, RendererInv, Types
<1>4. Reported'
  BY <1>1, <1>2 DEF Asked, SelectVersion, RendererInv, Reported, Told, ForcedAfterConflict
<1>5. NothingSpins'
  BY <1>1, <1>2 DEF Asked, SelectVersion, RendererInv, Types, NothingSpins
<1>6. ASSUME InTurn' PROVE Due'
  <2>1. InTurn /\ Due /\ Types
    BY <1>6 DEF SelectVersion, RendererInv, Types, InTurn
  <2>2. HeaderDue'
    BY <1>1, <1>2, <2>1 DEF Asked, SelectVersion, Types, Due, HeaderDue, Pending
  <2>3. TimelineDue'
    BY <1>1, <1>2, <2>1 DEF Asked, SelectVersion, Types, Due, TimelineDue, FileKind, Fresh
  <2>4. ContentDue'
    BY <1>1, <1>2, <2>1 DEF Asked, SelectVersion, Types, Due, ContentDue, Pending
  <2>5. DiffDue'
    BY <1>1, <1>2, <2>1 DEF Asked, SelectVersion, Types, Due, DiffDue, Pending
  <2>6. ListDue'
    BY <1>1, <1>2, <2>1 DEF Asked, SelectVersion, Types, Due, ListDue, Pending
  <2>7. QED
    BY <2>2, <2>3, <2>4, <2>5, <2>6 DEF Due
<1>7. QED
  BY <1>3, <1>4, <1>5, <1>6 DEF RendererInv

(* The view is another one.                                                *)
LEMMA SetModeKeeps ==
    ASSUME RendererInv, NEW m \in Modes, SetMode(m)
    PROVE  RendererInv'
<1> DEFINE asked == DiffCalls(picked, m)
<1>1. PICK next : /\ calls' = calls \o next /\ OneCall(next)
                  /\ (next # <<>> => next[1].op = "diff" /\ next[1].of = <<picked, m>>)
                  /\ m = "preview" \/ picked = Nothing \/ next # <<>>
                  /\ diffLoading' = (diffLoading \/ next # <<>>)
  <2>1. calls' = calls \o asked
    BY DEF RendererInv, Types, SetMode, ModeOffered, NoDialog, DiffCalls
  <2>2. /\ OneCall(asked)
        /\ (asked # <<>> => asked[1].op = "diff" /\ asked[1].of = <<picked, m>>)
        /\ m = "preview" \/ picked = Nothing \/ asked # <<>>
        /\ diffLoading' = (diffLoading \/ asked # <<>>)
    BY DEF OneCall, Call, CallSet, DiffsAsked, RendererInv, Types, SetMode, ModeOffered, NoDialog,
           DiffCalls
  <2>3. QED
    BY <2>1, <2>2
<1>2. Asked(next) /\ calls' \in Seq(CallSet)
  BY <1>1, Asking DEF Asked, RendererInv, Types
<1>3. Types'
  BY <1>1, <1>2 DEF SetMode, RendererInv, Types
<1>4. Reported'
  BY <1>1, <1>2 DEF Asked, SetMode, RendererInv, Reported, Told, ForcedAfterConflict
<1>5. NothingSpins'
  BY <1>1, <1>2 DEF Asked, SetMode, RendererInv, Types, NothingSpins
<1>6. ASSUME InTurn' PROVE Due'
  <2>1. InTurn /\ Due /\ Types
    BY <1>6 DEF SetMode, RendererInv, Types, InTurn
  <2>2. HeaderDue'
    BY <1>1, <1>2, <2>1 DEF Asked, SetMode, Types, Due, HeaderDue, Pending
  <2>3. TimelineDue'
    BY <1>1, <1>2, <2>1 DEF Asked, SetMode, Types, Due, TimelineDue, FileKind, Fresh
  <2>4. ContentDue'
    BY <1>1, <1>2, <2>1 DEF Asked, SetMode, Types, Due, ContentDue, Pending
  <2>5. DiffDue'
    BY <1>1, <1>2, <2>1 DEF Asked, SetMode, Types, Due, DiffDue, Pending
  <2>6. ListDue'
    BY <1>1, <1>2, <2>1 DEF Asked, SetMode, Types, Due, ListDue, Pending
  <2>7. QED
    BY <2>2, <2>3, <2>4, <2>5, <2>6 DEF Due
<1>7. QED
  BY <1>3, <1>4, <1>5, <1>6 DEF RendererInv

(* Another list is shown.                                                  *)
LEMMA SetLeftViewKeeps ==
    ASSUME RendererInv, NEW v \in {"files", "deleted", "search"}, SetLeftView(v)
    PROVE  RendererInv'
<1> DEFINE asked == IF v = "search" THEN <<>> ELSE Refreshed(v)
<1>1. PICK next : /\ calls' = calls \o next /\ OneCall(next)
                  /\ (next # <<>> => next[1].op = "files" /\ next[1].of = v)
                  /\ v = "search" \/ next # <<>>
                  /\ filesLoading' = (filesLoading \/ next # <<>>)
  <2>1. calls' = calls \o asked
    BY DEF RendererInv, Types, SetLeftView, Refreshed
  <2>2. /\ OneCall(asked)
        /\ (asked # <<>> => asked[1].op = "files" /\ asked[1].of = v)
        /\ v = "search" \/ asked # <<>>
        /\ filesLoading' = (filesLoading \/ asked # <<>>)
    BY DEF OneCall, Call, CallSet, ListCalls, RendererInv, Types, SetLeftView, Refreshed
  <2>3. QED
    BY <2>1, <2>2
<1>2. Asked(next) /\ calls' \in Seq(CallSet)
  BY <1>1, Asking DEF Asked, RendererInv, Types
<1>3. Types'
  BY <1>1, <1>2 DEF SetLeftView, RendererInv, Types
<1>4. Reported'
  BY <1>1, <1>2 DEF Asked, SetLeftView, RendererInv, Reported, Told, ForcedAfterConflict
<1>5. NothingSpins'
  BY <1>1, <1>2 DEF Asked, SetLeftView, RendererInv, Types, NothingSpins
<1>6. ASSUME InTurn' PROVE Due'
  <2>1. InTurn /\ Due /\ Types
    BY <1>6 DEF SetLeftView, RendererInv, Types, InTurn
  <2>2. HeaderDue'
    BY <1>1, <1>2, <2>1 DEF Asked, SetLeftView, Types, Due, HeaderDue, Pending
  <2>3. TimelineDue'
    BY <1>1, <1>2, <2>1 DEF Asked, SetLeftView, Types, Due, TimelineDue, FileKind, Fresh
  <2>4. ContentDue'
    BY <1>1, <1>2, <2>1 DEF Asked, SetLeftView, Types, Due, ContentDue, Pending
  <2>5. DiffDue'
    BY <1>1, <1>2, <2>1 DEF Asked, SetLeftView, Types, Due, DiffDue, Pending
  <2>6. ListDue'
    BY <1>1, <1>2, <2>1 DEF Asked, SetLeftView, Types, Due, ListDue, Pending
  <2>7. QED
    BY <2>2, <2>3, <2>4, <2>5, <2>6 DEF Due
<1>7. QED
  BY <1>3, <1>4, <1>5, <1>6 DEF RendererInv

(* A search starts.                                                        *)
LEMMA RunSearchKeeps ==
    ASSUME RendererInv, RunSearch
    PROVE  RendererInv'
<1> DEFINE asked == <<Call("search", Nothing, Nothing)>>
<1>1. PICK next : /\ calls' = calls \o next /\ OneCall(next)
                  /\ next # <<>> /\ next[1].op = "search"
  <2>1. calls' = calls \o asked
    BY DEF RendererInv, Types, RunSearch
  <2>2. /\ OneCall(asked)
        /\ asked # <<>> /\ asked[1].op = "search"
    BY DEF OneCall, Call, CallSet, OtherCalls, RendererInv, Types, RunSearch
  <2>3. QED
    BY <2>1, <2>2
<1>2. Asked(next) /\ calls' \in Seq(CallSet)
  BY <1>1, Asking DEF Asked, RendererInv, Types
<1>3. Types'
  BY <1>1, <1>2 DEF RunSearch, RendererInv, Types
<1>4. Reported'
  BY <1>1, <1>2 DEF Asked, RunSearch, RendererInv, Reported, Told, ForcedAfterConflict
<1>5. NothingSpins'
  BY <1>1, <1>2 DEF Asked, RunSearch, RendererInv, Types, NothingSpins
<1>6. ASSUME InTurn' PROVE Due'
  <2>1. InTurn /\ Due /\ Types
    BY <1>6 DEF RunSearch, RendererInv, Types, InTurn
  <2>2. HeaderDue'
    BY <1>1, <1>2, <2>1 DEF Asked, RunSearch, Types, Due, HeaderDue, Pending
  <2>3. TimelineDue'
    BY <1>1, <1>2, <2>1 DEF Asked, RunSearch, Types, Due, TimelineDue, FileKind, Fresh
  <2>4. ContentDue'
    BY <1>1, <1>2, <2>1 DEF Asked, RunSearch, Types, Due, ContentDue, Pending
  <2>5. DiffDue'
    BY <1>1, <1>2, <2>1 DEF Asked, RunSearch, Types, Due, DiffDue, Pending
  <2>6. ListDue'
    BY <1>1, <1>2, <2>1 DEF Asked, RunSearch, Types, Due, ListDue, Pending
  <2>7. QED
    BY <2>2, <2>3, <2>4, <2>5, <2>6 DEF Due
<1>7. QED
  BY <1>3, <1>4, <1>5, <1>6 DEF RendererInv

(* A vault is chosen.                                                      *)
LEMMA SelectVaultKeeps ==
    ASSUME RendererInv, SelectVault
    PROVE  RendererInv'
<1> DEFINE asked == <<Call("vault", Nothing, Nothing)>>
<1>1. PICK next : /\ calls' = calls \o next /\ OneCall(next)
                  /\ next # <<>> /\ next[1].op = "vault"
  <2>1. calls' = calls \o asked
    BY DEF RendererInv, Types, SelectVault
  <2>2. /\ OneCall(asked)
        /\ asked # <<>> /\ asked[1].op = "vault"
    BY DEF OneCall, Call, CallSet, OtherCalls, RendererInv, Types, SelectVault
  <2>3. QED
    BY <2>1, <2>2
<1>2. Asked(next) /\ calls' \in Seq(CallSet)
  BY <1>1, Asking DEF Asked, RendererInv, Types
<1>3. Types'
  BY <1>1, <1>2 DEF SelectVault, RendererInv, Types
<1>4. Reported'
  BY <1>1, <1>2 DEF Asked, SelectVault, RendererInv, Reported, Told, ForcedAfterConflict
<1>5. NothingSpins'
  BY <1>1, <1>2 DEF Asked, SelectVault, RendererInv, Types, NothingSpins
<1>6. ASSUME InTurn' PROVE Due'
  <2>1. InTurn /\ Due /\ Types
    BY <1>6 DEF SelectVault, RendererInv, Types, InTurn
  <2>2. HeaderDue'
    BY <1>1, <1>2, <2>1 DEF Asked, SelectVault, Types, Due, HeaderDue, Pending
  <2>3. TimelineDue'
    BY <1>1, <1>2, <2>1 DEF Asked, SelectVault, Types, Due, TimelineDue, FileKind, Fresh
  <2>4. ContentDue'
    BY <1>1, <1>2, <2>1 DEF Asked, SelectVault, Types, Due, ContentDue, Pending
  <2>5. DiffDue'
    BY <1>1, <1>2, <2>1 DEF Asked, SelectVault, Types, Due, DiffDue, Pending
  <2>6. ListDue'
    BY <1>1, <1>2, <2>1 DEF Asked, SelectVault, Types, Due, ListDue, Pending
  <2>7. QED
    BY <2>2, <2>3, <2>4, <2>5, <2>6 DEF Due
<1>7. QED
  BY <1>3, <1>4, <1>5, <1>6 DEF RendererInv

(* The restore dialog is asked for.                                        *)
LEMMA OpenRestoreDialogKeeps ==
    ASSUME RendererInv, OpenRestoreDialog
    PROVE  RendererInv'
<1> DEFINE asked == IF selected = Nothing THEN <<>> ELSE <<Call("dialog", selected, picked)>>
<1>1. PICK next : /\ calls' = calls \o next /\ OneCall(next)
                  /\ next # <<>> => next[1].op = "dialog"
  <2>1. calls' = calls \o asked
    BY DEF RendererInv, Types, OpenRestoreDialog, Restorable, NoDialog
  <2>2. /\ OneCall(asked)
        /\ asked # <<>> => asked[1].op = "dialog"
    BY DEF OneCall, Call, CallSet, DialogCalls, RendererInv, Types, OpenRestoreDialog, Restorable,
           NoDialog
  <2>3. QED
    BY <2>1, <2>2
<1>2. Asked(next) /\ calls' \in Seq(CallSet)
  BY <1>1, Asking DEF Asked, RendererInv, Types
<1>3. dialog' = dialog \/ (dialog' \in Dialogs /\ ~dialog'.busy /\ ~dialog'.conflict)
  <2>1. picked \in Versions
    BY DEF OpenRestoreDialog, Restorable, RendererInv, Types
  <2>2. CASE selected = Nothing
    <3>1. dialog' = [version |-> picked, expected |-> Nothing, conflict |-> FALSE, busy |-> FALSE,
                     over |-> FALSE]
      BY <2>2 DEF OpenRestoreDialog
    <3>2. QED
      BY <2>1, <3>1 DEF Dialogs
  <2>3. CASE selected # Nothing
    BY <2>3 DEF OpenRestoreDialog
  <2>4. QED
    BY <2>2, <2>3
<1>4. Types'
  BY <1>1, <1>2, <1>3 DEF OpenRestoreDialog, RendererInv, Types
<1>5. Reported'
  BY <1>1, <1>2, <1>3 DEF Asked, OpenRestoreDialog, RendererInv, Reported, Told,
                          ForcedAfterConflict
<1>6. NothingSpins'
  BY <1>1, <1>2, <1>3 DEF Asked, OpenRestoreDialog, RendererInv, Types, NothingSpins
<1>7. ASSUME InTurn' PROVE Due'
  <2>1. InTurn /\ Due /\ Types
    BY <1>7 DEF OpenRestoreDialog, RendererInv, Types, InTurn
  <2>2. HeaderDue'
    BY <1>1, <1>2, <1>3, <2>1 DEF Asked, OpenRestoreDialog, Types, Due, HeaderDue, Pending
  <2>3. TimelineDue'
    BY <1>1, <1>2, <1>3, <2>1 DEF Asked, OpenRestoreDialog, Types, Due, TimelineDue, FileKind,
                                  Fresh
  <2>4. ContentDue'
    BY <1>1, <1>2, <1>3, <2>1 DEF Asked, OpenRestoreDialog, Types, Due, ContentDue, Pending
  <2>5. DiffDue'
    BY <1>1, <1>2, <1>3, <2>1 DEF Asked, OpenRestoreDialog, Types, Due, DiffDue, Pending
  <2>6. ListDue'
    BY <1>1, <1>2, <1>3, <2>1 DEF Asked, OpenRestoreDialog, Types, Due, ListDue, Pending
  <2>7. QED
    BY <2>2, <2>3, <2>4, <2>5, <2>6 DEF Due
<1>8. QED
  BY <1>4, <1>5, <1>6, <1>7 DEF RendererInv

(* And closed.                                                             *)
LEMMA CloseRestoreDialogKeeps ==
    ASSUME RendererInv, CloseRestoreDialog
    PROVE  RendererInv'
<1> DEFINE asked == <<>>
<1>1. PICK next : /\ calls' = calls \o next /\ OneCall(next)
                  /\ next = <<>>
  <2>1. calls' = calls \o asked
    BY DEF RendererInv, Types, CloseRestoreDialog
  <2>2. /\ OneCall(asked)
        /\ asked = <<>>
    BY DEF OneCall, Call, CallSet, RendererInv, Types, CloseRestoreDialog
  <2>3. QED
    BY <2>1, <2>2
<1>2. Asked(next) /\ calls' \in Seq(CallSet)
  BY <1>1, Asking DEF Asked, RendererInv, Types
<1>3. Types'
  BY <1>1, <1>2 DEF CloseRestoreDialog, RendererInv, Types
<1>4. Reported'
  BY <1>1, <1>2 DEF Asked, CloseRestoreDialog, RendererInv, Reported, Told, ForcedAfterConflict
<1>5. NothingSpins'
  BY <1>1, <1>2 DEF Asked, CloseRestoreDialog, RendererInv, Types, NothingSpins
<1>6. ASSUME InTurn' PROVE Due'
  <2>1. InTurn /\ Due /\ Types
    BY <1>6 DEF CloseRestoreDialog, RendererInv, Types, InTurn
  <2>2. HeaderDue'
    BY <1>1, <1>2, <2>1 DEF Asked, CloseRestoreDialog, Types, Due, HeaderDue, Pending
  <2>3. TimelineDue'
    BY <1>1, <1>2, <2>1 DEF Asked, CloseRestoreDialog, Types, Due, TimelineDue, FileKind, Fresh
  <2>4. ContentDue'
    BY <1>1, <1>2, <2>1 DEF Asked, CloseRestoreDialog, Types, Due, ContentDue, Pending
  <2>5. DiffDue'
    BY <1>1, <1>2, <2>1 DEF Asked, CloseRestoreDialog, Types, Due, DiffDue, Pending
  <2>6. ListDue'
    BY <1>1, <1>2, <2>1 DEF Asked, CloseRestoreDialog, Types, Due, ListDue, Pending
  <2>7. QED
    BY <2>2, <2>3, <2>4, <2>5, <2>6 DEF Due
<1>7. QED
  BY <1>3, <1>4, <1>5, <1>6 DEF RendererInv

(* The restore is confirmed.                                               *)
LEMMA ConfirmRestoreKeeps ==
    ASSUME RendererInv, ConfirmRestore
    PROVE  RendererInv'
<1> DEFINE asked == <<Call("restore", dialog, Nothing)>>
<1>1. PICK next : /\ calls' = calls \o next /\ OneCall(next)
                  /\ next # <<>> /\ next[1].op = "restore" /\ next[1].of = dialog /\ next[1].got = Nothing
                  /\ ~dialog.busy /\ ~dialog.over
  <2>1. calls' = calls \o asked
    BY DEF RendererInv, Types, ConfirmRestore, RestoreConfirmable
  <2>2. /\ OneCall(asked)
        /\ asked # <<>> /\ asked[1].op = "restore" /\ asked[1].of = dialog /\ asked[1].got = Nothing
        /\ ~dialog.busy /\ ~dialog.over
    BY DEF OneCall, Call, CallSet, RestoreCalls, RendererInv, Types, ConfirmRestore,
           RestoreConfirmable
  <2>3. QED
    BY <2>1, <2>2
<1>2. Asked(next) /\ calls' \in Seq(CallSet)
  BY <1>1, Asking DEF Asked, RendererInv, Types
<1>3. /\ dialog' \in Dialogs /\ dialog'.over = dialog.over
      /\ dialog'.conflict = dialog.conflict /\ dialog'.version = dialog.version
  <2>1. dialog \in Dialogs /\ dialog' = [dialog EXCEPT !.busy = TRUE]
    BY DEF ConfirmRestore, RendererInv, Types
  <2>2. QED
    BY <2>1, DialogChanged
<1>4. Types'
  BY <1>1, <1>2, <1>3 DEF ConfirmRestore, RendererInv, Types
<1>5. Reported'
  BY <1>1, <1>2, <1>3 DEF Asked, ConfirmRestore, RendererInv, Reported, Told, ForcedAfterConflict
<1>6. NothingSpins'
  BY <1>1, <1>2, <1>3 DEF Asked, ConfirmRestore, RendererInv, Types, NothingSpins
<1>7. ASSUME InTurn' PROVE Due'
  <2>1. InTurn /\ Due /\ Types
    BY <1>7 DEF ConfirmRestore, RendererInv, Types, InTurn
  <2>2. HeaderDue'
    BY <1>1, <1>2, <1>3, <2>1 DEF Asked, ConfirmRestore, Types, Due, HeaderDue, Pending
  <2>3. TimelineDue'
    BY <1>1, <1>2, <1>3, <2>1 DEF Asked, ConfirmRestore, Types, Due, TimelineDue, FileKind, Fresh
  <2>4. ContentDue'
    BY <1>1, <1>2, <1>3, <2>1 DEF Asked, ConfirmRestore, Types, Due, ContentDue, Pending
  <2>5. DiffDue'
    BY <1>1, <1>2, <1>3, <2>1 DEF Asked, ConfirmRestore, Types, Due, DiffDue, Pending
  <2>6. ListDue'
    BY <1>1, <1>2, <1>3, <2>1 DEF Asked, ConfirmRestore, Types, Due, ListDue, Pending
  <2>7. QED
    BY <2>2, <2>3, <2>4, <2>5, <2>6 DEF Due
<1>8. QED
  BY <1>4, <1>5, <1>6, <1>7 DEF RendererInv

(* The dialog for a recovery opens.                                        *)
LEMMA OpenRecoverDialogKeeps ==
    ASSUME RendererInv, OpenRecoverDialog
    PROVE  RendererInv'
<1> DEFINE asked == <<>>
<1>1. PICK next : /\ calls' = calls \o next /\ OneCall(next)
                  /\ next = <<>>
  <2>1. calls' = calls \o asked
    BY DEF RendererInv, Types, OpenRecoverDialog, Recoverable, Restorable, NoDialog
  <2>2. /\ OneCall(asked)
        /\ asked = <<>>
    BY DEF OneCall, Call, CallSet, RendererInv, Types, OpenRecoverDialog, Recoverable, Restorable,
           NoDialog
  <2>3. QED
    BY <2>1, <2>2
<1>2. Asked(next) /\ calls' \in Seq(CallSet)
  BY <1>1, Asking DEF Asked, RendererInv, Types
<1>3. recovery' \in Recoveries /\ recovery'.outcome = "none" /\ ~recovery'.busy
  BY DEF OpenRecoverDialog, Recoverable, Restorable, NoDialog, Recoveries, RendererInv, Types
<1>4. Types'
  BY <1>1, <1>2, <1>3 DEF OpenRecoverDialog, RendererInv, Types
<1>5. Reported'
  BY <1>1, <1>2, <1>3 DEF Asked, OpenRecoverDialog, RendererInv, Reported, Told,
                          ForcedAfterConflict
<1>6. NothingSpins'
  BY <1>1, <1>2, <1>3 DEF Asked, OpenRecoverDialog, RendererInv, Types, NothingSpins
<1>7. ASSUME InTurn' PROVE Due'
  <2>1. InTurn /\ Due /\ Types
    BY <1>7 DEF OpenRecoverDialog, RendererInv, Types, InTurn
  <2>2. HeaderDue'
    BY <1>1, <1>2, <1>3, <2>1 DEF Asked, OpenRecoverDialog, Types, Due, HeaderDue, Pending
  <2>3. TimelineDue'
    BY <1>1, <1>2, <1>3, <2>1 DEF Asked, OpenRecoverDialog, Types, Due, TimelineDue, FileKind,
                                  Fresh
  <2>4. ContentDue'
    BY <1>1, <1>2, <1>3, <2>1 DEF Asked, OpenRecoverDialog, Types, Due, ContentDue, Pending
  <2>5. DiffDue'
    BY <1>1, <1>2, <1>3, <2>1 DEF Asked, OpenRecoverDialog, Types, Due, DiffDue, Pending
  <2>6. ListDue'
    BY <1>1, <1>2, <1>3, <2>1 DEF Asked, OpenRecoverDialog, Types, Due, ListDue, Pending
  <2>7. QED
    BY <2>2, <2>3, <2>4, <2>5, <2>6 DEF Due
<1>8. QED
  BY <1>4, <1>5, <1>6, <1>7 DEF RendererInv

(* And closes.                                                             *)
LEMMA CloseRecoverDialogKeeps ==
    ASSUME RendererInv, CloseRecoverDialog
    PROVE  RendererInv'
<1> DEFINE asked == <<>>
<1>1. PICK next : /\ calls' = calls \o next /\ OneCall(next)
                  /\ next = <<>>
  <2>1. calls' = calls \o asked
    BY DEF RendererInv, Types, CloseRecoverDialog
  <2>2. /\ OneCall(asked)
        /\ asked = <<>>
    BY DEF OneCall, Call, CallSet, RendererInv, Types, CloseRecoverDialog
  <2>3. QED
    BY <2>1, <2>2
<1>2. Asked(next) /\ calls' \in Seq(CallSet)
  BY <1>1, Asking DEF Asked, RendererInv, Types
<1>3. Types'
  BY <1>1, <1>2 DEF CloseRecoverDialog, RendererInv, Types
<1>4. Reported'
  BY <1>1, <1>2 DEF Asked, CloseRecoverDialog, RendererInv, Reported, Told, ForcedAfterConflict
<1>5. NothingSpins'
  BY <1>1, <1>2 DEF Asked, CloseRecoverDialog, RendererInv, Types, NothingSpins
<1>6. ASSUME InTurn' PROVE Due'
  <2>1. InTurn /\ Due /\ Types
    BY <1>6 DEF CloseRecoverDialog, RendererInv, Types, InTurn
  <2>2. HeaderDue'
    BY <1>1, <1>2, <2>1 DEF Asked, CloseRecoverDialog, Types, Due, HeaderDue, Pending
  <2>3. TimelineDue'
    BY <1>1, <1>2, <2>1 DEF Asked, CloseRecoverDialog, Types, Due, TimelineDue, FileKind, Fresh
  <2>4. ContentDue'
    BY <1>1, <1>2, <2>1 DEF Asked, CloseRecoverDialog, Types, Due, ContentDue, Pending
  <2>5. DiffDue'
    BY <1>1, <1>2, <2>1 DEF Asked, CloseRecoverDialog, Types, Due, DiffDue, Pending
  <2>6. ListDue'
    BY <1>1, <1>2, <2>1 DEF Asked, CloseRecoverDialog, Types, Due, ListDue, Pending
  <2>7. QED
    BY <2>2, <2>3, <2>4, <2>5, <2>6 DEF Due
<1>7. QED
  BY <1>3, <1>4, <1>5, <1>6 DEF RendererInv

(* The recovery is confirmed.                                              *)
LEMMA ConfirmRecoverKeeps ==
    ASSUME RendererInv, ConfirmRecover
    PROVE  RendererInv'
<1> DEFINE asked == <<Call("recover", recovery, Nothing)>>
<1>1. PICK next : /\ calls' = calls \o next /\ OneCall(next)
                  /\ next # <<>> /\ next[1].op = "recover" /\ next[1].of = recovery /\ next[1].got = Nothing
  <2>1. calls' = calls \o asked
    BY DEF RendererInv, Types, ConfirmRecover, Confirmable
  <2>2. /\ OneCall(asked)
        /\ asked # <<>> /\ asked[1].op = "recover" /\ asked[1].of = recovery /\ asked[1].got = Nothing
    BY DEF OneCall, Call, CallSet, RecoverCalls, RendererInv, Types, ConfirmRecover, Confirmable
  <2>3. QED
    BY <2>1, <2>2
<1>2. Asked(next) /\ calls' \in Seq(CallSet)
  BY <1>1, Asking DEF Asked, RendererInv, Types
<1>3. /\ recovery' \in Recoveries /\ recovery'.outcome = recovery.outcome
      /\ recovery'.version = recovery.version
  BY RecoveryChanged DEF ConfirmRecover, RendererInv, Types
<1>4. Types'
  BY <1>1, <1>2, <1>3 DEF ConfirmRecover, RendererInv, Types
<1>5. Reported'
  BY <1>1, <1>2, <1>3 DEF Asked, ConfirmRecover, RendererInv, Reported, Told, ForcedAfterConflict
<1>6. NothingSpins'
  BY <1>1, <1>2, <1>3 DEF Asked, ConfirmRecover, RendererInv, Types, NothingSpins
<1>7. ASSUME InTurn' PROVE Due'
  <2>1. InTurn /\ Due /\ Types
    BY <1>7 DEF ConfirmRecover, RendererInv, Types, InTurn
  <2>2. HeaderDue'
    BY <1>1, <1>2, <1>3, <2>1 DEF Asked, ConfirmRecover, Types, Due, HeaderDue, Pending
  <2>3. TimelineDue'
    BY <1>1, <1>2, <1>3, <2>1 DEF Asked, ConfirmRecover, Types, Due, TimelineDue, FileKind, Fresh
  <2>4. ContentDue'
    BY <1>1, <1>2, <1>3, <2>1 DEF Asked, ConfirmRecover, Types, Due, ContentDue, Pending
  <2>5. DiffDue'
    BY <1>1, <1>2, <1>3, <2>1 DEF Asked, ConfirmRecover, Types, Due, DiffDue, Pending
  <2>6. ListDue'
    BY <1>1, <1>2, <1>3, <2>1 DEF Asked, ConfirmRecover, Types, Due, ListDue, Pending
  <2>7. QED
    BY <2>2, <2>3, <2>4, <2>5, <2>6 DEF Due
<1>8. QED
  BY <1>4, <1>5, <1>6, <1>7 DEF RendererInv

(* A version is captured.                                                  *)
LEMMA CaptureKeeps ==
    ASSUME RendererInv, NEW f \in FileIds, Capture(f)
    PROVE  RendererInv'
<1> DEFINE asked == <<>>
<1>1. PICK next : /\ calls' = calls \o next /\ OneCall(next)
                  /\ next = <<>>
  <2>1. calls' = calls \o asked
    BY DEF RendererInv, Types, Capture, Captures
  <2>2. /\ OneCall(asked)
        /\ asked = <<>>
    BY DEF OneCall, Call, CallSet, RendererInv, Types, Capture, Captures
  <2>3. QED
    BY <2>1, <2>2
<1>2. Asked(next) /\ calls' \in Seq(CallSet)
  BY <1>1, Asking DEF Asked, RendererInv, Types
<1>3. Recorded
  BY Recording DEF Capture, RendererInv, Types
<1>4. Types'
  BY <1>1, <1>2, <1>3 DEF Capture, Recorded, RendererInv, Types
<1>5. Reported'
  BY <1>1, <1>2, <1>3 DEF Asked, Capture, Recorded, RendererInv, Reported, Told,
                          ForcedAfterConflict
<1>6. NothingSpins'
  BY <1>1, <1>2, <1>3 DEF Asked, Capture, Recorded, RendererInv, Types, NothingSpins
<1>7. ASSUME InTurn' PROVE Due'
  <2>1. InTurn /\ Due /\ Types
    BY <1>7 DEF Capture, Recorded, RendererInv, Types, InTurn
  <2>2. HeaderDue'
    BY <1>1, <1>2, <1>3, <2>1 DEF Asked, Capture, Recorded, Types, Due, HeaderDue, Pending
  <2>3. TimelineDue'
    BY <1>1, <1>2, <1>3, <2>1 DEF Asked, Capture, Recorded, Types, Due, TimelineDue, FileKind,
                                  Fresh
  <2>4. ContentDue'
    BY <1>1, <1>2, <1>3, <2>1 DEF Asked, Capture, Recorded, Types, Due, ContentDue, Pending
  <2>5. DiffDue'
    BY <1>1, <1>2, <1>3, <2>1 DEF Asked, Capture, Recorded, Types, Due, DiffDue, Pending
  <2>6. ListDue'
    BY <1>1, <1>2, <1>3, <2>1 DEF Asked, Capture, Recorded, Types, Due, ListDue, Pending
  <2>7. QED
    BY <2>2, <2>3, <2>4, <2>5, <2>6 DEF Due
<1>8. QED
  BY <1>4, <1>5, <1>6, <1>7 DEF RendererInv

(* The window hears of a version.                                          *)
LEMMA OnVersionCapturedKeeps ==
    ASSUME RendererInv, OnVersionCaptured
    PROVE  RendererInv'
<1> DEFINE asked == IF selected = Head(notices) THEN <<Call("captured", selected, Nothing)>> ELSE <<>>
<1>1. PICK next : /\ calls' = calls \o next /\ OneCall(next)
                  /\ (next # <<>> => next[1].op = "captured" /\ next[1].of = selected /\ next[1].got = Nothing)
                  /\ selected = Head(notices) => next # <<>>
  <2>1. calls' = calls \o asked
    BY DEF RendererInv, Types, OnVersionCaptured, Captured
  <2>2. /\ OneCall(asked)
        /\ (asked # <<>> => asked[1].op = "captured" /\ asked[1].of = selected /\ asked[1].got = Nothing)
        /\ selected = Head(notices) => asked # <<>>
    BY DEF OneCall, Call, CallSet, CapturedCalls, RendererInv, Types, OnVersionCaptured, Captured
  <2>3. QED
    BY <2>1, <2>2
<1>2. Asked(next) /\ calls' \in Seq(CallSet)
  BY <1>1, Asking DEF Asked, RendererInv, Types
<1>3. selected # Head(notices) => \A n : Fresh(n) => Fresh(n)'
  BY Hearing DEF OnVersionCaptured, RendererInv, Types
<1>4. Types'
  BY <1>1, <1>2, <1>3 DEF OnVersionCaptured, Captured, RendererInv, Types
<1>5. Reported'
  BY <1>1, <1>2, <1>3 DEF Asked, OnVersionCaptured, Captured, RendererInv, Reported, Told,
                          ForcedAfterConflict
<1>6. NothingSpins'
  BY <1>1, <1>2, <1>3 DEF Asked, OnVersionCaptured, Captured, RendererInv, Types, NothingSpins
<1>7. ASSUME InTurn' PROVE Due'
  <2>1. InTurn /\ Due /\ Types
    BY <1>7 DEF OnVersionCaptured, Captured, RendererInv, Types, InTurn
  <2>2. HeaderDue'
    BY <1>1, <1>2, <1>3, <2>1 DEF Asked, OnVersionCaptured, Captured, Types, Due, HeaderDue,
                                  Pending
  <2>3. TimelineDue'
    BY <1>1, <1>2, <1>3, <2>1 DEF Asked, OnVersionCaptured, Captured, Types, Due, TimelineDue,
                                  FileKind, Fresh
  <2>4. ContentDue'
    BY <1>1, <1>2, <1>3, <2>1 DEF Asked, OnVersionCaptured, Captured, Types, Due, ContentDue,
                                  Pending
  <2>5. DiffDue'
    BY <1>1, <1>2, <1>3, <2>1 DEF Asked, OnVersionCaptured, Captured, Types, Due, DiffDue, Pending
  <2>6. ListDue'
    BY <1>1, <1>2, <1>3, <2>1 DEF Asked, OnVersionCaptured, Captured, Types, Due, ListDue, Pending
  <2>7. QED
    BY <2>2, <2>3, <2>4, <2>5, <2>6 DEF Due
<1>8. QED
  BY <1>4, <1>5, <1>6, <1>7 DEF RendererInv

(* The main process reads the history of a file.                           *)
LEMMA ReadKeeps ==
    ASSUME RendererInv, NEW i \in DOMAIN calls, Read(i)
    PROVE  RendererInv'
<1>1. /\ calls \in Seq(CallSet) /\ calls[i] \in CallSet
      /\ calls[i].op = calls[i].op
  BY CallCases, ElementOfSeq, LenProperties DEF Read, Timed, RendererInv, Types
<1>2. PICK d \in CallSet : /\ calls' = [calls EXCEPT ![i] = d]
                           /\ d.op = calls[i].op /\ d.of = calls[i].of
                           /\ d.got.versions = captures[d.of] /\ Told(d)'
  <2> DEFINE g == [versions |-> captures[calls[i].of], deleted |-> calls[i].of \in deleted]
             e == [calls[i] EXCEPT !.got = g]
  <2>1. calls[i].op \in {"file", "captured", "dialog"} /\ calls' = [calls EXCEPT ![i] = e]
    BY DEF Read, Timed
  <2>2. calls[i].of \in FileIds
    BY <1>1, <2>1, CallCases DEF FileCalls, CapturedCalls, DialogCalls
  <2>3. g \in Snapshots /\ g.versions = captures[calls[i].of]
    BY <2>2 DEF RendererInv, Types, Snapshots
  <2> HIDE DEF g
  <2>4. e \in CallSet /\ e.op = calls[i].op /\ e.of = calls[i].of /\ e.got = g
    BY <1>1, <2>1, <2>3, GotChanged
  <2> HIDE DEF e
  <2>5. PICK d : d = e
    OBVIOUS
  <2>6. d \in CallSet /\ calls' = [calls EXCEPT ![i] = d] /\ d.op = calls[i].op /\ d.of = calls[i].of
    BY <2>1, <2>4, <2>5
  <2>7. d.got.versions = captures[d.of] /\ Told(d)'
    BY <2>1, <2>3, <2>4, <2>5 DEF Told
  <2>8. QED
    BY <2>6, <2>7
<1>3. ReadAs(i, d) /\ calls' \in Seq(CallSet)
  BY <1>1, <1>2, Reading DEF ReadAs
<1>4. UNCHANGED <<mainVars, fileVars, picked, content, diffView, listVars, dialogVars, overtaken, clicks,
                refusals>>
  BY DEF Read
<1>5. Types'
  BY <1>1, <1>2, <1>3, <1>4 DEF CallSet, RendererInv, Types
<1>6. Reported'
  BY <1>1, <1>2, <1>3, <1>4 DEF ReadAs, CallSet, RendererInv, Reported, Told, ForcedAfterConflict
<1>7. NothingSpins'
  BY <1>1, <1>2, <1>3, <1>4 DEF ReadAs, RendererInv, Types, NothingSpins
<1>8. ASSUME InTurn' PROVE Due'
  <2>1. InTurn /\ Due /\ Types
    BY <1>8, <1>4 DEF RendererInv, Types, InTurn
  <2>2. HeaderDue'
    BY <1>1, <1>2, <1>3, <1>4, <2>1 DEF ReadAs, CallSet, Types, Due, HeaderDue, Pending
  <2>3. TimelineDue'
    BY <1>1, <1>2, <1>3, <1>4, <2>1 DEF ReadAs, CallSet, Types, Due, TimelineDue, FileKind, Fresh
  <2>4. ContentDue'
    BY <1>1, <1>2, <1>3, <1>4, <2>1 DEF ReadAs, CallSet, Types, Due, ContentDue, Pending
  <2>5. DiffDue'
    BY <1>1, <1>2, <1>3, <1>4, <2>1 DEF ReadAs, CallSet, Types, Due, DiffDue, Pending
  <2>6. ListDue'
    BY <1>1, <1>2, <1>3, <1>4, <2>1 DEF ReadAs, CallSet, Types, Due, ListDue, Pending
  <2>7. QED
    BY <2>2, <2>3, <2>4, <2>5, <2>6 DEF Due
<1>9. QED
  BY <1>5, <1>6, <1>7, <1>8 DEF RendererInv

(* The main process restores a version, or reports a conflict.             *)
LEMMA RestoreKeeps ==
    ASSUME RendererInv, NEW i \in DOMAIN calls, Restore(i)
    PROVE  RendererInv'
<1>1. /\ calls \in Seq(CallSet) /\ calls[i] \in RestoreCalls
      /\ calls[i].op = "restore" /\ Told(calls[i])
  BY CallCases, ElementOfSeq, LenProperties DEF Restore, RendererInv, Types, Reported
<1>2. PICK d \in CallSet : /\ calls' = [calls EXCEPT ![i] = d]
                           /\ d.op = calls[i].op /\ d.of = calls[i].of
                           /\ d.op = "restore" /\ Told(d)'
  <2> DEFINE f == calls[i].of.version[1]
             t == ~calls[i].of.conflict /\ calls[i].of.expected # <<f, captures[f]>>
             g == [conflict |-> t, now |-> captures[f]]
             e == [calls[i] EXCEPT !.got = g]
  <2>1. calls' = [calls EXCEPT ![i] = e]
    BY DEF Restore
  <2>2. f \in FileIds /\ calls[i].of.version \in Versions
    BY <1>1 DEF RestoreCalls, Dialogs, Versions
  <2>3. g \in [conflict : BOOLEAN, now : Numbers] /\ g.conflict = t
    BY <2>2 DEF RendererInv, Types
  <2>4. t => calls[i].of.version \in conflicts'
    BY DEF Restore
  <2> HIDE DEF t, g
  <2>5. e \in CallSet /\ e.op = calls[i].op /\ e.of = calls[i].of /\ e.got = g
    BY <1>1, <2>3, GotChanged DEF CallSet
  <2> HIDE DEF e
  <2>6. PICK d : d = e
    OBVIOUS
  <2>7. d \in CallSet /\ calls' = [calls EXCEPT ![i] = d] /\ d.op = calls[i].op /\ d.of = calls[i].of
    BY <2>1, <2>5, <2>6
  <2>8. conflicts \subseteq conflicts'
    BY DEF Restore
  <2>9. d.op = "restore" /\ Told(d)'
    BY <1>1, <2>3, <2>4, <2>5, <2>6, <2>8 DEF Told
  <2>10. QED
    BY <2>7, <2>9
<1>3. ReadAs(i, d) /\ calls' \in Seq(CallSet)
  BY <1>1, <1>2, Reading DEF ReadAs
<1>4. /\ Types' /\ conflicts \subseteq conflicts'
      /\ selected # Nothing => \A n : Fresh(n) => Fresh(n)'
  <2>1. calls[i].of.version[1] \in FileIds
    BY <1>1 DEF RestoreCalls, Dialogs, Versions
  <2>2. CASE UNCHANGED mainVars
    BY <1>3, <2>2 DEF Restore, RendererInv, Types, Fresh
  <2>3. CASE Captures(calls[i].of.version[1])
    BY <1>3, <2>1, <2>3, Recording DEF Recorded, Restore, RendererInv, Types
  <2>4. QED
    BY <2>2, <2>3 DEF Restore
<1>5. Types'
  BY <1>1, <1>2, <1>3, <1>4 DEF Restore, RestoreCalls, Dialogs, RendererInv, Types
<1>6. Reported'
  BY <1>1, <1>2, <1>3, <1>4 DEF ReadAs, Restore, RestoreCalls, Dialogs, RendererInv, Reported,
                                Told, ForcedAfterConflict
<1>7. NothingSpins'
  BY <1>1, <1>2, <1>3, <1>4 DEF ReadAs, Restore, RendererInv, Types, NothingSpins
<1>8. ASSUME InTurn' PROVE Due'
  <2>1. InTurn /\ Due /\ Types
    BY <1>8 DEF Restore, RendererInv, Types, InTurn
  <2>2. HeaderDue'
    BY <1>1, <1>2, <1>3, <1>4, <2>1 DEF ReadAs, Restore, RestoreCalls, Dialogs, Types, Due,
                                        HeaderDue, Pending
  <2>3. TimelineDue'
    BY <1>1, <1>2, <1>3, <1>4, <2>1 DEF ReadAs, Restore, RestoreCalls, Dialogs, Types, Due,
                                        TimelineDue, FileKind, Fresh
  <2>4. ContentDue'
    BY <1>1, <1>2, <1>3, <1>4, <2>1 DEF ReadAs, Restore, RestoreCalls, Dialogs, Types, Due,
                                        ContentDue, Pending
  <2>5. DiffDue'
    BY <1>1, <1>2, <1>3, <1>4, <2>1 DEF ReadAs, Restore, RestoreCalls, Dialogs, Types, Due,
                                        DiffDue, Pending
  <2>6. ListDue'
    BY <1>1, <1>2, <1>3, <1>4, <2>1 DEF ReadAs, Restore, RestoreCalls, Dialogs, Types, Due,
                                        ListDue, Pending
  <2>7. QED
    BY <2>2, <2>3, <2>4, <2>5, <2>6 DEF Due
<1>9. QED
  BY <1>5, <1>6, <1>7, <1>8 DEF RendererInv

(* The main process recovers a version, or finds the path occupied.        *)
LEMMA RecoverKeeps ==
    ASSUME RendererInv, NEW i \in DOMAIN calls, Recover(i)
    PROVE  RendererInv'
<1>1. /\ calls \in Seq(CallSet) /\ calls[i] \in RecoverCalls
      /\ calls[i].op = "recover" /\ Told(calls[i])
  BY CallCases, ElementOfSeq, LenProperties DEF Recover, RendererInv, Types, Reported
<1>2. PICK d \in CallSet : /\ calls' = [calls EXCEPT ![i] = d]
                           /\ d.op = calls[i].op /\ d.of = calls[i].of
                           /\ d.op = "recover" /\ Told(d)'
  <2>1. PICK g \in {"occupied", "failed", "recovered"} :
                 /\ calls' = [calls EXCEPT ![i].got = g]
                 /\ g = "occupied" => calls[i].of.version \in occupied'
    BY DEF Recover
  <2> DEFINE e == [calls[i] EXCEPT !.got = g]
  <2>2. calls' = [calls EXCEPT ![i] = e]
    BY <2>1
  <2>3. e \in CallSet /\ e.op = calls[i].op /\ e.of = calls[i].of /\ e.got = g
    BY <1>1, <2>1, GotChanged DEF CallSet
  <2> HIDE DEF e
  <2>4. PICK d : d = e
    OBVIOUS
  <2>5. d \in CallSet /\ calls' = [calls EXCEPT ![i] = d] /\ d.op = calls[i].op /\ d.of = calls[i].of
    BY <2>2, <2>3, <2>4
  <2>6. occupied \subseteq occupied'
    BY DEF Recover
  <2>7. d.op = "recover" /\ Told(d)'
    BY <1>1, <2>1, <2>3, <2>4, <2>6 DEF Told
  <2>8. QED
    BY <2>5, <2>7
<1>3. ReadAs(i, d) /\ calls' \in Seq(CallSet)
  BY <1>1, <1>2, Reading DEF ReadAs
<1>4. /\ Types' /\ occupied \subseteq occupied'
      /\ selected # Nothing => \A n : Fresh(n) => Fresh(n)'
  <2>1. calls[i].of.version[1] \in FileIds
    BY <1>1 DEF RecoverCalls, Recoveries, Versions
  <2>2. CASE UNCHANGED mainVars
    BY <1>3, <2>2 DEF Recover, RendererInv, Types, Fresh
  <2>3. CASE Captures(calls[i].of.version[1])
    BY <1>3, <2>1, <2>3, Recording DEF Recorded, Recover, RendererInv, Types
  <2>4. QED
    BY <2>2, <2>3 DEF Recover
<1>5. Types'
  BY <1>1, <1>2, <1>3, <1>4 DEF Recover, RecoverCalls, Recoveries, RendererInv, Types
<1>6. Reported'
  BY <1>1, <1>2, <1>3, <1>4 DEF ReadAs, Recover, RecoverCalls, Recoveries, RendererInv, Reported,
                                Told, ForcedAfterConflict
<1>7. NothingSpins'
  BY <1>1, <1>2, <1>3, <1>4 DEF ReadAs, Recover, RendererInv, Types, NothingSpins
<1>8. ASSUME InTurn' PROVE Due'
  <2>1. InTurn /\ Due /\ Types
    BY <1>8 DEF Recover, RendererInv, Types, InTurn
  <2>2. HeaderDue'
    BY <1>1, <1>2, <1>3, <1>4, <2>1 DEF ReadAs, Recover, RecoverCalls, Recoveries, Types, Due,
                                        HeaderDue, Pending
  <2>3. TimelineDue'
    BY <1>1, <1>2, <1>3, <1>4, <2>1 DEF ReadAs, Recover, RecoverCalls, Recoveries, Types, Due,
                                        TimelineDue, FileKind, Fresh
  <2>4. ContentDue'
    BY <1>1, <1>2, <1>3, <1>4, <2>1 DEF ReadAs, Recover, RecoverCalls, Recoveries, Types, Due,
                                        ContentDue, Pending
  <2>5. DiffDue'
    BY <1>1, <1>2, <1>3, <1>4, <2>1 DEF ReadAs, Recover, RecoverCalls, Recoveries, Types, Due,
                                        DiffDue, Pending
  <2>6. ListDue'
    BY <1>1, <1>2, <1>3, <1>4, <2>1 DEF ReadAs, Recover, RecoverCalls, Recoveries, Types, Due,
                                        ListDue, Pending
  <2>7. QED
    BY <2>2, <2>3, <2>4, <2>5, <2>6 DEF Due
<1>9. QED
  BY <1>5, <1>6, <1>7, <1>8 DEF RendererInv

(* The history of a file is there, and what was to follow does.            *)
LEMMA FileAnsweredKeeps ==
    ASSUME RendererInv, NEW i \in DOMAIN calls, FileAnswered(i)
    PROVE  RendererInv'
<1>1. /\ calls \in Seq(CallSet) /\ calls[i] \in FileCalls
      /\ calls[i].op = "file" /\ Told(calls[i])
  BY CallCases, ElementOfSeq, LenProperties DEF FileAnswered, RendererInv, Types, Reported
<1>2. PICK next : /\ calls' = RemoveAt(calls, i) \o next /\ OneCall(next)
                  /\ (next # <<>> => next[1].op \in {"files", "version"})
                  /\ (next # <<>> /\ next[1].op = "files" => next[1].of = List)
                  /\ (next # <<>> /\ next[1].op = "version" => next[1].of = picked')
                  /\ \/ picked' = picked /\ diff' = diff
                     \/ next # <<>> /\ next[1].op = "version" /\ picked' = next[1].of
                  /\ filesLoading' = (filesLoading \/ (next # <<>> /\ next[1].op = "files"))
                  /\ picked' \in Versions \cup {Nothing}
  <2>1. CASE calls[i].then = Nothing
    <3>1. calls[i].then # Relist /\ calls[i].then \notin Versions
      BY <2>1, RendererAssumption
    <3>2. calls' = RemoveAt(calls, i) \o <<>> /\ picked' = picked /\ diff' = diff /\ UNCHANGED filesLoading
      BY <2>1, <3>1 DEF FileAnswered, Answer, RendererInv, Types
    <3>3. QED
      BY <3>2 DEF OneCall, RendererInv, Types
  <2>2. CASE calls[i].then = Relist
    <3> DEFINE asked == Refreshed(List)
    <3>1. calls[i].then # Nothing /\ calls[i].then \notin Versions
      BY <2>2, RendererAssumption DEF Versions, Relist
    <3>2. calls' = RemoveAt(calls, i) \o asked
      BY <2>2, <3>1 DEF FileAnswered, Answer
    <3>3. picked' = picked /\ diff' = diff
      BY <3>1 DEF FileAnswered
    <3>4. filesLoading' = TRUE
      BY <2>2 DEF FileAnswered
    <3>5. /\ OneCall(asked) /\ asked # <<>> /\ asked[1].op = "files" /\ asked[1].of = List
      BY DEF OneCall, Call, CallSet, ListCalls, Refreshed, List
    <3> HIDE DEF asked
    <3>6. QED
      BY <3>2, <3>3, <3>4, <3>5 DEF RendererInv, Types
  <2>3. CASE calls[i].then \in Versions
    <3> DEFINE asked == <<Call("version", calls[i].then, Nothing)>>
    <3>1. calls[i].then # Nothing /\ calls[i].then # Relist
      BY <2>3, RendererAssumption DEF Versions, Relist
    <3>2. calls' = RemoveAt(calls, i) \o asked
      BY <3>1 DEF FileAnswered, Answer
    <3>3. picked' = calls[i].then
      BY <2>3 DEF FileAnswered
    <3>4. filesLoading' = filesLoading
      BY <3>1 DEF FileAnswered, RendererInv, Types
    <3>5. OneCall(asked) /\ asked # <<>> /\ asked[1].op = "version" /\ asked[1].of = calls[i].then
      BY <2>3 DEF OneCall, Call, CallSet, VersionCalls
    <3> HIDE DEF asked
    <3>6. QED
      BY <2>3, <3>2, <3>3, <3>4, <3>5 DEF RendererInv, Types
  <2>4. QED
    BY <1>1, <2>1, <2>2, <2>3 DEF FileCalls
<1>3. Answered(i, next) /\ calls' \in Seq(CallSet)
  BY <1>1, <1>2, Answering DEF Answered, RendererInv, Types
<1>4. /\ overtaken' \in BOOLEAN /\ (~overtaken' => ~overtaken /\ First(i))
  <2>1. overtaken' = (overtaken \/ \E j \in 1..(i - 1) : Kind(calls[j]) = Kind(calls[i]))
    BY DEF FileAnswered, Answer
  <2>2. QED
    BY <2>1, Turning DEF RendererInv, Types
<1>5. timeline' \in Versions \cup {Nothing}
  BY <1>1 DEF FileAnswered, FileCalls, Snapshots, Versions, RendererInv, Types
<1>6. gone' \in BOOLEAN
  BY <1>1 DEF FileAnswered, FileCalls, Snapshots, RendererInv, Types
<1>7. filesLoading' \in BOOLEAN
  BY <1>2 DEF RendererInv, Types
<1>8. Types'
  BY <1>1, <1>2, <1>3, <1>4, <1>5, <1>6, <1>7
     DEF FileAnswered, FileCalls, Snapshots, RendererInv, Types
<1>9. Reported'
  BY <1>1, <1>2, <1>3, <1>4, <1>5, <1>6, <1>7
     DEF Answered, FileAnswered, FileCalls, Snapshots, RendererInv, Reported, Told,
         ForcedAfterConflict
<1>10. NothingSpins'
  BY <1>1, <1>2, <1>3, <1>4, <1>5, <1>6, <1>7
     DEF Answered, FileAnswered, RendererInv, Types, NothingSpins
<1>11. ASSUME InTurn' PROVE Due'
  <2>1. InTurn /\ Due /\ Types /\ Served
    BY <1>11, <1>4 DEF FileAnswered, RendererInv, Types, InTurn
  <2>2. OldestOf({"file"}, i) /\ (next = <<>> \/ next[1].op \notin {"file"})
    BY <1>1, <1>2, <1>4, <1>11 DEF OldestOf, InTurn, First, FileKind
  <2>3. \A c : Latest({"file"}, c) => (c = calls[i] /\ NoneOf({"file"})') \/ Latest({"file"}, c)'
    BY <1>3, <2>2 DEF Answered
  <2>4. ~NoneOf({"file"})
    BY <1>1 DEF NoneOf, FileKind
  <2>5. OldestOf(FileKind, i) /\ (next = <<>> \/ next[1].op \notin FileKind)
    BY <1>1, <1>2, <1>4, <1>11 DEF OldestOf, InTurn, First, FileKind
  <2>6. \A c : Latest(FileKind, c) => (c = calls[i] /\ NoneOf(FileKind)') \/ Latest(FileKind, c)'
    BY <1>3, <2>5 DEF Answered
  <2>7. ~NoneOf(FileKind)
    BY <1>1 DEF NoneOf, FileKind
  <2>8. HeaderDue'
    BY <1>1, <1>2, <1>3, <1>4, <1>5, <1>6, <1>7, <2>1, <2>3, <2>4, <2>6, <2>7
       DEF Answered, FileAnswered, FileCalls, Snapshots, First, Types, Due, HeaderDue, Pending
  <2>9. TimelineDue'
    BY <1>1, <1>2, <1>3, <1>4, <1>5, <1>6, <1>7, <2>1, <2>3, <2>4, <2>6, <2>7
       DEF Answered, FileAnswered, FileCalls, Snapshots, First, Types, Due, TimelineDue, FileKind,
           Fresh
  <2>10. ContentDue'
    <3>1. UNCHANGED content
      BY DEF FileAnswered
    <3>2. CASE next # <<>> /\ next[1].op = "version"
      BY <1>2, <1>3, <3>2 DEF Answered, ContentDue, Pending
    <3>3. CASE ~(next # <<>> /\ next[1].op = "version")
      <4>1. picked' = picked /\ (next = <<>> \/ next[1].op # "version")
        BY <1>2, <3>3
      <4>2. QED
        BY <1>1, <1>3, <2>1, <3>1, <4>1 DEF Answered, Due, ContentDue, Pending
    <3>4. QED
      BY <3>2, <3>3
  <2>11. DiffDue'
    BY <1>1, <1>2, <1>3, <1>4, <1>5, <1>6, <1>7, <2>1, <2>3, <2>4, <2>6, <2>7
       DEF Answered, FileAnswered, FileCalls, Snapshots, First, Types, Due, DiffDue, Pending
  <2>12. ListDue'
    BY <1>1, <1>2, <1>3, <1>4, <1>5, <1>6, <1>7, <2>1, <2>3, <2>4, <2>6, <2>7
       DEF Answered, FileAnswered, FileCalls, Snapshots, First, List, Types, Due, ListDue, Pending
  <2>13. QED
    BY <2>8, <2>9, <2>10, <2>11, <2>12 DEF Due
<1>12. QED
  BY <1>8, <1>9, <1>10, <1>11 DEF RendererInv

(* The timeline is there.                                                  *)
LEMMA CapturedAnsweredKeeps ==
    ASSUME RendererInv, NEW i \in DOMAIN calls, CapturedAnswered(i)
    PROVE  RendererInv'
<1>1. /\ calls \in Seq(CallSet) /\ calls[i] \in CapturedCalls
      /\ calls[i].op = "captured" /\ Told(calls[i])
  BY CallCases, ElementOfSeq, LenProperties DEF CapturedAnswered, RendererInv, Types, Reported
<1> DEFINE asked == <<>>
<1>2. PICK next : /\ calls' = RemoveAt(calls, i) \o next /\ OneCall(next)
                  /\ next = <<>>
  <2>1. calls' = RemoveAt(calls, i) \o asked
    BY <1>1 DEF RendererInv, Types, CapturedAnswered, Answer
  <2>2. /\ OneCall(asked)
        /\ asked = <<>>
    BY <1>1 DEF OneCall, Call, CallSet, RendererInv, Types, CapturedAnswered, Answer
  <2>3. QED
    BY <2>1, <2>2
<1>3. Answered(i, next) /\ calls' \in Seq(CallSet)
  BY <1>1, <1>2, Answering DEF Answered, RendererInv, Types
<1>4. /\ overtaken' \in BOOLEAN /\ (~overtaken' => ~overtaken /\ First(i))
  <2>1. overtaken' = (overtaken \/ \E j \in 1..(i - 1) : Kind(calls[j]) = Kind(calls[i]))
    BY DEF CapturedAnswered, Answer
  <2>2. QED
    BY <2>1, Turning DEF RendererInv, Types
<1>5. timeline' \in Versions \cup {Nothing}
  BY <1>1 DEF CapturedAnswered, CapturedCalls, Snapshots, Versions, RendererInv, Types
<1>6. Types'
  BY <1>1, <1>2, <1>3, <1>4, <1>5 DEF CapturedAnswered, CapturedCalls, Snapshots, RendererInv,
                                      Types
<1>7. Reported'
  BY <1>1, <1>2, <1>3, <1>4, <1>5 DEF Answered, CapturedAnswered, CapturedCalls, Snapshots,
                                      RendererInv, Reported, Told, ForcedAfterConflict
<1>8. NothingSpins'
  BY <1>1, <1>2, <1>3, <1>4, <1>5 DEF Answered, CapturedAnswered, RendererInv, Types, NothingSpins
<1>9. ASSUME InTurn' PROVE Due'
  <2>1. InTurn /\ Due /\ Types /\ Served
    BY <1>9, <1>4 DEF CapturedAnswered, RendererInv, Types, InTurn
  <2>2. OldestOf(FileKind, i) /\ (next = <<>> \/ next[1].op \notin FileKind)
    BY <1>1, <1>2, <1>4, <1>9 DEF OldestOf, InTurn, First, FileKind
  <2>3. \A c : Latest(FileKind, c) => (c = calls[i] /\ NoneOf(FileKind)') \/ Latest(FileKind, c)'
    BY <1>3, <2>2 DEF Answered
  <2>4. ~NoneOf(FileKind)
    BY <1>1 DEF NoneOf, FileKind
  <2>5. HeaderDue'
    BY <1>1, <1>2, <1>3, <1>4, <1>5, <2>1, <2>3, <2>4
       DEF Answered, CapturedAnswered, CapturedCalls, Snapshots, First, Types, Due, HeaderDue,
           Pending
  <2>6. TimelineDue'
    BY <1>1, <1>2, <1>3, <1>4, <1>5, <2>1, <2>3, <2>4
       DEF Answered, CapturedAnswered, CapturedCalls, Snapshots, First, Types, Due, TimelineDue,
           FileKind, Fresh
  <2>7. ContentDue'
    BY <1>1, <1>2, <1>3, <1>4, <1>5, <2>1, <2>3, <2>4
       DEF Answered, CapturedAnswered, CapturedCalls, Snapshots, First, Types, Due, ContentDue,
           Pending
  <2>8. DiffDue'
    BY <1>1, <1>2, <1>3, <1>4, <1>5, <2>1, <2>3, <2>4
       DEF Answered, CapturedAnswered, CapturedCalls, Snapshots, First, Types, Due, DiffDue,
           Pending
  <2>9. ListDue'
    BY <1>1, <1>2, <1>3, <1>4, <1>5, <2>1, <2>3, <2>4
       DEF Answered, CapturedAnswered, CapturedCalls, Snapshots, First, Types, Due, ListDue,
           Pending
  <2>10. QED
    BY <2>5, <2>6, <2>7, <2>8, <2>9 DEF Due
<1>10. QED
  BY <1>6, <1>7, <1>8, <1>9 DEF RendererInv

(* The diff is there.                                                      *)
LEMMA DiffAnsweredKeeps ==
    ASSUME RendererInv, NEW i \in DOMAIN calls, DiffAnswered(i)
    PROVE  RendererInv'
<1>1. /\ calls \in Seq(CallSet) /\ calls[i] \in DiffsAsked
      /\ calls[i].op = "diff" /\ Told(calls[i])
  BY CallCases, ElementOfSeq, LenProperties DEF DiffAnswered, RendererInv, Types, Reported
<1> DEFINE asked == <<>>
<1>2. PICK next : /\ calls' = RemoveAt(calls, i) \o next /\ OneCall(next)
                  /\ next = <<>>
  <2>1. calls' = RemoveAt(calls, i) \o asked
    BY <1>1 DEF RendererInv, Types, DiffAnswered, DiffRefused, Answer
  <2>2. /\ OneCall(asked)
        /\ asked = <<>>
    BY <1>1 DEF OneCall, Call, CallSet, RendererInv, Types, DiffAnswered, DiffRefused, Answer
  <2>3. QED
    BY <2>1, <2>2
<1>3. Answered(i, next) /\ calls' \in Seq(CallSet)
  BY <1>1, <1>2, Answering DEF Answered, RendererInv, Types
<1>4. /\ overtaken' \in BOOLEAN /\ (~overtaken' => ~overtaken /\ First(i))
  <2>1. overtaken' = (overtaken \/ \E j \in 1..(i - 1) : Kind(calls[j]) = Kind(calls[i]))
    BY DEF DiffAnswered, Answer
  <2>2. QED
    BY <2>1, Turning DEF RendererInv, Types
<1>5. diffLoading' \in BOOLEAN
  BY <1>1, <1>2 DEF DiffAnswered, DiffRefused, RendererInv, Types
<1>6. Types'
  BY <1>1, <1>2, <1>3, <1>4, <1>5 DEF DiffAnswered, DiffRefused, DiffsAsked, RendererInv, Types
<1>7. Reported'
  BY <1>1, <1>2, <1>3, <1>4, <1>5 DEF Answered, DiffAnswered, DiffRefused, DiffsAsked, RendererInv,
                                      Reported, Told, ForcedAfterConflict
<1>8. NothingSpins'
  BY <1>1, <1>2, <1>3, <1>4, <1>5 DEF Answered, DiffAnswered, DiffRefused, RendererInv, Types,
                                      NothingSpins
<1>9. ASSUME InTurn' PROVE Due'
  <2>1. InTurn /\ Due /\ Types /\ Served
    BY <1>9, <1>4 DEF DiffAnswered, DiffRefused, RendererInv, Types, InTurn
  <2>2. OldestOf({"diff"}, i) /\ (next = <<>> \/ next[1].op \notin {"diff"})
    BY <1>1, <1>2, <1>4, <1>9 DEF OldestOf, InTurn, First, FileKind
  <2>3. \A c : Latest({"diff"}, c) => (c = calls[i] /\ NoneOf({"diff"})') \/ Latest({"diff"}, c)'
    BY <1>3, <2>2 DEF Answered
  <2>4. ~NoneOf({"diff"})
    BY <1>1 DEF NoneOf, FileKind
  <2>5. HeaderDue'
    BY <1>1, <1>2, <1>3, <1>4, <1>5, <2>1, <2>3, <2>4
       DEF Answered, DiffAnswered, DiffRefused, DiffsAsked, First, Types, Due, HeaderDue, Pending
  <2>6. TimelineDue'
    BY <1>1, <1>2, <1>3, <1>4, <1>5, <2>1, <2>3, <2>4
       DEF Answered, DiffAnswered, DiffRefused, DiffsAsked, First, Types, Due, TimelineDue,
           FileKind, Fresh
  <2>7. ContentDue'
    BY <1>1, <1>2, <1>3, <1>4, <1>5, <2>1, <2>3, <2>4
       DEF Answered, DiffAnswered, DiffRefused, DiffsAsked, First, Types, Due, ContentDue, Pending
  <2>8. DiffDue'
    BY <1>1, <1>2, <1>3, <1>4, <1>5, <2>1, <2>3, <2>4
       DEF Answered, DiffAnswered, DiffRefused, DiffsAsked, First, Types, Due, DiffDue, Pending
  <2>9. ListDue'
    BY <1>1, <1>2, <1>3, <1>4, <1>5, <2>1, <2>3, <2>4
       DEF Answered, DiffAnswered, DiffRefused, DiffsAsked, First, Types, Due, ListDue, Pending
  <2>10. QED
    BY <2>5, <2>6, <2>7, <2>8, <2>9 DEF Due
<1>10. QED
  BY <1>6, <1>7, <1>8, <1>9 DEF RendererInv

(* The results are there.                                                  *)
LEMMA SearchAnsweredKeeps ==
    ASSUME RendererInv, NEW i \in DOMAIN calls, SearchAnswered(i)
    PROVE  RendererInv'
<1>1. /\ calls \in Seq(CallSet) /\ calls[i] \in OtherCalls
      /\ calls[i].op = "search" /\ Told(calls[i])
  BY CallCases, ElementOfSeq, LenProperties DEF SearchAnswered, RendererInv, Types, Reported
<1> DEFINE asked == <<>>
<1>2. PICK next : /\ calls' = RemoveAt(calls, i) \o next /\ OneCall(next)
                  /\ next = <<>>
  <2>1. calls' = RemoveAt(calls, i) \o asked
    BY <1>1 DEF RendererInv, Types, SearchAnswered, Answer
  <2>2. /\ OneCall(asked)
        /\ asked = <<>>
    BY <1>1 DEF OneCall, Call, CallSet, RendererInv, Types, SearchAnswered, Answer
  <2>3. QED
    BY <2>1, <2>2
<1>3. Answered(i, next) /\ calls' \in Seq(CallSet)
  BY <1>1, <1>2, Answering DEF Answered, RendererInv, Types
<1>4. /\ overtaken' \in BOOLEAN /\ (~overtaken' => ~overtaken /\ First(i))
  <2>1. overtaken' = (overtaken \/ \E j \in 1..(i - 1) : Kind(calls[j]) = Kind(calls[i]))
    BY DEF SearchAnswered, Answer
  <2>2. QED
    BY <2>1, Turning DEF RendererInv, Types
<1>5. searching' \in BOOLEAN
  BY <1>1, <1>2 DEF SearchAnswered, RendererInv, Types
<1>6. Types'
  BY <1>1, <1>2, <1>3, <1>4, <1>5 DEF SearchAnswered, OtherCalls, RendererInv, Types
<1>7. Reported'
  BY <1>1, <1>2, <1>3, <1>4, <1>5 DEF Answered, SearchAnswered, OtherCalls, RendererInv, Reported,
                                      Told, ForcedAfterConflict
<1>8. NothingSpins'
  BY <1>1, <1>2, <1>3, <1>4, <1>5 DEF Answered, SearchAnswered, RendererInv, Types, NothingSpins
<1>9. ASSUME InTurn' PROVE Due'
  <2>1. InTurn /\ Due /\ Types /\ Served
    BY <1>9, <1>4 DEF SearchAnswered, RendererInv, Types, InTurn
  <2>2. HeaderDue'
    BY <1>1, <1>2, <1>3, <1>4, <1>5, <2>1
       DEF Answered, SearchAnswered, OtherCalls, First, Types, Due, HeaderDue, Pending
  <2>3. TimelineDue'
    BY <1>1, <1>2, <1>3, <1>4, <1>5, <2>1
       DEF Answered, SearchAnswered, OtherCalls, First, Types, Due, TimelineDue, FileKind, Fresh
  <2>4. ContentDue'
    BY <1>1, <1>2, <1>3, <1>4, <1>5, <2>1
       DEF Answered, SearchAnswered, OtherCalls, First, Types, Due, ContentDue, Pending
  <2>5. DiffDue'
    BY <1>1, <1>2, <1>3, <1>4, <1>5, <2>1
       DEF Answered, SearchAnswered, OtherCalls, First, Types, Due, DiffDue, Pending
  <2>6. ListDue'
    BY <1>1, <1>2, <1>3, <1>4, <1>5, <2>1
       DEF Answered, SearchAnswered, OtherCalls, First, Types, Due, ListDue, Pending
  <2>7. QED
    BY <2>2, <2>3, <2>4, <2>5, <2>6 DEF Due
<1>10. QED
  BY <1>6, <1>7, <1>8, <1>9 DEF RendererInv

(* The dialog opens.                                                       *)
LEMMA DialogAnsweredKeeps ==
    ASSUME RendererInv, NEW i \in DOMAIN calls, DialogAnswered(i)
    PROVE  RendererInv'
<1>1. /\ calls \in Seq(CallSet) /\ calls[i] \in DialogCalls
      /\ calls[i].op = "dialog" /\ Told(calls[i])
  BY CallCases, ElementOfSeq, LenProperties DEF DialogAnswered, RendererInv, Types, Reported
<1> DEFINE asked == <<>>
<1>2. PICK next : /\ calls' = RemoveAt(calls, i) \o next /\ OneCall(next)
                  /\ next = <<>>
  <2>1. calls' = RemoveAt(calls, i) \o asked
    BY <1>1 DEF RendererInv, Types, DialogAnswered, Answer
  <2>2. /\ OneCall(asked)
        /\ asked = <<>>
    BY <1>1 DEF OneCall, Call, CallSet, RendererInv, Types, DialogAnswered, Answer
  <2>3. QED
    BY <2>1, <2>2
<1>3. Answered(i, next) /\ calls' \in Seq(CallSet)
  BY <1>1, <1>2, Answering DEF Answered, RendererInv, Types
<1>4. /\ overtaken' \in BOOLEAN /\ (~overtaken' => ~overtaken /\ First(i))
  <2>1. overtaken' = (overtaken \/ \E j \in 1..(i - 1) : Kind(calls[j]) = Kind(calls[i]))
    BY DEF DialogAnswered, Answer
  <2>2. QED
    BY <2>1, Turning DEF RendererInv, Types
<1>5. dialog' \in Dialogs /\ ~dialog'.busy /\ ~dialog'.conflict
  <2>1. PICK expected \in Versions \cup {Nothing} :
           dialog' = [version |-> calls[i].then, expected |-> expected, conflict |-> FALSE,
                      busy |-> FALSE, over |-> FALSE]
    BY <1>1 DEF DialogAnswered, DialogCalls, Snapshots, Versions
  <2>2. calls[i].then \in Versions
    BY <1>1 DEF DialogCalls
  <2>3. QED
    BY <2>1, <2>2 DEF Dialogs
<1>6. Types'
  BY <1>1, <1>2, <1>3, <1>4, <1>5 DEF DialogAnswered, DialogCalls, Snapshots, RendererInv, Types
<1>7. Reported'
  BY <1>1, <1>2, <1>3, <1>4, <1>5 DEF Answered, DialogAnswered, DialogCalls, Snapshots,
                                      RendererInv, Reported, Told, ForcedAfterConflict
<1>8. NothingSpins'
  BY <1>1, <1>2, <1>3, <1>4, <1>5 DEF Answered, DialogAnswered, RendererInv, Types, NothingSpins
<1>9. ASSUME InTurn' PROVE Due'
  <2>1. InTurn /\ Due /\ Types /\ Served
    BY <1>9, <1>4 DEF DialogAnswered, RendererInv, Types, InTurn
  <2>2. HeaderDue'
    BY <1>1, <1>2, <1>3, <1>4, <1>5, <2>1
       DEF Answered, DialogAnswered, DialogCalls, Snapshots, First, Types, Due, HeaderDue, Pending
  <2>3. TimelineDue'
    BY <1>1, <1>2, <1>3, <1>4, <1>5, <2>1
       DEF Answered, DialogAnswered, DialogCalls, Snapshots, First, Types, Due, TimelineDue,
           FileKind, Fresh
  <2>4. ContentDue'
    BY <1>1, <1>2, <1>3, <1>4, <1>5, <2>1
       DEF Answered, DialogAnswered, DialogCalls, Snapshots, First, Types, Due, ContentDue, Pending
  <2>5. DiffDue'
    BY <1>1, <1>2, <1>3, <1>4, <1>5, <2>1
       DEF Answered, DialogAnswered, DialogCalls, Snapshots, First, Types, Due, DiffDue, Pending
  <2>6. ListDue'
    BY <1>1, <1>2, <1>3, <1>4, <1>5, <2>1
       DEF Answered, DialogAnswered, DialogCalls, Snapshots, First, Types, Due, ListDue, Pending
  <2>7. QED
    BY <2>2, <2>3, <2>4, <2>5, <2>6 DEF Due
<1>10. QED
  BY <1>6, <1>7, <1>8, <1>9 DEF RendererInv

(* A conflict is shown.                                                    *)
LEMMA RestoreConflictsKeeps ==
    ASSUME RendererInv, NEW i \in DOMAIN calls, RestoreConflicts(i)
    PROVE  RendererInv'
<1>1. /\ calls \in Seq(CallSet) /\ calls[i] \in RestoreCalls
      /\ calls[i].op = "restore" /\ Told(calls[i])
  BY CallCases, ElementOfSeq, LenProperties DEF RestoreConflicts, RendererInv, Types, Reported
<1> DEFINE asked == <<>>
<1>2. PICK next : /\ calls' = RemoveAt(calls, i) \o next /\ OneCall(next)
                  /\ next = <<>>
  <2>1. calls' = RemoveAt(calls, i) \o asked
    BY <1>1 DEF RendererInv, Types, RestoreConflicts, InConflict, Answer
  <2>2. /\ OneCall(asked)
        /\ asked = <<>>
    BY <1>1 DEF OneCall, Call, CallSet, RendererInv, Types, RestoreConflicts, InConflict, Answer
  <2>3. QED
    BY <2>1, <2>2
<1>3. Answered(i, next) /\ calls' \in Seq(CallSet)
  BY <1>1, <1>2, Answering DEF Answered, RendererInv, Types
<1>4. /\ overtaken' \in BOOLEAN /\ (~overtaken' => ~overtaken /\ First(i))
  <2>1. overtaken' = (overtaken \/ \E j \in 1..(i - 1) : Kind(calls[j]) = Kind(calls[i]))
    BY DEF RestoreConflicts, Answer
  <2>2. QED
    BY <2>1, Turning DEF RendererInv, Types
<1>5. /\ dialog' \in Dialogs /\ ~dialog'.busy
      /\ dialog'.version \in conflicts
  <2>1. /\ calls[i].of \in Dialogs /\ calls[i].of.version \in conflicts
        /\ <<calls[i].of.version[1], calls[i].got.now>> \in Versions
    BY <1>1 DEF RestoreConflicts, RestoreCalls, Dialogs, Versions, Told
  <2>2. dialog' = [calls[i].of EXCEPT !.busy = FALSE, !.conflict = TRUE,
                                      !.expected = <<calls[i].of.version[1], calls[i].got.now>>]
    BY DEF RestoreConflicts, InConflict
  <2>3. QED
    BY <2>1, <2>2, InConflictIs
<1>6. Types'
  BY <1>1, <1>2, <1>3, <1>4, <1>5 DEF RestoreConflicts, InConflict, RestoreCalls, Dialogs,
                                      RendererInv, Types
<1>7. Reported'
  BY <1>1, <1>2, <1>3, <1>4, <1>5 DEF Answered, RestoreConflicts, InConflict, RestoreCalls,
                                      Dialogs, RendererInv, Reported, Told, ForcedAfterConflict
<1>8. NothingSpins'
  BY <1>1, <1>2, <1>3, <1>4, <1>5 DEF Answered, RestoreConflicts, InConflict, RendererInv, Types,
                                      NothingSpins
<1>9. ASSUME InTurn' PROVE Due'
  <2>1. InTurn /\ Due /\ Types /\ Served
    BY <1>9, <1>4 DEF RestoreConflicts, InConflict, RendererInv, Types, InTurn
  <2>2. HeaderDue'
    BY <1>1, <1>2, <1>3, <1>4, <1>5, <2>1
       DEF Answered, RestoreConflicts, InConflict, RestoreCalls, Dialogs, First, Types, Due,
           HeaderDue, Pending
  <2>3. TimelineDue'
    BY <1>1, <1>2, <1>3, <1>4, <1>5, <2>1
       DEF Answered, RestoreConflicts, InConflict, RestoreCalls, Dialogs, First, Types, Due,
           TimelineDue, FileKind, Fresh
  <2>4. ContentDue'
    BY <1>1, <1>2, <1>3, <1>4, <1>5, <2>1
       DEF Answered, RestoreConflicts, InConflict, RestoreCalls, Dialogs, First, Types, Due,
           ContentDue, Pending
  <2>5. DiffDue'
    BY <1>1, <1>2, <1>3, <1>4, <1>5, <2>1
       DEF Answered, RestoreConflicts, InConflict, RestoreCalls, Dialogs, First, Types, Due,
           DiffDue, Pending
  <2>6. ListDue'
    BY <1>1, <1>2, <1>3, <1>4, <1>5, <2>1
       DEF Answered, RestoreConflicts, InConflict, RestoreCalls, Dialogs, First, Types, Due,
           ListDue, Pending
  <2>7. QED
    BY <2>2, <2>3, <2>4, <2>5, <2>6 DEF Due
<1>10. QED
  BY <1>6, <1>7, <1>8, <1>9 DEF RendererInv

(* A restore has failed.                                                   *)
LEMMA RestoreRefusedKeeps ==
    ASSUME RendererInv, NEW i \in DOMAIN calls, RestoreRefused(i)
    PROVE  RendererInv'
<1>1. /\ calls \in Seq(CallSet) /\ calls[i] \in RestoreCalls
      /\ calls[i].op = "restore" /\ Told(calls[i])
  BY CallCases, ElementOfSeq, LenProperties DEF RestoreRefused, RendererInv, Types, Reported
<1> DEFINE asked == <<>>
<1>2. PICK next : /\ calls' = RemoveAt(calls, i) \o next /\ OneCall(next)
                  /\ next = <<>>
  <2>1. calls' = RemoveAt(calls, i) \o asked
    BY <1>1 DEF RendererInv, Types, RestoreRefused, Answer
  <2>2. /\ OneCall(asked)
        /\ asked = <<>>
    BY <1>1 DEF OneCall, Call, CallSet, RendererInv, Types, RestoreRefused, Answer
  <2>3. QED
    BY <2>1, <2>2
<1>3. Answered(i, next) /\ calls' \in Seq(CallSet)
  BY <1>1, <1>2, Answering DEF Answered, RendererInv, Types
<1>4. /\ overtaken' \in BOOLEAN /\ (~overtaken' => ~overtaken /\ First(i))
  <2>1. overtaken' = (overtaken \/ \E j \in 1..(i - 1) : Kind(calls[j]) = Kind(calls[i]))
    BY DEF RestoreRefused, Answer
  <2>2. QED
    BY <2>1, Turning DEF RendererInv, Types
<1>5. /\ dialog' \in Dialogs /\ ~dialog'.busy
      /\ dialog'.version = calls[i].of.version /\ dialog'.conflict = calls[i].of.conflict
  <2>1. calls[i].of \in Dialogs
    BY <1>1 DEF RestoreCalls
  <2>2. dialog' = [calls[i].of EXCEPT !.busy = FALSE]
    BY DEF RestoreRefused
  <2>3. QED
    BY <2>1, <2>2, DialogChanged
<1>6. Types'
  BY <1>1, <1>2, <1>3, <1>4, <1>5 DEF RestoreRefused, RestoreCalls, Dialogs, RendererInv, Types
<1>7. Reported'
  BY <1>1, <1>2, <1>3, <1>4, <1>5 DEF Answered, RestoreRefused, RestoreCalls, Dialogs, RendererInv,
                                      Reported, Told, ForcedAfterConflict
<1>8. NothingSpins'
  BY <1>1, <1>2, <1>3, <1>4, <1>5 DEF Answered, RestoreRefused, RendererInv, Types, NothingSpins
<1>9. ASSUME InTurn' PROVE Due'
  <2>1. InTurn /\ Due /\ Types /\ Served
    BY <1>9, <1>4 DEF RestoreRefused, RendererInv, Types, InTurn
  <2>2. HeaderDue'
    BY <1>1, <1>2, <1>3, <1>4, <1>5, <2>1
       DEF Answered, RestoreRefused, RestoreCalls, Dialogs, First, Types, Due, HeaderDue, Pending
  <2>3. TimelineDue'
    BY <1>1, <1>2, <1>3, <1>4, <1>5, <2>1
       DEF Answered, RestoreRefused, RestoreCalls, Dialogs, First, Types, Due, TimelineDue,
           FileKind, Fresh
  <2>4. ContentDue'
    BY <1>1, <1>2, <1>3, <1>4, <1>5, <2>1
       DEF Answered, RestoreRefused, RestoreCalls, Dialogs, First, Types, Due, ContentDue, Pending
  <2>5. DiffDue'
    BY <1>1, <1>2, <1>3, <1>4, <1>5, <2>1
       DEF Answered, RestoreRefused, RestoreCalls, Dialogs, First, Types, Due, DiffDue, Pending
  <2>6. ListDue'
    BY <1>1, <1>2, <1>3, <1>4, <1>5, <2>1
       DEF Answered, RestoreRefused, RestoreCalls, Dialogs, First, Types, Due, ListDue, Pending
  <2>7. QED
    BY <2>2, <2>3, <2>4, <2>5, <2>6 DEF Due
<1>10. QED
  BY <1>6, <1>7, <1>8, <1>9 DEF RendererInv

(* A recovery has failed.                                                  *)
LEMMA RecoverRefusedKeeps ==
    ASSUME RendererInv, NEW i \in DOMAIN calls, RecoverRefused(i)
    PROVE  RendererInv'
<1>1. /\ calls \in Seq(CallSet) /\ calls[i] \in RecoverCalls
      /\ calls[i].op = "recover" /\ Told(calls[i])
  BY CallCases, ElementOfSeq, LenProperties DEF RecoverRefused, RendererInv, Types, Reported
<1> DEFINE asked == <<>>
<1>2. PICK next : /\ calls' = RemoveAt(calls, i) \o next /\ OneCall(next)
                  /\ next = <<>>
  <2>1. calls' = RemoveAt(calls, i) \o asked
    BY <1>1 DEF RendererInv, Types, RecoverRefused, Answer
  <2>2. /\ OneCall(asked)
        /\ asked = <<>>
    BY <1>1 DEF OneCall, Call, CallSet, RendererInv, Types, RecoverRefused, Answer
  <2>3. QED
    BY <2>1, <2>2
<1>3. Answered(i, next) /\ calls' \in Seq(CallSet)
  BY <1>1, <1>2, Answering DEF Answered, RendererInv, Types
<1>4. /\ overtaken' \in BOOLEAN /\ (~overtaken' => ~overtaken /\ First(i))
  <2>1. overtaken' = (overtaken \/ \E j \in 1..(i - 1) : Kind(calls[j]) = Kind(calls[i]))
    BY DEF RecoverRefused, Answer
  <2>2. QED
    BY <2>1, Turning DEF RendererInv, Types
<1>5. /\ recovery' \in Recoveries /\ ~recovery'.busy
      /\ recovery'.version = calls[i].of.version /\ recovery'.outcome = calls[i].of.outcome
  <2>1. calls[i].of \in Recoveries
    BY <1>1 DEF RecoverCalls
  <2>2. recovery' = [calls[i].of EXCEPT !.busy = FALSE]
    BY DEF RecoverRefused
  <2>3. QED
    BY <2>1, <2>2, RecoveryChanged
<1>6. Types'
  BY <1>1, <1>2, <1>3, <1>4, <1>5 DEF RecoverRefused, RecoverCalls, Recoveries, RendererInv, Types
<1>7. Reported'
  BY <1>1, <1>2, <1>3, <1>4, <1>5 DEF Answered, RecoverRefused, RecoverCalls, Recoveries,
                                      RendererInv, Reported, Told, ForcedAfterConflict
<1>8. NothingSpins'
  BY <1>1, <1>2, <1>3, <1>4, <1>5 DEF Answered, RecoverRefused, RendererInv, Types, NothingSpins
<1>9. ASSUME InTurn' PROVE Due'
  <2>1. InTurn /\ Due /\ Types /\ Served
    BY <1>9, <1>4 DEF RecoverRefused, RendererInv, Types, InTurn
  <2>2. HeaderDue'
    BY <1>1, <1>2, <1>3, <1>4, <1>5, <2>1
       DEF Answered, RecoverRefused, RecoverCalls, Recoveries, First, Types, Due, HeaderDue,
           Pending
  <2>3. TimelineDue'
    BY <1>1, <1>2, <1>3, <1>4, <1>5, <2>1
       DEF Answered, RecoverRefused, RecoverCalls, Recoveries, First, Types, Due, TimelineDue,
           FileKind, Fresh
  <2>4. ContentDue'
    BY <1>1, <1>2, <1>3, <1>4, <1>5, <2>1
       DEF Answered, RecoverRefused, RecoverCalls, Recoveries, First, Types, Due, ContentDue,
           Pending
  <2>5. DiffDue'
    BY <1>1, <1>2, <1>3, <1>4, <1>5, <2>1
       DEF Answered, RecoverRefused, RecoverCalls, Recoveries, First, Types, Due, DiffDue, Pending
  <2>6. ListDue'
    BY <1>1, <1>2, <1>3, <1>4, <1>5, <2>1
       DEF Answered, RecoverRefused, RecoverCalls, Recoveries, First, Types, Due, ListDue, Pending
  <2>7. QED
    BY <2>2, <2>3, <2>4, <2>5, <2>6 DEF Due
<1>10. QED
  BY <1>6, <1>7, <1>8, <1>9 DEF RendererInv

(* A list is there.                                                        *)
LEMMA FilesAnsweredKeeps ==
    ASSUME RendererInv, NEW i \in DOMAIN calls, FilesAnswered(i)
    PROVE  RendererInv'
<1>1. /\ calls \in Seq(CallSet) /\ calls[i] \in ListCalls
      /\ calls[i].op = "files" /\ Told(calls[i])
  BY CallCases, ElementOfSeq, LenProperties DEF FilesAnswered, RendererInv, Types, Reported
<1> DEFINE asked == IF calls[i].then = "select" /\ selected # Nothing THEN <<Call("file", selected, Nothing)>> ELSE <<>>
<1>2. PICK next : /\ calls' = RemoveAt(calls, i) \o next /\ OneCall(next)
                  /\ (next # <<>> => next[1].op = "file" /\ next[1].of = selected /\ next[1].got = Nothing)
                  /\ (next # <<>> => Reselected)
                  /\ next = <<>> => UNCHANGED <<fileVars, picked, content, diff>>
  <2>1. calls' = RemoveAt(calls, i) \o asked
    BY <1>1 DEF RendererInv, Types, FilesAnswered, Answer, Reselected
  <2>2. /\ OneCall(asked)
        /\ (asked # <<>> => asked[1].op = "file" /\ asked[1].of = selected /\ asked[1].got = Nothing)
        /\ (asked # <<>> => Reselected)
        /\ asked = <<>> => UNCHANGED <<fileVars, picked, content, diff>>
    BY <1>1 DEF OneCall, Call, CallSet, FileCalls, RendererInv, Types, FilesAnswered, Answer,
                Reselected
  <2>3. QED
    BY <2>1, <2>2
<1>3. Answered(i, next) /\ calls' \in Seq(CallSet)
  BY <1>1, <1>2, Answering DEF Answered, RendererInv, Types
<1>4. /\ overtaken' \in BOOLEAN /\ (~overtaken' => ~overtaken /\ First(i))
  <2>1. overtaken' = (overtaken \/ \E j \in 1..(i - 1) : Kind(calls[j]) = Kind(calls[i]))
    BY DEF FilesAnswered, Answer
  <2>2. QED
    BY <2>1, Turning DEF RendererInv, Types
<1>5. filesLoading' \in BOOLEAN
  BY <1>1, <1>2 DEF FilesAnswered, RendererInv, Types
<1>6. Types'
  BY <1>1, <1>2, <1>3, <1>4, <1>5 DEF FilesAnswered, Reselected, ListCalls, RendererInv, Types
<1>7. Reported'
  BY <1>1, <1>2, <1>3, <1>4, <1>5 DEF Answered, FilesAnswered, Reselected, ListCalls, RendererInv,
                                      Reported, Told, ForcedAfterConflict
<1>8. NothingSpins'
  BY <1>1, <1>2, <1>3, <1>4, <1>5 DEF Answered, FilesAnswered, Reselected, RendererInv, Types,
                                      NothingSpins
<1>9. ASSUME InTurn' PROVE Due'
  <2>1. InTurn /\ Due /\ Types /\ Served
    BY <1>9, <1>4 DEF FilesAnswered, Reselected, RendererInv, Types, InTurn
  <2>2. OldestOf({"files"}, i) /\ (next = <<>> \/ next[1].op \notin {"files"})
    BY <1>1, <1>2, <1>4, <1>9 DEF OldestOf, InTurn, First, FileKind
  <2>3. \A c : Latest({"files"}, c) => (c = calls[i] /\ NoneOf({"files"})') \/ Latest({"files"}, c)'
    BY <1>3, <2>2 DEF Answered
  <2>4. ~NoneOf({"files"})
    BY <1>1 DEF NoneOf, FileKind
  <2>5. HeaderDue'
    BY <1>1, <1>2, <1>3, <1>4, <1>5, <2>1, <2>3, <2>4
       DEF Answered, FilesAnswered, Reselected, ListCalls, First, Types, Due, HeaderDue, Pending
  <2>6. TimelineDue'
    BY <1>1, <1>2, <1>3, <1>4, <1>5, <2>1, <2>3, <2>4
       DEF Answered, FilesAnswered, Reselected, ListCalls, First, Types, Due, TimelineDue,
           FileKind, Fresh
  <2>7. ContentDue'
    BY <1>1, <1>2, <1>3, <1>4, <1>5, <2>1, <2>3, <2>4
       DEF Answered, FilesAnswered, Reselected, ListCalls, First, Types, Due, ContentDue, Pending
  <2>8. DiffDue'
    BY <1>1, <1>2, <1>3, <1>4, <1>5, <2>1, <2>3, <2>4
       DEF Answered, FilesAnswered, Reselected, ListCalls, First, Types, Due, DiffDue, Pending
  <2>9. ListDue'
    BY <1>1, <1>2, <1>3, <1>4, <1>5, <2>1, <2>3, <2>4
       DEF Answered, FilesAnswered, Reselected, ListCalls, First, Types, Due, ListDue, Pending
  <2>10. QED
    BY <2>5, <2>6, <2>7, <2>8, <2>9 DEF Due
<1>10. QED
  BY <1>6, <1>7, <1>8, <1>9 DEF RendererInv

(* A version is restored.                                                  *)
LEMMA RestoreDoneKeeps ==
    ASSUME RendererInv, NEW i \in DOMAIN calls, RestoreDone(i)
    PROVE  RendererInv'
<1>1. /\ calls \in Seq(CallSet) /\ calls[i] \in RestoreCalls
      /\ calls[i].op = "restore" /\ Told(calls[i])
  BY CallCases, ElementOfSeq, LenProperties DEF RestoreDone, RendererInv, Types, Reported
<1> DEFINE asked == IF selected = Nothing THEN Refreshed(List) ELSE <<Call("file", selected, Relist)>>
<1>2. PICK next : /\ calls' = RemoveAt(calls, i) \o next /\ OneCall(next)
                  /\ next # <<>> /\ next[1].got = Nothing
                  /\ (next[1].op = "files" => next[1].of = List /\ UNCHANGED <<fileVars, picked, content, diff>>)
                  /\ (next[1].op = "file" => next[1].of = selected /\ Reselected /\ UNCHANGED filesLoading)
                  /\ next[1].op \in {"files", "file"}
  <2>1. calls' = RemoveAt(calls, i) \o asked
    BY <1>1 DEF RendererInv, Types, RestoreDone, Outcome, Answer, Refreshed, List, Relist,
                Reselected
  <2>2. /\ OneCall(asked)
        /\ asked # <<>> /\ asked[1].got = Nothing
        /\ (asked[1].op = "files" => asked[1].of = List /\ UNCHANGED <<fileVars, picked, content, diff>>)
        /\ (asked[1].op = "file" => asked[1].of = selected /\ Reselected /\ UNCHANGED filesLoading)
        /\ asked[1].op \in {"files", "file"}
    BY <1>1 DEF OneCall, Call, CallSet, FileCalls, ListCalls, RendererInv, Types, RestoreDone,
                Outcome, Answer, Refreshed, List, Relist, Reselected
  <2>3. QED
    BY <2>1, <2>2
<1>3. Answered(i, next) /\ calls' \in Seq(CallSet)
  BY <1>1, <1>2, Answering DEF Answered, RendererInv, Types
<1>4. /\ overtaken' \in BOOLEAN /\ (~overtaken' => ~overtaken /\ First(i))
  <2>1. overtaken' = (overtaken \/ \E j \in 1..(i - 1) : Kind(calls[j]) = Kind(calls[i]))
    BY DEF RestoreDone, Answer
  <2>2. QED
    BY <2>1, Turning DEF RendererInv, Types
<1>5. filesLoading' \in BOOLEAN
  BY <1>1, <1>2 DEF RestoreDone, RendererInv, Types
<1>6. /\ dialog' \in Dialogs /\ ~dialog'.busy
      /\ dialog'.version = calls[i].of.version /\ dialog'.conflict = calls[i].of.conflict
  <2>1. calls[i].of \in Dialogs
    BY <1>1 DEF RestoreCalls
  <2>2. dialog' = [calls[i].of EXCEPT !.busy = FALSE, !.over = TRUE]
    BY DEF RestoreDone, Outcome
  <2>3. QED
    BY <2>1, <2>2, OutcomeIs
<1>7. UNCHANGED <<conflicts, recoverVars>>
  BY DEF RestoreDone
<1>8. Types'
  BY <1>1, <1>2, <1>3, <1>4, <1>5, <1>6, <1>7
     DEF RestoreDone, Outcome, Reselected, RestoreCalls, Dialogs, RendererInv, Types
<1>9. Reported'
  <2>1. (\A k \in DOMAIN calls : Told(calls[k]))'
    BY <1>2, <1>3, <1>7, Telling DEF RendererInv
  <2>2. ForcedAfterConflict'
    BY <1>1, <1>6, <1>7 DEF RendererInv, Reported, Told, ForcedAfterConflict
  <2>3. QED
    BY <2>1, <2>2 DEF Reported
<1>10. NothingSpins'
  BY <1>1, <1>2, <1>3, <1>4, <1>5, <1>6, <1>7
     DEF Answered, RestoreDone, Outcome, Reselected, RendererInv, Types, NothingSpins
<1>11. ASSUME InTurn' PROVE Due'
  <2>1. InTurn /\ Due /\ Types /\ Served
    BY <1>11, <1>4 DEF RestoreDone, Outcome, Reselected, RendererInv, Types, InTurn
  <2>2. HeaderDue'
    BY <1>1, <1>2, <1>3, <1>4, <1>5, <1>6, <1>7, <2>1
       DEF Answered, RestoreDone, Outcome, Reselected, RestoreCalls, Dialogs, First, Types, Due,
           HeaderDue, Pending
  <2>3. TimelineDue'
    <3>1. CASE next[1].op = "files"
      BY <1>1, <1>2, <1>3, <2>1, <3>1 DEF Answered, RestoreDone, Due, TimelineDue, FileKind, Fresh
    <3>2. CASE next[1].op = "file"
      BY <1>1, <1>2, <1>3, <2>1, <3>2 DEF Answered, RestoreDone, Reselected, Due, TimelineDue, FileKind, Fresh
    <3>3. QED
      BY <1>2, <3>1, <3>2
  <2>4. ContentDue'
    BY <1>1, <1>2, <1>3, <1>4, <1>5, <1>6, <1>7, <2>1
       DEF Answered, RestoreDone, Outcome, Reselected, RestoreCalls, Dialogs, First, Types, Due,
           ContentDue, Pending
  <2>5. DiffDue'
    BY <1>1, <1>2, <1>3, <1>4, <1>5, <1>6, <1>7, <2>1
       DEF Answered, RestoreDone, Outcome, Reselected, RestoreCalls, Dialogs, First, Types, Due,
           DiffDue, Pending
  <2>6. ListDue'
    <3>1. CASE next[1].op = "files"
      BY <1>1, <1>2, <1>3, <2>1, <3>1 DEF Answered, RestoreDone, Types, List, Due, ListDue, Pending
    <3>2. CASE next[1].op = "file"
      BY <1>1, <1>2, <1>3, <2>1, <3>2 DEF Answered, RestoreDone, Due, ListDue, Pending
    <3>3. QED
      BY <1>2, <3>1, <3>2
  <2>7. QED
    BY <2>2, <2>3, <2>4, <2>5, <2>6 DEF Due
<1>12. QED
  BY <1>8, <1>9, <1>10, <1>11 DEF RendererInv

(* A recovery has come to something.                                       *)
LEMMA RecoverAnsweredKeeps ==
    ASSUME RendererInv, NEW i \in DOMAIN calls, RecoverAnswered(i)
    PROVE  RendererInv'
<1>1. /\ calls \in Seq(CallSet) /\ calls[i] \in RecoverCalls
      /\ calls[i].op = "recover" /\ Told(calls[i])
  BY CallCases, ElementOfSeq, LenProperties DEF RecoverAnswered, RendererInv, Types, Reported
<1> DEFINE asked == <<Call("files", List, IF calls[i].got = "recovered" THEN "select" ELSE Nothing)>>
<1>2. PICK next : /\ calls' = RemoveAt(calls, i) \o next /\ OneCall(next)
                  /\ next # <<>> /\ next[1].op = "files" /\ next[1].of = List
  <2>1. calls' = RemoveAt(calls, i) \o asked
    BY <1>1 DEF RendererInv, Types, RecoverAnswered, Answer, List
  <2>2. /\ OneCall(asked)
        /\ asked # <<>> /\ asked[1].op = "files" /\ asked[1].of = List
    BY <1>1 DEF OneCall, Call, CallSet, ListCalls, RendererInv, Types, RecoverAnswered, Answer,
                List
  <2>3. QED
    BY <2>1, <2>2
<1>3. Answered(i, next) /\ calls' \in Seq(CallSet)
  BY <1>1, <1>2, Answering DEF Answered, RendererInv, Types
<1>4. /\ overtaken' \in BOOLEAN /\ (~overtaken' => ~overtaken /\ First(i))
  <2>1. overtaken' = (overtaken \/ \E j \in 1..(i - 1) : Kind(calls[j]) = Kind(calls[i]))
    BY DEF RecoverAnswered, Answer
  <2>2. QED
    BY <2>1, Turning DEF RendererInv, Types
<1>5. filesLoading' \in BOOLEAN
  BY <1>1, <1>2 DEF RecoverAnswered, RendererInv, Types
<1>6. /\ recovery' \in Recoveries /\ ~recovery'.busy
      /\ recovery'.version = calls[i].of.version /\ recovery'.outcome = calls[i].got
  <2>1. calls[i].of \in Recoveries /\ calls[i].got \in {"occupied", "failed", "recovered"}
    BY <1>1 DEF RecoverAnswered, RecoverCalls
  <2>2. recovery' = [calls[i].of EXCEPT !.busy = FALSE, !.outcome = calls[i].got]
    BY DEF RecoverAnswered
  <2>3. QED
    BY <2>1, <2>2, Zenon DEF Recoveries
<1>7. calls[i].got # Nothing /\ UNCHANGED <<occupied, restoreVars>>
  BY DEF RecoverAnswered
<1>8. Types'
  BY <1>1, <1>2, <1>3, <1>4, <1>5, <1>6, <1>7
     DEF RecoverAnswered, RecoverCalls, Recoveries, RendererInv, Types
<1>9. Reported'
  <2>1. (\A k \in DOMAIN calls : Told(calls[k]))'
    BY <1>2, <1>3, <1>7, Telling DEF RendererInv
  <2>2. ForcedAfterConflict'
    BY <1>1, <1>6, <1>7 DEF RendererInv, Reported, Told, ForcedAfterConflict
  <2>3. QED
    BY <2>1, <2>2 DEF Reported
<1>10. NothingSpins'
  BY <1>1, <1>2, <1>3, <1>4, <1>5, <1>6, <1>7
     DEF Answered, RecoverAnswered, RendererInv, Types, NothingSpins
<1>11. ASSUME InTurn' PROVE Due'
  <2>1. InTurn /\ Due /\ Types /\ Served
    BY <1>11, <1>4 DEF RecoverAnswered, RendererInv, Types, InTurn
  <2>2. HeaderDue'
    BY <1>1, <1>2, <1>3, <1>4, <1>5, <1>6, <1>7, <2>1
       DEF Answered, RecoverAnswered, RecoverCalls, Recoveries, First, Types, Due, HeaderDue,
           Pending
  <2>3. TimelineDue'
    BY <1>1, <1>2, <1>3, <1>4, <1>5, <1>6, <1>7, <2>1
       DEF Answered, RecoverAnswered, RecoverCalls, Recoveries, First, Types, Due, TimelineDue,
           FileKind, Fresh
  <2>4. ContentDue'
    BY <1>1, <1>2, <1>3, <1>4, <1>5, <1>6, <1>7, <2>1
       DEF Answered, RecoverAnswered, RecoverCalls, Recoveries, First, Types, Due, ContentDue,
           Pending
  <2>5. DiffDue'
    BY <1>1, <1>2, <1>3, <1>4, <1>5, <1>6, <1>7, <2>1
       DEF Answered, RecoverAnswered, RecoverCalls, Recoveries, First, Types, Due, DiffDue, Pending
  <2>6. ListDue'
    BY <1>1, <1>2, <1>3, <1>4, <1>5, <1>6, <1>7, <2>1
       DEF Answered, RecoverAnswered, RecoverCalls, Recoveries, First, List, Types, Due, ListDue,
           Pending
  <2>7. QED
    BY <2>2, <2>3, <2>4, <2>5, <2>6 DEF Due
<1>12. QED
  BY <1>8, <1>9, <1>10, <1>11 DEF RendererInv

(* Another vault is open.                                                  *)
LEMMA VaultAnsweredKeeps ==
    ASSUME RendererInv, NEW i \in DOMAIN calls, VaultAnswered(i)
    PROVE  RendererInv'
<1>1. /\ calls \in Seq(CallSet) /\ calls[i] \in OtherCalls
      /\ calls[i].op = "vault" /\ Told(calls[i])
  BY CallCases, ElementOfSeq, LenProperties DEF VaultAnswered, RendererInv, Types, Reported
<1>2. PICK next : /\ calls' = RemoveAt(calls, i) \o next /\ OneCall(next)
                  /\ (next # <<>> => next[1].op = "files" /\ next[1].of = List)
                  /\ filesLoading' = (filesLoading \/ next # <<>>)
  <2> DEFINE asked == Refreshed(List)
  <2>1. OneCall(asked) /\ asked # <<>> /\ asked[1].op = "files" /\ asked[1].of = List
    BY DEF OneCall, Call, CallSet, ListCalls, Refreshed, List
  <2>2. \/ calls' = RemoveAt(calls, i) \o asked /\ filesLoading' = TRUE
        \/ calls' = RemoveAt(calls, i) \o <<>> /\ filesLoading' = filesLoading
    BY DEF VaultAnswered, Answer
  <2> HIDE DEF asked
  <2>3. CASE calls' = RemoveAt(calls, i) \o asked /\ filesLoading' = TRUE
    BY <2>1, <2>3 DEF RendererInv, Types
  <2>4. CASE calls' = RemoveAt(calls, i) \o <<>> /\ filesLoading' = filesLoading
    BY <2>4 DEF OneCall, RendererInv, Types
  <2>5. QED
    BY <2>2, <2>3, <2>4
<1>3. Answered(i, next) /\ calls' \in Seq(CallSet)
  BY <1>1, <1>2, Answering DEF Answered, RendererInv, Types
<1>4. /\ overtaken' \in BOOLEAN /\ (~overtaken' => ~overtaken /\ First(i))
  <2>1. overtaken' = (overtaken \/ \E j \in 1..(i - 1) : Kind(calls[j]) = Kind(calls[i]))
    BY DEF VaultAnswered, Answer
  <2>2. QED
    BY <2>1, Turning DEF RendererInv, Types
<1>5. gone' \in BOOLEAN
  BY <1>1, <1>2 DEF VaultAnswered, RendererInv, Types
<1>6. filesLoading' \in BOOLEAN
  BY <1>1, <1>2 DEF VaultAnswered, RendererInv, Types
<1>7. Types'
  BY <1>1, <1>2, <1>3, <1>4, <1>5, <1>6 DEF VaultAnswered, OtherCalls, RendererInv, Types
<1>8. Reported'
  BY <1>1, <1>2, <1>3, <1>4, <1>5, <1>6 DEF Answered, VaultAnswered, OtherCalls, RendererInv,
                                            Reported, Told, ForcedAfterConflict
<1>9. NothingSpins'
  BY <1>1, <1>2, <1>3, <1>4, <1>5, <1>6 DEF Answered, VaultAnswered, RendererInv, Types,
                                            NothingSpins
<1>10. ASSUME InTurn' PROVE Due'
  <2>1. InTurn /\ Due /\ Types /\ Served
    BY <1>10, <1>4 DEF VaultAnswered, RendererInv, Types, InTurn
  <2>2. HeaderDue'
    BY <1>1, <1>2, <1>3, <1>4, <1>5, <1>6, <2>1
       DEF Answered, VaultAnswered, OtherCalls, First, Types, Due, HeaderDue, Pending
  <2>3. TimelineDue'
    BY <1>1, <1>2, <1>3, <1>4, <1>5, <1>6, <2>1
       DEF Answered, VaultAnswered, OtherCalls, First, Types, Due, TimelineDue, FileKind, Fresh
  <2>4. ContentDue'
    BY <1>1, <1>2, <1>3, <1>4, <1>5, <1>6, <2>1
       DEF Answered, VaultAnswered, OtherCalls, First, Types, Due, ContentDue, Pending
  <2>5. DiffDue'
    BY <1>1, <1>2, <1>3, <1>4, <1>5, <1>6, <2>1
       DEF Answered, VaultAnswered, OtherCalls, First, Types, Due, DiffDue, Pending
  <2>6. ListDue'
    BY <1>1, <1>2, <1>3, <1>4, <1>5, <1>6, <2>1
       DEF Answered, VaultAnswered, OtherCalls, First, List, Types, Due, ListDue, Pending
  <2>7. QED
    BY <2>2, <2>3, <2>4, <2>5, <2>6 DEF Due
<1>11. QED
  BY <1>7, <1>8, <1>9, <1>10 DEF RendererInv

(* The content of a version is there.                                      *)
LEMMA VersionAnsweredKeeps ==
    ASSUME RendererInv, NEW i \in DOMAIN calls, VersionAnswered(i)
    PROVE  RendererInv'
<1>1. /\ calls \in Seq(CallSet) /\ calls[i] \in VersionCalls
      /\ calls[i].op = "version" /\ Told(calls[i])
  BY CallCases, ElementOfSeq, LenProperties DEF VersionAnswered, RendererInv, Types, Reported
<1>2. PICK next : /\ calls' = RemoveAt(calls, i) \o next /\ OneCall(next)
                  /\ (next # <<>> => next[1].op = "diff" /\ next[1].of = <<picked, mode>>)
                  /\ (refusals' = refusals => picked = Nothing \/ mode = "preview" \/ next # <<>>)
                  /\ diffLoading' = (diffLoading \/ next # <<>>)
  <2> DEFINE asked == DiffCalls(picked, mode)
  <2>1. /\ OneCall(asked)
        /\ asked # <<>> => asked[1].op = "diff" /\ asked[1].of = <<picked, mode>>
        /\ picked = Nothing \/ mode = "preview" \/ asked # <<>>
    BY DEF OneCall, Call, CallSet, DiffsAsked, DiffCalls, RendererInv, Types
  <2>2. \/ calls' = RemoveAt(calls, i) \o asked /\ diffLoading' = (diffLoading \/ asked # <<>>)
        \/ calls' = RemoveAt(calls, i) \o <<>> /\ diffLoading' = diffLoading /\ refusals' # refusals
    BY DEF VersionAnswered, Answer, RendererInv, Types
  <2> HIDE DEF asked
  <2>3. CASE calls' = RemoveAt(calls, i) \o asked /\ diffLoading' = (diffLoading \/ asked # <<>>)
    BY <2>1, <2>3
  <2>4. CASE calls' = RemoveAt(calls, i) \o <<>> /\ diffLoading' = diffLoading /\ refusals' # refusals
    BY <2>4 DEF OneCall, RendererInv, Types
  <2>5. QED
    BY <2>2, <2>3, <2>4
<1>3. Answered(i, next) /\ calls' \in Seq(CallSet)
  BY <1>1, <1>2, Answering DEF Answered, RendererInv, Types
<1>4. /\ overtaken' \in BOOLEAN /\ (~overtaken' => ~overtaken /\ First(i))
  <2>1. overtaken' = (overtaken \/ \E j \in 1..(i - 1) : Kind(calls[j]) = Kind(calls[i]))
    BY DEF VersionAnswered, Answer
  <2>2. QED
    BY <2>1, Turning DEF RendererInv, Types
<1>5. diffLoading' \in BOOLEAN
  BY <1>1, <1>2 DEF VersionAnswered, RendererInv, Types
<1>6. UNCHANGED <<restoreVars, recoverVars>>
  BY DEF VersionAnswered
<1>7. refusals' = refusals => content' = calls[i].of
  BY DEF VersionAnswered, RendererInv, Types
<1>8. Types'
  BY <1>1, <1>2, <1>3, <1>4, <1>5, <1>6, <1>7 DEF VersionAnswered, VersionCalls, RendererInv, Types
<1>9. Reported'
  <2>1. (\A k \in DOMAIN calls : Told(calls[k]))'
    BY <1>2, <1>3, <1>6, Telling DEF RendererInv
  <2>2. ForcedAfterConflict'
    BY <1>6 DEF RendererInv, Reported, Told, ForcedAfterConflict
  <2>3. QED
    BY <2>1, <2>2 DEF Reported
<1>10. NothingSpins'
  BY <1>1, <1>2, <1>3, <1>4, <1>5, <1>6, <1>7
     DEF Answered, VersionAnswered, RendererInv, Types, NothingSpins
<1>11. ASSUME InTurn' PROVE Due'
  <2>1. InTurn /\ Due /\ Types /\ Served
    BY <1>11, <1>4 DEF VersionAnswered, RendererInv, Types, InTurn
  <2>2. OldestOf({"version"}, i) /\ (next = <<>> \/ next[1].op \notin {"version"})
    BY <1>1, <1>2, <1>4, <1>11 DEF OldestOf, InTurn, First, FileKind
  <2>3. \A c : Latest({"version"}, c) => (c = calls[i] /\ NoneOf({"version"})') \/ Latest({"version"}, c)'
    BY <1>3, <2>2 DEF Answered
  <2>4. ~NoneOf({"version"})
    BY <1>1 DEF NoneOf, FileKind
  <2>5. HeaderDue'
    BY <1>1, <1>2, <1>3, <1>4, <1>5, <1>6, <1>7, <2>1, <2>3, <2>4
       DEF Answered, VersionAnswered, VersionCalls, First, Types, Due, HeaderDue, Pending
  <2>6. TimelineDue'
    BY <1>1, <1>2, <1>3, <1>4, <1>5, <1>6, <1>7, <2>1, <2>3, <2>4
       DEF Answered, VersionAnswered, VersionCalls, First, Types, Due, TimelineDue, FileKind, Fresh
  <2>7. ContentDue'
    BY <1>1, <1>2, <1>3, <1>4, <1>5, <1>6, <1>7, <2>1, <2>3, <2>4
       DEF Answered, VersionAnswered, VersionCalls, First, Types, Due, ContentDue, Pending
  <2>8. DiffDue'
    BY <1>1, <1>2, <1>3, <1>4, <1>5, <1>6, <1>7, <2>1, <2>3, <2>4
       DEF Answered, VersionAnswered, VersionCalls, First, Types, Due, DiffDue, Pending
  <2>9. ListDue'
    BY <1>1, <1>2, <1>3, <1>4, <1>5, <1>6, <1>7, <2>1, <2>3, <2>4
       DEF Answered, VersionAnswered, VersionCalls, First, Types, Due, ListDue, Pending
  <2>10. QED
    BY <2>5, <2>6, <2>7, <2>8, <2>9 DEF Due
<1>12. QED
  BY <1>8, <1>9, <1>10, <1>11 DEF RendererInv
-----------------------------------------------------------------------------
(* RendererInv holds at first, every step keeps it, and it implies what    *)
(* the window promises.                                                    *)
LEMMA RendererInitHolds == RendererInit => RendererInv
<1> SUFFICES ASSUME RendererInit PROVE RendererInv
  OBVIOUS
<1>1. 1 \in Numbers /\ 2 \in Numbers
  BY RendererAssumption DEF Numbers
<1>2. Types
  <2>1. /\ captures \in [FileIds -> Numbers] /\ recorded \in 0..MaxCaptures
        /\ \A f \in FileIds : captures[f] <= 2 + recorded
    BY <1>1, RendererAssumption DEF RendererInit
  <2>2. /\ selected \in FileIds \cup {Nothing} /\ header = selected
        /\ timeline \in Versions \cup {Nothing} /\ picked \in Versions \cup {Nothing}
        /\ content \in Versions \cup {Nothing}
    BY <1>1 DEF RendererInit, Versions
  <2>3. gone \in BOOLEAN
    BY DEF RendererInit
  <2>4. notices \in Seq(FileIds) /\ calls \in Seq(CallSet) /\ deleted \subseteq Deleted
    BY RendererAssumption DEF RendererInit
  <2>5. /\ mode \in Modes /\ view \in {"files", "deleted", "search"}
        /\ files \in {"files", "deleted"} /\ refusals \in Nat
        /\ dialog \in Dialogs \cup {Nothing} /\ recovery \in Recoveries \cup {Nothing}
        /\ dialog # Nothing => ~(dialog.busy /\ dialog.over)
    BY DEF RendererInit, Modes
  <2>6. /\ diffLoading \in BOOLEAN /\ filesLoading \in BOOLEAN /\ searching \in BOOLEAN
        /\ overtaken \in BOOLEAN
    BY DEF RendererInit
  <2>7. QED
    BY <2>1, <2>2, <2>3, <2>4, <2>5, <2>6 DEF Types
<1>3. \A i : i \notin DOMAIN calls
  BY DEF RendererInit
<1>4. Reported /\ NothingSpins
  BY <1>3 DEF RendererInit, Reported, ForcedAfterConflict, NothingSpins
<1>5. Due
  <2>1. \A K : NoneOf(K)
    BY <1>3 DEF NoneOf
  <2>2. HeaderDue /\ ContentDue /\ DiffDue /\ ListDue
    BY <2>1 DEF RendererInit, HeaderDue, ContentDue, DiffDue, ListDue
  <2>3. TimelineDue
    BY <1>1, <2>1, RendererAssumption DEF RendererInit, TimelineDue, Fresh
  <2>4. QED
    BY <2>2, <2>3 DEF Due
<1>6. QED
  BY <1>2, <1>4, <1>5 DEF RendererInv

(* Every step keeps the invariant.                                         *)
LEMMA RendererNextKeeps == RendererInv /\ [RendererNext]_rendererVars => RendererInv'
<1> SUFFICES ASSUME RendererInv, [RendererNext]_rendererVars PROVE RendererInv'
  OBVIOUS
<1>1. ASSUME NEW f \in FileIds, FromList(f) PROVE RendererInv'
  BY <1>1, SelectFileKeeps DEF FromList
<1>2. ASSUME NEW f \in FileIds, FromSearch(f) PROVE RendererInv'
  <2>1. PICK i \in 1..captures[f] : SelectFile(f, <<f, i>>)
    BY <1>2 DEF FromSearch
  <2>2. <<f, i>> \in Versions
    <3>1. captures[f] \in Nat /\ captures[f] <= 2 + MaxCaptures
      BY RendererAssumption DEF RendererInv, Types, Numbers
    <3>2. i \in Numbers
      BY <2>1, <3>1, RendererAssumption DEF Numbers
    <3>3. QED
      BY <3>2 DEF Versions
  <2>3. QED
    BY <2>1, <2>2, SelectFileKeeps
<1>3. ASSUME NEW f \in FileIds, Capture(f) PROVE RendererInv'
  BY <1>3, CaptureKeeps
<1>4. ASSUME NEW v \in Numbers, SelectVersion(v) PROVE RendererInv'
  BY <1>4, SelectVersionKeeps
<1>5. ASSUME NEW m \in Modes, SetMode(m) PROVE RendererInv'
  BY <1>5, SetModeKeeps
<1>6. ASSUME NEW v \in {"files", "deleted", "search"}, SetLeftView(v) PROVE RendererInv'
  BY <1>6, SetLeftViewKeeps
<1>7. CASE RunSearch \/ SelectVault
  BY <1>7, RunSearchKeeps, SelectVaultKeeps
<1>8. CASE OpenRestoreDialog \/ CloseRestoreDialog \/ ConfirmRestore
  BY <1>8, OpenRestoreDialogKeeps, CloseRestoreDialogKeeps, ConfirmRestoreKeeps
<1>9. CASE OpenRecoverDialog \/ CloseRecoverDialog \/ ConfirmRecover
  BY <1>9, OpenRecoverDialogKeeps, CloseRecoverDialogKeeps, ConfirmRecoverKeeps
<1>10. CASE OnVersionCaptured
  BY <1>10, OnVersionCapturedKeeps
<1>11. ASSUME NEW i \in DOMAIN calls, Read(i) \/ Restore(i) \/ Recover(i) PROVE RendererInv'
  BY <1>11, ReadKeeps, RestoreKeeps, RecoverKeeps
<1>12. ASSUME NEW i \in DOMAIN calls,
              \/ FileAnswered(i) \/ CapturedAnswered(i) \/ VersionAnswered(i) \/ DiffAnswered(i)
              \/ FilesAnswered(i) \/ SearchAnswered(i) \/ VaultAnswered(i) \/ DialogAnswered(i)
       PROVE  RendererInv'
  BY <1>12, FileAnsweredKeeps, CapturedAnsweredKeeps, VersionAnsweredKeeps, DiffAnsweredKeeps,
     FilesAnsweredKeeps, SearchAnsweredKeeps, VaultAnsweredKeeps, DialogAnsweredKeeps
<1>13. ASSUME NEW i \in DOMAIN calls,
              \/ RestoreConflicts(i) \/ RestoreDone(i) \/ RestoreRefused(i)
              \/ RecoverAnswered(i) \/ RecoverRefused(i)
       PROVE  RendererInv'
  BY <1>13, RestoreConflictsKeeps, RestoreDoneKeeps, RestoreRefusedKeeps, RecoverAnsweredKeeps,
     RecoverRefusedKeeps
<1>14. CASE UNCHANGED rendererVars
  <2>1. Types' /\ Reported' /\ NothingSpins'
    BY <1>14 DEF rendererVars, RendererInv, Types, Reported, Told, ForcedAfterConflict,
                 NothingSpins, InFlight
  <2>2. InTurn' => Due'
    BY <1>14 DEF rendererVars, RendererInv, InTurn, Due, HeaderDue, TimelineDue, ContentDue,
                 DiffDue, ListDue, Pending, Latest, NoneOf, Fresh, InFlight
  <2>3. QED
    BY <2>1, <2>2 DEF RendererInv
<1>15. QED
  BY <1>1, <1>2, <1>3, <1>4, <1>5, <1>6, <1>7, <1>8, <1>9, <1>10, <1>11, <1>12, <1>13, <1>14
     DEF RendererNext, Modes

(* What the invariant says at rest.                                        *)
LEMMA RendererInvImplies ==
    RendererInv => RendererTypeOK /\ ShowsSelection /\ NothingSpins /\ ForcedAfterConflict
<1> SUFFICES ASSUME RendererInv
             PROVE  RendererTypeOK /\ ShowsSelection /\ NothingSpins /\ ForcedAfterConflict
  OBVIOUS
<1>1. RendererTypeOK
  BY DEF RendererInv, Types, Dialogs, Recoveries, Modes, RendererTypeOK
<1>2. ASSUME calls = <<>>, notices = <<>>, ~overtaken, refusals = 0
      PROVE  /\ selected # Nothing => header = selected /\ timeline = <<selected, captures[selected]>>
             /\ picked # Nothing => content = picked
             /\ picked # Nothing /\ mode # "preview" => diff = <<picked, mode>>
             /\ view # "search" => files = view
  <2>1. Due
    BY <1>2 DEF RendererInv, InTurn
  <2>2. \A i : i \notin DOMAIN calls /\ i \notin DOMAIN notices
    BY <1>2
  <2>3. \A K, c : ~Latest(K, c)
    BY <2>2 DEF Latest
  <2>4. \A n : Fresh(n) => n = captures[selected]
    BY <2>2 DEF Fresh
  <2>5. selected # Nothing => header = selected /\ timeline = <<selected, captures[selected]>>
    BY <2>1, <2>3, <2>4 DEF Due, HeaderDue, TimelineDue, Pending
  <2>6. /\ picked # Nothing => content = picked
        /\ picked # Nothing /\ mode # "preview" => diff = <<picked, mode>>
        /\ view # "search" => files = view
    BY <2>1, <2>2, <2>3 DEF Due, ContentDue, DiffDue, ListDue, Pending, InFlight
  <2>7. QED
    BY <2>5, <2>6
<1>3. ShowsSelection
  BY <1>2 DEF ShowsSelection
<1>4. QED
  BY <1>1, <1>3 DEF RendererInv, Reported

-----------------------------------------------------------------------------
(* The inductive invariant: the latest call of each kind, the last in the  *)
(* order of the calls, is for what is selected, as long as every answer    *)
(* has come in that order and none was an error.                           *)
THEOREM RendererInvariant == RendererSpec => []RendererInv
<1>1. RendererInit => RendererInv
  BY RendererInitHolds
<1>2. RendererInv /\ [RendererNext]_rendererVars => RendererInv'
  BY RendererNextKeeps
<1>3. QED
  BY <1>1, <1>2, PTL DEF RendererSpec

(* RendererTypeOK: the window shows files, versions and dialogs that there *)
(* are, and a restore dialog is never busy and over at once.               *)
THEOREM RendererTypeCorrect == RendererSpec => []RendererTypeOK
  BY RendererInvariant, RendererInvImplies, PTL

(* ShowsSelection: once everything is answered, in turn and without error, *)
(* the header, the timeline, the content, the diff and the list are those  *)
(* of what is selected, and no captured version is missing.                *)
THEOREM WindowShowsSelection == RendererSpec => []ShowsSelection
  BY RendererInvariant, RendererInvImplies, PTL

(* NothingSpins: what the window shows as under way has a call in flight,  *)
(* whatever was overtaken or refused.                                      *)
THEOREM SpinnersEnd == RendererSpec => []NothingSpins
  BY RendererInvariant, RendererInvImplies, PTL

(* ForcedAfterConflict: a dialog that would overwrite the file shows a     *)
(* version for which the main process has reported the conflict.           *)
THEOREM ForcedOnConflictOnly == RendererSpec => []ForcedAfterConflict
  BY RendererInvariant, RendererInvImplies, PTL
=============================================================================
