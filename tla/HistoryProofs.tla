--------------------------- MODULE HistoryProofs ---------------------------
(***************************************************************************)
(* The invariants of History, for any number of files, paths, contents,    *)
(* versions and failures, and that it implements FileHistory.              *)
(***************************************************************************)
EXTENDS History, SequenceTheorems, TLAPS

(* What a call on the stack may rely on while its statements run. Nothing  *)
(* else happens meanwhile, but each statement changes what the next sees.  *)
CallKeeps ==
    LET f == about.file
        p == about.path
    IN  /\ pc = "create" =>
              /\ status[f] = Null
              /\ ActiveAt(p) = {}
              /\ about.kind \in {"baseline", "create"}
        /\ pc = "reopen" =>
              /\ status[f] = "deleted"
              /\ path[f] = p
              /\ ActiveAt(p) = {}
              /\ about.kind = "create"
        /\ pc \in {"move", "wake"} =>
              /\ status[f] # Null
              /\ ActiveAt(p) \subseteq {f}
              /\ about.kind = "rename"
        /\ pc = "wake" => path[f] = p
        /\ pc = "commit" =>
              /\ status[f] = "active"
              /\ path[f] = p
              /\ about.kind = "baseline" => log[f] = <<>>
              /\ about.kind = "create" => LatestKind(f) \in {Null, "delete"}
              /\ about.kind = "modify" =>
                    /\ LatestKind(f) \notin {Null, "delete"}
                    /\ LatestContent(f) # about.content

(* A file without a row has no versions.                                   *)
NoRowNoVersion == \A f \in Files : status[f] = Null => log[f] = <<>>

(* Without failures every row but the one in the call agrees with its      *)
(* timeline.                                                               *)
Agrees(f) ==
    /\ log[f] # <<>>
    /\ status[f] = "deleted" <=> LatestKind(f) = "delete"
    /\ path[f] = log[f][Len(log[f])].path

OthersAgree == cuts = 0 => \A f \in Rows : f # about.file => Agrees(f)

HistoryInv ==
    /\ HistoryTypeOK
    /\ OnePerPath
    /\ TombstoneOnTop
    /\ CallKeeps
    /\ NoRowNoVersion
    /\ OthersAgree

-----------------------------------------------------------------------------
(* latestContent finds what the newest version says, if that version is    *)
(* not a tombstone.                                                        *)
LEMMA TopContent ==
    ASSUME NEW f \in Files, log[f] \in Seq(VersionRecords),
           LatestKind(f) # Null, LatestKind(f) # "delete"
    PROVE  /\ log[f] # <<>>
           /\ LatestContent(f) = log[f][Len(log[f])].content
           /\ log[f][Len(log[f])] \in VersionRecords
           /\ LatestContent(f) \in Contents \cup {Null}
<1> DEFINE top == Len(log[f])
<1>1. log[f] # <<>>
  BY DEF LatestKind
<1>2. top \in Nat \ {0} /\ DOMAIN log[f] = 1..top /\ top \in DOMAIN log[f]
  BY <1>1
<1>3. log[f][top] \in VersionRecords
  BY <1>2
<1>4. top \in ContentVersions(f) /\ ContentVersions(f) \subseteq 1..top
  BY <1>1, <1>2 DEF ContentVersions, LatestKind
<1>5. (CHOOSE i \in ContentVersions(f) : \A j \in ContentVersions(f) : j <= i) = top
  <2>1. \A j \in ContentVersions(f) : j <= top
    BY <1>2, <1>4
  <2>2. \A i \in ContentVersions(f) :
           (\A j \in ContentVersions(f) : j <= i) => i = top
    BY <1>2, <1>4, <2>1
  <2>3. QED
    BY <1>4, <2>1, <2>2
<1>6. LatestContent(f) = log[f][top].content
  BY <1>4, <1>5 DEF LatestContent
<1>7. QED
  BY <1>1, <1>3, <1>6 DEF VersionRecords

(* Appending one version to a timeline keeps the type of all of them, and  *)
(* puts the version on top.                                                *)
LEMMA OneMoreVersion ==
    ASSUME log \in [Files -> Seq(VersionRecords)], pointer \in [Files -> Nat],
           NEW f \in Files, NEW kind \in VersionKinds, NEW content \in Contents \cup {Null},
           NEW p \in Paths, InsertVersion(f, kind, content, p)
    PROVE  /\ log' \in [Files -> Seq(VersionRecords)]
           /\ pointer' \in [Files -> Nat]
           /\ pointer'[f] = Len(log'[f])
           /\ LatestKind(f)' = kind
           /\ log'[f] # <<>>
           /\ log'[f][Len(log'[f])].path = p
           /\ \A g \in Files \ {f} : log'[g] = log[g] /\ pointer'[g] = pointer[g]
<1> DEFINE v == [kind |-> kind, content |-> content, path |-> p]
<1>1. v \in VersionRecords
  BY DEF VersionRecords
<1>2. log'[f] = Append(log[f], v) /\ log[f] \in Seq(VersionRecords)
  BY DEF InsertVersion
<1>3. /\ log'[f] \in Seq(VersionRecords)
      /\ Len(log'[f]) = Len(log[f]) + 1
      /\ log'[f][Len(log'[f])] = v
      /\ log'[f] # <<>>
  <2> HIDE DEF v
  <2>1. ASSUME NEW s \in Seq(VersionRecords)
        PROVE  /\ Append(s, v) \in Seq(VersionRecords)
               /\ Len(Append(s, v)) = Len(s) + 1
               /\ Append(s, v)[Len(Append(s, v))] = v
               /\ Append(s, v) # <<>>
    BY <1>1, AppendProperties
  <2>2. QED
    BY <1>2, <2>1
<1>4. pointer'[f] = Len(log[f]) + 1 /\ Len(log[f]) \in Nat
  BY <1>2 DEF InsertVersion
<1>5. log' \in [Files -> Seq(VersionRecords)] /\ pointer' \in [Files -> Nat]
  BY <1>2, <1>3, <1>4 DEF InsertVersion
<1>6. LatestKind(f)' = kind
  BY <1>3 DEF LatestKind
<1>7. QED
  BY <1>3, <1>4, <1>5, <1>6 DEF InsertVersion

(* A call that is not on the stack names no file.                          *)
LEMMA IdleCall == HistoryTypeOK /\ pc = "idle" => \A f \in Files : about.file # f
BY HistoryAssumption DEF HistoryTypeOK, NoCall

(* What a call on the stack carries.                                       *)
LEMMA BusyCall ==
    ASSUME HistoryTypeOK, pc # "idle"
    PROVE  /\ about \in Calls
           /\ about.file \in Files
           /\ about.path \in Paths
           /\ about.kind \in VersionKinds \ {"delete"}
           /\ about.content \in Contents
           /\ pc \in Steps
BY DEF HistoryTypeOK, Calls

(* Updating a row keeps the order of updates over existing rows.           *)
LEMMA UpdatedType ==
    ASSUME newer \in SUBSET (Rows \X Rows), NEW f \in Files, Updated(f),
           f \in Rows', Rows \subseteq Rows'
    PROVE  newer' \in SUBSET (Rows' \X Rows')
<1>1. newer' \subseteq newer \cup ({f} \X (Rows \ {f}))
  BY DEF Updated
<1>2. Rows \X Rows \subseteq Rows' \X Rows'
  OBVIOUS
<1>3. {f} \X (Rows \ {f}) \subseteq Rows' \X Rows'
  OBVIOUS
<1>4. QED
  BY <1>1, <1>2, <1>3

-----------------------------------------------------------------------------
(* The first state satisfies the invariant.                                *)
LEMMA HistoryInitially == HistoryInit => HistoryInv
<1> SUFFICES ASSUME HistoryInit PROVE HistoryInv
  OBVIOUS
<1>1. Rows = {}
  BY DEF HistoryInit, Rows
<1>2. HistoryTypeOK
  BY <1>1, HistoryAssumption DEF HistoryInit, HistoryTypeOK, NoCall, Null, Steps
<1>3. OnePerPath
  BY DEF HistoryInit, OnePerPath, ActiveAt, Null
<1>4. TombstoneOnTop
  BY DEF HistoryInit, TombstoneOnTop, Null
<1>5. CallKeeps
  BY DEF HistoryInit, CallKeeps
<1>6. NoRowNoVersion
  BY DEF HistoryInit, NoRowNoVersion
<1>7. OthersAgree
  BY <1>1 DEF HistoryInit, OthersAgree
<1>8. QED
  BY <1>2, <1>3, <1>4, <1>5, <1>6, <1>7 DEF HistoryInv

(* A step that changes nothing keeps the invariant.                        *)
LEMMA UnchangedStep == HistoryInv /\ UNCHANGED historyVars => HistoryInv'
<1> SUFFICES ASSUME HistoryInv, UNCHANGED historyVars PROVE HistoryInv'
  OBVIOUS
<1>1. UNCHANGED <<status, path, pointer, newer, log, pc, about, cuts>>
  BY DEF historyVars
<1>2. HistoryTypeOK'
  BY <1>1 DEF HistoryInv, HistoryTypeOK, Rows
<1>3. OnePerPath' /\ TombstoneOnTop'
  BY <1>1 DEF HistoryInv, OnePerPath, TombstoneOnTop, ActiveAt, LatestKind
<1>4. CallKeeps'
  BY <1>1 DEF HistoryInv, CallKeeps, ActiveAt, LatestKind, LatestContent, ContentVersions
<1>5. NoRowNoVersion' /\ OthersAgree'
  BY <1>1 DEF HistoryInv, NoRowNoVersion, OthersAgree, Agrees, LatestKind, Rows
<1>6. QED
  BY <1>2, <1>3, <1>4, <1>5 DEF HistoryInv

(* A lookup that finds work for a call only puts the call on the stack, so *)
(* it keeps the invariant if the call finds what it relies on.             *)
LEMMA EnterStep ==
    ASSUME HistoryInv, NEW f \in Files, NEW p \in Paths, NEW c \in Contents,
           NEW kind \in VersionKinds \ {"delete"},
           NEW step \in Steps,
           Enter(step, f, p, kind, c), CallKeeps'
    PROVE  HistoryInv'
<1>1. pc = "idle" /\ \A g \in Files : about.file # g
  BY IdleCall DEF Enter, HistoryInv
<1>2. pc' \in Steps /\ pc' # "idle" /\ about' \in Calls /\ about'.file = f
  BY DEF Enter, Calls, Steps
<1>3. UNCHANGED <<status, path, pointer, newer, log, cuts>>
  BY DEF Enter, rowVars
<1>4. Rows' = Rows
  BY <1>3 DEF Rows
<1>5. HistoryTypeOK'
  BY <1>2, <1>3, <1>4 DEF HistoryInv, HistoryTypeOK
<1>6. OnePerPath'
  BY <1>3 DEF HistoryInv, OnePerPath, ActiveAt
<1>7. TombstoneOnTop'
  BY <1>1, <1>3 DEF HistoryInv, TombstoneOnTop, LatestKind
<1>8. NoRowNoVersion'
  BY <1>3 DEF HistoryInv, NoRowNoVersion
<1>9. OthersAgree'
  BY <1>1, <1>3, <1>4 DEF HistoryInv, OthersAgree, Agrees, LatestKind, Rows
<1>10. QED
  BY <1>5, <1>6, <1>7, <1>8, <1>9 DEF HistoryInv

(* Whatever the lookup of captureFromDisk finds, the invariant holds on.   *)
LEMMA CaptureStep ==
    ASSUME HistoryInv, NEW f \in Files, NEW p \in Paths, NEW c \in Contents,
           CaptureFromDisk(f, p, c)
    PROVE  HistoryInv'
<1>1. CASE CaptureKnown(f, p, c)
  <2>1. Enter("commit", f, p, EventType(f), c) /\ f \in ActiveAt(p) /\ ~Unchanged(f, c)
    BY <1>1 DEF CaptureKnown
  <2>2. EventType(f) \in {"baseline", "create", "modify"}
    BY DEF EventType
  <2>3. UNCHANGED <<status, path, log>>
    BY <2>1 DEF Enter, rowVars
  <2>4. LatestKind(f)' = LatestKind(f) /\ LatestContent(f)' = LatestContent(f)
    BY <2>3 DEF LatestKind, LatestContent, ContentVersions
  <2>5. /\ pc' = "commit" /\ about'.file = f /\ about'.path = p
        /\ about'.kind = EventType(f) /\ about'.content = c
    BY <2>1 DEF Enter
  <2>6. LatestKind(f) = Null => log[f] = <<>>
    <3>1. ASSUME log[f] # <<>> PROVE LatestKind(f) \in VersionKinds
      <4>1. log[f] \in Seq(VersionRecords)
        BY DEF HistoryInv, HistoryTypeOK
      <4>2. log[f][Len(log[f])] \in VersionRecords
        BY <3>1, <4>1
      <4>3. QED
        BY <3>1, <4>2 DEF LatestKind, VersionRecords
    <3>2. QED
      BY <3>1 DEF VersionKinds, Null
  <2>7. /\ EventType(f) = "baseline" => log[f] = <<>>
        /\ EventType(f) = "create" => LatestKind(f) = "delete"
        /\ EventType(f) = "modify" => LatestKind(f) # "delete" /\ LatestKind(f) # Null
    BY <2>6 DEF EventType
  <2>8. EventType(f) = "modify" => LatestContent(f) # c
    BY <2>1 DEF Unchanged
  <2>9. status[f] = "active" /\ path[f] = p
    BY <2>1 DEF ActiveAt
  <2>10. CallKeeps'
    BY <2>3, <2>2, <2>4, <2>5, <2>7, <2>8, <2>9 DEF CallKeeps
  <2>11. QED
    BY <2>1, <2>2, <2>10, EnterStep DEF VersionKinds, Steps
<1>2. CASE CaptureClaimed(f, p, c)
  <2>1. Enter("move", f, p, "rename", c) /\ ActiveAt(p) = {} /\ f \in Rows
    BY <1>2 DEF CaptureClaimed, NoActiveRow
  <2>2. /\ pc' = "move" /\ about'.file = f /\ about'.path = p /\ about'.kind = "rename"
        /\ UNCHANGED <<status, path>>
    BY <2>1 DEF Enter, rowVars
  <2>3. CallKeeps'
    BY <2>1, <2>2 DEF CallKeeps, ActiveAt, Rows
  <2>4. QED
    BY <2>1, <2>3, EnterStep DEF VersionKinds, Steps
<1>3. CASE CaptureReturned(f, p, c)
  <2>1. Enter("reopen", f, p, "create", c) /\ ActiveAt(p) = {} /\ f \in DeletedAt(p)
    BY <1>3 DEF CaptureReturned, NoActiveRow, LatestDeletedAt
  <2>2. /\ pc' = "reopen" /\ about'.file = f /\ about'.path = p /\ about'.kind = "create"
        /\ UNCHANGED <<status, path>>
    BY <2>1 DEF Enter, rowVars
  <2>3. CallKeeps'
    BY <2>1, <2>2 DEF CallKeeps, ActiveAt, DeletedAt
  <2>4. QED
    BY <2>1, <2>3, EnterStep DEF VersionKinds, Steps
<1>4. CASE CaptureNew(f, p, c)
  <2>1. PICK kind \in {"baseline", "create"} : Enter("create", f, p, kind, c)
    BY <1>4 DEF CaptureNew
  <2>2. ActiveAt(p) = {} /\ status[f] = Null
    BY <1>4 DEF CaptureNew, NoActiveRow, Rows
  <2>3. /\ pc' = "create" /\ about'.file = f /\ about'.path = p /\ about'.kind = kind
        /\ UNCHANGED <<status, path>>
    BY <2>1 DEF Enter, rowVars
  <2>4. CallKeeps'
    BY <2>2, <2>3 DEF CallKeeps, ActiveAt
  <2>5. QED
    BY <2>1, <2>4, EnterStep DEF VersionKinds, Steps
<1>5. CASE CaptureUnchanged(f, p, c)
  <2>1. UNCHANGED historyVars
    BY <1>5 DEF CaptureUnchanged
  <2>2. QED
    BY <2>1, UnchangedStep
<1>6. QED
  BY <1>1, <1>2, <1>3, <1>4, <1>5 DEF CaptureFromDisk

-----------------------------------------------------------------------------
(* If rows go to one path only, and at most one is active there, the paths *)
(* stay apart.                                                             *)
LEMMA PathsStayApart ==
    ASSUME OnePerPath, NEW q, NEW h, ActiveAt(q)' \subseteq {h},
           \A p \in Paths \ {q} : ActiveAt(p)' \subseteq ActiveAt(p)
    PROVE  OnePerPath'
<1> SUFFICES ASSUME NEW p \in Paths, NEW f1 \in ActiveAt(p)', NEW f2 \in ActiveAt(p)'
             PROVE  f1 = f2
  BY DEF OnePerPath
<1>1. CASE p = q
  BY <1>1
<1>2. CASE p # q
  <2>1. f1 \in ActiveAt(p) /\ f2 \in ActiveAt(p)
    BY <1>2
  <2>2. QED
    BY <2>1 DEF OnePerPath
<1>3. QED
  BY <1>1, <1>2

(* FileRepository.create: the new row is the only active one at its path.  *)
LEMMA CreateRowStep == HistoryInv /\ CreateRow => HistoryInv'
<1> SUFFICES ASSUME HistoryInv, CreateRow PROVE HistoryInv'
  OBVIOUS
<1> DEFINE f == about.file
<1>1. /\ f \in Files /\ about.path \in Paths /\ about \in Calls
      /\ status[f] = Null /\ ActiveAt(about.path) = {}
      /\ about.kind \in {"baseline", "create"}
  BY BusyCall DEF HistoryInv, CreateRow, CallKeeps
<1>2. /\ status' = [status EXCEPT ![f] = "active"]
      /\ path' = [path EXCEPT ![f] = about.path]
      /\ pc' = "commit" /\ Updated(f)
      /\ UNCHANGED <<about, pointer, log, cuts>>
  BY DEF CreateRow
<1>3. Rows' = Rows \cup {f}
  BY <1>1, <1>2 DEF Rows, HistoryInv, HistoryTypeOK, Null
<1>4. HistoryTypeOK'
  <2>1. newer' \in SUBSET (Rows' \X Rows')
    BY <1>1, <1>2, <1>3, UpdatedType DEF HistoryInv, HistoryTypeOK
  <2>2. about.path # Null
    BY <1>1, HistoryAssumption
  <2>3. /\ status' \in [Files -> {Null, "active", "deleted"}]
        /\ path' \in [Files -> Paths \cup {Null}]
        /\ \A g \in Files : path'[g] = Null <=> status'[g] = Null
    BY <1>1, <1>2, <2>2 DEF HistoryInv, HistoryTypeOK, Null
  <2>4. QED
    BY <1>1, <1>2, <2>1, <2>3 DEF HistoryInv, HistoryTypeOK, Steps
<1>5. OnePerPath'
  <2> PICK q \in Paths : q = about.path
    BY <1>1
  <2> PICK h \in Files : h = f
    BY <1>1
  <2>1. \A p \in Paths \ {q} : ActiveAt(p)' \subseteq ActiveAt(p)
    BY <1>1, <1>2 DEF HistoryInv, HistoryTypeOK, ActiveAt
  <2>2. ActiveAt(q)' \subseteq {h}
    BY <1>1, <1>2 DEF HistoryInv, HistoryTypeOK, ActiveAt
  <2>3. QED
    BY <2>1, <2>2, PathsStayApart DEF HistoryInv
<1>6. TombstoneOnTop'
  BY <1>1, <1>2 DEF HistoryInv, HistoryTypeOK, TombstoneOnTop, LatestKind
<1>7. CallKeeps'
  <2>1. log[f] = <<>> /\ LatestKind(f)' = Null
    BY <1>1, <1>2 DEF HistoryInv, NoRowNoVersion, LatestKind
  <2>2. status'[f] = "active" /\ path'[f] = about.path
    BY <1>1, <1>2 DEF HistoryInv, HistoryTypeOK
  <2>3. QED
    BY <1>1, <1>2, <2>1, <2>2 DEF CallKeeps
<1>8. NoRowNoVersion'
  BY <1>1, <1>2 DEF HistoryInv, HistoryTypeOK, NoRowNoVersion, Null
<1>9. OthersAgree'
  BY <1>1, <1>2, <1>3 DEF HistoryInv, HistoryTypeOK, OthersAgree, Agrees, LatestKind, Rows
<1>10. QED
  BY <1>4, <1>5, <1>6, <1>7, <1>8, <1>9 DEF HistoryInv

(* Statements that only make a row active: it is the only one at its path. *)
LEMMA ActivateStep ==
    ASSUME HistoryInv, pc \in {"reopen", "wake"},
           status' = [status EXCEPT ![about.file] = "active"],
           Updated(about.file), pc' = "commit",
           UNCHANGED <<about, path, pointer, log, cuts>>
    PROVE  HistoryInv'
<1> DEFINE f == about.file
<1>1. /\ f \in Files /\ about.path \in Paths /\ about \in Calls
      /\ status[f] # Null /\ path[f] = about.path
      /\ ActiveAt(about.path) \subseteq {f}
      /\ about.kind \in {"create", "rename"}
      /\ about.kind = "create" => LatestKind(f) = "delete"
  <2>1. /\ f \in Files /\ about.path \in Paths /\ about \in Calls
    BY BusyCall DEF HistoryInv
  <2>2. CASE pc = "reopen"
    BY <2>1, <2>2 DEF HistoryInv, CallKeeps, TombstoneOnTop, Null
  <2>3. CASE pc = "wake"
    BY <2>1, <2>3 DEF HistoryInv, CallKeeps
  <2>4. QED
    BY <2>1, <2>2, <2>3
<1>2. Rows' = Rows /\ f \in Rows
  BY <1>1 DEF Rows, HistoryInv, HistoryTypeOK, Null
<1>3. HistoryTypeOK'
  <2>1. newer' \in SUBSET (Rows' \X Rows')
    BY <1>1, <1>2, UpdatedType DEF HistoryInv, HistoryTypeOK
  <2>2. QED
    BY <1>1, <1>2, <2>1 DEF HistoryInv, HistoryTypeOK, Steps, Null
<1>4. OnePerPath'
  <2> PICK q \in Paths : q = about.path
    BY <1>1
  <2> PICK h \in Files : h = f
    BY <1>1
  <2>1. \A p \in Paths \ {q} : ActiveAt(p)' \subseteq ActiveAt(p)
    BY <1>1 DEF HistoryInv, HistoryTypeOK, ActiveAt
  <2>2. ActiveAt(q)' \subseteq {h}
    BY <1>1 DEF HistoryInv, HistoryTypeOK, ActiveAt
  <2>3. QED
    BY <2>1, <2>2, PathsStayApart DEF HistoryInv
<1>5. TombstoneOnTop'
  BY <1>1 DEF HistoryInv, HistoryTypeOK, TombstoneOnTop, LatestKind
<1>6. CallKeeps'
  <2>1. status'[f] = "active"
    BY <1>1 DEF HistoryInv, HistoryTypeOK
  <2>2. LatestKind(f)' = LatestKind(f)
    BY DEF LatestKind
  <2>3. QED
    BY <1>1, <2>1, <2>2 DEF CallKeeps
<1>7. NoRowNoVersion'
  BY <1>1 DEF HistoryInv, HistoryTypeOK, NoRowNoVersion, Null
<1>8. OthersAgree'
  BY <1>1, <1>2 DEF HistoryInv, HistoryTypeOK, OthersAgree, Agrees, LatestKind, Rows
<1>9. QED
  BY <1>3, <1>4, <1>5, <1>6, <1>7, <1>8 DEF HistoryInv

(* moveFileRow's setPath: nothing active is in the way.                    *)
LEMMA MoveRowStep == HistoryInv /\ MoveRow => HistoryInv'
<1> SUFFICES ASSUME HistoryInv, MoveRow PROVE HistoryInv'
  OBVIOUS
<1> DEFINE f == about.file
<1>1. /\ f \in Files /\ about.path \in Paths /\ about \in Calls
      /\ status[f] # Null /\ about.kind = "rename"
      /\ ActiveAt(about.path) \subseteq {f}
  BY BusyCall DEF HistoryInv, MoveRow, CallKeeps
<1>2. /\ path' = [path EXCEPT ![f] = about.path]
      /\ pc' = "wake" /\ Updated(f)
      /\ UNCHANGED <<status, about, pointer, log, cuts>>
  BY DEF MoveRow, AfterMove
<1>3. Rows' = Rows /\ f \in Rows
  BY <1>1, <1>2 DEF Rows
<1>4. HistoryTypeOK'
  <2>1. newer' \in SUBSET (Rows' \X Rows')
    BY <1>1, <1>2, <1>3, UpdatedType DEF HistoryInv, HistoryTypeOK
  <2>2. about.path # Null
    BY <1>1, HistoryAssumption
  <2>3. QED
    BY <1>1, <1>2, <2>1, <2>2 DEF HistoryInv, HistoryTypeOK, Steps
<1>5. OnePerPath'
  <2> PICK q \in Paths : q = about.path
    BY <1>1
  <2> PICK h \in Files : h = f
    BY <1>1
  <2>1. \A p \in Paths \ {q} : ActiveAt(p)' \subseteq ActiveAt(p)
    BY <1>1, <1>2 DEF HistoryInv, HistoryTypeOK, ActiveAt
  <2>2. ActiveAt(q)' \subseteq {h}
    BY <1>1, <1>2 DEF HistoryInv, HistoryTypeOK, ActiveAt
  <2>3. QED
    BY <2>1, <2>2, PathsStayApart DEF HistoryInv
<1>6. TombstoneOnTop'
  BY <1>2 DEF HistoryInv, TombstoneOnTop, LatestKind
<1>7. CallKeeps'
  <2>1. path'[f] = about.path
    BY <1>1, <1>2 DEF HistoryInv, HistoryTypeOK
  <2>2. ActiveAt(about.path)' \subseteq {f}
    BY <1>1, <1>2 DEF HistoryInv, HistoryTypeOK, ActiveAt
  <2>3. QED
    BY <1>1, <1>2, <2>1, <2>2 DEF CallKeeps
<1>8. NoRowNoVersion'
  BY <1>2 DEF HistoryInv, NoRowNoVersion
<1>9. OthersAgree'
  BY <1>1, <1>2, <1>3 DEF HistoryInv, HistoryTypeOK, OthersAgree, Agrees, LatestKind, Rows
<1>10. QED
  BY <1>4, <1>5, <1>6, <1>7, <1>8, <1>9 DEF HistoryInv

(* commitVersion: the row and its new version agree.                       *)
LEMMA CommitStep == HistoryInv /\ CommitVersion => HistoryInv'
<1> SUFFICES ASSUME HistoryInv, CommitVersion PROVE HistoryInv'
  OBVIOUS
<1> DEFINE f == about.file
<1>1. /\ f \in Files /\ about.path \in Paths
      /\ about.kind \in VersionKinds /\ about.kind # "delete" /\ about.content \in Contents
      /\ status[f] = "active" /\ path[f] = about.path
  BY BusyCall DEF HistoryInv, CommitVersion, CallKeeps
<1>2. /\ InsertVersion(f, about.kind, about.content, about.path)
      /\ pc' = "idle" /\ about' = NoCall /\ Updated(f)
      /\ UNCHANGED <<status, path, cuts>>
  BY DEF CommitVersion
<1>3. Rows' = Rows /\ f \in Rows
  BY <1>1, <1>2 DEF Rows, Null
<1>4. PICK h \in Files, kind \in VersionKinds, c \in Contents \cup {Null}, p \in Paths :
         h = f /\ kind = about.kind /\ c = about.content /\ p = about.path
  BY <1>1
<1>5. /\ log' \in [Files -> Seq(VersionRecords)]
      /\ pointer' \in [Files -> Nat]
      /\ pointer'[h] = Len(log'[h])
      /\ LatestKind(h)' = kind
      /\ log'[h] # <<>>
      /\ log'[h][Len(log'[h])].path = p
      /\ \A g \in Files \ {h} : log'[g] = log[g] /\ pointer'[g] = pointer[g]
  <2>1. InsertVersion(h, kind, c, p)
    BY <1>2, <1>4
  <2>2. log \in [Files -> Seq(VersionRecords)] /\ pointer \in [Files -> Nat]
    BY DEF HistoryInv, HistoryTypeOK
  <2>3. QED
    BY <2>1, <2>2, OneMoreVersion
<1>6. HistoryTypeOK'
  <2>1. newer' \in SUBSET (Rows' \X Rows')
    BY <1>1, <1>2, <1>3, UpdatedType DEF HistoryInv, HistoryTypeOK
  <2>2. QED
    BY <1>2, <1>5, <2>1 DEF HistoryInv, HistoryTypeOK
<1>7. OnePerPath'
  BY <1>2 DEF HistoryInv, OnePerPath, ActiveAt
<1>8. TombstoneOnTop'
  <2>1. \A g \in Files \ {h} : LatestKind(g)' = LatestKind(g)
    BY <1>5 DEF LatestKind
  <2>2. status'[h] # "deleted"
    BY <1>1, <1>2, <1>4
  <2>3. QED
    BY <1>2, <1>5, <2>1, <2>2 DEF HistoryInv, TombstoneOnTop
<1>9. CallKeeps'
  BY <1>2 DEF CallKeeps
<1>10. NoRowNoVersion'
  BY <1>1, <1>2, <1>4, <1>5 DEF HistoryInv, NoRowNoVersion, Null
<1>11. OthersAgree'
  <2>1. Agrees(h)'
    BY <1>1, <1>2, <1>4, <1>5 DEF Agrees
  <2>2. \A g \in Files \ {h} : Agrees(g) => Agrees(g)'
    BY <1>2, <1>5 DEF Agrees, LatestKind
  <2>3. QED
    BY <1>2, <1>3, <1>4, <2>1, <2>2 DEF HistoryInv, OthersAgree, Rows
<1>12. QED
  BY <1>6, <1>7, <1>8, <1>9, <1>10, <1>11 DEF HistoryInv

(* A call cut short leaves its row behind; everything else still holds.    *)
LEMMA FailStep == HistoryInv /\ Fail => HistoryInv'
<1> SUFFICES ASSUME HistoryInv, Fail PROVE HistoryInv'
  OBVIOUS
<1>1. /\ UNCHANGED <<status, path, pointer, newer, log>>
      /\ pc' = "idle" /\ about' = NoCall
      /\ cuts' = cuts + 1 /\ cuts < MaxCuts
      /\ cuts \in 0..MaxCuts
  BY DEF Fail, rowVars, HistoryInv, HistoryTypeOK
<1>2. Rows' = Rows
  BY <1>1 DEF Rows
<1>3. cuts' \in 0..MaxCuts /\ cuts' # 0
  BY <1>1, HistoryAssumption
<1>4. HistoryTypeOK'
  BY <1>1, <1>2, <1>3 DEF HistoryInv, HistoryTypeOK
<1>5. OnePerPath' /\ TombstoneOnTop' /\ NoRowNoVersion'
  BY <1>1 DEF HistoryInv, OnePerPath, TombstoneOnTop, NoRowNoVersion, ActiveAt, LatestKind
<1>6. CallKeeps' /\ OthersAgree'
  BY <1>1, <1>3 DEF CallKeeps, OthersAgree
<1>7. QED
  BY <1>4, <1>5, <1>6 DEF HistoryInv

(* recordDeletion: the tombstone, the status and the pointer agree.        *)
LEMMA RecordDeletionStep ==
    ASSUME HistoryInv, NEW f \in Files, NEW p \in Paths, RecordDeletion(f, p)
    PROVE  HistoryInv'
<1>1. /\ pc = "idle" /\ MayEntomb(f) /\ InsertVersion(f, "delete", LatestContent(f), path[f])
      /\ status[f] = "active" /\ path[f] = p
      /\ status' = [status EXCEPT ![f] = "deleted"]
      /\ Updated(f)
      /\ UNCHANGED <<path, pc, about, cuts>>
  BY DEF RecordDeletion, ActiveAt
<1>2. Rows' = Rows /\ f \in Rows
  BY <1>1 DEF Rows, HistoryInv, HistoryTypeOK, Null
<1>3. LatestContent(f) \in Contents \cup {Null}
  <2>1. log[f] \in Seq(VersionRecords) /\ LatestKind(f) # "delete"
    BY <1>1 DEF HistoryInv, HistoryTypeOK, MayEntomb
  <2>2. CASE LatestKind(f) = Null
    <3>1. log[f] = <<>>
      <4>1. SUFFICES ASSUME log[f] # <<>> PROVE FALSE
        OBVIOUS
      <4>2. log[f][Len(log[f])] \in VersionRecords
        BY <2>1, <4>1
      <4>3. QED
        BY <2>2, <4>1, <4>2 DEF LatestKind, VersionRecords, VersionKinds, Null
    <3>2. QED
      BY <3>1 DEF LatestContent, ContentVersions
  <2>3. CASE LatestKind(f) # Null
    BY <2>1, <2>3, TopContent
  <2>4. QED
    BY <2>2, <2>3
<1>4. PICK c : c = LatestContent(f) /\ c \in Contents \cup {Null}
  BY <1>3
<1>5. /\ log' \in [Files -> Seq(VersionRecords)]
      /\ pointer' \in [Files -> Nat]
      /\ pointer'[f] = Len(log'[f])
      /\ LatestKind(f)' = "delete"
      /\ log'[f] # <<>>
      /\ log'[f][Len(log'[f])].path = p
      /\ \A g \in Files \ {f} : log'[g] = log[g] /\ pointer'[g] = pointer[g]
  <2>1. InsertVersion(f, "delete", c, p)
    BY <1>1, <1>4
  <2>2. log \in [Files -> Seq(VersionRecords)] /\ pointer \in [Files -> Nat]
    BY DEF HistoryInv, HistoryTypeOK
  <2>3. QED
    BY <1>4, <2>1, <2>2, OneMoreVersion DEF VersionKinds
<1>6. HistoryTypeOK'
  <2>1. newer' \in SUBSET (Rows' \X Rows')
    BY <1>1, <1>2, UpdatedType DEF HistoryInv, HistoryTypeOK
  <2>2. QED
    BY <1>1, <1>5, <2>1 DEF HistoryInv, HistoryTypeOK, Null
<1>7. OnePerPath'
  BY <1>1 DEF HistoryInv, HistoryTypeOK, OnePerPath, ActiveAt
<1>8. TombstoneOnTop'
  <2>1. \A g \in Files \ {f} : LatestKind(g)' = LatestKind(g) /\ status'[g] = status[g]
    BY <1>1, <1>5 DEF LatestKind, HistoryInv, HistoryTypeOK
  <2>2. QED
    BY <1>5, <2>1 DEF HistoryInv, TombstoneOnTop
<1>9. CallKeeps'
  BY <1>1 DEF CallKeeps
<1>10. NoRowNoVersion'
  BY <1>1, <1>5 DEF HistoryInv, HistoryTypeOK, NoRowNoVersion, Null
<1>11. OthersAgree'
  <2>1. Agrees(f)'
    BY <1>1, <1>5 DEF Agrees, HistoryInv, HistoryTypeOK
  <2>2. \A g \in Files \ {f} : Agrees(g) => Agrees(g)'
    BY <1>1, <1>5 DEF Agrees, LatestKind, HistoryInv, HistoryTypeOK
  <2>3. QED
    BY <1>1, <1>2, <2>1, <2>2 DEF HistoryInv, OthersAgree, Rows
<1>12. QED
  BY <1>6, <1>7, <1>8, <1>9, <1>10, <1>11 DEF HistoryInv

-----------------------------------------------------------------------------
(* Every step of the capture service keeps the invariant.                  *)
LEMMA HistoryStep == HistoryInv /\ [HistoryNext]_historyVars => HistoryInv'
<1> SUFFICES ASSUME HistoryInv, [HistoryNext]_historyVars PROVE HistoryInv'
  OBVIOUS
<1>1. ASSUME NEW f \in Files, NEW p \in Paths, NEW c \in Contents, CaptureFromDisk(f, p, c)
      PROVE  HistoryInv'
  BY <1>1, CaptureStep
<1>2. ASSUME NEW f \in Files, NEW p \in Paths, RecordDeletion(f, p)
      PROVE  HistoryInv'
  BY <1>2, RecordDeletionStep
<1>3. ASSUME NEW p \in Paths, RecordDeletionReturnsNull(p)
      PROVE  HistoryInv'
  BY <1>3, UnchangedStep DEF RecordDeletionReturnsNull
<1>4. CASE Statement
  <2>1. CASE CreateRow
    BY <2>1, CreateRowStep
  <2>2. CASE ReopenRow
    BY <2>2, ActivateStep DEF ReopenRow
  <2>3. CASE MoveRow
    BY <2>3, MoveRowStep
  <2>4. CASE WakeRow
    BY <2>4, ActivateStep DEF WakeRow
  <2>5. CASE CommitVersion
    BY <2>5, CommitStep
  <2>6. QED
    BY <1>4, <2>1, <2>2, <2>3, <2>4, <2>5 DEF Statement
<1>5. CASE Fail
  BY <1>5, FailStep
<1>6. CASE UNCHANGED historyVars
  BY <1>6, UnchangedStep
<1>7. QED
  BY <1>1, <1>2, <1>3, <1>4, <1>5, <1>6 DEF HistoryNext

(* The invariant holds in every reachable state.                           *)
THEOREM HistoryInvariant == HistorySpec => []HistoryInv
<1>1. QED
  BY HistoryInitially, HistoryStep, PTL DEF HistorySpec

(* Rows, versions and the call on the stack keep their types.              *)
THEOREM HistoryTypeCorrect == HistorySpec => []HistoryTypeOK
<1>1. HistoryInv => HistoryTypeOK
  BY DEF HistoryInv
<1>2. QED
  BY <1>1, HistoryInvariant, PTL

(* The unique index on active paths never rejects a statement of the       *)
(* capture service, whatever was cut short before.                         *)
THEOREM IndexNeverBroken == HistorySpec => []OnePerPath
<1>1. HistoryInv => OnePerPath
  BY DEF HistoryInv
<1>2. QED
  BY <1>1, HistoryInvariant, PTL

(* Deleted rows carry their tombstone on top, and pointers are up to date, *)
(* in every state a crash may leave.                                       *)
THEOREM TombstonesStayOnTop == HistorySpec => []TombstoneOnTop
<1>1. HistoryInv => TombstoneOnTop
  BY DEF HistoryInv
<1>2. QED
  BY <1>1, HistoryInvariant, PTL

(* Between calls rows and timelines agree, as long as no call was cut      *)
(* short.                                                                  *)
THEOREM ConsistentWithoutFailure == HistorySpec => []ConsistentUnlessCutShort
<1>1. ASSUME HistoryInv PROVE ConsistentUnlessCutShort
  <2>1. SUFFICES ASSUME cuts = 0, pc = "idle", NEW f \in Rows PROVE Agrees(f)
    BY DEF ConsistentUnlessCutShort, AllOrNothing, Agrees
  <2>2. f # about.file
    BY <1>1, <2>1, IdleCall DEF HistoryInv, Rows
  <2>3. QED
    BY <1>1, <2>1, <2>2 DEF HistoryInv, OthersAgree
<1>2. QED
  BY <1>1, HistoryInvariant, PTL

-----------------------------------------------------------------------------
(* Every step adds at most one version, and only one the timeline may      *)
(* have next: a step of FileHistory or a stutter.                          *)
LEMMA PromiseStep == HistoryInv /\ [HistoryNext]_historyVars => [Promise!Next]_log
<1> SUFFICES ASSUME HistoryInv, [HistoryNext]_historyVars, log' # log PROVE Promise!Next
  OBVIOUS
<1>1. \/ CommitVersion
      \/ \E f \in Files, p \in Paths : RecordDeletion(f, p)
  <2>1. ASSUME NEW f \in Files, NEW p \in Paths, NEW c \in Contents, CaptureFromDisk(f, p, c)
        PROVE  FALSE
    <3>1. log' = log
      BY <2>1 DEF CaptureFromDisk, CaptureKnown, CaptureClaimed, CaptureReturned,
                  CaptureNew, CaptureUnchanged, Enter, historyVars
    <3>2. QED
      BY <3>1
  <2>2. CASE UNCHANGED historyVars
    BY <2>2 DEF historyVars
  <2>3. CASE CreateRow \/ ReopenRow \/ MoveRow \/ WakeRow \/ Fail
    BY <2>3 DEF CreateRow, ReopenRow, MoveRow, WakeRow, Fail
  <2>4. QED
    BY <2>1, <2>2, <2>3 DEF HistoryNext, Statement, RecordDeletionReturnsNull
<1>2. CASE CommitVersion
  <2> DEFINE f == about.file
  <2>1. /\ f \in Files /\ about.path \in Paths /\ about.content \in Contents
        /\ about.kind \in VersionKinds /\ about.kind # "delete"
        /\ InsertVersion(f, about.kind, about.content, about.path)
    BY <1>2, BusyCall DEF HistoryInv, CommitVersion
  <2>2. Promise!Add(f, about.kind, about.content, about.path)
    BY <2>1 DEF InsertVersion, Promise!Add
  <2>3. log[f] \in Seq(VersionRecords)
    BY <2>1 DEF HistoryInv, HistoryTypeOK
  <2>4. CASE about.kind = "rename"
    BY <2>1, <2>2, <2>4 DEF Promise!Move, Promise!Next
  <2>5. CASE about.kind = "baseline"
    <3>1. log[f] = <<>>
      BY <1>2, <2>5 DEF HistoryInv, CallKeeps, CommitVersion
    <3>2. Promise!Appear(f, about.content, about.path)
      BY <2>2, <2>5, <3>1 DEF Promise!Appear, Promise!Gone, Promise!Entombed
    <3>3. QED
      BY <2>1, <3>2 DEF Promise!Next
  <2>6. CASE about.kind = "create"
    <3>1. LatestKind(f) \in {Null, "delete"}
      BY <1>2, <2>6 DEF HistoryInv, CallKeeps, CommitVersion
    <3>2. Promise!Gone(f)
      <4>1. SUFFICES ASSUME log[f] # <<>> PROVE log[f][Len(log[f])].kind = "delete"
        BY DEF Promise!Gone
      <4>2. log[f][Len(log[f])] \in VersionRecords
        BY <2>3, <4>1
      <4>3. QED
        BY <3>1, <4>1, <4>2 DEF LatestKind, VersionRecords, VersionKinds, Null
    <3>3. Promise!Appear(f, about.content, about.path)
      BY <2>2, <2>6, <3>2 DEF Promise!Appear
    <3>4. QED
      BY <2>1, <3>3 DEF Promise!Next
  <2>7. CASE about.kind = "modify"
    <3>1. /\ LatestKind(f) # Null /\ LatestKind(f) # "delete"
          /\ LatestContent(f) # about.content
      BY <1>2, <2>7 DEF HistoryInv, CallKeeps, CommitVersion
    <3>2. /\ log[f] # <<>>
          /\ LatestContent(f) = log[f][Len(log[f])].content
      BY <2>1, <2>3, <3>1, TopContent
    <3>3. Promise!Change(f, about.content, about.path)
      BY <2>2, <2>7, <3>1, <3>2
         DEF Promise!Change, Promise!Gone, Promise!LastContent, LatestKind
    <3>4. QED
      BY <2>1, <3>3 DEF Promise!Next
  <2>8. QED
    BY <2>1, <2>4, <2>5, <2>6, <2>7 DEF VersionKinds
<1>3. ASSUME NEW f \in Files, NEW p \in Paths, RecordDeletion(f, p) PROVE Promise!Next
  <2>1. /\ MayEntomb(f) /\ path[f] = p
        /\ InsertVersion(f, "delete", LatestContent(f), path[f])
    BY <1>3 DEF RecordDeletion, ActiveAt
  <2>2. log[f] \in Seq(VersionRecords)
    BY DEF HistoryInv, HistoryTypeOK
  <2>3. LatestContent(f) = Promise!LastContent(f)
    <3>1. CASE log[f] = <<>>
      BY <3>1 DEF LatestContent, ContentVersions, Promise!LastContent
    <3>2. CASE log[f] # <<>>
      <4>1. LatestKind(f) # Null
        <5>1. log[f][Len(log[f])] \in VersionRecords
          BY <2>2, <3>2
        <5>2. QED
          BY <3>2, <5>1 DEF LatestKind, VersionRecords, VersionKinds, Null
      <4>2. QED
        BY <2>1, <2>2, <3>2, <4>1, TopContent DEF MayEntomb, Promise!LastContent
    <3>3. QED
      BY <3>1, <3>2
  <2>4. Promise!Add(f, "delete", LatestContent(f), p)
    BY <2>1 DEF InsertVersion, Promise!Add
  <2>5. ~Promise!Entombed(f)
    BY <2>1 DEF MayEntomb, LatestKind, Promise!Entombed, Promise!Gone
  <2>6. QED
    BY <2>3, <2>4, <2>5 DEF Promise!Vanish, Promise!Next
<1>4. QED
  BY <1>1, <1>2, <1>3

(* The capture service keeps the promise of FileHistory.                   *)
THEOREM CaptureKeepsHistory == HistorySpec => ImplementsFileHistory
<1>1. HistoryInit => Promise!Init
  BY DEF HistoryInit, Promise!Init
<1>2. QED
  BY <1>1, PromiseStep, HistoryInvariant, PTL DEF HistorySpec, ImplementsFileHistory, Promise!Spec
=============================================================================
