------------------------------ MODULE History ------------------------------
(***************************************************************************)
(* src/main/capture/captureService.ts over the tables files and versions:  *)
(* how the bytes found at a path become a version of some document.        *)
(*                                                                         *)
(* The stretch of captureFromDisk after its last await is synchronous: it  *)
(* looks up whose bytes these are, then runs a few statements, each        *)
(* committed on its own. The lookup is one step and every statement one    *)
(* more; while a call has statements to run (pc # "idle") nothing else     *)
(* happens except that the process dies or a statement throws, which       *)
(* leaves the rest undone. What was read from the disk is an input: the    *)
(* read and the compression happen before the stretch.                     *)
(***************************************************************************)
EXTENDS Naturals, Sequences, FiniteSets

CONSTANTS
    Files,         (* values randomUUID() may give to rows of files          *)
    Paths,         (* normalizedPath values                                  *)
    Contents,      (* content hashes                                         *)
    MaxTimeline,   (* bound of the model: versions of all files              *)
    MaxCuts        (* bound of the model: calls cut short                    *)

Null == "none"

ASSUME HistoryAssumption ==
    /\ Null \notin Contents
    /\ Null \notin Paths
    /\ Null \notin Files
    /\ MaxTimeline \in Nat
    /\ MaxCuts \in Nat

VersionKinds   == {"baseline", "create", "modify", "rename", "delete"}
VersionRecords == [kind : VersionKinds, content : Contents \cup {Null}, path : Paths]

VARIABLES
    status,     (* files.status; Null where there is no row                  *)
    path,       (* files.normalized_path                                     *)
    pointer,    (* files.current_version_id, as a sequence number; 0 is null *)
    newer,      (* <<f, g>> : f's updated_at is later than g's               *)
    log,        (* versions by file; the position is the column sequence     *)
    pc,         (* the next statement of the call on the stack, or "idle"    *)
    about,      (* what that call was found to be about                      *)
    cuts        (* history: calls cut short between two statements           *)

rowVars == <<status, path, pointer, newer>>
historyVars == <<status, path, pointer, newer, log, pc, about, cuts>>

NoCall == [file |-> Null, path |-> Null, kind |-> Null, content |-> Null]
Calls  == [file : Files, path : Paths, kind : VersionKinds \ {"delete"}, content : Contents]
Steps  == {"create", "reopen", "move", "wake", "commit"}

Rows == {f \in Files : status[f] # Null}

-----------------------------------------------------------------------------
(* VersionRepository.latest: the kind of the newest version.               *)
LatestKind(f) == IF log[f] = <<>> THEN Null ELSE log[f][Len(log[f])].kind

(* VersionRepository.latestContent: tombstones are passed over.            *)
ContentVersions(f) == {i \in DOMAIN log[f] : log[f][i].kind # "delete"}

LatestContent(f) ==
    IF ContentVersions(f) = {} THEN Null
    ELSE log[f][CHOOSE i \in ContentVersions(f) : \A j \in ContentVersions(f) : j <= i].content

ActiveAt(p) == {f \in Files : status[f] = "active" /\ path[f] = p}

(* latestDeletedByNormalizedPath: the most recently updated of the deleted *)
(* rows at the path.                                                       *)
DeletedAt(p) == {f \in Files : status[f] = "deleted" /\ path[f] = p}

LatestDeletedAt(p) == {f \in DeletedAt(p) : \A g \in DeletedAt(p) \ {f} : <<f, g>> \in newer}

(* Every update of a row but touch() sets updated_at to now.               *)
Updated(f) ==
    newer' = {pair \in newer : pair[1] # f /\ pair[2] # f} \cup ({f} \X (Rows \ {f}))

(* Room for one more version, those of all files counted.                  *)
Room(f) == Cardinality({e \in Files \X (1..MaxTimeline) : e[2] <= Len(log[e[1]])}) < MaxTimeline

(* VersionRepository.insert and setCurrentVersion, in one transaction.     *)
InsertVersion(f, kind, content, p) ==
    /\ log' = [log EXCEPT ![f] = Append(@, [kind |-> kind, content |-> content, path |-> p])]
    /\ pointer' = [pointer EXCEPT ![f] = Len(log[f]) + 1]

-----------------------------------------------------------------------------
HistoryInit ==
    /\ status = [f \in Files |-> Null]
    /\ path = [f \in Files |-> Null]
    /\ pointer = [f \in Files |-> 0]
    /\ newer = {}
    /\ log = [f \in Files |-> <<>>]
    /\ pc = "idle"
    /\ about = NoCall
    /\ cuts = 0

(* The lookup decides what the rest of the call will run.                  *)
Enter(step, f, p, kind, c) ==
    /\ pc = "idle"
    /\ Room(f)
    /\ pc' = step
    /\ about' = [file |-> f, path |-> p, kind |-> kind, content |-> c]
    /\ UNCHANGED <<rowVars, log, cuts>>

LookupSkipped(p) == TRUE

NoActiveRow(p) == ActiveAt(p) = {}

(* The bytes belong to the row at the path. A row without a version, or    *)
(* with a tombstone on top, is what an earlier failure has left.           *)
EventType(f) ==
    IF log[f] = <<>> THEN "baseline"
    ELSE IF LatestKind(f) = "delete" THEN "create"
    ELSE "modify"

(* Identical bytes never make a second version: the row is only touched.   *)
NeverUnchanged(f, c) == FALSE

Unchanged(f, c) == EventType(f) = "modify" /\ LatestContent(f) = c

CaptureKnown(f, p, c) ==
    /\ f \in ActiveAt(p)
    /\ ~Unchanged(f, c)
    /\ Enter("commit", f, p, EventType(f), c)

(* The rename correlator claims the bytes for a file that vanished from    *)
(* elsewhere. Whom it claims, it alone decides.                            *)
CaptureClaimed(f, p, c) ==
    /\ NoActiveRow(p)
    /\ f \in Rows
    /\ Enter("move", f, p, "rename", c)

(* The file is back at its path with the content it was last seen with.    *)
CaptureReturned(f, p, c) ==
    /\ NoActiveRow(p)
    /\ f \in LatestDeletedAt(p)
    /\ LatestContent(f) = c
    /\ Enter("reopen", f, p, "create", c)

CaptureNew(f, p, c) ==
    /\ NoActiveRow(p)
    /\ f \notin Rows
    /\ \A g \in LatestDeletedAt(p) : LatestContent(g) # c
    /\ \E kind \in {"baseline", "create"} : Enter("create", f, p, kind, c)

(* The call ends without a statement, or with touch() alone.               *)
CaptureUnchanged(f, p, c) ==
    /\ pc = "idle"
    /\ f \in ActiveAt(p)
    /\ Unchanged(f, c)
    /\ UNCHANGED historyVars

-----------------------------------------------------------------------------
(* FileRepository.create                                                   *)
CreateRow ==
    /\ pc = "create"
    /\ status' = [status EXCEPT ![about.file] = "active"]
    /\ path' = [path EXCEPT ![about.file] = about.path]
    /\ Updated(about.file)
    /\ pc' = "commit"
    /\ UNCHANGED <<about, pointer, log, cuts>>

(* setStatus, then setPath with the path the row already has.              *)
ReopenRow ==
    /\ pc = "reopen"
    /\ status' = [status EXCEPT ![about.file] = "active"]
    /\ Updated(about.file)
    /\ pc' = "commit"
    /\ UNCHANGED <<about, path, pointer, log, cuts>>

(* moveFileRow. Nothing is tracked at the destination, or the rename would *)
(* not have been claimed: its occupant branch has nothing to tombstone.    *)
AfterMoveForgetsStatus == "commit"

AfterMove == "wake"

MoveRow ==
    /\ pc = "move"
    /\ path' = [path EXCEPT ![about.file] = about.path]
    /\ Updated(about.file)
    /\ pc' = AfterMove
    /\ UNCHANGED <<about, status, pointer, log, cuts>>

WakeRow ==
    /\ pc = "wake"
    /\ status' = [status EXCEPT ![about.file] = "active"]
    /\ Updated(about.file)
    /\ pc' = "commit"
    /\ UNCHANGED <<about, path, pointer, log, cuts>>

(* commitVersion: version, pointer and search entry in one transaction.    *)
CommitVersion ==
    /\ pc = "commit"
    /\ InsertVersion(about.file, about.kind, about.content, about.path)
    /\ Updated(about.file)
    /\ pc' = "idle"
    /\ about' = NoCall
    /\ UNCHANGED <<status, path, cuts>>

(* The process dies, or a statement throws: the rest is not run.           *)
Fail ==
    /\ pc # "idle"
    /\ cuts < MaxCuts
    /\ pc' = "idle"
    /\ about' = NoCall
    /\ cuts' = cuts + 1
    /\ UNCHANGED <<rowVars, log>>

-----------------------------------------------------------------------------
(* recordDeletion: tombstone, status and pointer in one transaction.       *)
MayEntomb(f) == LatestKind(f) # "delete"

RecordDeletionKeepsStatus(f, p) ==
    /\ pc = "idle"
    /\ f \in ActiveAt(p)
    /\ MayEntomb(f)
    /\ Room(f)
    /\ InsertVersion(f, "delete", LatestContent(f), path[f])
    /\ Updated(f)
    /\ UNCHANGED <<status, path, pc, about, cuts>>

RecordDeletion(f, p) ==
    /\ pc = "idle"
    /\ f \in ActiveAt(p)
    /\ MayEntomb(f)
    /\ Room(f)
    /\ InsertVersion(f, "delete", LatestContent(f), path[f])
    /\ status' = [status EXCEPT ![f] = "deleted"]
    /\ Updated(f)
    /\ UNCHANGED <<path, pc, about, cuts>>

(* There is nothing to tombstone.                                          *)
RecordDeletionReturnsNull(p) ==
    /\ pc = "idle"
    /\ \A f \in ActiveAt(p) : ~MayEntomb(f)
    /\ UNCHANGED historyVars

CaptureFromDisk(f, p, c) ==
    \/ CaptureKnown(f, p, c)
    \/ CaptureClaimed(f, p, c)
    \/ CaptureReturned(f, p, c)
    \/ CaptureNew(f, p, c)
    \/ CaptureUnchanged(f, p, c)

Statement == CreateRow \/ ReopenRow \/ MoveRow \/ WakeRow \/ CommitVersion

HistoryNext ==
    \/ \E f \in Files, p \in Paths, c \in Contents : CaptureFromDisk(f, p, c)
    \/ \E f \in Files, p \in Paths : RecordDeletion(f, p)
    \/ \E p \in Paths : RecordDeletionReturnsNull(p)
    \/ Statement
    \/ Fail

HistorySpec == HistoryInit /\ [][HistoryNext]_historyVars

-----------------------------------------------------------------------------
HistoryTypeOK ==
    /\ status \in [Files -> {Null, "active", "deleted"}]
    /\ path \in [Files -> Paths \cup {Null}]
    /\ \A f \in Files : path[f] = Null <=> status[f] = Null
    /\ pointer \in [Files -> Nat]
    /\ newer \in SUBSET (Rows \X Rows)
    /\ log \in [Files -> Seq(VersionRecords)]
    /\ pc \in Steps \cup {"idle"}
    /\ about \in (IF pc = "idle" THEN {NoCall} ELSE Calls)
    /\ cuts \in 0..MaxCuts

(* No statement ever breaks the unique index on active paths: at most one  *)
(* row claims a path to be its file, whatever was cut short before.        *)
OnePerPath == \A p \in Paths : \A f, g \in ActiveAt(p) : f = g

(* A row that says deleted has its tombstone on top, and the pointer of    *)
(* every row is at its newest version, in every state a crash may leave.   *)
TombstoneOnTop == \A f \in Files :
    /\ status[f] = "deleted" => LatestKind(f) = "delete"
    /\ pointer[f] = Len(log[f])

(* Between two calls every row agrees with its timeline.                   *)
AllOrNothing ==
    pc = "idle" => \A f \in Rows :
        /\ log[f] # <<>>
        /\ status[f] = "deleted" <=> LatestKind(f) = "delete"
        /\ path[f] = log[f][Len(log[f])].path

(* ... as long as no call was cut short.                                   *)
ConsistentUnlessCutShort == cuts = 0 => AllOrNothing

(* Timelines grow as promised: every query finds the content it is meant   *)
(* to find, and no failure makes a later version break the order.          *)
Promise == INSTANCE FileHistory WITH timeline <- log, Nothing <- Null

ImplementsFileHistory == Promise!Spec
=============================================================================
