-------------------------------- MODULE Log --------------------------------
(***************************************************************************)
(* src/main/logging/logger.ts: lines are written one after the other by a  *)
(* chain of promises (this.pending), into a file that is rotated when it   *)
(* is full. Levels, scopes and the wording of a line are left out; a line  *)
(* is its number, and the size of a file is how many lines it has.         *)
(*                                                                         *)
(* One link of the chain runs at a time. It is cut at its awaits: each     *)
(* rename, the opening of the stream and the write. Between any two of     *)
(* them the process may end.                                               *)
(***************************************************************************)
EXTENDS Naturals, SequencesExt

CONSTANTS
    MaxFiles,       (* maxFiles                                              *)
    MaxFileLines,   (* maxFileBytes                                          *)
    MaxLines,       (* bound of the model: lines logged                      *)
    MaxLogFaults    (* bound of the model: failures and crashes              *)

ASSUME LogAssumption ==
    /\ MaxFiles \in Nat \ {0, 1}
    /\ MaxFileLines \in Nat \ {0}
    /\ MaxLines \in Nat
    /\ MaxLogFaults \in Nat

VARIABLES
    logged,        (* lines logged so far                                    *)
    chain,         (* the lines that this.pending has still to write         *)
    link,          (* what the first of them is at                           *)
    turn,          (* rotate: which of its renames is next, or 0             *)
    stream,        (* this.stream: none, open or destroyed                   *)
    written,       (* this.written                                           *)
    logFiles,      (* the lines of recover-md.log (0), .1, .2, ...           *)
    awaited,       (* close: the last line it waits for, or 0                *)
    landed,        (* history: the lines written to any file, in order       *)
    lapsed,        (* history: a rename has failed                           *)
    torn,          (* history: the process ended between two renames         *)
    logFaults      (* so far, against MaxLogFaults                           *)

logVars == <<logged, chain, link, turn, stream, written, logFiles, awaited, landed, lapsed,
             torn, logFaults>>

LogInit ==
    /\ logged = 0 /\ chain = <<>> /\ link = "idle" /\ turn = 0
    /\ stream = "none" /\ written = 0
    /\ logFiles = [i \in 0..(MaxFiles - 1) |-> <<>>]
    /\ awaited = 0 /\ landed = <<>> /\ lapsed = FALSE /\ torn = FALSE /\ logFaults = 0

LogFault == logFaults < MaxLogFaults /\ logFaults' = logFaults + 1

-----------------------------------------------------------------------------
(* enqueue                                                                 *)
LogLine ==
    /\ logged < MaxLines
    /\ logged' = logged + 1
    /\ chain' = Append(chain, logged + 1)
    /\ UNCHANGED <<link, turn, stream, written, logFiles, awaited, landed, lapsed, torn,
                   logFaults>>

(* ensureStream: what is in the file counts, also from an earlier start.   *)
EnsureStream ==
    \/ /\ link' = "writing" /\ stream' = IF stream = "none" THEN "open" ELSE stream
       /\ written' = IF stream = "none" THEN Len(logFiles[0]) ELSE written
       /\ UNCHANGED <<chain, logFaults>>
    \/ /\ stream = "none" /\ LogFault
       /\ link' = "idle" /\ chain' = Tail(chain)
       /\ UNCHANGED <<stream, written>>

LinkStarts ==
    /\ link = "idle" /\ chain # <<>>
    /\ IF written >= MaxFileLines
       THEN /\ link' = "renaming" /\ turn' = 1 /\ stream' = "none"
            /\ UNCHANGED <<chain, written, logFaults>>
       ELSE EnsureStream /\ UNCHANGED turn
    /\ UNCHANGED <<logged, logFiles, awaited, landed, lapsed, torn>>

(* The suffixes that rotate gives, in the order of its loop.               *)
RotationUpwards == [i \in 1..(MaxFiles - 1) |-> i]

Rotation == [i \in 1..(MaxFiles - 1) |-> MaxFiles - i]

(* Without a file to rename it fails as well, and there is nothing lost.   *)
Renamed(to) ==
    logFiles' = IF logFiles[to - 1] = <<>> THEN logFiles
                ELSE [logFiles EXCEPT ![to] = logFiles[to - 1], ![to - 1] = <<>>]

Rename ==
    /\ link = "renaming"
    /\ \/ Renamed(Rotation[turn]) /\ UNCHANGED <<lapsed, logFaults>>
       \/ LogFault /\ lapsed' = TRUE /\ UNCHANGED logFiles
    /\ IF turn < Len(Rotation)
       THEN turn' = turn + 1 /\ UNCHANGED <<link, written>>
       ELSE turn' = 0 /\ link' = "rotated" /\ written' = 0
    /\ UNCHANGED <<logged, chain, stream, awaited, landed, torn>>

Rotated ==
    /\ link = "rotated" /\ EnsureStream
    /\ UNCHANGED <<logged, turn, logFiles, awaited, landed, lapsed, torn>>

(* The stream that a failed write has destroyed stays this.stream, and     *)
(* nobody hears its error but the handler of uncaught exceptions, which    *)
(* logs it.                                                                *)
WriteEnds ==
    /\ link = "writing" /\ link' = "idle"
    /\ \/ /\ stream = "open"
          /\ logFiles' = [logFiles EXCEPT ![0] = Append(@, Head(chain))]
          /\ landed' = Append(landed, Head(chain))
          /\ written' = written + 1
          /\ chain' = Tail(chain)
          /\ UNCHANGED <<logged, stream, logFaults>>
       \/ /\ stream = "open" /\ LogFault
          /\ stream' = "destroyed"
          /\ logged' = logged + 1
          /\ chain' = Append(Tail(chain), logged + 1)
          /\ UNCHANGED <<logFiles, landed, written>>
       \/ /\ stream = "destroyed"
          /\ chain' = Tail(chain)
          /\ UNCHANGED <<logged, stream, logFiles, landed, written, logFaults>>
    /\ UNCHANGED <<turn, awaited, lapsed, torn>>

-----------------------------------------------------------------------------
(* close, the last thing that quit() waits for.                            *)
CloseLog ==
    /\ awaited = 0 /\ logged > 0
    /\ awaited' = logged
    /\ UNCHANGED <<logged, chain, link, turn, stream, written, logFiles, landed, lapsed,
                   torn, logFaults>>

(* The next start has a new FileLogger.                                    *)
Restarted ==
    /\ chain' = <<>> /\ link' = "idle" /\ turn' = 0
    /\ stream' = "none" /\ written' = 0
    /\ awaited' = 0
    /\ torn' = (torn \/ turn > 1)
    /\ UNCHANGED <<logged, logFiles, landed, lapsed>>

Exits ==
    /\ awaited > 0 /\ \A i \in DOMAIN chain : chain[i] > awaited
    /\ Restarted /\ UNCHANGED logFaults

Crashes == LogFault /\ Restarted

-----------------------------------------------------------------------------
LogNext ==
    \/ LogLine \/ LinkStarts \/ Rename \/ Rotated \/ WriteEnds
    \/ CloseLog \/ Exits \/ Crashes

LogSpec == LogInit /\ [][LogNext]_logVars

LogTypeOK ==
    /\ link \in {"idle", "renaming", "rotated", "writing"}
    /\ (link = "renaming") = (turn \in DOMAIN Rotation) /\ (link # "renaming") = (turn = 0)
    /\ link # "idle" => chain # <<>>
    /\ link = "writing" => stream # "none"
    /\ stream \in {"none", "open", "destroyed"}
    /\ awaited \in 0..logged

-----------------------------------------------------------------------------
(* From the oldest file to the newest.                                     *)
LogContents == FlattenSeq([i \in 1..MaxFiles |-> logFiles[MaxFiles - i]])

InOrder(lines) == \A i, j \in DOMAIN lines : i < j => lines[i] < lines[j]

Full(i) == Len(logFiles[i]) >= MaxFileLines

(* The files always are in the order in which the lines were logged, and   *)
(* what they have is the end of everything that was written (logger.ts:73),*)
(* though the process may crash between two renames and go on with a full  *)
(* file: until the oldest file is full it is all of it, and then at least  *)
(* all files but one are full. A rotation cut short may leave fewer full,  *)
(* and a rename that failed may have cost more.                            *)
LogKept ==
    /\ InOrder(LogContents)
    /\ ~lapsed => /\ IsSuffix(LogContents, landed)
                  /\ \/ LogContents = landed
                     \/ /\ Full(MaxFiles - 1)
                        /\ ~torn => \E gap \in DOMAIN logFiles :
                                      \A i \in DOMAIN logFiles \ {gap} : Full(i)
=============================================================================
