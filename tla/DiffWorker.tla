----------------------------- MODULE DiffWorker -----------------------------
(***************************************************************************)
(* src/main/diff/diffWorkerClient.ts with the thread it talks to,          *)
(* src/workers/diff/cpuWorker.ts: every diff is computed in a worker       *)
(* thread or, when that goes wrong in any way, in the main process.        *)
(*                                                                         *)
(* A thread that fails is heard of twice: an 'error' event, and an 'exit'  *)
(* event later. A request is what one call of diff() asks for; what the    *)
(* diff says is left out.                                                  *)
(***************************************************************************)
EXTENDS Naturals, FiniteSets, SequencesExt

CONSTANTS
    Requests,      (* calls of diff()                                        *)
    MaxThreads,    (* bound of the model: threads ever started               *)
    MaxFailures    (* bound of the model: threads and starts that fail       *)

ASSUME DiffAssumption ==
    /\ IsFiniteSet(Requests)
    /\ MaxThreads \in Nat
    /\ MaxFailures \in Nat

Threads == 1..MaxThreads

VARIABLES
    current,     (* this.worker: a thread, or 0                              *)
    thread,      (* of each thread: none, live, failing, ending or gone      *)
    inbox,       (* the requests posted to a thread that it has not answered *)
    request,     (* none, pending, fallback or answered                      *)
    disabled,    (* this.disabled                                            *)
    disposed,    (* this.disposed                                            *)
    failures     (* failures so far, against MaxFailures                     *)

diffVars == <<current, thread, inbox, request, disabled, disposed, failures>>

(* Without the file of the worker (workerPath) it is disabled from start.  *)
DiffInit ==
    /\ current = 0
    /\ thread = [w \in Threads |-> "none"]
    /\ inbox = [w \in Threads |-> <<>>]
    /\ request = [r \in Requests |-> "none"]
    /\ disabled \in BOOLEAN
    /\ disposed = FALSE
    /\ failures = 0

Failure == failures < MaxFailures /\ failures' = failures + 1

-----------------------------------------------------------------------------
(* diff, up to its await.                                                  *)
Post(r, w) ==
    /\ request' = [request EXCEPT ![r] = "pending"]
    /\ inbox' = [inbox EXCEPT ![w] = Append(@, r)]

InProcess(r) ==
    /\ request[r] = "none"
    /\ disabled \/ disposed
    /\ request' = [request EXCEPT ![r] = "answered"]
    /\ UNCHANGED <<current, thread, inbox, disabled, disposed, failures>>

(* ensureWorker, with the worker there is or a new one.                    *)
EnsureNew ==
    \E w \in Threads :
        /\ thread[w] = "none" /\ \A v \in Threads : v < w => thread[v] # "none"
        /\ thread' = [thread EXCEPT ![w] = "live"]
        /\ current' = w

EnsureWorker == IF current # 0 THEN UNCHANGED <<current, thread>> ELSE EnsureNew

Diff(r) ==
    /\ request[r] = "none"
    /\ ~disabled /\ ~disposed
    /\ EnsureWorker
    /\ Post(r, current')
    /\ UNCHANGED <<disabled, disposed, failures>>

StartFails(r) ==
    /\ request[r] = "none"
    /\ ~disabled /\ ~disposed /\ current = 0
    /\ Failure
    /\ disabled' = TRUE
    /\ request' = [request EXCEPT ![r] = "answered"]
    /\ UNCHANGED <<current, thread, inbox, disposed>>

-----------------------------------------------------------------------------
(* The thread answers its requests in turn, an exception included, and     *)
(* settle ignores the answer to one that has timed out or failed.          *)
Settle(w) ==
    /\ thread[w] = "live" /\ inbox[w] # <<>>
    /\ inbox' = [inbox EXCEPT ![w] = Tail(@)]
    /\ \E to \in {"answered", "fallback"} :
          request' = [request EXCEPT ![Head(inbox[w])] = IF @ = "pending" THEN to ELSE @]
    /\ UNCHANGED <<current, thread, disabled, disposed, failures>>

(* failAll takes every pending request, whichever thread it was posted to. *)
FailAllSilently ==
    request' = [r \in Requests |-> IF request[r] = "pending" THEN "lost" ELSE request[r]]

FailAll ==
    request' = [r \in Requests |-> IF request[r] = "pending" THEN "fallback" ELSE request[r]]

Fails(w) ==
    /\ thread[w] = "live"
    /\ Failure
    /\ thread' = [thread EXCEPT ![w] = "failing"]
    /\ UNCHANGED <<current, inbox, request, disabled, disposed>>

ErrorEvent(w) ==
    /\ thread[w] = "failing"
    /\ thread' = [thread EXCEPT ![w] = "ending"]
    /\ inbox' = [inbox EXCEPT ![w] = <<>>]
    /\ FailAll
    /\ current' = 0
    /\ UNCHANGED <<disabled, disposed, failures>>

(* The code is not 0 after an error and after terminate().                 *)
ExitEvent(w) ==
    /\ thread[w] = "ending"
    /\ thread' = [thread EXCEPT ![w] = "gone"]
    /\ FailAll
    /\ current' = 0
    /\ UNCHANGED <<inbox, disabled, disposed, failures>>

TimedOut(r) ==
    /\ request[r] = "pending"
    /\ request' = [request EXCEPT ![r] = "fallback"]
    /\ UNCHANGED <<current, thread, inbox, disabled, disposed, failures>>

FallsBack(r) ==
    /\ request[r] = "fallback"
    /\ request' = [request EXCEPT ![r] = "answered"]
    /\ UNCHANGED <<current, thread, inbox, disabled, disposed, failures>>

(* A thread that is already failing has its events sent all the same.      *)
Dispose ==
    /\ ~disposed
    /\ disposed' = TRUE
    /\ current' = 0
    /\ thread' = [w \in Threads |-> IF w = current /\ thread[w] = "live" THEN "ending"
                                    ELSE thread[w]]
    /\ inbox' = [w \in Threads |-> IF w = current THEN <<>> ELSE inbox[w]]
    /\ UNCHANGED <<request, disabled, failures>>

-----------------------------------------------------------------------------
DiffNext ==
    \/ \E r \in Requests : InProcess(r) \/ Diff(r) \/ StartFails(r) \/ TimedOut(r) \/ FallsBack(r)
    \/ \E w \in Threads : Settle(w) \/ Fails(w) \/ ErrorEvent(w) \/ ExitEvent(w)
    \/ Dispose

DiffSpec == DiffInit /\ [][DiffNext]_diffVars

(* Timers fire, promises go on and a thread that has ended is heard of. A  *)
(* thread may compute for ever.                                            *)
DiffFairness ==
    /\ \A r \in Requests : WF_diffVars(TimedOut(r) \/ FallsBack(r))
    /\ \A w \in Threads : WF_diffVars(ErrorEvent(w) \/ ExitEvent(w))

DiffTypeOK ==
    /\ current \in 0..MaxThreads
    /\ thread \in [Threads -> {"none", "live", "failing", "ending", "gone"}]
    /\ \A w \in Threads : inbox[w] # <<>> => thread[w] \in {"live", "failing"}
    /\ request \in [Requests -> {"none", "pending", "fallback", "answered"}]
    /\ current # 0 => thread[current] \in {"live", "failing"} /\ ~disposed

-----------------------------------------------------------------------------
(* Every diff that is asked for is answered (diffWorkerClient.ts:71),      *)
(* though its thread may hang, fail, be replaced or be disposed of, and    *)
(* though the events of one thread reach the requests of another.          *)
DiffsEnd == <>[](\A r \in Requests : request[r] \in {"none", "answered"})
=============================================================================
