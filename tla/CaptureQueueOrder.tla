-------------------------- MODULE CaptureQueueOrder --------------------------
(***************************************************************************)
(* CaptureQueue with one history variable, to ask whether the last event   *)
(* of a file also has the last word. Cancelling and clearing are left out: *)
(* they withdraw events on purpose.                                        *)
(***************************************************************************)
EXTENDS CaptureQueue

VARIABLE newest    (* the kind of a key's latest event, until an execution of *)
                   (* that kind begins                                        *)

orderVars == <<queueVars, newest>>

OrderInit == QueueInit /\ newest = [k \in Keys |-> None]

Observes(k) ==
    \/ Touch(k) /\ newest' = [newest EXCEPT ![k] = "capture"]
    \/ MarkDeleted(k) /\ newest' = [newest EXCEPT ![k] = "delete"]

Executes ==
    LET task == Head(ready)
    IN  /\ DrainRuns
        /\ newest' = [newest EXCEPT ![task.key] = IF @ = task.kind THEN None ELSE @]

OrderNext ==
    \/ \E k \in Keys : Observes(k)
    \/ Executes
    \/ /\ \/ \E k \in Keys : TimerFires(k) \/ Finish(k) \/ FlushPromotes(k)
          \/ Tick \/ DrainParks \/ DrainEnds \/ Flush \/ FlushReturns
       /\ UNCHANGED newest

OrderSpec == OrderInit /\ [][OrderNext]_orderVars

(* captureQueue.ts:126, "Preserve per-file ordering: run it after the      *)
(* in-flight task finishes": when nothing is left to do for a file, the    *)
(* kind of its latest event is the kind that ran.                          *)
LastEventRuns ==
    \A k \in Keys :
        timer[k] = None /\ ~Owed(k) /\ k \notin running => newest[k] = None
=============================================================================
