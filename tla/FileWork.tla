------------------------------ MODULE FileWork ------------------------------
(***************************************************************************)
(* What the capture queue promises to the rest of the application, with no *)
(* timers, sequences or bookkeeping: an observed change of a file is       *)
(* either withdrawn while it is still settling or handed over; work that   *)
(* was handed over stays owed until an execution that begins later takes   *)
(* it; one file is never worked on twice at once, and at most Concurrency  *)
(* files are worked on together.                                           *)
(***************************************************************************)
EXTENDS Naturals, FiniteSets

CONSTANTS Keys,          (* identity keys of files                           *)
          Concurrency    (* files that may be worked on at the same time     *)

VARIABLES settling,      (* keys with a change that waits for a stable state *)
          owed,          (* keys whose change was handed over for execution  *)
          running        (* keys whose execution is in progress              *)

workVars == <<settling, owed, running>>

Init == settling = {} /\ owed = {} /\ running = {}

(* A change of k is observed, now or again.                                *)
Observe(k) ==
    /\ settling' = settling \cup {k}
    /\ UNCHANGED <<owed, running>>

(* A settling change is withdrawn by the component that caused it.         *)
Withdraw(k) ==
    /\ k \in settling
    /\ settling' = settling \ {k}
    /\ UNCHANGED <<owed, running>>

(* The file counts as stable: from now on the work is owed.                *)
HandOver(k) ==
    /\ k \in settling
    /\ settling' = settling \ {k}
    /\ owed' = owed \cup {k}
    /\ UNCHANGED running

(* An execution begins. Work handed over more than once may stay owed.     *)
Begin(k) ==
    /\ k \in owed \ running
    /\ Cardinality(running) < Concurrency
    /\ running' = running \cup {k}
    /\ owed' \in {owed, owed \ {k}}
    /\ UNCHANGED settling

End(k) ==
    /\ k \in running
    /\ running' = running \ {k}
    /\ UNCHANGED <<settling, owed>>

(* Everything that has not begun is dropped at once.                       *)
DropAll ==
    /\ settling' = {}
    /\ owed' = {}
    /\ UNCHANGED running

Next ==
    \/ \E k \in Keys : Observe(k) \/ Withdraw(k) \/ HandOver(k) \/ Begin(k) \/ End(k)
    \/ DropAll

Spec == Init /\ [][Next]_workVars
=============================================================================
