------------------------------ MODULE Renames ------------------------------
(***************************************************************************)
(* The clock beside Tracking: how long the queue waits before it acts on   *)
(* an event and for how long a deletion is held for a rename to claim it.  *)
(* Every step is a step of Tracking, at the time the timers allow; the     *)
(* periodic reconciliation is far away, and reads succeed. Events, reads   *)
(* and commits take less than a tick; what falls due in the same tick runs *)
(* in any order.                                                           *)
(***************************************************************************)
EXTENDS Tracking

CONSTANTS
    Debounce,        (* snapshotDelayMs, a setting                           *)
    DeleteGrace,     (* DELETE_GRACE_MS                                      *)
    ClaimWindow,     (* RENAME_CORRELATION_WINDOW_MS                         *)
    Pace,            (* ticks a user leaves a path alone after touching it   *)
    MaxRush          (* bound of the model: operations of the user where     *)
                     (* there is no clock                                    *)

ASSUME ClockAssumption ==
    /\ Debounce \in Nat
    /\ DeleteGrace \in Nat
    /\ ClaimWindow \in Nat
    /\ Pace \in Nat
    /\ MaxRush \in Nat

VARIABLES
    left,       (* ticks until a path's timer is due                         *)
    heldLeft,   (* ticks until a held deletion expires                       *)
    rest        (* ticks for which the user leaves a path alone              *)

clockVars == <<left, heldLeft, rest>>

Delay(kind) == IF kind = "capture" THEN Debounce ELSE DeleteGrace

(* A deletion stays claimable for the debounce, the grace and the window.  *)
WindowOfClaimOnly == ClaimWindow

Window == Debounce + DeleteGrace + ClaimWindow

TimedInit ==
    /\ Init
    /\ left = [p \in Paths |-> 0]
    /\ heldLeft = [p \in Paths |-> 0]
    /\ rest = [p \in Paths |-> 0]

(* A user who overwrites no file and returns to no path too soon.          *)
TimedUser ==
    /\ UserEdits
    /\ \A p, q \in Paths : disk[p] # None /\ disk'[q] = disk[p] => p = q \/ disk[q] = None
    /\ \A p \in Paths : disk'[p] # disk[p] => rest[p] = 0
    /\ rest' = [p \in Paths |-> IF disk'[p] # disk[p] THEN Pace ELSE rest[p]]
    /\ UNCHANGED <<left, heldLeft>>

TimedNotice(p) ==
    /\ Notice(p)
    /\ left' = [left EXCEPT ![p] = Delay(timer'[p])]
    /\ heldLeft' = IF held' = held THEN heldLeft ELSE [heldLeft EXCEPT ![p] = Window]
    /\ UNCHANGED rest

TimedFire(p) ==
    /\ left[p] = 0
    /\ TimerFires(p)
    /\ UNCHANGED clockVars

(* Some continuations schedule the path anew.                              *)
Reschedules(p) == task[p].step = "back" \/ (task[p].step = "read" /\ disk[p] = None)

TimedContinue(p) ==
    /\ Continue(p)
    /\ left' = IF Reschedules(p) THEN [left EXCEPT ![p] = Delay(timer'[p])] ELSE left
    /\ failures' = failures
    /\ UNCHANGED <<heldLeft, rest>>

(* Time passes when nothing is left to do at this instant.                 *)
Urgent(p) ==
    \/ noticed[p] # disk[p]
    \/ task[p] # Idle
    \/ timer[p] # None /\ left[p] = 0

(* The timer of an entry would drop it. Such an entry is never there for a *)
(* user this slow, see AlwaysDecided.                                      *)
RanOut(p) == held[p] # None /\ heldLeft[p] = 0

Less(n) == IF n = 0 THEN 0 ELSE n - 1

Tick ==
    /\ \A p \in Paths : ~Urgent(p) /\ ~RanOut(p)
    /\ left' = [p \in Paths |-> Less(left[p])]
    /\ heldLeft' = [p \in Paths |-> Less(heldLeft[p])]
    /\ rest' = [p \in Paths |-> Less(rest[p])]
    /\ UNCHANGED vars

TimedNext ==
    \/ TimedUser
    \/ \E p \in Paths : TimedNotice(p) \/ TimedFire(p) \/ TimedContinue(p)
    \/ Tick

followVars == <<vars, clockVars>>

TimedSpec == TimedInit /\ [][TimedNext]_followVars

-----------------------------------------------------------------------------
(* Both in one: a behavior has a clock from the start, or none at all, and *)
(* is then one of Tracking.                                                *)
NoClock == [p \in Paths |-> None]

Timed == rest # NoClock

Untimed(A) ==
    /\ ~Timed
    /\ A
    /\ edits' # edits => edits + failures < MaxRush
    /\ UNCHANGED clockVars

FollowInit ==
    \/ TimedInit
    \/ Init /\ left = NoClock /\ heldLeft = NoClock /\ rest = NoClock

FollowNext == (Timed /\ TimedNext) \/ Untimed(Next)

(* What is urgent is done, and time goes on; without a clock as in         *)
(* Tracking. The user owes nothing.                                        *)
TimePasses ==
    /\ Timed
    /\ (\E p \in Paths : TimedNotice(p) \/ TimedFire(p) \/ TimedContinue(p)) \/ Tick

FollowSpec ==
    /\ FollowInit /\ [][FollowNext]_followVars
    /\ \A p \in Paths :
          /\ WF_followVars(Untimed(Notice(p))) /\ WF_followVars(Untimed(Expire(p)))
          /\ WF_followVars(Untimed(TimerFires(p))) /\ WF_followVars(Untimed(Continue(p)))
    /\ WF_followVars(TimePasses \/ Untimed(Reconcile))

-----------------------------------------------------------------------------
(* A document has one timeline: no two rows were ever captured from the    *)
(* same file last, wherever it was moved and however long the debounce is  *)
(* ("so a claim is still possible", ADR 0004:38).                          *)
OneTimeline == \A f, g \in Used : last[f].ino = last[g].ino => f = g

(* Whichever comes first, the capture at the new path or the decision that *)
(* the old path is gone: a file that is moved never continues in two open  *)
(* timelines. The timeline of the old path moved with it or has ended.     *)
OneOpenTimeline == Timed =>
    \A f, g \in Used \ entombed : last[f].ino = last[g].ino => f = g

(* A held deletion is claimed or decided before its window ends: the task  *)
(* that waits for the grace alone always comes first, so that the debounce *)
(* in the window gives no rename more time.                                *)
AlwaysDecided == \A p \in Paths : ~RanOut(p)

(* Events alone are enough: whenever they have all been acted upon, the    *)
(* store says what the disk says, with no reconciliation to mend it.       *)
ActedUpon == \A p \in Paths :
    noticed[p] = disk[p] /\ timer[p] = None /\ task[p] = Idle

EventsSuffice == Timed /\ ActedUpon => InSync
=============================================================================
