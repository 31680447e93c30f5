------------------------- MODULE CaptureQueueProofs -------------------------
(***************************************************************************)
(* For every set of files, every number of slots and every delay: the      *)
(* queue's invariants, the promise of flush(), and that the queue          *)
(* implements FileWork.                                                    *)
(***************************************************************************)
EXTENDS CaptureQueue, FiniteSetTheorems, TLAPS

-----------------------------------------------------------------------------
(* Facts about the ready list.                                             *)

(* Appending a task adds its key and loses none.                           *)
LEMMA HasAppend ==
    ASSUME NEW tasks \in Seq(Tasks), NEW t \in Tasks, NEW k \in Keys
    PROVE  Has(Append(tasks, t), k) <=> Has(tasks, k) \/ t.key = k
<1>1. DOMAIN Append(tasks, t) = 1..(Len(tasks) + 1) /\ DOMAIN tasks = 1..Len(tasks)
  OBVIOUS
<1>2. Append(tasks, t)[Len(tasks) + 1] = t /\ Len(tasks) \in Nat
  OBVIOUS
<1>3. \A i \in 1..Len(tasks) : Append(tasks, t)[i] = tasks[i]
  OBVIOUS
<1>4. CASE Has(tasks, k)
  BY <1>1, <1>2, <1>3, <1>4 DEF Has
<1>5. CASE ~Has(tasks, k)
  BY <1>1, <1>2, <1>3, <1>5 DEF Has
<1> QED BY <1>4, <1>5

(* Taking the first task away loses at most that task's key.               *)
LEMMA HasTail ==
    ASSUME NEW tasks \in Seq(Tasks), tasks # <<>>, NEW k \in Keys, Has(tasks, k)
    PROVE  Has(Tail(tasks), k) \/ Head(tasks).key = k
<1>1. PICK i \in 1..Len(tasks) : tasks[i].key = k
  BY DEF Has
<1>2. CASE i = 1
  BY <1>1, <1>2
<1>3. CASE i # 1
  <2>1. i - 1 \in 1..Len(Tail(tasks)) /\ Tail(tasks)[i - 1] = tasks[i]
    BY <1>3
  <2>2. DOMAIN Tail(tasks) = 1..Len(Tail(tasks))
    OBVIOUS
  <2> QED BY <1>1, <2>1, <2>2 DEF Has
<1> QED BY <1>2, <1>3

(* What drain() takes from the front is a task, and the rest are tasks.    *)
LEMMA HeadTail ==
    ASSUME NEW tasks \in Seq(Tasks), tasks # <<>>
    PROVE  /\ Head(tasks) \in Tasks
           /\ Head(tasks).key \in Keys
           /\ Head(tasks).kind \in TaskKinds
           /\ Tail(tasks) \in Seq(Tasks)
<1>1. Head(tasks) \in Tasks /\ Tail(tasks) \in Seq(Tasks)
  OBVIOUS
<1> QED BY <1>1 DEF Tasks

-----------------------------------------------------------------------------
(* Type correctness.                                                       *)

(* The first state is well typed: every map is empty.                      *)
LEMMA TypeInit == QueueInit => QueueTypeOK
<1> SUFFICES ASSUME QueueInit PROVE QueueTypeOK
  OBVIOUS
<1>1. 0 \in 0..MaxInterval
  BY QueueAssumption
<1>2. ready \in Seq(Tasks)
  BY DEF QueueInit
<1>4. draining \in BOOLEAN /\ waiting \in BOOLEAN
  BY Zenon DEF QueueInit
<1>3. age \in [Keys -> 0..MaxInterval]
  BY <1>1 DEF QueueInit
<1> QED BY <1>2, <1>3, <1>4 DEF QueueInit, QueueTypeOK, None

(* A slot is only given back by an execution that counted it, so QueueTypeOK *)
(* needs the two invariants about slots.                                   *)
LEMMA TypeStep ==
    ASSUME QueueTypeOK, OneAtATime, active = Cardinality(running), [QueueNext]_queueVars
    PROVE  QueueTypeOK'
<1> USE QueueAssumption
<1>1. ASSUME NEW k \in Keys, NEW kind \in TaskKinds, NEW d \in Nat, Schedule(k, kind, d)
      PROVE  QueueTypeOK'
  <2>1. Elapsed(k, kind) \in 0..MaxInterval
    BY DEF Elapsed, QueueTypeOK
  <2>2. EffectiveDelay(kind, d, Elapsed(k, kind)) \in Nat
    BY <2>1 DEF EffectiveDelay, Lesser
  <2> QED BY <1>1, <2>1, <2>2 DEF Schedule, QueueTypeOK
<1>2. ASSUME NEW k \in Keys, Touch(k) PROVE QueueTypeOK'
  BY <1>1, <1>2 DEF Touch, TaskKinds
<1>3. ASSUME NEW k \in Keys, MarkDeleted(k) PROVE QueueTypeOK'
  BY <1>1, <1>3 DEF MarkDeleted, TaskKinds
<1>4. ASSUME NEW k \in Keys, Promote(k), flushing' \in SUBSET Keys PROVE QueueTypeOK'
  <2>1. timer[k] \in TaskKinds
    BY <1>4 DEF Promote, QueueTypeOK
  <2>2. [key |-> k, kind |-> timer[k]] \in Tasks
    BY <2>1 DEF Tasks
  <2>3. /\ timer' \in [Keys -> TaskKinds \cup {None}]
        /\ left' \in [Keys -> Nat]
        /\ age' \in [Keys -> 0..MaxInterval]
    BY <1>4 DEF Promote, QueueTypeOK
  <2>4. ready' \in Seq(Tasks) /\ draining' \in BOOLEAN
    <3>1. CASE UNCHANGED <<ready, draining>>
      BY <3>1 DEF QueueTypeOK
    <3>2. CASE ready' = Append(ready, [key |-> k, kind |-> timer[k]]) /\ EnterDrain
      BY <3>2, <2>2 DEF EnterDrain, QueueTypeOK
    <3> QED BY <1>4, <3>1, <3>2 DEF Promote
  <2>5. requeue' \in [Keys -> TaskKinds \cup {None}]
    BY <1>4, <2>1 DEF Promote, Park, QueueTypeOK
  <2> QED BY <1>4, <2>3, <2>4, <2>5 DEF Promote, slotVars, QueueTypeOK
<1>5. ASSUME NEW k \in Keys, TimerFires(k) PROVE QueueTypeOK'
  BY <1>4, <1>5 DEF TimerFires, QueueTypeOK
<1>6. ASSUME NEW k \in Keys, FlushPromotes(k) PROVE QueueTypeOK'
  BY <1>4, <1>6 DEF FlushPromotes, QueueTypeOK
<1>7. ASSUME NEW k \in Keys, Cancel(k) PROVE QueueTypeOK'
  BY <1>7 DEF Cancel, QueueTypeOK
<1>8. CASE Tick
  BY <1>8 DEF Tick, Lesser, QueueTypeOK
<1>9. CASE DrainParks
  BY <1>9, HeadTail DEF DrainParks, Park, QueueTypeOK, timerVars, slotVars
<1>10. CASE DrainRuns
  BY <1>10, HeadTail DEF DrainRuns, TakeSlot, QueueTypeOK, timerVars
<1>11. CASE DrainEnds
  BY <1>11 DEF DrainEnds, QueueTypeOK, timerVars, slotVars
<1>12. CASE ClearQueue
  BY <1>12 DEF ClearQueue, QueueTypeOK, slotVars
<1>13. CASE Flush
  BY <1>13 DEF Flush, PendingKeys, QueueTypeOK, timerVars, slotVars
<1>14. CASE FlushReturns
  BY <1>14 DEF FlushReturns, QueueTypeOK, timerVars, slotVars
<1>15. CASE UNCHANGED queueVars
  BY <1>15 DEF queueVars, QueueTypeOK
<1>16. ASSUME NEW k \in Keys, Finish(k) PROVE QueueTypeOK'
  <2>1. k \in running
    BY <1>16 DEF Finish, OneAtATime, QueueTypeOK
  <2>2. active - 1 \in Nat
    <3>1. IsFiniteSet(running) /\ running # {}
      BY <2>1, FS_Subset DEF QueueTypeOK
    <3>2. Cardinality(running) \in Nat /\ Cardinality(running) # 0
      BY <3>1, FS_CardinalityType, FS_EmptySet
    <3> QED BY <3>2
  <2>3. ready' \in Seq(Tasks)
    <3>1. CASE requeue[k] = None
      BY <1>16, <3>1 DEF Finish, QueueTypeOK
    <3>2. CASE requeue[k] # None
      <4>1. [key |-> k, kind |-> requeue[k]] \in Tasks
        BY <3>2 DEF QueueTypeOK, Tasks
      <4> QED BY <1>16, <3>2, <4>1 DEF Finish, QueueTypeOK
    <3> QED BY <3>1, <3>2
  <2> QED BY <1>16, <2>2, <2>3 DEF Finish, GiveSlotBack, EnterDrain, QueueTypeOK, timerVars
<1> QED BY <1>16, <1>2, <1>3, <1>5, <1>6, <1>7, <1>8, <1>9, <1>10, <1>11, <1>12, <1>13, <1>14, <1>15 DEF QueueNext

-----------------------------------------------------------------------------
(* Slots.                                                                  *)

(* Only a file in flight has a task parked behind it; finish() therefore   *)
(* finds every parked task.                                                *)
ParkedInFlight == \A k \in Keys : requeue[k] # None => k \in running

(* Outside drain() a ready task waits only because every slot is taken.    *)
NoIdleSlot == ~draining /\ ready # <<>> => active = Concurrency

SlotInv ==
    /\ OneAtATime
    /\ active = Cardinality(running)
    /\ active <= Concurrency
    /\ NoIdleSlot
    /\ ParkedInFlight

(* At the start no slot is taken and nothing is in flight.                 *)
LEMMA SlotInit == QueueInit => SlotInv
<1> SUFFICES ASSUME QueueInit PROVE SlotInv
  OBVIOUS
<1>1. Cardinality(running) = 0
  BY FS_EmptySet DEF QueueInit
<1> QED BY <1>1, QueueAssumption
        DEF QueueInit, SlotInv, OneAtATime, NoIdleSlot, ParkedInFlight, None

(* A step keeps the slots right: the counter moves with the set of files   *)
(* in flight, and drain() leaves nothing ready while a slot is free.       *)
LEMMA SlotStep ==
    ASSUME QueueTypeOK, SlotInv, [QueueNext]_queueVars
    PROVE  SlotInv'
<1> USE QueueAssumption DEF SlotInv
<1> IsFiniteSet(running)
  BY FS_Subset DEF QueueTypeOK
<1> DEFINE Same == UNCHANGED <<running, active, execs, requeue>>
<1>1. ASSUME Same, ready' = ready, draining' = draining PROVE SlotInv'
  BY <1>1 DEF OneAtATime, NoIdleSlot, ParkedInFlight
<1>2. ASSUME NEW k \in Keys, Touch(k) \/ MarkDeleted(k) \/ Cancel(k) PROVE SlotInv'
  BY <1>1, <1>2 DEF Touch, MarkDeleted, Schedule, Cancel
<1>3. ASSUME NEW k \in Keys, Promote(k), ~draining PROVE SlotInv'
  <2>1. UNCHANGED slotVars
    BY <1>3 DEF Promote
  <2>2. OneAtATime' /\ active' = Cardinality(running') /\ active' <= Concurrency
    BY <2>1 DEF slotVars, OneAtATime
  <2>3. NoIdleSlot'
    <3>1. CASE UNCHANGED <<ready, draining>>
      BY <2>1, <3>1 DEF NoIdleSlot, slotVars
    <3>2. CASE EnterDrain
      BY <3>2 DEF EnterDrain, NoIdleSlot
    <3> QED BY <1>3, <3>1, <3>2 DEF Promote
  <2>4. ParkedInFlight'
    <3>1. CASE k \in running /\ Park(k, timer[k])
      BY <2>1, <3>1 DEF Park, ParkedInFlight, slotVars, QueueTypeOK
    <3>2. CASE UNCHANGED requeue
      BY <2>1, <3>2 DEF ParkedInFlight, slotVars
    <3> QED BY <1>3, <3>1, <3>2 DEF Promote, MayRun
  <2> QED BY <2>2, <2>3, <2>4
<1>4. ASSUME NEW k \in Keys, TimerFires(k) \/ FlushPromotes(k) PROVE SlotInv'
  BY <1>3, <1>4 DEF TimerFires, FlushPromotes, Busy
<1>5. ASSUME NEW k \in Keys, Finish(k) PROVE SlotInv'
  <2>1. k \in running
    BY <1>5 DEF Finish, OneAtATime, QueueTypeOK
  <2>2. Cardinality(running \ {k}) = Cardinality(running) - 1 /\ Cardinality(running) \in Nat
    BY <2>1, FS_RemoveElement, FS_CardinalityType
  <2>3. active' = Cardinality(running') /\ active' <= Concurrency
    BY <1>5, <2>2 DEF Finish, GiveSlotBack
  <2>4. OneAtATime'
    BY <1>5, <2>1 DEF Finish, GiveSlotBack, OneAtATime, QueueTypeOK
  <2>5. NoIdleSlot'
    BY <1>5 DEF Finish, EnterDrain, NoIdleSlot
  <2>6. ParkedInFlight'
    BY <1>5 DEF Finish, GiveSlotBack, ParkedInFlight, QueueTypeOK
  <2> QED BY <2>3, <2>4, <2>5, <2>6
<1>6. CASE DrainParks
  <2>1. Head(ready).key \in running /\ Head(ready).key \in Keys
    BY <1>6, HeadTail DEF DrainParks, MayRun, QueueTypeOK
  <2>2. ParkedInFlight'
    BY <1>6, <2>1 DEF DrainParks, Park, ParkedInFlight, slotVars, QueueTypeOK
  <2> QED BY <1>6, <2>2 DEF DrainParks, slotVars, OneAtATime, NoIdleSlot
<1>7. CASE DrainRuns
  <2> DEFINE k == Head(ready).key
  <2>1. k \in Keys /\ k \notin running
    BY <1>7, HeadTail DEF DrainRuns, MayRun, QueueTypeOK
  <2>2. Cardinality(running \cup {k}) = Cardinality(running) + 1 /\ Cardinality(running) \in Nat
    BY <2>1, FS_AddElement, FS_CardinalityType
  <2>3. active' = Cardinality(running') /\ active' <= Concurrency
    BY <1>7, <2>2 DEF DrainRuns, TakeSlot, SlotFree
  <2>4. OneAtATime'
    BY <1>7, <2>1 DEF DrainRuns, TakeSlot, OneAtATime, QueueTypeOK
  <2>5. NoIdleSlot'
    BY <1>7 DEF DrainRuns, NoIdleSlot
  <2>6. ParkedInFlight'
    BY <1>7 DEF DrainRuns, TakeSlot, ParkedInFlight
  <2> QED BY <2>3, <2>4, <2>5, <2>6
<1>8. CASE DrainEnds
  BY <1>8 DEF DrainEnds, SlotFree, slotVars, OneAtATime, NoIdleSlot, ParkedInFlight, QueueTypeOK
<1>9. CASE ClearQueue
  BY <1>9 DEF ClearQueue, slotVars, OneAtATime, NoIdleSlot, ParkedInFlight
<1>10. CASE Tick \/ Flush \/ FlushReturns \/ UNCHANGED queueVars
  BY <1>1, <1>10 DEF Tick, Flush, FlushReturns, slotVars, queueVars
<1> QED BY <1>2, <1>4, <1>5, <1>6, <1>7, <1>8, <1>9, <1>10 DEF QueueNext

-----------------------------------------------------------------------------
(* Deadlines.                                                              *)

(* A step keeps the deadline of every capture: an event re-arms the timer  *)
(* for what is left of the interval, and time moves from left to age.      *)
LEMMA DeadlineStep ==
    ASSUME QueueTypeOK, DeadlineKept, [QueueNext]_queueVars
    PROVE  DeadlineKept'
<1> USE QueueAssumption DEF DeadlineKept
<1>1. ASSUME NEW k \in Keys, NEW kind \in TaskKinds, NEW d \in Nat, Schedule(k, kind, d)
      PROVE  DeadlineKept'
  <2>1. Elapsed(k, kind) \in 0..MaxInterval
    BY DEF Elapsed, QueueTypeOK
  <2>2. kind = "capture" =>
            EffectiveDelay(kind, d, Elapsed(k, kind)) + Elapsed(k, kind) <= MaxInterval
    BY <2>1 DEF EffectiveDelay, Lesser
  <2> QED BY <1>1, <2>1, <2>2 DEF Schedule, QueueTypeOK
<1>2. ASSUME NEW k \in Keys, Touch(k) \/ MarkDeleted(k) PROVE DeadlineKept'
  BY <1>1, <1>2 DEF Touch, MarkDeleted, TaskKinds
<1>3. ASSUME NEW k \in Keys, timer' = [timer EXCEPT ![k] = None],
             left' = [left EXCEPT ![k] = 0], age' = [age EXCEPT ![k] = 0]
      PROVE  DeadlineKept'
  BY <1>3 DEF QueueTypeOK, None
<1>4. ASSUME NEW k \in Keys, TimerFires(k) \/ FlushPromotes(k) \/ Cancel(k)
      PROVE  DeadlineKept'
  BY <1>3, <1>4 DEF TimerFires, FlushPromotes, Promote, Cancel
<1>5. CASE Tick
  <2> SUFFICES ASSUME NEW k \in Keys, timer'[k] = "capture"
               PROVE  left'[k] + age'[k] <= MaxInterval
    OBVIOUS
  <2>1. timer[k] = "capture" /\ left[k] + age[k] <= MaxInterval
    BY <1>5 DEF Tick
  <2>2. left'[k] = IF left[k] > 0 THEN left[k] - 1 ELSE 0
    BY <1>5 DEF Tick
  <2>3. age'[k] = Lesser(age[k] + 1, MaxInterval)
    BY <1>5, <2>1 DEF Tick
  <2>4. left[k] \in Nat /\ age[k] \in 0..MaxInterval
    BY DEF QueueTypeOK
  <2> QED BY <2>1, <2>2, <2>3, <2>4 DEF Lesser
<1>6. CASE ClearQueue
  BY <1>6 DEF ClearQueue, None
<1>7. ASSUME UNCHANGED timerVars PROVE DeadlineKept'
  BY <1>7 DEF timerVars
<1>8. ASSUME NEW k \in Keys, Finish(k) PROVE DeadlineKept'
  BY <1>7, <1>8 DEF Finish
<1>9. CASE Drain \/ Flush \/ FlushReturns \/ UNCHANGED queueVars
  BY <1>7, <1>9
     DEF Drain, DrainParks, DrainRuns, DrainEnds, Flush, FlushReturns, queueVars, timerVars
<1> QED BY <1>2, <1>4, <1>5, <1>6, <1>8, <1>9 DEF QueueNext, Drain

-----------------------------------------------------------------------------
(* No event is forgotten.                                                  *)

(* What a step may do to the work a key is owed without its being begun.   *)
LEMMA OwedAfterPark ==
    ASSUME QueueTypeOK, ready # <<>>, NEW k \in Keys, Owed(k),
           ready' = Tail(ready), Park(Head(ready).key, Head(ready).kind)
    PROVE  Owed(k)'
<1>1. Head(ready).key \in Keys /\ Head(ready).kind \in TaskKinds
  BY HeadTail DEF QueueTypeOK
<1>2. requeue'[Head(ready).key] # None
  BY <1>1 DEF Park, QueueTypeOK, TaskKinds, None
<1>3. CASE k = Head(ready).key
  BY <1>2, <1>3 DEF Owed
<1>4. CASE k # Head(ready).key
  <2>1. requeue'[k] = requeue[k]
    BY <1>4 DEF Park, QueueTypeOK
  <2>2. Has(ready, k) => Has(ready', k)
    BY <1>4, HasTail DEF QueueTypeOK
  <2> QED BY <2>1, <2>2 DEF Owed
<1> QED BY <1>3, <1>4

(* The end of an execution makes the task parked behind it ready.          *)
LEMMA OwedAfterFinish ==
    ASSUME QueueTypeOK, NEW f \in Keys, Finish(f), NEW k \in Keys
    PROVE  Owed(k)' <=> Owed(k)
<1>1. CASE requeue[f] = None
  BY <1>1 DEF Finish, Owed, QueueTypeOK
<1>2. CASE requeue[f] # None
  <2> DEFINE t == [key |-> f, kind |-> requeue[f]]
  <2>1. t \in Tasks /\ t.key = f
    BY <1>2 DEF QueueTypeOK, Tasks
  <2>2. ready' = Append(ready, t)
    BY <1>2 DEF Finish
  <2>3. Has(ready', k) <=> Has(ready, k) \/ k = f
    BY <2>1, <2>2, HasAppend DEF QueueTypeOK
  <2>4. requeue'[k] = IF k = f THEN None ELSE requeue[k]
    BY DEF Finish, QueueTypeOK
  <2> QED BY <1>2, <2>3, <2>4 DEF Owed
<1> QED BY <1>1, <1>2

(* promote() turns an armed timer into owed work and loses none.           *)
LEMMA OwedAfterPromote ==
    ASSUME QueueTypeOK, NEW f \in Keys, Promote(f), NEW k \in Keys
    PROVE  Owed(k)' <=> Owed(k) \/ k = f
<1>1. timer[f] \in TaskKinds /\ timer[f] # None
  BY DEF Promote, QueueTypeOK
<1>2. CASE Park(f, timer[f]) /\ UNCHANGED ready
  BY <1>1, <1>2 DEF Park, Owed, QueueTypeOK
<1>3. CASE ready' = Append(ready, [key |-> f, kind |-> timer[f]]) /\ UNCHANGED requeue
  <2> DEFINE t == [key |-> f, kind |-> timer[f]]
  <2>1. t \in Tasks /\ t.key = f
    BY <1>1 DEF Tasks
  <2>2. Has(ready', k) <=> Has(ready, k) \/ k = f
    BY <1>3, <2>1, HasAppend DEF QueueTypeOK
  <2> QED BY <1>3, <2>2 DEF Owed
<1> QED BY <1>2, <1>3 DEF Promote

(* A step keeps a timer or a task for every file with an unserved event.   *)
LEMMA EventStep ==
    ASSUME QueueTypeOK, QueueTypeOK', NoEventForgotten, [QueueNext]_queueVars
    PROVE  NoEventForgotten'
<1> USE DEF NoEventForgotten
<1> SUFFICES ASSUME NEW k \in unserved'
             PROVE  timer'[k] # None \/ Owed(k)'
  OBVIOUS
<1> k \in Keys
  BY DEF QueueTypeOK
<1>1. ASSUME NEW f \in Keys, Touch(f) \/ MarkDeleted(f) PROVE timer'[k] # None \/ Owed(k)'
  <2>1. PICK kind \in TaskKinds, d \in Nat : Schedule(f, kind, d)
    BY <1>1, QueueAssumption DEF Touch, MarkDeleted, TaskKinds
  <2>2. timer'[k] = IF k = f THEN kind ELSE timer[k]
    BY <2>1 DEF Schedule, QueueTypeOK
  <2>3. Owed(k)' <=> Owed(k)
    BY <2>1 DEF Schedule, Owed
  <2>4. k # f => k \in unserved
    BY <2>1 DEF Schedule
  <2> QED BY <2>2, <2>3, <2>4 DEF TaskKinds, None
<1>2. ASSUME NEW f \in Keys, Promote(f) PROVE timer'[k] # None \/ Owed(k)'
  <2>1. k \in unserved
    BY <1>2 DEF Promote
  <2>2. k # f => timer'[k] = timer[k]
    BY <1>2 DEF Promote, QueueTypeOK
  <2> QED BY <1>2, <2>1, <2>2, OwedAfterPromote
<1>3. ASSUME NEW f \in Keys, TimerFires(f) \/ FlushPromotes(f)
      PROVE  timer'[k] # None \/ Owed(k)'
  BY <1>2, <1>3 DEF TimerFires, FlushPromotes
<1>4. ASSUME NEW f \in Keys, Finish(f) PROVE timer'[k] # None \/ Owed(k)'
  <2>1. k \in unserved /\ timer' = timer
    BY <1>4 DEF Finish, timerVars
  <2> QED BY <1>4, <2>1, OwedAfterFinish
<1>5. ASSUME NEW f \in Keys, Cancel(f) PROVE timer'[k] # None \/ Owed(k)'
  <2>1. Owed(k)' <=> Owed(k)
    BY <1>5 DEF Cancel, Owed
  <2>2. k # f => timer'[k] = timer[k]
    BY <1>5 DEF Cancel, QueueTypeOK
  <2>3. k \in unserved /\ (k = f => Owed(f))
    BY <1>5 DEF Cancel
  <2> QED BY <2>1, <2>2, <2>3
<1>6. CASE DrainParks
  <2>1. k \in unserved /\ timer' = timer
    BY <1>6 DEF DrainParks, timerVars
  <2> QED BY <1>6, <2>1, OwedAfterPark DEF DrainParks
<1>7. CASE DrainRuns
  <2>1. k \in unserved /\ k # Head(ready).key /\ UNCHANGED <<timer, requeue>>
    BY <1>7 DEF DrainRuns, timerVars
  <2>2. Has(ready, k) => Has(ready', k)
    BY <1>7, <2>1, HasTail DEF DrainRuns, QueueTypeOK
  <2> QED BY <2>1, <2>2 DEF Owed
<1>8. ASSUME UNCHANGED <<timer, ready, requeue, unserved>> PROVE timer'[k] # None \/ Owed(k)'
  BY <1>8 DEF Owed
<1>9. CASE Tick \/ DrainEnds \/ Flush \/ FlushReturns \/ UNCHANGED queueVars
  BY <1>8, <1>9 DEF Tick, DrainEnds, Flush, FlushReturns, queueVars, timerVars
<1>10. CASE ClearQueue
  BY <1>10 DEF ClearQueue
<1> QED BY <1>1, <1>3, <1>4, <1>5, <1>6, <1>7, <1>9, <1>10 DEF QueueNext

-----------------------------------------------------------------------------
(* The inductive invariant and what follows from it.                       *)

QueueInv == QueueTypeOK /\ SlotInv /\ DeadlineKept /\ NoEventForgotten

(* The conjunction is inductive: QueueTypeOK needs the slots, and an event is *)
(* kept because every parked task has an execution that will free it.      *)
THEOREM QueueInvariant == QueueSpec => []QueueInv
<1>1. QueueInit => QueueInv
  <2>1. QueueInit => DeadlineKept /\ NoEventForgotten
    BY DEF QueueInit, DeadlineKept, NoEventForgotten, None
  <2> QED BY <2>1, TypeInit, SlotInit DEF QueueInv
<1>2. QueueInv /\ [QueueNext]_queueVars => QueueInv'
  <2> SUFFICES ASSUME QueueInv, [QueueNext]_queueVars PROVE QueueInv'
    OBVIOUS
  <2>1. QueueTypeOK'
    BY TypeStep DEF QueueInv, SlotInv
  <2> QED BY <2>1, SlotStep, DeadlineStep, EventStep DEF QueueInv
<1> QED BY <1>1, <1>2, PTL DEF QueueSpec

(* Every variable keeps its type; in particular the slot counter never     *)
(* drops below zero.                                                       *)
THEOREM TypeCorrect == QueueSpec => []QueueTypeOK
<1>1. QueueInv => QueueTypeOK
  BY DEF QueueInv
<1> QED BY <1>1, QueueInvariant, PTL

(* Work for one file never runs concurrently with itself.                  *)
THEOREM MutualExclusion == QueueSpec => []OneAtATime
<1>1. QueueInv => OneAtATime
  BY DEF QueueInv, SlotInv
<1> QED BY <1>1, QueueInvariant, PTL

(* Slots neither leak nor stay idle while a task is ready.                 *)
THEOREM SlotsAlwaysUsed == QueueSpec => []SlotsUsed
<1>1. QueueInv => SlotsUsed
  BY DEF QueueInv, SlotInv, NoIdleSlot, SlotsUsed, Busy
<1> QED BY <1>1, QueueInvariant, PTL

(* Until an execution begins after it, the queue still holds something     *)
(* that will act on an event.                                              *)
THEOREM EventsKept == QueueSpec => []NoEventForgotten
<1>1. QueueInv => NoEventForgotten
  BY DEF QueueInv
<1> QED BY <1>1, QueueInvariant, PTL

(* Continuous writing never moves a capture past the maximum interval.     *)
THEOREM DeadlinesKept == QueueSpec => []DeadlineKept
<1>1. QueueInv => DeadlineKept
  BY DEF QueueInv
<1> QED BY <1>1, QueueInvariant, PTL

(* The count that flush() polls reaches zero only when nothing is left,    *)
(* although it does not count the parked tasks.                            *)
LEMMA CountZero ==
    ASSUME QueueInv, PendingCount = 0
    PROVE  unserved = {} /\ execs = [k \in Keys |-> 0]
<1> USE QueueAssumption DEF QueueInv
<1>1. IsFiniteSet(PendingKeys) /\ IsFiniteSet(running)
  BY FS_Subset DEF PendingKeys, QueueTypeOK
<1>2. /\ Cardinality(PendingKeys) \in Nat
      /\ Cardinality(running) \in Nat
      /\ Len(ready) \in Nat
  BY <1>1, FS_CardinalityType DEF QueueTypeOK
<1>3. Cardinality(PendingKeys) = 0 /\ Cardinality(running) = 0 /\ Len(ready) = 0
  BY <1>2 DEF PendingCount
<1>4. PendingKeys = {} /\ running = {} /\ ready = <<>>
  BY <1>1, <1>3, FS_EmptySet DEF QueueTypeOK
<1>5. \A k \in Keys : timer[k] = None /\ ~Owed(k)
  BY <1>4 DEF PendingKeys, Owed, Has, SlotInv, ParkedInFlight
<1>6. \A k \in Keys : execs[k] = 0
  BY <1>4 DEF SlotInv, OneAtATime
<1> QED BY <1>5, <1>6 DEF NoEventForgotten, QueueTypeOK

(* A flush that returns has acted on every event.                          *)
THEOREM FlushIsComplete == QueueSpec => FlushComplete
<1>1. ASSUME QueueInv, [QueueNext]_queueVars, waiting, ~waiting'
      PROVE  unserved = {} /\ execs = [k \in Keys |-> 0]
  <2>1. ASSUME UNCHANGED waiting PROVE FALSE
    BY <1>1, <2>1
  <2>2. ASSUME NEW k \in Keys PROVE ~(Touch(k) \/ MarkDeleted(k) \/ TimerFires(k)
                                    \/ Finish(k) \/ Cancel(k) \/ FlushPromotes(k))
    BY <2>1 DEF Touch, MarkDeleted, Schedule, TimerFires, FlushPromotes, Promote, Finish, Cancel
  <2>3. ~(Tick \/ DrainParks \/ DrainRuns \/ DrainEnds \/ ClearQueue \/ UNCHANGED queueVars)
    BY <2>1 DEF Tick, DrainParks, DrainRuns, DrainEnds, ClearQueue, queueVars
  <2>4. ~Flush
    BY <1>1 DEF Flush
  <2>5. FlushReturns
    BY <1>1, <2>2, <2>3, <2>4 DEF QueueNext
  <2> QED BY <1>1, <2>5, CountZero DEF FlushReturns
<1>2. QueueInv /\ [QueueNext]_queueVars =>
         [waiting /\ ~waiting' => unserved = {} /\ execs = [k \in Keys |-> 0]]_queueVars
  BY <1>1
<1> QED BY <1>2, QueueInvariant, PTL DEF QueueSpec, FlushComplete

-----------------------------------------------------------------------------
(* The queue implements FileWork, for every set of files and every number  *)
(* of slots.                                                               *)

InService == {k \in Keys : execs[k] > 0}
OwedKeys == {k \in Keys : Owed(k)}

(* The files with an execution in flight are the files in running.         *)
LEMMA InFlightIsRunning ==
    ASSUME QueueTypeOK, OneAtATime
    PROVE  InService = running
BY DEF InService, OneAtATime, QueueTypeOK

(* FileWork counts with its own instance of FiniteSets.                    *)
LEMMA SameCardinality ==
    ASSUME NEW S
    PROVE  Work!Cardinality(S) = Cardinality(S)
BY DEF Work!Cardinality, Cardinality

(* Every step of the queue is a step of its promise, or a stutter of it.   *)
LEMMA WorkStep ==
    ASSUME QueueInv, QueueInv', [QueueNext]_queueVars
    PROVE  [Work!Next]_Work!workVars
<1> USE DEF QueueInv, SlotInv
<1> DEFINE Moves == [Work!Next]_Work!workVars
<1>1. PendingKeys' = {k \in Keys : timer'[k] # None}
  BY DEF PendingKeys
<1>2. InService = running /\ InService' = running'
  <2>1. InService = running
    BY InFlightIsRunning
  <2>2. InService' = running'
    BY DEF InService, OneAtATime, QueueTypeOK
  <2> QED BY <2>1, <2>2
<1>3. ASSUME UNCHANGED <<timer, ready, requeue, execs>> PROVE Moves
  BY <1>3 DEF Work!workVars, PendingKeys, Owed
<1>4. ASSUME NEW f \in Keys, Touch(f) \/ MarkDeleted(f) PROVE Moves
  <2>1. PendingKeys' = PendingKeys \cup {f}
    BY <1>4 DEF Touch, MarkDeleted, Schedule, PendingKeys, QueueTypeOK, None
  <2>2. OwedKeys' = OwedKeys /\ InService' = InService
    BY <1>4 DEF Touch, MarkDeleted, Schedule, OwedKeys, Owed, InService
  <2>3. Work!Observe(f)
    BY <2>1, <2>2 DEF Work!Observe, OwedKeys, InService
  <2> QED BY <2>3 DEF Work!Next
<1>5. ASSUME NEW f \in Keys, Cancel(f) PROVE Moves
  <2>1. PendingKeys' = PendingKeys \ {f} /\ f \in PendingKeys
    BY <1>5 DEF Cancel, PendingKeys, QueueTypeOK
  <2>2. OwedKeys' = OwedKeys /\ InService' = InService
    BY <1>5 DEF Cancel, OwedKeys, Owed, InService
  <2>3. Work!Withdraw(f)
    BY <2>1, <2>2 DEF Work!Withdraw, OwedKeys, InService
  <2> QED BY <2>3 DEF Work!Next
<1>6. ASSUME NEW f \in Keys, Promote(f) PROVE Moves
  <2>1. PendingKeys' = PendingKeys \ {f} /\ f \in PendingKeys
    BY <1>6 DEF Promote, PendingKeys, QueueTypeOK
  <2>2. OwedKeys' = OwedKeys \cup {f}
    BY <1>6, OwedAfterPromote DEF OwedKeys
  <2>3. InService' = InService
    BY <1>6 DEF Promote, slotVars, InService
  <2>4. Work!HandOver(f)
    BY <2>1, <2>2, <2>3 DEF Work!HandOver, OwedKeys, InService
  <2> QED BY <2>4 DEF Work!Next
<1>7. ASSUME NEW f \in Keys, TimerFires(f) \/ FlushPromotes(f) PROVE Moves
  BY <1>6, <1>7 DEF TimerFires, FlushPromotes
<1>8. ASSUME NEW f \in Keys, Finish(f) PROVE Moves
  <2>1. PendingKeys' = PendingKeys
    BY <1>8 DEF Finish, timerVars, PendingKeys
  <2>2. OwedKeys' = OwedKeys
    BY <1>8, OwedAfterFinish DEF OwedKeys
  <2>3. f \in running /\ running' = running \ {f}
    BY <1>8 DEF Finish, GiveSlotBack, OneAtATime, QueueTypeOK
  <2>4. Work!End(f)
    BY <1>2, <2>1, <2>2, <2>3 DEF Work!End, OwedKeys, InService
  <2> QED BY <2>4 DEF Work!Next
<1>9. CASE DrainParks
  <2>1. \A k \in Keys : Owed(k) => Owed(k)'
    BY <1>9, OwedAfterPark DEF DrainParks
  <2>2. ASSUME NEW k \in Keys, Owed(k)' PROVE Owed(k)
    <3>1. Head(ready).key \in Keys /\ ready = <<Head(ready)>> \o Tail(ready)
      BY <1>9, HeadTail DEF DrainParks, QueueTypeOK
    <3>2. CASE requeue'[k] # None
      <4>1. CASE k = Head(ready).key
        BY <1>9, <4>1 DEF DrainParks, Owed, Has, QueueTypeOK
      <4>2. CASE k # Head(ready).key
        BY <1>9, <3>2, <4>2 DEF DrainParks, Park, Owed, QueueTypeOK
      <4> QED BY <4>1, <4>2
    <3>3. CASE Has(ready', k)
      <4>1. PICK i \in DOMAIN Tail(ready) : Tail(ready)[i].key = k
        BY <1>9, <3>3 DEF DrainParks, Has
      <4>2. i + 1 \in DOMAIN ready /\ ready[i + 1] = Tail(ready)[i]
        BY <1>9, <4>1 DEF DrainParks, QueueTypeOK
      <4> QED BY <4>1, <4>2 DEF Owed, Has
    <3> QED BY <2>2, <3>2, <3>3 DEF Owed
  <2>3. OwedKeys' = OwedKeys
    BY <2>1, <2>2 DEF OwedKeys
  <2>4. PendingKeys' = PendingKeys /\ InService' = InService
    BY <1>9 DEF DrainParks, timerVars, slotVars, PendingKeys, InService
  <2> QED BY <2>3, <2>4 DEF Work!workVars, OwedKeys, InService
<1>10. CASE DrainRuns
  <2> PICK f \in Keys : f = Head(ready).key
    BY <1>10, HeadTail DEF DrainRuns, QueueTypeOK
  <2>1. f \notin running /\ running' = running \cup {f}
    BY <1>10, HeadTail DEF DrainRuns, MayRun, TakeSlot, QueueTypeOK
  <2>2. PendingKeys' = PendingKeys
    BY <1>10 DEF DrainRuns, timerVars, PendingKeys
  <2>3. f \in OwedKeys
    BY <1>10, <2>1 DEF DrainRuns, OwedKeys, Owed, Has, QueueTypeOK
  <2>4. \A k \in Keys \ {f} : Owed(k)' <=> Owed(k)
    <3> SUFFICES ASSUME NEW k \in Keys \ {f} PROVE Has(ready', k) <=> Has(ready, k)
      BY <1>10 DEF DrainRuns, Owed
    <3>1. Has(ready, k) => Has(ready', k)
      BY <1>10, HasTail DEF DrainRuns, QueueTypeOK
    <3>2. ASSUME Has(ready', k) PROVE Has(ready, k)
      <4>1. PICK i \in DOMAIN Tail(ready) : Tail(ready)[i].key = k
        BY <1>10, <3>2 DEF DrainRuns, Has
      <4>2. i + 1 \in DOMAIN ready /\ ready[i + 1] = Tail(ready)[i]
        BY <1>10, <4>1 DEF DrainRuns, QueueTypeOK
      <4> QED BY <4>1, <4>2 DEF Has
    <3> QED BY <3>1, <3>2
  <2>5. OwedKeys' \in {OwedKeys, OwedKeys \ {f}}
    BY <2>3, <2>4 DEF OwedKeys
  <2>6. Cardinality(running) < Concurrency
    BY <1>10 DEF DrainRuns, SlotFree
  <2>7. InService' = InService \cup {f} /\ f \notin InService
    BY <1>2, <2>1
  <2>8. Cardinality(InService) < Concurrency
    BY <1>2, <2>6
  <2>9. f \in OwedKeys \ InService
    BY <2>3, <2>7
  <2>10. Work!Begin(f)
    <3>1. f \in {k \in Keys : Owed(k)} \ {k \in Keys : execs[k] > 0}
      BY <2>9 DEF OwedKeys, InService
    <3>2. Work!Cardinality({k \in Keys : execs[k] > 0}) < Concurrency
      BY <2>8, SameCardinality DEF InService
    <3>3. {k \in Keys : execs[k] > 0}' = {k \in Keys : execs[k] > 0} \cup {f}
      BY <2>7 DEF InService
    <3>4. {k \in Keys : Owed(k)}' \in {{k \in Keys : Owed(k)}, {k \in Keys : Owed(k)} \ {f}}
      BY <2>5 DEF OwedKeys
    <3> QED BY <2>2, <3>1, <3>2, <3>3, <3>4 DEF Work!Begin
  <2> QED BY <2>10 DEF Work!Next
<1>11. CASE ClearQueue
  <2>1. PendingKeys' = {} /\ OwedKeys' = {} /\ InService' = InService
    BY <1>11 DEF ClearQueue, slotVars, PendingKeys, OwedKeys, Owed, Has, InService
  <2>2. Work!DropAll
    BY <2>1 DEF Work!DropAll, OwedKeys, InService
  <2> QED BY <2>2 DEF Work!Next
<1>12. CASE Tick \/ DrainEnds \/ Flush \/ FlushReturns \/ UNCHANGED queueVars
  BY <1>3, <1>12 DEF Tick, DrainEnds, Flush, FlushReturns, queueVars, timerVars, slotVars
<1> QED BY <1>4, <1>5, <1>7, <1>8, <1>9, <1>10, <1>11, <1>12 DEF QueueNext

(* The queue, seen through its settling, owed and running files, does only *)
(* what FileWork allows.                                                   *)
THEOREM QueueImplementsFileWork == QueueSpec => ImplementsFileWork
<1>1. QueueInit => Work!Init
  BY DEF QueueInit, Work!Init, PendingKeys, Owed, Has, None
<1>2. QueueInv /\ QueueInv' /\ [QueueNext]_queueVars => [Work!Next]_Work!workVars
  BY WorkStep
<1> QED BY <1>1, <1>2, QueueInvariant, PTL DEF QueueSpec, ImplementsFileWork, Work!Spec
=============================================================================
