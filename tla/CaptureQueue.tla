---------------------------- MODULE CaptureQueue ----------------------------
(***************************************************************************)
(* src/main/capture/captureQueue.ts: the queue that turns a storm of file  *)
(* system events into one task per file per stable state.                  *)
(*                                                                         *)
(* The queue runs on one JavaScript thread. Code between two awaits is     *)
(* atomic; where such a stretch loops (drain's while, flush's for) each    *)
(* iteration is a step and Busy keeps every other action out, so nothing   *)
(* interleaves that the event loop would not interleave.                   *)
(*                                                                         *)
(* Time is relative: left counts down to a timer, age counts up from the   *)
(* first event of a burst and saturates at MaxInterval, which is all that  *)
(* schedule() reads of it. A due timer may fire late: Tick never waits.    *)
(***************************************************************************)
EXTENDS Naturals, Sequences, FiniteSets

CONSTANTS
    Keys,          (* normalizedPath values                                  *)
    Debounces,     (* values debounceMs() may return: a setting, read anew   *)
                   (* on every schedule                                      *)
    DeleteGrace,   (* deleteGraceMs                                          *)
    MaxInterval,   (* maxIntervalMs                                          *)
    Concurrency,   (* concurrency                                            *)
    MaxBacklog     (* bound of the model: events for further files are not   *)
                   (* fed in while that many timers and tasks have not begun *)

ASSUME QueueAssumption ==
    /\ IsFiniteSet(Keys)
    /\ Debounces \subseteq Nat
    /\ DeleteGrace \in Nat
    /\ MaxInterval \in Nat
    /\ Concurrency \in Nat \ {0}
    /\ MaxBacklog \in Nat

None  == "none"
TaskKinds == {"capture", "delete"}
Tasks == [key : Keys, kind : TaskKinds]

VARIABLES
    timer,       (* pending: the kind a key's timer is armed for, or None    *)
    left,        (* ticks until that timer is due                            *)
    age,         (* ticks since firstEventAt of a pending capture            *)
    ready,       (* tasks waiting for a slot                                 *)
    running,     (* keys the queue believes to be in flight                  *)
    requeue,     (* the task to run after the one in flight, or None         *)
    active,      (* slots taken                                              *)
    draining,    (* drain() is on the stack                                  *)
    flushing,    (* keys flush()'s loop has still to promote                 *)
    waiting,     (* a caller of flush() polls idle()                         *)
    execs,       (* run() frames per key that await execute()                *)
    unserved     (* history: keys with an event no execution has begun since *)

timerVars == <<timer, left, age>>
slotVars  == <<running, active, execs>>
queueVars == <<timer, left, age, ready, running, requeue, active, draining,
          flushing, waiting, execs, unserved>>

QueueInit ==
    /\ timer = [k \in Keys |-> None]
    /\ left = [k \in Keys |-> 0]
    /\ age = [k \in Keys |-> 0]
    /\ ready = <<>>
    /\ running = {}
    /\ requeue = [k \in Keys |-> None]
    /\ active = 0
    /\ draining = FALSE
    /\ flushing = {}
    /\ waiting = FALSE
    /\ execs = [k \in Keys |-> 0]
    /\ unserved = {}

-----------------------------------------------------------------------------

(* A synchronous stretch of queue code is on the stack.                    *)
Busy == draining \/ flushing # {}

PendingKeys == {k \in Keys : timer[k] # None}

PendingCountWithoutRunning == Cardinality(PendingKeys) + Len(ready)

PendingCount == Cardinality(PendingKeys) + Len(ready) + Cardinality(running)

(* What has been asked for and not begun.                                  *)
Backlog ==
    Cardinality(PendingKeys) + Len(ready) + Cardinality({k \in Keys : requeue[k] # None})

Has(tasks, k) == \E i \in DOMAIN tasks : tasks[i].key = k

(* The work a key is owed: handed over and not begun.                      *)
Owed(k) == Has(ready, k) \/ requeue[k] # None

Lesser(a, b) == IF a < b THEN a ELSE b

-----------------------------------------------------------------------------
(* The burst of writes goes on only when the kind stays the same.          *)
ElapsedForgotten(k, kind) == 0

Elapsed(k, kind) == IF timer[k] = kind THEN age[k] ELSE 0

(* A capture is never put off beyond MaxInterval after its burst began.    *)
DelayUncapped(kind, delay, elapsed) == delay

EffectiveDelay(kind, delay, elapsed) ==
    IF kind = "capture" THEN Lesser(delay, MaxInterval - elapsed) ELSE delay

(* schedule(): the newest event decides the kind and re-arms the timer.    *)
Schedule(k, kind, delay) ==
    /\ ~Busy
    /\ timer[k] # None \/ Backlog < MaxBacklog
    /\ timer' = [timer EXCEPT ![k] = kind]
    /\ left' = [left EXCEPT ![k] = EffectiveDelay(kind, delay, Elapsed(k, kind))]
    /\ age' = [age EXCEPT ![k] = Elapsed(k, kind)]
    /\ unserved' = unserved \cup {k}
    /\ UNCHANGED <<ready, running, requeue, active, draining, flushing, waiting, execs>>

Touch(k) == \E d \in Debounces : Schedule(k, "capture", d)

MarkDeleted(k) == Schedule(k, "delete", DeleteGrace)

(* Time passes for every armed timer.                                      *)
Tick ==
    /\ PendingKeys # {}
    /\ left' = [k \in Keys |-> IF left[k] > 0 THEN left[k] - 1 ELSE 0]
    /\ age' = [k \in Keys |-> IF timer[k] = "capture" THEN Lesser(age[k] + 1, MaxInterval) ELSE 0]
    /\ UNCHANGED <<timer, ready, running, requeue, active, draining, flushing,
                   waiting, execs, unserved>>

-----------------------------------------------------------------------------
(* A file in flight is not worked on a second time.                        *)
AlwaysMayRun(k) == TRUE

MayRun(k) == k \notin running

(* drain() is entered; it runs to its end before anything else happens.    *)
EnterDrainIfEmpty == draining' = (ready = <<>>)

EnterDrain == draining' = TRUE

(* The two ways a task goes on: parked behind the execution in flight, or  *)
(* queued for the next free slot.                                          *)
ParkNothing(k, kind) == UNCHANGED requeue

Park(k, kind) == requeue' = [requeue EXCEPT ![k] = kind]

(* promote(): the entry leaves pending and its task goes on.               *)
Promote(k) ==
    /\ timer[k] # None
    /\ timer' = [timer EXCEPT ![k] = None]
    /\ left' = [left EXCEPT ![k] = 0]
    /\ age' = [age EXCEPT ![k] = 0]
    /\ \/ /\ ~MayRun(k)
          /\ Park(k, timer[k])
          /\ UNCHANGED <<ready, draining>>
       \/ /\ MayRun(k)
          /\ ready' = Append(ready, [key |-> k, kind |-> timer[k]])
          /\ EnterDrain
          /\ UNCHANGED requeue
    /\ UNCHANGED <<slotVars, waiting, unserved>>

TimerFires(k) ==
    /\ ~Busy
    /\ left[k] = 0
    /\ Promote(k)
    /\ UNCHANGED flushing

(* drain()'s while loop, one iteration: a free slot and a ready task.      *)
SlotFreeOffByOne == active <= Concurrency

SlotFree == active < Concurrency

(* The task's file is in flight: it takes the file's place in requeue.     *)
DrainParks ==
    /\ draining /\ ready # <<>> /\ SlotFree
    /\ ~MayRun(Head(ready).key)
    /\ Park(Head(ready).key, Head(ready).kind)
    /\ ready' = Tail(ready)
    /\ UNCHANGED <<timerVars, slotVars, draining, flushing, waiting, unserved>>

(* The task takes a slot, and its execution begins at once.                *)
TakeSlot(k) ==
    /\ active' = active + 1
    /\ running' = running \cup {k}
    /\ execs' = [execs EXCEPT ![k] = @ + 1]

DrainRuns ==
    /\ draining /\ ready # <<>> /\ SlotFree
    /\ MayRun(Head(ready).key)
    /\ TakeSlot(Head(ready).key)
    /\ unserved' = unserved \ {Head(ready).key}
    /\ ready' = Tail(ready)
    /\ UNCHANGED <<timerVars, requeue, draining, flushing, waiting>>

DrainEnds ==
    /\ draining
    /\ ready = <<>> \/ ~SlotFree
    /\ draining' = FALSE
    /\ UNCHANGED <<timerVars, slotVars, ready, requeue, flushing, waiting, unserved>>

(* run()'s finally block: execute() settled, well or badly. The slot is    *)
(* given back, the parked task becomes ready, and drain() is entered.      *)
GiveSlotBackLate(k) ==
    /\ active' = IF requeue[k] = None THEN active - 1 ELSE active
    /\ running' = running \ {k}
    /\ execs' = [execs EXCEPT ![k] = @ - 1]

GiveSlotBack(k) ==
    /\ active' = active - 1
    /\ running' = running \ {k}
    /\ execs' = [execs EXCEPT ![k] = @ - 1]

Finish(k) ==
    /\ ~Busy
    /\ execs[k] > 0
    /\ GiveSlotBack(k)
    /\ ready' = IF requeue[k] = None THEN ready
                ELSE Append(ready, [key |-> k, kind |-> requeue[k]])
    /\ requeue' = [requeue EXCEPT ![k] = None]
    /\ EnterDrain
    /\ UNCHANGED <<timerVars, flushing, waiting, unserved>>

-----------------------------------------------------------------------------
(* cancel(): forgets a pending entry only; what was promoted goes on.      *)
Cancel(k) ==
    /\ ~Busy
    /\ timer[k] # None
    /\ timer' = [timer EXCEPT ![k] = None]
    /\ left' = [left EXCEPT ![k] = 0]
    /\ age' = [age EXCEPT ![k] = 0]
    /\ unserved' = IF Owed(k) THEN unserved ELSE unserved \ {k}
    /\ UNCHANGED <<ready, running, requeue, active, draining, flushing, waiting, execs>>

(* clear(): everything that has not begun is dropped.                      *)
ClearQueue ==
    /\ ~Busy
    /\ timer' = [k \in Keys |-> None]
    /\ left' = [k \in Keys |-> 0]
    /\ age' = [k \in Keys |-> 0]
    /\ ready' = <<>>
    /\ requeue' = [k \in Keys |-> None]
    /\ unserved' = {}
    /\ UNCHANGED <<slotVars, draining, flushing, waiting>>

(* flush(): every pending key is promoted in one stretch, then the caller  *)
(* polls until the queue looks empty.                                      *)
Flush ==
    /\ ~Busy
    /\ flushing' = PendingKeys
    /\ waiting' = TRUE
    /\ UNCHANGED <<timerVars, slotVars, ready, requeue, draining, unserved>>

FlushPromotes(k) ==
    /\ ~draining
    /\ k \in flushing
    /\ Promote(k)
    /\ flushing' = flushing \ {k}

FlushReturns ==
    /\ ~Busy
    /\ waiting
    /\ PendingCount = 0
    /\ waiting' = FALSE
    /\ UNCHANGED <<timerVars, slotVars, ready, requeue, draining, flushing, unserved>>

-----------------------------------------------------------------------------
Event(k) == Touch(k) \/ MarkDeleted(k)

Drain == DrainParks \/ DrainRuns \/ DrainEnds

QueueNext ==
    \/ \E k \in Keys :
          \/ Touch(k) \/ MarkDeleted(k)
          \/ TimerFires(k) \/ Finish(k)
          \/ Cancel(k) \/ FlushPromotes(k)
    \/ Tick
    \/ DrainParks \/ DrainRuns \/ DrainEnds
    \/ ClearQueue \/ Flush \/ FlushReturns

QueueSpec == QueueInit /\ [][QueueNext]_queueVars

(* A synchronous stretch runs to its end, a caller of flush() polls on and *)
(* time passes; no timer stays due for ever, however many other callbacks  *)
(* the event loop serves before it, and no execution is in flight for ever.*)
TimerDue(k) == timer[k] # None /\ left[k] = 0

QueueFairness ==
    /\ WF_queueVars(Drain)
    /\ WF_queueVars(\E k \in Keys : FlushPromotes(k))
    /\ WF_queueVars(Tick)
    /\ WF_queueVars(FlushReturns)
    /\ \A k \in Keys : []<>~TimerDue(k) /\ []<>(execs[k] = 0)

QueueFairSpec == QueueSpec /\ QueueFairness

-----------------------------------------------------------------------------
QueueTypeOK ==
    /\ timer \in [Keys -> TaskKinds \cup {None}]
    /\ left \in [Keys -> Nat]
    /\ age \in [Keys -> 0..MaxInterval]
    /\ ready \in Seq(Tasks)
    /\ running \in SUBSET Keys
    /\ requeue \in [Keys -> TaskKinds \cup {None}]
    /\ active \in Nat
    /\ draining \in BOOLEAN
    /\ flushing \in SUBSET Keys
    /\ waiting \in BOOLEAN
    /\ execs \in [Keys -> Nat]
    /\ unserved \in SUBSET Keys

(* Work for one file never runs concurrently with itself, and the set that *)
(* says so agrees with the executions that are really in flight.           *)
OneAtATime == \A k \in Keys : execs[k] = (IF k \in running THEN 1 ELSE 0)

(* Slots neither leak nor go idle: the counter is the number of files in   *)
(* flight, stays within the bound, and a ready task waits only for a slot. *)
SlotsUsed ==
    /\ active = Cardinality(running)
    /\ active <= Concurrency
    /\ ~Busy /\ ready # <<>> => active = Concurrency

(* No event is ever forgotten: until an execution of the file begins after *)
(* it, the queue holds a timer or a task for the file.                     *)
NoEventForgotten == \A k \in unserved : timer[k] # None \/ Owed(k)

(* Re-scheduling never moves a capture past MaxInterval after the first    *)
(* event of its burst.                                                     *)
DeadlineKept == \A k \in Keys : timer[k] = "capture" => left[k] + age[k] <= MaxInterval

(* flush() resolves only when every event before has been acted upon: the  *)
(* count it polls leaves the parked tasks out.                             *)
FlushComplete == [][waiting /\ ~waiting' => unserved = {} /\ execs = [k \in Keys |-> 0]]_queueVars

(* An event that does not continue a burst of writes: it re-arms the timer *)
(* from the start.                                                         *)
Postpones(k) ==
    /\ timer[k] # None /\ timer'[k] # None
    /\ timer'[k] # timer[k] \/ (timer[k] = "delete" /\ left'[k] > left[k])

(* Continuous writing cannot starve a file: unless deletes keep arriving   *)
(* before the previous event settled, every event is acted upon.           *)
EventuallyServed ==
    \A k \in Keys : <>[][~Postpones(k)]_queueVars => []<>(k \notin unserved)

(* Once the watcher is silent, as it is after stopping is set, a flush     *)
(* comes to its end.                                                       *)
FlushTerminates ==
    <>[][\A k \in Keys : unserved' \subseteq unserved /\ left'[k] <= left[k]]_queueVars
        => []<>~waiting

(* The queue implements its promise.                                       *)
Work == INSTANCE FileWork WITH
    settling <- PendingKeys,
    owed     <- {k \in Keys : Owed(k)},
    running  <- {k \in Keys : execs[k] > 0}

ImplementsFileWork == Work!Spec
=============================================================================
