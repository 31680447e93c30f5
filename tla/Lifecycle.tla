----------------------------- MODULE Lifecycle -----------------------------
(***************************************************************************)
(* src/main/vault/vaultCoordinator.ts and watcher/watcherService.ts: how   *)
(* tracking is opened, paused, resumed and stopped while an index, a       *)
(* reconciliation, restarts of the watcher and the queue are under way.    *)
(* Every call is cut at its awaits; what stands between two is one step.   *)
(*                                                                         *)
(* A session is what one startTracking creates: a queue, a capture service *)
(* and a WatcherService. A handle is a watcher of the library. Of the      *)
(* folder, dirty says that it is not what the store has of it; what the    *)
(* queue and the captures do in detail is in CaptureQueue and Tracking.    *)
(***************************************************************************)
EXTENDS Naturals, FiniteSets

CONSTANTS
    MaxSessions,    (* bound of the model: sessions started                  *)
    MaxHandles,     (* bound of the model: handles alive at once             *)
    MaxEvents       (* bound of the model: what users, disks and notes do    *)

ASSUME LifecycleAssumption ==
    /\ MaxSessions \in Nat
    /\ MaxHandles \in Nat
    /\ MaxEvents \in Nat

Sessions == 1..MaxSessions
Handles  == 1..MaxHandles

States  == {"stopped", "starting", "indexing", "active", "paused", "degraded", "unavailable"}
Openers == {"launch", "select"}
Stoppers == Openers \cup {"quit"}
Callers == Stoppers \cup {"pause", "resume", "wake"}

VARIABLES
    state,       (* this.state                                               *)
    raised,      (* HealthMonitor.issues, those of the coordinator           *)
    opened,      (* this.vault is set                                        *)
    stopping,    (* this.stopping                                            *)
    session,     (* this.queue, capture and watcher: their session, or 0     *)
    sessions,    (* sessions started so far                                  *)
    ticking,     (* VaultTimers run                                          *)
    blocked,     (* this.capturesBlocked                                     *)
    call,        (* where each caller is, and the session it waits for       *)
    index,       (* runInitialIndex of a session                             *)
    sweep,       (* reconcile: at most one, by this.reconciling              *)
    backlog,     (* the queue of a session                                   *)
    halted,      (* WatcherService.stopped                                   *)
    buffering,   (* WatcherService.buffering                                 *)
    buffered,    (* WatcherService.buffer is not empty                       *)
    watcher,     (* WatcherService.watcher: a handle, or 0                   *)
    closing,     (* restarts that await the close of a handle                *)
    armed,       (* restart timers that will fire                            *)
    known,       (* WatcherService.restartTimer is set                       *)
    owner,       (* the session whose service spawned a live handle, or 0    *)
    scanned,     (* the handle has scanned the folder                        *)
    news,        (* the handle has an event to report                        *)
    dirty,       (* the folder has changed since it was recorded             *)
    underway,    (* an index or a reconciliation went on when pausing ended  *)
    crossed,     (* calls or restarts ran into one another                   *)
    events       (* what has happened so far, against MaxEvents              *)

history     == <<underway, crossed>>
callVars    == <<call, index, sweep, history>>
serviceVars == <<halted, buffering, buffered, watcher, closing, armed, known>>
handleVars  == <<owner, scanned, news>>
worldVars   == <<dirty, events>>
flags       == <<opened, stopping, session, sessions, ticking, blocked>>
stateVars   == <<state, raised, flags>>
lifecycleVars == <<stateVars, callVars, backlog, serviceVars, handleVars, worldVars>>

LifecycleInit ==
    /\ state = "stopped" /\ raised = {} /\ opened = FALSE /\ stopping = FALSE
    /\ session = 0 /\ sessions = 0 /\ ticking = FALSE /\ blocked = FALSE
    /\ call = [c \in Callers |-> [step |-> "idle", at |-> 0]]
    /\ index = [s \in Sessions |-> "none"]
    /\ sweep = "none" /\ underway = FALSE /\ crossed = FALSE
    /\ backlog = [s \in Sessions |-> "empty"]
    /\ halted = [s \in Sessions |-> TRUE]
    /\ buffering = [s \in Sessions |-> TRUE]
    /\ buffered = [s \in Sessions |-> FALSE]
    /\ watcher = [s \in Sessions |-> 0]
    /\ closing = [s \in Sessions |-> 0]
    /\ armed = [s \in Sessions |-> 0]
    /\ known = [s \in Sessions |-> FALSE]
    /\ owner = [h \in Handles |-> 0]
    /\ scanned = [h \in Handles |-> FALSE]
    /\ news = [h \in Handles |-> FALSE]
    /\ dirty = FALSE /\ events = 0

-----------------------------------------------------------------------------
At(step, s) == [step |-> step, at |-> s]
Goes(c, step, s) == call' = [call EXCEPT ![c] = At(step, s)]

Happens == events < MaxEvents /\ events' = events + 1

(* HealthMonitor.raise and clear                                           *)
Raise(issues) == raised' = raised \cup issues
Clear(issues) == raised' = raised \ issues

(* setState: raises the issue of the new state and clears those of others. *)
Issues(st) ==
    CASE st = "paused"      -> {"tracking_paused"}
      [] st = "stopped"     -> {"tracking_stopped"}
      [] st = "unavailable" -> {"vault_unavailable"}
      [] OTHER              -> {}

SetState(st) ==
    /\ state' = st
    /\ raised' = IF st = state THEN raised
                 ELSE (raised \ UNION {Issues(other) : other \in States \ {st}}) \cup Issues(st)

KeepState == UNCHANGED <<state, raised>>

(* VaultTimers.start replaces the timers there are.                        *)
StartTimers == ticking' = TRUE
StopTimers  == ticking' = FALSE

(* What HealthMonitor.checkDiskSpace shows.                                *)
ShowSpace(low) ==
    IF low THEN Raise({"disk_space_low"}) ELSE Clear({"disk_space_low"})

(* onEvent with an event for the queue of the current session.             *)
Admits == session # 0 /\ state # "paused" /\ ~stopping

Touched(q) == IF q \in {"running", "rerun"} THEN "rerun" ELSE "waiting"

TouchIf(event) ==
    backlog' = IF event /\ Admits THEN [backlog EXCEPT ![session] = Touched(@)] ELSE backlog

(* reconcile, called while the state is st.                                *)
StartSweepIfActive(st) ==
    sweep' = IF session # 0 /\ sweep = "none" /\ ~stopping /\ st = "active" THEN "stat" ELSE sweep

StartSweep(st) ==
    sweep' = IF session # 0 /\ sweep = "none" /\ ~stopping /\ st # "paused" THEN "stat" ELSE sweep

(* A watcher of the library is created for session s.                      *)
Spawn(s) ==
    \E h \in Handles :
        /\ owner[h] = 0 /\ \A g \in Handles : g < h => owner[g] # 0
        /\ owner' = [owner EXCEPT ![h] = s]
        /\ watcher' = [watcher EXCEPT ![s] = h]
        /\ UNCHANGED <<scanned, news>>

(* closeWatcher: the handle is deaf at once, close() answers later.        *)
CloseButKeep(s) ==
    /\ UNCHANGED watcher
    /\ owner' = [h \in Handles |-> IF h = watcher[s] THEN 0 ELSE owner[h]]
    /\ scanned' = [h \in Handles |-> scanned[h] /\ h # watcher[s]]
    /\ news' = [h \in Handles |-> news[h] /\ h # watcher[s]]

Close(s) ==
    /\ watcher' = [watcher EXCEPT ![s] = 0]
    /\ owner' = [h \in Handles |-> IF h = watcher[s] THEN 0 ELSE owner[h]]
    /\ scanned' = [h \in Handles |-> scanned[h] /\ h # watcher[s]]
    /\ news' = [h \in Handles |-> news[h] /\ h # watcher[s]]

-----------------------------------------------------------------------------
(* stopTracking, for openVault and for quit.                               *)
Stopped(c) ==
    /\ session' = 0
    /\ SetState("stopped")
    /\ Goes(c, IF c = "quit" THEN "done" ELSE "stat", 0)
    /\ underway' = (underway \/ sweep # "none")

Opening(c) == call[c].step \in {"flush", "closing", "stat"}

BeginStop(c) ==
    /\ call[c].step = "idle"
    /\ c = "quit" => call["launch"].step = "done"
    /\ c \in Openers => sessions + Cardinality({o \in Openers : Opening(o)}) < MaxSessions
    /\ IF c # "launch" THEN Happens ELSE UNCHANGED events
    /\ stopping' = TRUE /\ StopTimers
    /\ crossed' = (crossed \/ \E o \in Stoppers : Opening(o))
    /\ IF session = 0 THEN Stopped(c)
       ELSE Goes(c, "flush", session) /\ KeepState /\ UNCHANGED <<session, underway>>
    /\ UNCHANGED <<opened, sessions, blocked, index, sweep, backlog, serviceVars, handleVars,
                   dirty>>

(* A restart of the watcher of s awaits the close of a handle.             *)
Restarting(s) == s # 0 /\ (call["wake"] = At("closing", s) \/ closing[s] > 0)

(* The flush of the queue that was current at the call returns.            *)
FlushedAnyway(c) == call[c].step = "flush"

Flushed(c) == call[c].step = "flush" /\ backlog[call[c].at] = "empty"

(* Only the timer that restartTimer names.                                 *)
KeepTimer(s) == UNCHANGED <<armed, known>>

ClearTimer(s) ==
    /\ armed' = [armed EXCEPT ![s] = IF known[s] THEN @ - 1 ELSE @]
    /\ known' = [known EXCEPT ![s] = FALSE]

(* watcher.stop() of the session that is current now.                      *)
StopFlushed(c) ==
    /\ Flushed(c)
    /\ IF session = 0
       THEN Stopped(c) /\ UNCHANGED <<serviceVars, handleVars>>
       ELSE /\ halted' = [halted EXCEPT ![session] = TRUE]
            /\ ClearTimer(session)
            /\ buffering' = [buffering EXCEPT ![session] = TRUE]
            /\ buffered' = [buffered EXCEPT ![session] = FALSE]
            /\ Close(session)
            /\ IF watcher[session] = 0 THEN Stopped(c)
               ELSE Goes(c, "closing", session) /\ KeepState /\ UNCHANGED <<session, underway>>
            /\ UNCHANGED closing
    /\ crossed' = (crossed \/ Restarting(session))
    /\ UNCHANGED <<opened, stopping, sessions, ticking, blocked, index, sweep, backlog,
                   worldVars>>

CloseReturns(c) ==
    /\ call[c].step = "closing"
    /\ Stopped(c)
    /\ UNCHANGED <<opened, stopping, sessions, ticking, blocked, index, sweep, crossed, backlog,
                   serviceVars, handleVars, worldVars>>

-----------------------------------------------------------------------------
(* openVault once the folder has been looked at; startTracking, the spawn  *)
(* included, awaits nothing.                                               *)
OpenReturns(c) == Goes(c, IF c = "launch" THEN "done" ELSE "idle", 0)

OpenUnavailable(c) ==
    /\ call[c].step = "stat"
    /\ Happens
    /\ opened' = TRUE
    /\ SetState("unavailable")
    /\ OpenReturns(c)
    /\ UNCHANGED <<stopping, session, sessions, ticking, blocked, index, sweep, history, backlog,
                   serviceVars, handleVars, dirty>>

StartTracking(c) ==
    /\ call[c].step = "stat" /\ sessions < MaxSessions
    /\ opened' = TRUE
    /\ stopping' = FALSE
    /\ SetState("indexing")
    /\ sessions' = sessions + 1 /\ session' = sessions + 1
    /\ halted' = [halted EXCEPT ![sessions + 1] = FALSE]
    /\ Spawn(sessions + 1)
    /\ index' = [index EXCEPT ![sessions + 1] = "scan"]
    /\ StartTimers
    /\ OpenReturns(c)
    /\ UNCHANGED <<blocked, sweep, history, backlog, buffering, buffered, closing, armed, known,
                   worldVars>>

(* Nothing to resume at launch.                                            *)
LaunchEmpty ==
    /\ call["launch"].step = "idle"
    /\ Goes("launch", "done", 0)
    /\ UNCHANGED <<stateVars, index, sweep, history, backlog, serviceVars, handleVars, worldVars>>

-----------------------------------------------------------------------------
(* runInitialIndex of session s, with its own capture service.             *)
IndexVisits(s) ==
    /\ index[s] = "scan"
    /\ index' = [index EXCEPT ![s] = "visited"]
    /\ dirty' = (dirty /\ stopping)
    /\ UNCHANGED <<stateVars, call, sweep, history, backlog, serviceVars, handleVars, events>>

(* this.watcher?.releaseBuffer(), whichever session the watcher is of.     *)
ReleaseBufferUnlessPaused ==
    IF session = 0 \/ state = "paused" THEN UNCHANGED <<buffering, buffered, backlog>>
    ELSE /\ buffering' = [buffering EXCEPT ![session] = FALSE]
         /\ buffered' = [buffered EXCEPT ![session] = FALSE]
         /\ TouchIf(buffered[session])

ReleaseBuffer ==
    IF session = 0 THEN UNCHANGED <<buffering, buffered, backlog>>
    ELSE /\ buffering' = [buffering EXCEPT ![session] = FALSE]
         /\ buffered' = [buffered EXCEPT ![session] = FALSE]
         /\ TouchIf(buffered[session])

StateAfterIndexUnlessPaused == IF state = "paused" THEN state ELSE "active"

StateAfterIndex == IF stopping \/ state = "paused" THEN state ELSE "active"

IndexEnds(s) ==
    /\ index[s] = "visited"
    /\ index' = [index EXCEPT ![s] = "done"]
    /\ ReleaseBuffer
    /\ SetState(StateAfterIndex)
    /\ UNCHANGED <<flags, call, sweep, history, halted, watcher, closing, armed, known,
                   handleVars, worldVars>>

(* An exception, say of a full disk: nobody catches it.                    *)
IndexThrows(s) ==
    /\ index[s] = "scan"
    /\ Happens
    /\ index' = [index EXCEPT ![s] = "thrown"]
    /\ UNCHANGED <<stateVars, call, sweep, history, backlog, serviceVars, handleVars, dirty>>

-----------------------------------------------------------------------------
(* reconcile by a timer, the user or the end of the screen lock.           *)
Reconcile ==
    /\ sweep = "none"
    /\ StartSweep(state)
    /\ UNCHANGED <<stateVars, call, index, history, backlog, serviceVars, handleVars, worldVars>>

SweepLooks ==
    /\ sweep = "stat"
    /\ sweep' = "visit"
    /\ SetState(IF state = "unavailable" THEN "active" ELSE state)
    /\ UNCHANGED <<flags, call, index, history, backlog, serviceVars, handleVars, worldVars>>

(* reconcile returns; a resumeTracking that waits for it goes on.          *)
Reconciling == call["resume"].step = "sweep"

SweepReturns(st) ==
    /\ sweep' = "none"
    /\ SetState(IF Reconciling THEN "active" ELSE st)
    /\ IF Reconciling THEN Goes("resume", "idle", 0) ELSE UNCHANGED call
    /\ UNCHANGED <<flags, index, history, backlog, serviceVars, handleVars>>

SweepEnds ==
    sweep = "visit" /\ SweepReturns(state) /\ dirty' = (dirty /\ stopping) /\ UNCHANGED events

(* The folder is not there, or an exception is caught.                     *)
SweepFindsNoFolder == sweep = "stat" /\ Happens /\ SweepReturns("unavailable") /\ UNCHANGED dirty
SweepThrows == sweep = "visit" /\ Happens /\ SweepReturns(state) /\ UNCHANGED dirty

(* checkDiskSpace, a timer's call, answers otherwise than the last time.   *)
DiskChecked ==
    /\ sessions > 0
    /\ IF blocked THEN UNCHANGED events ELSE Happens
    /\ blocked' = ~blocked
    /\ IF blocked THEN StartSweep(state) ELSE UNCHANGED sweep
    /\ ShowSpace(~blocked)
    /\ UNCHANGED <<state, opened, stopping, session, sessions, ticking, call, index, history,
                   backlog, serviceVars, handleVars, dirty>>

-----------------------------------------------------------------------------
Paused(s) ==
    /\ SetState("paused")
    /\ underway' = (underway \/ session = 0 \/ session # s \/ sweep # "none"
                    \/ \E i \in Sessions : index[i] = "scan")
    /\ Goes("pause", "idle", 0)

Pause ==
    /\ opened /\ call["pause"].step = "idle"
    /\ Happens
    /\ IF session = 0 THEN Paused(0)
       ELSE Goes("pause", "flush", session) /\ KeepState /\ UNCHANGED underway
    /\ UNCHANGED <<flags, index, sweep, crossed, backlog, serviceVars, handleVars, dirty>>

PauseReturns ==
    /\ Flushed("pause")
    /\ Paused(call["pause"].at)
    /\ UNCHANGED <<flags, index, sweep, crossed, backlog, serviceVars, handleVars, worldVars>>

(* resumeTracking waits for its own reconciliation, if it may start one.   *)
Resume ==
    /\ opened /\ state = "paused" /\ call["resume"].step = "idle"
    /\ StartSweep("indexing")
    /\ SetState(IF sweep' = sweep THEN "active" ELSE "indexing")
    /\ IF sweep' = sweep THEN UNCHANGED call ELSE Goes("resume", "sweep", 0)
    /\ UNCHANGED <<flags, index, history, backlog, serviceVars, handleVars, worldVars>>

(* handleSystemWake: forceRestart, then reconcile.                         *)
Wake ==
    /\ call["launch"].step = "done" /\ call["wake"].step = "idle"
    /\ session # 0 /\ ~halted[session] /\ watcher[session] # 0
    /\ Happens
    /\ Close(session)
    /\ Goes("wake", "closing", session)
    /\ UNCHANGED <<stateVars, index, sweep, history, backlog, halted, buffering, buffered,
                   closing, armed, known, dirty>>

(* Between a failure and the restart there is no handle to close.          *)
WakeSpawns ==
    /\ \/ call["wake"].step = "closing" /\ Spawn(call["wake"].at) /\ UNCHANGED events
       \/ /\ call["wake"].step = "idle" /\ call["launch"].step = "done"
          /\ session # 0 /\ ~halted[session] /\ watcher[session] = 0
          /\ Happens /\ Spawn(session)
    /\ Goes("wake", "idle", 0)
    /\ StartSweep(state)
    /\ crossed' = (crossed \/ (session # 0 /\ armed[session] + closing[session] > 0))
    /\ UNCHANGED <<stateVars, index, underway, backlog, halted, buffering, buffered, closing,
                   armed, known, dirty>>

-----------------------------------------------------------------------------
(* Somebody changes a note; handles that are ready will hear of it.        *)
Change ==
    /\ Happens
    /\ dirty' = TRUE
    /\ news' = [h \in Handles |-> scanned[h]]
    /\ UNCHANGED <<stateVars, callVars, backlog, serviceVars, owner, scanned>>

HandleReady(h) ==
    /\ owner[h] # 0 /\ ~scanned[h]
    /\ scanned' = [scanned EXCEPT ![h] = TRUE]
    /\ Clear({"watcher_restarting"})
    /\ IF state = "degraded" THEN state' = "active" /\ StartSweep("active")
       ELSE UNCHANGED <<state, sweep>>
    /\ UNCHANGED <<flags, call, index, history, backlog, serviceVars, owner, news, worldVars>>

(* emit and onEvent                                                        *)
Deliver(h) ==
    /\ news[h]
    /\ news' = [news EXCEPT ![h] = FALSE]
    /\ buffered' = IF buffering[owner[h]] THEN [buffered EXCEPT ![owner[h]] = TRUE] ELSE buffered
    /\ TouchIf(~buffering[owner[h]])
    /\ UNCHANGED <<stateVars, callVars, halted, buffering, watcher, closing, armed, known, owner,
                   scanned, worldVars>>

(* restart closes the current handle of the service, whichever has failed. *)
HandleFails(h) ==
    /\ owner[h] # 0 /\ ~halted[owner[h]]
    /\ Happens
    /\ state' = "degraded"
    /\ raised' = (raised \cap {"disk_space_low"}) \cup {"watcher_restarting"}
    /\ Close(owner[h])
    /\ LET s == owner[h]  there == watcher[s] # 0 IN
       /\ closing' = IF there THEN [closing EXCEPT ![s] = @ + 1] ELSE closing
       /\ armed' = IF there THEN armed ELSE [armed EXCEPT ![s] = @ + 1]
       /\ known' = IF there THEN known ELSE [known EXCEPT ![s] = TRUE]
    /\ UNCHANGED <<flags, callVars, backlog, halted, buffering, buffered, dirty>>

RestartArmsIfDegraded(s) ==
    /\ closing[s] > 0
    /\ closing' = [closing EXCEPT ![s] = @ - 1]
    /\ IF state = "degraded"
       THEN armed' = [armed EXCEPT ![s] = @ + 1] /\ known' = [known EXCEPT ![s] = TRUE]
       ELSE UNCHANGED <<armed, known>>
    /\ UNCHANGED <<stateVars, callVars, backlog, halted, buffering, buffered, watcher, handleVars,
                   worldVars>>

RestartArms(s) ==
    /\ closing[s] > 0
    /\ closing' = [closing EXCEPT ![s] = @ - 1]
    /\ armed' = [armed EXCEPT ![s] = @ + 1]
    /\ known' = [known EXCEPT ![s] = TRUE]
    /\ UNCHANGED <<stateVars, callVars, backlog, halted, buffering, buffered, watcher, handleVars,
                   worldVars>>

RestartSpawns(s) ==
    /\ armed[s] > 0
    /\ armed' = [armed EXCEPT ![s] = @ - 1]
    /\ known' = [known EXCEPT ![s] = FALSE]
    /\ Spawn(s)
    /\ UNCHANGED <<stateVars, callVars, backlog, halted, buffering, buffered, closing, worldVars>>

-----------------------------------------------------------------------------
(* The queue hands a task to executeTask, which needs a capture service.   *)
TaskStartsUnlessBlocked(s) ==
    /\ backlog[s] = "waiting" /\ ~blocked
    /\ backlog' = [backlog EXCEPT ![s] = IF session = 0 THEN "empty" ELSE "running"]
    /\ UNCHANGED <<stateVars, callVars, serviceVars, handleVars, worldVars>>

TaskStarts(s) ==
    /\ backlog[s] = "waiting"
    /\ backlog' = [backlog EXCEPT ![s] = IF session = 0 \/ blocked THEN "empty" ELSE "running"]
    /\ UNCHANGED <<stateVars, callVars, serviceVars, handleVars, worldVars>>

TaskEnds(s) ==
    /\ backlog[s] \in {"running", "rerun"}
    /\ backlog' = [backlog EXCEPT ![s] = IF @ = "rerun" THEN "waiting" ELSE "empty"]
    /\ dirty' = FALSE
    /\ UNCHANGED <<stateVars, callVars, serviceVars, handleVars, events>>

-----------------------------------------------------------------------------
Exited == call["quit"].step = "done"

LifecycleNext ==
    /\ ~Exited
    /\ \/ \E c \in Stoppers : BeginStop(c) \/ StopFlushed(c) \/ CloseReturns(c)
       \/ \E c \in Openers : OpenUnavailable(c) \/ StartTracking(c)
       \/ LaunchEmpty
       \/ \E s \in Sessions : IndexVisits(s) \/ IndexEnds(s) \/ IndexThrows(s)
       \/ Reconcile \/ SweepLooks \/ SweepEnds \/ SweepFindsNoFolder \/ SweepThrows
       \/ DiskChecked
       \/ Pause \/ PauseReturns \/ Resume \/ Wake \/ WakeSpawns
       \/ Change
       \/ \E h \in Handles : HandleReady(h) \/ Deliver(h) \/ HandleFails(h)
       \/ \E s \in Sessions : RestartArms(s) \/ RestartSpawns(s) \/ TaskStarts(s) \/ TaskEnds(s)

LifecycleSpec == LifecycleInit /\ [][LifecycleNext]_lifecycleVars

(* What the event loop, the timers and the file system see through. Nobody *)
(* has to call, to change a note or to fail.                               *)
LifecycleFairness ==
    /\ \A c \in Stoppers :
          /\ WF_lifecycleVars(~Exited /\ StopFlushed(c))
          /\ WF_lifecycleVars(~Exited /\ CloseReturns(c))
    /\ \A c \in Openers : WF_lifecycleVars(~Exited /\ StartTracking(c))
    /\ \A s \in Sessions :
          /\ WF_lifecycleVars(~Exited /\ (IndexVisits(s) \/ IndexEnds(s)))
          /\ WF_lifecycleVars(~Exited /\ (RestartArms(s) \/ RestartSpawns(s)))
          /\ WF_lifecycleVars(~Exited /\ (TaskStarts(s) \/ TaskEnds(s)))
    /\ \A h \in Handles : WF_lifecycleVars(~Exited /\ (HandleReady(h) \/ Deliver(h)))
    /\ WF_lifecycleVars(~Exited /\ ticking /\ Reconcile)
    /\ WF_lifecycleVars(~Exited /\ (SweepLooks \/ SweepEnds))
    /\ WF_lifecycleVars(~Exited /\ PauseReturns)
    /\ WF_lifecycleVars(~Exited /\ WakeSpawns /\ call["wake"].step = "closing")

LifecycleTypeOK ==
    /\ state \in States
    /\ raised \subseteq (UNION {Issues(st) : st \in States})
                    \cup {"watcher_restarting", "disk_space_low"}
    /\ opened \in BOOLEAN /\ stopping \in BOOLEAN
    /\ session \in 0..MaxSessions /\ sessions \in 0..MaxSessions
    /\ ticking \in BOOLEAN /\ blocked \in BOOLEAN /\ underway \in BOOLEAN
    /\ call \in [Callers -> [step : {"idle", "flush", "closing", "stat", "sweep", "done"},
                            at : 0..MaxSessions]]
    /\ index \in [Sessions -> {"none", "scan", "visited", "done", "thrown"}]
    /\ sweep \in {"none", "stat", "visit"}
    /\ backlog \in [Sessions -> {"empty", "waiting", "running", "rerun"}]
    /\ watcher \in [Sessions -> 0..MaxHandles] /\ owner \in [Handles -> 0..MaxSessions]
    /\ \A s \in Sessions : armed[s] \in Nat /\ closing[s] \in Nat
    /\ \A s \in Sessions : watcher[s] # 0 => owner[watcher[s]] = s
    /\ \A s \in Sessions : known[s] => armed[s] > 0

-----------------------------------------------------------------------------
(* Every watcher of the library that still reports is the one the current  *)
(* service will close (watcherService.ts:127,131), as long as no openVault *)
(* or quit ran into another and no restart into a stop or another restart. *)
OneWatcher ==
    ~crossed => \A h \in Handles : owner[h] # 0 => owner[h] = session /\ watcher[session] = h

(* When the process exits, no capture is left in a queue (main.ts:216), as *)
(* long as no vault was selected while it was quitting.                    *)
QuitDrains == Exited /\ ~crossed => \A s \in Sessions : backlog[s] = "empty"

(* Three of the conditions that keep changes from being captured are shown *)
(* however calls and failures overlap. A folder that no session follows is *)
(* shown as stopped, paused or unavailable (vaultCoordinator.ts:94-115),   *)
(* unless calls crossed, a reconciliation or a pause went on beyond the    *)
(* stop or there was nothing to pause. A lost watcher is shown until       *)
(* another one is ready (251), unless calls crossed. Captures dropped for  *)
(* want of space are shown beside either (451).                            *)
UnfollowedIsShown ==
    opened /\ session = 0 /\ ~underway =>
        raised \cap {"tracking_stopped", "tracking_paused", "vault_unavailable"} # {}

LossIsShown ==
    session # 0 /\ watcher[session] = 0 /\ ~halted[session] /\ call["wake"].step # "closing" =>
        "watcher_restarting" \in raised

IssuesFollowState ==
    /\ ~crossed => UnfollowedIsShown /\ LossIsShown
    /\ blocked => "disk_space_low" \in raised

(* Every condition that stops changes from being captured is surfaced      *)
(* (healthMonitor.ts:4): with no call, index, reconciliation or restart    *)
(* under way, a folder whose events reach no queue has an issue.           *)
UnderWay ==
    \/ \E c \in Callers : call[c].step \notin {"idle", "done"}
    \/ sweep # "none"
    \/ \E s \in Sessions : index[s] \in {"scan", "visited"} \/ armed[s] + closing[s] > 0

Deaf == session = 0 \/ watcher[session] = 0 \/ buffering[session] \/ state = "paused" \/ blocked

StopsAreShown == opened /\ ~UnderWay /\ Deaf => raised # {}

(* Nothing is recorded while the state is paused (vaultCoordinator.ts:301, *)
(* 236, 404), unless an index or a reconciliation went on when pausing     *)
(* ended, or calls crossed.                                                *)
PauseHolds == [][state = "paused" /\ ~underway /\ ~crossed /\ dirty => dirty']_lifecycleVars

(* The same without exception: what the state and its issue tell the user  *)
(* (vaultCoordinator.ts:103, shared/copy.ts:12).                           *)
PausedRecordsNothing == [][state = "paused" /\ dirty => dirty']_lifecycleVars

(* A change is recorded in the end, whatever the watcher missed while it   *)
(* was not ready, failed or was replaced and however a reconciliation      *)
(* ended (vaultCoordinator.ts:282,437), as long as tracking goes on.       *)
Following == session # 0 /\ state # "paused" /\ ~stopping /\ ~blocked

EventuallyRecorded == []<>(~dirty \/ ~Following)

(* The buffer of a session is released in the end, however its index and   *)
(* that of an earlier session overlap a pause (vaultCoordinator.ts:271);   *)
(* it is not when the index throws.                                        *)
BufferReleased ==
    []<>(session = 0 \/ stopping \/ ~buffering[session] \/ index[session] = "thrown")

(* Pausing, resuming, waking, opening and quitting do not hang on the      *)
(* queue, on a reconciliation or on the watcher (vaultCoordinator.ts:301,  *)
(* 311, 324, 331) once the notes are left alone.                           *)
CallsReturn == <>[](Exited \/ \A c \in Callers : call[c].step \in {"idle", "done"})

(* After each failure or wake-up, and however they overlap, the service    *)
(* that is not stopped has a watcher again (watcherService.ts:125,141).    *)
WatcherComesBack == []<>(session = 0 \/ halted[session] \/ watcher[session] # 0)
=============================================================================
